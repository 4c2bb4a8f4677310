CONSTANTS
  None = None
  Version <- MCVersion
  Contents <- MCContents
  Authorities <- MCAuthorities
  Zones = {"UTC", "local"}
SPECIFICATION Spec
INVARIANTS SurvivesTheStore IntactMeansUnaltered MatchesWhatItShows
