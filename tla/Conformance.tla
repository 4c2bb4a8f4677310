----------------------------- MODULE Conformance -----------------------------
(***************************************************************************)
(* One check of the conformance suite, run over a fresh store: either the  *)
(* in-memory store or one of the three broken stores on which the suite    *)
(* tests itself (conformance_test.go).  Every check is a script of calls   *)
(* of Consume with what each must return, and assertions about what is     *)
(* durable afterwards.  The calls of one check run at once and meet at a   *)
(* barrier that gives up after a while; those of the others run in order.  *)
(*                                                                         *)
(* Each call writes under a key of its own, so keys are calls.             *)
(***************************************************************************)
EXTENDS Integers, FiniteSets, Sequences

CONSTANTS
  Attempts,   \* how many calls the concurrent check makes
  None

ASSUME TwoCallsOrMore == Attempts \in Nat /\ Attempts >= 2

Calls  == 1 .. Attempts

ASSUME NoneIsNotACall == None \notin Calls

Stores == {"memory", "checkThenAct", "markFirst", "doubleEffect"}

VARIABLES
  store,      \* the store under test
  check,      \* the check that is run
  pc,         \* where each call of Consume is
  result,     \* what it returned
  runs,       \* how often it has run its effect
  mutex,      \* memory: the call that holds the store's mutex
  staged,     \* memory: the calls whose write is staged
  consumed,   \* credentials recorded as spent
  committed,  \* the calls whose write is durable
  inEffect,   \* the concurrent check: how many entries into its effect
  gaveUp,     \* and whether some call left the barrier by its timeout
  verdict     \* of the check

callVars  == <<pc, result, runs>>
storeVars == <<mutex, staged, consumed, committed>>
barrier   == <<inEffect, gaveUp>>
vars      == <<store, check, callVars, storeVars, barrier, verdict>>

-----------------------------------------------------------------------------
(* The checks *)

\* A call, what its effect does and what it must return.
Call(id, effect, want) == [id |-> id, effect |-> effect, want |-> want]

Anything == {"ok", "replay", "effect_error"}

Script ==
  [SpendsOnce       |-> <<Call("a", "write", {"ok"})>>,
   RefusesReplay    |-> <<Call("a", "write", {"ok"}), Call("a", "write", {"replay"})>>,
   DistinctCredentialsBothSpend
                    |-> <<Call("a", "write", {"ok"}), Call("b", "write", {"ok"})>>,
   FailedEffectRollsBackConsumption
                    |-> <<Call("a", "fail", {"effect_error"})>>,
   FailedEffectRollsBackItsOwnWrite
                    |-> <<Call("a", "write_and_fail", {"effect_error"})>>,
   CredentialIsSpendableAfterAFailedEffect
                    |-> <<Call("a", "fail", Anything), Call("a", "write", {"ok"})>>,
   ConcurrentPresentationSpendsExactlyOnce
                    |-> [c \in Calls |-> Call("a", "write", Anything)],
   EffectRunsExactlyOnce
                    |-> <<Call("a", "write", {"ok"})>>]

Checks     == DOMAIN Script
Concurrent == check = "ConcurrentPresentationSpendsExactlyOnce"
Steps      == DOMAIN Script[check]

Returned(r) == {c \in Calls : result[c] = r}

\* Of the concurrent calls, one entered the effect, returned nil and wrote; the
\* others were refused as replays.
SpentExactlyOnce ==
  /\ inEffect <= 1
  /\ Cardinality(Returned("ok")) = 1
  /\ Cardinality(Returned("replay")) = Attempts - 1
  /\ Cardinality(committed) = 1

\* The one call ran its effect once.
RanExactlyOnce == runs[1] = 1

\* What each check asserts when its calls have returned.
Assertions ==
  [SpendsOnce       |-> "a" \in consumed /\ 1 \in committed,
   RefusesReplay    |-> runs[2] = 0 /\ 2 \notin committed,
   DistinctCredentialsBothSpend
                    |-> {"a", "b"} \subseteq consumed /\ {1, 2} \subseteq committed,
   FailedEffectRollsBackConsumption
                    |-> "a" \notin consumed,
   FailedEffectRollsBackItsOwnWrite
                    |-> 1 \notin committed /\ "a" \notin consumed,
   CredentialIsSpendableAfterAFailedEffect
                    |-> 2 \in committed /\ "a" \in consumed,
   ConcurrentPresentationSpendsExactlyOnce
                    |-> SpentExactlyOnce,
   EffectRunsExactlyOnce
                    |-> RanExactlyOnce]

\* Fatalf: a call returned what it must not, and the check ends there.
AsWanted(c) == pc[c] = "done" /\ result[c] \in Script[check][c].want
Aborted     == \E c \in Steps : pc[c] = "done" /\ ~ AsWanted(c)

Init ==
  /\ store     \in Stores
  /\ check     \in Checks
  /\ pc        = [c \in Calls |-> "idle"]
  /\ result    = [c \in Calls |-> "none"]
  /\ runs      = [c \in Calls |-> 0]
  /\ mutex     = None
  /\ staged    = {}
  /\ consumed  = {}
  /\ committed = {}
  /\ inEffect  = 0
  /\ gaveUp    = FALSE
  /\ verdict   = "running"

\* The check starts its next goroutine, or makes its next call.
Start(c) ==
  /\ c \in Steps /\ pc[c] = "idle"
  /\ Concurrent \/ \A b \in 1 .. c - 1 : AsWanted(b)
  /\ pc' = [pc EXCEPT ![c] = "call"]
  /\ UNCHANGED <<store, check, result, runs, storeVars, barrier, verdict>>

\* Every call has returned (wg.Wait), or one was fatal.
Conclude ==
  /\ verdict = "running"
  /\ Aborted \/ \A c \in Steps : pc[c] = "done"
  /\ verdict' = IF ~ Aborted /\ Assertions[check] THEN "passed" ELSE "failed"
  /\ UNCHANGED <<store, check, callVars, storeVars, barrier>>

-----------------------------------------------------------------------------
(* Consume of the four stores, up to the effect *)

\* Only the memory store keeps its mutex; the others give it back at once.
Refuse(c) ==
  /\ pc[c] = "call" /\ mutex = None
  /\ Script[check][c].id \in consumed
  /\ pc'     = [pc EXCEPT ![c] = "done"]
  /\ result' = [result EXCEPT ![c] = "replay"]
  /\ UNCHANGED <<store, check, runs, storeVars, barrier, verdict>>

\* Faulty variant: the memory store gives its mutex back too.
AdmitUnlocked(c) ==
  /\ pc[c] = "call"
  /\ Script[check][c].id \notin consumed
  /\ pc'       = [pc EXCEPT ![c] = "effect"]
  /\ consumed' = IF store = "markFirst" THEN consumed \cup {Script[check][c].id} ELSE consumed
  /\ UNCHANGED <<store, check, result, runs, mutex, staged, committed, barrier, verdict>>

Admit(c) ==
  /\ pc[c] = "call" /\ mutex = None
  /\ Script[check][c].id \notin consumed
  /\ pc'       = [pc EXCEPT ![c] = "effect"]
  /\ mutex'    = IF store = "memory" THEN c ELSE None
  /\ consumed' = IF store = "markFirst" THEN consumed \cup {Script[check][c].id} ELSE consumed
  /\ UNCHANGED <<store, check, result, runs, staged, committed, barrier, verdict>>

-----------------------------------------------------------------------------
(* The effect of the check *)

\* Faulty variant: no barrier, as the check was first written.
RunEffectAtOnce(c) ==
  /\ pc[c] = "effect"
  /\ runs' = [runs EXCEPT ![c] = @ + 1]
  /\ inEffect' = inEffect + 1
  /\ pc'   = [pc EXCEPT ![c] = "write"]
  /\ UNCHANGED <<store, check, result, storeVars, gaveUp, verdict>>

\* The effect counts itself in; the concurrent one then waits at the barrier.
RunEffect(c) ==
  /\ pc[c] = "effect"
  /\ runs' = [runs EXCEPT ![c] = @ + 1]
  /\ inEffect' = inEffect + 1
  /\ pc'   = [pc EXCEPT ![c] = IF Concurrent THEN "barrier" ELSE "write"]
  /\ UNCHANGED <<store, check, result, storeVars, gaveUp, verdict>>

\* The last to enter has closed the barrier.
PassBarrier(c) ==
  /\ pc[c] = "barrier"
  /\ inEffect >= Attempts
  /\ pc' = [pc EXCEPT ![c] = "write"]
  /\ UNCHANGED <<store, check, result, runs, storeVars, barrier, verdict>>

\* Faulty variant: no timeout; the barrier waits for everybody.
WaitForAll(c) == FALSE

\* barrierWait is over before everybody has come.
TimeOut(c) ==
  /\ pc[c] = "barrier"
  /\ inEffect < Attempts
  /\ pc'     = [pc EXCEPT ![c] = "write"]
  /\ gaveUp' = TRUE
  /\ UNCHANGED <<store, check, result, runs, storeVars, inEffect, verdict>>

\* Harness.Write: staged in the memory store's transaction; straight through
\* in the broken stores.
Write(c) ==
  /\ pc[c] = "write"
  /\ pc' = [pc EXCEPT ![c] = "return"]
  /\ LET writes == IF Script[check][c].effect = "fail" THEN {} ELSE {c}
     IN  IF store = "memory"
         THEN staged' = staged \cup writes /\ UNCHANGED committed
         ELSE committed' = committed \cup writes /\ UNCHANGED staged
  /\ UNCHANGED <<store, check, result, runs, mutex, consumed, barrier, verdict>>

-----------------------------------------------------------------------------
(* Consume of the four stores, after the effect *)

Failing(c) == Script[check][c].effect # "write"

\* The effect returned an error, which is returned: nothing is undone but what
\* the memory store has staged.
EffectFailed(c) ==
  /\ pc[c] = "return" /\ Failing(c)
  /\ pc'     = [pc EXCEPT ![c] = "done"]
  /\ result' = [result EXCEPT ![c] = "effect_error"]
  /\ mutex'  = None
  /\ staged' = staged \ {c}
  /\ UNCHANGED <<store, check, runs, consumed, committed, barrier, verdict>>

\* The bug of the third store: the effect runs a second time.
RunAgain(c) ==
  /\ pc[c] = "return" /\ ~ Failing(c)
  /\ store = "doubleEffect" /\ runs[c] = 1
  /\ pc' = [pc EXCEPT ![c] = "effect"]
  /\ UNCHANGED <<store, check, result, runs, storeVars, barrier, verdict>>

\* Faulty variant: the memory store forgets to record.
FinishUnrecorded(c) ==
  /\ pc[c] = "return" /\ ~ Failing(c)
  /\ store = "doubleEffect" => runs[c] = 2
  /\ pc'        = [pc EXCEPT ![c] = "done"]
  /\ result'    = [result EXCEPT ![c] = "ok"]
  /\ mutex'     = None
  /\ committed' = committed \cup staged
  /\ staged'    = {}
  /\ UNCHANGED <<store, check, runs, consumed, barrier, verdict>>

\* The credential is marked as spent, and what was staged becomes durable.
Finish(c) ==
  /\ pc[c] = "return" /\ ~ Failing(c)
  /\ store = "doubleEffect" => runs[c] = 2
  /\ pc'        = [pc EXCEPT ![c] = "done"]
  /\ result'    = [result EXCEPT ![c] = "ok"]
  /\ mutex'     = None
  /\ consumed'  = consumed \cup {Script[check][c].id}
  /\ committed' = committed \cup staged
  /\ staged'    = {}
  /\ UNCHANGED <<store, check, runs, barrier, verdict>>

-----------------------------------------------------------------------------
(* The system *)

Step(c) ==
  \/ Start(c) \/ Refuse(c) \/ Admit(c)
  \/ RunEffect(c) \/ PassBarrier(c) \/ TimeOut(c) \/ Write(c)
  \/ EffectFailed(c) \/ RunAgain(c) \/ Finish(c)

Next ==
  \/ \E c \in Calls : Step(c)
  \/ Conclude

\* Goroutines keep running and time passes, so that timeouts come.
Spec == Init /\ [][Next]_vars /\ WF_vars(Conclude) /\ \A c \in Calls : WF_vars(Step(c))

-----------------------------------------------------------------------------
(* Properties *)

\* A correct store passes every check, however its calls are scheduled and
\* whichever timeouts fire: the suite accuses nobody wrongly.
CorrectStorePasses == store = "memory" => verdict # "failed"

\* What the self-test asks of each broken store (mustCatch).
MustCatch ==
  [checkThenAct |-> {"ConcurrentPresentationSpendsExactlyOnce",
                     "FailedEffectRollsBackItsOwnWrite"},
   markFirst    |-> {"FailedEffectRollsBackConsumption",
                     "FailedEffectRollsBackItsOwnWrite",
                     "CredentialIsSpendableAfterAFailedEffect"},
   doubleEffect |-> {"EffectRunsExactlyOnce"}]

\* Two presentations have run their effect, at once or one after the other.
RanTwice == \E b \in Calls : \E c \in Calls \ {b} : runs[b] # 0 /\ runs[c] # 0

\* No broken store passes a check that was built to refuse it, whatever the
\* schedule: calls that overlap only in part are told from one that ran alone,
\* though the barrier opens for none of them.  What is left to chance is a run
\* in which a call gives up at the barrier before a second one reaches it, and
\* none ever does.
BrokenStoresAreCaught ==
  store # "memory" /\ check \in MustCatch[store] /\ (gaveUp => RanTwice)
    => verdict # "passed"

\* The broken stores behave in a quiet environment (conformance_test.go:19-21),
\* so the suite does not refuse everything.
QuietChecksPass ==
  check \in {"SpendsOnce", "RefusesReplay", "DistinctCredentialsBothSpend"}
    => verdict # "failed"

\* Every check ends, over every store: a barrier that one call alone can reach
\* does not hold the suite up.
CheckEnds == <>(verdict # "running")
=============================================================================
