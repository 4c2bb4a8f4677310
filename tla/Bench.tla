-------------------------------- MODULE Bench --------------------------------
(***************************************************************************)
(* bench/main.go: the sections main runs one after the other against one   *)
(* store, and what each of them counts.  The throughput sections feed a    *)
(* pool of workers over channels; the others are loops of one goroutine.   *)
(*                                                                         *)
(* The store is external here: a correct one, of which any call may also   *)
(* fail, with the credential spent or not when the caller cannot tell; and *)
(* a credential may have expired by the time that it is presented, which   *)
(* takes two minutes and the skew.  Mint does not fail for the payments    *)
(* that load yields.                                                       *)
(***************************************************************************)
EXTENDS Integers, Sequences, FiniteSets

CONSTANTS
  Payments,           \* the workload: references, positive numbers, in order
  HotSet, SpreadSet,  \* the cohorts of benchContention, sequences of payments
  Workers,            \* the goroutines of a pool
  Capacity,           \* of its channel of results
  Sample,             \* how many payments the adversarial section spends
  Repointed,          \* how many it repoints
  Failing,            \* how many the failure section takes
  FailEvery,
  Disturbances,       \* what may go wrong: "store" errors, "expiry"
  MaxFaults           \* bound: how often that happens in one run of the program

ASSUME WorkloadIsPayments ==
  {Payments, HotSet, SpreadSet} \subseteq Seq(Nat \ {0})
ASSUME CountsAreNatural == {Sample, Repointed, Failing, MaxFaults} \subseteq Nat
ASSUME SamplesAreTaken == /\ Repointed <= Sample /\ Sample <= Len(Payments)
                          /\ Failing <= Len(Payments)
                          /\ Len(HotSet) <= Len(SpreadSet)
ASSUME PoolExists      == /\ IsFiniteSet(Workers) /\ Workers # {}
                          /\ Capacity \in Nat \ {0} /\ FailEvery \in Nat \ {0}
ASSUME KindsOfFault    == Disturbances \subseteq {"store", "expiry"}

\* main: two repeats of the full path, then the other sections.
Sections == <<"full", "full", "spend", "replay", "repoint", "failure",
              "hot", "spread", "control">>

VARIABLES
  section,        \* index of the section that runs
  i,              \* the payment it is at
  worker,         \* what each worker of the pool does, with which payment
  inClosed,       \* the pool's unbuffered channel in
  results,        \* its buffered channel of results
  resultsClosed,
  wg,             \* the pool's WaitGroup: workers that have not called Done
  panicked,       \* a goroutine has panicked, which ends the program
  spent,          \* the store's consumption records
  faults,         \* calls so far that a store error or an expiry has spoilt
  list,           \* the credentials benchAdversarial has seen spent
  measured,       \* of each section, the calls that succeeded
  errors,         \* of each section, the errors classified
  count,          \* the other counters of the report
  unrefused       \* replays that nobody refused: accepted, or failed in the store

pool     == <<worker, inClosed, results, resultsClosed, wg, panicked>>
database == <<spent, faults>>
counters == <<measured, errors, count, unrefused>>
vars     == <<section, i, pool, database, list, counters>>

ReplayCounters  == {"replayRefused", "replayAccepted"}
RepointCounters == {"repointRefused", "repointAccepted", "burned"}
FailureCounters == {"failed", "recovered", "lost"}
Counters        == ReplayCounters \cup RepointCounters \cup FailureCounters

Running == section <= Len(Sections) /\ ~ panicked
Now     == Sections[section]
Pools   == {"full", "hot", "spread", "control"}

-----------------------------------------------------------------------------
(* Credentials and the store *)

\* Where the identifiers of a section's credentials begin, in millions.
BaseInFull        == 0
BaseInAdversarial == [spend |-> 1, repoint |-> 2]
BaseInFailure     == 3

\* Faulty variant of BaseInContention: one range for all, as it was first.
OneRange == [hot |-> 5, spread |-> 5, control |-> 5]

BaseInContention == [hot |-> 5, spread |-> 6, control |-> 7]

\* The range of the number n that credential makes an identifier of.
IdBase(s) ==
  CASE s \in DOMAIN BaseInAdversarial -> BaseInAdversarial[s]
    [] s \in DOMAIN BaseInContention  -> BaseInContention[s]
    [] s = "failure"                  -> BaseInFailure
    [] OTHER                          -> BaseInFull

\* The payments a section works through.
Cohort(s) ==
  CASE s = "full"     -> Payments
    [] s = "spend"    -> SubSeq(Payments, 1, Sample)
    [] s = "repoint"  -> SubSeq(Payments, 1, Repointed)
    [] s = "failure"  -> SubSeq(Payments, 1, Failing)
    [] s = "hot"      -> HotSet
    [] OTHER          -> SubSeq(SpreadSet, 1, Len(HotSet))

\* The credential minted for the k-th payment of a section, bound to it.
credential(s, k) == [payment |-> Cohort(s)[k], n |-> <<IdBase(s), k>>]

\* Authorise credential c for payment p with `used' spent and f calls spoilt:
\* what it returns, and what is spent then.  A credential that has expired, and
\* then a binding that does not match, are refused before the store is asked.
Authorise(c, p, fails, used, f) ==
  LET Answer(err, u, g) == [err |-> err, used |-> u, faults |-> g]
      May(disturbance)  == disturbance \in Disturbances /\ f < MaxFaults
  IN  (IF May("expiry") THEN {Answer("expired", used, f + 1)} ELSE {})
      \cup
      IF c.payment # p THEN {Answer("binding_mismatch", used, f)}
      ELSE (IF c \in used  THEN {Answer("replay", used, f)}
            ELSE IF fails  THEN {Answer("effect_error", used, f)}
            ELSE                {Answer("ok", used \cup {c}, f)})
           \cup {Answer("store_error", u, f + 1) :
                   u \in IF May("store") THEN {used, IF fails THEN used ELSE used \cup {c}}
                         ELSE {}}

-----------------------------------------------------------------------------
(* main *)

Idle == [pc |-> "receive", at |-> 0, ok |-> FALSE]

Init ==
  /\ section = 1 /\ i = 1
  /\ worker = [w \in Workers |-> Idle]
  /\ inClosed = FALSE /\ results = <<>> /\ resultsClosed = FALSE
  /\ wg = Cardinality(Workers) /\ panicked = FALSE
  /\ spent = {} /\ faults = 0 /\ list = <<>> /\ unrefused = 0
  /\ measured = [k \in DOMAIN Sections |-> 0]
  /\ errors   = [k \in DOMAIN Sections |-> 0]
  /\ count    = [c \in Counters |-> 0]

SectionDone ==
  CASE Now \in Pools  -> resultsClosed /\ results = <<>>
    [] Now = "replay" -> i > Len(list)
    [] OTHER          -> i > Len(Cohort(Now))

\* The next section, whose pool is a new one; the tables are truncated before
\* each run of the full path.
Advance ==
  /\ Running /\ SectionDone
  /\ section' = section + 1 /\ i' = 1
  /\ worker' = [w \in Workers |-> Idle]
  /\ inClosed' = FALSE /\ results' = <<>> /\ resultsClosed' = FALSE
  /\ wg' = Cardinality(Workers)
  /\ spent' = IF section < Len(Sections) /\ Sections[section + 1] = "full" THEN {} ELSE spent
  /\ UNCHANGED <<panicked, faults, list, counters>>

-----------------------------------------------------------------------------
(* The pool: benchFull, and run of benchContention *)

InPool(w, pc) == Running /\ Now \in Pools /\ worker[w].pc = pc

\* The feeder hands the next payment to a worker that is ready for it.
Feed(w) ==
  /\ InPool(w, "receive") /\ i <= Len(Cohort(Now))
  /\ i' = i + 1
  /\ worker' = [worker EXCEPT ![w].pc = "authorise", ![w].at = i]
  /\ UNCHANGED <<section, inClosed, results, resultsClosed, wg, panicked,
                 database, list, counters>>

\* Faulty variant: the feeder returns without closing in.
LeaveOpen == FALSE

\* Everything is handed out: close(in).
CloseIn ==
  /\ Running /\ Now \in Pools /\ i > Len(Cohort(Now)) /\ ~ inClosed
  /\ inClosed' = TRUE
  /\ UNCHANGED <<section, i, worker, results, resultsClosed, wg, panicked,
                 database, list, counters>>

\* A worker mints a credential and presents it; benchContention sends on only
\* what succeeded.
Work(w) ==
  /\ InPool(w, "authorise")
  /\ \E o \in Authorise(credential(Now, worker[w].at), Cohort(Now)[worker[w].at],
                        FALSE, spent, faults) :
       /\ spent' = o.used /\ faults' = o.faults
       /\ worker' = [worker EXCEPT
            ![w].pc = IF o.err = "ok" \/ Now = "full" THEN "send" ELSE "receive",
            ![w].ok = o.err = "ok"]
  /\ UNCHANGED <<section, i, inClosed, results, resultsClosed, wg, panicked, list, counters>>

\* results <- r waits for room in the channel; on a closed one it panics.
Send(w) ==
  /\ InPool(w, "send")
  /\ resultsClosed \/ Len(results) < Capacity
  /\ panicked' = resultsClosed
  /\ results' = IF resultsClosed THEN results ELSE Append(results, worker[w].ok)
  /\ worker'  = [worker EXCEPT ![w].pc = "receive"]
  /\ UNCHANGED <<section, i, inClosed, resultsClosed, wg, database, list, counters>>

\* range in is over: the worker returns, and its deferred wg.Done panics if
\* nobody is left to wait for.
Leave(w) ==
  /\ InPool(w, "receive") /\ inClosed
  /\ worker' = [worker EXCEPT ![w].pc = "gone"]
  /\ wg' = wg - 1 /\ panicked' = (wg = 0)
  /\ UNCHANGED <<section, i, inClosed, results, resultsClosed, database, list, counters>>

\* Faulty variant: results is closed when in is.
CloseEarly ==
  /\ Running /\ Now \in Pools /\ ~ resultsClosed
  /\ inClosed
  /\ resultsClosed' = TRUE
  /\ UNCHANGED <<section, i, worker, inClosed, results, wg, panicked, database, list, counters>>

\* wg.Wait(); close(results)
CloseResults ==
  /\ Running /\ Now \in Pools /\ ~ resultsClosed
  /\ wg = 0
  /\ resultsClosed' = TRUE
  /\ UNCHANGED <<section, i, worker, inClosed, results, wg, panicked, database, list, counters>>

\* Faulty variant: errors are received and forgotten.
CollectSuccesses ==
  /\ Running /\ results # <<>>
  /\ results' = Tail(results)
  /\ measured' = [measured EXCEPT ![section] = @ + (IF Head(results) THEN 1 ELSE 0)]
  /\ UNCHANGED <<section, i, worker, inClosed, resultsClosed, wg, panicked, database, list,
                 errors, count, unrefused>>

\* The collector receives one result and counts it.
Collect ==
  /\ Running /\ results # <<>>
  /\ results' = Tail(results)
  /\ IF Head(results)
     THEN measured' = [measured EXCEPT ![section] = @ + 1] /\ UNCHANGED errors
     ELSE errors'   = [errors EXCEPT ![section] = @ + 1]   /\ UNCHANGED measured
  /\ UNCHANGED <<section, i, worker, inClosed, resultsClosed, wg, panicked, database, list,
                 count, unrefused>>

-----------------------------------------------------------------------------
(* The loops: benchAdversarial and benchFailure *)

InLoop(s) == Running /\ Now = s /\ ~ SectionDone /\ i' = i + 1

\* c := count with these counters one higher.
Bump(names) == count' = [c \in Counters |-> count[c] + (IF c \in names THEN 1 ELSE 0)]

\* Spend them: the credential is listed if the call returned nil.
Spend ==
  /\ InLoop("spend")
  /\ \E o \in Authorise(credential(Now, i), Payments[i], FALSE, spent, faults) :
       /\ spent' = o.used /\ faults' = o.faults
       /\ list' = IF o.err = "ok" THEN Append(list, credential(Now, i)) ELSE list
  /\ UNCHANGED <<section, pool, counters>>

\* Replay each one, against the payment at its place in the list.
Replay ==
  /\ InLoop("replay")
  /\ \E o \in Authorise(list[i], Payments[i], FALSE, spent, faults) :
       /\ spent' = o.used /\ faults' = o.faults
       /\ Bump({IF o.err = "replay" THEN "replayRefused" ELSE "replayAccepted"})
       /\ unrefused' = unrefused + (IF o.err \in {"ok", "store_error"} THEN 1 ELSE 0)
  /\ UNCHANGED <<section, pool, list, measured, errors>>

\* Present a fresh credential for an altered transaction (0 is none of the
\* workload), then for the genuine one; what has expired stays expired.
Repoint ==
  /\ InLoop("repoint")
  /\ \E o \in Authorise(credential(Now, i), 0, FALSE, spent, faults) :
     \E g \in Authorise(credential(Now, i), Payments[i], FALSE, o.used, o.faults) :
       /\ o.err = "expired" => g.err = "expired"
       /\ spent' = g.used /\ faults' = g.faults
       /\ Bump({IF o.err = "binding_mismatch" THEN "repointRefused" ELSE "repointAccepted"}
               \cup {c \in {"burned"} : g.err # "ok"})
  /\ UNCHANGED <<section, pool, list, measured, errors, unrefused>>

\* Let the effect of every FailEvery-th payment fail, and retry the credential
\* of those whose own failure came back.
FailAndRetry ==
  /\ InLoop("failure")
  /\ LET shouldFail == (i - 1) % FailEvery = 0
         c          == credential(Now, i)
     IN  \E o \in Authorise(c, Payments[i], shouldFail, spent, faults) :
           IF o.err = "effect_error"
           THEN \E g \in Authorise(c, Payments[i], FALSE, o.used, o.faults) :
                  /\ spent' = g.used /\ faults' = g.faults
                  /\ Bump({"failed", IF g.err = "ok" THEN "recovered" ELSE "lost"})
           ELSE /\ spent' = o.used /\ faults' = o.faults
                /\ Bump({c2 \in {"failed"} : shouldFail})
  /\ UNCHANGED <<section, pool, list, measured, errors, unrefused>>

-----------------------------------------------------------------------------
(* The program *)

Next ==
  \/ \E w \in Workers : Feed(w) \/ Work(w) \/ Send(w) \/ Leave(w)
  \/ CloseIn \/ CloseResults \/ Collect
  \/ Spend \/ Replay \/ Repoint \/ FailAndRetry
  \/ Advance

\* Some goroutine that can run does.
Spec == Init /\ [][Next]_vars /\ WF_vars(Next)

-----------------------------------------------------------------------------
(* Properties *)

\* No goroutine of a pool panics, which would end the program without a report:
\* nobody sends a result when the channel is closed, and no worker calls Done
\* more often than the WaitGroup was told.
PoolNeverPanics == ~ panicked

Over(s) == {k \in DOMAIN Sections : k < section /\ Sections[k] = s}

\* Every payment of the full path is counted once, as measured or as an error,
\* and no more errors are reported than calls were spoilt: the throughput and
\* the error counts of the report are about the same run.
EveryPaymentIsCounted ==
  \A k \in Over("full") :
    measured[k] + errors[k] = Len(Payments) /\ errors[k] <= faults

\* If the store makes no error and no credential expires, the report says so:
\* all payments measured in every pool, all replays and repointings refused, no
\* credential burned or lost, which no section may spoil for a later one.
CleanRunIsReportedClean ==
  faults = 0 =>
    /\ \A s \in Pools : \A k \in Over(s) : measured[k] = Len(Cohort(s))
    /\ count.replayRefused = Sample \/ Over("replay") = {}
    /\ count.repointRefused = Repointed \/ Over("repoint") = {}
    /\ count.recovered = count.failed
    /\ count.replayAccepted = 0 /\ count.repointAccepted = 0
    /\ count.burned = 0 /\ count.lost = 0

\* The program reaches its end: no goroutine of a pool waits for another for
\* ever, and none brings the others down.
BenchEnds == <>(section > Len(Sections))

\* A replay that was refused is not reported as accepted: less than all refused
\* "is not a performance result, it is a broken control" (main.go:429-431).
AcceptedMeansAccepted == count.replayAccepted <= unrefused
=============================================================================
