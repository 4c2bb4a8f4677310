----------------------------- MODULE BenchProofs -----------------------------
(***************************************************************************)
(* What Bench promises, for every workload, every number of workers and    *)
(* every bound on what goes wrong.  The invariant is built in layers,   *)
(* each proved with the ones below it: the shape of the run; that every    *)
(* credential a section presents is fresh; the accounts of the pools; the  *)
(* accounts of the loops when nothing goes wrong.                          *)
(***************************************************************************)
EXTENDS Bench, FiniteSetTheorems, TLAPS

\* A section with a pool runs.
InPools == Running /\ Now \in Pools

-----------------------------------------------------------------------------
(* The sections, their identifiers and their payments *)

\* The order in which main runs its sections.
LEMMA Order ==
  /\ Len(Sections) = 9 /\ DOMAIN Sections = 1 .. 9
  /\ Sections[1] = "full" /\ Sections[2] = "full" /\ Sections[3] = "spend"
  /\ Sections[4] = "replay" /\ Sections[5] = "repoint" /\ Sections[6] = "failure"
  /\ Sections[7] = "hot" /\ Sections[8] = "spread" /\ Sections[9] = "control"
  BY DEF Sections

\* A section that mints credentials draws them from a range that no section
\* before it draws from, but for the second run of the full path.
LEMMA RangesAreApart ==
  ASSUME NEW j \in 1 .. 9, NEW k \in 1 .. 9, j < k,
         Sections[j] # "replay", Sections[k] \notin {"full", "replay"}
  PROVE  IdBase(Sections[j]) # IdBase(Sections[k])
  <1>1. /\ IdBase("full") = 0 /\ IdBase("spend") = 1 /\ IdBase("repoint") = 2
        /\ IdBase("failure") = 3 /\ IdBase("hot") = 5 /\ IdBase("spread") = 6
        /\ IdBase("control") = 7
    BY DEF IdBase, BaseInFull, BaseInAdversarial, BaseInFailure, BaseInContention
  <1>2. /\ j \in {1, 2, 3, 4, 5, 6, 7, 8, 9}
        /\ k \in {1, 2, 3, 4, 5, 6, 7, 8, 9}
    OBVIOUS
  <1> QED BY <1>1, <1>2, Order

\* The payments of each section: those of the loops are the first of the
\* workload, and none is the 0 of the altered transaction.
LEMMA CohortsAreWorkload ==
  /\ \A k \in 1 .. 9 : /\ Cohort(Sections[k]) \in Seq(Nat \ {0})
                       /\ Len(Cohort(Sections[k])) \in Nat
  /\ Cohort("full") = Payments /\ Len(Payments) \in Nat
  /\ \A s \in {"spend", "repoint", "failure"} :
       /\ Len(Cohort(s)) \in Nat /\ Len(Cohort(s)) <= Len(Payments)
       /\ \A k \in 1 .. Len(Cohort(s)) : Cohort(s)[k] = Payments[k]
  /\ Len(Cohort("spend")) = Sample /\ Len(Cohort("repoint")) = Repointed
  <1> USE WorkloadIsPayments, CountsAreNatural, SamplesAreTaken
  <1>1. ASSUME NEW s \in Seq(Nat \ {0}), NEW n \in Nat, n <= Len(s)
        PROVE  /\ SubSeq(s, 1, n) \in Seq(Nat \ {0}) /\ Len(SubSeq(s, 1, n)) = n
               /\ \A k \in 1 .. n : SubSeq(s, 1, n)[k] = s[k]
    BY <1>1
  <1>2. /\ Cohort("full") = Payments /\ Cohort("hot") = HotSet
        /\ Cohort("spend") = SubSeq(Payments, 1, Sample)
        /\ Cohort("repoint") = SubSeq(Payments, 1, Repointed)
        /\ Cohort("failure") = SubSeq(Payments, 1, Failing)
        /\ Cohort("replay") = SubSeq(SpreadSet, 1, Len(HotSet))
        /\ Cohort("spread") = SubSeq(SpreadSet, 1, Len(HotSet))
        /\ Cohort("control") = SubSeq(SpreadSet, 1, Len(HotSet))
    BY DEF Cohort
  <1>3. /\ Payments \in Seq(Nat \ {0}) /\ HotSet \in Seq(Nat \ {0})
        /\ SpreadSet \in Seq(Nat \ {0}) /\ Len(HotSet) \in Nat /\ Len(Payments) \in Nat
        /\ Sample \in Nat /\ Repointed \in Nat /\ Failing \in Nat
    OBVIOUS
  <1>4. \A k \in 1 .. 9 : /\ Cohort(Sections[k]) \in Seq(Nat \ {0})
                          /\ Len(Cohort(Sections[k])) \in Nat
    <2>1. \A k \in 1 .. 9 : Sections[k] \in {"full", "spend", "replay", "repoint",
                                             "failure", "hot", "spread", "control"}
      <3>1. \A k \in 1 .. 9 : \/ k = 1 \/ k = 2 \/ k = 3 \/ k = 4 \/ k = 5
                              \/ k = 6 \/ k = 7 \/ k = 8 \/ k = 9
        OBVIOUS
      <3> QED BY <3>1, Order
    <2>3. /\ SubSeq(SpreadSet, 1, Len(HotSet)) \in Seq(Nat \ {0})
          /\ SubSeq(Payments, 1, Sample) \in Seq(Nat \ {0})
          /\ SubSeq(Payments, 1, Repointed) \in Seq(Nat \ {0})
          /\ SubSeq(Payments, 1, Failing) \in Seq(Nat \ {0})
      BY <1>1, <1>3
    <2> DEFINE Fine(s) == Cohort(s) \in Seq(Nat \ {0})
    <2>2. /\ Fine("full") /\ Fine("spend") /\ Fine("replay") /\ Fine("repoint")
          /\ Fine("failure") /\ Fine("hot") /\ Fine("spread") /\ Fine("control")
      BY <1>2, <1>3, <2>3
    <2>4. \A k \in 1 .. 9 : Fine(Sections[k])
      <3> HIDE DEF Fine
      <3> QED BY <2>1, <2>2
    <2> SUFFICES ASSUME NEW k \in 1 .. 9
                 PROVE  Fine(Sections[k]) /\ Len(Cohort(Sections[k])) \in Nat
      OBVIOUS
    <2>5. Fine(Sections[k])
      BY <2>4
    <2> QED BY <2>5
  <1>5. \A s \in {"spend", "repoint", "failure"} :
          /\ Len(Cohort(s)) \in Nat /\ Len(Cohort(s)) <= Len(Payments)
          /\ \A k \in 1 .. Len(Cohort(s)) : Cohort(s)[k] = Payments[k]
    BY <1>1, <1>2, <1>3
  <1> QED BY <1>1, <1>2, <1>3, <1>4, <1>5

\* Answer o to credential c presented for p, with `used' spent and f calls spoilt
\* so far, is one that the store accounts for.
Fits(o, c, p, fails, used, f) ==
  /\ o.faults \in {f, f + 1}
  /\ o.used = used \/ o.used = used \cup {c}
  /\ o.err = "ok" => c \in o.used
  /\ c.payment # p => o.used = used /\ (o.faults = f => o.err = "binding_mismatch")
  /\ c.payment = p /\ o.faults = f =>
       o.err = IF c \in used THEN "replay" ELSE IF fails THEN "effect_error" ELSE "ok"
  /\ o.err = "effect_error" => o.used = used /\ o.faults = f

\* Every answer of Authorise is accounted for: an error that neither the
\* binding, nor a record, nor the effect explains is the store's or the clock's.
LEMMA Answers ==
  ASSUME NEW c, NEW p, NEW fails, NEW used, NEW f \in Nat,
         NEW o \in Authorise(c, p, fails, used, f)
  PROVE  Fits(o, c, p, fails, used, f)
  BY DEF Authorise, Fits

-----------------------------------------------------------------------------
(* The shape of the run *)

\* The sets that the variables range over; named, so that a proof opens only
\* the one it is about.
Outcomes    == BOOLEAN
Successes   == {TRUE}
Tallies     == [1 .. 9 -> Nat]
Credentials == {credential("spend", k) : k \in Nat}
Jobs        == [Workers -> [pc : {"receive", "authorise", "send", "gone"},
                            at : Nat, ok : BOOLEAN]]

\* Of what kind the variables are.
Types ==
  /\ section \in 1 .. 10 /\ i \in Nat \ {0}
  /\ worker \in Jobs
  /\ results \in Seq(Outcomes)
  /\ faults \in Nat /\ list \in Seq(Credentials)
  /\ measured \in Tallies /\ errors \in Tallies /\ count \in [Counters -> Nat]

\* results is closed only when no worker can send any more.
SendersGone == resultsClosed => \A w \in Workers : worker[w].pc = "gone"

\* Outside the pools nothing is in the channels and nobody works; in a pool the
\* channels are closed in their order; and a section stops at its last payment.
Phases ==
  /\ ~ InPools => /\ results = <<>> /\ ~ inClosed /\ ~ resultsClosed
                  /\ \A w \in Workers : worker[w].pc = "receive"
  /\ Running /\ inClosed => i > Len(Cohort(Now))
  /\ \A w \in Workers : worker[w].pc = "gone" => inClosed
  /\ SendersGone
  /\ Running => i <= (IF Now = "replay" THEN Len(list) ELSE Len(Cohort(Now))) + 1

\* The workers that CloseResults still waits for.
Waiting == {w \in Workers : worker[w].pc # "gone"}

\* The WaitGroup counts them, and nothing has gone wrong with it or with results.
Awaited == wg = Cardinality(Waiting) /\ ~ panicked

\* No payment is with two workers at once.
Apart ==
  \A w \in Workers : worker[w].pc = "authorise" =>
    /\ worker[w].at \in 1 .. i - 1
    /\ \A x \in Workers : worker[x].pc = "authorise" /\ worker[x].at = worker[w].at => x = w

Shape == Types /\ Phases /\ Apart /\ Awaited

\* A step of a loop takes place in its section, before the last payment.
LEMMA LoopStep ==
  ASSUME Types, NEW s \in {"spend", "replay", "repoint", "failure"}, InLoop(s)
  PROVE  /\ Running /\ Now = s /\ ~ InPools /\ section \in 1 .. 9 /\ i' = i + 1
         /\ i <= IF s = "replay" THEN Len(list) ELSE Len(Cohort(s))
         /\ section = CASE s = "spend" -> 3 [] s = "replay" -> 4 [] s = "repoint" -> 5
                        [] s = "failure" -> 6
  <1>1. Running /\ Now = s /\ ~ SectionDone /\ i' = i + 1
    BY DEF InLoop
  <1>2. section \in 1 .. 9 /\ Sections[section] = s
    BY <1>1, Order DEF Types, Running, Now
  <1>3. section = CASE s = "spend" -> 3 [] s = "replay" -> 4 [] s = "repoint" -> 5
                    [] s = "failure" -> 6
    <2>1. \/ section = 1 \/ section = 2 \/ section = 3 \/ section = 4 \/ section = 5
          \/ section = 6 \/ section = 7 \/ section = 8 \/ section = 9
      BY <1>2
    <2> QED BY <1>2, <2>1, Order
  <1>4. Len(list) \in Nat /\ Len(Cohort(s)) \in Nat
    <2>1. Len(list) \in Nat
      BY DEF Types
    <2>2. Len(Cohort(s)) \in Nat
      BY <1>2, CohortsAreWorkload
    <2> QED BY <2>1, <2>2
  <1>5. i <= IF s = "replay" THEN Len(list) ELSE Len(Cohort(s))
    BY <1>1, <1>4 DEF SectionDone, Pools, Types
  <1> QED BY <1>1, <1>2, <1>3, <1>5 DEF InPools, Pools

\* A worker's step: what the store answers, and where that leaves it.
LEMMA WorkStep ==
  ASSUME Types, NEW w \in Workers, Work(w)
  PROVE  \E o : /\ Fits(o, credential(Now, worker[w].at), Cohort(Now)[worker[w].at],
                        FALSE, spent, faults)
                /\ spent' = o.used /\ faults' = o.faults
                /\ worker' = [worker EXCEPT
                     ![w].pc = IF o.err = "ok" \/ Now = "full" THEN "send" ELSE "receive",
                     ![w].ok = o.err = "ok"]
  <1>1. PICK o \in Authorise(credential(Now, worker[w].at), Cohort(Now)[worker[w].at],
                             FALSE, spent, faults) :
          /\ spent' = o.used /\ faults' = o.faults
          /\ worker' = [worker EXCEPT
               ![w].pc = IF o.err = "ok" \/ Now = "full" THEN "send" ELSE "receive",
               ![w].ok = o.err = "ok"]
    BY Zenon DEF Work
  <1>2. Fits(o, credential(Now, worker[w].at), Cohort(Now)[worker[w].at], FALSE, spent, faults)
    BY Answers DEF Types
  <1> QED BY <1>1, <1>2, Zenon

\* A step of the first loop of benchAdversarial.
LEMMA SpendStep ==
  ASSUME Types, Spend
  PROVE  \E o : /\ Fits(o, credential(Now, i), Payments[i], FALSE, spent, faults)
                /\ spent' = o.used /\ faults' = o.faults
                /\ list' = IF o.err = "ok" THEN Append(list, credential(Now, i)) ELSE list
  <1>1. PICK o \in Authorise(credential(Now, i), Payments[i], FALSE, spent, faults) :
          /\ spent' = o.used /\ faults' = o.faults
          /\ list' = IF o.err = "ok" THEN Append(list, credential(Now, i)) ELSE list
    BY DEF Spend
  <1>2. Fits(o, credential(Now, i), Payments[i], FALSE, spent, faults)
    BY Answers DEF Types
  <1> QED BY <1>1, <1>2

\* A step of its replay loop.
LEMMA ReplayStep ==
  ASSUME Types, Replay
  PROVE  \E o : /\ Fits(o, list[i], Payments[i], FALSE, spent, faults)
                /\ spent' = o.used /\ faults' = o.faults
                /\ Bump({IF o.err = "replay" THEN "replayRefused" ELSE "replayAccepted"})
  <1>1. PICK o \in Authorise(list[i], Payments[i], FALSE, spent, faults) :
          /\ spent' = o.used /\ faults' = o.faults
          /\ Bump({IF o.err = "replay" THEN "replayRefused" ELSE "replayAccepted"})
    BY DEF Replay
  <1>2. Fits(o, list[i], Payments[i], FALSE, spent, faults)
    BY Answers DEF Types
  <1> QED BY <1>1, <1>2

\* A step of its loop for altered transactions: both presentations.
LEMMA RepointStep ==
  ASSUME Types, Repoint
  PROVE  \E o, g :
           /\ Fits(o, credential(Now, i), 0, FALSE, spent, faults)
           /\ Fits(g, credential(Now, i), Payments[i], FALSE, o.used, o.faults)
           /\ spent' = g.used /\ faults' = g.faults /\ o.faults \in Nat
           /\ Bump({IF o.err = "binding_mismatch" THEN "repointRefused" ELSE "repointAccepted"}
                   \cup {c \in {"burned"} : g.err # "ok"})
  <1>1. PICK o \in Authorise(credential(Now, i), 0, FALSE, spent, faults) :
        \E g \in Authorise(credential(Now, i), Payments[i], FALSE, o.used, o.faults) :
          /\ spent' = g.used /\ faults' = g.faults
          /\ Bump({IF o.err = "binding_mismatch" THEN "repointRefused" ELSE "repointAccepted"}
                  \cup {c \in {"burned"} : g.err # "ok"})
    BY DEF Repoint
  <1>2. Fits(o, credential(Now, i), 0, FALSE, spent, faults)
    BY Answers DEF Types
  <1>3. o.faults \in Nat
    BY <1>2 DEF Types, Fits
  <1>4. PICK g \in Authorise(credential(Now, i), Payments[i], FALSE, o.used, o.faults) :
          /\ spent' = g.used /\ faults' = g.faults
          /\ Bump({IF o.err = "binding_mismatch" THEN "repointRefused" ELSE "repointAccepted"}
                  \cup {c \in {"burned"} : g.err # "ok"})
    BY <1>1
  <1>5. Fits(g, credential(Now, i), Payments[i], FALSE, o.used, o.faults)
    BY <1>3, Answers
  <1> QED BY <1>2, <1>3, <1>4, <1>5

\* The effect of this payment is one that fails.
ShouldFail == (i - 1) % FailEvery = 0

\* A step of benchFailure: the payment, and the retry if its own effect failed.
LEMMA FailStep ==
  ASSUME Types, FailAndRetry
  PROVE  \E o :
           /\ Fits(o, credential(Now, i), Payments[i], ShouldFail, spent, faults)
           /\ o.faults \in Nat
           /\ \/ /\ o.err = "effect_error"
                 /\ \E g : /\ Fits(g, credential(Now, i), Payments[i], FALSE, o.used, o.faults)
                           /\ spent' = g.used /\ faults' = g.faults
                           /\ Bump({"failed", IF g.err = "ok" THEN "recovered" ELSE "lost"})
              \/ /\ o.err # "effect_error" /\ spent' = o.used /\ faults' = o.faults
                 /\ Bump({c \in {"failed"} : ShouldFail})
  <1>1. PICK o \in Authorise(credential(Now, i), Payments[i], ShouldFail, spent, faults) :
          \/ /\ o.err = "effect_error"
             /\ \E g \in Authorise(credential(Now, i), Payments[i], FALSE, o.used, o.faults) :
                  /\ spent' = g.used /\ faults' = g.faults
                  /\ Bump({"failed", IF g.err = "ok" THEN "recovered" ELSE "lost"})
          \/ /\ o.err # "effect_error" /\ spent' = o.used /\ faults' = o.faults
             /\ Bump({c \in {"failed"} : ShouldFail})
    BY DEF FailAndRetry, ShouldFail
  <1>2. Fits(o, credential(Now, i), Payments[i], ShouldFail, spent, faults)
    BY Answers DEF Types
  <1>3. o.faults \in Nat
    BY <1>2 DEF Types, Fits
  <1>4. \A g \in Authorise(credential(Now, i), Payments[i], FALSE, o.used, o.faults) :
          Fits(g, credential(Now, i), Payments[i], FALSE, o.used, o.faults)
    BY <1>3, Answers
  <1> QED BY <1>1, <1>2, <1>3, <1>4

\* The loops keep the shape.
LEMMA LoopsKeepShape ==
  ASSUME Shape, NEW s \in {"spend", "replay", "repoint", "failure"}, InLoop(s),
         UNCHANGED <<section, pool, measured, errors>>, faults' \in Nat,
         list' \in Seq(Credentials), s = "replay" => list' = list,
         count' \in [Counters -> Nat]
  PROVE  Shape'
  <1>1. /\ Running /\ Now = s /\ ~ InPools /\ i' = i + 1 /\ i \in Nat \ {0}
        /\ i <= IF s = "replay" THEN Len(list) ELSE Len(Cohort(s))
    BY LoopStep DEF Shape, Types
  <1>2. Running' = Running /\ Now' = Now /\ InPools' = InPools
    BY DEF Running, Now, InPools, pool
  <1>3. Types'
    BY <1>1 DEF Shape, Types, pool
  <1>4. Phases'
    <2>1. i + 1 <= (IF Now' = "replay" THEN Len(list') ELSE Len(Cohort(Now'))) + 1
      <3>1. Len(list) \in Nat
        BY DEF Shape, Types
      <3>2. Len(Cohort(s)) \in Nat
        BY CohortsAreWorkload, LoopStep, Order DEF Now, Shape
      <3>3. CASE s = "replay"
        BY <3>1, <3>3, <1>1, <1>2
      <3>4. CASE s # "replay"
        BY <3>2, <3>4, <1>1, <1>2
      <3> QED BY <3>3, <3>4
    <2> QED BY <1>1, <1>2, <2>1 DEF Shape, Phases, pool, SendersGone
  <1>5. Apart'
    BY <1>1 DEF Shape, Apart, Phases, pool
  <1>6. Awaited'
    BY DEF Shape, Awaited, Waiting, pool
  <1> QED BY <1>3, <1>4, <1>5, <1>6 DEF Shape

\* What Bump leaves is a table of counts.
LEMMA BumpCounts ==
  ASSUME NEW names, Types, Bump(names)
  PROVE  /\ count' \in [Counters -> Nat]
         /\ \A c \in Counters : count'[c] = count[c] + (IF c \in names THEN 1 ELSE 0)
  BY DEF Bump, Types

\* The shape holds throughout.
LEMMA ShapeHolds == Spec => []Shape
  <1> USE DEF Shape
  <1>1. Init => Shape
    <2> SUFFICES ASSUME Init PROVE Shape
      OBVIOUS
    <2>1. Types
      <3>1. worker \in Jobs
        BY DEF Init, Jobs, Idle
      <3>2. results \in Seq(Outcomes) /\ list \in Seq(Credentials)
        BY DEF Init
      <3>3. measured \in Tallies /\ errors \in Tallies /\ count \in [Counters -> Nat]
        BY Order DEF Init, Tallies
      <3> QED BY <3>1, <3>2, <3>3 DEF Init, Types
    <2>2. Phases
      BY Order, CohortsAreWorkload DEF Init, Phases, InPools, Running, Now, Pools,
         SendersGone, Idle
    <2>3. Apart
      BY DEF Init, Apart, Idle
    <2>4. Awaited
      <3>1. Waiting = Workers
        BY DEF Init, Waiting, Idle
      <3> QED BY <3>1 DEF Init, Awaited
    <2> QED BY <2>1, <2>2, <2>3, <2>4
  <1>2. Shape /\ [Next]_vars => Shape'
    <2> SUFFICES ASSUME Shape, [Next]_vars PROVE Shape'
      OBVIOUS
    <2>1. ASSUME NEW w \in Workers, Feed(w) PROVE Shape'
      <3>1. Types'
        <4>1. worker' \in Jobs BY <2>1 DEF Feed, Types, Jobs
        <4> QED BY <4>1, <2>1 DEF Feed, InPool, Types, database, counters
      <3>2. Phases'
        BY <2>1 DEF Feed, InPool, Types, Jobs, database, counters, Phases, InPools,
           Running, Now, Pools, SendersGone
      <3>3. Apart' BY <2>1 DEF Feed, InPool, Types, Jobs, database, counters, Apart
      <3>4. Awaited'
        <4>1. Waiting' = Waiting BY <2>1 DEF Feed, InPool, Types, Jobs, Waiting
        <4> QED BY <4>1, <2>1 DEF Feed, Awaited
      <3> QED BY <3>1, <3>2, <3>3, <3>4
    <2>2. ASSUME NEW w \in Workers, Work(w) PROVE Shape'
      <3>1. PICK o : /\ Fits(o, credential(Now, worker[w].at), Cohort(Now)[worker[w].at],
                             FALSE, spent, faults)
                     /\ spent' = o.used /\ faults' = o.faults
                     /\ worker' = [worker EXCEPT
                          ![w].pc = IF o.err = "ok" \/ Now = "full" THEN "send" ELSE "receive",
                          ![w].ok = o.err = "ok"]
        BY <2>2, WorkStep, Zenon
      <3>2. faults' \in Nat
        BY <3>1 DEF Types, Fits
      <3>3. worker' \in Jobs
        <4>1. (o.err = "ok") \in BOOLEAN
          OBVIOUS
        <4>2. (IF o.err = "ok" \/ Now = "full" THEN "send" ELSE "receive")
                \in {"send", "receive"}
          OBVIOUS
        <4> HIDE <3>1
        <4>3. ASSUME NEW ok \in BOOLEAN, NEW pc \in {"send", "receive"}
              PROVE  [worker EXCEPT ![w].pc = pc, ![w].ok = ok] \in Jobs
          BY DEF Types, Jobs
        <4> QED BY <3>1, <4>1, <4>2, <4>3
      <3>4. \A x \in Workers :
              /\ worker'[x].at = worker[x].at
              /\ \/ worker'[x].pc = worker[x].pc
                 \/ x = w /\ worker'[x].pc \in {"send", "receive"}
        BY <3>1 DEF Types, Jobs
      <3>5. /\ InPool(w, "authorise")
            /\ UNCHANGED <<section, i, inClosed, results, resultsClosed, wg, panicked,
                           list, counters>>
        BY <2>2 DEF Work
      <3> HIDE <3>1
      <3>6. Types' BY <3>2, <3>3, <3>5 DEF Types, counters
      <3>7. Phases' BY <3>4, <3>5 DEF InPool, Phases, InPools, Running, Now, SendersGone
      <3>8. Apart' BY <3>4, <3>5 DEF Apart, InPool
      <3>9. Awaited'
        <4>1. Waiting' = Waiting BY <3>4, <3>5 DEF InPool, Waiting
        <4> QED BY <4>1, <3>5 DEF Awaited
      <3> QED BY <3>6, <3>7, <3>8, <3>9
    <2>3. ASSUME NEW w \in Workers, Send(w) PROVE Shape'
      <3>5. InPool(w, "send") /\ ~ resultsClosed
        BY <2>3 DEF Send, InPool, Phases, SendersGone
      <3>6. /\ results' = Append(results, worker[w].ok)
            /\ worker' = [worker EXCEPT ![w].pc = "receive"]
            /\ UNCHANGED <<section, i, inClosed, resultsClosed, wg, database, list, counters>>
        BY <2>3, <3>5, Zenon DEF Send
      <3>7. ~ panicked'
        BY <2>3, <3>5, Zenon DEF Send
      <3>1. Types'
        <4>1. worker' \in Jobs BY <3>6 DEF Types, Jobs
        <4>2. results' \in Seq(Outcomes)
          <5>1. worker[w].ok \in Outcomes BY DEF Types, Jobs, Outcomes
          <5> QED BY <3>6, <5>1 DEF Types
        <4> QED BY <4>1, <4>2, <3>6 DEF Types, database, counters
      <3>2. Phases'
        <4>1. InPools /\ InPools' /\ Running' /\ Now' = Now
          BY <3>5, <3>6, <3>7 DEF InPool, InPools, Running, Now
        <4> QED BY <3>5, <3>6, <4>1 DEF InPool, Types, Jobs, Phases, Pools, SendersGone
      <3>3. Apart' BY <3>5, <3>6 DEF InPool, Types, Jobs, database, counters, Apart
      <3>4. Awaited'
        <4>1. Waiting' = Waiting BY <3>5, <3>6 DEF InPool, Types, Jobs, Waiting
        <4> QED BY <4>1, <3>6, <3>7 DEF Awaited
      <3> QED BY <3>1, <3>2, <3>3, <3>4
    <2>4. ASSUME NEW w \in Workers, Leave(w) PROVE Shape'
      <3>5. /\ InPool(w, "receive") /\ inClosed /\ wg' = wg - 1
            /\ worker' = [worker EXCEPT ![w].pc = "gone"]
            /\ UNCHANGED <<section, i, inClosed, results, resultsClosed, database, list, counters>>
        BY <2>4, Zenon DEF Leave
      <3>1. Types'
        <4>1. worker' \in Jobs BY <3>5 DEF Types, Jobs
        <4> QED BY <4>1, <3>5 DEF Types, database, counters
      <3>4. Awaited'
        <4>1. w \in Waiting /\ Waiting' = Waiting \ {w}
          BY <3>5 DEF InPool, Types, Jobs, Waiting
        <4>2. IsFiniteSet(Waiting)
          <5>1. Waiting \subseteq Workers BY DEF Waiting
          <5> QED BY <5>1, PoolExists, FS_Subset
        <4>3. /\ Cardinality(Waiting) \in Nat /\ Cardinality(Waiting) # 0
              /\ Cardinality(Waiting') = Cardinality(Waiting) - 1
          BY <4>1, <4>2, FS_CardinalityType, FS_RemoveElement, FS_EmptySet
        <4>4. wg # 0 /\ wg' = Cardinality(Waiting')
          BY <3>5, <4>3 DEF Awaited
        <4>5. ~ panicked'
          BY <2>4, <4>4, Zenon DEF Leave
        <4> QED BY <4>4, <4>5 DEF Awaited
      <3>2. Phases'
        <4>1. InPools /\ InPools' /\ Running' /\ Now' = Now
          BY <3>4, <3>5 DEF InPool, InPools, Running, Now, Awaited
        <4> QED BY <3>5, <4>1 DEF InPool, Types, Jobs, Phases, Pools, SendersGone
      <3>3. Apart' BY <3>5 DEF InPool, Types, Jobs, database, counters, Apart
      <3> QED BY <3>1, <3>2, <3>3, <3>4
    <2>5. CASE CloseIn
      BY <2>5 DEF CloseIn, Types, Jobs, database, counters, Phases, Apart, InPools,
         Running, Now, Pools, SendersGone, Awaited, Waiting
    <2>6. CASE CloseResults
      <3>1. Waiting = {}
        <4>1. IsFiniteSet(Waiting)
          <5>1. Waiting \subseteq Workers BY DEF Waiting
          <5> QED BY <5>1, PoolExists, FS_Subset
        <4>2. Cardinality(Waiting) = 0
          BY <2>6 DEF CloseResults, Awaited
        <4> QED BY <4>1, <4>2, FS_EmptySet
      <3>2. \A w \in Workers : worker[w].pc = "gone"
        BY <3>1 DEF Waiting
      <3> QED BY <2>6, <3>2 DEF CloseResults, Types, Jobs, database, counters, Phases, Apart,
                  InPools, Running, Now, Pools, SendersGone, Awaited, Waiting
    <2>7. CASE Collect
      <3>1. /\ Running /\ results # <<>> /\ results' = Tail(results)
            /\ UNCHANGED <<section, i, worker, inClosed, resultsClosed, wg, panicked, database,
                           list, count>>
            /\ \/ measured' = [measured EXCEPT ![section] = @ + 1] /\ UNCHANGED errors
               \/ errors' = [errors EXCEPT ![section] = @ + 1] /\ UNCHANGED measured
        BY <2>7, Zenon DEF Collect
      <3>2. Types'
        <4>1. results \in Seq(Outcomes) /\ results # <<>> /\ section \in 1 .. 9
          BY <3>1, Order DEF Types, Running
        <4>2. results' \in Seq(Outcomes)
          BY <3>1, <4>1
        <4>3. measured' \in Tallies /\ errors' \in Tallies
          <5>1. ASSUME NEW m \in Tallies PROVE [m EXCEPT ![section] = @ + 1] \in Tallies
            BY <4>1, SMTT(30) DEF Tallies
          <5> QED BY <3>1, <5>1 DEF Types
        <4> QED BY <3>1, <4>2, <4>3 DEF Types, database
      <3>3. Phases' BY <3>1 DEF Phases, InPools, Running, Now, SendersGone
      <3>4. Apart' BY <3>1 DEF Apart
      <3>5. Awaited' BY <3>1 DEF Awaited, Waiting
      <3> QED BY <3>2, <3>3, <3>4, <3>5
    <2>8. CASE Spend
      <3>1. InLoop("spend") /\ UNCHANGED <<section, pool, counters>>
        BY <2>8 DEF Spend
      <3>2. credential(Now, i) \in Credentials
        BY <3>1, LoopStep DEF Credentials, Types
      <3>4. PICK o : /\ Fits(o, credential(Now, i), Payments[i], FALSE, spent, faults)
                     /\ faults' = o.faults
                     /\ list' = IF o.err = "ok" THEN Append(list, credential(Now, i)) ELSE list
        BY <2>8, SpendStep
      <3>3. faults' \in Nat /\ list' \in Seq(Credentials)
        BY <3>2, <3>4 DEF Types, Fits
      <3> QED BY <3>1, <3>3, LoopsKeepShape DEF counters, Types
    <2>9. CASE Replay
      <3>1. InLoop("replay") /\ UNCHANGED <<section, pool, list, measured, errors>>
        BY <2>9 DEF Replay
      <3>3. PICK o, names : /\ Fits(o, list[i], Payments[i], FALSE, spent, faults)
                            /\ faults' = o.faults /\ Bump(names)
        BY <2>9, ReplayStep
      <3>2. faults' \in Nat /\ count' \in [Counters -> Nat]
        BY <3>3, BumpCounts DEF Types, Fits
      <3> QED BY <3>1, <3>2, LoopsKeepShape DEF Types
    <2>10. CASE Repoint
      <3>1. InLoop("repoint") /\ UNCHANGED <<section, pool, list, measured, errors>>
        BY <2>10 DEF Repoint
      <3>3. PICK o, g, names :
              /\ Fits(g, credential(Now, i), Payments[i], FALSE, o.used, o.faults)
              /\ faults' = g.faults /\ o.faults \in Nat /\ Bump(names)
        BY <2>10, RepointStep
      <3>2. faults' \in Nat /\ count' \in [Counters -> Nat]
        BY <3>3, BumpCounts DEF Fits
      <3> QED BY <3>1, <3>2, LoopsKeepShape DEF Types
    <2>11. CASE FailAndRetry
      <3>1. InLoop("failure") /\ UNCHANGED <<section, pool, list, measured, errors>>
        BY <2>11 DEF FailAndRetry
      <3>3. PICK o : /\ o.faults \in Nat
                     /\ \/ \E g, names :
                             /\ Fits(g, credential(Now, i), Payments[i], FALSE, o.used, o.faults)
                             /\ faults' = g.faults /\ Bump(names)
                        \/ faults' = o.faults /\ \E names : Bump(names)
        BY <2>11, FailStep
      <3>2. faults' \in Nat /\ count' \in [Counters -> Nat]
        BY <3>3, BumpCounts DEF Fits
      <3> QED BY <3>1, <3>2, LoopsKeepShape DEF Types
    <2>12. CASE Advance
      <3>1. Running /\ section' = section + 1 /\ i' = 1
        BY <2>12 DEF Advance
      <3>2. \A k \in 1 .. 9 : Len(Cohort(Sections[k])) \in Nat
        BY CohortsAreWorkload
      <3>3. worker' = [w \in Workers |-> Idle] /\ worker' \in Jobs
        BY <2>12 DEF Advance, Jobs, Idle
      <3>4. Types'
        BY <2>12, <3>3, Order DEF Advance, Types, Running, counters
      <3>5. Phases'
        <4>1. /\ results' = <<>> /\ ~ inClosed' /\ ~ resultsClosed'
              /\ \A w \in Workers : worker'[w].pc = "receive"
          BY <2>12, <3>3 DEF Advance, Idle
        <4>2. Running' => Len(Cohort(Now')) \in Nat
          BY <3>2, <3>4, Order DEF Types, Running, Now
        <4>3. Len(list') \in Nat
          BY <3>4 DEF Types
        <4> QED BY <3>1, <4>1, <4>2, <4>3 DEF Phases, SendersGone
      <3>6. Awaited'
        <4>1. Waiting' = Workers BY <3>3 DEF Waiting, Idle
        <4> QED BY <2>12, <4>1 DEF Advance, Awaited
      <3> QED BY <3>3, <3>4, <3>5, <3>6 DEF Apart, Idle
    <2>13. CASE UNCHANGED vars
      BY <2>13 DEF vars, pool, database, counters, Types, Phases, Apart, InPools,
         Running, Now, SendersGone, Awaited, Waiting
    <2> QED BY <2>1, <2>2, <2>3, <2>4, <2>5, <2>6, <2>7, <2>8, <2>9, <2>10, <2>11,
               <2>12, <2>13 DEF Next
  <1> QED BY <1>1, <1>2, PTL DEF Spec

\* No goroutine of a pool sends on a closed channel or calls Done once too often:
\* the WaitGroup counts the workers that may still send.
THEOREM PoolsDoNotPanic == Spec => []PoolNeverPanics
  <1>1. Shape => PoolNeverPanics
    BY DEF Shape, Awaited, PoolNeverPanics
  <1> QED BY <1>1, ShapeHolds, PTL

-----------------------------------------------------------------------------
(* Every credential is fresh *)

\* The k-th credential of section s is spent.
Taken(s, k) == \E c \in spent : c.n = <<IdBase(s), k>>

\* What the running section has spent was minted for a payment that it is past
\* and that no worker has yet to present; nothing is spent of what the sections
\* to come will mint, but for the full path, which starts from empty tables; and
\* the listed credentials are spent.
Fresh ==
  /\ Running /\ Now # "replay" => \A k \in Nat : Taken(Now, k) =>
       k < i /\ \A w \in Workers : worker[w].pc = "authorise" => worker[w].at # k
  /\ \A j \in 1 .. 9 : j > section /\ Sections[j] \notin {"full", "replay"} =>
       \A k \in Nat : ~ Taken(Sections[j], k)
  /\ \A m \in 1 .. Len(list) : list[m] \in spent
  /\ section <= 2 => list = <<>>

\* A credential about to be presented for the first time is not spent.
LEMMA FirstPresentation ==
  ASSUME Fresh, Running, Now # "replay", NEW k \in Nat,
         k >= i \/ \E w \in Workers : worker[w].pc = "authorise" /\ worker[w].at = k,
         i \in Nat
  PROVE  credential(Now, k) \notin spent
  BY DEF Fresh, Taken, credential

\* A section spends nothing but its own credentials, from its own range.
LEMMA SpendingOne ==
  ASSUME Shape, Fresh, Running, Now # "replay", NEW x \in Nat, UNCHANGED section,
         spent' = spent \/ spent' = spent \cup {credential(Now, x)}
  PROVE  /\ \A k \in Nat : Taken(Now, k)' => Taken(Now, k) \/ k = x
         /\ \A j \in 1 .. 9 : j > section /\ Sections[j] \notin {"full", "replay"} =>
              \A k \in Nat : ~ Taken(Sections[j], k)'
         /\ spent \subseteq spent'
  <1>1. section \in 1 .. 9 /\ Now = Sections[section] /\ Now' = Now
    BY Order DEF Shape, Types, Running, Now
  <1>2. \A k \in Nat : Taken(Now, k)' => Taken(Now, k) \/ k = x
    BY <1>1 DEF Taken, credential
  <1>3. ASSUME NEW j \in 1 .. 9, j > section, Sections[j] \notin {"full", "replay"},
               NEW k \in Nat
        PROVE  ~ Taken(Sections[j], k)'
    <2>1. ~ Taken(Sections[j], k)
      BY <1>3 DEF Fresh
    <2>2. IdBase(Now) # IdBase(Sections[j])
      BY <1>1, <1>3, RangesAreApart
    <2> QED BY <2>1, <2>2 DEF Taken, credential
  <1> QED BY <1>2, <1>3

\* The loops spend the credential of the payment they are at.
LEMMA LoopsKeepFresh ==
  ASSUME Shape, Fresh, NEW s \in {"spend", "repoint", "failure"}, InLoop(s),
         UNCHANGED <<section, pool>>,
         spent' = spent \/ spent' = spent \cup {credential(Now, i)},
         \A m \in 1 .. Len(list') : list'[m] \in spent'
  PROVE  Fresh'
  <1>1. /\ Running /\ Now = s /\ ~ InPools /\ i' = i + 1 /\ i \in Nat \ {0}
        /\ section \in {3, 5, 6}
    BY LoopStep DEF Shape, Types
  <1>2. UNCHANGED Now /\ UNCHANGED Running /\ \A w \in Workers : worker'[w].pc = "receive"
    BY <1>1 DEF Now, Running, Shape, Phases, pool
  <1>3. /\ \A k \in Nat : Taken(Now, k)' => Taken(Now, k) \/ k = i
        /\ \A j \in 1 .. 9 : j > section /\ Sections[j] \notin {"full", "replay"} =>
             \A k \in Nat : ~ Taken(Sections[j], k)'
    BY <1>1, SpendingOne
  <1>4. \A k \in Nat : Taken(Now, k)' => k < i + 1
    BY <1>1, <1>3 DEF Fresh
  <1> QED BY <1>1, <1>2, <1>3, <1>4 DEF Fresh

\* Credentials stay fresh.
LEMMA FreshHolds == Spec => []Fresh
  <1>1. Init => Fresh
    BY DEF Init, Fresh, Taken
  <1>2. Shape /\ Shape' /\ Fresh /\ [Next]_vars => Fresh'
    <2> SUFFICES ASSUME Shape, Shape', Fresh, [Next]_vars PROVE Fresh'
      OBVIOUS
    <2> Types /\ i \in Nat /\ ~ panicked /\ ~ panicked'
      BY DEF Shape, Types, Awaited
    <2>1. ASSUME NEW w \in Workers, Feed(w) PROVE Fresh'
      <3>1. i' = i + 1 /\ UNCHANGED <<section, list, spent>>
        BY <2>1 DEF Feed, database
      <3>2. \A x \in Workers : worker'[x].pc = "authorise" /\ x # w =>
              worker[x].pc = "authorise" /\ worker'[x].at = worker[x].at
        BY <2>1 DEF Feed, Types, Jobs
      <3>3. worker'[w].at = i
        BY <2>1 DEF Feed, Types, Jobs
      <3>4. \A s, k : Taken(s, k)' <=> Taken(s, k)
        BY <3>1 DEF Taken
      <3>5. UNCHANGED <<Running, Now>>
        BY <3>1 DEF Running, Now
      <3>6. ASSUME Running, Now # "replay", NEW k \in Nat, Taken(Now, k)
            PROVE  /\ k < i + 1
                   /\ \A x \in Workers : worker'[x].pc = "authorise" => worker'[x].at # k
        <4>1. k < i /\ \A x \in Workers : worker[x].pc = "authorise" => worker[x].at # k
          BY <3>6 DEF Fresh
        <4> QED BY <3>2, <3>3, <4>1
      <3> QED BY <3>1, <3>4, <3>5, <3>6 DEF Fresh
    <2>2. ASSUME NEW w \in Workers, Work(w) PROVE Fresh'
      <3>1. PICK o : /\ Fits(o, credential(Now, worker[w].at), Cohort(Now)[worker[w].at],
                             FALSE, spent, faults)
                     /\ spent' = o.used
                     /\ worker' = [worker EXCEPT
                          ![w].pc = IF o.err = "ok" \/ Now = "full" THEN "send" ELSE "receive",
                          ![w].ok = o.err = "ok"]
        BY <2>2, WorkStep, Zenon
      <3>2. /\ Running /\ Now \in Pools /\ worker[w].pc = "authorise"
            /\ UNCHANGED <<section, i, list>>
        BY <2>2 DEF Work, InPool
      <3>3. Now # "replay" /\ worker[w].at \in 1 .. i - 1 /\ worker[w].at \in Nat /\ i \in Nat
        BY <3>2 DEF Pools, Shape, Types, Apart
      <3>4. \A x \in Workers : worker'[x].pc = "authorise" =>
              /\ worker[x].pc = "authorise" /\ worker'[x].at = worker[x].at
              /\ worker[x].at # worker[w].at
        BY <3>1, <3>2 DEF Shape, Types, Jobs, Apart
      <3>5. spent' = spent \/ spent' = spent \cup {credential(Now, worker[w].at)}
        BY <3>1 DEF Fits
      <3>6. UNCHANGED Now /\ UNCHANGED Running
        BY <3>2 DEF Now, Running
      <3>7. /\ \A k \in Nat : Taken(Now, k)' => Taken(Now, k) \/ k = worker[w].at
            /\ \A j \in 1 .. 9 : j > section /\ Sections[j] \notin {"full", "replay"} =>
                 \A k \in Nat : ~ Taken(Sections[j], k)'
            /\ spent \subseteq spent'
        BY <3>2, <3>3, <3>5, SpendingOne
      <3>8. ASSUME NEW k \in Nat, Taken(Now, k)'
            PROVE  k < i /\ \A x \in Workers : worker'[x].pc = "authorise" => worker'[x].at # k
        <4>1. Taken(Now, k) \/ k = worker[w].at
          BY <3>7, <3>8
        <4>2. CASE Taken(Now, k)
          BY <4>2, <3>2, <3>3, <3>4 DEF Fresh
        <4>3. CASE k = worker[w].at
          BY <4>3, <3>3, <3>4
        <4> QED BY <4>1, <4>2, <4>3
      <3> QED BY <3>2, <3>7, <3>8 DEF Fresh
    <2>3. ASSUME NEW w \in Workers, Send(w) \/ Leave(w) PROVE Fresh'
      <3>1. UNCHANGED <<section, i, spent, list>>
        BY <2>3, Zenon DEF Send, Leave, database
      <3>2. \E pc \in {"receive", "gone"} : worker' = [worker EXCEPT ![w].pc = pc]
        BY <2>3, Zenon DEF Send, Leave
      <3>3. \A x \in Workers : worker'[x].pc = "authorise" =>
              worker[x].pc = "authorise" /\ worker'[x].at = worker[x].at
        BY <3>2 DEF Types, Jobs
      <3>4. UNCHANGED <<Running, Now>>
        BY <3>1 DEF Running, Now
      <3> QED BY <3>1, <3>3, <3>4 DEF Fresh, Taken
    <2>4. CASE CloseIn \/ CloseResults
      BY <2>4 DEF CloseIn, CloseResults, Fresh, Taken, Running, Now, database
    <2>5. CASE Collect
      <3>1. UNCHANGED <<section, i, worker, database, list>>
        BY <2>5, Zenon DEF Collect
      <3> QED BY <3>1 DEF Fresh, Taken, Running, Now, database
    <2>6. CASE Spend
      <3>1. PICK o : /\ Fits(o, credential(Now, i), Payments[i], FALSE, spent, faults)
                     /\ spent' = o.used
                     /\ list' = IF o.err = "ok" THEN Append(list, credential(Now, i)) ELSE list
        BY <2>6, SpendStep
      <3>2. InLoop("spend") /\ UNCHANGED <<section, pool>>
        BY <2>6 DEF Spend
      <3>3. /\ spent' = spent \/ spent' = spent \cup {credential(Now, i)}
            /\ o.err = "ok" => credential(Now, i) \in spent'
        BY <3>1 DEF Fits
      <3>4. \A m \in 1 .. Len(list') : list'[m] \in spent'
        BY <3>1, <3>3 DEF Fresh, Types
      <3> QED BY <3>2, <3>3, <3>4, LoopsKeepFresh
    <2>7. CASE Replay
      <3>1. PICK o : /\ Fits(o, list[i], Payments[i], FALSE, spent, faults)
                     /\ spent' = o.used
        BY <2>7, ReplayStep
      <3>2. InLoop("replay") /\ UNCHANGED <<section, pool, list>>
        BY <2>7 DEF Replay
      <3>3. Now = "replay" /\ i \in 1 .. Len(list)
        BY <3>2, LoopStep DEF Types
      <3>4. spent' = spent
        BY <3>1, <3>3 DEF Fits, Fresh
      <3> QED BY <3>2, <3>3, <3>4 DEF Fresh, Taken, Running, Now
    <2>8. CASE Repoint
      <3>1. PICK o, g :
              /\ Fits(o, credential(Now, i), 0, FALSE, spent, faults)
              /\ Fits(g, credential(Now, i), Payments[i], FALSE, o.used, o.faults)
              /\ spent' = g.used
        BY <2>8, RepointStep
      <3>2. InLoop("repoint") /\ UNCHANGED <<section, pool, list>>
        BY <2>8 DEF Repoint
      <3>3. spent' = spent \/ spent' = spent \cup {credential(Now, i)}
        BY <3>1 DEF Fits
      <3> QED BY <3>2, <3>3, LoopsKeepFresh DEF Fresh
    <2>9. CASE FailAndRetry
      <3>1. PICK o :
              /\ Fits(o, credential(Now, i), Payments[i], ShouldFail, spent, faults)
              /\ \/ \E g : /\ Fits(g, credential(Now, i), Payments[i], FALSE, o.used, o.faults)
                           /\ spent' = g.used
                 \/ spent' = o.used
        BY <2>9, FailStep
      <3>2. InLoop("failure") /\ UNCHANGED <<section, pool, list>>
        BY <2>9 DEF FailAndRetry
      <3>3. spent' = spent \/ spent' = spent \cup {credential(Now, i)}
        BY <3>1 DEF Fits
      <3> QED BY <3>2, <3>3, LoopsKeepFresh DEF Fresh
    <2>10. CASE Advance
      BY <2>10, Order DEF Advance, Fresh, Taken, Running, Now, Idle, Shape, Types
    <2>11. CASE UNCHANGED vars
      BY <2>11 DEF vars, pool, database, counters, Fresh, Taken, Running, Now
    <2> QED BY <2>1, <2>2, <2>3, <2>4, <2>5, <2>6, <2>7, <2>8, <2>9, <2>10, <2>11 DEF Next
  <1> QED BY <1>1, <1>2, ShapeHolds, PTL DEF Spec

-----------------------------------------------------------------------------
(* The accounts of a pool *)

\* The places of the errors in a sequence of results.
Falses(s) == {k \in 1 .. Len(s) : s[k] \notin Successes}

\* One more result is one more error if it is not a success.
LEMMA FalsesOfAppend ==
  ASSUME NEW s \in Seq(Outcomes), NEW b \in Outcomes, IsFiniteSet(Falses(s))
  PROVE  /\ IsFiniteSet(Falses(Append(s, b)))
         /\ Cardinality(Falses(Append(s, b))) =
              Cardinality(Falses(s)) + (IF b \in Successes THEN 0 ELSE 1)
  <1>1. Falses(Append(s, b)) = IF b \in Successes THEN Falses(s) ELSE Falses(s) \cup {Len(s) + 1}
    BY DEF Falses
  <1>2. Len(s) + 1 \notin Falses(s)
    BY DEF Falses
  <1>3. Cardinality(Falses(s)) \in Nat
    BY FS_CardinalityType
  <1>4. /\ IsFiniteSet(Falses(s) \cup {Len(s) + 1})
        /\ Cardinality(Falses(s) \cup {Len(s) + 1}) = Cardinality(Falses(s)) + 1
    BY <1>2, FS_AddElement
  <1> QED BY <1>1, <1>3, <1>4

\* The first result taken, it is one error less if it was not a success.
LEMMA FalsesOfTail ==
  ASSUME NEW s \in Seq(Outcomes), s # <<>>, IsFiniteSet(Falses(s))
  PROVE  /\ IsFiniteSet(Falses(Tail(s)))
         /\ Cardinality(Falses(Tail(s))) =
              Cardinality(Falses(s)) - (IF Head(s) \in Successes THEN 0 ELSE 1)
  <1> DEFINE R == Falses(s) \ {1}
  <1>1. /\ IsFiniteSet(R)
        /\ Cardinality(R) = Cardinality(Falses(s)) - (IF Head(s) \in Successes THEN 0 ELSE 1)
    <2>1. 1 \in Falses(s) <=> Head(s) \notin Successes
      BY DEF Falses
    <2>2. Cardinality(Falses(s)) \in Nat
      BY FS_CardinalityType
    <2> QED BY <2>1, <2>2, FS_RemoveElement
  <1>2. ExistsBijection(R, Falses(Tail(s)))
    <2> DEFINE f == [k \in R |-> k - 1]
    <2>1. Len(s) \in Nat \ {0} /\ Len(Tail(s)) = Len(s) - 1
          /\ \A k \in 1 .. Len(s) - 1 : Tail(s)[k] = s[k + 1]
      OBVIOUS
    <2>2. \A k \in R : k \in 2 .. Len(s) /\ s[k] \notin Successes
      BY <2>1 DEF Falses
    <2>3. f \in [R -> Falses(Tail(s))]
      BY <2>1, <2>2 DEF Falses
    <2>4. \A k, m \in R : f[k] = f[m] => k = m
      BY <2>2
    <2>5. \A m \in Falses(Tail(s)) : m + 1 \in R /\ f[m + 1] = m
      BY <2>1 DEF Falses
    <2>6. f \in Bijection(R, Falses(Tail(s)))
      <3> HIDE DEF R, f
      <3> QED BY <2>3, <2>4, <2>5 DEF Bijection, Injection, Surjection, IsInjective
    <2> QED BY <2>6 DEF ExistsBijection
  <1> QED BY <1>1, <1>2, FS_Bijection

\* The workers that have a payment, and those that have an error to send.
Busy == {w \in Workers : worker[w].pc \in {"authorise", "send"}}
Bad  == {w \in Workers : worker[w].pc = "send" /\ worker[w].ok \notin Successes}

\* What is counted is countable.
LEMMA Sizes ==
  ASSUME Types
  PROVE  /\ IsFiniteSet(Busy) /\ Cardinality(Busy) \in Nat
         /\ IsFiniteSet(Bad) /\ Cardinality(Bad) \in Nat
         /\ IsFiniteSet(Falses(results)) /\ Cardinality(Falses(results)) \in Nat
         /\ Len(results) \in Nat
         /\ Running => /\ section \in 1 .. 9
                       /\ measured[section] \in Nat /\ errors[section] \in Nat
  <1>1. Busy \subseteq Workers /\ Bad \subseteq Workers /\ IsFiniteSet(Workers)
    BY PoolExists DEF Busy, Bad
  <1>2. Len(results) \in Nat /\ IsFiniteSet(1 .. Len(results))
    BY FS_Interval DEF Types
  <1>3. IsFiniteSet(Busy) /\ IsFiniteSet(Bad)
    BY <1>1, FS_Subset
  <1>4. Falses(results) \subseteq 1 .. Len(results)
    BY DEF Falses
  <1>5. IsFiniteSet(Falses(results))
    BY <1>2, <1>4, FS_Subset
  <1>6. Running => section \in 1 .. 9
    BY Order DEF Types, Running
  <1>7. Running => measured[section] \in Nat /\ errors[section] \in Nat
    BY <1>6 DEF Types, Tallies
  <1> QED BY <1>2, <1>3, <1>5, <1>6, <1>7, FS_CardinalityType

\* No payment of the full path is lost, nor of any pool while no call
\* is spoilt: it is with a worker, under way in results, or counted.
Tally ==
  InPools /\ (Now = "full" \/ faults = 0) =>
    measured[section] + errors[section] + Len(results) + Cardinality(Busy) = i - 1

\* Every error that is counted or still to be is of a call that was spoilt.
Blame ==
  InPools => errors[section] + Cardinality(Falses(results)) + Cardinality(Bad) <= faults

\* The accounts of the pools that are over, and of those to come.
Books ==
  /\ \A k \in 1 .. 9 : k < section /\ Sections[k] \in Pools =>
       /\ errors[k] <= faults
       /\ Sections[k] = "full" \/ faults = 0 =>
            measured[k] + errors[k] = Len(Cohort(Sections[k]))
  /\ \A k \in 1 .. 9 : k > section => measured[k] = 0 /\ errors[k] = 0

Accounts == Tally /\ Blame /\ Books

\* The accounts add up throughout.
LEMMA AccountsHold == Spec => []Accounts
  <1>1. Init => Accounts
    <2> SUFFICES ASSUME Init PROVE Accounts
      OBVIOUS
    <2>1. Busy = {} /\ Bad = {} /\ Falses(results) = {} /\ Len(results) = 0
      BY DEF Init, Busy, Bad, Falses, Idle
    <2>2. section = 1 /\ i = 1 /\ faults = 0
      BY DEF Init
    <2>3. \A k \in 1 .. 9 : measured[k] = 0 /\ errors[k] = 0
      BY Order DEF Init
    <2> QED BY <2>1, <2>2, <2>3, FS_EmptySet DEF Accounts, Tally, Blame, Books
  <1>2. Shape /\ Shape' /\ Fresh /\ Accounts /\ [Next]_vars => Accounts'
    <2> SUFFICES ASSUME Shape, Shape', Fresh, Accounts, [Next]_vars PROVE Accounts'
      OBVIOUS
    <2> Types /\ i \in Nat /\ faults \in Nat /\ ~ panicked /\ ~ panicked'
      BY DEF Shape, Types, Awaited
    <2> USE Sizes
    <2>1. ASSUME NEW w \in Workers, Feed(w) PROVE Accounts'
      <3>1. i' = i + 1 /\ UNCHANGED <<section, results, faults, measured, errors>>
        BY <2>1 DEF Feed, database, counters
      <3>2. Busy' = Busy \cup {w} /\ w \notin Busy /\ Bad' = Bad
        BY <2>1 DEF Feed, InPool, Busy, Bad, Types, Jobs
      <3>3. Cardinality(Busy') = Cardinality(Busy) + 1
        BY <3>2, FS_AddElement
      <3>4. UNCHANGED <<InPools, Now>>
        BY <3>1 DEF InPools, Running, Now
      <3>5. Tally'
        BY <3>1, <3>2, <3>3, <3>4 DEF Accounts, Tally, InPools
      <3>6. Blame'
        BY <3>1, <3>2, <3>4 DEF Accounts, Blame
      <3> QED BY <3>1, <3>5, <3>6 DEF Accounts, Books
    <2>2. ASSUME NEW w \in Workers, Work(w) PROVE Accounts'
      <3>1. PICK o : /\ Fits(o, credential(Now, worker[w].at), Cohort(Now)[worker[w].at],
                             FALSE, spent, faults)
                     /\ spent' = o.used /\ faults' = o.faults
                     /\ worker' = [worker EXCEPT
                          ![w].pc = IF o.err = "ok" \/ Now = "full" THEN "send" ELSE "receive",
                          ![w].ok = o.err = "ok"]
        BY <2>2, WorkStep, Zenon
      <3>2. InPool(w, "authorise") /\ UNCHANGED <<section, i, results, measured, errors>>
        BY <2>2 DEF Work, counters
      <3>3. InPools /\ UNCHANGED <<InPools, Now>> /\ Now # "replay"
        BY <3>2 DEF InPool, InPools, Running, Now, Pools
      <3>4. worker[w].pc = "authorise" /\ worker[w].at \in Nat
        BY <3>2 DEF InPool, Types, Jobs
      <3>5. faults' = faults => o.err = "ok"
        <4>1. credential(Now, worker[w].at) \notin spent
          BY <3>3, <3>4, FirstPresentation DEF InPools
        <4>2. credential(Now, worker[w].at).payment = Cohort(Now)[worker[w].at]
          BY DEF credential
        <4> QED BY <3>1, <4>1, <4>2 DEF Fits
      <3>6. /\ Busy' = IF o.err = "ok" \/ Now = "full" THEN Busy ELSE Busy \ {w}
            /\ Bad' = IF Now = "full" /\ o.err # "ok" THEN Bad \cup {w} ELSE Bad
            /\ w \notin Bad
        <4>1. \A x \in Workers \ {w} : worker'[x] = worker[x]
          BY <3>1 DEF Types, Jobs
        <4>2. worker'[w].pc = IF o.err = "ok" \/ Now = "full" THEN "send" ELSE "receive"
          BY <3>1 DEF Types, Jobs
        <4>3. worker'[w].ok \in Successes <=> o.err = "ok"
          BY <3>1 DEF Types, Jobs, Successes
        <4> HIDE <3>1
        <4> QED BY <3>4, <4>1, <4>2, <4>3 DEF Busy, Bad
      <3>7. faults' \in {faults, faults + 1}
        BY <3>1 DEF Fits
      <3> HIDE <3>1
      <3>8. /\ Cardinality(Bad') \in Nat
            /\ Cardinality(Bad') <= Cardinality(Bad) + (faults' - faults)
        <4>1. Cardinality(Bad) \in Nat /\ faults \in Nat
          OBVIOUS
        <4>2. Cardinality(Bad \cup {w}) = Cardinality(Bad) + 1
          BY <3>6, FS_AddElement
        <4>3. CASE o.err = "ok"
          BY <3>6, <3>7, <4>1, <4>3
        <4>4. CASE o.err # "ok"
          <5>1. faults' = faults + 1
            BY <3>5, <3>7, <4>4
          <5>2. Bad' = Bad \/ Bad' = Bad \cup {w}
            BY <3>6
          <5>3. Cardinality(Bad') \in {Cardinality(Bad), Cardinality(Bad) + 1}
            BY <4>2, <5>2
          <5>4. faults' - faults = 1
            BY <4>1, <5>1
          <5> HIDE <4>2
          <5> QED BY <4>1, <5>3, <5>4
        <4> QED BY <4>3, <4>4
      <3>9. Now = "full" \/ faults' = 0 => Busy' = Busy /\ (Now = "full" \/ faults = 0)
        BY <3>5, <3>6, <3>7
      <3>10. Tally'
        BY <3>2, <3>3, <3>9 DEF Accounts, Tally
      <3>11. Blame'
        <4>1. errors[section] \in Nat /\ faults \in Nat /\ Cardinality(Falses(results)) \in Nat
          BY <3>3 DEF InPools
        <4> QED BY <3>2, <3>3, <3>7, <3>8, <4>1 DEF Accounts, Blame
      <3>12. Books'
        <4>1. \A k \in 1 .. 9 : errors[k] \in Nat
          BY DEF Types, Tallies
        <4>2. faults \in Nat /\ faults' \in Nat /\ (faults' = 0 => faults = 0)
          BY <3>7
        <4>3. \A k \in 1 .. 9 : errors[k] <= faults => errors[k] <= faults'
          <5> SUFFICES ASSUME NEW k \in 1 .. 9, errors[k] <= faults PROVE errors[k] <= faults'
            OBVIOUS
          <5>1. errors[k] \in Nat
            BY <4>1
          <5> QED BY <3>7, <4>2, <5>1
        <4> QED BY <3>2, <4>2, <4>3 DEF Accounts, Books
      <3> QED BY <3>10, <3>11, <3>12 DEF Accounts
    <2>3. ASSUME NEW w \in Workers, Send(w) PROVE Accounts'
      <3>0. InPool(w, "send") /\ ~ resultsClosed
        BY <2>3 DEF Send, InPool, Shape, Phases, SendersGone
      <3>1. /\ InPool(w, "send") /\ results' = Append(results, worker[w].ok)
            /\ UNCHANGED <<section, i, faults, measured, errors>>
        BY <2>3, <3>0 DEF Send, database, counters
      <3>2. Busy' = Busy \ {w} /\ w \in Busy /\ Bad' = Bad \ {w}
            /\ (w \in Bad <=> worker[w].ok \notin Successes) /\ worker[w].ok \in Outcomes
        BY <2>3 DEF Send, InPool, Busy, Bad, Types, Jobs, Outcomes
      <3>3. Cardinality(Busy') = Cardinality(Busy) - 1
            /\ Cardinality(Bad') = IF w \in Bad THEN Cardinality(Bad) - 1 ELSE Cardinality(Bad)
        BY <3>2, FS_RemoveElement
      <3>4. /\ Cardinality(Falses(results')) =
                 Cardinality(Falses(results)) + (IF worker[w].ok \in Successes THEN 0 ELSE 1)
            /\ Len(results') = Len(results) + 1
        BY <3>1, <3>2, FalsesOfAppend DEF Types
      <3>5. InPools /\ InPools' /\ Now' = Now
        BY <3>1 DEF InPool, InPools, Running, Now
      <3>6. Tally'
        <4>1. section \in 1 .. 9 /\ measured[section] \in Nat /\ errors[section] \in Nat
          BY <3>5 DEF InPools
        <4> HIDE <3>2
        <4> QED BY <3>1, <3>3, <3>4, <3>5, <4>1 DEF Accounts, Tally
      <3>7. Cardinality(Falses(results')) + Cardinality(Bad') =
              Cardinality(Falses(results)) + Cardinality(Bad)
        BY <3>2, <3>3, <3>4
      <3>8. Blame'
        <4>1. InPools => errors[section] \in Nat
          BY DEF InPools
        <4>2. /\ Cardinality(Falses(results')) \in Int /\ Cardinality(Bad') \in Int
          BY <3>3, <3>4
        <4> QED BY <3>1, <3>5, <3>7, <4>1, <4>2 DEF Accounts, Blame
      <3> QED BY <3>1, <3>6, <3>8 DEF Accounts, Books
    <2>4. ASSUME NEW w \in Workers, Leave(w) PROVE Accounts'
      <3>1. UNCHANGED <<section, i, results, faults, measured, errors>>
        BY <2>4 DEF Leave, database, counters
      <3>2. Busy' = Busy /\ Bad' = Bad
        BY <2>4 DEF Leave, InPool, Busy, Bad, Types, Jobs
      <3> QED BY <3>1, <3>2 DEF Accounts, Tally, Blame, Books, InPools, Running, Now
    <2>5. CASE CloseIn \/ CloseResults
      BY <2>5 DEF CloseIn, CloseResults, database, counters, Busy, Bad, Accounts, Tally, Blame,
         Books, InPools, Running, Now
    <2>6. CASE Collect
      <3>1. /\ Running /\ results # <<>> /\ results' = Tail(results)
            /\ UNCHANGED <<section, i, worker, faults>>
            /\ \/ Head(results) \in Successes /\ measured' = [measured EXCEPT ![section] = @ + 1]
                  /\ UNCHANGED errors
               \/ Head(results) \notin Successes /\ UNCHANGED measured
                  /\ errors' = [errors EXCEPT ![section] = @ + 1]
        BY <2>6, Zenon DEF Collect, Successes, database
      <3>2. InPools /\ UNCHANGED <<InPools, Now>> /\ Busy' = Busy /\ Bad' = Bad
        BY <3>1 DEF Shape, Phases, InPools, Running, Now, Busy, Bad
      <3>3. Len(results') = Len(results) - 1
            /\ Cardinality(Falses(results')) =
                 Cardinality(Falses(results)) - (IF Head(results) \in Successes THEN 0 ELSE 1)
        BY <3>1, FalsesOfTail DEF Types
      <3>4. /\ measured'[section] + errors'[section] = measured[section] + errors[section] + 1
            /\ errors'[section] = errors[section] + (IF Head(results) \in Successes THEN 0 ELSE 1)
            /\ \A k \in 1 .. 9 : k # section =>
                 measured'[k] = measured[k] /\ errors'[k] = errors[k]
        <4>1. section \in 1 .. 9 /\ measured[section] \in Nat /\ errors[section] \in Nat
          BY <3>1
        <4>2. ASSUME NEW m \in Tallies, m[section] \in Nat
              PROVE  /\ [m EXCEPT ![section] = @ + 1][section] = m[section] + 1
                     /\ \A k \in 1 .. 9 : k # section => [m EXCEPT ![section] = @ + 1][k] = m[k]
          BY <4>1 DEF Tallies
        <4>3. measured \in Tallies /\ errors \in Tallies
          BY DEF Types
        <4>4. CASE Head(results) \in Successes
          <5>1. measured' = [measured EXCEPT ![section] = @ + 1] /\ errors' = errors
            BY <3>1, <4>4, Zenon
          <5>2. /\ measured'[section] = measured[section] + 1
                /\ \A k \in 1 .. 9 : k # section => measured'[k] = measured[k]
            BY <4>1, <4>2, <4>3, <5>1
          <5> QED BY <4>1, <4>4, <5>1, <5>2
        <4>5. CASE Head(results) \notin Successes
          <5>1. errors' = [errors EXCEPT ![section] = @ + 1] /\ measured' = measured
            BY <3>1, <4>5, Zenon
          <5>2. /\ errors'[section] = errors[section] + 1
                /\ \A k \in 1 .. 9 : k # section => errors'[k] = errors[k]
            BY <4>1, <4>2, <4>3, <5>1
          <5> QED BY <4>1, <4>5, <5>1, <5>2
        <4> QED BY <4>4, <4>5
      <3>5. Tally'
        BY <3>1, <3>2, <3>3, <3>4 DEF Accounts, Tally, InPools
      <3>6. Blame'
        BY <3>1, <3>2, <3>3, <3>4 DEF Accounts, Blame, InPools
      <3>7. Books'
        <4>1. section \in 1 .. 9 /\ UNCHANGED <<section, faults>>
          BY <3>1
        <4>2. \A k \in 1 .. 9 : k < section \/ k > section =>
                measured'[k] = measured[k] /\ errors'[k] = errors[k]
          <5> SUFFICES ASSUME NEW k \in 1 .. 9, k < section \/ k > section
                       PROVE  measured'[k] = measured[k] /\ errors'[k] = errors[k]
            OBVIOUS
          <5>1. k # section
            BY <4>1
          <5> QED BY <3>4, <5>1
        <4> HIDE <3>1, <3>4
        <4> QED BY <4>1, <4>2 DEF Accounts, Books
      <3> QED BY <3>5, <3>6, <3>7 DEF Accounts
    <2>7. CASE Spend \/ Replay \/ Repoint \/ FailAndRetry
      <3>1. /\ ~ InPools /\ section \in 1 .. 9 /\ UNCHANGED <<section, measured, errors>>
        BY <2>7, LoopStep DEF Spend, Replay, Repoint, FailAndRetry, counters
      <3>2. faults' \in Nat /\ faults <= faults'
        <4>1. Spend => faults' \in {faults, faults + 1}
          BY SpendStep DEF Fits
        <4>2. Replay => faults' \in {faults, faults + 1}
          BY ReplayStep DEF Fits
        <4>3. Repoint => faults' \in {faults, faults + 1, faults + 2}
          <5> SUFFICES ASSUME Repoint PROVE faults' \in {faults, faults + 1, faults + 2}
            OBVIOUS
          <5> PICK o, g :
                /\ Fits(o, credential(Now, i), 0, FALSE, spent, faults)
                /\ Fits(g, credential(Now, i), Payments[i], FALSE, o.used, o.faults)
                /\ faults' = g.faults
            BY RepointStep
          <5> QED BY DEF Fits
        <4>4. FailAndRetry => faults' \in {faults, faults + 1, faults + 2}
          BY FailStep DEF Fits
        <4> QED BY <2>7, <4>1, <4>2, <4>3, <4>4
      <3>3. ~ InPools'
        BY <3>1 DEF InPools, Running, Now
      <3>4. \A k \in 1 .. 9 : errors[k] \in Nat
        BY DEF Types, Tallies
      <3>5. \A k \in 1 .. 9 : errors[k] <= faults => errors[k] <= faults'
        <4>1. ASSUME NEW k \in 1 .. 9, errors[k] <= faults PROVE errors[k] <= faults'
          <5>1. errors[k] \in Nat /\ faults \in Nat
            BY <3>4
          <5> QED BY <3>2, <4>1, <5>1
        <4> QED BY <4>1
      <3>6. Books'
        BY <3>1, <3>2, <3>5 DEF Accounts, Books
      <3> QED BY <3>3, <3>6 DEF Accounts, Tally, Blame
    <2>8. CASE Advance
      <3>1. /\ Running /\ section' = section + 1 /\ i' = 1 /\ results' = <<>>
            /\ worker' = [w \in Workers |-> Idle] /\ UNCHANGED <<faults, measured, errors>>
        BY <2>8 DEF Advance, counters
      <3>2. Busy' = {} /\ Bad' = {} /\ Falses(results') = {} /\ Len(results') = 0
        BY <3>1 DEF Busy, Bad, Falses, Idle
      <3>3. Now \in Pools =>
              /\ errors[section] <= faults
              /\ Now = "full" \/ faults = 0 =>
                   measured[section] + errors[section] = Len(Cohort(Now))
        <4> SUFFICES ASSUME Now \in Pools
                     PROVE  /\ errors[section] <= faults
                            /\ Now = "full" \/ faults = 0 =>
                                 measured[section] + errors[section] = Len(Cohort(Now))
          OBVIOUS
        <4>1. InPools /\ resultsClosed /\ results = <<>>
          BY <2>8 DEF Advance, SectionDone, InPools, Pools
        <4>2. \A w \in Workers : worker[w].pc = "gone"
          BY <4>1 DEF Shape, Phases, SendersGone
        <4>3. Busy = {} /\ Bad = {} /\ Falses(results) = {} /\ Len(results) = 0
          BY <4>1, <4>2 DEF Busy, Bad, Falses
        <4>4. inClosed
          BY <4>2, PoolExists DEF Shape, Phases
        <4>5. Len(Cohort(Now)) \in Nat
          BY <3>1, CohortsAreWorkload DEF Now
        <4>6. Now # "replay"
          BY DEF Pools
        <4>7. i - 1 = Len(Cohort(Now))
          BY <3>1, <4>4, <4>5, <4>6 DEF Shape, Phases
        <4>8. Cardinality(Busy) = 0 /\ Cardinality(Bad) = 0 /\ Cardinality(Falses(results)) = 0
          BY <4>3, FS_EmptySet
        <4>9. errors[section] \in Nat /\ measured[section] \in Nat
          BY <3>1
        <4> QED BY <4>1, <4>3, <4>7, <4>8, <4>9 DEF Accounts, Tally, Blame
      <3>4. Books'
        <4>1. section \in 1 .. 9 /\ Now = Sections[section]
          BY <3>1 DEF Now
        <4>2. ASSUME NEW k \in 1 .. 9, k < section', Sections[k] \in Pools
              PROVE  /\ errors[k] <= faults
                     /\ Sections[k] = "full" \/ faults = 0 =>
                          measured[k] + errors[k] = Len(Cohort(Sections[k]))
          <5>1. k < section \/ k = section
            BY <3>1, <4>1, <4>2
          <5> QED BY <3>3, <4>1, <4>2, <5>1 DEF Accounts, Books
        <4>3. \A k \in 1 .. 9 : k > section' => measured[k] = 0 /\ errors[k] = 0
          BY <3>1, <4>1 DEF Accounts, Books
        <4> QED BY <3>1, <4>2, <4>3 DEF Books
      <3>5. \A k \in 1 .. 9 : k > section => measured[k] = 0 /\ errors[k] = 0
        BY DEF Accounts, Books
      <3>6. Running' => section' \in 1 .. 9
        BY <3>1, Order DEF Running, Types
      <3>8. Running' => measured'[section'] = 0 /\ errors'[section'] = 0
        <4>1. section \in Nat /\ section' > section
          BY <3>1
        <4> QED BY <3>1, <3>5, <3>6, <4>1
      <3>9. Cardinality(Busy') = 0 /\ Cardinality(Bad') = 0 /\ Cardinality(Falses(results')) = 0
        BY <3>2, FS_EmptySet
      <3>7. Tally' /\ Blame'
        BY <3>1, <3>2, <3>8, <3>9 DEF Tally, Blame, InPools
      <3> QED BY <3>4, <3>7 DEF Accounts
    <2>9. CASE UNCHANGED vars
      BY <2>9 DEF vars, pool, database, counters, Busy, Bad, Accounts, Tally, Blame, Books,
         InPools, Running, Now
    <2> QED BY <2>1, <2>2, <2>3, <2>4, <2>5, <2>6, <2>7, <2>8, <2>9 DEF Next
  <1> QED BY <1>1, <1>2, ShapeHolds, FreshHolds, PTL DEF Spec

\* Every payment of the full path is counted once, and no more errors than calls
\* were spoilt.
THEOREM PaymentsAreCounted == Spec => []EveryPaymentIsCounted
  <1>1. Shape /\ Books => EveryPaymentIsCounted
    <2> SUFFICES ASSUME Books, NEW k \in Over("full")
                 PROVE  measured[k] + errors[k] = Len(Payments) /\ errors[k] <= faults
      BY DEF EveryPaymentIsCounted
    <2>1. k \in 1 .. 9 /\ k < section /\ Sections[k] = "full" /\ "full" \in Pools
      BY Order DEF Over, Pools
    <2> QED BY <2>1, CohortsAreWorkload DEF Books
  <1> QED BY <1>1, ShapeHolds, AccountsHold, PTL DEF Accounts

-----------------------------------------------------------------------------
(* The accounts of the loops, when nothing goes wrong *)

\* How far section j is, which ends at n.
Progress(j, n) == IF section < j THEN 0 ELSE IF section = j THEN i - 1 ELSE n

\* While no call is spoilt, every sample is spent and listed at its own
\* place, every replay and every altered transaction so far is refused, and
\* every payment whose effect failed is recovered.
Ledgers ==
  faults = 0 =>
    /\ Len(list) = Progress(3, Sample)
    /\ \A m \in 1 .. Len(list) : list[m] = credential("spend", m)
    /\ count.replayRefused = Progress(4, Sample)
    /\ count.repointRefused = Progress(5, Repointed)
    /\ count.recovered = count.failed
    /\ count.replayAccepted = 0 /\ count.repointAccepted = 0
    /\ count.burned = 0 /\ count.lost = 0

\* A step that is not of the loops touches nothing that they count.
LEMMA OthersKeepLedgers ==
  ASSUME Ledgers, UNCHANGED <<section, list, count>>, faults' = 0 => faults = 0,
         section \notin {3, 4, 5} \/ i' = i
  PROVE  Ledgers'
  BY DEF Ledgers, Progress

\* The samples are the first payments of the workload, none of them the 0 of
\* the altered transaction.
LEMMA PaymentOf ==
  ASSUME NEW s \in {"spend", "repoint", "failure"}, NEW k \in 1 .. Len(Cohort(s))
  PROVE  credential(s, k).payment = Payments[k] /\ Payments[k] # 0
  <1>1. Cohort(s)[k] = Payments[k] /\ k \in 1 .. Len(Payments)
    <2>1. /\ Len(Cohort(s)) \in Nat /\ Len(Cohort(s)) <= Len(Payments) /\ Len(Payments) \in Nat
          /\ \A m \in 1 .. Len(Cohort(s)) : Cohort(s)[m] = Payments[m]
      BY CohortsAreWorkload
    <2> QED BY <2>1
  <1>2. Payments[k] \in Nat \ {0}
    BY <1>1, WorkloadIsPayments
  <1> QED BY <1>1, <1>2 DEF credential

\* The loops count what happens.
LEMMA LedgersHold == Spec => []Ledgers
  <1>1. Init => Ledgers
    BY SamplesAreTaken DEF Init, Ledgers, Progress, Counters, ReplayCounters,
                  RepointCounters, FailureCounters
  <1>2. Shape /\ Fresh /\ Ledgers /\ [Next]_vars => Ledgers'
    <2> SUFFICES ASSUME Shape, Fresh, Ledgers, [Next]_vars PROVE Ledgers'
      OBVIOUS
    <2> Types /\ i \in Nat \ {0} /\ faults \in Nat
      BY DEF Shape, Types
    <2>1. InPools => section \notin {3, 4, 5}
      BY Order DEF InPools, Now, Pools
    <2>2. CASE \E w \in Workers : Feed(w) \/ Send(w) \/ Leave(w)
      <3>1. InPools /\ UNCHANGED <<section, list, count, faults>>
        BY <2>2 DEF Feed, Send, Leave, InPool, InPools, database, counters
      <3> QED BY <2>1, <3>1, OthersKeepLedgers
    <2>3. ASSUME NEW w \in Workers, Work(w) PROVE Ledgers'
      <3>1. InPools /\ UNCHANGED <<section, list, count>>
        BY <2>3 DEF Work, InPool, InPools, counters
      <3>2. faults' \in {faults, faults + 1}
        BY <2>3, WorkStep DEF Fits
      <3> QED BY <2>1, <3>1, <3>2, OthersKeepLedgers
    <2>4. CASE CloseIn \/ CloseResults
      BY <2>4, OthersKeepLedgers DEF CloseIn, CloseResults, database, counters
    <2>5. CASE Collect
      <3>1. UNCHANGED <<section, i, list, count, faults>>
        BY <2>5, Zenon DEF Collect, database
      <3> QED BY <3>1, OthersKeepLedgers
    <2>6. CASE Spend
      <3>1. PICK o : /\ Fits(o, credential(Now, i), Payments[i], FALSE, spent, faults)
                     /\ faults' = o.faults
                     /\ list' = IF o.err = "ok" THEN Append(list, credential(Now, i)) ELSE list
        BY <2>6, SpendStep
      <3>2. InLoop("spend") /\ UNCHANGED <<section, count>>
        BY <2>6 DEF Spend, counters
      <3>3. /\ Running /\ Now = "spend" /\ section = 3 /\ i' = i + 1
            /\ i \in 1 .. Len(Cohort("spend"))
        <4>1. Len(Cohort("spend")) \in Nat
          BY CohortsAreWorkload
        <4> QED BY <3>2, <4>1, LoopStep
      <3>4. credential(Now, i) \notin spent /\ credential(Now, i).payment = Payments[i]
        BY <3>3, FirstPresentation, PaymentOf
      <3>5. faults' = 0 => faults = 0 /\ o.err = "ok"
        BY <3>1, <3>4 DEF Fits
      <3> QED BY <3>1, <3>2, <3>3, <3>5 DEF Ledgers, Progress, Types
    <2>7. CASE Replay
      <3>1. PICK o : /\ Fits(o, list[i], Payments[i], FALSE, spent, faults)
                     /\ faults' = o.faults
                     /\ Bump({IF o.err = "replay" THEN "replayRefused" ELSE "replayAccepted"})
        BY <2>7, ReplayStep
      <3>2. InLoop("replay") /\ UNCHANGED <<section, list>>
        BY <2>7 DEF Replay
      <3>3. section = 4 /\ i' = i + 1 /\ i \in 1 .. Len(list)
        BY <3>2, LoopStep DEF Types
      <3>4. list[i] \in spent
        BY <3>3 DEF Fresh
      <3>5. faults = 0 => list[i].payment = Payments[i]
        <4> SUFFICES ASSUME faults = 0 PROVE list[i].payment = Payments[i]
          OBVIOUS
        <4>1. Len(list) = Len(Cohort("spend"))
          <5>1. Len(list) = Progress(3, Sample) /\ Len(Cohort("spend")) = Sample
            BY CohortsAreWorkload DEF Ledgers
          <5> QED BY <3>3, <5>1 DEF Progress
        <4>2. list[i] = credential("spend", i)
          BY <3>3 DEF Ledgers
        <4> QED BY <3>3, <4>1, <4>2, PaymentOf
      <3>6. faults' = 0 => faults = 0 /\ o.err = "replay"
        BY <3>1, <3>4, <3>5 DEF Fits
      <3>7. faults' = 0 => \A c \in Counters :
              count'[c] = count[c] + (IF c = "replayRefused" THEN 1 ELSE 0)
        BY <3>1, <3>6, BumpCounts
      <3> QED BY <3>2, <3>3, <3>6, <3>7 DEF Ledgers, Progress, Counters, ReplayCounters,
                  RepointCounters, FailureCounters
    <2>8. CASE Repoint
      <3>1. PICK o, g :
              /\ Fits(o, credential(Now, i), 0, FALSE, spent, faults) /\ o.faults \in Nat
              /\ Fits(g, credential(Now, i), Payments[i], FALSE, o.used, o.faults)
              /\ faults' = g.faults
              /\ Bump({IF o.err = "binding_mismatch" THEN "repointRefused" ELSE "repointAccepted"}
                      \cup {c \in {"burned"} : g.err # "ok"})
        BY <2>8, RepointStep
      <3>2. InLoop("repoint") /\ UNCHANGED <<section, list>>
        BY <2>8 DEF Repoint
      <3>3. /\ Running /\ Now = "repoint" /\ section = 5 /\ i' = i + 1
            /\ i \in 1 .. Len(Cohort("repoint"))
        <4>1. Len(Cohort("repoint")) \in Nat
          BY CohortsAreWorkload
        <4> QED BY <3>2, <4>1, LoopStep
      <3>4. /\ credential(Now, i) \notin spent /\ credential(Now, i).payment = Payments[i]
            /\ credential(Now, i).payment # 0
        BY <3>3, FirstPresentation, PaymentOf
      <3>5. o.used = spent /\ (o.faults = faults => o.err = "binding_mismatch")
        BY <3>1, <3>4 DEF Fits
      <3>6. faults' = 0 => faults = 0 /\ o.err = "binding_mismatch" /\ g.err = "ok"
        BY <3>1, <3>4, <3>5 DEF Fits
      <3>7. faults' = 0 => \A c \in Counters :
              count'[c] = count[c] + (IF c = "repointRefused" THEN 1 ELSE 0)
        BY <3>1, <3>5, <3>6, BumpCounts
      <3> QED BY <3>2, <3>3, <3>6, <3>7 DEF Ledgers, Progress, Counters, ReplayCounters,
                  RepointCounters, FailureCounters
    <2>9. CASE FailAndRetry
      <3>1. PICK o :
           /\ Fits(o, credential(Now, i), Payments[i], ShouldFail, spent, faults)
           /\ o.faults \in Nat
           /\ \/ /\ o.err = "effect_error"
                 /\ \E g : /\ Fits(g, credential(Now, i), Payments[i], FALSE, o.used, o.faults)
                           /\ faults' = g.faults
                           /\ Bump({"failed", IF g.err = "ok" THEN "recovered" ELSE "lost"})
              \/ /\ o.err # "effect_error" /\ faults' = o.faults
                 /\ Bump({c \in {"failed"} : ShouldFail})
        BY <2>9, FailStep
      <3>2. InLoop("failure") /\ UNCHANGED <<section, list>>
        BY <2>9 DEF FailAndRetry
      <3>3. /\ Running /\ Now = "failure" /\ section = 6 /\ i' = i + 1
            /\ i \in 1 .. Len(Cohort("failure"))
        <4>1. Len(Cohort("failure")) \in Nat
          BY CohortsAreWorkload
        <4> QED BY <3>2, <4>1, LoopStep
      <3>4. credential(Now, i) \notin spent /\ credential(Now, i).payment = Payments[i]
        BY <3>3, FirstPresentation, PaymentOf
      <3>5. ASSUME faults' = 0
            PROVE  /\ faults = 0
                   /\ \A c \in Counters : count'[c] = count[c] +
                        (IF ShouldFail /\ c \in {"failed", "recovered"} THEN 1 ELSE 0)
        <4>1. CASE o.err = "effect_error"
          <5>1. PICK g : /\ Fits(g, credential(Now, i), Payments[i], FALSE, o.used, o.faults)
                         /\ faults' = g.faults
                         /\ Bump({"failed", IF g.err = "ok" THEN "recovered" ELSE "lost"})
            BY <3>1, <4>1
          <5>2. o.used = spent /\ o.faults = faults
            BY <3>1, <4>1 DEF Fits
          <5>3. ShouldFail
            BY <3>1, <3>4, <4>1, <5>2 DEF Fits
          <5>4. faults = 0 /\ g.err = "ok"
            BY <3>4, <3>5, <5>1, <5>2 DEF Fits
          <5> QED BY <5>1, <5>3, <5>4, BumpCounts
        <4>2. CASE o.err # "effect_error"
          <5>1. faults' = o.faults /\ Bump({c \in {"failed"} : ShouldFail})
            BY <3>1, <4>2
          <5>2. faults = 0 /\ o.faults = faults
            BY <3>1, <3>5, <5>1 DEF Fits
          <5>3. ~ ShouldFail
            BY <3>1, <3>4, <4>2, <5>2 DEF Fits
          <5> QED BY <5>1, <5>2, <5>3, BumpCounts
        <4> QED BY <4>1, <4>2
      <3> SUFFICES ASSUME faults' = 0 PROVE Ledgers'
        BY DEF Ledgers
      <3>6. /\ Progress(3, Sample)' = Progress(3, Sample)
            /\ Progress(4, Sample)' = Progress(4, Sample)
            /\ Progress(5, Repointed)' = Progress(5, Repointed)
        BY <3>2, <3>3 DEF Progress
      <3>7. \A c \in Counters \ {"failed", "recovered"} : count'[c] = count[c]
        BY <3>5 DEF Types
      <3>8. count'.recovered = count'.failed
        BY <3>5 DEF Ledgers, Counters, ReplayCounters, RepointCounters, FailureCounters
      <3> QED BY <3>2, <3>5, <3>6, <3>7, <3>8 DEF Ledgers, Counters,
                  ReplayCounters, RepointCounters, FailureCounters
    <2>10. CASE Advance
      <3>1. /\ Running /\ SectionDone /\ section' = section + 1 /\ i' = 1
            /\ UNCHANGED <<faults, list, count>>
        BY <2>10 DEF Advance, counters
      <3>2. section \in 1 .. 9 /\ Now = Sections[section]
        BY <3>1, Order DEF Now, Types, Running
      <3>3. section = 3 => i - 1 = Sample
        <4>1. section = 3 => Now = "spend" /\ i > Len(Cohort("spend"))
          BY <3>1, <3>2, Order DEF SectionDone, Pools
        <4>2. Now = "spend" => i <= Len(Cohort("spend")) + 1
          BY <3>1 DEF Shape, Phases
        <4>3. Len(Cohort("spend")) = Sample /\ Len(Cohort("spend")) \in Nat
          BY CohortsAreWorkload
        <4> QED BY <4>1, <4>2, <4>3
      <3>4. section = 5 => i - 1 = Repointed
        <4>1. section = 5 => Now = "repoint" /\ i > Len(Cohort("repoint"))
          BY <3>1, <3>2, Order DEF SectionDone, Pools
        <4>2. Now = "repoint" => i <= Len(Cohort("repoint")) + 1
          BY <3>1 DEF Shape, Phases
        <4>3. Len(Cohort("repoint")) = Repointed /\ Len(Cohort("repoint")) \in Nat
          BY CohortsAreWorkload
        <4> QED BY <4>1, <4>2, <4>3
      <3>5. section = 4 => i - 1 = Len(list)
        <4>1. section = 4 => Now = "replay" /\ i > Len(list)
          BY <3>1, <3>2, Order DEF SectionDone, Pools
        <4> QED BY <3>1, <4>1 DEF Shape, Phases, Types
      <3>6. faults = 0 => /\ Progress(3, Sample)' = Progress(3, Sample)
                          /\ Progress(4, Sample)' = Progress(4, Sample)
                          /\ Progress(5, Repointed)' = Progress(5, Repointed)
        <4>1. faults = 0 /\ section = 4 => Len(list) = Sample
          BY DEF Ledgers, Progress
        <4>2. section \in Nat /\ section' = section + 1 /\ i' = 1 /\ i \in Nat
          BY <3>1, <3>2
        <4>6. Sample \in Nat /\ Repointed \in Nat
          BY CountsAreNatural
        <4>3. Progress(3, Sample)' = Progress(3, Sample)
          BY <3>3, <4>2, <4>6 DEF Progress
        <4>4. faults = 0 => Progress(4, Sample)' = Progress(4, Sample)
          BY <3>5, <4>1, <4>2, <4>6 DEF Progress
        <4>5. Progress(5, Repointed)' = Progress(5, Repointed)
          BY <3>4, <4>2, <4>6 DEF Progress
        <4> QED BY <4>3, <4>4, <4>5
      <3> QED BY <3>1, <3>6 DEF Ledgers
    <2>11. CASE UNCHANGED vars
      BY <2>11, OthersKeepLedgers DEF vars, database, counters
    <2> QED BY <2>2, <2>3, <2>4, <2>5, <2>6, <2>7, <2>8, <2>9, <2>10, <2>11 DEF Next
  <1> QED BY <1>1, <1>2, ShapeHolds, FreshHolds, PTL DEF Spec

\* If the store makes no error and no credential expires, the report of the whole
\* program is clean.
THEOREM CleanRunsLookClean == Spec => []CleanRunIsReportedClean
  <1>1. Shape /\ Books /\ Ledgers => CleanRunIsReportedClean
    <2> SUFFICES ASSUME Shape, Books, Ledgers, faults = 0
                 PROVE  /\ \A s \in Pools : \A k \in Over(s) : measured[k] = Len(Cohort(s))
                        /\ count.replayRefused = Sample \/ Over("replay") = {}
                        /\ count.repointRefused = Repointed \/ Over("repoint") = {}
      BY DEF CleanRunIsReportedClean, Ledgers
    <2>1. ASSUME NEW s \in Pools, NEW k \in Over(s) PROVE measured[k] = Len(Cohort(s))
      <3>1. k \in 1 .. 9 /\ k < section /\ Sections[k] = s /\ s \in Pools
        BY Order DEF Over
      <3>2. errors[k] <= 0 /\ measured[k] + errors[k] = Len(Cohort(s))
        BY <3>1 DEF Books
      <3>3. errors[k] \in Nat /\ measured[k] \in Nat
        BY <3>1 DEF Shape, Types, Tallies
      <3> QED BY <3>2, <3>3
    <2>2. section \in 1 .. 10
      BY DEF Shape, Types
    <2>3. \A k \in 1 .. 9 : /\ Sections[k] = "replay" => k = 4
                            /\ Sections[k] = "repoint" => k = 5
      <3>1. \A k \in 1 .. 9 : \/ k = 1 \/ k = 2 \/ k = 3 \/ k = 4 \/ k = 5
                              \/ k = 6 \/ k = 7 \/ k = 8 \/ k = 9
        OBVIOUS
      <3> QED BY <3>1, Order
    <2>4. count.replayRefused = Sample \/ Over("replay") = {}
      BY <2>2, <2>3, Order DEF Ledgers, Progress, Over
    <2>5. count.repointRefused = Repointed \/ Over("repoint") = {}
      BY <2>2, <2>3, Order DEF Ledgers, Progress, Over
    <2> QED BY <2>1, <2>4, <2>5
  <1> QED BY <1>1, ShapeHolds, AccountsHold, LedgersHold, PTL DEF Accounts
=============================================================================
