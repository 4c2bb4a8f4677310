--------------------------- MODULE ConformanceProofs ---------------------------
(***************************************************************************)
(* Proofs about Conformance, for any number of concurrent calls: what the  *)
(* suite's verdict on a store says about that store.                       *)
(***************************************************************************)
EXTENDS Conformance, FiniteSetTheorems, TLAPS

Id(c)     == Script[check][c].id
Effect(c) == Script[check][c].effect

PCs    == {"idle", "call", "effect", "barrier", "write", "return", "done"}
Inside == {"effect", "barrier", "write", "return"}

TypeOK ==
  /\ store \in Stores /\ check \in Checks
  /\ pc \in [Calls -> PCs]
  /\ result \in [Calls -> {"none", "ok", "replay", "effect_error"}]
  /\ runs \in [Calls -> 0..2]
  /\ mutex \in Calls \cup {None}
  /\ staged \subseteq Calls /\ committed \subseteq Calls
  /\ inEffect \in Nat /\ gaveUp \in BOOLEAN
  /\ verdict \in {"running", "passed", "failed"}

\* How far a call has come, how often it has run its effect and what it returns
\* belong together; only the third store runs an effect twice.
Course ==
  \A c \in Calls :
    /\ pc[c] # "idle" => c \in Steps
    /\ result[c] = "none" <=> pc[c] # "done"
    /\ pc[c] \in {"idle", "call"} \/ result[c] = "replay" => runs[c] = 0
    /\ pc[c] = "effect" => runs[c] = 0 \/ (store = "doubleEffect" /\ runs[c] = 1)
    /\ pc[c] \in {"barrier", "write", "return"} =>
         runs[c] = 1 \/ (store = "doubleEffect" /\ runs[c] = 2)
    /\ result[c] = "ok" => ~ Failing(c) /\ runs[c] = IF store = "doubleEffect" THEN 2 ELSE 1
    /\ result[c] = "effect_error" => Failing(c)

\* A check that is not concurrent makes a call when the ones before it have
\* returned what it wanted.
Order ==
  ~ Concurrent => \A c \in Calls : pc[c] # "idle" => \A b \in 1..(c - 1) : AsWanted(b)

\* The memory store's mutex is held throughout a call's effect.
Exclusion ==
  IF store = "memory"
  THEN \A c \in Calls : pc[c] \in Inside <=> mutex = c
  ELSE mutex = None /\ staged = {}

\* Where what an effect has written is.
Written ==
  /\ store = "memory" =>
       /\ committed = {c \in Calls : result[c] = "ok"}
       /\ staged = {c \in Calls : pc[c] = "return" /\ Effect(c) # "fail"}
  /\ store # "memory" =>
       \A c \in Calls :
         /\ pc[c] = "return" \/ result[c] \in {"ok", "effect_error"} =>
              Effect(c) = "fail" \/ c \in committed
         /\ c \in committed => runs[c] # 0

\* A call of that credential is behind every record.
Spender(b) ==
  /\ pc[b] # "idle"
  /\ \/ result[b] = "ok"
     \/ store = "markFirst" /\ pc[b] \in Inside
     \/ store = "markFirst" /\ result[b] = "effect_error"

Records ==
  /\ \A x \in consumed : \E b \in Calls : Spender(b) /\ Id(b) = x
  /\ \A c \in Calls :
       /\ result[c] = "ok" => Id(c) \in consumed
       /\ store = "markFirst" /\ pc[c] \in Inside \cup {"done"} => Id(c) \in consumed
       /\ store = "memory" /\ pc[c] \in Inside => Id(c) \notin consumed
       /\ result[c] = "replay" =>
            \E b \in Calls \ {c} : /\ Spender(b) /\ Id(b) = Id(c)
                                   /\ Concurrent \/ b < c

\* Calls that ran their effect found the credential unspent: one after the
\* other, no earlier call had spent it; under the mutex, no other has.
Fresh ==
  /\ \A c \in Calls :
       ~ Concurrent /\ (pc[c] \in Inside \/ result[c] \in {"ok", "effect_error"}) =>
         \A b \in 1..(c - 1) : Id(b) = Id(c) => result[b] # "ok" /\ store # "markFirst"
  /\ store = "memory" =>
       \A b, c \in Calls : result[b] = "ok" /\ result[c] = "ok" /\ Id(b) = Id(c) => b = c

\* The barrier opens for everybody at once, unless somebody gives up.
Barrier ==
  Concurrent /\ ~ gaveUp =>
    \A c \in Calls : pc[c] \in {"write", "return"} \/ result[c] = "ok" => inEffect >= Attempts

\* The mutex lets one call alone into the effect.
Entries ==
  store = "memory" /\ Concurrent =>
    inEffect <= 1 /\ ((\A c \in Calls : runs[c] = 0) => inEffect = 0)

\* Every call that runs its effect is counted.
Counting ==
  /\ \A c \in Calls : runs[c] # 0 => inEffect >= 1
  /\ RanTwice => inEffect >= 2

\* A check is passed when all its calls have returned, and nothing follows.
Final == verdict = "passed" => \A c \in Steps : pc[c] = "done"

Verdicts == CorrectStorePasses /\ QuietChecksPass /\ BrokenStoresAreCaught

Shape == /\ TypeOK /\ Course /\ Order /\ Exclusion /\ Written /\ Records /\ Fresh
         /\ Barrier /\ Entries

IInv == Shape /\ Counting /\ Final /\ Verdicts

-----------------------------------------------------------------------------
(* The checks *)

\* What the proofs use of the scripts.
LEMMA Scripts ==
  ASSUME check \in Checks
  PROVE  /\ Checks = {"SpendsOnce", "RefusesReplay", "DistinctCredentialsBothSpend",
                      "FailedEffectRollsBackConsumption", "FailedEffectRollsBackItsOwnWrite",
                      "CredentialIsSpendableAfterAFailedEffect",
                      "ConcurrentPresentationSpendsExactlyOnce", "EffectRunsExactlyOnce"}
         /\ Steps \subseteq Calls /\ 1 \in Steps
         /\ Concurrent =>
              Steps = Calls /\ \A c \in Calls : Id(c) = "a" /\ ~ Failing(c)
<1>1. 1 \in Calls /\ 2 \in Calls
  BY TwoCallsOrMore DEF Calls
<1>2. Checks = {"SpendsOnce", "RefusesReplay", "DistinctCredentialsBothSpend",
                "FailedEffectRollsBackConsumption", "FailedEffectRollsBackItsOwnWrite",
                "CredentialIsSpendableAfterAFailedEffect",
                "ConcurrentPresentationSpendsExactlyOnce", "EffectRunsExactlyOnce"}
  BY DEF Checks, Script
<1>3. CASE Concurrent
  <2>1. Script[check] = [c \in Calls |-> Call("a", "write", Anything)]
    BY <1>3 DEF Concurrent, Script
  <2> QED
    BY <1>1, <1>2, <2>1 DEF Steps, Id, Failing, Call
<1>4. CASE ~ Concurrent
  <2>1. Steps = {1} \/ Steps = {1, 2}
    BY <1>2, <1>4 DEF Concurrent, Steps, Script
  <2> QED
    BY <1>1, <1>2, <1>4, <2>1
<1> QED
  BY <1>3, <1>4

-----------------------------------------------------------------------------
(* The inductive invariant *)

\* A fresh store under any check satisfies it.
LEMMA InductiveInit == Init => IInv
<1> SUFFICES ASSUME Init PROVE IInv
  OBVIOUS
<1> USE DEF Init
<1>1. TypeOK
  <2>1. runs \in [Calls -> 0..2] /\ inEffect \in Nat
    OBVIOUS
  <2> QED
    BY <2>1 DEF TypeOK, PCs
<1>2. Course /\ Order /\ Exclusion
  BY NoneIsNotACall DEF Course, Order, Exclusion, Inside
<1>3. Written
  BY DEF Written
<1>4. Records /\ Fresh
  BY DEF Records, Fresh, Inside
<1>5. Barrier /\ Entries
  BY DEF Barrier, Entries
<1>6. Counting /\ Final
  BY DEF Counting, RanTwice, Final
<1>7. Verdicts
  BY DEF Verdicts, CorrectStorePasses, QuietChecksPass, BrokenStoresAreCaught
<1> QED
  BY <1>1, <1>2, <1>3, <1>4, <1>5, <1>6, <1>7 DEF IInv, Shape

\* No step of a call disturbs it.
LEMMA CallsKeepShape == Shape /\ (\E c \in Calls : Step(c)) => Shape'
<1> USE NoneIsNotACall, Scripts DEF Shape
<1>1. ASSUME Shape, NEW c \in Calls, Start(c) PROVE Shape'
  <2> USE <1>1 DEF Start, barrier, storeVars, callVars
  <2>1. TypeOK'
    BY DEF TypeOK, PCs
  <2>2. Course'
    BY DEF TypeOK, Course, Failing, Steps
  <2>3. Order'
    BY DEF TypeOK, Order, AsWanted, Concurrent
  <2>4. Exclusion'
    BY DEF TypeOK, Exclusion, Inside
  <2>5. Written'
    BY DEF TypeOK, Course, Exclusion, Inside, Written, Effect, Failing
  <2>6. Records'
    BY DEF TypeOK, Course, Order, AsWanted, Exclusion, Records, Spender, Id, Inside, Concurrent
  <2>7. Fresh'
    BY DEF TypeOK, Course, Order, AsWanted, Records, Exclusion, Fresh, Id, Inside, Concurrent
  <2>8. Barrier'
    BY DEF TypeOK, Course, Barrier, Concurrent, Failing
  <2>9. Entries'
    BY DEF TypeOK, Course, Records, Exclusion, Entries, Inside, Concurrent, Spender, Id
  <2> QED
    BY <2>1, <2>2, <2>3, <2>4, <2>5, <2>6, <2>7, <2>8, <2>9
<1>2. ASSUME Shape, NEW c \in Calls, Refuse(c) PROVE Shape'
  <2> USE <1>2 DEF Refuse, barrier, storeVars, callVars
  <2>1. TypeOK'
    BY DEF TypeOK, PCs
  <2>2. Course'
    BY DEF TypeOK, Course, Failing, Steps
  <2>3. Order'
    BY DEF TypeOK, Order, AsWanted, Concurrent
  <2>4. Exclusion'
    BY DEF TypeOK, Exclusion, Inside
  <2>5. Written'
    BY DEF TypeOK, Course, Exclusion, Inside, Written, Effect, Failing
  <2>6. Records'
    <3> DEFINE x == Id(c)
    <3>1. PICK b \in Calls : Spender(b) /\ Id(b) = x
      BY DEF Records, Id
    <3>2. b # c /\ (Concurrent \/ b < c)
      <4>1. b # c
        BY <3>1 DEF Spender, Inside, Course
      <4>2. ~ Concurrent /\ c < b => pc[c] = "done"
        BY <3>1 DEF Order, AsWanted, Spender, TypeOK, Calls
      <4> QED
        BY <4>1, <4>2 DEF Calls
    <3>3. Spender(b)'
      BY <3>1, <3>2 DEF Spender, TypeOK
    <3> QED
      BY <3>1, <3>2, <3>3 DEF TypeOK, Course, Records, Spender, Id, Inside, Concurrent
  <2>7. Fresh'
    BY DEF TypeOK, Course, Order, AsWanted, Records, Exclusion, Fresh, Id, Inside, Concurrent
  <2>8. Barrier'
    BY DEF TypeOK, Course, Barrier, Concurrent, Failing
  <2>9. Entries'
    BY DEF TypeOK, Course, Records, Exclusion, Entries, Inside, Concurrent, Spender, Id
  <2> QED
    BY <2>1, <2>2, <2>3, <2>4, <2>5, <2>6, <2>7, <2>8, <2>9
<1>3. ASSUME Shape, NEW c \in Calls, Admit(c) PROVE Shape'
  <2> USE <1>3 DEF Admit, barrier, storeVars, callVars
  <2>1. TypeOK'
    BY DEF TypeOK, PCs
  <2>2. Course'
    BY DEF TypeOK, Course, Failing, Steps
  <2>3. Order'
    BY DEF TypeOK, Order, AsWanted, Concurrent
  <2>4. Exclusion'
    BY DEF TypeOK, Exclusion, Inside
  <2>5. Written'
    BY DEF TypeOK, Course, Exclusion, Inside, Written, Effect, Failing
  <2>6. Records'
    BY DEF TypeOK, Course, Order, AsWanted, Exclusion, Records, Spender, Id, Inside, Concurrent
  <2>7. Fresh'
    <3>1. \A b \in Calls : result[b] = "ok" => Id(b) # Id(c)
      BY DEF Records, Id
    <3>2. ASSUME ~ Concurrent, store = "markFirst", NEW b \in 1..(c - 1) PROVE Id(b) # Id(c)
      <4>1. b \in Calls /\ pc[b] = "done"
        BY <3>2, TwoCallsOrMore DEF Order, AsWanted, Calls
      <4> QED
        BY <3>2, <4>1 DEF Records, Id
    <3>3. \A b \in 1..(c - 1) : b \in Calls
      BY TwoCallsOrMore DEF Calls
    <3> QED
      BY <3>1, <3>2, <3>3 DEF TypeOK, Fresh, Id, Inside, Concurrent
  <2>8. Barrier'
    BY DEF TypeOK, Course, Barrier, Concurrent, Failing
  <2>9. Entries'
    BY DEF TypeOK, Course, Records, Exclusion, Entries, Inside, Concurrent, Spender, Id
  <2> QED
    BY <2>1, <2>2, <2>3, <2>4, <2>5, <2>6, <2>7, <2>8, <2>9
<1>4. ASSUME Shape, NEW c \in Calls, RunEffect(c) PROVE Shape'
  <2> USE <1>4 DEF RunEffect, barrier, storeVars, callVars
  <2>1. TypeOK'
    <3>1. runs[c] \in 0..1
      BY DEF Course
    <3>2. runs[c] + 1 \in 0..2 /\ inEffect + 1 \in Nat
      BY <3>1 DEF TypeOK
    <3> QED
      BY <3>2 DEF TypeOK, PCs
  <2>2. Course'
    BY DEF TypeOK, Course, Failing, Steps
  <2>3. Order'
    BY DEF TypeOK, Order, AsWanted, Concurrent
  <2>4. Exclusion'
    BY DEF TypeOK, Exclusion, Inside
  <2>5. Written'
    BY DEF TypeOK, Course, Exclusion, Inside, Written, Effect, Failing
  <2>6. Records'
    BY DEF TypeOK, Course, Order, AsWanted, Exclusion, Records, Spender, Id, Inside, Concurrent
  <2>7. Fresh'
    BY DEF TypeOK, Course, Order, AsWanted, Records, Exclusion, Fresh, Id, Inside, Concurrent
  <2>8. Barrier'
    <3>1. inEffect' \in Nat /\ inEffect \in Nat /\ inEffect' >= inEffect
      BY DEF TypeOK
    <3>2. \A b \in Calls : pc'[b] \in {"write", "return"} /\ Concurrent => pc[b] \in {"write", "return"}
      BY DEF TypeOK
    <3> QED
      BY <3>1, <3>2, TwoCallsOrMore DEF Barrier, Concurrent
  <2>9. Entries'
    \* Whoever had entered before would still be inside, or have spent "a".
    <3>1. ASSUME store = "memory", Concurrent, NEW b \in Calls PROVE runs[b] = 0
      <4>3. \A d \in Calls : Id(d) = "a" /\ ~ Failing(d)
        BY <3>1 DEF TypeOK
      <4>1. CASE b = c
        BY <3>1, <4>1 DEF Course
      <4>2. CASE b # c
        <5>1. pc[b] \notin Inside
          BY <3>1, <4>2 DEF Exclusion, Inside
        <5>2. pc[b] # "done" \/ result[b] = "replay"
          <6>1. result[b] # "ok"
            BY <3>1, <4>3 DEF Records, Inside
          <6>2. result[b] # "effect_error"
            BY <3>1, <4>3 DEF Course
          <6> QED
            BY <6>1, <6>2 DEF TypeOK, Course
        <5> QED
          BY <5>1, <5>2 DEF TypeOK, PCs, Inside, Course
      <4> QED
        BY <4>1, <4>2
    <3> QED
      BY <3>1 DEF Entries, TypeOK, Concurrent
  <2> QED
    BY <2>1, <2>2, <2>3, <2>4, <2>5, <2>6, <2>7, <2>8, <2>9
<1>5. ASSUME Shape, NEW c \in Calls, PassBarrier(c) PROVE Shape'
  <2> USE <1>5 DEF PassBarrier, barrier, storeVars, callVars
  <2>1. TypeOK'
    BY DEF TypeOK, PCs
  <2>2. Course'
    BY DEF TypeOK, Course, Failing, Steps
  <2>3. Order'
    BY DEF TypeOK, Order, AsWanted, Concurrent
  <2>4. Exclusion'
    BY DEF TypeOK, Exclusion, Inside
  <2>5. Written'
    BY DEF TypeOK, Course, Exclusion, Inside, Written, Effect, Failing
  <2>6. Records'
    BY DEF TypeOK, Course, Order, AsWanted, Exclusion, Records, Spender, Id, Inside, Concurrent
  <2>7. Fresh'
    BY DEF TypeOK, Course, Order, AsWanted, Records, Exclusion, Fresh, Id, Inside, Concurrent
  <2>8. Barrier'
    BY DEF TypeOK, Course, Barrier, Concurrent, Failing
  <2>9. Entries'
    BY DEF TypeOK, Course, Records, Exclusion, Entries, Inside, Concurrent, Spender, Id
  <2> QED
    BY <2>1, <2>2, <2>3, <2>4, <2>5, <2>6, <2>7, <2>8, <2>9
<1>6. ASSUME Shape, NEW c \in Calls, TimeOut(c) PROVE Shape'
  <2> USE <1>6 DEF TimeOut, barrier, storeVars, callVars
  <2>1. TypeOK'
    BY DEF TypeOK, PCs
  <2>2. Course'
    BY DEF TypeOK, Course, Failing, Steps
  <2>3. Order'
    BY DEF TypeOK, Order, AsWanted, Concurrent
  <2>4. Exclusion'
    BY DEF TypeOK, Exclusion, Inside
  <2>5. Written'
    BY DEF TypeOK, Course, Exclusion, Inside, Written, Effect, Failing
  <2>6. Records'
    BY DEF TypeOK, Course, Order, AsWanted, Exclusion, Records, Spender, Id, Inside, Concurrent
  <2>7. Fresh'
    BY DEF TypeOK, Course, Order, AsWanted, Records, Exclusion, Fresh, Id, Inside, Concurrent
  <2>8. Barrier'
    BY DEF TypeOK, Course, Barrier, Concurrent, Failing
  <2>9. Entries'
    BY DEF TypeOK, Course, Records, Exclusion, Entries, Inside, Concurrent, Spender, Id
  <2> QED
    BY <2>1, <2>2, <2>3, <2>4, <2>5, <2>6, <2>7, <2>8, <2>9
<1>7. ASSUME Shape, NEW c \in Calls, Write(c) PROVE Shape'
  <2> USE <1>7 DEF Write, barrier, storeVars, callVars
  <2>1. TypeOK'
    BY DEF TypeOK, PCs
  <2>2. Course'
    BY DEF TypeOK, Course, Failing, Steps
  <2>3. Order'
    BY DEF TypeOK, Order, AsWanted, Concurrent
  <2>4. Exclusion'
    BY DEF TypeOK, Exclusion, Inside
  <2>5. Written'
    BY DEF TypeOK, Course, Exclusion, Inside, Written, Effect, Failing
  <2>6. Records'
    BY DEF TypeOK, Course, Order, AsWanted, Exclusion, Records, Spender, Id, Inside, Concurrent
  <2>7. Fresh'
    BY DEF TypeOK, Course, Order, AsWanted, Records, Exclusion, Fresh, Id, Inside, Concurrent
  <2>8. Barrier'
    BY DEF TypeOK, Course, Barrier, Concurrent, Failing
  <2>9. Entries'
    BY DEF TypeOK, Course, Records, Exclusion, Entries, Inside, Concurrent, Spender, Id
  <2> QED
    BY <2>1, <2>2, <2>3, <2>4, <2>5, <2>6, <2>7, <2>8, <2>9
<1>8. ASSUME Shape, NEW c \in Calls, EffectFailed(c) PROVE Shape'
  <2> USE <1>8 DEF EffectFailed, barrier, storeVars, callVars
  <2>1. TypeOK'
    BY DEF TypeOK, PCs
  <2>2. Course'
    BY DEF TypeOK, Course, Failing, Steps
  <2>3. Order'
    BY DEF TypeOK, Order, AsWanted, Concurrent
  <2>4. Exclusion'
    BY DEF TypeOK, Exclusion, Inside
  <2>5. Written'
    BY DEF TypeOK, Course, Exclusion, Inside, Written, Effect, Failing
  <2>6. Records'
    BY DEF TypeOK, Course, Order, AsWanted, Exclusion, Records, Spender, Id, Inside, Concurrent
  <2>7. Fresh'
    BY DEF TypeOK, Course, Order, AsWanted, Records, Exclusion, Fresh, Id, Inside, Concurrent
  <2>8. Barrier'
    BY DEF TypeOK, Course, Barrier, Concurrent, Failing
  <2>9. Entries'
    BY DEF TypeOK, Course, Records, Exclusion, Entries, Inside, Concurrent, Spender, Id
  <2> QED
    BY <2>1, <2>2, <2>3, <2>4, <2>5, <2>6, <2>7, <2>8, <2>9
<1>9. ASSUME Shape, NEW c \in Calls, RunAgain(c) PROVE Shape'
  <2> USE <1>9 DEF RunAgain, barrier, storeVars, callVars
  <2>1. TypeOK'
    BY DEF TypeOK, PCs
  <2>2. Course'
    BY DEF TypeOK, Course, Failing, Steps
  <2>3. Order'
    BY DEF TypeOK, Order, AsWanted, Concurrent
  <2>4. Exclusion'
    BY DEF TypeOK, Exclusion, Inside
  <2>5. Written'
    BY DEF TypeOK, Course, Exclusion, Inside, Written, Effect, Failing
  <2>6. Records'
    BY DEF TypeOK, Course, Order, AsWanted, Exclusion, Records, Spender, Id, Inside, Concurrent
  <2>7. Fresh'
    BY DEF TypeOK, Course, Order, AsWanted, Records, Exclusion, Fresh, Id, Inside, Concurrent
  <2>8. Barrier'
    BY DEF TypeOK, Course, Barrier, Concurrent, Failing
  <2>9. Entries'
    BY DEF TypeOK, Course, Records, Exclusion, Entries, Inside, Concurrent, Spender, Id
  <2> QED
    BY <2>1, <2>2, <2>3, <2>4, <2>5, <2>6, <2>7, <2>8, <2>9
<1>10. ASSUME Shape, NEW c \in Calls, Finish(c) PROVE Shape'
  <2> USE <1>10 DEF Finish, barrier, storeVars, callVars
  <2>1. TypeOK'
    BY DEF TypeOK, PCs
  <2>2. Course'
    BY DEF TypeOK, Course, Failing, Steps
  <2>3. Order'
    BY DEF TypeOK, Order, AsWanted, Concurrent
  <2>4. Exclusion'
    BY DEF TypeOK, Exclusion, Inside
  <2>5. Written'
    BY DEF TypeOK, Course, Exclusion, Inside, Written, Effect, Failing
  <2>6. Records'
    BY DEF TypeOK, Course, Order, AsWanted, Exclusion, Records, Spender, Id, Inside, Concurrent
  <2>7. Fresh'
    BY DEF TypeOK, Course, Order, AsWanted, Records, Exclusion, Fresh, Id, Inside, Concurrent
  <2>8. Barrier'
    BY DEF TypeOK, Course, Barrier, Concurrent, Failing
  <2>9. Entries'
    BY DEF TypeOK, Course, Records, Exclusion, Entries, Inside, Concurrent, Spender, Id
  <2> QED
    BY <2>1, <2>2, <2>3, <2>4, <2>5, <2>6, <2>7, <2>8, <2>9
<1> QED
  BY <1>1, <1>2, <1>3, <1>4, <1>5, <1>6, <1>7, <1>8, <1>9, <1>10 DEF Step

\* A call counts itself in when it first runs its effect.
LEMMA CallsAreCounted ==
  ASSUME TypeOK, Counting, NEW c \in Calls, Step(c)
  PROVE  Counting'
<1>1. CASE RunEffect(c)
  <2>1. inEffect \in Nat /\ inEffect' = inEffect + 1
    BY <1>1 DEF RunEffect, TypeOK
  <2>2. \A b \in Calls \ {c} : runs'[b] = runs[b]
    BY <1>1 DEF RunEffect, TypeOK
  <2>3. ASSUME RanTwice' PROVE inEffect' >= 2
    <3>1. PICK b \in Calls, d \in Calls : b # d /\ runs'[b] # 0 /\ runs'[d] # 0
      BY <2>3 DEF RanTwice
    <3>2. \E e \in Calls : runs[e] # 0
      BY <2>2, <3>1
    <3> QED
      BY <2>1, <3>2 DEF Counting
  <2> QED
    BY <2>1, <2>3 DEF Counting
<1>2. CASE ~ RunEffect(c)
  <2>1. UNCHANGED <<runs, inEffect>>
    BY <1>2 DEF Step, Start, Refuse, Admit, PassBarrier, TimeOut, Write, EffectFailed,
       RunAgain, Finish, barrier
  <2> QED
    BY <2>1 DEF Counting, RanTwice
<1> QED
  BY <1>1, <1>2

-----------------------------------------------------------------------------
(* What the calls of a check return *)

\* The first of a sequence of calls succeeds unless its effect fails; a second
\* one does too, but for a credential the first has spent.
LEMMA InSequence ==
  ASSUME Shape, ~ Concurrent
  PROVE  /\ pc[1] = "done" => result[1] = IF Failing(1) THEN "effect_error" ELSE "ok"
         /\ pc[2] = "done" =>
              /\ pc[1] = "done"
              /\ Id(1) # Id(2) => result[2] = IF Failing(2) THEN "effect_error" ELSE "ok"
              /\ Id(1) = Id(2) /\ result[1] = "ok" => result[2] = "replay"
              /\ Id(1) = Id(2) /\ result[1] # "ok" /\ store = "memory" => result[2] # "replay"
              /\ Id(1) = Id(2) /\ store = "markFirst" => result[2] = "replay"
<1> USE DEF Shape
<1>1. 1 \in Calls /\ 2 \in Calls /\ \A b \in Calls : b < 2 => b = 1
  BY TwoCallsOrMore DEF Calls
<1>2. \A b \in Calls : ~ b < 1
  BY TwoCallsOrMore DEF Calls
<1>3. \A c \in Calls : pc[c] = "done" /\ result[c] # "replay" =>
        result[c] = IF Failing(c) THEN "effect_error" ELSE "ok"
  BY DEF TypeOK, Course
<1>4. pc[1] = "done" => result[1] # "replay"
  BY <1>1, <1>2 DEF Records
<1>5. ASSUME pc[2] = "done" PROVE pc[1] = "done"
  <2>1. 1 \in 1..(2 - 1)
    OBVIOUS
  <2> QED
    BY <1>1, <1>5, <2>1 DEF Order, AsWanted
<1>6. ASSUME pc[2] = "done", result[2] = "replay" PROVE Spender(1) /\ Id(1) = Id(2)
  BY <1>1, <1>6 DEF Records
<1>7. ASSUME pc[2] = "done", result[2] # "replay", Id(1) = Id(2)
      PROVE  result[1] # "ok" /\ store # "markFirst"
  <2>1. result[2] \in {"ok", "effect_error"} /\ 1 \in 1..(2 - 1)
    BY <1>1, <1>3, <1>7
  <2> QED
    BY <1>1, <1>7, <2>1 DEF Fresh
<1> QED
  BY <1>1, <1>3, <1>4, <1>5, <1>6, <1>7 DEF Spender

\* Of the concurrent calls on a store that holds its mutex, one succeeds and the
\* others are refused.
LEMMA OneWinner ==
  ASSUME Shape, store = "memory", Concurrent, \A c \in Calls : pc[c] = "done"
  PROVE  /\ inEffect <= 1
         /\ \E w \in Calls : /\ Returned("ok") = {w}
                             /\ Returned("replay") = Calls \ {w}
                             /\ committed = {w}
<1> USE DEF Shape
<1>1. \A c \in Calls : Id(c) = "a" /\ ~ Failing(c)
  BY Scripts DEF TypeOK
<1>2. \A c \in Calls : result[c] \in {"ok", "replay"}
  BY <1>1 DEF TypeOK, Course
<1>3. PICK w \in Calls : result[w] = "ok"
  <2>1. 1 \in Calls
    BY TwoCallsOrMore DEF Calls
  <2>2. CASE result[1] = "ok"
    BY <2>1, <2>2
  <2>3. CASE result[1] = "replay"
    BY <2>1, <2>3 DEF Records, Spender
  <2> QED
    BY <1>2, <2>1, <2>2, <2>3
<1>4. \A c \in Calls : result[c] = "ok" <=> c = w
  BY <1>1, <1>3 DEF Fresh
<1> QED
  BY <1>2, <1>3, <1>4 DEF Returned, Written, Entries

\* One call, and all calls but one, in numbers.
LEMMA Counted ==
  ASSUME NEW w \in Calls
  PROVE  Cardinality({w}) = 1 /\ Cardinality(Calls \ {w}) = Attempts - 1
<1>1. IsFiniteSet(Calls) /\ Cardinality(Calls) = Attempts
  <2>1. Cardinality(1..Attempts) = IF 1 > Attempts THEN 0 ELSE Attempts - 1 + 1
    BY FS_Interval, TwoCallsOrMore
  <2> QED
    BY <2>1, FS_Interval, TwoCallsOrMore DEF Calls
<1>2. Cardinality(Calls \ {w}) = Cardinality(Calls) - 1
  BY <1>1, FS_RemoveElement
<1> QED
  BY <1>1, <1>2, FS_Singleton

-----------------------------------------------------------------------------
(* The verdict *)

Over == Aborted \/ \A c \in Steps : pc[c] = "done"

\* A check whose calls all return what it wants reaches its assertions.
LEMMA NothingUnwanted ==
  ASSUME \A c \in Steps : pc[c] = "done" => result[c] \in Script[check][c].want, Over
  PROVE  ~ Aborted /\ \A c \in Steps : AsWanted(c)
  BY DEF Over, Aborted, AsWanted

\* The checks of a quiet environment, over any of the stores.
LEMMA QuietPasses ==
  ASSUME Shape, Over,
         check \in {"SpendsOnce", "RefusesReplay", "DistinctCredentialsBothSpend"}
  PROVE  ~ Aborted /\ Assertions[check]
<1> USE InSequence DEF Shape, Id, Effect, Failing, Call
<1>1. ~ Concurrent /\ 1 \in Calls /\ 2 \in Calls
  BY TwoCallsOrMore DEF Concurrent, Calls
<1>2. CASE check = "SpendsOnce"
  <2>1. Script[check] = <<Call("a", "write", {"ok"})>>
    BY <1>2 DEF Script
  <2>2. Steps = {1}
    BY <2>1 DEF Steps
  <2>3. pc[1] = "done" => result[1] = "ok"
    BY <1>1, <2>1
  <2>4. ~ Aborted /\ result[1] = "ok"
    BY <2>1, <2>2, <2>3, NothingUnwanted DEF AsWanted
  <2>5. "a" \in consumed /\ 1 \in committed
    BY <1>1, <2>1, <2>4 DEF Records, Written
  <2> QED
    BY <1>2, <2>4, <2>5 DEF Assertions
<1>3. CASE check = "RefusesReplay"
  <2>1. Script[check] = <<Call("a", "write", {"ok"}), Call("a", "write", {"replay"})>>
    BY <1>3 DEF Script
  <2>2. Steps = {1, 2}
    BY <2>1 DEF Steps
  <2>3. /\ pc[1] = "done" => result[1] = "ok"
        /\ pc[2] = "done" => result[2] = "replay"
    BY <1>1, <2>1
  <2>4. ~ Aborted /\ result[2] = "replay"
    BY <2>1, <2>2, <2>3, NothingUnwanted DEF AsWanted
  <2>5. runs[2] = 0 /\ 2 \notin committed
    BY <1>1, <2>4 DEF Course, Written
  <2> QED
    BY <1>3, <2>4, <2>5 DEF Assertions
<1>4. CASE check = "DistinctCredentialsBothSpend"
  <2>1. Script[check] = <<Call("a", "write", {"ok"}), Call("b", "write", {"ok"})>>
    BY <1>4 DEF Script
  <2>2. Steps = {1, 2}
    BY <2>1 DEF Steps
  <2>3. /\ pc[1] = "done" => result[1] = "ok"
        /\ pc[2] = "done" => result[2] = "ok"
    BY <1>1, <2>1
  <2>4. ~ Aborted /\ result[1] = "ok" /\ result[2] = "ok"
    BY <2>1, <2>2, <2>3, NothingUnwanted DEF AsWanted
  <2>5. {"a", "b"} \subseteq consumed /\ {1, 2} \subseteq committed
    BY <1>1, <2>1, <2>4 DEF Records, Written
  <2> QED
    BY <1>4, <2>4, <2>5 DEF Assertions
<1> QED
  BY <1>2, <1>3, <1>4

\* The memory store, under every check.
LEMMA MemoryPasses ==
  ASSUME Shape, store = "memory", Over PROVE ~ Aborted /\ Assertions[check]
<1> USE DEF Shape
<1>1. CASE Concurrent
  <2>1. Steps = Calls /\ check = "ConcurrentPresentationSpendsExactlyOnce"
    BY <1>1, Scripts DEF TypeOK, Concurrent
  <2>2. ~ Aborted
    <3>1. Script[check] = [c \in Calls |-> Call("a", "write", Anything)]
      BY <2>1 DEF Script
    <3> QED
      BY <2>1, <3>1 DEF TypeOK, Course, Aborted, AsWanted, Call, Anything
  <2>3. \A c \in Calls : pc[c] = "done"
    BY <2>1, <2>2 DEF Over
  <2>4. PICK w \in Calls : /\ Returned("ok") = {w} /\ Returned("replay") = Calls \ {w}
                           /\ committed = {w} /\ inEffect <= 1
    BY <1>1, <2>3, OneWinner
  <2>5. Assertions[check]
    BY <2>1, <2>4, Counted DEF Assertions, SpentExactlyOnce
  <2> QED
    BY <2>2, <2>5
<1>2. ASSUME ~ Concurrent,
             check \in {"FailedEffectRollsBackConsumption", "FailedEffectRollsBackItsOwnWrite"}
      PROVE  ~ Aborted /\ Assertions[check]
  <2>1. /\ Steps = {1} /\ Failing(1) /\ Id(1) = "a"
        /\ Script[check][1].want = {"effect_error"}
    BY <1>2 DEF Script, Steps, Failing, Call, Id
  <2>2. pc[1] = "done" => result[1] = "effect_error"
    BY <1>2, <2>1, InSequence
  <2>3. ~ Aborted /\ result[1] = "effect_error"
    BY <2>1, <2>2, NothingUnwanted DEF AsWanted
  <2>4. 1 \in Calls /\ 1 \notin committed
    BY <2>3, TwoCallsOrMore DEF Written, Calls
  <2>5. "a" \notin consumed
    <3>1. \A c \in Calls : pc[c] # "idle" => c = 1
      BY <2>1 DEF Course
    <3> QED
      BY <2>3, <3>1 DEF Records, Spender
  <2>6. /\ Assertions["FailedEffectRollsBackConsumption"] <=> "a" \notin consumed
        /\ Assertions["FailedEffectRollsBackItsOwnWrite"]
             <=> 1 \notin committed /\ "a" \notin consumed
    BY DEF Assertions
  <2> QED
    BY <1>2, <2>3, <2>4, <2>5, <2>6
<1>3. CASE check = "CredentialIsSpendableAfterAFailedEffect"
  <2>1. Script[check] = <<Call("a", "fail", Anything), Call("a", "write", {"ok"})>>
    BY <1>3 DEF Script
  <2>2. /\ ~ Concurrent /\ Steps = {1, 2} /\ Failing(1) /\ ~ Failing(2)
        /\ Id(1) = "a" /\ Id(2) = "a"
    BY <1>3, <2>1 DEF Concurrent, Steps, Failing, Call, Id
  <2>3. 1 \in Calls /\ 2 \in Calls
    BY TwoCallsOrMore DEF Calls
  <2>4. pc[1] = "done" => result[1] = "effect_error"
    BY <2>2, InSequence
  <2>5. pc[2] = "done" => result[2] = "ok"
    BY <2>2, <2>3, <2>4, InSequence DEF TypeOK, Course
  <2>6. ~ Aborted /\ result[2] = "ok"
    BY <2>1, <2>2, <2>4, <2>5, NothingUnwanted DEF AsWanted, Call, Anything
  <2>7. 2 \in committed /\ "a" \in consumed
    BY <2>2, <2>3, <2>6 DEF Records, Written
  <2> QED
    BY <1>3, <2>6, <2>7 DEF Assertions
<1>4. CASE check = "EffectRunsExactlyOnce"
  <2>1. Script[check] = <<Call("a", "write", {"ok"})>>
    BY <1>4 DEF Script
  <2>2. ~ Concurrent /\ Steps = {1} /\ ~ Failing(1) /\ 1 \in Calls
    BY <1>4, <2>1, TwoCallsOrMore DEF Concurrent, Steps, Failing, Call, Calls
  <2>3. pc[1] = "done" => result[1] = "ok"
    BY <2>2, InSequence
  <2>4. ~ Aborted /\ result[1] = "ok"
    BY <2>1, <2>2, <2>3, NothingUnwanted DEF AsWanted, Call
  <2>5. runs[1] = 1
    BY <2>2, <2>4 DEF Course
  <2> QED
    BY <1>4, <2>4, <2>5 DEF Assertions, RanExactlyOnce
<1> QED
  BY <1>1, <1>2, <1>3, <1>4, QuietPasses, Scripts DEF TypeOK, Concurrent

\* A broken store, under the checks that are to catch it, unless a call left the
\* barrier by its timeout and was the only one to reach it.
LEMMA BrokenFails ==
  ASSUME Shape, Counting, store # "memory", check \in MustCatch[store],
         gaveUp => RanTwice,
         Over, ~ Aborted, Assertions[check]
  PROVE  FALSE
<1> USE DEF Shape
<1>0. /\ 1 \in Calls /\ 2 \in Calls
      /\ \A c \in Steps : AsWanted(c)
  BY TwoCallsOrMore DEF Calls, Over, Aborted
<1>1. CASE store = "checkThenAct" /\ Concurrent
  <2>1. inEffect <= 1 /\ Cardinality(Returned("ok")) = 1
    BY <1>1 DEF Concurrent, Assertions, SpentExactlyOnce
  <2>2. PICK c \in Calls : result[c] = "ok"
    BY <2>1, FS_EmptySet DEF Returned
  <2>3. inEffect \in Nat
    BY DEF TypeOK
  <2>4. CASE gaveUp
    BY <2>1, <2>3, <2>4 DEF Counting
  <2>5. CASE ~ gaveUp
    <3>1. inEffect >= Attempts
      BY <1>1, <2>2, <2>5 DEF Barrier
    <3> QED
      BY <2>1, <2>3, <3>1, TwoCallsOrMore
  <2> QED
    BY <2>4, <2>5
<1>2. CASE check = "FailedEffectRollsBackItsOwnWrite"
  <2>1. /\ Steps = {1} /\ Effect(1) = "write_and_fail"
        /\ Script[check][1].want = {"effect_error"}
    BY <1>2 DEF Script, Steps, Effect, Call
  <2>2. result[1] = "effect_error"
    BY <1>0, <2>1 DEF AsWanted
  <2>3. 1 \in committed
    BY <1>0, <2>1, <2>2 DEF Written
  <2> QED
    BY <1>2, <2>3 DEF Assertions
<1>3. CASE store = "markFirst" /\ check = "FailedEffectRollsBackConsumption"
  <2>1. Steps = {1} /\ Id(1) = "a"
    BY <1>3 DEF Script, Steps, Id, Call
  <2>2. "a" \in consumed
    BY <1>0, <1>3, <2>1 DEF AsWanted, Records
  <2> QED
    BY <1>3, <2>2 DEF Assertions
<1>4. CASE store = "markFirst" /\ check = "CredentialIsSpendableAfterAFailedEffect"
  <2>1. Script[check] = <<Call("a", "fail", Anything), Call("a", "write", {"ok"})>>
    BY <1>4 DEF Script
  <2>2. ~ Concurrent /\ 2 \in Steps /\ Id(1) = Id(2) /\ Script[check][2].want = {"ok"}
    BY <1>4, <2>1 DEF Concurrent, Steps, Id, Call
  <2> QED
    BY <1>0, <1>4, <2>2, InSequence DEF AsWanted
<1>5. CASE store = "doubleEffect" /\ check = "EffectRunsExactlyOnce"
  <2>1. Steps = {1} /\ Script[check][1].want = {"ok"}
    BY <1>5 DEF Script, Steps, Call
  <2>2. runs[1] = 2
    BY <1>0, <1>5, <2>1 DEF AsWanted, Course
  <2>3. Assertions["EffectRunsExactlyOnce"] <=> runs[1] = 1
    BY DEF Assertions, RanExactlyOnce
  <2> QED
    BY <1>5, <2>2, <2>3
<1> QED
  BY <1>1, <1>2, <1>3, <1>4, <1>5 DEF TypeOK, Stores, MustCatch, Concurrent

-----------------------------------------------------------------------------
(* Theorems *)

\* The invariant holds in every reachable state.
LEMMA Invariance == Spec => []IInv
<1>1. ASSUME IInv, [Next]_vars PROVE IInv'
  <2>1. CASE UNCHANGED vars
    BY <1>1, <2>1
    DEF vars, callVars, storeVars, barrier, IInv, Shape, TypeOK, Course, Order, AsWanted,
        Concurrent, Steps, Failing, Exclusion, Written, Effect, Records, Spender, Id, Fresh,
        Barrier, Entries, Counting, RanTwice, Final, Verdicts, CorrectStorePasses, QuietChecksPass,
        BrokenStoresAreCaught
  <2>2. ASSUME NEW c \in Calls, Step(c) PROVE IInv'
    <3>1. UNCHANGED <<store, check, verdict>>
      BY <2>2 DEF Step, Start, Refuse, Admit, RunEffect, PassBarrier, TimeOut, Write,
         EffectFailed, RunAgain, Finish, barrier
    <3>2. verdict # "passed"
      <4>1. c \in Steps /\ pc[c] # "done"
        BY <1>1, <2>2 DEF IInv, Shape, Course, Step, Start, Refuse, Admit, RunEffect,
           PassBarrier, TimeOut, Write, EffectFailed, RunAgain, Finish
      <4> QED
        BY <1>1, <4>1 DEF IInv, Final
    <3>3. Verdicts' /\ Final'
      BY <1>1, <3>1, <3>2
      DEF IInv, Shape, TypeOK, Verdicts, CorrectStorePasses, QuietChecksPass,
          BrokenStoresAreCaught, Final
    <3>4. Counting'
      BY <1>1, <2>2, CallsAreCounted DEF IInv, Shape
    <3> QED
      BY <1>1, <2>2, <3>3, <3>4, CallsKeepShape DEF IInv
  <2>3. CASE Conclude
    <3>1. UNCHANGED <<store, check, callVars, storeVars, barrier>> /\ Over
      BY <2>3 DEF Conclude, Over
    <3>2. verdict' = IF ~ Aborted /\ Assertions[check] THEN "passed" ELSE "failed"
      BY <2>3 DEF Conclude
    <3>3. Shape'
      BY <1>1, <3>1, <3>2
      DEF callVars, storeVars, barrier, IInv, Shape, TypeOK, Course, Order, AsWanted,
          Concurrent, Steps, Failing, Exclusion, Written, Effect, Records, Spender, Id, Fresh,
          Barrier, Entries
    <3>4. CorrectStorePasses'
      BY <1>1, <3>1, <3>2, MemoryPasses DEF IInv, CorrectStorePasses
    <3>5. QuietChecksPass'
      BY <1>1, <3>1, <3>2, QuietPasses DEF IInv, QuietChecksPass
    <3>6. BrokenStoresAreCaught'
      <4>1. (gaveUp => RanTwice)' <=> (gaveUp => RanTwice)
        BY <3>1 DEF RanTwice, callVars, barrier
      <4>2. ASSUME store # "memory", check \in MustCatch[store], gaveUp => RanTwice
            PROVE  verdict' # "passed"
        BY <1>1, <3>1, <3>2, <4>2, BrokenFails DEF IInv
      <4> QED
        BY <3>1, <4>1, <4>2 DEF BrokenStoresAreCaught
    <3>7. Counting'
      BY <1>1, <3>1 DEF IInv, Counting, RanTwice, callVars, barrier
    <3>8. Final'
      BY <1>1, <3>1, <3>2 DEF Over, Aborted, Final, Steps, callVars
    <3> QED
      BY <3>3, <3>4, <3>5, <3>6, <3>7, <3>8 DEF IInv, Verdicts
  <2> QED
    BY <1>1, <2>1, <2>2, <2>3 DEF Next
<1> QED
  BY <1>1, InductiveInit, PTL DEF Spec

\* The suite accuses no correct store, whatever the schedule and the timeouts.
THEOREM NobodyIsAccusedWrongly == Spec => []CorrectStorePasses
<1>1. IInv => CorrectStorePasses
  BY DEF IInv, Verdicts
<1> QED
  BY <1>1, Invariance, PTL

\* Every broken store fails every check built to refuse it, for any number of
\* concurrent calls, unless one gives up waiting for the others.
THEOREM DefectsAreFound == Spec => []BrokenStoresAreCaught
<1>1. IInv => BrokenStoresAreCaught
  BY DEF IInv, Verdicts
<1> QED
  BY <1>1, Invariance, PTL

\* The broken stores get the quiet checks right.
THEOREM QuietEnvironment == Spec => []QuietChecksPass
<1>1. IInv => QuietChecksPass
  BY DEF IInv, Verdicts
<1> QED
  BY <1>1, Invariance, PTL
=============================================================================
