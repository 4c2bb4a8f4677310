-------------------------- MODULE MemoryStoreProofs --------------------------
(***************************************************************************)
(* Proofs about MemoryStore, for any calls, stores, credentials and writes. *)
(*                                                                         *)
(* That a credential is spent once rests on the mutex: between the check   *)
(* and the record of a call nobody else can write to the same store.       *)
(***************************************************************************)
EXTENDS MemoryStore, TLAPS

Inside == {"check", "effect", "unlock"}

\* A call, its result and its transaction advance together.
Phases ==
  \A a \in Attempts :
    /\ pc[a] = "idle" <=> target[a] = None
    /\ result[a] = "none" <=> pc[a] \in {"idle", "lock", "check", "effect"}
    /\ pc[a] \in {"idle", "lock", "check"} => pending[a] = {}
    /\ pc[a] = "effect" => late[a] = {}
    /\ late[a] \subseteq pending[a]

\* The calls between Lock and Unlock are those that hold the mutex of the store
\* they were made on.
Exclusion ==
  /\ \A a \in Attempts : pc[a] \in Inside => mutex[At(a)] = a
  /\ \A s \in Stores : mutex[s] # None => pc[mutex[s]] \in Inside /\ At(mutex[s]) = s

\* The records are those of the calls that return nil, under their own keys; a
\* running effect has none against it, and a refused call that of another.
Evidence ==
  /\ \A a \in Attempts :
       /\ result[a] = "ok" <=> target[a] # None /\ consumed[target[a]] = a
       /\ result[a] = "replay" => consumed[target[a]] \notin {None, a}
       /\ pc[a] = "effect" => consumed[target[a]] = None
  /\ \A c \in Stores \X Ids : consumed[c] # None => target[consumed[c]] = c

IInv == TypeOK /\ Phases /\ Exclusion /\ Evidence /\ EffectIsAllOrNothing

-----------------------------------------------------------------------------
(* Typing *)

\* Every step keeps the types.
LEMMA TypingStep == TypeOK /\ Phases /\ [Next]_vars => TypeOK'
<1> SUFFICES ASSUME TypeOK, Phases, [Next]_vars PROVE TypeOK'
  OBVIOUS
<1> USE DEF TypeOK, PCs, Results
<1>1. CASE UNCHANGED vars
  BY <1>1 DEF vars
<1>2. ASSUME NEW a \in Attempts, NEW s \in Stores, NEW i \in Ids, Call(a, s, i)
      PROVE  TypeOK'
  BY <1>2 DEF Call
<1>3. ASSUME NEW a \in Attempts, Lock(a) PROVE TypeOK'
  BY <1>3 DEF Lock
<1>4. ASSUME NEW a \in Attempts, Refuse(a) PROVE TypeOK'
  BY <1>4 DEF Refuse
<1>5. ASSUME NEW a \in Attempts, Start(a) PROVE TypeOK'
  BY <1>5 DEF Start
<1>6. ASSUME NEW a \in Attempts, NEW w \in Writes, Put(a, w) PROVE TypeOK'
  BY <1>6 DEF Put
<1>7. ASSUME NEW a \in Attempts, NEW r \in {"effect_error", "panic"}, Fail(a, r)
      PROVE  TypeOK'
  BY <1>7 DEF Fail
<1>8. ASSUME NEW a \in Attempts, Apply(a) PROVE TypeOK'
  <2>1. committed' \in [Stores \X Writes -> Attempts \cup {None}]
    BY <1>8 DEF Apply, Overwritten
  <2> QED
    BY <1>8, <2>1 DEF Apply
<1>9. ASSUME NEW a \in Attempts, Unlock(a) PROVE TypeOK'
  BY <1>9 DEF Unlock
<1>10. ASSUME NEW a \in Attempts, NEW w \in Writes, PutLate(a, w) PROVE TypeOK'
  BY <1>10 DEF PutLate
<1> QED
  BY <1>1, <1>2, <1>3, <1>4, <1>5, <1>6, <1>7, <1>8, <1>9, <1>10 DEF Next, Step

-----------------------------------------------------------------------------
(* The inductive invariant *)

\* Fresh stores satisfy it.
LEMMA InductiveInit == Init => IInv
  BY NoneIsFresh
  DEF Init, IInv, TypeOK, PCs, Results, Phases, Exclusion, Inside, Evidence, EffectIsAllOrNothing

\* Every step of every call keeps it.
LEMMA InductiveStep == IInv /\ [Next]_vars => IInv'
<1> SUFFICES ASSUME IInv, [Next]_vars PROVE IInv'
  OBVIOUS
<1> USE NoneIsFresh DEF IInv, At
<1>0. TypeOK'
  BY TypingStep
<1>1. CASE UNCHANGED vars
  BY <1>0, <1>1 DEF vars, Phases, Exclusion, Evidence, EffectIsAllOrNothing, InTime
\* A step that commits nothing, lets no call return nil and leaves alone what
\* those that did have staged.
<1>a. ASSUME UNCHANGED committed,
              \A b \in Attempts : result'[b] = "ok" <=> result[b] = "ok",
              \A b \in Attempts : result[b] = "ok" =>
                target'[b] = target[b] /\ pending'[b] \ late'[b] = pending[b] \ late[b]
       PROVE  EffectIsAllOrNothing'
  <2>1. \A b \in Attempts : result[b] = "ok" => At(b)' = At(b) /\ InTime(b)' = InTime(b)
    BY <1>a DEF InTime
  <2>2. /\ \A s \in Stores, w \in Writes, a \in Attempts :
             committed[<<s, w>>] = a => result[a] = "ok" /\ At(a)' = s /\ w \in InTime(a)'
    BY <2>1 DEF EffectIsAllOrNothing
  <2>3. ASSUME NEW a \in Attempts, result[a] = "ok"
        PROVE  /\ \A w \in InTime(a)' : committed[<<At(a)', w>>] # None
               /\ \A b \in Attempts \ {a} : \A v, w \in InTime(a)' \cap InTime(b)' :
                    ~ (committed[<<At(a)', v>>] = a /\ committed[<<At(a)', w>>] = b)
    <3>1. At(a) \in Stores /\ InTime(a) \subseteq Writes
      BY <2>3 DEF TypeOK, Phases, InTime
    <3>2. \A w \in InTime(a) : committed[<<At(a), w>>] # None
      BY <2>3 DEF EffectIsAllOrNothing
    <3>3. ASSUME NEW b \in Attempts \ {a}, NEW v \in InTime(a) \cap InTime(b)',
                 NEW w \in InTime(a) \cap InTime(b)',
                 committed[<<At(a), v>>] = a, committed[<<At(a), w>>] = b
          PROVE  FALSE
      <4>1. InTime(b)' = InTime(b)
        BY <2>1, <3>1, <3>3 DEF EffectIsAllOrNothing
      <4> QED
        BY <2>3, <3>3, <4>1 DEF EffectIsAllOrNothing
    <3> QED
      BY <2>1, <2>3, <3>2, <3>3
  <2> QED
    BY <1>a, <2>2, <2>3 DEF EffectIsAllOrNothing
<1>2. ASSUME NEW a \in Attempts, NEW s \in Stores, NEW i \in Ids, Call(a, s, i)
      PROVE  Phases' /\ Exclusion' /\ Evidence' /\ EffectIsAllOrNothing'
  <2>1. target[a] = None /\ result[a] = "none" /\ pc[a] = "idle"
    BY <1>2 DEF Call, Phases
  <2>2. Phases'
    BY <1>2 DEF Call, TypeOK, Phases
  <2>3. Exclusion'
    BY <1>2, <2>1 DEF Call, TypeOK, Exclusion, Inside
  <2>4. Evidence'
    BY <1>2, <2>1 DEF Call, TypeOK, Evidence
  <2>5. EffectIsAllOrNothing'
    BY <1>2, <1>a, <2>1 DEF Call, TypeOK, Phases
  <2> QED
    BY <2>2, <2>3, <2>4, <2>5
<1>3. ASSUME NEW a \in Attempts, Lock(a)
      PROVE  Phases' /\ Exclusion' /\ Evidence' /\ EffectIsAllOrNothing'
  <2>1. Phases'
    BY <1>3 DEF Lock, TypeOK, Phases
  <2>2. Exclusion'
    BY <1>3 DEF Lock, TypeOK, Phases, Exclusion, Inside
  <2>3. Evidence'
    BY <1>3 DEF Lock, TypeOK, Evidence
  <2>4. EffectIsAllOrNothing'
    BY <1>3, <1>a DEF Lock, TypeOK, Phases
  <2> QED
    BY <2>1, <2>2, <2>3, <2>4
<1>4. ASSUME NEW a \in Attempts, Refuse(a)
      PROVE  Phases' /\ Exclusion' /\ Evidence' /\ EffectIsAllOrNothing'
  <2>1. Phases'
    BY <1>4 DEF Refuse, TypeOK, Phases
  <2>2. Exclusion'
    BY <1>4 DEF Refuse, TypeOK, Exclusion, Inside
  <2>3. Evidence'
    BY <1>4 DEF Refuse, TypeOK, Phases, Evidence
  <2>4. EffectIsAllOrNothing'
    BY <1>4, <1>a DEF Refuse, TypeOK, Phases
  <2> QED
    BY <2>1, <2>2, <2>3, <2>4
<1>5. ASSUME NEW a \in Attempts, Start(a)
      PROVE  Phases' /\ Exclusion' /\ Evidence' /\ EffectIsAllOrNothing'
  <2>1. Phases'
    BY <1>5 DEF Start, TypeOK, Phases
  <2>2. Exclusion'
    BY <1>5 DEF Start, TypeOK, Exclusion, Inside
  <2>3. Evidence'
    BY <1>5 DEF Start, TypeOK, Evidence
  <2>4. EffectIsAllOrNothing'
    BY <1>5, <1>a DEF Start, TypeOK, Phases
  <2> QED
    BY <2>1, <2>2, <2>3, <2>4
<1>6. ASSUME NEW a \in Attempts, NEW w \in Writes, Put(a, w)
      PROVE  Phases' /\ Exclusion' /\ Evidence' /\ EffectIsAllOrNothing'
  <2>1. Phases'
    BY <1>6 DEF Put, TypeOK, Phases
  <2>2. Exclusion'
    BY <1>6 DEF Put, Exclusion
  <2>3. Evidence'
    BY <1>6 DEF Put, Evidence
  <2>4. EffectIsAllOrNothing'
    BY <1>6, <1>a DEF Put, TypeOK, Phases
  <2> QED
    BY <2>1, <2>2, <2>3, <2>4
<1>7. ASSUME NEW a \in Attempts, NEW r \in {"effect_error", "panic"}, Fail(a, r)
      PROVE  Phases' /\ Exclusion' /\ Evidence' /\ EffectIsAllOrNothing'
  <2>1. Phases'
    BY <1>7 DEF Fail, TypeOK, Phases
  <2>2. Exclusion'
    BY <1>7 DEF Fail, TypeOK, Exclusion, Inside
  <2>3. Evidence'
    BY <1>7 DEF Fail, TypeOK, Phases, Evidence
  <2>4. EffectIsAllOrNothing'
    BY <1>7, <1>a DEF Fail, TypeOK, Phases
  <2> QED
    BY <2>1, <2>2, <2>3, <2>4
<1>8. ASSUME NEW a \in Attempts, Apply(a)
      PROVE  Phases' /\ Exclusion' /\ Evidence' /\ EffectIsAllOrNothing'
  <2>1. target[a] \in Stores \X Ids /\ target[a] # None /\ consumed[target[a]] = None
    BY <1>8 DEF Apply, TypeOK, Phases, Evidence
  \* The lock keeps every other effect on this store out.
  <2>2. \A b \in Attempts : pc[b] = "effect" /\ target[b] = target[a] => b = a
    BY <1>8 DEF Apply, Exclusion, Inside
  <2>3. Phases'
    BY <1>8 DEF Apply, TypeOK, Phases
  <2>4. Exclusion'
    BY <1>8 DEF Apply, TypeOK, Exclusion, Inside
  <2>5. Evidence'
    BY <1>8, <2>1, <2>2 DEF Apply, TypeOK, Phases, Evidence
  <2>6. EffectIsAllOrNothing'
    <3>1. late[a] = {} /\ result[a] = "none" /\ pending[a] \subseteq Writes /\ At(a) \in Stores
      BY <1>8, <2>1 DEF Apply, Phases, TypeOK
    <3>2. \A s \in Stores, w \in Writes :
            committed'[<<s, w>>] = IF s = At(a) /\ w \in pending[a]
                                   THEN a ELSE committed[<<s, w>>]
      BY <1>8 DEF Apply, Overwritten
    <3>3. /\ UNCHANGED <<target, pending, late>> /\ result'[a] = "ok"
          /\ \A b \in Attempts \ {a} : result'[b] = result[b]
      BY <1>8 DEF Apply, TypeOK
    <3>4. \A s \in Stores, w \in Writes, b \in Attempts :
            committed'[<<s, w>>] = b => result'[b] = "ok" /\ At(b) = s /\ w \in InTime(b)
      BY <3>1, <3>2, <3>3 DEF EffectIsAllOrNothing, InTime
    <3>5. ASSUME NEW b \in Attempts, result'[b] = "ok", NEW w \in InTime(b)
          PROVE  committed'[<<At(b), w>>] # None
      <4>1. At(b) \in Stores /\ w \in Writes
        BY <3>5, <3>1, <3>3 DEF TypeOK, Phases, InTime
      <4> QED
        BY <3>1, <3>2, <3>3, <3>5, <4>1 DEF EffectIsAllOrNothing, InTime
    \* A pair of effects that a is no part of has lost the same keys to it.
    <3>6. ASSUME NEW b \in Attempts, result'[b] = "ok", NEW c \in Attempts \ {b},
                 NEW v \in InTime(b) \cap InTime(c), NEW w \in InTime(b) \cap InTime(c),
                 committed'[<<At(b), v>>] = b, committed'[<<At(b), w>>] = c
          PROVE  FALSE
      <4>1. At(b) \in Stores /\ v \in Writes /\ w \in Writes
        BY <3>6, <3>1, <3>3 DEF TypeOK, Phases, InTime
      <4>2. At(c) = At(b)
        BY <3>4, <3>6, <4>1
      <4>3. CASE b # a /\ c # a
        <5>1. committed[<<At(b), v>>] = b /\ committed[<<At(b), w>>] = c /\ result[b] = "ok"
          BY <3>2, <3>3, <3>6, <4>1, <4>3
        <5> QED
          BY <3>6, <5>1 DEF EffectIsAllOrNothing
      <4>4. CASE b = a
        BY <3>1, <3>2, <3>6, <4>1, <4>4 DEF InTime
      <4>5. CASE c = a
        BY <3>1, <3>2, <3>6, <4>1, <4>2, <4>5 DEF InTime
      <4> QED
        BY <4>3, <4>4, <4>5
    <3>7. UNCHANGED At(a) /\ \A b \in Attempts : At(b)' = At(b) /\ InTime(b)' = InTime(b)
      BY <3>3 DEF InTime
    <3> QED
      BY <3>4, <3>5, <3>6, <3>7 DEF EffectIsAllOrNothing
  <2> QED
    BY <2>3, <2>4, <2>5, <2>6
<1>9. ASSUME NEW a \in Attempts, Unlock(a)
      PROVE  Phases' /\ Exclusion' /\ Evidence' /\ EffectIsAllOrNothing'
  <2>1. Phases'
    BY <1>9 DEF Unlock, TypeOK, Phases
  <2>2. Exclusion'
    <3>1. mutex[At(a)] = a
      BY <1>9 DEF Unlock, Exclusion, Inside
    <3>2. \A b \in Attempts \ {a} : pc[b] \in Inside => At(b) # At(a)
      BY <3>1 DEF Exclusion
    <3> QED
      BY <1>9, <3>1, <3>2 DEF Unlock, TypeOK, Exclusion, Inside
  <2>3. Evidence'
    BY <1>9 DEF Unlock, TypeOK, Evidence
  <2>4. EffectIsAllOrNothing'
    BY <1>9, <1>a DEF Unlock, TypeOK, Phases
  <2> QED
    BY <2>1, <2>2, <2>3, <2>4
<1>10. ASSUME NEW a \in Attempts, NEW w \in Writes \ pending[a], PutLate(a, w)
       PROVE  Phases' /\ Exclusion' /\ Evidence' /\ EffectIsAllOrNothing'
  <2>1. Phases'
    BY <1>10 DEF PutLate, TypeOK, Phases
  <2>2. Exclusion'
    BY <1>10 DEF PutLate, Exclusion
  <2>3. Evidence'
    BY <1>10 DEF PutLate, Evidence
  <2>4. \A b \in Attempts : pending'[b] \ late'[b] = pending[b] \ late[b]
    BY <1>10 DEF PutLate, TypeOK
  <2>5. EffectIsAllOrNothing'
    BY <1>10, <1>a, <2>4 DEF PutLate, TypeOK, Phases
  <2> QED
    BY <2>1, <2>2, <2>3, <2>5
<1> QED
  BY <1>0, <1>1, <1>2, <1>3, <1>4, <1>5, <1>6, <1>7, <1>8, <1>9, <1>10 DEF Next, Step

\* The invariant holds in every reachable state.
LEMMA Invariance == Spec => []IInv
  BY InductiveInit, InductiveStep, PTL DEF Spec

-----------------------------------------------------------------------------
(* Theorems *)

\* The variables of the store keep their types.
THEOREM TypeCorrectness == Spec => []TypeOK
<1>1. IInv => TypeOK
  BY DEF IInv
<1> QED
  BY <1>1, Invariance, PTL

\* What an effect put is committed with the record or not at all, and what is
\* put after its end never.
THEOREM EffectsAreAtomic == Spec => []EffectIsAllOrNothing
<1>1. IInv => EffectIsAllOrNothing
  BY DEF IInv
<1> QED
  BY <1>1, Invariance, PTL

-----------------------------------------------------------------------------
(* MemoryStore implements SingleUse *)

\* An effect is applied exactly when its call returns nil.
LEMMA AppliedMeansOk ==
  ASSUME IInv, NEW a \in Attempts
  PROVE  Applied(a) <=> result[a] = "ok"
<1>1. ASSUME NEW k \in Stores \X Writes, committed[k] = a PROVE result[a] = "ok"
  BY <1>1 DEF IInv, EffectIsAllOrNothing
<1> QED
  BY <1>1 DEF IInv, Evidence, Applied

\* Fresh stores are those of the contract.
LEMMA ContractInit == Init => Abstract!Init
  BY NoneIsFresh DEF Init, Abstract!Init, Verdict, Applied

\* The abstract view of a state.
View == <<target, consumed, {a \in Attempts : Applied(a)}, Verdict>>

\* Every step is a step of the contract or invisible to it.
LEMMA ContractStep ==
  IInv /\ [Next]_vars => [Abstract!Next]_(Abstract!vars)
<1> SUFFICES ASSUME IInv, [Next]_vars
             PROVE  Abstract!Next \/ UNCHANGED View
  BY DEF Abstract!vars, View
<1> USE DEF IInv
<1>0. \A a \in Attempts : Applied(a) <=> result[a] = "ok"
  BY AppliedMeansOk
<1>1. ASSUME NEW a \in Attempts, NEW s \in Stores, NEW i \in Ids, Call(a, s, i)
      PROVE  Abstract!Present(a, <<s, i>>)
  <2>1. target[a] = None /\ pc[a] = "idle"
    BY <1>1 DEF Call, Phases
  <2>2. \A b \in Attempts : Applied(b)' <=> Applied(b)
    <3>1. \A b \in Attempts \ {a} : Applied(b)' <=> Applied(b)
      BY <1>1 DEF Call, TypeOK, Applied
    <3>2. consumed[<<s, i>>] # a /\ \A k \in Stores \X Writes : committed[k] # a
      BY <2>1, <1>0, NoneIsFresh DEF Phases, Evidence, Applied
    <3>3. ~ Applied(a) /\ ~ Applied(a)'
      BY <1>1, <2>1, <3>2 DEF Call, TypeOK, Applied
    <3> QED
      BY <3>1, <3>3
  <2>3. Verdict[a] = "idle" /\ Verdict' = [Verdict EXCEPT ![a] = "open"]
    BY <1>1 DEF Call, TypeOK, Verdict
  <2> QED
    BY <1>1, <2>2, <2>3 DEF Call, Abstract!Present
<1>2. ASSUME NEW a \in Attempts, Apply(a) PROVE Abstract!Spend(a)
  <2>1. Verdict[a] = "open" /\ Verdict' = Verdict
    BY <1>2 DEF Apply, Verdict, TypeOK
  <2>2. consumed[target[a]] = None
    BY <1>2 DEF Apply, Evidence
  <2>3. target[a] \in Stores \X Ids /\ target[a] # None
    BY <1>2 DEF Apply, TypeOK, Phases
  <2>4. Applied(a)'
    BY <1>2, <2>3 DEF Apply, TypeOK, Applied
  \* A value that a overwrites does not undo the call that wrote it.
  <2>5. ASSUME NEW b \in Attempts \ {a} PROVE Applied(b)' <=> Applied(b)
    <3>1. target'[b] = target[b] /\ (target[b] # None =>
            (consumed'[target[b]] = b <=> consumed[target[b]] = b))
      BY <1>2, <2>2, <2>3, NoneIsFresh DEF Apply, TypeOK
    <3>2. \A k \in Stores \X Writes : committed'[k] = b => committed[k] = b
      BY <1>2 DEF Apply, Overwritten
    <3>3. Applied(b) => target[b] # None /\ consumed[target[b]] = b
      BY <1>0 DEF Evidence
    <3> QED
      BY <3>1, <3>2, <3>3 DEF Applied
  <2>6. {b \in Attempts : Applied(b)}' = {b \in Attempts : Applied(b)} \cup {a}
    BY <2>4, <2>5
  <2> QED
    BY <1>2, <2>1, <2>2, <2>6 DEF Apply, Abstract!Spend
<1>3. ASSUME NEW a \in Attempts, Unlock(a)
      PROVE  \E v \in Abstract!Verdicts : Abstract!Report(a, v)
  <2> DEFINE v == IF result[a] \in {"ok", "replay"} THEN result[a] ELSE "failed"
  <2>1. v \in Abstract!Verdicts
    BY DEF Abstract!Verdicts
  <2>2. Verdict[a] = "open" /\ Verdict' = [Verdict EXCEPT ![a] = v]
    BY <1>3 DEF Unlock, Verdict, TypeOK
  <2>3. /\ v = "ok" <=> result[a] = "ok"
        /\ v = "replay" <=> result[a] = "replay"
    OBVIOUS
  <2>4. UNCHANGED <<target, consumed, result, {b \in Attempts : Applied(b)}>>
    BY <1>3 DEF Unlock, Applied
  <2>5. Abstract!Report(a, v)
    BY <1>0, <2>2, <2>3, <2>4 DEF Abstract!Report, Evidence
  <2> QED
    BY <2>1, <2>5
<1>4. ASSUME NEW a \in Attempts,
             \/ Lock(a) \/ Refuse(a) \/ Start(a)
             \/ \E w \in Writes : Put(a, w)
             \/ \E r \in {"effect_error", "panic"} : Fail(a, r)
      PROVE  UNCHANGED View
  <2>1. Verdict' = Verdict
    BY <1>4 DEF Lock, Refuse, Start, Put, Fail, Verdict, TypeOK
  <2> QED
    BY <1>4, <2>1 DEF Lock, Refuse, Start, Put, Fail, View, Applied
<1>5. ASSUME \/ UNCHANGED vars
             \/ \E a \in Attempts, w \in Writes : PutLate(a, w)
      PROVE  UNCHANGED View
  BY <1>5 DEF PutLate, vars, View, Applied, Verdict
<1>6. ASSUME NEW a \in Attempts, NEW s \in Stores, NEW i \in Ids, Call(a, s, i)
      PROVE  Abstract!Next
  BY <1>1, <1>6 DEF Abstract!Next
<1> QED
  BY <1>2, <1>3, <1>4, <1>5, <1>6 DEF Next, Step, Abstract!Next

\* memory.Store implements the contract of Store.Consume, each store on
\* identifiers of its own.
THEOREM Refinement == Spec => ImplementsSingleUse
  BY Invariance, ContractInit, ContractStep, PTL DEF Spec, Abstract!Spec, ImplementsSingleUse
=============================================================================
