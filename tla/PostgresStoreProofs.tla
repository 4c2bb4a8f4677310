------------------------- MODULE PostgresStoreProofs -------------------------
(***************************************************************************)
(* Proofs about PostgresStore, for any number of attempts, credentials and *)
(* effect writes, any pool size and any set of faults.                     *)
(*                                                                         *)
(* None of the safety properties is inductive: they speak of durable rows, *)
(* and a row becomes durable because of what was true of the transaction   *)
(* several steps earlier.  IInv adds what the code relies on in between:   *)
(* the phases a call and its transaction can be in together, that one      *)
(* transaction at a time holds a key, and that a key is held only while it *)
(* has no committed row.                                                   *)
(***************************************************************************)
EXTENDS PostgresAdmin, TLAPS

\* The call and its transaction advance together: no transaction before Begin,
\* no COMMIT before the effect returned nil, none after a definite failure.
Phases ==
  \A a \in Attempts :
    /\ pc[a] = "idle"                      => jti[a] = None
    /\ pc[a] # "idle"                      => jti[a] \in Ids
    /\ pc[a] \in {"idle", "begin"}         => srv[a] = "none"
    /\ pc[a] \in {"idle", "begin", "insert", "effect", "commit"}
                                           => result[a] = "none"
    /\ pc[a] \in {"insert", "effect"}      => srv[a] \notin {"committing", "committed"}
    /\ pc[a] = "rollback"                  => result[a] \notin {"none", "ok"}
    /\ pc[a] = "rollback" /\ conn[a] = "up"
                                           => srv[a] \notin {"committing", "committed"}
    /\ pc[a] = "done"                      => result[a] # "none"
    /\ result[a] = "ok"                    => srv[a] = "committed" /\ pc[a] = "done"
    /\ result[a] \in Definite \cup {"replay"}
                                           => srv[a] \notin {"committing", "committed"}
    /\ pc[a] = "effect"                    => srv[a] \in {"inserted", "failed", "rolled_back"}

\* One transaction at a time holds a key, and only while no committed row has it.
Exclusion ==
  /\ \A a, b \in Attempts : Holds(a) /\ Holds(b) /\ jti[a] = jti[b] => a = b
  /\ \A a \in Attempts : Holds(a) => consumptions[jti[a]] = None

\* The committed rows are those of the committed transactions, under their own
\* keys, and a refused INSERT has met the row of another.
Evidence ==
  /\ \A a \in Attempts :
       srv[a] = "committed" <=> jti[a] \in Ids /\ consumptions[jti[a]] = a
  /\ \A i \in Ids : consumptions[i] # None => jti[consumptions[i]] = i
  /\ \A a \in Attempts, w \in Writes : 
       <<a, w>> \in ledger <=> srv[a] = "committed" /\ w \in staged[a]
  /\ \A a \in Attempts :
       srv[a] = "duplicate" \/ result[a] = "replay" => consumptions[jti[a]] \notin {a, None}

IInv == TypeOK /\ Phases /\ Exclusion /\ Evidence

-----------------------------------------------------------------------------
(* Typing *)

\* Every reachable state is of the declared types.
LEMMA TypingStep == TypeOK /\ [Next]_vars => TypeOK'
<1> SUFFICES ASSUME TypeOK, [Next]_vars PROVE TypeOK'
  OBVIOUS
<1> USE DEF TypeOK, PCs, Running, Results, Definite, Srvs, Alive, client, database
<1>1. CASE UNCHANGED vars
  BY <1>1 DEF vars
<1>2. ASSUME NEW a \in Attempts, NEW i \in Ids, Call(a, i) PROVE TypeOK'
  BY <1>2 DEF Call
<1>3. ASSUME NEW a \in Attempts, Begin(a) PROVE TypeOK'
  BY <1>3 DEF Begin
<1>4. ASSUME NEW a \in Attempts, BeginFails(a) PROVE TypeOK'
  BY <1>4 DEF BeginFails
<1>5. ASSUME NEW a \in Attempts, InsertAccepted(a) PROVE TypeOK'
  BY <1>5 DEF InsertAccepted
<1>6. ASSUME NEW a \in Attempts, InsertRefused(a) PROVE TypeOK'
  BY <1>6 DEF InsertRefused, Return
<1>7. ASSUME NEW a \in Attempts, InsertErrors(a) PROVE TypeOK'
  BY <1>7 DEF InsertErrors, Return
<1>8. ASSUME NEW a \in Attempts, NEW w \in Writes, EffectWrites(a, w) PROVE TypeOK'
  BY <1>8 DEF EffectWrites
<1>9. ASSUME NEW a \in Attempts, EffectStatementFails(a) PROVE TypeOK'
  BY <1>9 DEF EffectStatementFails
<1>10. ASSUME NEW a \in Attempts, EffectFails(a) PROVE TypeOK'
  BY <1>10 DEF EffectFails, Return
<1>11. ASSUME NEW a \in Attempts, EffectPanics(a) PROVE TypeOK'
  BY <1>11 DEF EffectPanics, Return
<1>12. ASSUME NEW a \in Attempts, EffectSucceeds(a) PROVE TypeOK'
  BY <1>12 DEF EffectSucceeds
<1>13. ASSUME NEW a \in Attempts, CommitAcknowledged(a) PROVE TypeOK'
  BY <1>13 DEF CommitAcknowledged
<1>14. ASSUME NEW a \in Attempts, CommitErrors(a) PROVE TypeOK'
  BY <1>14 DEF CommitErrors, Return
<1>15. ASSUME NEW a \in Attempts, Rollback(a) PROVE TypeOK'
  BY <1>15 DEF Rollback
<1>16. ASSUME NEW a \in Attempts, InsertRow(a) PROVE TypeOK'
  BY <1>16 DEF InsertRow
<1>17. ASSUME NEW a \in Attempts, InsertViolates(a) PROVE TypeOK'
  BY <1>17 DEF InsertViolates
<1>18. ASSUME NEW a \in Attempts, InsertFails(a) PROVE TypeOK'
  BY <1>18 DEF InsertFails
<1>19. ASSUME NEW a \in Attempts, Commit(a) PROVE TypeOK'
  BY <1>19 DEF Commit
<1>20. ASSUME NEW a \in Attempts, CommitFails(a) PROVE TypeOK'
  BY <1>20 DEF CommitFails
<1>21. ASSUME NEW a \in Attempts, Reap(a) PROVE TypeOK'
  BY <1>21 DEF Reap
<1>22. ASSUME NEW a \in Attempts, Disconnect(a) PROVE TypeOK'
  BY <1>22 DEF Disconnect
<1>23. ASSUME NEW a \in Attempts, Crash(a) PROVE TypeOK'
  BY <1>23 DEF Crash
<1> QED
  BY <1>1, <1>2, <1>3, <1>4, <1>5, <1>6, <1>7, <1>8, <1>9, <1>10, <1>11,
     <1>12, <1>13, <1>14, <1>15, <1>16, <1>17, <1>18, <1>19, <1>20,
     <1>21, <1>22, <1>23
  DEF Next, ClientStep, ServerStep, Failure, Quiescent

-----------------------------------------------------------------------------
(* The inductive invariant *)

\* A fresh pool over an empty table satisfies it.
LEMMA InductiveInit == Init => IInv
  BY NoneIsFresh
  DEF Init, IInv, TypeOK, Phases, Exclusion, Evidence, Holds, PCs, Running,
      Results, Definite, Srvs, Alive

\* Every step of every client, of the server and of the environment preserves it.
LEMMA InductiveStep == IInv /\ [Next]_vars => IInv'
<1> SUFFICES ASSUME IInv, [Next]_vars PROVE IInv'
  OBVIOUS
<1> USE NoneIsFresh DEF IInv, Holds, client, database
<1>0. TypeOK'
  BY TypingStep
<1>1. CASE UNCHANGED vars
  BY <1>0, <1>1 DEF vars, TypeOK, Phases, Exclusion, Evidence
<1>2. ASSUME NEW a \in Attempts, NEW i \in Ids, Call(a, i)
      PROVE  Phases' /\ Exclusion' /\ Evidence'
  <2>1. Phases'
    BY <1>2 DEF Call, TypeOK, Phases
  <2>2. Exclusion'
    BY <1>2 DEF Call, Phases, Exclusion
  <2>3. Evidence'
    BY <1>2 DEF Call, Phases, Evidence
  <2> QED
    BY <2>1, <2>2, <2>3
<1>3. ASSUME NEW a \in Attempts, Begin(a)
      PROVE  Phases' /\ Exclusion' /\ Evidence'
  <2>1. Phases'
    BY <1>3 DEF Begin, TypeOK, Phases
  <2>2. Exclusion'
    BY <1>3 DEF Begin, Exclusion
  <2>3. Evidence'
    BY <1>3 DEF Begin, Phases, Evidence
  <2> QED
    BY <2>1, <2>2, <2>3
<1>4. ASSUME NEW a \in Attempts, BeginFails(a)
      PROVE  Phases' /\ Exclusion' /\ Evidence'
  <2>1. Phases'
    BY <1>4 DEF BeginFails, TypeOK, Phases
  <2>2. Exclusion'
    BY <1>4 DEF BeginFails, Exclusion
  <2>3. Evidence'
    BY <1>4 DEF BeginFails, Evidence
  <2> QED
    BY <2>1, <2>2, <2>3
<1>5. ASSUME NEW a \in Attempts, InsertAccepted(a)
      PROVE  Phases' /\ Exclusion' /\ Evidence'
  <2>1. Phases'
    BY <1>5 DEF InsertAccepted, Phases
  <2>2. Exclusion'
    BY <1>5 DEF InsertAccepted, Exclusion
  <2>3. Evidence'
    BY <1>5 DEF InsertAccepted, Evidence
  <2> QED
    BY <2>1, <2>2, <2>3
<1>6. ASSUME NEW a \in Attempts, InsertRefused(a)
      PROVE  Phases' /\ Exclusion' /\ Evidence'
  <2>1. Phases'
    BY <1>6 DEF InsertRefused, Return, TypeOK, Phases
  <2>2. Exclusion'
    BY <1>6 DEF InsertRefused, Exclusion
  <2>3. Evidence'
    BY <1>6 DEF InsertRefused, Return, Evidence
  <2> QED
    BY <2>1, <2>2, <2>3
<1>7. ASSUME NEW a \in Attempts, InsertErrors(a)
      PROVE  Phases' /\ Exclusion' /\ Evidence'
  <2>1. Phases'
    BY <1>7 DEF InsertErrors, Return, TypeOK, Phases
  <2>2. Exclusion'
    BY <1>7 DEF InsertErrors, Exclusion
  <2>3. Evidence'
    BY <1>7 DEF InsertErrors, Return, Evidence
  <2> QED
    BY <2>1, <2>2, <2>3
<1>8. ASSUME NEW a \in Attempts, NEW w \in Writes, EffectWrites(a, w)
      PROVE  Phases' /\ Exclusion' /\ Evidence'
  <2>1. Phases'
    BY <1>8 DEF EffectWrites, Phases
  <2>2. Exclusion'
    BY <1>8 DEF EffectWrites, Exclusion
  <2>3. Evidence'
    BY <1>8 DEF EffectWrites, Evidence
  <2> QED
    BY <2>1, <2>2, <2>3
<1>9. ASSUME NEW a \in Attempts, EffectStatementFails(a)
      PROVE  Phases' /\ Exclusion' /\ Evidence'
  <2>1. Phases'
    BY <1>9 DEF EffectStatementFails, Phases
  <2>2. Exclusion'
    BY <1>9 DEF EffectStatementFails, Exclusion
  <2>3. Evidence'
    BY <1>9 DEF EffectStatementFails, Evidence
  <2> QED
    BY <2>1, <2>2, <2>3
<1>10. ASSUME NEW a \in Attempts, EffectFails(a)
      PROVE  Phases' /\ Exclusion' /\ Evidence'
  <2>1. Phases'
    BY <1>10 DEF EffectFails, Return, TypeOK, Phases
  <2>2. Exclusion'
    BY <1>10 DEF EffectFails, Exclusion
  <2>3. Evidence'
    BY <1>10 DEF EffectFails, Return, Evidence
  <2> QED
    BY <2>1, <2>2, <2>3
<1>11. ASSUME NEW a \in Attempts, EffectPanics(a)
      PROVE  Phases' /\ Exclusion' /\ Evidence'
  <2>1. Phases'
    BY <1>11 DEF EffectPanics, Return, TypeOK, Phases
  <2>2. Exclusion'
    BY <1>11 DEF EffectPanics, Exclusion
  <2>3. Evidence'
    BY <1>11 DEF EffectPanics, Return, Evidence
  <2> QED
    BY <2>1, <2>2, <2>3
<1>12. ASSUME NEW a \in Attempts, EffectSucceeds(a)
      PROVE  Phases' /\ Exclusion' /\ Evidence'
  <2>1. Phases'
    BY <1>12 DEF EffectSucceeds, EffectHitError, TypeOK, Phases, Definite
  <2>2. Exclusion'
    BY <1>12 DEF EffectSucceeds, Exclusion
  <2>3. Evidence'
    BY <1>12 DEF EffectSucceeds, Evidence
  <2> QED
    BY <2>1, <2>2, <2>3
<1>13. ASSUME NEW a \in Attempts, CommitAcknowledged(a)
      PROVE  Phases' /\ Exclusion' /\ Evidence'
  <2>1. Phases'
    BY <1>13 DEF CommitAcknowledged, TypeOK, Phases, Definite
  <2>2. Exclusion'
    BY <1>13 DEF CommitAcknowledged, Exclusion
  <2>3. Evidence'
    BY <1>13 DEF CommitAcknowledged, Evidence
  <2> QED
    BY <2>1, <2>2, <2>3
<1>14. ASSUME NEW a \in Attempts, CommitErrors(a)
      PROVE  Phases' /\ Exclusion' /\ Evidence'
  <2>1. Phases'
    BY <1>14 DEF CommitErrors, Return, EffectHitError, TypeOK, Phases, Definite
  <2>2. Exclusion'
    BY <1>14 DEF CommitErrors, Exclusion
  <2>3. Evidence'
    BY <1>14 DEF CommitErrors, Return, Evidence
  <2> QED
    BY <2>1, <2>2, <2>3
<1>15. ASSUME NEW a \in Attempts, Rollback(a)
      PROVE  Phases' /\ Exclusion' /\ Evidence'
  <2>1. Phases'
    BY <1>15 DEF Rollback, Phases
  <2>2. Exclusion'
    BY <1>15 DEF Rollback, Exclusion
  <2>3. Evidence'
    BY <1>15 DEF Rollback, Phases, Evidence
  <2> QED
    BY <2>1, <2>2, <2>3
<1>16. ASSUME NEW a \in Attempts, InsertRow(a)
      PROVE  Phases' /\ Exclusion' /\ Evidence'
  <2>1. Phases'
    BY <1>16 DEF InsertRow, Phases
  <2>2. Exclusion'
    BY <1>16 DEF InsertRow, Blocked, KeyTaken, Exclusion
  <2>3. Evidence'
    BY <1>16 DEF InsertRow, Evidence
  <2> QED
    BY <2>1, <2>2, <2>3
<1>17. ASSUME NEW a \in Attempts, InsertViolates(a)
      PROVE  Phases' /\ Exclusion' /\ Evidence'
  <2>1. Phases'
    BY <1>17 DEF InsertViolates, Phases
  <2>2. Exclusion'
    BY <1>17 DEF InsertViolates, Exclusion
  <2>3. Evidence'
    BY <1>17 DEF InsertViolates, KeyTaken, Phases, Evidence
  <2> QED
    BY <2>1, <2>2, <2>3
<1>18. ASSUME NEW a \in Attempts, InsertFails(a)
      PROVE  Phases' /\ Exclusion' /\ Evidence'
  <2>1. Phases'
    BY <1>18 DEF InsertFails, Phases
  <2>2. Exclusion'
    BY <1>18 DEF InsertFails, Exclusion
  <2>3. Evidence'
    BY <1>18 DEF InsertFails, Evidence
  <2> QED
    BY <2>1, <2>2, <2>3
<1>19. ASSUME NEW a \in Attempts, Commit(a)
      PROVE  Phases' /\ Exclusion' /\ Evidence'
  <2>1. Phases'
    BY <1>19 DEF Commit, Phases
  <2>2. Exclusion'
    BY <1>19 DEF Commit, TypeOK, Exclusion
  <2>3. Evidence'
    BY <1>19 DEF Commit, TypeOK, Phases, Exclusion, Evidence
  <2> QED
    BY <2>1, <2>2, <2>3
<1>20. ASSUME NEW a \in Attempts, CommitFails(a)
      PROVE  Phases' /\ Exclusion' /\ Evidence'
  <2>1. Phases'
    BY <1>20 DEF CommitFails, Phases
  <2>2. Exclusion'
    BY <1>20 DEF CommitFails, Exclusion
  <2>3. Evidence'
    BY <1>20 DEF CommitFails, Evidence
  <2> QED
    BY <2>1, <2>2, <2>3
<1>21. ASSUME NEW a \in Attempts, Reap(a)
      PROVE  Phases' /\ Exclusion' /\ Evidence'
  <2>1. Phases'
    BY <1>21 DEF Reap, Alive, Phases
  <2>2. Exclusion'
    BY <1>21 DEF Reap, Exclusion
  <2>3. Evidence'
    BY <1>21 DEF Reap, Alive, Evidence
  <2> QED
    BY <2>1, <2>2, <2>3
<1>22. ASSUME NEW a \in Attempts, Disconnect(a)
      PROVE  Phases' /\ Exclusion' /\ Evidence'
  <2>1. Phases'
    BY <1>22 DEF Disconnect, Phases
  <2>2. Exclusion'
    BY <1>22 DEF Disconnect, Exclusion
  <2>3. Evidence'
    BY <1>22 DEF Disconnect, Evidence
  <2> QED
    BY <2>1, <2>2, <2>3
<1>23. ASSUME NEW a \in Attempts, Crash(a)
      PROVE  Phases' /\ Exclusion' /\ Evidence'
  <2>1. Phases'
    BY <1>23 DEF Crash, Running, Phases
  <2>2. Exclusion'
    BY <1>23 DEF Crash, Exclusion
  <2>3. Evidence'
    BY <1>23 DEF Crash, Evidence
  <2> QED
    BY <2>1, <2>2, <2>3
<1> QED
  BY <1>0, <1>1, <1>2, <1>3, <1>4, <1>5, <1>6, <1>7, <1>8, <1>9, <1>10,
     <1>11, <1>12, <1>13, <1>14, <1>15, <1>16, <1>17, <1>18, <1>19,
     <1>20, <1>21, <1>22, <1>23
  DEF Next, ClientStep, ServerStep, Failure, Quiescent

-----------------------------------------------------------------------------
(* The theorems *)

\* It holds of every reachable state of the store.
LEMMA Invariance == Spec => []IInv
<1>1. Init => IInv
  BY InductiveInit
<1>2. IInv /\ [Next]_vars => IInv'
  BY InductiveStep
<1> QED
  BY <1>1, <1>2, PTL DEF Spec

\* Every variable keeps its type in every reachable state.
THEOREM TypeCorrectness == Spec => []TypeOK
<1>1. IInv => TypeOK
  BY DEF IInv
<1> QED
  BY Invariance, <1>1, PTL

\* An attempt's effect is durable, wholly, exactly when its transaction committed.
LEMMA DurableMeansCommitted ==
  ASSUME IInv, NEW a \in Attempts
  PROVE  Durable(a) <=> srv[a] = "committed"
BY DEF IInv, Evidence, Durable

\* However one credential is presented, raced or retried, the effects of at
\* most one call of Consume are ever durable.
THEOREM SingleUseOfCredentials == Spec => []SpentAtMostOnce
<1>1. ASSUME IInv PROVE SpentAtMostOnce
  <2> SUFFICES ASSUME NEW a \in Attempts, NEW b \in Attempts,
                      Durable(a), Durable(b), jti[a] = jti[b]
               PROVE  a = b
    BY DEF SpentAtMostOnce
  <2>1. srv[a] = "committed" /\ srv[b] = "committed"
    BY <1>1, DurableMeansCommitted
  <2>2. consumptions[jti[a]] = a /\ consumptions[jti[b]] = b
    BY <1>1, <2>1 DEF IInv, Evidence
  <2> QED
    BY <2>2
<1> QED
  BY Invariance, <1>1, PTL

\* The consumption row and the rows of the effect become durable together.
THEOREM Atomicity == Spec => []BothOrNeither
<1>1. ASSUME IInv PROVE BothOrNeither
  BY <1>1, NoneIsFresh DEF IInv, Evidence, TypeOK, BothOrNeither
<1> QED
  BY Invariance, <1>1, PTL

\* nil means spent by this call; ErrAlreadyConsumed means spent by another.
THEOREM TruthOfVerdicts == Spec => []VerdictIsTrue
<1>1. ASSUME IInv PROVE VerdictIsTrue
  BY <1>1 DEF IInv, Phases, Evidence, VerdictIsTrue
<1> QED
  BY Invariance, <1>1, PTL

\* An effect that runs has its key to itself, or its transaction is beyond
\* committing, whatever sessions are lost under the effects of that key.
THEOREM SolitudeOfEffects == Spec => []EffectsRunAlone
<1>1. ASSUME IInv, NEW a \in Attempts, pc[a] = "effect",
             srv[a] \notin {"failed", "rolled_back"}
      PROVE  /\ Holds(a) /\ consumptions[jti[a]] = None
             /\ \A b \in Attempts \ {a} : jti[b] = jti[a] => ~ Holds(b)
  <2>1. Holds(a)
    BY <1>1 DEF IInv, Phases, Holds
  <2> QED
    BY <1>1, <2>1 DEF IInv, Exclusion
<1>2. IInv => EffectsRunAlone
  BY <1>1 DEF EffectsRunAlone
<1> QED
  BY Invariance, <1>2, PTL

\* Nothing becomes durable in this step, and nothing durable is lost.
NothingLands ==
  /\ UNCHANGED <<consumptions, ledger>>
  /\ \A b \in Attempts : srv'[b] = "committed" <=> srv[b] = "committed"

\* The one step that changes what is durable is the server's COMMIT.
LEMMA OnlyCommitLands ==
  ASSUME IInv, [Next]_vars
  PROVE  NothingLands \/ \E a \in Attempts : Commit(a)
<1> USE DEF IInv, NothingLands, client, database
<1>1. ASSUME UNCHANGED <<srv, consumptions, ledger>> PROVE NothingLands
  BY <1>1
<1>2. ASSUME NEW a \in Attempts, NEW s \in Srvs \ {"committed"}, srv[a] # "committed",
             srv' = [srv EXCEPT ![a] = s], UNCHANGED <<consumptions, ledger>>
      PROVE  NothingLands
  BY <1>2 DEF TypeOK
<1>3. ASSUME NEW a \in Attempts,
             \/ Begin(a) \/ EffectStatementFails(a) \/ InsertRow(a) \/ InsertViolates(a)
             \/ InsertFails(a) \/ CommitFails(a) \/ Reap(a)
      PROVE  NothingLands
  BY <1>2, <1>3 DEF Begin, EffectStatementFails, InsertRow, InsertViolates, InsertFails,
     CommitFails, Reap, Phases, Srvs, Alive
<1>4. ASSUME NEW a \in Attempts, EffectSucceeds(a) PROVE NothingLands
  <2>1. CASE conn[a] = "up" /\ srv[a] = "inserted"
    BY <1>2, <1>4, <2>1 DEF EffectSucceeds, Srvs, Alive
  <2>2. CASE ~ (conn[a] = "up" /\ srv[a] = "inserted")
    BY <1>1, <1>4, <2>2 DEF EffectSucceeds, TypeOK
  <2> QED
    BY <2>1, <2>2
<1>5. ASSUME NEW a \in Attempts, Rollback(a) PROVE NothingLands
  <2>1. CASE conn[a] = "up"
    BY <1>2, <1>5, <2>1 DEF Rollback, Phases, Srvs
  <2>2. CASE conn[a] # "up"
    BY <1>1, <1>5, <2>2 DEF Rollback, TypeOK
  <2> QED
    BY <2>1, <2>2
<1>6. ASSUME NEW a \in Attempts,
             \/ \E i \in Ids : Call(a, i)
             \/ BeginFails(a) \/ InsertAccepted(a) \/ InsertRefused(a) \/ InsertErrors(a)
             \/ \E w \in Writes : EffectWrites(a, w)
             \/ EffectFails(a) \/ EffectPanics(a) \/ CommitAcknowledged(a)
             \/ CommitErrors(a) \/ Disconnect(a) \/ Crash(a)
      PROVE  NothingLands
  BY <1>1, <1>6 DEF Call, BeginFails, InsertAccepted, InsertRefused, InsertErrors,
     EffectWrites, EffectFails, EffectPanics, CommitAcknowledged, CommitErrors,
     Disconnect, Crash, Return
<1>7. CASE UNCHANGED vars
  BY <1>1, <1>7 DEF vars
<1> QED
  BY <1>3, <1>4, <1>5, <1>6, <1>7 DEF Next, ClientStep, ServerStep, Failure, Quiescent

\* A committed consumption row never changes and never disappears.
THEOREM ImmutabilityOfRows == Spec => RowsAreImmutable
<1>1. ASSUME IInv, [Next]_vars
      PROVE  \A i \in Ids : consumptions[i] # None => consumptions'[i] = consumptions[i]
  <2>1. ASSUME NEW a \in Attempts, Commit(a), NEW i \in Ids, consumptions[i] # None
        PROVE  consumptions'[i] = consumptions[i]
    BY <1>1, <2>1 DEF IInv, TypeOK, Exclusion, Holds, Commit
  <2> QED
    BY <1>1, <2>1, OnlyCommitLands DEF NothingLands
<1> QED
  BY Invariance, <1>1, PTL DEF Spec, RowsAreImmutable

\* A call that failed before COMMIT has not spent the credential and never will.
THEOREM FinalityOfFailure == Spec => FailureIsFinal
<1>1. ASSUME IInv, [Next]_vars
      PROVE  \A a \in Attempts :
               pc[a] = "done" /\ result[a] \in Definite => ~ Durable(a) /\ ~ Durable(a)'
  <2> SUFFICES ASSUME NEW a \in Attempts, pc[a] = "done", result[a] \in Definite
               PROVE  ~ Durable(a) /\ ~ Durable(a)'
    OBVIOUS
  <2>1. srv[a] \notin {"committing", "committed"}
    BY <1>1 DEF IInv, Phases
  <2>2. ~ Durable(a)
    BY <1>1, <2>1, DurableMeansCommitted
  <2>3. ASSUME NEW b \in Attempts, Commit(b)
        PROVE  ~ Durable(a)'
    BY <1>1, <2>1, <2>2, <2>3 DEF IInv, TypeOK, Commit, Durable
  <2> QED
    BY <1>1, <2>2, <2>3, OnlyCommitLands DEF NothingLands, Durable
<1> QED
  BY Invariance, <1>1, PTL DEF Spec, FailureIsFinal

\* Once a call has returned nil or ErrAlreadyConsumed for a credential, no
\* call of that credential, those with a commit error included, changes what
\* is durable.
THEOREM SettlementByRetry == Spec => RetrySettlesOutcome
<1>1. ASSUME IInv, [Next]_vars
      PROVE  \A a, b \in Attempts :
               /\ jti[a] = jti[b]
               /\ pc[b] = "done" /\ result[b] \in {"ok", "replay"}
               => Durable(a)' = Durable(a)
  <2> SUFFICES ASSUME NEW a \in Attempts, NEW b \in Attempts, jti[a] = jti[b],
                      pc[b] = "done", result[b] \in {"ok", "replay"}
               PROVE  Durable(a)' = Durable(a)
    OBVIOUS
  <2>1. consumptions[jti[a]] # None
    BY <1>1, NoneIsFresh DEF IInv, Phases, Evidence
  <2>2. srv[a] # "committing"
    BY <1>1, <2>1 DEF IInv, Exclusion, Holds
  <2>3. ASSUME NEW c \in Attempts, Commit(c)
        PROVE  Durable(a)' = Durable(a)
    BY <1>1, <2>2, <2>3 DEF IInv, TypeOK, Commit, Durable
  <2> QED
    BY <1>1, <2>3, OnlyCommitLands DEF NothingLands, Durable
<1> QED
  BY Invariance, <1>1, PTL DEF Spec, RetrySettlesOutcome

-----------------------------------------------------------------------------
(* Refinement *)

\* The initial states are initial states of the contract.
LEMMA ContractInit == Init => Abstract!Init
  BY DEF Init, Abstract!Init, Verdict, Durable

\* Every step is a step of the contract or changes nothing it speaks of.
LEMMA ContractStep == IInv /\ [Next]_vars => [Abstract!Next]_Abstract!vars
<1> SUFFICES ASSUME IInv, [Next]_vars
             PROVE  Abstract!Next \/ UNCHANGED Abstract!vars
  OBVIOUS
<1> USE DEF IInv, client, database, Abstract!Next, Abstract!vars, Abstract!Open,
           Abstract!Verdicts
<1> DEFINE Same == UNCHANGED <<jti, consumptions, {a \in Attempts : Durable(a)}, Verdict>>
\* A call that stays inside Consume, or dies in it, shows its caller nothing.
<1>1. ASSUME NEW a \in Attempts, pc[a] \notin {"idle", "done"},
             pc' = [pc EXCEPT ![a] = pc'[a]], pc'[a] \notin {"idle", "done"},
             \A b \in Attempts \ {a} : result'[b] = result[b],
             UNCHANGED jti, NothingLands
      PROVE  Same
  <2>1. Verdict' = Verdict
    BY <1>1 DEF Verdict, TypeOK
  <2> QED
    BY <1>1, <2>1 DEF NothingLands, Durable
\* Nor does anything that happens at the server or on the wire.
<1>2. ASSUME UNCHANGED <<pc, jti, result>>, NothingLands
      PROVE  Same
  BY <1>2 DEF Verdict, NothingLands, Durable
<1>3. ASSUME NEW a \in Attempts, NEW i \in Ids, Call(a, i)
      PROVE  Abstract!Present(a, i)
  BY <1>3 DEF Call, TypeOK, Abstract!Present, Verdict, Durable
<1>4. ASSUME NEW a \in Attempts, Commit(a)
      PROVE  Abstract!Spend(a)
  <2>1. pc[a] # "idle" /\ (pc[a] = "done" => result[a] = "commit_error")
    BY <1>4 DEF Commit, Phases, TypeOK, Results, Definite
  <2>2. Verdict[a] \in {"open", "unknown"}
    BY <2>1 DEF Verdict, VerdictOf
  <2>3. consumptions[jti[a]] = None
    BY <1>4 DEF Commit, Exclusion, Holds
  <2>4. {b \in Attempts : Durable(b)}' = {b \in Attempts : Durable(b)} \cup {a}
    BY <1>4 DEF Commit, Durable, TypeOK
  <2> QED
    BY <1>4, <2>2, <2>3, <2>4 DEF Commit, Abstract!Spend, Verdict
\* A call that returns says what is so.
<1>5. ASSUME NEW a \in Attempts, pc[a] \notin {"idle", "done"},
             pc' = [pc EXCEPT ![a] = "done"],
             \A b \in Attempts \ {a} : result'[b] = result[b],
             UNCHANGED jti, NothingLands,
             result'[a] \in Results \ {"none"},
             result'[a] = "ok" => srv[a] = "committed",
             result'[a] = "replay" => consumptions[jti[a]] \notin {None, a},
             result'[a] \in Definite => srv[a] # "committed"
      PROVE  Abstract!Report(a, VerdictOf(result'[a])) /\ VerdictOf(result'[a]) \in Abstract!Verdicts
  <2>1. Verdict[a] = "open" /\ Verdict' = [Verdict EXCEPT ![a] = VerdictOf(result'[a])]
    BY <1>5 DEF Verdict, TypeOK
  <2>2. Durable(a) <=> srv[a] = "committed"
    BY DurableMeansCommitted
  <2>3. UNCHANGED {b \in Attempts : Durable(b)}
    BY <1>5 DEF NothingLands, Durable
  <2>4. /\ VerdictOf(result'[a]) = "ok" <=> result'[a] = "ok"
        /\ VerdictOf(result'[a]) = "replay" <=> result'[a] = "replay"
        /\ VerdictOf(result'[a]) = "failed" <=> result'[a] \in Definite
        /\ VerdictOf(result'[a]) \in Abstract!Verdicts
    BY <1>5 DEF VerdictOf, Results, Definite
  <2> QED
    BY <1>5, <2>1, <2>2, <2>3, <2>4 DEF NothingLands, Abstract!Report
<1>6. ASSUME NEW a \in Attempts, BeginFails(a), NothingLands
      PROVE  \E v \in Abstract!Verdicts : Abstract!Report(a, v)
  BY <1>5, <1>6 DEF BeginFails, TypeOK, Phases, Results, Definite
<1>7. ASSUME NEW a \in Attempts, CommitAcknowledged(a), NothingLands
      PROVE  \E v \in Abstract!Verdicts : Abstract!Report(a, v)
  BY <1>5, <1>7 DEF CommitAcknowledged, TypeOK, Phases, Results, Definite
<1>8. ASSUME NEW a \in Attempts, Rollback(a), NothingLands
      PROVE  \E v \in Abstract!Verdicts : Abstract!Report(a, v)
  <2>1. /\ pc[a] = "rollback" /\ pc' = [pc EXCEPT ![a] = "done"]
        /\ UNCHANGED <<jti, result>>
    BY <1>8 DEF Rollback
  <2>2. /\ result[a] \in Results \ {"none", "ok"}
        /\ result[a] = "replay" => consumptions[jti[a]] \notin {None, a}
        /\ result[a] \in Definite => srv[a] # "committed"
    BY <2>1 DEF TypeOK, Phases, Evidence
  <2>3. Abstract!Report(a, VerdictOf(result'[a])) /\ VerdictOf(result'[a]) \in Abstract!Verdicts
    BY <1>5, <1>8, <2>1, <2>2
  <2> QED
    BY <2>3
<1>9. ASSUME NEW a \in Attempts, NothingLands,
             \/ Begin(a) \/ InsertAccepted(a) \/ InsertRefused(a) \/ InsertErrors(a)
             \/ EffectFails(a) \/ EffectPanics(a) \/ EffectSucceeds(a)
             \/ CommitErrors(a) \/ Crash(a)
      PROVE  Same
  BY <1>1, <1>9 DEF Begin, InsertAccepted, InsertRefused, InsertErrors, EffectFails,
     EffectPanics, EffectSucceeds, CommitErrors, Crash, Return, Running, TypeOK
<1>10. ASSUME NEW a \in Attempts, NothingLands,
              \/ \E w \in Writes : EffectWrites(a, w)
              \/ EffectStatementFails(a) \/ InsertRow(a) \/ InsertViolates(a)
              \/ InsertFails(a) \/ CommitFails(a) \/ Reap(a) \/ Disconnect(a)
       PROVE  Same
  BY <1>2, <1>10 DEF EffectWrites, EffectStatementFails, InsertRow, InsertViolates,
     InsertFails, CommitFails, Reap, Disconnect
<1>11. CASE UNCHANGED vars
  BY <1>2, <1>11 DEF vars, NothingLands
<1>12. CASE NothingLands
  BY <1>3, <1>6, <1>7, <1>8, <1>9, <1>10, <1>11, <1>12, <1>4
  DEF Next, ClientStep, ServerStep, Failure, Quiescent
<1> QED
  BY <1>4, <1>12, OnlyCommitLands

\* postgres.Store implements the contract of Store.Consume.
THEOREM Refinement == Spec => ImplementsSingleUse
  BY Invariance, ContractInit, ContractStep, PTL DEF Spec, Abstract!Spec, ImplementsSingleUse

-----------------------------------------------------------------------------
(* The store among SQL statements *)

\* A refused UPDATE or DELETE leaves the store as it was.
LEMMA StatementsAreRefused == [AdminNext]_vars => [Next]_vars
<1>1. ASSUME NEW statement \in {"UPDATE", "DELETE"}, NEW i \in Ids, ChangeRow(statement, i)
      PROVE  UNCHANGED vars
  BY <1>1 DEF ChangeRow, TriggerFires, client, vars
<1> QED
  BY <1>1 DEF AdminNext

\* Whoever runs UPDATE and DELETE next to the store, what happens is a
\* behaviour of the store alone: every theorem above holds of AdminSpec too.
THEOREM StatementsAreInvisible == AdminSpec => Spec
  BY StatementsAreRefused, PTL DEF AdminSpec, Spec

\* No statement that the trigger covers rewrites a consumption row or removes
\* it, whatever calls are in flight.
THEOREM ImmutabilityAgainstStatements == AdminSpec => RowsAreImmutable
  BY StatementsAreInvisible, ImmutabilityOfRows, PTL
=============================================================================
