---------------------------- MODULE PostgresStore ----------------------------
(***************************************************************************)
(* Store.Consume of postgres/postgres.go over the table of                 *)
(* postgres/schema.sql: one transaction that inserts the consumption row,  *)
(* runs the host's effect on itself and commits.                           *)
(*                                                                         *)
(* Each attempt is one call of Consume.  Its client side (pc, result, the  *)
(* connection it holds) and its server side (srv, the transaction as       *)
(* PostgreSQL sees it) advance separately, because a connection can break  *)
(* between them: the client then learns of an error while the server may   *)
(* still hold the row, or still execute the COMMIT it was sent.            *)
(*                                                                         *)
(* PostgreSQL and pgx are external to src/; they are modelled from what    *)
(* postgres.go relies on, at the default READ COMMITTED isolation.         *)
(***************************************************************************)
EXTENDS Naturals, FiniteSets

CONSTANTS
  Attempts,   \* calls of Consume; a retry is another attempt
  Ids,        \* credential identifiers (jti), the table's primary key
  Writes,     \* the rows an effect may write on its transaction (posting, receipt)
  PoolSize,   \* connections the pool may have in use at once
  Faults,     \* which failures the environment may produce
  None        \* no identifier, no row

FaultKinds == {"begin", "statement", "effect", "panic", "disconnect", "crash"}

ASSUME NoneIsFresh      == None \notin Attempts /\ None \notin Ids
ASSUME PoolIsNotEmpty   == PoolSize \in Nat \ {0}
ASSUME FaultsAreKnown   == Faults \subseteq FaultKinds

VARIABLES
  pc,            \* where each call of Consume is
  jti,           \* rec.ID of each call
  result,        \* what the call returns, decided before its deferred Rollback
  conn,          \* the pooled connection the call holds, as the client sees it
  srv,           \* the call's transaction, as the server sees it
  staged,        \* rows the effect has written on the transaction so far
  consumptions,  \* committed rows of boundedauth_consumptions, by primary key
  ledger         \* committed rows the effects wrote

client   == <<pc, jti, result, conn>>
database == <<consumptions, ledger>>
vars     == <<pc, jti, result, conn, srv, staged, consumptions, ledger>>

-----------------------------------------------------------------------------
(* Types *)

Running  == {"begin", "insert", "effect", "commit", "rollback"}
PCs      == Running \cup {"idle", "done", "crashed"}

\* Errors that leave no doubt: no COMMIT was ever sent.
Definite == {"begin_error", "insert_error", "effect_error", "panic"}
Results  == Definite \cup {"none", "ok", "replay", "commit_error"}

Alive    == {"open", "inserted", "duplicate", "failed", "committing"}
Srvs     == Alive \cup {"none", "committed", "rolled_back"}

TypeOK ==
  /\ pc           \in [Attempts -> PCs]
  /\ jti          \in [Attempts -> Ids \cup {None}]
  /\ result       \in [Attempts -> Results]
  /\ conn         \in [Attempts -> {"none", "up", "down"}]
  /\ srv          \in [Attempts -> Srvs]
  /\ staged       \in [Attempts -> SUBSET Writes]
  /\ consumptions \in [Ids -> Attempts \cup {None}]
  /\ ledger       \subseteq Attempts \X Writes

Init ==
  /\ pc           = [a \in Attempts |-> "idle"]
  /\ jti          = [a \in Attempts |-> None]
  /\ result       = [a \in Attempts |-> "none"]
  /\ conn         = [a \in Attempts |-> "none"]
  /\ srv          = [a \in Attempts |-> "none"]
  /\ staged       = [a \in Attempts |-> {}]
  /\ consumptions = [i \in Ids |-> None]
  /\ ledger       = {}

-----------------------------------------------------------------------------
(* Faulty variants of the helpers below: what each property must refuse. *)

\* No primary key at all, or an upsert.
NoPrimaryKey(a) == FALSE

\* A row in flight is reported as a replay without waiting for its fate.
ReplayOfInFlight(a) ==
  \E b \in Attempts \ {a} :
    jti[b] = jti[a] /\ srv[b] \in {"inserted", "committing", "committed"}

-----------------------------------------------------------------------------
(* Helpers *)

InUse == {a \in Attempts : conn[a] # "none"}

\* The transaction holds an uncommitted row of the primary key.
Holds(a) == srv[a] \in {"inserted", "committing"}

\* A second inserter of the same key waits for the first one's fate.
Blocked(a) == \E b \in Attempts \ {a} : Holds(b) /\ jti[b] = jti[a]

\* The primary key: a committed row with this jti exists.
KeyTaken(a) == consumptions[jti[a]] # None

\* A return statement: the value is fixed, then the deferred Rollback runs.
Return(a, r) ==
  /\ result' = [result EXCEPT ![a] = r]
  /\ pc'     = [pc EXCEPT ![a] = "rollback"]

-----------------------------------------------------------------------------
(* Faulty variants of the actions below *)

\* The host's effect writes through its own pool instead of Tx(ctx).
WriteOutsideTransaction(a, w) ==
  /\ pc[a] = "effect" /\ conn[a] = "up"
  /\ srv[a] = "inserted"
  /\ w \notin staged[a]
  /\ staged' = [staged EXCEPT ![a] = @ \cup {w}]
  /\ ledger' = ledger \cup {<<a, w>>}
  /\ UNCHANGED <<client, srv, consumptions>>

\* The error of tx.Commit is dropped.
CommitErrorDropped(a) ==
  /\ pc[a] = "commit"
  /\ conn[a] = "down" \/ srv[a] = "failed"
  /\ Return(a, "ok")
  /\ UNCHANGED <<jti, conn, srv, staged, database>>

\* A commit error is passed off as a failure of the effect.
CommitErrorAsFailure(a) ==
  /\ pc[a] = "commit"
  /\ conn[a] = "down" \/ srv[a] = "failed"
  /\ Return(a, "effect_error")
  /\ UNCHANGED <<jti, conn, srv, staged, database>>

\* The deferred Rollback is missing: the connection is never given back.
NoDeferredRollback(a) ==
  /\ pc[a] = "rollback"
  /\ pc' = [pc EXCEPT ![a] = "done"]
  /\ UNCHANGED <<jti, result, conn, srv, staged, database>>

\* SQLSTATE 23505 is passed on as it is.
RefusedUntranslated(a) ==
  /\ pc[a] = "insert" /\ conn[a] = "up"
  /\ srv[a] = "duplicate"
  /\ Return(a, "unique_violation")
  /\ UNCHANGED <<jti, conn, srv, staged, database>>

\* The error of the INSERT is dropped: the effect runs whatever its answer.
InsertErrorDropped(a) ==
  /\ pc[a] = "insert" /\ conn[a] = "up"
  /\ srv[a] \in {"inserted", "duplicate", "failed"}
  /\ pc' = [pc EXCEPT ![a] = "effect"]
  /\ UNCHANGED <<jti, result, conn, srv, staged, database>>

-----------------------------------------------------------------------------
(* The client: Store.Consume *)

\* A caller, or a caller's retry, calls Consume with the record of credential i.
Call(a, i) ==
  /\ pc[a] = "idle"
  /\ pc'  = [pc EXCEPT ![a] = "begin"]
  /\ jti' = [jti EXCEPT ![a] = i]
  /\ UNCHANGED <<result, conn, srv, staged, database>>

\* pool.Begin takes a free connection and opens the transaction; the INSERT is
\* the first statement sent on it.
Begin(a) ==
  /\ pc[a] = "begin"
  /\ Cardinality(InUse) < PoolSize
  /\ pc'   = [pc EXCEPT ![a] = "insert"]
  /\ conn' = [conn EXCEPT ![a] = "up"]
  /\ srv'  = [srv EXCEPT ![a] = "open"]
  /\ UNCHANGED <<jti, result, staged, database>>

\* pool.Begin fails (no server, context over while queued for a connection):
\* the Rollback is not deferred yet, so the call returns at once.
BeginFails(a) ==
  /\ "begin" \in Faults
  /\ pc[a] = "begin"
  /\ pc'     = [pc EXCEPT ![a] = "done"]
  /\ result' = [result EXCEPT ![a] = "begin_error"]
  /\ UNCHANGED <<jti, conn, srv, staged, database>>

\* The INSERT succeeded: run the effect on this transaction.
InsertAccepted(a) ==
  /\ pc[a] = "insert" /\ conn[a] = "up"
  /\ srv[a] = "inserted"
  /\ pc' = [pc EXCEPT ![a] = "effect"]
  /\ UNCHANGED <<jti, result, conn, srv, staged, database>>

\* SQLSTATE 23505: ErrAlreadyConsumed, before the effect runs.
InsertRefused(a) ==
  /\ pc[a] = "insert" /\ conn[a] = "up"
  /\ srv[a] = "duplicate"
  /\ Return(a, "replay")
  /\ UNCHANGED <<jti, conn, srv, staged, database>>

\* Any other error of the INSERT, a broken connection included.
InsertErrors(a) ==
  /\ pc[a] = "insert"
  /\ conn[a] = "down" \/ srv[a] = "failed"
  /\ Return(a, "insert_error")
  /\ UNCHANGED <<jti, conn, srv, staged, database>>

\* The effect writes one of its rows through Tx(ctx).
EffectWrites(a, w) ==
  /\ pc[a] = "effect" /\ conn[a] = "up"
  /\ srv[a] = "inserted"
  /\ w \notin staged[a]
  /\ staged' = [staged EXCEPT ![a] = @ \cup {w}]
  /\ UNCHANGED <<client, srv, database>>

\* A statement of the effect fails, which aborts the transaction on the server
\* and releases its row; the effect may or may not pass the error on.
EffectStatementFails(a) ==
  /\ "statement" \in Faults
  /\ pc[a] = "effect" /\ conn[a] = "up"
  /\ srv[a] = "inserted"
  /\ srv' = [srv EXCEPT ![a] = "failed"]
  /\ UNCHANGED <<client, staged, database>>

\* Something the effect asked of the database has failed.
EffectHitError(a) == conn[a] = "down" \/ srv[a] = "failed"

\* The effect returns an error, for a reason of its own or one of the above;
\* the caller gets it unwrapped.
EffectFails(a) ==
  /\ pc[a] = "effect"
  /\ "effect" \in Faults \/ EffectHitError(a)
  /\ Return(a, "effect_error")
  /\ UNCHANGED <<jti, conn, srv, staged, database>>

\* The effect panics; the deferred Rollback runs while the panic unwinds.
EffectPanics(a) ==
  /\ "panic" \in Faults
  /\ pc[a] = "effect"
  /\ Return(a, "panic")
  /\ UNCHANGED <<jti, conn, srv, staged, database>>

\* The effect returns nil, whatever it has written and whatever error it has
\* swallowed, and tx.Commit sends COMMIT if there is a connection to send it on.
EffectSucceeds(a) ==
  /\ pc[a] = "effect"
  /\ pc'  = [pc EXCEPT ![a] = "commit"]
  /\ srv' = [srv EXCEPT ![a] = IF conn[a] = "up" /\ @ = "inserted"
                               THEN "committing" ELSE @]
  /\ UNCHANGED <<jti, result, conn, staged, database>>

\* COMMIT is acknowledged: the connection goes back to the pool and the
\* deferred Rollback is a no-op.
CommitAcknowledged(a) ==
  /\ pc[a] = "commit" /\ conn[a] = "up"
  /\ srv[a] = "committed"
  /\ pc'     = [pc EXCEPT ![a] = "done"]
  /\ result' = [result EXCEPT ![a] = "ok"]
  /\ conn'   = [conn EXCEPT ![a] = "none"]
  /\ UNCHANGED <<jti, srv, staged, database>>

\* tx.Commit returns an error: the server answered ROLLBACK because the
\* transaction was already aborted, or the connection broke before an answer.
CommitErrors(a) ==
  /\ pc[a] = "commit"
  /\ EffectHitError(a)
  /\ Return(a, "commit_error")
  /\ UNCHANGED <<jti, conn, srv, staged, database>>

\* The deferred Rollback, under a context that cannot be cancelled.  On a live
\* connection the server ends the transaction; a broken one is only discarded,
\* and the server ends the transaction when it notices (Reap).
Rollback(a) ==
  /\ pc[a] = "rollback"
  /\ pc'   = [pc EXCEPT ![a] = "done"]
  /\ srv'  = [srv EXCEPT ![a] = IF conn[a] = "up" THEN "rolled_back" ELSE @]
  /\ conn' = [conn EXCEPT ![a] = "none"]
  /\ UNCHANGED <<jti, result, staged, database>>

-----------------------------------------------------------------------------
(* The server: PostgreSQL *)

\* The INSERT finds no row of this key, committed or in flight.
InsertRow(a) ==
  /\ srv[a] = "open"
  /\ ~ Blocked(a) /\ ~ KeyTaken(a)
  /\ srv' = [srv EXCEPT ![a] = "inserted"]
  /\ UNCHANGED <<client, staged, database>>

\* The INSERT finds a committed row of this key: unique violation.
InsertViolates(a) ==
  /\ srv[a] = "open"
  /\ KeyTaken(a)
  /\ srv' = [srv EXCEPT ![a] = "duplicate"]
  /\ UNCHANGED <<client, staged, database>>

\* The INSERT fails for another reason (lock or statement timeout, shutdown).
InsertFails(a) ==
  /\ "statement" \in Faults
  /\ srv[a] = "open"
  /\ srv' = [srv EXCEPT ![a] = "failed"]
  /\ UNCHANGED <<client, staged, database>>

\* COMMIT executes, whether or not the client is still there to hear of it:
\* the consumption row and everything the effect wrote become durable at once.
Commit(a) ==
  /\ srv[a] = "committing"
  /\ srv' = [srv EXCEPT ![a] = "committed"]
  /\ consumptions' = [consumptions EXCEPT ![jti[a]] = a]
  /\ ledger' = ledger \cup ({a} \X staged[a])
  /\ UNCHANGED <<client, staged>>

\* COMMIT fails on the server (shutdown, a deferred constraint of the host).
CommitFails(a) ==
  /\ "statement" \in Faults
  /\ srv[a] = "committing"
  /\ srv' = [srv EXCEPT ![a] = "failed"]
  /\ UNCHANGED <<client, staged, database>>

\* The server notices that the client is gone and ends the transaction.
Reap(a) ==
  /\ conn[a] # "up"
  /\ srv[a] \in Alive
  /\ srv' = [srv EXCEPT ![a] = "rolled_back"]
  /\ UNCHANGED <<client, staged, database>>

-----------------------------------------------------------------------------
(* The environment *)

\* The connection breaks, or pgx closes it because the caller's context ended
\* in the middle of a statement.  The client notices at its next statement.
Disconnect(a) ==
  /\ "disconnect" \in Faults
  /\ conn[a] = "up"
  /\ conn' = [conn EXCEPT ![a] = "down"]
  /\ UNCHANGED <<pc, jti, result, srv, staged, database>>

\* The host process dies in the middle of the call.
Crash(a) ==
  /\ "crash" \in Faults
  /\ pc[a] \in Running
  /\ pc'   = [pc EXCEPT ![a] = "crashed"]
  /\ conn' = [conn EXCEPT ![a] = "none"]
  /\ UNCHANGED <<jti, result, srv, staged, database>>

-----------------------------------------------------------------------------
(* The system *)

ClientStep(a) ==
  \/ Begin(a)
  \/ InsertAccepted(a) \/ InsertRefused(a) \/ InsertErrors(a)
  \/ \E w \in Writes : EffectWrites(a, w)
  \/ EffectSucceeds(a)
  \/ CommitAcknowledged(a) \/ CommitErrors(a)
  \/ Rollback(a)

ServerStep(a) == InsertRow(a) \/ InsertViolates(a) \/ Commit(a) \/ Reap(a)

Failure(a) ==
  \/ BeginFails(a) \/ EffectFails(a) \/ EffectPanics(a)
  \/ EffectStatementFails(a) \/ InsertFails(a) \/ CommitFails(a)
  \/ Disconnect(a) \/ Crash(a)

\* Every call has returned or died and the server has ended every transaction.
Quiescent ==
  \A a \in Attempts : pc[a] \in {"done", "crashed"} /\ srv[a] \notin Alive

Next ==
  \/ \E a \in Attempts :
       \/ \E i \in Ids : Call(a, i)
       \/ ClientStep(a) \/ ServerStep(a) \/ Failure(a)
  \/ Quiescent /\ UNCHANGED vars

Spec == Init /\ [][Next]_vars

\* The goroutine of a call keeps running, its effect returns, and the server
\* keeps executing what it was sent and notices dead clients.  Nobody has to
\* call and no failure has to happen: waiting is not ended by a lucky error.
Fairness == \A a \in Attempts : WF_vars(ClientStep(a)) /\ WF_vars(ServerStep(a))

FairSpec == Spec /\ Fairness

-----------------------------------------------------------------------------
(* Properties *)

\* The transaction of the attempt has committed, or something its effect wrote
\* is there all the same.
Durable(a) == srv[a] = "committed" \/ \E w \in Writes : <<a, w>> \in ledger

\* However many times one credential is presented, retried after an error or
\* raced, at most one attempt, be it with an effect that writes nothing, is
\* ever durable (SPEC 6.2).
SpentAtMostOnce ==
  \A a, b \in Attempts :
    Durable(a) /\ Durable(b) /\ jti[a] = jti[b] => a = b

\* The consumption row of an attempt is durable together with every row its
\* effect wrote, or none of them is: no row without the money, no posting
\* without its receipt, no money without the row that cites its authority.
BothOrNeither ==
  \A a \in Attempts :
    LET spent   == jti[a] # None /\ consumptions[jti[a]] = a
        written == {w \in Writes : <<a, w>> \in ledger}
    IN  written = IF spent THEN staged[a] ELSE {}

\* What Consume returns is true: nil means spent by this very call, and
\* ErrAlreadyConsumed means another call durably spent it.
VerdictIsTrue ==
  \A a \in Attempts : pc[a] = "done" =>
    /\ result[a] = "ok"     => consumptions[jti[a]] = a
    /\ result[a] = "replay" => consumptions[jti[a]] \notin {a, None}

\* A call that failed before COMMIT has spent nothing and never lands
\* afterwards.  (After a commit error the outcome is unknown, and the COMMIT
\* may still execute.)
FailureIsFinal ==
  [][\A a \in Attempts :
       pc[a] = "done" /\ result[a] \in Definite
         => ~ Durable(a) /\ ~ Durable(a)']_vars

\* A consumption row is evidence: once committed it is never changed and never
\* disappears, whatever the callers, the effects and the network do.
RowsAreImmutable ==
  [][\A i \in Ids : consumptions[i] # None => consumptions'[i] = consumptions[i]]_vars

\* A commit error leaves the outcome open, and the COMMIT may still execute
\* later.  Presenting the credential again settles it: once any call of that
\* credential has returned nil or ErrAlreadyConsumed, nothing more of it lands.
RetrySettlesOutcome ==
  [][\A a, b \in Attempts :
       /\ jti[a] = jti[b]
       /\ pc[b] = "done" /\ result[b] \in {"ok", "replay"}
       => Durable(a)' = Durable(a)]_vars

\* An effect that runs either has its key to itself, unspent and held by no
\* other transaction, or runs for nothing: its own transaction is beyond
\* committing.  The effect cannot ask which, and when its session is lost under
\* it the key is free for another effect to start, so that two may well run.
EffectsRunAlone ==
  \A a \in Attempts : pc[a] = "effect" =>
    \/ srv[a] \in {"failed", "rolled_back"}
    \/ /\ Holds(a)
       /\ consumptions[jti[a]] = None
       /\ \A b \in Attempts \ {a} : jti[b] = jti[a] => ~ Holds(b)

\* Every call of Consume returns, even when those in the pool's connections wait
\* for a row, replays queue behind them and the transaction of a dead client is
\* in the way.
CallsReturn ==
  \A a \in Attempts : pc[a] = "begin" ~> pc[a] \in {"done", "crashed"}

\* No transaction keeps a credential for ever: a client that vanished with the
\* row inserted does not leave the customer's credential unusable.
CredentialIsReleased ==
  \A a \in Attempts : Holds(a) ~> ~ Holds(a)

-----------------------------------------------------------------------------
(* PostgresStore implements SingleUse.  An attempt's verdict is visible when *)
(* the call has returned; an effect is applied when its rows are durable.   *)

VerdictOf(r) ==
  CASE r = "ok"           -> "ok"
    [] r = "replay"       -> "replay"
    [] r = "commit_error" -> "unknown"
    [] OTHER              -> "failed"

Verdict == [a \in Attempts |->
              CASE pc[a] = "idle" -> "idle"
                [] pc[a] = "done" -> VerdictOf(result[a])
                [] OTHER          -> "open"]

Abstract == INSTANCE SingleUse
              WITH presented <- jti,
                   spent     <- consumptions,
                   applied   <- {a \in Attempts : Durable(a)},
                   verdict   <- Verdict

ImplementsSingleUse == Abstract!Spec
=============================================================================
