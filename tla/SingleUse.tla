------------------------------ MODULE SingleUse ------------------------------
(***************************************************************************)
(* What a Store promises its callers (store.go, the contract of Consume):  *)
(* a credential is spent at most once, its record and the effect it        *)
(* authorises become durable in one step, and what a call reports about    *)
(* that is true.  Nothing is said of how: no transaction, lock or session  *)
(* appears here.  PostgresStore and MemoryStore are each shown to implement *)
(* this specification.                                                     *)
(***************************************************************************)
CONSTANTS
  Attempts,   \* calls of Consume; a retry is another attempt
  Ids,        \* credential identifiers (jti)
  None        \* no attempt, no identifier: the credential is unspent

VARIABLES
  presented,  \* presented[a]: the identifier in the record passed to attempt a
  spent,      \* spent[i]: the attempt that durably spent i, or None
  applied,    \* the attempts whose effect is durable
  verdict     \* verdict[a]: what the caller of a has been told

vars == <<presented, spent, applied, verdict>>

Open     == {"idle", "open"}
Verdicts == {"ok", "replay", "failed", "unknown"}

\* The kinds of state the contract speaks of (store.go, Store).
TypeOK ==
  /\ presented \in [Attempts -> Ids \cup {None}]
  /\ spent     \in [Ids -> Attempts \cup {None}]
  /\ applied   \subseteq Attempts
  /\ verdict   \in [Attempts -> Open \cup Verdicts]

Init ==
  /\ presented = [a \in Attempts |-> None]
  /\ spent     = [i \in Ids |-> None]
  /\ applied   = {}
  /\ verdict   = [a \in Attempts |-> "idle"]

\* A caller presents credential i.
Present(a, i) ==
  /\ verdict[a] = "idle"
  /\ presented' = [presented EXCEPT ![a] = i]
  /\ verdict'   = [verdict EXCEPT ![a] = "open"]
  /\ UNCHANGED <<spent, applied>>

\* Record and effect commit together.  A caller that was told "unknown" may
\* still see its attempt land; one that was told "failed" may not.
Spend(a) ==
  /\ verdict[a] \in {"open", "unknown"}
  /\ spent[presented[a]] = None
  /\ spent'   = [spent EXCEPT ![presented[a]] = a]
  /\ applied' = applied \cup {a}
  /\ UNCHANGED <<presented, verdict>>

\* The call returns, and what it returns is true of the durable state.
Report(a, v) ==
  /\ verdict[a] = "open"
  /\ v = "ok"     => a \in applied
  /\ v = "replay" => spent[presented[a]] \notin {None, a}
  /\ v = "failed" => a \notin applied
  /\ verdict' = [verdict EXCEPT ![a] = v]
  /\ UNCHANGED <<presented, spent, applied>>

Next ==
  \E a \in Attempts :
    \/ \E i \in Ids : Present(a, i)
    \/ Spend(a)
    \/ \E v \in Verdicts : Report(a, v)

Spec == Init /\ [][Next]_vars
=============================================================================
