----------------------------- MODULE MemoryStore -----------------------------
(***************************************************************************)
(* Store.Consume and Store.Put of memory/memory.go.  One mutex per store   *)
(* is held from before the check until after the effect's writes are       *)
(* applied.  Put finds the transaction of the running effect in its        *)
(* context, under a key of the package: the store it is called on plays no *)
(* part, and neither does whether the effect is still running.             *)
(***************************************************************************)
CONSTANTS
  Attempts,   \* calls of Consume
  Stores,     \* stores of one process
  Ids,        \* credential identifiers (jti)
  Writes,     \* keys an effect may Put
  None

ASSUME NoneIsFresh == None \notin Attempts /\ None \notin Stores \X Ids

VARIABLES
  pc,         \* where each call is
  target,     \* the store and the rec.ID each call was given
  result,     \* what the call is about to return
  mutex,      \* mutex[s]: the call that holds s.mu
  pending,    \* pending[a]: the staged writes of a's transaction
  late,       \* late[a]: those of them staged after a's effect has returned
  consumed,   \* consumed[<<s, i>>]: the call whose record s.consumed[i] is
  committed   \* committed[<<s, w>>]: the call that wrote s.committed[w] last

vars == <<pc, target, result, mutex, pending, late, consumed, committed>>

PCs     == {"idle", "lock", "check", "effect", "unlock", "done"}
Results == {"none", "ok", "replay", "effect_error", "panic"}

TypeOK ==
  /\ pc        \in [Attempts -> PCs]
  /\ target    \in [Attempts -> (Stores \X Ids) \cup {None}]
  /\ result    \in [Attempts -> Results]
  /\ mutex     \in [Stores -> Attempts \cup {None}]
  /\ pending   \in [Attempts -> SUBSET Writes]
  /\ late      \in [Attempts -> SUBSET Writes]
  /\ consumed  \in [Stores \X Ids -> Attempts \cup {None}]
  /\ committed \in [Stores \X Writes -> Attempts \cup {None}]

Init ==
  /\ pc        = [a \in Attempts |-> "idle"]
  /\ target    = [a \in Attempts |-> None]
  /\ result    = [a \in Attempts |-> "none"]
  /\ mutex     = [s \in Stores |-> None]
  /\ pending   = [a \in Attempts |-> {}]
  /\ late      = [a \in Attempts |-> {}]
  /\ consumed  = [c \in Stores \X Ids |-> None]
  /\ committed = [k \in Stores \X Writes |-> None]

\* The store a call was made on.
At(a) == target[a][1]

-----------------------------------------------------------------------------
(* Store.Consume *)

Call(a, s, i) ==
  /\ pc[a] = "idle"
  /\ pc'     = [pc EXCEPT ![a] = "lock"]
  /\ target' = [target EXCEPT ![a] = <<s, i>>]
  /\ UNCHANGED <<result, mutex, pending, late, consumed, committed>>

\* s.mu.Lock()
Lock(a) ==
  /\ pc[a] = "lock"
  /\ mutex[At(a)] = None
  /\ pc'    = [pc EXCEPT ![a] = "check"]
  /\ mutex' = [mutex EXCEPT ![At(a)] = a]
  /\ UNCHANGED <<target, result, pending, late, consumed, committed>>

\* The identifier has been recorded before: refused, and no effect runs.
Refuse(a) ==
  /\ pc[a] = "check"
  /\ consumed[target[a]] # None
  /\ pc'     = [pc EXCEPT ![a] = "unlock"]
  /\ result' = [result EXCEPT ![a] = "replay"]
  /\ UNCHANGED <<target, mutex, pending, late, consumed, committed>>

\* Faulty variant of Start: the lock is released to run the effect.
StartUnlocked(a) ==
  /\ pc[a] = "check"
  /\ consumed[target[a]] = None
  /\ pc'    = [pc EXCEPT ![a] = "effect"]
  /\ mutex' = [mutex EXCEPT ![At(a)] = None]
  /\ UNCHANGED <<target, result, pending, late, consumed, committed>>

\* A fresh transaction, and the effect starts.
Start(a) ==
  /\ pc[a] = "check"
  /\ consumed[target[a]] = None
  /\ pc' = [pc EXCEPT ![a] = "effect"]
  /\ UNCHANGED <<target, result, mutex, pending, late, consumed, committed>>

\* The effect returns an error or panics: nothing is applied or recorded.
Fail(a, r) ==
  /\ pc[a] = "effect"
  /\ r \in {"effect_error", "panic"}
  /\ pc'     = [pc EXCEPT ![a] = "unlock"]
  /\ result' = [result EXCEPT ![a] = r]
  /\ UNCHANGED <<target, mutex, pending, late, consumed, committed>>

\* The committed values with every key that a has staged overwritten.
Overwritten(a) ==
  [k \in Stores \X Writes |->
     IF k[1] = At(a) /\ k[2] \in pending[a] THEN a ELSE committed[k]]

\* Faulty variant: the record is written and the staged writes are forgotten.
RecordWithoutApply(a) ==
  /\ pc[a] = "effect"
  /\ pc'       = [pc EXCEPT ![a] = "unlock"]
  /\ result'   = [result EXCEPT ![a] = "ok"]
  /\ consumed' = [consumed EXCEPT ![target[a]] = a]
  /\ UNCHANGED <<target, mutex, pending, late, committed>>

\* Faulty variant: key and value of the record swapped.
ApplySwapped(a) ==
  /\ pc[a] = "effect"
  /\ pc'        = [pc EXCEPT ![a] = "unlock"]
  /\ result'    = [result EXCEPT ![a] = "ok"]
  /\ consumed'  = [consumed EXCEPT ![target[a]] = target[a]]
  /\ committed' = Overwritten(a)
  /\ UNCHANGED <<target, mutex, pending, late>>

\* The effect returns nil, whatever it has staged: the record and the staged
\* writes are applied under the lock.
Apply(a) ==
  /\ pc[a] = "effect"
  /\ pc'        = [pc EXCEPT ![a] = "unlock"]
  /\ result'    = [result EXCEPT ![a] = "ok"]
  /\ consumed'  = [consumed EXCEPT ![target[a]] = a]
  /\ committed' = Overwritten(a)
  /\ UNCHANGED <<target, mutex, pending, late>>

\* Faulty variant: Unlock is not deferred, so a panic keeps the lock.
UnlockUnlessPanic(a) ==
  /\ pc[a] = "unlock"
  /\ pc'    = [pc EXCEPT ![a] = "done"]
  /\ mutex' = IF result[a] = "panic" THEN mutex ELSE [mutex EXCEPT ![At(a)] = None]
  /\ UNCHANGED <<target, result, pending, late, consumed, committed>>

\* The deferred s.mu.Unlock(), on every exit path.
Unlock(a) ==
  /\ pc[a] = "unlock"
  /\ pc'    = [pc EXCEPT ![a] = "done"]
  /\ mutex' = [mutex EXCEPT ![At(a)] = None]
  /\ UNCHANGED <<target, result, pending, late, consumed, committed>>

-----------------------------------------------------------------------------
(* Store.Put *)

\* The effect stages a write, on whichever store it calls Put.
Put(a, w) ==
  /\ pc[a] = "effect"
  /\ pending' = [pending EXCEPT ![a] = @ \cup {w}]
  /\ UNCHANGED <<pc, target, result, mutex, late, consumed, committed>>

\* Put with the context of an effect that has returned, from something it has
\* started: nil as before, though nobody will apply the write.
PutLate(a, w) ==
  /\ pc[a] \in {"unlock", "done"} /\ result[a] # "replay"
  /\ pending' = [pending EXCEPT ![a] = @ \cup {w}]
  /\ late'    = [late EXCEPT ![a] = @ \cup {w}]
  /\ UNCHANGED <<pc, target, result, mutex, consumed, committed>>

-----------------------------------------------------------------------------
(* The system *)

Step(a) ==
  \/ Lock(a) \/ Refuse(a) \/ Start(a)
  \/ \E w \in Writes \ pending[a] : Put(a, w)
  \/ Apply(a) \/ Unlock(a)

AllReturned == \A a \in Attempts : pc[a] = "done"

Next ==
  \/ \E a \in Attempts :
       \/ \E s \in Stores, i \in Ids : Call(a, s, i)
       \/ Step(a)
       \/ \E r \in {"effect_error", "panic"} : Fail(a, r)
       \/ \E w \in Writes \ pending[a] : PutLate(a, w)
  \/ AllReturned /\ UNCHANGED vars

Spec == Init /\ [][Next]_vars

\* A goroutine keeps running, and sync.Mutex starves no waiter.
FairSpec == Spec /\ \A a \in Attempts : WF_vars(Step(a))

-----------------------------------------------------------------------------
(* Properties *)

\* What a's effect put before it returned.
InTime(a) == pending[a] \ late[a]

\* What an effect put before it returned is committed on the store the call was
\* made on, if Consume returns nil, and none of it otherwise: not when the
\* effect panics, and whatever is put with its context later.  A call that
\* returns nil afterwards may overwrite it, and does so wholly: of two effects
\* that put the same keys, one has the last word on all of them.
EffectIsAllOrNothing ==
  /\ \A s \in Stores, w \in Writes, a \in Attempts :
       committed[<<s, w>>] = a => result[a] = "ok" /\ At(a) = s /\ w \in InTime(a)
  /\ \A a \in Attempts : result[a] = "ok" =>
       /\ \A w \in InTime(a) : committed[<<At(a), w>>] # None
       /\ \A b \in Attempts \ {a} : \A v, w \in InTime(a) \cap InTime(b) :
            ~ (committed[<<At(a), v>>] = a /\ committed[<<At(a), w>>] = b)

\* Every call returns: a panic in one effect does not keep the others out.
CallsReturn == \A a \in Attempts : pc[a] = "lock" ~> pc[a] = "done"

-----------------------------------------------------------------------------
(* MemoryStore implements SingleUse, each store on identifiers of its own.  *)
(* A call has had an effect when its record is there, or a value of it is.  *)

Applied(a) ==
  \/ target[a] # None /\ consumed[target[a]] = a
  \/ \E k \in Stores \X Writes : committed[k] = a

Verdict == [a \in Attempts |->
              CASE pc[a] = "idle" -> "idle"
                [] pc[a] # "done" /\ pc[a] # "idle" -> "open"
                [] result[a] \in {"ok", "replay"} /\ pc[a] = "done" -> result[a]
                [] OTHER -> "failed"]

Abstract == INSTANCE SingleUse
              WITH Ids       <- Stores \X Ids,
                   presented <- target,
                   spent     <- consumed,
                   applied   <- {a \in Attempts : Applied(a)},
                   verdict   <- Verdict

ImplementsSingleUse == Abstract!Spec
=============================================================================
