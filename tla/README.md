# A verification project for BoundedAuth

BoundedAuth issues credentials that authorise one transaction each, verifies
them, and has the host spend them together with the effect they authorise.
This directory holds TLA+ specifications of the Go code, the TLC
configurations that check them on small instances, and proofs checked by TLAPS.

## The system

| Component | State | Operations | Talks to |
| --- | --- | --- | --- |
| Store contract (`store.go`) | which credential was spent by which call | `Consume` | called by `Authorise`; implemented by the stores |
| `Authorise` (`store.go`) | per call: credential, transaction, record | verify, build the record, consume | `Verifier`, `Store`, the clock (twice) |
| Authority (`authority.go`) | none; keys and limits are configuration | `Mint`, `Verify`, `ParseUnverified`, `Digest` | the clock |
| Errors (`errors.go`) | none | ten distinct errors | everyone |
| Receipts (`receipt.go`) | none | `Issue`, `Intact`, `MatchesAuthority` | the digest's framing |
| In-memory store (`memory/`) | mutex, `consumed`, `committed`; per call `pending` | `Consume`, `Put`, `Get`, `Consumption` | calls the effect back under its mutex; the effect finds its transaction in the context |
| PostgreSQL store (`postgres/postgres.go`) | none of its own: a pool, and per call one transaction | `Consume`, `Tx`, `Consumption` | pool and server; calls the effect back on the transaction |
| Schema (`postgres/schema.sql`) | the consumption table | primary key, append-only trigger | whoever reaches the database |
| Conformance suite (`conformance/`) | per check: flags, a barrier | eight checks | a store under test, 16 goroutines |
| Broken stores (`conformance_test.go`) | as the in-memory store | `Consume`, `put` | the checks |
| Benchmark (`bench/`) | channels, worker pool, counters | full path, adversarial, failure, contention | everything above |
| Vectors, fuzz and unit tests, notebook | | | not modelled |

What is hard about it: two presentations of one credential racing through a
callback; a connection that breaks between COMMIT and its answer, so that a
failed call may have paid; a call that dies holding a key; an effect that
panics, fails or swallows an error half way; a retry of something already
done; a clock read once and relied on later; identifiers that are unique only
for whoever chose them; arithmetic on times at the edges of seconds and of
the integers; hashes over fields that could run into each other or come back
from a database changed; a test suite whose verdict depends on the scheduler;
and channels that must be closed by the right goroutine at the right time.
`PROJECT.json` lists these hazards at their lines, each with the
properties that would catch it going wrong, or the reason none does yet.

## The modules

    SingleUse            what Store.Consume promises
      ^        ^   ^
      |        |   +---- Authorise --- EXTENDS --> Authority <-- Presentation
      |        |          (uses the contract as its store)
      |        +-------- MemoryStore      (implements the contract)
      +----------------- PostgresStore    (implements the contract)
                            ^
                            +-- PostgresAdmin        SQL run next to the store

    Framing <-- Receipt     the digests, and what rests on them

    Conformance     one check of the suite over one store, right or broken
    Bench           the benchmark, over a store that may fail

An `MC` module next to most of them gives TLC its symmetry sets and constant
values; `Conformance` needs none. The theorems are in modules of their own, each
extending what it is about: `PostgresStoreProofs` (and `PostgresAdmin`),
`MemoryStoreProofs`, `AuthorityProofs`, which `PresentationProofs` and
`AuthoriseProofs` build on, `ReceiptProofs`, `ConformanceProofs` and
`BenchProofs`.
Operators introduced as *faulty variants* are not part of any specification:
each is a plausible bug, stated so that it can be put in place of the
definition that follows it to see that a property notices.

### `SingleUse`

The contract in `store.go`: an attempt presents an identifier; record and
effect become durable in one step, for one attempt of an identifier; and what
an attempt reports is true: `ok` if it is durable, `replay` if another is,
`failed` if it is not and never will be, `unknown` otherwise. `Spend` is
possible after `unknown`, because a database may execute a COMMIT whose caller
has already been told of an error.

### `PostgresStore`

One attempt is one call of `Consume`. Its client side is the Go function: `pc`
is the next statement, `result` the value of the return statement it reached
(the deferred `Rollback` still runs, at `pc = "rollback"`), `conn` the pooled
connection. Its server side is the transaction, `srv`:

    none -> open -> inserted -> committing -> committed
                 -> duplicate                           -> rolled_back
                 -> failed (aborted by an error)

The two sides advance separately. `Begin` and the sending of the INSERT are one
client step; whether the INSERT waits, is accepted, or meets a committed row is
the server's (`InsertRow`, `InsertViolates`), and the client reads the answer
later if its connection still works. COMMIT is sent by `EffectSucceeds`,
executed by `Commit`, and acknowledged by `CommitAcknowledged` or not at all
(`CommitErrors`). The effect writes its rows one at a time, and may return nil
in spite of a statement that failed, or of having written nothing, as Go code
can. `Disconnect` stands for a
broken connection and for a context cancelled in the middle of a statement,
upon which pgx closes the connection. `Faults` says which failures may happen.

PostgreSQL and pgx are not in this repository. What is assumed of them, at READ
COMMITTED: an inserter waits for the uncommitted row of another and then fails
or proceeds by its fate; an error aborts the transaction and releases its rows;
COMMIT on an aborted transaction reports an error; a COMMIT that was sent may
execute after the client is gone; the transaction of a lost client is ended in
the end, committed or not.

### `PostgresAdmin`

Adds one more actor, who runs UPDATE or DELETE against the table while calls
are in flight (`AdminSpec`), and TRUNCATE as well (`TruncateSpec`), and the
trigger of `schema.sql`. A statement the trigger refuses aborts the
administrator's own transaction and is a step that changes nothing.

### `MemoryStore`

`pc` follows `Consume` from `s.mu.Lock()` to the deferred `Unlock`. The writes
of an effect are staged in `pending`, the `tx` its context carries. `Put` looks
only at the context, so neither the store it is called on nor the end of the
effect matters to it; `PutLate` is a call with a context that outlives its
effect, which answers nil and loses the write. Applying the record and the
staged writes is one step because it happens under the mutex every reader takes;
it happens whenever the effect returns nil, with nothing staged as well.
`committed` is a map of values, so a later call overwrites what an earlier one
has put under the same key: the model keeps for each key the last writer. A
`Put` racing with the loop that applies `pending` is a data race in the host and
is left out.

### `Authority`, `Presentation`, `Authorise`

`Authority` writes `Verify` and `Mint` the way the code has them: a list of
checks in a fixed order, the first that refuses deciding the error (`Check` and
`FirstRefusal` are the notation for such a list). The assertion that the issuer
has not changed between two readings of one payload (`authority.go:326`) can
refuse nothing and is left out. A
credential is a shape (what base64, JSON and the strict decoder make of it), a
payload, and the key that signed exactly these bytes. The clock counts ticks of
which `Unix()` keeps the whole seconds, and lifetimes are subtracted in
`IntBits` bits. Digests are taken as injective, which is what `Framing` is for.

`Presentation` presents one credential again and again over time, against one
transaction or another. Its credentials deviate from a good one in shape,
version, issuer, method and signer in all combinations, and separately in
identifier, binding, issuance and lifetime, beyond what `Mint` would sign.

`Authorise` is `Authorise` of `store.go` over the contract: verify at one
reading of the clock, build the record at a second, hand it to the store, which
spends it whenever it gets to it. Issuers mint between any two steps, and a
credential nobody minted is in circulation. That `PostgresStore` implements the
contract is what lets this module stop at `SingleUse`.

### `Framing` and `Receipt`

`Framing` is what `authority.go` and `receipt.go` feed to SHA-256: a text behind
its length, an integer in eight bytes. A text is the sequence of its bytes, and
eight bytes that hold one number are one element. SHA-256 in hexadecimal is the
identity, that is, taken to have no collisions: a digest is the sequence that
was hashed.

`Receipt` follows one receipt: drafted by issuing code that may be wrong, issued
(`IssueIt`), stored and loaded (`StoreAndLoad`: instants at the resolution of
the database, in whatever zone its session has), composed anew from other values
with its old hash (`Alter`), issued again. A time is its whole microseconds,
what the instant has beyond them, and a zone; formatting in UTC keeps the
instant and drops the zone.

### `Conformance`

One check of the suite over a fresh store, chosen in the initial state: eight
checks times the in-memory store and the three broken ones. A check is a script
of calls with what each must return, and assertions for the end. The calls of
the concurrent check are goroutines that meet at the barrier (`RunEffect`,
`PassBarrier`, `TimeOut`); a timeout can come at any moment before the barrier
opens, since the scheduler may delay any call for longer than 200 ms. The stores
differ in four places: whether the mutex is kept (`Admit`), whether the record
is written first, whether writes are staged (`Write`), and whether the effect
runs again (`RunAgain`). All that the calls and their effects count they count
under the check's own mutex, so a count is part of one step. `inEffect` is the
counter of that name: effects add one as they enter, and the barrier opens when
it reaches the number of calls.

### `Bench`

The sections of `main` in their order, over one consumption table that is
emptied before each run of the full path and not between the others. In the
pools, `Feed` is the rendezvous on the unbuffered channel, `Send` and `Collect`
are the two ends of the buffered one, and `CloseIn` and `CloseResults` are the
two closing goroutines. `CloseResults` looks at nothing but the WaitGroup `wg`,
which each worker that leaves takes down by one; a send on a closed channel, and
a Done too many, panic and end the program (`panicked`). The adversarial and the
failure section are loops. The store is external: a correct one of which any
call may also fail, having spent the credential or not. Any presented credential
may have expired by then. `Disturbances` says which of the two may happen, and
`MaxFaults` how often.

Expiry matters to the replays. A credential is good for two minutes
(`main.go:337`) and the skew, and the adversarial section mints and spends 5000
one after the other before it replays the first (441-465). A store that answers
slowly, but without an error, lets some of them expire; their replays are refused
with `ErrExpired`, and whatever is not `ErrAlreadyConsumed` is counted as
`replayAccepted` (460-464).

## What is checked

Bounds are in the `.cfg` files. Three attempts are the fewest in which one holds
a key, one waits for it, and a third is queued for a connection or retries after
either. Two writes are the posting and the receipt that must not be parted. One
credential is enough, since calls contend for it. The in-memory store has no
queue but its mutex, so two calls exercise it, on one store or on two, with one
credential or with two whose effects overwrite each other's writes.

| Run | Bounds | Shows |
| --- | --- | --- |
| `postgres_faults` | 3 attempts, 1 credential, 2 writes, 2 connections, all faults, UPDATE and DELETE | types; `SpentAtMostOnce`, `BothOrNeither`, `VerdictIsTrue`, `EffectsRunAlone`; `FailureIsFinal`, `RowsAreImmutable`, `RetrySettlesOutcome`; `PostgresStore` implements `SingleUse` |
| `postgres_liveness` | 3 attempts, 1 credential, 2 connections; panics, broken connections, crashes | `CallsReturn`, `CredentialIsReleased` |
| `presentation` | lifetime 2 s, skew 1 s, half-second ticks, 9 s of clock | what `Verify` promises over time and transactions |
| `authorise` | 2 calls, 2 issuers, 2 transactions, 2 credentials minted, 3 s of clock | `AuthorityBehindEveryEffect`, `OneEffectPerCredential`, `ReplayMeansSpent` |
| `memory` | 2 calls, 2 stores, 2 credentials, 2 writes, leaking contexts | `MemoryStore` implements `SingleUse`; `EffectIsAllOrNothing`, `CallsReturn` |
| `receipt` | two texts of which one is a prefix of the other, 64 transactions, drafts showing any of them under its own authority or another's | `SurvivesTheStore`, `IntactMeansUnaltered`, `MatchesWhatItShows` |
| `conformance` | 8 checks, 4 stores, 4 concurrent calls | `CorrectStorePasses`, `BrokenStoresAreCaught`, `QuietChecksPass`, `CheckEnds` |
| `bench` | 2 workers, 4 payments, channel of 2, 2 store errors or expiries | `PoolNeverPanics`, `EveryPaymentIsCounted`, `CleanRunIsReportedClean`, `BenchEnds` |

Symmetry is used where only safety is checked. Deadlock is checked except for
`Conformance` and `Bench`, which end, and say so as `CheckEnds` and `BenchEnds`,
and for `Authorise`, whose clock, calls and credentials all run out at their
bounds (`MaxClock`, `Calls`, `MaxMinted`); the stores have an explicit quiescent
step instead, so a wait that never ends would be reported.

`presentation` scales the limits down (5 minutes and 30 seconds in the code):
what matters is that lifetimes and clock reach beyond lifetime and skew on
either side, and that there are instants within a second.

`receipt` needs texts that run into one another when their lengths are left out,
which two texts do, and drafts in which any two fields are exchanged. Its
theorems say the same of all texts. `conformance` has four presentations for
sixteen in the code: one that wins, one that loses, and two that a timeout or
the barrier can separate from them. Two workers and a channel of two are the
fewest in `bench` with which a worker can be sending while another has left and
the collector lags behind; the sample sizes are scaled down from thousands.

### Fairness

`PostgresStore!FairSpec` has weak fairness for the steps of each call and of
the server for each call: goroutines are scheduled, effects return, the server
executes what it was sent and notices a lost client. Failures and new calls
are never forced, so nothing terminates thanks to an error. Weak fairness
is enough for a connection from the pool because the number of attempts is
finite, so a connection that came free stays free for the last who waits.
`MemoryStore!FairSpec` is weak fairness for each call, for the same reason.
`Conformance!Spec` has weak fairness for each goroutine, its timer included:
`time.After` does fire. `Bench!Spec` only assumes that some goroutine that can
run does, since all of them work towards the end of a section.

### Disagreements found

Each is a run that is expected to end in a violation; `PROJECT.json` quotes the
lines.

| Run | The code does | A doc or comment says |
| --- | --- | --- |
| `postgres_truncate` | TRUNCATE fires no row trigger | the table is append-only |
| `presentation_no_subject` | `Verify` accepts an empty `sub` | all fields are required, enforced at both ends |
| `presentation_extremes` | `exp - iat` wraps and the ceiling does not apply | enforced at mint and at verify, whatever the issuer asked for |
| `bench_miscount` | one failed spend shifts credentials against payments, and replays refused for the wrong payment are reported as accepted (so are those refused as expired) | less than all refused is a broken control |

Other things the models show, which no run is about:

* When the connection of a running effect breaks, the server ends its
  transaction and frees the key, and a second presentation starts the effect
  while the first still runs (`PostgresStore`). `conformance.go:307-311` counts
  that as a defect when it happens without a failure. What survives it is
  `EffectsRunAlone`, checked with all faults and proved: an effect that is not
  alone with its key can no longer commit, which it is not told. What an effect
  does outside its transaction can happen twice.
* Identifiers of two issuers share one key space. `ReplayMeansSpent` holds if
  identifiers are unique across all trusted issuers (`FreshIds`), and not if
  each issuer keeps only its own unique; hosts with several issuers have to
  see to it.
* `conformance_test.go:82-86` says that the double-effect store holds its lock
  across the effect and is caught by `EffectRunsExactlyOnce` alone. It releases
  the lock before the effect (lines 95-97), and even a call that wins alone
  enters the effect twice, so the concurrency check refuses it as well.
* `conformance.go:251-253` says that attempts on a store that releases its lock
  overlap by construction. They do if every goroutine reaches the barrier within
  200 ms. If some do and some do not, a second effect has run and the check
  notices; if timeouts spread the calls out so far that no second one reaches
  its effect, a check-then-act store passes, as it would if there were one
  call. `BrokenStoresAreCaught` leaves out these last runs and no others.
* A credential verified just in time may be spent after it has expired, because
  `Consume` may wait and the clock is not read again (`Authorise`).
* Two credentials minted for one transaction both post it, because nothing is
  keyed by the reference (`Authorise`).
* `Put` with the context of a finished effect answers nil and loses the write
  (`MemoryStore`).
* In the failure section of the benchmark, an effect that fails with another
  error than the simulated one counts as failed and as neither recovered nor
  lost (`Bench`, `FailAndRetry`).

## What is proved

Each theorem holds for every value of the constants that meets the assumptions
named in its module and in its own statement. TLC evaluates the former on every
run.

### The PostgreSQL store

`PostgresStoreProofs` proves, for any finite or infinite sets of attempts,
credentials and writes, any pool and any set of faults:

* `TypeCorrectness`, `SingleUseOfCredentials`, `Atomicity`, `TruthOfVerdicts`,
  `SolitudeOfEffects`: the invariants of `postgres_faults`;
* `ImmutabilityOfRows`, `FinalityOfFailure`, `SettlementByRetry`: its action
  properties;
* `Refinement`: `Spec => ImplementsSingleUse`;
* `StatementsAreInvisible`: `AdminSpec => Spec`, so that all of it holds next to
  someone who runs UPDATE and DELETE, and `ImmutabilityAgainstStatements`.

The one assumption is named in `PostgresStore`: `None` is neither an attempt nor
an identifier.

The invariants speak of durable rows, and whether a row becomes durable is
decided by what was true of the transaction several steps before, so none is
inductive. `IInv` adds what the code relies on in between:

* `Phases`: which states of a call and of its transaction go together. A
  COMMIT is on its way only for an effect that wrote everything and returned
  nil; a call that failed for certain has none on its way, ever.
* `Exclusion`: one transaction at a time holds a key, and only while no
  committed row has it. This is where waiting for an uncommitted row matters:
  if `InsertRow` ignored either, the next COMMIT would overwrite a record.
* `Evidence`: committed rows are those of committed transactions, under their
  own keys, and a refused INSERT has met the row of another.

`TypingStep` and `InductiveStep` go through the actions one by one. The
theorems follow from `IInv` by short arguments; the action properties also use
`OnlyCommitIsDurable`, that `Commit` is the only step that changes what is
durable. For the refinement, a step is one of three things: it stays inside
`Consume` or happens at the server, which the contract does not see; it is
`Commit`, which is `Spend`, possible because the key is held and hence free;
or it returns, which is `Report`, true by `Phases` and `Evidence`.

### Digests and receipts

`ReceiptProofs` proves, for texts of any bytes and length, any amounts, and
receipts of any contents:

* `DigestIsInjective`: two transactions with one digest are the same
  transaction. This is what `Authority` assumes of its constant `Digest`, so
  what is left of that assumption is that SHA-256 has no collisions;
* `TypeCorrectness`, and `SurvivalOfReceipts`, `AlterationShows` and
  `AuthorityOfReceipts`, the properties of the run `receipt`.

The argument is `FieldIsFramed`: the first element of a framed text is its
length, which tells where the text ends and what follows it begins. `Digest` and
`hash` are nested frames, so equal digests can be peeled from the outside in,
one field at a time (`HashIsInjective`). `AuthorityOfReceipts` needs no more,
and holds in every state. The other two need to know what a content hash is the
hash of: the invariant (`Inductive`, `Invariance`) says that since the last
`Issue` it has been the hash of what the receipt said then, in microseconds and
UTC, and that as long as nobody has set a field the receipt still says that.
Assumed are only that the version is a text, that drafts are receipts, that the
transactions compared with are bindings, and that "UTC" is a zone.

### The in-memory store

`MemoryStoreProofs`: `TypeCorrectness`, `EffectsAreAtomic` and `Refinement`, for
any calls, stores, credentials and writes. Besides the types the invariant says
that the mutex of a store is held by exactly the call between `Lock` and
`Unlock` (`Exclusion`), that a running effect therefore still has no record
against it and a refused call has that of another (`Evidence`), and
`EffectIsAllOrNothing` itself, which needs no more to be inductive. The step in
which the contract's `Spend` happens is `Apply`; a call that leaks its context
adds to `late`, which no record ever covers.

### Verify and Mint

`Verify` and `Mint` are lists of checks, and the first that refuses is found
with `Min` over the indices. That such an index exists for a list of any length
is `LeastIndex`, from the library's theorem that `<` on the naturals is well
founded. On it rest the lemma `FirstRefusalDecides`, and then `VerifyDecides`
and `MintDecides`, which restate the eleven, five and seven checks as the
conditions under which each error that a caller can act on is given.
`UnixReaches` is what division into whole seconds does to a comparison, for any
number of ticks in a second.

`PresentationProofs` derives the properties of `presentation` from them, for
every verifier, clock and set of credentials. Each theorem names what it needs
of the credentials (the conditions are in `Presentation`):

| Condition | Needed by | Why the code justifies it, or what happens without it |
| --- | --- | --- |
| `TimesAreIntegers` | the four about time | `iat` and `exp` are int64; `DriftIsHarmless` and `ExpiryLasts` need no more |
| `DigestsAreHex` | `OnlyNamesAreUnchecked`, `BothEndsAgree` | `Digest` returns hexadecimal, never an empty text |
| `Identified` | `BothEndsAgree` | not justified by `Verify`: leaving it out is the disagreement of `presentation_no_subject`. `OnlyNamesAreUnchecked` is the theorem that nothing else is missing |
| `LifetimesFit` | `CeilingHolds` | `exp - iat` does not wrap: leaving it out is the code bug of `presentation_extremes`. `CeilingHolds` says that the ceiling holds everywhere else |
| `IssuedAfterZero` | `ErrorsAreInformative` | the model's clock begins at 0, and what expired before could only have been accepted at instants before it; it is about the model's clock and not about the code |

`TheoremsApply` in `MCPresentation` has TLC evaluate them: all hold of the
credentials of `presentation`, and the two violating runs fail `Identified`
and `LifetimesFit`.

The four about time are arithmetic in the end, done in `WindowInTicks`: a
credential is early exactly while `t + Skew < iat * TicksPerSecond` and late
from `t - Skew >= (exp + 1) * TicksPerSecond` on.

### Authorise

`AuthoriseProofs`, for any issuers, credentials, calls, clock and store that
keeps the contract: `TypeCorrectness`, `NothingWithoutAuthority`, `SpentOnce`
and `ReplayIsTruthful`.

What a record says was decided two steps earlier, when `Verify` answered, and
by an issuer before that. The invariant keeps the chain: a call beyond `Verify`
holds a credential that is genuine, was minted and is bound to the very
transaction requested (`Vouched`, which is where `VerifyDecides` is used), the
record a store holds is that of this credential (`Recorded`), and the store's
records are those of the calls whose effects are durable (`Ledger`). `SpentOnce`
follows because two calls with one credential present one identifier.

All of it assumes `KeysAreHeld`: a credential that no issuer minted is not
signed with the key of the issuer it names. This is what the code relies on
ed25519 for. `MCAuthorise` has TLC evaluate it, with a stray credential in
circulation that names one issuer under the key of another. `ReplayIsTruthful`
also assumes `FreshIds = "all issuers"`; it is false otherwise, as said above.

`Authorise` asks its store for what `SingleUse` offers, in the contract's own
actions; with the two `Refinement` theorems either store can be put in its place.

### The conformance suite

`ConformanceProofs`, for two or more concurrent calls, all schedules and all
timeouts: `NobodyIsAccusedWrongly` (`CorrectStorePasses`), `DefectsAreFound`
(`BrokenStoresAreCaught`) and `QuietEnvironment` (`QuietChecksPass`).

The verdict is a comparison of counts at the end, so the invariant (`Shape`) is
about how they come about: how far each call is and how often its effect ran
(`Course`), that calls of a sequential check come one after the other (`Order`),
who may be inside an effect (`Exclusion`, `Entries`), where writes are and whose
records there are (`Written`, `Records`), that an effect runs only for a
credential found unspent (`Fresh`), and that without a timeout nobody passes the
barrier before everybody has reached it (`Barrier`). From it, `MemoryPasses`
shows that in the correct store exactly one call wins and all others see its
record, and `BrokenFails` takes the broken stores one defect at a time. The one
assumption, apart from the number of calls, is that `None` is not a call.

### The benchmark

`BenchProofs`, for every workload, any finite number of workers, any capacity
of the channel and any number of store errors and expiries: `PoolsDoNotPanic`
(`PoolNeverPanics`), `PaymentsAreCounted` (`EveryPaymentIsCounted`) and
`CleanRunsLookClean` (`CleanRunIsReportedClean`).

The properties compare totals after a section, or after the program. The
invariant comes in four layers, each proved with the ones below:

* `Shape`: types; that the channels close in their order and are empty between
  pools (`Phases`); that no payment is with two workers (`Apart`); and that the
  WaitGroup counts the workers that have not left (`Awaited`), from which it
  follows that nobody can send once it has come down to 0.
* `Fresh`: nothing is spent of what the running section has still to present, or
  of what a later section will mint. This needs that the ranges of identifiers
  are apart (`RangesAreApart`), which is what `IdBase` is in the code for.
* `Accounts`: a payment fed to a pool is with a worker, in the channel, or
  counted (`Tally`); every failure among them is of a call that a store error or
  an expiry spoilt (`Blame`); and what a section that is over has counted stays
  so (`Books`). `Tally` and `Blame` count sets and sequences that a step changes
  by one element, so the lemmas before them say how `Falses` and the sets of
  workers change (`FalsesOfAppend`, `FalsesOfTail`).
* `Ledgers`: while no call has been spoilt, every counter of the loops is
  how far its loop has come, and the listed credentials stand at the places of
  their payments, which is what `bench_miscount` shows to fail after one.

The assumptions are those of `Bench`: payments are positive numbers (0 stands
for the altered transaction), samples are taken from cohorts that are long
enough, and there are finitely many workers and at least one.

### What is not proved

Liveness stays with TLC, since the prover handles neither fairness nor ENABLED:
`CallsReturn` of both stores, `CredentialIsReleased`, `CheckEnds` and
`BenchEnds`. Every other property of a run that passes is stated by a theorem.
The four properties that the violating runs refute are of course not theorems as
they stand; three of them are theorems under the conditions above, or, in
`PostgresStoreProofs`, for every statement but TRUNCATE, and
`AcceptedMeansAccepted` is true only of a run without store errors and expiries,
which `CleanRunsLookClean` covers.

`Framing` takes SHA-256 to have no collisions, and signatures are a key next
to a payload; neither is within reach of these tools.

## Not modelled

Reads (`Consumption`, `Get`) change nothing and are left out. Key rotation is
out of scope in version 1 of the format. A connection that neither works nor
breaks is not modelled: under it `Consume` does not return, since the deferred
`Rollback` has no deadline. Effects that open a second transaction, or call
back into their own store, are not modelled yet: the mutex of the in-memory
store is not reentrant, and a pool whose connections are all held by effects
that want a second one is stuck.

Of the benchmark, what is left out is the loading of the workload, the latency
statistics, the verification-only section (a loop over a pure function) and the
report. `Bench` assumes cohorts of the sizes the code slices (`SamplesAreTaken`):
with fewer than 2000 payments `payments[:n]` (line 514) panics, as does
`spreadSet[:len(hotSet)]` (line 666) if there are fewer quiet payers than hot
payments. With `-concurrency 0` there is no worker and the feeder waits for
ever; `Bench` has at least one.

The unit tests, the fuzz tests, the test vectors and the Python script that
verifies them were read for what they claim. The notebook is data analysis.

## Plan

1. `NestedEffects`: effects that use the pool or call `Consume` again, over
   both stores: who can wait for whom, and which pool sizes are enough. It would
   take over the questions of `postgres_liveness`.
2. Proofs: that a benchmark section which is over has counted at most as many
   payments as it was fed, with any number of store errors and in the contention
   pools as well, as an invariant of its own.

Where two questions can share an instance they share a run.
