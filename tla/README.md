# A verification of kiss

kiss is a peer-to-peer file store. Every node stores records (as a *keeper*),
serves clients over gRPC, and may audit the files of the other nodes (as a
*verifier*); an immudb database, the *ledger*, holds contracts, reputations and
the verifiers' claims. This directory holds TLA+ modules of these parts, TLC
configurations that check them on small instances, and TLAPS proofs of their
safety properties for every size. `PROJECT.json` lists the components, runs,
mutants, findings, hazards and theorems, and maps every definition to the lines of
the source that it models.

    tlc -workers 2 -config MCRotation.cfg MCRotation
    tlapm RotationProofs.tla

## The system and its modules

| Part | Source | Modules |
|---|---|---|
| Division of the key space, `next_iteration` | `src/verifier/mod.rs` | `KeySpace`, `Rotation`; `KeySpaceProofs`, `RotationProofs` |
| Audit loop, claims, rewards and punishments | `src/verifier/mod.rs`, tables of `src/ledger/mod.rs` | `Verifier`; `VerifierProofs` |
| Reputation updates in immudb | `src/ledger/mod.rs` | `AtomicReputation`, `Ledger`; `LedgerProofs` |
| Swarm task, its controller, the command channel | `src/p2p/swarm.rs`, `controller.rs`, `mod.rs`, `store.rs` | `Calls`, `Swarm`; `SwarmProofs` |
| gRPC handlers, the task that reports the reputation | `src/grpc/mod.rs`, `src/main.rs` | `Grpc`; `GrpcProofs` |
| Proof of retrievability | `src/verifier/por.rs` | `PorLayout`, `Sums`, `Por`; `PorProofs` |
| Records on the disk, deletion loops, benchmark's map | `src/storage/`, `src/malice/`, `src/p2p/store.rs`, `src/bench/mod.rs` | `Storage`; `StorageProofs` |

Each `MC...` module extends the module of its name for TLC.

A node is one process: `main.rs` joins the gRPC server, the swarm, the verifier,
the malicious behaviour and a task that logs the node's reputation with
`try_join!`, so an error in any of them ends all of them. They interact as
follows. A gRPC handler or the verifier calls the swarm through the controller
(`Swarm`) and the ledger through a mutex (`Grpc`, `Ledger`). `store` puts a file to
the closest peers and then writes contracts, `put_to` writes the contracts first;
verifiers read the contracts, challenge the keepers (`Verifier`, `Por`), change
their reputation (`Ledger`) and write claims that the next verifier compares with
its own audit. On a keeper, kademlia, the answers to challenges and the deletion
loop share the disk (`Storage`).

### KeySpace and Rotation
The key space is `0 .. MaxUuid` for u128, cut into `NUM_PEERS` shares. `NextWindow`
is `next_iteration`, with the wrap-around of u128 addition. `Rotation` moves the
window of each verifier; `covered` is a history variable: what the windows of the
current round have held. A round begins when the iteration is set back to 0.

### Verifier
One action per call that the loop of `Verifier::start` awaits: `GetAllContracts`,
`Audit` (the request and the audit), `Settle` (`reward_peer`, `punish_peer`),
`GetPreviousVerified` with the comparison, `NextIteration`, `CreateVerifiedClaim`
for one result at a time, `WakeUp`, and `LedgerError` for every `?` and `unwrap`
that ends the loop. A reputation update is one step here that may fail; `Ledger`
takes it apart.

In between, uploads, deletions by keepers and the clock take steps. An upload
(`Upload`) writes one contract at a time (`CreateContract`), and each keeper gets its
replica in a step of its own (`Receive`). The order is that of the handler: `store`
writes contracts when the put has returned (`MayWrite`), `put_to` puts when all
contracts are written (`MayPut`), so that a verifier can find a contract before its
file has arrived. Without the fault `"put"` a put returns when every keeper has its
replica; with it, one is enough (`Quorum::One`) and the others may come late or never.
An upload that fails or is cancelled takes no further step.

An audit succeeds if the keeper holds the file and is not the verifier itself: libp2p
refuses a request to the own peer id, and an error is a failed audit
(`src/verifier/mod.rs:145`). The fault `"request"` adds every other failure, and the
refusal of a good copy that `Por` finds. `caught`, `missed`, `lost`, `hasty` (files
that were audited before they arrived) and `owed` are history variables. `MayFail`
has the causes that remain for a failed audit while requests are answered. The windows are shown to
implement `Rotation` (`RotationImplemented`), with `covered` mapped to
`0 .. ending_uuid`, which the proof of `Rotation` shows it to be.

### Ledger and AtomicReputation
`increase_reputation` is six RPCs, one action each; `decrease_reputation` calls it
with a negative amount. An RPC is answered, refused without an effect, or takes
effect and loses its reply. immudb is external: a transaction reads the table as
it was when it began, and a commit is refused if a row that it read was
overwritten since. `AtomicReputation` is what the calls promise: an amount is
added in one step, at most once.

### Swarm and Calls
A caller locks the sender, sends its command, and waits; the swarm handles one
command or one event at a time. A cancelled caller (the timeout of the gRPC
server) drops its receivers, after which `send(..)?` ends the loop. libp2p is
external: `Progress` and `Finish` are the results that a query can report, and a
response or failure ends every request. Request ids of this node and of the
others are counted separately, as libp2p does, and
`handle_inbound_failure` confuses them. `Calls` is what the controller promises:
a call is answered at most once, only while its caller waits, and its answer does
not change until it returns. `Grpc` and `Verifier` rely on it, each with one step
per call; `CallsImplemented` is the refinement, with a caller waiting from its call
until it returns or is cancelled.

### Grpc
`store`, `put_to`, `retrieve`, `verify` and `verify_file`, one action per call of
the swarm or the ledger. A request that uploads is also the name of its file (its
uuid is new). `lock` is the guard that `put_to` and `retrieve` keep until they
return; the others hold it for one call. `contracts` has one row per file, its
primary key. `PutTo` and `Cancel` choose the peers that store the record, those that
do so late included. `Get` finds a copy or fails; that the hash differs from the
contract's is one of its errors, so the content of a file is not part of the state.

`Cancel` is the timeout of the server, which drops a handler wherever it waits. A
contract that was being written may be there, a file that was being put may be stored,
and the node lives on. A call that the swarm has accepted and not answered becomes one
of the `orphans`; its result finds no receiver, and `send(..)?` ends the swarm and the
process (`LateReport`). A call that was never sent, or was answered already, does no
harm. `FromFilePanics` is the upload of an empty file, which ends the handler's task
in a debug build; where a release build runs out of memory instead, it is `Crash`.
`ReportReputation` is the loop at the end of `main.rs`: it waits for the
same mutex, and an error of its query ends the process. Handlers that only pass a
call on (`get_providers`, `get_closest_peers`, `start_providing`) are the calls of
`Swarm`.

### PorLayout, Sums and Por
`PorLayout` has the layout that `from_file` computes for a length, and the shifts and
masks that cut chunks out of words. `Por` is one upload, one possible damage (a
deletion, another content, another length), and one audit: the file is read with
`PorLayout`, the secrets are written to a contract as bytes and read back, the keeper
derives the layout from its own copy, and all sums are modulo a small prime for P57.
The step "panic" is the end of an upload or an answer without a result. For an empty
file that is `len - 1`: a debug build panics there, a release build wraps it, lays out
some 2^30 rows and as many slices, and aborts for want of memory or panics at the
second slice.
The code draws its vectors from constant seeds; the module lets every entry be any
of `Draws`. `Sums` has the loops that accumulate a sum, as recursive functions, so
that the proofs can reason about them. The sums that the code reduces only at the end
(`Partials1`, `DotProds1`) are exact here; `SumsFitU128` is the claim that the code's
`u128` holds them. `MatrixIsTheFile` compares the reading with a reference: chunk `n` of the
file is its bytes from `BYTES_UNDER_P * n`.

### Storage
The disk of one keeper, which outlives the process, and what runs beside each other
on it: `Put`, `Get` and `Remove` of kademlia through `LocalStore`; `Verify` and
`LookUpDeleted`, the two halves of `handle_reqres_message_request` around its await;
and the loop of `MaliceDeleteAll` or `MaliceDeleteLast`, with the listing, each
removal and each entry of the benchmark's map as steps of their own. `Crash` may
come between any two of them, `Restart` keeps the disk only. `Elapsed` and `Instant`
are the conversion of the expiry. Every record has one: kademlia gives its `record_ttl`
to what it receives, and `SwarmController::put`, which would store a record without, is
called by nobody. `LocalStore` calls the storage with `block_on`:
meanwhile other tasks are not polled (`Polled`), but a removal that is under way in
its thread goes on. `original`, `deleted`, `expired` and `reported` are history
variables.

## Runs

Passing runs:

| Run | Shows | Bounds |
|---|---|---|
| `rotation` | A round leaves out no uuid, no sum overflows, windows meet in one uuid, every uuid comes again | 3 verifiers, 3 parts, 12 uuids (a remainder of 2): every window that exists is reached |
| `ledger` | Updates implement the atomic table; no stale read commits; `Ok` with a write means committed; only errors leak sessions | 2 nodes, 2 peers, 2 calls each, every RPC can fail |
| `verifier_cause` | No punishment or alarm without a cause; only a verifier with a slower clock stops | 2 verifiers, one corrupt with a clock a tick ahead, one a keeper too, another keeper, 1 file with up to 2 replicas, uploaded by `store` or `put_to`, 2 cycles each: a replaced contract, an audit before the put, one of the node itself, and a claim to compare with |
| `verifier_round` | A round audits every contract it began with; windows refine `Rotation`; rewards only by another node and for a file that arrived; a cycle that began ends | 1 verifier that is a keeper, another keeper, 2 parts, 5 cycles: a first round, the longer second one; 2 files, where parts meet and at the end; puts that reach one keeper, failed requests, ledger errors |
| `swarm` | No caller is forgotten, no entry leaks, data operations do not end the node; the calls implement `Calls`; every call returns | 2 callers, one of which calls twice, all 7 operations, a channel of 1, every fault |
| `grpc` | Acknowledged means stored and contracted; no contract of `store` without a file; reads of the node see nothing of a half done `put_to`; every request is answered | 2 requests of any kind, 2 peers, 2 replicas, 2 tries for the code's 10, every fault, deletions and late reports at any time |
| `por` | The matrix is the file; damage is detected, or accepted for one number of a challenge at most; an honest keeper is refused only at a sum of 0; no sum overflows; only empty files and longer or empty copies end an upload or an answer | lengths 0 to 20: none, one, two and three slices, one and two alignments of rows; chunks of 2 bytes in words of 3, so that every shift is used; bytes of 3 values, `u64` of 3 bytes, modulo 11 (above the 9 values of a chunk, as P57 is), three draws per entry of a vector, the largest one included |
| `storage` | What is stored as an expiry is a duration; the benchmark reports real deletions, each once; only an expiry ends the loop; `delete_all` deletes everything, `delete_last` the last file | 3 records, every behaviour, expiries, a crash at any moment and a restart |

Deadlock is checked in `rotation`; the other models stop at their bounds, or
because the process ended.

Runs that end with a counterexample, each for a sentence of the repository that
the code does not fulfil (the findings of `PROJECT.json` quote them):

| Run | What the code does |
|---|---|
| `ledger_dropped_upsert` | A failed `UPSERT` is reported as `Ok` |
| `verifier_missed` | A later honest claim hides a false one |
| `grpc_promises` | The contract of a replica replaces the one before |
| `storage_expiry` | An expiry in the future is stored as 0 and read back as now |

The modules show other places where the code does less than the documents say;
they follow from the definitions and have no run of their own. The iteration is
set back to 0 and not to 1, so later rounds have one window more, which holds only
the remainder (`KeySpace`). All verifiers start with the same part
(`Rotation!Init`). A conflicting update is not retried, and an error leaves its
session open (`Ledger`). The message about a cheating verifier names the keeper
(`src/verifier/mod.rs:167`). With `Quorum::One` the contract that is left can name
a peer that never got the file (`Grpc!PutOutcomes`). A sum of exactly P57 is not
reduced, so that an undamaged copy can be refused (`Por`). A value on the disk that
is no base64 is read as an empty file (`src/storage/local.rs:124`), and an empty
copy panics the keeper's answer (`Por`).

What holds only under a restriction: `PunishedOnlyForCause` and `AlarmsHaveACause`
where puts reach their keepers and requests are answered (a failed request counts as a
failed audit), and with two causes that are no fault of the keeper: `put_to` writes the
contract before the put, so that a verifier can punish for a file that is on its way,
and a node that finds its own contract in its window always fails its own audit.
`HalfPutIsHidden` is about the handlers of the node that runs `put_to`: other nodes
have mutexes of their own and can see its contracts early.
`OnlySlowClocksStop` with a ledger that answers (each of its errors ends the
verifier); `DataOpsKeepNodeUp` beside calls that were not cancelled (a caller that
was dropped by the timeout, `start_providing` and `get_providers` end the node);
`OkMeansCommitted` for calls whose `UPSERT` succeeded; `ContractMeansStored` for
`store`, since a `put_to` that fails at the put leaves its contracts.

Every property of a passing run has a mutant: a definition changed as a plausible
bug would, under which TLC finds the property violated. Mutants stand before the
definition they replace.

### Fairness
`Rotation` and `Verifier`: a verifier's loop goes on while it can; tokio schedules
it, its sleep ends, and calls it awaits return (`Swarm`, `Grpc`). `Swarm`: weak
fairness for the swarm's loop over the commands, for callers that can send or
return, and for the end of some query and of some request, which libp2p bounds with
timeouts (60 s for queries); strong fairness for taking the mutex of the sender,
since tokio's mutex is first-come-first-served. `Grpc`: strong fairness for the
steps of a handler, for the same mutex. `Storage`: weak fairness for the deletion
loop, and for the second half of what the swarm has begun. Faults, cancellation,
crashes, restarts and uploads are never fair.

## Proofs

The safety properties of the passing runs are proved for every value of the
constants, refinements included. Three of the verifier's have a hypothesis about its
faults, which the theorem states. TLC has checked every inductive invariant on the
instance of its run above.

`KeySpaceProofs` and `RotationProofs`, for every `NUM_PEERS >= 1`, every `MaxUuid`
and any verifiers. `WindowInv` says of each window that it starts at most at
`iteration * Share`, ends one share further (or at `MaxUuid` in the last part), and
that the round so far covers exactly `0 .. ending_uuid`. The properties alone are
not inductive: without the bound on the start, the next sum could overflow, and
without `covered = 0 .. ending_uuid` nothing follows about the last part. From it
follow `RotationTypeCorrect`, `RotationCoverage`, `RotationNoOverflow` and
`RotationMeets`. The arithmetic rests on `NUM_PEERS * Share <= MaxUuid`.

`VerifierProofs`, for any verifiers, keepers, files and clocks. `VerifierInv` adds to
`WindowInv` what the round still owes: while the loop audits, an owed contract is on
its list or lies beyond the window; between two cycles it lies beyond the start of
the next window. A contract that replaces another has a new id, so it is owed by no
round that has begun. From this follow `VerifierForgetsNothing` and, with no claim
later than its verifier's clock, `VerifierStops` (with a ledger that answers).

For the punishments, `CauseInv` follows a replica through the loop. Claims and results
carry only a contract id, and the row they were about may have been replaced, so the
invariant has a function from the ids that were generated to replicas: whoever holds a
contract holds that one, the replica has arrived unless `put_to` is uploading it, and
every failed result, and every claim of one by an honest verifier, is of a replica in
its verifier's `MayFail` (`Recorded`). An audit that fails is then of the verifier's
own replica, of one that is lost, or of one that had not arrived, which `Audit` puts
into `hasty` and which only `put_to` allows. `UploadInv` says that contracts are
written for the keepers of an upload only, so that the end of `store`'s put means that
each of them has its replica. `VerifierAlarms` and `VerifierPunishes` follow where puts
reach their keepers and requests are answered; `VerifierRewards` follows always, from
`EarnedInv`: an audit that succeeded was of another node, which had the file.
`VerifierRotates` is the refinement
to the steps of `Rotation` (not to its fairness).

`LedgerProofs`, for any nodes, peers, amounts and bound of calls, with and without
faults. `LedgerInv` joins the type invariant, `ReadsAreCurrent`,
`OnlyErrorsLeakSessions` and `CallsInv`: a call in progress holds a session (so that
`close_session` cannot make the count negative) and has not taken effect before its
commit (so that it takes effect at most once). `LedgerOkCommitted` rests on
`CommittedInv`: what a commit has written holds from its reply until the call
returns. `LedgerAddsUp` is the refinement:
`OpenSession` begins an abstract call, a commit that writes is its effect, since
its snapshot is the current value, and every other step is a stutter.

`SwarmProofs`, for any callers, operations, faults and bounds. While the node is up,
`SwarmInv` says that a command that is in the channel or a map belongs to a call that
waits without an answer or is over (`PendingInv`), that it is in one place only
(`UniqueInv`), and that a query without an entry is one that has reported before
(`ReportedInv`). Without `UniqueInv` an answer could be given twice, which
`SwarmKeepsPromise`, the refinement to `Calls`, excludes; `SwarmStaysUp` uses
`ReportedInv`: only a query for providers can fail for want of an entry.

`GrpcProofs`, for any requests, finite set of peers, replication factor, number of
tries and faults. `Handled` says of each handler what it has done at each of its
steps: `store` has a stored file when it writes contracts, `put_to` a contract when
it puts, and only a handler that is done has a status. `GuardInv` is about the mutex:
`put_to` has the ledger locked from its first contract until it returns (`LockInv`),
and a reader that has found a contract is not of an upload by `put_to` that is still
on its way (`SeenInv`); `GrpcHidesHalfPuts` follows. Neither is inductive without the
other: what the reader has seen stays true because no `put_to` can start for a file
whose contract exists, and it was true because the lock was free or the reader's own.

`StorageProofs`, for any records, expiry and number of restarts. `StorageInv` adds to
the properties that nothing deleted is put again, and that a deletion is not in the
map before it is noted.

`PorProofs`, for every file, damage, secret, challenge, prime, chunk size, alignment
and width of a byte and of a `u64`. The argument has five parts.

1. *Loops.* What a loop computes for every number of rounds is proved by induction.
   The library's induction theorems take an operator, which the provers cannot
   instantiate; `Induction` and `InductionTo` are about a set instead: a number
   outside it would have a least one (`MinIsLeast`, from `WFMin`). `LoopExists` and
   `LoopUnique` show that `Loop` is what its recursive definition says, and from it
   follow the laws of sums that the rest needs: bounds, factors, sums of blocks, and
   that a sum of sums may be taken in either order (`SumExchange`).
2. *Bytes.* `n` bytes make a number below the `n`-th power (`FromLeBytesSum`), and the
   bytes of a number give it back (`LeBytesBack`), so the secrets come back from a
   contract as they were (`BytesBack`).
3. *Layout.* `LayoutHolds` (no slice is out of bounds, all of the file is in them),
   `LayoutTight` (no slice is empty, no fewer rows than slices), `MatrixBytes` (each
   entry is read from the bytes of its chunk) and `MatrixNumbers` (it is the number of
   that chunk).
4. *Algebra.* `ReducedSumCongruent`: the sums of `audit`, reduced now and then, stay in
   `0 .. P` and congruent to the exact sums. With `SumExchange`, both sides of an audit
   are congruent to what the file weighs (`AnswerWeighs`, `SecretWeighs`). Two numbers
   in `0 .. P` that are congruent and differ are 0 and `P`, which is how an undamaged
   copy can be refused. A changed chunk changes the weight by a product of three
   numbers in `1 .. P - 1`, unless a weight is 0, and a prime does not divide it
   (`PrimeProduct`, `OneChunkShows`). More chunks may change so that the weights stay
   equal, but not by chance: with two challenges that differ in one row the weights
   differ by a multiple of that row, so both can accept only if the copy has the
   file's secret n there (`TwoDrawsShow`). Of the P57 numbers that a row of the
   challenge may have, at most one hides the damage. (The code's challenge is the same
   in every audit of a file, so asking again does not draw again.)
5. *Steps.* `AuditInv` says that the contract is the one of the file and of some drawn
   secret, that a challenge has a number for each of its rows, and that an answer is
   empty or computed from a copy with no more rows. The properties alone are not
   inductive: they speak of an audited state, and what makes them true happened at the
   upload. From it follow `PorMatrix`, `PorDamage`, `PorLuck`, `PorHonest`, `PorSumsFit` and
   `PorPanics`; a copy that is not longer has no more rows (`RowsMonotone`), which is
   why the challenge of the upload is long enough for it.

Two assumptions of `Por` are about the code's numbers. `PrimeAssumption`: P57,
2^57 - 13, is a prime. `LengthAssumption`: a file has few enough rows for its sums to
fit a `u128`; a gRPC message, a packet of the swarm and a record hold at most 1 GiB
(`src/grpc/mod.rs:103`, `src/p2p/swarm.rs:99`, `src/p2p/store.rs:110`), and `SumsFit`
proves the assumption for the code's constants and every length below that.

Assumptions: those named in `KeySpace`, `Verifier`, `Ledger`, `Swarm`, `Grpc`,
`PorLayout`, `Por` and `Storage` (constants are natural numbers or integers as in the
code, model values differ, and the two above), and what `CommitOutcomes` says of
immudb, `Progress` and `Finish` of libp2p.

Only model-checked: the liveness properties (`EveryUuidAuditedAgain`,
`CycleCompletes`, `EveryCallReturns`, `EveryRequestAnswered`, `EverythingDeleted`),
which are out of TLAPS's reach.

## Inventory

Modelled: the verifier, reputation updates, contracts and claims as their callers
use them, the swarm and its controller, the gRPC handlers that change state, the
proof of retrievability, the local storage with the record store, the malicious
behaviours and the benchmark's map.

Partly: `main.rs`. The end of a task ends the node, the tasks that share the disk
are composed in `Storage`, the ones that share the ledger's mutex in `Grpc`; no
module composes all five tasks.

Not modelled:

- `stake`, `unstake`, `set` and `get` of the ledger: no code calls them, so there is
  no caller whose steps they could be.
- Login, creation of the tables, `peer_id.rs`: they run once at start, before any
  task; their result is the initial state.
- `records()` of `LocalStore`, a `todo!()`: only a periodic job inside libp2p reaches
  it, which `Swarm` leaves out. `Grpc` and `Storage` can crash at any moment, which
  is its effect on them.
- Settings, injection and errors: no state.
- Protobuf: generated.
- mdns discovery and listening addresses: left to libp2p.
- Code that is commented out, not compiled or empty (`memorystore.rs`,
  `keeper_client.rs`, `docker.rs`, `types/mod.rs`), and `kad.rs` beside `src/`.
