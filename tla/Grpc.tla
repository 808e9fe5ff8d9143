-------------------------------- MODULE Grpc --------------------------------
(***************************************************************************)
(* The gRPC handlers of one node that store and retrieve files             *)
(* (src/src/grpc/mod.rs): store, put_to, retrieve, verify and verify_file. *)
(* They share the node's ledger behind a mutex (put_to and retrieve hold   *)
(* it until they return), the table contracts with its primary key         *)
(* file_uuid (src/src/ledger/mod.rs), and the keepers' storage.  A call of *)
(* the swarm or the ledger is one step; a put reports success as soon as   *)
(* one keeper has stored the record.  The server drops a handler that      *)
(* takes too long; the call it waited for goes on without it.              *)
(***************************************************************************)
EXTENDS Naturals, Sequences, FiniteSets, SequencesExt

CONSTANTS Requests,            \* the requests; an uploaded file is named after its own
          Kinds,               \* the handlers they are for
          Peers,               \* the keepers
          REPLICATION_FACTOR,  \* how many of the closest peers get a file
          por_enabled,         \* settings.por.enabled
          MaxTries,            \* attempts to write a contract
          Faults,              \* "ledger", "put", "empty", "malice", "cancel", "crash"
          None

ASSUME GrpcAssumption ==
  /\ Kinds \subseteq {"store", "put_to", "retrieve", "verify", "verify_file"}
  /\ REPLICATION_FACTOR \in Nat \ {0} /\ MaxTries \in Nat \ {0}
  /\ por_enabled \in BOOLEAN /\ IsFiniteSet(Peers)
  /\ None \notin Requests \cup Peers \cup Kinds \cup {"ok", "err"}

VARIABLES up,         \* the node is running
          pc,         \* where the handler of each request is
          kind,       \* the handler
          file,       \* the file_uuid it is about
          peers,      \* the peers a file goes to
          todo,       \* the peers whose contract is to be written
          tries,      \* failed attempts to write the next contract
          lock,       \* the request that holds the ledger across calls
          contracts,  \* the table contracts: the peer of each file's row
          held,       \* the records in the keepers' storage
          stored,     \* history: the records keepers have stored
          orphans,    \* the swarm calls whose handler was cancelled
          status      \* the response: "ok", "err", or none yet

handlerVars == <<pc, kind, file, peers, todo, tries, lock, status>>
vars == <<up, handlerVars, contracts, held, stored, orphans>>

Uploads == {"store", "put_to"}

\* The steps that wait for the swarm.
SwarmCalls == {"closest", "put", "get", "challenge"}

Init == /\ up = TRUE
        /\ pc = [r \in Requests |-> "idle"]
        /\ kind = [r \in Requests |-> None]
        /\ file = [r \in Requests |-> None]
        /\ peers = [r \in Requests |-> <<>>]
        /\ todo = [r \in Requests |-> <<>>]
        /\ tries = [r \in Requests |-> 0]
        /\ lock = None
        /\ contracts = [f \in Requests |-> None]
        /\ held = {} /\ stored = {} /\ orphans = {}
        /\ status = [r \in Requests |-> None]

-----------------------------------------------------------------------------
\* The handler of r returns; the mutex guard it may hold is dropped.
GuardKept(r) == lock
GuardDropped(r) == IF lock = r THEN None ELSE lock
Respond(r, response) ==
  /\ pc' = [pc EXCEPT ![r] = "done"]
  /\ status' = [status EXCEPT ![r] = response]
  /\ lock' = GuardDropped(r)

\* The handler goes on to a step.
Goto(r, step) == pc' = [pc EXCEPT ![r] = step] /\ UNCHANGED <<status, lock>>

\* A request arrives.  An upload names its file with a new uuid, put_to is
\* given the peers by its client, and the others ask for any uuid: of a file
\* that is stored, of one that is being stored, or of none.
Begin(r, k) ==
  /\ up /\ pc[r] = "idle"
  /\ kind' = [kind EXCEPT ![r] = k]
  /\ \E f \in (IF k \in Uploads THEN {r} ELSE Requests),
        s \in (IF k = "put_to" THEN SetToAllKPermutations(Peers) ELSE {<<>>}) :
       /\ file' = [file EXCEPT ![r] = f]
       /\ peers' = [peers EXCEPT ![r] = s]
       /\ todo' = [todo EXCEPT ![r] = s]
  /\ Goto(r, CASE k = "store" -> "closest"
               [] k \in {"put_to", "retrieve"} -> "lock"
               [] k = "verify" -> "get"
               [] k = "verify_file" -> "get_contracts")
  /\ UNCHANGED <<up, tries, contracts, held, stored, orphans>>

\* store puts the file before it writes the contracts.
ContractsFirst(r) == Goto(r, IF peers'[r] = <<>> THEN "put" ELSE "contract")
PutFirst(r) == Goto(r, "put")

\* store: get_closest_peers, of which the first REPLICATION_FACTOR count.
GetClosestPeers(r) ==
  /\ up /\ pc[r] = "closest"
  /\ \/ /\ \E s \in SetToAllKPermutations(Peers) :
             peers' = [peers EXCEPT ![r] =
               SubSeq(s, 1, IF Len(s) < REPLICATION_FACTOR THEN Len(s) ELSE REPLICATION_FACTOR)]
        /\ todo' = [todo EXCEPT ![r] = peers'[r]]
        /\ PutFirst(r)
     \/ Respond(r, "err") /\ UNCHANGED <<peers, todo>>
  /\ UNCHANGED <<up, kind, file, tries, contracts, held, stored, orphans>>

\* put_to of the swarm with Quorum::One: some peer has stored the record, or
\* the put fails, though some may have.
PutOutcomes(r) ==
  LET all == Range(peers[r]) IN
  IF "put" \in Faults
  THEN [ok : {TRUE}, got : (SUBSET all) \ {{}}] \cup [ok : {FALSE}, got : SUBSET all]
  ELSE {[ok |-> all # {}, got |-> all]}

\* from_file of an empty file panics, which ends the handler's task; where a
\* release build aborts instead, the process ends (Crash).
FromFilePanics(r) == "empty" \in Faults /\ Respond(r, "err")

\* store computes the secrets of the contracts after the put.
AcknowledgedAfterPut(r) == Respond(r, "ok")
AfterPut(r) ==
  IF kind[r] = "store" /\ por_enabled THEN Goto(r, "contract") \/ FromFilePanics(r)
  ELSE Respond(r, "ok")

PutTo(r) ==
  /\ up /\ pc[r] = "put"
  /\ \E outcome \in PutOutcomes(r) :
       /\ held' = held \cup (outcome.got \X {file[r]})
       /\ stored' = stored \cup (outcome.got \X {file[r]})
       /\ IF outcome.ok THEN AfterPut(r) ELSE Respond(r, "err")
  /\ UNCHANGED <<up, kind, file, peers, todo, tries, contracts, orphans>>

\* The row of the file; its primary key makes it replace an earlier one.
RowWritten(r) == contracts' = [contracts EXCEPT ![file[r]] = Head(todo[r])]

\* A ledger call is answered, refused, or loses its answer.
RpcOutcomes == IF "ledger" \in Faults THEN {"reply", "refused", "lost"} ELSE {"reply"}

\* After a contract was written: the next one, or the end of the loop.
AfterContractUnlocked(r) ==
  /\ todo' = [todo EXCEPT ![r] = Tail(@)]
  /\ tries' = [tries EXCEPT ![r] = 0]
  /\ IF Tail(todo[r]) # <<>> THEN Goto(r, "contract")
     ELSE IF kind[r] = "put_to"
          THEN pc' = [pc EXCEPT ![r] = "put"] /\ lock' = None /\ UNCHANGED status
          ELSE Respond(r, "ok")
AfterContract(r) ==
  /\ todo' = [todo EXCEPT ![r] = Tail(@)]
  /\ tries' = [tries EXCEPT ![r] = 0]
  /\ IF Tail(todo[r]) # <<>> THEN Goto(r, "contract")
     ELSE IF kind[r] = "put_to" THEN Goto(r, "put") ELSE Respond(r, "ok")

\* store tries again, MaxTries times in all; put_to gives up at once.
GivesUpNever(r) == FALSE
GivesUp(r) == kind[r] = "put_to" \/ tries[r] + 1 = MaxTries
AfterFailure(r) ==
  /\ UNCHANGED todo
  /\ IF GivesUp(r) THEN Respond(r, "err") /\ UNCHANGED tries
     ELSE Goto(r, "contract") /\ tries' = [tries EXCEPT ![r] = @ + 1]

\* create_contract: store locks the ledger for each attempt, put_to has it.
CreateContract(r) ==
  /\ up /\ pc[r] = "contract"
  /\ lock = IF kind[r] = "put_to" THEN r ELSE None
  /\ \E outcome \in RpcOutcomes :
       /\ IF outcome = "refused" THEN UNCHANGED contracts ELSE RowWritten(r)
       /\ IF outcome = "reply" THEN AfterContract(r) ELSE AfterFailure(r)
  /\ UNCHANGED <<up, kind, file, peers, held, stored, orphans>>

\* put_to and retrieve lock the ledger for the rest of the handler.
LockLedger(r) ==
  /\ up /\ pc[r] = "lock" /\ lock = None
  /\ \/ /\ lock' = r
        /\ pc' = [pc EXCEPT ![r] = IF kind[r] = "retrieve" THEN "get_contract"
                                   ELSE IF todo[r] = <<>> THEN "put" ELSE "contract"]
        /\ UNCHANGED status
     \/ kind[r] = "put_to" /\ FromFilePanics(r)
  /\ UNCHANGED <<up, kind, file, peers, todo, tries, contracts, held, stored, orphans>>

\* get_contract of retrieve, get_contracts of verify_file: without a row,
\* retrieve fails and verify_file returns an empty list.
GetContract(r) ==
  /\ up
  /\ \/ pc[r] = "get_contract" /\ lock = r
     \/ pc[r] = "get_contracts" /\ lock = None
  /\ \/ "ledger" \in Faults /\ Respond(r, "err")
     \/ contracts[file[r]] # None
        /\ Goto(r, IF kind[r] = "retrieve" THEN "get" ELSE "challenge")
     \/ contracts[file[r]] = None
        /\ Respond(r, IF kind[r] = "retrieve" THEN "err" ELSE "ok")
  /\ UNCHANGED <<up, kind, file, peers, todo, tries, contracts, held, stored, orphans>>

\* get of the swarm: the copy of some keeper, or an error; retrieve also
\* refuses a copy whose hash is not the contract's.
Get(r) ==
  /\ up /\ pc[r] = "get"
  /\ \/ (\E p \in Peers : <<p, file[r]>> \in held) /\ Respond(r, "ok")
     \/ Respond(r, "err")
  /\ UNCHANGED <<up, kind, file, peers, todo, tries, contracts, held, stored, orphans>>

\* request_verification and audit of verify_file; an error counts as a failed
\* audit.
Challenge(r) ==
  /\ up /\ pc[r] = "challenge"
  /\ Respond(r, "ok")
  /\ UNCHANGED <<up, kind, file, peers, todo, tries, contracts, held, stored, orphans>>

-----------------------------------------------------------------------------
\* The server's timeout drops a handler wherever it waits.  The ledger may
\* still write the contract, peers may still store what was being put, and a
\* call that the swarm has and has not answered is left without its caller.
Cancel(r) ==
  /\ up /\ "cancel" \in Faults /\ pc[r] \notin {"idle", "done"}
  /\ \/ pc[r] = "contract" /\ RowWritten(r)
     \/ UNCHANGED contracts
  /\ \E got \in SUBSET (IF pc[r] = "put" THEN Range(peers[r]) ELSE {}) :
       /\ held' = held \cup (got \X {file[r]})
       /\ stored' = stored \cup (got \X {file[r]})
  /\ orphans' \in {orphans, orphans \cup ({r} \X ({pc[r]} \cap SwarmCalls))}
  /\ Respond(r, "err")
  /\ UNCHANGED <<up, kind, file, peers, todo, tries>>

\* The result of a call nobody waits for cannot be sent, which ends the swarm
\* and with it the process.
LateReport ==
  /\ up /\ orphans # {}
  /\ up' = FALSE
  /\ UNCHANGED <<handlerVars, contracts, held, stored, orphans>>

\* The process ends, with an error of its swarm or its verifier.
Crash == /\ up /\ "crash" \in Faults
         /\ up' = FALSE
         /\ UNCHANGED <<handlerVars, contracts, held, stored, orphans>>

\* start of main.rs: the task that asks for the node's reputation every second
\* waits for the ledger, and its error ends the process.
ReportReputation ==
  /\ up /\ lock = None
  /\ up' \in (IF "ledger" \in Faults THEN {TRUE, FALSE} ELSE {TRUE})
  /\ UNCHANGED <<handlerVars, contracts, held, stored, orphans>>

\* A keeper with a malicious behaviour deletes its copy.
DeleteFile(p, f) ==
  /\ "malice" \in Faults /\ <<p, f>> \in held
  /\ held' = held \ {<<p, f>>}
  /\ UNCHANGED <<up, handlerVars, contracts, stored, orphans>>

Step(r) == \/ GetClosestPeers(r) \/ PutTo(r) \/ CreateContract(r) \/ LockLedger(r)
           \/ GetContract(r) \/ Get(r) \/ Challenge(r)

Next == \/ \E r \in Requests : (\E k \in Kinds : Begin(r, k)) \/ Step(r) \/ Cancel(r)
        \/ \E p \in Peers, f \in Requests : DeleteFile(p, f)
        \/ ReportReputation \/ LateReport \/ Crash

\* A handler that can go on does; the mutex is fair, and the calls it makes
\* return.
Spec == Init /\ [][Next]_vars /\ \A r \in Requests : SF_vars(Step(r))

-----------------------------------------------------------------------------
(* The state keeps its shape; a contract is tried at most MaxTries times.   *)
GrpcTypeOK ==
  /\ up \in BOOLEAN
  /\ pc \in [Requests -> {"idle", "closest", "put", "lock", "contract", "get_contract",
                          "get_contracts", "get", "challenge", "done"}]
  /\ kind \in [Requests -> Kinds \cup {None}]
  /\ file \in [Requests -> Requests \cup {None}]
  /\ peers \in [Requests -> Seq(Peers)] /\ todo \in [Requests -> Seq(Peers)]
  /\ \A r \in Requests : kind[r] = "store" => Len(peers[r]) <= REPLICATION_FACTOR
  /\ tries \in [Requests -> 0 .. MaxTries - 1]
  /\ lock \in Requests \cup {None}
  /\ contracts \in [Requests -> Peers \cup {None}]
  /\ held \subseteq stored /\ stored \subseteq Peers \X Requests
  /\ orphans \subseteq Requests \X SwarmCalls
  /\ status \in [Requests -> {"ok", "err", None}]

(* An acknowledged upload can be retrieved and audited: some peer it was    *)
(* sent to has stored it, and one has a contract for it, whatever was       *)
(* retried, cancelled or lost on the way.                                   *)
AcknowledgedIsStored ==
  por_enabled =>
    \A r \in Requests :
      kind[r] \in Uploads /\ status[r] = "ok" =>
        /\ contracts[r] \in Range(peers[r])
        /\ \E p \in Range(peers[r]) : <<p, r>> \in stored

(* store leaves no contract for a file nobody stores: even if it fails      *)
(* half way, a row in the ledger means that some peer has stored the file.  *)
ContractMeansStored ==
  \A f \in Requests : kind[f] = "store" /\ contracts[f] # None
                         => \E p \in Peers : <<p, f>> \in stored

(* put_to writes the contracts before it puts the file, but no retrieve or  *)
(* verify_file of the node acts on such a contract before put_to has        *)
(* returned: it keeps the ledger locked, however handlers interleave.       *)
HalfPutIsHidden ==
  \A r \in Requests :
    pc[r] \in {"get", "challenge"} /\ kind[r] \in {"retrieve", "verify_file"}
      => (kind[file[r]] = "put_to" => pc[file[r]] = "done")

(* Every request is answered unless the node goes down: no handler keeps    *)
(* the others waiting for the ledger forever.                               *)
EveryRequestAnswered ==
  \A r \in Requests : pc[r] \notin {"idle", "done"} ~> (pc[r] = "done" \/ ~up)

(* "check every couple of minutes if a file is stored on all Keeper nodes,  *)
(* that promised to store it": every peer a stored file was sent to has a   *)
(* contract that the verifiers can find.                                    *)
EveryPromiseIsAudited ==
  \A r \in Requests : kind[r] = "store" /\ status[r] = "ok"
                         => \A p \in Range(peers[r]) : contracts[r] = p
=============================================================================
