------------------------------ MODULE Verifier ------------------------------
(***************************************************************************)
(* The audit loop of the verifiers (src/src/verifier/mod.rs) and what it   *)
(* shares: the tables contracts, verifications and reputation of the       *)
(* ledger (src/src/ledger/mod.rs), and the files the keepers hold.  In     *)
(* every cycle a verifier reads all contracts, audits the ones in its      *)
(* window one by one, settles each audit with a reward or a punishment,    *)
(* compares it with the latest claim on the contract, moves its window,    *)
(* and only then writes its own claims.  Every call to the ledger or the   *)
(* swarm is one step, between which other verifiers, uploads and the       *)
(* keepers take theirs: store puts a file and writes its contracts then,   *)
(* put_to writes the contracts first (src/src/grpc/mod.rs).  A node may be *)
(* a verifier and a keeper.                                                *)
(***************************************************************************)
EXTENDS KeySpace, Integers, Sequences, FiniteSets

CONSTANTS Verifiers,      \* the nodes that run a verifier
          Corrupt,        \* the ones with settings.verifier().corrupt
          Keepers,        \* the nodes that store files
          Files,          \* the uuids of the files that are uploaded
          Skew,           \* how far the clock of each verifier is ahead
          Faults,         \* the kinds of fault: "ledger", "request", "malice", "put"
          AUDIT_REWARD, AUDIT_PENALTY,
          MaxContracts,   \* bound: contracts, and the replicas that uploads promise
          MaxCycles,      \* bound: cycles of each verifier
          MaxTime         \* bound: ticks of the clock

ASSUME VerifierAssumption ==
  /\ Corrupt \subseteq Verifiers /\ Files \subseteq Uuid
  /\ Skew \in [Verifiers -> Nat]
  /\ AUDIT_REWARD \in Nat /\ AUDIT_PENALTY \in Nat
  /\ MaxContracts \in Nat /\ MaxCycles \in Nat /\ MaxTime \in Nat

VARIABLES handler,     \* the gRPC handler that uploads each file, or "none" yet
          peers,       \* the keepers that a file goes to
          unwritten,   \* the ones among them whose contract is not written yet
          contracts,   \* the table contracts: the row of each file, or NoContract
          created,     \* how many contract_uuids were generated
          held,        \* the pairs keeper, file that are in a keeper's storage
          reputation,  \* the table reputation
          claims,      \* the table verifications
          clock,       \* the time
          pc,          \* where the loop of each verifier is
          window,      \* its fields iteration, starting_uuid, ending_uuid
          todo,        \* the contracts it has read and has yet to audit
          current,     \* the contract it is auditing
          is_success,  \* the result of that audit
          audits,      \* the results it has not written to the ledger yet
          cycles,      \* how many cycles it has begun
          caught,      \* history: the "caught cheating" messages it logged
          missed,      \* history: contradicting claims an honest verifier passed over
          lost,        \* history: files that keepers deleted
          hasty,       \* history: files that were audited before they had arrived
          owed         \* history: contracts the verifier must yet audit in its round

uploadVars == <<handler, peers, unwritten>>
ledgerVars == <<contracts, created, held, reputation, claims, clock, lost>>
loopVars == <<pc, window, todo, current, is_success, audits, cycles, caught, missed, hasty, owed>>
vars == <<uploadVars, ledgerVars, loopVars>>

NoContract == [id |-> 0, file |-> 0, peer |-> "none"]

Contract == [id : 1 .. MaxContracts, file : Files, peer : Keepers]

Claim == [contract : 1 .. MaxContracts, by : Verifiers, succeeded : BOOLEAN,
          time : Nat]

\* The copy of its file that a contract is about.
Replica(c) == <<c.peer, c.file>>

\* The rows of the table contracts.
Rows == {contracts[f] : f \in Files} \ {NoContract}

Init == /\ handler = [f \in Files |-> "none"]
        /\ peers = [f \in Files |-> {}]
        /\ unwritten = [f \in Files |-> {}]
        /\ contracts = [f \in Files |-> NoContract]
        /\ created = 0
        /\ held = {}
        /\ reputation = [k \in Keepers |-> 0]
        /\ claims = {}
        /\ clock = 0
        /\ pc = [v \in Verifiers |-> "read"]
        /\ window = [v \in Verifiers |-> FirstWindow]
        /\ todo = [v \in Verifiers |-> {}]
        /\ current = [v \in Verifiers |-> NoContract]
        /\ is_success = [v \in Verifiers |-> FALSE]
        /\ audits = [v \in Verifiers |-> <<>>]
        /\ cycles = [v \in Verifiers |-> 0]
        /\ caught = {}
        /\ missed = {}
        /\ lost = {}
        /\ hasty = {}
        /\ owed = [v \in Verifiers |-> {}]

-----------------------------------------------------------------------------
(* The surroundings of the verifiers. *)

\* The replicas that have arrived at their keeper.
Arrived == held \cup lost

\* The replicas that uploads have to make.
Promised == {r \in Keepers \X Files : r[1] \in peers[r[2]]}

\* store or put_to names a new file and the keepers that it goes to.  An
\* upload that fails or is cancelled takes no further step.
Upload(f, h, ks) ==
  /\ handler[f] = "none" /\ Cardinality(Promised) + Cardinality(ks) <= MaxContracts
  /\ handler' = [handler EXCEPT ![f] = h]
  /\ peers' = [peers EXCEPT ![f] = ks]
  /\ unwritten' = [unwritten EXCEPT ![f] = ks]
  /\ UNCHANGED <<ledgerVars, loopVars>>

\* The put is over: every keeper has its replica or, with the fault "put",
\* one has (Quorum::One) and the others get theirs later or never.
PutReturned(f) ==
  LET got == {k \in peers[f] : <<k, f>> \in Arrived} IN
  IF "put" \in Faults THEN got # {} ELSE got = peers[f]

\* store writes the contracts after the put, put_to puts after the contracts.
MayWriteAnyTime(f) == TRUE
MayWrite(f) == handler[f] = "store" => PutReturned(f)
MayPut(f) == handler[f] = "put_to" => unwritten[f] = {}

\* The replica of an upload arrives at a keeper.
Receive(k, f) ==
  /\ k \in peers[f] /\ MayPut(f) /\ <<k, f>> \notin Arrived
  /\ held' = held \cup {<<k, f>>}
  /\ UNCHANGED <<uploadVars, contracts, created, reputation, claims, clock, lost, loopVars>>

\* create_contract: the row of another keeper's contract for the file is
\* replaced.
CreateContract(k, f) ==
  /\ k \in unwritten[f] /\ MayWrite(f) /\ created < MaxContracts
  /\ unwritten' = [unwritten EXCEPT ![f] = @ \ {k}]
  /\ created' = created + 1
  /\ contracts' = [contracts EXCEPT ![f] = [id |-> created + 1, file |-> f, peer |-> k]]
  /\ UNCHANGED <<handler, peers, held, reputation, claims, clock, lost, loopVars>>

\* A keeper with a malicious behaviour deletes a file from its storage.
DeleteFile(k, f) ==
  /\ "malice" \in Faults /\ <<k, f>> \in held
  /\ held' = held \ {<<k, f>>}
  /\ lost' = lost \cup {<<k, f>>}
  /\ UNCHANGED <<uploadVars, contracts, created, reputation, claims, clock, loopVars>>

Tick == /\ clock < MaxTime
        /\ clock' = clock + 1
        /\ UNCHANGED <<uploadVars, contracts, created, held, reputation, claims, lost, loopVars>>

-----------------------------------------------------------------------------
(* The loop of verifier v. *)

\* The loop over the contracts goes on, or ends when none is left.
NextAudit(rest) == IF rest = {} THEN "next_iteration" ELSE "audit"

\* A window the verifier begins a round with.
RoundBegins(w) == w = FirstWindow \/ w.iteration = 0

\* get_all_contracts, and the contracts of the window among them.
GetAllContracts(v) ==
  /\ pc[v] = "read" /\ cycles[v] < MaxCycles
  /\ cycles' = [cycles EXCEPT ![v] = @ + 1]
  /\ todo' = [todo EXCEPT ![v] = {c \in Rows : c.file \in UuidsOf(window[v])}]
  /\ pc' = [pc EXCEPT ![v] = NextAudit(todo'[v])]
  /\ owed' = [owed EXCEPT ![v] = IF RoundBegins(window[v]) THEN Rows ELSE @]
  /\ UNCHANGED <<uploadVars, ledgerVars, window, current, is_success, audits, caught, missed,
                 hasty>>

\* The keeper answers the challenge with the file it holds.  An error counts
\* as a failed audit; libp2p refuses a request to the node itself.  The fault
\* "request" is any other failure, or an audit that refuses a good copy (Por).
AuditUnchecked(v, c) == {TRUE}
AuditOutcomes(v, c) ==
  {v # c.peer /\ Replica(c) \in held} \cup (IF "request" \in Faults THEN {FALSE} ELSE {})

\* request_verification and audit of the next contract; rows come in the
\* order of their primary key.
Audit(v) ==
  /\ pc[v] = "audit"
  /\ \E c \in todo[v] :
       /\ \A d \in todo[v] : c.file <= d.file
       /\ current' = [current EXCEPT ![v] = c]
       /\ todo' = [todo EXCEPT ![v] = @ \ {c}]
       /\ owed' = [owed EXCEPT ![v] = @ \ {c}]
       /\ hasty' = hasty \cup ({Replica(c)} \ Arrived)
       /\ \E ok \in AuditOutcomes(v, c) : is_success' = [is_success EXCEPT ![v] = ok]
  /\ pc' = [pc EXCEPT ![v] = "settle"]
  /\ UNCHANGED <<uploadVars, ledgerVars, window, audits, cycles, caught, missed>>

\* reward_peer adds AUDIT_REWARD, punish_peer takes AUDIT_PENALTY.
AuditAmount(ok) == IF ok THEN AUDIT_REWARD ELSE -AUDIT_PENALTY

\* The audit is settled with reward_peer or punish_peer.  A failed or
\* conflicting update of the reputation is ignored.
Settle(v) ==
  LET amount == AuditAmount(is_success[v]) IN
  /\ pc[v] = "settle"
  /\ \E applied \in (IF "ledger" \in Faults THEN BOOLEAN ELSE {TRUE}) :
       reputation' = [reputation EXCEPT ![current[v].peer] = IF applied THEN @ + amount ELSE @]
  /\ audits' = [audits EXCEPT ![v] =
                  Append(@, [contract |-> current[v].id, succeeded |-> is_success[v]])]
  /\ pc' = [pc EXCEPT ![v] = "previous"]
  /\ UNCHANGED <<uploadVars, contracts, created, held, claims, clock, lost,
                 window, todo, current, is_success, cycles, caught, missed, hasty, owed>>

\* The rows get_previous_verified returns for a contract.
Previous(id) == {c \in claims : c.contract = id}

Now(v) == clock + Skew[v]

\* The claims that sorting by verification_time can put first.
Latest(previous) == {c \in previous : \A d \in previous : d.time <= c.time}

\* duration_since fails for a claim that is later than now.
NotBefore(v, claim) == claim.time >= Now(v)
FromTheFuture(v, claim) == claim.time > Now(v)

\* The previous claims are read, and the latest is compared.  A
\* claim from the future ends the loop.
GetPreviousVerified(v) ==
  LET previous == Previous(current[v].id)
      accuse(last) == [by |-> v, claimer |-> last.by, contract |-> current[v]]
  IN
  /\ pc[v] = "previous"
  /\ \/ /\ previous = {}
        /\ pc' = [pc EXCEPT ![v] = NextAudit(todo[v])]
        /\ UNCHANGED <<caught, missed>>
     \/ \E last \in Latest(previous) :
          IF FromTheFuture(v, last)
          THEN /\ pc' = [pc EXCEPT ![v] = "down"]
               /\ UNCHANGED <<caught, missed>>
          ELSE /\ pc' = [pc EXCEPT ![v] = NextAudit(todo[v])]
               /\ IF last.succeeded # is_success[v]
                  THEN caught' = caught \cup {accuse(last)} /\ UNCHANGED missed
                  ELSE /\ missed' = missed \cup {c.by : c \in {d \in previous :
                            v \notin Corrupt /\ d.time < last.time /\ d.succeeded # is_success[v]}}
                       /\ UNCHANGED caught
  /\ UNCHANGED <<uploadVars, ledgerVars, window, todo, current, is_success, audits, cycles,
                 hasty, owed>>

\* next_iteration comes before the claims are written.
NextIterationAfterAudits(v) ==
  /\ pc[v] = "next_iteration"
  /\ window' = [window EXCEPT ![v] = IF audits[v] = <<>> THEN FirstWindow ELSE NextWindow(@)]
  /\ pc' = [pc EXCEPT ![v] = IF audits[v] = <<>> THEN "sleep" ELSE "claims"]
  /\ UNCHANGED <<uploadVars, ledgerVars, todo, current, is_success, audits, cycles,
                 caught, missed, hasty, owed>>
NextIteration(v) ==
  /\ pc[v] = "next_iteration"
  /\ window' = [window EXCEPT ![v] = NextWindow(@)]
  /\ pc' = [pc EXCEPT ![v] = IF audits[v] = <<>> THEN "sleep" ELSE "claims"]
  /\ UNCHANGED <<uploadVars, ledgerVars, todo, current, is_success, audits, cycles,
                 caught, missed, hasty, owed>>

\* What verifier v says about an audit.
ClaimInverted(v, ok) == ~ok
ClaimOf(v, ok) == IF v \in Corrupt THEN ~ok ELSE ok

\* The results that are left after the first was written, or was not.
AuditsUntilWritten(v) == audits[v]
RemainingAudits(v) == Tail(audits[v])

\* create_verified_claim: the row of the verifier's earlier claim on the
\* contract is replaced.
Upserted(claim) ==
  {c \in claims : c.contract # claim.contract \/ c.by # claim.by} \cup {claim}

\* The claim for the first result that is left is written; an error is ignored.
CreateVerifiedClaim(v) ==
  LET a == Head(audits[v])
      claim == [contract |-> a.contract, by |-> v, succeeded |-> ClaimOf(v, a.succeeded),
                time |-> Now(v)]
  IN
  /\ pc[v] = "claims"
  /\ \/ claims' = Upserted(claim)
     \/ "ledger" \in Faults /\ UNCHANGED claims
  /\ audits' = [audits EXCEPT ![v] = RemainingAudits(v)]
  /\ pc' = [pc EXCEPT ![v] = IF RemainingAudits(v) = <<>> THEN "sleep" ELSE "claims"]
  /\ UNCHANGED <<uploadVars, contracts, created, held, reputation, clock, lost,
                 window, todo, current, is_success, cycles, caught, missed, hasty, owed>>

\* The cycle time has passed.
WakeUp(v) ==
  /\ pc[v] = "sleep"
  /\ pc' = [pc EXCEPT ![v] = "read"]
  /\ UNCHANGED <<uploadVars, ledgerVars, window, todo, current, is_success, audits, cycles,
                 caught, missed, hasty, owed>>

\* A ledger error ends the loop, and with it the process: `?` after a query,
\* unwrap after the get_reputation of punish_peer.
LedgerError(v) ==
  /\ "ledger" \in Faults
  /\ pc[v] \in {"read", "previous"} \/ (pc[v] = "settle" /\ ~is_success[v])
  /\ pc' = [pc EXCEPT ![v] = "down"]
  /\ UNCHANGED <<uploadVars, ledgerVars, window, todo, current, is_success, audits, cycles,
                 caught, missed, hasty, owed>>

Loop(v) == \/ GetAllContracts(v) \/ Audit(v) \/ Settle(v) \/ GetPreviousVerified(v)
           \/ NextIteration(v) \/ CreateVerifiedClaim(v) \/ WakeUp(v)

Next == \/ \E v \in Verifiers : Loop(v) \/ LedgerError(v)
        \/ \E f \in Files, h \in {"store", "put_to"}, ks \in (SUBSET Keepers) \ {{}} :
             Upload(f, h, ks)
        \/ \E k \in Keepers, f \in Files :
             Receive(k, f) \/ CreateContract(k, f) \/ DeleteFile(k, f)
        \/ Tick

\* A task that can go on is scheduled by tokio; every call it awaits returns.
Spec == Init /\ [][Next]_vars /\ \A v \in Verifiers : WF_vars(Loop(v))

-----------------------------------------------------------------------------
(* The state keeps its shape, the windows within the key space.             *)
VerifierTypeOK ==
  /\ handler \in [Files -> {"none", "store", "put_to"}]
  /\ peers \in [Files -> SUBSET Keepers] /\ unwritten \in [Files -> SUBSET Keepers]
  /\ contracts \in [Files -> Contract \cup {NoContract}]
  /\ created \in 0 .. MaxContracts
  /\ held \subseteq Keepers \X Files /\ lost \subseteq Keepers \X Files
  /\ hasty \subseteq Keepers \X Files
  /\ reputation \in [Keepers -> Int]
  /\ claims \subseteq Claim
  /\ clock \in 0 .. MaxTime
  /\ pc \in [Verifiers -> {"read", "audit", "settle", "previous", "next_iteration",
                           "claims", "sleep", "down"}]
  /\ window \in [Verifiers -> Window]
  /\ todo \in [Verifiers -> SUBSET Contract] /\ owed \in [Verifiers -> SUBSET Contract]
  /\ current \in [Verifiers -> Contract \cup {NoContract}]
  /\ is_success \in [Verifiers -> BOOLEAN]
  /\ audits \in [Verifiers -> Seq([contract : 1 .. MaxContracts, succeeded : BOOLEAN])]
  /\ cycles \in [Verifiers -> 0 .. MaxCycles]
  /\ caught \subseteq [by : Verifiers, claimer : Verifiers, contract : Contract]
  /\ missed \subseteq Verifiers

(* A round forgets no contract: when a verifier leaves the last part of its *)
(* round, it has audited every contract that was in the table when the      *)
(* round began, whatever was uploaded meanwhile, unless it was replaced.    *)
RoundAuditsEveryContract ==
  \A v \in Verifiers :
    pc[v] = "next_iteration" /\ RoundEnds(window[v].iteration) => owed[v] \cap Rows = {}

(* The windows the audit loop goes through are the ones of Rotation: they   *)
(* move once a cycle, whether the cycle audited a file or not.              *)
Rotating == INSTANCE Rotation WITH covered <- [v \in Verifiers |-> 0 .. window[v].ending_uuid]
RotationImplemented == Rotating!Moves

\* Verifier v settles an audit of a contract of keeper k.
Settles(v, k) == pc[v] = "settle" /\ pc'[v] = "previous" /\ current[v].peer = k

\* The replicas that an audit by verifier v may find missing: it asks itself,
\* the keeper has lost the file, or put_to had not put it when it was audited.
MayFail(v) == {<<v, f>> : f \in Files} \cup lost \cup {r \in hasty : handler[r[2]] = "put_to"}

(* While puts reach their keepers and requests are answered, a keeper is    *)
(* punished for a cause only: it has lost the file, the audit came before   *)
(* the put of put_to, or it audits itself.  A keeper of store that loses    *)
(* nothing is punished by nobody else, however uploads, audits, failed      *)
(* updates and the deletions of other keepers interleave.                   *)
PunishedOnlyForCause ==
  [][\A k \in Keepers : reputation'[k] < reputation[k]
       => \E v \in Verifiers : Settles(v, k) /\ Replica(current[v]) \in MayFail(v)]_vars

(* A keeper is rewarded by another node only, for a file that has arrived:  *)
(* neither a contract alone nor an audit of its own earns anything.         *)
RewardsEarned ==
  [][\A k \in Keepers : reputation'[k] > reputation[k]
       => \E v \in Verifiers \ {k} : Settles(v, k) /\ Replica(current[v]) \in Arrived]_vars

(* "caught cheating" has a cause: the claim that was contradicted is of a   *)
(* corrupt verifier, or one of the two audits failed for a cause.           *)
AlarmsHaveACause ==
  \A a \in caught : \/ a.claimer \in Corrupt
                    \/ Replica(a.contract) \in MayFail(a.by) \cup MayFail(a.claimer)

(* While the ledger answers, a verifier stops only if its clock is behind   *)
(* the clock of another: for the others no claim is ever from the future.   *)
OnlySlowClocksStop ==
  \A v \in Verifiers : pc[v] = "down" => \E u \in Verifiers : Skew[u] > Skew[v]

(* A cycle that began ends, or the verifier stops with an error.            *)
CycleCompletes ==
  \A v \in Verifiers : pc[v] \notin {"read", "down"} ~> pc[v] \in {"read", "down"}

(* "the next honest Verifier will catch it": an honest verifier that audits *)
(* a contract passes over no earlier claim that contradicts its audit,      *)
(* unless its author was caught before.                                     *)
CheatersCaught == missed \subseteq {a.claimer : a \in caught}
=============================================================================
