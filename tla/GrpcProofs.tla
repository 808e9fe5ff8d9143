----------------------------- MODULE GrpcProofs -----------------------------
(***************************************************************************)
(* Proofs about the gRPC handlers, for any number of requests and peers,   *)
(* any replication factor and number of attempts, and every fault: what an *)
(* acknowledgement and a contract mean, and what put_to's lock hides.      *)
(***************************************************************************)
EXTENDS Grpc, SequenceTheorems, FiniteSetTheorems, TLAPS

\* The handlers that have this step.
KindsAt(step) ==
  CASE step = "closest" -> {"store"}
    [] step \in {"put", "contract"} -> Uploads
    [] step = "lock" -> {"put_to", "retrieve"}
    [] step = "get_contract" -> {"retrieve"}
    [] step \in {"get_contracts", "challenge"} -> {"verify_file"}
    [] step = "get" -> {"retrieve", "verify"}
    [] OTHER -> {}

\* What the handler of r has reached: it works on its own file if it uploads
\* one; store has put the file when it writes contracts, put_to has written
\* one when it puts; only a handler that is done has a response; and the
\* responses are what the properties say of them.
Handled(r) ==
  /\ pc[r] = "idle" => contracts[r] = None
  /\ pc[r] # "done" => status[r] = None
  /\ pc[r] \notin {"idle", "done"} =>
       /\ file[r] \in Requests /\ kind[r] \in KindsAt(pc[r])
       /\ kind[r] \in Uploads => file[r] = r
  /\ Range(todo[r]) \subseteq Range(peers[r])
  /\ pc[r] = "contract" => todo[r] # <<>>
  /\ kind[r] = "store" /\ pc[r] = "put" => todo[r] = peers[r]
  /\ kind[r] = "store" /\ pc[r] = "contract" => \E p \in Range(peers[r]) : <<p, r>> \in stored
  /\ kind[r] = "put_to" /\ pc[r] = "lock" => todo[r] = peers[r]
  /\ kind[r] = "put_to" /\ pc[r] = "put" /\ peers[r] # <<>> => contracts[r] \in Range(peers[r])
  /\ por_enabled /\ kind[r] \in Uploads /\ status[r] = "ok" =>
       /\ contracts[r] \in Range(peers[r])
       /\ \E p \in Range(peers[r]) : <<p, r>> \in stored
  /\ kind[r] = "store" /\ contracts[r] # None => \E p \in Peers : <<p, r>> \in stored

GrpcInv == GrpcTypeOK /\ \A r \in Requests : Handled(r)

\* put_to has the ledger from its first contract on, and has written none
\* before.
LockInv(r) ==
  /\ kind[r] = "put_to" /\ pc[r] \in {"contract", "put"} => lock = r
  /\ kind[r] = "put_to" /\ pc[r] = "lock" => contracts[r] = None

\* The contract that retrieve or verify_file acts on is in the ledger, and no
\* longer put_to's to finish.
SeenInv(r) ==
  pc[r] \in {"get", "challenge"} /\ kind[r] \in {"retrieve", "verify_file"}
    => /\ contracts[file[r]] # None
       /\ kind[file[r]] = "put_to" => pc[file[r]] = "done"

GuardInv == \A r \in Requests : LockInv(r) /\ SeenInv(r)

-----------------------------------------------------------------------------
(* The peers a client or get_closest_peers names are a sequence of peers.   *)
LEMMA PeersAreSeq == \A s \in SetToAllKPermutations(Peers) : s \in Seq(Peers)
<1> SUFFICES ASSUME NEW T \in SUBSET Peers, NEW s \in SetToSeqs(T) PROVE s \in Seq(Peers)
  BY Zenon DEF SetToAllKPermutations
<1>1. Cardinality(T) \in Nat
  BY Zenon, GrpcAssumption, FS_Subset, FS_CardinalityType
<1>2. s \in [1 .. Cardinality(T) -> T]
  BY Zenon DEF SetToSeqs
<1>3. s \in [1 .. Cardinality(T) -> Peers]
  BY Zenon, <1>2
<1> QED BY <1>1, <1>3, SeqDef

(* store keeps at most REPLICATION_FACTOR of the closest peers.             *)
LEMMA ClosestAreSeq ==
  ASSUME NEW s \in Seq(Peers)
  PROVE  LET n == IF Len(s) < REPLICATION_FACTOR THEN Len(s) ELSE REPLICATION_FACTOR
         IN  SubSeq(s, 1, n) \in Seq(Peers) /\ Len(SubSeq(s, 1, n)) <= REPLICATION_FACTOR
<1> DEFINE n == IF Len(s) < REPLICATION_FACTOR THEN Len(s) ELSE REPLICATION_FACTOR
<1>1. n \in Nat /\ n <= Len(s) /\ n <= REPLICATION_FACTOR /\ REPLICATION_FACTOR \in Nat
  BY GrpcAssumption
<1> HIDE DEF n
<1>2. \A i \in 1 .. n : s[i] \in Peers
  BY <1>1
<1>3. SubSeq(s, 1, n) \in Seq(Peers) /\ Len(SubSeq(s, 1, n)) = IF 1 <= n THEN n - 1 + 1 ELSE 0
  BY <1>1, <1>2, SubSeqProperties
<1> QED BY <1>1, <1>3 DEF n

(* A put reaches only the peers it was for, and at least one of them if it  *)
(* succeeds.                                                                *)
LEMMA OutcomeOfPut ==
  ASSUME NEW r, NEW outcome \in PutOutcomes(r)
  PROVE  outcome.got \subseteq Range(peers[r]) /\ (outcome.ok => outcome.got # {})
<1> DEFINE all == Range(peers[r])
<1> HIDE DEF all
<1>1. \/ outcome \in [ok : {TRUE}, got : (SUBSET all) \ {{}}]
      \/ outcome \in [ok : {FALSE}, got : SUBSET all]
      \/ outcome = [ok |-> all # {}, got |-> all]
  BY Zenon DEF PutOutcomes, all
<1>2. CASE outcome \in [ok : {TRUE}, got : (SUBSET all) \ {{}}]
  <2>1. outcome.got \in (SUBSET all) \ {{}}
    BY Zenon, <1>2
  <2> QED BY Zenon, <2>1 DEF all
<1>3. CASE outcome \in [ok : {FALSE}, got : SUBSET all]
  <2>1. outcome.got \subseteq all
    BY Zenon, <1>3
  <2>2. ~ outcome.ok
    BY Zenon, <1>3
  <2> QED BY Zenon, <2>1, <2>2 DEF all
<1>4. CASE outcome = [ok |-> all # {}, got |-> all]
  <2>1. outcome.got = all
    BY Zenon, <1>4
  <2>2. outcome.ok => all # {}
    BY Zenon, <1>4
  <2> QED BY Zenon, <2>1, <2>2 DEF all
<1> QED BY Zenon, <1>1, <1>2, <1>3, <1>4

Steps == {"idle", "closest", "put", "lock", "contract", "get_contract", "get_contracts", "get",
          "challenge", "done"}

(* Responding and going on keep the shape of what they change.              *)
LEMMA RespondType ==
  ASSUME GrpcTypeOK, NEW r \in Requests,
         \/ \E x \in {"ok", "err"} : Respond(r, x)
         \/ \E step \in Steps : Goto(r, step)
  PROVE  /\ pc' \in [Requests -> Steps] /\ lock' \in Requests \cup {None}
         /\ status' \in [Requests -> {"ok", "err", None}]
BY ZenonT(60) DEF Respond, GuardDropped, Goto, GrpcTypeOK, Steps

\* A step that leaves everything but where the handler is.
Moved == /\ pc' \in [Requests -> Steps] /\ lock' \in Requests \cup {None}
         /\ status' \in [Requests -> {"ok", "err", None}]

(* Every step keeps the state's shape.                                      *)
LEMMA GrpcTypeStep ==
  ASSUME GrpcInv, [Next]_vars PROVE GrpcTypeOK'
<1>0. GrpcTypeOK /\ \A r \in Requests : Handled(r)
  BY Zenon DEF GrpcInv
<1>1. ASSUME NEW r \in Requests, NEW k \in Kinds, Begin(r, k) PROVE GrpcTypeOK'
  <2>1. PICK f \in Requests, s \in Seq(Peers) :
          /\ k # "put_to" => s = <<>>
          /\ file' = [file EXCEPT ![r] = f]
          /\ peers' = [peers EXCEPT ![r] = s] /\ todo' = [todo EXCEPT ![r] = s]
    <3>1. PICK f \in (IF k \in Uploads THEN {r} ELSE Requests),
               s \in (IF k = "put_to" THEN SetToAllKPermutations(Peers) ELSE {<<>>}) :
            /\ file' = [file EXCEPT ![r] = f]
            /\ peers' = [peers EXCEPT ![r] = s] /\ todo' = [todo EXCEPT ![r] = s]
      BY Zenon, <1>1 DEF Begin
    <3>2. f \in Requests
      BY Zenon
    <3>3. s \in Seq(Peers) /\ (k # "put_to" => s = <<>>)
      <4>1. CASE k = "put_to"
        BY Zenon, <4>1, PeersAreSeq
      <4>2. CASE k # "put_to"
        BY <4>2
      <4> QED BY Zenon, <4>1, <4>2
    <3> QED BY Zenon, <3>1, <3>2, <3>3
  <2>2. \E step \in Steps : Goto(r, step)
    <3>1. k \in {"store", "put_to", "retrieve", "verify", "verify_file"}
      BY Zenon, GrpcAssumption
    <3> QED BY Zenon, <1>1, <3>1 DEF Begin, Steps
  <2>3. Moved
    BY Zenon, <1>0, <2>2, RespondType DEF Moved
  <2>4. kind' = [kind EXCEPT ![r] = k]
        /\ UNCHANGED <<up, tries, contracts, held, stored, orphans>>
    BY Zenon, <1>1 DEF Begin
  <2>5. k = "store" => Len(s) <= REPLICATION_FACTOR
    BY <2>1, GrpcAssumption
  <2> QED BY Zenon, <1>0, <2>1, <2>3, <2>4, <2>5 DEF GrpcTypeOK, Moved, Steps
<1>2. ASSUME NEW r \in Requests, GetClosestPeers(r) PROVE GrpcTypeOK'
  <2>1. Moved
    BY Zenon, <1>0, <1>2, RespondType DEF GetClosestPeers, PutFirst, Moved, Steps
  <2>2. \/ UNCHANGED <<peers, todo>>
        \/ \E s \in Seq(Peers) : /\ Len(s) <= REPLICATION_FACTOR
                                  /\ peers' = [peers EXCEPT ![r] = s]
                                  /\ todo' = [todo EXCEPT ![r] = s]
    <3>1. CASE UNCHANGED <<peers, todo>>
      BY Zenon, <3>1
    <3>2. CASE \E s \in SetToAllKPermutations(Peers) :
                 peers' = [peers EXCEPT ![r] =
                   SubSeq(s, 1, IF Len(s) < REPLICATION_FACTOR THEN Len(s) ELSE REPLICATION_FACTOR)]
               /\ todo' = [todo EXCEPT ![r] = peers'[r]]
      <4>1. PICK s \in Seq(Peers) :
              peers' = [peers EXCEPT ![r] =
                SubSeq(s, 1, IF Len(s) < REPLICATION_FACTOR THEN Len(s) ELSE REPLICATION_FACTOR)]
        BY Zenon, <3>2, PeersAreSeq
      <4> DEFINE t == SubSeq(s, 1, IF Len(s) < REPLICATION_FACTOR THEN Len(s) ELSE REPLICATION_FACTOR)
      <4>2. t \in Seq(Peers) /\ Len(t) <= REPLICATION_FACTOR
        BY Zenon, ClosestAreSeq
      <4> HIDE DEF t
      <4>3. peers' = [peers EXCEPT ![r] = t] /\ peers'[r] = t
        BY Zenon, <1>0, <4>1 DEF t, GrpcTypeOK
      <4>4. todo' = [todo EXCEPT ![r] = t]
        BY Zenon, <3>2, <4>3
      <4> QED BY Zenon, <4>2, <4>3, <4>4
    <3> QED BY Zenon, <1>2, <3>1, <3>2 DEF GetClosestPeers
  <2>3. UNCHANGED <<up, kind, file, tries, contracts, held, stored, orphans>>
    BY Zenon, <1>2 DEF GetClosestPeers
  <2>4. /\ peers' \in [Requests -> Seq(Peers)] /\ todo' \in [Requests -> Seq(Peers)]
        /\ \A q \in Requests : kind[q] = "store" => Len(peers'[q]) <= REPLICATION_FACTOR
    <3>1. CASE UNCHANGED <<peers, todo>>
      BY Zenon, <1>0, <3>1 DEF GrpcTypeOK
    <3>2. ASSUME NEW s \in Seq(Peers), Len(s) <= REPLICATION_FACTOR,
                 peers' = [peers EXCEPT ![r] = s], todo' = [todo EXCEPT ![r] = s]
          PROVE  /\ peers' \in [Requests -> Seq(Peers)] /\ todo' \in [Requests -> Seq(Peers)]
                 /\ \A q \in Requests : kind[q] = "store" => Len(peers'[q]) <= REPLICATION_FACTOR
      BY Zenon, <1>0, <3>2 DEF GrpcTypeOK
    <3> QED BY Zenon, <2>2, <3>1, <3>2
  <2> QED BY Zenon, <1>0, <2>1, <2>3, <2>4 DEF GrpcTypeOK, Moved, Steps
<1>3. ASSUME NEW r \in Requests, PutTo(r) PROVE GrpcTypeOK'
  <2>1. file[r] \in Requests
    BY Zenon, <1>0, <1>3 DEF PutTo, Handled
  <2>2. PICK outcome \in PutOutcomes(r) :
          /\ held' = held \cup (outcome.got \X {file[r]})
          /\ stored' = stored \cup (outcome.got \X {file[r]})
          /\ IF outcome.ok THEN AfterPut(r) ELSE Respond(r, "err")
    BY Zenon, <1>3 DEF PutTo
  <2>3. outcome.got \subseteq Range(peers[r]) /\ Range(peers[r]) \subseteq Peers
    <3>1. peers[r] \in Seq(Peers)
      BY Zenon, <1>0 DEF GrpcTypeOK
    <3>2. Range(peers[r]) \subseteq Peers
      BY <3>1 DEF Range
    <3> QED BY Zenon, <3>2, OutcomeOfPut
  <2>4. Moved
    BY Zenon, <1>0, <2>2, RespondType DEF AfterPut, FromFilePanics, Moved, Steps
  <2>5. outcome.got \X {file[r]} \subseteq Peers \X Requests
    BY Zenon, <2>1, <2>3
  <2>6. UNCHANGED <<up, kind, file, peers, todo, tries, contracts, orphans>>
    BY Zenon, <1>3 DEF PutTo
  <2> QED BY Zenon, <1>0, <2>2, <2>4, <2>5, <2>6 DEF GrpcTypeOK, Moved, Steps
<1>4. ASSUME NEW r \in Requests, pc[r] = "contract", RowWritten(r) \/ UNCHANGED contracts
      PROVE  contracts' \in [Requests -> Peers \cup {None}] /\ Tail(todo[r]) \in Seq(Peers)
  <2>1. todo[r] \in Seq(Peers) /\ todo[r] # <<>> /\ file[r] \in Requests
    BY Zenon, <1>0, <1>4 DEF GrpcTypeOK, Handled
  <2>2. Head(todo[r]) \in Peers /\ Tail(todo[r]) \in Seq(Peers)
    BY Zenon, <2>1, HeadTailProperties
  <2> QED BY ZenonT(60), <1>0, <1>4, <2>1, <2>2 DEF RowWritten, GrpcTypeOK
<1>5. ASSUME NEW r \in Requests, CreateContract(r) PROVE GrpcTypeOK'
  <2>1. AfterContract(r) \/ AfterFailure(r)
    BY Zenon, <1>5 DEF CreateContract
  <2>2. Moved
    BY Zenon, <1>0, <2>1, RespondType DEF AfterContract, AfterFailure, Moved, Steps
  <2>3. contracts' \in [Requests -> Peers \cup {None}] /\ Tail(todo[r]) \in Seq(Peers)
    BY Zenon, <1>4, <1>5 DEF CreateContract
  <2>4. todo' \in [Requests -> Seq(Peers)]
    BY Zenon, <1>0, <2>1, <2>3 DEF AfterContract, AfterFailure, GrpcTypeOK
  <2>5. tries' \in [Requests -> 0 .. MaxTries - 1]
    <3>1. CASE AfterContract(r)
      BY <1>0, <3>1, GrpcAssumption DEF AfterContract, GrpcTypeOK
    <3>2. CASE AfterFailure(r)
      <4>1. tries \in [Requests -> 0 .. MaxTries - 1] /\ MaxTries \in Nat
        BY Zenon, <1>0, GrpcAssumption DEF GrpcTypeOK
      <4>2. \/ UNCHANGED tries
            \/ tries[r] + 1 # MaxTries /\ tries' = [tries EXCEPT ![r] = @ + 1]
        BY Zenon, <3>2 DEF AfterFailure, GivesUp
      <4>3. tries[r] + 1 # MaxTries => tries[r] + 1 \in 0 .. MaxTries - 1
        BY <4>1
      <4> QED BY Zenon, <4>1, <4>2, <4>3
    <3> QED BY Zenon, <2>1, <3>1, <3>2
  <2>6. UNCHANGED <<up, kind, file, peers, held, stored, orphans>>
    BY Zenon, <1>5 DEF CreateContract
  <2> QED BY Zenon, <1>0, <2>2, <2>3, <2>4, <2>5, <2>6 DEF GrpcTypeOK, Moved, Steps
<1>6. ASSUME NEW r \in Requests, LockLedger(r) \/ GetContract(r) PROVE GrpcTypeOK'
  <2>1. Moved
    <3>1. CASE LockLedger(r) /\ UNCHANGED status /\ lock' = r
      BY Zenon, <1>0, <3>1 DEF LockLedger, FromFilePanics, Respond, Moved, Steps, GrpcTypeOK
    <3>2. CASE (\E x \in {"ok", "err"} : Respond(r, x)) \/ \E step \in Steps : Goto(r, step)
      BY Zenon, <1>0, <3>2, RespondType DEF Moved
    <3> QED BY Zenon, <1>6, <3>1, <3>2 DEF LockLedger, GetContract, FromFilePanics, Steps
  <2>2. UNCHANGED <<up, kind, file, peers, todo, tries, contracts, held, stored, orphans>>
    BY Zenon, <1>6 DEF LockLedger, GetContract
  <2> QED BY Zenon, <1>0, <2>1, <2>2 DEF GrpcTypeOK, Moved, Steps
<1>7. ASSUME NEW r \in Requests, Get(r) \/ Challenge(r) PROVE GrpcTypeOK'
  <2>1. \E x \in {"ok", "err"} : Respond(r, x)
    BY Zenon, <1>7 DEF Get, Challenge
  <2>2. Moved
    BY Zenon, <1>0, <2>1, RespondType DEF Moved
  <2>3. UNCHANGED <<up, kind, file, peers, todo, tries, contracts, held, stored, orphans>>
    BY Zenon, <1>7 DEF Get, Challenge
  <2> QED BY Zenon, <1>0, <2>2, <2>3 DEF GrpcTypeOK, Moved, Steps
<1>8. ASSUME NEW r \in Requests, Cancel(r) PROVE GrpcTypeOK'
  <2>1. Moved
    BY Zenon, <1>0, <1>8, RespondType DEF Cancel, Moved
  <2>2. contracts' \in [Requests -> Peers \cup {None}]
    BY Zenon, <1>0, <1>4, <1>8 DEF Cancel, GrpcTypeOK
  <2>3. /\ held' \subseteq stored' /\ stored' \subseteq Peers \X Requests
    <3>1. PICK got \in SUBSET (IF pc[r] = "put" THEN Range(peers[r]) ELSE {}) :
            /\ held' = held \cup (got \X {file[r]}) /\ stored' = stored \cup (got \X {file[r]})
      BY Zenon, <1>8 DEF Cancel
    <3>2. peers[r] \in Seq(Peers) /\ file[r] \in Requests
      BY Zenon, <1>0, <1>8 DEF GrpcTypeOK, Cancel, Handled
    <3>3. Range(peers[r]) \subseteq Peers
      BY <3>2 DEF Range
    <3>4. got \X {file[r]} \subseteq Peers \X Requests
      BY Zenon, <3>2, <3>3
    <3> QED BY Zenon, <1>0, <3>1, <3>4 DEF GrpcTypeOK
  <2>4. orphans' \subseteq Requests \X SwarmCalls
    <3>1. orphans' \subseteq orphans \cup ({r} \X SwarmCalls)
      BY Zenon, <1>8 DEF Cancel
    <3> QED BY Zenon, <1>0, <3>1 DEF GrpcTypeOK
  <2>5. UNCHANGED <<up, kind, file, peers, todo, tries>>
    BY Zenon, <1>8 DEF Cancel
  <2> QED BY Zenon, <1>0, <2>1, <2>2, <2>3, <2>4, <2>5 DEF GrpcTypeOK, Moved, Steps
<1>9. ASSUME NEW p \in Peers, NEW f \in Requests, DeleteFile(p, f) PROVE GrpcTypeOK'
  BY Zenon, <1>0, <1>9 DEF DeleteFile, GrpcTypeOK, handlerVars
<1>10. CASE ReportReputation \/ LateReport \/ Crash \/ UNCHANGED vars
  <2>1. up' \in BOOLEAN /\ UNCHANGED <<handlerVars, contracts, held, stored, orphans>>
    BY Zenon, <1>0, <1>10 DEF ReportReputation, LateReport, Crash, vars, GrpcTypeOK
  <2> QED BY Zenon, <1>0, <2>1 DEF GrpcTypeOK, handlerVars
<1> QED BY Zenon, <1>1, <1>2, <1>3, <1>5, <1>6, <1>7, <1>8, <1>9, <1>10 DEF Next, Step

-----------------------------------------------------------------------------
(* A step that leaves what belongs to a request alone, and takes nothing    *)
(* from the history of stored records, keeps what is known of it.           *)
LEMMA Untouched ==
  ASSUME NEW q \in Requests, Handled(q), pc'[q] = pc[q], kind'[q] = kind[q], file'[q] = file[q],
         peers'[q] = peers[q], todo'[q] = todo[q], status'[q] = status[q],
         contracts'[q] = contracts[q], stored \subseteq stored'
  PROVE  Handled(q)'
BY DEF Handled

(* A handler that writes a contract writes the one of its own file.         *)
LEMMA OwnRow ==
  ASSUME GrpcInv, NEW r \in Requests, pc[r] = "contract"
  PROVE  file[r] = r /\ kind[r] \in Uploads
<1>1. kind[r] \in KindsAt("contract") /\ (kind[r] \in Uploads => file[r] = r)
  BY Zenon DEF GrpcInv, Handled
<1> QED BY Zenon, <1>1 DEF KindsAt

(* A step of one handler touches nothing of another.                        *)
LEMMA OthersOK ==
  ASSUME GrpcInv, NEW r \in Requests, (\E k \in Kinds : Begin(r, k)) \/ Step(r) \/ Cancel(r),
         NEW q \in Requests, q # r
  PROVE  Handled(q)'
<1>0. GrpcTypeOK /\ Handled(q)
  BY Zenon DEF GrpcInv
<1>1. ASSUME (\E x : Respond(r, x)) \/ (\E step : Goto(r, step))
      PROVE  pc'[q] = pc[q] /\ status'[q] = status[q]
  BY Zenon, <1>0, <1>1 DEF Respond, Goto, GrpcTypeOK
<1>2. ASSUME pc[r] = "contract", RowWritten(r) PROVE contracts'[q] = contracts[q]
  BY Zenon, <1>0, <1>2, OwnRow DEF RowWritten, GrpcTypeOK
<1>3. ASSUME NEW k \in Kinds, Begin(r, k) PROVE Handled(q)'
  <2>1. pc'[q] = pc[q] /\ status'[q] = status[q]
    BY Zenon, <1>1, <1>3 DEF Begin
  <2>2. /\ kind'[q] = kind[q] /\ file'[q] = file[q] /\ peers'[q] = peers[q] /\ todo'[q] = todo[q]
        /\ UNCHANGED <<contracts, stored>>
    BY Zenon, <1>0, <1>3 DEF Begin, GrpcTypeOK
  <2> QED BY Zenon, <1>0, <2>1, <2>2, Untouched
<1>4. CASE GetClosestPeers(r)
  <2>1. pc'[q] = pc[q] /\ status'[q] = status[q]
    BY Zenon, <1>1, <1>4 DEF GetClosestPeers, PutFirst
  <2>2. /\ peers'[q] = peers[q] /\ todo'[q] = todo[q]
        /\ UNCHANGED <<kind, file, contracts, stored>>
    BY Zenon, <1>0, <1>4 DEF GetClosestPeers, GrpcTypeOK
  <2> QED BY Zenon, <1>0, <2>1, <2>2, Untouched
<1>5. CASE PutTo(r)
  <2>1. pc'[q] = pc[q] /\ status'[q] = status[q]
    BY Zenon, <1>1, <1>5 DEF PutTo, AfterPut, FromFilePanics
  <2>2. UNCHANGED <<kind, file, peers, todo, contracts>> /\ stored \subseteq stored'
    BY Zenon, <1>5 DEF PutTo
  <2> QED BY Zenon, <1>0, <2>1, <2>2, Untouched
<1>6. CASE CreateContract(r)
  <2>1. pc'[q] = pc[q] /\ status'[q] = status[q] /\ todo'[q] = todo[q]
    BY Zenon, <1>0, <1>1, <1>6 DEF CreateContract, AfterContract, AfterFailure, GrpcTypeOK
  <2>2. contracts'[q] = contracts[q] /\ UNCHANGED <<kind, file, peers, stored>>
    BY Zenon, <1>2, <1>6 DEF CreateContract
  <2> QED BY Zenon, <1>0, <2>1, <2>2, Untouched
<1>7. CASE LockLedger(r)
  <2>1. pc'[q] = pc[q] /\ status'[q] = status[q]
    BY Zenon, <1>0, <1>7 DEF LockLedger, FromFilePanics, Respond, GrpcTypeOK
  <2>2. UNCHANGED <<kind, file, peers, todo, contracts, stored>>
    BY Zenon, <1>7 DEF LockLedger
  <2> QED BY Zenon, <1>0, <2>1, <2>2, Untouched
<1>8. CASE GetContract(r)
  <2>1. pc'[q] = pc[q] /\ status'[q] = status[q]
    BY Zenon, <1>1, <1>8 DEF GetContract
  <2>2. UNCHANGED <<kind, file, peers, todo, contracts, stored>>
    BY Zenon, <1>8 DEF GetContract
  <2> QED BY Zenon, <1>0, <2>1, <2>2, Untouched
<1>9. CASE Get(r) \/ Challenge(r)
  <2>1. pc'[q] = pc[q] /\ status'[q] = status[q]
    BY Zenon, <1>1, <1>9 DEF Get, Challenge
  <2>2. UNCHANGED <<kind, file, peers, todo, contracts, stored>>
    BY Zenon, <1>9 DEF Get, Challenge
  <2> QED BY Zenon, <1>0, <2>1, <2>2, Untouched
<1>10. CASE Cancel(r)
  <2>1. pc'[q] = pc[q] /\ status'[q] = status[q] /\ contracts'[q] = contracts[q]
    BY Zenon, <1>1, <1>2, <1>10 DEF Cancel
  <2>2. UNCHANGED <<kind, file, peers, todo>> /\ stored \subseteq stored'
    BY Zenon, <1>10 DEF Cancel
  <2> QED BY Zenon, <1>0, <2>1, <2>2, Untouched
<1> QED BY Zenon, <1>3, <1>4, <1>5, <1>6, <1>7, <1>8, <1>9, <1>10 DEF Step

(* A request arrives: nothing of its file is in the ledger yet.             *)
LEMMA BeginOK ==
  ASSUME GrpcInv, NEW r \in Requests, NEW k \in Kinds, Begin(r, k)
  PROVE  Handled(r)'
<1>1. GrpcTypeOK /\ Handled(r) /\ pc[r] = "idle"
  BY Zenon DEF GrpcInv, Begin
<1>2. contracts'[r] = None /\ status'[r] = None
  BY Zenon, <1>1 DEF Handled, Begin, Goto
<1>3. kind'[r] = k /\ file'[r] \in Requests /\ (k \in Uploads => file'[r] = r)
  BY Zenon, <1>1 DEF Begin, GrpcTypeOK
<1>4. todo'[r] = peers'[r]
  BY <1>1 DEF Begin, GrpcTypeOK
<1>5. k \in {"store", "put_to", "retrieve", "verify", "verify_file"} /\ None \notin {"ok", "err"}
  BY Zenon, GrpcAssumption
<1>6. k \in KindsAt(pc'[r]) /\ pc'[r] \in {"closest", "lock", "get", "get_contracts"}
  <2>1. pc'[r] = CASE k = "store" -> "closest"
               [] k \in {"put_to", "retrieve"} -> "lock"
               [] k = "verify" -> "get"
               [] k = "verify_file" -> "get_contracts"
    BY Zenon, <1>1 DEF Begin, Goto, GrpcTypeOK
  <2> QED BY Zenon, <1>5, <2>1 DEF KindsAt
<1> QED BY Zenon, <1>2, <1>3, <1>4, <1>5, <1>6 DEF Handled

(* A handler that responds: what is left to show are the properties of its  *)
(* response.                                                                *)
LEMMA Responded ==
  ASSUME GrpcInv, NEW r \in Requests, NEW x \in {"ok", "err"}, Respond(r, x),
         UNCHANGED <<kind, peers>>, Range(todo'[r]) \subseteq Range(peers[r]),
         por_enabled /\ kind[r] \in Uploads /\ x = "ok" =>
           /\ contracts'[r] \in Range(peers[r])
           /\ \E p \in Range(peers[r]) : <<p, r>> \in stored',
         kind[r] = "store" /\ contracts'[r] # None => \E p \in Peers : <<p, r>> \in stored'
  PROVE  Handled(r)'
<1>1. pc'[r] = "done" /\ status'[r] = x
  BY Zenon DEF Respond, GrpcInv, GrpcTypeOK
<1> QED BY Zenon, <1>1 DEF Handled

(* store has its peers.                                                     *)
LEMMA GetClosestPeersOK ==
  ASSUME GrpcInv, NEW r \in Requests, GetClosestPeers(r)
  PROVE  Handled(r)'
<1>1. GrpcTypeOK /\ Handled(r) /\ pc[r] = "closest"
  BY Zenon DEF GrpcInv, GetClosestPeers
<1>2. kind[r] = "store" /\ file[r] = r /\ status[r] = None
  BY Zenon, <1>1 DEF Handled, KindsAt, Uploads
<1>3. UNCHANGED <<kind, file, contracts, stored>>
  BY Zenon DEF GetClosestPeers
<1>4. CASE todo' = [todo EXCEPT ![r] = peers'[r]] /\ Goto(r, "put")
  <2>1. todo'[r] = peers'[r] /\ pc'[r] = "put" /\ status'[r] = None
    BY Zenon, <1>1, <1>2, <1>4 DEF Goto, GrpcTypeOK
  <2>2. "store" \in KindsAt("put") /\ "store" # "put_to" /\ None # "ok"
    BY Zenon, GrpcAssumption DEF KindsAt, Uploads
  <2> QED BY Zenon, <1>1, <1>2, <1>3, <2>1, <2>2 DEF Handled
<1>5. CASE Respond(r, "err") /\ UNCHANGED <<peers, todo>>
  BY Zenon, <1>1, <1>3, <1>5, Responded DEF Handled
<1> QED BY Zenon, <1>4, <1>5 DEF GetClosestPeers, PutFirst

(* A put that succeeds has reached one of the peers.                        *)
LEMMA PutToOK ==
  ASSUME GrpcInv, NEW r \in Requests, PutTo(r)
  PROVE  Handled(r)'
<1>1. GrpcTypeOK /\ Handled(r) /\ pc[r] = "put"
  BY Zenon DEF GrpcInv, PutTo
<1>2. kind[r] \in Uploads /\ file[r] = r /\ status[r] = None
  BY Zenon, <1>1 DEF Handled, KindsAt
<1>3. PICK outcome \in PutOutcomes(r) :
        /\ stored' = stored \cup (outcome.got \X {r})
        /\ IF outcome.ok THEN AfterPut(r) ELSE Respond(r, "err")
  BY Zenon, <1>2 DEF PutTo
<1>4. outcome.got \subseteq Range(peers[r]) /\ (outcome.ok => outcome.got # {})
  BY Zenon, OutcomeOfPut
<1>5. outcome.ok => \E p \in Range(peers[r]) : <<p, r>> \in stored'
  BY Zenon, <1>3, <1>4
<1>6. UNCHANGED <<kind, file, peers, todo, contracts>> /\ stored \subseteq stored'
  BY Zenon, <1>3 DEF PutTo
<1>7. outcome.ok => peers[r] # <<>>
  BY <1>1, <1>4 DEF GrpcTypeOK, Range
<1>8. Range(todo[r]) \subseteq Range(peers[r])
  BY Zenon, <1>1 DEF Handled
<1>9. kind[r] = "store" /\ contracts'[r] # None => \E p \in Peers : <<p, r>> \in stored'
  BY Zenon, <1>1, <1>6 DEF Handled
<1>10. CASE Respond(r, "err")
  BY Zenon, <1>6, <1>8, <1>9, <1>10, Responded
<1>11. CASE outcome.ok /\ kind[r] = "store" /\ Goto(r, "contract")
  <2>1. pc'[r] = "contract" /\ status'[r] = None
    BY Zenon, <1>1, <1>2, <1>11 DEF Goto, GrpcTypeOK
  <2>2. todo[r] # <<>>
    BY Zenon, <1>1, <1>7, <1>11 DEF Handled
  <2>3. "store" \in KindsAt("contract") /\ "store" # "put_to" /\ None # "ok"
    BY Zenon, GrpcAssumption DEF KindsAt, Uploads
  <2> QED BY Zenon, <1>2, <1>5, <1>6, <1>8, <1>9, <1>11, <2>1, <2>2, <2>3 DEF Handled
<1>12. CASE outcome.ok /\ ~ (kind[r] = "store" /\ por_enabled) /\ Respond(r, "ok")
  <2>1. por_enabled => contracts[r] \in Range(peers[r])
    BY Zenon, <1>1, <1>2, <1>7, <1>12 DEF Handled, Uploads
  <2> QED BY Zenon, <1>5, <1>6, <1>8, <1>9, <1>12, <2>1, Responded
<1> QED BY Zenon, <1>3, <1>10, <1>11, <1>12 DEF AfterPut, FromFilePanics

(* Writing a contract: its row names one of the peers the file is for.      *)
LEMMA CreateContractOK ==
  ASSUME GrpcInv, NEW r \in Requests, CreateContract(r)
  PROVE  Handled(r)'
<1>1. GrpcTypeOK /\ Handled(r) /\ pc[r] = "contract"
  BY Zenon DEF GrpcInv, CreateContract
<1>2. kind[r] \in Uploads /\ file[r] = r /\ status[r] = None
  BY Zenon, <1>1, OwnRow DEF Handled
<1>3. PICK outcome \in RpcOutcomes :
        /\ IF outcome = "refused" THEN UNCHANGED contracts ELSE RowWritten(r)
        /\ IF outcome = "reply" THEN AfterContract(r) ELSE AfterFailure(r)
  BY Zenon DEF CreateContract
<1>4. UNCHANGED <<kind, file, peers, stored>>
  BY Zenon DEF CreateContract
<1>5. /\ todo[r] \in Seq(Peers) /\ todo[r] # <<>> /\ Range(todo[r]) \subseteq Range(peers[r])
      /\ Range(peers[r]) \subseteq Peers
  <2>1. todo[r] \in Seq(Peers) /\ peers[r] \in Seq(Peers)
    BY Zenon, <1>1 DEF GrpcTypeOK
  <2>2. todo[r] # <<>> /\ Range(todo[r]) \subseteq Range(peers[r])
    BY Zenon, <1>1 DEF Handled
  <2>3. Range(peers[r]) \subseteq Peers
    BY <2>1 DEF Range
  <2> QED BY Zenon, <2>1, <2>2, <2>3
<1>6. Head(todo[r]) \in Range(peers[r]) /\ Range(Tail(todo[r])) \subseteq Range(peers[r])
  <2>1. Head(todo[r]) = todo[r][1] /\ 1 \in DOMAIN todo[r]
    BY <1>5
  <2>2. \A i \in DOMAIN Tail(todo[r]) : i + 1 \in DOMAIN todo[r] /\ Tail(todo[r])[i] = todo[r][i + 1]
    BY <1>5
  <2> QED BY ZenonT(60), <1>5, <2>1, <2>2 DEF Range
<1>7. kind[r] = "store" => \E p \in Range(peers[r]) : <<p, r>> \in stored
  BY Zenon, <1>1 DEF Handled
<1>8. kind[r] \in KindsAt("contract") /\ kind[r] \in KindsAt("put") /\ None # "ok"
  BY Zenon, <1>2, GrpcAssumption DEF Uploads, KindsAt
<1>9. CASE AfterContract(r) /\ RowWritten(r)
  <2>1. contracts'[r] = Head(todo[r]) /\ todo'[r] = Tail(todo[r])
    BY Zenon, <1>1, <1>2, <1>9 DEF AfterContract, RowWritten, GrpcTypeOK
  <2>2. CASE Tail(todo[r]) # <<>> /\ Goto(r, "contract")
    <3>1. pc'[r] = "contract" /\ status'[r] = None
      BY Zenon, <1>1, <1>2, <2>2 DEF Goto, GrpcTypeOK
    <3> QED BY Zenon, <1>2, <1>4, <1>5, <1>6, <1>7, <1>8, <2>1, <2>2, <3>1 DEF Handled
  <2>3. CASE kind[r] = "put_to" /\ Goto(r, "put")
    <3>1. pc'[r] = "put" /\ status'[r] = None
      BY Zenon, <1>1, <1>2, <2>3 DEF Goto, GrpcTypeOK
    <3> QED BY Zenon, <1>2, <1>4, <1>5, <1>6, <1>8, <2>1, <2>3, <3>1 DEF Handled
  <2>4. CASE kind[r] # "put_to" /\ Respond(r, "ok")
    <3>1. kind[r] = "store"
      BY Zenon, <1>2, <2>4 DEF Uploads
    <3>2. \E p \in Peers : <<p, r>> \in stored'
      BY Zenon, <1>4, <1>5, <1>7, <3>1
    <3> QED BY Zenon, <1>4, <1>5, <1>6, <1>7, <1>8, <2>1, <2>4, <3>1, <3>2, Responded
  <2> QED BY Zenon, <1>9, <2>2, <2>3, <2>4 DEF AfterContract
<1>10. CASE AfterFailure(r)
  <2>1. todo' = todo
    BY Zenon, <1>10 DEF AfterFailure
  <2>2. kind[r] = "store" => \E p \in Peers : <<p, r>> \in stored
    BY Zenon, <1>5, <1>7
  <2>3. CASE Respond(r, "err")
    BY Zenon, <1>4, <1>5, <2>1, <2>2, <2>3, Responded
  <2>4. CASE Goto(r, "contract")
    <3>1. pc'[r] = "contract" /\ status'[r] = None
      BY Zenon, <1>1, <1>2, <2>4 DEF Goto, GrpcTypeOK
    <3> QED BY Zenon, <1>2, <1>4, <1>5, <1>7, <1>8, <2>1, <2>2, <3>1 DEF Handled
  <2> QED BY Zenon, <1>10, <2>3, <2>4 DEF AfterFailure
<1>11. RpcOutcomes \subseteq {"reply", "refused", "lost"}
  BY Zenon DEF RpcOutcomes
<1> QED BY Zenon, <1>3, <1>9, <1>10, <1>11

(* put_to and retrieve have the ledger; put_to without peers writes nothing.*)
LEMMA LockLedgerOK ==
  ASSUME GrpcInv, NEW r \in Requests, LockLedger(r)
  PROVE  Handled(r)'
<1>1. GrpcTypeOK /\ Handled(r) /\ pc[r] = "lock"
  BY Zenon DEF GrpcInv, LockLedger
<1>2. /\ kind[r] \in {"put_to", "retrieve"} /\ file[r] \in Requests /\ status[r] = None
      /\ (kind[r] \in Uploads => file[r] = r) /\ (kind[r] = "put_to" => todo[r] = peers[r])
      /\ Range(todo[r]) \subseteq Range(peers[r])
  BY Zenon, <1>1 DEF Handled, KindsAt
<1>3. UNCHANGED <<kind, file, peers, todo, contracts, stored>>
  BY Zenon DEF LockLedger
<1>4. CASE Respond(r, "err")
  BY Zenon, <1>2, <1>3, <1>4, Responded
<1>5. CASE /\ UNCHANGED status
           /\ pc' = [pc EXCEPT ![r] = IF kind[r] = "retrieve" THEN "get_contract"
                                      ELSE IF todo[r] = <<>> THEN "put" ELSE "contract"]
  <2>1. pc'[r] = IF kind[r] = "retrieve" THEN "get_contract"
                 ELSE IF todo[r] = <<>> THEN "put" ELSE "contract"
    BY Zenon, <1>1, <1>5 DEF GrpcTypeOK
  <2>2. /\ "retrieve" \in KindsAt("get_contract") /\ "put_to" \in KindsAt("put")
        /\ "put_to" \in KindsAt("contract") /\ None # "ok" /\ "retrieve" \notin Uploads
    BY Zenon, GrpcAssumption DEF KindsAt, Uploads
  <2> QED BY <1>2, <1>3, <1>5, <2>1, <2>2 DEF Handled
<1> QED BY Zenon, <1>4, <1>5 DEF LockLedger, FromFilePanics

(* Reading the contracts of a file.                                         *)
LEMMA GetContractOK ==
  ASSUME GrpcInv, NEW r \in Requests, GetContract(r)
  PROVE  Handled(r)'
<1>1. GrpcTypeOK /\ Handled(r) /\ pc[r] \in {"get_contract", "get_contracts"}
  BY Zenon DEF GrpcInv, GetContract
<1>2. /\ kind[r] \in {"retrieve", "verify_file"} /\ file[r] \in Requests /\ status[r] = None
      /\ Range(todo[r]) \subseteq Range(peers[r])
  BY Zenon, <1>1 DEF Handled, KindsAt
<1>3. UNCHANGED <<kind, file, peers, todo, contracts, stored>>
  BY Zenon DEF GetContract
<1>4. /\ "retrieve" \in KindsAt("get") /\ "verify_file" \in KindsAt("challenge") /\ None # "ok"
      /\ "retrieve" \notin Uploads /\ "verify_file" \notin Uploads
  BY Zenon, GrpcAssumption DEF KindsAt, Uploads
<1>5. ASSUME NEW x \in {"ok", "err"}, Respond(r, x), kind[r] = "retrieve" => x = "err"
      PROVE  Handled(r)'
  BY Zenon, <1>2, <1>3, <1>4, <1>5, Responded
<1>6. CASE Goto(r, IF kind[r] = "retrieve" THEN "get" ELSE "challenge")
  <2>1. pc'[r] = (IF kind[r] = "retrieve" THEN "get" ELSE "challenge") /\ status'[r] = None
    BY Zenon, <1>1, <1>2, <1>6 DEF Goto, GrpcTypeOK
  <2> QED BY Zenon, <1>2, <1>3, <1>4, <2>1 DEF Handled
<1> QED BY Zenon, <1>5, <1>6 DEF GetContract

(* retrieve, verify and verify_file respond and leave everything else.      *)
LEMMA ReadOK ==
  ASSUME GrpcInv, NEW r \in Requests, Get(r) \/ Challenge(r)
  PROVE  Handled(r)'
<1>1. GrpcTypeOK /\ Handled(r) /\ pc[r] \in {"get", "challenge"}
  BY Zenon DEF GrpcInv, Get, Challenge
<1>2. /\ kind[r] \in {"retrieve", "verify", "verify_file"}
      /\ Range(todo[r]) \subseteq Range(peers[r])
  BY Zenon, <1>1 DEF Handled, KindsAt
<1>3. kind[r] \notin Uploads /\ kind[r] # "store"
  BY Zenon, <1>2 DEF Uploads
<1>4. UNCHANGED <<kind, file, peers, todo, contracts, stored>>
  BY Zenon DEF Get, Challenge
<1>5. PICK x \in {"ok", "err"} : Respond(r, x)
  BY Zenon DEF Get, Challenge
<1> QED BY Zenon, <1>2, <1>3, <1>4, <1>5, Responded

(* The timeout drops a handler; the contract on its way may be written, and *)
(* the file on its way stored.                                              *)
LEMMA CancelOK ==
  ASSUME GrpcInv, NEW r \in Requests, Cancel(r)
  PROVE  Handled(r)'
<1>1. GrpcTypeOK /\ Handled(r)
  BY Zenon DEF GrpcInv
<1>2. UNCHANGED <<kind, peers, todo>> /\ stored \subseteq stored' /\ Respond(r, "err")
  BY Zenon DEF Cancel
<1>3. Range(todo[r]) \subseteq Range(peers[r])
  BY Zenon, <1>1 DEF Handled
<1>4. kind[r] = "store" /\ contracts'[r] # None => \E p \in Peers : <<p, r>> \in stored
  <2>1. CASE UNCHANGED contracts
    BY Zenon, <1>1, <2>1 DEF Handled
  <2>2. CASE pc[r] = "contract"
    <3>1. peers[r] \in Seq(Peers)
      BY Zenon, <1>1 DEF GrpcTypeOK
    <3>2. Range(peers[r]) \subseteq Peers
      BY <3>1 DEF Range
    <3> QED BY Zenon, <1>1, <2>2, <3>2 DEF Handled
  <2> QED BY Zenon, <2>1, <2>2 DEF Cancel
<1>5. kind[r] = "store" /\ contracts'[r] # None => \E p \in Peers : <<p, r>> \in stored'
  BY Zenon, <1>2, <1>4
<1> QED BY Zenon, <1>2, <1>3, <1>5, Responded

(* Every step keeps the invariant.                                          *)
LEMMA GrpcInvStep == GrpcInv /\ [Next]_vars => GrpcInv'
<1> SUFFICES ASSUME GrpcInv, [Next]_vars, NEW q \in Requests PROVE Handled(q)'
  BY Zenon, GrpcTypeStep DEF GrpcInv
<1>1. ASSUME NEW r \in Requests, (\E k \in Kinds : Begin(r, k)) \/ Step(r) \/ Cancel(r)
      PROVE  Handled(q)'
  <2>1. CASE q # r
    BY Zenon, <1>1, <2>1, OthersOK
  <2>2. CASE q = r
    BY Zenon, <1>1, <2>2, BeginOK, GetClosestPeersOK, PutToOK, CreateContractOK, LockLedgerOK,
       GetContractOK, ReadOK, CancelOK DEF Step
  <2> QED BY Zenon, <2>1, <2>2
<1>2. CASE \/ \E p \in Peers, f \in Requests : DeleteFile(p, f)
           \/ ReportReputation \/ LateReport \/ Crash \/ UNCHANGED vars
  <2>1. UNCHANGED <<handlerVars, contracts, stored>>
    BY Zenon, <1>2 DEF DeleteFile, ReportReputation, LateReport, Crash, vars
  <2>2. Handled(q)
    BY Zenon DEF GrpcInv
  <2> QED BY Zenon, <2>1, <2>2, Untouched DEF handlerVars
<1> QED BY Zenon, <1>1, <1>2 DEF Next

-----------------------------------------------------------------------------
(* A handler keeps its kind and its file, one that is done stays so, and a  *)
(* row of the table contracts is never deleted.                             *)
LEMMA HandlersGoOn ==
  ASSUME GrpcInv, [Next]_vars, NEW g \in Requests
  PROVE  /\ pc[g] # "idle" => kind'[g] = kind[g] /\ file'[g] = file[g]
         /\ pc[g] = "done" => pc'[g] = "done"
         /\ contracts[g] # None => contracts'[g] # None
<1>0. GrpcTypeOK /\ \A r \in Requests : Handled(r)
  BY Zenon DEF GrpcInv
<1>1. ASSUME NEW r \in Requests, NEW k \in Kinds, Begin(r, k)
      PROVE  /\ pc[g] # "idle" => kind'[g] = kind[g] /\ file'[g] = file[g]
             /\ pc[g] = "done" => pc'[g] = "done"
             /\ contracts' = contracts
  <2>1. CASE g = r
    BY Zenon, <1>1, <2>1 DEF Begin
  <2>2. CASE g # r
    BY Zenon, <1>0, <1>1, <2>2 DEF Begin, Goto, GrpcTypeOK
  <2> QED BY Zenon, <2>1, <2>2
<1>2. ASSUME NEW r \in Requests, Step(r) \/ Cancel(r)
      PROVE  UNCHANGED <<kind, file>> /\ (pc[g] = "done" => pc'[g] = "done")
  <2>1. UNCHANGED <<kind, file>> /\ pc[r] # "done"
    BY Zenon, <1>2 DEF Step, GetClosestPeers, PutTo, CreateContract, LockLedger, GetContract, Get,
           Challenge, Cancel
  <2>2. \E step : pc' = [pc EXCEPT ![r] = step]
    BY Zenon, <1>2 DEF Step, GetClosestPeers, PutFirst, PutTo, AfterPut, FromFilePanics,
           CreateContract, AfterContract, AfterFailure, LockLedger, GetContract, Get, Challenge,
           Cancel, Respond, Goto
  <2> QED BY Zenon, <1>0, <2>1, <2>2 DEF GrpcTypeOK
<1>3. ASSUME NEW r \in Requests, pc[r] = "contract", RowWritten(r), contracts[g] # None
      PROVE  contracts'[g] # None
  <2>1. todo[r] \in Seq(Peers) /\ todo[r] # <<>>
    BY Zenon, <1>0, <1>3 DEF GrpcTypeOK, Handled
  <2>2. Head(todo[r]) \in Peers
    BY Zenon, <2>1, HeadTailProperties
  <2>3. Head(todo[r]) # None
    BY Zenon, <2>2, GrpcAssumption
  <2> QED BY Zenon, <1>0, <1>3, <2>3 DEF RowWritten, GrpcTypeOK
<1>4. ASSUME NEW r \in Requests, Step(r) \/ Cancel(r), contracts[g] # None PROVE contracts'[g] # None
  <2>1. contracts' = contracts \/ (pc[r] = "contract" /\ RowWritten(r))
    BY Zenon, <1>4 DEF Step, GetClosestPeers, PutTo, CreateContract, LockLedger, GetContract, Get,
           Challenge, Cancel
  <2> QED BY Zenon, <1>3, <1>4, <2>1
<1>5. CASE UNCHANGED <<handlerVars, contracts>>
  BY Zenon, <1>5 DEF handlerVars
<1> QED BY Zenon, <1>1, <1>2, <1>4, <1>5 DEF Next, DeleteFile, ReportReputation, LateReport, Crash, vars

(* Nobody but put_to itself gives its lock away.                            *)
LEMMA LockStep ==
  ASSUME GrpcInv, GuardInv, [Next]_vars, NEW q \in Requests PROVE LockInv(q)'
<1>0. GrpcTypeOK /\ Handled(q) /\ LockInv(q) /\ None \notin Requests
  BY Zenon, GrpcAssumption DEF GrpcInv, GuardInv
<1>1. ASSUME pc'[q] = pc[q], kind'[q] = kind[q], contracts'[q] = contracts[q], lock = q => lock' = q
      PROVE  LockInv(q)'
  BY Zenon, <1>0, <1>1 DEF LockInv
<1>2. ASSUME NEW r \in Requests, (\E k \in Kinds : Begin(r, k)) \/ Step(r) \/ Cancel(r), q # r
      PROVE  LockInv(q)'
  <2>1. kind'[q] = kind[q]
    BY Zenon, <1>0, <1>2 DEF Begin, Step, GetClosestPeers, PutTo, CreateContract, LockLedger,
           GetContract, Get, Challenge, Cancel, GrpcTypeOK
  <2>2. \E step : pc' = [pc EXCEPT ![r] = step]
    BY Zenon, <1>2 DEF Begin, Step, GetClosestPeers, PutFirst, PutTo, AfterPut, FromFilePanics,
           CreateContract, AfterContract, AfterFailure, LockLedger, GetContract, Get, Challenge,
           Cancel, Respond, Goto
  <2>3. contracts'[q] = contracts[q]
    <3>1. contracts' = contracts \/ (pc[r] = "contract" /\ RowWritten(r))
      BY Zenon, <1>2 DEF Begin, Step, GetClosestPeers, PutTo, CreateContract, LockLedger, GetContract,
             Get, Challenge, Cancel
    <3> QED BY Zenon, <1>0, <1>2, <3>1, OwnRow DEF RowWritten, GrpcTypeOK
  <2>4. lock = q => lock' = q
    BY Zenon, <1>0, <1>2 DEF Begin, Step, GetClosestPeers, PutFirst, PutTo, AfterPut, FromFilePanics,
           CreateContract, AfterContract, AfterFailure, LockLedger, GetContract, Get, Challenge,
           Cancel, Respond, GuardDropped, Goto
  <2>5. pc'[q] = pc[q]
    BY Zenon, <1>0, <1>2, <2>2 DEF GrpcTypeOK
  <2> QED BY Zenon, <1>1, <2>1, <2>3, <2>4, <2>5
<1>3. ASSUME pc'[q] \notin {"contract", "put", "lock"} PROVE LockInv(q)'
  BY Zenon, <1>3 DEF LockInv
<1>4. ASSUME \E x : Respond(q, x) PROVE LockInv(q)'
  BY Zenon, <1>0, <1>3, <1>4 DEF Respond, GrpcTypeOK
<1>5. ASSUME NEW k \in Kinds, Begin(q, k) PROVE LockInv(q)'
  <2>1. contracts'[q] = None
    BY Zenon, <1>0, <1>5 DEF Begin, Handled
  <2>2. pc'[q] \in {"closest", "lock", "get", "get_contracts"}
    <3>1. k \in {"store", "put_to", "retrieve", "verify", "verify_file"}
      BY Zenon, GrpcAssumption
    <3> QED BY Zenon, <1>0, <1>5, <3>1 DEF Begin, Goto, GrpcTypeOK
  <2> QED BY Zenon, <2>1, <2>2 DEF LockInv
<1>6. CASE GetClosestPeers(q)
  <2>1. kind'[q] = "store"
    BY Zenon, <1>0, <1>6 DEF GetClosestPeers, Handled, KindsAt
  <2> QED BY Zenon, <2>1 DEF LockInv
<1>7. CASE PutTo(q)
  <2>1. CASE kind[q] = "store" /\ Goto(q, "contract")
    BY Zenon, <1>7, <2>1 DEF PutTo, LockInv
  <2> QED BY Zenon, <1>4, <1>7, <2>1 DEF PutTo, AfterPut, FromFilePanics
<1>8. CASE CreateContract(q)
  <2>1. kind' = kind /\ (kind[q] = "put_to" => lock = q)
    BY Zenon, <1>8 DEF CreateContract
  <2>2. CASE \E step \in {"contract", "put"} : Goto(q, step)
    BY Zenon, <1>0, <2>1, <2>2 DEF Goto, LockInv, GrpcTypeOK
  <2> QED BY Zenon, <1>4, <1>8, <2>2 DEF CreateContract, AfterContract, AfterFailure
<1>9. CASE LockLedger(q)
  <2>1. CASE lock' = q /\ pc'[q] # "lock"
    BY Zenon, <2>1 DEF LockInv
  <2> QED BY Zenon, <1>0, <1>4, <1>9, <2>1 DEF LockLedger, FromFilePanics, GrpcTypeOK
<1>10. CASE GetContract(q) \/ Get(q) \/ Challenge(q) \/ Cancel(q)
  <2>1. CASE \E step \in {"get", "challenge"} : Goto(q, step)
    BY Zenon, <1>0, <1>3, <2>1 DEF Goto, GrpcTypeOK
  <2> QED BY Zenon, <1>4, <1>10, <2>1 DEF GetContract, Get, Challenge, Cancel
<1>11. CASE UNCHANGED <<handlerVars, contracts>>
  BY Zenon, <1>1, <1>11 DEF handlerVars
<1> QED BY Zenon, <1>2, <1>5, <1>6, <1>7, <1>8, <1>9, <1>10, <1>11
        DEF Next, Step, DeleteFile, ReportReputation, LateReport, Crash, vars

(* A contract is read while put_to does not have the ledger.                *)
LEMMA SeenStep ==
  ASSUME GrpcInv, GuardInv, [Next]_vars, NEW q \in Requests PROVE SeenInv(q)'
<1> SUFFICES ASSUME pc'[q] \in {"get", "challenge"}, kind'[q] \in {"retrieve", "verify_file"}
             PROVE  /\ contracts'[file'[q]] # None
                    /\ kind'[file'[q]] = "put_to" => pc'[file'[q]] = "done"
  BY Zenon DEF SeenInv
<1>0. GrpcTypeOK /\ Handled(q) /\ None \notin Requests
  BY Zenon, GrpcAssumption DEF GrpcInv
<1>1. CASE pc[q] = pc'[q]
  <2>1. kind'[q] = kind[q] /\ file'[q] = file[q]
    BY Zenon, <1>1, HandlersGoOn
  <2>2. file[q] \in Requests
    BY Zenon, <1>0, <1>1 DEF Handled
  <2>3. contracts[file[q]] # None /\ (kind[file[q]] = "put_to" => pc[file[q]] = "done")
    BY Zenon, <1>1, <2>1 DEF GuardInv, SeenInv
  <2>4. pc[file[q]] # "idle"
    BY Zenon, <2>2, <2>3 DEF GrpcInv, Handled
  <2> QED BY Zenon, <2>1, <2>2, <2>3, <2>4, HandlersGoOn
<1>2. CASE GetContract(q)
  <2> DEFINE g == file[q]
  <2>1. /\ pc[q] \in {"get_contract", "get_contracts"} /\ lock \in {q, None}
        /\ UNCHANGED <<kind, file, contracts>>
    BY Zenon, <1>2 DEF GetContract
  <2>2. g \in Requests /\ kind[q] \in {"retrieve", "verify_file"}
    BY Zenon, <1>0, <2>1 DEF Handled, KindsAt
  <2>3. contracts[g] # None /\ \E step : pc' = [pc EXCEPT ![q] = step]
    BY Zenon, <1>0, <1>2 DEF GetContract, Respond, Goto, GrpcTypeOK
  <2>4. ASSUME kind[g] = "put_to" PROVE pc[g] = "done"
    <3>1. Handled(g) /\ LockInv(g)
      BY Zenon, <2>2 DEF GrpcInv, GuardInv
    <3>2. pc[g] # "idle" /\ pc[g] # "lock"
      BY Zenon, <2>3, <2>4, <3>1 DEF Handled, LockInv
    <3>3. pc[g] \notin {"contract", "put"}
      BY Zenon, <1>0, <2>1, <2>2, <2>4, <3>1 DEF LockInv
    <3>4. pc[g] # "done" => "put_to" \in KindsAt(pc[g])
      BY Zenon, <2>4, <3>1, <3>2 DEF Handled
    <3>5. pc[g] \in Steps
      BY Zenon, <1>0, <2>2 DEF GrpcTypeOK, Steps
    <3> QED BY Zenon, <3>2, <3>3, <3>4, <3>5 DEF KindsAt, Steps
  <2>5. g # q => pc'[g] = pc[g]
    BY Zenon, <1>0, <2>2, <2>3 DEF GrpcTypeOK
  <2> QED BY Zenon, <2>1, <2>2, <2>3, <2>4, <2>5
<1>3. ASSUME NEW r \in Requests, (\E k \in Kinds : Begin(r, k)) \/ Step(r) \/ Cancel(r)
      PROVE  pc[q] = pc'[q] \/ GetContract(q)
  <2>1. \E step : pc' = [pc EXCEPT ![r] = step]
    BY Zenon, <1>3 DEF Begin, Step, GetClosestPeers, PutFirst, PutTo, AfterPut, FromFilePanics,
           CreateContract, AfterContract, AfterFailure, LockLedger, GetContract, Get, Challenge,
           Cancel, Respond, Goto
  <2>2. CASE q # r
    BY Zenon, <1>0, <2>1, <2>2 DEF GrpcTypeOK
  <2>3. ASSUME NEW k \in Kinds, Begin(q, k) PROVE FALSE
    <3>1. k \in {"retrieve", "verify_file"}
      BY Zenon, <1>0, <2>3 DEF Begin, GrpcTypeOK
    <3> QED BY Zenon, <1>0, <2>3, <3>1 DEF Begin, Goto, GrpcTypeOK
  <2>4. ASSUME Step(q) \/ Cancel(q), ~GetContract(q) PROVE FALSE
    <3>1. \E step \in {"put", "contract", "get_contract", "done"} : pc' = [pc EXCEPT ![q] = step]
      BY Zenon, <2>4 DEF Step, GetClosestPeers, PutFirst, PutTo, AfterPut, FromFilePanics,
             CreateContract, AfterContract, AfterFailure, LockLedger, Get, Challenge, Cancel, Respond,
             Goto
    <3> QED BY Zenon, <1>0, <3>1 DEF GrpcTypeOK
  <2> QED BY Zenon, <1>3, <2>2, <2>3, <2>4
<1>4. CASE UNCHANGED handlerVars
  BY Zenon, <1>1, <1>4 DEF handlerVars
<1> QED BY Zenon, <1>1, <1>2, <1>3, <1>4 DEF Next, DeleteFile, ReportReputation, LateReport, Crash, vars

-----------------------------------------------------------------------------
(* The inductive invariants hold in every reachable state.                  *)
THEOREM GrpcInvariant == Spec => [](GrpcInv /\ GuardInv)
<1>1. Init => GrpcInv /\ GuardInv
  <2> SUFFICES ASSUME Init PROVE GrpcInv /\ GuardInv
    BY Zenon
  <2>1. GrpcTypeOK
    BY GrpcAssumption DEF Init, GrpcTypeOK
  <2>2. ASSUME NEW r \in Requests PROVE Handled(r)
    <3>1. /\ pc[r] = "idle" /\ contracts[r] = None /\ status[r] = None /\ kind[r] = None
          /\ todo[r] = peers[r]
      BY Zenon DEF Init
    <3>2. None \notin {"ok", "err"}
      BY Zenon, GrpcAssumption
    <3> QED BY Zenon, <3>1, <3>2 DEF Handled
  <2> QED BY Zenon, <2>1, <2>2 DEF Init, GrpcInv, GuardInv, LockInv, SeenInv
<1>2. GrpcInv /\ GuardInv /\ [Next]_vars => GuardInv'
  BY Zenon, LockStep, SeenStep DEF GuardInv
<1> QED BY <1>1, <1>2, GrpcInvStep, PTL DEF Spec

(* The handlers' state keeps its shape, store goes to at most               *)
(* REPLICATION_FACTOR peers and tries a contract at most MaxTries times.    *)
THEOREM GrpcTypeCorrect == Spec => []GrpcTypeOK
<1>1. GrpcInv => GrpcTypeOK
  BY Zenon DEF GrpcInv
<1> QED BY <1>1, GrpcInvariant, PTL

(* What store or put_to acknowledges is stored by a peer it was sent to,    *)
(* and the ledger has a contract with such a peer.                          *)
THEOREM GrpcAcknowledges == Spec => []AcknowledgedIsStored
<1>1. GrpcInv => AcknowledgedIsStored
  BY Zenon DEF GrpcInv, Handled, AcknowledgedIsStored
<1> QED BY <1>1, GrpcInvariant, PTL

(* A contract that store wrote is of a file that a peer has stored, however *)
(* the handler ended.                                                       *)
THEOREM GrpcContracts == Spec => []ContractMeansStored
<1>1. GrpcInv => ContractMeansStored
  BY Zenon DEF GrpcInv, Handled, ContractMeansStored
<1> QED BY <1>1, GrpcInvariant, PTL

(* No retrieve or verify_file of the node acts on a contract of a put_to    *)
(* that has not returned, although put_to writes contracts before it puts.  *)
THEOREM GrpcHidesHalfPuts == Spec => []HalfPutIsHidden
<1>1. GuardInv => HalfPutIsHidden
  BY Zenon DEF GuardInv, SeenInv, HalfPutIsHidden
<1> QED BY <1>1, GrpcInvariant, PTL
=============================================================================
