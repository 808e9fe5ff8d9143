--------------------------- MODULE VerifierProofs ---------------------------
(***************************************************************************)
(* Proofs about the audit loop, for any verifiers, keepers, files, clocks  *)
(* and faults, every division of the key space and every bound.            *)
(***************************************************************************)
EXTENDS Verifier, KeySpaceProofs

(* Puts reach their keepers, requests are answered and audits accept what   *)
(* is there.                                                                *)
Reliable == "put" \notin Faults /\ "request" \notin Faults

(* Where the loop is while it goes through the contracts of its window.     *)
Auditing == {"audit", "settle", "previous", "next_iteration"}

(* A contract is at hand when an audit is settled and compared, a result    *)
(* when a claim is written, and none is left when the window moves.         *)
LoopInv(v) ==
  /\ pc[v] \in {"settle", "previous"} => current[v] \in Contract
  /\ pc[v] = "claims" => audits[v] # <<>>
  /\ pc[v] = "next_iteration" => todo[v] = {}

(* What the round still owes lies ahead: among the contracts of this cycle  *)
(* or beyond the window while the loop audits, beyond the start of the next *)
(* window between two cycles.  A contract that replaces another is new.     *)
RoundInv(v) ==
  /\ \A c \in owed[v] : c.id <= created
  /\ pc[v] \in Auditing
       => \A c \in owed[v] \cap Rows : c \in todo[v] \/ c.file > window[v].ending_uuid
  /\ pc[v] \in {"claims", "sleep", "read"} /\ ~RoundBegins(window[v])
       => \A c \in owed[v] \cap Rows : c.file > window[v].starting_uuid

(* An audit that succeeded was of another node, which had the file.         *)
EarnedInv(v) ==
  pc[v] = "settle" /\ is_success[v] => v # current[v].peer /\ Replica(current[v]) \in Arrived

(* No claim is later than the clock of its verifier.                        *)
ClockInv == \A c \in claims : c.time <= clock + Skew[c.by]

(* What holds of the state of one verifier.                                 *)
OwnInv(v) == /\ WindowInv(window[v], 0 .. window[v].ending_uuid)
             /\ LoopInv(v) /\ RoundInv(v) /\ EarnedInv(v)

(* The steps that no verifier takes.                                        *)
Surroundings ==
  \/ \E f \in Files, h \in {"store", "put_to"}, ks \in (SUBSET Keepers) \ {{}} : Upload(f, h, ks)
  \/ \E k \in Keepers, f \in Files : Receive(k, f) \/ CreateContract(k, f) \/ DeleteFile(k, f)
  \/ Tick
  \/ UNCHANGED vars

(* The inductive invariant of the audit loop.                               *)
VerifierInv ==
  /\ VerifierTypeOK
  /\ \A f \in Files : contracts[f].id <= created
  /\ \A v \in Verifiers : OwnInv(v)
  /\ ClockInv
  /\ "ledger" \notin Faults => OnlySlowClocksStop

(* Contracts are left to write for the keepers of an upload only.           *)
UploadInv ==
  \A f \in Files :
    /\ unwritten[f] \subseteq peers[f]
    /\ handler[f] = "none" => unwritten[f] = {}

(* The keeper and the file of every contract_uuid that was generated: who   *)
(* holds a contract holds it unchanged, every file has arrived unless       *)
(* put_to is uploading it, and every failed audit, and every honest claim   *)
(* of one, is of a replica that its verifier may find missing.              *)
Recorded(K) ==
  LET known(c) == c.id \in 1 .. created /\ K[c.id] = Replica(c) IN
  /\ \A c \in Rows : known(c)
  /\ \A i \in 1 .. created : K[i] \in Arrived \/ handler[K[i][2]] = "put_to"
  /\ \A v \in Verifiers :
       /\ \A c \in todo[v] : known(c)
       /\ pc[v] \in {"settle", "previous"} =>
            known(current[v]) /\ (is_success[v] \/ K[current[v].id] \in MayFail(v))
       /\ \A j \in 1 .. Len(audits[v]) :
            LET a == audits[v][j] IN
            a.contract \in 1 .. created /\ (a.succeeded \/ K[a.contract] \in MayFail(v))
  /\ \A c \in claims : /\ c.contract \in 1 .. created
                       /\ c.by \in Corrupt \/ c.succeeded \/ K[c.contract] \in MayFail(c.by)

(* The inductive invariant about causes.                                    *)
CauseInv == Reliable => /\ UploadInv
                        /\ \E K \in [1 .. created -> Keepers \X Files] : Recorded(K)
                        /\ AlarmsHaveACause

-----------------------------------------------------------------------------
(* The shape of the state. *)

(* What the table contracts holds are contracts.                            *)
LEMMA RowsType == VerifierTypeOK => Rows \subseteq Contract
BY Zenon DEF VerifierTypeOK, Rows

(* A result at hand is one, and so are the ones after it.                   *)
LEMMA AuditsSplit ==
  ASSUME NEW S, NEW q \in Seq(S), q # <<>>
  PROVE  /\ Head(q) \in S /\ Head(q) = q[1] /\ Tail(q) \in Seq(S) /\ Len(q) \in Nat \ {0}
         /\ Len(Tail(q)) = Len(q) - 1
         /\ \A j \in 1 .. Len(Tail(q)) : Tail(q)[j] = q[j + 1]
OBVIOUS

(* An audit succeeds only at another node with the file, and fails there    *)
(* only if the request failed.                                              *)
LEMMA AuditOutcome ==
  ASSUME NEW v, NEW c, NEW ok \in AuditOutcomes(v, c)
  PROVE  /\ ok \in BOOLEAN
         /\ ok => v # c.peer /\ Replica(c) \in held
         /\ Reliable /\ ~ok => v = c.peer \/ Replica(c) \notin held
<1> DEFINE found == v # c.peer /\ Replica(c) \in held
<1>1. found \in BOOLEAN
  OBVIOUS
<1>2. CASE ok = found
  BY Zenon, <1>1, <1>2
<1>3. CASE ok = FALSE /\ "request" \in Faults
  BY Zenon, <1>3 DEF Reliable
<1> QED BY <1>2, <1>3, Zenon DEF AuditOutcomes

(* The windows next_iteration computes are windows.                         *)
LEMMA MovedWindow ==
  ASSUME NEW w, WindowInv(w, 0 .. w.ending_uuid)
  PROVE  /\ NextWindow(w) \in Window
         /\ WindowInv(NextWindow(w), 0 .. NextWindow(w).ending_uuid)
BY Zenon, NextWindowInv DEF WindowInv

(* Every step of a verifier keeps the shape.                                *)
LEMMA LoopType ==
  ASSUME VerifierInv, NEW v \in Verifiers, Loop(v) \/ LedgerError(v)
  PROVE  VerifierTypeOK'
<1>1. VerifierTypeOK /\ LoopInv(v) /\ WindowInv(window[v], 0 .. window[v].ending_uuid)
  BY Zenon DEF VerifierInv, OwnInv
<1>2. CASE GetAllContracts(v)
  <2>1. todo' \in [Verifiers -> SUBSET Contract] /\ owed' \in [Verifiers -> SUBSET Contract]
    BY Zenon, <1>1, <1>2, RowsType DEF GetAllContracts, VerifierTypeOK
  <2>2. cycles' \in [Verifiers -> 0 .. MaxCycles]
    BY <1>1, <1>2, VerifierAssumption DEF GetAllContracts, VerifierTypeOK
  <2> QED BY Zenon, <1>1, <1>2, <2>1, <2>2
          DEF GetAllContracts, VerifierTypeOK, uploadVars, ledgerVars, NextAudit
<1>3. CASE Audit(v)
  <2>1. PICK c \in todo[v] : /\ current' = [current EXCEPT ![v] = c]
                             /\ todo' = [todo EXCEPT ![v] = @ \ {c}]
                             /\ owed' = [owed EXCEPT ![v] = @ \ {c}]
                             /\ hasty' \subseteq hasty \cup {Replica(c)}
                             /\ \E ok \in AuditOutcomes(v, c) :
                                  is_success' = [is_success EXCEPT ![v] = ok]
    BY Zenon, <1>3 DEF Audit
  <2>2. c \in Contract
    BY Zenon, <1>1 DEF VerifierTypeOK
  <2>3. is_success' \in [Verifiers -> BOOLEAN]
    <3>1. is_success \in [Verifiers -> BOOLEAN]
      BY Zenon, <1>1 DEF VerifierTypeOK
    <3> QED BY Zenon, <2>1, <3>1, AuditOutcome
  <2>4. /\ todo' \in [Verifiers -> SUBSET Contract] /\ owed' \in [Verifiers -> SUBSET Contract]
        /\ current' \in [Verifiers -> Contract \cup {NoContract}]
    BY Zenon, <1>1, <2>1, <2>2 DEF VerifierTypeOK
  <2>5. hasty' \subseteq Keepers \X Files
    <3>1. Replica(c) \in Keepers \X Files
      BY Zenon, <2>2 DEF Replica, Contract
    <3> QED BY Zenon, <1>1, <2>1, <3>1 DEF VerifierTypeOK
  <2> QED BY Zenon, <1>1, <1>3, <2>3, <2>4, <2>5 DEF Audit, VerifierTypeOK, uploadVars, ledgerVars
<1>4. CASE Settle(v)
  <2>1. current[v] \in Contract /\ is_success[v] \in BOOLEAN
    BY Zenon, <1>1, <1>4 DEF Settle, LoopInv, VerifierTypeOK
  <2>2. AuditAmount(is_success[v]) \in Int
    BY VerifierAssumption DEF AuditAmount
  <2>3. reputation' \in [Keepers -> Int]
    BY <1>1, <1>4, <2>1, <2>2 DEF Settle, VerifierTypeOK, Contract
  <2>4. [contract |-> current[v].id, succeeded |-> is_success[v]]
          \in [contract : 1 .. MaxContracts, succeeded : BOOLEAN]
    BY Zenon, <2>1 DEF Contract
  <2>5. audits[v] \in Seq([contract : 1 .. MaxContracts, succeeded : BOOLEAN])
    BY Zenon, <1>1 DEF VerifierTypeOK
  <2>6. Append(audits[v], [contract |-> current[v].id, succeeded |-> is_success[v]])
          \in Seq([contract : 1 .. MaxContracts, succeeded : BOOLEAN])
    BY <2>4, <2>5
  <2>7. audits' \in [Verifiers -> Seq([contract : 1 .. MaxContracts, succeeded : BOOLEAN])]
    BY Zenon, <1>1, <1>4, <2>6 DEF Settle, VerifierTypeOK
  <2> QED BY Zenon, <1>1, <1>4, <2>3, <2>7 DEF Settle, VerifierTypeOK, uploadVars
<1>5. CASE GetPreviousVerified(v)
  <2>1. current[v] \in Contract
    BY Zenon, <1>1, <1>5 DEF GetPreviousVerified, LoopInv
  <2>2. Previous(current[v].id) \subseteq Claim
    BY Zenon, <1>1 DEF Previous, VerifierTypeOK
  <2>3. caught' \subseteq [by : Verifiers, claimer : Verifiers, contract : Contract]
    <3>1. ASSUME NEW last \in Previous(current[v].id)
          PROVE  [by |-> v, claimer |-> last.by, contract |-> current[v]]
                   \in [by : Verifiers, claimer : Verifiers, contract : Contract]
      BY Zenon, <2>1, <2>2 DEF Claim
    <3>2. \/ caught' = caught
          \/ \E last \in Previous(current[v].id) :
               caught' = caught \cup {[by |-> v, claimer |-> last.by, contract |-> current[v]]}
      BY Zenon, <1>5 DEF GetPreviousVerified, Latest
    <3>3. caught \subseteq [by : Verifiers, claimer : Verifiers, contract : Contract]
      BY Zenon, <1>1 DEF VerifierTypeOK
    <3> QED BY Zenon, <3>1, <3>2, <3>3
  <2>4. missed' \subseteq Verifiers
    BY <1>1, <1>5, <2>2 DEF GetPreviousVerified, VerifierTypeOK, Latest, Claim
  <2>5. pc' \in [Verifiers -> {"read", "audit", "settle", "previous", "next_iteration",
                              "claims", "sleep", "down"}]
    BY Zenon, <1>1, <1>5 DEF GetPreviousVerified, VerifierTypeOK, NextAudit
  <2> QED BY Zenon, <1>1, <1>5, <2>3, <2>4, <2>5 DEF GetPreviousVerified, VerifierTypeOK, uploadVars, ledgerVars
<1>6. CASE NextIteration(v)
  <2>1. NextWindow(window[v]) \in Window
    BY Zenon, <1>1, MovedWindow
  <2> QED BY Zenon, <1>1, <1>6, <2>1 DEF NextIteration, VerifierTypeOK, uploadVars, ledgerVars
<1>7. CASE CreateVerifiedClaim(v)
  <2> DEFINE Results == [contract : 1 .. MaxContracts, succeeded : BOOLEAN]
             a == Head(audits[v])
             claim == [contract |-> a.contract, by |-> v, succeeded |-> ClaimOf(v, a.succeeded),
                       time |-> Now(v)]
  <2>1. audits[v] \in Seq(Results) /\ audits[v] # <<>>
    BY Zenon, <1>1, <1>7 DEF CreateVerifiedClaim, LoopInv, VerifierTypeOK
  <2>2. a \in Results /\ Tail(audits[v]) \in Seq(Results)
    BY Zenon, <2>1, AuditsSplit
  <2>3. Now(v) \in Nat
    BY <1>1, VerifierAssumption DEF Now, VerifierTypeOK
  <2>4. claim \in Claim
    BY Zenon, <2>2, <2>3 DEF Claim, ClaimOf
  <2>5. claims' \subseteq claims \cup {claim}
    BY Zenon, <1>7 DEF CreateVerifiedClaim, Upserted
  <2>6. claims' \subseteq Claim
    <3> HIDE DEF claim
    <3> QED BY Zenon, <1>1, <2>4, <2>5 DEF VerifierTypeOK
  <2>7. audits' \in [Verifiers -> Seq(Results)]
    BY Zenon, <1>1, <1>7, <2>2 DEF CreateVerifiedClaim, VerifierTypeOK, RemainingAudits
  <2> QED BY Zenon, <1>1, <1>7, <2>6, <2>7 DEF CreateVerifiedClaim, VerifierTypeOK, uploadVars
<1>8. CASE WakeUp(v) \/ LedgerError(v)
  BY Zenon, <1>1, <1>8 DEF WakeUp, LedgerError, VerifierTypeOK, uploadVars, ledgerVars
<1> QED BY Zenon, <1>2, <1>3, <1>4, <1>5, <1>6, <1>7, <1>8 DEF Loop

(* Uploads, deletions and the clock keep it too.                            *)
LEMMA SurroundingsType == ASSUME VerifierInv, Surroundings PROVE VerifierTypeOK'
<1>1. VerifierTypeOK
  BY Zenon DEF VerifierInv
<1>2. ASSUME NEW f \in Files, NEW h \in {"store", "put_to"}, NEW ks \in SUBSET Keepers,
             Upload(f, h, ks)
      PROVE  VerifierTypeOK'
  BY Zenon, <1>1, <1>2 DEF Upload, VerifierTypeOK, ledgerVars, loopVars
<1>3. ASSUME NEW k \in Keepers, NEW f \in Files, CreateContract(k, f) PROVE VerifierTypeOK'
  <2>1. created + 1 \in 1 .. MaxContracts /\ created' = created + 1
    BY <1>1, <1>3, VerifierAssumption DEF CreateContract, VerifierTypeOK
  <2>2. [id |-> created + 1, file |-> f, peer |-> k] \in Contract
    BY Zenon, <2>1 DEF Contract
  <2>3. contracts' \in [Files -> Contract \cup {NoContract}]
    BY Zenon, <1>1, <1>3, <2>2 DEF CreateContract, VerifierTypeOK
  <2>4. unwritten' \in [Files -> SUBSET Keepers]
    BY Zenon, <1>1, <1>3 DEF CreateContract, VerifierTypeOK
  <2>5. created' \in 0 .. MaxContracts
    BY <2>1, VerifierAssumption
  <2> QED BY Zenon, <1>1, <1>3, <2>3, <2>4, <2>5 DEF CreateContract, VerifierTypeOK, loopVars
<1>4. ASSUME NEW k \in Keepers, NEW f \in Files, Receive(k, f) \/ DeleteFile(k, f)
      PROVE  VerifierTypeOK'
  <2>1. held' \subseteq Keepers \X Files /\ lost' \subseteq Keepers \X Files
    BY <1>1, <1>4 DEF Receive, DeleteFile, VerifierTypeOK
  <2> QED BY Zenon, <1>1, <1>4, <2>1 DEF Receive, DeleteFile, VerifierTypeOK, uploadVars, loopVars
<1>5. CASE Tick
  <2>1. clock' \in 0 .. MaxTime
    BY <1>1, <1>5, VerifierAssumption DEF Tick, VerifierTypeOK
  <2> QED BY Zenon, <1>1, <1>5, <2>1 DEF Tick, VerifierTypeOK, uploadVars, loopVars
<1>6. CASE UNCHANGED vars
  BY Zenon, <1>1, <1>6 DEF vars, uploadVars, ledgerVars, loopVars, VerifierTypeOK
<1> QED BY Zenon, <1>2, <1>3, <1>4, <1>5, <1>6 DEF Surroundings

-----------------------------------------------------------------------------
(* The invariant of the audit loop. *)

(* A verifier that takes no step keeps its invariant while others step.     *)
LEMMA OthersOK ==
  ASSUME VerifierInv, NEW v \in Verifiers, Loop(v) \/ LedgerError(v),
         NEW u \in Verifiers, u # v
  PROVE  OwnInv(u)'
<1>1. VerifierTypeOK /\ OwnInv(u)
  BY Zenon DEF VerifierInv
<1>2. UNCHANGED <<contracts, created, held, lost>>
  BY Zenon DEF Loop, LedgerError, GetAllContracts, Audit, Settle, GetPreviousVerified,
         NextIteration, CreateVerifiedClaim, WakeUp, ledgerVars
<1>3. /\ pc'[u] = pc[u] /\ window'[u] = window[u] /\ todo'[u] = todo[u]
      /\ current'[u] = current[u] /\ is_success'[u] = is_success[u]
      /\ audits'[u] = audits[u] /\ owed'[u] = owed[u]
  <2>1. CASE GetAllContracts(v) \/ Audit(v) \/ Settle(v)
    BY Zenon, <1>1, <2>1 DEF VerifierTypeOK, GetAllContracts, Audit, Settle
  <2>2. CASE GetPreviousVerified(v)
    BY Zenon, <1>1, <2>2 DEF VerifierTypeOK, GetPreviousVerified
  <2>3. CASE NextIteration(v) \/ CreateVerifiedClaim(v) \/ WakeUp(v) \/ LedgerError(v)
    BY Zenon, <1>1, <2>3 DEF VerifierTypeOK, NextIteration, CreateVerifiedClaim, WakeUp, LedgerError
  <2> QED BY Zenon, <2>1, <2>2, <2>3 DEF Loop
<1>4. Rows' = Rows /\ Arrived' = Arrived
  BY Zenon, <1>2 DEF Rows, Arrived
<1> QED BY Zenon, <1>1, <1>2, <1>3, <1>4 DEF OwnInv, LoopInv, RoundInv, EarnedInv, Replica

(* What the round owes when a cycle begins, at the start of a round or      *)
(* later, is in the window or beyond it.                                    *)
LEMMA GetAllContractsOK ==
  ASSUME VerifierInv, NEW v \in Verifiers, GetAllContracts(v)
  PROVE  OwnInv(v)'
<1> DEFINE w == window[v]
<1>1. VerifierTypeOK /\ OwnInv(v) /\ Rows \subseteq Contract
  BY Zenon, RowsType DEF VerifierInv
<1>2. /\ pc[v] = "read" /\ window' = window /\ audits' = audits /\ current' = current
      /\ contracts' = contracts /\ created' = created /\ Rows' = Rows
  BY Zenon DEF GetAllContracts, ledgerVars, Rows
<1>3. /\ todo'[v] = {c \in Rows : c.file \in UuidsOf(w)}
      /\ pc'[v] = NextAudit(todo'[v])
      /\ owed'[v] = IF RoundBegins(w) THEN Rows ELSE owed[v]
  BY Zenon, <1>1 DEF GetAllContracts, VerifierTypeOK
<1>4. LoopInv(v)' /\ EarnedInv(v)' /\ pc'[v] \in {"audit", "next_iteration"}
  BY Zenon, <1>3 DEF LoopInv, EarnedInv, NextAudit
<1>5. \A c \in Rows : c.id <= created /\ c.file \in Uuid
  BY Zenon, <1>1, VerifierAssumption DEF VerifierInv, Rows, Contract
<1>6. w \in Window /\ WindowInv(w, 0 .. w.ending_uuid)
  BY Zenon, <1>1 DEF OwnInv, WindowInv
<1>7. RoundBegins(w) => w.starting_uuid = 0
  <2>1. CASE w = FirstWindow
    BY <2>1 DEF FirstWindow
  <2>2. CASE w.iteration = 0
    BY <1>6, <2>2, ShareBound DEF WindowInv, Window, Uuid
  <2> QED BY Zenon, <2>1, <2>2 DEF RoundBegins
<1>8. ASSUME NEW c \in owed'[v] \cap Rows PROVE c \in todo'[v] \/ c.file > w.ending_uuid
  <2>1. c.file >= w.starting_uuid
    <3>1. CASE RoundBegins(w)
      BY <1>5, <1>7, <3>1, KeySpaceAssumption DEF Uuid
    <3>2. CASE ~RoundBegins(w)
      <4>1. c.file > w.starting_uuid
        BY Zenon, <1>1, <1>2, <1>3, <1>8, <3>2 DEF OwnInv, RoundInv
      <4> QED BY <1>5, <1>6, <1>8, <4>1, KeySpaceAssumption DEF Uuid, Window
    <3> QED BY Zenon, <3>1, <3>2
  <2>2. c.file \in Uuid
    BY Zenon, <1>5, <1>8
  <2> QED BY <1>3, <1>6, <1>8, <2>1, <2>2, KeySpaceAssumption DEF UuidsOf, Uuid, Window
<1>9. RoundInv(v)'
  <2>1. \A c \in owed'[v] : c.id <= created
    BY Zenon, <1>1, <1>3, <1>5 DEF OwnInv, RoundInv
  <2> QED BY Zenon, <1>2, <1>4, <1>8, <2>1 DEF RoundInv
<1> QED BY Zenon, <1>2, <1>4, <1>6, <1>9 DEF OwnInv

(* The audited contract leaves both the cycle's list and what is owed.      *)
LEMMA AuditOK ==
  ASSUME VerifierInv, NEW v \in Verifiers, Audit(v)
  PROVE  OwnInv(v)'
<1>1. VerifierTypeOK /\ OwnInv(v)
  BY Zenon DEF VerifierInv
<1>2. PICK c \in todo[v] : /\ current' = [current EXCEPT ![v] = c]
                           /\ todo' = [todo EXCEPT ![v] = @ \ {c}]
                           /\ owed' = [owed EXCEPT ![v] = @ \ {c}]
                           /\ \E ok \in AuditOutcomes(v, c) :
                                is_success' = [is_success EXCEPT ![v] = ok]
  BY Zenon DEF Audit
<1>3. /\ pc[v] = "audit" /\ window' = window /\ UNCHANGED <<created, held, lost>>
      /\ pc' = [pc EXCEPT ![v] = "settle"] /\ Rows' = Rows
  <2>1. UNCHANGED ledgerVars /\ window' = window
    BY Zenon DEF Audit
  <2>2. pc[v] = "audit" /\ pc' = [pc EXCEPT ![v] = "settle"]
    BY Zenon DEF Audit
  <2> QED BY Zenon, <2>1, <2>2 DEF ledgerVars, Rows
<1>4. /\ pc'[v] = "settle" /\ current'[v] = c /\ todo'[v] = todo[v] \ {c}
      /\ owed'[v] = owed[v] \ {c} /\ c \in Contract
  BY Zenon, <1>1, <1>2, <1>3 DEF VerifierTypeOK
<1>5. is_success'[v] => v # c.peer /\ Replica(c) \in Arrived'
  <2>1. PICK ok \in AuditOutcomes(v, c) : is_success' = [is_success EXCEPT ![v] = ok]
    BY Zenon, <1>2
  <2>2. is_success'[v] = ok
    BY Zenon, <1>1, <2>1 DEF VerifierTypeOK
  <2> QED BY Zenon, <1>3, <2>2, AuditOutcome DEF Arrived
<1>6. LoopInv(v)' /\ EarnedInv(v)'
  BY Zenon, <1>3, <1>4, <1>5 DEF LoopInv, EarnedInv, Replica
<1>7. RoundInv(v)'
  BY Zenon, <1>1, <1>3, <1>4 DEF OwnInv, RoundInv, Auditing
<1> QED BY Zenon, <1>1, <1>3, <1>6, <1>7 DEF OwnInv

(* Steps that leave the window and what is owed alone.                      *)
LEMMA SettleOK ==
  ASSUME VerifierInv, NEW v \in Verifiers, Settle(v) \/ GetPreviousVerified(v)
  PROVE  OwnInv(v)'
<1>1. VerifierTypeOK /\ OwnInv(v)
  BY Zenon DEF VerifierInv
<1>2. /\ window' = window /\ todo' = todo /\ current' = current /\ owed' = owed
      /\ created' = created /\ Rows' = Rows /\ pc[v] \in {"settle", "previous"}
  BY Zenon DEF Settle, GetPreviousVerified, ledgerVars, Rows
<1>3. \/ pc'[v] = "previous" \/ pc'[v] = "down" \/ pc'[v] = NextAudit(todo[v])
  BY Zenon, <1>1 DEF Settle, GetPreviousVerified, VerifierTypeOK
<1>4. LoopInv(v)' /\ EarnedInv(v)'
  BY Zenon, <1>1, <1>2, <1>3 DEF OwnInv, LoopInv, EarnedInv, NextAudit
<1>5. RoundInv(v)'
  BY Zenon, <1>1, <1>2, <1>3 DEF OwnInv, RoundInv, Auditing, NextAudit
<1> QED BY Zenon, <1>1, <1>2, <1>4, <1>5 DEF OwnInv

(* The next window begins where the last one ended, or a round begins.      *)
LEMMA NextIterationOK ==
  ASSUME VerifierInv, NEW v \in Verifiers, NextIteration(v)
  PROVE  OwnInv(v)'
<1> DEFINE w == window[v]
<1>1. VerifierTypeOK /\ OwnInv(v)
  BY Zenon DEF VerifierInv
<1>2. /\ pc[v] = "next_iteration" /\ todo' = todo /\ owed' = owed /\ audits' = audits
      /\ created' = created /\ Rows' = Rows
  BY Zenon DEF NextIteration, ledgerVars, Rows
<1>3. /\ window'[v] = NextWindow(w)
      /\ pc'[v] = IF audits[v] = <<>> THEN "sleep" ELSE "claims"
  BY Zenon, <1>1 DEF NextIteration, VerifierTypeOK
<1>4. WindowInv(window'[v], 0 .. window'[v].ending_uuid) /\ w \in Window
  BY Zenon, <1>1, <1>3, MovedWindow DEF OwnInv, WindowInv
<1>5. LoopInv(v)' /\ EarnedInv(v)'
  BY Zenon, <1>2, <1>3 DEF LoopInv, EarnedInv
<1>6. ASSUME ~RoundBegins(window'[v]) PROVE window'[v].starting_uuid = w.ending_uuid
  <2>1. w.iteration < NUM_PEERS
    BY <1>3, <1>4, <1>6, KeySpaceAssumption DEF NextWindow, RoundEnds, RoundBegins, Window
  <2>2. w.ending_uuid = w.starting_uuid + Share /\ w.ending_uuid \in Uuid /\ w.starting_uuid \in Uuid
    BY Zenon, <1>1, <1>4, <2>1 DEF OwnInv, WindowInv, Window
  <2>3. NextStart(w.starting_uuid) = w.ending_uuid
    BY <2>2, ShareBound, KeySpaceAssumption DEF NextStart, U128Add, Uuid
  <2> QED BY <1>3, <1>4, <2>1, <2>3, KeySpaceAssumption DEF NextWindow, RoundEnds, Window
<1>7. RoundInv(v)'
  <2>1. \A c \in owed[v] \cap Rows : c.file > w.ending_uuid
    BY Zenon, <1>1, <1>2 DEF OwnInv, RoundInv, LoopInv, Auditing
  <2> QED BY Zenon, <1>1, <1>2, <1>3, <1>6, <2>1 DEF OwnInv, RoundInv, Auditing
<1> QED BY Zenon, <1>4, <1>5, <1>7 DEF OwnInv

(* Writing claims, sleeping and stopping change nothing the round owes.     *)
LEMMA RestOK ==
  ASSUME VerifierInv, NEW v \in Verifiers, CreateVerifiedClaim(v) \/ WakeUp(v) \/ LedgerError(v)
  PROVE  OwnInv(v)'
<1>1. VerifierTypeOK /\ OwnInv(v)
  BY Zenon DEF VerifierInv
<1>2. /\ window' = window /\ todo' = todo /\ owed' = owed
      /\ created' = created /\ Rows' = Rows
  BY Zenon DEF CreateVerifiedClaim, WakeUp, LedgerError, ledgerVars, Rows
<1>3. \/ pc'[v] = "down"
      \/ pc'[v] = "read" /\ pc[v] = "sleep"
      \/ pc'[v] = "sleep" /\ pc[v] = "claims"
      \/ pc'[v] = "claims" /\ pc[v] = "claims" /\ audits'[v] # <<>>
  BY Zenon, <1>1 DEF CreateVerifiedClaim, WakeUp, LedgerError, VerifierTypeOK
<1>4. LoopInv(v)' /\ EarnedInv(v)'
  BY Zenon, <1>3 DEF LoopInv, EarnedInv
<1>5. RoundInv(v)'
  BY Zenon, <1>1, <1>2, <1>3 DEF OwnInv, RoundInv, Auditing
<1> QED BY Zenon, <1>1, <1>2, <1>4, <1>5 DEF OwnInv

(* A row that is new has a contract_uuid that is new.                       *)
LEMMA ContractIds ==
  ASSUME VerifierInv, Surroundings
  PROVE  /\ \A f \in Files : contracts'[f].id <= created'
         /\ created' \in Int /\ created \in Int /\ created <= created'
         /\ \A c \in Rows' : c \in Rows \/ c.id = created + 1
<1>1. /\ contracts \in [Files -> Contract \cup {NoContract}] /\ created \in Int
      /\ \A f \in Files : contracts[f].id <= created
  BY DEF VerifierInv, VerifierTypeOK
<1>2. ASSUME NEW k \in Keepers, NEW f \in Files, CreateContract(k, f)
      PROVE  /\ \A g \in Files : contracts'[g].id <= created'
             /\ created' = created + 1
             /\ \A c \in Rows' : c \in Rows \/ c.id = created + 1
  <2> DEFINE new == [id |-> created + 1, file |-> f, peer |-> k]
  <2>1. created' = created + 1 /\ contracts' = [contracts EXCEPT ![f] = new]
    BY Zenon, <1>2 DEF CreateContract
  <2>2. \A g \in Files : contracts'[g] = IF g = f THEN new ELSE contracts[g]
    BY Zenon, <1>1, <2>1
  <2>3. \A g \in Files : contracts[g].id \in Int
    BY <1>1 DEF Contract, NoContract
  <2>4. new.id = created + 1
    BY Zenon
  <2> HIDE DEF new
  <2>5. \A g \in Files : contracts'[g].id <= created'
    BY <1>1, <2>1, <2>2, <2>3, <2>4
  <2>6. \A c \in Rows' : c \in Rows \/ c = new
    BY Zenon, <2>2 DEF Rows
  <2> QED BY Zenon, <2>1, <2>4, <2>5, <2>6
<1>3. CASE UNCHANGED <<contracts, created>>
  <2>1. Rows' = Rows
    BY Zenon, <1>3 DEF Rows
  <2> QED BY <1>1, <1>3, <2>1
<1>4. (\E k \in Keepers, f \in Files : CreateContract(k, f)) \/ UNCHANGED <<contracts, created>>
  BY Zenon DEF Surroundings, Upload, Receive, DeleteFile, Tick, vars, ledgerVars
<1>5. CASE \E k \in Keepers, f \in Files : CreateContract(k, f)
  BY <1>1, <1>2, <1>5
<1> QED BY Zenon, <1>3, <1>4, <1>5

(* A new contract is owed by no round that has begun, what has arrived has  *)
(* arrived, held or lost, and the clock is no verifier's.                   *)
LEMMA SurroundingsOK ==
  ASSUME VerifierInv, NEW u \in Verifiers, Surroundings
  PROVE  OwnInv(u)'
<1>1. VerifierTypeOK /\ OwnInv(u)
  BY Zenon DEF VerifierInv
<1>2. UNCHANGED loopVars
  BY Zenon DEF Surroundings, Upload, Receive, CreateContract, DeleteFile, Tick, vars
<1>3. Arrived \subseteq Arrived'
  BY Zenon DEF Arrived, Surroundings, Upload, Receive, CreateContract, DeleteFile, Tick, vars, ledgerVars
<1>4. \A c \in owed[u] : c.id <= created /\ c.id \in Int
  BY <1>1 DEF OwnInv, RoundInv, VerifierTypeOK, Contract
<1>5. \A c \in owed[u] : c.id <= created' /\ (c \in Rows' => c \in Rows)
  BY <1>4, ContractIds
<1>6. LoopInv(u)' /\ EarnedInv(u)'
  BY Zenon, <1>1, <1>2, <1>3 DEF OwnInv, LoopInv, EarnedInv, Replica, loopVars
<1>7. RoundInv(u)'
  BY Zenon, <1>1, <1>2, <1>5 DEF OwnInv, RoundInv, loopVars
<1> QED BY Zenon, <1>1, <1>2, <1>6, <1>7 DEF OwnInv, loopVars

(* Times are natural numbers.                                               *)
LEMMA ClockTypes ==
  ASSUME VerifierInv
  PROVE  /\ clock \in Nat
         /\ \A c \in claims : c.time \in Nat /\ c.by \in Verifiers
         /\ \A u \in Verifiers : Skew[u] \in Nat
<1>1. clock \in 0 .. MaxTime /\ claims \subseteq Claim
  BY Zenon DEF VerifierInv, VerifierTypeOK
<1>2. clock \in Nat
  BY <1>1, VerifierAssumption
<1>3. \A c \in claims : c.time \in Nat /\ c.by \in Verifiers
  BY Zenon, <1>1 DEF Claim
<1>4. Skew \in [Verifiers -> Nat]
  BY Zenon, VerifierAssumption
<1> QED BY Zenon, <1>2, <1>3, <1>4

(* Claims carry the time of their verifier's clock, which only goes on.     *)
LEMMA ClockOK == ASSUME VerifierInv, [Next]_vars PROVE ClockInv'
<1>1. /\ VerifierTypeOK /\ ClockInv /\ clock \in Nat
      /\ \A c \in claims : c.time \in Nat /\ c.by \in Verifiers
      /\ \A u \in Verifiers : Skew[u] \in Nat
  BY Zenon, ClockTypes DEF VerifierInv
<1>2. clock' = clock \/ clock' = clock + 1
  BY Zenon DEF Next, Loop, GetAllContracts, Audit, Settle, GetPreviousVerified, NextIteration,
         CreateVerifiedClaim, WakeUp, LedgerError, Upload, Receive, CreateContract,
         DeleteFile, Tick, vars, ledgerVars
<1>3. ASSUME NEW c \in claims' PROVE c \in claims \/ (c.by \in Verifiers /\ c.time = clock' + Skew[c.by])
  <2>1. ASSUME NEW v \in Verifiers, CreateVerifiedClaim(v)
        PROVE  c \in claims \/ (c.by \in Verifiers /\ c.time = clock' + Skew[c.by])
    BY <1>3, <2>1 DEF CreateVerifiedClaim, Upserted, Now
  <2>2. CASE claims' = claims
    BY Zenon, <1>3, <2>2
  <2> QED BY Zenon, <2>1, <2>2 DEF Next, Loop, GetAllContracts, Audit, Settle, GetPreviousVerified,
         NextIteration, WakeUp, LedgerError, Upload, Receive, CreateContract,
         DeleteFile, Tick, vars, ledgerVars
<1>4. ASSUME NEW c \in claims' PROVE c.time <= clock' + Skew[c.by]
  <2>1. CASE c \in claims
    <3>1. c.time <= clock + Skew[c.by] /\ Skew[c.by] \in Nat /\ c.time \in Nat
      BY Zenon, <1>1, <2>1 DEF ClockInv
    <3> QED BY <1>1, <1>2, <3>1
  <2>2. CASE c.by \in Verifiers /\ c.time = clock' + Skew[c.by]
    BY <1>1, <1>2, <2>2
  <2> QED BY Zenon, <1>3, <1>4, <2>1, <2>2
<1> QED BY Zenon, <1>4 DEF ClockInv

(* Only a claim from the future stops a verifier whose ledger answers.      *)
LEMMA StopOK == ASSUME VerifierInv, [Next]_vars, "ledger" \notin Faults PROVE OnlySlowClocksStop'
<1>1. /\ VerifierTypeOK /\ ClockInv /\ OnlySlowClocksStop /\ clock \in Nat
      /\ \A c \in claims : c.time \in Nat /\ c.by \in Verifiers
      /\ \A u \in Verifiers : Skew[u] \in Nat
  BY Zenon, ClockTypes DEF VerifierInv
<1> SUFFICES ASSUME NEW u \in Verifiers, pc'[u] = "down", pc[u] # "down"
             PROVE  \E t \in Verifiers : Skew[t] > Skew[u]
  BY Zenon, <1>1 DEF OnlySlowClocksStop
<1>2. GetPreviousVerified(u)
  <2>1. PICK v \in Verifiers : Loop(v)
    BY Zenon DEF Next, LedgerError, Upload, Receive, CreateContract,
         DeleteFile, Tick, vars, loopVars
  <2>2. GetPreviousVerified(v)
    BY Zenon, <1>1, <2>1 DEF Loop, GetAllContracts, NextAudit, Audit, Settle, NextIteration,
                      CreateVerifiedClaim, WakeUp, VerifierTypeOK
  <2>3. v = u
    BY Zenon, <1>1, <2>2 DEF GetPreviousVerified, VerifierTypeOK
  <2> QED BY Zenon, <2>2, <2>3
<1>3. PICK last \in claims : FromTheFuture(u, last)
  BY Zenon, <1>1, <1>2 DEF GetPreviousVerified, NextAudit, Latest, Previous, VerifierTypeOK
<1>4. last.time > clock + Skew[u] /\ last.time <= clock + Skew[last.by]
  BY Zenon, <1>1, <1>3 DEF FromTheFuture, Now, ClockInv
<1>5. Skew[last.by] > Skew[u]
  BY <1>1, <1>4
<1> QED BY Zenon, <1>1, <1>5

(* Every step keeps the invariant.                                          *)
LEMMA VerifierInvStep == VerifierInv /\ [Next]_vars => VerifierInv'
<1> SUFFICES ASSUME VerifierInv, [Next]_vars PROVE VerifierInv'
  BY Zenon
<1>1. ClockInv' /\ ("ledger" \notin Faults => OnlySlowClocksStop')
  BY Zenon, ClockOK, StopOK
<1>2. ASSUME NEW v \in Verifiers, Loop(v) \/ LedgerError(v) PROVE VerifierInv'
  <2>1. VerifierTypeOK'
    BY Zenon, <1>2, LoopType
  <2>2. OwnInv(v)'
    BY Zenon, <1>2, GetAllContractsOK, AuditOK, SettleOK, NextIterationOK, RestOK DEF Loop
  <2>3. \A u \in Verifiers : OwnInv(u)'
    BY Zenon, <1>2, <2>2, OthersOK
  <2>4. UNCHANGED <<contracts, created>>
    BY Zenon, <1>2 DEF Loop, LedgerError, GetAllContracts, Audit, Settle, GetPreviousVerified,
                NextIteration, CreateVerifiedClaim, WakeUp, ledgerVars
  <2> QED BY Zenon, <1>1, <2>1, <2>3, <2>4 DEF VerifierInv
<1>3. CASE Surroundings
  <2>1. VerifierTypeOK'
    BY Zenon, <1>3, SurroundingsType
  <2>2. \A u \in Verifiers : OwnInv(u)'
    BY Zenon, <1>3, SurroundingsOK
  <2>3. \A f \in Files : contracts'[f].id <= created'
    BY Zenon, <1>3, ContractIds
  <2> QED BY Zenon, <1>1, <2>1, <2>2, <2>3 DEF VerifierInv
<1> QED BY Zenon, <1>2, <1>3 DEF Next, Surroundings

-----------------------------------------------------------------------------
(* Causes. *)

(* A file of put_to remains one, and what has arrived has arrived.          *)
LEMMA ReplicasLast ==
  ASSUME VerifierInv, [Next]_vars
  PROVE  /\ Arrived \subseteq Arrived'
         /\ \A g \in Files : handler[g] = "put_to" => handler'[g] = "put_to"
<1>1. VerifierTypeOK
  BY Zenon DEF VerifierInv
<1>2. Arrived \subseteq Arrived'
  BY Zenon DEF Arrived, Next, Loop, GetAllContracts, Audit, Settle, GetPreviousVerified, NextIteration,
         CreateVerifiedClaim, WakeUp, LedgerError, Upload, Receive, CreateContract, DeleteFile, Tick,
         vars, ledgerVars
<1>3. ASSUME NEW g \in Files, handler[g] = "put_to" PROVE handler'[g] = "put_to"
  <2>1. ASSUME NEW f \in Files, NEW h, NEW ks, Upload(f, h, ks) PROVE handler'[g] = "put_to"
    BY Zenon, <1>1, <1>3, <2>1 DEF Upload, VerifierTypeOK
  <2>2. CASE handler' = handler
    BY Zenon, <1>3, <2>2
  <2> QED BY Zenon, <2>1, <2>2 DEF Next, Loop, GetAllContracts, Audit, Settle, GetPreviousVerified,
         NextIteration, CreateVerifiedClaim, WakeUp, LedgerError, Receive, CreateContract, DeleteFile,
         Tick, vars, uploadVars
<1> QED BY Zenon, <1>2, <1>3

(* What a verifier may find missing, it may find missing ever after.        *)
LEMMA CausesLast ==
  ASSUME VerifierInv, [Next]_vars, NEW v
  PROVE  MayFail(v) \subseteq MayFail(v)'
<1>1. lost \subseteq lost' /\ hasty \subseteq hasty'
  BY Zenon DEF Next, Loop, GetAllContracts, Audit, Settle, GetPreviousVerified, NextIteration,
         CreateVerifiedClaim, WakeUp, LedgerError, Upload, Receive, CreateContract, DeleteFile, Tick,
         vars, ledgerVars, loopVars
<1>2. \A r \in hasty : r[2] \in Files
  BY DEF VerifierInv, VerifierTypeOK
<1> QED BY Zenon, <1>1, <1>2, ReplicasLast DEF MayFail

(* Uploads write contracts for their keepers only.                          *)
LEMMA UploadInvStep == ASSUME VerifierInv, UploadInv, [Next]_vars PROVE UploadInv'
<1>1. VerifierTypeOK
  BY Zenon DEF VerifierInv
<1>2. ASSUME NEW f \in Files, NEW h \in {"store", "put_to"}, NEW ks, Upload(f, h, ks) PROVE UploadInv'
  BY Zenon, <1>1, <1>2 DEF Upload, UploadInv, VerifierTypeOK
<1>3. ASSUME NEW k \in Keepers, NEW f \in Files, CreateContract(k, f) PROVE UploadInv'
  <2>1. /\ handler' = handler /\ peers' = peers /\ unwritten \in [Files -> SUBSET Keepers]
        /\ unwritten' = [unwritten EXCEPT ![f] = @ \ {k}]
    BY Zenon, <1>1, <1>3 DEF CreateContract, VerifierTypeOK
  <2>2. \A g \in Files : unwritten'[g] \subseteq unwritten[g]
    BY Zenon, <2>1
  <2> QED BY <2>1, <2>2 DEF UploadInv
<1>4. CASE UNCHANGED uploadVars
  BY Zenon, <1>4 DEF uploadVars, UploadInv
<1> QED BY Zenon, <1>2, <1>3, <1>4 DEF Next, Loop, GetAllContracts, Audit, Settle, GetPreviousVerified,
       NextIteration, CreateVerifiedClaim, WakeUp, LedgerError, Receive, DeleteFile, Tick, vars

(* A contract_uuid that is written gets a keeper that has the file, or will *)
(* get it from put_to.                                                      *)
LEMMA ContractCause ==
  ASSUME VerifierInv, Reliable, UploadInv, NEW K \in [1 .. created -> Keepers \X Files], Recorded(K),
         NEW k \in Keepers, NEW f \in Files, CreateContract(k, f)
  PROVE  \E L \in [1 .. created' -> Keepers \X Files] : Recorded(L)'
<1> DEFINE new == [id |-> created + 1, file |-> f, peer |-> k]
<1>1. /\ VerifierTypeOK /\ created \in Nat /\ created' = created + 1
      /\ contracts' = [contracts EXCEPT ![f] = new]
      /\ contracts \in [Files -> Contract \cup {NoContract}]
  <2>1. VerifierTypeOK /\ created \in 0 .. MaxContracts
    BY Zenon DEF VerifierInv, VerifierTypeOK
  <2>2. created \in Nat
    BY <2>1, VerifierAssumption
  <2>3. contracts \in [Files -> Contract \cup {NoContract}]
    BY Zenon, <2>1 DEF VerifierTypeOK
  <2> QED BY Zenon, <2>1, <2>2, <2>3 DEF CreateContract
<1>2. PICK L \in [1 .. created' -> Keepers \X Files] :
        L = [i \in 1 .. created' |-> IF i = created + 1 THEN <<k, f>> ELSE K[i]]
  <2>1. \A i \in 1 .. created' : i # created + 1 => i \in 1 .. created
    BY <1>1
  <2>2. \A i \in 1 .. created' : (IF i = created + 1 THEN <<k, f>> ELSE K[i]) \in Keepers \X Files
    BY Zenon, <2>1
  <2> QED BY Zenon, <2>2
<1>3. /\ \A i \in 1 .. created : i \in 1 .. created' /\ L[i] = K[i]
      /\ \A i \in 1 .. created' : i \in 1 .. created \/ i = created'
      /\ created' \in 1 .. created' /\ L[created'] = <<k, f>>
  BY <1>1, <1>2
<1>4. UNCHANGED <<loopVars, claims, held, lost, handler>>
  BY Zenon DEF CreateContract
<1>5. Arrived' = Arrived /\ \A u : MayFail(u)' = MayFail(u)
  BY Zenon, <1>4 DEF Arrived, MayFail, loopVars
<1>6. \A c \in Rows' : c \in Rows \/ c = new
  <2> HIDE DEF new
  <2>1. \A g \in Files : contracts'[g] = IF g = f THEN new ELSE contracts[g]
    BY Zenon, <1>1
  <2> QED BY Zenon, <2>1 DEF Rows
<1>7. <<k, f>> \in Arrived \/ handler[f] = "put_to"
  <2>1. /\ k \in unwritten[f] /\ unwritten[f] \subseteq peers[f] /\ handler[f] # "none"
        /\ handler[f] \in {"none", "store", "put_to"}
    <3>1. k \in unwritten[f] /\ handler \in [Files -> {"none", "store", "put_to"}]
      BY Zenon, <1>1 DEF CreateContract, VerifierTypeOK
    <3>2. unwritten[f] \subseteq peers[f] /\ (handler[f] = "none" => unwritten[f] = {})
      BY Zenon DEF UploadInv
    <3> QED BY Zenon, <3>1, <3>2
  <2>2. CASE handler[f] = "store"
    <3>1. {j \in peers[f] : <<j, f>> \in Arrived} = peers[f]
      BY Zenon, <2>2 DEF CreateContract, MayWrite, PutReturned, Reliable
    <3> QED BY Zenon, <2>1, <3>1
  <2> QED BY Zenon, <2>1, <2>2
<1>8. \A i \in 1 .. created' : L[i] \in Arrived \/ handler[L[i][2]] = "put_to"
  <2>1. <<k, f>>[2] = f
    OBVIOUS
  <2>2. \A i \in 1 .. created : K[i] \in Arrived \/ handler[K[i][2]] = "put_to"
    BY Zenon DEF Recorded
  <2> QED BY Zenon, <1>3, <1>7, <2>1, <2>2
<1>9. new.id \in 1 .. created' /\ L[new.id] = Replica(new)
  BY <1>1, <1>3 DEF Replica
<1> HIDE DEF new
<1>10. \A c \in Rows' : c.id \in 1 .. created' /\ L[c.id] = Replica(c)
  BY Zenon, <1>3, <1>6, <1>9 DEF Recorded
<1>11. ASSUME NEW u \in Verifiers
       PROVE  /\ \A c \in todo[u] : c.id \in 1 .. created' /\ L[c.id] = Replica(c)
              /\ pc[u] \in {"settle", "previous"} =>
                   /\ current[u].id \in 1 .. created' /\ L[current[u].id] = Replica(current[u])
                   /\ is_success[u] \/ L[current[u].id] \in MayFail(u)
              /\ \A j \in 1 .. Len(audits[u]) :
                   /\ audits[u][j].contract \in 1 .. created'
                   /\ audits[u][j].succeeded \/ L[audits[u][j].contract] \in MayFail(u)
  BY Zenon, <1>3 DEF Recorded
<1>12. \A c \in claims : /\ c.contract \in 1 .. created'
                         /\ c.by \in Corrupt \/ c.succeeded \/ L[c.contract] \in MayFail(c.by)
  BY Zenon, <1>3 DEF Recorded
<1>13. Recorded(L)'
  BY Zenon, <1>4, <1>5, <1>8, <1>10, <1>11, <1>12 DEF Recorded, Replica, loopVars
<1> QED BY Zenon, <1>13

(* A failed audit is of the node itself, of a file that was lost, or of one *)
(* that put_to has not put; and nobody changes what a contract says.        *)
LEMMA AuditCause ==
  ASSUME VerifierInv, Reliable, NEW K, Recorded(K), NEW v \in Verifiers,
         GetAllContracts(v) \/ Audit(v)
  PROVE  Recorded(K)'
<1>1. VerifierTypeOK
  BY Zenon DEF VerifierInv
<1>2. /\ UNCHANGED <<handler, contracts, created, held, lost, claims, audits>>
      /\ Rows' = Rows /\ Arrived' = Arrived
      /\ \A u \in Verifiers : u # v => /\ pc'[u] = pc[u] /\ todo'[u] = todo[u]
                                       /\ current'[u] = current[u]
                                       /\ is_success'[u] = is_success[u]
  BY <1>1 DEF GetAllContracts, Audit, uploadVars, ledgerVars, Rows, Arrived, VerifierTypeOK
<1>3. \A u, p : p \in MayFail(u) => p \in MayFail(u)'
  BY Zenon, CausesLast DEF Next, Loop
<1>4. CASE GetAllContracts(v)
  <2>1. todo'[v] \subseteq Rows /\ pc'[v] \notin {"settle", "previous"}
    BY Zenon, <1>1, <1>4 DEF GetAllContracts, NextAudit, VerifierTypeOK
  <2> QED BY Zenon, <1>2, <1>3, <2>1 DEF Recorded, Replica
<1>5. CASE Audit(v)
  <2>1. PICK c \in todo[v] : /\ current' = [current EXCEPT ![v] = c]
                             /\ todo' = [todo EXCEPT ![v] = @ \ {c}]
                             /\ hasty' = hasty \cup ({Replica(c)} \ Arrived)
                             /\ \E ok \in AuditOutcomes(v, c) :
                                  is_success' = [is_success EXCEPT ![v] = ok]
    BY Zenon, <1>5 DEF Audit
  <2>2. PICK ok \in AuditOutcomes(v, c) : is_success' = [is_success EXCEPT ![v] = ok]
    BY Zenon, <2>1
  <2>3. current'[v] = c /\ todo'[v] = todo[v] \ {c} /\ is_success'[v] = ok
    BY Zenon, <1>1, <2>1, <2>2 DEF VerifierTypeOK
  <2>4. /\ c.id \in 1 .. created /\ K[c.id] = Replica(c)
        /\ K[c.id] \in Arrived \/ handler[K[c.id][2]] = "put_to"
    BY Zenon DEF Recorded
  <2>5. ok \/ K[c.id] \in MayFail(v)'
    <3>1. CASE v = c.peer
      <4>1. c \in Contract
        BY Zenon, <1>1 DEF VerifierTypeOK
      <4>2. c.file \in Files
        BY Zenon, <4>1 DEF Contract
      <4> QED BY Zenon, <2>4, <3>1, <4>2 DEF MayFail, Replica
    <3>2. CASE Replica(c) \in lost
      BY Zenon, <1>2, <2>4, <3>2 DEF MayFail
    <3>3. CASE Replica(c) \notin Arrived
      BY Zenon, <1>2, <2>1, <2>4, <3>3 DEF MayFail
    <3>4. ok \/ v = c.peer \/ Replica(c) \notin held
      BY Zenon, AuditOutcome
    <3> QED BY Zenon, <3>1, <3>2, <3>3, <3>4 DEF Arrived
  <2>6. ASSUME NEW u \in Verifiers
        PROVE  /\ \A d \in todo'[u] : d.id \in 1 .. created /\ K[d.id] = Replica(d)
               /\ pc'[u] \in {"settle", "previous"} =>
                    /\ current'[u].id \in 1 .. created /\ K[current'[u].id] = Replica(current'[u])
                    /\ is_success'[u] \/ K[current'[u].id] \in MayFail(u)'
    <3>1. CASE u = v
      BY Zenon, <2>3, <2>4, <2>5, <3>1 DEF Recorded
    <3>2. CASE u # v
      BY Zenon, <1>2, <1>3, <3>2 DEF Recorded
    <3> QED BY Zenon, <3>1, <3>2
  <2> QED BY Zenon, <1>2, <1>3, <2>6 DEF Recorded, Replica
<1> QED BY Zenon, <1>4, <1>5

(* A result is what the audit found, and an honest claim is a result.       *)
LEMMA ClaimCause ==
  ASSUME VerifierInv, NEW K, Recorded(K), NEW v \in Verifiers,
         Settle(v) \/ CreateVerifiedClaim(v)
  PROVE  Recorded(K)'
<1> DEFINE Results == [contract : 1 .. MaxContracts, succeeded : BOOLEAN]
<1>1. VerifierTypeOK /\ LoopInv(v) /\ audits[v] \in Seq(Results)
  BY Zenon DEF VerifierInv, VerifierTypeOK, OwnInv
<1>2. UNCHANGED <<handler, contracts, created, held, lost, hasty, todo, current, is_success>>
  BY Zenon DEF Settle, CreateVerifiedClaim, uploadVars
<1>3. Rows' = Rows /\ Arrived' = Arrived /\ \A u : MayFail(u)' = MayFail(u)
  BY Zenon, <1>2 DEF Rows, Arrived, MayFail
<1>4. \A u \in Verifiers : u # v => pc'[u] = pc[u] /\ audits'[u] = audits[u]
  BY Zenon, <1>1 DEF Settle, CreateVerifiedClaim, VerifierTypeOK
<1>5. CASE Settle(v)
  <2> DEFINE a == [contract |-> current[v].id, succeeded |-> is_success[v]]
  <2>1. pc[v] = "settle" /\ audits'[v] = Append(audits[v], a) /\ claims' = claims
    BY Zenon, <1>1, <1>5 DEF Settle, VerifierTypeOK
  <2>2. a.contract \in 1 .. created /\ (a.succeeded \/ K[a.contract] \in MayFail(v))
    BY Zenon, <2>1 DEF Recorded
  <2>3. \A j \in 1 .. Len(audits'[v]) :
          audits'[v][j] = a \/ (j \in 1 .. Len(audits[v]) /\ audits'[v][j] = audits[v][j])
    <3> HIDE DEF a
    <3> QED BY <1>1, <2>1
  <2> HIDE DEF a
  <2>4. \A j \in 1 .. Len(audits'[v]) :
          /\ audits'[v][j].contract \in 1 .. created
          /\ audits'[v][j].succeeded \/ K[audits'[v][j].contract] \in MayFail(v)
    BY Zenon, <2>2, <2>3 DEF Recorded
  <2> QED BY Zenon, <1>2, <1>4, <1>3, <2>1, <2>4 DEF Recorded, Replica
<1>6. CASE CreateVerifiedClaim(v)
  <2> DEFINE a == Head(audits[v])
             claim == [contract |-> a.contract, by |-> v,
                       succeeded |-> ClaimOf(v, a.succeeded), time |-> Now(v)]
  <2>1. audits[v] # <<>> /\ audits'[v] = Tail(audits[v]) /\ pc'[v] \in {"sleep", "claims"}
    BY Zenon, <1>1, <1>6 DEF CreateVerifiedClaim, LoopInv, VerifierTypeOK, RemainingAudits
  <2>2. claims' \subseteq claims \cup {claim}
    BY Zenon, <1>6 DEF CreateVerifiedClaim, Upserted
  <2>3. a = audits[v][1] /\ 1 \in 1 .. Len(audits[v])
    BY <1>1, <2>1, AuditsSplit
  <2>4. a.contract \in 1 .. created /\ (a.succeeded \/ K[a.contract] \in MayFail(v))
    BY Zenon, <2>3 DEF Recorded
  <2>5. /\ claim.contract \in 1 .. created
        /\ claim.by \in Corrupt \/ claim.succeeded \/ K[claim.contract] \in MayFail(claim.by)
    BY Zenon, <2>4 DEF ClaimOf
  <2>6. \A j \in 1 .. Len(audits'[v]) :
          j + 1 \in 1 .. Len(audits[v]) /\ audits'[v][j] = audits[v][j + 1]
    BY <1>1, <2>1, AuditsSplit
  <2> HIDE DEF a, claim
  <2>7. \A j \in 1 .. Len(audits'[v]) :
          /\ audits'[v][j].contract \in 1 .. created
          /\ audits'[v][j].succeeded \/ K[audits'[v][j].contract] \in MayFail(v)
    BY Zenon, <2>6 DEF Recorded
  <2>8. \A c \in claims' : /\ c.contract \in 1 .. created
                           /\ c.by \in Corrupt \/ c.succeeded \/ K[c.contract] \in MayFail(c.by)
    BY Zenon, <2>2, <2>5 DEF Recorded
  <2> QED BY Zenon, <1>2, <1>4, <1>3, <2>1, <2>7, <2>8 DEF Recorded, Replica
<1> QED BY Zenon, <1>5, <1>6

(* The other steps change neither contracts nor results.                    *)
LEMMA OtherCause ==
  ASSUME VerifierInv, NEW K \in [1 .. created -> Keepers \X Files], Recorded(K), [Next]_vars,
         \/ \E v \in Verifiers : GetPreviousVerified(v) \/ NextIteration(v) \/ WakeUp(v) \/ LedgerError(v)
         \/ Surroundings /\ ~\E k \in Keepers, f \in Files : CreateContract(k, f)
  PROVE  Recorded(K)'
<1>1. VerifierTypeOK
  BY Zenon DEF VerifierInv
<1>2. UNCHANGED <<contracts, created, todo, current, is_success, audits, claims>>
  BY Zenon DEF GetPreviousVerified, NextIteration, WakeUp, LedgerError, Surroundings, Upload, Receive,
         DeleteFile, Tick, vars, ledgerVars, loopVars
<1>3. Rows' = Rows
  BY Zenon, <1>2 DEF Rows
<1>4. \A u \in Verifiers : pc'[u] \in {"settle", "previous"} => pc'[u] = pc[u]
  <2>1. ASSUME NEW v \in Verifiers, NEW l, l \notin {"settle", "previous"}, pc' = [pc EXCEPT ![v] = l]
        PROVE  \A u \in Verifiers : pc'[u] \in {"settle", "previous"} => pc'[u] = pc[u]
    BY Zenon, <1>1, <2>1 DEF VerifierTypeOK
  <2>2. CASE UNCHANGED pc
    BY Zenon, <2>2
  <2> QED BY Zenon, <2>1, <2>2 DEF GetPreviousVerified, NextIteration, WakeUp, LedgerError, NextAudit,
                           Surroundings, Upload, Receive, DeleteFile, Tick, vars, loopVars
<1>5. \A u, p : p \in MayFail(u) => p \in MayFail(u)'
  BY Zenon, CausesLast
<1>6. \A i \in 1 .. created : K[i] \in Arrived' \/ handler'[K[i][2]] = "put_to"
  <2>1. \A i \in 1 .. created : K[i][2] \in Files
    OBVIOUS
  <2> QED BY Zenon, <2>1, ReplicasLast DEF Recorded
<1> QED BY Zenon, <1>2, <1>3, <1>4, <1>5, <1>6 DEF Recorded, Replica

(* Of two results that contradict each other one is a failure: of this      *)
(* audit, of an honest one before it, or claimed by a corrupt verifier.     *)
LEMMA AlarmOK ==
  ASSUME VerifierInv, NEW K, Recorded(K), AlarmsHaveACause, [Next]_vars
  PROVE  AlarmsHaveACause'
<1>1. VerifierTypeOK
  BY Zenon DEF VerifierInv
<1>2. \A u, p : p \in MayFail(u) => p \in MayFail(u)'
  BY Zenon, CausesLast
<1>3. ASSUME NEW v \in Verifiers, GetPreviousVerified(v), NEW a \in caught', a \notin caught
      PROVE  a.claimer \in Corrupt \/ Replica(a.contract) \in MayFail(a.by) \cup MayFail(a.claimer)
  <2>1. PICK last \in claims : /\ last.contract = current[v].id /\ last.succeeded # is_success[v]
                               /\ a = [by |-> v, claimer |-> last.by, contract |-> current[v]]
    BY Zenon, <1>3 DEF GetPreviousVerified, Latest, Previous
  <2>2. /\ K[current[v].id] = Replica(current[v])
        /\ is_success[v] \/ K[current[v].id] \in MayFail(v)
    BY Zenon, <1>3 DEF GetPreviousVerified, Recorded
  <2>3. last.by \in Corrupt \/ last.succeeded \/ K[last.contract] \in MayFail(last.by)
    BY Zenon, <2>1 DEF Recorded
  <2>4. last.succeeded \in BOOLEAN /\ is_success[v] \in BOOLEAN
    BY Zenon, <1>1, <2>1 DEF VerifierTypeOK, Claim
  <2>5. last.by \in Corrupt \/ K[current[v].id] \in MayFail(v) \cup MayFail(last.by)
    BY Zenon, <2>1, <2>2, <2>3, <2>4
  <2>6. a.by = v /\ a.claimer = last.by /\ a.contract = current[v]
    BY Zenon, <2>1
  <2> QED BY Zenon, <2>2, <2>5, <2>6
<1>4. caught' = caught \/ \E v \in Verifiers : GetPreviousVerified(v)
  BY Zenon DEF Next, Loop, GetAllContracts, Audit, Settle, NextIteration, CreateVerifiedClaim, WakeUp,
         LedgerError, Upload, Receive, CreateContract, DeleteFile, Tick, vars, loopVars
<1>5. ASSUME NEW a \in caught'
      PROVE  a.claimer \in Corrupt \/ Replica(a.contract) \in MayFail(a.by) \cup MayFail(a.claimer)
  <2>1. CASE a \in caught
    BY Zenon, <2>1 DEF AlarmsHaveACause
  <2>2. CASE a \notin caught
    BY Zenon, <1>3, <1>4, <1>5, <2>2
  <2> QED BY Zenon, <2>1, <2>2
<1> QED BY Zenon, <1>2, <1>5 DEF AlarmsHaveACause, Replica

(* Every step keeps the causes.                                             *)
LEMMA CauseInvStep == VerifierInv /\ CauseInv /\ [Next]_vars => CauseInv'
<1> SUFFICES ASSUME VerifierInv, CauseInv, [Next]_vars, Reliable
             PROVE  /\ UploadInv'
                    /\ \E L \in [1 .. created' -> Keepers \X Files] : Recorded(L)'
                    /\ AlarmsHaveACause'
  BY Zenon DEF CauseInv, Reliable
<1>1. PICK K \in [1 .. created -> Keepers \X Files] : Recorded(K)
  BY Zenon DEF CauseInv
<1>2. UploadInv' /\ AlarmsHaveACause'
  BY Zenon, <1>1, UploadInvStep, AlarmOK DEF CauseInv
<1>3. CASE \E k \in Keepers, f \in Files : CreateContract(k, f)
  BY Zenon, <1>1, <1>2, <1>3, ContractCause DEF CauseInv
<1>4. CASE ~ \E k \in Keepers, f \in Files : CreateContract(k, f)
  <2>1. Surroundings \/ \E v \in Verifiers : Loop(v) \/ LedgerError(v)
    BY Zenon DEF Next, Surroundings
  <2>2. Recorded(K)'
    BY Zenon, <1>1, <1>4, <2>1, AuditCause, ClaimCause, OtherCause DEF Loop
  <2>3. created' = created
    BY Zenon, <1>4 DEF Next, Loop, GetAllContracts, Audit, Settle, GetPreviousVerified, NextIteration,
                CreateVerifiedClaim, WakeUp, LedgerError, Upload, Receive, DeleteFile, Tick, vars,
                ledgerVars
  <2> QED BY Zenon, <1>1, <1>2, <2>2, <2>3
<1> QED BY Zenon, <1>3, <1>4

-----------------------------------------------------------------------------
(* The inductive invariants hold in every reachable state.                  *)
THEOREM VerifierInvariant == Spec => [](VerifierInv /\ CauseInv)
<1>1. Init => VerifierInv /\ CauseInv
  <2> SUFFICES ASSUME Init PROVE VerifierInv /\ CauseInv
    BY Zenon
  <2>1. FirstWindow \in Window /\ WindowInv(FirstWindow, 0 .. FirstWindow.ending_uuid)
    BY Zenon, FirstWindowInv DEF WindowInv
  <2>2. Rows = {}
    BY Zenon DEF Init, Rows
  <2>3. VerifierTypeOK
    BY <2>1, VerifierAssumption DEF Init, VerifierTypeOK
  <2>4. \A v \in Verifiers : OwnInv(v)
    BY Zenon, <2>1, <2>2 DEF Init, OwnInv, LoopInv, RoundInv, EarnedInv, Auditing
  <2>5. VerifierInv
    BY <2>3, <2>4 DEF Init, VerifierInv, ClockInv, OnlySlowClocksStop, NoContract
  <2>6. PICK K \in [1 .. created -> Keepers \X Files] : TRUE
    <3>1. 1 .. created = {}
      BY DEF Init
    <3>2. [i \in {} |-> i] \in [{} -> Keepers \X Files]
      BY Zenon
    <3> QED BY Zenon, <3>1, <3>2
  <2>7. Recorded(K)
    BY <2>2 DEF Init, Recorded
  <2>8. UploadInv
    BY Zenon DEF Init, UploadInv
  <2> QED BY Zenon, <2>5, <2>6, <2>7, <2>8 DEF CauseInv, AlarmsHaveACause, Init
<1> QED BY <1>1, VerifierInvStep, CauseInvStep, PTL DEF Spec

(* The tables and the fields of every verifier keep their shape, the        *)
(* windows within the key space of u128 uuids.                              *)
THEOREM VerifierTypeCorrect == Spec => []VerifierTypeOK
<1>1. VerifierInv => VerifierTypeOK
  BY Zenon DEF VerifierInv
<1> QED BY <1>1, VerifierInvariant, PTL

(* A verifier that leaves the last part of its round has audited every      *)
(* contract that was in the table when the round began and still is.        *)
THEOREM VerifierForgetsNothing == Spec => []RoundAuditsEveryContract
<1>1. VerifierInv => RoundAuditsEveryContract
  <2> SUFFICES ASSUME VerifierInv, NEW v \in Verifiers, pc[v] = "next_iteration",
                      RoundEnds(window[v].iteration), NEW c \in owed[v] \cap Rows
               PROVE  FALSE
    BY Zenon DEF RoundAuditsEveryContract
  <2>1. VerifierTypeOK /\ OwnInv(v) /\ window[v] \in Window
    BY Zenon DEF VerifierInv, OwnInv, WindowInv
  <2>2. window[v].ending_uuid = MaxUuid
    BY <2>1, KeySpaceAssumption DEF OwnInv, WindowInv, RoundEnds, Window
  <2>3. c.file > MaxUuid
    BY Zenon, <2>1, <2>2 DEF OwnInv, RoundInv, LoopInv, Auditing
  <2>4. c.file \in Uuid
    BY Zenon, <2>1, RowsType, VerifierAssumption DEF Contract
  <2> QED BY <2>3, <2>4, KeySpaceAssumption DEF Uuid
<1> QED BY <1>1, VerifierInvariant, PTL

(* While puts reach their keepers and audits answer for what is there,      *)
(* every "caught cheating" is about a corrupt verifier's claim, or one of   *)
(* the two audits was of the node itself, of a file that was lost, or of    *)
(* one that put_to had not put yet.                                         *)
THEOREM VerifierAlarms == ASSUME Reliable PROVE Spec => []AlarmsHaveACause
<1>1. CauseInv => AlarmsHaveACause
  BY Zenon DEF CauseInv
<1> QED BY <1>1, VerifierInvariant, PTL

(* While the ledger answers, only a clock that is behind stops a verifier.  *)
THEOREM VerifierStops == ASSUME "ledger" \notin Faults PROVE Spec => []OnlySlowClocksStop
<1>1. VerifierInv => OnlySlowClocksStop
  BY Zenon DEF VerifierInv
<1> QED BY <1>1, VerifierInvariant, PTL

(* A reputation changes only when an audit is settled, by its amount.       *)
LEMMA ReputationMoves ==
  ASSUME VerifierInv, [Next]_vars, NEW k \in Keepers, reputation'[k] # reputation[k]
  PROVE  \E v \in Verifiers : /\ Settles(v, k) /\ current[v] \in Contract
                              /\ is_success[v] \in BOOLEAN /\ reputation[k] \in Int
                              /\ reputation'[k] = reputation[k] + AuditAmount(is_success[v])
<1>1. PICK v \in Verifiers : Settle(v)
  BY Zenon DEF Next, Loop, GetAllContracts, Audit, GetPreviousVerified, NextIteration,
         CreateVerifiedClaim, WakeUp, LedgerError, Upload, Receive, CreateContract, DeleteFile, Tick,
         vars, ledgerVars
<1>2. VerifierTypeOK /\ LoopInv(v)
  BY Zenon DEF VerifierInv, OwnInv
<1>3. /\ pc[v] = "settle" /\ current[v] \in Contract /\ is_success[v] \in BOOLEAN
      /\ reputation \in [Keepers -> Int] /\ pc'[v] = "previous"
  BY Zenon, <1>1, <1>2 DEF Settle, LoopInv, VerifierTypeOK
<1>4. PICK applied : reputation' = [reputation EXCEPT ![current[v].peer] =
                       IF applied THEN @ + AuditAmount(is_success[v]) ELSE @]
  BY Zenon, <1>1 DEF Settle
<1>5. current[v].peer = k /\ reputation'[k] = reputation[k] + AuditAmount(is_success[v])
  BY Zenon, <1>3, <1>4
<1> QED BY Zenon, <1>3, <1>5 DEF Settles

(* Whatever fails, a keeper is rewarded by another node only, for a file    *)
(* that has arrived.                                                        *)
THEOREM VerifierRewards == Spec => RewardsEarned
<1>1. ASSUME VerifierInv, [Next]_vars, NEW k \in Keepers, reputation'[k] > reputation[k]
      PROVE  \E v \in Verifiers \ {k} : Settles(v, k) /\ Replica(current[v]) \in Arrived
  <2>1. PICK v \in Verifiers : /\ Settles(v, k) /\ current[v] \in Contract
                               /\ is_success[v] \in BOOLEAN /\ reputation[k] \in Int
                               /\ reputation'[k] = reputation[k] + AuditAmount(is_success[v])
    <3>1. VerifierTypeOK
      BY Zenon, <1>1 DEF VerifierInv
    <3>2. reputation[k] \in Int
      BY Zenon, <3>1 DEF VerifierTypeOK
    <3>3. reputation'[k] # reputation[k]
      BY <1>1, <3>2
    <3> QED BY Zenon, <1>1, <3>3, ReputationMoves
  <2>2. is_success[v]
    BY <1>1, <2>1, VerifierAssumption DEF AuditAmount
  <2>3. v # k /\ Replica(current[v]) \in Arrived
    BY Zenon, <1>1, <2>1, <2>2 DEF VerifierInv, OwnInv, EarnedInv, Settles
  <2> QED BY Zenon, <2>1, <2>3
<1>2. VerifierInv /\ [Next]_vars
        => [\A k \in Keepers : reputation'[k] > reputation[k]
              => \E v \in Verifiers \ {k} : Settles(v, k) /\ Replica(current[v]) \in Arrived]_vars
  BY Zenon, <1>1
<1> QED BY <1>2, VerifierInvariant, PTL DEF Spec, RewardsEarned

(* While puts reach their keepers and audits answer for what is there, a    *)
(* keeper is punished only by a verifier that may find the replica missing: *)
(* it was lost, put_to had not put it yet, or the keeper audits itself.     *)
THEOREM VerifierPunishes == ASSUME Reliable PROVE Spec => PunishedOnlyForCause
<1>1. ASSUME VerifierInv, CauseInv, [Next]_vars, NEW k \in Keepers, reputation'[k] < reputation[k]
      PROVE  \E v \in Verifiers : Settles(v, k) /\ Replica(current[v]) \in MayFail(v)
  <2>1. PICK v \in Verifiers : /\ Settles(v, k) /\ current[v] \in Contract
                               /\ is_success[v] \in BOOLEAN /\ reputation[k] \in Int
                               /\ reputation'[k] = reputation[k] + AuditAmount(is_success[v])
    <3>1. VerifierTypeOK
      BY Zenon, <1>1 DEF VerifierInv
    <3>2. reputation[k] \in Int
      BY Zenon, <3>1 DEF VerifierTypeOK
    <3>3. reputation'[k] # reputation[k]
      BY <1>1, <3>2
    <3> QED BY Zenon, <1>1, <3>3, ReputationMoves
  <2>2. ~is_success[v]
    BY <1>1, <2>1, VerifierAssumption DEF AuditAmount
  <2>3. PICK K : Recorded(K)
    BY Zenon, <1>1 DEF CauseInv
  <2>4. Replica(current[v]) \in MayFail(v)
    BY Zenon, <2>1, <2>2, <2>3 DEF Recorded, Settles
  <2> QED BY Zenon, <2>1, <2>4
<1>2. VerifierInv /\ CauseInv /\ [Next]_vars
        => [\A k \in Keepers : reputation'[k] < reputation[k]
              => \E v \in Verifiers : Settles(v, k) /\ Replica(current[v]) \in MayFail(v)]_vars
  BY Zenon, <1>1
<1> QED BY <1>2, VerifierInvariant, PTL DEF Spec, PunishedOnlyForCause

(* The instance of Rotation divides the same key space.                     *)
LEMMA SameKeySpace ==
  /\ Rotating!FirstWindow = FirstWindow
  /\ \A w : Rotating!NextWindow(w) = NextWindow(w) /\ Rotating!UuidsOf(w) = UuidsOf(w)
BY Zenon DEF Rotating!FirstWindow, Rotating!NextWindow, Rotating!UuidsOf, Rotating!Share,
       Rotating!RoundEnds, Rotating!NextStart, Rotating!PartEnd, Rotating!U128Add, Rotating!Uuid,
       FirstWindow, NextWindow, UuidsOf, Share, RoundEnds, NextStart, PartEnd, U128Add, Uuid

(* The audit loop moves its windows as Rotation does: once a cycle, and by  *)
(* next_iteration, so that what is proved of Rotation holds of the loop.    *)
THEOREM VerifierRotates == Spec => RotationImplemented
<1>1. Init => Rotating!Init
  <2>1. Init => window = [v \in Verifiers |-> FirstWindow]
    BY Zenon DEF Init
  <2> QED BY Zenon, <2>1, SameKeySpace, FirstWindowInv DEF Rotating!Init, WindowInv
<1>2. VerifierInv /\ [Next]_vars => [Rotating!Next]_Rotating!rotationVars
  <2> SUFFICES ASSUME VerifierInv, [Next]_vars, window' # window PROVE Rotating!Next
    BY Zenon DEF Rotating!rotationVars
  <2>1. PICK v \in Verifiers : NextIteration(v)
    BY Zenon DEF Next, Loop, GetAllContracts, Audit, Settle, GetPreviousVerified, CreateVerifiedClaim,
           WakeUp, LedgerError, Upload, Receive, CreateContract,
         DeleteFile, Tick, vars, loopVars
  <2> DEFINE n == NextWindow(window[v])
             covered == [u \in Verifiers |-> 0 .. window[u].ending_uuid]
  <2>2. window \in [Verifiers -> Window] /\ window' = [window EXCEPT ![v] = n]
    BY Zenon, <2>1 DEF VerifierInv, VerifierTypeOK, NextIteration
  <2>3. UuidsOf(n) \cup (IF n.iteration = 0 THEN {} ELSE 0 .. window[v].ending_uuid) = 0 .. n.ending_uuid
    BY Zenon, NextWindowInv DEF VerifierInv, OwnInv, WindowInv
  <2>4. [u \in Verifiers |-> 0 .. window'[u].ending_uuid]
          = [covered EXCEPT ![v] = UuidsOf(n) \cup (IF n.iteration = 0 THEN {} ELSE covered[v])]
    BY Zenon, <2>2, <2>3
  <2>5. Rotating!NextIteration(v)
    BY Zenon, <2>2, <2>4, SameKeySpace DEF Rotating!NextIteration
  <2> QED BY Zenon, <2>5 DEF Rotating!Next
<1> QED BY <1>1, <1>2, VerifierInvariant, PTL DEF Spec, RotationImplemented, Rotating!Moves
=============================================================================
