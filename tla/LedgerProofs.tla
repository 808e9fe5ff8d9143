---------------------------- MODULE LedgerProofs ----------------------------
(***************************************************************************)
(* Proofs about reputation updates, for any number of nodes and peers, any *)
(* amounts, and RPCs that fail or lose their reply anywhere.               *)
(***************************************************************************)
EXTENDS Ledger, TLAPS

InTx == {"select", "upsert", "commit"}

(* A call in progress holds a session, and has not taken effect before its  *)
(* commit.                                                                  *)
CallsInv == \A n \in Nodes : /\ pc[n] # "idle" => sessions[n] >= 1
                             /\ pc[n] \in {"new_tx"} \cup InTx => ~applied[n]

(* The inductive invariant of the reputation updates. *)
LedgerInv == LedgerTypeOK /\ ReadsAreCurrent /\ OnlyErrorsLeakSessions /\ CallsInv

-----------------------------------------------------------------------------
(* Proceed keeps the types of what it changes, and changes only node n.     *)
LEMMA ProceedType ==
  ASSUME NEW n \in Nodes, NEW outcome, NEW step \in Steps, LedgerTypeOK,
         Proceed(n, outcome, step)
  PROVE  /\ pc' \in [Nodes -> Steps]
         /\ result' \in [Nodes -> {"none", "ok", "err"}]
         /\ errors' \in [Nodes -> Nat]
         /\ \A m \in Nodes \ {n} : pc'[m] = pc[m] /\ errors'[m] = errors[m]
         /\ pc'[n] \in {step, "idle"}
         /\ outcome = "reply" => pc'[n] = step /\ errors'[n] = errors[n]
         /\ outcome # "reply" => pc'[n] = "idle" /\ errors'[n] = errors[n] + 1
BY DEF Proceed, LedgerTypeOK, Steps

(* The first RPC of a call keeps the invariant. *)
LEMMA OpenSessionInv ==
  ASSUME NEW n \in Nodes, LedgerInv, OpenSession(n)
  PROVE  LedgerInv'
<1>1. PICK p \in Peers, amount \in Amounts, outcome \in Outcomes :
        /\ job' = [job EXCEPT ![n] = [peer |-> p, amount |-> amount]]
        /\ sessions' = [sessions EXCEPT ![n] = IF outcome = "refused" THEN @ ELSE @ + 1]
        /\ Proceed(n, outcome, "new_tx")
  BY Zenon DEF OpenSession, SessionOpened
<1>2. "new_tx" \in Steps
  BY Zenon DEF Steps
<1>3. LedgerTypeOK'
  <2>1. sessions' \in [Nodes -> Nat] /\ made' \in [Nodes -> 0 .. MaxCalls]
    BY <1>1, LedgerAssumption DEF LedgerInv, LedgerTypeOK, OpenSession
  <2>2. job' \in [Nodes -> Jobs]
    BY Zenon, <1>1 DEF LedgerInv, LedgerTypeOK, Jobs
  <2>. QED
    BY Zenon, <1>1, <1>2, <2>1, <2>2, ProceedType DEF LedgerInv, LedgerTypeOK, OpenSession
<1>4. ReadsAreCurrent'
  BY <1>1, <1>2, ProceedType
  DEF LedgerInv, LedgerTypeOK, ReadsAreCurrent, OpenSession
<1>5. OnlyErrorsLeakSessions' /\ CallsInv'
  <2>1. \A m \in Nodes : sessions[m] \in Nat /\ errors[m] \in Nat
    BY Zenon DEF LedgerInv, LedgerTypeOK
  <2>2. sessions'[n] <= errors'[n] + (IF pc'[n] = "idle" THEN 0 ELSE 1)
    BY <1>1, <1>2, <2>1, ProceedType
    DEF LedgerInv, LedgerTypeOK, OnlyErrorsLeakSessions, OpenSession
  <2>3. pc'[n] # "idle" => sessions'[n] >= 1
    BY <1>1, <1>2, <2>1, ProceedType DEF LedgerInv, LedgerTypeOK
  <2>4. ~applied'[n]
    BY Zenon DEF LedgerInv, LedgerTypeOK, OpenSession
  <2>5. \A m \in Nodes \ {n} : /\ sessions'[m] = sessions[m] /\ errors'[m] = errors[m]
                               /\ pc'[m] = pc[m] /\ applied'[m] = applied[m]
    BY Zenon, <1>1, <1>2, ProceedType DEF LedgerInv, LedgerTypeOK, OpenSession
  <2>. QED
    BY Zenon, <2>2, <2>3, <2>4, <2>5 DEF LedgerInv, OnlyErrorsLeakSessions, CallsInv
<1>. QED
  BY Zenon, <1>3, <1>4, <1>5 DEF LedgerInv

(* RPCs that change neither a session nor the table keep the invariant, if  *)
(* the snapshot a transaction starts with is the row of the table.          *)
LEMMA MiddleInv ==
  ASSUME NEW n \in Nodes, LedgerInv, NewTx(n) \/ Select(n) \/ Upsert(n)
  PROVE  LedgerInv'
<1>1. PICK outcome \in Outcomes \cup {"reply"}, step \in InTx : Proceed(n, outcome, step)
  BY Zenon DEF NewTx, Select, Upsert, InTx
<1>2. step \in Steps /\ step # "idle"
  BY Zenon DEF Steps, InTx
<1>3. UNCHANGED <<reputation, job, sessions, made, applied>>
  BY Zenon DEF NewTx, Select, Upsert
<1>4. pc[n] \in {"new_tx"} \cup InTx
  BY Zenon DEF NewTx, Select, Upsert, InTx
<1>5. LedgerTypeOK'
  <2>1. reputation[job[n].peer] \in Int
    BY Zenon DEF LedgerInv, LedgerTypeOK, Jobs
  <2>2. snapshot' \in [Nodes -> Int] /\ stale' \subseteq Nodes
    BY Zenon, <2>1 DEF LedgerInv, LedgerTypeOK, NewTx, Select, Upsert
  <2>3. pending' \in [Nodes -> BOOLEAN]
    BY Zenon DEF LedgerInv, LedgerTypeOK, NewTx, Select, Upsert
  <2>4. /\ pc' \in [Nodes -> Steps] /\ result' \in [Nodes -> {"none", "ok", "err"}]
        /\ errors' \in [Nodes -> Nat]
    BY Zenon, <1>1, <1>2, ProceedType DEF LedgerInv
  <2>. QED
    BY Zenon, <1>3, <2>2, <2>3, <2>4 DEF LedgerInv, LedgerTypeOK
<1>6. ReadsAreCurrent'
  <2>1. \A m \in Nodes \ {n} : /\ pc'[m] = pc[m] /\ snapshot'[m] = snapshot[m]
                               /\ m \in stale' <=> m \in stale
    BY <1>1, <1>2, ProceedType DEF LedgerInv, LedgerTypeOK, NewTx, Select, Upsert
  <2>2. CASE NewTx(n)
    BY <2>1, <2>2, <1>3 DEF LedgerInv, LedgerTypeOK, ReadsAreCurrent, NewTx
  <2>3. CASE Select(n) \/ Upsert(n)
    BY <2>1, <2>3, <1>3 DEF LedgerInv, LedgerTypeOK, ReadsAreCurrent, Select, Upsert
  <2>. QED
    BY Zenon, <2>2, <2>3
<1>7. OnlyErrorsLeakSessions'
  <2>1. \A m \in Nodes : sessions[m] \in Nat /\ errors[m] \in Nat
    BY Zenon DEF LedgerInv, LedgerTypeOK
  <2>. QED
    BY <1>1, <1>2, <1>3, <1>4, <2>1, ProceedType
    DEF LedgerInv, OnlyErrorsLeakSessions, InTx
<1>8. CallsInv'
  BY Zenon, <1>1, <1>2, <1>3, <1>4, ProceedType DEF LedgerInv, CallsInv, InTx
<1>. QED
  BY Zenon, <1>5, <1>6, <1>7, <1>8 DEF LedgerInv

(* A commit that takes effect adds the amount to the current row, and every *)
(* other transaction that has read the row is stale afterwards.             *)
LEMMA CommitInv ==
  ASSUME NEW n \in Nodes, LedgerInv, Commit(n)
  PROVE  /\ LedgerInv'
         /\ \/ UNCHANGED <<reputation, applied>>
            \/ /\ ~applied[n]
               /\ applied' = [applied EXCEPT ![n] = TRUE]
               /\ reputation' = [reputation EXCEPT ![job[n].peer] = @ + job[n].amount]
<1>. DEFINE p == job[n].peer
<1>1. PICK outcome \in CommitOutcomes(n) :
        LET write == outcome # "refused" /\ pending[n] IN
        /\ reputation' = [reputation EXCEPT ![job[n].peer] =
                            IF write THEN snapshot[n] + job[n].amount ELSE @]
        /\ stale' = IF write THEN stale \cup {m \in Nodes \ {n} : job[n].peer \in ReadSet(m)}
                    ELSE stale
        /\ applied' = [applied EXCEPT ![n] = write]
        /\ Proceed(n, outcome, "close_session")
  BY Zenon DEF Commit, AfterCommit
<1>. DEFINE write == outcome # "refused" /\ pending[n]
<1>2. "close_session" \in Steps /\ pc[n] = "commit"
  BY Zenon DEF Steps, Commit
<1>3. /\ p \in Peers /\ job[n].amount \in Int /\ snapshot[n] \in Int
      /\ reputation[p] \in Int
    BY Zenon, LedgerAssumption DEF LedgerInv, LedgerTypeOK, Jobs
<1>4. write => snapshot[n] = reputation[p]
  BY Zenon, <1>2 DEF LedgerInv, ReadsAreCurrent, CommitOutcomes
<1>5. write \in BOOLEAN
  BY Zenon DEF LedgerInv, LedgerTypeOK
<1>6. LedgerTypeOK'
  BY <1>1, <1>2, <1>3, <1>5, ProceedType DEF LedgerInv, LedgerTypeOK, Commit
<1>7. ReadsAreCurrent'
  <2>. SUFFICES ASSUME NEW m \in Nodes, pc'[m] \in InTx, m \notin stale'
                PROVE  snapshot'[m] = reputation'[job'[m].peer]
    BY Zenon DEF ReadsAreCurrent, InTx
  <2>1. m # n /\ pc'[m] = pc[m]
    BY <1>1, <1>2, ProceedType DEF LedgerInv, InTx
  <2>2. m \notin stale /\ snapshot[m] = reputation[job[m].peer]
    BY Zenon, <1>1, <2>1 DEF LedgerInv, ReadsAreCurrent, InTx
  <2>3. write => job[m].peer # p
    BY Zenon, <1>1, <2>1 DEF ReadSet, InTx
  <2>4. job[m].peer \in Peers
    BY Zenon DEF LedgerInv, LedgerTypeOK, Jobs
  <2>. QED
    BY Zenon, <1>1, <1>3, <2>2, <2>3, <2>4 DEF LedgerInv, LedgerTypeOK, Commit
<1>8. OnlyErrorsLeakSessions' /\ CallsInv'
  <2>1. \A m \in Nodes : sessions[m] \in Nat /\ errors[m] \in Nat
    BY Zenon DEF LedgerInv, LedgerTypeOK
  <2>2. OnlyErrorsLeakSessions'
    BY <1>1, <1>2, <2>1, ProceedType DEF LedgerInv, OnlyErrorsLeakSessions, Commit
  <2>3. \A m \in Nodes \ {n} : applied'[m] = applied[m]
    BY Zenon, <1>1 DEF LedgerInv, LedgerTypeOK
  <2>4. CallsInv'
    BY <1>1, <1>2, <2>3, ProceedType DEF LedgerInv, CallsInv, Commit, InTx
  <2>. QED
    BY Zenon, <2>2, <2>4
<1>9. ~applied[n]
  BY Zenon, <1>2 DEF LedgerInv, CallsInv, InTx
<1>10. write => /\ applied' = [applied EXCEPT ![n] = TRUE]
                /\ reputation' = [reputation EXCEPT ![job[n].peer] = @ + job[n].amount]
  BY Zenon, <1>1, <1>4 DEF LedgerInv, LedgerTypeOK
<1>11. ~write => UNCHANGED <<reputation, applied>>
  BY Zenon, <1>1, <1>9 DEF LedgerInv, LedgerTypeOK
<1>. QED
  BY Zenon, <1>6, <1>7, <1>8, <1>9, <1>10, <1>11 DEF LedgerInv

(* The last RPC of a call keeps the invariant. *)
LEMMA CloseSessionInv ==
  ASSUME NEW n \in Nodes, LedgerInv, CloseSession(n)
  PROVE  LedgerInv'
<1>1. PICK outcome \in Outcomes :
        /\ sessions' = [sessions EXCEPT ![n] = IF outcome = "refused" THEN @ ELSE @ - 1]
        /\ Proceed(n, outcome, "idle")
  BY Zenon DEF CloseSession
<1>2. "idle" \in Steps /\ pc[n] = "close_session"
  BY Zenon DEF Steps, CloseSession
<1>3. \A m \in Nodes : sessions[m] \in Nat /\ errors[m] \in Nat
  BY Zenon DEF LedgerInv, LedgerTypeOK
<1>4. sessions[n] >= 1 /\ sessions[n] <= errors[n] + 1
  BY Zenon, <1>2 DEF LedgerInv, CallsInv, OnlyErrorsLeakSessions
<1>5. sessions' \in [Nodes -> Nat]
  BY <1>1, <1>3, <1>4 DEF LedgerInv, LedgerTypeOK
<1>6. LedgerTypeOK'
  BY Zenon, <1>1, <1>2, <1>5, ProceedType DEF LedgerInv, LedgerTypeOK, CloseSession
<1>7. pc'[n] = "idle"
  BY Zenon, <1>1, <1>2, ProceedType DEF LedgerInv
<1>8. \A m \in Nodes \ {n} : /\ pc'[m] = pc[m] /\ errors'[m] = errors[m]
                             /\ sessions'[m] = sessions[m]
  BY Zenon, <1>1, <1>2, ProceedType DEF LedgerInv, LedgerTypeOK
<1>9. ReadsAreCurrent' /\ CallsInv'
  BY Zenon, <1>7, <1>8 DEF LedgerInv, ReadsAreCurrent, CallsInv, CloseSession, InTx
<1>10. OnlyErrorsLeakSessions'
  <2>1. sessions'[n] <= errors'[n]
    BY <1>1, <1>2, <1>3, <1>4, ProceedType, Outcomes \subseteq {"reply", "refused", "lost"}
    DEF LedgerInv, LedgerTypeOK, Outcomes
  <2>. QED
    BY <1>3, <1>6, <1>7, <1>8, <2>1 DEF LedgerInv, LedgerTypeOK, OnlyErrorsLeakSessions
<1>. QED
  BY Zenon, <1>6, <1>9, <1>10 DEF LedgerInv

-----------------------------------------------------------------------------
(* The invariant holds in every state of concurrent reputation updates.     *)
THEOREM LedgerInvariant == Spec => []LedgerInv
<1>1. Init => LedgerInv
  BY LedgerAssumption
  DEF Init, LedgerInv, LedgerTypeOK, Steps, ReadsAreCurrent,
      OnlyErrorsLeakSessions, CallsInv, InTx
<1>2. LedgerInv /\ [Next]_ledgerVars => LedgerInv'
  <2>. SUFFICES ASSUME LedgerInv, [Next]_ledgerVars PROVE LedgerInv'
    BY Zenon
  <2>1. CASE Next
    BY Zenon, <2>1, OpenSessionInv, MiddleInv, CommitInv, CloseSessionInv DEF Next
  <2>2. CASE UNCHANGED ledgerVars
    BY Zenon, <2>2 DEF LedgerInv, LedgerTypeOK, ReadsAreCurrent, OnlyErrorsLeakSessions,
                CallsInv, ledgerVars
  <2>. QED
    BY Zenon, <2>1, <2>2
<1>. QED
  BY <1>1, <1>2, PTL DEF Spec

(* The state keeps its shape; close_session never closes a session that was *)
(* not opened.                                                              *)
THEOREM LedgerTypeCorrect == Spec => []LedgerTypeOK
BY LedgerInvariant, PTL DEF LedgerInv

(* A transaction that can still commit has read the current reputation.     *)
THEOREM LedgerReadsCurrent == Spec => []ReadsAreCurrent
BY LedgerInvariant, PTL DEF LedgerInv

(* Only failed calls leave sessions open in immudb.                         *)
THEOREM LedgerSessions == Spec => []OnlyErrorsLeakSessions
BY LedgerInvariant, PTL DEF LedgerInv

(* What a commit has established when its reply arrives, and keeps until    *)
(* the call returns Ok.                                                     *)
CommittedInv ==
  \A n \in Nodes : (pc[n] = "close_session" \/ result[n] = "ok") /\ pending[n] => applied[n]

(* An RPC of node n changes only what belongs to n.                         *)
LEMMA OthersUnchanged ==
  ASSUME NEW n \in Nodes, LedgerTypeOK,
         \/ OpenSession(n) \/ NewTx(n) \/ Select(n)
         \/ Upsert(n) \/ Commit(n) \/ CloseSession(n)
  PROVE  \A m \in Nodes \ {n} : /\ pc'[m] = pc[m] /\ result'[m] = result[m]
                               /\ pending'[m] = pending[m] /\ applied'[m] = applied[m]
<1>1. PICK outcome, step : Proceed(n, outcome, step)
  BY Zenon DEF OpenSession, NewTx, Select, Upsert, Commit, AfterCommit, CloseSession
<1>2. \A m \in Nodes \ {n} : pc'[m] = pc[m] /\ result'[m] = result[m]
  BY Zenon, <1>1 DEF Proceed, LedgerTypeOK
<1>3. \A m \in Nodes \ {n} : pending'[m] = pending[m]
  BY Zenon DEF OpenSession, NewTx, Select, Upsert, Commit, CloseSession, LedgerTypeOK
<1>4. \A m \in Nodes \ {n} : applied'[m] = applied[m]
  BY Zenon DEF OpenSession, NewTx, Select, Upsert, Commit, CloseSession, LedgerTypeOK
<1>. QED
  BY Zenon, <1>2, <1>3, <1>4

(* A call that returned Ok has changed the table if its UPSERT succeeded,   *)
(* for any number of nodes whose transactions conflict.                     *)
THEOREM LedgerOkCommitted == Spec => []OkMeansCommitted
<1>1. Init => CommittedInv
  BY Zenon DEF Init, CommittedInv
<1>2. LedgerTypeOK /\ CommittedInv /\ [Next]_ledgerVars => CommittedInv'
  <2>. SUFFICES ASSUME LedgerTypeOK, CommittedInv, [Next]_ledgerVars PROVE CommittedInv'
    BY Zenon
  <2>. DEFINE Kept(n) == (pc[n] = "close_session" \/ result[n] = "ok") /\ pending[n]
                           => applied[n]
  <2>1. ASSUME NEW n \in Nodes, OpenSession(n) PROVE Kept(n)'
    BY <2>1 DEF OpenSession, Proceed, LedgerTypeOK
  <2>2. ASSUME NEW n \in Nodes, NewTx(n) \/ Select(n) \/ Upsert(n) PROVE Kept(n)'
    BY Zenon, <2>2 DEF NewTx, Select, Upsert, Proceed, LedgerTypeOK
  <2>3. ASSUME NEW n \in Nodes, Commit(n) PROVE Kept(n)'
    BY <2>3 DEF Commit, AfterCommit, Proceed, LedgerTypeOK
  <2>4. ASSUME NEW n \in Nodes, CloseSession(n) PROVE Kept(n)'
    BY Zenon, <2>4 DEF CloseSession, Proceed, LedgerTypeOK, CommittedInv
  <2>5. CASE Next
    <3>1. PICK n \in Nodes : \/ OpenSession(n) \/ NewTx(n) \/ Select(n)
                             \/ Upsert(n) \/ Commit(n) \/ CloseSession(n)
      BY Zenon, <2>5 DEF Next
    <3>2. Kept(n)'
      BY Zenon, <2>1, <2>2, <2>3, <2>4, <3>1
    <3>. QED
      BY Zenon, <3>1, <3>2, OthersUnchanged DEF CommittedInv
  <2>6. CASE UNCHANGED ledgerVars
    BY Zenon, <2>6 DEF CommittedInv, ledgerVars
  <2>. QED
    BY Zenon, <2>5, <2>6
<1>3. CommittedInv => OkMeansCommitted
  BY Zenon DEF CommittedInv, OkMeansCommitted
<1>. QED
  BY <1>1, <1>2, <1>3, LedgerTypeCorrect, PTL DEF Spec

(* increase_reputation implements the atomic addition of AtomicReputation:  *)
(* a commit that takes effect is the addition, every other RPC a stutter or *)
(* the beginning of a call.                                                 *)
THEOREM LedgerAddsUp == Spec => AddsUp
<1>1. Init => Atomic!Init
  BY Zenon DEF Init, Atomic!Init, Jobs, Atomic!Jobs
<1>2. LedgerInv /\ [Next]_ledgerVars => [Atomic!Next]_(Atomic!vars)
  <2>. SUFFICES ASSUME LedgerInv, [Next]_ledgerVars
                PROVE  Atomic!Next \/ UNCHANGED Atomic!vars
    BY Zenon
  <2>1. ASSUME NEW n \in Nodes, OpenSession(n) PROVE Atomic!Next
    <3>1. Atomic!Begin(n)
      BY Zenon, <2>1 DEF OpenSession, Atomic!Begin, Atomic!Jobs
    <3>. QED
      BY Zenon, <3>1 DEF Atomic!Next
  <2>2. ASSUME NEW n \in Nodes, NewTx(n) \/ Select(n) \/ Upsert(n) \/ CloseSession(n)
        PROVE  UNCHANGED Atomic!vars
    BY Zenon, <2>2 DEF NewTx, Select, Upsert, CloseSession, Atomic!vars
  <2>3. ASSUME NEW n \in Nodes, Commit(n) PROVE Atomic!Next \/ UNCHANGED Atomic!vars
    <3>1. job' = job
      BY Zenon, <2>3 DEF Commit
    <3>2. UNCHANGED <<reputation, applied>> \/ Atomic!TakeEffect(n)
      BY Zenon, <2>3, <3>1, CommitInv DEF Atomic!TakeEffect
    <3>. QED
      BY Zenon, <3>1, <3>2 DEF Atomic!Next, Atomic!vars
  <2>4. CASE UNCHANGED ledgerVars
    BY Zenon, <2>4 DEF ledgerVars, Atomic!vars
  <2>. QED
    BY Zenon, <2>1, <2>2, <2>3, <2>4 DEF Next
<1>. QED
  BY <1>1, <1>2, LedgerInvariant, PTL DEF Spec, AddsUp, Atomic!Spec
=============================================================================
