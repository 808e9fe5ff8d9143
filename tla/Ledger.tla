------------------------------- MODULE Ledger -------------------------------
(***************************************************************************)
(* Reputation updates in the ledger (src/src/ledger/mod.rs).  Every node   *)
(* has an ImmuLedger behind a mutex, so it has at most one call in         *)
(* progress; the calls of different nodes interleave in the shared immudb. *)
(* increase_reputation makes one RPC after the other: open_session,        *)
(* new_tx, SELECT and UPSERT in the transaction, commit, close_session.    *)
(* An RPC may be refused before it has an effect, or its reply may be lost *)
(* after it had one; the caller sees an error both times.                  *)
(***************************************************************************)
EXTENDS Integers

CONSTANTS Nodes,      \* the nodes that update reputations
          Peers,      \* the rows of the reputation table
          Amounts,    \* AUDIT_REWARD and -AUDIT_PENALTY
          MaxCalls,   \* bound: the calls a node makes
          RpcFaults   \* whether RPCs can be refused or lose their reply

ASSUME LedgerAssumption == Amounts \subseteq Int /\ MaxCalls \in Nat /\ RpcFaults \in BOOLEAN

VARIABLES reputation,  \* the committed rows; a missing row reads as 0
          pc,          \* the RPC each node makes next
          job,         \* the arguments of its call
          snapshot,    \* the row of job.peer as the node's transaction sees it
          pending,     \* whether the UPSERT is part of the transaction
          stale,       \* the nodes whose snapshot was overwritten by a commit
          sessions,    \* the sessions immudb holds open for each node
          made,        \* the calls each node has made
          result,      \* the result of its last call
          applied,     \* history: its last call has changed the table
          errors       \* history: its calls that returned an error

ledgerVars == <<reputation, pc, job, snapshot, pending, stale, sessions, made,
                result, applied, errors>>

Steps == {"idle", "new_tx", "select", "upsert", "commit", "close_session"}

Jobs == [peer : Peers, amount : Amounts]

Outcomes == IF RpcFaults THEN {"reply", "refused", "lost"} ELSE {"reply"}

Init == /\ reputation = [p \in Peers |-> 0]
        /\ pc = [n \in Nodes |-> "idle"]
        /\ job \in [Nodes -> Jobs]
        /\ snapshot = [n \in Nodes |-> 0]
        /\ pending = [n \in Nodes |-> FALSE]
        /\ stale = {}
        /\ sessions = [n \in Nodes |-> 0]
        /\ made = [n \in Nodes |-> 0]
        /\ result = [n \in Nodes |-> "none"]
        /\ applied = [n \in Nodes |-> FALSE]
        /\ errors = [n \in Nodes |-> 0]

-----------------------------------------------------------------------------
\* The call of node n goes on to the given step ("idle": it returns Ok), or
\* returns the error of the RPC it has just made: `?` closes no session.
Proceed(n, outcome, step) ==
  IF outcome = "reply"
  THEN /\ pc' = [pc EXCEPT ![n] = step]
       /\ result' = [result EXCEPT ![n] = IF step = "idle" THEN "ok" ELSE "none"]
       /\ UNCHANGED errors
  ELSE /\ pc' = [pc EXCEPT ![n] = "idle"]
       /\ result' = [result EXCEPT ![n] = "err"]
       /\ errors' = [errors EXCEPT ![n] = @ + 1]

\* immudb counts the session it opens for node n.
SessionUncounted(n, outcome) == UNCHANGED sessions
SessionOpened(n, outcome) ==
  sessions' = [sessions EXCEPT ![n] = IF outcome = "refused" THEN @ ELSE @ + 1]

\* increase_reputation is called; decrease_reputation passes -amount.
OpenSession(n) ==
  /\ pc[n] = "idle" /\ made[n] < MaxCalls
  /\ \E p \in Peers, amount \in Amounts, outcome \in Outcomes :
       /\ job' = [job EXCEPT ![n] = [peer |-> p, amount |-> amount]]
       /\ SessionOpened(n, outcome)
       /\ Proceed(n, outcome, "new_tx")
  /\ made' = [made EXCEPT ![n] = @ + 1]
  /\ applied' = [applied EXCEPT ![n] = FALSE]
  /\ UNCHANGED <<reputation, snapshot, pending, stale>>

\* A transaction sees the table as it is when it begins.
NewTx(n) ==
  /\ pc[n] = "new_tx"
  /\ \E outcome \in Outcomes : Proceed(n, outcome, "select")
  /\ snapshot' = [snapshot EXCEPT ![n] = reputation[job[n].peer]]
  /\ pending' = [pending EXCEPT ![n] = FALSE]
  /\ stale' = stale \ {n}
  /\ UNCHANGED <<reputation, job, sessions, made, applied>>

Select(n) ==
  /\ pc[n] = "select"
  /\ \E outcome \in Outcomes : Proceed(n, outcome, "upsert")
  /\ UNCHANGED <<reputation, job, snapshot, pending, stale, sessions, made, applied>>

\* The result of the UPSERT is dropped (`let _res`): the call goes on to commit.
Upsert(n) ==
  /\ pc[n] = "upsert"
  /\ \E outcome \in Outcomes : pending' = [pending EXCEPT ![n] = outcome # "refused"]
  /\ Proceed(n, "reply", "commit")
  /\ UNCHANGED <<reputation, job, snapshot, stale, sessions, made, applied>>

\* The row immudb watches for node n: the one it SELECTs in its transaction.
ReadSetEmpty(n) == {}
ReadSet(n) == IF pc[n] \in {"select", "upsert", "commit"} THEN {job[n].peer} ELSE {}

\* immudb refuses a commit whose reads were overwritten (ErrTxReadConflict).
CommitOutcomes(n) == IF n \in stale THEN {"refused"} ELSE Outcomes

\* A committed call closes its session; an error of the commit is returned.
CommitWithoutClose(n, outcome) == Proceed(n, outcome, "idle")
CommitUnchecked(n, outcome) == Proceed(n, "reply", "close_session")
AfterCommit(n, outcome) == Proceed(n, outcome, "close_session")

Commit(n) ==
  /\ pc[n] = "commit"
  /\ \E outcome \in CommitOutcomes(n) :
       LET write == outcome # "refused" /\ pending[n] IN
       /\ reputation' = [reputation EXCEPT ![job[n].peer] =
                           IF write THEN snapshot[n] + job[n].amount ELSE @]
       /\ stale' = IF write THEN stale \cup {m \in Nodes \ {n} : job[n].peer \in ReadSet(m)}
                   ELSE stale
       /\ applied' = [applied EXCEPT ![n] = write]
       /\ AfterCommit(n, outcome)
  /\ UNCHANGED <<job, snapshot, pending, sessions, made>>

CloseSession(n) ==
  /\ pc[n] = "close_session"
  /\ \E outcome \in Outcomes :
       /\ sessions' = [sessions EXCEPT ![n] = IF outcome = "refused" THEN @ ELSE @ - 1]
       /\ Proceed(n, outcome, "idle")
  /\ UNCHANGED <<reputation, job, snapshot, pending, stale, made, applied>>

Next == \E n \in Nodes : \/ OpenSession(n) \/ NewTx(n) \/ Select(n)
                         \/ Upsert(n) \/ Commit(n) \/ CloseSession(n)

Spec == Init /\ [][Next]_ledgerVars

-----------------------------------------------------------------------------
(* The state keeps its shape: no session is closed that was not opened.     *)
LedgerTypeOK == /\ reputation \in [Peers -> Int]
                /\ pc \in [Nodes -> Steps]
                /\ job \in [Nodes -> Jobs]
                /\ snapshot \in [Nodes -> Int]
                /\ pending \in [Nodes -> BOOLEAN]
                /\ stale \subseteq Nodes
                /\ sessions \in [Nodes -> Nat]
                /\ made \in [Nodes -> 0 .. MaxCalls]
                /\ result \in [Nodes -> {"none", "ok", "err"}]
                /\ applied \in [Nodes -> BOOLEAN]
                /\ errors \in [Nodes -> Nat]

(* A transaction that can still commit has read the current reputation:     *)
(* what increase_reputation adds its amount to is not out of date.          *)
ReadsAreCurrent ==
  \A n \in Nodes : pc[n] \in {"select", "upsert", "commit"} /\ n \notin stale
                     => snapshot[n] = reputation[job[n].peer]

(* Only a call that returned an error leaves its session open in immudb.    *)
OnlyErrorsLeakSessions ==
  \A n \in Nodes : sessions[n] <= errors[n] + (IF pc[n] = "idle" THEN 0 ELSE 1)

(* Concurrent increase_reputation calls add up: every change of the table   *)
(* is one call's amount added to one peer in one step, at most once a call. *)
Atomic == INSTANCE AtomicReputation
AddsUp == Atomic!Spec

(* Ok means committed: a call that returned Ok has changed the table if its *)
(* UPSERT was part of the transaction, whatever conflicts and lost replies  *)
(* there were.                                                              *)
OkMeansCommitted == \A n \in Nodes : result[n] = "ok" /\ pending[n] => applied[n]

(* "we do not want to lose any updates": a call that returned Ok has changed *)
(* the table.                                                               *)
OkMeansApplied == \A n \in Nodes : result[n] = "ok" => applied[n]
=============================================================================
