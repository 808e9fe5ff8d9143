------------------------------- MODULE Swarm -------------------------------
(***************************************************************************)
(* One node's swarm task (src/src/p2p/swarm.rs) and the controller the     *)
(* gRPC handlers and the verifier call (src/src/p2p/controller.rs).  A     *)
(* call sends a command through a bounded channel, guarded by a mutex, and *)
(* waits for the answer; the swarm starts a kademlia query or a            *)
(* verification request for it, remembers the caller in the map queries or *)
(* requests, and answers when libp2p reports the outcome.  An error in any *)
(* handler ends the loop and with it the process.  libp2p is external: a   *)
(* query may report progress several times before it is finished, and it   *)
(* is finished by its timeout at the latest.                               *)
(***************************************************************************)
EXTENDS Naturals, Sequences, Functions

CONSTANTS Callers,      \* tasks that call the controller
          Ops,          \* the operations they call
          Faults,       \* "cancel", "closed", "inbound_failure", "refused"
          Capacity,     \* of the command channel
          MaxCalls,     \* bound: how often each caller calls
          MaxInbound,   \* bound: verification requests of other nodes
          NoCaller

ASSUME SwarmAssumption ==
  /\ Ops \subseteq {"PutLocal", "PutRemote", "StartProviding", "Get", "GetProviders",
                    "GetClosestPeers", "RequestVerification"}
  /\ Capacity \in Nat \ {0} /\ MaxCalls \in [Callers -> Nat] /\ MaxInbound \in Nat
  /\ NoCaller \notin Callers

VARIABLES up,        \* the loop is running
          pc,        \* where each caller is
          calls,     \* the number of its current call
          lock,      \* the caller that holds the mutex of the sender
          channel,   \* the commands on their way to the swarm
          queries,   \* the map queries: the commands whose caller is remembered
          active,    \* external: the kademlia queries that are not finished
          requests,  \* the map requests: id and command of the remembered callers
          outbound,  \* the ids given to verification requests of this node
          sent,      \* external: the verification requests that are not finished
          served,    \* external: the requests of other nodes answered but not confirmed
          inbound,   \* the ids given to requests of other nodes
          answer     \* the answer in the oneshot channel of each caller's call

callerVars == <<pc, calls, lock>>
mapVars == <<queries, active, requests, outbound, sent>>
peerVars == <<served, inbound>>
vars == <<up, callerVars, channel, mapVars, peerVars, answer>>

\* A command carries the sender of its call's oneshot channel.
Command == [caller : Callers, n : Nat, op : Ops]

Request == [id : Nat, cmd : Command]

Init == /\ up = TRUE
        /\ pc = [c \in Callers |-> "idle"]
        /\ calls = [c \in Callers |-> 0]
        /\ lock = NoCaller
        /\ channel = <<>>
        /\ queries = {} /\ active = {}
        /\ requests = {} /\ outbound = 0 /\ sent = {}
        /\ served = {} /\ inbound = 0
        /\ answer = [c \in Callers |-> "none"]

-----------------------------------------------------------------------------
(* The controller: the steps of a caller. *)

Call(c) == /\ up /\ pc[c] = "idle" /\ calls[c] < MaxCalls[c]
           /\ pc' = [pc EXCEPT ![c] = "lock"]
           /\ calls' = [calls EXCEPT ![c] = @ + 1]
           /\ answer' = [answer EXCEPT ![c] = "none"]
           /\ UNCHANGED <<up, lock, channel, mapVars, peerVars>>

Lock(c) == /\ up /\ pc[c] = "lock" /\ lock = NoCaller
           /\ lock' = c
           /\ pc' = [pc EXCEPT ![c] = "send"]
           /\ UNCHANGED <<up, calls, channel, mapVars, peerVars, answer>>

\* The guard of the mutex is held until the channel has room.
HasRoomForOneMore == Len(channel) <= Capacity
HasRoom == Len(channel) < Capacity
Send(c) == /\ up /\ pc[c] = "send" /\ HasRoom
           /\ \E o \in Ops : channel' = Append(channel, [caller |-> c, n |-> calls[c], op |-> o])
           /\ lock' = NoCaller
           /\ pc' = [pc EXCEPT ![c] = "await"]
           /\ UNCHANGED <<up, calls, mapVars, peerVars, answer>>

Return(c) == /\ up /\ pc[c] = "await" /\ answer[c] # "none"
             /\ pc' = [pc EXCEPT ![c] = "idle"]
             /\ UNCHANGED <<up, calls, lock, channel, mapVars, peerVars, answer>>

\* The timeout of the gRPC server drops the handler, wherever it waits.
LockKept(c) == lock
Unlocked(c) == IF lock = c THEN NoCaller ELSE lock
Cancel(c) == /\ up /\ "cancel" \in Faults /\ pc[c] # "idle"
             /\ lock' = Unlocked(c)
             /\ pc' = [pc EXCEPT ![c] = "idle"]
             /\ UNCHANGED <<up, calls, channel, mapVars, peerVars, answer>>

-----------------------------------------------------------------------------
(* The swarm. *)

\* The receiving ends of the call's channels have not been dropped.
Listening(cmd) == pc[cmd.caller] = "await" /\ calls[cmd.caller] = cmd.n

\* send(..)? to the caller: an error, which ends the loop, if it has gone.
Answer(cmd, result) ==
  /\ answer' = IF Listening(cmd) THEN [answer EXCEPT ![cmd.caller] = result] ELSE answer
  /\ up' = Listening(cmd)

\* The loop ends.
Die == up' = FALSE /\ UNCHANGED answer

\* What the store or kademlia may do with a command: start it, refuse it
\* (`?`), or panic in a todo!() of LocalStore.
StartOutcomes(op) ==
  {"started"}
  \cup (IF "refused" \in Faults /\ op \in {"PutLocal", "StartProviding"} THEN {"refused"} ELSE {})
  \cup (IF "refused" \in Faults /\ op \in {"StartProviding", "GetProviders"} THEN {"panic"} ELSE {})

\* The entry a started query or request makes in the maps.
RememberQueryUnlessGet(cmd) == queries' = IF cmd.op = "Get" THEN queries ELSE queries \cup {cmd}
RememberQuery(cmd) == queries' = queries \cup {cmd}
Start(cmd) ==
  IF cmd.op = "RequestVerification"
  THEN LET r == [id |-> outbound + 1, cmd |-> cmd] IN
       /\ requests' = requests \cup {r} /\ sent' = sent \cup {r}
       /\ outbound' = outbound + 1
       /\ UNCHANGED <<queries, active>>
  ELSE /\ RememberQuery(cmd) /\ active' = active \cup {cmd}
       /\ UNCHANGED <<requests, outbound, sent>>

\* handle_controller_event: the caller gets its second channel, then the
\* query starts; both can end the loop.
HandleControllerEvent ==
  /\ up /\ channel # <<>>
  /\ channel' = Tail(channel)
  /\ LET cmd == Head(channel) IN
     IF Listening(cmd)
     THEN \E outcome \in StartOutcomes(cmd.op) :
            IF outcome = "started"
            THEN Start(cmd) /\ UNCHANGED <<up, answer>>
            ELSE Die /\ UNCHANGED mapVars
     ELSE Die /\ UNCHANGED mapVars
  /\ UNCHANGED <<callerVars, peerVars>>

\* The events kademlia reports for an operation: only a get of a record or of
\* providers reports a result and goes on.
Progress(op) == IF op \in {"Get", "GetProviders"} THEN {"found"} ELSE {}
Finish(op) == IF op \in {"Get", "GetProviders"} THEN {"finished", "error"} ELSE {"ok", "error"}

\* The errors of these queries are not passed on to the caller.
Fatal(op, event) == event = "error" /\ op \in {"StartProviding", "GetProviders", "GetClosestPeers"}

ResultOf(event) == IF event \in {"ok", "found"} THEN "ok" ELSE "err"

\* handle_get_record tolerates a query whose entry is gone; the others don't.
ToleratesNone(op) == FALSE
ToleratesNoEntry(op) == op = "Get"

\* The handlers take the caller out of the map with the first event.
KeepEntry(cmd) == queries
TakeEntry(cmd) == queries \ {cmd}

\* handle_get_record, handle_put_record, handle_get_providers,
\* handle_get_closest_peers and handle_start_providing.
HandleQueryEvent(cmd, event) ==
  /\ queries' = TakeEntry(cmd)
  /\ IF cmd \notin queries
     THEN IF ToleratesNoEntry(cmd.op) THEN UNCHANGED <<up, answer>> ELSE Die
     ELSE IF Fatal(cmd.op, event) THEN Die ELSE Answer(cmd, ResultOf(event))
  /\ UNCHANGED <<callerVars, channel, requests, outbound, sent, peerVars>>

QueryProgressed(cmd) ==
  /\ up
  /\ \E event \in Progress(cmd.op) : HandleQueryEvent(cmd, event)
  /\ UNCHANGED active

QueryFinished(cmd) ==
  /\ up
  /\ \E event \in Finish(cmd.op) : HandleQueryEvent(cmd, event)
  /\ active' = active \ {cmd}

\* The handlers of ReqRes events look an id up in requests and answer.
HandleRequestEvent(id, result) ==
  LET entries == {r \in requests : r.id = id} IN
  /\ requests' = requests \ entries
  /\ IF entries = {} THEN Die
     ELSE \E r \in entries : Answer(r.cmd, result)
  /\ UNCHANGED <<callerVars, channel, queries, active, outbound>>

\* handle_reqres_message_response and handle_outbound_failure.
HandleResponse(r) ==
  /\ up /\ sent' = sent \ {r}
  /\ \E result \in {"ok", "err"} : HandleRequestEvent(r.id, result)
  /\ UNCHANGED peerVars

\* handle_reqres_message_request: the file or an empty vector is sent, and
\* send_response fails if the other node has closed the channel.
HandleRequest ==
  /\ up /\ inbound < MaxInbound
  /\ inbound' = inbound + 1
  /\ \/ served' = served \cup {inbound + 1} /\ UNCHANGED <<up, answer>>
     \/ "closed" \in Faults /\ Die /\ UNCHANGED served
  /\ UNCHANGED <<callerVars, channel, mapVars>>

HandleResponseSent(id) ==
  /\ up /\ served' = served \ {id}
  /\ UNCHANGED <<up, callerVars, channel, mapVars, inbound, answer>>

\* handle_inbound_failure looks the id of another node's request up in the
\* map of this node's own requests.
HandleInboundFailure(id) ==
  /\ up /\ "inbound_failure" \in Faults
  /\ served' = served \ {id}
  /\ HandleRequestEvent(id, "err")
  /\ UNCHANGED <<sent, inbound>>

CallerStep(c) == Lock(c) \/ Send(c) \/ Return(c)

Next == \/ \E c \in Callers : Call(c) \/ CallerStep(c) \/ Cancel(c)
        \/ HandleControllerEvent
        \/ \E cmd \in active : QueryProgressed(cmd) \/ QueryFinished(cmd)
        \/ \E r \in sent : HandleResponse(r)
        \/ HandleRequest
        \/ \E id \in served : HandleResponseSent(id) \/ HandleInboundFailure(id)

\* tokio schedules every task that can go on, its mutex is fair, and select!
\* in the loop picks its branches at random; libp2p ends its queries and
\* requests, by a timeout at the latest.
Spec == /\ Init /\ [][Next]_vars
        /\ \A c \in Callers : SF_vars(Lock(c)) /\ WF_vars(Send(c) \/ Return(c))
        /\ WF_vars(HandleControllerEvent)
        /\ WF_vars(\E cmd \in active : QueryFinished(cmd))
        /\ WF_vars(\E r \in sent : HandleResponse(r))

-----------------------------------------------------------------------------
(* The state keeps its shape, and the channel its capacity.                 *)
SwarmTypeOK ==
  /\ up \in BOOLEAN
  /\ pc \in [Callers -> {"idle", "lock", "send", "await"}]
  /\ calls \in [Callers -> Nat]
  /\ lock \in Callers \cup {NoCaller}
  /\ channel \in Seq(Command) /\ Len(channel) <= Capacity
  /\ queries \subseteq Command /\ active \subseteq Command
  /\ requests \subseteq Request /\ sent \subseteq Request /\ outbound \in Nat
  /\ served \subseteq 1 .. MaxInbound /\ inbound \in 0 .. MaxInbound
  /\ answer \in [Callers -> {"none", "ok", "err"}]

(* No caller waits for nothing: a call that has no answer yet is in the     *)
(* channel, or remembered for a query or request that is not finished.      *)
NoWaiterForgotten ==
  up => \A c \in Callers :
          pc[c] = "await" /\ answer[c] = "none" =>
            \E o \in Ops :
              LET cmd == [caller |-> c, n |-> calls[c], op |-> o] IN
              \/ \E i \in 1 .. Len(channel) : channel[i] = cmd
              \/ cmd \in queries \cap active
              \/ \E r \in requests \cap sent : r.cmd = cmd

(* The maps do not leak: every entry belongs to a query or request libp2p   *)
(* has not finished, which will take it out.                                *)
NoEntryLeaks == up => queries \subseteq active /\ requests \subseteq sent

\* The commands whose caller has yet to be answered.
Awaited == Range(channel) \cup queries \cup {r.cmd : r \in requests}

(* Putting to remotes, getting records and requesting verifications never   *)
(* end the loop by themselves, whatever libp2p reports (progress after the  *)
(* answer, errors, timeouts).  It ends only beside a call that was          *)
(* cancelled, a local put or a discovery, or with a request of another node *)
(* that fails, at once or when that has cost one of this node's requests    *)
(* its entry.                                                               *)
DataOpsKeepNodeUp ==
  [][up /\ ~up' /\ UNCHANGED peerVars
       => \/ \E cmd \in Awaited : ~Listening(cmd)
          \/ \E cmd \in Awaited \cup active :
               cmd.op \notin {"PutRemote", "Get", "RequestVerification"}
          \/ sent # requests]_vars

Promise == INSTANCE Calls WITH running <- up, waiting <- {c \in Callers : pc[c] # "idle"},
                               given <- answer

(* The swarm implements Calls: with progress after the answer, errors after *)
(* a result, and cancelled calls in the channel, every call still has at    *)
(* most one answer.                                                         *)
CallsImplemented == Promise!Spec

(* Every call returns, unless the node goes down.                           *)
EveryCallReturns == \A c \in Callers : pc[c] # "idle" ~> (pc[c] = "idle" \/ ~up)
=============================================================================
