---------------------------- MODULE SwarmProofs ----------------------------
(***************************************************************************)
(* Proofs about the swarm's task and its controller, for any callers,      *)
(* operations, faults and bounds: no caller is forgotten, no entry of the  *)
(* maps leaks, and the calls implement what Calls promises.                *)
(***************************************************************************)
EXTENDS Swarm, TLAPS

SameCall(a, b) == a.caller = b.caller /\ a.n = b.n

\* A command whose call has not been answered, where p, k and a are pc, calls
\* and answer: it is of a call that was sent, and if its caller still listens,
\* there is no answer yet.
Pending(cmd, p, k, a) ==
  /\ cmd.n <= k[cmd.caller]
  /\ cmd.n = k[cmd.caller] => p[cmd.caller] \in {"idle", "await"}
  /\ cmd.n = k[cmd.caller] /\ p[cmd.caller] = "await" => a[cmd.caller] = "none"

PendingInv ==
  /\ \A i \in 1 .. Len(channel) : Pending(channel[i], pc, calls, answer)
  /\ \A q \in queries : Pending(q, pc, calls, answer)
  /\ \A r \in requests : Pending(r.cmd, pc, calls, answer) /\ r.id <= outbound
  /\ \A c \in Callers : pc[c] \in {"lock", "send"} => answer[c] = "none"

\* A call is in one place only.
UniqueInv ==
  /\ \A i, j \in 1 .. Len(channel) : SameCall(channel[i], channel[j]) => i = j
  /\ \A p, q \in queries : SameCall(p, q) => p = q
  /\ \A r, s \in requests : r.id = s.id \/ SameCall(r.cmd, s.cmd) => r = s
  /\ \A i \in 1 .. Len(channel), q \in queries : ~ SameCall(channel[i], q)
  /\ \A i \in 1 .. Len(channel), r \in requests : ~ SameCall(channel[i], r.cmd)
  /\ \A q \in queries, r \in requests : ~ SameCall(q, r.cmd)

\* A query without an entry has reported a result before.
ReportedInv == \A cmd \in active : cmd \in queries \/ cmd.op \in {"Get", "GetProviders"}

CallsInv == PendingInv /\ UniqueInv /\ ReportedInv /\ NoWaiterForgotten /\ NoEntryLeaks

SwarmInv == SwarmTypeOK /\ (up => CallsInv)

-----------------------------------------------------------------------------
(* An answer, given or refused, keeps the shape of up and answer.           *)
LEMMA AnswerType ==
  ASSUME SwarmTypeOK, NEW cmd \in Command, NEW result \in {"ok", "err"}, Answer(cmd, result)
  PROVE  up' \in BOOLEAN /\ answer' \in [Callers -> {"none", "ok", "err"}]
<1>1. Listening(cmd) \in BOOLEAN
  BY Zenon DEF Listening
<1> HIDE DEF Listening
<1> QED BY Zenon, <1>1 DEF Answer, SwarmTypeOK, Command

(* What an event of a query does to the shape of the state.                 *)
LEMMA QueryEventType ==
  ASSUME SwarmTypeOK, NEW cmd \in Command, NEW event, HandleQueryEvent(cmd, event)
  PROVE  /\ up' \in BOOLEAN /\ answer' \in [Callers -> {"none", "ok", "err"}]
         /\ queries' = queries \ {cmd}
         /\ UNCHANGED <<callerVars, channel, requests, outbound, sent, peerVars>>
<1>1. ResultOf(event) \in {"ok", "err"}
  BY Zenon DEF ResultOf
<1>2. CASE Answer(cmd, ResultOf(event))
  BY Zenon, <1>1, <1>2, AnswerType DEF HandleQueryEvent, TakeEntry
<1>3. CASE Die \/ UNCHANGED <<up, answer>>
  BY Zenon, <1>3 DEF HandleQueryEvent, TakeEntry, Die, SwarmTypeOK
<1> QED BY Zenon, <1>2, <1>3 DEF HandleQueryEvent

(* What an event of a verification request does to the shape of the state.  *)
LEMMA RequestEventType ==
  ASSUME SwarmTypeOK, NEW id, NEW result \in {"ok", "err"}, HandleRequestEvent(id, result)
  PROVE  /\ up' \in BOOLEAN /\ answer' \in [Callers -> {"none", "ok", "err"}]
         /\ requests' \subseteq requests
         /\ UNCHANGED <<callerVars, channel, queries, active, outbound>>
<1>1. CASE Die
  BY Zenon, <1>1 DEF HandleRequestEvent, Die, SwarmTypeOK
<1>2. CASE \E r \in requests : Answer(r.cmd, result)
  <2>1. PICK r \in requests : Answer(r.cmd, result)
    BY Zenon, <1>2
  <2>2. r.cmd \in Command
    BY Zenon DEF SwarmTypeOK, Request
  <2> QED BY Zenon, <2>1, <2>2, AnswerType DEF HandleRequestEvent
<1> QED BY Zenon, <1>1, <1>2 DEF HandleRequestEvent

(* Every step keeps the state's shape and the channel's capacity.           *)
LEMMA SwarmTypeStep == SwarmTypeOK /\ [Next]_vars => SwarmTypeOK'
<1> SUFFICES ASSUME SwarmTypeOK, [Next]_vars PROVE SwarmTypeOK'
  BY Zenon
<1> USE SwarmAssumption
<1>1. ASSUME NEW c \in Callers, Call(c) PROVE SwarmTypeOK'
  BY <1>1 DEF Call, SwarmTypeOK, mapVars, peerVars
<1>2. ASSUME NEW c \in Callers, Lock(c) PROVE SwarmTypeOK'
  BY Zenon, <1>2 DEF Lock, SwarmTypeOK, mapVars, peerVars
<1>3. ASSUME NEW c \in Callers, Send(c) PROVE SwarmTypeOK'
  <2>1. PICK o \in Ops : channel' = Append(channel, [caller |-> c, n |-> calls[c], op |-> o])
    BY Zenon, <1>3 DEF Send
  <2>2. [caller |-> c, n |-> calls[c], op |-> o] \in Command
    BY Zenon DEF SwarmTypeOK, Command
  <2>3. channel' \in Seq(Command) /\ Len(channel') <= Capacity
    BY <1>3, <2>1, <2>2 DEF Send, HasRoom, SwarmTypeOK
  <2> QED BY Zenon, <1>3, <2>3 DEF Send, SwarmTypeOK, mapVars, peerVars
<1>4. ASSUME NEW c \in Callers, Return(c) PROVE SwarmTypeOK'
  BY Zenon, <1>4 DEF Return, SwarmTypeOK, mapVars, peerVars
<1>5. ASSUME NEW c \in Callers, Cancel(c) PROVE SwarmTypeOK'
  BY Zenon, <1>5 DEF Cancel, Unlocked, SwarmTypeOK, mapVars, peerVars
<1>6. CASE HandleControllerEvent
  <2> DEFINE cmd == Head(channel)
  <2>1. cmd \in Command /\ channel' \in Seq(Command) /\ Len(channel') <= Capacity
    BY <1>6 DEF HandleControllerEvent, SwarmTypeOK
  <2>2. CASE Start(cmd) /\ UNCHANGED <<up, answer>>
    <3>1. [id |-> outbound + 1, cmd |-> cmd] \in Request
      BY <2>1 DEF Request, SwarmTypeOK
    <3>2. /\ queries' \subseteq Command /\ active' \subseteq Command
          /\ requests' \subseteq Request /\ sent' \subseteq Request /\ outbound' \in Nat
      BY <2>1, <2>2, <3>1 DEF Start, RememberQuery, SwarmTypeOK
    <3> QED BY Zenon, <1>6, <2>1, <2>2, <3>2
            DEF HandleControllerEvent, SwarmTypeOK, callerVars, peerVars
  <2>3. CASE Die /\ UNCHANGED mapVars
    BY Zenon, <1>6, <2>1, <2>3 DEF HandleControllerEvent, Die, SwarmTypeOK, callerVars, mapVars, peerVars
  <2> QED BY Zenon, <1>6, <2>2, <2>3 DEF HandleControllerEvent
<1>7. ASSUME NEW cmd \in active, QueryProgressed(cmd) \/ QueryFinished(cmd) PROVE SwarmTypeOK'
  <2>1. cmd \in Command
    BY Zenon DEF SwarmTypeOK
  <2>2. PICK event : HandleQueryEvent(cmd, event)
    BY Zenon, <1>7 DEF QueryProgressed, QueryFinished
  <2>3. active' \subseteq active
    BY Zenon, <1>7 DEF QueryProgressed, QueryFinished
  <2> QED BY Zenon, <2>1, <2>2, <2>3, QueryEventType DEF SwarmTypeOK, callerVars, peerVars
<1>8. ASSUME NEW r \in sent, HandleResponse(r) PROVE SwarmTypeOK'
  <2>1. PICK result \in {"ok", "err"} : HandleRequestEvent(r.id, result)
    BY Zenon, <1>8 DEF HandleResponse
  <2>2. sent' \subseteq sent /\ UNCHANGED peerVars
    BY Zenon, <1>8 DEF HandleResponse
  <2>3. /\ up' \in BOOLEAN /\ answer' \in [Callers -> {"none", "ok", "err"}]
        /\ requests' \subseteq requests
        /\ UNCHANGED <<callerVars, channel, queries, active, outbound>>
    BY Zenon, <2>1, RequestEventType
  <2> QED BY Zenon, <2>2, <2>3 DEF SwarmTypeOK, callerVars, peerVars
<1>9. CASE HandleRequest
  <2>1. inbound' \in 0 .. MaxInbound /\ inbound + 1 \in 1 .. MaxInbound
    BY <1>9 DEF HandleRequest, SwarmTypeOK
  <2>2. up' \in BOOLEAN /\ served' \subseteq 1 .. MaxInbound /\ UNCHANGED answer
    BY Zenon, <1>9, <2>1 DEF HandleRequest, Die, SwarmTypeOK
  <2>3. UNCHANGED <<callerVars, channel, mapVars>>
    BY Zenon, <1>9 DEF HandleRequest
  <2> QED BY Zenon, <2>1, <2>2, <2>3 DEF SwarmTypeOK, callerVars, mapVars
<1>10. ASSUME NEW id \in served, HandleResponseSent(id) PROVE SwarmTypeOK'
  BY Zenon, <1>10 DEF HandleResponseSent, SwarmTypeOK, callerVars, mapVars
<1>11. ASSUME NEW id \in served, HandleInboundFailure(id) PROVE SwarmTypeOK'
  <2>1. HandleRequestEvent(id, "err")
    BY Zenon, <1>11 DEF HandleInboundFailure
  <2> QED BY Zenon, <1>11, <2>1, RequestEventType DEF HandleInboundFailure, SwarmTypeOK, callerVars
<1>12. CASE UNCHANGED vars
  BY Zenon, <1>12 DEF vars, SwarmTypeOK, callerVars, mapVars, peerVars
<1> QED BY Zenon, <1>1, <1>2, <1>3, <1>4, <1>5, <1>6, <1>7, <1>8, <1>9, <1>10, <1>11, <1>12
        DEF Next, CallerStep

-----------------------------------------------------------------------------
(* What the channel and the maps hold are commands.                         *)
LEMMA HeldAreCommands ==
  ASSUME SwarmTypeOK
  PROVE  /\ \A i \in 1 .. Len(channel) : channel[i] \in Command
         /\ \A q \in queries : q \in Command
         /\ \A r \in requests : r.cmd \in Command /\ r.id \in Nat
BY DEF SwarmTypeOK, Request

(* A step of a caller that leaves the channel and the maps alone, and       *)
(* neither makes anyone wait nor takes an answer away from someone who      *)
(* waits.                                                                   *)
LEMMA CallerMoves ==
  ASSUME SwarmInv, up, up', UNCHANGED <<channel, mapVars>>,
         \A cmd \in Command : Pending(cmd, pc, calls, answer) => Pending(cmd, pc', calls', answer'),
         \A c \in Callers : pc'[c] = "await" /\ answer'[c] = "none" =>
                              pc[c] = "await" /\ answer[c] = "none" /\ calls'[c] = calls[c],
         \A c \in Callers : pc'[c] \in {"lock", "send"} => answer'[c] = "none"
  PROVE  CallsInv'
<1>1. UniqueInv' /\ ReportedInv' /\ NoEntryLeaks'
  BY DEF SwarmInv, CallsInv, mapVars, UniqueInv, SameCall, ReportedInv, NoEntryLeaks
<1>2. PendingInv'
  <2>1. PendingInv /\ SwarmTypeOK
    BY Zenon DEF SwarmInv, CallsInv
  <2>2. \A i \in 1 .. Len(channel) : Pending(channel[i], pc', calls', answer')
    BY Zenon, <2>1, HeldAreCommands DEF PendingInv
  <2>3. \A q \in queries : Pending(q, pc', calls', answer')
    BY Zenon, <2>1, HeldAreCommands DEF PendingInv
  <2>4. \A r \in requests : Pending(r.cmd, pc', calls', answer') /\ r.id <= outbound
    BY Zenon, <2>1, HeldAreCommands DEF PendingInv
  <2> QED BY Zenon, <2>2, <2>3, <2>4 DEF PendingInv, mapVars
<1>3. NoWaiterForgotten'
  <2> SUFFICES ASSUME NEW c \in Callers, pc'[c] = "await", answer'[c] = "none"
               PROVE  \E o \in Ops :
                        LET cmd == [caller |-> c, n |-> calls'[c], op |-> o] IN
                        \/ \E i \in 1 .. Len(channel) : channel[i] = cmd
                        \/ cmd \in queries \cap active
                        \/ \E r \in requests \cap sent : r.cmd = cmd
    BY DEF NoWaiterForgotten, mapVars
  <2>1. pc[c] = "await" /\ answer[c] = "none" /\ calls'[c] = calls[c]
    BY Zenon
  <2> QED BY <2>1 DEF SwarmInv, CallsInv, NoWaiterForgotten
<1> QED BY Zenon, <1>1, <1>2, <1>3 DEF CallsInv

(* Calling, taking the lock, returning and being cancelled.                 *)
LEMMA CallerOK ==
  ASSUME SwarmInv, NEW c \in Callers, Call(c) \/ Lock(c) \/ Return(c) \/ Cancel(c)
  PROVE  CallsInv'
<1> USE DEF SwarmInv, CallsInv, SwarmTypeOK
<1>1. CASE Call(c)
  <2>1. \A cmd \in Command : Pending(cmd, pc, calls, answer) => Pending(cmd, pc', calls', answer')
    BY <1>1 DEF Call, Pending, Command
  <2> QED BY Zenon, <1>1, <2>1, CallerMoves DEF Call, PendingInv
<1>2. CASE Lock(c)
  <2>1. \A cmd \in Command : Pending(cmd, pc, calls, answer) => Pending(cmd, pc', calls', answer')
    BY Zenon, <1>2 DEF Lock, Pending, Command
  <2> QED BY Zenon, <1>2, <2>1, CallerMoves DEF Lock, PendingInv
<1>3. CASE Return(c)
  <2>1. \A cmd \in Command : Pending(cmd, pc, calls, answer) => Pending(cmd, pc', calls', answer')
    BY Zenon, <1>3 DEF Return, Pending, Command
  <2> QED BY Zenon, <1>3, <2>1, CallerMoves DEF Return, PendingInv
<1>4. CASE Cancel(c)
  <2>1. \A cmd \in Command : Pending(cmd, pc, calls, answer) => Pending(cmd, pc', calls', answer')
    BY Zenon, <1>4 DEF Cancel, Pending, Command
  <2> QED BY Zenon, <1>4, <2>1, CallerMoves DEF Cancel, PendingInv
<1> QED BY Zenon, <1>1, <1>2, <1>3, <1>4

(* Sending: the new command is of a call that is nowhere yet.               *)
LEMMA SendOK ==
  ASSUME SwarmInv, NEW c \in Callers, Send(c)
  PROVE  CallsInv'
<1>1. PICK o \in Ops : channel' = Append(channel, [caller |-> c, n |-> calls[c], op |-> o])
  BY Zenon DEF Send
<1> DEFINE new == [caller |-> c, n |-> calls[c], op |-> o]
           N == Len(channel)
<1>2. SwarmTypeOK /\ CallsInv /\ pc[c] = "send" /\ answer[c] = "none"
  BY Zenon DEF SwarmInv, CallsInv, PendingInv, Send
<1>3. \A cmd \in Command : Pending(cmd, pc, calls, answer) => Pending(cmd, pc', calls', answer') /\ ~ SameCall(cmd, new)
  BY Zenon, <1>2 DEF Send, Pending, Command, SameCall, SwarmTypeOK
<1>4. Pending(new, pc', calls', answer')
  BY <1>2 DEF Send, Pending, SwarmTypeOK
<1>5. N \in Nat /\ Len(channel') = N + 1 /\ channel'[N + 1] = new
      /\ \A i \in 1 .. N : channel'[i] = channel[i]
  <2>1. new \in Command
    BY Zenon, <1>2 DEF Command, SwarmTypeOK
  <2> QED BY <1>1, <1>2, <2>1 DEF SwarmTypeOK
<1> HIDE DEF new, N
<1>6. UNCHANGED <<up, queries, active, requests, outbound, sent, answer, calls>>
      /\ pc' = [pc EXCEPT ![c] = "await"]
  BY Zenon DEF Send, mapVars
<1>7. \A i \in 1 .. N : Pending(channel[i], pc, calls, answer) /\ channel[i] \in Command
  BY Zenon, <1>2, HeldAreCommands DEF CallsInv, PendingInv, N
<1>8. \A q \in queries : Pending(q, pc, calls, answer) /\ q \in Command
  BY Zenon, <1>2, HeldAreCommands DEF CallsInv, PendingInv
<1>9. \A r \in requests : Pending(r.cmd, pc, calls, answer) /\ r.cmd \in Command /\ r.id <= outbound
  BY Zenon, <1>2, HeldAreCommands DEF CallsInv, PendingInv
<1>10. PendingInv'
  <2>1. \A i \in 1 .. N + 1 : Pending(channel'[i], pc', calls', answer')
    BY <1>3, <1>4, <1>5, <1>7
  <2>2. \A q \in queries : Pending(q, pc', calls', answer')
    BY Zenon, <1>3, <1>8
  <2>3. \A r \in requests : Pending(r.cmd, pc', calls', answer') /\ r.id <= outbound
    BY Zenon, <1>3, <1>9
  <2>4. \A d \in Callers : pc'[d] \in {"lock", "send"} => answer[d] = "none"
    BY Zenon, <1>2, <1>6 DEF CallsInv, PendingInv, SwarmTypeOK
  <2> QED BY Zenon, <1>5, <1>6, <2>1, <2>2, <2>3, <2>4 DEF PendingInv
<1>11. UniqueInv'
  <2>1. UniqueInv
    BY Zenon, <1>2 DEF CallsInv
  <2>2. \A a, b : SameCall(a, b) => SameCall(b, a)
    BY Zenon DEF SameCall
  <2>3. \A i, j \in 1 .. N + 1 : SameCall(channel'[i], channel'[j]) => i = j
    BY <1>3, <1>5, <1>7, <2>1, <2>2 DEF UniqueInv, N
  <2>4. \A i \in 1 .. N + 1, q \in queries : ~ SameCall(channel'[i], q)
    BY <1>3, <1>5, <1>8, <2>1, <2>2 DEF UniqueInv, N
  <2>5. \A i \in 1 .. N + 1, r \in requests : ~ SameCall(channel'[i], r.cmd)
    BY <1>3, <1>5, <1>9, <2>1, <2>2 DEF UniqueInv, N
  <2> QED BY Zenon, <1>5, <1>6, <2>1, <2>3, <2>4, <2>5 DEF UniqueInv, SameCall
<1>12. NoWaiterForgotten'
  <2> SUFFICES ASSUME NEW d \in Callers, pc'[d] = "await", answer[d] = "none"
               PROVE  \E p \in Ops :
                        LET cmd == [caller |-> d, n |-> calls[d], op |-> p] IN
                        \/ \E i \in 1 .. N + 1 : channel'[i] = cmd
                        \/ cmd \in queries \cap active
                        \/ \E r \in requests \cap sent : r.cmd = cmd
    BY <1>5, <1>6 DEF NoWaiterForgotten
  <2>1. CASE d = c
    BY <1>5, <2>1 DEF new
  <2>2. CASE d # c
    <3>1. pc[d] = "await"
      BY Zenon, <1>2, <1>6, <2>2 DEF SwarmTypeOK
    <3>2. up
      BY Zenon DEF Send
    <3>3. PICK p \in Ops :
            LET cmd == [caller |-> d, n |-> calls[d], op |-> p] IN
            \/ \E i \in 1 .. N : channel[i] = cmd
            \/ cmd \in queries \cap active
            \/ \E r \in requests \cap sent : r.cmd = cmd
      BY Zenon, <1>2, <3>1, <3>2 DEF CallsInv, NoWaiterForgotten, N
    <3> QED BY <1>5, <3>3
  <2> QED BY Zenon, <2>1, <2>2
<1> QED BY Zenon, <1>2, <1>6, <1>10, <1>11, <1>12 DEF CallsInv, ReportedInv, NoEntryLeaks

(* Handling a command that starts a query or a request: the command moves   *)
(* from the channel to one of the maps.                                     *)
LEMMA ControllerEventOK ==
  ASSUME SwarmInv, HandleControllerEvent, up'
  PROVE  CallsInv'
<1> DEFINE cmd == Head(channel)
           N == Len(channel')
           r0 == [id |-> outbound + 1, cmd |-> cmd]
<1>1. SwarmTypeOK /\ CallsInv /\ up
  BY Zenon DEF SwarmInv, HandleControllerEvent
<1>2. Start(cmd) /\ UNCHANGED <<up, answer>>
  BY Zenon DEF HandleControllerEvent, Die
<1>3. cmd = channel[1] /\ cmd \in Command /\ N \in Nat /\ Len(channel) = N + 1
      /\ \A i \in 1 .. N : channel'[i] = channel[i + 1]
  BY <1>1 DEF HandleControllerEvent, SwarmTypeOK
<1>4. UNCHANGED <<pc, calls>>
  BY Zenon DEF HandleControllerEvent, callerVars
<1> HIDE DEF cmd, N
<1>5. \/ /\ requests' = requests \cup {r0} /\ sent' = sent \cup {r0} /\ outbound' = outbound + 1
         /\ UNCHANGED <<queries, active>>
      \/ /\ queries' = queries \cup {cmd} /\ active' = active \cup {cmd}
         /\ UNCHANGED <<requests, outbound, sent>>
  BY Zenon, <1>2 DEF Start, RememberQuery
<1>6. r0.id = outbound + 1 /\ r0.cmd = cmd /\ outbound \in Nat
  BY Zenon, <1>1 DEF SwarmTypeOK
<1> HIDE DEF r0
<1>7. /\ \A i \in 1 .. N + 1 : Pending(channel[i], pc, calls, answer)
      /\ \A q \in queries : Pending(q, pc, calls, answer)
      /\ \A r \in requests : Pending(r.cmd, pc, calls, answer) /\ r.id <= outbound /\ r.id \in Nat
  BY Zenon, <1>1, <1>3, HeldAreCommands DEF CallsInv, PendingInv
<1>8. UniqueInv /\ 1 \in 1 .. N + 1 /\ \A i \in 1 .. N : i + 1 \in 1 .. N + 1 /\ i + 1 # 1
  BY <1>1, <1>3 DEF CallsInv
<1>9. /\ \A i \in 1 .. N : ~ SameCall(channel'[i], cmd)
      /\ \A q \in queries : ~ SameCall(cmd, q)
      /\ \A r \in requests : ~ SameCall(cmd, r.cmd)
  BY Zenon, <1>3, <1>8 DEF UniqueInv
<1>10. \A a, b : SameCall(a, b) => SameCall(b, a)
  BY Zenon DEF SameCall
<1>11. PendingInv'
  <2>1. \A i \in 1 .. N : Pending(channel'[i], pc, calls, answer)
    BY Zenon, <1>3, <1>7, <1>8
  <2>2. \A q \in queries' : Pending(q, pc, calls, answer)
    BY Zenon, <1>3, <1>5, <1>7, <1>8
  <2>3. \A r \in requests' : Pending(r.cmd, pc, calls, answer) /\ r.id <= outbound'
    BY <1>3, <1>5, <1>6, <1>7, <1>8
  <2> QED BY Zenon, <1>1, <1>2, <1>4, <2>1, <2>2, <2>3 DEF CallsInv, PendingInv, N
<1>12. UniqueInv'
  <2>1. \A i, j \in 1 .. N : SameCall(channel'[i], channel'[j]) => i = j
    <3> SUFFICES ASSUME NEW i \in 1 .. N, NEW j \in 1 .. N, SameCall(channel'[i], channel'[j])
                 PROVE  i = j
      BY Zenon
    <3>1. i + 1 = j + 1
      BY Zenon, <1>3, <1>8 DEF UniqueInv
    <3> QED BY <3>1, <1>3
  <2>2. \A p, q \in queries' : SameCall(p, q) => p = q
    BY <1>5, <1>8, <1>9, <1>10 DEF UniqueInv
  <2>3. \A r, t \in requests' : r.id = t.id \/ SameCall(r.cmd, t.cmd) => r = t
    <3>1. \A r \in requests : r.id # r0.id /\ ~ SameCall(r.cmd, r0.cmd) /\ ~ SameCall(r0.cmd, r.cmd)
      BY <1>6, <1>7, <1>9, <1>10
    <3>2. requests' \subseteq requests \cup {r0}
      BY Zenon, <1>5
    <3>3. \A r, t \in requests : r.id = t.id \/ SameCall(r.cmd, t.cmd) => r = t
      BY Zenon, <1>8 DEF UniqueInv
    <3> QED BY Zenon, <3>1, <3>2, <3>3
  <2>4. \A i \in 1 .. N, q \in queries' : ~ SameCall(channel'[i], q)
    BY Zenon, <1>3, <1>5, <1>8, <1>9 DEF UniqueInv
  <2>5. \A i \in 1 .. N, r \in requests' : ~ SameCall(channel'[i], r.cmd)
    BY Zenon, <1>3, <1>5, <1>6, <1>8, <1>9 DEF UniqueInv
  <2>6. \A q \in queries', r \in requests' : ~ SameCall(q, r.cmd)
    BY <1>5, <1>6, <1>8, <1>9, <1>10 DEF UniqueInv
  <2> QED BY Zenon, <2>1, <2>2, <2>3, <2>4, <2>5, <2>6 DEF UniqueInv, SameCall, N
<1>13. NoWaiterForgotten'
  <2> SUFFICES ASSUME NEW d \in Callers, pc[d] = "await", answer[d] = "none"
               PROVE  \E p \in Ops :
                        LET w == [caller |-> d, n |-> calls[d], op |-> p] IN
                        \/ \E i \in 1 .. N : channel'[i] = w
                        \/ w \in queries' \cap active'
                        \/ \E r \in requests' \cap sent' : r.cmd = w
    BY Zenon, <1>2, <1>4 DEF NoWaiterForgotten, N
  <2>1. PICK p \in Ops :
          LET w == [caller |-> d, n |-> calls[d], op |-> p] IN
          \/ \E i \in 1 .. N + 1 : channel[i] = w
          \/ w \in queries \cap active
          \/ \E r \in requests \cap sent : r.cmd = w
    BY Zenon, <1>1, <1>3 DEF CallsInv, NoWaiterForgotten
  <2> DEFINE w == [caller |-> d, n |-> calls[d], op |-> p]
  <2> HIDE DEF w
  <2>2. CASE \E i \in 1 .. N + 1 : channel[i] = w
    <3>1. PICK i \in 1 .. N + 1 : channel[i] = w
      BY Zenon, <2>2
    <3>2. CASE i = 1
      BY Zenon, <1>3, <1>5, <1>6, <3>1, <3>2 DEF w
    <3>3. CASE i # 1
      <4>1. i - 1 \in 1 .. N /\ (i - 1) + 1 = i
        BY <1>3, <3>3
      <4>2. channel'[i - 1] = w
        BY Zenon, <1>3, <3>1, <4>1
      <4> QED BY Zenon, <4>1, <4>2 DEF w
    <3> QED BY Zenon, <3>2, <3>3
  <2>3. CASE w \in queries \cap active \/ \E r \in requests \cap sent : r.cmd = w
    BY Zenon, <1>5, <2>3 DEF w
  <2> QED BY Zenon, <2>1, <2>2, <2>3 DEF w
<1>14. ReportedInv' /\ NoEntryLeaks'
  BY Zenon, <1>1, <1>5 DEF CallsInv, ReportedInv, NoEntryLeaks
<1> QED BY Zenon, <1>11, <1>12, <1>13, <1>14 DEF CallsInv

(* Taking entries of one answered call out of the maps: it is the call of   *)
(* cmd if that was remembered, and otherwise nothing changes but the        *)
(* queries and requests that libp2p goes on with.                           *)
LEMMA EntryTaken ==
  ASSUME SwarmInv, up, up', UNCHANGED <<pc, calls, channel, outbound>>,
         queries' \subseteq queries, requests' \subseteq requests,
         active' \subseteq active, sent' \subseteq sent, NEW cmd \in Command,
         \/ /\ UNCHANGED answer
            /\ queries \cap active \subseteq queries' \cap active'
            /\ requests \cap sent \subseteq requests' \cap sent'
         \/ /\ \E result \in {"ok", "err"} : answer' = [answer EXCEPT ![cmd.caller] = result]
            /\ \A q \in queries \cap active : SameCall(q, cmd) \/ q \in queries' \cap active'
            /\ \A r \in requests \cap sent : SameCall(r.cmd, cmd) \/ r \in requests' \cap sent'
            /\ \A i \in 1 .. Len(channel) : ~ SameCall(channel[i], cmd)
            /\ \A q \in queries' : ~ SameCall(q, cmd)
            /\ \A r \in requests' : ~ SameCall(r.cmd, cmd)
            /\ Listening(cmd)
  PROVE  PendingInv' /\ UniqueInv' /\ NoWaiterForgotten'
<1>1. SwarmTypeOK /\ CallsInv
  BY Zenon DEF SwarmInv
<1>2. /\ \A i \in 1 .. Len(channel) : Pending(channel[i], pc, calls, answer) /\ channel[i] \in Command
      /\ \A q \in queries : Pending(q, pc, calls, answer) /\ q \in Command
      /\ \A r \in requests : Pending(r.cmd, pc, calls, answer) /\ r.id <= outbound /\ r.cmd \in Command
  BY Zenon, <1>1, HeldAreCommands DEF CallsInv, PendingInv
<1>3. UniqueInv'
  <2>1. UniqueInv
    BY Zenon, <1>1 DEF CallsInv
  <2>2. /\ \A i, j \in 1 .. Len(channel) : SameCall(channel[i], channel[j]) => i = j
        /\ \A p, q \in queries' : SameCall(p, q) => p = q
        /\ \A r, s \in requests' : r.id = s.id \/ SameCall(r.cmd, s.cmd) => r = s
        /\ \A i \in 1 .. Len(channel), q \in queries' : ~ SameCall(channel[i], q)
        /\ \A i \in 1 .. Len(channel), r \in requests' : ~ SameCall(channel[i], r.cmd)
        /\ \A q \in queries', r \in requests' : ~ SameCall(q, r.cmd)
    BY Zenon, <2>1 DEF UniqueInv
  <2> QED BY <2>2 DEF UniqueInv, SameCall
<1>4. CASE UNCHANGED answer
           /\ queries \cap active \subseteq queries' \cap active'
           /\ requests \cap sent \subseteq requests' \cap sent'
  <2>1. PendingInv'
    BY Zenon, <1>1, <1>2, <1>4 DEF CallsInv, PendingInv
  <2>2. NoWaiterForgotten'
    <3> SUFFICES ASSUME NEW c \in Callers, pc[c] = "await", answer[c] = "none"
                 PROVE  \E o \in Ops :
                          LET w == [caller |-> c, n |-> calls[c], op |-> o] IN
                          \/ \E i \in 1 .. Len(channel) : channel[i] = w
                          \/ w \in queries' \cap active'
                          \/ \E r \in requests' \cap sent' : r.cmd = w
      BY <1>4 DEF NoWaiterForgotten
    <3>1. PICK o \in Ops :
            LET w == [caller |-> c, n |-> calls[c], op |-> o] IN
            \/ \E i \in 1 .. Len(channel) : channel[i] = w
            \/ w \in queries \cap active
            \/ \E r \in requests \cap sent : r.cmd = w
      BY Zenon, <1>1 DEF CallsInv, NoWaiterForgotten
    <3> QED BY Zenon, <1>4, <3>1
  <2> QED BY Zenon, <1>3, <2>1, <2>2
<1>5. ASSUME NEW result \in {"ok", "err"}, answer' = [answer EXCEPT ![cmd.caller] = result],
             \A q \in queries \cap active : SameCall(q, cmd) \/ q \in queries' \cap active',
             \A r \in requests \cap sent : SameCall(r.cmd, cmd) \/ r \in requests' \cap sent',
             \A i \in 1 .. Len(channel) : ~ SameCall(channel[i], cmd),
             \A q \in queries' : ~ SameCall(q, cmd),
             \A r \in requests' : ~ SameCall(r.cmd, cmd),
             Listening(cmd)
      PROVE  PendingInv' /\ NoWaiterForgotten'
  <2>1. pc[cmd.caller] = "await" /\ calls[cmd.caller] = cmd.n
    BY Zenon, <1>5 DEF Listening
  <2>2. ASSUME NEW e \in Command, ~ SameCall(e, cmd), Pending(e, pc, calls, answer)
        PROVE  Pending(e, pc, calls, answer')
    BY Zenon, <1>1, <1>5, <2>1, <2>2 DEF Pending, SameCall, Command, SwarmTypeOK
  <2>3. PendingInv'
    <3>1. \A i \in 1 .. Len(channel) : Pending(channel[i], pc, calls, answer')
      BY Zenon, <1>2, <1>5, <2>2
    <3>2. \A q \in queries' : Pending(q, pc, calls, answer')
      BY Zenon, <1>2, <1>5, <2>2
    <3>3. \A r \in requests' : Pending(r.cmd, pc, calls, answer') /\ r.id <= outbound
      BY Zenon, <1>2, <1>5, <2>2
    <3>4. \A c \in Callers : pc[c] \in {"lock", "send"} => answer'[c] = "none"
      BY Zenon, <1>1, <1>5, <2>1 DEF CallsInv, PendingInv, SwarmTypeOK
    <3> QED BY Zenon, <3>1, <3>2, <3>3, <3>4 DEF PendingInv
  <2>4. NoWaiterForgotten'
    <3> SUFFICES ASSUME NEW d \in Callers, pc[d] = "await", answer'[d] = "none"
                 PROVE  \E p \in Ops :
                          LET w == [caller |-> d, n |-> calls[d], op |-> p] IN
                          \/ \E i \in 1 .. Len(channel) : channel[i] = w
                          \/ w \in queries' \cap active'
                          \/ \E r \in requests' \cap sent' : r.cmd = w
      BY ZenonT(60) DEF NoWaiterForgotten
    <3>1. d # cmd.caller /\ answer[d] = "none"
      BY Zenon, <1>1, <1>5 DEF SwarmTypeOK, Command
    <3>2. PICK p \in Ops :
            LET w == [caller |-> d, n |-> calls[d], op |-> p] IN
            \/ \E i \in 1 .. Len(channel) : channel[i] = w
            \/ w \in queries \cap active
            \/ \E r \in requests \cap sent : r.cmd = w
      BY Zenon, <1>1, <3>1 DEF CallsInv, NoWaiterForgotten
    <3> DEFINE w == [caller |-> d, n |-> calls[d], op |-> p]
    <3>3. ~ SameCall(w, cmd)
      BY Zenon, <3>1 DEF SameCall
    <3> HIDE DEF w
    <3>4. \/ \E i \in 1 .. Len(channel) : channel[i] = w
          \/ w \in queries' \cap active'
          \/ \E r \in requests' \cap sent' : r.cmd = w
      BY Zenon, <1>5, <3>2, <3>3 DEF w
    <3> QED BY Zenon, <3>4 DEF w
  <2> QED BY Zenon, <2>3, <2>4
<1> QED BY Zenon, <1>3, <1>4, <1>5

(* What the events of a query that do not end the loop do: the remembered   *)
(* caller, which still listens, is answered, or there was none.             *)
LEMMA QueryEventOutcome ==
  ASSUME NEW cmd \in Command, NEW event, HandleQueryEvent(cmd, event), up'
  PROVE  \/ cmd \notin queries /\ UNCHANGED answer
         \/ /\ cmd \in queries /\ Listening(cmd)
            /\ \E result \in {"ok", "err"} : answer' = [answer EXCEPT ![cmd.caller] = result]
<1>1. ResultOf(event) \in {"ok", "err"}
  BY Zenon DEF ResultOf
<1> QED BY Zenon, <1>1 DEF HandleQueryEvent, Die, Answer

(* Progress and end of a query.                                             *)
LEMMA QueryEventOK ==
  ASSUME SwarmInv, NEW cmd \in active, QueryProgressed(cmd) \/ QueryFinished(cmd), up'
  PROVE  CallsInv'
<1>1. SwarmTypeOK /\ CallsInv /\ up /\ cmd \in Command
  BY Zenon DEF SwarmInv, SwarmTypeOK, QueryProgressed, QueryFinished
<1>2. PICK event : HandleQueryEvent(cmd, event)
  BY Zenon DEF QueryProgressed, QueryFinished
<1>3. /\ queries' = queries \ {cmd}
      /\ UNCHANGED <<pc, calls, channel, requests, outbound, sent>>
  BY Zenon, <1>2 DEF HandleQueryEvent, TakeEntry, callerVars
<1>4. \/ active' = active /\ cmd.op \in {"Get", "GetProviders"}
      \/ active' = active \ {cmd}
  BY Zenon DEF QueryProgressed, QueryFinished, Progress
<1>5. \/ cmd \notin queries /\ UNCHANGED answer
      \/ /\ cmd \in queries /\ Listening(cmd)
         /\ \E result \in {"ok", "err"} : answer' = [answer EXCEPT ![cmd.caller] = result]
  BY Zenon, <1>1, <1>2, QueryEventOutcome
<1>6. PendingInv' /\ UniqueInv' /\ NoWaiterForgotten'
  <2>1. CASE cmd \notin queries /\ UNCHANGED answer
    <3>1. queries \cap active \subseteq queries' \cap active'
      BY Zenon, <1>3, <1>4, <2>1
    <3> QED BY Zenon, <1>1, <1>3, <1>4, <2>1, <3>1, EntryTaken
  <2>2. CASE /\ cmd \in queries /\ Listening(cmd)
             /\ \E result \in {"ok", "err"} : answer' = [answer EXCEPT ![cmd.caller] = result]
    <3>1. UniqueInv /\ \A a, b : SameCall(a, b) => SameCall(b, a)
      BY Zenon, <1>1 DEF CallsInv, SameCall
    <3>2. \A q \in queries \cap active : SameCall(q, cmd) \/ q \in queries' \cap active'
      BY Zenon, <1>3, <1>4 DEF SameCall
    <3>3. /\ \A i \in 1 .. Len(channel) : ~ SameCall(channel[i], cmd)
          /\ \A q \in queries' : ~ SameCall(q, cmd)
          /\ \A r \in requests' : ~ SameCall(r.cmd, cmd)
      BY Zenon, <1>3, <2>2, <3>1 DEF UniqueInv
    <3> QED BY Zenon, <1>1, <1>3, <1>4, <2>2, <3>2, <3>3, EntryTaken
  <2> QED BY Zenon, <1>5, <2>1, <2>2
<1>7. ReportedInv' /\ NoEntryLeaks'
  BY Zenon, <1>1, <1>3, <1>4 DEF CallsInv, ReportedInv, NoEntryLeaks
<1> QED BY Zenon, <1>6, <1>7 DEF CallsInv

(* A response, or a failure of a request of this node or another one, for   *)
(* an id that is remembered: exactly the caller of that id is answered.     *)
LEMMA RequestEventOK ==
  ASSUME SwarmInv, up, up', NEW id, NEW result \in {"ok", "err"}, HandleRequestEvent(id, result),
         \/ UNCHANGED sent
         \/ \E r \in sent : r.id = id /\ sent' = sent \ {r}
  PROVE  CallsInv'
<1>1. SwarmTypeOK /\ CallsInv
  BY Zenon DEF SwarmInv
<1>2. PICK r \in requests : r.id = id /\ Answer(r.cmd, result)
  BY Zenon DEF HandleRequestEvent, Die
<1>3. r.cmd \in Command
  BY Zenon, <1>1, HeldAreCommands
<1>4. Listening(r.cmd) /\ answer' = [answer EXCEPT ![r.cmd.caller] = result]
  BY Zenon, <1>2 DEF Answer
<1>5. /\ requests' = {t \in requests : t.id # id}
      /\ UNCHANGED <<pc, calls, channel, queries, active, outbound>>
  BY Zenon DEF HandleRequestEvent, callerVars
<1>6. UniqueInv /\ \A a, b : SameCall(a, b) => SameCall(b, a)
  BY Zenon, <1>1 DEF CallsInv, SameCall
<1>7. requests' = requests \ {r}
  BY Zenon, <1>2, <1>5, <1>6 DEF UniqueInv
<1>8. \A t \in sent : t \in sent' \/ t.id = id
  BY Zenon
<1>9. \A t \in requests \cap sent : SameCall(t.cmd, r.cmd) \/ t \in requests' \cap sent'
  <2>1. \A t \in requests : t.id = id => t = r
    BY Zenon, <1>2, <1>6 DEF UniqueInv
  <2> QED BY Zenon, <1>7, <1>8, <2>1 DEF SameCall
<1>10. /\ \A i \in 1 .. Len(channel) : ~ SameCall(channel[i], r.cmd)
       /\ \A q \in queries' : ~ SameCall(q, r.cmd)
       /\ \A t \in requests' : ~ SameCall(t.cmd, r.cmd)
  BY Zenon, <1>2, <1>5, <1>6, <1>7 DEF UniqueInv
<1>11. sent' \subseteq sent
  BY Zenon
<1>12. PendingInv' /\ UniqueInv' /\ NoWaiterForgotten'
  BY Zenon, <1>3, <1>4, <1>5, <1>7, <1>9, <1>10, <1>11, EntryTaken
<1>13. requests' \subseteq sent'
  BY Zenon, <1>1, <1>5, <1>8 DEF CallsInv, NoEntryLeaks
<1> QED BY Zenon, <1>1, <1>5, <1>12, <1>13 DEF CallsInv, ReportedInv, NoEntryLeaks

(* Every step keeps the invariant.                                          *)
LEMMA SwarmInvStep == SwarmInv /\ [Next]_vars => SwarmInv'
<1> SUFFICES ASSUME SwarmInv, [Next]_vars, up' PROVE CallsInv'
  BY Zenon, SwarmTypeStep DEF SwarmInv
<1>1. ASSUME NEW c \in Callers, Call(c) \/ CallerStep(c) \/ Cancel(c) PROVE CallsInv'
  BY Zenon, <1>1, CallerOK, SendOK DEF CallerStep
<1>2. CASE HandleControllerEvent
  BY Zenon, <1>2, ControllerEventOK
<1>3. ASSUME NEW cmd \in active, QueryProgressed(cmd) \/ QueryFinished(cmd) PROVE CallsInv'
  BY Zenon, <1>3, QueryEventOK
<1>4. ASSUME NEW r \in sent, HandleResponse(r) PROVE CallsInv'
  <2>1. PICK result \in {"ok", "err"} : HandleRequestEvent(r.id, result)
    BY Zenon, <1>4 DEF HandleResponse
  <2> QED BY Zenon, <1>4, <2>1, RequestEventOK DEF HandleResponse
<1>5. ASSUME NEW id \in served, HandleInboundFailure(id) PROVE CallsInv'
  BY Zenon, <1>5, RequestEventOK DEF HandleInboundFailure
<1>6. CASE HandleRequest \/ (\E id \in served : HandleResponseSent(id)) \/ UNCHANGED vars
  <2>1. UNCHANGED <<callerVars, channel, mapVars, answer>> /\ up
    BY Zenon, <1>6 DEF HandleRequest, HandleResponseSent, Die, vars
  <2>2. CallsInv
    BY Zenon, <2>1 DEF SwarmInv
  <2>3. PendingInv'
    BY Zenon, <2>1, <2>2 DEF CallsInv, PendingInv, callerVars, mapVars
  <2>4. UniqueInv'
    BY Zenon, <2>1, <2>2 DEF CallsInv, UniqueInv, SameCall, mapVars
  <2>5. ReportedInv' /\ NoEntryLeaks'
    BY Zenon, <2>1, <2>2 DEF CallsInv, ReportedInv, NoEntryLeaks, mapVars
  <2>6. NoWaiterForgotten'
    BY Zenon, <2>1, <2>2 DEF CallsInv, NoWaiterForgotten, callerVars, mapVars
  <2> QED BY Zenon, <2>3, <2>4, <2>5, <2>6 DEF CallsInv
<1> QED BY Zenon, <1>1, <1>2, <1>3, <1>4, <1>5, <1>6 DEF Next

-----------------------------------------------------------------------------
(* The inductive invariant holds in every reachable state.                  *)
THEOREM SwarmInvariant == Spec => []SwarmInv
<1>1. Init => SwarmInv
  BY SwarmAssumption DEF Init, SwarmInv, SwarmTypeOK, CallsInv, PendingInv, UniqueInv, ReportedInv,
                         NoWaiterForgotten, NoEntryLeaks, Command, Request
<1> QED BY <1>1, SwarmInvStep, PTL DEF Spec

(* The state keeps its shape and the command channel its capacity, for any  *)
(* callers and faults.                                                      *)
THEOREM SwarmTypeCorrect == Spec => []SwarmTypeOK
<1>1. SwarmInv => SwarmTypeOK
  BY Zenon DEF SwarmInv
<1> QED BY <1>1, SwarmInvariant, PTL

(* While the loop runs, a caller that awaits an answer is in the channel or *)
(* remembered for a query or request that libp2p has not finished.          *)
THEOREM SwarmForgetsNobody == Spec => []NoWaiterForgotten
<1>1. SwarmInv => NoWaiterForgotten
  BY Zenon DEF SwarmInv, CallsInv, NoWaiterForgotten
<1> QED BY <1>1, SwarmInvariant, PTL

(* The maps queries and requests hold only callers of queries and requests  *)
(* that libp2p has not finished.                                            *)
THEOREM SwarmLeaksNothing == Spec => []NoEntryLeaks
<1>1. SwarmInv => NoEntryLeaks
  BY Zenon DEF SwarmInv, CallsInv, NoEntryLeaks
<1> QED BY <1>1, SwarmInvariant, PTL

(* Every call has at most one answer, and none after the loop has ended:    *)
(* the swarm and its controller implement Calls.  Locking, sending and      *)
(* starting a query are stutters.                                           *)
THEOREM SwarmKeepsPromise == Spec => CallsImplemented
<1> DEFINE waiting == {c \in Callers : pc[c] # "idle"}
<1>1. Init => Promise!Init
  BY Zenon DEF Init, Promise!Init
<1>2. SwarmInv /\ [Next]_vars => [Promise!Next]_(Promise!vars)
  <2> SUFFICES ASSUME SwarmInv, [Next]_vars PROVE Promise!Next \/ UNCHANGED Promise!vars
    BY Zenon
  <2>1. SwarmTypeOK /\ (up => CallsInv)
    BY Zenon DEF SwarmInv
  <2>2. ASSUME NEW c \in Callers, Call(c) PROVE Promise!Next
    <3>1. waiting' = waiting \cup {c}
      BY Zenon, <2>1, <2>2 DEF Call, SwarmTypeOK
    <3>2. Promise!Call(c)
      BY Zenon, <2>2, <3>1 DEF Call, Promise!Call
    <3> QED BY Zenon, <3>2 DEF Promise!Next
  <2>3. ASSUME NEW c \in Callers, Return(c) \/ Cancel(c) PROVE Promise!Next
    <3>1. waiting' = waiting \ {c} /\ pc[c] # "idle"
      BY Zenon, <2>1, <2>3 DEF Return, Cancel, SwarmTypeOK
    <3>2. Promise!Leave(c)
      BY Zenon, <2>3, <3>1 DEF Return, Cancel, Promise!Leave
    <3> QED BY Zenon, <3>2 DEF Promise!Next
  <2>4. ASSUME NEW c \in Callers, Lock(c) \/ Send(c) PROVE UNCHANGED Promise!vars
    <3>1. waiting' = waiting
      BY Zenon, <2>1, <2>4 DEF Lock, Send, SwarmTypeOK
    <3> QED BY Zenon, <2>4, <3>1 DEF Lock, Send, Promise!vars
  <2>5. ASSUME up, ~ up', UNCHANGED <<pc, answer>> PROVE Promise!Next
    BY Zenon, <2>1, <2>5, SwarmTypeStep DEF Promise!Next, Promise!End, SwarmTypeOK
  <2>6. ASSUME NEW cmd \in Command, Listening(cmd), answer[cmd.caller] = "none", up,
               NEW result \in {"ok", "err"}, Answer(cmd, result), UNCHANGED pc
        PROVE  Promise!Next
    <3>1. cmd.caller \in Callers
      BY Zenon DEF Command
    <3>2. up' = up /\ answer' = [answer EXCEPT ![cmd.caller] = result]
      BY Zenon, <2>1, <2>6 DEF Answer, SwarmTypeOK
    <3>3. Promise!GiveAnswer(cmd.caller)
      BY Zenon, <2>6, <3>1, <3>2 DEF Promise!GiveAnswer, Listening
    <3> QED BY Zenon, <3>1, <3>3 DEF Promise!Next
  <2>7. ASSUME NEW cmd, ~ Listening(cmd), up, NEW result, Answer(cmd, result), UNCHANGED pc
        PROVE  Promise!Next
    BY Zenon, <2>5, <2>7 DEF Answer
  <2>8. CASE HandleControllerEvent
    <3>1. UNCHANGED pc /\ up
      BY Zenon, <2>8 DEF HandleControllerEvent, callerVars
    <3>2. CASE Die
      BY Zenon, <2>5, <3>1, <3>2 DEF Die
    <3>3. CASE UNCHANGED <<up, answer>>
      BY Zenon, <3>1, <3>3 DEF Promise!vars
    <3> QED BY Zenon, <2>8, <3>2, <3>3 DEF HandleControllerEvent
  <2>9. ASSUME NEW cmd \in active, QueryProgressed(cmd) \/ QueryFinished(cmd)
        PROVE  Promise!Next \/ UNCHANGED Promise!vars
    <3>1. PICK event : HandleQueryEvent(cmd, event)
      BY Zenon, <2>9 DEF QueryProgressed, QueryFinished
    <3>2. UNCHANGED pc /\ up /\ cmd \in Command /\ ResultOf(event) \in {"ok", "err"}
      BY Zenon, <2>1, <2>9, <3>1
         DEF QueryProgressed, QueryFinished, HandleQueryEvent, callerVars, SwarmTypeOK, ResultOf
    <3>3. CASE Die
      BY Zenon, <2>5, <3>2, <3>3 DEF Die
    <3>4. CASE UNCHANGED <<up, answer>>
      BY Zenon, <3>2, <3>4 DEF Promise!vars
    <3>5. CASE cmd \in queries /\ Answer(cmd, ResultOf(event))
      <4>1. Listening(cmd) => answer[cmd.caller] = "none"
        BY Zenon, <2>1, <3>2, <3>5 DEF CallsInv, PendingInv, Pending, Listening
      <4> QED BY Zenon, <2>6, <2>7, <3>2, <3>5, <4>1
    <3> QED BY Zenon, <3>1, <3>3, <3>4, <3>5 DEF HandleQueryEvent
  <2>10. ASSUME NEW id, NEW result \in {"ok", "err"}, HandleRequestEvent(id, result), up
         PROVE  Promise!Next
    <3>1. UNCHANGED pc
      BY Zenon, <2>10 DEF HandleRequestEvent, callerVars
    <3>2. CASE Die
      BY Zenon, <2>5, <2>10, <3>1, <3>2 DEF Die
    <3>3. ASSUME NEW r \in requests, Answer(r.cmd, result) PROVE Promise!Next
      <4>1. r.cmd \in Command
        BY Zenon, <2>1, HeldAreCommands
      <4>2. Listening(r.cmd) => answer[r.cmd.caller] = "none"
        BY Zenon, <2>1, <2>10 DEF CallsInv, PendingInv, Pending, Listening
      <4> QED BY Zenon, <2>6, <2>7, <2>10, <3>1, <3>3, <4>1, <4>2
    <3> QED BY Zenon, <2>10, <3>2, <3>3 DEF HandleRequestEvent
  <2>11. ASSUME NEW r \in sent, HandleResponse(r) PROVE Promise!Next
    BY Zenon, <2>10, <2>11 DEF HandleResponse
  <2>12. ASSUME NEW id \in served, HandleInboundFailure(id) PROVE Promise!Next
    BY Zenon, <2>10, <2>12 DEF HandleInboundFailure
  <2>13. CASE HandleRequest
    <3>1. UNCHANGED <<pc, answer>> /\ up /\ (up' = up \/ ~ up')
      BY Zenon, <2>13 DEF HandleRequest, Die, callerVars
    <3> QED BY Zenon, <2>5, <3>1 DEF Promise!vars
  <2>14. CASE (\E id \in served : HandleResponseSent(id)) \/ UNCHANGED vars
    BY Zenon, <2>14 DEF HandleResponseSent, callerVars, vars, Promise!vars
  <2> QED BY Zenon, <2>2, <2>3, <2>4, <2>8, <2>9, <2>11, <2>12, <2>13, <2>14 DEF Next, CallerStep
<1> QED BY <1>1, <1>2, SwarmInvariant, PTL DEF Spec, CallsImplemented, Promise!Spec

(* Putting to remotes, getting records and requesting verifications do not  *)
(* end the loop, whatever libp2p reports: a step that ends it happens       *)
(* beside a cancelled call, a local put or a discovery, or a failed request *)
(* of another node.                                                         *)
THEOREM SwarmStaysUp == Spec => DataOpsKeepNodeUp
<1> DEFINE Cause == \/ \E cmd \in Awaited : ~ Listening(cmd)
                    \/ \E cmd \in Awaited \cup active :
                         cmd.op \notin {"PutRemote", "Get", "RequestVerification"}
                    \/ sent # requests
           Step == up /\ ~ up' /\ UNCHANGED peerVars => Cause
<1>1. SwarmInv /\ [Next]_vars => [Step]_vars
  <2> SUFFICES ASSUME SwarmInv, Next, up, ~ up', UNCHANGED peerVars PROVE Cause
    BY Zenon
  <2>1. SwarmTypeOK /\ CallsInv
    BY Zenon DEF SwarmInv
  <2>2. CASE HandleControllerEvent
    <3> DEFINE cmd == Head(channel)
    <3>1. cmd \in Awaited
      <4>1. channel # <<>> /\ channel \in Seq(Command)
        BY Zenon, <2>1, <2>2 DEF HandleControllerEvent, SwarmTypeOK
      <4>2. 1 \in DOMAIN channel /\ cmd = channel[1]
        BY <4>1
      <4> QED BY Zenon, <4>2 DEF Awaited, Range
    <3>2. ~ Listening(cmd) \/ cmd.op \in {"PutLocal", "StartProviding", "GetProviders"}
      <4>1. ~ Listening(cmd) \/ \E outcome \in StartOutcomes(cmd.op) : outcome # "started"
        BY Zenon, <2>2 DEF HandleControllerEvent
      <4> QED BY Zenon, <4>1 DEF StartOutcomes
    <3> HIDE DEF cmd
    <3> QED BY Zenon, <3>1, <3>2
  <2>3. ASSUME NEW cmd \in active, QueryProgressed(cmd) \/ QueryFinished(cmd) PROVE Cause
    <3>1. PICK event : HandleQueryEvent(cmd, event)
      BY Zenon, <2>3 DEF QueryProgressed, QueryFinished
    <3>2. CASE cmd \notin queries
      <4>1. cmd.op \in {"Get", "GetProviders"} /\ cmd.op # "Get"
        BY Zenon, <2>1, <3>1, <3>2 DEF HandleQueryEvent, ToleratesNoEntry, CallsInv, ReportedInv
      <4> QED BY Zenon, <4>1
    <3>3. CASE cmd \in queries
      <4>1. Fatal(cmd.op, event) \/ ~ Listening(cmd)
        BY Zenon, <3>1, <3>3 DEF HandleQueryEvent, Answer
      <4>2. cmd \in Awaited
        BY Zenon, <3>3 DEF Awaited
      <4> QED BY Zenon, <4>1, <4>2 DEF Fatal
    <3> QED BY Zenon, <3>2, <3>3
  <2>4. ASSUME NEW r \in sent, HandleResponse(r) PROVE Cause
    <3>1. PICK result \in {"ok", "err"} : HandleRequestEvent(r.id, result)
      BY Zenon, <2>4 DEF HandleResponse
    <3>2. CASE sent = requests
      <4>1. PICK t \in requests : Answer(t.cmd, result)
        BY Zenon, <3>1, <3>2 DEF HandleRequestEvent
      <4>2. t.cmd \in Awaited /\ ~ Listening(t.cmd)
        BY Zenon, <4>1 DEF Answer, Awaited
      <4> QED BY Zenon, <4>2
    <3> QED BY Zenon, <3>2
  <2>5. ASSUME NEW c \in Callers, Call(c) \/ CallerStep(c) \/ Cancel(c) PROVE FALSE
    BY Zenon, <2>5 DEF Call, CallerStep, Lock, Send, Return, Cancel
  <2>6. CASE HandleRequest
    <3>1. inbound \in Nat /\ inbound' = inbound + 1 /\ inbound' = inbound
      BY <2>1, <2>6, SwarmAssumption DEF HandleRequest, peerVars, SwarmTypeOK
    <3> QED BY <3>1
  <2>7. ASSUME NEW id \in served, HandleResponseSent(id) \/ HandleInboundFailure(id) PROVE FALSE
    BY Zenon, <2>7 DEF HandleResponseSent, HandleInboundFailure, peerVars
  <2> QED BY Zenon, <2>2, <2>3, <2>4, <2>5, <2>6, <2>7 DEF Next
<1> QED BY <1>1, SwarmInvariant, PTL DEF Spec, DataOpsKeepNodeUp
=============================================================================
