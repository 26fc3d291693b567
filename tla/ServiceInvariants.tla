-------------------------- MODULE ServiceInvariants --------------------------
(***************************************************************************)
(* Why the clients see the service of AtMostOnceService: an inductive      *)
(* invariant, for processes that are started once and run without -l, of   *)
(* which one client at most monitors files.                                *)
(*                                                                         *)
(* Calls and responses travel in queues, so the responses a client takes   *)
(* come in the order of its calls: when it has accepted the answer to its  *)
(* last call, nothing that belongs to an older call is left, neither in    *)
(* its queue, nor at the server.  The client that monitors acknowledges    *)
(* each update once, and the server waits for that: no acknowledgement     *)
(* comes late, to be taken for a call.                                     *)
(***************************************************************************)
EXTENDS OtterInvariants

Monitoring == { c \in Clients : "monitor" \in Commands[c] }

ServiceConditions ==
  /\ MaxClientRuns = 1
  /\ MaxServerRuns = 1
  /\ ClientSemantic = "AtMostOnce"
  /\ ServerSemantic = "AtMostOnce"
  /\ \A c, d \in Monitoring : c = d

IsUpdate(msg) == msg.callType = "MonitorUpdate"

\* The responses that c has yet to take, among the packets of its queue.
IsResponse(p) == ~IsUpdate(p.msg)

WasExecuted(c, num) == <<1, c, 1, num>> \in executed

-----------------------------------------------------------------------------
(* Runs, types and numbers.                                                 *)

\* Every process runs its first time, or has ended.
FirstRuns ==
  /\ runs[Srv] = 1
  /\ \A c \in Clients : runs[c] = IF messageNum[c] = 0 THEN 0 ELSE 1
  /\ \A c \in Clients : pc[c] # "down" => runs[c] = 1
  /\ \A e \in executed : e[1] = 1 /\ e[3] = 1
  /\ \A i \in DOMAIN inbox[Srv] :
       ~IsUpdate(inbox[Srv][i].msg) => inbox[Srv][i].msg.run = 1
  /\ pc[Srv] # "monitor"

\* Clients hear from the server and call nobody else.
ServerOnly(c) ==
  /\ pending[c].sa = Srv
  /\ \A i \in DOMAIN inbox[c] : inbox[c][i].from = Srv

\* A client makes no call of the server's type, and only one that may monitor
\* asks for it, and for its end.
MayCall(c, callType) ==
  /\ callType # "MonitorUpdate"
  /\ callType \in {"Monitor", "MonitorEnd"} => c \in Monitoring

CallsOfClient(c) ==
  /\ MayCall(c, lastMessage[c].callType)
  /\ MayCall(c, pending[c].call.callType)
  /\ pc[c] = "monitor" => c \in Monitoring
  /\ \A i \in DOMAIN inbox[Srv] :
       LET p == inbox[Srv][i] IN
       p.from = c /\ ~IsUpdate(p.msg) => MayCall(c, p.msg.callType)

\* How many numbers a client may have given out: the last command may be a
\* monitoring, which ends with another call, or a read of up to three calls.
NumbersBounded(c) ==
  /\ messageNum[c] <= MaxCalls + 2
  /\ pc[c] = "monitor" => messageNum[c] <= MaxCalls
  /\ pc[c] = "rpc" =>
       /\ pending[c].call.callType = "Monitor" => messageNum[c] <= MaxCalls
       /\ pending[c].call.callType = "Dump" /\ ~HasCopy(c, Path(c)) => messageNum[c] <= MaxCalls
       /\ pending[c].call.callType = "Fresh" =>
            HasCopy(c, Path(c)) /\ messageNum[c] <= MaxCalls + 1

-----------------------------------------------------------------------------
(* Responses.                                                               *)

\* A response that the server stores or sends belongs to a call that was made
\* and, unless it is the one to a Start, executed.
ResponsesExecuted(c) ==
  /\ \A e \in messageMap : e.from = c =>
       /\ e.num < messageNum[c]
       /\ ~IsUpdate(e.message)
       /\ e.message.callType # "Start" => WasExecuted(c, e.num)
  /\ \A i \in DOMAIN inbox[c] :
       LET p == inbox[c][i] IN
       IsResponse(p) /\ p.msg.callType # "Start" => WasExecuted(c, p.msg.num)

\* The edit whose updates are going out.
JobUnderWay ==
  pc[Srv] = "rpc" =>
    /\ job.call.callType \in {"Insert", "Shift"}
    /\ WasExecuted(job.from, job.call.num)

\* The responses to a client come in the order of its calls, before those to
\* the call under way and to the calls in the queue.
ResponsesInOrder(c) ==
  /\ \A i, j \in DOMAIN inbox[c] :
       i < j /\ IsResponse(inbox[c][i]) /\ IsResponse(inbox[c][j]) =>
         inbox[c][i].msg.num <= inbox[c][j].msg.num
  /\ \A i \in DOMAIN inbox[c] : IsResponse(inbox[c][i]) =>
       /\ inbox[c][i].msg.num < messageNum[c]
       /\ \A j \in DOMAIN inbox[Srv] : IsCall(inbox[Srv][j], c) =>
            inbox[c][i].msg.num <= inbox[Srv][j].msg.num
       /\ pc[Srv] = "rpc" /\ job.from = c => inbox[c][i].msg.num <= job.call.num
  /\ pc[Srv] = "rpc" /\ job.from = c =>
       \A j \in DOMAIN inbox[Srv] : IsCall(inbox[Srv][j], c) =>
         job.call.num <= inbox[Srv][j].msg.num

\* A client that waits for no answer has left nothing older behind.
NothingOlder(c) ==
  pc[c] \in {"ready", "monitor"} =>
    /\ \A i \in DOMAIN inbox[c] : IsResponse(inbox[c][i]) =>
         inbox[c][i].msg.num = messageNum[c] - 1
    /\ \A j \in DOMAIN inbox[Srv] : IsCall(inbox[Srv][j], c) =>
         inbox[Srv][j].msg.num = messageNum[c] - 1
    /\ pc[Srv] = "rpc" /\ job.from = c => job.call.num = messageNum[c] - 1

\* What a response may be to a call: a Monitor is accepted, and a copy is a state
\* the file had.
Answers(call, resp) ==
  /\ resp.callType = call.callType
  /\ call.callType = "Monitor" => resp.strs = <<>> /\ resp.ints # <<>> /\ resp.ints[1] = Good
  /\ call.callType = "Dump" =>
       \/ resp.strs = <<>>
       \/ call.strs[1] \in Files /\ resp.strs[1] \in 1 .. files[call.strs[1]]

\* What has the number of a client's last call is a copy of it or an answer to it.
CallOfLast(c, call) ==
  call.num = messageNum[c] - 1 =>
    /\ pc[c] = "rpc" => call = pending[c].call
    /\ pc[c] = "monitor" => call.callType = "Monitor"

AnswerToLast(c, num, resp) ==
  num = messageNum[c] - 1 =>
    /\ pc[c] = "rpc" => Answers(pending[c].call, resp)
    /\ pc[c] = "monitor" => resp.callType = "Monitor" /\ resp.strs = <<>>

LastCall(c) ==
  /\ \A j \in DOMAIN inbox[Srv] : IsCall(inbox[Srv][j], c) => CallOfLast(c, inbox[Srv][j].msg)
  /\ pc[Srv] = "rpc" /\ job.from = c => CallOfLast(c, job.call)
  /\ \A i \in DOMAIN inbox[c] : IsResponse(inbox[c][i]) =>
       AnswerToLast(c, inbox[c][i].msg.num, inbox[c][i].msg)
  /\ \A e \in messageMap : e.from = c => AnswerToLast(c, e.num, e.message)

-----------------------------------------------------------------------------
(* Updates and acknowledgements.                                            *)

\* The only packets in the server's queue that are no calls are those of the
\* client that monitors.
AcksOfMonitoring ==
  \A i \in DOMAIN inbox[Srv] : IsUpdate(inbox[Srv][i].msg) => inbox[Srv][i].from \in Monitoring

\* The client has acknowledged all updates but the last one, and this one too when
\* the server is back in its loop.  An acknowledgement that is queued is the only
\* one, and the server is waiting for it.
AcksInTime(w) ==
  /\ \A i \in DOMAIN inbox[w] : IsUpdate(inbox[w][i].msg) =>
       inbox[w][i].msg.num < messageNum[Srv] /\ Len(inbox[w][i].msg.strs) = 2
  /\ messageNum[w] = 0 => messageNum[Srv] = 0 /\ monitors = <<>> /\ prevPacketNumber[w] = -1
  /\ pc[Srv] = "ready" => prevPacketNumber[w] = messageNum[Srv] - 1
  /\ pc[Srv] = "rpc" => prevPacketNumber[w] \in {messageNum[Srv] - 2, messageNum[Srv] - 1}
  /\ \A i \in DOMAIN inbox[Srv] : IsUpdate(inbox[Srv][i].msg) =>
       /\ pc[Srv] = "rpc"
       /\ prevPacketNumber[w] = messageNum[Srv] - 1
       /\ inbox[Srv][i].msg.num = messageNum[Srv] - 1
       /\ \A j \in DOMAIN inbox[Srv] : IsUpdate(inbox[Srv][j].msg) => i = j

\* The server waits for an acknowledgement of its last update.
ServerCalls ==
  pc[Srv] = "rpc" =>
    /\ IsUpdate(pending[Srv].call) /\ Len(pending[Srv].call.strs) = 2
    /\ pending[Srv].call.num = messageNum[Srv] - 1

-----------------------------------------------------------------------------

\* What the client does and may expect.
CallsInv(c) == ServerOnly(c) /\ CallsOfClient(c) /\ NumbersBounded(c)
AnswersInv(c) ==
  ResponsesExecuted(c) /\ ResponsesInOrder(c) /\ NothingOlder(c) /\ LastCall(c)

UpdatesInv ==
  /\ AcksOfMonitoring
  /\ ServerCalls
  /\ \A w \in Monitoring : AcksInTime(w)

\* The inductive invariant.
ServiceInv ==
  /\ FirstRuns
  /\ JobUnderWay
  /\ UpdatesInv
  /\ \A c \in Clients : CallsInv(c) /\ AnswersInv(c)
  /\ CopiesOfOwnFile
=============================================================================
