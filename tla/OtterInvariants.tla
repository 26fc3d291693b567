--------------------------- MODULE OtterInvariants ---------------------------
(***************************************************************************)
(* Why a server run under AtMostOnce executes no call twice: an inductive  *)
(* invariant.                                                              *)
(*                                                                         *)
(* The calls of a client are ordered by the run of the client and their    *)
(* number.  A client makes them in this order and retransmits only the     *)
(* last one, and the queue of the server keeps the order.  Hence, behind   *)
(* the packet that the server handles there is nothing older; and when a   *)
(* Start has the responses to a client forgotten, all copies of the calls  *)
(* they belong to have left the queue, and no other will be sent.          *)
(***************************************************************************)
EXTENDS Otter

\* The order of the calls of one client.
Before(run1, num1, run2, num2) == run1 < run2 \/ (run1 = run2 /\ num1 < num2)
NotAfter(run1, num1, run2, num2) == run1 < run2 \/ (run1 = run2 /\ num1 <= num2)

\* A packet that the server takes for a call of c.
IsCall(p, c) == p.from = c /\ p.msg.callType # "MonitorUpdate"

\* The server hears from clients only, so that it never writes to itself.
FromClients ==
  /\ \A i \in DOMAIN inbox[Srv] : inbox[Srv][i].from \in Clients
  /\ pc[Srv] = "rpc" => pending[Srv].sa \in Clients /\ job.from \in Clients
  /\ \A e \in executed : e[2] \in Clients

\* The call a client is blocked on is its last one.
PendingIsLast(c) ==
  pc[c] = "rpc" =>
    /\ pending[c].call.run = runs[c]
    /\ pending[c].call.num = messageNum[c] - 1

\* A queued call has been made, and one that has the number of the call its
\* client is blocked on is a copy of that call.
QueuedWasMade(c) ==
  \A i \in DOMAIN inbox[Srv] :
    LET p == inbox[Srv][i] IN
    IsCall(p, c) =>
      /\ Before(p.msg.run, p.msg.num, runs[c], messageNum[c])
      /\ pc[c] = "rpc" /\ p.msg.run = runs[c] /\ p.msg.num = messageNum[c] - 1
           => p.msg.callType = pending[c].call.callType

\* The queue holds the calls of a client in the order they were made in, and
\* two of the same number are copies of each other.
QueuedInOrder(c) ==
  \A i, j \in DOMAIN inbox[Srv] :
    LET p == inbox[Srv][i]
        q == inbox[Srv][j]
    IN i < j /\ IsCall(p, c) /\ IsCall(q, c) =>
         /\ NotAfter(p.msg.run, p.msg.num, q.msg.run, q.msg.num)
         /\ p.msg.run = q.msg.run /\ p.msg.num = q.msg.num
              => p.msg.callType = q.msg.callType

\* An executed call was no Start, and no queued call is older than it.
WasMade(c, e) ==
  /\ e[1] <= runs[Srv]
  /\ Before(e[3], e[4], runs[c], messageNum[c])
  /\ pc[c] = "rpc" /\ e[3] = runs[c] /\ e[4] = messageNum[c] - 1
       => pending[c].call.callType # "Start"
  /\ \A i \in DOMAIN inbox[Srv] :
       LET p == inbox[Srv][i] IN
       IsCall(p, c) =>
         /\ NotAfter(e[3], e[4], p.msg.run, p.msg.num)
         /\ e[3] = p.msg.run /\ e[4] = p.msg.num => p.msg.callType # "Start"

ExecutedWasMade(c) == \A e \in executed : e[2] = c => WasMade(c, e)

\* The response to an execution is stored.
IsStored(e) == \E entry \in messageMap : entry.from = e[2] /\ entry.num = e[4]

\* The execution is the one whose monitor updates are going out.
IsUnderWay(e) ==
  /\ pc[Srv] = "rpc"
  /\ job.from = e[2] /\ job.call.run = e[3] /\ job.call.num = e[4]

\* No copy of the executed call is queued, or will be.
IsOver(e) ==
  /\ pc[e[2]] = "rpc" => Before(e[3], e[4], runs[e[2]], messageNum[e[2]] - 1)
  /\ \A i \in DOMAIN inbox[Srv] :
       LET p == inbox[Srv][i] IN
       IsCall(p, e[2]) => Before(e[3], e[4], p.msg.run, p.msg.num)

\* A running server recognises every copy of what it has executed.
ResponsesKept ==
  ServerSemantic = "AtMostOnce" =>
    \A e \in executed : e[1] = runs[Srv] /\ pc[Srv] # "down" =>
      IsStored(e) \/ IsUnderWay(e) \/ IsOver(e)

ClientInv(c) ==
  /\ PendingIsLast(c)
  /\ QueuedWasMade(c)
  /\ QueuedInOrder(c)
  /\ ExecutedWasMade(c)

\* The inductive invariant, of which AtMostOnce is a part.
AtMostOnceInv ==
  /\ FromClients
  /\ \A c \in Clients : ClientInv(c)
  /\ ResponsesKept
  /\ AtMostOnce
=============================================================================
