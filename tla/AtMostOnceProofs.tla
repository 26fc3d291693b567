-------------------------- MODULE AtMostOnceProofs --------------------------
(***************************************************************************)
(* The proof that a server run under AtMostOnce executes no call twice, for *)
(* any set of clients, any commands and any number of losses, calls, tries  *)
(* and starts of the processes.                                             *)
(*                                                                         *)
(* The steps are first reduced to what they do to the queue of the server   *)
(* and to the call a client is blocked on: a client adds at most one packet *)
(* to the queue, and the server takes packets from it.                      *)
(***************************************************************************)
EXTENDS OtterInvariants, OtterProofs

USE SenderAssumption, ClientAssumption, ServerAssumption DEF Nodes

Queue == inbox[Srv]

\* The server's queue grows by at most one packet, from c, if it is open.
Sends(c, msg) ==
  \/ Queue' = Queue
  \/ pc[Srv] # "down" /\ Queue' = Append(Queue, [ from |-> c, msg |-> msg ])

\* Nothing else of the other processes changes.
OthersKept(c) ==
  /\ \A n \in Nodes \ {c} :
       /\ pc'[n] = pc[n]
       /\ pending'[n] = pending[n]
       /\ runs'[n] = runs[n]
       /\ messageNum'[n] = messageNum[n]
  /\ UNCHANGED serverVars

\* A client that is not calling after the step has sent no call.
Quiet(c) ==
  /\ OthersKept(c)
  /\ pc'[c] # "rpc"
  /\ runs'[c] = runs[c]
  /\ messageNum'[c] = messageNum[c]
  /\ \E msg \in Messages : msg.callType = "MonitorUpdate" /\ Sends(c, msg)

\* A client makes its next call, or the first one of its next run.
Calls(c) ==
  /\ OthersKept(c)
  /\ pc'[c] = "rpc"
  /\ \/ runs'[c] = runs[c] /\ messageNum'[c] = messageNum[c] + 1
     \/ runs'[c] = runs[c] + 1 /\ messageNum'[c] = 1
  /\ pending'[c].call.run = runs'[c]
  /\ pending'[c].call.num = messageNum'[c] - 1
  /\ Sends(c, pending'[c].call)

\* A client goes on waiting, and may send its call again.
Waits(c) ==
  /\ OthersKept(c)
  /\ pc[c] = "rpc"
  /\ pc'[c] = "rpc"
  /\ runs'[c] = runs[c]
  /\ messageNum'[c] = messageNum[c]
  /\ pending'[c].call = pending[c].call
  /\ Sends(c, pending[c].call)

-----------------------------------------------------------------------------

\* A client that transmits adds to the server's queue at most.
LEMMA TransmitSends ==
  ASSUME NEW queues \in [ Nodes -> Seq(Packets) ], NEW c \in Clients, NEW to, NEW msg,
         queues[Srv] = Queue, Transmit(queues, c, to, msg)
  PROVE  Sends(c, msg)
  BY DEF Transmit, Delivered, Sends, Queue

\* A client that enters sendMessage makes its next call, or the first of a run.
LEMMA SendMessageCalls ==
  ASSUME BasicTypeOK, NEW c \in Clients, NEW msg \in Messages, NEW num \in Nat, NEW run \in Nat,
         NEW queues \in [ Nodes -> Seq(Packets) ], queues[Srv] = Queue,
         SendMessage(queues, c, Srv, msg, num, run), UNCHANGED serverVars,
         \/ num = messageNum[c] /\ run = runs[c] /\ runs' = runs
         \/ num = 0 /\ run = runs[c] + 1 /\ runs' = [ runs EXCEPT ![c] = @ + 1 ]
  PROVE  Calls(c)
<1> DEFINE call == Numbered(msg, num, run)
<1>1. call.num = num /\ call.run = run
  BY DEF Numbered, Messages
<1>2. pending'[c].call = call
  BY DEF SendMessage, BasicTypeOK, SenderTypeOK
<1>3. Sends(c, call)
  BY TransmitSends DEF SendMessage, BasicTypeOK, SenderTypeOK, Queue
<1>4. /\ runs[c] \in Nat /\ messageNum[c] \in Nat
      /\ pc'[c] = "rpc" /\ messageNum'[c] = num + 1
  BY DEF SendMessage, BasicTypeOK, SenderTypeOK
<1>5. runs'[c] = run
  BY DEF BasicTypeOK, SenderTypeOK
<1>6. OthersKept(c)
  BY DEF OthersKept, SendMessage, BasicTypeOK, SenderTypeOK
<1>7. QED
  BY <1>1, <1>2, <1>3, <1>4, <1>5, <1>6 DEF Calls

\* A call that the cache makes is its client's next one.
LEMMA AskCalls ==
  ASSUME BasicTypeOK, NEW c \in Clients, NEW callType \in {"Fresh", "Dump"},
         NEW path \in Files \cup Nat,
         NEW queues \in [ Nodes -> Seq(Packets) ], queues[Srv] = Queue,
         SendMessage(queues, c, Srv, Message(callType, <<>>, <<path>>), messageNum[c], runs[c]),
         UNCHANGED <<runs, serverVars>>
  PROVE  Calls(c)
<1>1. Message(callType, <<>>, <<path>>) \in Messages
  BY PlainMessageType DEF CallTypes
<1>2. runs[c] \in Nat /\ messageNum[c] \in Nat
  BY DEF BasicTypeOK, SenderTypeOK
<1>3. QED
  BY <1>1, <1>2, SendMessageCalls

\* Every step of a client is one of the three.
LEMMA ClientMoves ==
  ASSUME BasicTypeOK, NEW c \in Clients, UserStep(c) \/ ClientStep(c)
  PROVE  Quiet(c) \/ Calls(c) \/ Waits(c)
<1>1. c \in Nodes /\ c # Srv /\ runs[c] \in Nat /\ messageNum[c] \in Nat
  BY DEF BasicTypeOK, SenderTypeOK
<1>2. ASSUME UNCHANGED serverVars, UNCHANGED <<messageNum, runs>>,
             \A n \in Nodes \ {c} : pc'[n] = pc[n] /\ pending'[n] = pending[n],
             pc'[c] # "rpc",
             \E msg \in Messages : msg.callType = "MonitorUpdate" /\ Sends(c, msg)
      PROVE  Quiet(c)
  BY <1>2 DEF Quiet, OthersKept
<1>3. PICK none \in Messages : none.callType = "MonitorUpdate"
  <2>1. Message("MonitorUpdate", <<>>, <<>>) \in Messages
    BY PlainMessageType DEF CallTypes
  <2>2. QED
    BY <2>1 DEF Message
<1>4. ASSUME Queue' = Queue
      PROVE  \E msg \in Messages : msg.callType = "MonitorUpdate" /\ Sends(c, msg)
  BY <1>3, <1>4 DEF Sends
<1>5. ASSUME NEW msg \in Messages, Acknowledge(c, msg), Arrived(c)
      PROVE  \E m \in Messages : m.callType = "MonitorUpdate" /\ Sends(c, m)
  <2> DEFINE answer == Numbered(Message("MonitorUpdate", <<Good>>, <<>>), msg.num, msg.run)
  <2>1. Message("MonitorUpdate", <<Good>>, <<>>) \in Messages
    BY PlainMessageType DEF CallTypes, Good
  <2>2. msg.num \in Nat /\ msg.run \in Nat
    BY DEF Messages
  <2>3. answer \in Messages /\ answer.callType = "MonitorUpdate"
    <3>1. Message("MonitorUpdate", <<Good>>, <<>>).callType = "MonitorUpdate"
      BY DEF Message
    <3>2. ASSUME NEW resp \in Messages, resp.callType = "MonitorUpdate"
          PROVE  /\ Numbered(resp, msg.num, msg.run) \in Messages
                 /\ Numbered(resp, msg.num, msg.run).callType = "MonitorUpdate"
      BY <2>2, <3>2 DEF Numbered, Messages
    <3>3. QED
      BY <2>1, <3>1, <3>2
  <2>4. Consumed(c) \in [ Nodes -> Seq(Packets) ] /\ Consumed(c)[Srv] = Queue
    BY <1>1, <1>5, ConsumedType DEF Consumed, Queue, BasicTypeOK, SenderTypeOK
  <2>5. Transmit(Consumed(c), c, Packet(c).from, answer)
    BY <1>5 DEF Acknowledge, SendResponse
  <2>6. Sends(c, answer)
    BY <2>4, <2>5, TransmitSends
  <2>7. QED
    BY <2>3, <2>6
<1>6. ASSUME Exit(c), UNCHANGED serverVars
      PROVE  Quiet(c)
  <2>1. Queue' = Queue
    BY <1>1, <1>6 DEF Exit, Queue, BasicTypeOK, SenderTypeOK
  <2>2. /\ pc'[c] # "rpc" /\ UNCHANGED <<messageNum, runs>>
        /\ \A n \in Nodes \ {c} : pc'[n] = pc[n] /\ pending'[n] = pending[n]
    BY <1>6 DEF Exit, BasicTypeOK, SenderTypeOK
  <2>3. QED
    BY <1>2, <1>4, <1>6, <2>1, <2>2
<1>7. inbox \in [ Nodes -> Seq(Packets) ] /\ inbox[Srv] = Queue
  BY DEF BasicTypeOK, SenderTypeOK, Queue
<1>8. CASE Launch(c) /\ UNCHANGED serverVars
  <2>1. Message("Start", <<>>, <<>>) \in Messages
    BY PlainMessageType DEF CallTypes
  <2>2. /\ SendMessage(inbox, c, Srv, Message("Start", <<>>, <<>>), 0, runs[c] + 1)
        /\ runs' = [ runs EXCEPT ![c] = @ + 1 ]
        /\ runs[c] + 1 \in Nat
    BY <1>1, <1>8 DEF Launch
  <2>3. QED
    BY <1>8, <1>7, <2>1, <2>2, SendMessageCalls
<1>9. CASE EnterCommand(c) /\ UNCHANGED serverVars
  <2>1. PICK msg \in Messages : SendMessage(inbox, c, Srv, msg, messageNum[c], runs[c])
    BY <1>9, EnteredType DEF EnterCommand
  <2>2. QED
    BY <1>1, <1>9, <1>7, <2>1, SendMessageCalls DEF EnterCommand
<1>10. CASE Quit(c) /\ UNCHANGED serverVars
  BY <1>6, <1>10 DEF Quit
<1>11. CASE (ReceiveResponse(c) \/ ReceiveEndResponse(c)) /\ UNCHANGED serverVars
  <2>1. Packet(c).msg \in Messages
    BY <1>1, <1>11, ConsumedType DEF ReceiveResponse, ReceiveEndResponse, Answered, BasicTypeOK
  <2>2. AfterResponse(Packet(c).msg) # "rpc"
    BY <2>1 DEF AfterResponse, Messages, CallTypes, Garbage, Good
  <2>3. Queue' = Queue
    BY <1>1, <1>11 DEF ReceiveResponse, ReceiveEndResponse, Consumed, Queue,
       BasicTypeOK, SenderTypeOK
  <2>4. /\ pc'[c] # "rpc" /\ UNCHANGED <<messageNum, runs>>
        /\ \A n \in Nodes \ {c} : pc'[n] = pc[n] /\ pending'[n] = pending[n]
    BY <1>1, <1>11, <2>2 DEF ReceiveResponse, ReceiveEndResponse, BasicTypeOK, SenderTypeOK
  <2>5. QED
    BY <1>2, <1>4, <1>11, <2>3, <2>4
<1>12. CASE (ShowUpdate(c) \/ SurviveMissingContent(c)) /\ UNCHANGED serverVars
  <2>1. Arrived(c) /\ pc[c] = "monitor" /\ UNCHANGED <<messageNum, runs, pc, pending>>
    BY <1>12 DEF ShowUpdate, SurviveMissingContent, LacksContent, TakePacket
  <2>2. Acknowledge(c, Packet(c).msg)
    BY <1>12 DEF ShowUpdate, SurviveMissingContent
  <2>3. Packet(c).msg \in Messages
    BY <1>1, <2>1, ConsumedType DEF BasicTypeOK
  <2>4. QED
    BY <1>2, <1>5, <1>12, <2>1, <2>2, <2>3
<1>13. CASE (CrashOnMissingContent(c) \/ IgnoreDuplicate(c)) /\ UNCHANGED serverVars
  <2>1. Queue' = Queue
    BY <1>1, <1>13 DEF CrashOnMissingContent, IgnoreDuplicate, Consumed, Queue,
       BasicTypeOK, SenderTypeOK
  <2>2. /\ pc'[c] # "rpc" /\ UNCHANGED <<messageNum, runs>>
        /\ \A n \in Nodes \ {c} : pc'[n] = pc[n] /\ pending'[n] = pending[n]
    BY <1>1, <1>13 DEF CrashOnMissingContent, IgnoreDuplicate, LacksContent, TakePacket,
       BasicTypeOK, SenderTypeOK
  <2>3. QED
    BY <1>2, <1>4, <1>13, <2>1, <2>2
<1>14. CASE EndMonitoring(c) /\ UNCHANGED serverVars
  <2>1. Message("MonitorEnd", <<>>, <<>>) \in Messages
    BY PlainMessageType DEF CallTypes
  <2>2. QED
    BY <1>1, <1>14, <1>7, <2>1, SendMessageCalls DEF EndMonitoring
<1>15. CASE ClientDiscards(c) /\ UNCHANGED serverVars
  <2>1. Queue' = Queue
    BY <1>1, <1>15 DEF ClientDiscards, DiscardImproper, Consumed, Queue,
       BasicTypeOK, SenderTypeOK
  <2>2. /\ pc[c] = "rpc" /\ UNCHANGED <<pc, messageNum, runs>>
        /\ pending'[c].call = pending[c].call
        /\ \A n \in Nodes \ {c} : pending'[n] = pending[n]
    BY <1>1, <1>15 DEF ClientDiscards, DiscardImproper, BasicTypeOK, SenderTypeOK
  <2>3. QED
    BY <1>15, <2>1, <2>2 DEF Waits, OthersKept, Sends
<1>16. CASE ClientRetransmits(c) /\ UNCHANGED serverVars
  <2>1. Sends(c, pending[c].call)
    BY <1>16, TransmitSends DEF ClientRetransmits, Retransmit, Queue, BasicTypeOK, SenderTypeOK
  <2>2. /\ pc[c] = "rpc" /\ UNCHANGED <<pc, messageNum, runs>>
        /\ pending'[c].call = pending[c].call
        /\ \A n \in Nodes \ {c} : pending'[n] = pending[n]
    BY <1>1, <1>16 DEF ClientRetransmits, Retransmit, TimedOut, BasicTypeOK, SenderTypeOK
  <2>3. QED
    BY <1>16, <2>1, <2>2 DEF Waits, OthersKept
<1>17. CASE ClientGivesUp(c) /\ UNCHANGED serverVars
  BY <1>6, <1>17 DEF ClientGivesUp
<1>18. CASE ReadLocally(c) /\ UNCHANGED serverVars
  BY <1>2, <1>4, <1>18 DEF ReadLocally, senderVars, Queue
<1>19. CASE (AskForFile(c) \/ AskWhetherFresh(c)) /\ UNCHANGED serverVars
  <2>1. PICK request \in Requests(c), callType \in {"Fresh", "Dump"} :
          StartRead(c, request) /\ Ask(c, callType, request.strs[1], inbox)
    <3>1. CASE AskForFile(c)
      BY <3>1 DEF AskForFile
    <3>2. CASE AskWhetherFresh(c)
      BY <3>2 DEF AskWhetherFresh
    <3>3. QED
      BY <1>19, <3>1, <3>2
  <2>2. request.strs[1] \in Files \cup Nat /\ UNCHANGED runs
    BY <2>1, StartReadType
  <2>3. QED
    BY <1>7, <1>19, <2>1, <2>2, AskCalls DEF Ask
<1>20. CASE ReadMalformed(c) /\ UNCHANGED serverVars
  BY <1>6, <1>20 DEF ReadMalformed
<1>21. ASSUME NEW resp, FinishRead(c, resp), UNCHANGED <<runs, serverVars>>
       PROVE  Quiet(c)
  <2>1. Queue' = Queue
    BY <1>1, <1>21 DEF FinishRead, Consumed, Queue, BasicTypeOK, SenderTypeOK
  <2>2. /\ pc'[c] # "rpc" /\ UNCHANGED <<messageNum, runs>>
        /\ \A n \in Nodes \ {c} : pc'[n] = pc[n] /\ pending'[n] = pending[n]
    BY <1>21 DEF FinishRead, BasicTypeOK, SenderTypeOK
  <2>3. QED
    BY <1>2, <1>4, <1>21, <2>1, <2>2
<1>22. CASE (ReceiveNoFile(c) \/ ReceiveFile(c) \/ ReceiveUnmodified(c)) /\ UNCHANGED serverVars
  <2>1. UNCHANGED runs
    BY <1>22 DEF ReceiveNoFile, ReceiveFile, StoreCopy, ReceiveUnmodified, ReceiveForCache
  <2>2. PICK resp : FinishRead(c, resp)
    BY <1>22 DEF ReceiveNoFile, ReceiveFile, ReceiveUnmodified
  <2>3. QED
    BY <1>21, <1>22, <2>1, <2>2
<1>23. CASE (ReceiveFileAndAsk(c) \/ ReceiveModified(c)) /\ UNCHANGED serverVars
  <2>1. PICK received \in {"Fresh", "Dump"}, callType \in {"Fresh", "Dump"} :
          ReceiveForCache(c, received) /\ Ask(c, callType, Path(c), Consumed(c))
    <3>1. CASE ReceiveFileAndAsk(c)
      BY <3>1 DEF ReceiveFileAndAsk, StoreCopy
    <3>2. CASE ReceiveModified(c)
      BY <3>2 DEF ReceiveModified
    <3>3. QED
      BY <1>23, <3>1, <3>2
  <2>2. Path(c) \in Files \cup Nat /\ Consumed(c) \in [ Nodes -> Seq(Packets) ] /\ UNCHANGED runs
    BY <2>1, ForCacheType DEF ReceiveForCache
  <2>3. Consumed(c)[Srv] = Queue
    BY <1>1, <1>7 DEF Consumed
  <2>4. SendMessage(Consumed(c), c, Srv, Message(callType, <<>>, <<Path(c)>>),
                    messageNum[c], runs[c])
    BY <2>1 DEF Ask
  <2>5. QED
    BY <1>23, <2>2, <2>3, <2>4, AskCalls
<1>24. QED
  BY <1>8, <1>9, <1>10, <1>11, <1>12, <1>13, <1>14, <1>15, <1>16, <1>17, <1>18, <1>19, <1>20,
     <1>22, <1>23
     DEF UserStep, ClientStep

-----------------------------------------------------------------------------
(* The order of calls.                                                      *)

\* The numbers that are compared are natural numbers.
LEMMA NumbersType ==
  ASSUME BasicTypeOK
  PROVE  /\ Queue \in Seq(Packets)
         /\ \A i \in DOMAIN Queue :
              /\ Queue[i].from \in Nodes
              /\ Queue[i].msg.num \in Nat
              /\ Queue[i].msg.run \in Nat
         /\ \A n \in Nodes :
              /\ runs[n] \in Nat
              /\ messageNum[n] \in Nat
              /\ pending[n].call.num \in Nat
              /\ pending[n].call.run \in Nat
         /\ \A e \in executed : e[1] \in Nat /\ e[2] \in Nodes /\ e[3] \in Nat /\ e[4] \in Nat
<1>1. Queue \in Seq(Packets)
  BY DEF BasicTypeOK, SenderTypeOK, Queue
<1>2. \A i \in DOMAIN Queue : Queue[i] \in Packets
  BY <1>1
<1>3. \A n \in Nodes : pending[n].call \in Messages
  BY DEF BasicTypeOK, SenderTypeOK
<1>4. QED
  BY <1>1, <1>2, <1>3
     DEF Packets, Messages, BasicTypeOK, SenderTypeOK, ServerTypeOK, Executions

\* A packet of a queue that grew is an old one or the one that was added last.
LEMMA GrownQueue ==
  ASSUME NEW q \in Seq(Packets), NEW p, NEW q2, q2 = q \/ q2 = Append(q, p)
  PROVE  /\ \A i \in DOMAIN q2 : (i \in DOMAIN q /\ q2[i] = q[i]) \/ q2[i] = p
         /\ \A i, j \in DOMAIN q2 : i < j => i \in DOMAIN q /\ q2[i] = q[i]
<1>1. CASE q2 = q
  BY <1>1
<1>2. CASE q2 = Append(q, p)
  <2>1. DOMAIN q2 = 1 .. Len(q) + 1 /\ DOMAIN q = 1 .. Len(q) /\ Len(q) \in Nat
    BY <1>2
  <2>2. \A i \in 1 .. Len(q) : q2[i] = q[i]
    BY <1>2
  <2>3. q2[Len(q) + 1] = p
    BY <1>2
  <2>4. QED
    BY <2>1, <2>2, <2>3
<1>3. QED
  BY <1>1, <1>2

-----------------------------------------------------------------------------
(* The steps of the clients.                                                *)

\* What the three kinds of steps have in common.  An added packet is no call, or
\* a copy of the call its client is blocked on; that call is the last one, and
\* is the one of before or newer than all of before.
LEMMA ClientMoveFacts ==
  ASSUME BasicTypeOK, BasicTypeOK', NEW c \in Clients, PendingIsLast(c),
         Quiet(c) \/ Calls(c) \/ Waits(c)
  PROVE  /\ OthersKept(c)
         /\ PendingIsLast(c)'
         /\ \E msg \in Messages :
              /\ Sends(c, msg)
              /\ msg.callType # "MonitorUpdate" => pc'[c] = "rpc" /\ msg = pending'[c].call
         /\ \A r, n \in Nat :
              Before(r, n, runs[c], messageNum[c]) => Before(r, n, runs'[c], messageNum'[c])
         /\ pc'[c] = "rpc" =>
              \/ /\ pc[c] = "rpc" /\ runs'[c] = runs[c] /\ messageNum'[c] = messageNum[c]
                 /\ pending'[c].call = pending[c].call
              \/ \A r, n \in Nat :
                   Before(r, n, runs[c], messageNum[c]) =>
                     Before(r, n, runs'[c], messageNum'[c] - 1)
<1>1. /\ runs[c] \in Nat /\ messageNum[c] \in Nat
      /\ pending[c].call \in Messages /\ pending'[c].call \in Messages
  BY DEF BasicTypeOK, SenderTypeOK
<1>2. CASE Quiet(c)
  BY <1>1, <1>2 DEF Quiet, PendingIsLast
<1>3. CASE Calls(c)
  <2>1. PendingIsLast(c)'
    BY <1>3 DEF Calls, PendingIsLast
  <2>2. \A r, n \in Nat : Before(r, n, runs[c], messageNum[c]) =>
          Before(r, n, runs'[c], messageNum'[c]) /\ Before(r, n, runs'[c], messageNum'[c] - 1)
    BY <1>1, <1>3 DEF Calls, Before
  <2>3. QED
    BY <1>1, <1>3, <2>1, <2>2 DEF Calls
<1>4. CASE Waits(c)
  <2>1. PendingIsLast(c)'
    BY <1>4 DEF Waits, PendingIsLast
  <2>2. QED
    BY <1>1, <1>4, <2>1 DEF Waits
<1>5. QED
  BY <1>2, <1>3, <1>4

\* A step of a client keeps the invariant.
LEMMA ClientMoveInv ==
  ASSUME BasicTypeOK, BasicTypeOK', AtMostOnceInv, NEW c \in Clients,
         Quiet(c) \/ Calls(c) \/ Waits(c)
  PROVE  AtMostOnceInv'
<1>1. PendingIsLast(c)
  BY DEF AtMostOnceInv, ClientInv
<1>2. PICK msg \in Messages :
        /\ Sends(c, msg)
        /\ msg.callType # "MonitorUpdate" => pc'[c] = "rpc" /\ msg = pending'[c].call
  BY <1>1, ClientMoveFacts
<1> DEFINE p == [ from |-> c, msg |-> msg ]
<1>3. /\ \A i \in DOMAIN Queue' : (i \in DOMAIN Queue /\ Queue'[i] = Queue[i]) \/ Queue'[i] = p
      /\ \A i, j \in DOMAIN Queue' : i < j => i \in DOMAIN Queue /\ Queue'[i] = Queue[i]
  <2>1. Queue' = Queue \/ Queue' = Append(Queue, p)
    BY <1>2 DEF Sends
  <2>2. Queue \in Seq(Packets)
    BY NumbersType
  <2>3. QED
    BY <2>1, <2>2, GrownQueue
<1>4. OthersKept(c) /\ PendingIsLast(c)'
  BY <1>1, ClientMoveFacts
<1>5. UNCHANGED serverVars /\ pc'[Srv] = pc[Srv] /\ runs'[Srv] = runs[Srv]
      /\ pending'[Srv] = pending[Srv]
  BY <1>4 DEF OthersKept
<1> USE DEF Queue
<1>6. FromClients'
  BY <1>3, <1>5 DEF AtMostOnceInv, FromClients, serverVars
<1>7. ASSUME NEW d \in Clients, d # c
      PROVE  ClientInv(d)'
  <2>1. /\ pc'[d] = pc[d] /\ pending'[d] = pending[d]
        /\ runs'[d] = runs[d] /\ messageNum'[d] = messageNum[d]
    BY <1>4, <1>7 DEF OthersKept
  <2>2. ~IsCall(p, d)
    BY <1>7 DEF IsCall
  <2>3. ClientInv(d)
    BY DEF AtMostOnceInv
  <2>4. PendingIsLast(d)'
    BY <2>1, <2>3 DEF ClientInv, PendingIsLast
  <2>5. QueuedWasMade(d)'
    BY <1>3, <2>1, <2>2, <2>3 DEF ClientInv, QueuedWasMade
  <2>6. QueuedInOrder(d)'
    BY <1>3, <2>2, <2>3 DEF ClientInv, QueuedInOrder
  <2>7. ExecutedWasMade(d)'
    BY <1>3, <1>5, <2>1, <2>2, <2>3 DEF ClientInv, ExecutedWasMade, WasMade, serverVars
  <2>8. QED
    BY <2>4, <2>5, <2>6, <2>7 DEF ClientInv
<1>8. ClientInv(c)'
  <2> DEFINE call == pending'[c].call
  <2>1. ClientInv(c)
    BY DEF AtMostOnceInv
  <2>2. ASSUME NEW r \in Nat, NEW n \in Nat, Before(r, n, runs[c], messageNum[c])
        PROVE  /\ Before(r, n, runs'[c], messageNum'[c])
               /\ pc'[c] = "rpc" => NotAfter(r, n, runs'[c], messageNum'[c] - 1)
               /\ pc'[c] = "rpc" /\ r = runs'[c] /\ n = messageNum'[c] - 1
                    => /\ pc[c] = "rpc" /\ r = runs[c] /\ n = messageNum[c] - 1
                       /\ call = pending[c].call
    <3>1. runs'[c] \in Nat /\ messageNum'[c] \in Nat /\ runs[c] \in Nat /\ messageNum[c] \in Nat
      BY DEF BasicTypeOK, SenderTypeOK
    <3>2. Before(r, n, runs'[c], messageNum'[c])
      BY <1>1, <2>2, ClientMoveFacts
    <3>3. CASE pc'[c] = "rpc" /\ Before(r, n, runs'[c], messageNum'[c] - 1)
      BY <3>1, <3>2, <3>3 DEF Before, NotAfter
    <3>4. CASE pc[c] = "rpc" /\ runs'[c] = runs[c] /\ messageNum'[c] = messageNum[c]
               /\ call = pending[c].call
      BY <2>2, <3>1, <3>2, <3>4 DEF Before, NotAfter
    <3>5. CASE pc'[c] # "rpc"
      BY <3>2, <3>5
    <3>6. QED
      BY <1>1, <2>2, <3>3, <3>4, <3>5, ClientMoveFacts
  <2>3. /\ runs[c] \in Nat /\ messageNum[c] \in Nat
        /\ runs'[c] \in Nat /\ messageNum'[c] \in Nat
        /\ \A i \in DOMAIN Queue : Queue[i].msg.num \in Nat /\ Queue[i].msg.run \in Nat
        /\ \A e \in executed : e[3] \in Nat /\ e[4] \in Nat
    BY NumbersType DEF BasicTypeOK, SenderTypeOK
  <2>4. ASSUME IsCall(p, c)
        PROVE  /\ pc'[c] = "rpc" /\ p.msg.run = runs'[c] /\ p.msg.num = messageNum'[c] - 1
               /\ p.msg.callType = call.callType
               /\ Before(p.msg.run, p.msg.num, runs'[c], messageNum'[c])
    <3>1. pc'[c] = "rpc" /\ p.msg = call
      BY <1>2, <2>4 DEF IsCall
    <3>2. p.msg.run = runs'[c] /\ p.msg.num = messageNum'[c] - 1
      BY <1>4, <3>1 DEF PendingIsLast
    <3>3. QED
      BY <2>3, <3>1, <3>2 DEF Before
  <2>5. QueuedWasMade(c)'
    BY <1>3, <2>1, <2>2, <2>3, <2>4 DEF ClientInv, QueuedWasMade
  <2>6. QueuedInOrder(c)'
    BY <1>3, <2>1, <2>2, <2>3, <2>4 DEF ClientInv, QueuedWasMade, QueuedInOrder
  <2>7. ExecutedWasMade(c)'
    BY <1>3, <1>5, <2>1, <2>2, <2>3, <2>4 DEF ClientInv, ExecutedWasMade, WasMade, serverVars
  <2>8. QED
    BY <1>4, <2>5, <2>6, <2>7 DEF ClientInv
<1>9. ResponsesKept'
  <2> SUFFICES ASSUME ServerSemantic = "AtMostOnce", NEW e \in executed,
                      e[1] = runs[Srv], pc[Srv] # "down"
               PROVE  IsStored(e)' \/ IsUnderWay(e)' \/ IsOver(e)'
    BY <1>5 DEF ResponsesKept, serverVars
  <2>1. CASE IsStored(e)
    BY <1>5, <2>1 DEF IsStored, serverVars
  <2>2. CASE IsUnderWay(e)
    BY <1>5, <2>2 DEF IsUnderWay, serverVars
  <2>3. e[2] \in Clients /\ e[3] \in Nat /\ e[4] \in Nat
    BY NumbersType DEF AtMostOnceInv, FromClients
  <2>4. CASE IsOver(e) /\ e[2] # c
    <3>1. ~IsCall(p, e[2])
      BY <2>4 DEF IsCall
    <3>2. /\ pc'[e[2]] = pc[e[2]]
          /\ runs'[e[2]] = runs[e[2]] /\ messageNum'[e[2]] = messageNum[e[2]]
      BY <1>4, <2>3, <2>4 DEF OthersKept
    <3>3. IsOver(e)'
      BY <1>3, <2>4, <3>1, <3>2 DEF IsOver
    <3>4. QED
      BY <3>3
  <2>5. CASE IsOver(e) /\ e[2] = c
    <3>1. /\ Before(e[3], e[4], runs[c], messageNum[c])
          /\ runs[c] \in Nat /\ messageNum[c] \in Nat
          /\ runs'[c] \in Nat /\ messageNum'[c] \in Nat
      BY <2>5, NumbersType DEF AtMostOnceInv, ClientInv, ExecutedWasMade, WasMade,
         BasicTypeOK, SenderTypeOK
    <3>2. pc'[c] = "rpc" => Before(e[3], e[4], runs'[c], messageNum'[c] - 1)
      BY <1>1, <2>3, <2>5, <3>1, ClientMoveFacts DEF IsOver
    <3>3. IsCall(p, c) => Before(e[3], e[4], p.msg.run, p.msg.num)
      BY <1>2, <1>4, <3>2 DEF IsCall, PendingIsLast
    <3>4. IsOver(e)'
      BY <1>3, <2>5, <3>2, <3>3 DEF IsOver
    <3>5. QED
      BY <3>4
  <2>6. QED
    BY <2>1, <2>2, <2>4, <2>5 DEF AtMostOnceInv, ResponsesKept
<1>10. AtMostOnce'
  BY <1>5 DEF AtMostOnceInv, AtMostOnce, serverVars
<1>11. QED
  BY <1>6, <1>7, <1>8, <1>9, <1>10 DEF AtMostOnceInv

-----------------------------------------------------------------------------
(* The steps of the server.                                                 *)

\* The server takes the first packet of its queue.
Takes == Queue # <<>> /\ Queue' = Tail(Queue)

\* The queue loses its first packet, or all of them, and no client moves.
ServerMoves ==
  /\ Queue' = Queue \/ Takes \/ Queue' = <<>>
  /\ \A c \in Clients :
       /\ pc'[c] = pc[c]
       /\ pending'[c] = pending[c]
       /\ runs'[c] = runs[c]
       /\ messageNum'[c] = messageNum[c]

\* The packet the server handles is the first one, and the others are behind it.
LEMMA TakenQueue ==
  ASSUME NEW q \in Seq(Packets), q # <<>>
  PROVE  /\ 1 \in DOMAIN q /\ Head(q) = q[1]
         /\ \A i \in DOMAIN Tail(q) :
              i \in Nat /\ 1 < i + 1 /\ i + 1 \in DOMAIN q /\ Tail(q)[i] = q[i + 1]
<1>1. DOMAIN q = 1 .. Len(q) /\ Len(q) \in Nat /\ Len(q) # 0 /\ Head(q) = q[1]
  OBVIOUS
<1>2. DOMAIN Tail(q) = 1 .. Len(q) - 1
  BY <1>1
<1>3. \A i \in 1 .. Len(q) - 1 : Tail(q)[i] = q[i + 1]
  BY <1>1
<1>4. QED
  BY <1>1, <1>2, <1>3

\* The packets that are left were queued before, in the same order.
LEMMA ShrunkQueue ==
  ASSUME NEW q \in Seq(Packets), NEW q2, q2 = q \/ (q # <<>> /\ q2 = Tail(q)) \/ q2 = <<>>
  PROVE  \E k \in {0, 1} : \A i \in DOMAIN q2 :
           i \in Nat /\ i + k \in DOMAIN q /\ q2[i] = q[i + k]
<1>1. CASE q2 = q
  <2>1. \A i \in DOMAIN q : i \in Nat /\ i + 0 = i
    OBVIOUS
  <2>2. QED
    BY <1>1, <2>1
<1>2. CASE q # <<>> /\ q2 = Tail(q)
  BY <1>2, TakenQueue
<1>3. CASE q2 = <<>>
  BY <1>3
<1>4. QED
  BY <1>1, <1>2, <1>3

\* What is said of the queue and of the clients survives the steps of the server.
LEMMA ServerMovesInv ==
  ASSUME BasicTypeOK, AtMostOnceInv, ServerMoves
  PROVE  /\ \A i \in DOMAIN Queue' : Queue'[i].from \in Clients
         /\ \A c \in Clients :
              /\ PendingIsLast(c)'
              /\ QueuedWasMade(c)'
              /\ QueuedInOrder(c)'
         /\ runs[Srv] <= runs'[Srv] /\ runs'[Srv] \in Nat
              => \A e \in executed : WasMade(e[2], e)'
         /\ \A e \in executed : IsOver(e) => IsOver(e)'
<1>1. PICK k \in {0, 1} : \A i \in DOMAIN Queue' :
        i \in Nat /\ i + k \in DOMAIN Queue /\ Queue'[i] = Queue[i + k]
  <2>1. Queue \in Seq(Packets)
    BY NumbersType
  <2>2. QED
    BY <2>1, ShrunkQueue DEF ServerMoves, Takes
<1> USE DEF Queue
<1>2. \A i \in DOMAIN Queue' : Queue'[i].from \in Clients
  BY <1>1 DEF AtMostOnceInv, FromClients
<1>3. ASSUME NEW c \in Clients
      PROVE  PendingIsLast(c)' /\ QueuedWasMade(c)' /\ QueuedInOrder(c)'
  <2>1. ClientInv(c)
    BY DEF AtMostOnceInv
  <2>2. /\ pc'[c] = pc[c] /\ pending'[c] = pending[c]
        /\ runs'[c] = runs[c] /\ messageNum'[c] = messageNum[c]
    BY DEF ServerMoves
  <2>3. PendingIsLast(c)'
    BY <2>1, <2>2 DEF ClientInv, PendingIsLast
  <2>4. QueuedWasMade(c)'
    BY <1>1, <2>1, <2>2 DEF ClientInv, QueuedWasMade
  <2>5. QueuedInOrder(c)'
    <3>1. \A i, j \in DOMAIN Queue' : i < j => i + k < j + k
      BY <1>1
    <3>2. QED
      BY <1>1, <2>1, <3>1 DEF ClientInv, QueuedInOrder
  <2>6. QED
    BY <2>3, <2>4, <2>5
<1>4. ASSUME runs[Srv] <= runs'[Srv], runs'[Srv] \in Nat, NEW e \in executed
      PROVE  WasMade(e[2], e)'
  <2>1. e[2] \in Clients /\ e[1] \in Nat /\ runs[Srv] \in Nat
    BY NumbersType DEF AtMostOnceInv, FromClients
  <2>2. WasMade(e[2], e)
    BY <2>1 DEF AtMostOnceInv, ClientInv, ExecutedWasMade
  <2>3. /\ pc'[e[2]] = pc[e[2]] /\ pending'[e[2]] = pending[e[2]]
        /\ runs'[e[2]] = runs[e[2]] /\ messageNum'[e[2]] = messageNum[e[2]]
    BY <2>1 DEF ServerMoves
  <2>4. e[1] <= runs'[Srv]
    BY <1>4, <2>1, <2>2 DEF WasMade
  <2>5. QED
    BY <1>1, <2>2, <2>3, <2>4 DEF WasMade
<1>5. ASSUME NEW e \in executed, IsOver(e)
      PROVE  IsOver(e)'
  <2>1. e[2] \in Clients
    BY DEF AtMostOnceInv, FromClients
  <2>2. /\ pc'[e[2]] = pc[e[2]]
        /\ runs'[e[2]] = runs[e[2]] /\ messageNum'[e[2]] = messageNum[e[2]]
    BY <2>1 DEF ServerMoves
  <2>3. QED
    BY <1>1, <1>5, <2>2 DEF IsOver
<1>6. QED
  BY <1>2, <1>3, <1>4, <1>5

\* A step of the server that executes nothing and stores nothing, and goes on
\* with the job it has or ends.
LEMMA IdleServerInv ==
  ASSUME BasicTypeOK, AtMostOnceInv, ServerMoves,
         UNCHANGED <<executed, reexecuted, messageMap>>, runs'[Srv] = runs[Srv],
         pc'[Srv] # "down" => /\ pc'[Srv] = pc[Srv]
                              /\ job'.from = job.from /\ job'.call = job.call,
         pc'[Srv] = "rpc" => pending'[Srv].sa \in Clients
  PROVE  AtMostOnceInv'
<1>1. runs[Srv] <= runs'[Srv] /\ runs'[Srv] \in Nat
  BY DEF BasicTypeOK, SenderTypeOK
<1>2. FromClients'
  BY ServerMovesInv DEF AtMostOnceInv, FromClients, Queue
<1>3. \A c \in Clients : ClientInv(c)'
  BY <1>1, ServerMovesInv DEF ClientInv, ExecutedWasMade
<1>4. ResponsesKept'
  <2> SUFFICES ASSUME ServerSemantic = "AtMostOnce", NEW e \in executed,
                      e[1] = runs[Srv], pc'[Srv] # "down"
               PROVE  IsStored(e)' \/ IsUnderWay(e)' \/ IsOver(e)'
    BY DEF ResponsesKept
  <2>1. IsStored(e) \/ IsUnderWay(e) \/ IsOver(e)
    BY DEF AtMostOnceInv, ResponsesKept
  <2>2. IsStored(e) => IsStored(e)'
    BY DEF IsStored
  <2>3. IsUnderWay(e) => IsUnderWay(e)'
    BY DEF IsUnderWay
  <2>4. IsOver(e) => IsOver(e)'
    BY ServerMovesInv
  <2>5. QED
    BY <2>1, <2>2, <2>3, <2>4
<1>5. AtMostOnce'
  BY DEF AtMostOnceInv, AtMostOnce
<1>6. QED
  BY <1>2, <1>3, <1>4, <1>5 DEF AtMostOnceInv

\* The call at the head of the queue is the last one its client has made, as far
\* as the queue and the executions know.
LEMMA HeadCall ==
  ASSUME BasicTypeOK, AtMostOnceInv, Serving
  PROVE  /\ Caller \in Clients
         /\ Request.num \in Nat /\ Request.run \in Nat
         /\ \A i \in DOMAIN Tail(Queue) :
              i \in Nat /\ i + 1 \in DOMAIN Queue /\ Tail(Queue)[i] = Queue[i + 1]
         /\ Request.callType # "MonitorUpdate" =>
              /\ Before(Request.run, Request.num, runs[Caller], messageNum[Caller])
              /\ pc[Caller] = "rpc" /\ Request.run = runs[Caller]
                   /\ Request.num = messageNum[Caller] - 1
                   => Request.callType = pending[Caller].call.callType
              /\ \A i \in DOMAIN Tail(Queue) :
                   LET p == Tail(Queue)[i] IN
                   IsCall(p, Caller) =>
                     /\ NotAfter(Request.run, Request.num, p.msg.run, p.msg.num)
                     /\ Request.run = p.msg.run /\ Request.num = p.msg.num
                          => Request.callType = p.msg.callType
              /\ \A e \in executed : e[2] = Caller =>
                   /\ NotAfter(e[3], e[4], Request.run, Request.num)
                   /\ e[3] = Request.run /\ e[4] = Request.num => Request.callType # "Start"
<1>1. Queue \in Seq(Packets) /\ Queue # <<>>
  BY NumbersType DEF Serving, Arrived, Queue
<1>2. /\ 1 \in DOMAIN Queue /\ Head(Queue) = Queue[1]
      /\ \A i \in DOMAIN Tail(Queue) :
           i \in Nat /\ 1 < i + 1 /\ i + 1 \in DOMAIN Queue /\ Tail(Queue)[i] = Queue[i + 1]
  BY <1>1, TakenQueue
<1>3. Caller = Queue[1].from /\ Request = Queue[1].msg
  BY <1>2 DEF Caller, Request, Packet, Queue
<1>4. Caller \in Clients /\ Request.num \in Nat /\ Request.run \in Nat
  BY <1>2, <1>3, NumbersType DEF AtMostOnceInv, FromClients, Queue
<1>5. ASSUME Request.callType # "MonitorUpdate"
      PROVE  IsCall(Queue[1], Caller)
  BY <1>3, <1>5 DEF IsCall
<1>6. ClientInv(Caller)
  BY <1>4 DEF AtMostOnceInv
<1>7. ASSUME Request.callType # "MonitorUpdate"
      PROVE  /\ Before(Request.run, Request.num, runs[Caller], messageNum[Caller])
             /\ pc[Caller] = "rpc" /\ Request.run = runs[Caller]
                  /\ Request.num = messageNum[Caller] - 1
                  => Request.callType = pending[Caller].call.callType
  BY <1>2, <1>3, <1>5, <1>6, <1>7 DEF ClientInv, QueuedWasMade, Queue
<1>8. ASSUME Request.callType # "MonitorUpdate", NEW i \in DOMAIN Tail(Queue),
             IsCall(Tail(Queue)[i], Caller)
      PROVE  LET p == Tail(Queue)[i] IN
             /\ NotAfter(Request.run, Request.num, p.msg.run, p.msg.num)
             /\ Request.run = p.msg.run /\ Request.num = p.msg.num
                  => Request.callType = p.msg.callType
  BY <1>2, <1>3, <1>5, <1>6, <1>8 DEF ClientInv, QueuedInOrder, Queue
<1>9. ASSUME Request.callType # "MonitorUpdate", NEW e \in executed, e[2] = Caller
      PROVE  /\ NotAfter(e[3], e[4], Request.run, Request.num)
             /\ e[3] = Request.run /\ e[4] = Request.num => Request.callType # "Start"
  BY <1>2, <1>3, <1>5, <1>6, <1>9 DEF ClientInv, ExecutedWasMade, WasMade, Queue
<1>10. QED
  BY <1>2, <1>4, <1>7, <1>8, <1>9

\* What a server under AtMostOnce executes, it has not executed before: the
\* response would be stored, or the call could not be queued any more.
LEMMA NotExecutedBefore ==
  ASSUME BasicTypeOK, AtMostOnceInv, ServerSemantic = "AtMostOnce",
         Serving, ~IsDuplicate, Request.callType \notin {"Start", "MonitorUpdate"}
  PROVE  Execution \notin executed
<1> DEFINE e == <<runs[Srv], Caller, Request.run, Request.num>>
<1> SUFFICES ASSUME e \in executed PROVE FALSE
  BY DEF Execution
<1>1. e[1] = runs[Srv] /\ e[2] = Caller /\ e[3] = Request.run /\ e[4] = Request.num
  OBVIOUS
<1>2. pc[Srv] = "ready" /\ Queue # <<>> /\ Queue \in Seq(Packets)
  BY NumbersType DEF Serving, Arrived, Queue
<1>3. 1 \in DOMAIN Queue /\ Caller = Queue[1].from /\ Request = Queue[1].msg
  BY <1>2, TakenQueue DEF Caller, Request, Packet, Queue
<1>4. ~IsStored(e)
  BY <1>1 DEF IsStored, IsDuplicate, Hits
<1>5. ~IsUnderWay(e)
  BY <1>2 DEF IsUnderWay
<1>6. ~IsOver(e)
  <2>1. IsCall(Queue[1], e[2])
    BY <1>1, <1>3 DEF IsCall
  <2>2. ~Before(e[3], e[4], Queue[1].msg.run, Queue[1].msg.num)
    BY <1>1, <1>3, HeadCall DEF Before
  <2>3. QED
    BY <1>3, <2>1, <2>2 DEF IsOver, Queue
<1>7. QED
  BY <1>1, <1>2, <1>4, <1>5, <1>6 DEF AtMostOnceInv, ResponsesKept

\* A new execution is like those before it.
LEMMA NewExecution ==
  ASSUME BasicTypeOK, AtMostOnceInv, Serving, ServerMoves, Takes, runs'[Srv] = runs[Srv],
         Request.callType \notin {"Start", "MonitorUpdate"}, NEW e, e = Execution
  PROVE  e[2] \in Clients /\ WasMade(e[2], e)'
<1>1. e[1] = runs[Srv] /\ e[2] = Caller /\ e[3] = Request.run /\ e[4] = Request.num
  BY DEF Execution
<1>2. e[2] \in Clients
  BY <1>1, HeadCall
<1>3. /\ pc'[e[2]] = pc[e[2]] /\ pending'[e[2]] = pending[e[2]]
      /\ runs'[e[2]] = runs[e[2]] /\ messageNum'[e[2]] = messageNum[e[2]]
  BY <1>2 DEF ServerMoves
<1>4. inbox'[Srv] = Tail(Queue) /\ runs[Srv] \in Nat
  BY DEF Takes, Queue, BasicTypeOK, SenderTypeOK
<1>5. e[1] <= runs'[Srv]
  BY <1>1, <1>4
<1>6. Before(e[3], e[4], runs'[e[2]], messageNum'[e[2]])
  BY <1>1, <1>3, HeadCall
<1>7. pc'[e[2]] = "rpc" /\ e[3] = runs'[e[2]] /\ e[4] = messageNum'[e[2]] - 1
        => pending'[e[2]].call.callType # "Start"
  BY <1>1, <1>3, HeadCall
<1>8. \A i \in DOMAIN Tail(Queue) :
        LET p == Tail(Queue)[i] IN
        IsCall(p, e[2]) =>
          /\ NotAfter(e[3], e[4], p.msg.run, p.msg.num)
          /\ e[3] = p.msg.run /\ e[4] = p.msg.num => p.msg.callType # "Start"
  BY <1>1, HeadCall
<1>9. QED
  BY <1>2, <1>4, <1>5, <1>6, <1>7, <1>8 DEF WasMade

\* A Start has responses forgotten, but only to calls that are over.
LEMMA StoredOrOver ==
  ASSUME BasicTypeOK, AtMostOnceInv, ServerSemantic = "AtMostOnce", Serving,
         ServerMoves, Takes, NEW e \in executed, e[1] = runs[Srv]
  PROVE  \/ \E entry \in MapAfterStart : entry.from = e[2] /\ entry.num = e[4]
         \/ IsOver(e)'
<1>1. pc[Srv] = "ready" /\ inbox'[Srv] = Tail(Queue)
  BY DEF Serving, Takes, Queue
<1>2. IsStored(e) \/ IsOver(e)
  BY <1>1 DEF AtMostOnceInv, ResponsesKept, IsUnderWay
<1>3. CASE IsOver(e)
  BY <1>3, ServerMovesInv
<1>4. CASE IsStored(e) /\ ~(Request.callType = "Start" /\ e[2] = Caller)
  BY <1>4 DEF IsStored, MapAfterStart
<1>5. CASE Request.callType = "Start" /\ e[2] = Caller
  <2>1. /\ e[2] \in Clients /\ e[3] \in Nat /\ e[4] \in Nat
        /\ runs[e[2]] \in Nat /\ messageNum[e[2]] \in Nat
        /\ Request.num \in Nat /\ Request.run \in Nat
    BY <1>5, NumbersType, HeadCall DEF BasicTypeOK, SenderTypeOK
  <2>2. /\ pc'[e[2]] = pc[e[2]]
        /\ runs'[e[2]] = runs[e[2]] /\ messageNum'[e[2]] = messageNum[e[2]]
    BY <2>1 DEF ServerMoves
  <2>3. Before(e[3], e[4], Request.run, Request.num)
    <3>1. /\ NotAfter(e[3], e[4], Request.run, Request.num)
          /\ ~(e[3] = Request.run /\ e[4] = Request.num)
      BY <1>5, HeadCall
    <3>2. QED
      BY <2>1, <3>1 DEF Before, NotAfter
  <2>4. Before(e[3], e[4], runs[e[2]], messageNum[e[2]] - 1)
    BY <1>5, <2>1, <2>3, HeadCall DEF Before
  <2>5. ASSUME NEW i \in DOMAIN Tail(Queue), IsCall(Tail(Queue)[i], e[2])
        PROVE  Before(e[3], e[4], Tail(Queue)[i].msg.run, Tail(Queue)[i].msg.num)
    <3>1. NotAfter(Request.run, Request.num, Tail(Queue)[i].msg.run, Tail(Queue)[i].msg.num)
      BY <1>5, <2>5, HeadCall
    <3>2. Tail(Queue)[i].msg.num \in Nat /\ Tail(Queue)[i].msg.run \in Nat
      BY HeadCall, NumbersType
    <3>3. QED
      BY <2>1, <2>3, <3>1, <3>2, SMTT(40) DEF Before, NotAfter
  <2>6. IsOver(e)'
    BY <1>1, <2>2, <2>4, <2>5 DEF IsOver
  <2>7. QED
    BY <2>6
<1>6. QED
  BY <1>2, <1>3, <1>4, <1>5

\* A call is executed, or a Start or a late acknowledgement is answered: the
\* response is stored, or its updates are under way.
LEMMA ExecuteInv ==
  ASSUME BasicTypeOK, AtMostOnceInv, Serving, ~IsDuplicate,
         ServerMoves, Takes, runs'[Srv] = runs[Srv],
         \/ UNCHANGED <<executed, reexecuted>>
         \/ Record /\ Request.callType \notin {"Start", "MonitorUpdate"},
         \/ /\ pc'[Srv] = "ready"
            /\ \E resp : messageMap' = AddToMap(MapAfterStart, Caller, Request.num, resp)
         \/ /\ pc'[Srv] = "rpc" /\ pending'[Srv].sa \in Clients
            /\ job'.from = Caller /\ job'.call = Request
            /\ messageMap' = messageMap /\ Request.callType # "Start"
  PROVE  AtMostOnceInv'
<1>1. runs[Srv] \in Nat /\ runs[Srv] <= runs'[Srv] /\ Caller \in Clients
  BY HeadCall DEF BasicTypeOK, SenderTypeOK
<1>2. \A e \in executed' :
        e \in executed \/ (e = Execution /\ Request.callType \notin {"Start", "MonitorUpdate"})
  BY DEF Record
<1>3. \A e \in executed' : e[2] \in Clients /\ WasMade(e[2], e)'
  <2>1. \A e \in executed : e[2] \in Clients /\ WasMade(e[2], e)'
    BY <1>1, ServerMovesInv DEF AtMostOnceInv, FromClients
  <2>2. QED
    BY <1>2, <2>1, NewExecution
<1>4. FromClients'
  BY <1>1, <1>3, ServerMovesInv DEF FromClients, Queue
<1>5. \A c \in Clients : ClientInv(c)'
  BY <1>3, ServerMovesInv DEF ClientInv, ExecutedWasMade
<1>6. ResponsesKept'
  <2> SUFFICES ASSUME ServerSemantic = "AtMostOnce", NEW e \in executed', e[1] = runs[Srv]
               PROVE  IsStored(e)' \/ IsUnderWay(e)' \/ IsOver(e)'
    BY DEF ResponsesKept
  <2>1. CASE e \in executed
    <3>1. CASE IsOver(e)'
      BY <3>1
    <3>2. CASE \E entry \in MapAfterStart : entry.from = e[2] /\ entry.num = e[4]
      <4>1. MapAfterStart \subseteq messageMap'
        BY DEF AddToMap, MapAfterStart
      <4>2. QED
        BY <3>2, <4>1 DEF IsStored
    <3>3. QED
      BY <2>1, <3>1, <3>2, StoredOrOver
  <2>2. CASE e = Execution
    <3>1. e[2] = Caller /\ e[3] = Request.run /\ e[4] = Request.num
      BY <2>2 DEF Execution
    <3>2. CASE \E resp : messageMap' = AddToMap(MapAfterStart, Caller, Request.num, resp)
      <4>1. PICK resp : messageMap' = AddToMap(MapAfterStart, Caller, Request.num, resp)
        BY <3>2
      <4> DEFINE entry == [ from |-> Caller, num |-> Request.num, message |-> resp ]
      <4>2. entry \in messageMap'
        BY <4>1 DEF AddToMap
      <4>3. entry.from = e[2] /\ entry.num = e[4]
        BY <3>1
      <4>4. QED
        BY <4>2, <4>3 DEF IsStored
    <3>3. CASE pc'[Srv] = "rpc" /\ job'.from = Caller /\ job'.call = Request
      BY <3>1, <3>3 DEF IsUnderWay
    <3>4. QED
      BY <3>2, <3>3
  <2>3. QED
    BY <1>2, <2>1, <2>2
<1>7. AtMostOnce'
  BY NotExecutedBefore DEF AtMostOnceInv, AtMostOnce, Record
<1>8. QED
  BY <1>4, <1>5, <1>6, <1>7 DEF AtMostOnceInv

\* The response to the edit whose updates were under way is stored.
LEMMA NotifiedAllInv ==
  ASSUME BasicTypeOK, AtMostOnceInv, NotifiedAll, ServerMoves
  PROVE  AtMostOnceInv'
<1>1. PICK resp : messageMap' = AddToMap(messageMap, job.from, job.call.num, resp)
  BY DEF NotifiedAll
<1>2. /\ pc'[Srv] = "ready" /\ runs'[Srv] = runs[Srv] /\ runs[Srv] \in Nat
      /\ UNCHANGED <<executed, reexecuted>>
  BY DEF NotifiedAll, BasicTypeOK, SenderTypeOK
<1>3. FromClients'
  BY <1>2, ServerMovesInv DEF AtMostOnceInv, FromClients, Queue
<1>4. \A c \in Clients : ClientInv(c)'
  BY <1>2, ServerMovesInv DEF ClientInv, ExecutedWasMade
<1>5. ResponsesKept'
  <2> SUFFICES ASSUME ServerSemantic = "AtMostOnce", NEW e \in executed, e[1] = runs[Srv]
               PROVE  IsStored(e)' \/ IsOver(e)'
    BY <1>2 DEF ResponsesKept
  <2>1. IsStored(e) \/ IsUnderWay(e) \/ IsOver(e)
    BY DEF AtMostOnceInv, ResponsesKept, NotifiedAll, Answered
  <2>2. CASE IsStored(e)
    BY <1>1, <2>2 DEF IsStored, AddToMap
  <2>3. CASE IsUnderWay(e)
    <3> DEFINE entry == [ from |-> job.from, num |-> job.call.num, message |-> resp ]
    <3>1. entry \in messageMap'
      BY <1>1 DEF AddToMap
    <3>2. entry.from = e[2] /\ entry.num = e[4]
      BY <2>3 DEF IsUnderWay
    <3>3. QED
      BY <3>1, <3>2 DEF IsStored
  <2>4. CASE IsOver(e)
    BY <2>4, ServerMovesInv
  <2>5. QED
    BY <2>1, <2>2, <2>3, <2>4
<1>6. AtMostOnce'
  BY <1>2 DEF AtMostOnceInv, AtMostOnce
<1>7. QED
  BY <1>3, <1>4, <1>5, <1>6 DEF AtMostOnceInv

\* A new server has executed nothing.
LEMMA RestartInv ==
  ASSUME BasicTypeOK, AtMostOnceInv, Restart, UNCHANGED clientVars
  PROVE  AtMostOnceInv'
<1>1. ServerMoves
  BY DEF ServerMoves, Restart, Queue, BasicTypeOK, SenderTypeOK
<1>2. /\ pc'[Srv] = "ready" /\ runs'[Srv] = runs[Srv] + 1
      /\ runs[Srv] \in Nat /\ runs'[Srv] \in Nat /\ runs[Srv] <= runs'[Srv]
      /\ UNCHANGED <<executed, reexecuted>>
  BY DEF Restart, BasicTypeOK, SenderTypeOK
<1>3. FromClients'
  BY <1>1, <1>2, ServerMovesInv DEF AtMostOnceInv, FromClients, Queue
<1>4. \A c \in Clients : ClientInv(c)'
  BY <1>1, <1>2, ServerMovesInv DEF ClientInv, ExecutedWasMade
<1>5. ResponsesKept'
  <2>1. \A e \in executed : e[1] # runs'[Srv]
    <3>1. \A e \in executed : e[2] \in Clients /\ e[1] \in Nat /\ WasMade(e[2], e)
      BY NumbersType DEF AtMostOnceInv, FromClients, ClientInv, ExecutedWasMade
    <3>2. QED
      BY <1>2, <3>1 DEF WasMade
  <2>2. QED
    BY <1>2, <2>1 DEF ResponsesKept
<1>6. AtMostOnce'
  BY <1>2 DEF AtMostOnceInv, AtMostOnce
<1>7. QED
  BY <1>3, <1>4, <1>5, <1>6 DEF AtMostOnceInv

\* What the server sends to clients does not reach its own queue.
LEMMA ServerTransmits ==
  ASSUME BasicTypeOK, NEW queues \in [ Nodes -> Seq(Packets) ], NEW to \in Clients, NEW msg,
         Transmit(queues, Srv, to, msg)
  PROVE  Queue' = queues[Srv]
  BY DEF Transmit, Delivered, Queue

\* The server handles a packet and sends one to a client.
LEMMA ServerConsumes ==
  ASSUME BasicTypeOK, Arrived(Srv), NEW to \in Clients, NEW msg,
         Transmit(Consumed(Srv), Srv, to, msg),
         \A c \in Clients : /\ pc'[c] = pc[c] /\ pending'[c] = pending[c]
                            /\ runs'[c] = runs[c] /\ messageNum'[c] = messageNum[c]
  PROVE  ServerMoves /\ Takes
<1>1. Queue # <<>> /\ Consumed(Srv) \in [ Nodes -> Seq(Packets) ]
  BY ConsumedType DEF Arrived, Queue, BasicTypeOK
<1>2. Consumed(Srv)[Srv] = Tail(Queue)
  BY DEF Consumed, Queue, BasicTypeOK, SenderTypeOK
<1>3. Queue' = Tail(Queue)
  BY <1>1, <1>2, ServerTransmits
<1>4. QED
  BY <1>1, <1>3 DEF ServerMoves, Takes

\* The execution of a call that is answered at once.
LEMMA RespondInv ==
  ASSUME BasicTypeOK, AtMostOnceInv, Serving, ~IsDuplicate, NEW resp, Respond(resp),
         \/ UNCHANGED <<executed, reexecuted>>
         \/ Record /\ Request.callType \notin {"Start", "MonitorUpdate"}
  PROVE  AtMostOnceInv'
<1>1. Arrived(Srv) /\ pc[Srv] = "ready" /\ Caller \in Clients
  BY HeadCall DEF Serving
<1>2. ServerMoves /\ Takes
  BY <1>1, ServerConsumes DEF Respond, SendResponse
<1>3. QED
  BY <1>1, <1>2, ExecuteInv DEF Respond

\* Every step of the server keeps the invariant.
LEMMA ServerStepInv ==
  ASSUME BasicTypeOK, AtMostOnceInv, ServerStep
  PROVE  AtMostOnceInv'
<1>1. UNCHANGED clientVars
  BY DEF ServerStep
<1>2. CASE AnswerDuplicate
  <2>1. Serving /\ Caller \in Clients /\ Arrived(Srv)
    BY <1>2, HeadCall DEF AnswerDuplicate, Serving
  <2>2. PICK msg : Transmit(Consumed(Srv), Srv, Caller, msg)
    BY <1>2 DEF AnswerDuplicate, SendResponse
  <2>3. ServerMoves
    BY <1>2, <2>1, <2>2, ServerConsumes DEF AnswerDuplicate
  <2>4. QED
    BY <1>2, <2>1, <2>3, IdleServerInv DEF AnswerDuplicate, Serving
<1>3. CASE FailEdit \/ EditUnmonitored \/ Register \/ Unregister \/ GetMode
             \/ TellModification \/ DumpFile
  <2>1. PICK resp : Respond(resp)
    BY <1>3 DEF FailEdit, EditUnmonitored, Register, Unregister, GetMode,
                TellModification, DumpFile
  <2>2. Serving /\ ~IsDuplicate /\ Record /\ Request.callType \notin {"Start", "MonitorUpdate"}
    BY <1>3 DEF FailEdit, EditUnmonitored, Edit, Register, Unregister, GetMode,
                TellModification, DumpFile, Executing
  <2>3. QED
    BY <2>1, <2>2, RespondInv
<1>4. CASE GreetClient \/ ServeLateAcknowledgement
  <2>1. PICK resp : Respond(resp)
    BY <1>4 DEF GreetClient, ServeLateAcknowledgement
  <2>2. Serving /\ ~IsDuplicate /\ UNCHANGED <<executed, reexecuted>>
    BY <1>4 DEF GreetClient, ServeLateAcknowledgement, Executing
  <2>3. QED
    BY <2>1, <2>2, RespondInv
<1>5. CASE EditMonitored
  <2>1. PICK path \in Files, c \in Clients :
          /\ Edit(path)
          /\ job'.from = Caller /\ job'.call = Request
          /\ Notify(Consumed(Srv), c, path, files[path] + 1)
          /\ UNCHANGED <<messageMap, runs>>
    BY <1>5 DEF EditMonitored
  <2>2. /\ Serving /\ ~IsDuplicate /\ Record /\ Arrived(Srv)
        /\ Request.callType \notin {"Start", "MonitorUpdate"}
    BY <2>1 DEF Edit, Executing, Serving
  <2>3. PICK msg : Transmit(Consumed(Srv), Srv, c, msg)
    BY <2>1 DEF Notify, SendMessage
  <2>4. /\ pc'[Srv] = "rpc" /\ pending'[Srv].sa = c
        /\ \A d \in Clients : /\ pc'[d] = pc[d] /\ pending'[d] = pending[d]
                              /\ runs'[d] = runs[d] /\ messageNum'[d] = messageNum[d]
    BY <2>1 DEF Notify, SendMessage, BasicTypeOK, SenderTypeOK
  <2>5. ServerMoves /\ Takes
    BY <2>2, <2>3, <2>4, ServerConsumes
  <2>6. QED
    BY <2>1, <2>2, <2>4, <2>5, ExecuteInv
<1>6. CASE NotifyNext
  <2>1. PICK c \in Clients :
          Notify(Consumed(Srv), c, job.call.strs[1], files[job.call.strs[1]])
    BY <1>6 DEF NotifyNext
  <2>2. PICK msg : Transmit(Consumed(Srv), Srv, c, msg)
    BY <2>1 DEF Notify, SendMessage
  <2>3. /\ pc'[Srv] = "rpc" /\ pending'[Srv].sa = c
        /\ \A d \in Clients : /\ pc'[d] = pc[d] /\ pending'[d] = pending[d]
                              /\ runs'[d] = runs[d] /\ messageNum'[d] = messageNum[d]
    BY <1>6, <2>1 DEF NotifyNext, Notify, SendMessage, BasicTypeOK, SenderTypeOK
  <2>4. Arrived(Srv) /\ pc[Srv] = "rpc"
    BY <1>6 DEF NotifyNext, Answered
  <2>5. ServerMoves
    BY <2>2, <2>3, <2>4, ServerConsumes
  <2>6. QED
    BY <1>6, <2>3, <2>4, <2>5, IdleServerInv DEF NotifyNext
<1>7. CASE NotifiedAll
  <2>1. Arrived(Srv) /\ job.from \in Clients
    BY <1>7 DEF NotifiedAll, Answered, AtMostOnceInv, FromClients
  <2>2. PICK msg : Transmit(Consumed(Srv), Srv, job.from, msg)
    BY <1>7 DEF NotifiedAll, SendResponse
  <2>3. \A d \in Clients : /\ pc'[d] = pc[d] /\ pending'[d] = pending[d]
                           /\ runs'[d] = runs[d] /\ messageNum'[d] = messageNum[d]
    BY <1>7 DEF NotifiedAll, BasicTypeOK, SenderTypeOK
  <2>4. ServerMoves
    BY <2>1, <2>2, <2>3, ServerConsumes
  <2>5. QED
    BY <1>7, <2>4, NotifiedAllInv
<1>8. CASE ServeMalformed \/ ServerGivesUp
  <2>1. Exit(Srv) /\ UNCHANGED serverVars
    BY <1>8 DEF ServeMalformed, ServerGivesUp
  <2>2. ServerMoves /\ pc'[Srv] = "down" /\ runs'[Srv] = runs[Srv]
    BY <2>1 DEF Exit, ServerMoves, Queue, BasicTypeOK, SenderTypeOK
  <2>3. QED
    BY <2>1, <2>2, IdleServerInv DEF serverVars
<1>9. CASE ServerDiscards
  <2>1. DiscardImproper(Srv) /\ UNCHANGED serverVars /\ Arrived(Srv)
    BY <1>9 DEF ServerDiscards, DiscardImproper
  <2>2. Queue # <<>> /\ Queue' = Tail(Queue)
    BY <2>1 DEF DiscardImproper, Arrived, Consumed, Queue, BasicTypeOK, SenderTypeOK
  <2>3. /\ UNCHANGED <<pc, runs, messageNum>>
        /\ \A d \in Clients : pending'[d] = pending[d]
    BY <2>1 DEF DiscardImproper, BasicTypeOK, SenderTypeOK
  <2>4. pending'[Srv].sa = Queue[1].from
    <3>1. Queue \in Seq(Packets)
      BY NumbersType
    <3>2. Packet(Srv) = Queue[1]
      BY <2>2, <3>1, TakenQueue DEF Packet, Queue
    <3>3. QED
      BY <2>1, <3>2 DEF DiscardImproper, BasicTypeOK, SenderTypeOK
  <2>5. pending'[Srv].sa \in Clients
    <3>1. 1 \in DOMAIN Queue
      BY <2>2, NumbersType, TakenQueue
    <3>2. QED
      BY <2>4, <3>1 DEF AtMostOnceInv, FromClients, Queue
  <2>6. ServerMoves
    BY <2>2, <2>3 DEF ServerMoves, Takes
  <2>7. QED
    BY <2>1, <2>3, <2>5, <2>6, IdleServerInv DEF serverVars
<1>10. CASE ServerRetransmits
  <2>1. Retransmit(Srv) /\ UNCHANGED serverVars /\ pc[Srv] = "rpc"
    BY <1>10 DEF ServerRetransmits, Retransmit, TimedOut
  <2>2. pending[Srv].sa \in Clients
    BY <2>1 DEF AtMostOnceInv, FromClients
  <2>3. Queue' = Queue
    BY <2>1, <2>2, ServerTransmits DEF Retransmit, Queue, BasicTypeOK, SenderTypeOK
  <2>4. /\ UNCHANGED <<pc, runs, messageNum>>
        /\ \A d \in Clients : pending'[d] = pending[d]
        /\ pending'[Srv].sa = pending[Srv].sa
    BY <2>1 DEF Retransmit, BasicTypeOK, SenderTypeOK
  <2>5. ServerMoves
    BY <2>3, <2>4 DEF ServerMoves
  <2>6. QED
    BY <2>1, <2>2, <2>4, <2>5, IdleServerInv DEF serverVars
<1>11. QED
  BY <1>2, <1>3, <1>4, <1>5, <1>6, <1>7, <1>8, <1>9, <1>10 DEF ServerStep

-----------------------------------------------------------------------------

\* At first there is no call and no execution.
LEMMA InitInv == Init => AtMostOnceInv
<1> SUFFICES ASSUME Init PROVE AtMostOnceInv
  OBVIOUS
<1>1. /\ inbox[Srv] = <<>> /\ executed = {} /\ reexecuted = {}
      /\ \A n \in Nodes : pc[n] # "rpc"
  BY DEF Init, SenderInit, ServerInit
<1>2. FromClients
  BY <1>1 DEF FromClients
<1>3. \A c \in Clients : ClientInv(c)
  BY <1>1 DEF ClientInv, PendingIsLast, QueuedWasMade, QueuedInOrder, ExecutedWasMade
<1>4. ResponsesKept /\ AtMostOnce
  BY <1>1 DEF ResponsesKept, AtMostOnce
<1>5. QED
  BY <1>2, <1>3, <1>4 DEF AtMostOnceInv

\* A step that changes nothing keeps the invariant.
LEMMA StutterInv == AtMostOnceInv /\ UNCHANGED vars => AtMostOnceInv'
  BY DEF vars, senderVars, clientVars, serverVars, AtMostOnceInv, FromClients, ClientInv,
     PendingIsLast, QueuedWasMade, QueuedInOrder, ExecutedWasMade, WasMade, IsCall,
     ResponsesKept, IsStored, IsUnderWay, IsOver, AtMostOnce

\* Every step of the system keeps the invariant.
LEMMA NextInv == BasicTypeOK /\ AtMostOnceInv /\ [Next]_vars => AtMostOnceInv'
<1> SUFFICES ASSUME BasicTypeOK, AtMostOnceInv, [Next]_vars PROVE AtMostOnceInv'
  OBVIOUS
<1>1. BasicTypeOK'
  BY NextType
<1>2. ASSUME NEW c \in Clients, UserStep(c) \/ ClientStep(c)
      PROVE  AtMostOnceInv'
  BY <1>1, <1>2, ClientMoves, ClientMoveInv
<1>3. QED
  BY <1>2, ServerStepInv, RestartInv, StutterInv DEF Next

\* The inductive invariant holds whatever the processes do.
THEOREM InvariantHolds == Spec => []AtMostOnceInv
<1>1. QED
  BY BasicTypeInvariant, InitType, NextType, InitInv, NextInv, PTL DEF Spec

\* A server run without -l executes no call twice, for any number of clients
\* that give out their numbers and repeat their calls as sender.cpp does, whatever
\* is lost and whoever ends and is started again.
THEOREM AtMostOnceHolds == Spec => []AtMostOnce
<1>1. AtMostOnceInv => AtMostOnce
  BY DEF AtMostOnceInv
<1>2. QED
  BY <1>1, InvariantHolds, PTL
=============================================================================
