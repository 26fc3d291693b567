---------------------------- MODULE ServiceProofs ----------------------------
(***************************************************************************)
(* The proof that the clients see the service of AtMostOnceService, for    *)
(* processes that are started once and run without -l, of which one client *)
(* at most monitors files.                                                 *)
(*                                                                         *)
(* The steps are first reduced to what they do to the queues: a client     *)
(* leaves, calls, waits, returns from a call, takes an update or does      *)
(* nothing that concerns the others; the server replies, sends an update   *)
(* or drops packets.                                                       *)
(***************************************************************************)
EXTENDS ServiceInvariants, AtMostOnceProofs, FiniteSetTheorems

USE SenderAssumption, ClientAssumption, ServerAssumption DEF Nodes

\* What is known of a state.
AllInv == BasicTypeOK /\ AtMostOnceInv /\ ServiceInv

\* The kinds of steps of a client.  It leaves, and its packets are gone.
Leaves(c) ==
  /\ OthersKept(c)
  /\ Queue' = Queue
  /\ inbox'[c] = <<>>
  /\ pc'[c] = "down"
  /\ runs'[c] = runs[c] /\ messageNum'[c] = messageNum[c]
  /\ pending'[c] \in {pending[c], NoCall}
  /\ UNCHANGED prevPacketNumber

\* It has the answer to its call.
Returns(c) ==
  /\ OthersKept(c)
  /\ Queue' = Queue
  /\ Answered(c)
  /\ inbox'[c] = Tail(inbox[c])
  /\ pc'[c] \in {"ready", "monitor"}
  /\ pc'[c] = "monitor" => pending[c].call.callType = "Monitor"
  /\ runs'[c] = runs[c] /\ messageNum'[c] = messageNum[c]
  /\ pending'[c] = NoCall
  /\ UNCHANGED prevPacketNumber

\* It takes a packet while it monitors, and acknowledges it if it is new.
TakesUpdate(c) ==
  /\ OthersKept(c)
  /\ pc[c] = "monitor" /\ Arrived(c)
  /\ inbox'[c] = Tail(inbox[c])
  /\ pc'[c] = "monitor"
  /\ runs'[c] = runs[c] /\ messageNum'[c] = messageNum[c]
  /\ pending'[c] = pending[c]
  /\ \A d \in Clients \ {c} : prevPacketNumber'[d] = prevPacketNumber[d]
  /\ \/ Queue' = Queue /\ prevPacketNumber'[c] = prevPacketNumber[c]
     \/ /\ IsUpdate(Packet(c).msg)
        /\ Packet(c).msg.num > prevPacketNumber[c]
        /\ prevPacketNumber'[c] = Packet(c).msg.num
        /\ \E msg \in Messages :
             msg.callType = "MonitorUpdate" /\ msg.num = Packet(c).msg.num /\ Sends(c, msg)

\* It reads a copy.
Idles(c) ==
  /\ OthersKept(c)
  /\ UNCHANGED senderVars
  /\ UNCHANGED prevPacketNumber

\* It is started, or makes its next call.
MakesCall(c) ==
  /\ Calls(c)
  /\ inbox'[c] \in {inbox[c], Tail(inbox[c])}
  /\ inbox'[c] = inbox[c] \/ Arrived(c)
  /\ pending'[c].sa = Srv
  /\ \A d \in Clients \ {c} : prevPacketNumber'[d] = prevPacketNumber[d]
  /\ \/ /\ pc[c] = "down" /\ runs[c] < MaxClientRuns
        /\ runs'[c] = runs[c] + 1 /\ messageNum'[c] = 1
        /\ prevPacketNumber'[c] = -1
     \/ /\ pc[c] # "down"
        /\ runs'[c] = runs[c] /\ messageNum'[c] = messageNum[c] + 1
        /\ prevPacketNumber'[c] = prevPacketNumber[c]

\* It is still waiting.
WaitsOn(c) ==
  /\ Waits(c)
  /\ inbox'[c] \in {inbox[c], Tail(inbox[c])}
  /\ inbox'[c] = inbox[c] \/ Arrived(c)
  /\ pending'[c].sa = pending[c].sa \/ (Arrived(c) /\ pending'[c].sa = Packet(c).from)
  /\ UNCHANGED prevPacketNumber

ClientKind(c) ==
  /\ \A d \in Clients \ {c} : inbox'[d] = inbox[d]
  /\ \/ Leaves(c)
     \/ Returns(c)
     \/ TakesUpdate(c)
     \/ Idles(c)
     \/ MakesCall(c)
     \/ WaitsOn(c)

-----------------------------------------------------------------------------

\* The types of what belongs to a process.
LEMMA NodeTypes ==
  ASSUME BasicTypeOK, NEW n \in Nodes
  PROVE  /\ inbox[n] \in Seq(Packets)
         /\ pc[n] \in {"down", "ready", "rpc", "monitor"}
         /\ messageNum[n] \in Nat /\ runs[n] \in Nat
         /\ pending[n].call \in Messages
         /\ \A i \in DOMAIN inbox[n] :
              inbox[n][i] \in Packets /\ inbox[n][i].msg \in Messages /\ inbox[n][i].msg.num \in Nat
         /\ \A e \in messageMap : e.num \in Nat
<1>1. inbox[n] \in Seq(Packets) /\ pending[n].call \in Messages
  BY DEF BasicTypeOK, SenderTypeOK
<1>2. \A i \in DOMAIN inbox[n] : inbox[n][i] \in Packets
  BY <1>1
<1>3. messageMap \subseteq [ from : Nodes, num : Nat, message : Messages ]
  BY DEF BasicTypeOK, ServerTypeOK
<1>4. /\ pc[n] \in {"down", "ready", "rpc", "monitor"}
      /\ messageNum[n] \in Nat /\ runs[n] \in Nat
  BY DEF BasicTypeOK, SenderTypeOK
<1>5. QED
  BY <1>1, <1>2, <1>3, <1>4 DEF Packets, Messages

\* A client's packet goes to the server, and the queue it was taken from is
\* the client's own.
LEMMA ClientTransmits ==
  ASSUME BasicTypeOK, NEW c \in Clients, NEW msg, NEW queues \in {inbox, Consumed(c)},
         queues = inbox \/ Arrived(c), Transmit(queues, c, Srv, msg)
  PROVE  /\ Sends(c, msg)
         /\ inbox'[c] = queues[c]
         /\ inbox'[c] \in {inbox[c], Tail(inbox[c])}
         /\ inbox'[c] = inbox[c] \/ Arrived(c)
         /\ \A d \in Clients \ {c} : inbox'[d] = inbox[d]
<1>1. inbox \in [ Nodes -> Seq(Packets) ] /\ c # Srv /\ c \in Nodes /\ Srv \in Nodes
  BY DEF BasicTypeOK, SenderTypeOK
<1>2. /\ queues \in [ Nodes -> Seq(Packets) ]
      /\ queues[Srv] = Queue
      /\ queues[c] \in {inbox[c], Tail(inbox[c])}
      /\ queues[c] = inbox[c] \/ Arrived(c)
      /\ \A d \in Clients \ {c} : queues[d] = inbox[d]
  <2>1. CASE queues = inbox
    BY <1>1, <2>1 DEF Queue
  <2>2. CASE queues = Consumed(c) /\ Arrived(c)
    <3>1. Consumed(c) \in [ Nodes -> Seq(Packets) ]
      BY <1>1, <2>2, ConsumedType DEF BasicTypeOK
    <3>2. QED
      BY <1>1, <2>2, <3>1 DEF Queue, Consumed
  <2>3. QED
    BY <2>1, <2>2
<1>3. Sends(c, msg)
  BY <1>2, TransmitSends
<1>4. inbox'[c] = queues[c] /\ \A d \in Clients \ {c} : inbox'[d] = queues[d]
  BY <1>1, <1>2 DEF Transmit, Delivered
<1>5. QED
  BY <1>2, <1>3, <1>4

\* A client that makes a call other than its first.
LEMMA SendMessageKind ==
  ASSUME BasicTypeOK, NEW c \in Clients, NEW msg \in Messages,
         NEW queues \in {inbox, Consumed(c)}, queues = inbox \/ Arrived(c),
         SendMessage(queues, c, Srv, msg, messageNum[c], runs[c]),
         UNCHANGED <<runs, prevPacketNumber, serverVars>>, pc[c] # "down"
  PROVE  ClientKind(c)
<1>1. runs[c] \in Nat /\ messageNum[c] \in Nat /\ messageNum' = [ messageNum EXCEPT ![c] = @ + 1 ]
      /\ c \in Nodes
  BY DEF BasicTypeOK, SenderTypeOK, SendMessage
<1>2. PICK call : Transmit(queues, c, Srv, call)
  BY DEF SendMessage
<1>3. queues \in [ Nodes -> Seq(Packets) ] /\ queues[Srv] = Queue
  <2>1. inbox \in [ Nodes -> Seq(Packets) ]
    BY DEF BasicTypeOK, SenderTypeOK
  <2>2. CASE queues = Consumed(c) /\ Arrived(c)
    BY <2>1, <2>2, <1>1, ConsumedType DEF Queue, Consumed, BasicTypeOK
  <2>3. QED
    BY <2>1, <2>2 DEF Queue
<1>4. Calls(c)
  BY <1>1, <1>3, SendMessageCalls
<1>5. messageNum'[c] = messageNum[c] + 1
  BY <1>1 DEF BasicTypeOK, SenderTypeOK
<1>6. MakesCall(c)
  <2>1. pending'[c].sa = Srv
    BY <1>1 DEF SendMessage, BasicTypeOK, SenderTypeOK
  <2>2. QED
    BY <1>2, <1>4, <1>5, <2>1, ClientTransmits DEF MakesCall
<1>7. QED
  BY <1>2, <1>6, ClientTransmits DEF ClientKind

\* What a client finds while it monitors: an update, or the response to its
\* Monitor again.
LEMMA MonitorHead ==
  ASSUME AllInv, NEW c \in Clients, pc[c] = "monitor", Arrived(c)
  PROVE  /\ c \in Monitoring
         /\ Packet(c) = inbox[c][1] /\ 1 \in DOMAIN inbox[c]
         /\ Packet(c).from = Srv
         /\ Packet(c).msg \in Messages
         /\ IsUpdate(Packet(c).msg) =>
              Packet(c).msg.num < messageNum[Srv] /\ Len(Packet(c).msg.strs) = 2
         /\ ~IsUpdate(Packet(c).msg) => Packet(c).msg.strs = <<>>
<1>1. inbox[c] \in Seq(Packets) /\ inbox[c] # <<>>
  BY NodeTypes DEF AllInv, Arrived
<1>2. 1 \in DOMAIN inbox[c] /\ Packet(c) = inbox[c][1]
  BY <1>1, TakenQueue DEF Packet
<1>3. CallsInv(c) /\ AnswersInv(c)
  BY DEF AllInv, ServiceInv
<1>4. c \in Monitoring /\ Packet(c).from = Srv
  BY <1>2, <1>3 DEF CallsInv, CallsOfClient, ServerOnly
<1>5. Packet(c).msg \in Messages
  BY <1>2, NodeTypes DEF AllInv
<1>6. AcksInTime(c)
  BY <1>4 DEF AllInv, ServiceInv, UpdatesInv
<1>7. IsUpdate(Packet(c).msg) =>
        Packet(c).msg.num < messageNum[Srv] /\ Len(Packet(c).msg.strs) = 2
  BY <1>2, <1>6 DEF AcksInTime
<1>8. ASSUME ~IsUpdate(Packet(c).msg)
      PROVE  Packet(c).msg.strs = <<>>
  <2>1. IsResponse(inbox[c][1])
    BY <1>2, <1>8 DEF IsResponse
  <2>2. inbox[c][1].msg.num = messageNum[c] - 1
    BY <1>2, <1>3, <2>1 DEF AnswersInv, NothingOlder
  <2>3. AnswerToLast(c, inbox[c][1].msg.num, inbox[c][1].msg)
    BY <1>2, <1>3, <2>1 DEF AnswersInv, LastCall
  <2>4. QED
    BY <1>2, <2>2, <2>3 DEF AnswerToLast
<1>9. QED
  BY <1>2, <1>4, <1>5, <1>7, <1>8

\* The end of a client.
LEMMA ExitKind ==
  ASSUME BasicTypeOK, NEW c \in Clients, Exit(c), UNCHANGED <<clientVars, serverVars>>
  PROVE  ClientKind(c)
<1>1. c \in Nodes /\ c # Srv /\ inbox \in [ Nodes -> Seq(Packets) ]
  BY DEF BasicTypeOK, SenderTypeOK
<1>2. inbox'[c] = <<>> /\ Queue' = Queue /\ \A d \in Clients \ {c} : inbox'[d] = inbox[d]
  BY <1>1 DEF Exit, Queue
<1>3. /\ pc'[c] = "down" /\ pending'[c] = NoCall /\ UNCHANGED <<messageNum, runs>>
      /\ \A n \in Nodes \ {c} : pc'[n] = pc[n] /\ pending'[n] = pending[n]
  BY <1>1 DEF Exit, BasicTypeOK, SenderTypeOK
<1>4. Leaves(c)
  BY <1>1, <1>2, <1>3 DEF Leaves, OthersKept, clientVars
<1>5. QED
  BY <1>2, <1>4 DEF ClientKind

\* A client that has the answer to its call and makes no other.
LEMMA ReturnKind ==
  ASSUME BasicTypeOK, NEW c \in Clients, Answered(c), NEW where \in {"ready", "monitor"},
         pc' = [ pc EXCEPT ![c] = where ], inbox' = Consumed(c),
         pending' = [ pending EXCEPT ![c] = NoCall ],
         UNCHANGED <<messageNum, runs, prevPacketNumber, serverVars>>,
         where = "monitor" => pending[c].call.callType = "Monitor"
  PROVE  ClientKind(c)
<1>1. c \in Nodes /\ c # Srv /\ inbox \in [ Nodes -> Seq(Packets) ]
  BY DEF BasicTypeOK, SenderTypeOK
<1>2. inbox'[c] = Tail(inbox[c]) /\ Queue' = Queue /\ \A d \in Clients \ {c} : inbox'[d] = inbox[d]
  BY <1>1 DEF Consumed, Queue
<1>3. /\ pc'[c] = where /\ pending'[c] = NoCall
      /\ \A n \in Nodes \ {c} : pc'[n] = pc[n] /\ pending'[n] = pending[n]
  BY <1>1 DEF BasicTypeOK, SenderTypeOK
<1>4. Returns(c)
  BY <1>1, <1>2, <1>3 DEF Returns, OthersKept
<1>5. QED
  BY <1>2, <1>4 DEF ClientKind

\* A client that takes a packet while it monitors.
LEMMA UpdateKind ==
  ASSUME AllInv, NEW c \in Clients, pc[c] = "monitor", Arrived(c),
         UNCHANGED <<pc, pending, messageNum, runs, serverVars>>,
         \/ inbox' = Consumed(c) /\ UNCHANGED prevPacketNumber
         \/ /\ IsUpdate(Packet(c).msg)
            /\ Packet(c).msg.num > prevPacketNumber[c]
            /\ prevPacketNumber' = [ prevPacketNumber EXCEPT ![c] = Packet(c).msg.num ]
            /\ Acknowledge(c, Packet(c).msg)
  PROVE  ClientKind(c)
<1>1. c \in Nodes /\ c # Srv /\ inbox \in [ Nodes -> Seq(Packets) ]
      /\ prevPacketNumber \in [ Clients -> Int ]
  BY DEF AllInv, BasicTypeOK, SenderTypeOK, ClientTypeOK
<1>2. OthersKept(c)
  BY DEF OthersKept
<1>3. Consumed(c)[c] = Tail(inbox[c]) /\ Consumed(c)[Srv] = Queue
      /\ \A d \in Clients \ {c} : Consumed(c)[d] = inbox[d]
  BY <1>1 DEF Consumed, Queue
<1>4. CASE inbox' = Consumed(c) /\ UNCHANGED prevPacketNumber
  <2>1. TakesUpdate(c)
    BY <1>1, <1>2, <1>3, <1>4 DEF TakesUpdate, Queue
  <2>2. QED
    BY <1>3, <1>4, <2>1 DEF ClientKind
<1>5. CASE /\ IsUpdate(Packet(c).msg)
           /\ Packet(c).msg.num > prevPacketNumber[c]
           /\ prevPacketNumber' = [ prevPacketNumber EXCEPT ![c] = Packet(c).msg.num ]
           /\ Acknowledge(c, Packet(c).msg)
  <2> DEFINE msg == Packet(c).msg
             plain == Message("MonitorUpdate", <<Good>>, <<>>)
             ack == Numbered(plain, msg.num, msg.run)
  <2>1. Transmit(Consumed(c), c, Srv, ack)
    BY <1>5, MonitorHead DEF Acknowledge, SendResponse
  <2>2. ack \in Messages /\ ack.callType = "MonitorUpdate" /\ ack.num = msg.num
    <3>1. plain \in Messages /\ plain.callType = "MonitorUpdate"
      BY PlainMessageType DEF CallTypes, Good, Message
    <3>2. msg.num \in Nat /\ msg.run \in Nat
      BY MonitorHead DEF Messages
    <3> HIDE DEF plain, msg
    <3>3. QED
      BY <3>1, <3>2, NumberedType
  <2> HIDE DEF ack
  <2>3. Sends(c, ack) /\ inbox'[c] = Tail(inbox[c]) /\ \A d \in Clients \ {c} : inbox'[d] = inbox[d]
    BY <1>3, <2>1, ClientTransmits DEF AllInv
  <2>4. prevPacketNumber'[c] = msg.num
        /\ \A d \in Clients \ {c} : prevPacketNumber'[d] = prevPacketNumber[d]
    BY <1>1, <1>5
  <2>5. TakesUpdate(c)
    BY <1>2, <1>5, <2>2, <2>3, <2>4 DEF TakesUpdate
  <2>6. QED
    BY <2>3, <2>5 DEF ClientKind
<1>6. QED
  BY <1>4, <1>5

\* Every step of a client is one of the kinds.
LEMMA ClientKinds ==
  ASSUME ServiceConditions, AllInv, NEW c \in Clients, UserStep(c) \/ ClientStep(c)
  PROVE  ClientKind(c)
<1> USE DEF AllInv
<1>1. c \in Nodes /\ c # Srv /\ inbox \in [ Nodes -> Seq(Packets) ]
      /\ runs[c] \in Nat /\ messageNum[c] \in Nat
  BY DEF BasicTypeOK, SenderTypeOK
<1>2. UNCHANGED serverVars
  BY DEF UserStep, ClientStep
<1>3. CASE Launch(c)
  <2>1. Message("Start", <<>>, <<>>) \in Messages
    BY PlainMessageType DEF CallTypes
  <2>2. /\ SendMessage(inbox, c, Srv, Message("Start", <<>>, <<>>), 0, runs[c] + 1)
        /\ runs' = [ runs EXCEPT ![c] = @ + 1 ]
        /\ runs[c] + 1 \in Nat
    BY <1>1, <1>3 DEF Launch
  <2>3. Calls(c)
    BY <1>1, <1>2, <2>1, <2>2, SendMessageCalls DEF Queue
  <2>4. PICK call : Transmit(inbox, c, Srv, call)
    BY <2>2 DEF SendMessage
  <2>5. /\ inbox'[c] = inbox[c]
        /\ \A d \in Clients \ {c} : inbox'[d] = inbox[d]
    BY <2>4, ClientTransmits
  <2>6. /\ pc[c] = "down" /\ runs[c] < MaxClientRuns
        /\ runs'[c] = runs[c] + 1 /\ messageNum'[c] = 1
        /\ prevPacketNumber'[c] = -1
        /\ pending'[c].sa = Srv
        /\ \A d \in Clients \ {c} : prevPacketNumber'[d] = prevPacketNumber[d]
    BY <1>3, <2>2 DEF Launch, SendMessage, BasicTypeOK, SenderTypeOK, ClientTypeOK
  <2>7. QED
    BY <2>3, <2>5, <2>6 DEF MakesCall, ClientKind
<1>4. CASE EnterCommand(c)
  <2>1. PICK msg \in Messages : SendMessage(inbox, c, Srv, msg, messageNum[c], runs[c])
    BY <1>4, EnteredType DEF EnterCommand
  <2>2. pc[c] # "down" /\ UNCHANGED <<runs, prevPacketNumber>>
    BY <1>4 DEF EnterCommand, clientVars
  <2>3. QED
    BY <1>2, <2>1, <2>2, SendMessageKind
<1>5. CASE Quit(c) \/ ReadMalformed(c) \/ ClientGivesUp(c)
  BY <1>2, <1>5, ExitKind DEF Quit, ReadMalformed, ClientGivesUp
<1>6. CASE ReadLocally(c)
  BY <1>2, <1>6 DEF ReadLocally, Idles, OthersKept, ClientKind, senderVars
<1>7. CASE AskForFile(c) \/ AskWhetherFresh(c)
  <2>1. PICK request \in Requests(c), callType \in {"Fresh", "Dump"} :
          StartRead(c, request) /\ Ask(c, callType, request.strs[1], inbox)
    <3>1. CASE AskForFile(c)
      BY <3>1 DEF AskForFile
    <3>2. CASE AskWhetherFresh(c)
      BY <3>2 DEF AskWhetherFresh
    <3>3. QED
      BY <1>7, <3>1, <3>2
  <2>2. request.strs[1] \in Files \cup Nat /\ UNCHANGED <<runs, prevPacketNumber>> /\ pc[c] # "down"
    BY <2>1, StartReadType DEF StartRead
  <2>3. Message(callType, <<>>, <<request.strs[1]>>) \in Messages
    BY <2>2, PlainMessageType DEF CallTypes
  <2>4. QED
    BY <1>2, <2>1, <2>2, <2>3, SendMessageKind DEF Ask
<1>8. CASE ReceiveResponse(c)
  <2> DEFINE resp == Packet(c).msg
  <2>1. resp \in Messages /\ resp.callType = pending[c].call.callType /\ Answered(c)
    BY <1>1, <1>8, ConsumedType DEF ReceiveResponse, Answered, IsAnswer, BasicTypeOK
  <2>2. AfterResponse(resp) \in {"down", "ready", "monitor"}
        /\ (AfterResponse(resp) = "monitor" => resp.callType = "Monitor")
    BY DEF AfterResponse, Garbage, Good
  <2>3. CASE AfterResponse(resp) = "down"
    <3>1. inbox'[c] = <<>> /\ Queue' = Queue /\ \A d \in Clients \ {c} : inbox'[d] = inbox[d]
      BY <1>1, <1>8, <2>3 DEF ReceiveResponse, Queue
    <3>2. /\ pc'[c] = "down" /\ pending'[c] = NoCall
          /\ \A n \in Nodes \ {c} : pc'[n] = pc[n] /\ pending'[n] = pending[n]
          /\ UNCHANGED <<messageNum, runs, prevPacketNumber>>
      BY <1>1, <1>8, <2>3 DEF ReceiveResponse, BasicTypeOK, SenderTypeOK
    <3>3. Leaves(c)
      BY <1>1, <1>2, <3>1, <3>2 DEF Leaves, OthersKept
    <3>4. QED
      BY <3>1, <3>3 DEF ClientKind
  <2>4. CASE AfterResponse(resp) # "down"
    <3>1. /\ pc' = [ pc EXCEPT ![c] = AfterResponse(resp) ]
          /\ inbox' = Consumed(c)
          /\ pending' = [ pending EXCEPT ![c] = NoCall ]
          /\ UNCHANGED <<messageNum, runs, prevPacketNumber>>
      BY <1>8, <2>4 DEF ReceiveResponse
    <3>2. QED
      BY <1>2, <2>1, <2>2, <2>4, <3>1, ReturnKind
  <2>5. QED
    BY <2>3, <2>4
<1>9. CASE ReceiveEndResponse(c)
  BY <1>2, <1>9, ReturnKind DEF ReceiveEndResponse, clientVars
<1>10. CASE ReceiveNoFile(c) \/ ReceiveFile(c) \/ ReceiveUnmodified(c)
  <2>1. PICK resp : FinishRead(c, resp)
    BY <1>10 DEF ReceiveNoFile, ReceiveFile, ReceiveUnmodified
  <2>2. Answered(c) /\ UNCHANGED <<runs, prevPacketNumber>>
    BY <1>10 DEF ReceiveNoFile, ReceiveFile, ReceiveUnmodified, StoreCopy, ReceiveForCache
  <2>3. QED
    BY <1>2, <2>1, <2>2, ReturnKind DEF FinishRead
<1>11. CASE ReceiveFileAndAsk(c) \/ ReceiveModified(c)
  <2>1. PICK received \in {"Fresh", "Dump"}, callType \in {"Fresh", "Dump"} :
          ReceiveForCache(c, received) /\ Ask(c, callType, Path(c), Consumed(c))
    <3>1. CASE ReceiveFileAndAsk(c)
      BY <3>1 DEF ReceiveFileAndAsk, StoreCopy
    <3>2. CASE ReceiveModified(c)
      BY <3>2 DEF ReceiveModified
    <3>3. QED
      BY <1>11, <3>1, <3>2
  <2>2. /\ Path(c) \in Files \cup Nat
        /\ UNCHANGED <<runs, prevPacketNumber>>
        /\ pc[c] # "down" /\ Arrived(c)
    BY <2>1, ForCacheType DEF ReceiveForCache, Answered
  <2>3. Message(callType, <<>>, <<Path(c)>>) \in Messages
    BY <2>2, PlainMessageType DEF CallTypes
  <2>4. QED
    BY <1>2, <2>1, <2>2, <2>3, SendMessageKind DEF Ask
<1>12. CASE ShowUpdate(c) \/ SurviveMissingContent(c)
  <2> DEFINE msg == Packet(c).msg
  <2>1. /\ pc[c] = "monitor" /\ Arrived(c) /\ Acknowledge(c, msg) /\ AcceptNumber(c, msg)
        /\ IsNew(c, msg) /\ Len(msg.strs) \in {1, 2}
        /\ UNCHANGED <<pc, pending, messageNum, runs>>
    BY <1>12 DEF ShowUpdate, SurviveMissingContent, LacksContent, TakePacket
  <2>2. IsUpdate(msg)
    BY <2>1, MonitorHead
  <2>3. /\ prevPacketNumber' = [ prevPacketNumber EXCEPT ![c] = msg.num ]
        /\ msg.num > prevPacketNumber[c]
    BY <2>1 DEF AcceptNumber, IsNew, ServiceConditions
  <2>4. QED
    BY <1>2, <2>1, <2>2, <2>3, UpdateKind
<1>13. CASE CrashOnMissingContent(c)
  <2>1. inbox'[c] = <<>> /\ Queue' = Queue /\ \A d \in Clients \ {c} : inbox'[d] = inbox[d]
    BY <1>1, <1>13 DEF CrashOnMissingContent, Queue
  <2>2. /\ pc'[c] = "down" /\ UNCHANGED <<pending, messageNum, runs, prevPacketNumber>>
        /\ \A n \in Nodes \ {c} : pc'[n] = pc[n]
    BY <1>1, <1>13 DEF CrashOnMissingContent, LacksContent, TakePacket, BasicTypeOK, SenderTypeOK
  <2>3. Leaves(c)
    BY <1>1, <1>2, <2>1, <2>2 DEF Leaves, OthersKept
  <2>4. QED
    BY <2>1, <2>3 DEF ClientKind
<1>14. CASE IgnoreDuplicate(c)
  BY <1>2, <1>14, UpdateKind DEF IgnoreDuplicate, TakePacket
<1>15. CASE EndMonitoring(c)
  <2>1. Message("MonitorEnd", <<>>, <<>>) \in Messages
    BY PlainMessageType DEF CallTypes
  <2>2. QED
    BY <1>2, <1>15, <2>1, SendMessageKind DEF EndMonitoring, clientVars
<1>16. CASE ClientDiscards(c)
  <2>1. /\ inbox'[c] = Tail(inbox[c]) /\ Queue' = Queue /\ Arrived(c)
        /\ \A d \in Clients \ {c} : inbox'[d] = inbox[d]
    BY <1>1, <1>16 DEF ClientDiscards, DiscardImproper, Consumed, Queue
  <2>2. /\ pc[c] = "rpc" /\ UNCHANGED <<pc, messageNum, runs, prevPacketNumber>>
        /\ pending'[c].call = pending[c].call
        /\ pending'[c].sa = Packet(c).from
        /\ \A n \in Nodes \ {c} : pending'[n] = pending[n]
    BY <1>1, <1>16 DEF ClientDiscards, DiscardImproper, clientVars, BasicTypeOK, SenderTypeOK
  <2>3. WaitsOn(c)
    BY <1>1, <1>2, <2>1, <2>2 DEF WaitsOn, Waits, OthersKept, Sends
  <2>4. QED
    BY <2>1, <2>3 DEF ClientKind
<1>17. CASE ClientRetransmits(c)
  <2>1. pending[c].sa = Srv
    BY DEF ServiceInv, CallsInv, ServerOnly
  <2>2. Transmit(inbox, c, Srv, pending[c].call)
    BY <1>17, <2>1 DEF ClientRetransmits, Retransmit
  <2>3. /\ Sends(c, pending[c].call) /\ inbox'[c] = inbox[c]
        /\ \A d \in Clients \ {c} : inbox'[d] = inbox[d]
    BY <2>2, ClientTransmits
  <2>4. /\ pc[c] = "rpc" /\ UNCHANGED <<pc, messageNum, runs, prevPacketNumber>>
        /\ pending'[c].call = pending[c].call
        /\ pending'[c].sa = pending[c].sa
        /\ \A n \in Nodes \ {c} : pending'[n] = pending[n]
    BY <1>1, <1>17 DEF ClientRetransmits, Retransmit, TimedOut, clientVars, BasicTypeOK, SenderTypeOK
  <2>5. WaitsOn(c)
    BY <1>1, <1>2, <2>3, <2>4 DEF WaitsOn, Waits, OthersKept
  <2>6. QED
    BY <2>3, <2>5 DEF ClientKind
<1>18. QED
  BY <1>3, <1>4, <1>5, <1>6, <1>7, <1>8, <1>9, <1>10, <1>11, <1>12, <1>13, <1>14, <1>15,
     <1>16, <1>17
     DEF UserStep, ClientStep

-----------------------------------------------------------------------------
(* The steps of the clients and the answers they may expect.                *)

ClientMove(c) == ClientKind(c) /\ (Quiet(c) \/ Calls(c) \/ Waits(c))

\* A call that was executed has been made.
LEMMA ExecutedNumber ==
  ASSUME AllInv, NEW c \in Clients, NEW num \in Nat, WasExecuted(c, num)
  PROVE  num < messageNum[c]
<1> DEFINE e == <<1, c, 1, num>>
<1>1. e \in executed /\ e[2] = c /\ e[3] = 1 /\ e[4] = num
  BY DEF WasExecuted
<1>2. WasMade(c, e)
  <2> HIDE DEF e
  <2>1. QED
    BY <1>1 DEF AllInv, AtMostOnceInv, ClientInv, ExecutedWasMade
<1>3. Before(1, num, runs[c], messageNum[c])
  <2> HIDE DEF e
  <2>1. QED
    BY <1>1, <1>2 DEF WasMade
<1>4. runs[c] \in {0, 1} /\ messageNum[c] \in Nat
  BY NodeTypes DEF AllInv, ServiceInv, FirstRuns
<1>5. QED
  BY <1>3, <1>4 DEF Before

\* The numbers of calls and responses.
LEMMA AnswerNumbers ==
  ASSUME AllInv, NEW c \in Clients
  PROVE  /\ messageNum[c] \in Nat
         /\ \A i \in DOMAIN inbox[c] : inbox[c][i].msg.num \in Nat
         /\ \A j \in DOMAIN inbox[Srv] : inbox[Srv][j].msg.num \in Nat
         /\ pc[Srv] = "rpc" /\ job.from = c => job.call.num \in Nat /\ job.call.num < messageNum[c]
         /\ \A e \in messageMap : e.num \in Nat
         /\ \A j \in DOMAIN inbox[Srv] :
              IsCall(inbox[Srv][j], c) => inbox[Srv][j].msg.num < messageNum[c]
<1>1. /\ messageNum[c] \in Nat /\ runs[c] \in {0, 1}
      /\ \A i \in DOMAIN inbox[c] : inbox[c][i].msg.num \in Nat
      /\ \A j \in DOMAIN inbox[Srv] : inbox[Srv][j].msg.num \in Nat
      /\ \A e \in messageMap : e.num \in Nat
  BY NodeTypes DEF AllInv, ServiceInv, FirstRuns
<1>2. job.call.num \in Nat
  BY DEF AllInv, BasicTypeOK, ServerTypeOK, Messages
<1>3. pc[Srv] = "rpc" /\ job.from = c => job.call.num < messageNum[c]
  BY <1>2, ExecutedNumber DEF AllInv, ServiceInv, JobUnderWay
<1>4. ASSUME NEW j \in DOMAIN inbox[Srv], IsCall(inbox[Srv][j], c)
      PROVE  inbox[Srv][j].msg.num < messageNum[c]
  <2>1. Before(inbox[Srv][j].msg.run, inbox[Srv][j].msg.num, runs[c], messageNum[c])
    BY <1>4 DEF AllInv, AtMostOnceInv, ClientInv, QueuedWasMade
  <2>2. inbox[Srv][j].msg.run = 1
    BY <1>4 DEF AllInv, ServiceInv, FirstRuns, IsCall, IsUpdate
  <2>3. QED
    BY <1>1, <2>1, <2>2 DEF Before
<1>5. QED
  BY <1>1, <1>2, <1>3, <1>4

\* The calls that are queued after the step of a client: those of before, and
\* maybe the one it is blocked on.
LEMMA CallsAfter ==
  ASSUME ServiceConditions, AllInv, BasicTypeOK', NEW c \in Clients, ClientMove(c)
  PROVE  /\ OthersKept(c)
         /\ pc'[c] = "rpc" => /\ pending'[c].call.num = messageNum'[c] - 1
                              /\ pending'[c].call.run = runs'[c]
         /\ messageNum'[c] \in Nat /\ messageNum[c] <= messageNum'[c]
         /\ \A d \in Clients, j \in DOMAIN Queue' : IsCall(Queue'[j], d) =>
              \/ j \in DOMAIN Queue /\ Queue'[j] = Queue[j]
              \/ d = c /\ pc'[c] = "rpc" /\ Queue'[j].msg = pending'[c].call
<1>1. PendingIsLast(c) /\ BasicTypeOK
  BY DEF AllInv, AtMostOnceInv, ClientInv
<1>2. Quiet(c) \/ Calls(c) \/ Waits(c)
  BY DEF ClientMove
<1>3. /\ OthersKept(c)
      /\ pc'[c] = "rpc" => /\ pending'[c].call.num = messageNum'[c] - 1
                           /\ pending'[c].call.run = runs'[c]
  BY <1>1, <1>2, ClientMoveFacts DEF PendingIsLast
<1>4. messageNum'[c] \in Nat /\ messageNum[c] <= messageNum'[c]
  <2>1. messageNum[c] \in Nat /\ messageNum'[c] \in Nat /\ runs[c] \in {0, 1}
        /\ (runs[c] = 0 => messageNum[c] = 0) /\ runs[c] + 1 # runs[c]
    BY NodeTypes, SMTT(40) DEF AllInv, BasicTypeOK, SenderTypeOK, ServiceInv, FirstRuns
  <2>2. CASE MakesCall(c)
    <3>1. pc[c] = "down" => runs[c] < 1 /\ messageNum'[c] = 1
      BY <2>2 DEF MakesCall, ServiceConditions
    <3>2. pc[c] # "down" => messageNum'[c] = messageNum[c] + 1
      BY <2>2 DEF MakesCall
    <3>3. QED
      BY <2>1, <3>1, <3>2
  <2>3. ASSUME Leaves(c) \/ Returns(c) \/ TakesUpdate(c) \/ Idles(c) \/ WaitsOn(c)
        PROVE  messageNum'[c] = messageNum[c]
    BY <2>3 DEF Leaves, Returns, TakesUpdate, Idles, WaitsOn, Waits, senderVars
  <2>4. QED
    BY <2>1, <2>2, <2>3 DEF ClientMove, ClientKind
<1>5. ASSUME NEW d \in Clients, NEW j \in DOMAIN Queue', IsCall(Queue'[j], d)
      PROVE  \/ j \in DOMAIN Queue /\ Queue'[j] = Queue[j]
             \/ d = c /\ pc'[c] = "rpc" /\ Queue'[j].msg = pending'[c].call
  <2>1. PICK msg \in Messages :
          /\ Sends(c, msg)
          /\ msg.callType # "MonitorUpdate" => pc'[c] = "rpc" /\ msg = pending'[c].call
    BY <1>1, <1>2, ClientMoveFacts
  <2> DEFINE p == [ from |-> c, msg |-> msg ]
  <2>2. Queue' = Queue \/ Queue' = Append(Queue, p)
    BY <2>1 DEF Sends
  <2>3. (j \in DOMAIN Queue /\ Queue'[j] = Queue[j]) \/ Queue'[j] = p
    BY <1>1, <2>2, NumbersType, GrownQueue, SMTT(40)
  <2>4. QED
    BY <1>5, <2>1, <2>3 DEF IsCall
<1>6. QED
  BY <1>3, <1>4, <1>5

\* What a client has yet to take was there before, in the same order.
LEMMA PacketsAfter ==
  ASSUME AllInv, NEW c \in Clients, ClientMove(c)
  PROVE  \E k \in {0, 1} : \A i \in DOMAIN inbox'[c] :
           i \in Nat /\ i + k \in DOMAIN inbox[c] /\ inbox'[c][i] = inbox[c][i + k]
<1>1. inbox[c] \in Seq(Packets)
  BY NodeTypes DEF AllInv
<1>2. \/ inbox'[c] = inbox[c]
      \/ inbox[c] # <<>> /\ inbox'[c] = Tail(inbox[c])
      \/ inbox'[c] = <<>>
  BY DEF ClientMove, ClientKind, Leaves, Returns, TakesUpdate, Idles, MakesCall, WaitsOn,
     Answered, Arrived, senderVars
<1>3. QED
  BY <1>1, <1>2, ShrunkQueue

\* The step of another client changes nothing a client may expect.
LEMMA OtherAnswersInv ==
  ASSUME ServiceConditions, AllInv, BasicTypeOK', NEW c \in Clients, ClientMove(c),
         NEW d \in Clients \ {c}
  PROVE  AnswersInv(d)'
<1>1. AnswersInv(d)
  BY DEF AllInv, ServiceInv
<1>2. /\ inbox'[d] = inbox[d]
      /\ pc'[d] = pc[d] /\ pending'[d] = pending[d] /\ messageNum'[d] = messageNum[d]
      /\ pc'[Srv] = pc[Srv]
      /\ UNCHANGED serverVars
  BY CallsAfter DEF OthersKept, ClientMove, ClientKind
<1>3. \A j \in DOMAIN Queue' : IsCall(Queue'[j], d) =>
        j \in DOMAIN Queue /\ Queue'[j] = Queue[j]
  BY CallsAfter
<1>4. ResponsesExecuted(d)'
  BY <1>1, <1>2 DEF AnswersInv, ResponsesExecuted, WasExecuted, serverVars
<1>5. ResponsesInOrder(d)'
  BY <1>1, <1>2, <1>3 DEF AnswersInv, ResponsesInOrder, serverVars, Queue
<1>6. NothingOlder(d)'
  BY <1>1, <1>2, <1>3 DEF AnswersInv, NothingOlder, serverVars, Queue
<1>7. LastCall(d)'
  BY <1>1, <1>2, <1>3 DEF AnswersInv, LastCall, CallOfLast, AnswerToLast, Answers,
     serverVars, Queue
<1>8. QED
  BY <1>4, <1>5, <1>6, <1>7 DEF AnswersInv

\* When a client returns from a call, all that is left is copies of the call and
\* of its answer.
LEMMA ReturnsToNothingOlder ==
  ASSUME ServiceConditions, AllInv, BasicTypeOK', NEW c \in Clients, ClientMove(c), Returns(c)
  PROVE  NothingOlder(c)' /\ LastCall(c)'
<1> DEFINE last == messageNum[c] - 1
<1>1. AnswersInv(c)
  BY DEF AllInv, ServiceInv
<1>2. /\ pc[c] = "rpc" /\ messageNum'[c] = messageNum[c] /\ UNCHANGED serverVars
      /\ pc'[Srv] = pc[Srv] /\ Queue' = Queue /\ pc'[c] # "rpc"
      /\ pc'[c] = "monitor" => pending[c].call.callType = "Monitor"
  BY DEF Returns, Answered, OthersKept
<1>3. /\ 1 \in DOMAIN inbox[c]
      /\ inbox[c][1].msg.num = pending[c].call.num
      /\ inbox[c][1].msg.callType = pending[c].call.callType
      /\ \A i \in DOMAIN inbox'[c] :
           i \in Nat /\ 1 < i + 1 /\ i + 1 \in DOMAIN inbox[c] /\ inbox'[c][i] = inbox[c][i + 1]
  <2>1. inbox[c] \in Seq(Packets) /\ inbox[c] # <<>> /\ inbox'[c] = Tail(inbox[c])
    BY NodeTypes DEF AllInv, Returns, Answered, Arrived
  <2>2. QED
    BY <2>1, TakenQueue DEF Returns, Answered, IsAnswer, Packet
<1>4. inbox[c][1].msg.num = last /\ IsResponse(inbox[c][1])
  <2>1. PendingIsLast(c) /\ CallsInv(c)
    BY DEF AllInv, AtMostOnceInv, ClientInv, ServiceInv
  <2>2. QED
    BY <1>2, <1>3, <2>1 DEF PendingIsLast, CallsInv, CallsOfClient, MayCall, IsResponse, IsUpdate
<1>5. ASSUME NEW i \in DOMAIN inbox'[c], IsResponse(inbox'[c][i])
      PROVE  inbox'[c][i].msg.num = last
  <2>1. last <= inbox[c][i + 1].msg.num /\ inbox[c][i + 1].msg.num < messageNum[c]
    BY <1>1, <1>3, <1>4, <1>5 DEF AnswersInv, ResponsesInOrder
  <2>2. QED
    BY <1>3, <2>1, AnswerNumbers
<1>6. ASSUME NEW j \in DOMAIN inbox[Srv], IsCall(inbox[Srv][j], c)
      PROVE  inbox[Srv][j].msg.num = last
  <2>1. last <= inbox[Srv][j].msg.num
    BY <1>1, <1>3, <1>4, <1>6 DEF AnswersInv, ResponsesInOrder
  <2>2. QED
    BY <1>6, <2>1, AnswerNumbers
<1>7. ASSUME pc[Srv] = "rpc", job.from = c
      PROVE  job.call.num = last
  <2>1. last <= job.call.num
    BY <1>1, <1>3, <1>4, <1>7 DEF AnswersInv, ResponsesInOrder
  <2>2. QED
    BY <1>7, <2>1, AnswerNumbers
<1>8. NothingOlder(c)'
  BY <1>2, <1>5, <1>6, <1>7 DEF NothingOlder, Queue, serverVars
<1>9. \A call : CallOfLast(c, call) => CallOfLast(c, call)'
  BY <1>2 DEF CallOfLast
<1>10. \A num, resp : AnswerToLast(c, num, resp) => AnswerToLast(c, num, resp)'
  BY <1>2 DEF AnswerToLast, Answers
<1>11. LastCall(c)'
  BY <1>1, <1>2, <1>3, <1>9, <1>10 DEF AnswersInv, LastCall, Queue, serverVars
<1>12. QED
  BY <1>8, <1>11

\* What a client may expect after a step of its own.
LEMMA OwnAnswersInv ==
  ASSUME ServiceConditions, AllInv, BasicTypeOK', NEW c \in Clients, ClientMove(c)
  PROVE  AnswersInv(c)'
<1>1. AnswersInv(c)
  BY DEF AllInv, ServiceInv
<1>2. /\ UNCHANGED serverVars /\ pc'[Srv] = pc[Srv]
      /\ messageNum'[c] \in Nat /\ messageNum[c] <= messageNum'[c]
      /\ pc'[c] = "rpc" => pending'[c].call.num = messageNum'[c] - 1
  BY CallsAfter DEF OthersKept
<1>3. PICK k \in {0, 1} : \A i \in DOMAIN inbox'[c] :
        i \in Nat /\ i + k \in DOMAIN inbox[c] /\ inbox'[c][i] = inbox[c][i + k]
  BY PacketsAfter
<1>4. \A j \in DOMAIN Queue' : IsCall(Queue'[j], c) =>
        \/ j \in DOMAIN Queue /\ Queue'[j] = Queue[j]
        \/ pc'[c] = "rpc" /\ Queue'[j].msg = pending'[c].call
  BY CallsAfter
<1>5. ResponsesExecuted(c)'
  <2>1. \A num : WasExecuted(c, num)' <=> WasExecuted(c, num)
    BY <1>2 DEF WasExecuted, serverVars
  <2>2. \A num \in Nat : num < messageNum[c] => num < messageNum'[c]
    BY <1>2, AnswerNumbers
  <2>3. \A e \in messageMap : e.from = c =>
          /\ e.num < messageNum'[c]
          /\ ~IsUpdate(e.message)
          /\ e.message.callType # "Start" => WasExecuted(c, e.num)
    BY <1>1, <2>2, AnswerNumbers DEF AnswersInv, ResponsesExecuted
  <2>4. \A i \in DOMAIN inbox'[c] :
          IsResponse(inbox'[c][i]) /\ inbox'[c][i].msg.callType # "Start"
            => WasExecuted(c, inbox'[c][i].msg.num)
    BY <1>1, <1>3 DEF AnswersInv, ResponsesExecuted
  <2>5. QED
    BY <1>2, <2>1, <2>3, <2>4 DEF ResponsesExecuted, serverVars
<1>6. ResponsesInOrder(c)'
  <2>1. \A i \in DOMAIN inbox'[c] : IsResponse(inbox'[c][i]) =>
          inbox'[c][i].msg.num \in Nat /\ inbox'[c][i].msg.num < messageNum[c]
    BY <1>1, <1>3, AnswerNumbers DEF AnswersInv, ResponsesInOrder
  <2>2. \A i, j \in DOMAIN inbox'[c] :
          i < j /\ IsResponse(inbox'[c][i]) /\ IsResponse(inbox'[c][j]) =>
            inbox'[c][i].msg.num <= inbox'[c][j].msg.num
    <3>1. \A i, j \in DOMAIN inbox'[c] : i < j => i + k < j + k
      BY <1>3
    <3>2. QED
      BY <1>1, <1>3, <3>1 DEF AnswersInv, ResponsesInOrder
  <2>3. ASSUME NEW i \in DOMAIN inbox'[c], IsResponse(inbox'[c][i]),
               NEW j \in DOMAIN Queue', IsCall(Queue'[j], c)
        PROVE  inbox'[c][i].msg.num <= Queue'[j].msg.num
    <3>1. CASE j \in DOMAIN Queue /\ Queue'[j] = Queue[j]
      BY <1>1, <1>3, <2>3, <3>1 DEF AnswersInv, ResponsesInOrder, Queue
    <3>2. CASE pc'[c] = "rpc" /\ Queue'[j].msg = pending'[c].call
      BY <1>2, <2>1, <2>3, <3>2, AnswerNumbers
    <3>3. QED
      BY <1>4, <2>3, <3>1, <3>2
  <2>4. pc[Srv] = "rpc" /\ job.from = c =>
          \A i \in DOMAIN inbox'[c] : IsResponse(inbox'[c][i]) =>
            inbox'[c][i].msg.num <= job.call.num
    BY <1>1, <1>3 DEF AnswersInv, ResponsesInOrder
  <2>5. ASSUME pc[Srv] = "rpc", job.from = c, NEW j \in DOMAIN Queue', IsCall(Queue'[j], c)
        PROVE  job.call.num <= Queue'[j].msg.num
    <3>1. CASE j \in DOMAIN Queue /\ Queue'[j] = Queue[j]
      BY <1>1, <2>5, <3>1 DEF AnswersInv, ResponsesInOrder, Queue
    <3>2. CASE pc'[c] = "rpc" /\ Queue'[j].msg = pending'[c].call
      BY <1>2, <2>5, <3>2, AnswerNumbers
    <3>3. QED
      BY <1>4, <2>5, <3>1, <3>2
  <2>6. QED
    BY <1>2, <2>1, <2>2, <2>3, <2>4, <2>5, AnswerNumbers DEF ResponsesInOrder, Queue, serverVars
<1>7. CASE Returns(c)
  BY <1>5, <1>6, <1>7, ReturnsToNothingOlder DEF AnswersInv
<1>8. CASE pc'[c] = "down"
  BY <1>5, <1>6, <1>8 DEF AnswersInv, NothingOlder, LastCall, CallOfLast, AnswerToLast
<1>9. CASE TakesUpdate(c) \/ Idles(c) \/ WaitsOn(c)
  <2>1. pc'[c] = pc[c] /\ messageNum'[c] = messageNum[c] /\ pending'[c].call = pending[c].call
    BY <1>9 DEF TakesUpdate, Idles, WaitsOn, Waits, senderVars
  <2>2. NothingOlder(c)'
    BY <1>1, <1>2, <1>3, <1>4, <2>1 DEF AnswersInv, NothingOlder, Queue, serverVars
  <2>3. \A call : CallOfLast(c, call) => CallOfLast(c, call)'
    BY <2>1 DEF CallOfLast
  <2>4. \A num, resp : AnswerToLast(c, num, resp) => AnswerToLast(c, num, resp)'
    BY <1>2, <2>1 DEF AnswerToLast, Answers, serverVars
  <2>5. \A call : pc'[c] = "rpc" /\ call = pending'[c].call => CallOfLast(c, call)'
    BY DEF CallOfLast
  <2>6. LastCall(c)'
    BY <1>1, <1>2, <1>3, <1>4, <2>3, <2>4, <2>5 DEF AnswersInv, LastCall, Queue, serverVars
  <2>7. QED
    BY <1>5, <1>6, <2>2, <2>6 DEF AnswersInv
<1>10. CASE MakesCall(c)
  <2>1. pc'[c] = "rpc" /\ messageNum[c] \in Nat
    BY <1>10, AnswerNumbers DEF MakesCall, Calls
  <2>2. messageNum[c] < messageNum'[c]
    <3>1. pc[c] = "down" => runs[c] < 1 /\ messageNum'[c] = 1
      BY <1>10 DEF MakesCall, ServiceConditions
    <3>2. pc[c] # "down" => messageNum'[c] = messageNum[c] + 1
      BY <1>10 DEF MakesCall
    <3>3. runs[c] \in {0, 1} /\ (runs[c] < 1 => messageNum[c] = 0)
      BY DEF AllInv, ServiceInv, FirstRuns
    <3>4. QED
      BY <2>1, <3>1, <3>2, <3>3
  <2>3. \A num \in Nat : num < messageNum[c] => num # messageNum'[c] - 1
    BY <1>2, <2>1, <2>2
  <2>4. \A call : call.num \in Nat /\ call.num < messageNum[c] => CallOfLast(c, call)'
    BY <2>3 DEF CallOfLast
  <2>5. \A num \in Nat : \A resp : num < messageNum[c] => AnswerToLast(c, num, resp)'
    BY <2>3 DEF AnswerToLast
  <2>6. \A call : call = pending'[c].call => CallOfLast(c, call)'
    BY <2>1 DEF CallOfLast
  <2>7. \A i \in DOMAIN inbox'[c] : IsResponse(inbox'[c][i]) =>
          inbox'[c][i].msg.num \in Nat /\ inbox'[c][i].msg.num < messageNum[c]
    BY <1>1, <1>3, AnswerNumbers DEF AnswersInv, ResponsesInOrder
  <2>8. LastCall(c)'
    <3>1. \A j \in DOMAIN Queue' : IsCall(Queue'[j], c) => CallOfLast(c, Queue[j].msg)'
      BY <1>4, <2>4, <2>6, AnswerNumbers DEF Queue
    <3>2. pc[Srv] = "rpc" /\ job.from = c => CallOfLast(c, job.call)'
      BY <1>2, <2>4, AnswerNumbers DEF serverVars
    <3>3. \A e \in messageMap : e.from = c => AnswerToLast(c, e.num, e.message)'
      BY <1>1, <2>5, AnswerNumbers DEF AnswersInv, ResponsesExecuted
    <3>4. QED
      BY <1>2, <2>5, <2>7, <3>1, <3>2, <3>3 DEF LastCall, Queue, serverVars
  <2>9. NothingOlder(c)'
    BY <2>1 DEF NothingOlder
  <2>10. QED
    BY <1>5, <1>6, <2>8, <2>9 DEF AnswersInv
<1>11. QED
  BY <1>7, <1>8, <1>9, <1>10 DEF ClientMove, ClientKind, Leaves

-----------------------------------------------------------------------------
(* The commands of the clients, their numbers and their copies.             *)

\* What is said of a client apart from the packets.
LocalInv(c) ==
  /\ MayCall(c, lastMessage[c].callType)
  /\ MayCall(c, pending[c].call.callType)
  /\ pc[c] = "monitor" => c \in Monitoring
  /\ NumbersBounded(c)
  /\ \A f \in Files : copies[c][f] \in 0 .. files[f]

\* What a user types makes a call that the client may make.
LEMMA EnteredMayCall ==
  ASSUME BasicTypeOK, NEW c \in Clients, NEW msg \in Entered(c), LocalInv(c)
  PROVE  MayCall(c, msg.callType)
<1>1. PICK command \in Commands[c] \ {"q"} : msg \in MessagesFor(command, c)
  BY Zenon DEF Entered
<1>2. command \in {"insert", "shift", "mode", "monitor", "read", "other"}
  OBVIOUS
<1>3. CASE command = "other"
  BY <1>1, <1>3 DEF MessagesFor, LocalInv
<1>4. CASE command = "read"
  BY <1>1, <1>4 DEF MessagesFor, Message, MayCall
<1>5. CASE command = "insert"
  BY <1>1, <1>5 DEF MessagesFor, Message, MayCall
<1>6. CASE command \in {"shift", "mode"}
  BY <1>1, <1>6 DEF MessagesFor, Message, MayCall
<1>7. CASE command = "monitor"
  <2>1. msg.callType = "Monitor"
    BY <1>1, <1>7 DEF MessagesFor, Message
  <2>2. c \in Monitoring
    BY <1>1, <1>7 DEF Monitoring
  <2>3. QED
    BY <2>1, <2>2 DEF MayCall
<1>8. QED
  BY <1>2, <1>3, <1>4, <1>5, <1>6, <1>7

\* A client makes its next call.
LEMMA NextCallLocal ==
  ASSUME BasicTypeOK, NEW c \in Clients, LocalInv(c), NEW queues, NEW msg,
         SendMessage(queues, c, Srv, msg, messageNum[c], runs[c]),
         MayCall(c, msg.callType), MayCall(c, lastMessage'[c].callType),
         UNCHANGED serverVars,
         \A f \in Files : copies'[c][f] \in 0 .. files[f],
         messageNum[c] + 1 <= MaxCalls + 2,
         msg.callType = "Monitor" => messageNum[c] + 1 <= MaxCalls,
         msg.callType = "Dump" =>
           CopyOf(c, msg.strs[1])' # 0 \/ messageNum[c] + 1 <= MaxCalls,
         msg.callType = "Fresh" =>
           CopyOf(c, msg.strs[1])' # 0 /\ messageNum[c] + 1 <= MaxCalls + 1
  PROVE  LocalInv(c)'
<1>1. /\ pc'[c] = "rpc" /\ messageNum'[c] = messageNum[c] + 1
      /\ pending'[c].call.callType = msg.callType /\ pending'[c].call.strs = msg.strs
  <2>1. pc'[c] = "rpc" /\ messageNum'[c] = messageNum[c] + 1
    BY DEF SendMessage, BasicTypeOK, SenderTypeOK
  <2>2. pending'[c].call.callType = msg.callType /\ pending'[c].call.strs = msg.strs
    BY SendMessageCall
  <2>3. QED
    BY <2>1, <2>2
<1>2. HasCopy(c, Path(c))' <=> CopyOf(c, msg.strs[1])' # 0
  BY <1>1 DEF HasCopy, Path, CopyOf
<1>3. NumbersBounded(c)'
  BY <1>1, <1>2 DEF NumbersBounded
<1>4. QED
  BY <1>1, <1>3 DEF LocalInv, serverVars

\* A client makes no call, or gives its call up.
LEMMA NoCallLocal ==
  ASSUME BasicTypeOK, NEW c \in Clients, LocalInv(c),
         pending'[c] \in {pending[c], NoCall}, messageNum'[c] = messageNum[c],
         pc'[c] \in {"down", "ready", "monitor"},
         pc'[c] = "monitor" => pc[c] = "monitor" \/
                               (pc[c] = "rpc" /\ pending[c].call.callType = "Monitor"),
         MayCall(c, lastMessage'[c].callType),
         UNCHANGED serverVars,
         \A f \in Files : copies'[c][f] \in 0 .. files[f]
  PROVE  LocalInv(c)'
<1>1. MayCall(c, pending'[c].call.callType)
  BY DEF LocalInv, NoCall, Message, MayCall
<1>2. pc'[c] = "monitor" => c \in Monitoring /\ messageNum[c] <= MaxCalls
  BY DEF LocalInv, MayCall, NumbersBounded
<1>3. NumbersBounded(c)'
  BY <1>2 DEF LocalInv, NumbersBounded
<1>4. QED
  BY <1>1, <1>2, <1>3 DEF LocalInv, serverVars

\* The file a client receives is a state that its file had.
LEMMA ReceivedFile ==
  ASSUME AllInv, NEW c \in Clients, Answered(c), pending[c].call.callType = "Dump"
  PROVE  LET resp == Packet(c).msg IN
         /\ resp.callType = "Dump"
         /\ resp.strs # <<>> => Path(c) \in Files /\ resp.strs[1] \in 1 .. files[Path(c)]
<1>1. inbox[c] \in Seq(Packets) /\ inbox[c] # <<>> /\ pc[c] = "rpc"
  BY NodeTypes DEF AllInv, Answered, Arrived
<1>2. 1 \in DOMAIN inbox[c] /\ Packet(c) = inbox[c][1]
  BY <1>1, TakenQueue DEF Packet
<1>3. inbox[c][1].msg.callType = "Dump" /\ inbox[c][1].msg.num = messageNum[c] - 1
  BY <1>1, <1>2 DEF Answered, IsAnswer, AllInv, AtMostOnceInv, ClientInv, PendingIsLast
<1>4. AnswerToLast(c, inbox[c][1].msg.num, inbox[c][1].msg)
  BY <1>2, <1>3 DEF AllInv, ServiceInv, AnswersInv, LastCall, IsResponse, IsUpdate
<1>5. Answers(pending[c].call, inbox[c][1].msg)
  BY <1>1, <1>3, <1>4 DEF AnswerToLast
<1>6. QED
  BY <1>2, <1>3, <1>5 DEF Answers, Path

\* Every step of a client keeps what is said of it, and leaves the other clients
\* alone.
LEMMA ClientStepLocal ==
  ASSUME ServiceConditions, AllInv, NEW c \in Clients, UserStep(c) \/ ClientStep(c), LocalInv(c)
  PROVE  /\ LocalInv(c)'
         /\ \A d \in Clients \ {c} : lastMessage'[d] = lastMessage[d] /\ copies'[d] = copies[d]
<1> USE DEF AllInv
<1>1. /\ UNCHANGED serverVars
      /\ c \in Nodes /\ messageNum[c] \in Nat
      /\ lastMessage \in [ Clients -> Messages ]
      /\ copies \in [ Clients -> [ Files -> Files \cup Nat ] ]
      /\ files \in [ Files -> Nat ]
      /\ pc \in [ Nodes -> {"down", "ready", "rpc", "monitor"} ]
      /\ pending \in [ Nodes -> [ call : Messages, sa : Nodes, tries : 0 .. NUM_TIMEOUTS ] ]
  BY DEF UserStep, ClientStep, BasicTypeOK, SenderTypeOK, ClientTypeOK, ServerTypeOK
<1>2. /\ MayCall(c, "Start") /\ MayCall(c, "Read")
      /\ MayCall(c, "Fresh") /\ MayCall(c, "Dump")
      /\ pc[c] = "monitor" => MayCall(c, "MonitorEnd")
  BY DEF MayCall, LocalInv
<1>3. /\ MayCall(c, lastMessage[c].callType)
      /\ \A f \in Files : copies[c][f] \in 0 .. files[f]
      /\ messageNum[c] <= MaxCalls + 2
      /\ pc[c] = "monitor" => messageNum[c] <= MaxCalls
  BY DEF LocalInv, NumbersBounded
<1> DEFINE Others == \A d \in Clients \ {c} :
                       lastMessage'[d] = lastMessage[d] /\ copies'[d] = copies[d]
<1>4. ASSUME UNCHANGED clientVars
      PROVE  /\ MayCall(c, lastMessage'[c].callType) /\ Others
             /\ \A f \in Files : copies'[c][f] \in 0 .. files[f]
  BY <1>3, <1>4 DEF clientVars
<1>5. ASSUME NEW msg, lastMessage' = [ lastMessage EXCEPT ![c] = msg ], MayCall(c, msg.callType),
             UNCHANGED copies
      PROVE  /\ MayCall(c, lastMessage'[c].callType) /\ Others
             /\ \A f \in Files : copies'[c][f] \in 0 .. files[f]
  BY <1>1, <1>3, <1>5
<1>6. CASE Launch(c)
  <2>1. NoMessage.callType = "Start" /\ Message("Start", <<>>, <<>>).callType = "Start"
    BY DEF NoMessage, Message
  <2>2. /\ pc'[c] = "rpc" /\ messageNum'[c] = 1
        /\ lastMessage'[c].callType = "Start"
        /\ \A f \in Files : copies'[c][f] = 0
        /\ Others
    BY <1>1, <1>6, <2>1 DEF Launch, SendMessage, NoCopies, BasicTypeOK, SenderTypeOK
  <2>3. pending'[c].call.callType = "Start"
    BY <1>6, <2>1, SendMessageCall DEF Launch
  <2>4. NumbersBounded(c)'
    BY <2>2, <2>3 DEF NumbersBounded
  <2>5. \A f \in Files : copies'[c][f] \in 0 .. files'[f]
    BY <1>1, <2>2 DEF serverVars
  <2>6. QED
    BY <1>2, <2>2, <2>3, <2>4, <2>5 DEF LocalInv
<1>7. CASE EnterCommand(c)
  <2>1. PICK msg \in Entered(c) : SendMessage(inbox, c, Srv, msg, messageNum[c], runs[c])
    BY <1>7 DEF EnterCommand
  <2>2. MayCall(c, msg.callType) /\ msg.callType \notin {"Fresh", "Dump"}
    BY EnteredMayCall, EnteredCallType
  <2>3. messageNum[c] + 1 <= MaxCalls /\ messageNum[c] + 1 <= MaxCalls + 2 /\ UNCHANGED clientVars
    BY <1>1, <1>7 DEF EnterCommand
  <2>4. QED
    BY <1>1, <1>4, <2>1, <2>2, <2>3, NextCallLocal
<1>8. ASSUME Exit(c), UNCHANGED clientVars
      PROVE  LocalInv(c)' /\ Others
  <2>1. pc'[c] = "down" /\ pending'[c] = NoCall /\ messageNum'[c] = messageNum[c]
    BY <1>1, <1>8 DEF Exit
  <2>2. QED
    BY <1>1, <1>4, <1>8, <2>1, NoCallLocal
<1>9. CASE Quit(c) \/ ReadMalformed(c) \/ ClientGivesUp(c)
  BY <1>8, <1>9 DEF Quit, ReadMalformed, ClientGivesUp
<1>10. CASE ReadLocally(c)
  <2>1. PICK request, edition :
          lastMessage' = [ lastMessage EXCEPT ![c] = CopyRead(request, edition) ]
    BY <1>10 DEF ReadLocally
  <2>2. CopyRead(request, edition).callType = "Read"
    BY DEF CopyRead, Message
  <2>3. /\ pc'[c] = "ready" /\ pending'[c] = pending[c] /\ messageNum'[c] = messageNum[c]
        /\ UNCHANGED copies
    BY <1>10 DEF ReadLocally, senderVars
  <2>4. /\ MayCall(c, lastMessage'[c].callType) /\ Others
        /\ \A f \in Files : copies'[c][f] \in 0 .. files[f]
    BY <1>2, <1>5, <2>1, <2>2, <2>3, ZenonT(60)
  <2>5. QED
    BY <1>1, <2>3, <2>4, NoCallLocal
<1>11. CASE AskForFile(c) \/ AskWhetherFresh(c)
  <2>1. PICK request \in Requests(c), callType \in {"Fresh", "Dump"} :
          /\ StartRead(c, request) /\ Ask(c, callType, request.strs[1], inbox)
          /\ callType = "Fresh" => HasCopy(c, request.strs[1])
    <3>1. CASE AskForFile(c)
      BY <3>1 DEF AskForFile
    <3>2. CASE AskWhetherFresh(c)
      BY <3>2 DEF AskWhetherFresh
    <3>3. QED
      BY <1>11, <3>1, <3>2
  <2> DEFINE msg == Message(callType, <<>>, <<request.strs[1]>>)
  <2>2. msg.callType = callType /\ msg.strs[1] = request.strs[1]
    BY DEF Message
  <2>3. /\ lastMessage' = [ lastMessage EXCEPT ![c] = request ] /\ request.callType = "Read"
        /\ messageNum[c] < MaxCalls /\ UNCHANGED copies
    BY <2>1 DEF StartRead, Requests
  <2>4. /\ MayCall(c, lastMessage'[c].callType) /\ Others
        /\ \A f \in Files : copies'[c][f] \in 0 .. files[f]
    BY <1>2, <1>5, <2>3
  <2>5. callType = "Fresh" => CopyOf(c, request.strs[1])' # 0
    BY <2>1, <2>3 DEF HasCopy, CopyOf
  <2>6. MayCall(c, callType)
    BY <1>2
  <2>7. SendMessage(inbox, c, Srv, msg, messageNum[c], runs[c])
    BY <2>1 DEF Ask
  <2>8. LocalInv(c)'
    <3> HIDE DEF msg
    <3>1. messageNum[c] + 1 <= MaxCalls + 2 /\ messageNum[c] + 1 <= MaxCalls
          /\ messageNum[c] + 1 <= MaxCalls + 1
      BY <1>1, <2>3
    <3>2. msg.callType = "Fresh" => CopyOf(c, request.strs[1])' # 0
      BY <2>2, <2>5
    <3>3. QED
      BY <1>1, <2>2, <2>4, <2>6, <2>7, <3>1, <3>2, NextCallLocal
  <2>9. QED
    BY <2>4, <2>8
<1>12. CASE ReceiveResponse(c)
  <2> DEFINE resp == Packet(c).msg
  <2>1. resp \in Messages /\ resp.callType = pending[c].call.callType /\ pc[c] = "rpc"
    BY <1>1, <1>12, ConsumedType DEF ReceiveResponse, Answered, IsAnswer, BasicTypeOK
  <2>2. AfterResponse(resp) \in {"down", "ready", "monitor"}
        /\ (AfterResponse(resp) = "monitor" => resp.callType = "Monitor")
    BY DEF AfterResponse, Garbage, Good
  <2>3. MayCall(c, Numbered(resp, 0, 0).callType)
    <3>1. Numbered(resp, 0, 0).callType = resp.callType
      BY <2>1, NumberedType
    <3>2. QED
      BY <2>1, <3>1 DEF LocalInv
  <2>4. /\ pc'[c] = AfterResponse(resp) /\ pending'[c] = NoCall
        /\ lastMessage' = [ lastMessage EXCEPT ![c] = Numbered(resp, 0, 0) ]
        /\ UNCHANGED <<messageNum, copies>>
    BY <1>1, <1>12 DEF ReceiveResponse
  <2>5. /\ MayCall(c, lastMessage'[c].callType) /\ Others
        /\ \A f \in Files : copies'[c][f] \in 0 .. files[f]
    BY <1>5, <2>3, <2>4
  <2>6. QED
    BY <1>1, <2>1, <2>2, <2>4, <2>5, NoCallLocal
<1>13. CASE ReceiveEndResponse(c)
  <2>1. pc'[c] = "ready" /\ pending'[c] = NoCall /\ UNCHANGED <<messageNum, clientVars>>
    BY <1>1, <1>13 DEF ReceiveEndResponse
  <2>2. QED
    BY <1>1, <1>4, <2>1, NoCallLocal
<1>14. ASSUME StoreCopy(c)
       PROVE  /\ \A f \in Files : copies'[c][f] \in 0 .. files[f]
              /\ CopyOf(c, Path(c)) \in Files \cup Nat
              /\ Path(c) \in Files /\ copies'[c][Path(c)] # 0
              /\ \A d \in Clients \ {c} : copies'[d] = copies[d]
              /\ pc[c] = "rpc" /\ pending[c].call.callType = "Dump"
  <2>1. /\ Answered(c) /\ pending[c].call.callType = "Dump" /\ ~Fails(Packet(c).msg)
        /\ copies' = [ copies EXCEPT ![c][Path(c)] = Packet(c).msg.strs[1] ]
    BY <1>14 DEF StoreCopy, ReceiveForCache
  <2>2. Path(c) \in Files /\ Packet(c).msg.strs[1] \in 1 .. files[Path(c)]
    BY <2>1, ReceivedFile DEF Fails
  <2>3. /\ \A f \in Files : copies'[c][f] \in 0 .. files[f]
        /\ copies'[c][Path(c)] # 0
        /\ \A d \in Clients \ {c} : copies'[d] = copies[d]
    BY <1>1, <1>3, <2>1, <2>2
  <2>4. QED
    BY <2>1, <2>2, <2>3, CopyOfType DEF Answered
<1>15. CASE ReceiveNoFile(c) \/ ReceiveFile(c) \/ ReceiveUnmodified(c)
  <2>1. PICK resp : FinishRead(c, resp) /\ resp.callType = "Read"
    BY <1>15 DEF ReceiveNoFile, ReceiveFile, ReceiveUnmodified, CopyRead, FileMissing, Message
  <2>2. /\ pc'[c] = "ready" /\ pending'[c] = NoCall /\ UNCHANGED messageNum
        /\ lastMessage' = [ lastMessage EXCEPT ![c] = resp ]
    BY <1>1, <2>1 DEF FinishRead
  <2>3. /\ \A f \in Files : copies'[c][f] \in 0 .. files[f]
        /\ \A d \in Clients \ {c} : copies'[d] = copies[d]
    BY <1>3, <1>14, <1>15 DEF ReceiveNoFile, ReceiveFile, ReceiveUnmodified
  <2>4. MayCall(c, lastMessage'[c].callType) /\ Others
    BY <1>1, <1>2, <2>1, <2>2, <2>3
  <2>5. QED
    BY <1>1, <2>2, <2>3, <2>4, NoCallLocal
<1>16. CASE ReceiveFileAndAsk(c)
  <2>1. PICK msg : msg = Message("Fresh", <<>>, <<Path(c)>>)
    OBVIOUS
  <2>2. msg.callType = "Fresh" /\ msg.strs[1] = Path(c)
    BY <2>1 DEF Message
  <2>3. SendMessage(Consumed(c), c, Srv, msg, messageNum[c], runs[c])
        /\ UNCHANGED lastMessage /\ StoreCopy(c) /\ ~HasCopy(c, Path(c))
    BY <1>16, <2>1 DEF ReceiveFileAndAsk, Ask
  <2>4. messageNum[c] <= MaxCalls
    BY <1>14, <2>3 DEF LocalInv, NumbersBounded
  <2>5. CopyOf(c, msg.strs[1])' # 0
    BY <1>14, <2>2, <2>3 DEF CopyOf
  <2>6. messageNum[c] + 1 <= MaxCalls + 2 /\ messageNum[c] + 1 <= MaxCalls + 1
    BY <1>1, <2>4
  <2>7. MayCall(c, lastMessage'[c].callType)
    BY <1>3, <2>3
  <2>8. LocalInv(c)'
    <3>1. /\ SendMessage(Consumed(c), c, Srv, msg, messageNum[c], runs[c])
          /\ \A f \in Files : copies'[c][f] \in 0 .. files[f]
          /\ MayCall(c, msg.callType)
          /\ msg.callType # "Monitor" /\ msg.callType # "Dump"
      BY <1>2, <1>14, <2>2, <2>3
    <3>2. QED
      BY <1>1, <2>5, <2>6, <2>7, <3>1, NextCallLocal
  <2>9. QED
    BY <1>14, <2>3, <2>8
<1>17. CASE ReceiveModified(c)
  <2> DEFINE msg == Message("Dump", <<>>, <<Path(c)>>)
  <2>1. msg.callType = "Dump" /\ msg.strs[1] = Path(c)
    BY DEF Message
  <2>2. /\ SendMessage(Consumed(c), c, Srv, msg, messageNum[c], runs[c])
        /\ UNCHANGED <<lastMessage, copies>>
        /\ pc[c] = "rpc" /\ pending[c].call.callType = "Fresh"
    BY <1>17 DEF ReceiveModified, Ask, ReceiveForCache, Answered
  <2>3. messageNum[c] <= MaxCalls + 1 /\ HasCopy(c, Path(c))
    BY <2>2 DEF LocalInv, NumbersBounded
  <2>4. \A path : path = Path(c) => CopyOf(c, path)' # 0
    BY <2>2, <2>3 DEF CopyOf, HasCopy
  <2>5. LocalInv(c)'
    <3> HIDE DEF msg
    <3>1. messageNum[c] + 1 <= MaxCalls + 2
      BY <1>1, <2>3
    <3>2. QED
      BY <1>1, <1>2, <1>3, <2>1, <2>2, <2>4, <3>1, NextCallLocal
  <2>6. QED
    BY <2>2, <2>5
<1>18. CASE ShowUpdate(c) \/ SurviveMissingContent(c) \/ CrashOnMissingContent(c) \/ IgnoreDuplicate(c)
  <2>1. /\ pc[c] = "monitor" /\ UNCHANGED <<messageNum, lastMessage, copies, pending>>
        /\ pc'[c] \in {"down", "monitor"}
    BY <1>1, <1>18 DEF ShowUpdate, SurviveMissingContent, CrashOnMissingContent, LacksContent,
       IgnoreDuplicate, TakePacket
  <2>2. QED
    BY <1>1, <1>3, <2>1, NoCallLocal
<1>19. CASE EndMonitoring(c)
  <2>1. Message("MonitorEnd", <<>>, <<>>).callType = "MonitorEnd"
    BY DEF Message
  <2>2. messageNum[c] + 1 <= MaxCalls + 2 /\ UNCHANGED clientVars /\ pc[c] = "monitor"
    BY <1>1, <1>3, <1>19 DEF EndMonitoring
  <2>3. SendMessage(inbox, c, Srv, Message("MonitorEnd", <<>>, <<>>), messageNum[c], runs[c])
    BY <1>19 DEF EndMonitoring
  <2>4. QED
    BY <1>1, <1>2, <1>4, <2>1, <2>2, <2>3, NextCallLocal
<1>20. CASE ClientDiscards(c) \/ ClientRetransmits(c)
  <2>1. /\ pending'[c].call = pending[c].call
        /\ UNCHANGED <<pc, messageNum, clientVars>>
    BY <1>1, <1>20 DEF ClientDiscards, ClientRetransmits, DiscardImproper, Retransmit
  <2>2. HasCopy(c, Path(c))' <=> HasCopy(c, Path(c))
    BY <2>1 DEF HasCopy, Path, CopyOf, clientVars
  <2>3. NumbersBounded(c)'
    BY <2>1, <2>2 DEF LocalInv, NumbersBounded
  <2>4. QED
    BY <1>1, <1>4, <2>1, <2>3 DEF LocalInv, serverVars
<1>21. QED
  BY <1>6, <1>7, <1>9, <1>10, <1>11, <1>12, <1>13, <1>15, <1>16, <1>17, <1>18, <1>19, <1>20
     DEF UserStep, ClientStep

\* What the invariant says of a client by itself, before the step.
LEMMA LocalNow ==
  ASSUME AllInv, NEW c \in Clients
  PROVE  LocalInv(c)
BY DEF AllInv, ServiceInv, CallsInv, CallsOfClient, LocalInv, CopiesOfOwnFile

\* Clients hear from the server and call nobody else.
LEMMA ClientStepServerOnly ==
  ASSUME ServiceConditions, AllInv, BasicTypeOK', NEW c \in Clients, ClientMove(c), NEW d \in Clients
  PROVE  ServerOnly(d)'
<1>1. ServerOnly(d)
  BY DEF AllInv, ServiceInv, CallsInv
<1>2. CASE d # c
  <2>1. pending'[d] = pending[d] /\ inbox'[d] = inbox[d]
    BY <1>2, CallsAfter DEF OthersKept, ClientMove, ClientKind
  <2>2. QED
    BY <1>1, <2>1 DEF ServerOnly
<1>3. CASE d = c
  <2>1. \A i \in DOMAIN inbox'[c] : inbox'[c][i].from = Srv
    BY <1>1, <1>3, PacketsAfter DEF ServerOnly
  <2>2. Arrived(c) => Packet(c).from = Srv
    <3>1. ASSUME Arrived(c)
          PROVE  Packet(c).from = Srv
      <4>1. inbox[c] \in Seq(Packets) /\ inbox[c] # <<>>
        BY <3>1, NodeTypes DEF AllInv, Arrived
      <4>2. 1 \in DOMAIN inbox[c] /\ Packet(c) = inbox[c][1]
        BY <4>1, TakenQueue DEF Packet
      <4>3. QED
        BY <1>1, <1>3, <4>2 DEF ServerOnly
    <3>2. QED
      BY <3>1
  <2>3. pending'[c].sa = Srv
    <3>1. NoCall.sa = Srv
      BY DEF NoCall
    <3>2. QED
      BY <1>1, <1>3, <2>2, <3>1 DEF ServerOnly, ClientMove, ClientKind, Leaves, Returns,
         TakesUpdate, Idles, MakesCall, WaitsOn, senderVars
  <2>4. QED
    BY <1>3, <2>1, <2>3 DEF ServerOnly
<1>4. QED
  BY <1>2, <1>3

\* What is said of the commands and the numbers of the clients.
LEMMA ClientStepCalls ==
  ASSUME ServiceConditions, AllInv, BasicTypeOK', NEW c \in Clients, ClientMove(c),
         UserStep(c) \/ ClientStep(c)
  PROVE  /\ \A d \in Clients : CallsInv(d)'
         /\ CopiesOfOwnFile'
<1>1. /\ LocalInv(c)'
      /\ \A d \in Clients \ {c} : lastMessage'[d] = lastMessage[d] /\ copies'[d] = copies[d]
  BY LocalNow, ClientStepLocal
<1>2. /\ OthersKept(c) /\ UNCHANGED serverVars
      /\ \A d \in Clients, j \in DOMAIN Queue' : IsCall(Queue'[j], d) =>
           \/ j \in DOMAIN Queue /\ Queue'[j] = Queue[j]
           \/ d = c /\ pc'[c] = "rpc" /\ Queue'[j].msg = pending'[c].call
  BY CallsAfter DEF OthersKept
<1>3. \A d \in Clients \ {c} :
        pc'[d] = pc[d] /\ pending'[d] = pending[d] /\ messageNum'[d] = messageNum[d]
  BY <1>2 DEF OthersKept
<1>4. CopiesOfOwnFile'
  BY <1>1, <1>2 DEF CopiesOfOwnFile, LocalInv, AllInv, ServiceInv, serverVars
<1>5. ASSUME NEW d \in Clients
      PROVE  CallsInv(d)'
  <2>1. CallsInv(d)
    BY DEF AllInv, ServiceInv
  <2>2. \A i \in DOMAIN inbox'[Srv] :
          inbox'[Srv][i].from = d /\ ~IsUpdate(inbox'[Srv][i].msg)
            => MayCall(d, inbox'[Srv][i].msg.callType)
    <3>1. ASSUME NEW i \in DOMAIN Queue', IsCall(Queue'[i], d)
          PROVE  MayCall(d, Queue'[i].msg.callType)
      <4>1. CASE i \in DOMAIN Queue /\ Queue'[i] = Queue[i]
        BY <2>1, <3>1, <4>1 DEF CallsInv, CallsOfClient, Queue, IsCall, IsUpdate
      <4>2. CASE d = c /\ Queue'[i].msg = pending'[c].call
        BY <1>1, <4>2 DEF LocalInv
      <4>3. QED
        BY <1>2, <3>1, <4>1, <4>2
    <3>2. QED
      BY <3>1 DEF Queue, IsCall, IsUpdate
  <2>3. CallsOfClient(d)' /\ NumbersBounded(d)'
    <3>1. CASE d = c
      BY <1>1, <2>2, <3>1 DEF LocalInv, CallsOfClient
    <3>2. CASE d # c
      <4>1. HasCopy(d, Path(d))' <=> HasCopy(d, Path(d))
        BY <1>1, <1>3, <3>2 DEF HasCopy, CopyOf, Path
      <4>2. NumbersBounded(d)'
        BY <1>3, <2>1, <3>2, <4>1 DEF CallsInv, NumbersBounded
      <4>3. CallsOfClient(d)'
        BY <1>1, <1>3, <2>1, <2>2, <3>2 DEF CallsInv, CallsOfClient
      <4>4. QED
        BY <4>2, <4>3
    <3>3. QED
      BY <3>1, <3>2
  <2>4. QED
    BY <2>3, ClientStepServerOnly DEF CallsInv
<1>6. QED
  BY <1>4, <1>5

\* Every process still runs its first time.
LEMMA ClientStepRuns ==
  ASSUME ServiceConditions, AllInv, BasicTypeOK', AtMostOnceInv', NEW c \in Clients, ClientMove(c)
  PROVE  FirstRuns'
<1>1. FirstRuns
  BY DEF AllInv, ServiceInv
<1>2. /\ OthersKept(c) /\ UNCHANGED serverVars
      /\ pc'[c] = "rpc" => pending'[c].call.run = runs'[c]
      /\ \A d \in Clients, j \in DOMAIN Queue' : IsCall(Queue'[j], d) =>
           \/ j \in DOMAIN Queue /\ Queue'[j] = Queue[j]
           \/ d = c /\ pc'[c] = "rpc" /\ Queue'[j].msg = pending'[c].call
  BY CallsAfter DEF OthersKept
<1>3. \A n \in Nodes \ {c} : pc'[n] = pc[n] /\ runs'[n] = runs[n] /\ messageNum'[n] = messageNum[n]
  BY <1>2 DEF OthersKept
<1>4. /\ runs'[c] = IF messageNum'[c] = 0 THEN 0 ELSE 1
      /\ pc'[c] # "down" => runs'[c] = 1
  <2>1. CASE MakesCall(c)
    <3>1. messageNum[c] \in Nat
      BY AnswerNumbers
    <3>2. CASE pc[c] = "down"
      BY <1>1, <2>1, <3>1, <3>2 DEF MakesCall, ServiceConditions, FirstRuns
    <3>3. CASE pc[c] # "down"
      <4>1. runs'[c] = runs[c] /\ messageNum'[c] = messageNum[c] + 1
        BY <2>1, <3>3 DEF MakesCall
      <4>2. QED
        BY <1>1, <3>1, <3>3, <4>1 DEF FirstRuns
    <3>4. QED
      BY <3>2, <3>3
  <2>2. CASE Leaves(c) \/ Returns(c) \/ TakesUpdate(c) \/ Idles(c) \/ WaitsOn(c)
    <3>1. messageNum'[c] = messageNum[c] /\ runs'[c] = runs[c]
          /\ (pc'[c] # "down" => pc[c] # "down")
      BY <2>2 DEF Leaves, Returns, Answered, TakesUpdate, Idles, WaitsOn, Waits, senderVars
    <3>2. QED
      BY <1>1, <3>1 DEF FirstRuns
  <2>3. QED
    BY <2>1, <2>2 DEF ClientMove, ClientKind
<1>5. ASSUME NEW i \in DOMAIN Queue', ~IsUpdate(Queue'[i].msg)
      PROVE  Queue'[i].msg.run = 1
  <2>1. PICK d \in Clients : IsCall(Queue'[i], d)
    BY <1>5 DEF AtMostOnceInv, FromClients, IsCall, IsUpdate, Queue
  <2>2. CASE i \in DOMAIN Queue /\ Queue'[i] = Queue[i]
    BY <1>1, <1>5, <2>2 DEF FirstRuns, Queue
  <2>3. CASE pc'[c] = "rpc" /\ Queue'[i].msg = pending'[c].call
    BY <1>2, <1>4, <2>3
  <2>4. QED
    BY <1>2, <2>1, <2>2, <2>3
<1>6. QED
  BY <1>1, <1>2, <1>3, <1>4, <1>5 DEF FirstRuns, Queue, serverVars

\* A client that acknowledges an update acknowledges the one the server waits for,
\* for the first time.
LEMMA AcknowledgedUpdate ==
  ASSUME ServiceConditions, AllInv, NEW c \in Clients, TakesUpdate(c),
         Packet(c).msg.num > prevPacketNumber[c], IsUpdate(Packet(c).msg)
  PROVE  /\ c \in Monitoring /\ messageNum[c] # 0
         /\ pc[Srv] # "down" =>
              /\ pc[Srv] = "rpc"
              /\ prevPacketNumber[c] = messageNum[Srv] - 2
              /\ Packet(c).msg.num = messageNum[Srv] - 1
         /\ \A i \in DOMAIN Queue : ~IsUpdate(Queue[i].msg)
<1> DEFINE num == Packet(c).msg.num
<1>1. pc[c] = "monitor" /\ Arrived(c)
  BY DEF TakesUpdate
<1>2. /\ c \in Monitoring /\ num < messageNum[Srv] /\ num \in Nat
  BY <1>1, MonitorHead DEF Messages
<1>3. AcksInTime(c) /\ FirstRuns
  BY <1>2 DEF AllInv, ServiceInv, UpdatesInv
<1>4. /\ messageNum[Srv] \in Nat /\ pc[Srv] \in {"down", "ready", "rpc", "monitor"}
      /\ prevPacketNumber[c] \in Int
  BY NodeTypes DEF AllInv, BasicTypeOK, SenderTypeOK, ClientTypeOK
<1>5. pc[Srv] # "down" =>
        /\ pc[Srv] = "rpc" /\ prevPacketNumber[c] = messageNum[Srv] - 2 /\ num = messageNum[Srv] - 1
  <2>1. pc[Srv] # "ready"
    BY <1>2, <1>3, <1>4 DEF AcksInTime
  <2>2. pc[Srv] # "monitor"
    BY <1>3 DEF FirstRuns
  <2>3. pc[Srv] = "rpc" => prevPacketNumber[c] \in {messageNum[Srv] - 2, messageNum[Srv] - 1}
    BY <1>3 DEF AcksInTime
  <2>4. QED
    BY <1>2, <1>4, <2>1, <2>2, <2>3
<1>6. messageNum[c] # 0
  BY <1>2, <1>3, <1>4 DEF AcksInTime
<1>7. ASSUME NEW i \in DOMAIN Queue, IsUpdate(Queue[i].msg)
      PROVE  FALSE
  <2>1. pc[Srv] = "rpc" /\ prevPacketNumber[c] = messageNum[Srv] - 1
    BY <1>3, <1>7 DEF AcksInTime, Queue
  <2>2. QED
    BY <1>4, <1>5, <2>1
<1>8. QED
  BY <1>2, <1>5, <1>6, <1>7

\* The acknowledgements that are queued after the step of a client.
LEMMA ClientStepUpdates ==
  ASSUME ServiceConditions, AllInv, BasicTypeOK', NEW c \in Clients, ClientMove(c), LocalInv(c)'
  PROVE  UpdatesInv' /\ JobUnderWay'
<1>1. /\ OthersKept(c) /\ UNCHANGED serverVars
      /\ \A n \in Nodes \ {c} :
           pc'[n] = pc[n] /\ pending'[n] = pending[n] /\ messageNum'[n] = messageNum[n]
      /\ messageNum'[c] \in Nat /\ messageNum[c] \in Nat /\ messageNum[c] <= messageNum'[c]
      /\ Srv \in Nodes \ {c}
  BY CallsAfter, AnswerNumbers DEF OthersKept
<1>2. UpdatesInv /\ Queue \in Seq(Packets)
  BY NumbersType DEF AllInv, ServiceInv
<1>3. JobUnderWay' /\ ServerCalls'
  BY <1>1, <1>2 DEF AllInv, ServiceInv, UpdatesInv, ServerCalls, JobUnderWay, serverVars,
     WasExecuted
<1> SUFFICES UpdatesInv'
  BY <1>3
<1>4. ASSUME NEW w \in Monitoring, NEW i \in DOMAIN inbox'[w]
      PROVE  \E k \in DOMAIN inbox[w] : inbox'[w][i] = inbox[w][k]
  <2>1. CASE w = c
    BY <1>4, <2>1, PacketsAfter
  <2>2. CASE w # c
    BY <1>4, <2>2 DEF ClientMove, ClientKind, Monitoring
  <2>3. QED
    BY <2>1, <2>2
<1>5. ASSUME NEW w \in Monitoring
      PROVE  /\ \A i \in DOMAIN inbox'[w] : IsUpdate(inbox'[w][i].msg) =>
                  inbox'[w][i].msg.num < messageNum[Srv] /\ Len(inbox'[w][i].msg.strs) = 2
             /\ messageNum'[w] = 0 => messageNum[w] = 0
  <2>1. messageNum'[w] = 0 => messageNum[w] = 0
    BY <1>1 DEF Monitoring
  <2>2. QED
    BY <1>2, <1>4, <2>1 DEF UpdatesInv, AcksInTime
<1>6. ASSUME \A i \in DOMAIN Queue' :
               IsUpdate(Queue'[i].msg) => i \in DOMAIN Queue /\ Queue'[i] = Queue[i],
             \A w \in Monitoring : prevPacketNumber'[w] = prevPacketNumber[w]
      PROVE  UpdatesInv'
  <2>1. AcksOfMonitoring'
    BY <1>2, <1>6 DEF UpdatesInv, AcksOfMonitoring, Queue
  <2>2. ASSUME NEW w \in Monitoring
        PROVE  AcksInTime(w)'
    <3>1. \A i \in DOMAIN Queue' : IsUpdate(Queue'[i].msg) =>
            /\ pc[Srv] = "rpc"
            /\ prevPacketNumber[w] = messageNum[Srv] - 1
            /\ Queue'[i].msg.num = messageNum[Srv] - 1
            /\ \A j \in DOMAIN Queue' : IsUpdate(Queue'[j].msg) => i = j
      BY <1>2, <1>6 DEF UpdatesInv, AcksInTime, Queue
    <3>2. /\ messageNum[w] = 0 =>
               messageNum[Srv] = 0 /\ monitors = <<>> /\ prevPacketNumber[w] = -1
          /\ pc[Srv] = "ready" => prevPacketNumber[w] = messageNum[Srv] - 1
          /\ pc[Srv] = "rpc" =>
               prevPacketNumber[w] \in {messageNum[Srv] - 2, messageNum[Srv] - 1}
      BY <1>2 DEF UpdatesInv, AcksInTime
    <3>3. QED
      BY <1>1, <1>5, <1>6, <3>1, <3>2 DEF AcksInTime, Queue, serverVars
  <2>3. QED
    BY <1>3, <2>1, <2>2 DEF UpdatesInv
<1>7. ASSUME \A d \in Clients : prevPacketNumber'[d] = prevPacketNumber[d],
             \E msg : Sends(c, msg) /\ ~IsUpdate(msg)
      PROVE  UpdatesInv'
  <2>1. PICK msg : Sends(c, msg) /\ ~IsUpdate(msg)
    BY <1>7
  <2>2. PICK p : p = [ from |-> c, msg |-> msg ]
    OBVIOUS
  <2>3. Queue' = Queue \/ Queue' = Append(Queue, p)
    BY <2>1, <2>2 DEF Sends
  <2>4. \A i \in DOMAIN Queue' : (i \in DOMAIN Queue /\ Queue'[i] = Queue[i]) \/ Queue'[i] = p
    BY <1>2, <2>3, GrownQueue
  <2>5. QED
    BY <1>6, <1>7, <2>1, <2>2, <2>4 DEF Monitoring
<1>8. ASSUME Queue' = Queue, \A w \in Monitoring : prevPacketNumber'[w] = prevPacketNumber[w]
      PROVE  UpdatesInv'
  BY <1>6, <1>8
<1>9. CASE Leaves(c) \/ Returns(c) \/ Idles(c)
  BY <1>8, <1>9 DEF Leaves, Returns, Idles, senderVars, Queue
<1>10. CASE WaitsOn(c)
  <2>1. ~IsUpdate(pending[c].call)
    BY LocalNow DEF LocalInv, MayCall, IsUpdate
  <2>2. CASE Queue' = Queue
    BY <1>8, <1>10, <2>2 DEF WaitsOn
  <2>3. CASE Queue' # Queue
    BY <1>7, <1>10, <2>1, <2>3 DEF WaitsOn, Waits
  <2>4. QED
    BY <2>2, <2>3
<1>11. CASE MakesCall(c)
  <2>1. ~IsUpdate(pending'[c].call) /\ Sends(c, pending'[c].call)
    BY <1>11 DEF LocalInv, MayCall, IsUpdate, MakesCall, Calls
  <2>2. ASSUME NEW w \in Clients, w \in Monitoring
        PROVE  prevPacketNumber'[w] = prevPacketNumber[w]
    <3>1. CASE w = c /\ pc[c] = "down"
      <4>1. messageNum[c] = 0
        BY <1>11, <3>1 DEF MakesCall, ServiceConditions, AllInv, ServiceInv, FirstRuns
      <4>2. QED
        BY <1>2, <1>11, <2>2, <3>1, <4>1 DEF UpdatesInv, AcksInTime, MakesCall
    <3>2. QED
      BY <1>11, <3>1 DEF MakesCall
  <2>3. PICK p : p = [ from |-> c, msg |-> pending'[c].call ]
    OBVIOUS
  <2>4. Queue' = Queue \/ Queue' = Append(Queue, p)
    BY <2>1, <2>3 DEF Sends
  <2>5. \A i \in DOMAIN Queue' : (i \in DOMAIN Queue /\ Queue'[i] = Queue[i]) \/ Queue'[i] = p
    BY <1>2, <2>4, GrownQueue
  <2>6. QED
    BY <1>6, <2>1, <2>2, <2>3, <2>5 DEF Monitoring
<1>12. CASE TakesUpdate(c) /\ Queue' = Queue /\ prevPacketNumber'[c] = prevPacketNumber[c]
  BY <1>8, <1>12 DEF TakesUpdate, Monitoring
<1>13. ASSUME TakesUpdate(c), IsUpdate(Packet(c).msg), Packet(c).msg.num > prevPacketNumber[c],
              prevPacketNumber'[c] = Packet(c).msg.num,
              NEW msg \in Messages, msg.callType = "MonitorUpdate", msg.num = Packet(c).msg.num,
              Sends(c, msg)
       PROVE  UpdatesInv'
  <2>1. /\ c \in Monitoring /\ messageNum[c] # 0
        /\ pc[Srv] # "down" =>
             /\ pc[Srv] = "rpc"
             /\ prevPacketNumber[c] = messageNum[Srv] - 2
             /\ Packet(c).msg.num = messageNum[Srv] - 1
        /\ \A i \in DOMAIN Queue : ~IsUpdate(Queue[i].msg)
    BY <1>13, AcknowledgedUpdate
  <2>2. PICK p : p = [ from |-> c, msg |-> msg ]
    OBVIOUS
  <2>3. /\ Queue' = Queue \/ Queue' = Append(Queue, p)
        /\ pc[Srv] = "down" => Queue' = Queue
    BY <1>13, <2>2 DEF Sends
  <2>4. /\ \A i \in DOMAIN Queue' : (i \in DOMAIN Queue /\ Queue'[i] = Queue[i]) \/ Queue'[i] = p
        /\ \A i, j \in DOMAIN Queue' : i < j => i \in DOMAIN Queue /\ Queue'[i] = Queue[i]
    BY <1>2, <2>3, GrownQueue, SMTT(40)
  <2>5. \A i \in DOMAIN Queue' : IsUpdate(Queue'[i].msg) => Queue'[i] = p /\ pc[Srv] # "down"
    BY <2>1, <2>3, <2>4
  <2>6. \A i, j \in DOMAIN Queue' : IsUpdate(Queue'[i].msg) /\ IsUpdate(Queue'[j].msg) => i = j
    <3>1. \A i, j \in DOMAIN Queue' : i < j => ~IsUpdate(Queue'[i].msg)
      BY <2>1, <2>4
    <3>2. DOMAIN Queue' \subseteq Nat
      <4>1. Queue' \in Seq(Packets)
        BY DEF BasicTypeOK, SenderTypeOK, Queue
      <4>2. QED
        BY <4>1
    <3>3. QED
      BY <3>1, <3>2
  <2>7. AcksOfMonitoring'
    BY <2>1, <2>2, <2>5 DEF AcksOfMonitoring, Queue
  <2>8. AcksInTime(c)'
    <3>1. pc[Srv] # "ready"
      BY <2>1
    <3>2. pc[Srv] = "rpc" => prevPacketNumber'[c] = messageNum[Srv] - 1
      BY <1>13, <2>1
    <3>3. \A i \in DOMAIN Queue' : IsUpdate(Queue'[i].msg) =>
            /\ pc[Srv] = "rpc"
            /\ prevPacketNumber'[c] = messageNum[Srv] - 1
            /\ Queue'[i].msg.num = messageNum[Srv] - 1
            /\ \A j \in DOMAIN Queue' : IsUpdate(Queue'[j].msg) => i = j
      BY <1>13, <2>1, <2>2, <2>5, <2>6
    <3>4. messageNum'[c] # 0
      BY <1>13, <2>1 DEF TakesUpdate
    <3>5. QED
      BY <1>1, <1>5, <2>1, <3>1, <3>2, <3>3, <3>4 DEF AcksInTime, Queue
  <2>9. \A w \in Monitoring : w = c
    BY <2>1 DEF ServiceConditions
  <2>10. \A w \in Monitoring : AcksInTime(w)'
    BY <2>8, <2>9
  <2>11. QED
    BY <1>3, <2>7, <2>10 DEF UpdatesInv
<1>14. CASE TakesUpdate(c)
  BY <1>12, <1>13, <1>14 DEF TakesUpdate
<1>15. QED
  BY <1>9, <1>10, <1>11, <1>14 DEF ClientMove, ClientKind

\* Every step of a client keeps the invariant.
LEMMA ClientStepService ==
  ASSUME ServiceConditions, AllInv, BasicTypeOK', AtMostOnceInv', NEW c \in Clients,
         UserStep(c) \/ ClientStep(c)
  PROVE  ServiceInv'
<1>1. ClientMove(c)
  BY ClientKinds, ClientMoves DEF ClientMove, AllInv
<1>2. LocalInv(c)'
  BY LocalNow, ClientStepLocal
<1>3. FirstRuns' /\ UpdatesInv' /\ JobUnderWay' /\ CopiesOfOwnFile'
  BY <1>1, <1>2, ClientStepRuns, ClientStepUpdates, ClientStepCalls
<1>4. \A d \in Clients : CallsInv(d)' /\ AnswersInv(d)'
  BY <1>1, ClientStepCalls, OwnAnswersInv, OtherAnswersInv
<1>5. QED
  BY <1>3, <1>4 DEF ServiceInv

-----------------------------------------------------------------------------
(* The steps of the server.                                                 *)

\* What all of them have in common: the clients stay where they are, and neither
\* a file nor the history goes back.
ServerKeeps ==
  /\ UNCHANGED clientVars
  /\ ServerMoves
  /\ runs'[Srv] = runs[Srv]
  /\ pc'[Srv] # "monitor"
  /\ executed \subseteq executed'
  /\ \A e \in executed' : e \in executed \/ (e[1] = 1 /\ e[3] = 1)
  /\ \A f \in Files : files[f] <= files'[f]

\* At most one packet goes out.
SendsTo(to, msg) ==
  /\ \A d \in Clients \ {to} : inbox'[d] = inbox[d]
  /\ inbox'[to] = inbox[to] \/ inbox'[to] = Append(inbox[to], [ from |-> Srv, msg |-> msg ])

\* What the clients may expect of an answer to the call num of c.
GoodAnswer(c, num, resp) ==
  /\ ~IsUpdate(resp)
  /\ resp.callType # "Start" => WasExecuted(c, num)'
  /\ AnswerToLast(c, num, resp)'

\* It answers a call it has served, or the one whose updates have all gone out.
Replies(c, call, resp) ==
  /\ call \in Messages /\ resp \in Messages
  /\ Takes
  /\ \/ Serving /\ c = Caller /\ call = Request
     \/ Answered(Srv) /\ c = job.from /\ call = job.call
  /\ pc'[Srv] = "ready"
  /\ messageNum'[Srv] = messageNum[Srv]
  /\ SendsTo(c, Numbered(resp, call.num, call.run))
  /\ messageMap' \subseteq messageMap \cup {[ from |-> c, num |-> call.num, message |-> resp ]}
  /\ monitors' = <<>> \/ monitors # <<>> \/ call.callType = "Monitor"
  /\ GoodAnswer(c, call.num, resp)
  /\ GoodAnswer(c, call.num, Numbered(resp, call.num, call.run))

\* It makes a call of its own, or repeats it.
Notifies(c, msg) ==
  /\ SendsTo(c, msg)
  /\ IsUpdate(msg) /\ Len(msg.strs) = 2 /\ msg.num = messageNum'[Srv] - 1
  /\ pc'[Srv] = "rpc" /\ pending'[Srv].call = msg
  /\ UNCHANGED <<messageMap, monitors>>
  /\ \/ /\ Serving /\ Takes
        /\ messageNum'[Srv] = messageNum[Srv] + 1
        /\ monitors # <<>>
        /\ Request.callType \in {"Insert", "Shift"}
        /\ <<1, Caller, 1, Request.num>> \in executed'
        /\ job'.from = Caller /\ job'.call = Request
     \/ /\ Answered(Srv) /\ Takes
        /\ messageNum'[Srv] = messageNum[Srv] + 1
        /\ job'.from = job.from /\ job'.call = job.call
     \/ /\ pc[Srv] = "rpc" /\ Queue' = Queue
        /\ messageNum'[Srv] = messageNum[Srv]
        /\ job'.from = job.from /\ job'.call = job.call

\* It drops a packet, or it ends.
Drops ==
  /\ \A d \in Clients : inbox'[d] = inbox[d]
  /\ UNCHANGED serverVars
  /\ messageNum'[Srv] = messageNum[Srv]
  /\ \/ pc'[Srv] = "down" /\ Queue' = <<>>
     \/ /\ pc[Srv] = "rpc" /\ pc'[Srv] = "rpc" /\ Takes
        /\ pending'[Srv].call = pending[Srv].call

ServerKind ==
  /\ ServerKeeps
  /\ \/ \E c \in Clients : \E call, resp : Replies(c, call, resp)
     \/ \E c \in Clients : \E msg : Notifies(c, msg)
     \/ Drops

\* The server writes to one client.
LEMMA ServerWritesTo ==
  ASSUME BasicTypeOK, NEW to \in Clients, NEW msg, NEW queues \in {inbox, Consumed(Srv)},
         Transmit(queues, Srv, to, msg)
  PROVE  SendsTo(to, msg)
<1>1. inbox \in [ Nodes -> Seq(Packets) ] /\ to # Srv /\ to \in Nodes /\ Srv \in Nodes
  BY DEF BasicTypeOK, SenderTypeOK
<1>2. /\ \A d \in Clients : queues[d] = inbox[d] /\ d # Srv /\ d \in Nodes
      /\ queues = [ n \in Nodes |-> queues[n] ]
  BY <1>1 DEF Consumed
<1>3. inbox' = queues \/ inbox' = Delivered(queues, Srv, to, msg)
  BY DEF Transmit
<1>4. QED
  BY <1>1, <1>2, <1>3 DEF Delivered, SendsTo

\* When the server is in its loop, no acknowledgement is left in its queue, and
\* what it handles is a call.
LEMMA ServedCall ==
  ASSUME AllInv, Serving
  PROVE  /\ Caller \in Clients /\ Request \in Messages /\ Request.num \in Nat
         /\ Request.run = 1 /\ runs[Srv] = 1
         /\ ~IsUpdate(Request)
         /\ \A i \in DOMAIN Queue : ~IsUpdate(Queue[i].msg)
         /\ 1 \in DOMAIN Queue /\ Queue[1].msg = Request /\ IsCall(Queue[1], Caller)
         /\ MayCall(Caller, Request.callType)
<1>1. Caller \in Clients /\ Request \in Messages /\ Request.num \in Nat
  BY HeadCall, RequestType DEF AllInv
<1>2. Queue \in Seq(Packets) /\ Queue # <<>> /\ pc[Srv] = "ready"
  BY NumbersType DEF Serving, Arrived, Queue, AllInv
<1>3. 1 \in DOMAIN Queue /\ Caller = Queue[1].from /\ Request = Queue[1].msg
  BY <1>2, TakenQueue DEF Caller, Request, Packet, Queue
<1>4. ASSUME NEW i \in DOMAIN Queue, IsUpdate(Queue[i].msg)
      PROVE  FALSE
  <2>1. Queue[i].from \in Monitoring
    BY <1>4 DEF AllInv, ServiceInv, UpdatesInv, AcksOfMonitoring, Queue
  <2>2. AcksInTime(Queue[i].from)
    BY <2>1 DEF AllInv, ServiceInv, UpdatesInv
  <2>3. pc[Srv] = "rpc"
    BY <1>4, <2>2 DEF AcksInTime, Queue
  <2>4. QED
    BY <1>2, <2>3
<1>5. ~IsUpdate(Request)
  BY <1>3, <1>4
<1>6. Request.run = 1 /\ runs[Srv] = 1
  BY <1>3, <1>5 DEF AllInv, ServiceInv, FirstRuns, Queue
<1>7. IsCall(Queue[1], Caller)
  BY <1>3, <1>5 DEF IsCall, IsUpdate
<1>8. MayCall(Caller, Request.callType)
  BY <1>1, <1>3, <1>5 DEF AllInv, ServiceInv, CallsInv, CallsOfClient, Queue
<1>9. QED
  BY <1>1, <1>3, <1>4, <1>5, <1>6, <1>7, <1>8

\* Nothing that c has sent or is to receive is in disorder with an answer to num.
Current(c, num) ==
  /\ num \in Nat /\ num < messageNum[c]
  /\ \A i \in DOMAIN inbox[c] : IsResponse(inbox[c][i]) => inbox[c][i].msg.num <= num
  /\ \A j \in DOMAIN Queue' : IsCall(Queue'[j], c) => num <= Queue'[j].msg.num
  /\ pc[c] \in {"ready", "monitor"} => num = messageNum[c] - 1

\* The call the server serves is the oldest of its client.
LEMMA ServedIsCurrent ==
  ASSUME AllInv, Serving, Takes, NEW c, NEW call, c = Caller, call = Request
  PROVE  Current(c, call.num) /\ CallOfLast(c, call)
<1>1. /\ c \in Clients /\ call.num \in Nat
      /\ 1 \in DOMAIN Queue /\ Queue[1].msg = call /\ IsCall(Queue[1], c)
      /\ call.run = 1 /\ call.callType # "MonitorUpdate"
  BY ServedCall DEF IsUpdate
<1>2. AnswersInv(c)
  BY <1>1 DEF AllInv, ServiceInv
<1>3. call.num < messageNum[c]
  BY <1>1, AnswerNumbers DEF Queue
<1>4. \A i \in DOMAIN inbox[c] : IsResponse(inbox[c][i]) => inbox[c][i].msg.num <= call.num
  BY <1>1, <1>2 DEF AnswersInv, ResponsesInOrder, Queue
<1>5. ASSUME NEW j \in DOMAIN Queue', IsCall(Queue'[j], c)
      PROVE  call.num <= Queue'[j].msg.num
  <2>1. j + 1 \in DOMAIN Queue /\ Queue'[j] = Queue[j + 1]
    BY HeadCall DEF Takes, AllInv
  <2>2. NotAfter(call.run, call.num, Queue'[j].msg.run, Queue'[j].msg.num)
    BY <1>1, <1>5, HeadCall DEF Takes, AllInv
  <2>3. Queue'[j].msg.run = 1 /\ Queue'[j].msg.num \in Nat
    BY <1>5, <2>1, NumbersType DEF IsCall, IsUpdate, AllInv, ServiceInv, FirstRuns, Queue
  <2>4. QED
    BY <1>1, <2>2, <2>3 DEF NotAfter
<1>6. pc[c] \in {"ready", "monitor"} => call.num = messageNum[c] - 1
  BY <1>1, <1>2 DEF AnswersInv, NothingOlder, Queue
<1>7. CallOfLast(c, call)
  BY <1>1, <1>2 DEF AnswersInv, LastCall, Queue
<1>8. QED
  BY <1>1, <1>3, <1>4, <1>5, <1>6, <1>7 DEF Current

\* So is the call whose updates are going out.
LEMMA JobIsCurrent ==
  ASSUME AllInv, pc[Srv] = "rpc", Takes, NEW c, NEW call, c = job.from, call = job.call
  PROVE  Current(c, call.num) /\ CallOfLast(c, call) /\ c \in Clients
<1>1. c \in Clients
  BY DEF AllInv, AtMostOnceInv, FromClients
<1>2. AnswersInv(c)
  BY <1>1 DEF AllInv, ServiceInv
<1>3. call.num \in Nat /\ call.num < messageNum[c]
  BY <1>1, AnswerNumbers
<1>4. \A j \in DOMAIN Queue' : j + 1 \in DOMAIN Queue /\ Queue'[j] = Queue[j + 1]
  BY NumbersType, TakenQueue DEF Takes, AllInv
<1>5. \A j \in DOMAIN Queue' : IsCall(Queue'[j], c) => call.num <= Queue'[j].msg.num
  BY <1>2, <1>4 DEF AnswersInv, ResponsesInOrder, Queue
<1>6. \A i \in DOMAIN inbox[c] : IsResponse(inbox[c][i]) => inbox[c][i].msg.num <= call.num
  BY <1>2 DEF AnswersInv, ResponsesInOrder
<1>7. pc[c] \in {"ready", "monitor"} => call.num = messageNum[c] - 1
  BY <1>2 DEF AnswersInv, NothingOlder
<1>8. CallOfLast(c, call)
  BY <1>2 DEF AnswersInv, LastCall
<1>9. QED
  BY <1>1, <1>3, <1>5, <1>6, <1>7, <1>8 DEF Current

\* What answers a call, answers the last call of the client if this has its number.
LEMMA AnswerIsGood ==
  ASSUME NEW c, NEW call, NEW resp, CallOfLast(c, call),
         pc'[c] = pc[c], pending'[c] = pending[c], messageNum'[c] = messageNum[c],
         Answers(call, resp)', ~IsUpdate(call),
         call.callType # "Start" => WasExecuted(c, call.num)'
  PROVE  GoodAnswer(c, call.num, resp)
<1>1. resp.callType = call.callType /\ (call.callType = "Monitor" => resp.strs = <<>>)
  BY DEF Answers
<1>2. AnswerToLast(c, call.num, resp)'
  BY <1>1 DEF AnswerToLast, CallOfLast
<1>3. QED
  BY <1>1, <1>2 DEF GoodAnswer, IsUpdate

\* What a client may expect after a step of the server that sends it p or nothing.
LEMMA ServerAnswers ==
  ASSUME AllInv, BasicTypeOK', ServerKeeps, NEW c \in Clients, NEW p \in Packets,
         \/ inbox'[c] = inbox[c]
         \/ /\ inbox'[c] = Append(inbox[c], p)
            /\ ~IsUpdate(p.msg) => /\ pc'[Srv] # "rpc" /\ Current(c, p.msg.num)
                                   /\ GoodAnswer(c, p.msg.num, p.msg),
         \A e \in messageMap' : e.from = c =>
           e \in messageMap \/ (Current(c, e.num) /\ GoodAnswer(c, e.num, e.message)),
         pc'[Srv] = "rpc" /\ job'.from = c =>
           \/ pc[Srv] = "rpc" /\ job.from = c /\ job'.call = job.call
           \/ Current(c, job'.call.num) /\ CallOfLast(c, job'.call)
  PROVE  AnswersInv(c)'
<1>1. AnswersInv(c)
  BY DEF AllInv, ServiceInv
<1>2. /\ pc'[c] = pc[c] /\ pending'[c] = pending[c] /\ messageNum'[c] = messageNum[c]
      /\ messageNum[c] \in Nat
  BY AnswerNumbers DEF ServerKeeps, ServerMoves
<1>3. PICK k \in {0, 1} : \A i \in DOMAIN Queue' :
        i \in Nat /\ i + k \in DOMAIN Queue /\ Queue'[i] = Queue[i + k]
  <2>1. /\ Queue \in Seq(Packets)
        /\ Queue' = Queue \/ (Queue # <<>> /\ Queue' = Tail(Queue)) \/ Queue' = <<>>
    BY NumbersType DEF AllInv, ServerKeeps, ServerMoves, Takes
  <2>2. QED
    BY <2>1, ShrunkQueue
<1>4. /\ \A i \in DOMAIN inbox'[c] :
           \/ i \in DOMAIN inbox[c] /\ inbox'[c][i] = inbox[c][i]
           \/ inbox'[c][i] = p /\ inbox'[c] = Append(inbox[c], p)
      /\ \A i, j \in DOMAIN inbox'[c] : i < j => i \in DOMAIN inbox[c] /\ inbox'[c][i] = inbox[c][i]
  <2>1. inbox[c] \in Seq(Packets)
    BY NodeTypes DEF AllInv
  <2>2. CASE inbox'[c] = inbox[c]
    BY <2>1, <2>2, GrownQueue
  <2>3. CASE inbox'[c] = Append(inbox[c], p)
    BY <2>1, <2>3, GrownQueue
  <2>4. QED
    BY <2>2, <2>3
<1>5. ASSUME NEW num, NEW resp, AnswerToLast(c, num, resp)
      PROVE  AnswerToLast(c, num, resp)'
  <2>1. ASSUME NEW call, Answers(call, resp)
        PROVE  Answers(call, resp)'
    <3>1. \A f \in Files : files[f] \in Nat /\ files'[f] \in Nat /\ files[f] <= files'[f]
      BY DEF AllInv, BasicTypeOK, ServerTypeOK, ServerKeeps
    <3>2. \A f \in Files : 1 .. files[f] \subseteq 1 .. files'[f]
      BY <3>1
    <3>3. QED
      BY <2>1, <3>2 DEF Answers
  <2>2. QED
    BY <1>2, <1>5, <2>1 DEF AnswerToLast
<1>6. \A call : CallOfLast(c, call) => CallOfLast(c, call)'
  BY <1>2 DEF CallOfLast
<1>7. \A num : WasExecuted(c, num) => WasExecuted(c, num)'
  BY DEF WasExecuted, ServerKeeps
<1>8. ASSUME NEW i \in DOMAIN inbox'[c], IsResponse(inbox'[c][i])
      PROVE  \/ i \in DOMAIN inbox[c] /\ inbox'[c][i] = inbox[c][i]
             \/ /\ inbox'[c][i] = p /\ pc'[Srv] # "rpc" /\ Current(c, p.msg.num)
                /\ GoodAnswer(c, p.msg.num, p.msg)
  BY <1>4, <1>8 DEF IsResponse
<1>9. ResponsesExecuted(c)'
  <2>1. ASSUME NEW e \in messageMap', e.from = c
        PROVE  /\ e.num < messageNum'[c] /\ ~IsUpdate(e.message)
               /\ e.message.callType # "Start" => WasExecuted(c, e.num)'
    <3>1. CASE e \in messageMap
      BY <1>1, <1>2, <1>7, <2>1, <3>1 DEF AnswersInv, ResponsesExecuted
    <3>2. CASE Current(c, e.num) /\ GoodAnswer(c, e.num, e.message)
      BY <1>2, <3>2 DEF Current, GoodAnswer
    <3>3. QED
      BY <2>1, <3>1, <3>2
  <2>2. ASSUME NEW i \in DOMAIN inbox'[c], IsResponse(inbox'[c][i]),
               inbox'[c][i].msg.callType # "Start",
               NEW num, num = inbox'[c][i].msg.num
        PROVE  WasExecuted(c, num)'
    BY <1>1, <1>7, <1>8, <2>2 DEF AnswersInv, ResponsesExecuted, GoodAnswer
  <2>3. QED
    BY <2>1, <2>2 DEF ResponsesExecuted, WasExecuted
<1>10. ASSUME NEW i \in DOMAIN inbox'[c], IsResponse(inbox'[c][i])
       PROVE  /\ inbox'[c][i].msg.num < messageNum'[c]
              /\ \A j \in DOMAIN Queue' : IsCall(Queue'[j], c) =>
                   inbox'[c][i].msg.num <= Queue'[j].msg.num
              /\ pc'[Srv] = "rpc" /\ job'.from = c => inbox'[c][i].msg.num <= job'.call.num
              /\ pc[c] \in {"ready", "monitor"} => inbox'[c][i].msg.num = messageNum[c] - 1
  <2>1. CASE i \in DOMAIN inbox[c] /\ inbox'[c][i] = inbox[c][i]
    <3>1. inbox[c][i].msg.num < messageNum[c]
      BY <1>1, <1>10, <2>1 DEF AnswersInv, ResponsesInOrder
    <3>2. \A j \in DOMAIN Queue' : IsCall(Queue'[j], c) =>
            inbox[c][i].msg.num <= Queue'[j].msg.num
      BY <1>1, <1>3, <1>10, <2>1 DEF AnswersInv, ResponsesInOrder, Queue
    <3>3. pc'[Srv] = "rpc" /\ job'.from = c => inbox[c][i].msg.num <= job'.call.num
      BY <1>1, <1>10, <2>1 DEF AnswersInv, ResponsesInOrder, Current
    <3>4. pc[c] \in {"ready", "monitor"} => inbox[c][i].msg.num = messageNum[c] - 1
      BY <1>1, <1>10, <2>1 DEF AnswersInv, NothingOlder
    <3>5. QED
      BY <1>2, <2>1, <3>1, <3>2, <3>3, <3>4
  <2>2. CASE inbox'[c][i] = p /\ pc'[Srv] # "rpc" /\ Current(c, p.msg.num)
    BY <1>2, <2>2 DEF Current
  <2>3. QED
    BY <1>8, <1>10, <2>1, <2>2
<1>11. ASSUME NEW i \in DOMAIN inbox'[c], NEW j \in DOMAIN inbox'[c], i < j,
              IsResponse(inbox'[c][i]), IsResponse(inbox'[c][j])
       PROVE  inbox'[c][i].msg.num <= inbox'[c][j].msg.num
  <2>1. i \in DOMAIN inbox[c] /\ inbox'[c][i] = inbox[c][i]
    BY <1>4, <1>11
  <2>2. CASE j \in DOMAIN inbox[c] /\ inbox'[c][j] = inbox[c][j]
    BY <1>1, <1>11, <2>1, <2>2 DEF AnswersInv, ResponsesInOrder
  <2>3. CASE inbox'[c][j] = p /\ Current(c, p.msg.num)
    BY <1>11, <2>1, <2>3 DEF Current
  <2>4. QED
    BY <1>8, <1>11, <2>2, <2>3
<1>12. pc'[Srv] = "rpc" /\ job'.from = c =>
         /\ \A j \in DOMAIN Queue' : IsCall(Queue'[j], c) => job'.call.num <= Queue'[j].msg.num
         /\ pc[c] \in {"ready", "monitor"} => job'.call.num = messageNum[c] - 1
  <2>1. ASSUME pc[Srv] = "rpc", job.from = c, job'.call = job.call
        PROVE  /\ \A j \in DOMAIN Queue' :
                    IsCall(Queue'[j], c) => job'.call.num <= Queue'[j].msg.num
               /\ pc[c] \in {"ready", "monitor"} => job'.call.num = messageNum[c] - 1
    BY <1>1, <1>3, <2>1 DEF AnswersInv, ResponsesInOrder, NothingOlder, Queue
  <2>2. QED
    BY <2>1 DEF Current
<1>13. ResponsesInOrder(c)'
  BY <1>10, <1>11, <1>12 DEF ResponsesInOrder, Queue
<1>14. NothingOlder(c)'
  <2>1. pc[c] \in {"ready", "monitor"} =>
          \A j \in DOMAIN Queue' : IsCall(Queue'[j], c) => Queue'[j].msg.num = messageNum[c] - 1
    BY <1>1, <1>3 DEF AnswersInv, NothingOlder, Queue
  <2>2. QED
    BY <1>2, <1>10, <1>12, <2>1 DEF NothingOlder, Queue
<1>15. LastCall(c)'
  <2>1. \A j \in DOMAIN Queue' : IsCall(Queue'[j], c) => CallOfLast(c, Queue[j].msg)'
    <3>1. ASSUME NEW j \in DOMAIN Queue', IsCall(Queue'[j], c), NEW call, call = Queue'[j].msg
          PROVE  CallOfLast(c, call)'
      BY <1>1, <1>3, <1>6, <3>1 DEF AnswersInv, LastCall, Queue
    <3>2. QED
      BY <3>1
  <2>2. ASSUME pc'[Srv] = "rpc", job'.from = c, NEW call, call = job'.call
        PROVE  CallOfLast(c, call)'
    BY <1>1, <1>6, <2>2 DEF AnswersInv, LastCall
  <2>3. ASSUME NEW i \in DOMAIN inbox'[c], IsResponse(inbox'[c][i]),
               NEW msg, msg = inbox'[c][i].msg
        PROVE  AnswerToLast(c, msg.num, msg)'
    <3>1. PICK num : num = msg.num
      OBVIOUS
    <3>2. AnswerToLast(c, num, msg)'
      <4>1. CASE i \in DOMAIN inbox[c] /\ inbox'[c][i] = inbox[c][i]
        BY <1>1, <1>5, <2>3, <3>1, <4>1 DEF AnswersInv, LastCall
      <4>2. CASE msg = p.msg /\ GoodAnswer(c, p.msg.num, p.msg)
        BY <3>1, <4>2 DEF GoodAnswer
      <4>3. QED
        BY <1>8, <2>3, <4>1, <4>2
    <3>3. QED
      BY <3>1, <3>2
  <2>4. ASSUME NEW e \in messageMap', e.from = c
        PROVE  AnswerToLast(c, e.num, e.message)'
    <3>1. CASE e \in messageMap
      BY <1>1, <1>5, <2>4, <3>1 DEF AnswersInv, LastCall
    <3>2. CASE GoodAnswer(c, e.num, e.message)
      BY <3>2 DEF GoodAnswer
    <3>3. QED
      BY <2>4, <3>1, <3>2
  <2>5. QED
    BY <2>1, <2>2, <2>3, <2>4 DEF LastCall, Queue
<1>16. QED
  BY <1>9, <1>13, <1>14, <1>15 DEF AnswersInv

\* The packets of a client after a step of the server, and what is left in the
\* server's queue.
LEMMA ServerPackets ==
  ASSUME AllInv, ServerKind
  PROVE  /\ \A d \in Clients : \E msg :
              inbox'[d] = inbox[d] \/ inbox'[d] = Append(inbox[d], [ from |-> Srv, msg |-> msg ])
         /\ \E k \in {0, 1} : \A i \in DOMAIN Queue' :
              i \in Nat /\ i + k \in DOMAIN Queue /\ Queue'[i] = Queue[i + k]
<1>1. ASSUME NEW d \in Clients
      PROVE  \E msg : \/ inbox'[d] = inbox[d]
                      \/ inbox'[d] = Append(inbox[d], [ from |-> Srv, msg |-> msg ])
  <2>1. ASSUME NEW c \in Clients, NEW msg, SendsTo(c, msg)
        PROVE  \E m : \/ inbox'[d] = inbox[d]
                      \/ inbox'[d] = Append(inbox[d], [ from |-> Srv, msg |-> m ])
    BY <2>1 DEF SendsTo
  <2>2. QED
    BY <2>1 DEF ServerKind, Replies, Notifies, Drops
<1>2. /\ Queue \in Seq(Packets)
      /\ Queue' = Queue \/ (Queue # <<>> /\ Queue' = Tail(Queue)) \/ Queue' = <<>>
  BY NumbersType DEF AllInv, ServerKind, ServerKeeps, ServerMoves, Takes
<1>3. QED
  BY <1>1, <1>2, ShrunkQueue

\* What is said of the clients' calls, copies and runs.
LEMMA ServerKindCalls ==
  ASSUME AllInv, BasicTypeOK', ServerKind
  PROVE  FirstRuns' /\ CopiesOfOwnFile' /\ \A d \in Clients : CallsInv(d)'
<1>1. /\ ServerKeeps
      /\ \A d \in Clients : /\ pc'[d] = pc[d] /\ pending'[d] = pending[d]
                            /\ runs'[d] = runs[d] /\ messageNum'[d] = messageNum[d]
  BY DEF ServerKind, ServerKeeps, ServerMoves
<1>2. PICK k \in {0, 1} : \A i \in DOMAIN Queue' :
        i \in Nat /\ i + k \in DOMAIN Queue /\ Queue'[i] = Queue[i + k]
  BY ServerPackets
<1>3. FirstRuns'
  <2>1. FirstRuns
    BY DEF AllInv, ServiceInv
  <2>2. \A i \in DOMAIN Queue' : ~IsUpdate(Queue'[i].msg) => Queue'[i].msg.run = 1
    BY <1>2, <2>1 DEF FirstRuns, Queue
  <2>3. runs'[Srv] = 1 /\ pc'[Srv] # "monitor" /\ \A e \in executed' : e[1] = 1 /\ e[3] = 1
    BY <1>1, <2>1 DEF ServerKeeps, FirstRuns
  <2>4. QED
    BY <1>1, <2>1, <2>2, <2>3 DEF FirstRuns, Queue
<1>4. CopiesOfOwnFile'
  <2>1. ASSUME NEW c \in Clients, NEW f \in Files
        PROVE  copies'[c][f] \in 0 .. files'[f]
    <3>1. copies'[c][f] \in 0 .. files[f]
      BY <1>1 DEF AllInv, ServiceInv, CopiesOfOwnFile, ServerKeeps, clientVars
    <3>2. files[f] \in Nat /\ files'[f] \in Nat /\ files[f] <= files'[f]
      BY <1>1 DEF AllInv, BasicTypeOK, ServerTypeOK, ServerKeeps
    <3>3. QED
      BY <3>1, <3>2
  <2>2. QED
    BY <2>1 DEF CopiesOfOwnFile
<1>5. ASSUME NEW d \in Clients
      PROVE  CallsInv(d)'
  <2>1. CallsInv(d) /\ UNCHANGED clientVars
    BY <1>1 DEF AllInv, ServiceInv, ServerKeeps
  <2>2. ServerOnly(d)'
    <3>1. PICK msg : \/ inbox'[d] = inbox[d]
                     \/ inbox'[d] = Append(inbox[d], [ from |-> Srv, msg |-> msg ])
      BY ServerPackets
    <3>2. PICK p : p = [ from |-> Srv, msg |-> msg ]
      OBVIOUS
    <3>3. inbox[d] \in Seq(Packets) /\ (inbox'[d] = inbox[d] \/ inbox'[d] = Append(inbox[d], p))
      BY <3>1, <3>2, NodeTypes DEF AllInv
    <3>4. \A i \in DOMAIN inbox'[d] :
            (i \in DOMAIN inbox[d] /\ inbox'[d][i] = inbox[d][i]) \/ inbox'[d][i] = p
      BY <3>3, GrownQueue
    <3>5. QED
      BY <1>1, <2>1, <3>2, <3>4 DEF CallsInv, ServerOnly
  <2>3. CallsOfClient(d)'
    <3>1. \A i \in DOMAIN Queue' :
            Queue'[i].from = d /\ ~IsUpdate(Queue'[i].msg) => MayCall(d, Queue'[i].msg.callType)
      BY <1>2, <2>1 DEF CallsInv, CallsOfClient, Queue
    <3>2. QED
      BY <1>1, <2>1, <3>1 DEF CallsInv, CallsOfClient, Queue, clientVars
  <2>4. NumbersBounded(d)'
    <3>1. HasCopy(d, Path(d))' <=> HasCopy(d, Path(d))
      BY <1>1, <2>1 DEF HasCopy, CopyOf, Path, clientVars
    <3>2. QED
      BY <1>1, <2>1, <3>1 DEF CallsInv, NumbersBounded
  <2>5. QED
    BY <2>2, <2>3, <2>4 DEF CallsInv
<1>6. QED
  BY <1>3, <1>4, <1>5

\* What the server sends is a packet.
LEMMA PacketType ==
  ASSUME NEW msg \in Messages, NEW p, p = [ from |-> Srv, msg |-> msg ]
  PROVE  p \in Packets
BY DEF Packets

\* An answer with the number of its call is a packet of this number.
LEMMA ReplyType ==
  ASSUME NEW call \in Messages, NEW resp \in Messages,
         NEW p, p = [ from |-> Srv, msg |-> Numbered(resp, call.num, call.run) ]
  PROVE  p \in Packets /\ p.msg = Numbered(resp, call.num, call.run) /\ p.msg.num = call.num
<1>1. call.num \in Nat /\ call.run \in Nat
  BY DEF Messages
<1>2. Numbered(resp, call.num, call.run) \in Messages
      /\ Numbered(resp, call.num, call.run).num = call.num
  BY <1>1 DEF Numbered, Messages
<1>3. QED
  BY <1>2, PacketType

\* What the clients may expect.
LEMMA ServerKindAnswers ==
  ASSUME AllInv, BasicTypeOK', ServerKind, NEW c \in Clients
  PROVE  AnswersInv(c)'
<1>1. ServerKeeps
  BY DEF ServerKind
<1>2. CASE Drops
  <2>1. PICK p : p = [ from |-> Srv, msg |-> NoCall.call ]
    OBVIOUS
  <2>2. p \in Packets
    BY <2>1, NoCallType, PacketType
  <2>3. /\ inbox'[c] = inbox[c] /\ messageMap' = messageMap
        /\ pc'[Srv] = "rpc" => pc[Srv] = "rpc" /\ job'.from = job.from /\ job'.call = job.call
    BY <1>2 DEF Drops, serverVars
  <2>4. QED
    BY <1>1, <2>2, <2>3, ServerAnswers
<1>3. ASSUME NEW d \in Clients, NEW msg, Notifies(d, msg)
      PROVE  AnswersInv(c)'
  <2>1. msg \in Messages
    BY <1>3 DEF Notifies, BasicTypeOK, SenderTypeOK
  <2>2. PICK p : p = [ from |-> Srv, msg |-> msg ]
    OBVIOUS
  <2>3. /\ p \in Packets
        /\ inbox'[c] = inbox[c] \/ inbox'[c] = Append(inbox[c], p)
        /\ IsUpdate(p.msg) /\ messageMap' = messageMap
    BY <1>3, <2>1, <2>2, PacketType DEF Notifies, SendsTo
  <2>4. PICK call : call = job'.call
    OBVIOUS
  <2>5. pc'[Srv] = "rpc" /\ job'.from = c =>
          \/ pc[Srv] = "rpc" /\ job.from = c /\ job'.call = job.call
          \/ Current(c, call.num) /\ CallOfLast(c, call)
    BY <1>3, <2>4, ServedIsCurrent DEF Notifies, Answered
  <2>6. QED
    BY <1>1, <2>2, <2>3, <2>4, <2>5, ServerAnswers
<1>4. ASSUME NEW d \in Clients, NEW call, NEW resp, Replies(d, call, resp)
      PROVE  AnswersInv(c)'
  <2>1. call \in Messages /\ resp \in Messages /\ call.num \in Nat /\ call.run \in Nat
    BY <1>4 DEF Replies, Messages
  <2>2. PICK p : p = [ from |-> Srv, msg |-> Numbered(resp, call.num, call.run) ]
    OBVIOUS
  <2>3. /\ p \in Packets /\ p.msg = Numbered(resp, call.num, call.run) /\ p.msg.num = call.num
        /\ inbox'[c] = inbox[c] \/ (c = d /\ inbox'[c] = Append(inbox[c], p))
    <3>1. p \in Packets /\ p.msg = Numbered(resp, call.num, call.run) /\ p.msg.num = call.num
      BY <2>1, <2>2, ReplyType
    <3>2. SendsTo(d, p.msg)
      BY <1>4, <2>2 DEF Replies
    <3>3. QED
      BY <2>2, <3>1, <3>2 DEF SendsTo
  <2>4. Current(d, call.num) /\ GoodAnswer(d, call.num, resp) /\ GoodAnswer(d, call.num, p.msg)
        /\ pc'[Srv] # "rpc"
    BY <1>4, <2>3, ServedIsCurrent, JobIsCurrent DEF Replies, Answered
  <2>5. \A e \in messageMap' : e.from = c =>
          e \in messageMap \/ (Current(c, e.num) /\ GoodAnswer(c, e.num, e.message))
    <3>1. ASSUME NEW e \in messageMap', e.from = c, e \notin messageMap
          PROVE  Current(c, e.num) /\ GoodAnswer(c, e.num, e.message)
      <4>1. e = [ from |-> d, num |-> call.num, message |-> resp ]
        BY <1>4, <3>1 DEF Replies
      <4>2. c = d /\ e.num = call.num /\ e.message = resp
        BY <3>1, <4>1
      <4>3. QED
        BY <2>4, <4>2
    <3>2. QED
      BY <3>1
  <2>6. QED
    BY <1>1, <2>3, <2>4, <2>5, ServerAnswers
<1>5. QED
  BY <1>2, <1>3, <1>4 DEF ServerKind

\* An acknowledgement that is answered is the only one, and belongs to the last
\* update.
LEMMA AnsweredUpdate ==
  ASSUME AllInv, Answered(Srv), Takes
  PROVE  /\ pc[Srv] = "rpc"
         /\ \A w \in Monitoring : prevPacketNumber[w] = messageNum[Srv] - 1
         /\ \A i \in DOMAIN Queue' : ~IsUpdate(Queue'[i].msg)
<1>1. pc[Srv] = "rpc" /\ UpdatesInv
  BY DEF Answered, AllInv, ServiceInv
<1>2. /\ 1 \in DOMAIN Queue /\ Packet(Srv) = Queue[1]
      /\ \A i \in DOMAIN Queue' :
           i \in Nat /\ 1 < i + 1 /\ i + 1 \in DOMAIN Queue /\ Queue'[i] = Queue[i + 1]
  BY NumbersType, TakenQueue DEF Takes, Packet, Queue, AllInv
<1>3. IsUpdate(Queue[1].msg)
  BY <1>1, <1>2 DEF Answered, IsAnswer, IsUpdate, UpdatesInv, ServerCalls
<1>4. \A w \in Monitoring : prevPacketNumber[w] = messageNum[Srv] - 1
  BY <1>1, <1>2, <1>3 DEF UpdatesInv, AcksInTime, Queue
<1>5. ASSUME NEW i \in DOMAIN Queue', IsUpdate(Queue'[i].msg)
      PROVE  FALSE
  <2>1. Queue[1].from \in Monitoring
    BY <1>1, <1>2, <1>3 DEF UpdatesInv, AcksOfMonitoring, Queue
  <2>2. AcksInTime(Queue[1].from)
    BY <1>1, <2>1 DEF UpdatesInv
  <2>3. 1 = i + 1
    BY <1>2, <1>3, <1>5, <2>2 DEF AcksInTime, Queue
  <2>4. QED
    BY <1>2, <2>3
<1>6. QED
  BY <1>1, <1>4, <1>5

\* The updates and their acknowledgements.
LEMMA ServerKindUpdates ==
  ASSUME ServiceConditions, AllInv, BasicTypeOK', ServerKind
  PROVE  UpdatesInv' /\ JobUnderWay'
<1>1. /\ ServerKeeps /\ UpdatesInv /\ JobUnderWay
      /\ \A w \in Monitoring : prevPacketNumber'[w] = prevPacketNumber[w]
                               /\ messageNum'[w] = messageNum[w] /\ messageNum[w] \in Nat
      /\ messageNum[Srv] \in Nat
  BY AnswerNumbers, NodeTypes DEF ServerKind, ServerKeeps, ServerMoves, clientVars, AllInv, ServiceInv,
     Monitoring
<1>2. PICK k \in {0, 1} : \A i \in DOMAIN Queue' :
        i \in Nat /\ i + k \in DOMAIN Queue /\ Queue'[i] = Queue[i + k]
  BY ServerPackets
<1>3. AcksOfMonitoring'
  BY <1>1, <1>2 DEF UpdatesInv, AcksOfMonitoring, Queue
<1>4. \A num : WasExecuted(job.from, num) => <<1, job.from, 1, num>> \in executed'
  BY <1>1 DEF WasExecuted, ServerKeeps
\* Old updates in the queues of the clients, and the one that is sent.
<1>5. ASSUME NEW d \in Clients, NEW msg, SendsTo(d, msg), messageNum[Srv] <= messageNum'[Srv],
             messageNum'[Srv] \in Nat,
             IsUpdate(msg) => msg.num < messageNum'[Srv] /\ Len(msg.strs) = 2,
             NEW w \in Monitoring, NEW i \in DOMAIN inbox'[w], IsUpdate(inbox'[w][i].msg)
      PROVE  inbox'[w][i].msg.num < messageNum'[Srv] /\ Len(inbox'[w][i].msg.strs) = 2
  <2>1. PICK p : p = [ from |-> Srv, msg |-> msg ]
    OBVIOUS
  <2>2. inbox[w] \in Seq(Packets) /\ (inbox'[w] = inbox[w] \/ inbox'[w] = Append(inbox[w], p))
    BY <1>5, <2>1, NodeTypes DEF SendsTo, Monitoring, AllInv
  <2>3. (i \in DOMAIN inbox[w] /\ inbox'[w][i] = inbox[w][i]) \/ inbox'[w][i] = p
    BY <1>5, <2>2, GrownQueue, SMTT(40)
  <2>4. CASE i \in DOMAIN inbox[w] /\ inbox'[w][i] = inbox[w][i]
    <3>1. inbox[w][i].msg.num < messageNum[Srv] /\ Len(inbox[w][i].msg.strs) = 2
      BY <1>1, <1>5, <2>4 DEF UpdatesInv, AcksInTime
    <3>2. inbox[w][i].msg.num \in Nat
      BY <2>4, NodeTypes DEF Monitoring, AllInv
    <3>3. QED
      BY <1>1, <1>5, <2>4, <3>1, <3>2
  <2>5. QED
    BY <1>5, <2>1, <2>3, <2>4
<1>6. CASE Drops
  <2>1. /\ messageNum'[Srv] = messageNum[Srv] /\ UNCHANGED serverVars
        /\ \A w \in Monitoring : inbox'[w] = inbox[w]
        /\ pc'[Srv] = "down" \/ (pc[Srv] = "rpc" /\ pc'[Srv] = "rpc")
        /\ pc'[Srv] = "down" => Queue' = <<>>
        /\ pc'[Srv] = "rpc" => pending'[Srv].call = pending[Srv].call
    BY <1>6 DEF Drops, Monitoring
  <2>2. JobUnderWay'
    BY <1>1, <2>1 DEF JobUnderWay, serverVars, WasExecuted
  <2>3. ServerCalls'
    BY <1>1, <2>1 DEF UpdatesInv, ServerCalls
  <2>4. ASSUME NEW w \in Monitoring
        PROVE  AcksInTime(w)'
    <3>1. AcksInTime(w)
      BY <1>1 DEF UpdatesInv
    <3>2. \A i \in DOMAIN Queue' : IsUpdate(Queue'[i].msg) =>
            /\ pc'[Srv] = "rpc"
            /\ prevPacketNumber[w] = messageNum[Srv] - 1
            /\ Queue'[i].msg.num = messageNum[Srv] - 1
            /\ \A j \in DOMAIN Queue' : IsUpdate(Queue'[j].msg) => i = j
      <4>1. CASE pc'[Srv] = "down"
        BY <2>1, <4>1
      <4>2. ASSUME pc'[Srv] = "rpc", NEW i \in DOMAIN Queue', IsUpdate(Queue'[i].msg)
            PROVE  /\ prevPacketNumber[w] = messageNum[Srv] - 1
                   /\ Queue'[i].msg.num = messageNum[Srv] - 1
                   /\ \A j \in DOMAIN Queue' : IsUpdate(Queue'[j].msg) => i = j
        <5>1. /\ i + k \in DOMAIN Queue /\ IsUpdate(Queue[i + k].msg)
              /\ Queue'[i] = Queue[i + k]
          BY <1>2, <4>2
        <5>2. /\ prevPacketNumber[w] = messageNum[Srv] - 1
              /\ Queue[i + k].msg.num = messageNum[Srv] - 1
              /\ \A j \in DOMAIN Queue : IsUpdate(Queue[j].msg) => i + k = j
          BY <3>1, <5>1 DEF AcksInTime, Queue
        <5>3. \A j \in DOMAIN Queue' : IsUpdate(Queue'[j].msg) => i + k = j + k
          BY <1>2, <5>2
        <5>4. QED
          BY <1>2, <4>2, <5>1, <5>2, <5>3
      <4>3. QED
        BY <2>1, <4>1, <4>2
    <3>3. QED
      BY <1>1, <2>1, <3>1, <3>2 DEF AcksInTime, Queue, serverVars
  <2>5. QED
    BY <1>3, <2>2, <2>3, <2>4 DEF UpdatesInv
<1>7. ASSUME NEW d \in Clients, NEW msg, Notifies(d, msg)
      PROVE  UpdatesInv' /\ JobUnderWay'
  <2>1. /\ pc'[Srv] = "rpc" /\ pending'[Srv].call = msg /\ monitors' = monitors
        /\ IsUpdate(msg) /\ Len(msg.strs) = 2 /\ msg.num = messageNum'[Srv] - 1
        /\ messageNum'[Srv] \in {messageNum[Srv], messageNum[Srv] + 1}
        /\ messageNum'[Srv] \in Nat
    BY <1>1, <1>7 DEF Notifies
  <2>2. messageNum[Srv] <= messageNum'[Srv] /\ msg.num < messageNum'[Srv]
    BY <1>1, <2>1
  <2>3. ServerCalls'
    BY <2>1 DEF ServerCalls
  <2>4. JobUnderWay'
    BY <1>1, <1>4, <1>7 DEF Notifies, JobUnderWay, WasExecuted, Answered
  <2>5. ASSUME NEW w \in Monitoring
        PROVE  AcksInTime(w)'
    <3>1. AcksInTime(w)
      BY <1>1 DEF UpdatesInv
    <3>2. \A i \in DOMAIN inbox'[w] : IsUpdate(inbox'[w][i].msg) =>
            inbox'[w][i].msg.num < messageNum'[Srv] /\ Len(inbox'[w][i].msg.strs) = 2
      BY <1>5, <1>7, <2>1, <2>2 DEF Notifies
    <3>3. CASE Serving /\ Takes /\ messageNum'[Srv] = messageNum[Srv] + 1 /\ monitors # <<>>
      <4>1. \A i \in DOMAIN Queue' : ~IsUpdate(Queue'[i].msg)
        BY <1>2, <3>3, ServedCall
      <4>2. prevPacketNumber[w] = messageNum[Srv] - 1 /\ messageNum[w] # 0
        BY <3>1, <3>3 DEF AcksInTime, Serving
      <4>3. prevPacketNumber'[w] = messageNum'[Srv] - 2
        BY <1>1, <3>3, <4>2
      <4>4. QED
        BY <1>1, <2>1, <3>2, <4>1, <4>2, <4>3 DEF AcksInTime, Queue
    <3>4. CASE Answered(Srv) /\ Takes /\ messageNum'[Srv] = messageNum[Srv] + 1
      <4>1. /\ \A i \in DOMAIN Queue' : ~IsUpdate(Queue'[i].msg)
            /\ prevPacketNumber[w] = messageNum[Srv] - 1 /\ pc[Srv] = "rpc"
        BY <3>4, AnsweredUpdate
      <4>2. messageNum[w] # 0
        <5>1. messageNum[Srv] # 0
          <6>1. pending[Srv].call.num = messageNum[Srv] - 1
            BY <1>1, <4>1 DEF UpdatesInv, ServerCalls
          <6>2. pending[Srv].call.num \in Nat
            BY NumbersType DEF AllInv
          <6>3. QED
            BY <6>1, <6>2
        <5>2. QED
          BY <3>1, <5>1 DEF AcksInTime
      <4>3. prevPacketNumber'[w] = messageNum'[Srv] - 2
        BY <1>1, <3>4, <4>1
      <4>4. QED
        BY <1>1, <2>1, <3>2, <4>1, <4>2, <4>3 DEF AcksInTime, Queue
    <3>5. CASE pc[Srv] = "rpc" /\ Queue' = Queue /\ messageNum'[Srv] = messageNum[Srv]
      BY <1>1, <2>1, <3>1, <3>2, <3>5 DEF AcksInTime, Queue
    <3>6. QED
      BY <1>7, <3>3, <3>4, <3>5 DEF Notifies
  <2>6. QED
    BY <1>3, <2>3, <2>4, <2>5 DEF UpdatesInv
<1>8. ASSUME NEW d \in Clients, NEW call, NEW resp, Replies(d, call, resp)
      PROVE  UpdatesInv' /\ JobUnderWay'
  <2>1. /\ pc'[Srv] = "ready" /\ messageNum'[Srv] = messageNum[Srv] /\ Takes
        /\ Serving \/ Answered(Srv)
    BY <1>8 DEF Replies
  <2>2. PICK msg : msg = Numbered(resp, call.num, call.run)
    OBVIOUS
  <2>3. SendsTo(d, msg) /\ ~IsUpdate(msg)
    BY <1>8, <2>2 DEF Replies, GoodAnswer
  <2>4. \A i \in DOMAIN Queue' : ~IsUpdate(Queue'[i].msg)
    BY <1>2, <2>1, ServedCall, AnsweredUpdate
  <2>5. ASSUME NEW w \in Monitoring
        PROVE  AcksInTime(w)'
    <3>1. AcksInTime(w)
      BY <1>1 DEF UpdatesInv
    <3>2. \A i \in DOMAIN inbox'[w] : IsUpdate(inbox'[w][i].msg) =>
            inbox'[w][i].msg.num < messageNum'[Srv] /\ Len(inbox'[w][i].msg.strs) = 2
      BY <1>1, <1>5, <2>1, <2>3
    <3>3. prevPacketNumber[w] = messageNum[Srv] - 1
      BY <2>1, <3>1, AnsweredUpdate DEF AcksInTime, Serving
    <3>4. messageNum[w] = 0 => messageNum[Srv] = 0 /\ monitors' = <<>> /\ prevPacketNumber[w] = -1
      <4>1. ASSUME messageNum[w] = 0
            PROVE  messageNum[Srv] = 0 /\ monitors' = <<>> /\ prevPacketNumber[w] = -1
        <5>1. messageNum[Srv] = 0 /\ monitors = <<>> /\ prevPacketNumber[w] = -1
          BY <3>1, <4>1 DEF AcksInTime
        <5>2. call.callType # "Monitor"
          <6>1. CASE Serving /\ d = Caller /\ call = Request
            <7>1. 1 \in DOMAIN Queue /\ IsCall(Queue[1], d) /\ MayCall(d, call.callType)
              BY <6>1, ServedCall
            <7>2. messageNum[d] # 0
              BY <7>1, AnswerNumbers DEF Queue
            <7>3. d # w
              BY <4>1, <7>2
            <7>4. call.callType = "Monitor" => d \in Monitoring
              BY <7>1 DEF MayCall
            <7>5. QED
              BY <7>3, <7>4 DEF ServiceConditions
          <6>2. CASE Answered(Srv) /\ call = job.call
            BY <1>1, <6>2 DEF JobUnderWay, Answered
          <6>3. QED
            BY <1>8, <6>1, <6>2 DEF Replies
        <5>3. QED
          BY <1>8, <5>1, <5>2 DEF Replies
      <4>2. QED
        BY <4>1
    <3>5. QED
      BY <1>1, <2>1, <2>4, <3>2, <3>3, <3>4 DEF AcksInTime, Queue
  <2>6. JobUnderWay' /\ ServerCalls'
    BY <2>1 DEF JobUnderWay, ServerCalls
  <2>7. QED
    BY <1>3, <2>5, <2>6 DEF UpdatesInv
<1>9. QED
  BY <1>6, <1>7, <1>8 DEF ServerKind

\* An answer is one whatever number it is given.
LEMMA NumberedAnswers ==
  ASSUME NEW resp \in Messages, NEW num, NEW run, NEW other, other = Numbered(resp, num, run)
  PROVE  /\ other.callType = resp.callType /\ other.strs = resp.strs /\ other.ints = resp.ints
         /\ \A call : Answers(call, resp)' => Answers(call, other)'
<1>1. other.callType = resp.callType /\ other.strs = resp.strs /\ other.ints = resp.ints
  BY DEF Numbered, Messages
<1>2. QED
  BY <1>1 DEF Answers

\* A call is executed, if it is to be recorded, by the only server from the only
\* run of its client.
LEMMA ExecutionRecorded ==
  ASSUME AllInv, Serving, Record \/ UNCHANGED executed
  PROVE  /\ executed \subseteq executed'
         /\ \A e \in executed' : e \in executed \/ (e[1] = 1 /\ e[3] = 1)
         /\ Record => <<1, Caller, 1, Request.num>> \in executed'
<1>1. Execution = <<1, Caller, 1, Request.num>>
  BY ServedCall DEF Execution
<1>2. QED
  BY <1>1 DEF Record

\* execute has returned: the response is a good one to the call that was served.
LEMMA RespondReplies ==
  ASSUME AllInv, UNCHANGED clientVars, Serving, NEW call, call = Request,
         NEW resp \in Messages, Respond(resp),
         Record \/ (call.callType = "Start" /\ UNCHANGED executed),
         \A f \in Files : files[f] <= files'[f],
         Answers(call, resp)',
         monitors' = <<>> \/ monitors # <<>> \/ call.callType = "Monitor"
  PROVE  ServerKind
<1>1. /\ Caller \in Clients /\ call \in Messages /\ call.num \in Nat /\ ~IsUpdate(call)
      /\ Arrived(Srv) /\ pc[Srv] = "ready"
  BY ServedCall DEF Serving
<1>2. ServerMoves /\ Takes
  BY <1>1, ServerConsumes DEF Respond, SendResponse, AllInv
<1>3. /\ executed \subseteq executed'
      /\ \A e \in executed' : e \in executed \/ (e[1] = 1 /\ e[3] = 1)
      /\ call.callType # "Start" => <<1, Caller, 1, call.num>> \in executed'
  BY ExecutionRecorded
<1>4. ServerKeeps
  BY <1>1, <1>2, <1>3 DEF Respond, ServerKeeps
<1>5. PICK c : c = Caller
  OBVIOUS
<1>6. PICK other : other = Numbered(resp, call.num, call.run)
  OBVIOUS
<1>7. SendsTo(c, other)
  BY <1>1, <1>5, <1>6, ServerWritesTo DEF Respond, SendResponse, AllInv
<1>8. messageMap' \subseteq messageMap \cup {[ from |-> c, num |-> call.num, message |-> resp ]}
  BY <1>5 DEF Respond, AddToMap, MapAfterStart
<1>9. GoodAnswer(c, call.num, resp) /\ GoodAnswer(c, call.num, other)
  <2>1. CallOfLast(c, call)
    BY <1>2, <1>5, ServedIsCurrent
  <2>2. call.callType # "Start" => WasExecuted(c, call.num)'
    BY <1>3, <1>5 DEF WasExecuted
  <2>3. pc'[c] = pc[c] /\ pending'[c] = pending[c] /\ messageNum'[c] = messageNum[c]
    BY <1>1, <1>2, <1>5 DEF ServerMoves
  <2>4. Answers(call, other)'
    BY <1>6, NumberedAnswers
  <2>5. QED
    BY <1>1, <2>1, <2>2, <2>3, <2>4, AnswerIsGood
<1>10. pc'[Srv] = "ready" /\ messageNum'[Srv] = messageNum[Srv]
  BY <1>1 DEF Respond
<1>11. Replies(c, call, resp)
  BY <1>1, <1>2, <1>5, <1>6, <1>7, <1>8, <1>9, <1>10 DEF Replies
<1>12. QED
  BY <1>1, <1>4, <1>5, <1>11 DEF ServerKind

\* Nothing is found in an empty monitor table, and it stays empty.
LEMMA EmptyTable ==
  ASSUME NEW path, NEW clientId
  PROVE  Sweep(<<>>, path) = <<>> /\ FindRemove(<<>>, clientId) = <<>>
<1>1. <<>> \in Seq({})
  OBVIOUS
<1>2. Sweep(<<>>, path) \in Seq({}) /\ FindRemove(<<>>, clientId) \in Seq({})
  BY <1>1, SweepFinds, FindRemoveDrops
<1>3. \A s \in Seq({}) : s = <<>>
  <2>1. ASSUME NEW s \in Seq({}), s # <<>>
        PROVE  FALSE
    <3>1. s[1] \in {}
      BY <2>1
    <3>2. QED
      BY <3>1
  <2>2. QED
    BY <2>1
<1>4. QED
  BY <1>2, <1>3

\* Every call but a duplicate is answered by a response to it.
LEMMA ServedReplies ==
  ASSUME AllInv, BasicTypeOK', UNCHANGED clientVars,
         \/ FailEdit \/ EditUnmonitored \/ Register \/ Unregister
         \/ GetMode \/ TellModification \/ DumpFile \/ GreetClient
  PROVE  ServerKind
<1>1. PICK call : call = Request
  OBVIOUS
<1>2. /\ Serving /\ call \in Messages /\ call.ints \in Seq(Nat)
      /\ files \in [ Files -> Nat ] /\ call.callType \in CallTypes
  <2>1. Serving /\ call.callType \in CallTypes
    BY <1>1 DEF FailEdit, EditUnmonitored, Edit, Register, Unregister, GetMode,
                TellModification, DumpFile, GreetClient, Executing, CallTypes
  <2>2. QED
    BY <1>1, <2>1, ServedCall DEF AllInv, BasicTypeOK, ServerTypeOK, Messages
<1>3. ASSUME NEW resp \in Messages, Respond(resp),
             Record \/ (call.callType = "Start" /\ UNCHANGED executed),
             \A f \in Files : files[f] <= files'[f], Answers(call, resp)',
             monitors' = <<>> \/ monitors # <<>> \/ call.callType = "Monitor"
      PROVE  ServerKind
  BY <1>1, <1>2, <1>3, RespondReplies
<1>4. ASSUME UNCHANGED files
      PROVE  \A f \in Files : files[f] <= files'[f]
  BY <1>2, <1>4
<1>5. ASSUME UNCHANGED monitors
      PROVE  monitors' = <<>> \/ monitors # <<>> \/ call.callType = "Monitor"
  BY <1>5
<1>6. /\ \A i, j \in Nat : Response(call.callType, <<i, j>>, <<>>) \in Messages
      /\ \A i \in Nat : Response(call.callType, <<i>>, <<>>) \in Messages
      /\ Response(call.callType, <<>>, <<>>) \in Messages
      /\ Good \in Nat /\ Failure \in Nat /\ NoFileException \in Nat /\ FileBoundException \in Nat
  BY <1>2, PlainMessageType DEF Response, Good, Failure, NoFileException, FileBoundException
<1>7. ASSUME NEW ints, call.callType = "Monitor" => ints # <<>> /\ ints[1] = Good
      PROVE  Answers(call, Response(call.callType, ints, <<>>))'
  BY <1>7 DEF Answers, Response, Message
<1>8. CASE FailEdit
  <2>1. PICK code \in {FileBoundException, NoFileException} :
          /\ Respond(Response(call.callType, <<Failure, code>>, <<>>))
          /\ call.callType # "Monitor"
    BY <1>1, <1>8 DEF FailEdit, Executing
  <2>2. QED
    BY <1>3, <1>4, <1>5, <1>6, <1>7, <1>8, <2>1 DEF FailEdit
<1>9. CASE EditUnmonitored
  <2>1. PICK path \in Files :
          Edit(path) /\ Respond(Response(call.callType, <<Good>>, <<>>))
    BY <1>1, <1>9 DEF EditUnmonitored
  <2>2. \A f \in Files : files[f] <= files'[f]
    BY <1>2, <2>1 DEF Edit
  <2>3. QED
    BY <1>3, <1>5, <1>6, <1>7, <2>1, <2>2 DEF Edit
<1>10. CASE Register
  <2>1. call.callType = "Monitor" /\ call.ints[1] \in Nat
    BY <1>1, <1>2, <1>10 DEF Register, Executing, WellFormed
  <2>2. QED
    BY <1>1, <1>3, <1>4, <1>6, <1>7, <1>10, <2>1 DEF Register
<1>11. CASE Unregister
  <2>1. call.callType = "MonitorEnd"
    BY <1>1, <1>11 DEF Unregister, Executing
  <2>2. monitors' = <<>> \/ monitors # <<>>
    BY <1>11, EmptyTable DEF Unregister
  <2>3. QED
    BY <1>3, <1>4, <1>6, <1>7, <1>11, <2>1, <2>2 DEF Unregister
<1>12. CASE GetMode \/ TellModification \/ DumpFile
  <2>1. PICK path : path = call.strs[1]
    OBVIOUS
  <2>2. PICK found : found = files[path]
    OBVIOUS
  <2>3. Record /\ UNCHANGED <<files, monitors>>
    BY <1>12 DEF GetMode, TellModification, DumpFile
  <2>4. Exists(path) => path \in Files /\ found \in Nat /\ found \in 1 .. files'[path]
    BY <1>2, <2>2, <2>3 DEF Exists
  <2>5. CASE GetMode
    <3>1. call.callType = "Mode"
      BY <1>1, <2>5 DEF GetMode, Executing
    <3>2. PICK resp : /\ Respond(resp)
                      /\ \/ Exists(path) /\ resp = Response("Mode", <<Good>>, <<found>>)
                         \/ resp = Response("Mode", <<Failure, NoFileException>>, <<>>)
      BY <1>1, <2>1, <2>2, <2>5 DEF GetMode
    <3>3. resp \in Messages
      BY <1>2, <1>6, <2>4, <3>1, <3>2, PlainMessageType DEF Response
    <3>4. Answers(call, resp)'
      BY <3>1, <3>2 DEF Answers, Response, Message
    <3>5. QED
      BY <1>3, <1>4, <1>5, <2>3, <3>2, <3>3, <3>4
  <2>6. CASE TellModification
    <3>1. call.callType = "Fresh"
      BY <1>1, <2>6 DEF TellModification, Executing
    <3>2. PICK resp : /\ Respond(resp)
                      /\ \/ Exists(path) /\ resp = Response("Fresh", <<Good, found>>, <<>>)
                         \/ resp = Response("Fresh", <<Failure, NoFileException>>, <<>>)
      BY <1>1, <2>1, <2>2, <2>6 DEF TellModification
    <3>3. resp \in Messages
      BY <1>6, <2>4, <3>1, <3>2
    <3>4. Answers(call, resp)'
      BY <3>1, <3>2 DEF Answers, Response, Message
    <3>5. QED
      BY <1>3, <1>4, <1>5, <2>3, <3>2, <3>3, <3>4
  <2>7. CASE DumpFile
    <3>1. call.callType = "Dump"
      BY <1>1, <2>7 DEF DumpFile, Executing
    <3>2. PICK resp : /\ Respond(resp)
                      /\ \/ Exists(path) /\ resp = Response("Dump", <<>>, <<found>>)
                         \/ resp = Response("Dump", <<Failure, NoFileException>>, <<>>)
      BY <1>1, <2>1, <2>2, <2>7 DEF DumpFile
    <3>3. resp \in Messages
      BY <1>2, <1>6, <2>4, <3>1, <3>2, PlainMessageType DEF Response
    <3>4. Answers(call, resp)'
      <4>1. resp.callType = "Dump" /\ (resp.strs = <<>> \/ (Exists(path) /\ resp.strs[1] = found))
        BY <3>2 DEF Response, Message
      <4>2. resp.strs = <<>> \/ (call.strs[1] \in Files /\ resp.strs[1] \in 1 .. files'[call.strs[1]])
        BY <2>1, <2>4, <4>1
      <4>3. QED
        BY <3>1, <4>1, <4>2 DEF Answers
    <3>5. QED
      BY <1>3, <1>4, <1>5, <2>3, <3>2, <3>3, <3>4
  <2>8. QED
    BY <1>12, <2>5, <2>6, <2>7
<1>13. CASE GreetClient
  <2>1. call.callType = "Start"
    BY <1>1, <1>13 DEF GreetClient, Executing
  <2>2. QED
    BY <1>3, <1>4, <1>5, <1>6, <1>7, <1>13, <2>1 DEF GreetClient
<1>14. QED
  BY <1>8, <1>9, <1>10, <1>11, <1>12, <1>13

\* A duplicate is answered by the response that was stored.
LEMMA DuplicateReplies ==
  ASSUME AllInv, UNCHANGED clientVars, AnswerDuplicate
  PROVE  ServerKind
<1>1. PICK call, c : call = Request /\ c = Caller
  OBVIOUS
<1>2. /\ Serving /\ Arrived(Srv) /\ pc[Srv] = "ready"
      /\ UNCHANGED <<pc, messageNum, pending, runs, files, messageMap, monitors, executed>>
  BY DEF AnswerDuplicate, Serving
<1>3. c \in Clients /\ call \in Messages /\ call.num \in Nat
  BY <1>1, <1>2, ServedCall
<1>4. PICK e \in messageMap :
        /\ e.from = c /\ e.num = call.num
        /\ SendResponse(Consumed(Srv), Srv, c, call, e.message)
  BY <1>1 DEF AnswerDuplicate, Hits
<1>5. PICK resp : resp = e.message
  OBVIOUS
<1>6. resp \in Messages
  BY <1>5 DEF AllInv, BasicTypeOK, ServerTypeOK
<1>7. PICK other : other = Numbered(resp, call.num, call.run)
  OBVIOUS
<1>8. ServerMoves /\ Takes /\ SendsTo(c, other)
  BY <1>2, <1>3, <1>4, <1>5, <1>7, ServerConsumes, ServerWritesTo DEF SendResponse, AllInv
<1>9. ServerKeeps
  <2>1. \A f \in Files : files[f] <= files'[f]
    BY <1>2 DEF AllInv, BasicTypeOK, ServerTypeOK
  <2>2. QED
    BY <1>2, <1>8, <2>1 DEF ServerKeeps
<1>10. AnswersInv(c)
  BY <1>3 DEF AllInv, ServiceInv
<1>11. GoodAnswer(c, call.num, resp)
  <2>1. ~IsUpdate(resp) /\ (resp.callType # "Start" => WasExecuted(c, call.num))
    BY <1>4, <1>5, <1>10 DEF AnswersInv, ResponsesExecuted
  <2>2. AnswerToLast(c, call.num, resp)
    BY <1>4, <1>5, <1>10 DEF AnswersInv, LastCall
  <2>3. QED
    BY <1>2, <2>1, <2>2 DEF GoodAnswer, WasExecuted, AnswerToLast, Answers
<1>12. GoodAnswer(c, call.num, other)
  BY <1>6, <1>7, <1>11, NumberedAnswers DEF GoodAnswer, IsUpdate, AnswerToLast
<1>13. Replies(c, call, resp)
  BY <1>1, <1>2, <1>3, <1>6, <1>7, <1>8, <1>11, <1>12 DEF Replies
<1>14. QED
  BY <1>3, <1>9, <1>13 DEF ServerKind

\* The edit is answered once its updates have gone out.
LEMMA NotifiedReplies ==
  ASSUME AllInv, UNCHANGED clientVars, NotifiedAll
  PROVE  ServerKind
<1>1. PICK call, c : call = job.call /\ c = job.from
  OBVIOUS
<1>2. /\ Answered(Srv) /\ Arrived(Srv) /\ pc[Srv] = "rpc" /\ pc'[Srv] = "ready"
      /\ UNCHANGED <<messageNum, runs, files, monitors, executed>>
      /\ \A d \in Clients : pc'[d] = pc[d] /\ pending'[d] = pending[d]
  BY DEF NotifiedAll, Answered, AllInv, BasicTypeOK, SenderTypeOK
<1>3. /\ c \in Clients /\ call \in Messages /\ call.num \in Nat
      /\ call.callType \in {"Insert", "Shift"} /\ WasExecuted(c, call.num)
  <2>1. c \in Clients /\ call.callType \in {"Insert", "Shift"} /\ WasExecuted(c, call.num)
    BY <1>1, <1>2 DEF AllInv, AtMostOnceInv, FromClients, ServiceInv, JobUnderWay
  <2>2. call \in Messages
    BY <1>1 DEF AllInv, BasicTypeOK, ServerTypeOK
  <2>3. QED
    BY <2>1, <2>2 DEF Messages
<1>4. PICK resp : resp = Response(call.callType, <<Good>>, <<>>)
  OBVIOUS
<1>5. PICK other : other = Numbered(resp, call.num, call.run)
  OBVIOUS
<1>6. resp \in Messages
  <2>1. call.callType \in CallTypes
    BY <1>3 DEF CallTypes
  <2>2. QED
    BY <1>4, <2>1, PlainMessageType DEF Response, Good
<1>7. Transmit(Consumed(Srv), Srv, c, other)
  BY <1>1, <1>4, <1>5 DEF NotifiedAll, SendResponse
<1>8. ServerMoves /\ Takes /\ SendsTo(c, other)
  BY <1>2, <1>3, <1>7, ServerConsumes, ServerWritesTo DEF AllInv
<1>9. ServerKeeps
  <2>1. \A f \in Files : files[f] <= files'[f]
    BY <1>2 DEF AllInv, BasicTypeOK, ServerTypeOK
  <2>2. QED
    BY <1>2, <1>8, <2>1 DEF ServerKeeps
<1>10. GoodAnswer(c, call.num, resp) /\ GoodAnswer(c, call.num, other)
  <2>1. CallOfLast(c, call)
    BY <1>1, <1>2, <1>8, JobIsCurrent
  <2>2. Answers(call, resp)'
    BY <1>3, <1>4 DEF Answers, Response, Message
  <2>3. Answers(call, other)'
    BY <1>5, <1>6, <2>2, NumberedAnswers
  <2>4. WasExecuted(c, call.num)' /\ ~IsUpdate(call)
    BY <1>2, <1>3 DEF WasExecuted, IsUpdate
  <2>5. pc'[c] = pc[c] /\ pending'[c] = pending[c] /\ messageNum'[c] = messageNum[c]
    BY <1>2, <1>3
  <2>6. QED
    BY <2>1, <2>2, <2>3, <2>4, <2>5, AnswerIsGood
<1>11. messageMap' \subseteq messageMap \cup {[ from |-> c, num |-> call.num, message |-> resp ]}
  BY <1>1, <1>4 DEF NotifiedAll, AddToMap
<1>12. Replies(c, call, resp)
  BY <1>1, <1>2, <1>3, <1>5, <1>6, <1>8, <1>10, <1>11 DEF Replies
<1>13. QED
  BY <1>3, <1>9, <1>12 DEF ServerKind

\* What sendMessage transmits in the name of Notify.
LEMMA NotifySends ==
  ASSUME AllInv, NEW queues, NEW c \in Clients, NEW path, NEW edition, NEW msg,
         Notify(queues, c, path, edition),
         msg = Numbered(Message("MonitorUpdate", <<>>, <<path, edition>>),
                        messageNum[Srv], runs[Srv])
  PROVE  /\ Transmit(queues, Srv, c, msg)
         /\ IsUpdate(msg) /\ Len(msg.strs) = 2 /\ msg.num = messageNum[Srv]
         /\ pc'[Srv] = "rpc" /\ pending'[Srv].call = msg
         /\ messageNum'[Srv] = messageNum[Srv] + 1
         /\ \A d \in Clients : /\ pc'[d] = pc[d] /\ pending'[d] = pending[d]
                               /\ messageNum'[d] = messageNum[d]
<1>1. IsUpdate(msg) /\ Len(msg.strs) = 2 /\ msg.num = messageNum[Srv]
  BY DEF Numbered, Message, IsUpdate
<1>2. QED
  BY <1>1 DEF Notify, SendMessage, AllInv, BasicTypeOK, SenderTypeOK

\* The updates of an edit go out.
LEMMA EditNotifies ==
  ASSUME AllInv, UNCHANGED clientVars, EditMonitored
  PROVE  ServerKind
<1>1. PICK path \in Files, c \in Clients :
        /\ Edit(path)
        /\ Sweep(monitors, path) # <<>>
        /\ job'.from = Caller /\ job'.call = Request
        /\ Notify(Consumed(Srv), c, path, files[path] + 1)
        /\ UNCHANGED <<messageMap, runs>>
  BY DEF EditMonitored
<1>2. /\ Serving /\ Arrived(Srv) /\ Request.callType \in {"Insert", "Shift"}
      /\ Record /\ UNCHANGED monitors /\ monitors # <<>>
  BY <1>1, EmptyTable DEF Edit, Executing, Serving
<1>3. PICK msg : msg = Numbered(Message("MonitorUpdate", <<>>, <<path, files[path] + 1>>),
                                messageNum[Srv], runs[Srv])
  OBVIOUS
<1>4. /\ Transmit(Consumed(Srv), Srv, c, msg)
      /\ IsUpdate(msg) /\ Len(msg.strs) = 2 /\ msg.num = messageNum[Srv]
      /\ pc'[Srv] = "rpc" /\ pending'[Srv].call = msg
      /\ messageNum'[Srv] = messageNum[Srv] + 1
      /\ \A d \in Clients : /\ pc'[d] = pc[d] /\ pending'[d] = pending[d]
                            /\ messageNum'[d] = messageNum[d]
  BY <1>1, <1>3, NotifySends
<1>5. ServerMoves /\ Takes /\ SendsTo(c, msg)
  BY <1>1, <1>2, <1>4, ServerConsumes, ServerWritesTo DEF AllInv
<1>6. \A f \in Files : files[f] <= files'[f]
  BY <1>1 DEF Edit, AllInv, BasicTypeOK, ServerTypeOK
<1>7. /\ executed \subseteq executed'
      /\ \A e \in executed' : e \in executed \/ (e[1] = 1 /\ e[3] = 1)
      /\ <<1, Caller, 1, Request.num>> \in executed'
  BY <1>2, ExecutionRecorded
<1>8. ServerKeeps
  BY <1>1, <1>4, <1>5, <1>6, <1>7 DEF ServerKeeps
<1>9. msg.num = messageNum'[Srv] - 1
  BY <1>4 DEF AllInv, BasicTypeOK, SenderTypeOK
<1>10. Notifies(c, msg)
  BY <1>1, <1>2, <1>4, <1>5, <1>7, <1>9 DEF Notifies
<1>11. QED
  BY <1>8, <1>10 DEF ServerKind

\* An acknowledgement is followed by the next update.
LEMMA NextNotifies ==
  ASSUME AllInv, UNCHANGED clientVars, NotifyNext
  PROVE  ServerKind
<1>1. PICK path : path = job.call.strs[1]
  OBVIOUS
<1>2. PICK c \in Clients : Notify(Consumed(Srv), c, path, files[path])
  BY <1>1 DEF NotifyNext
<1>3. /\ Answered(Srv) /\ Arrived(Srv)
      /\ job'.from = job.from /\ job'.call = job.call
      /\ UNCHANGED <<runs, files, messageMap, monitors, executed>>
  BY DEF NotifyNext, Answered
<1>4. PICK msg : msg = Numbered(Message("MonitorUpdate", <<>>, <<path, files[path]>>),
                                messageNum[Srv], runs[Srv])
  OBVIOUS
<1>5. /\ Transmit(Consumed(Srv), Srv, c, msg)
      /\ IsUpdate(msg) /\ Len(msg.strs) = 2 /\ msg.num = messageNum[Srv]
      /\ pc'[Srv] = "rpc" /\ pending'[Srv].call = msg
      /\ messageNum'[Srv] = messageNum[Srv] + 1
      /\ \A d \in Clients : /\ pc'[d] = pc[d] /\ pending'[d] = pending[d]
                            /\ messageNum'[d] = messageNum[d]
  BY <1>2, <1>4, NotifySends
<1>6. ServerMoves /\ Takes /\ SendsTo(c, msg)
  BY <1>2, <1>3, <1>5, ServerConsumes, ServerWritesTo DEF AllInv
<1>7. \A f \in Files : files[f] <= files'[f]
  BY <1>3 DEF AllInv, BasicTypeOK, ServerTypeOK
<1>8. ServerKeeps
  BY <1>3, <1>5, <1>6, <1>7 DEF ServerKeeps
<1>9. msg.num = messageNum'[Srv] - 1
  BY <1>5 DEF AllInv, BasicTypeOK, SenderTypeOK
<1>10. Notifies(c, msg)
  BY <1>3, <1>5, <1>6, <1>9 DEF Notifies
<1>11. QED
  BY <1>8, <1>10 DEF ServerKind

\* An update goes out again.
LEMMA RetransmissionNotifies ==
  ASSUME AllInv, UNCHANGED clientVars, ServerRetransmits
  PROVE  ServerKind
<1>1. PICK c, msg : c = pending[Srv].sa /\ msg = pending[Srv].call
  OBVIOUS
<1>2. /\ Retransmit(Srv) /\ UNCHANGED serverVars /\ pc[Srv] = "rpc"
      /\ UNCHANGED <<pc, messageNum, runs>>
      /\ Transmit(inbox, Srv, c, msg)
      /\ pending'[Srv].call = msg
      /\ \A d \in Clients : pending'[d] = pending[d]
  BY <1>1 DEF ServerRetransmits, Retransmit, TimedOut, AllInv, BasicTypeOK, SenderTypeOK
<1>3. c \in Clients
  BY <1>1, <1>2 DEF AllInv, AtMostOnceInv, FromClients
<1>4. Queue' = Queue /\ SendsTo(c, msg)
  BY <1>2, <1>3, ServerTransmits, ServerWritesTo DEF Queue, AllInv, BasicTypeOK, SenderTypeOK
<1>5. IsUpdate(msg) /\ Len(msg.strs) = 2 /\ msg.num = messageNum[Srv] - 1
  BY <1>1, <1>2 DEF AllInv, ServiceInv, UpdatesInv, ServerCalls
<1>6. ServerKeeps
  <2>1. \A f \in Files : files[f] <= files'[f]
    BY <1>2 DEF serverVars, AllInv, BasicTypeOK, ServerTypeOK
  <2>2. ServerMoves
    BY <1>2, <1>4 DEF ServerMoves
  <2>3. QED
    BY <1>2, <2>1, <2>2 DEF ServerKeeps, serverVars
<1>7. Notifies(c, msg)
  BY <1>2, <1>4, <1>5 DEF Notifies, serverVars
<1>8. QED
  BY <1>3, <1>6, <1>7 DEF ServerKind

\* A packet is dropped, or the server ends.
LEMMA ServerDrops ==
  ASSUME AllInv, UNCHANGED clientVars,
         ServeMalformed \/ ServerGivesUp \/ ServerDiscards
  PROVE  ServerKind
<1>1. UNCHANGED serverVars /\ UNCHANGED <<messageNum, runs>>
  BY DEF ServeMalformed, ServerGivesUp, ServerDiscards, Exit, DiscardImproper
<1>2. \A f \in Files : files[f] <= files'[f]
  BY <1>1 DEF serverVars, AllInv, BasicTypeOK, ServerTypeOK
<1>3. CASE ServeMalformed \/ ServerGivesUp
  <2>1. Exit(Srv)
    BY <1>3 DEF ServeMalformed, ServerGivesUp
  <2>2. ServerMoves /\ pc'[Srv] = "down" /\ Queue' = <<>>
        /\ \A d \in Clients : inbox'[d] = inbox[d]
    BY <2>1 DEF Exit, ServerMoves, Queue, AllInv, BasicTypeOK, SenderTypeOK
  <2>3. ServerKeeps /\ Drops
    BY <1>1, <1>2, <2>2 DEF ServerKeeps, Drops, serverVars
  <2>4. QED
    BY <2>3 DEF ServerKind
<1>4. CASE ServerDiscards
  <2>1. DiscardImproper(Srv) /\ pc[Srv] = "rpc" /\ UNCHANGED pc
    BY <1>4 DEF ServerDiscards, DiscardImproper
  <2>2. Takes /\ \A d \in Clients : inbox'[d] = inbox[d] /\ pending'[d] = pending[d]
    BY <2>1 DEF DiscardImproper, Arrived, Consumed, Takes, Queue, AllInv, BasicTypeOK, SenderTypeOK
  <2>3. pending'[Srv].call = pending[Srv].call
    BY <2>1 DEF DiscardImproper, AllInv, BasicTypeOK, SenderTypeOK
  <2>4. ServerMoves
    BY <1>1, <2>1, <2>2 DEF ServerMoves
  <2>5. ServerKeeps /\ Drops
    BY <1>1, <1>2, <2>1, <2>2, <2>3, <2>4 DEF ServerKeeps, Drops, serverVars
  <2>6. QED
    BY <2>5 DEF ServerKind
<1>5. QED
  BY <1>3, <1>4

\* Every step of the server is of one of the three kinds: no acknowledgement comes
\* so late that it is taken for a call.
LEMMA ServerKinds ==
  ASSUME AllInv, BasicTypeOK', ServerStep
  PROVE  ServerKind
<1>1. UNCHANGED clientVars
  BY DEF ServerStep
<1>2. ~ServeLateAcknowledgement
  BY ServedCall DEF ServeLateAcknowledgement, Executing, IsUpdate
<1>3. QED
  BY <1>1, <1>2, DuplicateReplies, ServedReplies, EditNotifies, NextNotifies, NotifiedReplies,
     RetransmissionNotifies, ServerDrops
     DEF ServerStep

\* The step of the server keeps the invariant.
LEMMA ServerStepService ==
  ASSUME ServiceConditions, AllInv, BasicTypeOK', ServerStep
  PROVE  ServiceInv'
<1>1. ServerKind
  BY ServerKinds
<1>2. UpdatesInv' /\ JobUnderWay'
  BY <1>1, ServerKindUpdates
<1>3. FirstRuns' /\ CopiesOfOwnFile' /\ \A c \in Clients : CallsInv(c)'
  BY <1>1, ServerKindCalls
<1>4. \A c \in Clients : AnswersInv(c)'
  BY <1>1, ServerKindAnswers
<1>5. QED
  BY <1>2, <1>3, <1>4 DEF ServiceInv

-----------------------------------------------------------------------------
(* The theorems.                                                            *)

\* At first nothing has been sent.
LEMMA InitService ==
  ASSUME Init
  PROVE  ServiceInv
<1>1. /\ inbox = [ n \in Nodes |-> <<>> ]
      /\ \A n \in Nodes : messageNum[n] = 0 /\ pending[n] = NoCall
      /\ \A c \in Clients : pc[c] = "down" /\ runs[c] = 0
      /\ pc[Srv] = "ready" /\ runs[Srv] = 1
      /\ messageMap = {} /\ monitors = <<>> /\ executed = {}
  BY DEF Init, SenderInit, ServerInit
<1>2. /\ \A c \in Clients : /\ lastMessage[c] = NoMessage /\ prevPacketNumber[c] = -1
                            /\ copies[c] = NoCopies
      /\ files \in [ Files -> Nat ]
  BY DEF Init, ClientInit, ServerInit
<1>3. NoCall.call.callType = "Start" /\ NoCall.sa = Srv /\ NoMessage.callType = "Start"
  BY DEF NoCall, NoMessage, Message
<1>4. \A n \in Nodes : inbox[n] = <<>>
  BY <1>1
<1>5. FirstRuns
  BY <1>1, <1>4 DEF FirstRuns
<1>6. JobUnderWay /\ ServerCalls
  BY <1>1 DEF JobUnderWay, ServerCalls
<1>7. UpdatesInv
  BY <1>1, <1>2, <1>4, <1>6 DEF UpdatesInv, AcksOfMonitoring, AcksInTime, Monitoring
<1>8. ASSUME NEW c \in Clients
      PROVE  CallsInv(c)
  BY <1>1, <1>2, <1>3, <1>4
     DEF CallsInv, ServerOnly, CallsOfClient, NumbersBounded, MayCall
<1>9. ASSUME NEW c \in Clients
      PROVE  AnswersInv(c)
  BY <1>1, <1>4
     DEF AnswersInv, ResponsesExecuted, ResponsesInOrder, NothingOlder, LastCall
<1>10. CopiesOfOwnFile
  <2>1. ASSUME NEW c \in Clients, NEW f \in Files
        PROVE  copies[c][f] = 0 /\ files[f] \in Nat
    BY <1>2 DEF NoCopies
  <2>2. \A n \in Nat : 0 \in 0 .. n
    OBVIOUS
  <2>3. QED
    BY <2>1, <2>2 DEF CopiesOfOwnFile
<1>11. QED
  BY <1>5, <1>6, <1>7, <1>8, <1>9, <1>10 DEF ServiceInv

\* A step that changes nothing keeps the invariant.
LEMMA StutterService ==
  ASSUME ServiceInv, UNCHANGED vars
  PROVE  ServiceInv'
<1>1. UNCHANGED <<senderVars, clientVars, serverVars>>
  BY DEF vars
<1>2. FirstRuns' /\ JobUnderWay' /\ CopiesOfOwnFile'
  BY <1>1 DEF ServiceInv, FirstRuns, JobUnderWay, WasExecuted, CopiesOfOwnFile, senderVars,
     clientVars, serverVars
<1>3. UpdatesInv'
  BY <1>1 DEF ServiceInv, UpdatesInv, AcksOfMonitoring, ServerCalls, AcksInTime, Monitoring,
     senderVars, clientVars, serverVars
<1>4. ASSUME NEW c \in Clients
      PROVE  CallsInv(c)'
  BY <1>1 DEF ServiceInv, CallsInv, ServerOnly, CallsOfClient, NumbersBounded, MayCall,
     Monitoring, HasCopy, CopyOf, Path, senderVars, clientVars, serverVars
<1>5. ASSUME NEW c \in Clients
      PROVE  AnswersInv(c)'
  <2>1. AnswersInv(c)
    BY DEF ServiceInv
  <2>2. ResponsesExecuted(c)' /\ ResponsesInOrder(c)' /\ NothingOlder(c)'
    BY <1>1, <2>1 DEF AnswersInv, ResponsesExecuted, WasExecuted, ResponsesInOrder, NothingOlder,
       IsCall, senderVars, clientVars, serverVars
  <2>3. LastCall(c)'
    BY <1>1, <2>1 DEF AnswersInv, LastCall, CallOfLast, AnswerToLast, Answers,
       IsCall, senderVars, clientVars, serverVars
  <2>4. QED
    BY <2>2, <2>3 DEF AnswersInv
<1>6. QED
  BY <1>2, <1>3, <1>4, <1>5 DEF ServiceInv

\* Every step of the system keeps the invariant.
LEMMA NextService ==
  ASSUME ServiceConditions, AllInv, [Next]_vars
  PROVE  AllInv'
<1>1. BasicTypeOK' /\ AtMostOnceInv'
  BY NextType, NextInv DEF AllInv
<1>2. ASSUME NEW c \in Clients, UserStep(c) \/ ClientStep(c)
      PROVE  ServiceInv'
  BY <1>1, <1>2, ClientStepService
<1>3. ~Restart
  BY DEF Restart, ServiceConditions, AllInv, ServiceInv, FirstRuns
<1>4. ServiceInv'
  BY <1>1, <1>2, <1>3, ServerStepService, StutterService DEF Next, AllInv
<1>5. QED
  BY <1>1, <1>4 DEF AllInv

\* What is known of a state is known of all reachable ones.
LEMMA AllInvHolds ==
  ASSUME ServiceConditions
  PROVE  Spec => []AllInv
<1>1. Init => AllInv
  BY InitType, InitInv, InitService DEF AllInv
<1>2. AllInv /\ [Next]_vars => AllInv'
  BY NextService
<1>3. QED
  BY <1>1, <1>2, PTL DEF Spec

\* The answers that a client may still get belong to its last call, and the
\* updates are acknowledged one by one: the invariant holds, however many clients
\* there are, whatever commands their users type and whatever packets are lost.
THEOREM ServiceInvariantHolds ==
  ASSUME ServiceConditions
  PROVE  Spec => []ServiceInv
<1>1. AllInv => ServiceInv
  BY DEF AllInv
<1>2. QED
  BY <1>1, AllInvHolds, PTL

\* cache.cpp: the copy that a client reads is a state that the file of this
\* name had: no answer to another read gets into the cache.
THEOREM CopiesHold ==
  ASSUME ServiceConditions
  PROVE  Spec => []CopiesOfOwnFile
<1>1. AllInv => CopiesOfOwnFile
  BY DEF AllInv, ServiceInv
<1>2. QED
  BY <1>1, AllInvHolds, PTL

-----------------------------------------------------------------------------
(* What the clients see.                                                    *)

\* A client that leaves sendMessage with an answer had its call executed.
LEMMA AnsweredWasExecuted ==
  ASSUME AllInv, NEW c \in Clients, Answered(c), pending[c].call.callType # "Start"
  PROVE  runs[c] = 1 /\ runs[Srv] = 1 /\ WasExecuted(c, pending[c].call.num)
<1>1. pc[c] = "rpc" /\ inbox[c] \in Seq(Packets) /\ inbox[c] # <<>>
  BY NodeTypes DEF Answered, Arrived, AllInv
<1>2. 1 \in DOMAIN inbox[c] /\ Packet(c) = inbox[c][1]
  BY <1>1, TakenQueue DEF Packet
<1>3. /\ pending[c].call.num = inbox[c][1].msg.num
      /\ pending[c].call.callType = inbox[c][1].msg.callType
  BY <1>2 DEF Answered, IsAnswer
<1>4. CallsInv(c) /\ AnswersInv(c) /\ FirstRuns
  BY DEF AllInv, ServiceInv
<1>5. IsResponse(inbox[c][1])
  BY <1>3, <1>4 DEF CallsInv, CallsOfClient, MayCall, IsResponse, IsUpdate
<1>6. WasExecuted(c, inbox[c][1].msg.num)
  BY <1>2, <1>3, <1>4, <1>5 DEF AnswersInv, ResponsesExecuted
<1>7. QED
  BY <1>1, <1>3, <1>4, <1>6 DEF FirstRuns

\* A client goes on after a call only with the answer to it, and announces itself
\* when it is started.
LEMMA GoesOnAnswered ==
  ASSUME AllInv, NEW c \in Clients, UserStep(c) \/ ClientStep(c)
  PROVE  /\ pc[c] = "rpc" /\ pc'[c] # "down" /\ pending'[c].call # pending[c].call => Answered(c)
         /\ pc[c] = "rpc" /\ pc'[c] = "rpc" /\ pending'[c].call # pending[c].call =>
              pending[c].call.callType # "Start" /\ pending'[c].call.callType # "Start"
         /\ pc[c] = "down" /\ pc'[c] = "rpc" => pending'[c].call.callType = "Start"
<1>1. c \in Nodes /\ pc \in [ Nodes -> {"down", "ready", "rpc", "monitor"} ]
      /\ pending \in [ Nodes -> [ call : Messages, sa : Nodes, tries : 0 .. NUM_TIMEOUTS ] ]
  BY DEF AllInv, BasicTypeOK, SenderTypeOK
<1>2. CASE Launch(c)
  BY <1>1, <1>2 DEF Launch, SendMessage, Numbered, Message
<1>3. CASE \/ EnterCommand(c) \/ Quit(c) \/ ReadLocally(c) \/ AskForFile(c)
           \/ AskWhetherFresh(c) \/ ReadMalformed(c)
  BY <1>3 DEF EnterCommand, Quit, ReadLocally, AskForFile, AskWhetherFresh, StartRead, ReadMalformed
<1>4. CASE \/ ReceiveResponse(c) \/ ReceiveEndResponse(c)
  BY <1>1, <1>4 DEF ReceiveResponse, ReceiveEndResponse, AfterResponse
<1>5. CASE ReceiveNoFile(c) \/ ReceiveFile(c) \/ ReceiveUnmodified(c)
  BY <1>1, <1>5 DEF ReceiveNoFile, ReceiveFile, ReceiveUnmodified, ReceiveForCache, StoreCopy, FinishRead
<1>6. CASE ReceiveFileAndAsk(c) \/ ReceiveModified(c)
  <2>1. Answered(c) /\ pc[c] = "rpc" /\ pending[c].call.callType # "Start"
    BY <1>6 DEF ReceiveFileAndAsk, ReceiveModified, StoreCopy, ReceiveForCache, Answered
  <2>2. PICK callType \in {"Fresh", "Dump"} : \E path, queues : Ask(c, callType, path, queues)
    BY <1>6 DEF ReceiveFileAndAsk, ReceiveModified
  <2>3. PICK path, queues : Ask(c, callType, path, queues)
    BY <2>2
  <2>4. PICK num, run : pending'[c].call = Numbered(Message(callType, <<>>, <<path>>), num, run)
    BY <1>1, <2>3 DEF Ask, SendMessage
  <2>5. pending'[c].call.callType # "Start"
    BY <2>4 DEF Numbered, Message
  <2>6. QED
    BY <2>1, <2>5
<1>7. CASE \/ ShowUpdate(c) \/ CrashOnMissingContent(c) \/ SurviveMissingContent(c)
           \/ IgnoreDuplicate(c) \/ EndMonitoring(c)
  BY <1>7 DEF ShowUpdate, CrashOnMissingContent, LacksContent, SurviveMissingContent, IgnoreDuplicate,
     TakePacket, EndMonitoring
<1>8. CASE ClientDiscards(c) \/ ClientRetransmits(c)
  <2>1. pending'[c].call = pending[c].call /\ pc' = pc
    BY <1>1, <1>8 DEF ClientDiscards, ClientRetransmits, DiscardImproper, Retransmit
  <2>2. QED
    BY <2>1
<1>9. CASE ClientGivesUp(c)
  BY <1>1, <1>9 DEF ClientGivesUp, OutOfTries, TimedOut, Exit
<1>10. QED
  BY <1>2, <1>3, <1>4, <1>5, <1>6, <1>7, <1>8, <1>9 DEF UserStep, ClientStep

\* Such a step of the system is one of the client, and the call was executed.
LEMMA StepAnswerExecuted ==
  ASSUME AllInv, [Next]_vars, NEW c \in Clients,
         pc[c] = "rpc", pc'[c] # "down", pending'[c].call # pending[c].call,
         pending[c].call.callType # "Start"
  PROVE  runs[c] = 1 /\ runs[Srv] = 1 /\ WasExecuted(c, pending[c].call.num)
<1>1. ASSUME NEW d \in Clients, UserStep(d) \/ ClientStep(d)
      PROVE  Answered(c)
  <2>1. d = c
    <3>1. OthersKept(d)
      BY <1>1, ClientMoves DEF AllInv, Quiet, Calls, Waits
    <3>2. QED
      BY <3>1 DEF OthersKept
  <2>2. QED
    BY <1>1, <2>1, GoesOnAnswered
<1>2. CASE ServerStep
  <2>1. ServerMoves
    BY <1>2, NextType, ServerKinds DEF AllInv, ServerKind, ServerKeeps
  <2>2. QED
    BY <2>1 DEF ServerMoves
<1>3. CASE Restart
  BY <1>3 DEF Restart
<1>4. CASE UNCHANGED vars
  BY <1>4 DEF vars, senderVars
<1>5. QED
  BY <1>1, <1>2, <1>3, <1>4, AnsweredWasExecuted DEF Next

\* sendMessage never takes the answer to another call for its own: a client that
\* goes on after a call knows that it was executed.
THEOREM AnswerImpliesExecutedHolds ==
  ASSUME ServiceConditions
  PROVE  Spec => AnswerImpliesExecuted
<1>1. AllInv /\ [Next]_vars =>
        \A c \in Clients :
          /\ pc[c] = "rpc" /\ pc'[c] # "down"
          /\ pending'[c].call # pending[c].call
          /\ pending[c].call.callType # "Start"
          => \E s \in 1 .. runs[Srv] : <<s, c, runs[c], pending[c].call.num>> \in executed
  <2>1. ASSUME AllInv, [Next]_vars, NEW c \in Clients,
               pc[c] = "rpc", pc'[c] # "down", pending'[c].call # pending[c].call,
               pending[c].call.callType # "Start"
        PROVE  \E s \in 1 .. runs[Srv] : <<s, c, runs[c], pending[c].call.num>> \in executed
    <3>1. runs[c] = 1 /\ runs[Srv] = 1 /\ WasExecuted(c, pending[c].call.num)
      BY <2>1, StepAnswerExecuted
    <3>2. 1 \in 1 .. runs[Srv]
      BY <3>1
    <3>3. QED
      BY <3>1, <3>2 DEF WasExecuted
  <2>2. QED
    BY <2>1
<1>2. QED
  BY <1>1, AllInvHolds, PTL DEF Spec, AnswerImpliesExecuted

-----------------------------------------------------------------------------
(* The refinement.                                                          *)

\* The executions of a call in a history.
ExecutionsOf(ex, id) == { e \in ex : Tail(e) = id }

\* A history in which no call is executed a second time has at most one.
LEMMA ExecutionsCounted ==
  ASSUME MaxClientRuns = 1, NEW ex, ex \subseteq Executions, \A e \in ex : e[1] = 1 /\ e[3] = 1,
         NEW id \in Ids
  PROVE  Cardinality(ExecutionsOf(ex, id)) =
           IF <<1, id[1], 1, id[3]>> \in ex THEN 1 ELSE 0
<1>1. PICK c \in Clients, num \in 0 .. MaxCalls + 1 : id = <<c, 1, num>>
  <2>1. id = <<id[1], id[2], id[3]>> /\ id[1] \in Clients /\ id[2] \in 1 .. MaxClientRuns
        /\ id[3] \in 0 .. MaxCalls + 1
    BY DEF Ids
  <2>2. id[2] = 1
    BY <2>1
  <2>3. QED
    BY <2>1, <2>2
<1>2. ASSUME NEW e \in ex, Tail(e) = id
      PROVE  e = <<1, c, 1, num>>
  <2>1. e = <<e[1], e[2], e[3], e[4]>>
    BY DEF Executions
  <2>2. PICK e1, e2, e3, e4 : e1 = e[1] /\ e2 = e[2] /\ e3 = e[3] /\ e4 = e[4]
    OBVIOUS
  <2>3. e = <<e1, e2, e3, e4>>
    BY <2>1, <2>2
  <2>4. Tail(<<e1, e2, e3, e4>>) = <<e2, e3, e4>>
    OBVIOUS
  <2>5. e1 = 1 /\ e3 = 1
    BY <2>2
  <2>6. <<e2, e3, e4>> = <<c, 1, num>>
    BY <1>1, <1>2, <2>3, <2>4
  <2>7. e2 = c /\ e4 = num
    BY <2>6
  <2>8. QED
    BY <2>3, <2>5, <2>7
<1>3. Tail(<<1, c, 1, num>>) = id
  BY <1>1
<1>4. id[1] = c /\ id[3] = num
  BY <1>1
<1>5. CASE <<1, c, 1, num>> \in ex
  <2>1. ExecutionsOf(ex, id) = {<<1, c, 1, num>>}
    BY <1>2, <1>3, <1>5 DEF ExecutionsOf
  <2>2. QED
    BY <1>4, <1>5, <2>1, FS_Singleton
<1>6. CASE <<1, c, 1, num>> \notin ex
  <2>1. ExecutionsOf(ex, id) = {}
    BY <1>2, <1>6 DEF ExecutionsOf
  <2>2. QED
    BY <1>4, <1>6, <2>1, FS_EmptySet
<1>7. QED
  BY <1>5, <1>6

\* times, seen from the history.
TimesOf(ex) == [ id \in Ids |-> IF <<1, id[1], 1, id[3]>> \in ex THEN 1 ELSE 0 ]

\* They are counted right.
LEMMA TimesCounted ==
  ASSUME MaxClientRuns = 1, NEW ex, ex \subseteq Executions, \A e \in ex : e[1] = 1 /\ e[3] = 1,
         NEW again, again = {}, NEW id \in Ids
  PROVE  Cardinality(ExecutionsOf(ex, id)) + Cardinality(ExecutionsOf(again, id)) = TimesOf(ex)[id]
<1>1. Cardinality(ExecutionsOf(ex, id)) = IF <<1, id[1], 1, id[3]>> \in ex THEN 1 ELSE 0
  BY ExecutionsCounted
<1>2. TimesOf(ex)[id] = IF <<1, id[1], 1, id[3]>> \in ex THEN 1 ELSE 0
  BY DEF TimesOf
<1>3. Cardinality(ExecutionsOf(again, id)) = 0
  BY FS_EmptySet DEF ExecutionsOf
<1>4. QED
  BY <1>1, <1>2, <1>3

\* What the service counts before and after a step.
LEMMA TimesMapped ==
  ASSUME ServiceConditions, AllInv, AllInv'
  PROVE  timesMapped = TimesOf(executed) /\ timesMapped' = TimesOf(executed')
<1>1. /\ MaxClientRuns = 1
      /\ executed \subseteq Executions /\ executed' \subseteq Executions
      /\ \A e \in executed : e[1] = 1 /\ e[3] = 1
      /\ \A e \in executed' : e[1] = 1 /\ e[3] = 1
      /\ reexecuted = {} /\ reexecuted' = {}
  BY DEF ServiceConditions, AllInv, BasicTypeOK, ServerTypeOK, ServiceInv, FirstRuns,
     AtMostOnceInv, AtMostOnce
<1>2. timesMapped = TimesOf(executed)
  <2>1. ASSUME NEW id \in Ids
        PROVE  timesMapped[id] = TimesOf(executed)[id]
    <3>1. timesMapped[id] =
            Cardinality(ExecutionsOf(executed, id)) + Cardinality(ExecutionsOf(reexecuted, id))
      BY DEF timesMapped, ExecutionsOf
    <3>2. QED
      BY <1>1, <3>1, TimesCounted
  <2>2. QED
    BY <2>1 DEF timesMapped, TimesOf
<1>3. timesMapped' = TimesOf(executed')
  <2>1. PICK ex, again : ex = executed' /\ again = reexecuted'
    OBVIOUS
  <2>2. ASSUME NEW id \in Ids
        PROVE  timesMapped'[id] = TimesOf(ex)[id]
    <3>1. timesMapped'[id] =
            Cardinality(ExecutionsOf(ex, id)) + Cardinality(ExecutionsOf(again, id))
      BY <2>1 DEF timesMapped, ExecutionsOf
    <3>2. ex \subseteq Executions /\ (\A e \in ex : e[1] = 1 /\ e[3] = 1) /\ again = {}
      BY <1>1, <2>1
    <3>3. QED
      BY <1>1, <3>1, <3>2, TimesCounted
  <2>3. QED
    BY <2>1, <2>2 DEF timesMapped, TimesOf
<1>4. QED
  BY <1>2, <1>3

\* A step of a client changes what the service knows of this client at most.
LEMMA OnlyOneMapped ==
  ASSUME NEW c \in Clients, OthersKept(c), NEW s, NEW id,
         s = statusMapped'[c], id = callingMapped'[c]
  PROVE  /\ statusMapped' = [ statusMapped EXCEPT ![c] = s ]
         /\ callingMapped' = [ callingMapped EXCEPT ![c] = id ]
         /\ timesMapped' = timesMapped
<1>1. \A d \in Clients \ {c} : /\ pc'[d] = pc[d] /\ pending'[d] = pending[d]
                               /\ runs'[d] = runs[d]
  BY DEF OthersKept
<1>2. \A d \in Clients \ {c} : statusMapped'[d] = statusMapped[d]
  BY <1>1 DEF statusMapped, Starting
<1>3. \A d \in Clients \ {c} : callingMapped'[d] = callingMapped[d]
  BY <1>1 DEF callingMapped, Starting
<1>4. statusMapped' = [ d \in Clients |-> statusMapped'[d] ]
      /\ statusMapped = [ d \in Clients |-> statusMapped[d] ]
      /\ callingMapped' = [ d \in Clients |-> callingMapped'[d] ]
      /\ callingMapped = [ d \in Clients |-> callingMapped[d] ]
  BY DEF statusMapped, callingMapped
<1>5. timesMapped' = timesMapped
  BY DEF timesMapped, OthersKept, serverVars
<1>6. QED
  BY <1>2, <1>3, <1>4, <1>5

\* The call that a client has the answer to is counted once.
LEMMA AnsweredCounted ==
  ASSUME ServiceConditions, AllInv, AllInv', NEW c \in Clients, Answered(c), ~Starting(c)
  PROVE  timesMapped[callingMapped[c]] = 1
<1>1. pc[c] = "rpc" /\ pending[c].call.callType # "Start"
  BY DEF Answered, Starting
<1>2. runs[c] = 1 /\ WasExecuted(c, pending[c].call.num)
  BY <1>1, AnsweredWasExecuted
<1>3. PICK num : num = pending[c].call.num
  OBVIOUS
<1>4. callingMapped[c] = <<c, 1, num>>
  BY <1>1, <1>2, <1>3 DEF callingMapped, Starting
<1>5. <<c, 1, num>> \in Ids
  <2>1. num = messageNum[c] - 1 /\ num \in Nat
    BY <1>1, <1>3, NodeTypes DEF AllInv, AtMostOnceInv, ClientInv, PendingIsLast, Messages
  <2>2. messageNum[c] <= MaxCalls + 2 /\ messageNum[c] \in Nat
    BY NodeTypes DEF AllInv, ServiceInv, CallsInv, NumbersBounded
  <2>3. num \in 0 .. MaxCalls + 1
    BY <2>1, <2>2
  <2>4. 1 \in 1 .. MaxClientRuns
    BY DEF ServiceConditions
  <2>5. QED
    BY <2>3, <2>4 DEF Ids
<1>6. TimesOf(executed)[<<c, 1, num>>] = 1
  BY <1>2, <1>3, <1>5 DEF TimesOf, WasExecuted
<1>7. QED
  BY <1>4, <1>6, TimesMapped

\* The call that a client makes has a number of its own, and has not been executed.
LEMMA NextCallCounted ==
  ASSUME ServiceConditions, AllInv, AllInv', NEW c \in Clients, MakesCall(c), pc[c] # "down",
         pending'[c].call.callType # "Start"
  PROVE  /\ statusMapped'[c] = "waiting" /\ callingMapped'[c] = <<c, 1, messageNum[c]>>
         /\ <<c, 1, messageNum[c]>> \in Ids /\ timesMapped[<<c, 1, messageNum[c]>>] = 0
         /\ pending'[c].call # pending[c].call \/ pc[c] # "rpc"
<1>1. /\ pc'[c] = "rpc" /\ messageNum[c] \in Nat
      /\ runs'[c] = runs[c] /\ runs[c] = 1
      /\ messageNum'[c] = messageNum[c] + 1 /\ pending'[c].call.num = messageNum'[c] - 1
  BY NodeTypes DEF MakesCall, Calls, AllInv, ServiceInv, FirstRuns
<1>2. PICK num : num = messageNum[c]
  OBVIOUS
<1>3. pending'[c].call.num = num
  BY <1>1, <1>2
<1>4. statusMapped'[c] = "waiting" /\ callingMapped'[c] = <<c, 1, num>>
  BY <1>1, <1>3 DEF statusMapped, callingMapped, Starting
<1>5. <<c, 1, num>> \in Ids
  <2>1. messageNum'[c] <= MaxCalls + 2
    BY DEF AllInv, ServiceInv, CallsInv, NumbersBounded
  <2>2. num \in 0 .. MaxCalls + 1
    BY <1>1, <1>2, <2>1
  <2>3. 1 \in 1 .. MaxClientRuns
    BY DEF ServiceConditions
  <2>4. QED
    BY <2>2, <2>3 DEF Ids
<1>6. <<1, c, 1, num>> \notin executed
  <2>1. ASSUME <<1, c, 1, num>> \in executed
        PROVE  FALSE
    <3>1. PICK e \in executed : e = <<1, c, 1, num>>
      BY <2>1
    <3>2. WasMade(c, e)
      BY <3>1 DEF AllInv, AtMostOnceInv, ClientInv, ExecutedWasMade
    <3>3. e[3] = 1 /\ e[4] = num
      BY <3>1
    <3>4. Before(1, num, 1, num)
      BY <1>1, <1>2, <3>2, <3>3 DEF WasMade
    <3>5. QED
      BY <1>1, <1>2, <3>4 DEF Before
  <2>2. QED
    BY <2>1
<1>7. timesMapped[<<c, 1, num>>] = 0
  <2>1. TimesOf(executed)[<<c, 1, num>>] = 0
    BY <1>5, <1>6 DEF TimesOf
  <2>2. QED
    BY <2>1, TimesMapped
<1>8. pending'[c].call # pending[c].call \/ pc[c] # "rpc"
  BY <1>1 DEF AllInv, AtMostOnceInv, ClientInv, PendingIsLast
<1>9. QED
  BY <1>2, <1>4, <1>5, <1>7, <1>8

\* The step of one client is one of the service, or none.
LEMMA ClientRefines ==
  ASSUME ServiceConditions, AllInv, AllInv', NEW c \in Clients, UserStep(c) \/ ClientStep(c)
  PROVE  [Service!Next]_(Service!serviceVars)
<1>1. PICK s, id : s = statusMapped'[c] /\ id = callingMapped'[c]
  OBVIOUS
<1>2. ClientKind(c) /\ OthersKept(c)
  BY ClientKinds DEF ClientKind, Leaves, Returns, TakesUpdate, Idles, MakesCall, Calls, WaitsOn, Waits
<1>3. /\ statusMapped' = [ statusMapped EXCEPT ![c] = s ]
      /\ callingMapped' = [ callingMapped EXCEPT ![c] = id ]
      /\ timesMapped' = timesMapped
  BY <1>1, <1>2, OnlyOneMapped
<1>4. statusMapped \in [ Clients -> {"away", "waiting", "idle"} ]
      /\ callingMapped = [ d \in Clients |-> callingMapped[d] ]
  BY DEF statusMapped, callingMapped
<1>5. ASSUME s = statusMapped[c], id = callingMapped[c]
      PROVE  [Service!Next]_(Service!serviceVars)
  BY <1>3, <1>4, <1>5 DEF Service!serviceVars
<1>6. \A d \in Clients : statusMapped[d] = "away" => callingMapped[d] = <<>>
  BY DEF statusMapped, callingMapped
<1>7. ASSUME s = "away", id = <<>>
      PROVE  [Service!Next]_(Service!serviceVars)
  <2>1. CASE statusMapped[c] = "away"
    BY <1>5, <1>6, <1>7, <2>1
  <2>2. CASE statusMapped[c] # "away"
    <3>1. Service!Leave(c)
      BY <1>3, <1>7, <2>2 DEF Service!Leave, Service!NoId
    <3>2. QED
      BY <3>1 DEF Service!Next
  <2>3. QED
    BY <2>1, <2>2
<1>8. CASE Leaves(c)
  <2>1. s = "away" /\ id = <<>>
    BY <1>1, <1>8 DEF Leaves, statusMapped, callingMapped
  <2>2. QED
    BY <1>7, <2>1
<1>9. CASE Returns(c)
  <2>1. s = "idle" /\ id = <<>> /\ pc[c] = "rpc"
    BY <1>1, <1>9 DEF Returns, Answered, statusMapped, callingMapped, Starting
  <2>2. CASE Starting(c)
    <3>1. statusMapped[c] = "away" /\ callingMapped[c] = <<>>
      BY <2>2 DEF statusMapped, callingMapped
    <3>2. Service!Join(c)
      BY <1>3, <1>4, <2>1, <3>1 DEF Service!Join
    <3>3. QED
      BY <3>2 DEF Service!Next
  <2>3. CASE ~Starting(c)
    <3>1. statusMapped[c] = "waiting"
      BY <2>1, <2>3 DEF statusMapped
    <3>2. timesMapped[callingMapped[c]] = 1
      BY <1>9, <2>1, <2>3, AnsweredCounted DEF Returns
    <3>3. Service!Answer(c)
      BY <1>3, <2>1, <3>1, <3>2 DEF Service!Answer, Service!NoId
    <3>4. QED
      BY <3>3 DEF Service!Next
  <2>4. QED
    BY <2>2, <2>3
<1>10. CASE TakesUpdate(c) \/ Idles(c) \/ WaitsOn(c)
  <2>1. pc'[c] = pc[c] /\ runs'[c] = runs[c] /\ pending'[c].call = pending[c].call
    BY <1>10 DEF TakesUpdate, Idles, WaitsOn, Waits, senderVars
  <2>2. s = statusMapped[c] /\ id = callingMapped[c]
    BY <1>1, <2>1 DEF statusMapped, callingMapped, Starting
  <2>3. QED
    BY <1>5, <2>2
<1>11. CASE MakesCall(c)
  <2>1. pc'[c] = "rpc"
    BY <1>11 DEF MakesCall, Calls
  <2>2. CASE pending'[c].call.callType = "Start"
    <3>1. s = "away" /\ id = <<>>
      BY <1>1, <2>1, <2>2 DEF statusMapped, callingMapped, Starting
    <3>2. QED
      BY <1>7, <3>1
  <2>3. CASE pending'[c].call.callType # "Start"
    <3>1. pc[c] # "down"
      BY <2>1, <2>3, GoesOnAnswered
    <3>2. /\ s = "waiting" /\ id = <<c, 1, messageNum[c]>>
          /\ id \in Ids /\ timesMapped[id] = 0
          /\ pending'[c].call # pending[c].call \/ pc[c] # "rpc"
      BY <1>1, <1>11, <2>1, <2>3, <3>1, NextCallCounted
    <3>3. CASE pc[c] \in {"ready", "monitor"}
      <4>1. statusMapped[c] = "idle"
        BY <3>3 DEF statusMapped, Starting
      <4>2. Service!Issue(c)
        BY <1>3, <3>2, <4>1 DEF Service!Issue
      <4>3. QED
        BY <4>2 DEF Service!Next
    <3>4. CASE pc[c] = "rpc"
      <4>1. Answered(c) /\ pending[c].call.callType # "Start"
        BY <2>1, <3>2, <3>4, GoesOnAnswered
      <4>2. statusMapped[c] = "waiting" /\ ~Starting(c)
        BY <3>4, <4>1 DEF statusMapped, Starting
      <4>3. timesMapped[callingMapped[c]] = 1
        BY <4>1, <4>2, AnsweredCounted
      <4>4. Service!Continue(c)
        BY <1>3, <1>4, <3>2, <4>2, <4>3 DEF Service!Continue
      <4>5. QED
        BY <4>4 DEF Service!Next
    <3>5. QED
      BY <3>1, <3>3, <3>4 DEF AllInv, BasicTypeOK, SenderTypeOK
  <2>4. QED
    BY <2>2, <2>3
<1>12. QED
  BY <1>2, <1>8, <1>9, <1>10, <1>11 DEF ClientKind

\* A step of the server executes one call at most.
LEMMA ServerExecutes ==
  ASSUME AllInv, ServerStep
  PROVE  \/ UNCHANGED executed
         \/ \E c \in Clients, num \in Nat :
              num < messageNum[c] /\ executed' = executed \cup {<<1, c, 1, num>>}
<1>1. CASE Record /\ Serving
  <2>1. PICK c, num : c = Caller /\ num = Request.num
    OBVIOUS
  <2>2. c \in Clients /\ num \in Nat /\ Execution = <<1, c, 1, num>>
    BY <1>1, <2>1, ServedCall DEF Execution
  <2>3. num < messageNum[c]
    <3>1. 1 \in DOMAIN Queue /\ Queue[1].msg.num = num /\ IsCall(Queue[1], c)
      BY <1>1, <2>1, ServedCall
    <3>2. QED
      BY <2>2, <3>1, AnswerNumbers DEF Queue
  <2>4. executed' = executed \cup {<<1, c, 1, num>>}
    BY <1>1, <2>2 DEF Record
  <2>5. QED
    BY <2>2, <2>3, <2>4
<1>2. CASE \/ FailEdit \/ EditUnmonitored \/ EditMonitored \/ Register \/ Unregister
           \/ GetMode \/ TellModification \/ DumpFile
  <2>1. Record /\ Serving
    BY <1>2 DEF FailEdit, EditUnmonitored, EditMonitored, Edit, Register, Unregister, GetMode,
                TellModification, DumpFile, Executing
  <2>2. QED
    BY <1>1, <2>1
<1>3. CASE \/ AnswerDuplicate \/ NotifyNext \/ NotifiedAll \/ GreetClient
           \/ ServeLateAcknowledgement \/ ServeMalformed \/ ServerDiscards
           \/ ServerRetransmits \/ ServerGivesUp
  BY <1>3 DEF AnswerDuplicate, NotifyNext, NotifiedAll, GreetClient, ServeLateAcknowledgement,
     ServeMalformed, ServerDiscards, ServerRetransmits, ServerGivesUp, serverVars
<1>4. QED
  BY <1>2, <1>3 DEF ServerStep

\* The step of the server is an execution, or no step of the service.
LEMMA ServerRefines ==
  ASSUME ServiceConditions, AllInv, AllInv', ServerStep
  PROVE  [Service!Next]_(Service!serviceVars)
<1>1. \A c \in Clients : pc'[c] = pc[c] /\ pending'[c] = pending[c] /\ runs'[c] = runs[c]
  <2>1. ServerMoves
    BY ServerKinds DEF AllInv, ServerKind, ServerKeeps
  <2>2. QED
    BY <2>1 DEF ServerMoves
<1>2. statusMapped' = statusMapped /\ callingMapped' = callingMapped
  BY <1>1 DEF statusMapped, callingMapped, Starting
<1>3. timesMapped = TimesOf(executed) /\ timesMapped' = TimesOf(executed')
  BY TimesMapped
<1>4. CASE UNCHANGED executed
  BY <1>2, <1>3, <1>4 DEF Service!serviceVars
<1>5. ASSUME NEW c \in Clients, NEW num \in Nat, num < messageNum[c],
             executed' = executed \cup {<<1, c, 1, num>>}, <<1, c, 1, num>> \notin executed
      PROVE  [Service!Next]_(Service!serviceVars)
  <2>1. PICK id : id = <<c, 1, num>>
    OBVIOUS
  <2>2. id \in Ids
    <3>1. messageNum[c] <= MaxCalls + 2 /\ messageNum[c] \in Nat
      BY NodeTypes DEF AllInv, ServiceInv, CallsInv, NumbersBounded
    <3>2. num \in 0 .. MaxCalls + 1
      BY <1>5, <3>1
    <3>3. 1 \in 1 .. MaxClientRuns
      BY DEF ServiceConditions
    <3>4. QED
      BY <2>1, <3>2, <3>3 DEF Ids
  <2>3. timesMapped[id] = 0
    BY <1>3, <1>5, <2>1, <2>2 DEF TimesOf
  <2>4. timesMapped' = [ timesMapped EXCEPT ![id] = 1 ]
    <3>1. ASSUME NEW other \in Ids
          PROVE  timesMapped'[other] = IF other = id THEN 1 ELSE timesMapped[other]
      <4>1. other = <<other[1], other[2], other[3]>> /\ other[2] = 1
        BY DEF Ids, ServiceConditions
      <4>2. <<1, other[1], 1, other[3]>> = <<1, c, 1, num>> <=> other = id
        BY <2>1, <4>1
      <4>3. <<1, other[1], 1, other[3]>> \in executed'
              <=> other = id \/ <<1, other[1], 1, other[3]>> \in executed
        BY <1>5, <4>2
      <4>4. QED
        BY <1>3, <4>3 DEF TimesOf
    <3>2. timesMapped = [ other \in Ids |-> timesMapped[other] ]
          /\ timesMapped' = [ other \in Ids |-> timesMapped'[other] ]
      BY <1>3 DEF TimesOf
    <3>3. QED
      BY <2>2, <3>1, <3>2
  <2>5. Service!Execute
    BY <1>2, <2>2, <2>3, <2>4 DEF Service!Execute
  <2>6. QED
    BY <2>5 DEF Service!Next
<1>6. QED
  <2>1. CASE \E c \in Clients, num \in Nat :
               num < messageNum[c] /\ executed' = executed \cup {<<1, c, 1, num>>}
    <3>1. PICK c \in Clients, num \in Nat :
            num < messageNum[c] /\ executed' = executed \cup {<<1, c, 1, num>>}
      BY <2>1
    <3>2. <<1, c, 1, num>> \in executed => UNCHANGED executed
      BY <3>1
    <3>3. QED
      BY <1>4, <1>5, <3>1, <3>2
  <2>2. QED
    BY <1>4, <2>1, ServerExecutes

\* At first every client is away and nothing has been executed.
LEMMA InitRefines ==
  ASSUME ServiceConditions, Init
  PROVE  Service!Init
<1>1. /\ \A c \in Clients : pc[c] = "down"
      /\ executed = {} /\ reexecuted = {}
  BY DEF Init, SenderInit, ServerInit
<1>2. statusMapped = [ c \in Clients |-> "away" ] /\ callingMapped = [ c \in Clients |-> <<>> ]
  BY <1>1 DEF statusMapped, callingMapped
<1>3. timesMapped = [ id \in Ids |-> 0 ]
  <2>1. ASSUME NEW id \in Ids
        PROVE  timesMapped[id] = 0
    <3>1. timesMapped[id] =
            Cardinality(ExecutionsOf(executed, id)) + Cardinality(ExecutionsOf(reexecuted, id))
      BY DEF timesMapped, ExecutionsOf
    <3>2. ExecutionsOf(executed, id) = {} /\ ExecutionsOf(reexecuted, id) = {}
      BY <1>1 DEF ExecutionsOf
    <3>3. QED
      BY <3>1, <3>2, FS_EmptySet
  <2>2. QED
    BY <2>1 DEF timesMapped
<1>4. QED
  BY <1>2, <1>3 DEF Service!Init, Service!NoId

\* Every step of the system is one of the service, or none.
LEMMA NextRefines ==
  ASSUME ServiceConditions, AllInv, AllInv', [Next]_vars
  PROVE  [Service!Next]_(Service!serviceVars)
<1>1. ~Restart
  BY DEF Restart, ServiceConditions, AllInv, ServiceInv, FirstRuns
<1>2. CASE UNCHANGED vars
  BY <1>2 DEF vars, senderVars, serverVars, Service!serviceVars, statusMapped, callingMapped,
     timesMapped, Starting
<1>3. QED
  BY <1>1, <1>2, ClientRefines, ServerRefines DEF Next

\* The clients, the server and the packets between them implement remote invocation
\* under at-most-once semantics: behind the losses, the retransmissions, the
\* duplicates and the late answers, each call is executed at most once, and a
\* client that goes on after a call has had this call executed.
THEOREM ServiceImplemented ==
  ASSUME ServiceConditions
  PROVE  Spec => ImplementsAtMostOnce
<1>1. Init => Service!Init
  BY InitRefines
<1>2. AllInv /\ AllInv' /\ [Next]_vars => [Service!Next]_(Service!serviceVars)
  BY NextRefines
<1>3. QED
  BY <1>1, <1>2, AllInvHolds, PTL DEF Spec, ImplementsAtMostOnce, Service!Spec
=============================================================================
