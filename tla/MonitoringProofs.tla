-------------------------- MODULE MonitoringProofs --------------------------
(***************************************************************************)
(* The proof that a client that monitors is in the monitor table and has   *)
(* been shown the files it registered for as they are, that a client at    *)
(* the prompt is not in the table, and that the server gives up on no      *)
(* client that hears it, under the conditions of ServiceProofs.            *)
(***************************************************************************)
EXTENDS MonitoringInvariants, ServiceProofs

USE SenderAssumption, ClientAssumption, ServerAssumption DEF Nodes

\* What is known of a state.
AllMonitoring == AllInv /\ MonitorsTypeOK /\ MonitoringInv

\* The entries are for files of the system.
LEMMA EntriesType ==
  ASSUME MonitorsTypeOK
  PROVE  monitors \in Seq(Entry) /\ \A e \in ToSet(monitors) : e \in Entry /\ e.filepath \in Files
<1>1. monitors \in Seq(Entry)
  BY DEF MonitorsTypeOK, Entry
<1>2. \A i \in DOMAIN monitors : monitors[i] \in Entry
  BY <1>1
<1>3. \A e \in Entry : e.filepath \in Files
  BY DEF Entry
<1> QED BY <1>1, <1>2, <1>3 DEF ToSet

-----------------------------------------------------------------------------
(* The steps of a client.                                                   *)

\* What happens to the calls by which a client monitors.
CallFlow(c) ==
  /\ pc[c] = "rpc" /\ pc'[c] = "ready" => pending[c].call.callType # "Monitor"
  /\ pc[c] = "ready" /\ pc'[c] = "rpc" => pending'[c].call.callType # "MonitorEnd"
  /\ pc[c] = "monitor" /\ pc'[c] = "rpc" => pending'[c].call.callType = "MonitorEnd"
  /\ pc[c] = "rpc" /\ pc'[c] = "rpc" /\ messageNum'[c] # messageNum[c] =>
       /\ Answered(c)
       /\ pending[c].call.callType \in {"Fresh", "Dump"}
       /\ pending'[c].call.callType \in {"Fresh", "Dump"}

\* What happens to the files it has shown: an update is accepted and shown.
ShowFlow(c) ==
  \/ /\ UNCHANGED shown
     /\ pc[c] # "down" => prevPacketNumber'[c] = prevPacketNumber[c]
  \/ LET msg == Packet(c).msg IN
     /\ pc[c] = "monitor" /\ Arrived(c)
     /\ IsUpdate(msg) /\ msg.num > prevPacketNumber[c]
     /\ prevPacketNumber'[c] = msg.num
     /\ shown' = [ shown EXCEPT ![c][msg.strs[1]] = msg.strs[2] ]

\* The server accepts every Monitor.
LEMMA MonitorAccepted ==
  ASSUME AllInv, NEW c \in Clients, Answered(c), pending[c].call.callType = "Monitor"
  PROVE  LET resp == Packet(c).msg IN
         /\ resp.callType = "Monitor"
         /\ resp.ints # <<>> /\ resp.ints[1] = Good
<1>1. inbox[c] \in Seq(Packets) /\ inbox[c] # <<>> /\ pc[c] = "rpc"
  BY NodeTypes DEF AllInv, Answered, Arrived
<1>2. 1 \in DOMAIN inbox[c] /\ Packet(c) = inbox[c][1]
  BY <1>1, TakenQueue DEF Packet
<1>3. inbox[c][1].msg.callType = "Monitor" /\ inbox[c][1].msg.num = messageNum[c] - 1
  BY <1>1, <1>2 DEF Answered, IsAnswer, AllInv, AtMostOnceInv, ClientInv, PendingIsLast
<1>4. AnswerToLast(c, inbox[c][1].msg.num, inbox[c][1].msg)
  BY <1>2, <1>3 DEF AllInv, ServiceInv, AnswersInv, LastCall, IsResponse, IsUpdate
<1>5. Answers(pending[c].call, inbox[c][1].msg)
  BY <1>1, <1>3, <1>4 DEF AnswerToLast
<1> QED BY <1>2, <1>3, <1>5 DEF Answers

\* No user enters the end of a monitoring.
LEMMA EnteredNoEnd ==
  ASSUME BasicTypeOK, EndsOnce, NEW c \in Clients, NEW msg \in Entered(c)
  PROVE  msg.callType # "MonitorEnd"
<1>1. PICK command \in Commands[c] \ {"q"} : msg \in MessagesFor(command, c)
  BY DEF Entered
<1>2. Commands[c] \subseteq {"insert", "shift", "mode", "monitor", "read", "other", "q"}
  OBVIOUS
<1>3. CASE command = "other"
  BY <1>1, <1>3 DEF MessagesFor, EndsOnce
<1>4. CASE command # "other"
  <2>1. command \in {"insert", "shift", "mode", "monitor", "read"}
    BY <1>1, <1>2, <1>4
  <2> QED BY <1>1, <2>1 DEF MessagesFor, Message
<1> QED BY <1>3, <1>4

\* Two strings are not none.
LEMMA TwoNotNone ==
  ASSUME NEW q, Len(q) = 2
  PROVE  q # <<>>
<1>1. Len(<<>>) = 0
  OBVIOUS
<1>2. ASSUME q = <<>> PROVE FALSE
  <2>1. Len(q) = 0
    BY <1>1, <1>2
  <2> QED BY <2>1
<1> QED BY <1>2

\* Every step of a client goes this way.
LEMMA ClientStepFlow ==
  ASSUME ServiceConditions, AllInv, EndsOnce, NEW c \in Clients, UserStep(c) \/ ClientStep(c)
  PROVE  EndsOnce' /\ CallFlow(c) /\ ShowFlow(c)
<1> USE DEF AllInv
<1>1. /\ c \in Nodes /\ messageNum[c] \in Nat /\ messageNum \in [ Nodes -> Nat ]
      /\ lastMessage \in [ Clients -> Messages ]
      /\ prevPacketNumber \in [ Clients -> Int ]
      /\ pc \in [ Nodes -> {"down", "ready", "rpc", "monitor"} ]
      /\ pending \in [ Nodes -> [ call : Messages, sa : Nodes, tries : 0 .. NUM_TIMEOUTS ] ]
  BY DEF BasicTypeOK, SenderTypeOK, ClientTypeOK
<1>2. ASSUME UNCHANGED lastMessage PROVE EndsOnce'
  BY <1>2 DEF EndsOnce
<1>3. ASSUME NEW msg, lastMessage' = [ lastMessage EXCEPT ![c] = msg ], msg.callType # "MonitorEnd"
      PROVE  EndsOnce'
  BY <1>1, <1>3 DEF EndsOnce
<1>4. ASSUME UNCHANGED <<shown, prevPacketNumber>> PROVE ShowFlow(c)
  BY <1>4 DEF ShowFlow
<1>5. ASSUME pc'[c] = "down" PROVE CallFlow(c)
  BY <1>5 DEF CallFlow
<1>6. ASSUME pc'[c] = "ready", pc[c] = "rpc" => pending[c].call.callType # "Monitor"
      PROVE  CallFlow(c)
  BY <1>6 DEF CallFlow
<1>7. ASSUME pc' = pc, UNCHANGED messageNum
      PROVE  CallFlow(c)
  BY <1>7 DEF CallFlow
<1>8. ASSUME NEW queues, NEW msg, NEW num, NEW run, SendMessage(queues, c, Srv, msg, num, run),
             \/ pc[c] = "down"
             \/ pc[c] = "ready" /\ msg.callType # "MonitorEnd"
             \/ pc[c] = "monitor" /\ msg.callType = "MonitorEnd"
             \/ /\ pc[c] = "rpc" /\ Answered(c)
                /\ pending[c].call.callType \in {"Fresh", "Dump"}
                /\ msg.callType \in {"Fresh", "Dump"}
      PROVE  CallFlow(c)
  <2>1. pending'[c].call.callType = msg.callType
    BY <1>1, <1>8, SendMessageCall
  <2>2. pc'[c] = "rpc"
    BY <1>1, <1>8 DEF SendMessage
  <2> QED BY <1>8, <2>1, <2>2 DEF CallFlow
<1>9. CASE Launch(c)
  <2>1. /\ SendMessage(inbox, c, Srv, Message("Start", <<>>, <<>>), 0, runs[c] + 1)
        /\ pc[c] = "down" /\ UNCHANGED shown
        /\ lastMessage' = [ lastMessage EXCEPT ![c] = NoMessage ]
    BY <1>9 DEF Launch
  <2>2. NoMessage.callType # "MonitorEnd"
    BY DEF NoMessage, Message
  <2> QED BY <1>3, <1>8, <2>1, <2>2 DEF ShowFlow
<1>10. CASE EnterCommand(c)
  <2>1. PICK msg \in Entered(c) : SendMessage(inbox, c, Srv, msg, messageNum[c], runs[c])
    BY <1>10 DEF EnterCommand
  <2>2. pc[c] = "ready" /\ UNCHANGED clientVars
    BY <1>10 DEF EnterCommand
  <2>3. msg.callType # "MonitorEnd"
    BY EnteredNoEnd
  <2> QED BY <1>2, <1>4, <1>8, <2>1, <2>2, <2>3 DEF clientVars
<1>11. CASE Quit(c) \/ ReadMalformed(c) \/ ClientGivesUp(c)
  <2>1. Exit(c) /\ UNCHANGED clientVars
    BY <1>11 DEF Quit, ReadMalformed, ClientGivesUp
  <2>2. pc'[c] = "down"
    BY <1>1, <2>1 DEF Exit
  <2> QED BY <1>2, <1>4, <1>5, <2>1, <2>2 DEF clientVars
<1>12. CASE ReadLocally(c)
  <2>1. PICK request, edition :
          lastMessage' = [ lastMessage EXCEPT ![c] = CopyRead(request, edition) ]
    BY <1>12 DEF ReadLocally
  <2>2. CopyRead(request, edition).callType = "Read"
    BY DEF CopyRead, Message
  <2>3. UNCHANGED <<shown, prevPacketNumber, pc, messageNum>>
    BY <1>12 DEF ReadLocally, senderVars
  <2> QED BY <1>3, <1>4, <1>7, <2>1, <2>2, <2>3
<1>13. CASE AskForFile(c) \/ AskWhetherFresh(c)
  <2>1. PICK request \in Requests(c), callType \in {"Fresh", "Dump"} :
          /\ StartRead(c, request) /\ Ask(c, callType, request.strs[1], inbox)
    BY <1>13 DEF AskForFile, AskWhetherFresh
  <2>2. /\ lastMessage' = [ lastMessage EXCEPT ![c] = request ] /\ request.callType = "Read"
        /\ pc[c] = "ready" /\ UNCHANGED <<shown, prevPacketNumber>>
    BY <2>1 DEF StartRead, Requests
  <2>3. PICK msg : msg = Message(callType, <<>>, <<request.strs[1]>>)
    OBVIOUS
  <2>4. SendMessage(inbox, c, Srv, msg, messageNum[c], runs[c]) /\ msg.callType # "MonitorEnd"
    BY <2>1, <2>3 DEF Ask, Message
  <2> QED BY <1>3, <1>4, <1>8, <2>2, <2>4
<1>14. CASE ReceiveResponse(c)
  <2>1. PICK resp : resp = Packet(c).msg
    OBVIOUS
  <2>2. /\ Answered(c) /\ resp \in Messages /\ resp.callType = pending[c].call.callType
        /\ pc[c] = "rpc" /\ resp.callType # "MonitorEnd"
    BY <1>1, <1>14, <2>1, ConsumedType DEF ReceiveResponse, Answered, IsAnswer, BasicTypeOK
  <2>3. /\ pc'[c] = AfterResponse(resp)
        /\ lastMessage' = [ lastMessage EXCEPT ![c] = Numbered(resp, 0, 0) ]
        /\ UNCHANGED <<shown, prevPacketNumber>>
    BY <1>1, <1>14, <2>1 DEF ReceiveResponse
  <2>4. Numbered(resp, 0, 0).callType # "MonitorEnd"
    BY <2>2, NumberedType
  <2>5. AfterResponse(resp) \in {"down", "ready", "monitor"}
    BY DEF AfterResponse, Garbage, Good
  <2>6. resp.callType = "Monitor" => AfterResponse(resp) = "monitor"
    BY <2>1, <2>2, MonitorAccepted DEF AfterResponse
  <2>7. CallFlow(c)
    BY <2>2, <2>3, <2>5, <2>6 DEF CallFlow
  <2> QED BY <1>3, <1>4, <2>3, <2>4, <2>7
<1>15. CASE ReceiveEndResponse(c)
  <2>1. /\ pc'[c] = "ready" /\ pending[c].call.callType = "MonitorEnd" /\ UNCHANGED clientVars
    BY <1>1, <1>15 DEF ReceiveEndResponse
  <2> QED BY <1>2, <1>4, <1>6, <2>1 DEF clientVars
<1>16. CASE ReceiveNoFile(c) \/ ReceiveFile(c) \/ ReceiveUnmodified(c)
  <2>1. PICK resp : FinishRead(c, resp) /\ resp.callType = "Read"
    BY <1>16 DEF ReceiveNoFile, ReceiveFile, ReceiveUnmodified, CopyRead, FileMissing, Message
  <2>2. /\ pc'[c] = "ready" /\ lastMessage' = [ lastMessage EXCEPT ![c] = resp ]
    BY <1>1, <2>1 DEF FinishRead
  <2>3. pending[c].call.callType \in {"Fresh", "Dump"} /\ UNCHANGED <<shown, prevPacketNumber>>
    BY <1>16 DEF ReceiveNoFile, ReceiveFile, ReceiveUnmodified, StoreCopy, ReceiveForCache
  <2> QED BY <1>3, <1>4, <1>6, <2>1, <2>2, <2>3
<1>17. CASE ReceiveFileAndAsk(c) \/ ReceiveModified(c)
  <2>1. PICK callType \in {"Fresh", "Dump"} : Ask(c, callType, Path(c), Consumed(c))
    BY <1>17 DEF ReceiveFileAndAsk, ReceiveModified
  <2>2. /\ pending[c].call.callType \in {"Fresh", "Dump"} /\ Answered(c) /\ pc[c] = "rpc"
        /\ UNCHANGED <<shown, prevPacketNumber, lastMessage>>
    BY <1>17 DEF ReceiveFileAndAsk, ReceiveModified, StoreCopy, ReceiveForCache, Answered
  <2>3. PICK msg : msg = Message(callType, <<>>, <<Path(c)>>)
    OBVIOUS
  <2>4. SendMessage(Consumed(c), c, Srv, msg, messageNum[c], runs[c])
        /\ msg.callType \in {"Fresh", "Dump"}
    BY <2>1, <2>3 DEF Ask, Message
  <2> QED BY <1>2, <1>4, <1>8, <2>2, <2>4
<1>18. ASSUME TakePacket(c)
       PROVE  /\ UNCHANGED <<lastMessage, messageNum>> /\ pc[c] = "monitor" /\ Arrived(c)
              /\ IsUpdate(Packet(c).msg) \/ Packet(c).msg.strs = <<>>
              /\ IsUpdate(Packet(c).msg) => Len(Packet(c).msg.strs) = 2
  BY <1>18, MonitorHead DEF TakePacket
<1>19. CASE ShowUpdate(c)
  <2>1. PICK msg : msg = Packet(c).msg
    OBVIOUS
  <2>2. /\ TakePacket(c) /\ IsNew(c, msg) /\ Len(msg.strs) = 2
        /\ shown' = [ shown EXCEPT ![c][msg.strs[1]] = msg.strs[2] ]
        /\ AcceptNumber(c, msg) /\ UNCHANGED pc
    BY <1>19, <2>1 DEF ShowUpdate
  <2>3. IsUpdate(msg)
    <3>1. TakePacket(c) /\ Len(msg.strs) = 2
      BY <2>2
    <3>2. msg.strs # <<>>
      BY <3>1, TwoNotNone
    <3> QED BY <1>18, <2>1, <3>1, <3>2
  <2>4. prevPacketNumber'[c] = msg.num /\ msg.num > prevPacketNumber[c]
    BY <1>1, <2>2 DEF AcceptNumber, IsNew, ServiceConditions
  <2>5. ShowFlow(c)
    BY <1>18, <2>1, <2>2, <2>3, <2>4 DEF ShowFlow
  <2> QED BY <1>2, <1>7, <1>18, <2>2, <2>5
<1>20. CASE CrashOnMissingContent(c) \/ SurviveMissingContent(c)
  <2>1. TakePacket(c) /\ IsNew(c, Packet(c).msg) /\ Len(Packet(c).msg.strs) < 2
    BY <1>20 DEF CrashOnMissingContent, SurviveMissingContent, LacksContent
  <2>2. Packet(c).msg.strs = <<>>
    BY <1>18, <2>1
  <2>3. CrashOnMissingContent(c)
    BY <1>20, <2>2 DEF SurviveMissingContent
  <2>4. pc'[c] = "down" /\ UNCHANGED <<shown, prevPacketNumber>>
    BY <1>1, <2>3 DEF CrashOnMissingContent
  <2> QED BY <1>2, <1>4, <1>5, <1>18, <2>1, <2>4
<1>21. CASE IgnoreDuplicate(c)
  <2>1. TakePacket(c) /\ UNCHANGED <<pc, shown, prevPacketNumber>>
    BY <1>21 DEF IgnoreDuplicate
  <2> QED BY <1>2, <1>4, <1>7, <1>18, <2>1
<1>22. CASE EndMonitoring(c)
  <2>1. PICK msg : msg = Message("MonitorEnd", <<>>, <<>>)
    OBVIOUS
  <2>2. /\ SendMessage(inbox, c, Srv, msg, messageNum[c], runs[c]) /\ msg.callType = "MonitorEnd"
        /\ pc[c] = "monitor" /\ UNCHANGED clientVars
    BY <1>22, <2>1 DEF EndMonitoring, Message
  <2> QED BY <1>2, <1>4, <1>8, <2>2 DEF clientVars
<1>23. CASE ClientDiscards(c) \/ ClientRetransmits(c)
  <2>1. UNCHANGED <<pc, messageNum, clientVars>>
    BY <1>23 DEF ClientDiscards, ClientRetransmits, DiscardImproper, Retransmit
  <2> QED BY <1>2, <1>4, <1>7, <2>1 DEF clientVars
<1> QED
  BY <1>9, <1>10, <1>11, <1>12, <1>13, <1>14, <1>15, <1>16, <1>17, <1>19, <1>20, <1>21, <1>22, <1>23
     DEF UserStep, ClientStep

\* What happens to the calls that may still be executed: when a client goes on, the
\* call it has made was executed.
LEMMA ClientOthersExecuted ==
  ASSUME ServiceConditions, AllMonitoring, BasicTypeOK', NEW c \in Clients, ClientMove(c),
         CallFlow(c), NEW d \in Clients
  PROVE  OthersExecuted(d)'
<1> USE DEF AllMonitoring
<1>1. /\ OthersKept(c) /\ UNCHANGED executed
      /\ pc'[c] = "rpc" => pending'[c].call.num = messageNum'[c] - 1
      /\ \A j \in DOMAIN Queue' : IsCall(Queue'[j], d) =>
           \/ j \in DOMAIN Queue /\ Queue'[j] = Queue[j]
           \/ d = c /\ pc'[c] = "rpc" /\ Queue'[j].msg = pending'[c].call
  BY CallsAfter DEF OthersKept, serverVars
<1> SUFFICES ASSUME NEW j \in DOMAIN Queue', IsCall(Queue'[j], d), pc'[d] # "down",
                    pc'[d] = "rpc" => Queue'[j].msg.num # messageNum'[d] - 1
             PROVE  Queue'[j].msg.callType = "Start" \/ WasExecuted(d, Queue'[j].msg.num)
  BY <1>1 DEF OthersExecuted, Queue, WasExecuted
<1>2. j \in DOMAIN Queue /\ Queue'[j] = Queue[j] /\ IsCall(Queue[j], d)
  BY <1>1
<1> DEFINE call == Queue[j].msg
<1>3. OthersExecuted(d) /\ call.num \in Nat /\ messageNum[d] \in Nat /\ call.num < messageNum[d]
  BY <1>2, AnswerNumbers DEF MonitoringInv, TableInv, ShownInv, Queue
<1>4. ASSUME pc[d] # "down", pc[d] = "rpc" => call.num # messageNum[d] - 1
      PROVE  call.callType = "Start" \/ WasExecuted(d, call.num)
  BY <1>2, <1>3, <1>4 DEF OthersExecuted, Queue
<1>5. CASE d # c
  <2>1. pc'[d] = pc[d] /\ messageNum'[d] = messageNum[d]
    BY <1>1, <1>5 DEF OthersKept
  <2> QED BY <1>2, <1>4, <2>1
<1>6. CASE d = c
  <2>1. pc[c] # "down"
    <3>1. ASSUME pc[c] = "down" PROVE messageNum[c] = 0
      BY <1>6, <3>1
         DEF ClientMove, ClientKind, Returns, Answered, TakesUpdate, Idles, MakesCall, WaitsOn, Waits,
             Leaves, senderVars, ServiceConditions, AllInv, ServiceInv, FirstRuns
    <3> QED BY <1>3, <1>6, <3>1
  <2>2. CASE pc[c] = "rpc" /\ call.num = messageNum[c] - 1
    <3>1. call = pending[c].call
      BY <1>2, <1>6, <2>2 DEF AllInv, ServiceInv, AnswersInv, LastCall, CallOfLast, Queue
    <3>2. Answered(c)
      <4>1. ~(pc'[c] = "rpc" /\ messageNum'[c] = messageNum[c]) /\ pc'[c] # "down"
        BY <1>2, <1>6, <2>2
      <4> QED
        BY <4>1, <2>2
           DEF CallFlow, ClientMove, ClientKind, Returns, TakesUpdate, Idles, MakesCall, Calls,
               WaitsOn, Waits, Leaves, senderVars
    <3> QED BY <1>2, <1>6, <3>1, <3>2, AnsweredWasExecuted
  <2> QED BY <1>2, <1>4, <1>6, <2>1, <2>2
<1> QED BY <1>5, <1>6

\* The table follows the client that monitors.
LEMMA ClientTableFollows ==
  ASSUME ServiceConditions, AllMonitoring, BasicTypeOK', NEW c \in Clients, ClientMove(c),
         UserStep(c) \/ ClientStep(c), CallFlow(c), NEW w \in Monitoring
  PROVE  TableFollows(w)'
<1> USE DEF AllMonitoring
<1>1. /\ OthersKept(c) /\ UNCHANGED <<executed, monitors>>
      /\ w \in Clients /\ messageNum[c] \in Nat /\ messageNum'[c] \in Nat /\ Srv \notin Clients
  BY CallsAfter, AnswerNumbers DEF OthersKept, serverVars, Monitoring
<1>2. TableFollows(w)
  BY DEF MonitoringInv, TableInv, ShownInv
<1>3. ASSUME pc'[w] # "down",
             pc[w] # "down" /\ IsRegistered(w)' = IsRegistered(w)
      PROVE  TableFollows(w)'
  BY <1>1, <1>2, <1>3 DEF TableFollows
<1>4. ASSUME pc'[w] = pc[w], messageNum'[w] = messageNum[w], pending'[w].call = pending[w].call
      PROVE  IsRegistered(w)' = IsRegistered(w)
  BY <1>1, <1>4 DEF IsRegistered, LastExecuted, WasExecuted
<1> SUFFICES ASSUME pc'[w] # "down" PROVE TableFollows(w)'
  BY DEF TableFollows
<1>5. CASE w # c
  <2>1. pc'[w] = pc[w] /\ messageNum'[w] = messageNum[w] /\ pending'[w].call = pending[w].call
    BY <1>1, <1>5 DEF OthersKept
  <2> QED BY <1>3, <1>4, <2>1
<1> SUFFICES ASSUME w = c PROVE TableFollows(w)'
  BY <1>5
<1>6. CASE Leaves(c)
  BY <1>6 DEF Leaves
<1>7. CASE Idles(c) \/ WaitsOn(c) \/ TakesUpdate(c)
  <2>1. pc'[c] = pc[c] /\ messageNum'[c] = messageNum[c] /\ pending'[c].call = pending[c].call
    BY <1>7 DEF Idles, WaitsOn, Waits, TakesUpdate, senderVars
  <2> QED BY <1>3, <1>4, <2>1
<1>8. CASE Returns(c)
  <2>1. /\ pc[c] = "rpc" /\ Answered(c)
        /\ pc'[c] = IF pending[c].call.callType = "Monitor" THEN "monitor" ELSE "ready"
    BY <1>8 DEF Returns, Answered, CallFlow
  <2>2. pending[c].call.callType # "Start" => LastExecuted(c)
    BY <2>1, AnsweredWasExecuted
       DEF LastExecuted, AllInv, AtMostOnceInv, ClientInv, PendingIsLast
  <2>3. IsRegistered(c) = (pending[c].call.callType = "Monitor")
    BY <2>1, <2>2 DEF IsRegistered
  <2>4. IsRegistered(c)' = (pending[c].call.callType = "Monitor")
    BY <2>1 DEF IsRegistered
  <2> QED BY <1>3, <2>1, <2>3, <2>4
<1>9. CASE MakesCall(c)
  <2>1. /\ pc'[c] = "rpc" /\ pc[c] \in {"down", "ready", "rpc", "monitor"}
        /\ messageNum'[c] = IF pc[c] = "down" THEN 1 ELSE messageNum[c] + 1
    BY <1>9, NodeTypes DEF MakesCall, Calls, AllInv
  <2>2. CASE pc[c] = "down"
    <3>1. pending'[c].call.callType = "Start"
      BY <2>1, <2>2, GoesOnAnswered
    <3>2. messageNum[c] = 0
      BY <1>9, <2>2 DEF MakesCall, ServiceConditions, AllInv, ServiceInv, FirstRuns
    <3>3. monitors = <<>>
      BY <3>2 DEF AllInv, ServiceInv, UpdatesInv, AcksInTime
    <3> QED BY <1>1, <2>1, <3>1, <3>3 DEF TableFollows, IsRegistered
  <2>3. CASE pc[c] # "down"
    <3>1. messageNum'[c] - 1 = messageNum[c] /\ ~LastExecuted(c)'
      <4>1. messageNum'[c] - 1 = messageNum[c]
        BY <1>1, <2>1, <2>3
      <4>2. ~WasExecuted(c, messageNum[c])
        BY <1>1, ExecutedNumber
      <4> QED BY <1>1, <4>1, <4>2 DEF LastExecuted, WasExecuted
    <3>2. IsRegistered(c)' = (pending'[c].call.callType = "MonitorEnd")
      BY <2>1, <3>1 DEF IsRegistered
    <3>3. IsRegistered(c) = (pending'[c].call.callType = "MonitorEnd")
      <4>1. messageNum'[c] # messageNum[c]
        BY <1>1, <3>1
      <4> QED BY <2>1, <2>3, <4>1 DEF IsRegistered, CallFlow
    <3> QED BY <1>3, <2>3, <3>2, <3>3
  <2> QED BY <2>2, <2>3
<1> QED BY <1>6, <1>7, <1>8, <1>9 DEF ClientMove, ClientKind

\* A client leaves the others alone.
LEMMA MoveKeepsOthers ==
  ASSUME NEW c \in Clients, ClientMove(c)
  PROVE  OthersKept(c)
  BY DEF ClientMove, Quiet, Calls, Waits

\* What is said of the updates and of the files shown stays true.
LEMMA ClientShows ==
  ASSUME ServiceConditions, AllMonitoring, BasicTypeOK', NEW c \in Clients, ClientMove(c),
         ShowFlow(c)
  PROVE  /\ UpdateTrue'
         /\ \A w \in Monitoring : EntriesShown(w)'
<1> USE DEF AllMonitoring
<1>1. /\ OthersKept(c) /\ UNCHANGED <<files, monitors, job>>
      /\ pc'[Srv] = pc[Srv] /\ pending'[Srv] = pending[Srv] /\ messageNum'[Srv] = messageNum[Srv]
      /\ Monitoring \subseteq Clients
      /\ shown \in [ Clients -> [ Files -> Nat ] ] /\ files \in [ Files -> Nat ]
  <2>1. OthersKept(c)
    BY MoveKeepsOthers
  <2>2. Srv \in Nodes \ {c} /\ Monitoring \subseteq Clients
    BY DEF Monitoring
  <2>3. shown \in [ Clients -> [ Files -> Nat ] ] /\ files \in [ Files -> Nat ]
    BY DEF AllInv, BasicTypeOK, ClientTypeOK, ServerTypeOK
  <2> QED BY <2>1, <2>2, <2>3 DEF OthersKept, serverVars
<1> DEFINE update == <<EditedFile, files[EditedFile]>>
<1>2. pc[Srv] = "rpc" =>
        /\ pending[Srv].call.strs = update
        /\ \A w \in Monitoring :
             /\ \A i \in DOMAIN inbox[w] : IsCurrent(inbox[w][i].msg) => inbox[w][i].msg.strs = update
             /\ prevPacketNumber[w] = messageNum[Srv] - 1 => shown[w][EditedFile] = files[EditedFile]
  BY DEF MonitoringInv, TableInv, ShownInv, UpdateTrue
<1>3. ASSUME NEW w \in Monitoring, NEW i \in DOMAIN inbox'[w]
      PROVE  \E k \in DOMAIN inbox[w] : inbox'[w][i] = inbox[w][k]
  <2>1. CASE w = c
    BY <1>3, <2>1, PacketsAfter
  <2>2. CASE w # c
    BY <1>1, <1>3, <2>2 DEF ClientMove, ClientKind
  <2> QED BY <2>1, <2>2
<1>4. \A w \in Monitoring : \A i \in DOMAIN inbox'[w] :
        pc[Srv] = "rpc" /\ IsCurrent(inbox'[w][i].msg) => inbox'[w][i].msg.strs = update
  BY <1>2, <1>3
<1>5. ASSUME \A w \in Monitoring :
               /\ \A f \in Files : \/ shown'[w][f] = shown[w][f]
                                   \/ pc[Srv] = "down"
                                   \/ pc[Srv] = "rpc" /\ f = EditedFile
               /\ pc[Srv] = "rpc" /\ prevPacketNumber'[w] = messageNum[Srv] - 1 =>
                    shown'[w][EditedFile] = files[EditedFile]
      PROVE  UpdateTrue' /\ \A w \in Monitoring : EntriesShown(w)'
  <2>1. UpdateTrue'
    BY <1>1, <1>2, <1>4, <1>5 DEF UpdateTrue, IsCurrent, EditedFile
  <2>2. ASSUME NEW w \in Monitoring, NEW e \in ToSet(monitors)
        PROVE  \/ pc[Srv] = "down"
               \/ pc[Srv] = "rpc" /\ e.filepath = EditedFile
               \/ files[e.filepath] \in {e.startTime, shown'[w][e.filepath]}
    <3>1. e.filepath \in Files
      BY EntriesType
    <3> QED BY <1>5, <2>2, <3>1 DEF MonitoringInv, TableInv, ShownInv, EntriesShown
  <2> QED BY <1>1, <2>1, <2>2 DEF EntriesShown, EditedFile
<1>6. CASE UNCHANGED shown /\ (pc[c] # "down" => prevPacketNumber'[c] = prevPacketNumber[c])
  <2>1. ASSUME NEW w \in Monitoring, pc[Srv] = "rpc", prevPacketNumber'[w] = messageNum[Srv] - 1
        PROVE  prevPacketNumber[w] = messageNum[Srv] - 1
    <3>1. CASE w # c \/ pc[c] # "down"
      BY <1>1, <1>6, <2>1, <3>1
         DEF ClientMove, ClientKind, Returns, TakesUpdate, Idles, MakesCall, WaitsOn, Leaves
    <3>2. CASE w = c /\ pc[c] = "down"
      <4>1. prevPacketNumber'[w] = prevPacketNumber[w] \/ MakesCall(c)
        BY <3>2 DEF ClientMove, ClientKind, Returns, TakesUpdate, Idles, WaitsOn, Leaves
      <4>2. MakesCall(c) => messageNum[c] = 0 /\ prevPacketNumber'[c] = -1
        BY <3>2 DEF MakesCall, ServiceConditions, AllInv, ServiceInv, FirstRuns
      <4>3. messageNum[c] = 0 => prevPacketNumber[w] = -1
        BY <3>2 DEF AllInv, ServiceInv, UpdatesInv, AcksInTime
      <4> QED BY <2>1, <3>2, <4>1, <4>2, <4>3
    <3> QED BY <3>1, <3>2
  <2> QED BY <1>2, <1>5, <1>6, <2>1
<1>7. ASSUME NEW msg, msg = Packet(c).msg, pc[c] = "monitor", Arrived(c),
             IsUpdate(msg), msg.num > prevPacketNumber[c], prevPacketNumber'[c] = msg.num,
             shown' = [ shown EXCEPT ![c][msg.strs[1]] = msg.strs[2] ]
      PROVE  UpdateTrue' /\ \A w \in Monitoring : EntriesShown(w)'
  <2>1. TakesUpdate(c)
    <3>1. prevPacketNumber'[c] # prevPacketNumber[c]
      BY <1>7, NodeTypes, MonitorHead DEF AllInv, BasicTypeOK, ClientTypeOK
    <3> QED
      BY <1>7, <3>1 DEF ClientMove, ClientKind, Returns, Answered, Idles, MakesCall, WaitsOn, Waits, Leaves
  <2>2. pc[Srv] # "down" => pc[Srv] = "rpc" /\ msg.num = messageNum[Srv] - 1
    BY <1>7, <2>1, AcknowledgedUpdate
  <2>3. c \in Monitoring /\ msg = inbox[c][1].msg /\ 1 \in DOMAIN inbox[c]
    BY <1>7, MonitorHead
  <2>4. pc[Srv] # "down" => msg.strs[1] = EditedFile /\ msg.strs[2] = files[EditedFile]
    BY <1>2, <1>7, <2>2, <2>3 DEF IsCurrent
  <2>5. msg.strs[1] \in Files
    <3>1. msg \in Messages /\ Len(msg.strs) = 2
      BY <1>7, MonitorHead
    <3> QED BY <3>1 DEF Messages, Strings
  <2>6. \A w \in Monitoring : w # c =>
          shown'[w] = shown[w] /\ prevPacketNumber'[w] = prevPacketNumber[w]
    BY <1>1, <1>7, <2>1 DEF TakesUpdate
  <2>7. /\ shown'[c][msg.strs[1]] = msg.strs[2]
        /\ \A f \in Files : f # msg.strs[1] => shown'[c][f] = shown[c][f]
    BY <1>1, <1>7, <2>5
  <2>8. pc[Srv] \in {"down", "ready", "rpc", "monitor"}
    BY NodeTypes DEF AllInv
  <2> QED BY <1>2, <1>5, <2>2, <2>4, <2>6, <2>7, <2>8
<1> QED BY <1>6, <1>7 DEF ShowFlow

\* Every step of a client keeps the invariant.
LEMMA ClientStepMonitoring ==
  ASSUME ServiceConditions, AllMonitoring, BasicTypeOK', NEW c \in Clients,
         UserStep(c) \/ ClientStep(c)
  PROVE  MonitoringInv'
<1> USE DEF AllMonitoring
<1>1. ClientMove(c)
  BY ClientKinds, ClientMoves DEF AllInv, ClientMove
<1>2. EndsOnce' /\ CallFlow(c) /\ ShowFlow(c)
  BY ClientStepFlow DEF MonitoringInv, TableInv, ShownInv
<1>3. UNCHANGED <<clientMap, monitors>>
  BY <1>1, CallsAfter DEF OthersKept, serverVars
<1>4. NumbersUnique' /\ EntriesOfMonitoring'
  BY <1>3 DEF MonitoringInv, TableInv, ShownInv, NumbersUnique, EntriesOfMonitoring, HasNumber
<1> QED
  BY <1>1, <1>2, <1>4, ClientOthersExecuted, ClientTableFollows, ClientShows DEF MonitoringInv, TableInv, ShownInv

-----------------------------------------------------------------------------
(* The steps of the server.                                                 *)

\* The server executes a call of a client that has not ended for the client that
\* waits for it, and for the first time.
LEMMA ExecutedIsPending ==
  ASSUME ServiceConditions, AllMonitoring, Serving, ~IsDuplicate, Request.callType # "Start",
         NEW c, c = Caller, pc[c] # "down"
  PROVE  /\ pc[c] = "rpc"
         /\ Request = pending[c].call /\ Request.num = messageNum[c] - 1
         /\ ~LastExecuted(c)
<1> USE DEF AllMonitoring
<1>1. /\ c \in Clients /\ Request.run = 1 /\ runs[Srv] = 1 /\ ~IsUpdate(Request)
      /\ 1 \in DOMAIN Queue /\ Queue[1].msg = Request /\ IsCall(Queue[1], c)
  BY ServedCall
<1>2. <<1, c, 1, Request.num>> \notin executed
  BY <1>1, NotExecutedBefore DEF AllInv, ServiceConditions, Execution, IsUpdate
<1>3. pc[c] = "rpc" /\ Request.num = messageNum[c] - 1
  BY <1>1, <1>2 DEF MonitoringInv, TableInv, ShownInv, OthersExecuted, WasExecuted, Queue
<1>4. Request = pending[c].call
  BY <1>1, <1>3 DEF AllInv, ServiceInv, AnswersInv, LastCall, CallOfLast, Queue
<1> QED BY <1>2, <1>3, <1>4 DEF LastExecuted, WasExecuted

\* A new address gets a new number, and the others keep theirs.
LEMMA NumbersKept ==
  ASSUME AllMonitoring, Serving, clientMap' = WithCaller,
         NEW c, c = Caller, NEW num, num = ClientNum
  PROVE  /\ NumbersUnique'
         /\ \A d, n : HasNumber(d, n) => HasNumber(d, n)'
         /\ HasNumber(c, num)'
         /\ \A n : HasNumber(c, n) => n = num
<1> USE DEF AllMonitoring
<1>1. clientMap \in Seq(Nodes) /\ Caller \in Clients /\ NumbersUnique
  BY ServedCall DEF AllInv, BasicTypeOK, ServerTypeOK, MonitoringInv, TableInv
<1>2. ClientNum \in DOMAIN WithCaller /\ DOMAIN clientMap \subseteq DOMAIN WithCaller
  BY ClientNumType DEF AllInv
<1>3. /\ \A n \in DOMAIN clientMap : WithCaller[n] = clientMap[n]
      /\ \A n \in DOMAIN WithCaller :
           n \in DOMAIN clientMap
           \/ (n = Len(clientMap) + 1 /\ WithCaller[n] = Caller /\ ~IsKnown(Caller))
  BY <1>1 DEF WithCaller
<1>4. NumbersUnique'
  BY <1>1, <1>3 DEF NumbersUnique, IsKnown
<1>5. WithCaller[ClientNum] = Caller
  <2>1. \E n \in DOMAIN WithCaller : WithCaller[n] = Caller
    BY <1>1 DEF WithCaller, IsKnown
  <2> QED BY <2>1 DEF ClientNum
<1>6. HasNumber(c, num)'
  BY <1>2, <1>5 DEF HasNumber
<1>7. \A d, n : HasNumber(d, n) => HasNumber(d, n)'
  BY <1>2, <1>3 DEF HasNumber
<1>8. \A n : HasNumber(c, n) => n = num
  BY <1>4, <1>6, <1>7 DEF HasNumber, NumbersUnique
<1> QED BY <1>4, <1>6, <1>7, <1>8

\* The clients are where they were, and the numbers of the calls they have made.
LEMMA ServerLeavesClients ==
  ASSUME ServerMoves, NEW w \in Clients
  PROVE  /\ pc'[w] = pc[w] /\ messageNum'[w] = messageNum[w] /\ pending'[w] = pending[w]
         /\ IsRegistered(w)' = IsRegistered(w)
              \/ (LastExecuted(w)' # LastExecuted(w) /\ pc[w] = "rpc"
                    /\ pending[w].call.callType \in {"Monitor", "MonitorEnd"})
<1>1. pc'[w] = pc[w] /\ messageNum'[w] = messageNum[w] /\ pending'[w] = pending[w]
  BY DEF ServerMoves
<1>2. LastExecuted(w) \in BOOLEAN /\ LastExecuted(w)' \in BOOLEAN
  BY DEF LastExecuted, WasExecuted
<1> QED BY <1>1, <1>2 DEF IsRegistered

\* The execution of another call than a Monitor or its end leaves the table as it
\* is, and so does any step that executes nothing.
LEMMA TableKept ==
  ASSUME ServiceConditions, AllMonitoring, ServerMoves, UNCHANGED monitors,
         UNCHANGED clientMap \/ (Serving /\ clientMap' = WithCaller),
         \/ UNCHANGED executed
         \/ /\ Serving /\ ~IsDuplicate /\ Record
            /\ Request.callType \notin {"Start", "Monitor", "MonitorEnd"}
  PROVE  TableInv'
<1> USE DEF AllMonitoring
<1>1. NumbersUnique /\ EntriesOfMonitoring /\ \A w \in Monitoring : TableFollows(w)
  BY DEF MonitoringInv, TableInv
<1>2. NumbersUnique' /\ \A d, n : HasNumber(d, n) => HasNumber(d, n)'
  <2>1. CASE UNCHANGED clientMap
    BY <1>1, <2>1 DEF NumbersUnique, HasNumber
  <2>2. CASE Serving /\ clientMap' = WithCaller
    BY <2>2, NumbersKept
  <2> QED BY <2>1, <2>2
<1>3. EntriesOfMonitoring'
  BY <1>1, <1>2 DEF EntriesOfMonitoring
<1>4. ASSUME NEW w \in Monitoring PROVE TableFollows(w)'
  <2>1. w \in Clients
    BY DEF Monitoring
  <2>2. CASE pc[w] = "down"
    BY <2>1, <2>2, ServerLeavesClients DEF TableFollows
  <2>3. CASE LastExecuted(w)' # LastExecuted(w) /\ pc[w] = "rpc"
             /\ pending[w].call.callType \in {"Monitor", "MonitorEnd"}
    <3>1. /\ Serving /\ ~IsDuplicate /\ Record
          /\ Request.callType \notin {"Start", "Monitor", "MonitorEnd"}
      BY <2>1, <2>3 DEF LastExecuted, WasExecuted, ServerMoves
    <3>2. <<1, w, 1, messageNum[w] - 1>> \in executed' /\ <<1, w, 1, messageNum[w] - 1>> \notin executed
      BY <2>1, <2>3, <3>1 DEF LastExecuted, WasExecuted, ServerMoves, Record
    <3>3. w = Caller
      BY <3>1, <3>2 DEF Record, Execution
    <3>4. Request = pending[w].call
      BY <2>3, <3>1, <3>3, ExecutedIsPending
    <3> QED BY <2>3, <3>1, <3>4
  <2>4. CASE pc[w] # "down" /\ IsRegistered(w)' = IsRegistered(w)
    BY <1>1, <2>1, <2>4, ServerLeavesClients DEF TableFollows
  <2> QED BY <2>1, <2>2, <2>3, <2>4, ServerLeavesClients
<1> QED BY <1>2, <1>3, <1>4 DEF TableInv

\* The one who asks for a monitoring, or for its end, is the only one who may.
LEMMA MonitoringCaller ==
  ASSUME ServiceConditions, AllMonitoring, Serving, Request.callType \in {"Monitor", "MonitorEnd"}
  PROVE  Caller \in Monitoring /\ Caller \in Clients /\ Monitoring = {Caller}
<1>1. Caller \in Monitoring
  BY ServedCall DEF AllMonitoring, MayCall
<1> QED BY <1>1 DEF ServiceConditions, Monitoring

\* An accepted Monitor puts its client into the empty table.
LEMMA TableRegister ==
  ASSUME ServiceConditions, AllMonitoring, ServerMoves, Register
  PROVE  TableInv'
<1> USE DEF AllMonitoring
<1>1. /\ Serving /\ ~IsDuplicate /\ Record /\ Request.callType = "Monitor"
      /\ clientMap' = WithCaller
      /\ monitors' = Append(monitors,
           [ filepath |-> Request.strs[1], clientId |-> ClientNum,
             startTime |-> files[Request.strs[1]] ])
  BY DEF Register, Executing
<1>2. PICK w : w = Caller
  OBVIOUS
<1>3. PICK num : num = ClientNum
  OBVIOUS
<1>4. PICK e : e = [ filepath |-> Request.strs[1], clientId |-> num,
                     startTime |-> files[Request.strs[1]] ]
  OBVIOUS
<1>5. /\ NumbersUnique' /\ (\A d, n : HasNumber(d, n) => HasNumber(d, n)') /\ HasNumber(w, num)'
  BY <1>1, <1>2, <1>3, NumbersKept
<1>6. w \in Clients /\ Monitoring = {w}
  BY <1>1, <1>2, MonitoringCaller
<1>7. monitors \in Seq(Entry) /\ monitors' = Append(monitors, e)
  BY <1>1, <1>3, <1>4, EntriesType
<1>8. ToSet(monitors') = ToSet(monitors) \cup {e} /\ Len(monitors') = Len(monitors) + 1
      /\ Len(monitors) \in Nat
  <2>1. monitors \in Seq(Entry \cup {e}) /\ e \in Entry \cup {e}
    BY <1>7
  <2>2. ToSet(Append(monitors, e)) = ToSet(monitors) \cup {e}
    BY <2>1, AppendToSet
  <2> QED BY <1>7, <2>1, <2>2
<1>9. EntriesOfMonitoring'
  BY <1>4, <1>5, <1>6, <1>8 DEF EntriesOfMonitoring, MonitoringInv, TableInv
<1>10. TableFollows(w)'
  <2>1. pc'[w] = pc[w] /\ messageNum'[w] = messageNum[w] /\ pending'[w] = pending[w]
    BY <1>6, ServerLeavesClients
  <2>2. CASE pc[w] = "down"
    BY <2>1, <2>2 DEF TableFollows
  <2>3. CASE pc[w] # "down"
    <3>1. /\ pc[w] = "rpc" /\ Request = pending[w].call /\ Request.num = messageNum[w] - 1
          /\ ~LastExecuted(w)
      BY <1>1, <1>2, <2>3, ExecutedIsPending
    <3>2. LastExecuted(w)'
      <4>1. <<1, w, 1, Request.num>> \in executed'
        BY <1>1, <1>2, ExecutionRecorded
      <4> QED BY <2>1, <3>1, <4>1 DEF LastExecuted, WasExecuted
    <3>3. ~IsRegistered(w) /\ IsRegistered(w)'
      BY <1>1, <2>1, <3>1, <3>2 DEF IsRegistered
    <3>4. Len(monitors) = 0
      BY <1>6, <2>3, <3>3 DEF MonitoringInv, TableInv, TableFollows
    <3> QED BY <1>8, <3>3, <3>4 DEF TableFollows
  <2> QED BY <2>2, <2>3
<1> QED BY <1>5, <1>6, <1>9, <1>10 DEF TableInv

\* The end of the monitoring empties the table.
LEMMA TableUnregister ==
  ASSUME ServiceConditions, AllMonitoring, ServerMoves, Unregister
  PROVE  TableInv'
<1> USE DEF AllMonitoring
<1>1. /\ Serving /\ ~IsDuplicate /\ Record /\ Request.callType = "MonitorEnd"
      /\ clientMap' = WithCaller
      /\ monitors' = FindRemove(monitors, ClientNum)
  BY DEF Unregister, Executing
<1>2. PICK w : w = Caller
  OBVIOUS
<1>3. PICK num : num = ClientNum
  OBVIOUS
<1>4. /\ NumbersUnique' /\ (\A d, n : HasNumber(d, n) => HasNumber(d, n)')
      /\ \A n : HasNumber(w, n) => n = num
  BY <1>1, <1>2, <1>3, NumbersKept
<1>5. w \in Clients /\ Monitoring = {w}
  BY <1>1, <1>2, MonitoringCaller
<1>6. /\ monitors \in Seq(Entry) /\ monitors' \in Seq(Entry)
      /\ ToSet(monitors') \subseteq ToSet(monitors)
      /\ (\A i \in 1 .. Len(monitors) - 1 :
            monitors[i].clientId = num => monitors[i + 1].clientId # num)
           => ToSet(monitors') = { e \in ToSet(monitors) : e.clientId # num }
  BY <1>1, <1>3, EntriesType, FindRemoveDrops
<1>7. EntriesOfMonitoring /\ TableFollows(w)
  BY <1>5 DEF MonitoringInv, TableInv
<1>8. EntriesOfMonitoring'
  BY <1>4, <1>6, <1>7 DEF EntriesOfMonitoring
<1>9. TableFollows(w)'
  <2>1. pc'[w] = pc[w] /\ messageNum'[w] = messageNum[w] /\ pending'[w] = pending[w]
    BY <1>5, ServerLeavesClients
  <2>2. CASE pc[w] = "down"
    BY <2>1, <2>2 DEF TableFollows
  <2>3. CASE pc[w] # "down"
    <3>1. /\ pc[w] = "rpc" /\ Request = pending[w].call /\ Request.num = messageNum[w] - 1
          /\ ~LastExecuted(w)
      BY <1>1, <1>2, <2>3, ExecutedIsPending
    <3>2. LastExecuted(w)'
      <4>1. <<1, w, 1, Request.num>> \in executed'
        BY <1>1, <1>2, ExecutionRecorded
      <4> QED BY <2>1, <3>1, <4>1 DEF LastExecuted, WasExecuted
    <3>3. IsRegistered(w) /\ ~IsRegistered(w)'
      BY <1>1, <2>1, <3>1, <3>2 DEF IsRegistered
    <3>4. Len(monitors) = 1
      BY <1>7, <2>3, <3>3 DEF TableFollows
    <3>5. ToSet(monitors') = { e \in ToSet(monitors) : e.clientId # num }
      BY <1>6, <3>4
    <3>6. ToSet(monitors') = {}
      BY <1>4, <1>5, <1>7, <3>5 DEF EntriesOfMonitoring
    <3>7. Len(monitors') = 0
      BY <1>6, <3>6 DEF ToSet
    <3> QED BY <3>3, <3>7 DEF TableFollows
  <2> QED BY <2>2, <2>3
<1> QED BY <1>4, <1>5, <1>8, <1>9 DEF TableInv

\* Every step of the server keeps the table as it should be.
LEMMA ServerStepTable ==
  ASSUME ServiceConditions, AllMonitoring, ServerStep, ServerMoves
  PROVE  TableInv'
<1> USE DEF AllMonitoring
<1>1. CASE AnswerDuplicate
  BY <1>1, TableKept DEF AnswerDuplicate
<1>2. CASE FailEdit \/ GetMode \/ TellModification \/ DumpFile
  <2>1. /\ Serving /\ clientMap' = WithCaller /\ UNCHANGED monitors
        /\ ~IsDuplicate /\ Record
        /\ Request.callType \notin {"Start", "Monitor", "MonitorEnd"}
    BY <1>2 DEF FailEdit, GetMode, TellModification, DumpFile, Executing
  <2> QED BY <2>1, TableKept
<1>3. CASE EditUnmonitored \/ EditMonitored
  <2>1. PICK path \in Files : Edit(path)
    BY <1>3 DEF EditUnmonitored, EditMonitored
  <2>2. /\ Serving /\ clientMap' = WithCaller /\ UNCHANGED monitors
        /\ ~IsDuplicate /\ Record
        /\ Request.callType \notin {"Start", "Monitor", "MonitorEnd"}
    BY <2>1 DEF Edit, Executing
  <2> QED BY <2>2, TableKept
<1>4. CASE GreetClient
  BY <1>4, TableKept DEF GreetClient, Executing
<1>5. CASE ServeLateAcknowledgement
  BY <1>5, ServedCall DEF ServeLateAcknowledgement, Executing, IsUpdate
<1>6. CASE \/ NotifyNext \/ NotifiedAll \/ ServeMalformed \/ ServerGivesUp
           \/ ServerDiscards \/ ServerRetransmits
  <2>1. UNCHANGED <<clientMap, monitors, executed>>
    BY <1>6
       DEF NotifyNext, NotifiedAll, ServeMalformed, ServerGivesUp, ServerDiscards, ServerRetransmits,
           serverVars
  <2> QED BY <2>1, TableKept
<1> QED
  BY <1>1, <1>2, <1>3, <1>4, <1>5, <1>6, TableRegister, TableUnregister DEF ServerStep

\* What the server takes from its queue or executes leaves no call that may still be
\* executed.
LEMMA ServerOthersExecuted ==
  ASSUME AllMonitoring, ServerKind, NEW c \in Clients
  PROVE  OthersExecuted(c)'
<1> USE DEF AllMonitoring
<1>1. /\ pc'[c] = pc[c] /\ messageNum'[c] = messageNum[c] /\ executed \subseteq executed'
  BY DEF ServerKind, ServerKeeps, ServerMoves
<1>2. PICK k \in {0, 1} : \A i \in DOMAIN Queue' :
        i \in Nat /\ i + k \in DOMAIN Queue /\ Queue'[i] = Queue[i + k]
  BY ServerPackets
<1>3. ASSUME NEW j \in DOMAIN Queue', IsCall(Queue'[j], c), pc[c] # "down",
             pc[c] = "rpc" => Queue'[j].msg.num # messageNum[c] - 1
      PROVE  Queue'[j].msg.callType = "Start" \/ <<1, c, 1, Queue'[j].msg.num>> \in executed'
  <2>1. PICK i \in DOMAIN Queue : Queue[i] = Queue'[j]
    BY <1>2
  <2>2. Queue[i].msg.callType = "Start" \/ WasExecuted(c, Queue[i].msg.num)
    BY <1>3, <2>1 DEF MonitoringInv, OthersExecuted, Queue
  <2> QED BY <1>1, <2>1, <2>2 DEF WasExecuted
<1> QED BY <1>1, <1>3 DEF OthersExecuted, Queue, WasExecuted

\* A client's queue grows by at most one packet of the server.
LEMMA SentPacket ==
  ASSUME BasicTypeOK, NEW to \in Clients, NEW msg, SendsTo(to, msg), NEW w \in Clients,
         NEW i \in DOMAIN inbox'[w]
  PROVE  \/ i \in DOMAIN inbox[w] /\ inbox'[w][i] = inbox[w][i]
         \/ inbox'[w][i].msg = msg
<1>1. inbox[w] \in Seq(Packets)
  BY NodeTypes
<1>2. PICK p : p = [ from |-> Srv, msg |-> msg ]
  OBVIOUS
<1>3. inbox'[w] = inbox[w] \/ inbox'[w] = Append(inbox[w], p)
  BY <1>2 DEF SendsTo
<1>4. \A j \in DOMAIN inbox'[w] : (j \in DOMAIN inbox[w] /\ inbox'[w][j] = inbox[w][j]) \/ inbox'[w][j] = p
  BY <1>1, <1>3, GrownQueue
<1> QED BY <1>2, <1>4

\* While no update goes out, only edits make what was shown obsolete.
LEMMA ShownKept ==
  ASSUME AllMonitoring, pc'[Srv] # "rpc", UNCHANGED shown,
         pc'[Srv] = "down" \/ pc[Srv] = "ready",
         \A e \in ToSet(monitors') :
           \/ e \in ToSet(monitors) /\ files'[e.filepath] = files[e.filepath]
           \/ e.startTime = files'[e.filepath]
  PROVE  ShownInv'
<1>1. UpdateTrue'
  BY DEF UpdateTrue
<1>2. ASSUME NEW w \in Monitoring PROVE EntriesShown(w)'
  <2>1. EntriesShown(w)
    BY DEF AllMonitoring, MonitoringInv, ShownInv
  <2>2. CASE pc'[Srv] = "down"
    BY <2>2 DEF EntriesShown
  <2>3. CASE pc[Srv] = "ready"
    <3>1. ASSUME NEW e \in ToSet(monitors')
          PROVE  files'[e.filepath] \in {e.startTime, shown[w][e.filepath]}
      BY <2>1, <2>3, <3>1 DEF EntriesShown
    <3> QED BY <3>1 DEF EntriesShown
  <2> QED BY <2>2, <2>3
<1> QED BY <1>1, <1>2 DEF ShownInv

\* The answers to calls that edit no monitored file.
LEMMA AnswerShows ==
  ASSUME ServiceConditions, AllMonitoring, UNCHANGED clientVars,
         \/ AnswerDuplicate \/ FailEdit \/ EditUnmonitored \/ Register \/ Unregister
         \/ GetMode \/ TellModification \/ DumpFile \/ GreetClient
  PROVE  ShownInv'
<1> USE DEF AllMonitoring
<1>1. UNCHANGED shown
  BY DEF clientVars
<1>2. CASE \/ AnswerDuplicate \/ FailEdit \/ GetMode \/ TellModification \/ DumpFile \/ GreetClient
  <2>1. pc[Srv] = "ready" /\ UNCHANGED <<pc, files, monitors>>
    BY <1>2
       DEF AnswerDuplicate, FailEdit, GetMode, TellModification, DumpFile, GreetClient, Executing,
           Serving, Respond
  <2> QED BY <1>1, <2>1, ShownKept
<1>3. CASE EditUnmonitored
  <2>1. PICK path \in Files :
          /\ pc[Srv] = "ready" /\ UNCHANGED <<pc, monitors>>
          /\ files' = [ files EXCEPT ![path] = @ + 1 ]
          /\ Sweep(monitors, path) = <<>>
    BY <1>3 DEF EditUnmonitored, Edit, Executing, Serving, Respond
  <2>2. monitors \in Seq(Entry) /\ (\A e \in ToSet(monitors) : e.filepath \in Files)
        /\ files \in [ Files -> Nat ]
    BY EntriesType DEF AllInv, BasicTypeOK, ServerTypeOK
  <2>3. \A e \in ToSet(monitors) : e.filepath # path
    <3>1. ToSet(<<>>) = { e \in ToSet(monitors) : e.filepath = path }
      BY <2>1, <2>2, SweepFinds
    <3>2. ToSet(<<>>) = {}
      BY DEF ToSet
    <3> QED BY <3>1, <3>2
  <2>4. \A e \in ToSet(monitors) : files'[e.filepath] = files[e.filepath]
    BY <2>1, <2>2, <2>3
  <2> QED BY <1>1, <2>1, <2>4, ShownKept
<1>4. CASE Register
  <2>1. PICK e : e = [ filepath |-> Request.strs[1], clientId |-> ClientNum,
                       startTime |-> files[Request.strs[1]] ]
    OBVIOUS
  <2>2. pc[Srv] = "ready" /\ UNCHANGED <<pc, files>> /\ monitors' = Append(monitors, e)
    BY <1>4, <2>1 DEF Register, Executing, Serving, Respond
  <2>3. monitors \in Seq(Entry \cup {e}) /\ e \in Entry \cup {e}
    BY EntriesType
  <2>4. ToSet(monitors') = ToSet(monitors) \cup {e}
    BY <2>2, <2>3, AppendToSet
  <2> QED BY <1>1, <2>1, <2>2, <2>4, ShownKept
<1>5. CASE Unregister
  <2>1. pc[Srv] = "ready" /\ UNCHANGED <<pc, files>> /\ monitors' = FindRemove(monitors, ClientNum)
    BY <1>5 DEF Unregister, Executing, Serving, Respond
  <2>2. ToSet(monitors') \subseteq ToSet(monitors)
    BY <2>1, EntriesType, FindRemoveDrops
  <2> QED BY <1>1, <2>1, <2>2, ShownKept
<1> QED BY <1>2, <1>3, <1>4, <1>5

\* A new update carries the file as it is, and is the only one of its number.
LEMMA NewUpdateShows ==
  ASSUME AllMonitoring, UNCHANGED <<monitors, clientVars>>, NEW to \in Clients, NEW path,
         NEW msg, SendsTo(to, msg), IsUpdate(msg),
         path = job'.call.strs[1], msg.strs = <<path, files'[path]>>,
         pc'[Srv] = "rpc", pending'[Srv].call = msg, messageNum'[Srv] = messageNum[Srv] + 1,
         \/ pc[Srv] = "ready" /\ \A f \in Files : f # path => files'[f] = files[f]
         \/ pc[Srv] = "rpc" /\ UNCHANGED files /\ path = EditedFile
  PROVE  ShownInv'
<1> USE DEF AllMonitoring
<1>1. messageNum[Srv] \in Nat /\ UNCHANGED <<shown, prevPacketNumber>> /\ Monitoring \subseteq Clients
  BY NodeTypes DEF AllInv, clientVars, Monitoring
<1>2. EditedFile' = path
  BY DEF EditedFile
<1>3. ASSUME NEW w \in Monitoring
      PROVE  /\ \A i \in DOMAIN inbox'[w] :
                  IsUpdate(inbox'[w][i].msg) /\ inbox'[w][i].msg.num = messageNum'[Srv] - 1
                    => inbox'[w][i].msg.strs = <<path, files'[path]>>
             /\ prevPacketNumber[w] # messageNum'[Srv] - 1
  <2>1. AcksInTime(w)
    BY DEF AllInv, ServiceInv, UpdatesInv
  <2>2. ASSUME NEW i \in DOMAIN inbox[w], IsUpdate(inbox[w][i].msg)
        PROVE  inbox[w][i].msg.num # messageNum'[Srv] - 1
    BY <1>1, <2>1, <2>2 DEF AcksInTime
  <2>3. prevPacketNumber[w] # messageNum'[Srv] - 1
    BY <1>1, <2>1 DEF AcksInTime
  <2>4. ASSUME NEW i \in DOMAIN inbox'[w], IsUpdate(inbox'[w][i].msg),
               inbox'[w][i].msg.num = messageNum'[Srv] - 1
        PROVE  inbox'[w][i].msg.strs = <<path, files'[path]>>
    <3>1. (i \in DOMAIN inbox[w] /\ inbox'[w][i] = inbox[w][i]) \/ inbox'[w][i].msg = msg
      BY <1>1, SentPacket DEF AllInv
    <3> QED BY <2>2, <2>4, <3>1
  <2> QED BY <2>3, <2>4
<1>4. UpdateTrue'
  BY <1>1, <1>2, <1>3 DEF UpdateTrue, IsCurrent, IsUpdate
<1>5. ASSUME NEW w \in Monitoring, NEW e \in ToSet(monitors)
      PROVE  e.filepath = path \/ files'[e.filepath] \in {e.startTime, shown[w][e.filepath]}
  <2>1. EntriesShown(w) /\ e.filepath \in Files
    BY EntriesType DEF MonitoringInv, ShownInv
  <2> QED BY <2>1 DEF EntriesShown
<1>6. \A w \in Monitoring : EntriesShown(w)'
  BY <1>1, <1>2, <1>5 DEF EntriesShown
<1> QED BY <1>4, <1>6 DEF ShownInv

\* The update to the first client of an edit, and to the next one.
LEMMA NotificationShows ==
  ASSUME AllMonitoring, UNCHANGED clientVars, EditMonitored \/ NotifyNext
  PROVE  ShownInv'
<1> USE DEF AllMonitoring
<1>1. ASSUME NEW to \in Clients, NEW path, NEW edition, Arrived(Srv),
             Notify(Consumed(Srv), to, path, edition), UNCHANGED monitors,
             path = job'.call.strs[1], edition = files'[path],
             \/ pc[Srv] = "ready" /\ \A f \in Files : f # path => files'[f] = files[f]
             \/ pc[Srv] = "rpc" /\ UNCHANGED files /\ path = EditedFile
      PROVE  ShownInv'
  <2>1. PICK msg : msg = Numbered(Message("MonitorUpdate", <<>>, <<path, edition>>),
                                  messageNum[Srv], runs[Srv])
    OBVIOUS
  <2>2. /\ Transmit(Consumed(Srv), Srv, to, msg) /\ IsUpdate(msg)
        /\ pc'[Srv] = "rpc" /\ pending'[Srv].call = msg
        /\ messageNum'[Srv] = messageNum[Srv] + 1
    BY <1>1, <2>1, NotifySends
  <2>3. msg.strs = <<path, files'[path]>>
    BY <1>1, <2>1 DEF Numbered, Message
  <2>4. SendsTo(to, msg)
    BY <2>2, ServerWritesTo DEF AllInv
  <2> QED BY <1>1, <2>2, <2>3, <2>4, NewUpdateShows
<1>2. CASE EditMonitored
  <2>1. PICK path \in Files, c \in Clients :
          /\ Edit(path)
          /\ job' = [ from |-> Caller, call |-> Request, todo |-> Sweep(monitors, path) ]
          /\ Notify(Consumed(Srv), c, path, files[path] + 1)
    BY <1>2 DEF EditMonitored
  <2>2. /\ pc[Srv] = "ready" /\ Arrived(Srv) /\ UNCHANGED monitors
        /\ path = Request.strs[1] /\ files' = [ files EXCEPT ![path] = @ + 1 ]
    BY <2>1 DEF Edit, Executing, Serving
  <2>3. files \in [ Files -> Nat ]
    BY DEF AllInv, BasicTypeOK, ServerTypeOK
  <2>4. /\ files'[path] = files[path] + 1 /\ \A f \in Files : f # path => files'[f] = files[f]
        /\ job'.call.strs[1] = path
    BY <2>1, <2>2, <2>3
  <2> QED BY <1>1, <2>1, <2>2, <2>4
<1>3. CASE NotifyNext
  <2>1. PICK c \in Clients :
          /\ Answered(Srv) /\ UNCHANGED <<files, monitors>>
          /\ job'.call = job.call
          /\ Notify(Consumed(Srv), c, EditedFile, files[EditedFile])
    BY <1>3 DEF NotifyNext, EditedFile
  <2>2. PICK path : path = EditedFile
    OBVIOUS
  <2>3. /\ pc[Srv] = "rpc" /\ Arrived(Srv) /\ path = job'.call.strs[1] /\ files[path] = files'[path]
        /\ Notify(Consumed(Srv), c, path, files[path])
    BY <2>1, <2>2 DEF Answered, EditedFile
  <2> QED BY <1>1, <2>1, <2>2, <2>3
<1> QED BY <1>2, <1>3

\* When every client has acknowledged the last update, it has shown it.
LEMMA NotifiedShows ==
  ASSUME AllMonitoring, UNCHANGED clientVars, NotifiedAll
  PROVE  ShownInv'
<1> USE DEF AllMonitoring
<1>1. PICK resp :
        /\ Answered(Srv) /\ pc[Srv] = "rpc" /\ Arrived(Srv) /\ job.from \in Clients
        /\ pc'[Srv] = "ready" /\ UNCHANGED <<files, monitors, shown>>
        /\ SendResponse(Consumed(Srv), Srv, job.from, job.call, resp)
        /\ \A c \in Clients : /\ pc'[c] = pc[c] /\ pending'[c] = pending[c]
                              /\ runs'[c] = runs[c] /\ messageNum'[c] = messageNum[c]
  BY DEF NotifiedAll, Answered, clientVars, AllInv, BasicTypeOK, SenderTypeOK, AtMostOnceInv, FromClients
<1>2. Takes
  BY <1>1, ServerConsumes DEF SendResponse, AllInv
<1>3. \A w \in Monitoring : prevPacketNumber[w] = messageNum[Srv] - 1
  BY <1>1, <1>2, AnsweredUpdate
<1>4. \A w \in Monitoring : shown[w][EditedFile] = files[EditedFile] /\ EntriesShown(w)
  BY <1>1, <1>3 DEF MonitoringInv, ShownInv, UpdateTrue
<1>5. ASSUME NEW w \in Monitoring PROVE EntriesShown(w)'
  BY <1>1, <1>4 DEF EntriesShown
<1>6. UpdateTrue'
  BY <1>1 DEF UpdateTrue
<1> QED BY <1>5, <1>6 DEF ShownInv

\* What the server transmits again is the last update.
LEMMA RetransmissionShows ==
  ASSUME AllMonitoring, UNCHANGED clientVars, ServerRetransmits \/ ServerDiscards
  PROVE  ShownInv'
<1> USE DEF AllMonitoring
<1>1. /\ UNCHANGED <<files, monitors, shown, prevPacketNumber, job>>
      /\ pc[Srv] = "rpc" /\ pc'[Srv] = "rpc" /\ messageNum'[Srv] = messageNum[Srv]
      /\ pending'[Srv].call = pending[Srv].call
      /\ Monitoring \subseteq Clients
  BY DEF ServerRetransmits, ServerDiscards, Retransmit, TimedOut, DiscardImproper, serverVars, clientVars,
     AllInv, BasicTypeOK, SenderTypeOK, Monitoring
<1>2. PICK msg : msg = pending[Srv].call
  OBVIOUS
<1>3. \E to \in Clients : SendsTo(to, msg) \/ inbox' = Consumed(Srv)
  <2>1. CASE ServerDiscards
    <3>1. inbox' = Consumed(Srv)
      BY <2>1 DEF ServerDiscards, DiscardImproper
    <3>2. job.from \in Clients
      BY <1>1 DEF AllInv, AtMostOnceInv, FromClients
    <3> QED BY <3>1, <3>2
  <2>2. CASE ServerRetransmits
    <3>1. PICK to : to = pending[Srv].sa
      OBVIOUS
    <3>2. to \in Clients /\ Transmit(inbox, Srv, to, msg)
      BY <1>1, <1>2, <2>2, <3>1 DEF ServerRetransmits, Retransmit, AllInv, AtMostOnceInv, FromClients
    <3> QED BY <3>2, ServerWritesTo DEF AllInv
  <2> QED BY <2>1, <2>2
<1>4. ASSUME NEW w \in Monitoring, NEW i \in DOMAIN inbox'[w]
      PROVE  (i \in DOMAIN inbox[w] /\ inbox'[w][i] = inbox[w][i]) \/ inbox'[w][i].msg = msg
  <2>1. CASE inbox' = Consumed(Srv)
    <3>1. inbox'[w] = inbox[w]
      BY <1>1, <2>1 DEF Consumed, AllInv, BasicTypeOK, SenderTypeOK
    <3> QED BY <1>4, <3>1
  <2>2. CASE \E to \in Clients : SendsTo(to, msg)
    BY <1>1, <2>2, SentPacket DEF AllInv
  <2> QED BY <1>3, <2>1, <2>2
<1>5. UpdateTrue
  BY DEF MonitoringInv, ShownInv
<1>6. UpdateTrue'
  BY <1>1, <1>2, <1>4, <1>5 DEF UpdateTrue, IsCurrent, EditedFile
<1>7. \A w \in Monitoring : EntriesShown(w)'
  BY <1>1 DEF EntriesShown, EditedFile, MonitoringInv, ShownInv
<1> QED BY <1>6, <1>7 DEF ShownInv

\* Every step of the server keeps the invariant.
LEMMA ServerStepMonitoring ==
  ASSUME ServiceConditions, AllMonitoring, BasicTypeOK', ServerStep
  PROVE  MonitoringInv'
<1> USE DEF AllMonitoring
<1>1. ServerKind /\ ServerMoves /\ UNCHANGED clientVars
  BY ServerKinds DEF ServerKind, ServerKeeps
<1>2. EndsOnce'
  BY <1>1 DEF clientVars, EndsOnce, MonitoringInv
<1>3. CASE ServeMalformed \/ ServerGivesUp
  <2>1. pc'[Srv] = "down" /\ UNCHANGED <<files, monitors, shown>>
    BY <1>1, <1>3
       DEF ServeMalformed, ServerGivesUp, Exit, serverVars, clientVars, AllInv, BasicTypeOK, SenderTypeOK
  <2>2. ShownInv'
    BY <2>1, ShownKept
  <2> QED BY <1>1, <1>2, <2>2, ServerOthersExecuted, ServerStepTable DEF MonitoringInv
<1>4. CASE ServeLateAcknowledgement
  BY <1>4, ServedCall DEF ServeLateAcknowledgement, Executing, IsUpdate
<1>5. CASE ~(ServeMalformed \/ ServerGivesUp \/ ServeLateAcknowledgement)
  <2>1. ShownInv'
    BY <1>1, <1>5, AnswerShows, NotificationShows, NotifiedShows, RetransmissionShows DEF ServerStep
  <2> QED BY <1>1, <1>2, <2>1, ServerOthersExecuted, ServerStepTable DEF MonitoringInv
<1> QED BY <1>3, <1>4, <1>5

-----------------------------------------------------------------------------
(* The theorems.                                                            *)

\* At the start the table is empty and nothing was shown.
LEMMA InitMonitoring ==
  ASSUME Init
  PROVE  MonitoringInv
<1>1. /\ lastMessage = [ c \in Clients |-> NoMessage ] /\ NoMessage.callType = "Start"
      /\ pc = [ n \in Nodes |-> IF n = Srv THEN "ready" ELSE "down" ]
      /\ inbox = [ n \in Nodes |-> <<>> ]
      /\ clientMap = <<>> /\ monitors = <<>>
      /\ Monitoring \subseteq Clients
  BY DEF Init, SenderInit, ClientInit, ServerInit, NoMessage, Message, Monitoring
<1>2. EndsOnce
  BY <1>1 DEF EndsOnce
<1>3. \A c \in Clients : OthersExecuted(c)
  BY <1>1 DEF OthersExecuted
<1>4. TableInv
  BY <1>1 DEF TableInv, NumbersUnique, EntriesOfMonitoring, ToSet, TableFollows
<1>5. ShownInv
  BY <1>1 DEF ShownInv, UpdateTrue, EntriesShown, ToSet
<1> QED BY <1>2, <1>3, <1>4, <1>5 DEF MonitoringInv

\* A step that changes nothing.
LEMMA StutterMonitoring ==
  ASSUME MonitoringInv, UNCHANGED vars
  PROVE  MonitoringInv'
<1>1. UNCHANGED <<senderVars, clientVars, serverVars>>
  BY DEF vars
<1>2. EndsOnce' /\ \A c \in Clients : OthersExecuted(c)'
  BY <1>1
     DEF MonitoringInv, EndsOnce, OthersExecuted, WasExecuted, senderVars, clientVars, serverVars, IsCall
<1>3. TableInv'
  BY <1>1
     DEF MonitoringInv, TableInv, NumbersUnique, EntriesOfMonitoring, HasNumber, TableFollows,
         IsRegistered, LastExecuted, WasExecuted, senderVars, serverVars
<1>4. ShownInv'
  BY <1>1
     DEF MonitoringInv, ShownInv, UpdateTrue, EntriesShown, EditedFile, IsCurrent,
         senderVars, clientVars, serverVars
<1> QED BY <1>2, <1>3, <1>4 DEF MonitoringInv

\* Every step of the system keeps the invariant.
LEMMA NextMonitoring ==
  ASSUME ServiceConditions, AllMonitoring, [Next]_vars
  PROVE  AllMonitoring'
<1> USE DEF AllMonitoring
<1>1. AllInv' /\ MonitorsTypeOK' /\ BasicTypeOK'
  BY NextService, NextEntries DEF AllInv
<1>2. MonitoringInv'
  <2>1. CASE Restart
    BY <2>1, NodeTypes DEF Restart, ServiceConditions, AllInv, ServiceInv, FirstRuns
  <2> QED
    BY <1>1, <2>1, ClientStepMonitoring, ServerStepMonitoring, StutterMonitoring DEF Next
<1> QED BY <1>1, <1>2

\* What is known of every state.
LEMMA AllMonitoringHolds ==
  ASSUME ServiceConditions
  PROVE  Spec => []AllMonitoring
<1>1. Init => AllMonitoring
  <2>1. Init => MonitorsTypeOK
    BY DEF Init, ServerInit, MonitorsTypeOK, NoJob
  <2> QED BY <2>1, InitType, InitInv, InitService, InitMonitoring DEF AllMonitoring, AllInv
<1>2. AllMonitoring /\ [Next]_vars => AllMonitoring'
  BY NextMonitoring
<1> QED BY <1>1, <1>2, PTL DEF Spec

\* The monitor table follows the client that monitors, from the execution of its
\* Monitor to that of the MonitorEnd, and an update that was acknowledged has been
\* shown and carries the file as it is, though calls and updates are retransmitted
\* and lost.
THEOREM MonitoringInvariantHolds ==
  ASSUME ServiceConditions
  PROVE  Spec => []MonitoringInv
<1>1. AllMonitoring => MonitoringInv
  BY DEF AllMonitoring
<1> QED BY <1>1, AllMonitoringHolds, PTL

\* findRemove leaves no entry of a client whose user is back at the prompt: the
\* server never waits for it.
THEOREM IdleNotRegisteredHolds ==
  ASSUME ServiceConditions
  PROVE  Spec => []IdleNotRegistered
<1>1. AllMonitoring => IdleNotRegistered
  <2> SUFFICES ASSUME AllMonitoring, NEW c \in Clients, pc[c] = "ready", Entries(c) # {}
               PROVE  FALSE
    BY DEF IdleNotRegistered
  <2> USE DEF AllMonitoring
  <2>1. PICK i \in DOMAIN monitors : HasNumber(c, monitors[i].clientId)
    BY DEF Entries
  <2>2. monitors \in Seq(Entry) /\ monitors[i] \in ToSet(monitors)
    BY EntriesType DEF ToSet
  <2>3. PICK w \in Monitoring : HasNumber(w, monitors[i].clientId)
    BY <2>2 DEF MonitoringInv, TableInv, EntriesOfMonitoring
  <2>4. c \in Monitoring
    BY <2>1, <2>3 DEF HasNumber
  <2>5. Len(monitors) = 0
    BY <2>4 DEF MonitoringInv, TableInv, TableFollows, IsRegistered
  <2> QED BY <2>2, <2>5
<1> QED BY <1>1, AllMonitoringHolds, PTL

\* Between two calls of the server, a client that is monitoring is registered, and
\* has been shown the present state of every file it registered for, unless the
\* file has not changed since.
THEOREM MonitorsUpToDateHolds ==
  ASSUME ServiceConditions
  PROVE  Spec => []MonitorsUpToDate
<1>1. AllMonitoring => MonitorsUpToDate
  <2> SUFFICES ASSUME AllMonitoring, pc[Srv] = "ready", NEW c \in Clients, pc[c] = "monitor"
               PROVE  /\ Entries(c) # {}
                      /\ \A i \in Entries(c) :
                           files[monitors[i].filepath]
                             \in {monitors[i].startTime, shown[c][monitors[i].filepath]}
    BY DEF MonitorsUpToDate
  <2> USE DEF AllMonitoring
  <2>1. c \in Monitoring
    BY DEF AllInv, ServiceInv, CallsInv, CallsOfClient
  <2>2. Len(monitors) = 1 /\ EntriesShown(c) /\ monitors \in Seq(Entry)
    BY <2>1, EntriesType DEF MonitoringInv, TableInv, TableFollows, IsRegistered, ShownInv
  <2>3. \A i \in DOMAIN monitors : monitors[i] \in ToSet(monitors)
    BY DEF ToSet
  <2>4. Entries(c) # {}
    <3>1. 1 \in DOMAIN monitors
      BY <2>2
    <3>2. PICK w \in Monitoring : HasNumber(w, monitors[1].clientId)
      BY <2>3, <3>1 DEF MonitoringInv, TableInv, EntriesOfMonitoring
    <3>3. w = c
      BY <2>1 DEF ServiceConditions
    <3> QED BY <3>1, <3>2, <3>3 DEF Entries
  <2>5. \A i \in Entries(c) : files[monitors[i].filepath]
                                \in {monitors[i].startTime, shown[c][monitors[i].filepath]}
    BY <2>2, <2>3 DEF EntriesShown, Entries
  <2> QED BY <2>4, <2>5
<1> QED BY <1>1, AllMonitoringHolds, PTL

-----------------------------------------------------------------------------
(* What is heard when no process runs with -d.                              *)

\* What is known of a state when no packet is lost.
AllHeard == AllMonitoring /\ HeardInv

\* A queue is not its tail.
LEMMA TailDiffers ==
  ASSUME NEW S, NEW q \in Seq(S), q # <<>>
  PROVE  Tail(q) # q
<1>1. Len(Tail(q)) = Len(q) - 1 /\ Len(q) \in Nat
  OBVIOUS
<1>2. ASSUME Tail(q) = q PROVE FALSE
  <2>1. Len(Tail(q)) = Len(q)
    BY <1>2
  <2> QED BY <1>1, <2>1
<1> QED BY <1>2

\* What a client takes from its queue: sendMessage takes no answer without returning
\* it, and a new update is acknowledged.
HeardFlow(c) ==
  /\ pc[c] = "rpc" /\ pc'[c] = "rpc" /\ messageNum'[c] = messageNum[c] =>
       inbox'[c] = inbox[c] \/ ~Answered(c)
  /\ /\ pc[c] = "monitor" /\ pc'[c] = "monitor" /\ Arrived(c)
     /\ IsUpdate(Packet(c).msg) /\ Packet(c).msg.num > prevPacketNumber[c]
     /\ pc[Srv] # "down"
     => inbox'[c] = inbox[c] \/ \E i \in DOMAIN Queue' : IsUpdate(Queue'[i].msg)

\* Every step of a client goes this way.
LEMMA ClientStepHeard ==
  ASSUME ServiceConditions, Dropping = {}, AllInv, NEW c \in Clients, UserStep(c) \/ ClientStep(c)
  PROVE  HeardFlow(c)
<1> USE DEF AllInv
<1>1. /\ c \in Nodes /\ c # Srv /\ messageNum[c] \in Nat /\ messageNum \in [ Nodes -> Nat ]
      /\ prevPacketNumber \in [ Clients -> Int ]
      /\ pc \in [ Nodes -> {"down", "ready", "rpc", "monitor"} ]
      /\ inbox \in [ Nodes -> Seq(Packets) ]
  BY DEF BasicTypeOK, SenderTypeOK, ClientTypeOK
<1>2. ASSUME pc[c] \notin {"rpc", "monitor"} \/ pc'[c] # pc[c] PROVE HeardFlow(c)
  BY <1>2 DEF HeardFlow
<1>3. CASE Launch(c)
  BY <1>2, <1>3 DEF Launch
<1>4. CASE \/ EnterCommand(c) \/ Quit(c) \/ ReadLocally(c) \/ AskForFile(c)
           \/ AskWhetherFresh(c) \/ ReadMalformed(c)
  BY <1>2, <1>4 DEF EnterCommand, Quit, ReadLocally, AskForFile, AskWhetherFresh, StartRead, ReadMalformed
<1>5. CASE ReceiveResponse(c) \/ ReceiveEndResponse(c)
  <2>1. pc[c] = "rpc" /\ pc'[c] # "rpc"
    BY <1>1, <1>5 DEF ReceiveResponse, ReceiveEndResponse, Answered, AfterResponse
  <2> QED BY <1>2, <2>1
<1>6. CASE ReceiveNoFile(c) \/ ReceiveFile(c) \/ ReceiveUnmodified(c)
  <2>1. PICK resp : FinishRead(c, resp)
    BY <1>6 DEF ReceiveNoFile, ReceiveFile, ReceiveUnmodified
  <2>2. pc[c] = "rpc" /\ pc'[c] = "ready"
    BY <1>1, <1>6, <2>1
       DEF FinishRead, ReceiveNoFile, ReceiveFile, ReceiveUnmodified, StoreCopy, ReceiveForCache, Answered
  <2> QED BY <1>2, <2>2
<1>7. CASE ReceiveFileAndAsk(c) \/ ReceiveModified(c)
  <2>1. PICK callType : Ask(c, callType, Path(c), Consumed(c))
    BY <1>7 DEF ReceiveFileAndAsk, ReceiveModified
  <2>2. pc[c] = "rpc" /\ messageNum'[c] = messageNum[c] + 1
    BY <1>1, <1>7, <2>1
       DEF Ask, SendMessage, ReceiveFileAndAsk, ReceiveModified, StoreCopy, ReceiveForCache, Answered
  <2> QED BY <1>1, <2>2 DEF HeardFlow
<1>8. CASE ShowUpdate(c)
  <2>1. PICK msg : msg = Packet(c).msg
    OBVIOUS
  <2>2. pc[c] = "monitor" /\ Arrived(c) /\ Acknowledge(c, msg)
    BY <1>8, <2>1 DEF ShowUpdate, TakePacket
  <2>3. PICK ack : ack = Numbered(Message("MonitorUpdate", <<Good>>, <<>>), msg.num, msg.run)
    OBVIOUS
  <2>4. Transmit(Consumed(c), c, Srv, ack) /\ IsUpdate(ack)
    <3>1. Packet(c).from = Srv
      BY <2>2, MonitorHead
    <3>2. IsUpdate(ack)
      BY <2>3 DEF Numbered, Message, IsUpdate
    <3> QED BY <2>2, <2>3, <3>1, <3>2 DEF Acknowledge, SendResponse
  <2>5. Consumed(c) \in [ Nodes -> Seq(Packets) ] /\ Consumed(c)[Srv] = Queue
    BY <1>1, <2>2, ConsumedType DEF Consumed, Queue, BasicTypeOK, Nodes
  <2>6. pc[Srv] # "down" => Queue' = Append(Queue, [ from |-> c, msg |-> ack ])
    <3>1. PICK queues : queues = Consumed(c)
      OBVIOUS
    <3>2. queues \in [ Nodes -> Seq(Packets) ] /\ queues[Srv] = Queue /\ Srv \in Nodes
      BY <2>5, <3>1 DEF Nodes
    <3>3. Transmit(queues, c, Srv, ack)
      BY <2>4, <3>1
    <3>4. ASSUME pc[Srv] # "down"
          PROVE  inbox'[Srv] = Append(queues[Srv], [ from |-> c, msg |-> ack ])
      BY <3>2, <3>3, <3>4 DEF Transmit, Delivered, ToDrop
    <3> QED BY <3>2, <3>4 DEF Queue
  <2>7. ASSUME pc[Srv] # "down" PROVE \E i \in DOMAIN Queue' : IsUpdate(Queue'[i].msg)
    <3>1. PICK p : p = [ from |-> c, msg |-> ack ]
      OBVIOUS
    <3>2. Queue \in Seq(Packets) /\ Queue' = Append(Queue, p) /\ p.msg = ack
      BY <1>1, <2>6, <2>7, <3>1 DEF Queue
    <3>3. Len(Queue) + 1 \in DOMAIN Queue' /\ Queue'[Len(Queue) + 1] = p
      BY <3>2
    <3> QED BY <2>4, <3>2, <3>3
  <2> QED BY <2>2, <2>7 DEF HeardFlow
<1>9. CASE CrashOnMissingContent(c) \/ SurviveMissingContent(c)
  <2>1. pc[c] = "monitor" /\ Arrived(c) /\ Len(Packet(c).msg.strs) < 2
    BY <1>9 DEF CrashOnMissingContent, SurviveMissingContent, LacksContent, TakePacket
  <2>2. ~IsUpdate(Packet(c).msg)
    <3>1. IsUpdate(Packet(c).msg) => Len(Packet(c).msg.strs) = 2
      BY <2>1, MonitorHead
    <3> QED BY <2>1, <3>1
  <2> QED BY <2>1, <2>2 DEF HeardFlow
<1>10. CASE IgnoreDuplicate(c)
  <2>1. pc[c] = "monitor" /\ ~(Packet(c).msg.num > prevPacketNumber[c])
    BY <1>10 DEF IgnoreDuplicate, TakePacket, IsNew
  <2> QED BY <2>1 DEF HeardFlow
<1>11. CASE EndMonitoring(c)
  <2>1. pc[c] = "monitor" /\ pc'[c] = "rpc"
    BY <1>1, <1>11 DEF EndMonitoring, SendMessage
  <2> QED BY <1>2, <2>1
<1>12. CASE ClientDiscards(c) \/ ClientRetransmits(c)
  BY <1>12 DEF ClientDiscards, ClientRetransmits, DiscardImproper, Retransmit, TimedOut, Answered, HeardFlow
<1>13. CASE ClientGivesUp(c)
  <2>1. pc[c] = "rpc" /\ pc'[c] = "down"
    BY <1>1, <1>13 DEF ClientGivesUp, OutOfTries, TimedOut, Exit
  <2> QED BY <1>2, <2>1
<1> QED
  BY <1>3, <1>4, <1>5, <1>6, <1>7, <1>8, <1>9, <1>10, <1>11, <1>12, <1>13 DEF UserStep, ClientStep

\* No client takes a packet from the server's queue.
LEMMA QueueGrows ==
  ASSUME BasicTypeOK, NEW c \in Clients, ClientMove(c), NEW i \in DOMAIN Queue
  PROVE  i \in DOMAIN Queue' /\ Queue'[i] = Queue[i]
<1>1. PICK msg : Sends(c, msg)
  BY DEF ClientMove, Quiet, Calls, Waits
<1>2. Queue \in Seq(Packets)
  BY NumbersType
<1>3. PICK p : p = [ from |-> c, msg |-> msg ]
  OBVIOUS
<1>4. Queue' = Queue \/ Queue' = Append(Queue, p)
  BY <1>1, <1>3 DEF Sends
<1> QED BY <1>2, <1>4

\* While updates go out, the client that monitors is registered unless it has ended.
LEMMA WatcherRegistered ==
  ASSUME AllHeard, NEW w \in Monitoring, pc[Srv] = "rpc", pc[w] # "down"
  PROVE  IsRegistered(w)
<1>1. TableFollows(w) /\ monitors # <<>> /\ monitors \in Seq(Entry)
  BY EntriesType DEF AllHeard, AllMonitoring, MonitoringInv, TableInv, HeardInv, JobWatched
<1> QED BY <1>1 DEF TableFollows

\* A client's queue loses its head, or nothing, while the client goes on.
LEMMA QueueShifts ==
  ASSUME AllInv, NEW c \in Clients, ClientMove(c), pc'[c] # "down", NEW i \in DOMAIN inbox[c]
  PROVE  \/ inbox'[c] = inbox[c]
         \/ /\ inbox'[c] = Tail(inbox[c]) /\ Arrived(c) /\ Packet(c) = inbox[c][1] /\ 1 \in DOMAIN inbox[c]
            /\ i # 1 => i - 1 \in DOMAIN inbox'[c] /\ inbox'[c][i - 1] = inbox[c][i]
<1>1. inbox[c] \in Seq(Packets) /\ inbox[c] # <<>>
  BY NodeTypes DEF AllInv
<1>2. inbox'[c] = inbox[c] \/ inbox'[c] = Tail(inbox[c])
  BY DEF ClientMove, ClientKind, Leaves, Returns, TakesUpdate, Idles, MakesCall, WaitsOn, senderVars
<1>3. i # 1 => i - 1 \in DOMAIN Tail(inbox[c]) /\ Tail(inbox[c])[i - 1] = inbox[c][i]
  BY <1>1
<1> QED BY <1>1, <1>2, <1>3, TakenQueue DEF Arrived, Packet

\* The response to a Monitor stays in the queue until sendMessage returns it.
LEMMA ClientMonitorHeard ==
  ASSUME ServiceConditions, AllHeard, NEW c \in Clients, ClientMove(c), UserStep(c) \/ ClientStep(c),
         CallFlow(c), HeardFlow(c), NEW w \in Monitoring
  PROVE  MonitorHeard(w)'
<1> USE DEF AllHeard, AllMonitoring
<1>1. /\ OthersKept(c) /\ UNCHANGED executed /\ w \in Clients
      /\ messageNum[c] \in Nat /\ Srv \notin Clients
  BY AnswerNumbers, MoveKeepsOthers, SenderAssumption DEF OthersKept, serverVars, Monitoring
<1>2. MonitorHeard(w)
  BY DEF HeardInv
<1> SUFFICES ASSUME Awaits(w)', LastExecuted(w)'
             PROVE  \E j \in DOMAIN inbox'[w] : IsAnswer(pending'[w].call, inbox'[w][j].msg)
  BY DEF MonitorHeard, IsAccepted
<1>3. CASE w # c
  <2>1. pc'[w] = pc[w] /\ messageNum'[w] = messageNum[w] /\ pending'[w] = pending[w] /\ inbox'[w] = inbox[w]
    BY <1>1, <1>3 DEF OthersKept, ClientMove, ClientKind
  <2> QED BY <1>1, <1>2, <2>1 DEF MonitorHeard, Awaits, LastExecuted, WasExecuted, IsAccepted
<1>4. CASE w = c
  <2>1. pc'[c] = "rpc" /\ pending'[c].call.callType = "Monitor"
    BY <1>4 DEF Awaits
  <2>2. ASSUME MakesCall(c) PROVE FALSE
    <3>1. pc[c] # "down"
      BY <2>1, GoesOnAnswered
    <3>2. messageNum'[c] = messageNum[c] + 1 /\ ~WasExecuted(c, messageNum[c])
      BY <1>1, <2>2, <3>1, ExecutedNumber DEF MakesCall
    <3> QED BY <1>1, <1>4, <3>2 DEF LastExecuted, WasExecuted
  <2>3. /\ pc[c] = "rpc" /\ messageNum'[c] = messageNum[c] /\ pending'[c].call = pending[c].call
    BY <2>1, <2>2
       DEF ClientMove, ClientKind, Leaves, Returns, TakesUpdate, Idles, WaitsOn, Waits, Quiet, Calls, senderVars
  <2>4. PICK j \in DOMAIN inbox[c] : IsAnswer(pending[c].call, inbox[c][j].msg)
    BY <1>1, <1>2, <1>4, <2>1, <2>3 DEF MonitorHeard, Awaits, LastExecuted, WasExecuted, IsAccepted
  <2>5. inbox'[c] = inbox[c] \/ ~Answered(c)
    BY <2>1, <2>3 DEF HeardFlow
  <2>6. j = 1 => inbox'[c] = inbox[c]
    <3>1. \/ inbox'[c] = inbox[c]
          \/ Arrived(c) /\ Packet(c) = inbox[c][1]
      BY <2>1, QueueShifts
    <3> QED BY <2>3, <2>4, <2>5, <3>1 DEF Answered
  <2> QED BY <1>4, <2>1, <2>3, <2>4, <2>6, QueueShifts
<1> QED BY <1>3, <1>4

\* An update in the queue of a client, behind the response it waits for.
HasUpdate(w, i) ==
  /\ i \in DOMAIN inbox[w]
  /\ IsCurrent(inbox[w][i].msg)
  /\ prevPacketNumber[w] < messageNum[Srv] - 1
  /\ Awaits(w) => \E j \in 1 .. i - 1 : IsAccepted(w, inbox[w][j])

AckQueued == \E i \in DOMAIN Queue : IsUpdate(Queue[i].msg)

LEMMA UpdateHeardIs ==
  ASSUME NEW w \in Monitoring
  PROVE  UpdateHeard(w) <=>
           (pc[Srv] = "rpc" /\ (pc[w] = "monitor" \/ Awaits(w)) =>
              AckQueued \/ \E i \in DOMAIN inbox[w] : HasUpdate(w, i))
  BY DEF UpdateHeard, HasUpdate, AckQueued, Queue

\* An update is taken from the queue only to be acknowledged.
LEMMA ClientUpdateHeard ==
  ASSUME ServiceConditions, AllHeard, NEW c \in Clients, ClientMove(c), UserStep(c) \/ ClientStep(c),
         CallFlow(c), HeardFlow(c), NEW w \in Monitoring
  PROVE  UpdateHeard(w)'
<1> USE DEF AllHeard, AllMonitoring
<1>1. /\ OthersKept(c) /\ UNCHANGED executed /\ w \in Clients /\ Srv # c /\ Srv \in Nodes
      /\ messageNum[c] \in Nat /\ Srv \notin Clients
      /\ pc'[Srv] = pc[Srv] /\ messageNum'[Srv] = messageNum[Srv]
  BY AnswerNumbers, MoveKeepsOthers, SenderAssumption DEF OthersKept, serverVars, Monitoring, Nodes
<1> SUFFICES ASSUME pc[Srv] = "rpc", pc'[w] = "monitor" \/ Awaits(w)', ~AckQueued'
             PROVE  \E i \in DOMAIN inbox'[w] : HasUpdate(w, i)'
  BY <1>1, UpdateHeardIs DEF UpdateHeard, HasUpdate, AckQueued, Queue
<1>2. ~AckQueued
  BY QueueGrows DEF AckQueued, AllInv
<1>3. CASE w # c
  <2>1. pc'[w] = pc[w] /\ pending'[w] = pending[w] /\ inbox'[w] = inbox[w]
        /\ prevPacketNumber'[w] = prevPacketNumber[w]
    BY <1>1, <1>3
       DEF OthersKept, ClientMove, ClientKind, Leaves, Returns, TakesUpdate, Idles, MakesCall, WaitsOn
  <2>2. PICK i \in DOMAIN inbox[w] : HasUpdate(w, i)
    BY <1>2, <2>1, UpdateHeardIs DEF HeardInv, Awaits
  <2> QED BY <1>1, <2>1, <2>2 DEF HasUpdate, Awaits, IsAccepted, IsCurrent
<1>4. CASE w = c
  <2>1. pc'[c] # "down"
    BY <1>4 DEF Awaits
  <2>2. ASSUME MakesCall(c) PROVE FALSE
    <3>1. pc'[c] = "rpc" /\ pending'[c].call.callType = "Monitor"
      BY <1>4, <2>2 DEF Awaits, MakesCall, Calls
    <3>2. pc[c] # "down"
      BY <3>1, GoesOnAnswered
    <3>3. messageNum'[c] # messageNum[c]
      BY <1>1, <2>2, <3>2 DEF MakesCall
    <3>4. pc[c] = "ready"
      BY <3>1, <3>2, <3>3, NodeTypes DEF CallFlow, AllInv
    <3> QED BY <1>4, <3>4, WatcherRegistered DEF IsRegistered
  <2>3. /\ pc[c] = "monitor" \/ Awaits(c)
        /\ Awaits(c)' => Awaits(c) /\ pending'[c].call = pending[c].call /\ messageNum'[c] = messageNum[c]
    BY <1>4, <2>1, <2>2
       DEF ClientMove, ClientKind, Leaves, Returns, Answered, TakesUpdate, Idles, WaitsOn, Waits, Awaits,
           senderVars
  <2>4. PICK i \in DOMAIN inbox[c] : HasUpdate(c, i)
    BY <1>2, <1>4, <2>3, UpdateHeardIs DEF HeardInv
  <2>5. CASE pc[c] = "monitor"
    <3>1. pc'[c] = "monitor" /\ ~Awaits(c)'
      BY <1>4, <2>3, <2>5 DEF Awaits
    <3>2. TakesUpdate(c) \/ Idles(c)
      BY <2>1, <2>2, <2>5 DEF ClientMove, ClientKind, Leaves, Returns, Answered, WaitsOn, Waits
    <3>3. CASE Idles(c)
      BY <1>1, <1>4, <2>4, <3>1, <3>3 DEF Idles, senderVars, HasUpdate, IsCurrent
    <3>4. CASE TakesUpdate(c)
      <4>1. Arrived(c) /\ inbox'[c] = Tail(inbox[c]) /\ inbox[c] \in Seq(Packets)
        BY <3>4, NodeTypes DEF TakesUpdate, AllInv
      <4>2. ~(IsUpdate(Packet(c).msg) /\ Packet(c).msg.num > prevPacketNumber[c])
        <5>1. inbox'[c] # inbox[c]
          BY <4>1, TailDiffers DEF Arrived
        <5> QED BY <2>5, <3>1, <4>1, <5>1 DEF HeardFlow, AckQueued
      <4>3. prevPacketNumber'[c] = prevPacketNumber[c]
        BY <3>4, <4>2 DEF TakesUpdate
      <4>4. i # 1
        BY <2>4, <2>5, <4>1, <4>2, MonitorHead DEF HasUpdate, IsCurrent
      <4>5. i - 1 \in DOMAIN inbox'[c] /\ inbox'[c][i - 1] = inbox[c][i]
        BY <4>1, <4>4
      <4>6. HasUpdate(c, i - 1)'
        BY <1>1, <2>4, <3>1, <4>3, <4>5 DEF HasUpdate, IsCurrent
      <4> QED BY <1>4, <4>5, <4>6
    <3> QED BY <3>2, <3>3, <3>4
  <2>6. CASE Awaits(c)
    <3>1. PICK j \in 1 .. i - 1 : IsAnswer(pending[c].call, inbox[c][j].msg)
      BY <2>4, <2>6 DEF HasUpdate, IsAccepted
    <3>2. inbox[c] \in Seq(Packets) /\ i \in 1 .. Len(inbox[c]) /\ j \in Nat /\ j < i /\ j \in DOMAIN inbox[c]
          /\ inbox[c] # <<>>
      <4>1. inbox[c] \in Seq(Packets)
        BY NodeTypes DEF AllInv
      <4> QED BY <3>1, <4>1
    <3>3. prevPacketNumber'[c] = prevPacketNumber[c]
      BY <2>1, <2>2, <2>6
         DEF ClientMove, ClientKind, Leaves, Returns, TakesUpdate, Idles, WaitsOn, Awaits
    <3>4. CASE inbox'[c] = inbox[c]
      <4>1. HasUpdate(c, i)'
        BY <1>1, <2>3, <2>4, <3>3, <3>4 DEF HasUpdate, IsCurrent, IsAccepted
      <4> QED BY <1>4, <3>4, <4>1
    <3>5. CASE inbox'[c] # inbox[c]
      <4>1. inbox'[c] = Tail(inbox[c]) /\ Arrived(c) /\ Packet(c) = inbox[c][1]
        BY <2>1, <3>5, QueueShifts
      <4>2. i - 1 \in DOMAIN inbox'[c] /\ inbox'[c][i - 1] = inbox[c][i] /\ i - 1 \in Nat
        BY <3>2, <4>1
      <4>3. Awaits(c)' => \E k \in 1 .. i - 2 : IsAnswer(pending'[c].call, inbox'[c][k].msg)
        <5> SUFFICES ASSUME Awaits(c)' PROVE \E k \in 1 .. i - 2 : IsAnswer(pending'[c].call, inbox'[c][k].msg)
          OBVIOUS
        <5>1. ~Answered(c)
          BY <2>3, <2>6, <3>5 DEF HeardFlow, Awaits
        <5>2. j # 1
          BY <2>6, <3>1, <4>1, <5>1 DEF Answered, Awaits
        <5>3. j - 1 \in 1 .. i - 2 /\ inbox'[c][j - 1] = inbox[c][j]
          BY <3>2, <4>1, <5>2
        <5> QED BY <2>3, <3>1, <5>3
      <4>4. i - 1 - 1 = i - 2
        BY <3>2
      <4>5. HasUpdate(c, i - 1)'
        BY <1>1, <2>4, <3>3, <4>2, <4>3, <4>4 DEF HasUpdate, IsCurrent, IsAccepted
      <4> QED BY <1>4, <4>2, <4>5
    <3> QED BY <3>4, <3>5
  <2> QED BY <2>3, <2>5, <2>6
<1> QED BY <1>3, <1>4

\* Every step of a client keeps the invariant.
LEMMA ClientStepHearing ==
  ASSUME ServiceConditions, Dropping = {}, AllHeard, NEW c \in Clients, UserStep(c) \/ ClientStep(c)
  PROVE  HeardInv'
<1> USE DEF AllHeard, AllMonitoring
<1>1. ClientMove(c)
  BY ClientKinds, ClientMoves DEF AllInv, ClientMove
<1>2. CallFlow(c) /\ HeardFlow(c)
  BY ClientStepFlow, ClientStepHeard DEF MonitoringInv
<1>3. pc'[Srv] = pc[Srv] /\ UNCHANGED <<clientMap, monitors, job>>
  BY <1>1, MoveKeepsOthers, SenderAssumption DEF OthersKept, serverVars, Nodes
<1>4. JobWatched'
  BY <1>3 DEF HeardInv, JobWatched, HasNumber
<1> QED BY <1>1, <1>2, <1>4, ClientMonitorHeard, ClientUpdateHeard DEF HeardInv

\* The queue of a client only grows when the server moves.
LEMMA InboxGrows ==
  ASSUME AllInv, ServerKind, NEW d \in Clients, NEW i \in DOMAIN inbox[d]
  PROVE  i \in DOMAIN inbox'[d] /\ inbox'[d][i] = inbox[d][i]
<1>1. PICK msg : inbox'[d] = inbox[d] \/ inbox'[d] = Append(inbox[d], [ from |-> Srv, msg |-> msg ])
  BY ServerPackets
<1>2. PICK p : p = [ from |-> Srv, msg |-> msg ]
  OBVIOUS
<1>3. inbox[d] \in Seq(Packets) /\ (inbox'[d] = inbox[d] \/ inbox'[d] = Append(inbox[d], p))
  BY <1>1, <1>2, NodeTypes DEF AllInv
<1> QED BY <1>3

\* Of the calls that a client waits for, a Monitor is executed by the registration.
LEMMA MonitorRegistered ==
  ASSUME ServiceConditions, AllMonitoring, ServerStep, ServerMoves, NEW w \in Clients,
         Awaits(w), LastExecuted(w)', ~LastExecuted(w)
  PROVE  Register /\ Caller = w /\ Request = pending[w].call
<1> USE DEF AllMonitoring
<1>1. executed' # executed /\ <<1, w, 1, messageNum[w] - 1>> \in executed'
      /\ <<1, w, 1, messageNum[w] - 1>> \notin executed
  BY DEF LastExecuted, WasExecuted, ServerMoves
<1>2. \/ FailEdit \/ EditUnmonitored \/ EditMonitored \/ Register \/ Unregister
      \/ GetMode \/ TellModification \/ DumpFile
  BY <1>1
     DEF ServerStep, AnswerDuplicate, NotifyNext, NotifiedAll, GreetClient, ServeLateAcknowledgement,
         ServeMalformed, ServerDiscards, ServerRetransmits, ServerGivesUp, serverVars
<1>3. /\ Serving /\ ~IsDuplicate /\ Record /\ Request.callType # "Start"
      /\ Register \/ Request.callType # "Monitor"
  BY <1>2
     DEF FailEdit, EditUnmonitored, EditMonitored, Edit, Register, Unregister, GetMode,
         TellModification, DumpFile, Executing
<1>4. w = Caller
  BY <1>1, <1>3 DEF Record, Execution
<1>5. Request = pending[w].call
  BY <1>3, <1>4, ExecutedIsPending DEF Awaits
<1> QED BY <1>3, <1>4, <1>5 DEF Awaits

\* The response to a Monitor goes to the client that waits for it.
LEMMA ServerMonitorHeard ==
  ASSUME ServiceConditions, Dropping = {}, AllHeard, ServerStep, ServerKind, NEW w \in Monitoring
  PROVE  MonitorHeard(w)'
<1> USE DEF AllHeard, AllMonitoring
<1>1. /\ w \in Clients /\ w \in Nodes /\ ServerMoves
      /\ pc'[w] = pc[w] /\ messageNum'[w] = messageNum[w] /\ pending'[w] = pending[w]
  BY DEF ServerKind, ServerKeeps, ServerMoves, Monitoring
<1> SUFFICES ASSUME Awaits(w), LastExecuted(w)'
             PROVE  \E j \in DOMAIN inbox'[w] : IsAnswer(pending[w].call, inbox'[w][j].msg)
  BY <1>1 DEF MonitorHeard, Awaits, IsAccepted
<1>2. CASE LastExecuted(w)
  <2>1. PICK j \in DOMAIN inbox[w] : IsAnswer(pending[w].call, inbox[w][j].msg)
    BY <1>2 DEF HeardInv, MonitorHeard, IsAccepted
  <2> QED BY <1>1, <2>1, InboxGrows
<1>3. CASE ~LastExecuted(w)
  <2>1. Register /\ Caller = w /\ Request = pending[w].call
    BY <1>1, <1>3, MonitorRegistered
  <2>2. PICK resp : /\ resp = Message("Monitor", <<Good, Request.ints[1]>>, <<>>)
                    /\ SendResponse(Consumed(Srv), Srv, Caller, Request, resp)
    BY <2>1 DEF Register, Respond, Response
  <2>3. PICK msg : msg = Numbered(resp, Request.num, Request.run)
    OBVIOUS
  <2>4. PICK p : p = [ from |-> Srv, msg |-> msg ]
    OBVIOUS
  <2>5. IsAnswer(pending[w].call, p.msg)
    <3>1. p.msg.callType = "Monitor" /\ p.msg.num = Request.num
      BY <2>2, <2>3, <2>4 DEF Numbered, Message
    <3> QED BY <2>1, <3>1 DEF IsAnswer, Awaits
  <2>6. inbox'[w] = Append(inbox[w], p) /\ inbox[w] \in Seq(Packets)
    <3>1. /\ inbox \in [ Nodes -> Seq(Packets) ] /\ w # Srv /\ pc[w] # "down" /\ Arrived(Srv)
      BY <1>1, <2>1 DEF AllInv, BasicTypeOK, SenderTypeOK, Awaits, Register, Executing, Serving
    <3>2. Consumed(Srv) \in [ Nodes -> Seq(Packets) ] /\ Consumed(Srv)[w] = inbox[w]
      BY <1>1, <3>1, ConsumedType DEF Consumed, AllInv, BasicTypeOK, Nodes
    <3>3. PICK queues : queues = Consumed(Srv)
      OBVIOUS
    <3>4. queues \in [ Nodes -> Seq(Packets) ] /\ queues[w] = inbox[w]
      BY <3>2, <3>3
    <3>5. Transmit(queues, Srv, w, msg)
      BY <2>1, <2>2, <2>3, <3>3 DEF SendResponse
    <3>6. inbox'[w] = Append(queues[w], [ from |-> Srv, msg |-> msg ])
      BY <1>1, <3>1, <3>4, <3>5 DEF Transmit, Delivered, ToDrop
    <3>7. inbox[w] \in Seq(Packets)
      BY <1>1, <3>1
    <3> QED BY <2>4, <3>4, <3>6, <3>7
  <2> QED BY <2>5, <2>6
<1> QED BY <1>2, <1>3

\* A new update arrives behind what its client waits for.
LEMMA NewUpdateHeard ==
  ASSUME ServiceConditions, Dropping = {}, AllHeard, ServerKind, NEW w \in Monitoring,
         NEW queues \in {inbox, Consumed(Srv)}, queues = inbox \/ Arrived(Srv), NEW msg,
         Transmit(queues, Srv, w, msg), IsUpdate(msg), msg.num = messageNum[Srv],
         messageNum'[Srv] = messageNum[Srv] + 1, pc[Srv] \in {"ready", "rpc"}, monitors # <<>>
  PROVE  UpdateHeard(w)'
<1> USE DEF AllHeard, AllMonitoring
<1>1. /\ w \in Clients /\ w \in Nodes /\ w # Srv /\ messageNum[Srv] \in Nat
      /\ pc'[w] = pc[w] /\ pending'[w] = pending[w] /\ prevPacketNumber'[w] = prevPacketNumber[w]
      /\ inbox[w] \in Seq(Packets)
  BY NodeTypes DEF ServerKind, ServerKeeps, ServerMoves, clientVars, Monitoring, AllInv
<1> SUFFICES ASSUME pc[w] = "monitor" \/ Awaits(w)
             PROVE  \E i \in DOMAIN inbox'[w] : HasUpdate(w, i)'
  BY <1>1 DEF UpdateHeard, HasUpdate, Awaits
<1>2. PICK p : p = [ from |-> Srv, msg |-> msg ]
  OBVIOUS
<1>3. inbox'[w] = Append(inbox[w], p)
  <2>1. inbox \in [ Nodes -> Seq(Packets) ] /\ pc[w] # "down"
    BY DEF AllInv, BasicTypeOK, SenderTypeOK, Awaits
  <2>2. queues \in [ Nodes -> Seq(Packets) ] /\ queues[w] = inbox[w]
    <3>1. CASE queues = inbox
      BY <1>1, <2>1, <3>1
    <3>2. CASE queues = Consumed(Srv) /\ Arrived(Srv)
      <4>1. Consumed(Srv) \in [ Nodes -> Seq(Packets) ]
        BY <3>2, ConsumedType DEF AllInv, BasicTypeOK, Nodes
      <4>2. Consumed(Srv)[w] = inbox[w]
        BY <1>1, <2>1 DEF Consumed
      <4> QED BY <3>2, <4>1, <4>2
    <3> QED BY <3>1, <3>2
  <2>3. inbox'[w] = Append(queues[w], [ from |-> Srv, msg |-> msg ])
    BY <1>1, <2>1, <2>2 DEF Transmit, Delivered, ToDrop
  <2> QED BY <1>2, <2>2, <2>3
<1>4. PICK i : i = Len(inbox[w]) + 1
  OBVIOUS
<1>5. i \in DOMAIN inbox'[w] /\ inbox'[w][i] = p /\ i - 1 = Len(inbox[w])
      /\ \A j \in DOMAIN inbox[w] : j \in 1 .. i - 1 /\ inbox'[w][j] = inbox[w][j]
  BY <1>1, <1>3, <1>4
<1>6. prevPacketNumber[w] < messageNum'[Srv] - 1
  <2>1. prevPacketNumber[w] \in {messageNum[Srv] - 1, messageNum[Srv] - 2}
    BY DEF AllInv, ServiceInv, UpdatesInv, AcksInTime
  <2> QED BY <1>1, <2>1
<1>7. IsCurrent(p.msg)'
  <2>1. p.msg = msg /\ messageNum'[Srv] - 1 = messageNum[Srv]
    BY <1>1, <1>2
  <2> QED BY <2>1 DEF IsCurrent, IsUpdate
<1>8. ASSUME Awaits(w)
      PROVE  \E j \in 1 .. i - 1 : IsAnswer(pending'[w].call, inbox'[w][j].msg)
  <2>1. IsRegistered(w)
    <3>1. TableFollows(w) /\ monitors \in Seq(Entry) /\ pc[w] # "down"
      BY <1>8, EntriesType DEF MonitoringInv, TableInv, Awaits
    <3> QED BY <3>1 DEF TableFollows
  <2>2. LastExecuted(w)
    BY <1>8, <2>1 DEF Awaits, IsRegistered
  <2>3. PICK j \in DOMAIN inbox[w] : IsAnswer(pending[w].call, inbox[w][j].msg)
    BY <1>8, <2>2 DEF HeardInv, MonitorHeard, IsAccepted
  <2> QED BY <1>1, <1>5, <2>3
<1>9. HasUpdate(w, i)'
  BY <1>1, <1>5, <1>6, <1>7, <1>8 DEF HasUpdate, IsAccepted, Awaits
<1> QED BY <1>5, <1>9

\* The clients that an edit notifies are those of its file in the table, and there is
\* but one of them.
LEMMA EditIsHeard ==
  ASSUME ServiceConditions, Dropping = {}, AllHeard, ServerKind, EditMonitored
  PROVE  JobWatched' /\ \A w \in Monitoring : UpdateHeard(w)'
<1> USE DEF AllHeard, AllMonitoring
<1>1. PICK path \in Files, c \in Clients :
        /\ Edit(path)
        /\ Sweep(monitors, path) # <<>>
        /\ HasNumber(c, Head(Sweep(monitors, path)).clientId)
        /\ job' = [ from |-> Caller, call |-> Request, todo |-> Sweep(monitors, path) ]
        /\ Notify(Consumed(Srv), c, path, files[path] + 1)
  BY DEF EditMonitored
<1>2. PICK watchers : watchers = Sweep(monitors, path)
  OBVIOUS
<1>3. /\ Serving /\ Arrived(Srv) /\ pc[Srv] = "ready" /\ clientMap' = WithCaller /\ UNCHANGED monitors
      /\ monitors # <<>> /\ monitors \in Seq(Entry)
  BY <1>1, EmptyTable, EntriesType DEF Edit, Executing, Serving
<1>4. /\ watchers \in Seq(Entry) /\ watchers # <<>> /\ job'.todo = watchers
      /\ ToSet(watchers) \subseteq ToSet(monitors)
  BY <1>1, <1>2, <1>3, SweepFinds
<1>5. ASSUME NEW e \in ToSet(watchers)
      PROVE  \E w \in Monitoring : HasNumber(w, e.clientId)
  BY <1>4, <1>5 DEF MonitoringInv, TableInv, EntriesOfMonitoring
<1>6. \A d, n : HasNumber(d, n) => HasNumber(d, n)'
  BY <1>3, NumbersKept
<1>7. JobWatched'
  BY <1>3, <1>4, <1>5, <1>6 DEF JobWatched
<1>8. Head(watchers) \in ToSet(watchers)
  BY <1>4 DEF ToSet
<1>9. c \in Monitoring
  BY <1>1, <1>2, <1>5, <1>8 DEF HasNumber
<1>10. PICK msg : msg = Numbered(Message("MonitorUpdate", <<>>, <<path, files[path] + 1>>),
                                 messageNum[Srv], runs[Srv])
  OBVIOUS
<1>11. /\ Transmit(Consumed(Srv), Srv, c, msg) /\ IsUpdate(msg) /\ msg.num = messageNum[Srv]
       /\ messageNum'[Srv] = messageNum[Srv] + 1
  BY <1>1, <1>10, NotifySends
<1>12. UpdateHeard(c)'
  BY <1>3, <1>9, <1>11, NewUpdateHeard
<1> QED BY <1>7, <1>9, <1>12 DEF ServiceConditions

\* So is the one that the server goes on to.
LEMMA NextIsHeard ==
  ASSUME ServiceConditions, Dropping = {}, AllHeard, ServerKind, NotifyNext
  PROVE  JobWatched' /\ \A w \in Monitoring : UpdateHeard(w)'
<1> USE DEF AllHeard, AllMonitoring
<1>1. PICK path : path = job.call.strs[1]
  OBVIOUS
<1>2. PICK c \in Clients :
        /\ HasNumber(c, job.todo[2].clientId)
        /\ Notify(Consumed(Srv), c, path, files[path])
  BY <1>1 DEF NotifyNext
<1>3. /\ Answered(Srv) /\ pc[Srv] = "rpc" /\ Arrived(Srv)
      /\ Len(job.todo) > 1 /\ job'.todo = Tail(job.todo)
      /\ UNCHANGED <<clientMap, monitors>>
  BY DEF NotifyNext, Answered
<1>4. /\ job.todo \in Seq(Entry) /\ monitors # <<>>
      /\ \A e \in ToSet(job.todo) : \E w \in Monitoring : HasNumber(w, e.clientId)
  BY <1>3 DEF MonitorsTypeOK, Entry, HeardInv, JobWatched
<1>5. job'.todo # <<>> /\ ToSet(job'.todo) \subseteq ToSet(job.todo) /\ job.todo[2] \in ToSet(job.todo)
  <2>1. Tail(job.todo) # <<>> /\ 2 \in DOMAIN job.todo
    <3>1. PICK t \in Seq(Entry) : t = job.todo
      BY <1>4
    <3>2. Len(t) > 1 /\ Len(Tail(t)) = Len(t) - 1
      BY <1>3, <3>1
    <3>3. Tail(t) # <<>>
      BY <3>2, <3>1
    <3>4. 2 \in DOMAIN t
      BY <3>2
    <3> QED BY <3>1, <3>3, <3>4
  <2>2. \A i \in DOMAIN Tail(job.todo) : i + 1 \in DOMAIN job.todo /\ Tail(job.todo)[i] = job.todo[i + 1]
    BY <1>3, <1>4
  <2> QED BY <1>3, <2>1, <2>2 DEF ToSet
<1>6. JobWatched'
  BY <1>3, <1>4, <1>5 DEF JobWatched, HasNumber
<1>7. c \in Monitoring
  BY <1>2, <1>4, <1>5 DEF HasNumber
<1>8. PICK msg : msg = Numbered(Message("MonitorUpdate", <<>>, <<path, files[path]>>),
                                messageNum[Srv], runs[Srv])
  OBVIOUS
<1>9. /\ Transmit(Consumed(Srv), Srv, c, msg) /\ IsUpdate(msg) /\ msg.num = messageNum[Srv]
      /\ messageNum'[Srv] = messageNum[Srv] + 1
  BY <1>2, <1>8, NotifySends
<1>10. UpdateHeard(c)'
  BY <1>3, <1>4, <1>7, <1>9, NewUpdateHeard
<1> QED BY <1>6, <1>7, <1>10 DEF ServiceConditions

\* What the server discards is not what it waits for.
LEMMA WaitingIsHeard ==
  ASSUME AllHeard, ServerKind, ServerDiscards \/ ServerRetransmits
  PROVE  JobWatched' /\ \A w \in Monitoring : UpdateHeard(w)'
<1> USE DEF AllHeard, AllMonitoring
<1>1. /\ UNCHANGED <<clientMap, monitors, job>>
      /\ pc[Srv] = "rpc" /\ pc'[Srv] = "rpc" /\ messageNum'[Srv] = messageNum[Srv]
      /\ Queue \in Seq(Packets)
  BY NumbersType
     DEF ServerRetransmits, ServerDiscards, Retransmit, TimedOut, DiscardImproper, serverVars, AllInv
<1>2. JobWatched'
  BY <1>1 DEF HeardInv, JobWatched, HasNumber
<1>3. ASSUME NEW w \in Monitoring PROVE UpdateHeard(w)'
  <2>1. /\ w \in Clients /\ pc'[w] = pc[w] /\ pending'[w] = pending[w]
        /\ prevPacketNumber'[w] = prevPacketNumber[w]
    BY DEF ServerKind, ServerKeeps, ServerMoves, clientVars, Monitoring
  <2> SUFFICES ASSUME pc[w] = "monitor" \/ Awaits(w)
               PROVE  AckQueued' \/ \E i \in DOMAIN inbox'[w] : HasUpdate(w, i)'
    BY <1>1, <2>1 DEF UpdateHeard, HasUpdate, AckQueued, Queue, Awaits
  <2>2. AckQueued \/ \E i \in DOMAIN inbox[w] : HasUpdate(w, i)
    BY <1>1, UpdateHeardIs DEF HeardInv
  <2>3. ASSUME NEW i \in DOMAIN inbox[w], HasUpdate(w, i)
        PROVE  i \in DOMAIN inbox'[w] /\ HasUpdate(w, i)'
    <3>1. \A j \in DOMAIN inbox[w] : j \in DOMAIN inbox'[w] /\ inbox'[w][j] = inbox[w][j]
      BY <2>1, InboxGrows
    <3>2. \A j \in 1 .. i - 1 : j \in DOMAIN inbox[w]
      <4>1. inbox[w] \in Seq(Packets)
        BY <2>1, NodeTypes DEF AllInv
      <4> QED BY <2>3, <4>1
    <3> QED BY <1>1, <2>1, <2>3, <3>1, <3>2 DEF HasUpdate, IsCurrent, IsAccepted, Awaits
  <2>4. ASSUME NEW i \in DOMAIN Queue, IsUpdate(Queue[i].msg) PROVE AckQueued'
    <3>1. CASE ServerRetransmits
      <4>1. PICK to, msg : Transmit(inbox, Srv, to, msg) /\ to = pending[Srv].sa
        BY <3>1 DEF ServerRetransmits, Retransmit
      <4>2. Queue' = Queue
        BY <1>1, <4>1, ServerTransmits
           DEF AllInv, AtMostOnceInv, FromClients, BasicTypeOK, SenderTypeOK, Queue
      <4> QED BY <2>4, <4>2 DEF AckQueued
    <3>2. CASE ServerDiscards
      <4>1. /\ Queue # <<>> /\ Queue' = Tail(Queue) /\ Packet(Srv) = Queue[1]
            /\ ~IsAnswer(pending[Srv].call, Queue[1].msg)
        BY <1>1, <3>2, TakenQueue
           DEF ServerDiscards, DiscardImproper, Arrived, Consumed, Packet, Queue,
               AllInv, BasicTypeOK, SenderTypeOK
      <4>2. IsAnswer(pending[Srv].call, Queue[i].msg)
        <5>1. IsUpdate(pending[Srv].call) /\ pending[Srv].call.num = messageNum[Srv] - 1
          BY <1>1 DEF AllInv, ServiceInv, UpdatesInv, ServerCalls
        <5>2. Queue[i].msg.num = messageNum[Srv] - 1
          BY <2>4 DEF AllInv, ServiceInv, UpdatesInv, AcksInTime, Queue
        <5> QED BY <2>4, <5>1, <5>2 DEF IsAnswer, IsUpdate
      <4>3. i # 1
        BY <4>1, <4>2
      <4>4. i - 1 \in DOMAIN Queue' /\ Queue'[i - 1] = Queue[i]
        BY <1>1, <4>1, <4>3
      <4> QED BY <2>4, <4>4 DEF AckQueued
    <3> QED BY <3>1, <3>2
  <2> QED BY <2>2, <2>3, <2>4 DEF AckQueued
<1> QED BY <1>2, <1>3

\* Every step of the server keeps the invariant.
LEMMA ServerStepHearing ==
  ASSUME ServiceConditions, Dropping = {}, AllHeard, BasicTypeOK', ServerStep
  PROVE  HeardInv'
<1> USE DEF AllHeard, AllMonitoring
<1>1. ServerKind
  BY ServerKinds
<1>2. \A w \in Monitoring : MonitorHeard(w)'
  BY <1>1, ServerMonitorHeard
<1>3. ASSUME pc'[Srv] # "rpc"
      PROVE  JobWatched' /\ \A w \in Monitoring : UpdateHeard(w)'
  BY <1>3 DEF JobWatched, UpdateHeard
<1>4. CASE EditMonitored \/ NotifyNext \/ ServerDiscards \/ ServerRetransmits
  BY <1>1, <1>2, <1>4, EditIsHeard, NextIsHeard, WaitingIsHeard DEF HeardInv
<1>5. CASE ServeMalformed \/ ServerGivesUp \/ NotifiedAll
  <2>1. pc'[Srv] # "rpc"
    BY <1>5 DEF ServeMalformed, ServerGivesUp, NotifiedAll, Exit, AllInv, BasicTypeOK, SenderTypeOK
  <2> QED BY <1>2, <1>3, <2>1 DEF HeardInv
<1>6. CASE \/ AnswerDuplicate \/ FailEdit \/ EditUnmonitored \/ Register \/ Unregister
           \/ GetMode \/ TellModification \/ DumpFile \/ GreetClient \/ ServeLateAcknowledgement
  <2>1. pc'[Srv] # "rpc"
    BY <1>6
       DEF AnswerDuplicate, FailEdit, EditUnmonitored, Edit, Register, Unregister, GetMode,
           TellModification, DumpFile, GreetClient, ServeLateAcknowledgement, Executing, Serving, Respond
  <2> QED BY <1>2, <1>3, <2>1 DEF HeardInv
<1> QED BY <1>4, <1>5, <1>6 DEF ServerStep

\* At the start nothing is under way.
LEMMA InitHearing ==
  ASSUME Init
  PROVE  HeardInv
<1>1. pc = [ n \in Nodes |-> IF n = Srv THEN "ready" ELSE "down" ] /\ Monitoring \subseteq Clients
  BY DEF Init, SenderInit, Monitoring
<1>2. JobWatched /\ \A w \in Monitoring : UpdateHeard(w)
  BY <1>1 DEF JobWatched, UpdateHeard
<1>3. \A w \in Monitoring : MonitorHeard(w)
  BY <1>1 DEF MonitorHeard, Awaits
<1> QED BY <1>2, <1>3 DEF HeardInv

\* A step that changes nothing.
LEMMA StutterHearing ==
  ASSUME HeardInv, UNCHANGED vars
  PROVE  HeardInv'
<1>1. UNCHANGED <<senderVars, clientVars, serverVars>>
  BY DEF vars
<1>2. JobWatched'
  BY <1>1 DEF HeardInv, JobWatched, HasNumber, senderVars, serverVars
<1>3. ASSUME NEW w \in Monitoring PROVE MonitorHeard(w)' /\ UpdateHeard(w)'
  <2>1. MonitorHeard(w)'
    BY <1>1
       DEF HeardInv, MonitorHeard, Awaits, LastExecuted, WasExecuted, IsAccepted, senderVars, serverVars
  <2>2. UpdateHeard(w)'
    BY <1>1
       DEF HeardInv, UpdateHeard, Awaits, IsAccepted, IsCurrent, senderVars, clientVars
  <2> QED BY <2>1, <2>2
<1> QED BY <1>2, <1>3 DEF HeardInv

\* What is known of every state when no process runs with -d.
LEMMA AllHeardHolds ==
  ASSUME ServiceConditions, Dropping = {}
  PROVE  Spec => []AllHeard
<1>1. Init => AllMonitoring
  <2>1. Init => MonitorsTypeOK
    BY DEF Init, ServerInit, MonitorsTypeOK, NoJob
  <2> QED BY <2>1, InitType, InitInv, InitService, InitMonitoring DEF AllMonitoring, AllInv
<1>2. Init => AllHeard
  BY <1>1, InitHearing DEF AllHeard
<1>3. AllHeard /\ [Next]_vars => AllHeard'
  <2> SUFFICES ASSUME AllHeard, [Next]_vars PROVE AllHeard'
    OBVIOUS
  <2>1. AllMonitoring' /\ BasicTypeOK'
    BY NextMonitoring DEF AllHeard, AllMonitoring, AllInv
  <2>2. CASE Restart
    BY <2>2, NodeTypes DEF Restart, ServiceConditions, AllHeard, AllMonitoring, AllInv, ServiceInv, FirstRuns
  <2>3. HeardInv'
    BY <2>1, <2>2, ClientStepHearing, ServerStepHearing, StutterHearing DEF Next, AllHeard
  <2> QED BY <2>1, <2>3 DEF AllHeard
<1> QED BY <1>2, <1>3, PTL DEF Spec

\* When no process runs with -d, the response to a Monitor is queued for its client
\* before the updates, and a new update is queued for the client that monitors until
\* its acknowledgement is queued for the server.
THEOREM HeardInvariantHolds ==
  ASSUME ServiceConditions, Dropping = {}
  PROVE  Spec => []HeardInv
<1>1. AllHeard => HeardInv
  BY DEF AllHeard
<1> QED BY <1>1, AllHeardHolds, PTL

\* When no process runs with -d, the server gives up only on a client that is not in
\* its monitoring loop, or that has yet to take a packet: handleMonitor answers each
\* update in time.
THEOREM GivesUpOnlyIfUnheardHolds ==
  ASSUME ServiceConditions, Dropping = {}
  PROVE  Spec => GivesUpOnlyIfUnheard
<1> DEFINE Unheard == \E c \in Clients :
                        /\ HasNumber(c, Head(job.todo).clientId)
                        /\ pc[c] # "monitor" \/ inbox[c] # <<>>
<1>1. ASSUME AllHeard, pc[Srv] = "rpc", Queue = <<>> PROVE Unheard
  <2>1. PICK w \in Monitoring : HasNumber(w, Head(job.todo).clientId)
    <3>1. job.todo # <<>> /\ job.todo \in Seq(Entry)
      BY <1>1 DEF AllHeard, AllMonitoring, MonitorsTypeOK, Entry, HeardInv, JobWatched
    <3>2. Head(job.todo) \in ToSet(job.todo)
      BY <3>1 DEF ToSet
    <3> QED BY <1>1, <3>2 DEF AllHeard, HeardInv, JobWatched
  <2>2. w \in Clients
    BY DEF Monitoring
  <2>3. ASSUME pc[w] = "monitor", inbox[w] = <<>> PROVE FALSE
    BY <1>1, <2>3, UpdateHeardIs DEF AllHeard, HeardInv, AckQueued
  <2> QED BY <2>1, <2>2, <2>3
<1>2. ASSUME AllHeard, [Next]_vars, pc[Srv] = "rpc", pc'[Srv] = "down" PROVE Unheard
  <2> USE DEF AllHeard, AllMonitoring
  <2>1. CASE ServerStep
    <3>1. ServerGivesUp
      BY <1>2, <2>1
         DEF ServerStep, AnswerDuplicate, FailEdit, EditUnmonitored, EditMonitored, Edit, Register,
             Unregister, GetMode, TellModification, DumpFile, GreetClient, ServeLateAcknowledgement,
             ServeMalformed, Executing, Serving, NotifyNext, Notify, SendMessage, NotifiedAll,
             ServerDiscards, ServerRetransmits, DiscardImproper, Retransmit, AllInv, BasicTypeOK,
             SenderTypeOK
    <3>2. Queue = <<>>
      BY <3>1 DEF ServerGivesUp, OutOfTries, TimedOut, Arrived, Queue
    <3> QED BY <1>1, <1>2, <3>2
  <2>2. ASSUME NEW c \in Clients, UserStep(c) \/ ClientStep(c) PROVE FALSE
    <3>1. ClientMove(c)
      BY <1>2, <2>2, ClientKinds, ClientMoves DEF AllInv, ClientMove
    <3> QED BY <1>2, <3>1, MoveKeepsOthers, SenderAssumption DEF OthersKept, Nodes
  <2>3. CASE Restart \/ UNCHANGED vars
    BY <1>2, <2>3 DEF Restart, vars, senderVars
  <2> QED BY <1>2, <2>1, <2>2, <2>3 DEF Next
<1>3. AllHeard /\ [Next]_vars =>
        ( pc[Srv] = "rpc" /\ pc'[Srv] = "down" =>
            \/ drops >= NUM_TIMEOUTS
            \/ \E c \in Clients :
                 /\ HasNumber(c, Head(job.todo).clientId)
                 /\ pc[c] # "monitor" \/ inbox[c] # <<>> )
  BY <1>2
<1> QED BY <1>3, AllHeardHolds, PTL DEF Spec, GivesUpOnlyIfUnheard
=============================================================================
