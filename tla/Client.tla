------------------------------- MODULE Client -------------------------------
(***************************************************************************)
(* A client process (client.cpp): the loop over the commands its user      *)
(* types, the handling of responses, the monitoring of a file and the      *)
(* calls by which a read keeps the local copy up to date (cache.cpp).      *)
(*                                                                         *)
(* Times are left out: whether a copy is inside its freshness interval,    *)
(* and whether an edit in the second of its writing is noticed, is open.   *)
(***************************************************************************)
EXTENDS Sender

CONSTANTS
  Commands,        \* what the user of each client may type
  Offsets,         \* the insertion offsets the users type
  ClientSemantic,  \* "AtMostOnce", or "AtLeastOnce" for clients run with -l
  FreshInterval,   \* t of Cache, the option -t; all that counts is whether it is 0
  MaxCalls,        \* bound: numbers a client gives out for its users' commands
  MaxClientRuns    \* bound: how often a client process is started

ASSUME ClientAssumption ==
  /\ Commands \in [ Clients -> SUBSET {"insert", "shift", "mode", "monitor", "read", "other", "q"} ]
  /\ Offsets \subseteq {AtStart, Beyond}
  /\ ClientSemantic \in {"AtMostOnce", "AtLeastOnce"}
  /\ FreshInterval \in Nat
  /\ MaxCalls \in Nat
  /\ MaxClientRuns \in Nat

VARIABLES
  lastMessage,       \* m of client_loop: the last message made or received
  prevPacketNumber,  \* number of the last monitor update that was accepted
  copies,            \* Cache::cacheMap and the local files: the edition of each
                     \* file the cache has an entry of, 0 if it has none
  shown              \* history: the edition of each file last shown to the user

clientVars == <<lastMessage, prevPacketNumber, copies, shown>>

NoMessage == Message("Start", <<>>, <<>>)

NoCopies == [ f \in Files |-> 0 ]

\* A process starts, binds its port and announces itself to the server.
Launch(c) ==
  /\ pc[c] = "down"
  /\ runs[c] < MaxClientRuns
  /\ runs' = [ runs EXCEPT ![c] = @ + 1 ]
  /\ SendMessage(inbox, c, Srv, Message("Start", <<>>, <<>>), 0, runs[c] + 1)
  /\ lastMessage' = [ lastMessage EXCEPT ![c] = NoMessage ]
  /\ prevPacketNumber' = [ prevPacketNumber EXCEPT ![c] = -1 ]
  /\ copies' = [ copies EXCEPT ![c] = NoCopies ]
  /\ UNCHANGED shown

\* The messages the prompt makes of a command and the answers to its questions.
\* A word that is no command leaves m as the previous round left it.
MessagesFor(command, c) ==
  CASE command = "insert" ->
         { Message("Insert", <<at[1]>>, <<at[2], NoText>>) : at \in Offsets \X Files }
    [] command = "shift" -> { Message("Shift", <<1>>, <<f>>) : f \in Files }
    [] command = "mode" -> { Message("Mode", <<>>, <<f>>) : f \in Files }
    [] command = "monitor" -> { Message("Monitor", <<1>>, <<f>>) : f \in Files }
    [] command = "read" ->
         { Message("Read", <<at[1], 0>>, <<at[2]>>) : at \in Offsets \X Files }
    [] command = "other" -> {lastMessage[c]}

Entered(c) == UNION { MessagesFor(command, c) : command \in Commands[c] \ {"q"} }

EnterCommand(c) ==
  /\ pc[c] = "ready"
  /\ messageNum[c] < MaxCalls
  /\ \E msg \in Entered(c) :
       /\ msg.callType # "Read"
       /\ SendMessage(inbox, c, Srv, msg, messageNum[c], runs[c])
  /\ UNCHANGED <<runs, clientVars>>

Quit(c) ==
  /\ pc[c] = "ready"
  /\ "q" \in Commands[c]
  /\ Exit(c)
  /\ UNCHANGED clientVars

\* processResponse: where the client is after the response to a command.
AfterResponse(resp) ==
  CASE resp.ints = <<>> -> "down"                                \* generalException
    [] resp.ints # <<>> /\ resp.ints[1] = Good ->
         (CASE resp.callType = "Monitor" -> "monitor"
            [] resp.callType \in {"Read", "Insert", "Shift", "Mode", "Start"} -> "ready"
            [] OTHER -> "down")                                  \* improperPacketException
    [] OTHER ->
         IF Len(resp.ints) = 2 /\ resp.ints[2] \in {FileBoundException, NoFileException}
         THEN "ready"
         ELSE "down"

\* sendMessage returns to client_loop, which processes what it returned.
ReceiveResponse(c) ==
  /\ Answered(c)
  /\ pending[c].call.callType \notin {"MonitorEnd", "Fresh", "Dump"}
  /\ LET resp == Packet(c).msg IN
       /\ pc' = [ pc EXCEPT ![c] = AfterResponse(resp) ]
       /\ inbox' = IF AfterResponse(resp) = "down"
                   THEN [ inbox EXCEPT ![c] = <<>> ]
                   ELSE Consumed(c)
       /\ lastMessage' = [ lastMessage EXCEPT ![c] = Numbered(resp, 0, 0) ]
  /\ pending' = [ pending EXCEPT ![c] = NoCall ]
  /\ UNCHANGED <<messageNum, runs, drops, prevPacketNumber, copies, shown>>

\* sendMessage returns to handleMonitor, which does not look at the answer.
ReceiveEndResponse(c) ==
  /\ Answered(c)
  /\ pending[c].call.callType = "MonitorEnd"
  /\ pc' = [ pc EXCEPT ![c] = "ready" ]
  /\ inbox' = Consumed(c)
  /\ pending' = [ pending EXCEPT ![c] = NoCall ]
  /\ UNCHANGED <<messageNum, runs, drops, clientVars>>

-----------------------------------------------------------------------------
(* The command read, Cache::updateCache.  The message m is the request until *)
(* the file is read, and then the response the client makes for itself.      *)

CopyOf(c, path) == IF path \in Files THEN copies[c][path] ELSE 0
HasCopy(c, path) == CopyOf(c, path) # 0

Requests(c) == { msg \in Entered(c) : msg.callType = "Read" }

StartRead(c, request) ==
  /\ pc[c] = "ready"
  /\ messageNum[c] < MaxCalls
  /\ request.strs # <<>>
  /\ lastMessage' = [ lastMessage EXCEPT ![c] = request ]
  /\ UNCHANGED <<runs, prevPacketNumber, copies, shown>>

Ask(c, callType, path, queues) ==
  SendMessage(queues, c, Srv, Message(callType, <<>>, <<path>>), messageNum[c], runs[c])

\* readFile on the local copy, with the arguments of the request.
CopyRead(request, edition) ==
  IF request.ints[1] = Beyond
  THEN Message("Read", <<Failure, FileBoundException>>, <<>>)
  ELSE Message("Read", <<Good>>, <<edition>>)

FileMissing == Message("Read", <<Failure, NoFileException>>, <<>>)

\* The entry is inside its freshness interval.
ReadLocally(c) ==
  /\ pc[c] = "ready"
  /\ FreshInterval > 0
  /\ \E request \in Requests(c) :
       /\ request.strs # <<>>
       /\ HasCopy(c, request.strs[1])
       /\ lastMessage' = [ lastMessage EXCEPT ![c] =
            CopyRead(request, CopyOf(c, request.strs[1])) ]
  /\ UNCHANGED <<senderVars, prevPacketNumber, copies, shown>>

\* findOrMake finds no entry.
AskForFile(c) ==
  \E request \in Requests(c) :
    /\ StartRead(c, request)
    /\ ~HasCopy(c, request.strs[1])
    /\ Ask(c, "Dump", request.strs[1], inbox)

AskWhetherFresh(c) ==
  \E request \in Requests(c) :
    /\ StartRead(c, request)
    /\ HasCopy(c, request.strs[1])
    /\ Ask(c, "Fresh", request.strs[1], inbox)

\* A word that is no command after a read that failed: the response m has no
\* string, and the first one is read through a null pointer.
ReadMalformed(c) ==
  /\ pc[c] = "ready"
  /\ \E request \in Requests(c) : request.strs = <<>>
  /\ Exit(c)
  /\ UNCHANGED clientVars

\* The tests of findOrMake and updateCache on what sendMessage returns.
Fails(resp) ==
  \/ resp.ints # <<>> /\ resp.ints[1] = Failure
  \/ resp.callType = "Dump" /\ resp.strs = <<>>
  \/ resp.callType = "Fresh" /\ Len(resp.ints) # 2

\* sendMessage returns to the cache.
ReceiveForCache(c, callType) ==
  /\ Answered(c)
  /\ pending[c].call.callType = callType
  /\ UNCHANGED <<runs, prevPacketNumber, shown>>

Path(c) == pending[c].call.strs[1]

\* The read is over and the user back at the prompt.
FinishRead(c, resp) ==
  /\ lastMessage' = [ lastMessage EXCEPT ![c] = resp ]
  /\ pc' = [ pc EXCEPT ![c] = "ready" ]
  /\ inbox' = Consumed(c)
  /\ pending' = [ pending EXCEPT ![c] = NoCall ]
  /\ UNCHANGED <<messageNum, drops>>

\* noFileException is turned into the response to the read.
ReceiveNoFile(c) ==
  /\ \E callType \in {"Dump", "Fresh"} : ReceiveForCache(c, callType)
  /\ Fails(Packet(c).msg)
  /\ FinishRead(c, FileMissing)
  /\ UNCHANGED copies

\* The copy is overwritten, and counts as fresh from now on.
StoreCopy(c) ==
  /\ ReceiveForCache(c, "Dump")
  /\ ~Fails(Packet(c).msg)
  /\ copies' = [ copies EXCEPT ![c][Path(c)] = Packet(c).msg.strs[1] ]

ReceiveFile(c) ==
  /\ StoreCopy(c)
  /\ FinishRead(c, CopyRead(lastMessage[c], Packet(c).msg.strs[1]))

\* With an interval of 0 the entry just made is not fresh, unless a second has
\* passed since the read began.
ReceiveFileAndAsk(c) ==
  /\ StoreCopy(c)
  /\ ~HasCopy(c, Path(c)) /\ FreshInterval = 0
  /\ Ask(c, "Fresh", Path(c), Consumed(c))
  /\ UNCHANGED lastMessage

\* The file has not been modified since the copy was written, or in the same second.
ReceiveUnmodified(c) ==
  /\ ReceiveForCache(c, "Fresh")
  /\ ~Fails(Packet(c).msg)
  /\ FinishRead(c, CopyRead(lastMessage[c], CopyOf(c, Path(c))))
  /\ UNCHANGED copies

ReceiveModified(c) ==
  /\ ReceiveForCache(c, "Fresh")
  /\ ~Fails(Packet(c).msg)
  /\ Packet(c).msg.ints[2] # CopyOf(c, Path(c))
  /\ Ask(c, "Dump", Path(c), Consumed(c))
  /\ UNCHANGED <<lastMessage, copies>>

-----------------------------------------------------------------------------
(* Monitoring a file.                                                       *)

\* Mutant of IsNew: the comparison is off by one.
IsNewTooStrict(c, msg) ==
  ClientSemantic = "AtMostOnce" => msg.num > prevPacketNumber[c] + 1

\* Client::checkMap finds the packet new.
IsNew(c, msg) ==
  ClientSemantic = "AtMostOnce" => msg.num > prevPacketNumber[c]

\* handleMonitor takes any packet for a monitor update.
TakePacket(c) ==
  /\ pc[c] = "monitor"
  /\ Arrived(c)
  /\ UNCHANGED <<messageNum, runs, lastMessage, copies>>

Acknowledge(c, msg) ==
  SendResponse(Consumed(c), c, Packet(c).from, msg, Message("MonitorUpdate", <<Good>>, <<>>))

AcceptNumber(c, msg) ==
  prevPacketNumber' =
    IF ClientSemantic = "AtMostOnce"
    THEN [ prevPacketNumber EXCEPT ![c] = msg.num ]
    ELSE prevPacketNumber

\* A packet with a path and a content is shown and acknowledged.
ShowUpdate(c) ==
  /\ TakePacket(c)
  /\ LET msg == Packet(c).msg IN
       /\ IsNew(c, msg)
       /\ Len(msg.strs) = 2
       /\ shown' = [ shown EXCEPT ![c][msg.strs[1]] = msg.strs[2] ]
       /\ AcceptNumber(c, msg)
       /\ Acknowledge(c, msg)
  /\ UNCHANGED <<pc, pending>>

\* A packet without a content: strArgs[1] is read outside of the vector.  The
\* read of an empty vector is one through a null pointer.
LacksContent(c) ==
  /\ TakePacket(c)
  /\ IsNew(c, Packet(c).msg)
  /\ Len(Packet(c).msg.strs) < 2

CrashOnMissingContent(c) ==
  /\ LacksContent(c)
  /\ pc' = [ pc EXCEPT ![c] = "down" ]
  /\ inbox' = [ inbox EXCEPT ![c] = <<>> ]
  /\ UNCHANGED <<pending, drops, prevPacketNumber, shown>>

\* After a vector of one string it finds other heap memory, and may survive.
SurviveMissingContent(c) ==
  /\ LacksContent(c)
  /\ Len(Packet(c).msg.strs) = 1
  /\ AcceptNumber(c, Packet(c).msg)
  /\ Acknowledge(c, Packet(c).msg)
  /\ UNCHANGED <<pc, pending, shown>>

\* "DUPLICATE PACKET": nothing is sent.
IgnoreDuplicate(c) ==
  /\ TakePacket(c)
  /\ ~IsNew(c, Packet(c).msg)
  /\ inbox' = Consumed(c)
  /\ UNCHANGED <<pc, pending, drops, prevPacketNumber, shown>>

\* The duration has passed; the loop condition is tested between packets, so
\* that some may be left in the queue.
EndMonitoring(c) ==
  /\ pc[c] = "monitor"
  /\ SendMessage(inbox, c, Srv, Message("MonitorEnd", <<>>, <<>>), messageNum[c], runs[c])
  /\ UNCHANGED <<runs, clientVars>>

ClientDiscards(c) == DiscardImproper(c) /\ UNCHANGED clientVars

ClientRetransmits(c) == Retransmit(c) /\ UNCHANGED clientVars

ClientGivesUp(c) == OutOfTries(c) /\ Exit(c) /\ UNCHANGED clientVars

ClientInit ==
  /\ lastMessage = [ c \in Clients |-> NoMessage ]
  /\ prevPacketNumber = [ c \in Clients |-> -1 ]
  /\ copies = [ c \in Clients |-> NoCopies ]
  /\ shown = [ c \in Clients |-> [ f \in Files |-> 0 ] ]

\* Only the cache asks for a file, always by its path.
OnlyCacheAsks ==
  \A c \in Clients :
    /\ lastMessage[c].callType \notin {"Fresh", "Dump"}
    /\ pending[c].call.callType \in {"Fresh", "Dump"} => pending[c].call.strs # <<>>

\* The client's own variables have their types.
ClientTypeOK ==
  /\ lastMessage \in [ Clients -> Messages ]
  /\ prevPacketNumber \in [ Clients -> Int ]
  /\ copies \in [ Clients -> [ Files -> Files \cup Nat ] ]
  /\ shown \in [ Clients -> [ Files -> Nat ] ]
=============================================================================
