------------------------------ MODULE RemoteFiles ------------------------------
(***************************************************************************)
(* A client and the server with the bytes of their packets and of their    *)
(* files: what a user types goes through marshal.cpp, server.cpp executes  *)
(* it by filesystem.cpp, and what comes back is shown, a read by way of    *)
(* the local copy.                                                         *)
(*                                                                         *)
(* Module Otter has the packets that are lost, late or doubled, and the    *)
(* crashes; here each packet arrives, unless it is too long to be sent,    *)
(* when every retransmission fails alike.  Whether a copy is fresh enough  *)
(* not to be fetched (module ClientCache) is left open.  One path stands   *)
(* for all that are watched by another client, which answers its updates.  *)
(***************************************************************************)
EXTENDS FileSystem

CONSTANTS
  Commands,         \* what a user may enter
  InitialFiles,     \* the file systems the server may be started on
  Watched,          \* the paths that are monitored by another client
  MaxDatagram,      \* the longest packet that sendto takes, 65507 bytes by UDP
  MaxCalls          \* bound: how many calls the client makes

\* A response without a text can be sent, and messageNum does not wrap.
ASSUME BoundsAssumption == MaxDatagram \in 36 .. INT_MAX - 1 /\ MaxCalls \in 0 .. INT_MAX

\* client_loop asks again for a negative int.
ASSUME CommandsAssumption ==
  \A c \in Commands :
    /\ c.path \in String
    /\ \/ c.name = "insert" /\ c.offset \in 0 .. INT_MAX /\ c.bytes \in String
       \/ c.name \in {"shift", "mode"}
       \/ c.name = "read" /\ c.offset \in 0 .. INT_MAX /\ c.num \in 0 .. INT_MAX

ASSUME FilesAssumption ==
  \A files \in InitialFiles : DOMAIN files \subseteq String /\ files \in [ DOMAIN files -> String ]

VARIABLES
  serverFiles,  \* the files in the directory of the server
  serverUp,     \* whether it has not ended
  clientFiles,  \* the local copies
  client,       \* "Prompt", "Waits" for an answer, or "Ended"
  command,      \* the locals of client_loop: what the user has entered
  messageNum,   \* Sender::messageNum of the client
  packet,       \* the bytes that are on their way; none if empty
  executed,     \* history: whether the server has executed the call
  shown,        \* history: what the user has been shown last
  update        \* history: what the other client has been shown last

vars == <<serverFiles, serverUp, clientFiles, client, command, messageNum, packet, executed, shown, update>>

\* message.h
Call == 0
Response == 1
Read == 0
Insert == 1
Shift == 3
Mode == 4
MonitorUpdate == 5
Dump == 8

\* sender.h and exception.h
Good == 0
Failure == 1
FileBoundException == 0
NoFileException == 1

Message(type, callType, num, intArgs, strArgs) ==
  [ type |-> type, callType |-> callType, num |-> num, intArgs |-> intArgs, strArgs |-> strArgs ]

\* sendto, whose failure is not noticed.
Fits(bytes) == Len(bytes) <= MaxDatagram
Sent(m) == LET bytes == marshalMessage(m) IN IF Fits(bytes) THEN bytes ELSE <<>>

\* recvWholeStream, which reads as many bytes as the first four tell.
Received == unmarshalMessage(SubSeq(packet, 1, getMarshalLength(packet))).value

Arrived(type) == packet # <<>> /\ getMarshalType(packet) = type

-----------------------------------------------------------------------------
(* The client: client_loop, sendMessage and processResponse.                *)

CallOf(c, num) ==
  CASE c.name = "insert" -> Message(Call, Insert, num, << c.offset >>, << c.path, c.bytes >>)
    [] c.name = "shift" -> Message(Call, Shift, num, << 1 >>, << c.path >>)
    [] c.name = "mode" -> Message(Call, Mode, num, <<>>, << c.path >>)
    [] c.name = "read" -> Message(Call, Dump, num, <<>>, << c.path >>)

\* The outcome and the text of a response, or of the copy a read has made.
AnswerIn(resp) ==
  IF resp.intArgs # <<>> /\ resp.intArgs[1] = Failure
  THEN Thrown(IF resp.intArgs[2] = NoFileException THEN "NoFile" ELSE "FileBound")
  ELSE Text(IF resp.strArgs = <<>> THEN <<>> ELSE resp.strArgs[1])

Enter(c) ==
  /\ client = "Prompt"
  /\ messageNum < MaxCalls
  /\ client' = "Waits"
  /\ command' = c
  /\ messageNum' = messageNum + 1
  /\ packet' = Sent(CallOf(c, messageNum))
  /\ executed' = FALSE
  /\ UNCHANGED <<serverFiles, serverUp, clientFiles, shown, update>>

\* A read of a copy that counts as fresh.
ReadLocally(c) ==
  /\ client = "Prompt"
  /\ c.name = "read" /\ Exists(clientFiles, c.path)
  /\ shown' = readFile(clientFiles, c.path, c.offset, c.num)
  /\ UNCHANGED <<serverFiles, serverUp, clientFiles, client, command, messageNum, packet, executed, update>>

Receive(callTypes) ==
  /\ client = "Waits" /\ Arrived(Response)
  /\ Received.num = messageNum - 1 /\ Received.callType \in callTypes
  /\ client' = "Prompt"
  /\ packet' = <<>>
  /\ UNCHANGED <<serverFiles, serverUp, command, messageNum, executed, update>>

ReceiveResponse ==
  /\ Receive({Insert, Shift, Mode})
  /\ shown' = AnswerIn(Received)
  /\ UNCHANGED clientFiles

\* cache.cpp: the copy is overwritten, and read like any file.
ReceiveFile ==
  /\ Receive({Dump})
  /\ IF AnswerIn(Received).outcome # "Good"
     THEN shown' = AnswerIn(Received) /\ UNCHANGED clientFiles
     ELSE /\ clientFiles' = overwriteFile(clientFiles, command.path, Received.strArgs[1])
          /\ shown' = readFile(clientFiles', command.path, command.offset, command.num)

\* Every transmission has failed alike, or the server has ended.
GiveUp ==
  /\ client = "Waits" /\ packet = <<>>
  /\ client' = "Ended"
  /\ UNCHANGED <<serverFiles, serverUp, clientFiles, command, messageNum, packet, executed, shown, update>>

-----------------------------------------------------------------------------
(* The server: execute.                                                     *)

Serve(callType) ==
  /\ serverUp /\ Arrived(Call)
  /\ Received.callType = callType
  /\ executed' = TRUE
  /\ UNCHANGED <<clientFiles, client, command, messageNum, shown>>

Path == Received.strArgs[1]

\* Mutant of Respond: a response does not take the number of its call.
RespondUnnumbered(intArgs, strArgs) ==
  /\ packet' = Sent(Message(Response, Received.callType, 0, intArgs, strArgs))
  /\ UNCHANGED serverUp

Respond(intArgs, strArgs) ==
  /\ packet' = Sent(Message(Response, Received.callType, Received.num, intArgs, strArgs))
  /\ UNCHANGED serverUp

RespondOnly(intArgs, strArgs) == Respond(intArgs, strArgs) /\ UNCHANGED <<serverFiles, update>>

NoSuchFile == RespondOnly(<< Failure, NoFileException >>, <<>>)

\* The server ends without a response.
Crash == serverUp' = FALSE /\ packet' = <<>>

Update(files) == Message(Call, MonitorUpdate, 0, <<>>, << Path, readWholeFile(files, Path) >>)

\* The file is written; sendList sends it to those who monitor it, and when they do
\* not answer the timeoutException ends the server.
Edit(files) ==
  /\ serverFiles' = files
  /\ IF Path \in Watched
     THEN IF Sent(Update(files)) = <<>> THEN Crash /\ UNCHANGED update
          ELSE /\ update' = [ outcome |-> "update", text |-> unmarshalMessage(Sent(Update(files))).value.strArgs[2] ]
               /\ Respond(<< Good >>, <<>>)
     ELSE UNCHANGED update /\ Respond(<< Good >>, <<>>)

ServeInsert ==
  /\ Serve(Insert)
  /\ IF canInsert(serverFiles, Path, Received.intArgs[1])
     THEN Edit(insertFile(serverFiles, Path, Received.intArgs[1], Received.strArgs[2]))
     ELSE RespondOnly(<< Failure, FileBoundException >>, <<>>)

ServeShift ==
  /\ Serve(Shift)
  /\ IF Exists(serverFiles, Path) THEN Edit(shiftFile(serverFiles, Path, Received.intArgs[1])) ELSE NoSuchFile

\* Counting in front of an array may also end the server.
ServeMode ==
  /\ Serve(Mode)
  /\ IF ~Exists(serverFiles, Path) THEN NoSuchFile
     ELSE \/ \E c \in getMode(serverFiles, Path) : RespondOnly(<< Good >>, << << c >> >>)
          \/ /\ ~IsAscii(readWholeFile(serverFiles, Path))
             /\ Crash
             /\ UNCHANGED <<serverFiles, update>>

ServeDump ==
  /\ Serve(Dump)
  /\ IF Exists(serverFiles, Path) THEN RespondOnly(<<>>, << readWholeFile(serverFiles, Path) >>)
     ELSE NoSuchFile

Init ==
  /\ serverFiles \in InitialFiles
  /\ serverUp = TRUE
  /\ clientFiles = << >>
  /\ client = "Prompt"
  /\ command = [ name |-> "none" ]
  /\ messageNum = 0
  /\ packet = <<>>
  /\ executed = FALSE
  /\ shown = [ outcome |-> "not yet", text |-> <<>> ]
  /\ update = shown

Next ==
  \/ \E c \in Commands : Enter(c) \/ ReadLocally(c)
  \/ ReceiveResponse \/ ReceiveFile \/ GiveUp
  \/ ServeInsert \/ ServeShift \/ ServeMode \/ ServeDump

Spec == Init /\ [][Next]_vars

-----------------------------------------------------------------------------
(* Properties.                                                              *)

\* recvWholeStream and unmarshalMessage: a packet is as long as its first four
\* bytes tell, and is unpacked to its last byte.
PacketsExact ==
  packet # <<>> =>
    /\ getMarshalLength(packet) = Len(packet)
    /\ unmarshalMessage(packet).length = Len(packet)

\* How much of a packet a text takes.
Words(text) == 4 * ((Len(text) + 3) \div 4)

TextAt(path) == IF Exists(serverFiles, path) THEN readWholeFile(serverFiles, path) ELSE <<>>

\* How long the call of a command is: a message without arguments takes 24 bytes.
CallLength(c) ==
  28 + Words(c.path) + (CASE c.name = "insert" -> 8 + Words(c.bytes)
                          [] c.name = "shift" -> 4
                          [] OTHER -> 0)

\* sender.cpp, where sendto fails without notice: a client is left without an
\* answer only by a call or a text that is too long for its packet, or by a server
\* that has ended: on counting a byte above 127, or on a text that is too long for
\* those who monitor it.
UnansweredOnlyIfTooLong ==
  LET path == command.path
      length == 28 + Words(TextAt(path))
  IN /\ ~serverUp =>
          \/ command.name = "mode" /\ ~IsAscii(TextAt(path))
          \/ path \in Watched /\ length + 4 + Words(path) > MaxDatagram
     /\ client = "Ended" =>
          \/ ~serverUp
          \/ CallLength(command) > MaxDatagram
          \/ command.name = "read" /\ length > MaxDatagram

Texts(files) == [ p \in DOMAIN files |-> readWholeFile(files, p) ]

Service == INSTANCE TextService WITH
  texts <- Texts(serverFiles),
  copies <- Texts(clientFiles),
  command <- CASE client = "Prompt" -> [ name |-> "idle" ]
               [] client = "Waits" -> command
               [] client = "Ended" -> [ name |-> "gone" ],
  answer <- IF client # "Waits" \/ ~executed THEN [ outcome |-> "not yet", text |-> <<>> ]
            ELSE IF packet = <<>> THEN [ outcome |-> "lost", text |-> <<>> ]
            ELSE AnswerIn(Received)

\* The bytes carry what the user means: what is executed, shown and copied is what
\* the abstract service does to the texts.
ImplementsTextService == Service!Spec
=============================================================================
