------------------------ MODULE RemoteFilesInvariants ------------------------
(***************************************************************************)
(* Why the bytes carry what the user means: an inductive invariant.        *)
(*                                                                         *)
(* A packet is on its way only while the client waits.  It is the call of  *)
(* the command that was entered, to the byte, until the server executes    *)
(* it, and an answer to that very command afterwards; it is missing only   *)
(* if it was too long.                                                     *)
(***************************************************************************)
EXTENDS RemoteFiles

\* Files are sequences of bytes, and so are their paths.
IsFileSystem(files) == DOMAIN files \subseteq String /\ files \in [ DOMAIN files -> String ]

Answers == [ outcome : {"not yet", "Good", "NoFile", "FileBound", "update"}, text : String ]

\* The copies have come in packets, and have a size that an int can hold.
TypeOK ==
  /\ IsFileSystem(serverFiles) /\ serverUp \in BOOLEAN
  /\ IsFileSystem(clientFiles) /\ \A p \in DOMAIN clientFiles : Len(clientFiles[p]) < INT_MAX
  /\ client \in {"Prompt", "Waits", "Ended"}
  /\ client # "Prompt" => command \in Commands /\ messageNum \in 1 .. MaxCalls
  /\ messageNum \in 0 .. MaxCalls /\ executed \in BOOLEAN
  /\ packet \in String
  /\ shown \in Answers /\ update \in Answers

\* Nothing is on its way unless the client waits, and the server ends only then.
Quiet ==
  /\ client # "Waits" => packet = <<>>
  /\ client = "Prompt" => serverUp
  /\ ~serverUp => executed /\ packet = <<>>

\* The call that is on its way.
Calling ==
  client # "Prompt" /\ ~executed => packet \in { <<>>, Sent(CallOf(command, messageNum - 1)) }

\* What may be in a response to a command.
AnswersTo(c, resp) ==
  \/ resp.intArgs \in { << Failure, NoFileException >>, << Failure, FileBoundException >> } /\ resp.strArgs = <<>>
  \/ c.name \in {"insert", "shift"} /\ resp.intArgs = << Good >> /\ resp.strArgs = <<>>
  \/ c.name = "mode" /\ resp.intArgs = << Good >> /\ resp.strArgs \in { << << b >> >> : b \in Byte }
  \/ c.name = "read" /\ resp.intArgs = <<>> /\ resp.strArgs \in [ 1 .. 1 -> String ]

\* The response that is on its way is to the command.
Answering ==
  client = "Waits" /\ executed /\ packet # <<>> =>
    /\ packet = Sent(Received)
    /\ Received.type = Response /\ Received.num = messageNum - 1
    /\ Received.callType = CallOf(command, messageNum - 1).callType
    /\ AnswersTo(command, Received)

\* What is not on its way any more was too long.
Missing ==
  client # "Prompt" /\ packet = <<>> =>
    \/ ~serverUp
    \/ CallLength(command) > MaxDatagram
    \/ command.name = "read" /\ executed /\ 28 + Words(TextAt(command.path)) > MaxDatagram

\* What has ended the server.
ServerEnded ==
  ~serverUp =>
    \/ command.name = "mode" /\ ~IsAscii(TextAt(command.path))
    \/ command.path \in Watched /\ 32 + Words(command.path) + Words(TextAt(command.path)) > MaxDatagram

\* An inductive invariant of RemoteFiles: the packet that is on its way is the call
\* that the user has entered or the answer to it, byte for byte, and is missing
\* only for its length or with the server.
ContentsInv == TypeOK /\ Quiet /\ Calling /\ Answering /\ Missing /\ ServerEnded
=============================================================================
