-------------------------------- MODULE Otter --------------------------------
(***************************************************************************)
(* The file service as a whole: the clients, the server and the packets    *)
(* between them.  Each process is single threaded and they share nothing   *)
(* but the network, so a step of the system is a step of one process.      *)
(***************************************************************************)
EXTENDS Client, Server

vars == <<senderVars, clientVars, serverVars>>

Init ==
  /\ SenderInit
  /\ ClientInit
  /\ ServerInit

\* What a client does when its user wants it: nothing else starts it.
UserStep(c) ==
  \/ Launch(c) /\ UNCHANGED serverVars
  \/ EnterCommand(c) /\ UNCHANGED serverVars
  \/ Quit(c) /\ UNCHANGED serverVars
  \/ ReadLocally(c) /\ UNCHANGED serverVars
  \/ AskForFile(c) /\ UNCHANGED serverVars
  \/ AskWhetherFresh(c) /\ UNCHANGED serverVars
  \/ ReadMalformed(c) /\ UNCHANGED serverVars

\* What a client does by itself when a packet is there, when sendMessage has
\* waited long enough or when the duration of the monitoring has passed.
ClientStep(c) ==
  \/ ReceiveResponse(c) /\ UNCHANGED serverVars
  \/ ReceiveNoFile(c) /\ UNCHANGED serverVars
  \/ ReceiveFile(c) /\ UNCHANGED serverVars
  \/ ReceiveFileAndAsk(c) /\ UNCHANGED serverVars
  \/ ReceiveUnmodified(c) /\ UNCHANGED serverVars
  \/ ReceiveModified(c) /\ UNCHANGED serverVars
  \/ ShowUpdate(c) /\ UNCHANGED serverVars
  \/ CrashOnMissingContent(c) /\ UNCHANGED serverVars
  \/ SurviveMissingContent(c) /\ UNCHANGED serverVars
  \/ IgnoreDuplicate(c) /\ UNCHANGED serverVars
  \/ EndMonitoring(c) /\ UNCHANGED serverVars
  \/ ReceiveEndResponse(c) /\ UNCHANGED serverVars
  \/ ClientDiscards(c) /\ UNCHANGED serverVars
  \/ ClientRetransmits(c) /\ UNCHANGED serverVars
  \/ ClientGivesUp(c) /\ UNCHANGED serverVars

ServerStep ==
  \/ AnswerDuplicate /\ UNCHANGED clientVars
  \/ FailEdit /\ UNCHANGED clientVars
  \/ EditUnmonitored /\ UNCHANGED clientVars
  \/ EditMonitored /\ UNCHANGED clientVars
  \/ NotifyNext /\ UNCHANGED clientVars
  \/ NotifiedAll /\ UNCHANGED clientVars
  \/ Register /\ UNCHANGED clientVars
  \/ Unregister /\ UNCHANGED clientVars
  \/ GetMode /\ UNCHANGED clientVars
  \/ TellModification /\ UNCHANGED clientVars
  \/ DumpFile /\ UNCHANGED clientVars
  \/ GreetClient /\ UNCHANGED clientVars
  \/ ServeLateAcknowledgement /\ UNCHANGED clientVars
  \/ ServeMalformed /\ UNCHANGED clientVars
  \/ ServerDiscards /\ UNCHANGED clientVars
  \/ ServerRetransmits /\ UNCHANGED clientVars
  \/ ServerGivesUp /\ UNCHANGED clientVars

Next ==
  \/ \E c \in Clients : UserStep(c) \/ ClientStep(c)
  \/ ServerStep
  \/ Restart /\ UNCHANGED clientVars

Spec == Init /\ [][Next]_vars

\* A process that can go on does: a running process is scheduled by the
\* operating system, and every wait of the code is a select with a timeout.
\* Nothing makes a user type a command, or anybody start a process.
Fairness ==
  /\ \A c \in Clients : WF_vars(ClientStep(c))
  /\ WF_vars(ServerStep)

FairSpec == Spec /\ Fairness

-----------------------------------------------------------------------------
(* Properties.                                                              *)

\* Every variable has its type: the queues hold packets between processes of
\* the system, every entry of the monitor table and of the update in progress
\* names a client of the client map, and what was executed again was executed.
TypeOK == SenderTypeOK /\ ClientTypeOK /\ OnlyCacheAsks /\ ServerTypeOK /\ MonitorsTypeOK

\* server.h: under AtMostOnce no server executes a call twice, whatever is
\* lost, retransmitted, or overtaken by the end and the start of a client.
AtMostOnce == ServerSemantic = "AtMostOnce" => reexecuted = {}

-----------------------------------------------------------------------------
(* The service the clients see.  A client is away until its Start has been  *)
(* answered.                                                                *)

Starting(c) == pc[c] = "rpc" /\ pending[c].call.callType = "Start"

statusMapped ==
  [ c \in Clients |->
      IF pc[c] = "down" \/ Starting(c) THEN "away"
      ELSE IF pc[c] = "rpc" THEN "waiting" ELSE "idle" ]

callingMapped ==
  [ c \in Clients |->
      IF pc[c] = "rpc" /\ ~Starting(c)
      THEN <<c, runs[c], pending[c].call.num>> ELSE <<>> ]

\* The last command may be a read, which makes up to two calls more.
Ids == Clients \X (1 .. MaxClientRuns) \X (0 .. MaxCalls + 1)

timesMapped ==
  [ id \in Ids |->
      LET Of(executions) == { e \in executions : Tail(e) = id } IN
      Cardinality(Of(executed)) + Cardinality(Of(reexecuted)) ]

Service == INSTANCE AtMostOnceService WITH
  status <- statusMapped, calling <- callingMapped, times <- timesMapped

\* The clients, the server and the packets between them implement the abstract
\* service: a retransmission, a duplicate, a loss or an answer that comes late
\* is seen by no user as a second execution or as the answer to another call.
ImplementsAtMostOnce == Service!Spec

-----------------------------------------------------------------------------
(* More properties.                                                         *)

\* A client that goes on after a call knows that it was executed: sendMessage
\* never takes the answer to another call for its own.
AnswerImpliesExecuted ==
  [][ \A c \in Clients :
        /\ pc[c] = "rpc" /\ pc'[c] # "down"
        /\ pending'[c].call # pending[c].call
        /\ pending[c].call.callType # "Start"
        => \E s \in 1 .. runs[Srv] :
             <<s, c, runs[c], pending[c].call.num>> \in executed ]_vars

\* cache.cpp: a copy is a state that its own file had.
CopiesOfOwnFile ==
  \A c \in Clients, f \in Files : copies[c][f] \in 0 .. files[f]

Entries(c) == { i \in DOMAIN monitors : HasNumber(c, monitors[i].clientId) }

\* server.h, sendList: when the server is between two calls, a client that is
\* monitoring is registered, and has been shown the present state of every
\* file it registered for, unless the file has not changed since.
MonitorsUpToDate ==
  pc[Srv] = "ready" =>
    \A c \in Clients : pc[c] = "monitor" =>
      /\ Entries(c) # {}
      /\ \A i \in Entries(c) :
           LET f == monitors[i].filepath IN
           files[f] \in {monitors[i].startTime, shown[c][f]}

\* An update that shows the client the present state of the file is still queued.
UpdateQueued(c, path) ==
  \E k \in DOMAIN inbox[c] :
    /\ inbox[c][k].from = Srv
    /\ inbox[c][k].msg.callType = "MonitorUpdate"
    /\ inbox[c][k].msg.strs = <<path, files[path]>>

\* server.h, sendList: a monitor message goes to all the listed clients.  When
\* the server is between two calls, a client that monitors a file has been shown
\* its present state, or an update with it is in its queue, unless the file has
\* not changed since.  Otherwise nothing will show it to the client before the
\* next edit: the server does not transmit an update again that it took for
\* acknowledged.
UpdatesReachAll ==
  pc[Srv] = "ready" =>
    \A c \in Clients : pc[c] = "monitor" =>
      \A i \in Entries(c) :
        LET f == monitors[i].filepath IN
        \/ files[f] \in {monitors[i].startTime, shown[c][f]}
        \/ UpdateQueued(c, f)

\* filesystem.h, findRemove: a client whose user is at the prompt has no entry
\* in the monitor table, so that the server does not wait for it.
IdleNotRegistered ==
  \A c \in Clients : pc[c] = "ready" => Entries(c) = {}

\* client.cpp, handleMonitor: the server gives up on a client that is
\* monitoring only if every acknowledgement was lost or is still to be sent.
GivesUpOnlyIfUnheard ==
  [][ pc[Srv] = "rpc" /\ pc'[Srv] = "down" =>
        \/ drops >= NUM_TIMEOUTS
        \/ \E c \in Clients :
             /\ HasNumber(c, Head(job.todo).clientId)
             /\ pc[c] # "monitor" \/ inbox[c] # <<>> ]_vars

\* sender.h: sendMessage returns or throws, for the client and for the server.
ClientCallReturns == \A c \in Clients : pc[c] = "rpc" ~> pc[c] # "rpc"
ServerCallReturns == pc[Srv] = "rpc" ~> pc[Srv] # "rpc"
=============================================================================
