------------------------------- MODULE Server -------------------------------
(***************************************************************************)
(* The server process (server.cpp) with its client map, its message map,   *)
(* the monitor table and the files of its FileSystem.                      *)
(*                                                                         *)
(* A file is known by its edition: 0 when there is no such file, and one   *)
(* more after each insertion or shift.  The case of execute for a Read is  *)
(* left out: no client sends one, it reads its copy.                       *)
(***************************************************************************)
EXTENDS Sender, MonitorTable

CONSTANTS
  InitialFiles,    \* the files that exist when the first server starts
  ServerSemantic,  \* "AtMostOnce", or "AtLeastOnce" for a server run with -l
  MaxServerRuns    \* bound: how often a server process is started

ASSUME ServerAssumption ==
  /\ InitialFiles \subseteq Files
  /\ ServerSemantic \in {"AtMostOnce", "AtLeastOnce"}
  /\ MaxServerRuns \in Nat

VARIABLES
  files,       \* the edition of each file on disk
  clientMap,   \* ClientMap::map, the addresses heard from and their numbers
  messageMap,  \* the responses kept for duplicates
  monitors,    \* MonitorTable::list
  job,         \* the call whose monitor updates are going out
  executed,    \* history: the calls executed, and by which server
  reexecuted   \* history: those executed a second time by the same server

serverVars == <<files, clientMap, messageMap, monitors, job, executed, reexecuted>>

NoJob == [ from |-> Srv, call |-> Message("Start", <<>>, <<>>), todo |-> <<>> ]

Exists(path) == path \in Files /\ files[path] > 0

\* The packet server_loop has received, and who sent it.
Request == Packet(Srv).msg
Caller == Packet(Srv).from

-----------------------------------------------------------------------------
(* ClientMap.  Its numbers are given out in the order of the first packets, *)
(* and the size of the map is curNum.                                       *)

IsKnown(c) == \E i \in DOMAIN clientMap : clientMap[i] = c

\* findClientNum: the map with the caller in it, and the number of the caller.
WithCaller == IF IsKnown(Caller) THEN clientMap ELSE Append(clientMap, Caller)

\* Mutant of ClientNum: the number is counted up for a client that has one.
ClientNumCountedUp == Len(clientMap) + 1

ClientNum == CHOOSE i \in DOMAIN WithCaller : WithCaller[i] = Caller

\* getClientEntry.
HasNumber(c, clientNum) ==
  clientNum \in DOMAIN clientMap /\ clientMap[clientNum] = c

-----------------------------------------------------------------------------
(* The message map: at most one response for a client and a number.         *)

\* clearMap, when a client announces itself.
MapAfterStart ==
  IF ServerSemantic = "AtMostOnce" /\ Request.callType = "Start"
  THEN { e \in messageMap : e.from # Caller }
  ELSE messageMap

\* checkMap and getFromMap.
Hits(c, num) == { e \in messageMap : e.from = c /\ e.num = num }

\* Mutant of IsDuplicate: calls that change no file are not looked up.
IsDuplicateEdit ==
  /\ ServerSemantic = "AtMostOnce"
  /\ Request.callType \in {"Insert", "Shift"}
  /\ Hits(Caller, Request.num) # {}

IsDuplicate ==
  /\ ServerSemantic = "AtMostOnce"
  /\ Request.callType # "Start"
  /\ Hits(Caller, Request.num) # {}

\* Mutant of AddToMap: only the last response is kept.
AddToMapLastOnly(map, c, num, resp) ==
  IF ServerSemantic = "AtMostOnce"
  THEN {[ from |-> c, num |-> num, message |-> resp ]}
  ELSE map

\* addMap.
AddToMap(map, c, num, resp) ==
  IF ServerSemantic = "AtMostOnce"
  THEN map \cup {[ from |-> c, num |-> num, message |-> resp ]}
  ELSE map

-----------------------------------------------------------------------------
(* One turn of server_loop.                                                 *)

Serving ==
  /\ pc[Srv] = "ready"
  /\ Arrived(Srv)

AnswerDuplicate ==
  /\ Serving
  /\ IsDuplicate
  /\ \E e \in Hits(Caller, Request.num) :
       SendResponse(Consumed(Srv), Srv, Caller, Request, e.message)
  /\ clientMap' = WithCaller
  /\ UNCHANGED <<pc, messageNum, pending, runs>>
  /\ UNCHANGED <<files, messageMap, monitors, job, executed, reexecuted>>

\* execute is entered.
Executing(callTypes) ==
  /\ Serving
  /\ ~IsDuplicate
  /\ Request.callType \in callTypes
  /\ clientMap' = WithCaller

\* The arguments that the case of execute reads are there.
WellFormed ==
  /\ Request.callType \in {"Insert", "Monitor", "Shift"} => Request.ints # <<>>
  /\ Request.callType \in {"Monitor", "Shift", "Mode", "Fresh", "Dump"} => Request.strs # <<>>
  /\ Request.callType = "Insert" => Len(Request.strs) >= 2

\* The history of executions: the server is told by its run, a call by its
\* client, the run of the client and its number.  Start is left out, it may be
\* executed again.
Execution == <<runs[Srv], Caller, Request.run, Request.num>>

Record ==
  /\ executed' = executed \cup {Execution}
  /\ reexecuted' = reexecuted \cup ({Execution} \cap executed)

\* execute returns a response: it is stored and sent.
Respond(resp) ==
  /\ messageMap' = AddToMap(MapAfterStart, Caller, Request.num, resp)
  /\ SendResponse(Consumed(Srv), Srv, Caller, Request, resp)
  /\ UNCHANGED <<pc, messageNum, pending, runs, job>>

Response(callType, ints, strs) == Message(callType, ints, strs)

\* Mutant of Notify: the file is read before it is written.
NotifyBeforeEdit(queues, c, path, edition) ==
  SendMessage(queues, Srv, c, Message("MonitorUpdate", <<>>, <<path, edition - 1>>),
              messageNum[Srv], runs[Srv])

\* sendList, for one client: the file is read and sendMessage entered.
Notify(queues, c, path, edition) ==
  SendMessage(queues, Srv, c, Message("MonitorUpdate", <<>>, <<path, edition>>),
              messageNum[Srv], runs[Srv])

\* An insertion beyond the end and a shift of a missing file do nothing.
EditFails ==
  \/ Request.callType = "Insert" /\ Request.ints[1] = Beyond
  \/ Request.callType = "Shift" /\ ~Exists(Request.strs[1])

FailEdit ==
  /\ Executing({"Insert", "Shift"})
  /\ WellFormed
  /\ EditFails
  /\ Record
  /\ Respond(Response(Request.callType,
               <<Failure, IF Request.callType = "Insert"
                          THEN FileBoundException ELSE NoFileException>>, <<>>))
  /\ UNCHANGED <<files, monitors>>

\* insertFile and shiftFile write the file; checkFile sweeps the table.
Edit(path) ==
  /\ Executing({"Insert", "Shift"})
  /\ WellFormed
  /\ ~EditFails
  /\ path = Request.strs[1]
  /\ files' = [ files EXCEPT ![path] = @ + 1 ]
  /\ Record
  /\ UNCHANGED monitors

EditUnmonitored ==
  \E path \in Files :
    /\ Edit(path)
    /\ Sweep(monitors, path) = <<>>
    /\ Respond(Response(Request.callType, <<Good>>, <<>>))

\* The response waits for the monitoring clients, one after the other.
EditMonitored ==
  \E path \in Files, c \in Clients :
    LET watchers == Sweep(monitors, path) IN
    /\ Edit(path)
    /\ watchers # <<>>
    /\ HasNumber(c, Head(watchers).clientId)
    /\ job' = [ from |-> Caller, call |-> Request, todo |-> watchers ]
    /\ Notify(Consumed(Srv), c, path, files[path] + 1)
    /\ UNCHANGED <<messageMap, runs>>

\* sendMessage returns to sendList, which goes on to the next client.
NotifyNext ==
  /\ Answered(Srv)
  /\ Len(job.todo) > 1
  /\ job' = [ from |-> job.from, call |-> job.call, todo |-> Tail(job.todo) ]
  /\ \E c \in Clients :
       /\ HasNumber(c, job.todo[2].clientId)
       /\ Notify(Consumed(Srv), c, job.call.strs[1], files[job.call.strs[1]])
  /\ UNCHANGED <<runs, files, clientMap, messageMap, monitors, executed, reexecuted>>

\* sendMessage returns to sendList for the last client, and the edit is
\* answered at last.
NotifiedAll ==
  /\ Answered(Srv)
  /\ Len(job.todo) = 1
  /\ LET resp == Response(job.call.callType, <<Good>>, <<>>) IN
       /\ messageMap' = AddToMap(messageMap, job.from, job.call.num, resp)
       /\ SendResponse(Consumed(Srv), Srv, job.from, job.call, resp)
  /\ pc' = [ pc EXCEPT ![Srv] = "ready" ]
  /\ pending' = [ pending EXCEPT ![Srv] = NoCall ]
  /\ job' = NoJob
  /\ UNCHANGED <<messageNum, runs, files, clientMap, monitors, executed, reexecuted>>

\* monitorFile.  The time of the registration is told by the edition.
Register ==
  /\ Executing({"Monitor"})
  /\ WellFormed
  /\ monitors' = Append(monitors,
       [ filepath |-> Request.strs[1], clientId |-> ClientNum,
         startTime |-> files[Request.strs[1]] ])
  /\ Record
  /\ Respond(Response("Monitor", <<Good, Request.ints[1]>>, <<>>))
  /\ UNCHANGED files

Unregister ==
  /\ Executing({"MonitorEnd"})
  /\ monitors' = FindRemove(monitors, ClientNum)
  /\ Record
  /\ Respond(Response("MonitorEnd", <<>>, <<>>))
  /\ UNCHANGED files

\* getMode; the character is told by the edition it was found in.
GetMode ==
  /\ Executing({"Mode"})
  /\ WellFormed
  /\ Record
  /\ Respond(IF Exists(Request.strs[1])
             THEN Response("Mode", <<Good>>, <<files[Request.strs[1]]>>)
             ELSE Response("Mode", <<Failure, NoFileException>>, <<>>))
  /\ UNCHANGED <<files, monitors>>

\* lastModification; the time is told by the edition.
TellModification ==
  /\ Executing({"Fresh"})
  /\ WellFormed
  /\ Record
  /\ Respond(IF Exists(Request.strs[1])
             THEN Response("Fresh", <<Good, files[Request.strs[1]]>>, <<>>)
             ELSE Response("Fresh", <<Failure, NoFileException>>, <<>>))
  /\ UNCHANGED <<files, monitors>>

\* readWholeFile.
DumpFile ==
  /\ Executing({"Dump"})
  /\ WellFormed
  /\ Record
  /\ Respond(IF Exists(Request.strs[1])
             THEN Response("Dump", <<>>, <<files[Request.strs[1]]>>)
             ELSE Response("Dump", <<Failure, NoFileException>>, <<>>))
  /\ UNCHANGED <<files, monitors>>

GreetClient ==
  /\ Executing({"Start"})
  /\ Respond(Response("Start", <<Good>>, <<>>))
  /\ UNCHANGED <<files, monitors, executed, reexecuted>>

\* A monitor update acknowledged too late is taken for a call.  The switch of
\* execute has no case for it, and the response keeps the call type that the
\* uninitialised variable happens to hold.
ServeLateAcknowledgement ==
  /\ Executing({"MonitorUpdate"})
  /\ \E callType \in CallTypes \cup {Garbage} : Respond(Response(callType, <<>>, <<>>))
  /\ UNCHANGED <<files, monitors, executed, reexecuted>>

-----------------------------------------------------------------------------
(* The end of a server, and the start of another one.                       *)

\* The first element of an empty vector is read: a null pointer.
ServeMalformed ==
  /\ Serving
  /\ ~IsDuplicate
  /\ ~WellFormed
  /\ Exit(Srv)
  /\ UNCHANGED serverVars

ServerDiscards == DiscardImproper(Srv) /\ UNCHANGED serverVars

ServerRetransmits == Retransmit(Srv) /\ UNCHANGED serverVars

\* The timeoutException of sendMessage passes through sendList, execute,
\* server_loop and main.
ServerGivesUp == OutOfTries(Srv) /\ Exit(Srv) /\ UNCHANGED serverVars

\* Only the files survive.
Restart ==
  /\ pc[Srv] = "down"
  /\ runs[Srv] < MaxServerRuns
  /\ pc' = [ pc EXCEPT ![Srv] = "ready" ]
  /\ runs' = [ runs EXCEPT ![Srv] = @ + 1 ]
  /\ messageNum' = [ messageNum EXCEPT ![Srv] = 0 ]
  /\ clientMap' = <<>>
  /\ messageMap' = {}
  /\ monitors' = <<>>
  /\ job' = NoJob
  /\ UNCHANGED <<inbox, pending, drops, files, executed, reexecuted>>

ServerInit ==
  /\ files = [ f \in Files |-> IF f \in InitialFiles THEN 1 ELSE 0 ]
  /\ clientMap = <<>>
  /\ messageMap = {}
  /\ monitors = <<>>
  /\ job = NoJob
  /\ executed = {}
  /\ reexecuted = {}

Executions == Nat \X Nodes \X Nat \X Nat

\* The files, the maps and the history have their types.
ServerTypeOK ==
  /\ files \in [ Files -> Nat ]
  /\ clientMap \in Seq(Nodes)
  /\ messageMap \subseteq [ from : Nodes, num : Nat, message : Messages ]
  /\ job.from \in Nodes /\ job.call \in Messages
  /\ job # NoJob => job.call.strs[1] \in Files
  /\ executed \subseteq Executions
  /\ reexecuted \subseteq executed

\* Whoever is to be notified is in the client map.
MonitorsTypeOK ==
  LET Entry == [ filepath : Files, clientId : DOMAIN clientMap, startTime : Nat ] IN
  /\ monitors \in Seq(Entry)
  /\ job.todo \in Seq(Entry)
=============================================================================
