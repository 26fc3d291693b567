------------------------ MODULE MonitoringInvariants ------------------------
(***************************************************************************)
(* Why a client that monitors is in the monitor table and sees every edit, *)
(* and a client at the prompt is not: an inductive invariant, under the    *)
(* conditions of ServiceInvariants, with ServiceInv.                       *)
(*                                                                         *)
(* A call that the server executes is the one its client waits for, so     *)
(* that the table follows the client: it has an entry from the execution   *)
(* of a Monitor to that of the MonitorEnd after it.  An update that was    *)
(* acknowledged was shown, and carried the file as it is.                  *)
(***************************************************************************)
EXTENDS ServiceInvariants

\* No call is queued that may still be executed, but the one its client waits for.
OthersExecuted(c) ==
  \A j \in DOMAIN inbox[Srv] :
    LET call == inbox[Srv][j].msg IN
    /\ IsCall(inbox[Srv][j], c)
    /\ pc[c] # "down"
    /\ pc[c] = "rpc" => call.num # messageNum[c] - 1
    => call.callType = "Start" \/ WasExecuted(c, call.num)

\* The end of a monitoring is not repeated by a mistyped word.
EndsOnce == \A c \in Clients : lastMessage[c].callType # "MonitorEnd"

\* The address of a client has one number.
NumbersUnique ==
  \A i, j \in DOMAIN clientMap : clientMap[i] = clientMap[j] => i = j

-----------------------------------------------------------------------------
(* The table.                                                               *)

\* The entries are those of the client that monitors.
EntriesOfMonitoring ==
  \A e \in ToSet(monitors) : \E w \in Monitoring : HasNumber(w, e.clientId)

LastExecuted(c) == WasExecuted(c, messageNum[c] - 1)

\* From the execution of its Monitor to that of its MonitorEnd.
IsRegistered(c) ==
  \/ pc[c] = "monitor"
  \/ pc[c] = "rpc" /\ pending[c].call.callType = "Monitor" /\ LastExecuted(c)
  \/ pc[c] = "rpc" /\ pending[c].call.callType = "MonitorEnd" /\ ~LastExecuted(c)

TableFollows(w) ==
  pc[w] # "down" => Len(monitors) = IF IsRegistered(w) THEN 1 ELSE 0

-----------------------------------------------------------------------------
(* What was shown.                                                          *)

\* The file whose updates are going out.
EditedFile == job.call.strs[1]

IsCurrent(msg) == IsUpdate(msg) /\ msg.num = messageNum[Srv] - 1

\* The last update carries the file as it is, and whoever has acknowledged it has
\* shown it.
UpdateTrue ==
  pc[Srv] = "rpc" =>
    LET update == <<EditedFile, files[EditedFile]>> IN
    /\ pending[Srv].call.strs = update
    /\ \A w \in Monitoring :
         /\ \A i \in DOMAIN inbox[w] : IsCurrent(inbox[w][i].msg) => inbox[w][i].msg.strs = update
         /\ prevPacketNumber[w] = messageNum[Srv] - 1 =>
              shown[w][EditedFile] = files[EditedFile]

\* A file that is registered has not changed since, or was shown as it is.
EntriesShown(w) ==
  \A e \in ToSet(monitors) :
    \/ pc[Srv] = "down"
    \/ pc[Srv] = "rpc" /\ e.filepath = EditedFile
    \/ files[e.filepath] \in {e.startTime, shown[w][e.filepath]}

-----------------------------------------------------------------------------

\* Who is in the table, and what its entries have seen.
TableInv ==
  /\ NumbersUnique
  /\ EntriesOfMonitoring
  /\ \A w \in Monitoring : TableFollows(w)

ShownInv == UpdateTrue /\ \A w \in Monitoring : EntriesShown(w)

\* The inductive invariant, on top of ServiceInv.
MonitoringInv ==
  /\ EndsOnce
  /\ \A c \in Clients : OthersExecuted(c)
  /\ TableInv
  /\ ShownInv

-----------------------------------------------------------------------------
(* What is heard when no packet is lost.                                    *)

\* While updates go out, those they are for are in the table.
JobWatched ==
  pc[Srv] = "rpc" =>
    /\ monitors # <<>> /\ job.todo # <<>>
    /\ \A e \in ToSet(job.todo) : \E w \in Monitoring : HasNumber(w, e.clientId)

Awaits(w) == pc[w] = "rpc" /\ pending[w].call.callType = "Monitor"

IsAccepted(w, p) == IsAnswer(pending[w].call, p.msg)

\* The response to a Monitor that was executed is in the queue of its client.
MonitorHeard(w) ==
  Awaits(w) /\ LastExecuted(w) => \E j \in DOMAIN inbox[w] : IsAccepted(w, inbox[w][j])

\* The last update is in the queue of the client that monitors, behind the response
\* to its Monitor if it still waits for that, or the acknowledgement is in the
\* server's queue.
UpdateHeard(w) ==
  pc[Srv] = "rpc" /\ (pc[w] = "monitor" \/ Awaits(w)) =>
    \/ \E i \in DOMAIN inbox[Srv] : IsUpdate(inbox[Srv][i].msg)
    \/ \E i \in DOMAIN inbox[w] :
         /\ IsCurrent(inbox[w][i].msg)
         /\ prevPacketNumber[w] < messageNum[Srv] - 1
         /\ Awaits(w) => \E j \in 1 .. i - 1 : IsAccepted(w, inbox[w][j])

\* The inductive invariant, on top of MonitoringInv, where no process runs with -d
\* (Dropping is empty).
HeardInv == JobWatched /\ \A w \in Monitoring : MonitorHeard(w) /\ UpdateHeard(w)
=============================================================================
