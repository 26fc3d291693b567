----------------------------- MODULE ClientCache -----------------------------
(***************************************************************************)
(* Reading through the cache of a client (cache.cpp, and the command read  *)
(* of client_loop) with the times that decide whether a copy is fresh, and *)
(* the calls Fresh and Dump by which the server (server.cpp) serves it.    *)
(*                                                                         *)
(* There is one file: the entries of two paths share nothing.  It is       *)
(* edited by other clients at any time, and its content is told by its     *)
(* edition, one more after each edit; edition 0 is no file.  The entries   *)
(* of the cache end with the client; so does this model.                   *)
(***************************************************************************)
EXTENDS TimedSender

CONSTANTS
  Intervals, \* the freshness intervals a client may be started with, in seconds
  MaxReads,  \* bound: how often the user reads
  MaxEdits   \* bound: the edition the file may reach

ASSUME ClientCacheAssumption ==
  /\ Intervals \subseteq Nat
  /\ MaxReads \in Nat
  /\ MaxEdits \in Nat

VARIABLES
  t,               \* Cache::t, the freshness interval, option -t
  edits,           \* when each edition was written; the last one is the file
  messageMap,      \* the responses the server has stored
  copy,            \* the local file: its edition, when written, when served
  lastValidation,  \* the cache entry, in seconds; NoEntry if there is none
  curTime,         \* cur_time of updateCache
  validated,       \* history: when the server executed the validating call, and
                   \* when its response was processed
  shown,           \* history: what the last read showed, and when
  reads            \* history: how many reads have been made

cacheVars == <<t, edits, messageMap, copy, lastValidation, curTime, validated, shown, reads>>

vars == <<senderVars, cacheVars>>

NoEntry == -1

Edition == Len(edits)

-----------------------------------------------------------------------------
(* The server.                                                              *)

\* Another client edits the file.
EditFile ==
  /\ Edition < MaxEdits
  /\ edits' = Append(edits, now)
  /\ UNCHANGED <<senderVars, t, messageMap, copy, lastValidation, curTime, validated, shown, reads>>

\* execute, the cases Fresh and Dump: both fail without a file; the one tells
\* when the file was modified, the other what is in it.
Response(request) ==
  [ num |-> request.num, type |-> request.type, edition |-> Edition,
    modified |-> IF edits = <<>> THEN 0 ELSE Seconds(edits[Edition]),
    served |-> now ]

Stored(request) == { r \in messageMap : r.num = request.num }

\* The response to a duplicate is the one stored when the call was executed.
Serve ==
  /\ requests # <<>>
  /\ LET request == Head(requests)
         Deliver(r) == IF call = Ended THEN socket' = socket /\ UNCHANGED losses
                       ELSE SendOrLose(socket, r, socket')
     IN \/ /\ Stored(request) = {}
           /\ Deliver(Response(request))
           /\ messageMap' = messageMap \cup {Response(request)}
        \/ /\ \E r \in Stored(request) : Deliver(r)
           /\ UNCHANGED messageMap
  /\ requests' = Tail(requests)
  /\ UNCHANGED <<now, call, messageNum, tries, deadline, since, improper>>
  /\ UNCHANGED <<t, edits, copy, lastValidation, curTime, validated, shown, reads>>

-----------------------------------------------------------------------------
(* The client.                                                              *)

\* Mutant of IsFresh: the interval is one second too long.
IsFreshTooLong(time) == time - lastValidation <= t

\* updateCache: the entry is inside its freshness interval.
IsFresh(time) == time - lastValidation < t

\* readFile on the local copy, and the answer on the screen.
Show(edition, validation, file) ==
  shown' = [ edition |-> edition, at |-> now, validated |-> validation, copy |-> file ]

StartRead ==
  /\ call = Prompt
  /\ reads < MaxReads
  /\ reads' = reads + 1
  /\ curTime' = Seconds(now)

ReadLocally ==
  /\ StartRead
  /\ lastValidation # NoEntry
  /\ IsFresh(Seconds(now))
  /\ Show(copy.edition, validated, copy)
  /\ UNCHANGED <<senderVars, t, edits, messageMap, copy, lastValidation, validated>>

\* findOrMake finds no entry.
AskForFile ==
  /\ StartRead
  /\ lastValidation = NoEntry
  /\ SendMessage("Dump", socket)
  /\ UNCHANGED <<now, t, edits, messageMap, copy, lastValidation, validated, shown>>

AskWhetherFresh ==
  /\ StartRead
  /\ lastValidation # NoEntry
  /\ ~IsFresh(Seconds(now))
  /\ SendMessage("Fresh", socket)
  /\ UNCHANGED <<now, t, edits, messageMap, copy, lastValidation, validated, shown>>

Resp == Head(socket)

Receive(types) ==
  /\ Answered
  /\ call.type \in types
  /\ UNCHANGED <<now, t, edits, messageMap, curTime, reads>>

\* noFileException: nothing is stored.
ReceiveNoFile ==
  /\ Receive({"Fresh", "Dump"})
  /\ Resp.edition = 0
  /\ Return(Tail(socket))
  /\ Show(0, [ served |-> Resp.served, at |-> now ], copy)
  /\ UNCHANGED <<copy, lastValidation, validated>>

\* The copy is overwritten, which sets its time of modification, and counts as
\* fresh from now on.
StoreCopy ==
  /\ Receive({"Dump"})
  /\ Resp.edition > 0
  /\ copy' = [ edition |-> Resp.edition, served |-> Resp.served, written |-> now ]
  /\ lastValidation' = Seconds(now)
  /\ validated' = [ served |-> Resp.served, at |-> now ]

\* findOrMake has made the entry; updateCache compares its time with cur_time,
\* which was read before, so that only t = 0 makes it go on.
MadeEntryIsFresh == curTime - Seconds(now) < t

ReceiveFile ==
  /\ StoreCopy
  /\ lastValidation # NoEntry \/ MadeEntryIsFresh
  /\ Return(Tail(socket))
  /\ Show(Resp.edition, validated', copy')

ReceiveFileAndAsk ==
  /\ StoreCopy
  /\ lastValidation = NoEntry /\ ~MadeEntryIsFresh
  /\ SendMessage("Fresh", Tail(socket))
  /\ UNCHANGED shown

\* Mutant of IsModified: the comparison is the wrong way round.
IsModifiedReversed(tClient, tServer) == tServer < tClient

\* updateCache: the time of the local file against that of the server's.
IsModified(tClient, tServer) == tClient < tServer

ReceiveUnmodified ==
  /\ Receive({"Fresh"})
  /\ Resp.edition > 0
  /\ ~IsModified(Seconds(copy.written), Resp.modified)
  /\ lastValidation' = Seconds(now)
  /\ validated' = [ served |-> Resp.served, at |-> now ]
  /\ Return(Tail(socket))
  /\ Show(copy.edition, validated', copy)
  /\ UNCHANGED copy

ReceiveModified ==
  /\ Receive({"Fresh"})
  /\ Resp.edition > 0
  /\ IsModified(Seconds(copy.written), Resp.modified)
  /\ SendMessage("Dump", Tail(socket))
  /\ UNCHANGED <<copy, lastValidation, validated, shown>>

InSendMessage == (DiscardImproper \/ Retransmit \/ GiveUp) /\ UNCHANGED cacheVars

TimePasses == Tick /\ UNCHANGED cacheVars

Init ==
  /\ SenderInit
  /\ t \in Intervals
  /\ edits \in {<<>>, <<0>>}
  /\ messageMap = {}
  /\ copy = [ edition |-> 0, served |-> 0, written |-> 0 ]
  /\ lastValidation = NoEntry
  /\ curTime = 0
  /\ validated = [ served |-> 0, at |-> 0 ]
  /\ shown = [ edition |-> 0, at |-> 0, validated |-> validated, copy |-> copy ]
  /\ reads = 0

Next ==
  \/ EditFile \/ Serve
  \/ ReadLocally \/ AskForFile \/ AskWhetherFresh
  \/ ReceiveNoFile \/ ReceiveFile \/ ReceiveFileAndAsk
  \/ ReceiveUnmodified \/ ReceiveModified
  \/ InSendMessage
  \/ TimePasses

Spec == Init /\ [][Next]_vars

-----------------------------------------------------------------------------
(* Properties.                                                              *)

\* An edit between the moment the server served a copy and the end of the second
\* in which the client wrote it.
Overlooked(file, superseded) ==
  /\ file.served <= superseded
  /\ Seconds(superseded) <= Seconds(file.written)

\* cache.h: what a read shows was superseded, if at all, no longer ago than
\* the interval and the time the validating call took -- or it was superseded
\* while it was fetched, which no validation notices before the next edit.
ReadsFresh ==
  shown.edition < Edition =>
    LET superseded == edits[shown.edition + 1] IN
    \/ shown.at - superseded <= 2 * t + (shown.validated.at - shown.validated.served)
    \/ /\ shown.edition > 0
       /\ Overlooked(shown.copy, superseded)

\* sender.h: the answer that a call returns was executed for this call, and the
\* call has lasted no longer than its transmissions allow: together with
\* ReadsFresh, the bound on how stale a read is.
ValidatedByThisCall ==
  [][ validated' # validated =>
        /\ since <= validated'.served
        /\ now - since <= 2 * TIMEOUT_DURATION * tries + improper ]_vars

\* sender.h: a call is given up only after it has waited TIMEOUT_DURATION for
\* each of its transmissions, and each improper packet prolongs it by less
\* than a second, however the rest of a wait is rounded.
GivesUpInTime ==
  [][ call' = Ended /\ call # Ended =>
        LET waited == 2 * TIMEOUT_DURATION * NUM_TIMEOUTS IN
        waited <= now - since /\ now - since <= waited + improper ]_vars

-----------------------------------------------------------------------------
(* Why reads are fresh: an inductive invariant.                             *)

\* An edition that was the file at some time.
Current(edition, time) ==
  /\ edition \in 0 .. Edition
  /\ edition > 0 => edits[edition] <= time
  /\ edition < Edition => time <= edits[edition + 1]

\* The editions were written one after the other.
EditsOrdered ==
  /\ edits \in Seq(0 .. now)
  /\ \A i, j \in DOMAIN edits : i < j => edits[i] <= edits[j]

\* Responses to the first n calls, until some time.
Responses(n, time) ==
  [ num : 0 .. n - 1, type : {"Fresh", "Dump"}, edition : Nat,
    modified : Nat, served : 0 .. time ]

\* A response tells the state of the file when its call was executed, and the
\* call was executed after it was made.
IsTrue(r) ==
  /\ Current(r.edition, r.served)
  /\ r.edition > 0 => r.modified = Seconds(edits[r.edition])
  /\ Waits /\ r.num = call.num => since <= r.served

ResponsesTrue ==
  /\ messageMap \subseteq Responses(messageNum, now)
  /\ socket \in Seq(Responses(messageNum, now))
  /\ \A r \in messageMap : IsTrue(r)
  /\ \A i \in DOMAIN socket : IsTrue(socket[i])

Copies == [ edition : Nat, served : Nat, written : Nat ]
Validations == [ served : Nat, at : Nat ]

CacheTypeOK ==
  /\ t \in Intervals
  /\ copy \in Copies
  /\ lastValidation \in Nat \cup {NoEntry}
  /\ curTime \in Nat
  /\ validated \in Validations
  /\ shown \in [ edition : Nat, at : Nat, validated : Validations, copy : Copies ]
  /\ reads \in Nat

\* A copy was the file when it was served, and was written after that.
CopyWasFile ==
  copy.edition > 0 =>
    /\ Current(copy.edition, copy.served)
    /\ copy.served <= copy.written
    /\ copy.written <= now

\* The edit that made a copy outdated came after the validation, or is one
\* that validations do not notice.
EntryValid ==
  lastValidation # NoEntry =>
    /\ copy.edition > 0
    /\ lastValidation = Seconds(validated.at)
    /\ validated.served <= validated.at
    /\ validated.at <= now
    /\ copy.edition < Edition =>
         LET superseded == edits[copy.edition + 1] IN
         validated.served <= superseded \/ Overlooked(copy, superseded)

\* Only a copy there is an entry of is validated.
EntriesValidated == Waits /\ call.type = "Fresh" => lastValidation # NoEntry

\* What was shown was the file once, or there was none.
ShownPast ==
  /\ shown.at <= now
  /\ shown.edition <= Edition
  /\ shown.validated.served <= shown.validated.at

\* The inductive invariant, of which ReadsFresh is a part.
FreshnessInv ==
  /\ SenderTypeOK /\ CacheTypeOK
  /\ WaitBounded
  /\ EditsOrdered
  /\ ResponsesTrue
  /\ CopyWasFile
  /\ EntryValid
  /\ EntriesValidated
  /\ ShownPast
  /\ ReadsFresh
=============================================================================
