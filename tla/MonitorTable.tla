---------------------------- MODULE MonitorTable ----------------------------
(***************************************************************************)
(* The operations of MonitorTable (monitortable.cpp) on its list of        *)
(* MonitorEntry records, oldest first.  Each of them is one pass with an   *)
(* index over the vector.                                                  *)
(***************************************************************************)
EXTENDS SequencesExt

\* The pass: what its turns, one for each entry, have made of the start.
Pass(Turn(_, _), start, list) ==
  LET after[i \in 0 .. Len(list)] ==
        IF i = 0 THEN start ELSE Turn(after[i - 1], list[i])
  IN  after[Len(list)]

\* Mutant of Sweep: the loop ends before the last entry.
SweepAllButLast(list, path) ==
  IF list = <<>> THEN <<>> ELSE SelectSeq(Front(list), LAMBDA e : e.filepath = path)

\* sweep: the entries for a path, whatever their age: startTime and
\* duration are stored but not looked at.
Sweep(list, path) ==
  LET Turn(vec, e) == IF e.filepath = path THEN Append(vec, e) ELSE vec
  IN  Pass(Turn, <<>>, list)

\* The loop that erases list[i] and then still increments i: the entry that
\* slid into position i is passed over unexamined.
EraseLoop(clientId, list) ==
  LET Turn(acc, e) ==
        IF e.clientId = clientId /\ ~acc.passOver
        THEN [ kept |-> acc.kept, passOver |-> TRUE ]
        ELSE [ kept |-> Append(acc.kept, e), passOver |-> FALSE ]
  IN  Pass(Turn, [ kept |-> <<>>, passOver |-> FALSE ], list).kept

\* Mutant of FindRemove: the loop begins at the second entry.
FindRemoveFromSecond(list, clientId) ==
  IF list = <<>> THEN <<>> ELSE <<Head(list)>> \o EraseLoop(clientId, Tail(list))

\* findRemove: drop the entries of a client.
FindRemove(list, clientId) == EraseLoop(clientId, list)
=============================================================================
