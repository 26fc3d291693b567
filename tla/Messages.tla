------------------------------ MODULE Messages ------------------------------
(***************************************************************************)
(* The messages of the file service (message.h, message.cpp) and the codes *)
(* they carry.  A message is the record the marshaller puts on the wire.   *)
(*   callType  the CallType enumerator                                     *)
(*   num       the packet number given to it by a Sender                   *)
(*   ints      intArgs, in the order of the code                           *)
(*   strs      strArgs: a file path is an element of Files, a content or   *)
(*             a text is a number (an edition of the file, NoText)         *)
(*   run       history: the run of the process that made the call; no      *)
(*             guard reads it                                              *)
(* The field "type" (Call or Response) is left out: it is marshalled, and  *)
(* no code ever reads it.                                                  *)
(***************************************************************************)
EXTENDS Integers, Sequences

CONSTANT Files   \* the paths that occur in messages

\* First element of a response: the SuccessType of sender.h.
Good == 0
Failure == 1

\* Second element of a failed response: the ExceptionCode of exception.h.
FileBoundException == 0
NoFileException == 1

CallTypes ==
  { "Read", "Insert", "Monitor", "Shift", "Mode",
    "MonitorUpdate", "MonitorEnd", "Fresh", "Dump", "Start" }

\* What an uninitialised CallType holds when it is none of the enumerators.
Garbage == "Garbage"

\* Offsets of an insertion: one that every file has, one that none reaches.
AtStart == 0
Beyond == 2147483647

NoText == 0

Message(callType, ints, strs) ==
  [ callType |-> callType, num |-> 0, ints |-> ints, strs |-> strs, run |-> 0 ]

\* setNum: the number, and with it the history label, of another message.
Numbered(msg, num, run) == [ msg EXCEPT !.num = num, !.run = run ]

\* Two strings are a path and a content.
Strings ==
  { s \in Seq(Files \cup Nat) : Len(s) = 2 => s[1] \in Files /\ s[2] \in Nat }

\* A Monitor, call or response, has no string, or the path of a file.
Messages ==
  { m \in [ callType : CallTypes \cup {Garbage}, num : Nat, ints : Seq(Nat),
            strs : Strings, run : Nat ] :
      m.callType = "Monitor" /\ m.strs # <<>> => m.strs[1] \in Files }
=============================================================================
