------------------------------ MODULE TextService ------------------------------
(***************************************************************************)
(* What the server promises one user about the texts of files, without     *)
(* bytes, packets and 32-bit ints: the abstract specification that         *)
(* RemoteFiles implements.                                                 *)
(***************************************************************************)
EXTENDS Integers, Sequences, FiniteSets

CONSTANT Commands  \* what a user may enter: records with a name and a path, and
                   \* with an offset, a num or bytes where the command has one

VARIABLES
  texts,    \* the text of every file the server has
  copies,   \* the text of every file the client has a copy of
  command,  \* the command that is carried out, or Idle or Gone
  answer,   \* how far: NotYet executed, Lost after that, or the answer
  shown,    \* what the user has been shown last
  update    \* what those who monitor a file have been shown last

vars == <<texts, copies, command, answer, shown, update>>

Idle == [ name |-> "idle" ]
Gone == [ name |-> "gone" ]

Answer(outcome, text) == [ outcome |-> outcome, text |-> text ]
NotYet == Answer("not yet", <<>>)
Lost == Answer("lost", <<>>)

NewLine == 10

Count(text, c) == Cardinality({ i \in DOMAIN text : text[i] = c })

\* What may be left of a text that is written and read again: all of it, but for
\* one newline at its end.
Kept(text) ==
  { text } \cup { SubSeq(text, 1, n) : n \in { n \in { Len(text) - 1 } : n >= 0 /\ text[n + 1] = NewLine } }

Set(files, path, text) == [ p \in DOMAIN files \cup {path} |-> IF p = path THEN text ELSE files[p] ]

\* The letters go round: a .. z, A .. Z, a ...
NextLetter(c) ==
  CASE c = 122 -> 65
    [] c = 90 -> 97
    [] c \in (97 .. 121) \cup (65 .. 89) -> c + 1
    [] OTHER -> c

\* The most common characters of a text; 0 if it has none, and any of these if one
\* is not ASCII.
MostCommon(text) ==
  LET chars == { text[i] : i \in DOMAIN text }
  IN IF \E c \in chars : c > 127 THEN chars \cup { 0 }
     ELSE IF text = <<>> THEN { 0 }
     ELSE { c \in chars : \A d \in chars : Count(text, d) <= Count(text, c) }

\* The part of a text that a user asks for.
Part(text, offset, num) ==
  IF offset <= Len(text) /\ num <= Len(text) - offset 
  THEN Answer("Good", SubSeq(text, offset + 1, offset + num))
  ELSE Answer("FileBound", <<>>)

Init ==
  /\ copies = << >>
  /\ command = Idle
  /\ answer = NotYet
  /\ shown = NotYet
  /\ update = NotYet

\* A read of a copy the client has.
ReadCopy(c) ==
  /\ command = Idle
  /\ c.name = "read" /\ c.path \in DOMAIN copies
  /\ shown' = Part(copies[c.path], c.offset, c.num)
  /\ UNCHANGED <<texts, copies, command, answer, update>>

Enter(c) ==
  /\ command = Idle
  /\ command' = c
  /\ UNCHANGED <<texts, copies, answer, shown, update>>

\* The server executes the command, once, and its answer may be lost.
Execute(name) ==
  /\ command.name = name
  /\ answer = NotYet
  /\ UNCHANGED <<copies, command, shown>>

Known == command.path \in DOMAIN texts

Text == IF Known THEN texts[command.path] ELSE <<>>

\* An edit, which those who monitor the file may be shown.
Edit(text) ==
  \E kept \in Kept(text) :
    /\ texts' = Set(texts, command.path, kept)
    /\ update' \in { update, Answer("update", kept) }
    /\ answer' \in { Lost, Answer("Good", <<>>) }

Tell(outcome, text) ==
  /\ answer' \in { Lost, Answer(outcome, text) }
  /\ UNCHANGED <<texts, update>>

Insert ==
  /\ Execute("insert")
  /\ IF command.offset <= Len(Text)
     THEN Edit(SubSeq(Text, 1, command.offset) \o command.bytes \o SubSeq(Text, command.offset + 1, Len(Text)))
     ELSE Tell("FileBound", <<>>)

Shift ==
  /\ Execute("shift")
  /\ IF Known THEN Edit([ i \in DOMAIN Text |-> NextLetter(Text[i]) ]) ELSE Tell("NoFile", <<>>)

Mode ==
  /\ Execute("mode")
  /\ IF Known THEN \E c \in MostCommon(Text) : Tell("Good", << c >>) ELSE Tell("NoFile", <<>>)

Dump ==
  /\ Execute("read")
  /\ IF Known THEN Tell("Good", Text) ELSE Tell("NoFile", <<>>)

\* The answer has come; a text is copied before it is read.
Return ==
  /\ answer \notin { NotYet, Lost }
  /\ command' = Idle
  /\ answer' = NotYet
  /\ IF command.name = "read" /\ answer.outcome = "Good"
     THEN \E kept \in Kept(answer.text) :
            /\ copies' = Set(copies, command.path, kept)
            /\ shown' = Part(kept, command.offset, command.num)
     ELSE UNCHANGED copies /\ shown' = answer
  /\ UNCHANGED <<texts, update>>

\* The user is not answered.
GiveUp ==
  /\ command # Idle /\ command # Gone
  /\ command' = Gone
  /\ answer' = NotYet
  /\ UNCHANGED <<texts, copies, shown, update>>

Next ==
  \/ \E c \in Commands : ReadCopy(c) \/ Enter(c)
  \/ Insert \/ Shift \/ Mode \/ Dump
  \/ Return \/ GiveUp

Spec == Init /\ [][Next]_vars
=============================================================================
