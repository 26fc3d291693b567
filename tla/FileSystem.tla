------------------------------ MODULE FileSystem ------------------------------
(***************************************************************************)
(* What is in the files (filesystem.cpp): the texts that the operations of *)
(* the server and of the cache read and write.                             *)
(*                                                                         *)
(* A file system is a function from the paths of the files there are to    *)
(* their bytes.  int has 32 bits, and char is signed.  What time a file    *)
(* has is the subject of module ClientCache, who monitors it of            *)
(* MonitorTable.                                                           *)
(***************************************************************************)
EXTENDS Marshal, FiniteSets

INT_MAX == 2147483647

NewLine == 10
Letters == 65 .. 90 \cup 97 .. 122
IsAscii(text) == \A i \in DOMAIN text : text[i] < 128

Exists(files, path) == path \in DOMAIN files

\* A file is written whole: its old content is gone.
overwriteFile(files, path, bytes) ==
  [ p \in DOMAIN files \cup {path} |-> IF p = path THEN bytes ELSE files[p] ]

\* The loop of getline puts a newline after every line, the last one included,
\* and the last newline is then deleted: the text is without the one at the end
\* of the file, if there is one.
withoutLastNewLine(bytes) ==
  IF bytes # <<>> /\ Last(bytes) = NewLine THEN Front(bytes) ELSE bytes

\* For a path that exists; the callers have thrown noFileException.
readWholeFile(files, path) == withoutLastNewLine(files[path])

\* Mutant of asSize: no int is converted.
asSizeSigned(n) == n

\* An int that is compared with a size: a negative one is above every size.
asSize(n) == IF n < 0 THEN INT_MAX ELSE n

\* offset + num in int, which wraps (or, the overflow being undefined, is taken
\* in more bits: it is then above every size too).
intSum(offset, num) ==
  IF offset > INT_MAX - num THEN (offset - INT_MAX - 1) + (num - INT_MAX - 1) ELSE offset + num

\* std::string::substr, from a position in the text.
substr(text, offset, num) ==
  SubSeq(text, offset + 1, IF num > Len(text) - offset THEN Len(text) ELSE offset + num)

\* Either the characters asked for or the exception.
Text(bytes) == [ outcome |-> "Good", text |-> bytes ]
Thrown(exception) == [ outcome |-> exception, text |-> <<>> ]

readFile(files, path, offset, num) ==
  LET text == readWholeFile(files, path)
  IN IF ~Exists(files, path) THEN Thrown("NoFile")
     ELSE IF asSize(intSum(offset, num)) > Len(text) \/ offset < 0 \/ num < 0
     THEN Thrown("FileBound")
     ELSE Text(substr(text, offset, num))

\* insertFile: a file that there is not is made.
TextToInsertInto(files, path) == IF Exists(files, path) THEN readWholeFile(files, path) ELSE <<>>

canInsert(files, path, offset) ==
  ~(asSize(offset) > Len(TextToInsertInto(files, path)) \/ offset < 0)

insertFile(files, path, offset, bytes) ==
  LET text == TextToInsertInto(files, path)
  IN overwriteFile(files, path,
       SubSeq(text, 1, offset) \o bytes \o SubSeq(text, offset + 1, Len(text)))

\* One letter, shifted: past the last one of a case comes the first of the other.
shiftChar(c, direction) ==
  LET ascii_val == c + direction IN
  IF c \notin Letters THEN c
  ELSE IF direction > 0 THEN (IF ascii_val = 123 THEN 65 ELSE IF ascii_val = 91 THEN 97 ELSE ascii_val)
  ELSE (IF ascii_val = 96 THEN 90 ELSE IF ascii_val = 64 THEN 122 ELSE ascii_val)

shiftString(str, direction) == [ i \in DOMAIN str |-> shiftChar(str[i], direction) ]

shiftFile(files, path, direction) ==
  overwriteFile(files, path, shiftString(readWholeFile(files, path), direction))

\* How often a character is among the first i.
occurrences(text, i, c) == Cardinality({ j \in 1 .. i : text[j] = c })

\* The characters that getMode may return: the one whose count rises first above
\* that of the most common one so far.  A byte above 127 counts in front of the
\* array, where anything may be, and any character may then be taken.
getMode(files, path) ==
  LET text == readWholeFile(files, path)
      most_common[i \in 0 .. Len(text)] ==
        IF i = 0 THEN 0
        ELSE IF occurrences(text, i, text[i]) > occurrences(text, i, most_common[i - 1])
        THEN text[i] ELSE most_common[i - 1]
  IN IF IsAscii(text) THEN { most_common[Len(text)] } ELSE { 0 } \cup Range(text)
=============================================================================
