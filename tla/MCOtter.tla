------------------------------- MODULE MCOtter -------------------------------
(***************************************************************************)
(* Instances of Otter for TLC: who the clients are and what their users    *)
(* type.  The processes are model values given in the configurations.      *)
(***************************************************************************)
EXTENDS MonitoringInvariants

CONSTANTS c1, c2, c3

Symmetry == Permutations({c2, c3})

FileSymmetry == Permutations(Files)

\* c1 edits; the others monitor.
OneEditorWatchers == [ c \in Clients |-> IF c = c1 THEN {"insert"} ELSE {"monitor"} ]

\* c1 edits; the others monitor and edit.
WatchersEdit == [ c \in Clients |-> IF c = c1 THEN {"insert"} ELSE {"insert", "monitor"} ]

\* c1 edits; the others monitor and read.
WatchersRead == [ c \in Clients |-> IF c = c1 THEN {"insert"} ELSE {"monitor", "read"} ]

\* c1 edits; c2 does everything, except that all its edits are insertions.
EditorAndAll ==
  [ c \in Clients |-> IF c = c1 THEN {"insert"}
                      ELSE {"insert", "mode", "monitor", "read", "other", "q"} ]

\* The same, but c1 shifts, and c2 does that too.
ShifterAndAll ==
  [ c \in Clients |-> IF c = c1 THEN {"shift"} ELSE EditorAndAll[c] \cup {"shift"} ]

\* Every client reads.
Readers == [ c \in Clients |-> {"read"} ]
=============================================================================
