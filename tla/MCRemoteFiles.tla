---------------------------- MODULE MCRemoteFiles ----------------------------
(***************************************************************************)
(* Instances of RemoteFiles for TLC: a few files and what a user types.    *)
(***************************************************************************)
EXTENDS RemoteFilesInvariants

\* A path that another client monitors and one that nobody does.
F == << 102 >>
G == << 103 >>

MCWatched == { G }

a == 97
z == 122
Z == 90

Long == [ i \in 1 .. 14 |-> a ]

\* Files with no newline, one and two at the end; one with a byte that is not ASCII;
\* long ones; no file.
MCInitialFiles ==
  { F :> text : text \in { << >>, << z, Z >>, << a, NewLine >>, << z, 64, NewLine, NewLine >>, Long } }
    \cup { G :> text : text \in { << a, z, a >>, << 200, z, NewLine >>, Long } }
    \cup { << >> }

\* Paths that fit into some calls and into none.
LongPath(n) == [ i \in 1 .. n |-> 102 ]

\* Positions at the start, inside, at the end and outside; sums above INT_MAX; a
\* text or a path that is too long for a call.
MCCommands ==
  { [ name |-> "insert", path |-> p, offset |-> i[1], bytes |-> i[2] ] :
      p \in { F, G },
      i \in { << 0, << a, a, Z >> >>, << 2, << z, 91, a, a, a, a >> >>, << INT_MAX, << a >> >>,
              << 1, [ n \in 1 .. 9 |-> z ] >> } }
  \cup { [ name |-> n, path |-> p ] : n \in { "shift", "mode" }, p \in { F, G, LongPath(17) } }
  \cup { [ name |-> "mode", path |-> LongPath(21) ] }
  \cup { [ name |-> "read", path |-> p, offset |-> r[1], num |-> r[2] ] :
           p \in { F, G }, r \in { << 0, 2 >>, << 1, 1 >>, << 1, INT_MAX >>, << INT_MAX, 0 >> } }
=============================================================================
