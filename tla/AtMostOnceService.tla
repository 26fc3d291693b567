------------------------- MODULE AtMostOnceService -------------------------
(***************************************************************************)
(* What remote invocation under at-most-once semantics promises a client,  *)
(* with neither messages nor retransmissions.  A call that is issued has   *)
(* not been executed before; it is executed at most once, possibly after   *)
(* its client has given it up; and a client that goes on after a call, and *)
(* does not leave, has had it executed.                                    *)
(***************************************************************************)
EXTENDS Naturals

CONSTANTS
  Clients,
  Ids        \* what tells the calls apart

VARIABLES
  status,    \* a client is "away", "idle", or "waiting" for an answer
  calling,   \* the call it waits for, or NoId
  times      \* how many times each call has been executed

serviceVars == <<status, calling, times>>

NoId == <<>>

Init ==
  /\ status = [ c \in Clients |-> "away" ]
  /\ calling = [ c \in Clients |-> NoId ]
  /\ times = [ id \in Ids |-> 0 ]

Join(c) ==
  /\ status[c] = "away"
  /\ status' = [ status EXCEPT ![c] = "idle" ]
  /\ UNCHANGED <<calling, times>>

Issue(c) ==
  /\ status[c] = "idle"
  /\ status' = [ status EXCEPT ![c] = "waiting" ]
  /\ \E id \in Ids : times[id] = 0 /\ calling' = [ calling EXCEPT ![c] = id ]
  /\ UNCHANGED times

Execute ==
  /\ \E id \in Ids : times[id] = 0 /\ times' = [ times EXCEPT ![id] = 1 ]
  /\ UNCHANGED <<status, calling>>

Answer(c) ==
  /\ status[c] = "waiting"
  /\ times[calling[c]] = 1
  /\ status' = [ status EXCEPT ![c] = "idle" ]
  /\ calling' = [ calling EXCEPT ![c] = NoId ]
  /\ UNCHANGED times

\* A read needs up to three calls: the client goes on to the next one.
Continue(c) ==
  /\ status[c] = "waiting"
  /\ times[calling[c]] = 1
  /\ \E id \in Ids : times[id] = 0 /\ calling' = [ calling EXCEPT ![c] = id ]
  /\ UNCHANGED <<status, times>>

\* A client may leave at any time, with or without an answer.
Leave(c) ==
  /\ status[c] # "away"
  /\ status' = [ status EXCEPT ![c] = "away" ]
  /\ calling' = [ calling EXCEPT ![c] = NoId ]
  /\ UNCHANGED times

Next ==
  \/ \E c \in Clients : Join(c) \/ Issue(c) \/ Answer(c) \/ Continue(c) \/ Leave(c)
  \/ Execute

Spec == Init /\ [][Next]_serviceVars
=============================================================================
