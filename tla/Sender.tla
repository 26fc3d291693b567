------------------------------- MODULE Sender -------------------------------
(***************************************************************************)
(* The processes, their sockets and the class Sender (sender.cpp) through  *)
(* which both the server and the clients exchange messages.                *)
(*                                                                         *)
(* Every process is single threaded.  It either runs its main loop, or is  *)
(* inside sendMessage, the blocking call that transmits a message up to    *)
(* NUM_TIMEOUTS times and returns the first packet that looks like its     *)
(* answer, or (a client) inside the loop of handleMonitor.                 *)
(*                                                                         *)
(* The server binds 127.0.0.1, so every packet travels over the loopback   *)
(* device: sendto appends to the receive queue of the destination socket,  *)
(* and no packet is reordered or duplicated there.  A packet is lost when  *)
(* toDrop says so in a process started with -d, or when nobody has the     *)
(* destination port open.                                                  *)
(***************************************************************************)
EXTENDS Messages

CONSTANTS
  Clients,       \* the client processes, each with its own port
  Srv,           \* the server process
  Dropping,      \* the processes started with -d, whose packets may be lost
  MaxDrops,      \* bound: how many packets are lost in a behaviour
  NUM_TIMEOUTS   \* how often sendMessage transmits before it gives up

Nodes == Clients \cup {Srv}

ASSUME SenderAssumption ==
  /\ Srv \notin Clients
  /\ Dropping \subseteq Nodes
  /\ MaxDrops \in Nat
  /\ NUM_TIMEOUTS \in Nat \ {0}

VARIABLES
  pc,          \* where each process is: "down", "ready", "rpc" or "monitor"
  inbox,       \* the receive queue of its socket
  messageNum,  \* Sender::messageNum, the number of the next call
  pending,     \* the call sendMessage is blocked on, its address, its tries
  runs,        \* history: how many times the process has been started
  drops        \* history: how many packets were lost

senderVars == <<pc, inbox, messageNum, pending, runs, drops>>

Packets == [ from : Nodes, msg : Messages ]

NoCall == [ call |-> Message("Start", <<>>, <<>>), sa |-> Srv, tries |-> 0 ]

\* What the queues are once the receiver has taken the packet at the head.
Consumed(n) == [ inbox EXCEPT ![n] = Tail(@) ]
Arrived(n) == inbox[n] # <<>>
Packet(n) == Head(inbox[n])

\* sendto: nothing happens to a packet for a port that is not open.
Delivered(queues, from, to, msg) ==
  IF pc[to] = "down"
  THEN queues
  ELSE [ queues EXCEPT ![to] = Append(@, [ from |-> from, msg |-> msg ]) ]

\* toDrop: a sender that was given a probability may simulate a loss.
ToDrop(from) == from \in Dropping /\ drops < MaxDrops

\* The send of a message, by sendMessage or by sendResponse.
Transmit(queues, from, to, msg) ==
  \/ /\ inbox' = Delivered(queues, from, to, msg)
     /\ UNCHANGED drops
  \/ /\ ToDrop(from)
     /\ inbox' = queues
     /\ drops' = drops + 1

\* sendMessage up to its first wait: number the call and transmit it.
SendMessage(queues, n, to, msg, num, run) ==
  LET call == Numbered(msg, num, run) IN
  /\ messageNum' = [ messageNum EXCEPT ![n] = num + 1 ]
  /\ pending' = [ pending EXCEPT ![n] = [ call |-> call, sa |-> to, tries |-> 1 ] ]
  /\ pc' = [ pc EXCEPT ![n] = "rpc" ]
  /\ Transmit(queues, n, to, call)

\* sendResponse: the response takes the number of the call it answers.
SendResponse(queues, n, to, call, resp) ==
  Transmit(queues, n, to, Numbered(resp, call.num, call.run))

\* Mutant of IsAnswer: the number is not compared.
IsAnswerByType(call, msg) == call.callType = msg.callType

\* The test by which sendMessage recognises the answer to its call.
IsAnswer(call, msg) == call.num = msg.num /\ call.callType = msg.callType

Answered(n) ==
  /\ pc[n] = "rpc"
  /\ Arrived(n)
  /\ IsAnswer(pending[n].call, Packet(n).msg)

\* "IMPROPER PACKET": the packet is dropped, but recvfrom has already stored
\* its source in *sa, the address of the transmissions that follow.
DiscardImproper(n) ==
  /\ pc[n] = "rpc"
  /\ Arrived(n)
  /\ ~IsAnswer(pending[n].call, Packet(n).msg)
  /\ inbox' = Consumed(n)
  /\ pending' = [ pending EXCEPT ![n].sa = Packet(n).from ]
  /\ UNCHANGED <<pc, messageNum, runs, drops>>

\* select reports a queued packet before it reports that the time is up.
TimedOut(n) == pc[n] = "rpc" /\ ~Arrived(n)

Retransmit(n) ==
  /\ TimedOut(n)
  /\ pending[n].tries < NUM_TIMEOUTS
  /\ pending' = [ pending EXCEPT ![n].tries = @ + 1 ]
  /\ Transmit(inbox, n, pending[n].sa, pending[n].call)
  /\ UNCHANGED <<pc, messageNum, runs>>

\* The end of a process; its socket is closed and what it held is gone.
Exit(n) ==
  /\ pc' = [ pc EXCEPT ![n] = "down" ]
  /\ inbox' = [ inbox EXCEPT ![n] = <<>> ]
  /\ pending' = [ pending EXCEPT ![n] = NoCall ]
  /\ UNCHANGED <<messageNum, runs, drops>>

\* Mutant of OutOfTries: the loop over the tries is left one too late.
OutOfTriesTooLate(n) == TimedOut(n) /\ pending[n].tries > NUM_TIMEOUTS

\* timeoutException, which ends a client in main and is caught nowhere in
\* the server.
OutOfTries(n) ==
  /\ TimedOut(n)
  /\ pending[n].tries = NUM_TIMEOUTS

SenderInit ==
  /\ pc = [ n \in Nodes |-> IF n = Srv THEN "ready" ELSE "down" ]
  /\ inbox = [ n \in Nodes |-> <<>> ]
  /\ messageNum = [ n \in Nodes |-> 0 ]
  /\ pending = [ n \in Nodes |-> NoCall ]
  /\ runs = [ n \in Nodes |-> IF n = Srv THEN 1 ELSE 0 ]
  /\ drops = 0

\* Every process state, queue and call has its type.
SenderTypeOK ==
  /\ pc \in [ Nodes -> {"down", "ready", "rpc", "monitor"} ]
  /\ inbox \in [ Nodes -> Seq(Packets) ]
  /\ messageNum \in [ Nodes -> Nat ]
  /\ pending \in [ Nodes -> [ call : Messages, sa : Nodes, tries : 0 .. NUM_TIMEOUTS ] ]
  /\ runs \in [ Nodes -> Nat ]
  /\ drops \in 0 .. MaxDrops
=============================================================================
