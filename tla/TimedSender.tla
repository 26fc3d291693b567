----------------------------- MODULE TimedSender -----------------------------
(***************************************************************************)
(* How long sendMessage (sender.cpp) waits: one client with one clock.     *)
(*                                                                         *)
(* Module Sender leaves time open.  Here it is counted in half seconds,    *)
(* two of them to each second of time(0), because the code compares and    *)
(* waits in whole seconds and what it gets wrong happens between two of    *)
(* them.  The server binds 127.0.0.1, so client and server read the same   *)
(* clock.  A process that has a packet to take, or whose time is up, does  *)
(* so at once; how long the server takes for a call is left open.          *)
(***************************************************************************)
EXTENDS Integers, Sequences

CONSTANTS
  TIMEOUT_DURATION,  \* seconds that sendMessage waits after each transmission
  NUM_TIMEOUTS,      \* how often it transmits before it gives up
  MaxLosses,         \* bound: how many packets are lost in a behaviour
  Horizon            \* bound: when the clock stops

ASSUME TimedSenderAssumption ==
  /\ TIMEOUT_DURATION \in Nat \ {0}
  /\ NUM_TIMEOUTS \in Nat \ {0}
  /\ MaxLosses \in Nat
  /\ Horizon \in Nat

VARIABLES
  now,         \* the clock, in half seconds
  call,        \* the number and the type of the call the client waits for
  messageNum,  \* Sender::messageNum
  tries,       \* how often the call has been transmitted
  deadline,    \* when the select in progress times out
  since,       \* history: when the call was made
  improper,    \* history: how many improper packets it has received
  requests,    \* the queue of the server: numbers and types of calls
  socket,      \* the queue of the client: responses
  losses       \* history: how many packets were lost

senderVars == <<now, call, messageNum, tries, deadline, since, improper, requests, socket, losses>>

\* Where a client is that is not in a call: at the prompt, or ended.
Prompt == [ num |-> -1, type |-> "Prompt" ]
Ended == [ num |-> -1, type |-> "Ended" ]

Waits == call # Prompt /\ call # Ended

\* time(0), and the tv_sec of a file's modification.
Seconds(ticks) == ticks \div 2

\* Mutant of RemainingSeconds: the fraction of a second is dropped.
RemainingTruncated(ticks) == ticks \div 2

\* Mutant of RemainingSeconds: a second is added to a whole number of them too.
RemainingOneMore(ticks) == ticks \div 2 + 1

\* input_timeout: what select has left of the wait, in seconds.  A fraction
\* counts as a whole one.
RemainingSeconds(ticks) == (ticks + 1) \div 2

\* A packet is queued, or it is lost.
SendOrLose(queue, packet, queued) ==
  \/ queued = Append(queue, packet) /\ UNCHANGED losses
  \/ losses < MaxLosses /\ losses' = losses + 1 /\ queued = queue

\* The select after a transmission.
WaitAgain == deadline' = now + 2 * TIMEOUT_DURATION

\* sendMessage up to its first wait, by a client whose queue is then "left".
SendMessage(type, left) ==
  LET request == [ num |-> messageNum, type |-> type ] IN
  /\ call' = request
  /\ messageNum' = messageNum + 1
  /\ tries' = 1
  /\ since' = now
  /\ improper' = 0
  /\ WaitAgain
  /\ socket' = left
  /\ SendOrLose(requests, request, requests')

\* Mutant of IsAnswer: the number is not compared.
IsAnswerByType(packet) == packet.type = call.type

IsAnswer(packet) == packet.num = call.num /\ packet.type = call.type

Answered ==
  /\ Waits
  /\ socket # <<>>
  /\ IsAnswer(Head(socket))

\* sendMessage returns, its locals are gone, and no other call is made.
Return(left) ==
  /\ call' = Prompt
  /\ socket' = left
  /\ tries' = 0 /\ deadline' = 0 /\ since' = 0 /\ improper' = 0
  /\ UNCHANGED <<messageNum, requests, losses>>

\* "IMPROPER PACKET": the next select waits for the rest, in seconds.
DiscardImproper ==
  /\ Waits
  /\ socket # <<>>
  /\ ~Answered
  /\ socket' = Tail(socket)
  /\ improper' = improper + 1
  /\ deadline' = now + 2 * RemainingSeconds(deadline - now)
  /\ UNCHANGED <<now, call, messageNum, tries, since, requests, losses>>

TimeIsUp == Waits /\ socket = <<>> /\ now = deadline

Retransmit ==
  /\ TimeIsUp
  /\ tries < NUM_TIMEOUTS
  /\ tries' = tries + 1
  /\ WaitAgain
  /\ SendOrLose(requests, call, requests')
  /\ UNCHANGED <<now, call, messageNum, since, improper, socket>>

\* timeoutException: the client ends.
GiveUp ==
  /\ TimeIsUp
  /\ tries = NUM_TIMEOUTS
  /\ call' = Ended
  /\ socket' = <<>>
  /\ UNCHANGED <<now, messageNum, tries, deadline, since, improper, requests, losses>>

\* Half a second passes in which the client has nothing to do.
Tick ==
  /\ now < Horizon
  /\ Waits => socket = <<>> /\ now < deadline
  /\ now' = now + 1
  /\ UNCHANGED <<call, messageNum, tries, deadline, since, improper, requests, socket, losses>>

SenderInit ==
  /\ now = 0
  /\ call = Prompt
  /\ messageNum = 0
  /\ tries = 0
  /\ deadline = 0
  /\ since = 0
  /\ improper = 0
  /\ requests = <<>>
  /\ socket = <<>>
  /\ losses = 0

-----------------------------------------------------------------------------
(* How long a wait lasts.                                                   *)

\* The first n calls.
Requests(n) == [ num : 0 .. n - 1, type : {"Fresh", "Dump"} ]

\* Every variable of the sender has its type, and the call a client waits for
\* is the last one it made.
SenderTypeOK ==
  /\ now \in Nat /\ deadline \in Nat /\ since \in Nat
  /\ messageNum \in Nat
  /\ tries \in 0 .. NUM_TIMEOUTS
  /\ improper \in Nat
  /\ call \in Requests(messageNum) \cup {Prompt, Ended}
  /\ Waits => call.num = messageNum - 1
  /\ requests \in Seq(Requests(messageNum))

\* The select in progress ends when the transmissions have had their time, and
\* later by half a second for each improper packet, at most.
WaitBounded ==
  Waits =>
    /\ since <= now /\ now <= deadline
    /\ since + 2 * TIMEOUT_DURATION * tries <= deadline
    /\ deadline <= since + 2 * TIMEOUT_DURATION * tries + improper
=============================================================================
