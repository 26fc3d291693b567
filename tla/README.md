# OrangeOtter in TLA+

OrangeOtter is a small distributed file system: one server process keeps the
files, client processes edit, read and monitor them by remote calls over UDP
(`server.cpp`, `client.cpp`, `sender.cpp`). This directory holds TLA+ models of
it, TLC configurations that check them on small instances, and proofs checked by
TLAPS.

## 1. The system and its parts

| part | state | operations | talks to |
|---|---|---|---|
| Message (`message.*`, `exception.h`) | call type, number, integer and string arguments | `setNum`, constructors | everybody |
| Sender (`sender.*`) | `messageNum`, the probability of a simulated loss | `sendMessage` (blocking, up to `NUM_TIMEOUTS` transmissions), `recvMessage`, `sendResponse` | the socket, Marshal |
| Client (`client.*`) | last message `m`, `prevPacketNumber` | `client_loop`, `processResponse`, `handleMonitor`, `checkMap` | user, Sender, Cache |
| Cache (`cache.*`, `cacheentry.*`) | copies of files, time of their validation | `updateCache`, `findOrMake`, `updateCacheTime` | Sender (`Fresh`, `Dump`), FileSystem |
| Server (`server.*`) | `messageMap`, the files | `server_loop`, `execute`, `sendList`, `checkMap`, `clearMap`, `addMap`, `getFromMap` | Sender, ClientMap, FileSystem |
| ClientMap (`clientmap.*`, `cliententry.*`) | addresses and their numbers | `findClientNum`, `getClientEntry` | called by Server |
| MonitorTable (`monitortable.*`, `monitorentry.*`) | list of entries | `insert`, `sweep`, `findRemove`, `sweepClean`, `findAll` | called by FileSystem |
| FileSystem (`filesystem.*`) | the files on disk, the monitor table | `insertFile`, `shiftFile`, `getMode`, `readFile`, `readWholeFile`, `monitorFile`, `checkFile`, `lastModification`, `findRemove` | called by Server and Cache |
| Marshal (`marshal.*`) | none | messages to bytes and back | called by Sender |

Every process is single threaded. What makes the system hard:

- **retransmission**: the same call may be queued several times, executed late,
  and answered several times; the answers arrive while later calls wait;
- **two callers**: a client calls the server, and the server calls the clients
  that monitor a file, in the middle of executing an edit;
- **one queue**: calls, responses and acknowledgements arrive at the same socket,
  and a process takes any packet for what it is expecting at the time;
- **ends and starts**: clients give up after five tries, end on unexpected
  responses, and are started again on the same port; the server ends on an
  exception that nobody catches, and loses all but the files;
- **semantics**: without `-l`, at-most-once by a map of stored responses at the
  server and by a number at the client; with `-l`, at-least-once;
- **seconds**: freshness, validations and waits are computed in whole seconds, of
  times that were taken before or after a call that may be slow;
- **lengths**: what is appended, padded, rounded or truncated on the way from a
  text to a packet, to a file, to a copy and to the screen.

What makes the parts correct: a call is executed at most once, and a user who is
told that a call succeeded knows it was executed (Sender, Server); a client that
monitors is shown the state of the file after each edit, and a client that does
not is not waited for (Server, MonitorTable, Client); every call returns or
throws, in its time (Sender); a cached copy is one of its own file and no older
than the interval promises (Cache); decoding inverts encoding, and lengths agree
(Marshal); the contents are edited as asked (FileSystem).

## 2. Modules

Three specifications, each a composition that looks at one side of the system:

**The protocol** (`Otter`): packets, retransmissions, crashes, starts.

| module | models | kind |
|---|---|---|
| `Messages` | the message record, call types and codes | constants, operators |
| `Sender` | processes, sockets, `sendMessage`, `sendResponse` | state and operators used by Client and Server |
| `MonitorTable` | `sweep`, `findRemove` | operators |
| `Client` | `client.cpp`, and the calls of `cache.cpp` | actions |
| `Server` | `server.cpp`, ClientMap, message map, editions of files | actions |
| `Otter` | the composition, its fairness and its properties | specification |
| `AtMostOnceService` | what at-most-once invocation promises | abstract specification |
| `OtterInvariants` | the inductive invariant behind at-most-once | state predicates |
| `ServiceInvariants` | the inductive invariant behind the abstract service, and when it holds | state predicates |
| `MonitoringInvariants` | the inductive invariants behind monitoring | state predicates |
| `LoopProofs` | induction for loops, also those of the contents | proofs |
| `OtterProofs`, `AtMostOnceProofs` | what the loops over the monitor table return, and types; the invariant and at-most-once | proofs |
| `ServiceProofs` | that clients, server and packets implement the abstract service | proofs |
| `MonitoringProofs` | who is in the monitor table, what was shown, whom the server gives up on | proofs |
| `MCOtter` | values of the constants for TLC | instances |

**Time** (`ClientCache`): when copies are fresh, how long calls last.

| module | models | kind |
|---|---|---|
| `TimedSender` | the waits of `sendMessage` and `input_timeout`, with a clock | state and operators used by ClientCache |
| `ClientCache` | `cache.cpp` and the read of `client.cpp`, `Fresh` and `Dump` at the server | specification |
| `CacheProofs` | how stale a read may be, how long a call lasts | proofs |

**Contents** (`RemoteFiles`): texts, files, bytes.

| module | models | kind |
|---|---|---|
| `Marshal` | `marshal.cpp` on sequences of bytes | operators |
| `FileSystem` | what `filesystem.cpp` reads and writes | operators |
| `RemoteFiles` | a client and the server with the bytes of packets and files | specification |
| `TextService` | what the server promises about texts | abstract specification |
| `RemoteFilesInvariants` | the inductive invariant: which packet is on its way | state predicates |
| `TextProofs` | what `Marshal` and `FileSystem` do to every message and every text | proofs |
| `RemoteFilesProofs` | that client, server and bytes implement `TextService` | proofs |
| `MCRemoteFiles` | files and commands for TLC | instance |

### Correspondence: the protocol

`pc[n]` tells where a process is: `"down"`, `"ready"` (main loop, or the prompt),
`"rpc"` (blocked in `sendMessage`), `"monitor"` (the loop of `handleMonitor`).
`inbox[n]` is the receive queue of its socket. `pending[n]` holds the locals of
`sendMessage`: the call, the address `sa` and the number of transmissions so far.

An action is what a process does between two places where it waits for a packet
or for its user, so a handler runs as one step: `Register` is the case `Monitor`
of `execute` with `findClientNum` before it, and `addMap` and `sendResponse`
after it. The one handler that waits in between is an edit of a monitored file:
`EditMonitored` writes the file, sweeps the table and enters the first
`sendMessage`; `NotifyNext` goes on to the next client; `NotifiedAll` stores the
response and sends it. The locals of `execute` and `sendList` that outlive these
waits are in `job`.

| action | code |
|---|---|
| `Launch`, `EnterCommand`, `Quit` | `client_loop`: the first call, a turn of the loop up to `sendMessage`, the word `q` |
| `ReceiveResponse`, `ReceiveEndResponse` | the return of `sendMessage`, `processResponse`, the end of `handleMonitor` |
| `ReadLocally` | the command `read` with a copy inside its interval |
| `AskForFile`, `AskWhetherFresh` | `read` up to the `sendMessage` of `findOrMake` or `updateCache` |
| `ReadMalformed` | a mistyped word after a read that failed: `updateCache` of element 0 of an empty vector |
| `ReceiveFile`, `ReceiveFileAndAsk`, `ReceiveUnmodified`, `ReceiveModified`, `ReceiveNoFile` | the return of that `sendMessage`: the copy is stored and read; or it is stored and validated again; it is valid; it is asked for; `noFileException` |
| `ShowUpdate`, `CrashOnMissingContent`, `SurviveMissingContent`, `IgnoreDuplicate`, `EndMonitoring` | a turn of the loop of `handleMonitor` |
| `...Discards`, `...Retransmits`, `...GivesUp` | inside `sendMessage`, for both kinds of processes |
| `AnswerDuplicate` | `server_loop`, response out of the map |
| `FailEdit`, `EditUnmonitored`, `EditMonitored`, `NotifyNext`, `NotifiedAll` | `execute`, `Insert` and `Shift`, with `sendList` |
| `Register`, `Unregister`, `GetMode`, `TellModification`, `DumpFile`, `GreetClient` | `execute`, `Monitor`, `MonitorEnd`, `Mode`, `Fresh`, `Dump`, `Start` |
| `ServeLateAcknowledgement` | `execute` of a call type without a case |
| `ServeMalformed` | `execute` of a call whose vectors are empty |
| `Restart` | `main` of the next server process |

### Correspondence: time

`deadline` is when the `select` in progress times out, `tries` the loop variable of
`sendMessage`, `curTime` the local of `updateCache`, `lastValidation` the time in
the `CacheEntry`, `copy.written` the modification time of the local file. The
client's actions have the names they have in `Client`, with the times that decide
between them; `Serve` is a turn of `server_loop` for a `Fresh` or a `Dump`,
`EditFile` an edit by another client, `TimePasses` half a second.

### Correspondence: contents

`packet` is the datagram on its way, `serverFiles` and `clientFiles` are the two
directories. `Enter` is a turn of `client_loop` up to `sendMessage`;
`ServeInsert`, `ServeShift`, `ServeMode` and `ServeDump` are `unmarshalMessage`,
`execute`, `sendList` and `sendResponse`; `ReceiveResponse` is `processResponse`
and `ReceiveFile` the rest of `updateCache` and the read of the copy. The operators
of `FileSystem` and `Marshal` have the names of the functions they model.

### Abstractions

- **Contents.** In `Otter` and `ClientCache` a file is its edition, one more after
  each edit. A path is an element of `Files`; the character `getMode` returns is
  told by the edition, and so is the time of a modification. `RemoteFiles` has the
  texts.
- **Time.** In `Otter` a retransmission or the end of the tries can happen whenever
  nothing is queued, the end of a monitoring at any time; whether a copy is inside
  its interval, and whether an edit in the second of its writing is noticed, is
  open. The code waits ten seconds for each try, and a wait begins again after an
  improper packet; which of two processes runs out of tries first depends on when
  they started, on `-w` and on rounding. The model allows every order of them. In
  the runs two tries stand for five (`NUM_TIMEOUTS = 2`), the least number with a
  retransmission.
- **Clock.** `TimedSender` counts half seconds: the code reads and waits whole
  seconds, so one point inside a second tells all roundings apart. Server and
  client are on one host and read one clock. A process that has a packet, or whose
  time is up, acts at once; the server takes as long as it likes (`-w`).
- **One file in `ClientCache`.** Entries of two paths share nothing but the packets,
  which `Otter` has with several files. Clients that run under `-l` make the
  server execute `Fresh` and `Dump` again; only `Otter` has this.
- **One packet in `RemoteFiles`.** No packet is lost or doubled there, since
  retransmissions carry the same bytes. `MaxDatagram = 48` stands for the 64 KiB of
  a datagram. Other clients that monitor a file are told as `Watched`, and answer.
- **Network.** The server binds 127.0.0.1, so packets stay on the loopback
  device: they are neither reordered nor duplicated, and are lost only when
  `toDrop` says so in a process started with `-d`, or when the destination port is
  not open. A queue does not overflow.
- **Undefined behaviour.** Element 0 of an empty vector is a read through a null
  pointer: the process ends. `strArgs[1]` of a vector of one string reads other
  heap memory: the client ends or goes on. The call type of the response to a
  late acknowledgement is an uninitialised variable: any value. A byte above 127
  indexes in front of the array of `getMode`: any character of the text, or the
  server ends. `offset + num` of `readFile` may overflow: it wraps, or is above every
  size, which comes to the same.
- **Byte order.** `htonl` followed by shifts puts an int in the byte order of the
  host, and `charToInt` undoes it; `LittleEndian` is a constant.
- **Addresses.** A client's `servaddr` is overwritten by `recvfrom` too; only the
  server sends to clients, so it stays the server.
- **History.** `run`, `runs`, `executed`, `reexecuted`, `shown` and `drops` in the
  protocol, `since`, `improper`, `validated`, `shown` and `losses` in the cache, and
  `executed`, `shown` and `update` in the contents are read by no guard except the
  bounds.

## 3. Properties and runs

Protocol. `TypeOK` is the type invariant. `AtMostOnce`: no server run executes a
call twice; `AtMostOnceInv` is the inductive invariant behind it.
`ImplementsAtMostOnce`: clients, server and packets together implement
`AtMostOnceService`, in which a call is issued, is executed at most once and is
answered only after it was executed; `ServiceInv` is the inductive invariant behind
it, on top of the other two. `AnswerImpliesExecuted` is the last of these promises
alone, for systems in which it fails. `MonitorsUpToDate`: when the server is
between two calls, every client that monitors has been shown the present state.
`UpdatesReachAll` is weaker: it has been shown that state or still has an update
with it in its queue, for otherwise nothing shows it before the next edit.
`IdleNotRegistered`: no client at the prompt is registered. `CopiesOfOwnFile`: a
copy is a state its own file had. `GivesUpOnlyIfUnheard`: if the server gives up on
a client that is monitoring, acknowledgements were lost or there is still a packet
for it to take. `MonitoringInv` and `HeardInv` are the inductive invariants behind
these (section 4). `ClientCallReturns` and `ServerCallReturns` are the liveness of
`sendMessage`.

Time. `ReadsFresh`: what a read shows was superseded, if at all, no longer ago than
the interval and the time between the execution of the validating call and the
arrival of its answer. Exempt are the edits that no validation can notice
(`Overlooked`): those made after the server served a copy and before the end of the
second in which the client wrote it, since the code compares the time of the local
file with that of the server's in whole seconds. `ValidatedByThisCall`: the answer
that validates a copy was executed after the validating call was made, and that
call has lasted no longer than its transmissions and improper packets allow; with
`ReadsFresh` this bounds how stale a read is. `GivesUpInTime`: a call is given up
only after all its waits, and late by less than a second for each improper packet:
by half a second in the model, whose clock counts half seconds.
`FreshnessInv` is the inductive invariant.

Contents. `PacketsExact`: a packet is as long as its first four bytes tell and is
unpacked to its last byte. `UnansweredOnlyIfTooLong`: a client is left without an
answer only by a call or a text that is too long for its packet, or by a server that
has ended, on an update that is too long or on a byte above 127; `ContentsInv` is the
inductive invariant behind these and the next one. `ImplementsTextService`: what is
executed, shown and copied is what `TextService` does to texts without bytes, packets
and 32-bit ints. Its one concession is `Kept`: `readWholeFile` drops the last newline
of a file and nothing puts it back, so each edit and each copy may shorten a text by
one newline at its end.

| run | instance | checks | distinct states |
|---|---|---|---|
| `Service` | 2 clients, one uses all commands, 3 numbers each, 1 loss, interval 0 | `ServiceInv`, `ImplementsAtMostOnce` | 621 000 |
| `Restarts` | 1 client with 4 runs, all commands but `shift`, 2 numbers each, 2 server runs, 1 loss | `TypeOK`, `AtMostOnceInv` | 1 698 000 |
| `Updates` | 2 clients and 2 files, one monitors and reads, 4 numbers each | `MonitoringInv`, `HeardInv`, `MonitorsUpToDate`, `IdleNotRegistered`, `AtMostOnce`, `CopiesOfOwnFile`, `GivesUpOnlyIfUnheard` | 1 030 000 |
| `UpdatesAtLeastOnce` | 2 clients, one monitors up to twice, 4 numbers, all with `-l` | `MonitorsUpToDate` | 2 607 000 |
| `CallsReturn` | 2 clients, one shifts, one uses all commands, 2 numbers each, 1 loss, fairness | `ClientCallReturns`, `ServerCallReturns` | 49 000 |
| `CachedReads` | 3 reads, 2 edits, intervals 0 and 1, waits of 1 second, 2 tries, 1 loss, 4 seconds | `ReadsFresh`, `FreshnessInv`, `ValidatedByThisCall`, `GivesUpInTime` | 6 000 000 |
| `Texts` | 3 commands out of 23 on one of 9 file systems | `ContentsInv`, `PacketsExact`, `UnansweredOnlyIfTooLong`, `ImplementsTextService` | 34 000 |

The bounds are chosen so that the cases in question occur. In the protocol: two
clients are the fewest with an editor and a monitor; three numbers are `Start`, a
command and the command after it, the fewest for an answer to arrive too late, and
the fourth one is for an edit after a monitoring; a read makes up to two more calls
than its first, which the bound does not stop. Two files are the fewest to mix up; elsewhere
one file is enough, because calls to different files meet in the maps and queues
all the same. Files are symmetric in `Updates`: nothing orders them, none exists at
first, and the commands do not tell them apart. One loss makes one retransmission
necessary, and more copies come from early timeouts, which cost nothing. In
`Restarts` the four runs of a client are the fewest in which one that monitors takes
the answer to an old `Mode` or `Dump` for an update (`SurviveMissingContent`); two
numbers, `Start` and one command, are enough there, as the old runs supply the calls
that come in between. The offset 2147483647 in `Restarts` makes insertions and reads
fail. `shift`, to the protocol another edit, is typed in `CallsReturn` only.

In `CachedReads` the interval 0 validates at once and 1 leaves reads to the copy;
three reads are a fetch, a read in the interval and a validation after it; two
edits are the one that makes a copy outdated and one that makes it outdated again,
or a file where there was none; four seconds are two calls of two tries each.
In `Texts` a datagram of 48 bytes holds an insert of 8 characters, not of 9,
and 20 characters of a file; files of 14 characters reach both limits by inserts; a
path of 17 characters fits into a `mode` and not into a `shift`, one of 21 into no call.
The files have no newline, one and two at the end, a byte above 127 and the letters
and signs at the ends of the alphabets; three commands are an edit, a read and what
follows on the copy. All runs switch deadlock checking off: users stop typing,
processes end and the clock stops.

Runs that end in a counterexample, each for a statement of the sources:

| run | shows |
|---|---|
| `Misaddressed` | with two monitoring clients and one loss, an update for one of them is lost and retransmitted to the other, which sent the last improper packet and whose acknowledgement ends the call: the edit is answered, and no update is left for the first client (`UpdatesReachAll`) |
| `DuplicateMonitor` | under `-l`, a `Monitor` executed twice leaves an entry that `findRemove` passes over |
| `LostAcknowledgement` | one lost acknowledgement of an update ends the server |
| `LateAcknowledgement` | a late acknowledgement is stored in the message map and hides a call |
| `ReusedNumbers` | a client that gave up on a slow server and is started again takes the answer to its former run's `Dump` of one file for the content of another, and keeps it as its copy |

More behaviours of the code are in the model without a run of their own:

- a client that sends `MonitorEnd` while the server sends it an update is not
  acknowledged although nothing is lost: each of the two discards the other's
  call as improper until one runs out of tries (`ClientDiscards`,
  `ServerDiscards`);
- the second response to a repeated `Monitor` call is taken for an update, and its
  missing strings end the client (`CrashOnMissingContent`);
- the server ends on a client that stays silent, with an edit that is done and
  neither answered nor shown to the other clients (`ServerGivesUp`), and on a
  mistyped word after a command, which sends the last message again without its
  arguments (`ServeMalformed`);
- a mistyped word after a read works on the response to it: after a failed read the
  client ends (`ReadMalformed`), after a good one it asks the server for a file
  whose path is the text just read (`CopyOf`, `FileMissing`);
- a client's own edit leaves its copy alone, so that its next read may show the text
  before it until the interval is over (`ReadLocally` after `EditFile`);
- an insert that makes a monitored file too long for an update is carried out and
  then ends the server (`Crash` in `Edit`).

So `AtMostOnce` holds wherever clients and servers start again, but
`ImplementsAtMostOnce` and `CopiesOfOwnFile` are checked for one run of each client
and for clients without `-l` only, and `MonitorsUpToDate` for one monitoring client
only: `ReusedNumbers`, `LateAcknowledgement` and `Misaddressed` are what happens
otherwise. `Misaddressed` needs all three clients, one to edit and two to monitor,
and the loss: without it the first copy of the update is in the queue of the right
client, which is late then, not left out.

### Fairness

`Fairness` asks of every client that it does what it can by itself, and the same
of the server: the operating system schedules a running process, and every wait of
the code inside a call is a `select` with a timeout. Users and starts of
processes are not fair. Every call has finitely many tries, and each improper
packet that prolongs a wait was sent by somebody. The other two specifications state
safety only: that a wait ends in time is there a bound (`GivesUpInTime`).

## 4. Proofs

The theorems hold for all values of the constants under the named assumptions of
the modules, which only say what kind of value a constant is, that the server is no
client, and that a wait and the number of tries are not 0. For the contents they say
what the code ensures of its inputs: `client_loop` asks again for a negative number, so
offsets and counts are of 31 bits; paths, texts and files are bytes; and a packet can
hold a response without a text (`BoundsAssumption`, 36 bytes, where UDP allows 65507).

**Protocol**, for any set of clients and files, any commands, any number of losses,
tries, calls and starts.

- `TypeInvariant` (`OtterProofs`): `Spec => []TypeOK`. Its part `OnlyCacheAsks` (a
  `Fresh` or a `Dump` that is waited for was made by the cache, with a path) is what
  types the copies; its part `MonitorsTypeOK`, the entries of the monitor table and
  of `job.todo`, rests on the two theorems on `sweep` and `findRemove`.
- `InvariantHolds` (`AtMostOnceProofs`): `Spec => []AtMostOnceInv`.
- `AtMostOnceHolds`: `Spec => []AtMostOnce`.
- `SweepFinds` (`OtterProofs`): `sweep` returns entries of the table that are for the
  path, and overlooks none.
- `FindRemoveDrops` (`OtterProofs`): `findRemove` keeps every entry of the other
  clients, and drops all those of the client if no two of them are neighbours. The
  hypothesis is what `DuplicateMonitor` breaks.

The loops over the table are recursive functions on the number of turns made. TLA+
takes such a definition for a `CHOOSE`, so that its equation may be used only once a
function that satisfies it is known to exist: `LoopExists` shows it for every loop
with finitely many turns, and `Counting` is the induction over the turns. Both come
from the well-foundedness of the natural numbers, stated with sets instead of
operators.

`AtMostOnce` is not inductive: nothing in it says why a retransmitted call finds
its response in the message map. The argument goes over the order of the calls of
one client, by its run and its number (`Before`, `NotAfter`):

1. a client that waits has made no call after the one it waits for
   (`PendingIsLast`), every queued call was made (`QueuedWasMade`), and the queue
   holds a client's calls in the order they were made in (`QueuedInOrder`),
   because a client repeats only its last call;
2. no queued call is older than an executed one (`ExecutedWasMade`), because the
   server takes its packets in order;
3. each execution of the present server run has its response in the map
   (`IsStored`), or is the one whose updates are going out (`IsUnderWay`), or all
   copies of it are gone for ever (`IsOver`); the last case is what happens when a
   `Start` of the next run clears the map (`ResponsesKept`).

Then a call that is executed is not a duplicate, so its response is not stored; the
server is in its main loop, so it is not under way; and it is at the head of the
queue, so it is not over. `ClientMoves` reduces the 22 steps of a client to three
kinds of changes of the queue and of the pending call, and `ServerMovesInv` says
what survives when the server takes packets from the queue.

**Service** (`ServiceProofs`), for any set of clients and files, any commands, any
number of losses, tries and calls, under `ServiceConditions`: every process is
started once, nobody uses `-l`, and one client at most has users that monitor. The
conditions are those under which the program keeps its promise: started again, a
client takes an answer to its former run for its own (`ReusedNumbers`), and a server
executes what the last one had executed; under `-l` acknowledgements come
after the server has gone on and are taken for calls (`LateAcknowledgement`), and so
they do with a second monitoring client, whose acknowledgement of a misdirected copy
may end the call before the first copy is taken (`Misaddressed` shows the misdirection).

- `ServiceInvariantHolds`: `Spec => []ServiceInv`.
- `CopiesHold`: `Spec => []CopiesOfOwnFile`.
- `AnswerImpliesExecutedHolds`: `Spec => AnswerImpliesExecuted`.
- `ServiceImplemented`: `Spec => ImplementsAtMostOnce`, the refinement.

A client knows an answer by its number and its call type alone, so what has to be
shown is that nothing with this number and type can be about another call. The
invariant follows the numbers through the system:

1. the responses in a client's queue are in the order of its calls, none of them
   after a call that is still in the server's queue or being executed
   (`ResponsesInOrder`). Responses are produced in the order the calls are taken, and
   calls are taken in order by `AtMostOnceInv`;
2. so when a client has its answer, what is left of its packets anywhere has the
   number of that last call (`NothingOlder`), and when it makes the next call, all of
   it is older than the new number;
3. what has the number of the call that waits is a copy of it or an answer to it
   (`LastCall`), and every stored or queued response belongs to a call that was
   executed (`ResponsesExecuted`); a `Dump` is answered with a state of the file whose
   path was sent (`Answers`), which is `CopiesOfOwnFile`;
4. acknowledgements share the server's queue with the calls. The client that monitors
   acknowledges an update once, and when it has done so the server is still waiting
   for it (`AcksInTime`), or has ended: the server is at most one update ahead of
   `prevPacketNumber`. So no acknowledgement is taken for a call
   (`ServeLateAcknowledgement` never happens), and nothing is stored under a number of
   the server's own.

The steps are not examined one by one against each of these. `ClientKinds` reduces
those of a client to six kinds (it leaves, returns from a call, takes an update, reads
its copy, makes a call, waits on), and `ServerKinds` those of the server to three (it
replies, sends an update, or drops packets); the parts of the invariant are proved for
the kinds. `NextRefines` then maps each step: `Launch` to a stutter, the answer to
`Start` to `Join`, making a call to `Issue` or `Continue`, the other answers to
`Answer`, an end to `Leave`, and what the server executes to `Execute`. `TimesMapped`
needs the cardinalities of the library: how often a call was executed is the size of
a set.

**Monitoring** (`MonitoringProofs`), under `ServiceConditions`, so with one client at
most that monitors, any number of others that edit the files it watches, and any
number of losses unless stated otherwise.

- `MonitoringInvariantHolds`: `Spec => []MonitoringInv`.
- `IdleNotRegisteredHolds`, `MonitorsUpToDateHolds`: the two properties, from it.
- `HeardInvariantHolds`: `Spec => []HeardInv`, when no process runs with `-d`.
- `GivesUpOnlyIfUnheardHolds`: `Spec => GivesUpOnlyIfUnheard`, when no process runs with
  `-d`.

The two state properties compare the client with the server's table, files and numbers,
which change at different times; what ties them together is in the packets. The
invariant says:

1. a call that the server still has to execute is the one its client waits for
   (`OthersExecuted`); all other copies are of calls that were executed and are
   answered from the map. So the table follows the client: one entry from the execution
   of its `Monitor` to that of its `MonitorEnd`, none otherwise (`TableFollows`), and
   that entry has the client's number, which no other address has (`NumbersUnique`).
   With one entry at most, no two are neighbours, as `FindRemoveDrops` asks;
2. while updates go out, the last update carries the file as it is, wherever it is
   queued, and whoever has taken its number has shown it (`UpdateTrue`); the server
   leaves its call only with an acknowledgement of that number, by `AcksInTime`. So a
   registered file has been shown as it is, or has not changed since (`EntriesShown`).

When nothing is lost, `HeardInv` adds that the response to a `Monitor` is in the queue
of its client once the call was executed (`MonitorHeard`), and that an update is queued
behind it until its acknowledgement is in the server's queue (`UpdateHeard`). The
server runs out of tries only while its queue is empty, so there is no acknowledgement
in it, and a client in its monitoring loop has the update still before it. Without
that hypothesis the run `LostAcknowledgement` is what happens. `ClientStepFlow` and
`ClientStepHeard` say of all steps of a client what these invariants need to know
of them; `ClientKinds` and `ServerKinds` are used again for the rest.

**Time**, for any interval, wait, number of tries, losses, reads and edits.

- `FreshnessInvariant` (`CacheProofs`): `Spec => []FreshnessInv`.
- `ReadsAreFresh`, `ValidatedByThisCallHolds`, `GivesUpInTimeHolds`: the three
  properties, from the invariant.

`ReadsFresh` speaks of what was shown; why it holds is in what is stored and queued.
The invariant says that the editions were written in order (`EditsOrdered`), that
every response, queued or stored, tells the state of the file at the moment it was
served, and the one with the number of the waiting call was served after the call
was made (`ResponsesTrue`), that the copy was the file when it was served
(`CopyWasFile`), and that an edit that made the copy outdated came after the
validation of its entry or is one of the overlooked (`EntryValid`). A validation
compares whole seconds: if the server's file is not newer than the copy, then the
edit is not newer than the second in which the copy was written (`SecondsOrdered`).
An interval of `t` seconds, compared in whole seconds, is over after less than `t`
seconds and a half (`SecondsApart`). `WaitBounded` gives the durations: each
improper packet adds at most one tick of the clock, half a second, to a deadline.

**Contents**, first the operators the model is built from (`TextProofs`).

- `MessageRoundTrip`: `unmarshalMessage` returns every message that `marshalMessage` has
  packed, if its size is less than 2^32: all fields, and vectors of any number of ints and
  strings, in both byte orders. The first four bytes tell how many there are, and all
  of them are read. `StringRoundTrip` says it of one string, whatever follows it in the
  buffer.
- `ModeIsMostCommon`: every character that `getMode` returns for a text of ASCII
  characters is one that none is more common than, or 0 for the empty text.
- `ReadBoundsExact`: `readFile` throws `fileBoundException` exactly if the characters
  asked for are not all in the text, although their sum may overflow.
- `ShiftUndone`: a shift is undone by one in the other direction.

Then what client and server make of them (`RemoteFilesProofs`), for any commands, any
files, any limit on the length of a packet and any number of calls.

- `ContentsInvHolds`: `Spec => []ContentsInv`.
- `PacketsExactHolds`, `UnansweredOnlyIfTooLongHolds`: the two properties, from it.
- `RefinesTextService`: `Spec => ImplementsTextService`, the refinement.

The packing functions are loops over vectors, so a packed vector is a concatenation
of as many pieces as there are elements. `FlattenUnfolds` and `StringsLengthUnfolds`
turn these into sequences of partial results by `LoopExists`; `PieceFound` then says
where the piece of one element stands in the whole buffer, so that reading it there
returns that element (`StringsRoundTrip`, `IntsRoundTrip`). `SixPieces` does
the same for the six parts of a message: the packing functions append, and the unpacking
functions read from a position to the end of the buffer.

None of the properties is inductive. Whether the server executes what the user meant
depends on what is in the packet, which is read only when it arrives, so `ContentsInv`
says of every packet on its way what it is: the call of the command, byte for byte,
until it is executed (`Calling`), and then a response with the number and the type of
that call, in one of the forms that its command allows (`Answering`); and when there is
none, what was too long or has ended the server (`Missing`, `ServerEnded`). `SentArrives`,
from `MessageRoundTrip`, gives `OnItsWay`: what is received is what was sent.

The refinement then goes from the bytes to the texts. `InsertedFile`, `ShiftedFile`,
`ModeOfFile` and `ReadPart` compare the operators of `FileSystem`, with their 32-bit
comparisons, with those of `TextService`; `TextsWritten` says that a written file
changes the texts at its own path only, but for the newline in `Kept`. Each of the
four cases of `execute` maps to the action of the same command, whose answer is
`Lost` if the response does not fit or the server ends (`AnsweredMaps`, `TellMaps`,
`EditMaps`); both kinds of answers that are received map to `Return`.

Model-checked only: liveness (temporal proofs under fairness are out of the prover's
reach); `MonitorsUpToDate` under `-l` (`UpdatesAtLeastOnce`), where a client may be
registered twice and most of `ServiceInv` fails; and the runs that end in a
counterexample, which show that conditions of the theorems cannot be dropped.

## 5. Not modelled, and what could follow

- `sweepClean` and `findAll` of `MonitorTable`, and the case `Read` of `execute`: the
  program never calls them, since clients read through their caches.
- What a prompt does when its input ends (`cin` fails and the loop repeats the last
  word), `print` functions, reading of options, the build, `testfile.txt`.
- The duration of a monitoring in `handleMonitor` is computed as in `sendMessage`,
  with the rest rounded up; here it may end at any time.
- Paths are relative: a client started in the server's directory overwrites the
  server's file with its copy. The models give each process a directory of its own.
- Calls across two server runs: a call that was executed just before the end of a
  server is executed again by the next one, and a client that monitors on takes the
  next server's updates for duplicates. Both are behaviours of `Restarts`; the
  sources promise nothing about them.

What could follow: `MonitorsUpToDate` under `-l`, with a monitor table that has several
entries for one client; a condition on starts weaker than `ServiceConditions`, under
which a server that is started again still keeps its promise to clients that were
waiting for nothing.
