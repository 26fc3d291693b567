----------------------------- MODULE OtterProofs -----------------------------
(***************************************************************************)
(* Theorems about Otter for any set of clients, any commands, and any      *)
(* number of losses, calls, tries and restarts.                            *)
(***************************************************************************)
EXTENDS Otter, LoopProofs, TLAPS

-----------------------------------------------------------------------------
(* What the passes over the monitor table return, for a list of any length. *)

\* An entry put at the end of a list.
LEMMA AppendToSet ==
  ASSUME NEW E, NEW list \in Seq(E), NEW e \in E
  PROVE  /\ Append(list, e) \in Seq(E)
         /\ ToSet(Append(list, e)) = ToSet(list) \cup {e}
<1>1. /\ Append(list, e) \in Seq(E) /\ Len(Append(list, e)) = Len(list) + 1
      /\ \A i \in 1 .. Len(list) : Append(list, e)[i] = list[i]
      /\ Append(list, e)[Len(list) + 1] = e
  OBVIOUS
<1>2. DOMAIN list = 1 .. Len(list) /\ DOMAIN Append(list, e) = 1 .. Len(list) + 1
      /\ Len(list) \in Nat
  BY <1>1
<1>3. 1 .. Len(list) + 1 = (1 .. Len(list)) \cup {Len(list) + 1}
  BY <1>2
<1> QED BY <1>1, <1>2, <1>3 DEF ToSet

\* sweep returns entries of the table, every one of them for the path, and
\* overlooks none.
THEOREM SweepFinds ==
  ASSUME NEW E, NEW list \in Seq(E), NEW path
  PROVE  /\ Sweep(list, path) \in Seq(E)
         /\ ToSet(Sweep(list, path)) = { e \in ToSet(list) : e.filepath = path }
<1> DEFINE Turn(vec, e) == IF e.filepath = path THEN Append(vec, e) ELSE vec
           step == [ p \in (1 .. Len(list)) \X Seq(E) |-> Turn(p[2], list[p[1]]) ]
<1>1. <<>> \in Seq(E) /\ Len(list) \in Nat
  OBVIOUS
<1>2. step \in [ (1 .. Len(list)) \X Seq(E) -> Seq(E) ]
  OBVIOUS
<1>3. PICK f \in [ 0 .. Len(list) -> Seq(E) ] : IsLoop(f, Len(list), <<>>, step)
  <2> HIDE DEF step
  <2> QED BY <1>1, <1>2, LoopExists
<1>4. ASSUME NEW i \in 0 .. Len(list)
      PROVE  f[i] = IF i = 0 THEN <<>> ELSE Turn(f[i - 1], list[i])
  <2>1. CASE i = 0
    BY <1>3, <2>1 DEF IsLoop
  <2>2. CASE i # 0
    <3>1. i \in 1 .. Len(list) /\ i - 1 \in 0 .. Len(list)
      BY <1>1, <2>2
    <3>2. step[<<i, f[i - 1]>>] = Turn(f[i - 1], list[i])
      BY <3>1
    <3>3. f[i] = step[<<i, f[i - 1]>>]
      BY <1>3, <3>1 DEF IsLoop
    <3> QED BY <2>2, <3>2, <3>3
  <2> QED BY <2>1, <2>2
<1> HIDE DEF Turn, step
<1>5. f = [ i \in 0 .. Len(list) |-> IF i = 0 THEN <<>> ELSE Turn(f[i - 1], list[i]) ]
  BY <1>4, Zenon
<1> DEFINE g == CHOOSE g : g = [ i \in 0 .. Len(list) |->
                                   IF i = 0 THEN <<>> ELSE Turn(g[i - 1], list[i]) ]
<1>6. g = [ i \in 0 .. Len(list) |-> IF i = 0 THEN <<>> ELSE Turn(g[i - 1], list[i]) ]
  BY <1>5, Zenon
<1>7. Sweep(list, path) = g[Len(list)]
  BY Zenon DEF Sweep, Pass, Turn
<1> HIDE DEF g
<1>8. \A i \in 0 .. Len(list) : g[i] = IF i = 0 THEN <<>> ELSE Turn(g[i - 1], list[i])
  BY <1>6, Zenon
<1> DEFINE Found(i) == { list[j] : j \in { k \in 1 .. i : list[k].filepath = path } }
           Right == { i \in 0 .. Len(list) : g[i] \in Seq(E) /\ ToSet(g[i]) = Found(i) }
<1>9. 0 \in Right
  <2>1. g[0] = <<>>
    BY <1>1, <1>8
  <2>2. ToSet(<<>>) = {} /\ Found(0) = {}
    BY DEF ToSet
  <2>3. 0 \in 0 .. Len(list)
    BY <1>1
  <2> HIDE DEF Found
  <2> QED BY <1>1, <2>1, <2>2, <2>3
<1>10. ASSUME NEW i \in 1 .. Len(list), i - 1 \in Right
      PROVE  i \in Right
  <2>1. g[i] = Turn(g[i - 1], list[i])
    BY <1>8
  <2>2. g[i - 1] \in Seq(E) /\ ToSet(g[i - 1]) = Found(i - 1)
    BY <1>10
  <2>3. list[i] \in E
    OBVIOUS
  <2>4. Append(g[i - 1], list[i]) \in Seq(E)
        /\ ToSet(Append(g[i - 1], list[i])) = ToSet(g[i - 1]) \cup {list[i]}
    BY <2>2, <2>3, AppendToSet
  <2>5. Found(i) = IF list[i].filepath = path THEN Found(i - 1) \cup {list[i]} ELSE Found(i - 1)
    <3>1. 1 .. i = (1 .. i - 1) \cup {i}
      OBVIOUS
    <3> QED BY <3>1
  <2>6. i \in 0 .. Len(list)
    OBVIOUS
  <2>7. g[i] \in Seq(E) /\ ToSet(g[i]) = Found(i)
    <3> HIDE DEF Found
    <3> QED BY <2>1, <2>2, <2>4, <2>5 DEF Turn
  <2> HIDE DEF Found
  <2> QED BY <2>6, <2>7
<1>11. \A i \in 0 .. Len(list) : i \in Right
  <2> HIDE DEF Right
  <2> QED BY <1>1, <1>9, <1>10, Counting
<1>12. Len(list) \in 0 .. Len(list)
  BY <1>1
<1>13. g[Len(list)] \in Seq(E) /\ ToSet(g[Len(list)]) = Found(Len(list))
  <2> HIDE DEF Found
  <2> QED BY <1>11, <1>12
<1>14. Found(Len(list)) = { e \in ToSet(list) : e.filepath = path }
  BY DEF ToSet
<1> QED BY <1>7, <1>13, <1>14

\* findRemove keeps the entries of the other clients, and drops those of the
\* client if no two of them are neighbours: the second one would be passed over.
THEOREM FindRemoveDrops ==
  ASSUME NEW E, NEW list \in Seq(E), NEW clientId
  PROVE  LET others == { e \in ToSet(list) : e.clientId # clientId }
             left == FindRemove(list, clientId)
         IN /\ left \in Seq(E)
            /\ others \subseteq ToSet(left) /\ ToSet(left) \subseteq ToSet(list)
            /\ (\A i \in 1 .. Len(list) - 1 :
                  list[i].clientId = clientId => list[i + 1].clientId # clientId)
                 => ToSet(left) = others
<1> DEFINE Turn(acc, e) ==
             IF e.clientId = clientId /\ ~acc.passOver
             THEN [ kept |-> acc.kept, passOver |-> TRUE ]
             ELSE [ kept |-> Append(acc.kept, e), passOver |-> FALSE ]
           start == [ kept |-> <<>>, passOver |-> FALSE ]
           Accs == [ kept : Seq(E), passOver : BOOLEAN ]
           step == [ p \in (1 .. Len(list)) \X Accs |-> Turn(p[2], list[p[1]]) ]
<1>1. start \in Accs /\ Len(list) \in Nat
  OBVIOUS
<1>2. ASSUME NEW acc \in Accs, NEW i \in 1 .. Len(list)
      PROVE  Turn(acc, list[i]) \in Accs
  <2>1. list[i] \in E
    OBVIOUS
  <2>2. Append(acc.kept, list[i]) \in Seq(E)
    BY <2>1
  <2> QED BY <2>2
<1>3. step \in [ (1 .. Len(list)) \X Accs -> Accs ]
  <2> HIDE DEF Turn, Accs
  <2> QED BY <1>2
<1>4. PICK f \in [ 0 .. Len(list) -> Accs ] : IsLoop(f, Len(list), start, step)
  <2> HIDE DEF step, Accs, start
  <2> QED BY <1>1, <1>3, LoopExists
<1> HIDE DEF Accs, start, Turn
<1>5. ASSUME NEW i \in 0 .. Len(list)
      PROVE  f[i] = IF i = 0 THEN start ELSE Turn(f[i - 1], list[i])
  <2>1. CASE i = 0
    BY <1>4, <2>1 DEF IsLoop
  <2>2. CASE i # 0
    <3>1. i \in 1 .. Len(list) /\ i - 1 \in 0 .. Len(list)
      BY <1>1, <2>2
    <3>2. step[<<i, f[i - 1]>>] = Turn(f[i - 1], list[i])
      BY <3>1
    <3>3. f[i] = step[<<i, f[i - 1]>>]
      BY <1>4, <3>1 DEF IsLoop
    <3> QED BY <2>2, <3>2, <3>3
  <2> QED BY <2>1, <2>2
<1> HIDE DEF step
<1>6. f = [ i \in 0 .. Len(list) |-> IF i = 0 THEN start ELSE Turn(f[i - 1], list[i]) ]
  BY <1>5, Zenon
<1> DEFINE g == CHOOSE g : g = [ i \in 0 .. Len(list) |->
                                   IF i = 0 THEN start ELSE Turn(g[i - 1], list[i]) ]
<1>7. g = [ i \in 0 .. Len(list) |-> IF i = 0 THEN start ELSE Turn(g[i - 1], list[i]) ]
  BY <1>6, Zenon
<1>8. FindRemove(list, clientId) = g[Len(list)].kept
  BY Zenon DEF FindRemove, EraseLoop, Pass, Turn, start
<1> HIDE DEF g
<1>9. \A i \in 0 .. Len(list) : g[i] = IF i = 0 THEN start ELSE Turn(g[i - 1], list[i])
  BY <1>7, Zenon
<1> DEFINE Apart == \A i \in 1 .. Len(list) - 1 :
                      list[i].clientId = clientId => list[i + 1].clientId # clientId
           All(i) == { list[j] : j \in 1 .. i }
           Others(i) == { list[j] : j \in { k \in 1 .. i : list[k].clientId # clientId } }
           Right == { i \in 0 .. Len(list) :
                        /\ g[i] \in Accs
                        /\ Others(i) \subseteq ToSet(g[i].kept)
                        /\ ToSet(g[i].kept) \subseteq All(i)
                        /\ g[i].passOver => i > 0 /\ list[i].clientId = clientId
                        /\ Apart => ToSet(g[i].kept) = Others(i) }
<1>10. 0 \in Right
  <2>1. g[0] = start
    BY <1>1, <1>9
  <2>2. start.kept = <<>> /\ start.passOver = FALSE
    BY DEF start
  <2>3. ToSet(<<>>) = {} /\ Others(0) = {} /\ All(0) = {}
    BY DEF ToSet
  <2>4. 0 \in 0 .. Len(list)
    BY <1>1
  <2> HIDE DEF Others, All, Apart
  <2> QED BY <1>1, <2>1, <2>2, <2>3, <2>4
<1>11. ASSUME NEW i \in 1 .. Len(list), i - 1 \in Right
      PROVE  i \in Right
  <2> DEFINE e == list[i]
             acc == g[i - 1]
  <2>1. g[i] = Turn(acc, e)
    BY <1>9
  <2>2. /\ acc \in Accs
        /\ Others(i - 1) \subseteq ToSet(acc.kept)
        /\ ToSet(acc.kept) \subseteq All(i - 1)
        /\ acc.passOver => i - 1 > 0 /\ list[i - 1].clientId = clientId
        /\ Apart => ToSet(acc.kept) = Others(i - 1)
    BY <1>11
  <2>3. e \in E
    OBVIOUS
  <2>4. acc.kept \in Seq(E) /\ acc.passOver \in BOOLEAN
    BY <2>2 DEF Accs
  <2>5. ToSet(Append(acc.kept, e)) = ToSet(acc.kept) \cup {e}
    BY <2>3, <2>4, AppendToSet
  <2>6. Others(i) = IF e.clientId # clientId THEN Others(i - 1) \cup {e} ELSE Others(i - 1)
    <3>1. 1 .. i = (1 .. i - 1) \cup {i}
      OBVIOUS
    <3> QED BY <3>1
  <2>7. All(i) = All(i - 1) \cup {e}
    <3>1. 1 .. i = (1 .. i - 1) \cup {i}
      OBVIOUS
    <3> QED BY <3>1
  <2>8. Apart /\ acc.passOver => e.clientId # clientId
    <3>1. acc.passOver => i - 1 \in 1 .. Len(list) - 1 /\ (i - 1) + 1 = i
      BY <2>2
    <3> QED BY <2>2, <3>1
  <2>9. i \in 0 .. Len(list) /\ i > 0
    OBVIOUS
  <2>10. g[i] \in Accs
    BY <1>2, <2>1, <2>2
  <2> HIDE DEF Others, All, Apart, acc
  <2>11. CASE e.clientId = clientId /\ ~acc.passOver
    <3>1. g[i].kept = acc.kept /\ g[i].passOver
      BY <2>1, <2>11 DEF Turn
    <3> QED BY <2>2, <2>6, <2>7, <2>9, <2>10, <2>11, <3>1
  <2>12. CASE ~(e.clientId = clientId /\ ~acc.passOver)
    <3>1. g[i].kept = Append(acc.kept, e) /\ ~g[i].passOver
      BY <2>1, <2>12 DEF Turn
    <3> QED BY <2>2, <2>4, <2>5, <2>6, <2>7, <2>8, <2>9, <2>10, <2>12, <3>1
  <2> QED BY <2>11, <2>12
<1>12. \A i \in 0 .. Len(list) : i \in Right
  <2> HIDE DEF Right
  <2> QED BY <1>1, <1>10, <1>11, Counting
<1>13. Len(list) \in 0 .. Len(list)
  BY <1>1
<1>14. /\ g[Len(list)].kept \in Seq(E)
       /\ Others(Len(list)) \subseteq ToSet(g[Len(list)].kept)
       /\ ToSet(g[Len(list)].kept) \subseteq All(Len(list))
       /\ Apart => ToSet(g[Len(list)].kept) = Others(Len(list))
  <2> HIDE DEF Others, All, Apart
  <2> QED BY <1>12, <1>13 DEF Accs
<1>15. /\ All(Len(list)) = ToSet(list)
       /\ Others(Len(list)) = { e \in ToSet(list) : e.clientId # clientId }
  BY DEF ToSet
<1> QED BY <1>8, <1>14, <1>15

-----------------------------------------------------------------------------
(* The types of the state.                                                  *)

\* All of TypeOK but the entries of the monitor table.
BasicTypeOK == SenderTypeOK /\ ClientTypeOK /\ OnlyCacheAsks /\ ServerTypeOK

USE SenderAssumption, ClientAssumption, ServerAssumption DEF Nodes

-----------------------------------------------------------------------------
(* The types of what the operators of Messages and Sender build.            *)

\* A message made of well-typed parts is one.
LEMMA MessageType ==
  ASSUME NEW callType \in CallTypes \cup {Garbage}, NEW ints \in Seq(Nat),
         NEW strs \in Strings,
         callType = "Monitor" /\ strs # <<>> => strs[1] \in Files
  PROVE  Message(callType, ints, strs) \in Messages
  BY DEF Message, Messages

\* The number and the label of a message may be replaced.
LEMMA NumberedType ==
  ASSUME NEW msg \in Messages, NEW num \in Nat, NEW run \in Nat
  PROVE  /\ Numbered(msg, num, run) \in Messages
         /\ Numbered(msg, num, run).callType = msg.callType
         /\ Numbered(msg, num, run).num = num
         /\ Numbered(msg, num, run).run = run
  BY DEF Numbered, Messages

\* The lists of strings that the code builds.
LEMMA StringsType ==
  /\ <<>> \in Strings
  /\ \A s \in Files \cup Nat : <<s>> \in Strings
  /\ \A f \in Files, t \in Nat : <<f, t>> \in Strings
  BY DEF Strings

\* The messages without a string, or with one or two of them.
LEMMA PlainMessageType ==
  ASSUME NEW callType \in CallTypes
  PROVE  /\ Message(callType, <<>>, <<>>) \in Messages
         /\ \A i \in Nat : Message(callType, <<i>>, <<>>) \in Messages
         /\ \A i, j \in Nat : Message(callType, <<i, j>>, <<>>) \in Messages
         /\ \A i \in Nat, f \in Files : Message(callType, <<i>>, <<f>>) \in Messages
         /\ callType # "Monitor" =>
              /\ \A s \in Files \cup Nat : Message(callType, <<>>, <<s>>) \in Messages
              /\ \A i \in Nat, s \in Files \cup Nat : Message(callType, <<i>>, <<s>>) \in Messages
              /\ \A i, j \in Nat, s \in Files \cup Nat : Message(callType, <<i, j>>, <<s>>) \in Messages
         /\ \A f \in Files, t \in Nat : Message(callType, <<>>, <<f, t>>) \in Messages
         /\ \A i \in Nat, f \in Files, t \in Nat :
              Message(callType, <<i>>, <<f, t>>) \in Messages
<1>1. callType \in CallTypes \cup {Garbage}
  OBVIOUS
<1>2. /\ <<>> \in Seq(Nat)
      /\ \A i \in Nat : <<i>> \in Seq(Nat)
      /\ \A i, j \in Nat : <<i, j>> \in Seq(Nat)
  OBVIOUS
<1>3. QED
  BY <1>1, <1>2, StringsType, MessageType

\* The head of a queue is a packet, and taking it leaves a queue of packets.
LEMMA ConsumedType ==
  ASSUME SenderTypeOK, NEW n \in Nodes, Arrived(n)
  PROVE  /\ Packet(n) \in Packets
         /\ Packet(n).from \in Nodes
         /\ Packet(n).msg \in Messages
         /\ Consumed(n) \in [ Nodes -> Seq(Packets) ]
<1>1. inbox[n] \in Seq(Packets) /\ inbox[n] # <<>>
  BY DEF SenderTypeOK, Arrived
<1>2. Head(inbox[n]) \in Packets /\ Tail(inbox[n]) \in Seq(Packets)
  BY <1>1
<1>3. Consumed(n) \in [ Nodes -> Seq(Packets) ]
  BY <1>2 DEF SenderTypeOK, Consumed
<1>4. QED
  BY <1>2, <1>3 DEF Packet, Packets

\* Whether a packet is lost or not, the queues remain queues of packets.
LEMMA TransmitType ==
  ASSUME NEW queues \in [ Nodes -> Seq(Packets) ], NEW from \in Nodes, NEW to \in Nodes,
         NEW msg \in Messages, drops \in 0 .. MaxDrops, Transmit(queues, from, to, msg)
  PROVE  inbox' \in [ Nodes -> Seq(Packets) ] /\ drops' \in 0 .. MaxDrops
<1>1. [ from |-> from, msg |-> msg ] \in Packets
  BY DEF Packets
<1>2. Delivered(queues, from, to, msg) \in [ Nodes -> Seq(Packets) ]
  BY <1>1 DEF Delivered
<1>3. QED
  BY <1>2 DEF Transmit, ToDrop

\* A call leaves the variables of Sender well typed.
LEMMA SendMessageType ==
  ASSUME SenderTypeOK, NEW queues \in [ Nodes -> Seq(Packets) ],
         NEW n \in Nodes, NEW to \in Nodes, NEW msg \in Messages,
         NEW num \in Nat, NEW run \in Nat,
         SendMessage(queues, n, to, msg, num, run), runs' \in [ Nodes -> Nat ]
  PROVE  SenderTypeOK'
<1> DEFINE call == Numbered(msg, num, run)
<1>1. call \in Messages
  BY NumberedType
<1>2. inbox' \in [ Nodes -> Seq(Packets) ] /\ drops' \in 0 .. MaxDrops
  BY <1>1, TransmitType DEF SendMessage, SenderTypeOK
<1>3. pending' \in [ Nodes -> [ call : Messages, sa : Nodes, tries : 0 .. NUM_TIMEOUTS ] ]
  <2>1. [ call |-> call, sa |-> to, tries |-> 1 ]
          \in [ call : Messages, sa : Nodes, tries : 0 .. NUM_TIMEOUTS ]
    BY <1>1
  <2>2. QED
    BY <2>1 DEF SendMessage, SenderTypeOK
<1>4. messageNum' \in [ Nodes -> Nat ] /\ pc' \in [ Nodes -> {"down", "ready", "rpc", "monitor"} ]
  BY SMTT(40) DEF SendMessage, SenderTypeOK
<1>5. QED
  BY <1>2, <1>3, <1>4 DEF SenderTypeOK

\* A response leaves the queues and the losses well typed.
LEMMA SendResponseType ==
  ASSUME SenderTypeOK, NEW queues \in [ Nodes -> Seq(Packets) ], NEW n \in Nodes,
         NEW to \in Nodes, NEW call \in Messages, NEW resp \in Messages,
         SendResponse(queues, n, to, call, resp)
  PROVE  inbox' \in [ Nodes -> Seq(Packets) ] /\ drops' \in 0 .. MaxDrops
<1>1. call.num \in Nat /\ call.run \in Nat
  BY DEF Messages
<1>2. Numbered(resp, call.num, call.run) \in Messages
  BY <1>1, NumberedType
<1>3. QED
  BY <1>2, TransmitType DEF SendResponse, SenderTypeOK

\* The end of a process leaves the variables of Sender well typed.
LEMMA NoCallType ==
  /\ NoCall \in [ call : Messages, sa : Nodes, tries : 0 .. NUM_TIMEOUTS ]
  /\ NoCall.call \in Messages
<1>1. Message("Start", <<>>, <<>>) \in Messages
  BY PlainMessageType DEF CallTypes
<1>2. QED
  BY <1>1 DEF NoCall

\* A call keeps its type when its address or its count of tries changes.
LEMMA AttemptType ==
  ASSUME NEW p \in [ Nodes -> [ call : Messages, sa : Nodes, tries : 0 .. NUM_TIMEOUTS ] ],
         NEW n \in Nodes
  PROVE  /\ \A sa \in Nodes : [ p EXCEPT ![n].sa = sa ]
              \in [ Nodes -> [ call : Messages, sa : Nodes, tries : 0 .. NUM_TIMEOUTS ] ]
         /\ p[n].tries < NUM_TIMEOUTS => [ p EXCEPT ![n].tries = @ + 1 ]
              \in [ Nodes -> [ call : Messages, sa : Nodes, tries : 0 .. NUM_TIMEOUTS ] ]
<1> DEFINE Calls == [ call : Messages, sa : Nodes, tries : 0 .. NUM_TIMEOUTS ]
<1>1. ASSUME NEW r \in Calls, NEW sa \in Nodes
      PROVE  [ r EXCEPT !.sa = sa ] \in Calls
  OBVIOUS
<1>2. ASSUME NEW r \in Calls, r.tries < NUM_TIMEOUTS
      PROVE  [ r EXCEPT !.tries = @ + 1 ] \in Calls
  BY <1>2
<1>3. p[n] \in Calls
  OBVIOUS
<1> HIDE DEF Calls
<1>4. QED
  BY <1>1, <1>2, <1>3 DEF Calls

\* A process that ends leaves the variables of Sender well typed.
LEMMA ExitType ==
  ASSUME SenderTypeOK, NEW n \in Nodes, Exit(n)
  PROVE  SenderTypeOK'
  BY NoCallType DEF Exit, SenderTypeOK

\* So does one that drops an improper packet.
LEMMA DiscardImproperType ==
  ASSUME SenderTypeOK, NEW n \in Nodes, DiscardImproper(n)
  PROVE  SenderTypeOK'
<1>1. Consumed(n) \in [ Nodes -> Seq(Packets) ] /\ Packet(n).from \in Nodes
  BY ConsumedType DEF DiscardImproper
<1>2. pending' \in [ Nodes -> [ call : Messages, sa : Nodes, tries : 0 .. NUM_TIMEOUTS ] ]
  BY <1>1, AttemptType DEF DiscardImproper, SenderTypeOK
<1>3. QED
  BY <1>1, <1>2 DEF DiscardImproper, SenderTypeOK

\* So does one that transmits its call again.
LEMMA RetransmitType ==
  ASSUME SenderTypeOK, NEW n \in Nodes, Retransmit(n)
  PROVE  SenderTypeOK'
<1>1. pending[n].call \in Messages /\ pending[n].sa \in Nodes
  BY DEF SenderTypeOK
<1>2. inbox' \in [ Nodes -> Seq(Packets) ] /\ drops' \in 0 .. MaxDrops
  BY <1>1, TransmitType DEF Retransmit, SenderTypeOK
<1>3. pending' \in [ Nodes -> [ call : Messages, sa : Nodes, tries : 0 .. NUM_TIMEOUTS ] ]
  BY AttemptType DEF Retransmit, SenderTypeOK
<1>4. QED
  BY <1>2, <1>3 DEF Retransmit, SenderTypeOK

-----------------------------------------------------------------------------
(* The types of the clients' variables.                                     *)

\* What a user's command is made into is a message.
LEMMA MessagesForType ==
  ASSUME BasicTypeOK, NEW c \in Clients, NEW command \in Commands[c] \ {"q"}
  PROVE  MessagesFor(command, c) \subseteq Messages
<1>1. command \in {"insert", "shift", "mode", "monitor", "read", "other"}
  OBVIOUS
<1>2. Offsets \subseteq Nat /\ NoText \in Nat
  BY DEF AtStart, Beyond, NoText
<1>3. {"Insert", "Shift", "Mode", "Monitor", "Read"} \subseteq CallTypes
  BY DEF CallTypes
<1>4. lastMessage[c] \in Messages
  BY DEF BasicTypeOK, ClientTypeOK
<1> SUFFICES ASSUME NEW msg \in MessagesFor(command, c)
             PROVE  msg \in Messages
  OBVIOUS
<1>5. CASE command = "insert"
  <2>1. MessagesFor(command, c)
          = { Message("Insert", <<at[1]>>, <<at[2], NoText>>) : at \in Offsets \X Files }
    BY <1>5 DEF MessagesFor
  <2>2. PICK at \in Offsets \X Files : msg = Message("Insert", <<at[1]>>, <<at[2], NoText>>)
    BY <2>1
  <2>3. QED
    BY <1>2, <1>3, <2>2, PlainMessageType
<1>6. CASE command = "shift"
  <2>1. MessagesFor(command, c) = { Message("Shift", <<1>>, <<f>>) : f \in Files }
    BY <1>6 DEF MessagesFor
  <2>2. PICK f \in Files : msg = Message("Shift", <<1>>, <<f>>)
    BY <2>1
  <2>3. QED
    BY <1>3, <2>2, PlainMessageType
<1>7. CASE command = "mode"
  <2>1. MessagesFor(command, c) = { Message("Mode", <<>>, <<f>>) : f \in Files }
    BY <1>7 DEF MessagesFor
  <2>2. PICK f \in Files : msg = Message("Mode", <<>>, <<f>>)
    BY <2>1
  <2>3. QED
    BY <1>3, <2>2, PlainMessageType
<1>8. CASE command = "monitor"
  <2>1. MessagesFor(command, c) = { Message("Monitor", <<1>>, <<f>>) : f \in Files }
    BY <1>8 DEF MessagesFor
  <2>2. PICK f \in Files : msg = Message("Monitor", <<1>>, <<f>>)
    BY <2>1
  <2>3. QED
    BY <1>3, <2>2, PlainMessageType
<1>9. CASE command = "read"
  <2>1. MessagesFor(command, c)
          = { Message("Read", <<at[1], 0>>, <<at[2]>>) : at \in Offsets \X Files }
    BY <1>9 DEF MessagesFor
  <2>2. PICK at \in Offsets \X Files : msg = Message("Read", <<at[1], 0>>, <<at[2]>>)
    BY <2>1
  <2>3. QED
    BY <1>2, <1>3, <2>2, PlainMessageType
<1>10. CASE command = "other"
  BY <1>4, <1>10 DEF MessagesFor
<1>11. QED
  BY <1>1, <1>5, <1>6, <1>7, <1>8, <1>9, <1>10

\* So is what is entered.
LEMMA EnteredType ==
  ASSUME BasicTypeOK, NEW c \in Clients
  PROVE  Entered(c) \subseteq Messages /\ Requests(c) \subseteq Messages
<1>1. ASSUME NEW msg \in Entered(c)
      PROVE  msg \in Messages
  <2>1. PICK command \in Commands[c] \ {"q"} : msg \in MessagesFor(command, c)
    BY Zenon DEF Entered
  <2>2. QED
    BY <2>1, MessagesForType
<1>2. QED
  BY <1>1 DEF Requests

\* The response a client makes for itself.
LEMMA CopyReadType ==
  ASSUME NEW request, NEW edition \in Files \cup Nat
  PROVE  CopyRead(request, edition) \in Messages /\ FileMissing \in Messages
  BY PlainMessageType
     DEF CopyRead, FileMissing, CallTypes, Good, Failure, FileBoundException, NoFileException

\* A copy is told by an edition.
LEMMA CopyOfType ==
  ASSUME BasicTypeOK, NEW c \in Clients, NEW path
  PROVE  CopyOf(c, path) \in Files \cup Nat
  BY DEF CopyOf, BasicTypeOK, ClientTypeOK

\* The cache asks for the path of a file or, misled by a word that is no command,
\* for a content.
LEMMA AskType ==
  ASSUME BasicTypeOK, NEW c \in Clients, NEW queues \in [ Nodes -> Seq(Packets) ],
         NEW callType \in {"Fresh", "Dump"}, NEW path \in Files \cup Nat,
         Ask(c, callType, path, queues), UNCHANGED runs
  PROVE  SenderTypeOK'
<1>1. Message(callType, <<>>, <<path>>) \in Messages
  BY PlainMessageType DEF CallTypes
<1>2. c \in Nodes /\ messageNum[c] \in Nat /\ runs[c] \in Nat /\ runs' \in [ Nodes -> Nat ]
  BY DEF BasicTypeOK, SenderTypeOK
<1>3. QED
  BY <1>1, <1>2, SendMessageType DEF Ask, BasicTypeOK

\* A read that starts leaves the client's variables well typed.
LEMMA StartReadType ==
  ASSUME BasicTypeOK, NEW c \in Clients, NEW request \in Requests(c), StartRead(c, request)
  PROVE  ClientTypeOK' /\ request.strs[1] \in Files \cup Nat /\ UNCHANGED runs
<1>1. request \in Messages /\ request.strs # <<>>
  BY EnteredType DEF StartRead
<1>2. request.strs[1] \in Files \cup Nat
  BY <1>1 DEF Messages, Strings
<1>3. QED
  BY <1>1, <1>2 DEF StartRead, BasicTypeOK, ClientTypeOK

\* What sendMessage returns to the cache, and the path it asked for.
LEMMA ForCacheType ==
  ASSUME BasicTypeOK, NEW c \in Clients, NEW callType \in {"Fresh", "Dump"},
         ReceiveForCache(c, callType)
  PROVE  /\ Packet(c).msg \in Messages
         /\ Consumed(c) \in [ Nodes -> Seq(Packets) ]
         /\ Path(c) \in Files \cup Nat
         /\ ~Fails(Packet(c).msg) /\ callType = "Dump"
              => Packet(c).msg.strs[1] \in Files \cup Nat
<1>1. Packet(c).msg \in Messages /\ Consumed(c) \in [ Nodes -> Seq(Packets) ]
  BY ConsumedType DEF ReceiveForCache, Answered, BasicTypeOK
<1>2. pending[c].call \in Messages /\ pending[c].call.strs # <<>>
  BY DEF ReceiveForCache, BasicTypeOK, OnlyCacheAsks, SenderTypeOK
<1>3. Path(c) \in Files \cup Nat
  BY <1>2 DEF Path, Messages, Strings
<1>4. ASSUME ~Fails(Packet(c).msg), callType = "Dump"
      PROVE  Packet(c).msg.strs[1] \in Files \cup Nat
  <2>1. Packet(c).msg.strs # <<>>
    BY <1>4 DEF Fails, ReceiveForCache, Answered, IsAnswer
  <2>2. QED
    BY <1>1, <2>1 DEF Messages, Strings
<1>5. QED
  BY <1>1, <1>3, <1>4

\* The end of a read leaves the variables of Sender well typed.
LEMMA FinishReadType ==
  ASSUME BasicTypeOK, NEW c \in Clients, NEW resp \in Messages,
         Consumed(c) \in [ Nodes -> Seq(Packets) ], FinishRead(c, resp), UNCHANGED runs
  PROVE  SenderTypeOK' /\ lastMessage' \in [ Clients -> Messages ]
  BY NoCallType DEF FinishRead, BasicTypeOK, SenderTypeOK, ClientTypeOK

\* Every step of a client leaves the variables of each part well typed.
LEMMA ClientStepVars ==
  ASSUME BasicTypeOK, NEW c \in Clients, UserStep(c) \/ ClientStep(c)
  PROVE  SenderTypeOK' /\ ClientTypeOK' /\ ServerTypeOK'
<1> USE DEF BasicTypeOK
<1>1. c \in Nodes /\ Srv \in Nodes /\ runs[c] \in Nat /\ messageNum[c] \in Nat
  BY DEF SenderTypeOK
<1>2. CASE Launch(c) /\ UNCHANGED serverVars
  <2>1. Message("Start", <<>>, <<>>) \in Messages
    BY PlainMessageType DEF CallTypes
  <2>2. runs' \in [ Nodes -> Nat ]
    BY <1>1, <1>2 DEF Launch, SenderTypeOK
  <2>3. SenderTypeOK'
    BY <1>1, <1>2, <2>1, <2>2, SendMessageType DEF Launch, SenderTypeOK
  <2>4. ClientTypeOK'
    BY <1>2, <2>1 DEF Launch, ClientTypeOK, NoMessage, NoCopies
  <2>5. QED
    BY <1>2, <2>3, <2>4 DEF ServerTypeOK, serverVars
<1>3. CASE EnterCommand(c) /\ UNCHANGED serverVars
  <2>1. PICK msg \in Messages : SendMessage(inbox, c, Srv, msg, messageNum[c], runs[c])
    BY <1>3, EnteredType DEF EnterCommand
  <2>2. SenderTypeOK'
    BY <1>1, <1>3, <2>1, SendMessageType DEF EnterCommand, SenderTypeOK
  <2>3. QED
    BY <1>3, <2>2 DEF EnterCommand, ClientTypeOK, ServerTypeOK, clientVars, serverVars
<1>4. CASE Quit(c) /\ UNCHANGED serverVars
  BY <1>1, <1>4, ExitType DEF Quit, ClientTypeOK, ServerTypeOK, clientVars, serverVars
<1>5. CASE ReceiveResponse(c) /\ UNCHANGED serverVars
  <2>1. Packet(c).msg \in Messages /\ Consumed(c) \in [ Nodes -> Seq(Packets) ]
    BY <1>1, <1>5, ConsumedType DEF ReceiveResponse, Answered
  <2>2. AfterResponse(Packet(c).msg) \in {"down", "ready", "monitor"}
    BY <2>1 DEF AfterResponse, Messages, CallTypes, Garbage, Good
  <2>3. Numbered(Packet(c).msg, 0, 0) \in Messages
    BY <2>1, NumberedType
  <2>4. inbox' \in [ Nodes -> Seq(Packets) ]
    BY <1>5, <2>1 DEF ReceiveResponse, SenderTypeOK
  <2>5. SenderTypeOK'
    BY <1>1, <1>5, <2>2, <2>4, NoCallType DEF ReceiveResponse, SenderTypeOK
  <2>6. ClientTypeOK'
    BY <1>5, <2>3 DEF ReceiveResponse, ClientTypeOK
  <2>7. QED
    BY <1>5, <2>5, <2>6 DEF ServerTypeOK, serverVars
<1>6. ASSUME NEW msg \in Messages, Acknowledge(c, msg), Arrived(c)
      PROVE  inbox' \in [ Nodes -> Seq(Packets) ] /\ drops' \in 0 .. MaxDrops
  <2>1. Message("MonitorUpdate", <<Good>>, <<>>) \in Messages
    BY PlainMessageType DEF CallTypes, Good
  <2>2. Packet(c).from \in Nodes /\ Consumed(c) \in [ Nodes -> Seq(Packets) ]
    BY <1>1, <1>6, ConsumedType
  <2>3. QED
    BY <1>1, <1>6, <2>1, <2>2, SendResponseType DEF Acknowledge
<1>7. ASSUME NEW msg \in Messages, AcceptNumber(c, msg)
      PROVE  prevPacketNumber' \in [ Clients -> Int ]
  BY <1>7 DEF AcceptNumber, ClientTypeOK, Messages
<1>8. CASE ShowUpdate(c) /\ UNCHANGED serverVars
  <2> DEFINE msg == Packet(c).msg
  <2>1. msg \in Messages /\ Arrived(c)
    BY <1>1, <1>8, ConsumedType DEF ShowUpdate, TakePacket
  <2>2. msg.strs[2] \in Nat
    BY <1>8, <2>1 DEF ShowUpdate, Messages, Strings
  <2>3. shown' \in [ Clients -> [ Files -> Nat ] ]
    BY <1>8, <2>2 DEF ShowUpdate, ClientTypeOK
  <2>4. SenderTypeOK'
    BY <1>6, <1>8, <2>1 DEF ShowUpdate, TakePacket, SenderTypeOK
  <2>5. ClientTypeOK'
    BY <1>7, <1>8, <2>1, <2>3 DEF ShowUpdate, TakePacket, ClientTypeOK
  <2>6. QED
    BY <1>8, <2>4, <2>5 DEF ServerTypeOK, serverVars
<1>9. CASE CrashOnMissingContent(c) /\ UNCHANGED serverVars
  <2>1. SenderTypeOK'
    <3>1. inbox' \in [ Nodes -> Seq(Packets) ]
      BY <1>1, <1>9 DEF CrashOnMissingContent, SenderTypeOK
    <3>2. QED
      BY <1>9, <3>1 DEF CrashOnMissingContent, LacksContent, TakePacket, SenderTypeOK
  <2>2. QED
    BY <1>9, <2>1 DEF CrashOnMissingContent, LacksContent, TakePacket,
       ClientTypeOK, ServerTypeOK, serverVars
<1>10. CASE SurviveMissingContent(c) /\ UNCHANGED serverVars
  <2>1. Packet(c).msg \in Messages /\ Arrived(c)
    BY <1>1, <1>10, ConsumedType DEF SurviveMissingContent, LacksContent, TakePacket
  <2>2. SenderTypeOK'
    BY <1>6, <1>10, <2>1 DEF SurviveMissingContent, LacksContent, TakePacket, SenderTypeOK
  <2>3. ClientTypeOK'
    BY <1>7, <1>10, <2>1 DEF SurviveMissingContent, LacksContent, TakePacket, ClientTypeOK
  <2>4. QED
    BY <1>10, <2>2, <2>3 DEF ServerTypeOK, serverVars
<1>11. CASE IgnoreDuplicate(c) /\ UNCHANGED serverVars
  <2>1. Consumed(c) \in [ Nodes -> Seq(Packets) ]
    BY <1>1, <1>11, ConsumedType DEF IgnoreDuplicate, TakePacket
  <2>2. QED
    BY <1>11, <2>1 DEF IgnoreDuplicate, TakePacket, SenderTypeOK, ClientTypeOK,
       ServerTypeOK, serverVars
<1>12. CASE EndMonitoring(c) /\ UNCHANGED serverVars
  <2>1. Message("MonitorEnd", <<>>, <<>>) \in Messages
    BY PlainMessageType DEF CallTypes
  <2>2. SenderTypeOK'
    BY <1>1, <1>12, <2>1, SendMessageType DEF EndMonitoring, SenderTypeOK
  <2>3. QED
    BY <1>12, <2>2 DEF EndMonitoring, ClientTypeOK, ServerTypeOK, clientVars, serverVars
<1>13. CASE ReceiveEndResponse(c) /\ UNCHANGED serverVars
  <2>1. Consumed(c) \in [ Nodes -> Seq(Packets) ]
    BY <1>1, <1>13, ConsumedType DEF ReceiveEndResponse, Answered
  <2>2. SenderTypeOK'
    BY <1>1, <1>13, <2>1, NoCallType DEF ReceiveEndResponse, SenderTypeOK
  <2>3. QED
    BY <1>13, <2>2 DEF ReceiveEndResponse, ClientTypeOK, ServerTypeOK, clientVars, serverVars
<1>14. CASE ClientDiscards(c) /\ UNCHANGED serverVars
  BY <1>1, <1>14, DiscardImproperType
     DEF ClientDiscards, ClientTypeOK, ServerTypeOK, clientVars, serverVars
<1>15. CASE ClientRetransmits(c) /\ UNCHANGED serverVars
  BY <1>1, <1>15, RetransmitType
     DEF ClientRetransmits, ClientTypeOK, ServerTypeOK, clientVars, serverVars
<1>16. CASE ClientGivesUp(c) /\ UNCHANGED serverVars
  BY <1>1, <1>16, ExitType
     DEF ClientGivesUp, ClientTypeOK, ServerTypeOK, clientVars, serverVars
<1>17. CASE ReadLocally(c) /\ UNCHANGED serverVars
  <2>1. PICK request \in Requests(c) :
          lastMessage' = [ lastMessage EXCEPT ![c] =
            CopyRead(request, CopyOf(c, request.strs[1])) ]
    BY <1>17 DEF ReadLocally
  <2>2. CopyRead(request, CopyOf(c, request.strs[1])) \in Messages
    BY CopyOfType, CopyReadType
  <2>3. ClientTypeOK'
    BY <1>17, <2>1, <2>2 DEF ReadLocally, ClientTypeOK
  <2>4. QED
    BY <1>17, <2>3 DEF ReadLocally, SenderTypeOK, ServerTypeOK, senderVars, serverVars
<1>18. CASE (AskForFile(c) \/ AskWhetherFresh(c)) /\ UNCHANGED serverVars
  <2>1. PICK request \in Requests(c), callType \in {"Fresh", "Dump"} :
          StartRead(c, request) /\ Ask(c, callType, request.strs[1], inbox)
    <3>1. CASE AskForFile(c)
      BY <3>1 DEF AskForFile
    <3>2. CASE AskWhetherFresh(c)
      BY <3>2 DEF AskWhetherFresh
    <3>3. QED
      BY <1>18, <3>1, <3>2
  <2>2. ClientTypeOK' /\ request.strs[1] \in Files \cup Nat /\ UNCHANGED runs
    BY <2>1, StartReadType
  <2>3. inbox \in [ Nodes -> Seq(Packets) ]
    BY DEF SenderTypeOK
  <2>4. SendMessage(inbox, c, Srv, Message(callType, <<>>, <<request.strs[1]>>),
                    messageNum[c], runs[c])
    BY <2>1 DEF Ask
  <2>5. Message(callType, <<>>, <<request.strs[1]>>) \in Messages
    BY <2>2, PlainMessageType DEF CallTypes
  <2>6. SenderTypeOK'
    BY <1>1, <2>2, <2>3, <2>4, <2>5, SendMessageType DEF SenderTypeOK
  <2>7. QED
    BY <1>18, <2>2, <2>6 DEF ServerTypeOK, serverVars
<1>19. CASE ReadMalformed(c) /\ UNCHANGED serverVars
  BY <1>1, <1>19, ExitType DEF ReadMalformed, ClientTypeOK, ServerTypeOK, clientVars, serverVars
<1>20. CASE ReceiveNoFile(c) /\ UNCHANGED serverVars
  <2>1. PICK callType \in {"Dump", "Fresh"} : ReceiveForCache(c, callType)
    BY <1>20 DEF ReceiveNoFile
  <2>2. SenderTypeOK' /\ lastMessage' \in [ Clients -> Messages ]
    <3>1. FinishRead(c, FileMissing) /\ UNCHANGED runs /\ 0 \in Files \cup Nat
      BY <1>20, <2>1 DEF ReceiveNoFile, ReceiveForCache
    <3>2. QED
      BY <2>1, <3>1, ForCacheType, CopyReadType, FinishReadType
  <2>3. QED
    BY <1>20, <2>1, <2>2 DEF ReceiveNoFile, ReceiveForCache, ClientTypeOK, ServerTypeOK, serverVars
<1>21. ASSUME StoreCopy(c)
       PROVE  /\ copies' \in [ Clients -> [ Files -> Files \cup Nat ] ]
              /\ Packet(c).msg.strs[1] \in Files \cup Nat
              /\ UNCHANGED <<runs, prevPacketNumber, shown>>
  <2>1. ReceiveForCache(c, "Dump") /\ ~Fails(Packet(c).msg)
    BY <1>21 DEF StoreCopy
  <2>2. Packet(c).msg.strs[1] \in Files \cup Nat
    BY <2>1, ForCacheType
  <2>3. QED
    BY <1>21, <2>1, <2>2 DEF StoreCopy, ReceiveForCache, ClientTypeOK
<1>22. CASE ReceiveFile(c) /\ UNCHANGED serverVars
  <2>1. /\ StoreCopy(c) /\ ReceiveForCache(c, "Dump")
        /\ FinishRead(c, CopyRead(lastMessage[c], Packet(c).msg.strs[1]))
    BY <1>22 DEF ReceiveFile, StoreCopy
  <2>2. CopyRead(lastMessage[c], Packet(c).msg.strs[1]) \in Messages
    BY <1>21, <2>1, CopyReadType
  <2>3. SenderTypeOK' /\ lastMessage' \in [ Clients -> Messages ]
    BY <1>21, <2>1, <2>2, ForCacheType, FinishReadType
  <2>4. QED
    BY <1>21, <1>22, <2>1, <2>3 DEF ClientTypeOK, ServerTypeOK, serverVars
<1>23. CASE ReceiveFileAndAsk(c) /\ UNCHANGED serverVars
  <2>1. /\ StoreCopy(c) /\ ReceiveForCache(c, "Dump")
        /\ Ask(c, "Fresh", Path(c), Consumed(c))
        /\ UNCHANGED lastMessage
    BY <1>23 DEF ReceiveFileAndAsk, StoreCopy
  <2>2. SenderTypeOK'
    BY <1>21, <2>1, ForCacheType, AskType
  <2>3. QED
    BY <1>21, <1>23, <2>1, <2>2 DEF ClientTypeOK, ServerTypeOK, serverVars
<1>24. CASE ReceiveUnmodified(c) /\ UNCHANGED serverVars
  <2>1. /\ ReceiveForCache(c, "Fresh") /\ UNCHANGED copies
        /\ FinishRead(c, CopyRead(lastMessage[c], CopyOf(c, Path(c))))
    BY <1>24 DEF ReceiveUnmodified
  <2>2. CopyRead(lastMessage[c], CopyOf(c, Path(c))) \in Messages
    BY CopyOfType, CopyReadType
  <2>3. UNCHANGED <<runs, prevPacketNumber, shown>>
    BY <2>1 DEF ReceiveForCache
  <2>4. SenderTypeOK' /\ lastMessage' \in [ Clients -> Messages ]
    BY <2>1, <2>2, <2>3, ForCacheType, FinishReadType
  <2>5. QED
    BY <1>24, <2>1, <2>3, <2>4 DEF ClientTypeOK, ServerTypeOK, serverVars
<1>25. CASE ReceiveModified(c) /\ UNCHANGED serverVars
  <2>1. /\ ReceiveForCache(c, "Fresh") /\ Ask(c, "Dump", Path(c), Consumed(c))
        /\ UNCHANGED <<lastMessage, copies>>
    BY <1>25 DEF ReceiveModified
  <2>2. UNCHANGED <<runs, prevPacketNumber, shown>>
    BY <2>1 DEF ReceiveForCache
  <2>3. SenderTypeOK'
    BY <2>1, <2>2, ForCacheType, AskType
  <2>4. QED
    BY <1>25, <2>1, <2>2, <2>3 DEF ClientTypeOK, ServerTypeOK, serverVars
<1>26. QED
  BY <1>2, <1>3, <1>4, <1>5, <1>8, <1>9, <1>10, <1>11, <1>12, <1>13, <1>14, <1>15, <1>16,
     <1>17, <1>18, <1>19, <1>20, <1>22, <1>23, <1>24, <1>25
     DEF UserStep, ClientStep

\* Of the messages a user's command is made into, none is of the cache's types.
LEMMA EnteredCallType ==
  ASSUME BasicTypeOK, NEW c \in Clients, NEW msg \in Entered(c)
  PROVE  msg.callType \notin {"Fresh", "Dump"}
<1>1. PICK command \in Commands[c] \ {"q"} : msg \in MessagesFor(command, c)
  BY Zenon DEF Entered
<1>2. command \in {"insert", "shift", "mode", "monitor", "read", "other"}
  OBVIOUS
<1>3. CASE command = "other"
  BY <1>1, <1>3 DEF MessagesFor, BasicTypeOK, OnlyCacheAsks
<1>4. CASE command = "read"
  BY <1>1, <1>4 DEF MessagesFor, Message
<1>5. CASE command = "insert"
  BY <1>1, <1>5 DEF MessagesFor, Message
<1>6. CASE command \in {"shift", "mode", "monitor"}
  BY <1>1, <1>6 DEF MessagesFor, Message
<1>7. QED
  BY <1>2, <1>3, <1>4, <1>5, <1>6

\* A step of one client that leaves it such a message and such a call will do.
LEMMA OnlyCacheAsksKept ==
  ASSUME BasicTypeOK, NEW c \in Clients,
         NEW m, lastMessage' = [ lastMessage EXCEPT ![c] = m ],
         m.callType \notin {"Fresh", "Dump"},
         \A d \in Clients \ {c} : pending'[d] = pending[d],
         pending'[c].call.callType \in {"Fresh", "Dump"} => pending'[c].call.strs # <<>>
  PROVE  OnlyCacheAsks'
  BY DEF BasicTypeOK, ClientTypeOK, OnlyCacheAsks

\* The same for a step that leaves the message alone.
LEMMA OnlyCacheAsksKeptByCall ==
  ASSUME BasicTypeOK, NEW c \in Clients, UNCHANGED lastMessage,
         \A d \in Clients \ {c} : pending'[d] = pending[d],
         pending'[c].call.callType \in {"Fresh", "Dump"} => pending'[c].call.strs # <<>>
  PROVE  OnlyCacheAsks'
  BY DEF BasicTypeOK, OnlyCacheAsks

\* The call that SendMessage makes, and no other, has changed.
LEMMA SendMessageCall ==
  ASSUME BasicTypeOK, NEW c \in Clients, NEW queues, NEW msg, NEW num, NEW run,
         SendMessage(queues, c, Srv, msg, num, run)
  PROVE  /\ pending'[c].call.callType = msg.callType
         /\ pending'[c].call.strs = msg.strs
         /\ \A d \in Clients \ {c} : pending'[d] = pending[d]
  BY DEF SendMessage, Numbered, BasicTypeOK, SenderTypeOK

\* No step of a client leaves it a message or a call that only the cache makes.
LEMMA ClientStepAsks ==
  ASSUME BasicTypeOK, NEW c \in Clients, UserStep(c) \/ ClientStep(c)
  PROVE  OnlyCacheAsks'
<1>1. c \in Nodes /\ pending \in [ Nodes -> [ call : Messages, sa : Nodes, tries : 0 .. NUM_TIMEOUTS ] ]
  BY DEF BasicTypeOK, SenderTypeOK
<1>2. NoCall.call.callType = "Start" /\ NoMessage.callType = "Start"
  BY DEF NoCall, NoMessage, Message
<1>3. ASSUME NEW queues, NEW callType \in {"Fresh", "Dump"}, NEW path, Ask(c, callType, path, queues)
      PROVE  /\ pending'[c].call.strs # <<>>
             /\ \A d \in Clients \ {c} : pending'[d] = pending[d]
  BY <1>3, SendMessageCall DEF Ask, Message
<1>4. ASSUME pending' = [ pending EXCEPT ![c] = NoCall ]
      PROVE  /\ pending'[c].call.callType = "Start"
             /\ \A d \in Clients \ {c} : pending'[d] = pending[d]
  BY <1>1, <1>2, <1>4
<1>5. \A request, edition : CopyRead(request, edition).callType = "Read"
  BY DEF CopyRead, Message
<1>6. FileMissing.callType = "Read"
  BY DEF FileMissing, Message
<1>7. ASSUME NEW resp, resp.callType = "Read", FinishRead(c, resp)
      PROVE  OnlyCacheAsks'
  BY <1>4, <1>7, OnlyCacheAsksKept DEF FinishRead
<1>8. ASSUME UNCHANGED <<lastMessage, pending>>
      PROVE  OnlyCacheAsks'
  BY <1>8 DEF BasicTypeOK, OnlyCacheAsks
<1>9. ASSUME Exit(c), UNCHANGED lastMessage
      PROVE  OnlyCacheAsks'
  BY <1>4, <1>9, OnlyCacheAsksKeptByCall DEF Exit
<1>10. ASSUME NEW request \in Requests(c), NEW callType \in {"Fresh", "Dump"},
              StartRead(c, request), Ask(c, callType, request.strs[1], inbox)
       PROVE  OnlyCacheAsks'
  <2>1. request.callType = "Read"
    BY DEF Requests
  <2>2. QED
    BY <1>3, <1>10, <2>1, OnlyCacheAsksKept, ZenonT(60) DEF StartRead
<1>11. CASE Launch(c)
  <2>1. Message("Start", <<>>, <<>>).callType = "Start"
    BY DEF Message
  <2>2. QED
    BY <1>2, <1>11, <2>1, SendMessageCall, OnlyCacheAsksKept DEF Launch
<1>12. CASE EnterCommand(c)
  BY <1>12, EnteredCallType, SendMessageCall, OnlyCacheAsksKeptByCall
     DEF EnterCommand, clientVars
<1>13. CASE Quit(c) \/ ReadMalformed(c) \/ ClientGivesUp(c)
  BY <1>9, <1>13 DEF Quit, ReadMalformed, ClientGivesUp, clientVars
<1>14. CASE ReadLocally(c)
  BY <1>5, <1>14, OnlyCacheAsksKept
     DEF ReadLocally, senderVars, BasicTypeOK, OnlyCacheAsks
<1>15. CASE AskForFile(c) \/ AskWhetherFresh(c)
  BY <1>10, <1>15 DEF AskForFile, AskWhetherFresh
<1>16. CASE ReceiveResponse(c)
  <2>1. Packet(c).msg.callType \notin {"Fresh", "Dump"}
    BY <1>16 DEF ReceiveResponse, Answered, IsAnswer
  <2>2. Numbered(Packet(c).msg, 0, 0).callType \notin {"Fresh", "Dump"}
    <3>1. Packet(c).msg \in Messages
      BY <1>1, <1>16, ConsumedType DEF ReceiveResponse, Answered, BasicTypeOK
    <3>2. QED
      BY <2>1, <3>1, NumberedType
  <2>3. QED
    BY <1>4, <1>16, <2>2, OnlyCacheAsksKept DEF ReceiveResponse
<1>17. CASE ReceiveNoFile(c) \/ ReceiveFile(c) \/ ReceiveUnmodified(c)
  BY <1>5, <1>6, <1>7, <1>17 DEF ReceiveNoFile, ReceiveFile, ReceiveUnmodified
<1>18. CASE ReceiveFileAndAsk(c) \/ ReceiveModified(c)
  BY <1>3, <1>18, OnlyCacheAsksKeptByCall DEF ReceiveFileAndAsk, ReceiveModified
<1>19. CASE ReceiveEndResponse(c)
  BY <1>4, <1>19, OnlyCacheAsksKeptByCall DEF ReceiveEndResponse, clientVars
<1>20. CASE EndMonitoring(c)
  <2>1. Message("MonitorEnd", <<>>, <<>>).callType = "MonitorEnd"
    BY DEF Message
  <2>2. QED
    BY <1>20, <2>1, SendMessageCall, OnlyCacheAsksKeptByCall DEF EndMonitoring, clientVars
<1>21. CASE ShowUpdate(c) \/ CrashOnMissingContent(c) \/ SurviveMissingContent(c)
              \/ IgnoreDuplicate(c)
  BY <1>8, <1>21
     DEF ShowUpdate, CrashOnMissingContent, SurviveMissingContent, LacksContent,
         IgnoreDuplicate, TakePacket
<1>22. CASE ClientDiscards(c) \/ ClientRetransmits(c)
  <2>1. /\ pending'[c].call = pending[c].call /\ UNCHANGED lastMessage
        /\ \A d \in Clients \ {c} : pending'[d] = pending[d]
    BY <1>1, <1>22
       DEF ClientDiscards, ClientRetransmits, DiscardImproper, Retransmit, clientVars
  <2>2. QED
    BY <2>1, OnlyCacheAsksKeptByCall DEF BasicTypeOK, OnlyCacheAsks
<1>23. QED
  BY <1>11, <1>12, <1>13, <1>14, <1>15, <1>16, <1>17, <1>18, <1>19, <1>20, <1>21, <1>22
     DEF UserStep, ClientStep

\* Every step of a client keeps all variables well typed.
LEMMA ClientStepType ==
  ASSUME BasicTypeOK, NEW c \in Clients, UserStep(c) \/ ClientStep(c)
  PROVE  BasicTypeOK'
  BY ClientStepVars, ClientStepAsks DEF BasicTypeOK

-----------------------------------------------------------------------------
(* The types of the server's variables.                                     *)

\* The server handles a message of one of the nodes.
LEMMA RequestType ==
  ASSUME BasicTypeOK, Serving
  PROVE  /\ Request \in Messages
         /\ Request.num \in Nat /\ Request.run \in Nat
         /\ Caller \in Nodes
         /\ Consumed(Srv) \in [ Nodes -> Seq(Packets) ]
         /\ WithCaller \in Seq(Nodes)
<1>1. /\ Request \in Messages
      /\ Caller \in Nodes
      /\ Consumed(Srv) \in [ Nodes -> Seq(Packets) ]
  BY ConsumedType DEF BasicTypeOK, Serving, Request, Caller
<1>2. WithCaller \in Seq(Nodes)
  BY <1>1 DEF WithCaller, BasicTypeOK, ServerTypeOK
<1>3. QED
  BY <1>1, <1>2 DEF Messages

\* execute has returned: the reply leaves the state well typed.
LEMMA RespondType ==
  ASSUME BasicTypeOK, Serving, clientMap' = WithCaller, NEW resp \in Messages, Respond(resp)
  PROVE  /\ SenderTypeOK'
         /\ clientMap' \in Seq(Nodes)
         /\ messageMap' \subseteq [ from : Nodes, num : Nat, message : Messages ]
         /\ UNCHANGED job
<1>1. inbox' \in [ Nodes -> Seq(Packets) ] /\ drops' \in 0 .. MaxDrops
  BY RequestType, SendResponseType DEF Respond, BasicTypeOK
<1>2. MapAfterStart \subseteq [ from : Nodes, num : Nat, message : Messages ]
  BY DEF MapAfterStart, BasicTypeOK, ServerTypeOK
<1>3. [ from |-> Caller, num |-> Request.num, message |-> resp ]
        \in [ from : Nodes, num : Nat, message : Messages ]
  BY RequestType
<1>4. messageMap' \subseteq [ from : Nodes, num : Nat, message : Messages ]
  BY <1>2, <1>3 DEF Respond, AddToMap
<1>5. QED
  BY <1>1, <1>4, RequestType DEF Respond, BasicTypeOK, SenderTypeOK, ServerTypeOK

\* The history grows by an execution.
LEMMA RecordType ==
  ASSUME BasicTypeOK, Serving, Record
  PROVE  executed' \subseteq Executions /\ reexecuted' \subseteq executed'
<1>1. Execution \in Executions
  BY RequestType DEF Execution, Executions, BasicTypeOK, SenderTypeOK
<1>2. QED
  BY <1>1 DEF Record, BasicTypeOK, ServerTypeOK

\* A notification leaves the variables of Sender well typed.
LEMMA NotifyType ==
  ASSUME BasicTypeOK, NEW queues \in [ Nodes -> Seq(Packets) ], NEW c \in Clients,
         NEW path \in Files, NEW edition \in Nat,
         Notify(queues, c, path, edition), UNCHANGED runs
  PROVE  SenderTypeOK'
<1>1. Message("MonitorUpdate", <<>>, <<path, edition>>) \in Messages
  BY PlainMessageType DEF CallTypes
<1>2. messageNum[Srv] \in Nat /\ runs[Srv] \in Nat /\ runs' \in [ Nodes -> Nat ]
  BY DEF BasicTypeOK, SenderTypeOK
<1>3. QED
  BY <1>1, <1>2, SendMessageType DEF Notify, BasicTypeOK

\* An edit leaves the files well typed and names one of them.
LEMMA EditType ==
  ASSUME BasicTypeOK, NEW path \in Files, Edit(path)
  PROVE  /\ Serving
         /\ files' \in [ Files -> Nat ]
         /\ files[path] + 1 \in Nat
         /\ Request.callType \in CallTypes /\ Request.strs[1] = path
         /\ clientMap' = WithCaller
         /\ executed' \subseteq Executions /\ reexecuted' \subseteq executed'
<1>1. Serving /\ clientMap' = WithCaller /\ Request.callType \in CallTypes
  BY DEF Edit, Executing, CallTypes
<1>2. files' \in [ Files -> Nat ] /\ files[path] + 1 \in Nat
  BY DEF Edit, BasicTypeOK, ServerTypeOK
<1>3. executed' \subseteq Executions /\ reexecuted' \subseteq executed'
  BY <1>1, RecordType DEF Edit
<1>4. QED
  BY <1>1, <1>2, <1>3 DEF Edit

\* Every step of the server leaves the variables of each part well typed.
LEMMA ServerStepVars ==
  ASSUME BasicTypeOK, ServerStep
  PROVE  SenderTypeOK' /\ ClientTypeOK' /\ ServerTypeOK'
<1>1. Srv \in Nodes /\ <<>> \in Seq(Nat)
  OBVIOUS
<1>2. ASSUME NEW callTypes \in SUBSET CallTypes, Executing(callTypes),
             NEW resp \in Messages, Respond(resp), files' \in [ Files -> Nat ],
             executed' \subseteq Executions, reexecuted' \subseteq executed',
             UNCHANGED clientVars
      PROVE  SenderTypeOK' /\ ClientTypeOK' /\ ServerTypeOK'
  BY <1>2, RespondType DEF Executing, BasicTypeOK, ClientTypeOK, ServerTypeOK, clientVars
<1>3. ASSUME NEW callTypes \in SUBSET CallTypes, Executing(callTypes), Record
      PROVE  executed' \subseteq Executions /\ reexecuted' \subseteq executed'
  BY <1>3, RecordType DEF Executing
<1>4. \A callType \in {"Insert", "Shift", "Monitor", "MonitorEnd", "Mode", "Fresh", "Dump", "Start"} :
        callType \in CallTypes
  BY DEF CallTypes
<1>5. CASE AnswerDuplicate /\ UNCHANGED clientVars
  <2>1. PICK e \in Hits(Caller, Request.num) :
          SendResponse(Consumed(Srv), Srv, Caller, Request, e.message)
    BY <1>5 DEF AnswerDuplicate
  <2>2. e.message \in Messages
    BY DEF Hits, BasicTypeOK, ServerTypeOK
  <2>3. inbox' \in [ Nodes -> Seq(Packets) ] /\ drops' \in 0 .. MaxDrops
    BY <1>5, <2>1, <2>2, RequestType, SendResponseType DEF AnswerDuplicate, BasicTypeOK
  <2>4. QED
    BY <1>5, <2>3, RequestType DEF AnswerDuplicate, BasicTypeOK, SenderTypeOK, ClientTypeOK,
       ServerTypeOK, clientVars
<1>6. CASE FailEdit /\ UNCHANGED clientVars
  <2>1. PICK code \in {FileBoundException, NoFileException} :
          Respond(Response(Request.callType, <<Failure, code>>, <<>>))
    BY <1>6 DEF FailEdit
  <2>2. Response(Request.callType, <<Failure, code>>, <<>>) \in Messages
    BY <1>4, <1>6, PlainMessageType
       DEF Response, FailEdit, Executing, Failure, FileBoundException, NoFileException
  <2>3. QED
    BY <1>2, <1>3, <1>4, <1>6, <2>1, <2>2 DEF FailEdit, BasicTypeOK, ServerTypeOK
<1>7. CASE EditUnmonitored /\ UNCHANGED clientVars
  <2>1. PICK path \in Files :
          Edit(path) /\ Respond(Response(Request.callType, <<Good>>, <<>>))
    BY <1>7 DEF EditUnmonitored
  <2>2. Response(Request.callType, <<Good>>, <<>>) \in Messages
    BY <2>1, EditType, PlainMessageType DEF Response, Good
  <2>3. Executing({"Insert", "Shift"})
    BY <2>1 DEF Edit
  <2>4. QED
    BY <1>2, <1>4, <1>7, <2>1, <2>2, <2>3, EditType
<1>8. CASE EditMonitored /\ UNCHANGED clientVars
  <2>1. PICK path \in Files, c \in Clients :
          /\ Edit(path)
          /\ job'.from = Caller /\ job'.call = Request
          /\ Notify(Consumed(Srv), c, path, files[path] + 1)
          /\ UNCHANGED <<messageMap, runs>>
    BY <1>8 DEF EditMonitored
  <2>2. SenderTypeOK'
    BY <2>1, EditType, RequestType, NotifyType
  <2>3. ServerTypeOK'
    BY <2>1, EditType, RequestType DEF BasicTypeOK, ServerTypeOK
  <2>4. QED
    BY <1>8, <2>2, <2>3 DEF BasicTypeOK, ClientTypeOK, clientVars
<1>9. CASE NotifyNext /\ UNCHANGED clientVars
  <2> DEFINE path == job.call.strs[1]
  <2>1. job # NoJob
    BY <1>9 DEF NotifyNext, NoJob
  <2>2. path \in Files /\ files[path] \in Nat
    BY <2>1 DEF BasicTypeOK, ServerTypeOK
  <2>3. Consumed(Srv) \in [ Nodes -> Seq(Packets) ]
    BY <1>1, <1>9, ConsumedType DEF NotifyNext, Answered, BasicTypeOK
  <2>4. SenderTypeOK'
    BY <1>9, <2>2, <2>3, NotifyType DEF NotifyNext
  <2>5. job'.from \in Nodes /\ job'.call \in Messages /\ job'.call.strs[1] \in Files
    BY <1>9, <2>2 DEF NotifyNext, BasicTypeOK, ServerTypeOK
  <2>6. QED
    BY <1>9, <2>4, <2>5 DEF NotifyNext, BasicTypeOK, ClientTypeOK, ServerTypeOK, clientVars
<1>10. CASE NotifiedAll /\ UNCHANGED clientVars
  <2> DEFINE resp == Response(job.call.callType, <<Good>>, <<>>)
  <2>1. job.call \in Messages /\ job.from \in Nodes
    BY DEF BasicTypeOK, ServerTypeOK
  <2>2. resp \in Messages
    <3>1. job.call.callType \in CallTypes \cup {Garbage} /\ <<Good>> \in Seq(Nat)
      BY <2>1 DEF Messages, Good
    <3>2. QED
      BY <3>1, MessageType, StringsType DEF Response
  <2>3. Consumed(Srv) \in [ Nodes -> Seq(Packets) ]
    BY <1>1, <1>10, ConsumedType DEF NotifiedAll, Answered, BasicTypeOK
  <2>4. inbox' \in [ Nodes -> Seq(Packets) ] /\ drops' \in 0 .. MaxDrops
    BY <1>1, <1>10, <2>1, <2>2, <2>3, SendResponseType DEF NotifiedAll, BasicTypeOK
  <2>5. messageMap' \subseteq [ from : Nodes, num : Nat, message : Messages ]
    <3>1. [ from |-> job.from, num |-> job.call.num, message |-> resp ]
            \in [ from : Nodes, num : Nat, message : Messages ]
      BY <2>1, <2>2 DEF Messages
    <3>2. QED
      BY <1>10, <3>1 DEF NotifiedAll, AddToMap, BasicTypeOK, ServerTypeOK
  <2>6. SenderTypeOK'
    BY <1>1, <1>10, <2>4, NoCallType DEF NotifiedAll, BasicTypeOK, SenderTypeOK
  <2>7. job' = NoJob /\ NoJob.from \in Nodes /\ NoJob.call \in Messages
    BY <1>10, PlainMessageType DEF NotifiedAll, NoJob, CallTypes
  <2>8. QED
    BY <1>10, <2>5, <2>6, <2>7 DEF NotifiedAll, BasicTypeOK, ClientTypeOK, ServerTypeOK, clientVars
<1>11. CASE Register /\ UNCHANGED clientVars
  <2>1. Request.ints[1] \in Nat
    BY <1>11, RequestType DEF Register, Executing, WellFormed, Messages
  <2>2. Response("Monitor", <<Good, Request.ints[1]>>, <<>>) \in Messages
    BY <1>4, <2>1, PlainMessageType DEF Response, Good
  <2>3. QED
    BY <1>2, <1>3, <1>4, <1>11, <2>2 DEF Register, BasicTypeOK, ServerTypeOK
<1>12. CASE Unregister /\ UNCHANGED clientVars
  <2>1. Response("MonitorEnd", <<>>, <<>>) \in Messages
    BY <1>4, PlainMessageType DEF Response
  <2>2. QED
    BY <1>2, <1>3, <1>4, <1>12, <2>1 DEF Unregister, BasicTypeOK, ServerTypeOK
<1>13. CASE GetMode /\ UNCHANGED clientVars
  <2>1. PICK resp : /\ Respond(resp)
                    /\ resp = IF Exists(Request.strs[1])
                              THEN Response("Mode", <<Good>>, <<files[Request.strs[1]]>>)
                              ELSE Response("Mode", <<Failure, NoFileException>>, <<>>)
    BY <1>13 DEF GetMode
  <2>2. resp \in Messages
    BY <1>4, <2>1, PlainMessageType
       DEF Response, Exists, Good, Failure, NoFileException, BasicTypeOK, ServerTypeOK
  <2>3. QED
    BY <1>2, <1>3, <1>4, <1>13, <2>1, <2>2 DEF GetMode, BasicTypeOK, ServerTypeOK
<1>14. CASE GreetClient /\ UNCHANGED clientVars
  <2>1. Response("Start", <<Good>>, <<>>) \in Messages
    BY <1>4, PlainMessageType DEF Response, Good
  <2>2. QED
    BY <1>2, <1>4, <1>14, <2>1 DEF GreetClient, BasicTypeOK, ServerTypeOK
<1>15. CASE ServeLateAcknowledgement /\ UNCHANGED clientVars
  <2>1. PICK callType \in CallTypes \cup {Garbage} : Respond(Response(callType, <<>>, <<>>))
    BY <1>15 DEF ServeLateAcknowledgement
  <2>2. Response(callType, <<>>, <<>>) \in Messages
    BY <1>1, MessageType, StringsType DEF Response
  <2>3. {"MonitorUpdate"} \subseteq CallTypes
    BY DEF CallTypes
  <2>4. QED
    BY <1>2, <1>15, <2>1, <2>2, <2>3 DEF ServeLateAcknowledgement, BasicTypeOK, ServerTypeOK
<1>16. CASE ServeMalformed /\ UNCHANGED clientVars
  BY <1>1, <1>16, ExitType
     DEF ServeMalformed, BasicTypeOK, ClientTypeOK, ServerTypeOK, clientVars, serverVars
<1>17. CASE (ServerDiscards \/ ServerRetransmits \/ ServerGivesUp) /\ UNCHANGED clientVars
  BY <1>1, <1>17, DiscardImproperType, RetransmitType, ExitType
     DEF ServerDiscards, ServerRetransmits, ServerGivesUp,
         BasicTypeOK, ClientTypeOK, ServerTypeOK, clientVars, serverVars
<1>18. CASE TellModification /\ UNCHANGED clientVars
  <2>1. PICK resp : /\ Respond(resp)
                    /\ resp = IF Exists(Request.strs[1])
                              THEN Response("Fresh", <<Good, files[Request.strs[1]]>>, <<>>)
                              ELSE Response("Fresh", <<Failure, NoFileException>>, <<>>)
    BY <1>18 DEF TellModification
  <2>2. resp \in Messages
    BY <1>4, <2>1, PlainMessageType
       DEF Response, Exists, Good, Failure, NoFileException, BasicTypeOK, ServerTypeOK
  <2>3. QED
    BY <1>2, <1>3, <1>4, <1>18, <2>1, <2>2 DEF TellModification, BasicTypeOK, ServerTypeOK
<1>19. CASE DumpFile /\ UNCHANGED clientVars
  <2>1. PICK resp : /\ Respond(resp)
                    /\ resp = IF Exists(Request.strs[1])
                              THEN Response("Dump", <<>>, <<files[Request.strs[1]]>>)
                              ELSE Response("Dump", <<Failure, NoFileException>>, <<>>)
    BY <1>19 DEF DumpFile
  <2>2. resp \in Messages
    BY <1>4, <2>1, PlainMessageType
       DEF Response, Exists, Failure, NoFileException, BasicTypeOK, ServerTypeOK
  <2>3. QED
    BY <1>2, <1>3, <1>4, <1>19, <2>1, <2>2 DEF DumpFile, BasicTypeOK, ServerTypeOK
<1>20. QED
  BY <1>5, <1>6, <1>7, <1>8, <1>9, <1>10, <1>11, <1>12, <1>13, <1>14, <1>15, <1>16, <1>17,
     <1>18, <1>19
     DEF ServerStep

\* No step of the server changes what a client has asked or made.
LEMMA ServerStepKeepsCalls ==
  ASSUME BasicTypeOK, ServerStep
  PROVE  UNCHANGED lastMessage /\ \A c \in Clients : pending'[c] = pending[c]
<1>1. ASSUME NEW p, pending' = [ pending EXCEPT ![Srv] = p ]
      PROVE  \A c \in Clients : pending'[c] = pending[c]
  BY <1>1 DEF BasicTypeOK, SenderTypeOK
<1>2. ASSUME NEW resp, Respond(resp)
      PROVE  UNCHANGED pending
  BY <1>2 DEF Respond
<1>3. ASSUME NEW queues, NEW c, NEW path, NEW edition, Notify(queues, c, path, edition)
      PROVE  \A d \in Clients : pending'[d] = pending[d]
  <2>1. PICK p : pending' = [ pending EXCEPT ![Srv] = p ]
    BY <1>3 DEF Notify, SendMessage
  <2>2. QED
    BY <1>1, <2>1
<1>4. UNCHANGED clientVars
  BY DEF ServerStep
<1>5. CASE AnswerDuplicate \/ FailEdit \/ EditUnmonitored \/ Register \/ Unregister
  BY <1>2, <1>4, <1>5
     DEF AnswerDuplicate, FailEdit, EditUnmonitored, Register, Unregister, clientVars
<1>6. CASE GetMode \/ TellModification \/ DumpFile \/ GreetClient \/ ServeLateAcknowledgement
  BY <1>2, <1>4, <1>6
     DEF GetMode, TellModification, DumpFile, GreetClient, ServeLateAcknowledgement, clientVars
<1>7. CASE EditMonitored \/ NotifyNext
  BY <1>3, <1>4, <1>7 DEF EditMonitored, NotifyNext, clientVars
<1>8. CASE NotifiedAll
  BY <1>1, <1>4, <1>8 DEF NotifiedAll, clientVars
<1>9. CASE ServeMalformed \/ ServerGivesUp
  BY <1>1, <1>4, <1>9 DEF ServeMalformed, ServerGivesUp, Exit, clientVars
<1>10. CASE ServerDiscards \/ ServerRetransmits
  BY <1>4, <1>10
     DEF ServerDiscards, ServerRetransmits, DiscardImproper, Retransmit, clientVars,
         BasicTypeOK, SenderTypeOK
<1>11. QED
  BY <1>5, <1>6, <1>7, <1>8, <1>9, <1>10 DEF ServerStep

\* Every step of the server keeps all variables well typed.
LEMMA ServerStepType ==
  ASSUME BasicTypeOK, ServerStep
  PROVE  BasicTypeOK'
<1>1. OnlyCacheAsks'
  BY ServerStepKeepsCalls DEF BasicTypeOK, OnlyCacheAsks
<1>2. QED
  BY <1>1, ServerStepVars DEF BasicTypeOK


-----------------------------------------------------------------------------

\* The start of another server leaves all variables well typed.
LEMMA RestartType ==
  ASSUME BasicTypeOK, Restart, UNCHANGED clientVars
  PROVE  BasicTypeOK'
<1>1. SenderTypeOK'
  BY DEF Restart, BasicTypeOK, SenderTypeOK
<1>2. NoJob.from \in Nodes /\ NoJob.call \in Messages
  BY PlainMessageType DEF NoJob, CallTypes
<1>3. OnlyCacheAsks'
  BY DEF Restart, BasicTypeOK, OnlyCacheAsks, clientVars
<1>4. QED
  BY <1>1, <1>2, <1>3 DEF Restart, BasicTypeOK, ClientTypeOK, ServerTypeOK, clientVars

\* The initial states are well typed.
LEMMA InitType == Init => BasicTypeOK
<1> SUFFICES ASSUME Init PROVE BasicTypeOK
  OBVIOUS
<1>1. SenderTypeOK
  BY NoCallType DEF Init, SenderInit, SenderTypeOK
<1>2. ClientTypeOK
  BY PlainMessageType DEF Init, ClientInit, ClientTypeOK, NoMessage, NoCopies, CallTypes
<1>3. NoJob.from \in Nodes /\ NoJob.call \in Messages
  BY PlainMessageType DEF NoJob, CallTypes
<1>4. ServerTypeOK
  BY <1>3 DEF Init, ServerInit, ServerTypeOK
<1>5. OnlyCacheAsks
  BY DEF Init, SenderInit, ClientInit, OnlyCacheAsks, NoMessage, NoCall, Message
<1>6. QED
  BY <1>1, <1>2, <1>4, <1>5 DEF BasicTypeOK

\* A step of the system keeps all variables well typed.
LEMMA NextType == BasicTypeOK /\ [Next]_vars => BasicTypeOK'
<1> SUFFICES ASSUME BasicTypeOK, [Next]_vars PROVE BasicTypeOK'
  OBVIOUS
<1>1. CASE UNCHANGED vars
  BY <1>1 DEF vars, senderVars, clientVars, serverVars,
     BasicTypeOK, SenderTypeOK, ClientTypeOK, OnlyCacheAsks, ServerTypeOK
<1>2. QED
  BY <1>1, ClientStepType, ServerStepType, RestartType DEF Next

\* BasicTypeOK holds in every behaviour.
LEMMA BasicTypeInvariant == Spec => []BasicTypeOK
<1>1. QED
  BY InitType, NextType, PTL DEF Spec

-----------------------------------------------------------------------------
(* The entries of the monitor table.                                        *)

Entry == [ filepath : Files, clientId : DOMAIN clientMap, startTime : Nat ]

\* The address of the caller has a number, and the map only grows.
LEMMA ClientNumType ==
  ASSUME BasicTypeOK, Serving
  PROVE  /\ ClientNum \in DOMAIN WithCaller
         /\ DOMAIN clientMap \subseteq DOMAIN WithCaller
<1>1. clientMap \in Seq(Nodes) /\ Caller \in Nodes
  BY RequestType DEF BasicTypeOK, ServerTypeOK
<1>2. \E i \in DOMAIN WithCaller : WithCaller[i] = Caller
  <2>1. CASE IsKnown(Caller)
    BY <2>1 DEF WithCaller, IsKnown
  <2>2. CASE ~IsKnown(Caller)
    <3>1. WithCaller = Append(clientMap, Caller)
      BY <2>2 DEF WithCaller
    <3>2. /\ Len(clientMap) + 1 \in DOMAIN Append(clientMap, Caller)
          /\ Append(clientMap, Caller)[Len(clientMap) + 1] = Caller
      BY <1>1
    <3> QED BY <3>1, <3>2
  <2> QED BY <2>1, <2>2
<1>3. DOMAIN clientMap \subseteq DOMAIN Append(clientMap, Caller)
  BY <1>1
<1> QED BY <1>2, <1>3 DEF ClientNum, WithCaller

\* A longer map leaves the entries well typed.
LEMMA EntriesKept ==
  ASSUME DOMAIN clientMap \subseteq (DOMAIN clientMap)', NEW list \in Seq(Entry)
  PROVE  list \in Seq(Entry')
<1>1. Entry \subseteq Entry'
  BY DEF Entry
<1> QED BY <1>1

\* Each step of the server keeps the entries well typed.
LEMMA ServerStepEntries ==
  ASSUME BasicTypeOK, MonitorsTypeOK, ServerStep
  PROVE  MonitorsTypeOK'
<1>1. monitors \in Seq(Entry) /\ job.todo \in Seq(Entry)
  BY DEF MonitorsTypeOK, Entry
<1>2. ASSUME monitors' \in Seq(Entry'), job'.todo \in Seq(Entry')
      PROVE  MonitorsTypeOK'
  BY <1>2 DEF MonitorsTypeOK, Entry
<1>3. ASSUME DOMAIN clientMap \subseteq (DOMAIN clientMap)', UNCHANGED <<monitors, job>>
      PROVE  MonitorsTypeOK'
  BY <1>1, <1>2, <1>3, EntriesKept
<1>4. ASSUME Serving, clientMap' = WithCaller
      PROVE  DOMAIN clientMap \subseteq (DOMAIN clientMap)'
  BY <1>4, ClientNumType
<1>5. CASE \/ AnswerDuplicate \/ FailEdit \/ EditUnmonitored \/ GetMode \/ TellModification
           \/ DumpFile \/ GreetClient \/ ServeLateAcknowledgement
  BY <1>3, <1>4, <1>5
     DEF AnswerDuplicate, FailEdit, EditUnmonitored, Edit, GetMode, TellModification, DumpFile,
         GreetClient, ServeLateAcknowledgement, Executing, Respond
<1>6. CASE ServeMalformed \/ ServerDiscards \/ ServerRetransmits \/ ServerGivesUp
  BY <1>3, <1>6
     DEF ServeMalformed, ServerDiscards, ServerRetransmits, ServerGivesUp, serverVars
<1>7. CASE EditMonitored
  <2>1. PICK path \in Files :
          /\ Edit(path)
          /\ job' = [ from |-> Caller, call |-> Request, todo |-> Sweep(monitors, path) ]
    BY <1>7 DEF EditMonitored
  <2>2. Serving /\ clientMap' = WithCaller /\ UNCHANGED monitors
    BY <2>1 DEF Edit, Executing
  <2>3. Sweep(monitors, path) \in Seq(Entry)
    BY <1>1, SweepFinds
  <2>4. job'.todo \in Seq(Entry) /\ monitors' \in Seq(Entry)
    BY <1>1, <2>1, <2>2, <2>3
  <2> QED BY <1>2, <1>4, <2>2, <2>4, EntriesKept
<1>8. CASE NotifyNext
  <2>1. Len(job.todo) > 1 /\ job'.todo = Tail(job.todo) /\ UNCHANGED <<monitors, clientMap>>
    BY <1>8 DEF NotifyNext
  <2>2. Tail(job.todo) \in Seq(Entry)
    BY <1>1, <2>1
  <2>3. job'.todo \in Seq(Entry) /\ monitors' \in Seq(Entry)
    BY <1>1, <2>1, <2>2
  <2> QED BY <1>2, <2>1, <2>3, EntriesKept
<1>9. CASE NotifiedAll
  <2>1. job'.todo = <<>> /\ UNCHANGED <<monitors, clientMap>>
    BY <1>9 DEF NotifiedAll, NoJob
  <2> QED BY <1>1, <1>2, <2>1, EntriesKept
<1>10. CASE Register
  <2> DEFINE e == [ filepath |-> Request.strs[1], clientId |-> ClientNum,
                    startTime |-> files[Request.strs[1]] ]
  <2>1. /\ Serving /\ clientMap' = WithCaller /\ WellFormed /\ Request.callType = "Monitor"
        /\ monitors' = Append(monitors, e) /\ UNCHANGED job
    BY <1>10 DEF Register, Executing, Respond
  <2>2. Request.strs[1] \in Files
    BY <2>1, RequestType DEF WellFormed, Messages
  <2>3. e \in Entry'
    BY <2>1, <2>2, ClientNumType DEF Entry, BasicTypeOK, ServerTypeOK
  <2>4. monitors \in Seq(Entry') /\ job'.todo \in Seq(Entry')
    BY <1>1, <1>4, <2>1, EntriesKept
  <2>5. Append(monitors, e) \in Seq(Entry')
    BY <2>3, <2>4
  <2> QED BY <1>2, <2>1, <2>4, <2>5
<1>11. CASE Unregister
  <2>1. /\ Serving /\ clientMap' = WithCaller /\ UNCHANGED job
        /\ monitors' = FindRemove(monitors, ClientNum)
    BY <1>11 DEF Unregister, Executing, Respond
  <2>2. FindRemove(monitors, ClientNum) \in Seq(Entry)
    BY <1>1, FindRemoveDrops
  <2> QED BY <1>1, <1>2, <1>4, <2>1, <2>2, EntriesKept
<1> QED
  BY <1>5, <1>6, <1>7, <1>8, <1>9, <1>10, <1>11 DEF ServerStep

\* A step of the system keeps the entries well typed.
LEMMA NextEntries == BasicTypeOK /\ MonitorsTypeOK /\ [Next]_vars => MonitorsTypeOK'
<1> SUFFICES ASSUME BasicTypeOK, MonitorsTypeOK, [Next]_vars PROVE MonitorsTypeOK'
  OBVIOUS
<1>1. ASSUME UNCHANGED serverVars PROVE MonitorsTypeOK'
  BY <1>1 DEF MonitorsTypeOK, serverVars
<1>2. ASSUME Restart PROVE MonitorsTypeOK'
  BY <1>2 DEF Restart, MonitorsTypeOK, NoJob
<1>3. ASSUME NEW c \in Clients, UserStep(c) \/ ClientStep(c)
      PROVE  UNCHANGED serverVars
  BY <1>3 DEF UserStep, ClientStep
<1> QED
  BY <1>1, <1>2, <1>3, ServerStepEntries DEF Next, vars

\* Whatever the processes do, the queues hold packets of nodes, the calls that
\* sendMessage is blocked on are messages, and the tables hold what belongs in
\* them: whoever is to be notified is in the client map, though findRemove and
\* sweep pass over a table of any length.
THEOREM TypeInvariant == Spec => []TypeOK
<1>1. Init => MonitorsTypeOK
  BY DEF Init, ServerInit, MonitorsTypeOK, NoJob
<1>2. BasicTypeOK /\ MonitorsTypeOK => TypeOK
  BY DEF BasicTypeOK, TypeOK
<1>3. QED
  BY <1>1, <1>2, NextEntries, BasicTypeInvariant, PTL DEF Spec
=============================================================================
