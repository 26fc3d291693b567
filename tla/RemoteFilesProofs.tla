-------------------------- MODULE RemoteFilesProofs --------------------------
(***************************************************************************)
(* Theorems about RemoteFiles for any commands, any files, any bound on    *)
(* the length of a packet and any number of calls: the bytes carry what    *)
(* the user means, and the two together implement TextService.             *)
(***************************************************************************)
EXTENDS RemoteFilesInvariants, TextProofs

-----------------------------------------------------------------------------
(* Packets: what is sent is received.                                       *)

\* What the bounds are, without their digits.
LEMMA Bounds ==
  /\ INT_MAX \in Nat /\ \A n \in Nat : n <= INT_MAX => n \in uint
  /\ MaxDatagram \in Nat /\ MaxDatagram >= 36 /\ MaxDatagram < INT_MAX
  /\ MaxCalls \in Nat /\ MaxCalls <= INT_MAX
<1>1. INT_MAX \in Nat /\ INT_MAX < 4294967296
  BY SMT DEF INT_MAX
<1>2. \A n \in Nat : n <= INT_MAX => n \in uint
  BY <1>1, SMT DEF uint
<1> QED BY <1>1, <1>2, BoundsAssumption

\* How long a string is with its length in front of it.
LEMMA WordsOf ==
  ASSUME NEW s \in String
  PROVE  stringLength(s) = 4 + Words(s) /\ Words(s) \in Nat /\ Words(s) >= Len(s)
<1>1. PICK len \in Nat : len = Len(s)
  BY LenProperties DEF String
<1>2. len + dif(len) = 4 * ((len + 3) \div 4)
  BY DEF dif, uint_size
<1>3. 4 * ((len + 3) \div 4) \in Nat /\ 4 * ((len + 3) \div 4) >= len
  OBVIOUS
<1>4. dif(len) \in Nat
  BY DifFills
<1> QED BY <1>1, <1>2, <1>3, <1>4 DEF stringLength, Words, uint_size

\* How long no string, one and two are.
LEMMA FewStrings ==
  /\ stringsLength(<<>>) = 4
  /\ \A s \in String : stringsLength(<< s >>) = 8 + Words(s)
  /\ \A s, t \in String : stringsLength(<< s, t >>) = 12 + Words(s) + Words(t)
<1>1. stringsLength(<<>>) = 4
  <2>1. <<>> \in Seq(String) /\ Len(<<>>) = 0
    OBVIOUS
  <2>2. PICK strs \in Seq(String) : strs = <<>>
    BY <2>1, Zenon
  <2>3. PICK ends \in [ 0 .. Len(strs) -> Nat ] : AreEnds(ends, strs) /\ stringsLength(strs) = ends[Len(strs)]
    BY StringsLengthUnfolds
  <2> QED BY <2>2, <2>3 DEF AreEnds
<1>2. ASSUME NEW s \in String PROVE stringsLength(<< s >>) = 8 + Words(s)
  <2>1. << s >> \in Seq(String) /\ Len(<< s >>) = 1 /\ << s >>[1] = s
    OBVIOUS
  <2>2. PICK strs \in Seq(String) : strs = << s >>
    BY <2>1, Zenon
  <2>3. PICK ends \in [ 0 .. Len(strs) -> Nat ] : AreEnds(ends, strs) /\ stringsLength(strs) = ends[Len(strs)]
    BY StringsLengthUnfolds
  <2>4. ends[0] = 4 /\ ends[1] = ends[0] + stringLength(s) /\ stringsLength(strs) = ends[1]
    BY <2>1, <2>2, <2>3 DEF AreEnds
  <2> QED BY <2>2, <2>4, WordsOf
<1>3. ASSUME NEW s \in String, NEW t \in String PROVE stringsLength(<< s, t >>) = 12 + Words(s) + Words(t)
  <2>1. << s, t >> \in Seq(String) /\ Len(<< s, t >>) = 2 /\ << s, t >>[1] = s /\ << s, t >>[2] = t
    OBVIOUS
  <2>2. PICK strs \in Seq(String) : strs = << s, t >>
    BY <2>1, Zenon
  <2>3. PICK ends \in [ 0 .. Len(strs) -> Nat ] : AreEnds(ends, strs) /\ stringsLength(strs) = ends[Len(strs)]
    BY StringsLengthUnfolds
  <2>4. /\ ends[0] = 4 /\ ends[1] = ends[0] + stringLength(s)
        /\ ends[2] = ends[1] + stringLength(t) /\ stringsLength(strs) = ends[2]
    BY <2>1, <2>2, <2>3 DEF AreEnds
  <2>5. /\ stringLength(s) = 4 + Words(s) /\ Words(s) \in Nat
        /\ stringLength(t) = 4 + Words(t) /\ Words(t) \in Nat
    BY WordsOf
  <2> QED BY <2>2, <2>4, <2>5
<1> QED BY <1>1, <1>2, <1>3

\* The message that recvWholeStream and unmarshalMessage make of some bytes.
ReceivedFrom(bytes) == unmarshalMessage(SubSeq(bytes, 1, getMarshalLength(bytes))).value

\* A message is sent if it is not too long, and then arrives as it is.
LEMMA SentArrives ==
  ASSUME NEW m \in Packable
  PROVE  /\ Sent(m) \in String
         /\ Sent(m) = <<>> <=> messageSize(m) > MaxDatagram
         /\ Sent(m) # <<>> =>
              /\ Len(Sent(m)) = messageSize(m)
              /\ getMarshalLength(Sent(m)) = Len(Sent(m))
              /\ getMarshalType(Sent(m)) = m.type
              /\ unmarshalMessage(Sent(m)) = [ value |-> m, length |-> Len(Sent(m)) ]
              /\ ReceivedFrom(Sent(m)) = m
<1>1. /\ MaxDatagram \in Nat /\ MaxDatagram < INT_MAX /\ INT_MAX \in Nat
      /\ \A n \in Nat : n <= INT_MAX => n \in uint
  BY Bounds
<1>2. /\ Len(marshalMessage(m)) = messageSize(m) /\ messageSize(m) \in Nat
  BY PacketLength
<1>3. messageSize(m) >= 16
  <2>1. /\ messageSize(m) = 16 + intsLength(m.intArgs) + stringsLength(m.strArgs)
        /\ intsLength(m.intArgs) \in Nat /\ stringsLength(m.strArgs) \in Nat
    BY MessageSizeBounds
  <2> QED BY <2>1
<1>4. CASE messageSize(m) > MaxDatagram
  <2>1. ~Fits(marshalMessage(m))
    BY <1>1, <1>2, <1>4 DEF Fits
  <2>2. Sent(m) = <<>>
    BY <2>1 DEF Sent
  <2>3. <<>> \in String
    BY EmptySeq DEF String
  <2> QED BY <1>4, <2>2, <2>3
<1>5. CASE ~(messageSize(m) > MaxDatagram)
  <2>1. Fits(marshalMessage(m))
    BY <1>1, <1>2, <1>5 DEF Fits
  <2>2. Sent(m) = marshalMessage(m)
    BY <2>1 DEF Sent
  <2>3. messageSize(m) \in uint
    BY <1>1, <1>2, <1>5
  <2>4. PICK buf \in Seq(Byte) :
          /\ buf = marshalMessage(m) /\ Len(buf) = messageSize(m) /\ getMarshalLength(buf) = Len(buf)
          /\ getMarshalType(buf) = m.type
          /\ unmarshalMessage(buf) = [ value |-> m, length |-> Len(buf) ]
    BY <2>3, MessageRoundTrip
  <2>5. buf # <<>>
    BY <1>2, <1>3, <2>4
  <2>6. SubSeq(buf, 1, Len(buf)) = buf
    BY SubSeqFull
  <2>7. ReceivedFrom(buf) = m
    <3>1. unmarshalMessage(buf).value = m
      BY <2>4
    <3>2. SubSeq(buf, 1, getMarshalLength(buf)) = buf
      BY <2>4, <2>6, Zenon
    <3> QED BY <3>1, <3>2, Zenon DEF ReceivedFrom
  <2> QED BY <1>5, <2>2, <2>4, <2>5, <2>7 DEF String
<1> QED BY <1>4, <1>5

\* What client_loop takes.
LEMMA CommandKinds ==
  ASSUME NEW c \in Commands
  PROVE  /\ c.path \in String /\ c.name \in {"insert", "shift", "mode", "read"}
         /\ c.name = "insert" => c.offset \in Nat /\ c.offset <= INT_MAX /\ c.bytes \in String
         /\ c.name = "read" => /\ c.offset \in Nat /\ c.offset <= INT_MAX
                               /\ c.num \in Nat /\ c.num <= INT_MAX
BY CommandsAssumption, Bounds

\* The numbers of the kinds of messages and of the outcomes.
LEMMA Numbers ==
  /\ Call \in uint /\ Response \in uint
  /\ Insert \in uint /\ Shift \in uint /\ Mode \in uint /\ Dump \in uint /\ MonitorUpdate \in uint
  /\ Good \in uint /\ Failure \in uint /\ FileBoundException \in uint /\ NoFileException \in uint
  /\ 1 \in uint /\ 0 \in uint
BY DEF Call, Response, Insert, Shift, Mode, Dump, MonitorUpdate, Good, Failure,
       FileBoundException, NoFileException, uint

\* Vectors of one and two members.
LEMMA ShortVectors ==
  ASSUME NEW S
  PROVE  /\ \A x \in S : \E seq \in Seq(S) : seq = << x >> /\ Len(seq) = 1
         /\ \A x, y \in S : \E seq \in Seq(S) : seq = << x, y >> /\ Len(seq) = 2
<1>1. ASSUME NEW x \in S PROVE \E seq \in Seq(S) : seq = << x >> /\ Len(seq) = 1
  <2>1. << x >> \in Seq(S) /\ Len(<< x >>) = 1
    OBVIOUS
  <2> QED BY <2>1, Zenon
<1>2. ASSUME NEW x \in S, NEW y \in S PROVE \E seq \in Seq(S) : seq = << x, y >> /\ Len(seq) = 2
  <2>1. << x, y >> \in Seq(S) /\ Len(<< x, y >>) = 2
    OBVIOUS
  <2> QED BY <2>1, Zenon
<1> QED BY <1>1, <1>2

\* A message can be packed, and how long it then is.
LEMMA MessageType ==
  ASSUME NEW type \in uint, NEW callType \in uint, NEW num \in uint,
         NEW intArgs \in Seq(uint), NEW strArgs \in Seq(String)
  PROVE  LET m == Message(type, callType, num, intArgs, strArgs)
         IN /\ m \in Packable
            /\ messageSize(m) = 20 + 4 * Len(intArgs) + stringsLength(strArgs)
            /\ m.type = type /\ m.callType = callType /\ m.num = num
            /\ m.intArgs = intArgs /\ m.strArgs = strArgs
<1>1. messageSize(Message(type, callType, num, intArgs, strArgs))
        = 16 + (4 + 4 * Len(intArgs)) + stringsLength(strArgs)
  BY DEF Message, messageSize, intsLength, uint_size
<1>2. Len(intArgs) \in Nat /\ stringsLength(strArgs) \in Nat
  BY LenProperties, StringsLengthBounds
<1>3. Message(type, callType, num, intArgs, strArgs) \in Packable
  BY DEF Message, Packable
<1> QED BY <1>1, <1>2, <1>3 DEF Message

\* The call of a command can be packed, and is as long as CallLength tells.
LEMMA CallOfCommand ==
  ASSUME NEW c \in Commands, NEW num \in uint
  PROVE  /\ CallOf(c, num) \in Packable /\ messageSize(CallOf(c, num)) = CallLength(c)
         /\ CallOf(c, num).type = Call /\ CallOf(c, num).num = num
         /\ c.name = "insert" => CallOf(c, num) = Message(Call, Insert, num, << c.offset >>, << c.path, c.bytes >>)
         /\ c.name = "shift" => CallOf(c, num) = Message(Call, Shift, num, << 1 >>, << c.path >>)
         /\ c.name = "mode" => CallOf(c, num) = Message(Call, Mode, num, <<>>, << c.path >>)
         /\ c.name = "read" => CallOf(c, num) = Message(Call, Dump, num, <<>>, << c.path >>)
<1>1. c.path \in String /\ Words(c.path) \in Nat
  BY CommandKinds, WordsOf
<1>2. << c.path >> \in Seq(String) /\ stringsLength(<< c.path >>) = 8 + Words(c.path)
  <2>1. << c.path >> \in Seq(String)
    BY <1>1
  <2> QED BY <1>1, <2>1, FewStrings
<1>3. <<>> \in Seq(uint) /\ Len(<<>>) = 0
  BY EmptySeq
<1>4. CASE c.name = "insert"
  <2>1. CallOf(c, num) = Message(Call, Insert, num, << c.offset >>, << c.path, c.bytes >>)
    BY <1>4 DEF CallOf
  <2>2. c.offset \in uint /\ c.bytes \in String /\ Words(c.bytes) \in Nat
    BY <1>4, CommandKinds, Bounds, WordsOf
  <2>3. PICK ints \in Seq(uint) : ints = << c.offset >> /\ Len(ints) = 1
    BY <2>2, ShortVectors, Zenon
  <2>4. PICK strs \in Seq(String) :
          strs = << c.path, c.bytes >> /\ stringsLength(strs) = 12 + Words(c.path) + Words(c.bytes)
    <3>1. << c.path, c.bytes >> \in Seq(String)
      BY <1>1, <2>2
    <3>2. stringsLength(<< c.path, c.bytes >>) = 12 + Words(c.path) + Words(c.bytes)
      BY <1>1, <2>2, FewStrings, Zenon
    <3> QED BY <3>1, <3>2, Zenon
  <2>5. /\ Message(Call, Insert, num, ints, strs) \in Packable
        /\ messageSize(Message(Call, Insert, num, ints, strs)) = 20 + 4 * Len(ints) + stringsLength(strs)
    BY Numbers, MessageType
  <2>6. CallLength(c) = 28 + Words(c.path) + (8 + Words(c.bytes))
    BY <1>4 DEF CallLength
  <2>7. messageSize(Message(Call, Insert, num, ints, strs)) = CallLength(c)
    BY <1>1, <2>2, <2>3, <2>4, <2>5, <2>6
  <2> QED BY <1>4, <2>1, <2>3, <2>4, <2>5, <2>7 DEF Message
<1>5. CASE c.name = "shift"
  <2>1. CallOf(c, num) = Message(Call, Shift, num, << 1 >>, << c.path >>)
    BY <1>5 DEF CallOf
  <2>2. PICK ints \in Seq(uint) : ints = << 1 >> /\ Len(ints) = 1
    BY Numbers, ShortVectors, Zenon
  <2>3. PICK strs \in Seq(String) : strs = << c.path >> /\ stringsLength(strs) = 8 + Words(c.path)
    BY <1>2
  <2>4. /\ Message(Call, Shift, num, ints, strs) \in Packable
        /\ messageSize(Message(Call, Shift, num, ints, strs)) = 20 + 4 * Len(ints) + stringsLength(strs)
    BY Numbers, MessageType
  <2>5. CallLength(c) = 28 + Words(c.path) + 4
    BY <1>5 DEF CallLength
  <2>6. messageSize(Message(Call, Shift, num, ints, strs)) = CallLength(c)
    BY <1>1, <2>2, <2>3, <2>4, <2>5
  <2> QED BY <1>5, <2>1, <2>2, <2>3, <2>4, <2>6 DEF Message
<1>6. CASE c.name = "mode"
  <2>1. CallOf(c, num) = Message(Call, Mode, num, <<>>, << c.path >>)
    BY <1>6 DEF CallOf
  <2>2. PICK ints \in Seq(uint) : ints = <<>> /\ Len(ints) = 0
    BY <1>3
  <2>3. PICK strs \in Seq(String) : strs = << c.path >> /\ stringsLength(strs) = 8 + Words(c.path)
    BY <1>2
  <2>4. /\ Message(Call, Mode, num, ints, strs) \in Packable
        /\ messageSize(Message(Call, Mode, num, ints, strs)) = 20 + 4 * Len(ints) + stringsLength(strs)
    BY Numbers, MessageType
  <2>5. CallLength(c) = 28 + Words(c.path) + 0
    BY <1>6 DEF CallLength
  <2>6. messageSize(Message(Call, Mode, num, ints, strs)) = CallLength(c)
    BY <1>1, <2>2, <2>3, <2>4, <2>5
  <2> QED BY <1>6, <2>1, <2>2, <2>3, <2>4, <2>6 DEF Message
<1>7. CASE c.name = "read"
  <2>1. CallOf(c, num) = Message(Call, Dump, num, <<>>, << c.path >>)
    BY <1>7 DEF CallOf
  <2>2. PICK ints \in Seq(uint) : ints = <<>> /\ Len(ints) = 0
    BY <1>3
  <2>3. PICK strs \in Seq(String) : strs = << c.path >> /\ stringsLength(strs) = 8 + Words(c.path)
    BY <1>2
  <2>4. /\ Message(Call, Dump, num, ints, strs) \in Packable
        /\ messageSize(Message(Call, Dump, num, ints, strs)) = 20 + 4 * Len(ints) + stringsLength(strs)
    BY Numbers, MessageType
  <2>5. CallLength(c) = 28 + Words(c.path) + 0
    BY <1>7 DEF CallLength
  <2>6. messageSize(Message(Call, Dump, num, ints, strs)) = CallLength(c)
    BY <1>1, <2>2, <2>3, <2>4, <2>5
  <2> QED BY <1>7, <2>1, <2>2, <2>3, <2>4, <2>6 DEF Message
<1> QED BY <1>4, <1>5, <1>6, <1>7, CommandKinds

\* The outcomes of a response that has no text.
LEMMA ShortResponses ==
  ASSUME NEW callType \in uint, NEW num \in uint
  PROVE  /\ \A e \in uint :
              LET m == Message(Response, callType, num, << Failure, e >>, <<>>)
              IN m \in Packable /\ messageSize(m) <= MaxDatagram
         /\ LET m == Message(Response, callType, num, << Good >>, <<>>)
            IN m \in Packable /\ messageSize(m) <= MaxDatagram
         /\ \A b \in Byte :
              LET m == Message(Response, callType, num, << Good >>, << << b >> >>)
              IN m \in Packable /\ messageSize(m) <= MaxDatagram
         /\ \A text \in String :
              LET m == Message(Response, callType, num, <<>>, << text >>)
              IN m \in Packable /\ messageSize(m) = 28 + Words(text)
<1>1. PICK noInts \in Seq(uint), noStrs \in Seq(String) :
        noInts = <<>> /\ noStrs = <<>> /\ Len(noInts) = 0 /\ stringsLength(noStrs) = 4
  BY EmptySeq, FewStrings
<1>2. MaxDatagram \in Nat /\ MaxDatagram >= 36
  BY Bounds
<1>3. \A ints \in Seq(uint), strs \in Seq(String) :
        /\ Message(Response, callType, num, ints, strs) \in Packable
        /\ messageSize(Message(Response, callType, num, ints, strs)) = 20 + 4 * Len(ints) + stringsLength(strs)
  <2> TAKE ints \in Seq(uint), strs \in Seq(String)
  <2>1. Response \in uint
    BY Numbers
  <2> QED BY <2>1, MessageType
<1>4. ASSUME NEW e \in uint
      PROVE  LET m == Message(Response, callType, num, << Failure, e >>, <<>>)
             IN m \in Packable /\ messageSize(m) <= MaxDatagram
  <2>1. PICK ints \in Seq(uint) : ints = << Failure, e >> /\ Len(ints) = 2
    BY Numbers, ShortVectors, Zenon
  <2>2. /\ Message(Response, callType, num, ints, noStrs) \in Packable
        /\ messageSize(Message(Response, callType, num, ints, noStrs)) = 20 + 4 * Len(ints) + stringsLength(noStrs)
    BY <1>3, Zenon
  <2>3. messageSize(Message(Response, callType, num, ints, noStrs)) <= MaxDatagram
    BY <1>1, <1>2, <2>1, <2>2
  <2> QED BY <1>1, <2>1, <2>2, <2>3
<1>5. PICK good \in Seq(uint) : good = << Good >> /\ Len(good) = 1
  BY Numbers, ShortVectors, Zenon
<1>6. LET m == Message(Response, callType, num, << Good >>, <<>>)
      IN m \in Packable /\ messageSize(m) <= MaxDatagram
  <2>1. /\ Message(Response, callType, num, good, noStrs) \in Packable
        /\ messageSize(Message(Response, callType, num, good, noStrs)) = 20 + 4 * Len(good) + stringsLength(noStrs)
    BY <1>3, Zenon
  <2>2. messageSize(Message(Response, callType, num, good, noStrs)) <= MaxDatagram
    BY <1>1, <1>2, <1>5, <2>1
  <2> QED BY <1>1, <1>5, <2>1, <2>2
<1>7. \A text \in String : \E strs \in Seq(String) :
        strs = << text >> /\ stringsLength(strs) = 8 + Words(text)
  <2> SUFFICES ASSUME NEW text \in String
      PROVE \E strs \in Seq(String) : strs = << text >> /\ stringsLength(strs) = 8 + Words(text)
    OBVIOUS
  <2>1. << text >> \in Seq(String)
    OBVIOUS
  <2>2. stringsLength(<< text >>) = 8 + Words(text)
    BY FewStrings, Zenon
  <2> QED BY <2>1, <2>2, Zenon
<1>8. ASSUME NEW b \in Byte
      PROVE  LET m == Message(Response, callType, num, << Good >>, << << b >> >>)
             IN m \in Packable /\ messageSize(m) <= MaxDatagram
  <2>1. << b >> \in Seq(Byte)
    OBVIOUS
  <2>2. PICK text \in String : text = << b >>
    BY <2>1, Zenon DEF String
  <2>3. PICK strs \in Seq(String) : strs = << text >> /\ stringsLength(strs) = 8 + Words(text)
    BY <1>7
  <2>4. Words(text) = 4
    <3>1. Len(text) = 1
      BY <2>2
    <3> QED BY <3>1 DEF Words
  <2>5. /\ Message(Response, callType, num, good, strs) \in Packable
        /\ messageSize(Message(Response, callType, num, good, strs)) = 20 + 4 * Len(good) + stringsLength(strs)
    BY <1>3, Zenon
  <2>6. messageSize(Message(Response, callType, num, good, strs)) <= MaxDatagram
    BY <1>2, <1>5, <2>3, <2>4, <2>5
  <2> QED BY <1>5, <2>2, <2>3, <2>5, <2>6, Zenon
<1>9. ASSUME NEW text \in String
      PROVE  LET m == Message(Response, callType, num, <<>>, << text >>)
             IN m \in Packable /\ messageSize(m) = 28 + Words(text)
  <2>1. PICK strs \in Seq(String) : strs = << text >> /\ stringsLength(strs) = 8 + Words(text)
    BY <1>7
  <2>2. /\ Message(Response, callType, num, noInts, strs) \in Packable
        /\ messageSize(Message(Response, callType, num, noInts, strs)) = 20 + 4 * Len(noInts) + stringsLength(strs)
    BY <1>3, Zenon
  <2>3. Words(text) \in Nat
    BY WordsOf
  <2>4. messageSize(Message(Response, callType, num, noInts, strs)) = 28 + Words(text)
    BY <1>1, <2>1, <2>2, <2>3
  <2> QED BY <1>1, <2>1, <2>2, <2>4, Zenon
<1> QED BY <1>4, <1>6, <1>8, <1>9

\* A response to a command can be packed; it tells an outcome, and if it tells the
\* text of a file, is as long as that.
LEMMA AnswerForms ==
  ASSUME NEW c \in Commands, NEW callType \in uint, NEW num \in uint, NEW ints, NEW strs,
         AnswersTo(c, Message(Response, callType, num, ints, strs))
  PROVE  LET m == Message(Response, callType, num, ints, strs)
         IN /\ m \in Packable
            /\ m.type = Response /\ m.callType = callType /\ m.num = num
            /\ m.intArgs = ints /\ m.strArgs = strs
            /\ AnswerIn(m) \in [ outcome : {"Good", "NoFile", "FileBound"}, text : String ]
            /\ c.name = "read" /\ AnswerIn(m).outcome = "Good" =>
                 /\ strs[1] \in String /\ strs = << strs[1] >> /\ AnswerIn(m) = Text(strs[1])
                 /\ messageSize(m) = 28 + Words(strs[1])
<1> DEFINE m == Message(Response, callType, num, ints, strs)
           Outcomes == [ outcome : {"Good", "NoFile", "FileBound"}, text : String ]
<1>1. /\ m.type = Response /\ m.callType = callType /\ m.num = num
      /\ m.intArgs = ints /\ m.strArgs = strs
  BY DEF Message
<1>2. <<>> \in String
  BY EmptySeq DEF String
<1>3. ASSUME NEW e \in {NoFileException, FileBoundException}, ints = << Failure, e >>, strs = <<>>
      PROVE  m \in Packable /\ AnswerIn(m) \in Outcomes /\ AnswerIn(m).outcome # "Good"
  <2>1. m \in Packable
    BY <1>3, ShortResponses, Numbers, Zenon
  <2>2. ints # <<>> /\ ints[1] = Failure
    BY <1>3
  <2>3. AnswerIn(m) = Thrown(IF ints[2] = NoFileException THEN "NoFile" ELSE "FileBound")
    BY <1>1, <2>2, Zenon DEF AnswerIn
  <2> HIDE DEF m
  <2> QED BY <1>2, <2>1, <2>3 DEF Thrown
<1>4. ASSUME ints = << Good >>, strs = <<>>
      PROVE  m \in Packable /\ AnswerIn(m) \in Outcomes
  <2>1. m \in Packable
    BY <1>4, ShortResponses, Zenon
  <2>2. ints[1] # Failure
    BY <1>4 DEF Good, Failure
  <2>3. AnswerIn(m) = Text(<<>>)
    BY <1>1, <1>4, <2>2, Zenon DEF AnswerIn
  <2> HIDE DEF m
  <2> QED BY <1>2, <2>1, <2>3 DEF Text
<1>5. ASSUME NEW b \in Byte, ints = << Good >>, strs = << << b >> >>
      PROVE  m \in Packable /\ AnswerIn(m) \in Outcomes
  <2>1. m \in Packable
    BY <1>5, ShortResponses, Zenon
  <2>2. ints[1] # Failure /\ strs # <<>> /\ strs[1] = << b >>
    BY <1>5 DEF Good, Failure
  <2>3. AnswerIn(m) = Text(<< b >>)
    BY <1>1, <2>2, Zenon DEF AnswerIn
  <2>4. << b >> \in Seq(Byte)
    OBVIOUS
  <2>5. << b >> \in String
    BY <2>4, Zenon DEF String
  <2> HIDE DEF m
  <2> QED BY <2>1, <2>3, <2>5 DEF Text
<1>6. ASSUME ints = <<>>, strs \in [ 1 .. 1 -> String ]
      PROVE  /\ m \in Packable /\ AnswerIn(m) \in Outcomes
             /\ strs[1] \in String /\ strs = << strs[1] >> /\ AnswerIn(m) = Text(strs[1])
             /\ messageSize(m) = 28 + Words(strs[1])
  <2>1. strs[1] \in String /\ strs = << strs[1] >> /\ strs # <<>>
    BY <1>6
  <2>2. PICK text \in String : text = strs[1]
    BY <2>1
  <2>3. m = Message(Response, callType, num, <<>>, << text >>)
    BY <1>6, <2>1, <2>2
  <2>4. m \in Packable /\ messageSize(m) = 28 + Words(text)
    BY <2>3, ShortResponses, Zenon
  <2>5. AnswerIn(m) = Text(text)
    BY <1>1, <1>6, <2>1, <2>2, Zenon DEF AnswerIn
  <2> HIDE DEF m
  <2>6. AnswerIn(m) \in Outcomes
    BY <2>5 DEF Text
  <2> QED BY <2>1, <2>2, <2>4, <2>5, <2>6
<1> HIDE DEF Outcomes
<1>7. CASE ints \in { << Failure, NoFileException >>, << Failure, FileBoundException >> } /\ strs = <<>>
  <2>1. PICK e \in {NoFileException, FileBoundException} : ints = << Failure, e >>
    BY <1>7
  <2>2. m \in Packable /\ AnswerIn(m) \in Outcomes /\ AnswerIn(m).outcome # "Good"
    BY <1>3, <1>7, <2>1, Zenon
  <2> QED BY <1>1, <2>2, Zenon DEF Outcomes
<1>8. CASE c.name \in {"insert", "shift"} /\ ints = << Good >> /\ strs = <<>>
  <2>1. m \in Packable /\ AnswerIn(m) \in Outcomes
    BY <1>4, <1>8
  <2>2. c.name # "read"
    BY <1>8
  <2> QED BY <1>1, <2>1, <2>2, Zenon DEF Outcomes
<1>9. CASE c.name = "mode" /\ ints = << Good >> /\ strs \in { << << b >> >> : b \in Byte }
  <2>1. PICK b \in Byte : strs = << << b >> >>
    BY <1>9
  <2>2. m \in Packable /\ AnswerIn(m) \in Outcomes
    BY <1>5, <1>9, <2>1, Zenon
  <2>3. c.name # "read"
    BY <1>9
  <2> QED BY <1>1, <2>2, <2>3, Zenon DEF Outcomes
<1>10. CASE c.name = "read" /\ ints = <<>> /\ strs \in [ 1 .. 1 -> String ]
  BY <1>1, <1>6, <1>10, Zenon DEF Outcomes
<1>11. AnswersTo(c, m)
  OBVIOUS
<1> QED BY <1>1, <1>7, <1>8, <1>9, <1>10, <1>11, Zenon DEF AnswersTo

-----------------------------------------------------------------------------
(* The texts of files, read and written.                                   *)

\* A text that is read.
LEMMA TextType ==
  ASSUME NEW bytes \in String
  PROVE  /\ withoutLastNewLine(bytes) \in String
         /\ Len(withoutLastNewLine(bytes)) <= Len(bytes)
<1>1. bytes \in Seq(Byte) /\ Len(bytes) \in Nat
  BY LenProperties DEF String
<1>2. CASE bytes # <<>> /\ Last(bytes) = NewLine
  <2>1. Len(bytes) >= 1
    BY <1>1, <1>2
  <2>2. Front(bytes) = SubSeq(bytes, 1, Len(bytes) - 1)
    BY DEF Front
  <2>3. \A i \in 1 .. Len(bytes) - 1 : bytes[i] \in Byte
    BY <1>1
  <2>4. PICK n \in Nat : n = Len(bytes) - 1 /\ (1 <= n => n - 1 + 1 = n) /\ (~(1 <= n) => n = 0)
    BY <1>1, <2>1
  <2>5. /\ SubSeq(bytes, 1, n) \in Seq(Byte)
        /\ Len(SubSeq(bytes, 1, n)) = IF 1 <= n THEN n - 1 + 1 ELSE 0
    BY <2>3, <2>4, SubSeqProperties
  <2>6. Front(bytes) \in Seq(Byte) /\ Len(Front(bytes)) = Len(bytes) - 1
    BY <2>2, <2>4, <2>5
  <2> QED BY <1>1, <1>2, <2>6 DEF withoutLastNewLine, String
<1>3. CASE ~(bytes # <<>> /\ Last(bytes) = NewLine)
  BY <1>1, <1>3 DEF withoutLastNewLine
<1> QED BY <1>2, <1>3

\* The text of a file is a string, and not longer than its bytes.
LEMMA FileText ==
  ASSUME NEW files, IsFileSystem(files), NEW path \in DOMAIN files
  PROVE  /\ path \in String /\ files[path] \in String
         /\ readWholeFile(files, path) = withoutLastNewLine(files[path])
         /\ readWholeFile(files, path) \in String
         /\ Len(readWholeFile(files, path)) <= Len(files[path])
<1>1. files[path] \in String /\ path \in String
  BY DEF IsFileSystem
<1> QED BY <1>1, TextType DEF readWholeFile

\* A file that is written has these bytes, and every other file those it had.
LEMMA Overwritten ==
  ASSUME NEW files, IsFileSystem(files), NEW path \in String, NEW bytes \in String
  PROVE  /\ IsFileSystem(overwriteFile(files, path, bytes))
         /\ DOMAIN overwriteFile(files, path, bytes) = DOMAIN files \cup {path}
         /\ overwriteFile(files, path, bytes)[path] = bytes
         /\ readWholeFile(overwriteFile(files, path, bytes), path) = withoutLastNewLine(bytes)
         /\ \A p \in DOMAIN files : p # path => overwriteFile(files, path, bytes)[p] = files[p]
<1> HIDE DEF String
<1>1. DOMAIN files \subseteq String /\ \A p \in DOMAIN files : files[p] \in String
  BY DEF IsFileSystem
<1>2. /\ DOMAIN overwriteFile(files, path, bytes) = DOMAIN files \cup {path}
      /\ overwriteFile(files, path, bytes)[path] = bytes
      /\ \A p \in DOMAIN files : p # path => overwriteFile(files, path, bytes)[p] = files[p]
  BY DEF overwriteFile
<1>3. overwriteFile(files, path, bytes) \in [ DOMAIN files \cup {path} -> String ]
  BY <1>1 DEF overwriteFile
<1> QED BY <1>1, <1>2, <1>3 DEF IsFileSystem, readWholeFile

\* What a read shows.
LEMMA ReadShows ==
  ASSUME NEW files, IsFileSystem(files), NEW path \in DOMAIN files, Len(files[path]) < INT_MAX,
         NEW offset \in Nat, offset <= INT_MAX, NEW num \in Nat, num <= INT_MAX
  PROVE  readFile(files, path, offset, num) \in [ outcome : {"Good", "FileBound"}, text : String ]
<1>1. PICK text \in String : text = readWholeFile(files, path)
  BY FileText
<1>2. Len(text) < INT_MAX /\ Len(text) \in Nat
  <2>1. Len(text) <= Len(files[path]) /\ files[path] \in String
    BY <1>1, FileText
  <2>2. Len(text) \in Nat /\ Len(files[path]) \in Nat
    BY <2>1, LenProperties DEF String
  <2> QED BY <2>1, <2>2, Bounds
<1>3. readFile(files, path, offset, num) =
        IF offset + num > Len(text) THEN Thrown("FileBound")
        ELSE Text(SubSeq(text, offset + 1, offset + num))
  BY <1>1, <1>2, ReadBoundsExact
<1>4. CASE offset + num > Len(text)
  <2>1. <<>> \in String
    BY EmptySeq DEF String
  <2> QED BY <1>3, <1>4, <2>1 DEF Thrown
<1>5. CASE ~(offset + num > Len(text))
  <2>1. text \in Seq(Byte)
    BY DEF String
  <2>2. \A i \in offset + 1 .. offset + num : text[i] \in Byte
    BY <1>2, <1>5, <2>1
  <2>3. SubSeq(text, offset + 1, offset + num) \in String
    BY <2>2, SubSeqProperties DEF String
  <2> QED BY <1>3, <1>5, <2>3 DEF Text
<1> QED BY <1>4, <1>5

\* The shift of a letter to the next one.
LEMMA NextByte ==
  ASSUME NEW c \in Byte
  PROVE  shiftChar(c, 1) = Service!NextLetter(c) /\ shiftChar(c, 1) \in Byte
BY SMT DEF shiftChar, Letters, Byte, Service!NextLetter

\* A text that is written is kept, but for a newline at its end.
LEMMA TextKept ==
  ASSUME NEW bytes \in String
  PROVE  withoutLastNewLine(bytes) \in Service!Kept(bytes)
<1>1. Len(bytes) \in Nat
  BY LenProperties DEF String
<1>2. CASE bytes # <<>> /\ Last(bytes) = NewLine
  <2>1. withoutLastNewLine(bytes) = SubSeq(bytes, 1, Len(bytes) - 1)
    BY <1>2 DEF withoutLastNewLine, Front
  <2>2. Len(bytes) >= 1
    BY <1>1, <1>2 DEF String
  <2>3. PICK n \in Int : n = Len(bytes) - 1 /\ n >= 0 /\ n + 1 = Len(bytes)
    BY <1>1, <2>2
  <2>4. bytes[n + 1] = Service!NewLine
    BY <1>2, <2>3 DEF Last, NewLine, Service!NewLine
  <2>5. SubSeq(bytes, 1, n) \in Service!Kept(bytes)
    BY <2>3, <2>4, Zenon DEF Service!Kept
  <2> QED BY <2>1, <2>3, <2>5
<1>3. CASE ~(bytes # <<>> /\ Last(bytes) = NewLine)
  <2>1. withoutLastNewLine(bytes) = bytes
    BY <1>3, Zenon DEF withoutLastNewLine
  <2>2. bytes \in Service!Kept(bytes)
    BY DEF Service!Kept
  <2> QED BY <2>1, <2>2
<1> QED BY <1>2, <1>3

\* A text with some bytes inserted.
LEMMA InsertedType ==
  ASSUME NEW text \in String, NEW offset \in Nat, offset <= Len(text), NEW bytes \in String
  PROVE  SubSeq(text, 1, offset) \o bytes \o SubSeq(text, offset + 1, Len(text)) \in String
<1>1. text \in Seq(Byte) /\ bytes \in Seq(Byte) /\ Len(text) \in Nat
  BY LenProperties DEF String
<1>2. \A i \in 1 .. Len(text) : text[i] \in Byte
  BY <1>1
<1>3. SubSeq(text, 1, offset) \in Seq(Byte)
  <2>1. \A i \in 1 .. offset : text[i] \in Byte
    BY <1>1, <1>2
  <2> QED BY <2>1, SubSeqProperties
<1>4. SubSeq(text, offset + 1, Len(text)) \in Seq(Byte)
  <2>1. \A i \in offset + 1 .. Len(text) : text[i] \in Byte
    BY <1>1, <1>2
  <2> QED BY <1>1, <2>1, SubSeqProperties
<1>5. PICK x \in Seq(Byte) : x = SubSeq(text, 1, offset)
  BY <1>3, Zenon
<1>6. PICK y \in Seq(Byte) : y = SubSeq(text, offset + 1, Len(text))
  BY <1>4, Zenon
<1>7. PICK z \in Seq(Byte) : z = x \o bytes
  BY <1>1, ConcatProperties
<1>8. z \o y \in Seq(Byte)
  BY ConcatProperties
<1> QED BY <1>5, <1>6, <1>7, <1>8, Zenon DEF String

\* insertFile, into a file or into a new one.
LEMMA InsertedFile ==
  ASSUME NEW files, IsFileSystem(files), NEW path \in String,
         NEW offset \in Nat, offset <= INT_MAX, NEW bytes \in String
  PROVE  LET text == TextToInsertInto(files, path)
             new == SubSeq(text, 1, offset) \o bytes \o SubSeq(text, offset + 1, Len(text))
         IN /\ canInsert(files, path, offset) <=> offset <= Len(text)
            /\ insertFile(files, path, offset, bytes) = overwriteFile(files, path, new)
            /\ offset <= Len(text) => new \in String
<1>1. TextToInsertInto(files, path) \in String
  <2>1. CASE path \in DOMAIN files
    BY <2>1, FileText DEF TextToInsertInto, Exists
  <2>2. CASE path \notin DOMAIN files
    <3>1. <<>> \in String
      BY EmptySeq DEF String
    <3> QED BY <2>2, <3>1 DEF TextToInsertInto, Exists
  <2> QED BY <2>1, <2>2
<1>2. PICK text \in String : text = TextToInsertInto(files, path)
  BY <1>1
<1>3. Len(text) \in Nat
  BY LenProperties DEF String
<1>4. canInsert(files, path, offset) <=> offset <= Len(text)
  BY <1>2, <1>3 DEF canInsert, asSize
<1>5. offset <= Len(text) => SubSeq(text, 1, offset) \o bytes \o SubSeq(text, offset + 1, Len(text)) \in String
  BY InsertedType
<1>6. insertFile(files, path, offset, bytes) =
        overwriteFile(files, path, SubSeq(text, 1, offset) \o bytes \o SubSeq(text, offset + 1, Len(text)))
  BY <1>2, Zenon DEF insertFile
<1> QED BY <1>2, <1>4, <1>5, <1>6, Zenon

\* shiftFile.
LEMMA ShiftedFile ==
  ASSUME NEW files, IsFileSystem(files), NEW path \in DOMAIN files
  PROVE  LET text == readWholeFile(files, path)
             new == [ i \in DOMAIN text |-> Service!NextLetter(text[i]) ]
         IN shiftFile(files, path, 1) = overwriteFile(files, path, new) /\ new \in String
<1>1. PICK text \in String : text = readWholeFile(files, path)
  BY FileText
<1>2. text \in Seq(Byte)
  BY DEF String
<1>3. DOMAIN text = 1 .. Len(text) /\ Len(text) \in Nat /\ \A i \in DOMAIN text : text[i] \in Byte
  BY <1>2
<1>4. shiftString(text, 1) = [ i \in DOMAIN text |-> Service!NextLetter(text[i]) ]
  BY <1>3, NextByte, Zenon DEF shiftString
<1>5. shiftString(text, 1) \in [ 1 .. Len(text) -> Byte ]
  BY <1>3, NextByte DEF shiftString
<1>6. shiftString(text, 1) \in Seq(Byte)
  BY <1>3, <1>5
<1>7. shiftFile(files, path, 1) = overwriteFile(files, path, shiftString(text, 1))
  BY <1>1 DEF shiftFile
<1> QED BY <1>1, <1>4, <1>6, <1>7, Zenon DEF String

\* The size of a set is the one of the standard module.
LEMMA SameCardinality == \A S : Service!Cardinality(S) = Cardinality(S)
BY Zenon DEF Service!Cardinality, Cardinality

\* getMode.
LEMMA ModeOfFile ==
  ASSUME NEW files, IsFileSystem(files), NEW path \in DOMAIN files
  PROVE  /\ getMode(files, path) \subseteq Service!MostCommon(readWholeFile(files, path))
         /\ getMode(files, path) \subseteq Byte
<1>1. PICK text \in String : text = readWholeFile(files, path)
  BY FileText
<1>2. text \in Seq(Byte)
  BY DEF String
<1>3. /\ DOMAIN text = 1 .. Len(text) /\ Len(text) \in Nat
      /\ \A i \in DOMAIN text : text[i] \in Byte /\ text[i] \in Nat
      /\ text = <<>> <=> Len(text) = 0
  <2>1. DOMAIN text = 1 .. Len(text) /\ Len(text) \in Nat /\ (text = <<>> <=> Len(text) = 0)
    BY <1>2, EmptySeq
  <2>2. \A i \in 1 .. Len(text) : text[i] \in Byte
    BY <1>2
  <2>3. Byte \subseteq Nat
    BY DEF Byte
  <2> QED BY <2>1, <2>2, <2>3
<1>4. getMode(files, path) \subseteq
        IF IsAscii(text) THEN Tops(text, Len(text)) ELSE { 0 } \cup { text[i] : i \in DOMAIN text }
  BY <1>1, ModeIsMostCommon
<1> HIDE DEF String
<1>5. ASSUME NEW c \in getMode(files, path) PROVE c \in Service!MostCommon(text) /\ c \in Byte
  <2>1. CASE IsAscii(text)
    <3>1. c \in Tops(text, Len(text))
      BY <1>4, <2>1
    <3>2. ~ \E d \in { text[i] : i \in DOMAIN text } : d > 127
      BY <1>3, <2>1 DEF IsAscii
    <3>3. CASE text = <<>>
      <4>1. c = 0
        BY <1>3, <3>1, <3>3 DEF Tops
      <4> QED BY <3>1, <3>2, <3>3, <4>1 DEF Service!MostCommon, Tops
    <3>4. CASE text # <<>>
      <4>1. c \in { text[i] : i \in DOMAIN text }
        BY <1>3, <3>1, <3>4 DEF Tops
      <4>2. \A d : Service!Count(text, d) = occurrences(text, Len(text), d)
        BY <1>3, SameCardinality, Zenon DEF Service!Count, occurrences
      <4>3. \A d \in { text[i] : i \in DOMAIN text } : Service!Count(text, d) <= Service!Count(text, c)
        BY <1>3, <3>1, <4>2 DEF Tops
      <4>4. Service!MostCommon(text) =
              { b \in { text[i] : i \in DOMAIN text } :
                  \A d \in { text[i] : i \in DOMAIN text } : Service!Count(text, d) <= Service!Count(text, b) }
        BY <3>2, <3>4, Zenon DEF Service!MostCommon
      <4>5. c \in Byte
        BY <3>1 DEF Tops
      <4> QED BY <4>1, <4>3, <4>4, <4>5, Zenon
    <3> QED BY <3>3, <3>4
  <2>2. CASE ~IsAscii(text)
    <3>1. \E d \in { text[i] : i \in DOMAIN text } : d > 127
      <4>1. PICK i \in DOMAIN text : ~(text[i] < 128)
        BY <2>2, Zenon DEF IsAscii
      <4>2. text[i] > 127 /\ text[i] \in { text[j] : j \in DOMAIN text }
        BY <1>3, <4>1
      <4> QED BY <4>2, Zenon
    <3>2. Service!MostCommon(text) = { text[i] : i \in DOMAIN text } \cup { 0 }
      BY <3>1, Zenon DEF Service!MostCommon
    <3>3. c \in { 0 } \cup { text[i] : i \in DOMAIN text }
      BY <1>4, <2>2
    <3>4. c \in Byte
      <4>1. 0 \in Byte
        BY DEF Byte
      <4> HIDE DEF Byte
      <4> QED BY <1>3, <3>3, <4>1, Zenon
    <3> QED BY <3>2, <3>3, <3>4, Zenon
  <2> QED BY <2>1, <2>2
<1> QED BY <1>1, <1>5

\* readFile, of a text that has a size an int can hold.
LEMMA ReadPart ==
  ASSUME NEW files, IsFileSystem(files), NEW path \in DOMAIN files, Len(files[path]) < INT_MAX,
         NEW offset \in Nat, offset <= INT_MAX, NEW num \in Nat, num <= INT_MAX
  PROVE  readFile(files, path, offset, num) = Service!Part(readWholeFile(files, path), offset, num)
<1>1. PICK text \in String : text = readWholeFile(files, path)
  BY FileText
<1>2. Len(text) < INT_MAX /\ Len(text) \in Nat
  <2>1. Len(text) <= Len(files[path]) /\ files[path] \in String
    BY <1>1, FileText
  <2>2. Len(text) \in Nat /\ Len(files[path]) \in Nat
    BY <2>1, LenProperties DEF String
  <2> QED BY <2>1, <2>2, Bounds
<1>3. readFile(files, path, offset, num) =
        IF offset + num > Len(text) THEN Thrown("FileBound")
        ELSE Text(SubSeq(text, offset + 1, offset + num))
  BY <1>1, <1>2, ReadBoundsExact
<1>4. offset + num > Len(text) <=> ~(offset <= Len(text) /\ num <= Len(text) - offset)
  BY <1>2
<1> QED BY <1>1, <1>3, <1>4, Zenon DEF Service!Part, Service!Answer, Text, Thrown

-----------------------------------------------------------------------------
(* What is on its way, by the inductive invariant.                          *)

\* What is received is a message, whatever the bytes are.
LEMMA ReceivedRecord ==
  /\ Received = ReceivedFrom(packet)
  /\ \A bytes : LET m == ReceivedFrom(bytes)
                IN m = Message(m.type, m.callType, m.num, m.intArgs, m.strArgs)
<1>1. Received = ReceivedFrom(packet)
  BY Zenon DEF Received, ReceivedFrom
<1>2. ASSUME NEW bytes
      PROVE  LET m == ReceivedFrom(bytes) IN m = Message(m.type, m.callType, m.num, m.intArgs, m.strArgs)
  <2>1. PICK buf : ReceivedFrom(bytes) = unmarshalMessage(buf).value
    BY DEF ReceivedFrom
  <2>2. PICK t, ct, n, ints, strs :
          unmarshalMessage(buf).value = [ type |-> t, callType |-> ct, num |-> n, intArgs |-> ints, strArgs |-> strs ]
    BY DEF unmarshalMessage
  <2> QED BY <2>1, <2>2 DEF Message
<1> QED BY <1>1, <1>2

\* The numbers of the calls do not wrap.
LEMMA CallNumber ==
  ASSUME TypeOK, client # "Prompt"
  PROVE  command \in Commands /\ messageNum - 1 \in uint
<1>1. command \in Commands /\ messageNum \in 1 .. MaxCalls
  BY DEF TypeOK
<1>2. messageNum - 1 \in Nat /\ messageNum - 1 <= INT_MAX
  BY <1>1, Bounds
<1> QED BY <1>1, <1>2, Bounds

\* A response to a command, sent, is received as it is.
LEMMA AnswerArrives ==
  ASSUME NEW c \in Commands, NEW num \in uint, NEW ints, NEW strs, NEW m,
         m = Message(Response, CallOf(c, num).callType, num, ints, strs),
         AnswersTo(c, m)
  PROVE  /\ m \in Packable /\ m.type = Response /\ m.num = num /\ m.callType = CallOf(c, num).callType
         /\ Sent(m) \in String /\ (Sent(m) = <<>> <=> messageSize(m) > MaxDatagram)
         /\ Sent(m) # <<>> =>
              /\ ReceivedFrom(Sent(m)) = m
              /\ getMarshalType(Sent(m)) = Response
              /\ getMarshalLength(Sent(m)) = Len(Sent(m))
              /\ unmarshalMessage(Sent(m)).length = Len(Sent(m))
<1>1. CallOf(c, num).callType \in uint
  BY CallOfCommand DEF Packable
<1>2. PICK callType \in uint : callType = CallOf(c, num).callType
  BY <1>1
<1>3. AnswersTo(c, Message(Response, callType, num, ints, strs)) /\ m = Message(Response, callType, num, ints, strs)
  BY <1>2
<1>4. m \in Packable /\ m.type = Response /\ m.num = num /\ m.callType = callType
  BY <1>3, AnswerForms
<1> QED BY <1>2, <1>4, SentArrives

\* What is on its way: the call that was entered, or an answer to it.
LEMMA OnItsWay ==
  ASSUME ContentsInv, packet # <<>>
  PROVE  /\ client = "Waits" /\ serverUp
         /\ command \in Commands /\ messageNum - 1 \in uint
         /\ Received \in Packable /\ packet = Sent(Received)
         /\ ~executed => Received = CallOf(command, messageNum - 1) /\ Received.type = Call
         /\ executed =>
              /\ Received = Message(Response, CallOf(command, messageNum - 1).callType, messageNum - 1,
                                    Received.intArgs, Received.strArgs)
              /\ Received.type = Response
              /\ AnswersTo(command, Received)
<1>1. client = "Waits" /\ serverUp
  BY DEF ContentsInv, Quiet, TypeOK
<1>2. PICK c \in Commands, n \in uint : c = command /\ n = messageNum - 1
  BY <1>1, CallNumber DEF ContentsInv
<1>3. PICK p, m : p = packet /\ m = Received
  OBVIOUS
<1>4. m = ReceivedFrom(p) /\ m = Message(m.type, m.callType, m.num, m.intArgs, m.strArgs)
  BY <1>3, ReceivedRecord
<1>5. CASE ~executed
  <2>1. p = Sent(CallOf(c, n))
    BY <1>1, <1>2, <1>3, <1>5 DEF ContentsInv, Calling
  <2>2. CallOf(c, n) \in Packable /\ CallOf(c, n).type = Call
    BY CallOfCommand
  <2>3. ReceivedFrom(Sent(CallOf(c, n))) = CallOf(c, n)
    BY <1>3, <2>1, <2>2, SentArrives
  <2> QED BY <1>1, <1>2, <1>3, <1>4, <1>5, <2>1, <2>2, <2>3
<1>6. CASE executed
  <2>1. /\ p = Sent(m) /\ m.type = Response /\ m.num = n
        /\ m.callType = CallOf(c, n).callType /\ AnswersTo(c, m)
    BY <1>1, <1>2, <1>3, <1>6, Zenon DEF ContentsInv, Answering
  <2>2. m = Message(Response, CallOf(c, n).callType, n, m.intArgs, m.strArgs)
    BY <1>4, <2>1, Zenon
  <2>3. m \in Packable
    BY <2>1, <2>2, AnswerArrives
  <2> QED BY <1>1, <1>2, <1>3, <1>6, <2>1, <2>2, <2>3, Zenon
<1> QED BY <1>5, <1>6

\* A packet on its way is as long as it tells.
LEMMA OnItsWayType ==
  ASSUME ContentsInv, packet # <<>>
  PROVE  /\ getMarshalType(packet) = Received.type
         /\ getMarshalLength(packet) = Len(packet)
         /\ unmarshalMessage(packet).length = Len(packet)
         /\ Len(packet) = messageSize(Received) /\ messageSize(Received) <= MaxDatagram
<1>1. PICK m \in Packable : m = Received /\ packet = Sent(m)
  BY OnItsWay
<1>2. messageSize(m) \in Nat /\ MaxDatagram \in Nat
  BY PacketLength, Bounds
<1> QED BY <1>1, <1>2, SentArrives

\* What the server executes is what the user has entered.
LEMMA CallArrived ==
  ASSUME ContentsInv, Arrived(Call)
  PROVE  /\ client = "Waits" /\ serverUp /\ ~executed
         /\ command \in Commands /\ messageNum - 1 \in uint
         /\ Received.callType = CallOf(command, messageNum - 1).callType
         /\ Received.num = messageNum - 1
         /\ Path = command.path /\ command.path \in String
         /\ Received.callType = Insert =>
              /\ command.name = "insert"
              /\ Received.intArgs[1] = command.offset /\ command.offset \in Nat /\ command.offset <= INT_MAX
              /\ Received.strArgs[2] = command.bytes /\ command.bytes \in String
         /\ Received.callType = Shift => command.name = "shift" /\ Received.intArgs[1] = 1
         /\ Received.callType = Mode => command.name = "mode"
         /\ Received.callType = Dump => command.name = "read"
<1>1. packet # <<>> /\ Received.type = Call
  <2>1. packet # <<>> /\ getMarshalType(packet) = Call
    BY DEF Arrived
  <2> QED BY <2>1, OnItsWayType
<1>2. ~executed
  BY <1>1, OnItsWay DEF Call, Response
<1>3. /\ client = "Waits" /\ serverUp /\ command \in Commands /\ messageNum - 1 \in uint
      /\ Received = CallOf(command, messageNum - 1)
  BY <1>1, <1>2, OnItsWay
<1>4. PICK c \in Commands, n \in uint : c = command /\ n = messageNum - 1
  BY <1>3
<1>5. PICK m : m = Received
  OBVIOUS
<1>6. Path = m.strArgs[1] /\ m = CallOf(c, n)
  BY <1>3, <1>4, <1>5 DEF Path
<1>7. /\ c.path \in String /\ m.num = n
      /\ m.strArgs[1] = c.path
      /\ m.callType = Insert =>
           /\ c.name = "insert"
           /\ m.intArgs[1] = c.offset /\ c.offset \in Nat /\ c.offset <= INT_MAX
           /\ m.strArgs[2] = c.bytes /\ c.bytes \in String
      /\ m.callType = Shift => c.name = "shift" /\ m.intArgs[1] = 1
      /\ m.callType = Mode => c.name = "mode"
      /\ m.callType = Dump => c.name = "read"
  <2>1. CASE c.name = "insert"
    <3>1. m = Message(Call, Insert, n, << c.offset >>, << c.path, c.bytes >>)
      BY <1>6, <2>1, CallOfCommand
    <3> QED BY <2>1, <3>1, CommandKinds DEF Message, Insert, Shift, Mode, Dump
  <2>2. CASE c.name = "shift"
    <3>1. m = Message(Call, Shift, n, << 1 >>, << c.path >>)
      BY <1>6, <2>2, CallOfCommand
    <3> QED BY <2>2, <3>1, CommandKinds DEF Message, Insert, Shift, Mode, Dump
  <2>3. CASE c.name = "mode"
    <3>1. m = Message(Call, Mode, n, <<>>, << c.path >>)
      BY <1>6, <2>3, CallOfCommand
    <3> QED BY <2>3, <3>1, CommandKinds DEF Message, Insert, Shift, Mode, Dump
  <2>4. CASE c.name = "read"
    <3>1. m = Message(Call, Dump, n, <<>>, << c.path >>)
      BY <1>6, <2>4, CallOfCommand
    <3> QED BY <2>4, <3>1, CommandKinds DEF Message, Insert, Shift, Mode, Dump
  <2> QED BY <2>1, <2>2, <2>3, <2>4, CommandKinds
<1> QED BY <1>2, <1>3, <1>4, <1>5, <1>6, <1>7

\* What the client is answered.
LEMMA ResponseArrived ==
  ASSUME ContentsInv, Arrived(Response)
  PROVE  /\ client = "Waits" /\ serverUp /\ executed
         /\ command \in Commands /\ messageNum - 1 \in uint
         /\ Received.callType = CallOf(command, messageNum - 1).callType
         /\ AnswersTo(command, Received)
         /\ AnswerIn(Received) \in [ outcome : {"Good", "NoFile", "FileBound"}, text : String ]
         /\ command.name = "read" /\ AnswerIn(Received).outcome = "Good" =>
              /\ Received.strArgs[1] \in String /\ AnswerIn(Received) = Text(Received.strArgs[1])
              /\ 28 + Words(Received.strArgs[1]) <= MaxDatagram
<1>1. packet # <<>> /\ Received.type = Response
  <2>1. packet # <<>> /\ getMarshalType(packet) = Response
    BY DEF Arrived
  <2> QED BY <2>1, OnItsWayType
<1>2. executed
  BY <1>1, OnItsWay DEF Call, Response, ContentsInv, TypeOK
<1>3. /\ client = "Waits" /\ serverUp /\ command \in Commands /\ messageNum - 1 \in uint
      /\ Received = Message(Response, CallOf(command, messageNum - 1).callType, messageNum - 1,
                            Received.intArgs, Received.strArgs)
      /\ AnswersTo(command, Received)
  BY <1>1, <1>2, OnItsWay
<1>4. PICK c \in Commands, n \in uint : c = command /\ n = messageNum - 1
  BY <1>3
<1>5. PICK m : m = Received
  OBVIOUS
<1>6. CallOf(c, n).callType \in uint
  BY CallOfCommand DEF Packable
<1>7. PICK callType \in uint : callType = CallOf(c, n).callType
  BY <1>6
<1>8. PICK ints, strs : ints = m.intArgs /\ strs = m.strArgs
  OBVIOUS
<1>9. m = Message(Response, callType, n, ints, strs) /\ AnswersTo(c, Message(Response, callType, n, ints, strs))
  BY <1>3, <1>4, <1>5, <1>7, <1>8, Zenon
<1>10. /\ m.callType = callType
       /\ AnswerIn(m) \in [ outcome : {"Good", "NoFile", "FileBound"}, text : String ]
       /\ c.name = "read" /\ AnswerIn(m).outcome = "Good" =>
            /\ strs[1] \in String /\ AnswerIn(m) = Text(strs[1])
            /\ messageSize(m) = 28 + Words(strs[1])
  BY <1>9, AnswerForms
<1>11. messageSize(m) <= MaxDatagram
  BY <1>1, <1>4, <1>5, OnItsWayType
<1> QED BY <1>2, <1>3, <1>4, <1>5, <1>7, <1>8, <1>10, <1>11, Zenon

-----------------------------------------------------------------------------
(* Every step keeps the inductive invariant.                                *)

\* The inductive invariant holds at first.
LEMMA InitHolds == Init => ContentsInv
<1> SUFFICES ASSUME Init PROVE ContentsInv
  OBVIOUS
<1>1. <<>> \in String
  BY EmptySeq DEF String
<1>2. IsFileSystem(serverFiles)
  BY FilesAssumption DEF Init, IsFileSystem
<1>3. IsFileSystem(clientFiles) /\ clientFiles = << >> /\ DOMAIN clientFiles = {}
  <2>1. DOMAIN << >> = {}
    BY EmptySeq
  <2>2. << >> \in [ {} -> String ]
    BY <2>1
  <2> QED BY <2>1, <2>2 DEF Init, IsFileSystem
<1>4. TypeOK
  <2>1. shown \in Answers /\ update \in Answers
    BY <1>1 DEF Init, Answers
  <2>2. messageNum = 0 /\ 0 \in 0 .. MaxCalls
    <3>1. MaxCalls \in Nat
      BY Bounds
    <3>2. messageNum = 0
      BY DEF Init
    <3> QED BY <3>1, <3>2
  <2> QED BY <1>1, <1>2, <1>3, <2>1, <2>2 DEF Init, TypeOK
<1> QED BY <1>4 DEF Init, ContentsInv, Quiet, Calling, Answering, Missing, ServerEnded

\* The call of what is entered is put on its way, unless it is too long.
LEMMA EnterKeeps ==
  ASSUME ContentsInv, NEW c \in Commands, Enter(c)
  PROVE  ContentsInv'
<1>1. /\ client = "Prompt" /\ client' = "Waits" /\ command' = c /\ executed' = FALSE
      /\ messageNum < MaxCalls /\ messageNum' = messageNum + 1
      /\ UNCHANGED <<serverFiles, serverUp, clientFiles, shown, update>>
  BY DEF Enter
<1>2. messageNum \in Nat /\ messageNum \in uint /\ messageNum' \in 1 .. MaxCalls /\ messageNum' - 1 = messageNum
  <2>1. messageNum \in 0 .. MaxCalls
    BY DEF ContentsInv, TypeOK
  <2> QED BY <1>1, <2>1, Bounds
<1>3. PICK n \in uint : n = messageNum
  BY <1>2
<1>4. packet' = Sent(CallOf(c, n))
  BY <1>3 DEF Enter
<1>5. /\ Sent(CallOf(c, n)) \in String
      /\ Sent(CallOf(c, n)) = <<>> <=> CallLength(c) > MaxDatagram
  BY CallOfCommand, SentArrives
<1>6. serverUp' = TRUE
  BY <1>1 DEF ContentsInv, Quiet, TypeOK
<1>7. TypeOK'
  <2>1. packet' \in String
    BY <1>4, <1>5
  <2>2. messageNum' \in 0 .. MaxCalls
    BY <1>2
  <2>3. client' # "Prompt" => command' \in Commands /\ messageNum' \in 1 .. MaxCalls
    BY <1>1, <1>2
  <2>4. TypeOK
    BY DEF ContentsInv
  <2> QED BY <1>1, <2>1, <2>2, <2>3, <2>4 DEF TypeOK
<1>8. Quiet' /\ Answering' /\ ServerEnded'
  BY <1>1, <1>6 DEF Quiet, Answering, ServerEnded
<1>9. Calling'
  BY <1>1, <1>2, <1>3, <1>4, Zenon DEF Calling
<1>10. Missing'
  BY <1>1, <1>4, <1>5 DEF Missing
<1> QED BY <1>7, <1>8, <1>9, <1>10 DEF ContentsInv

\* A read of a copy shows an answer, and changes nothing else.
LEMMA ReadLocallyKeeps ==
  ASSUME ContentsInv, NEW c \in Commands, ReadLocally(c)
  PROVE  ContentsInv'
<1>1. shown' \in Answers
  <2>1. PICK files, path : files = clientFiles /\ path = c.path
    OBVIOUS
  <2>2. IsFileSystem(files) /\ path \in DOMAIN files /\ Len(files[path]) < INT_MAX
    BY <2>1 DEF ContentsInv, TypeOK, ReadLocally, Exists
  <2>3. c.offset \in Nat /\ c.offset <= INT_MAX /\ c.num \in Nat /\ c.num <= INT_MAX
    BY CommandKinds DEF ReadLocally
  <2>4. readFile(files, path, c.offset, c.num) \in [ outcome : {"Good", "FileBound"}, text : String ]
    BY <2>2, <2>3, ReadShows
  <2>5. shown' = readFile(files, path, c.offset, c.num)
    BY <2>1 DEF ReadLocally
  <2> QED BY <2>4, <2>5 DEF Answers
<1>2. UNCHANGED <<serverFiles, serverUp, clientFiles, client, command, messageNum, packet, executed, update>>
  BY DEF ReadLocally
<1>3. TypeOK'
  BY <1>1, <1>2 DEF ContentsInv, TypeOK
<1>4. Received' = Received
  BY <1>2 DEF Received
<1> QED BY <1>2, <1>3, <1>4 DEF ContentsInv, Quiet, Calling, Answering, Missing, ServerEnded, TextAt

\* With the answer the client is at its prompt again.
LEMMA ReceiveKeeps ==
  ASSUME ContentsInv, NEW callTypes, Receive(callTypes),
         IsFileSystem(clientFiles'), \A p \in DOMAIN clientFiles' : Len(clientFiles'[p]) < INT_MAX,
         shown' \in Answers
  PROVE  ContentsInv'
<1>1. /\ client' = "Prompt" /\ packet' = <<>>
      /\ UNCHANGED <<serverFiles, serverUp, command, messageNum, executed, update>>
  BY DEF Receive
<1>2. serverUp' = TRUE
  <2>1. serverUp
    BY ResponseArrived DEF Receive
  <2> QED BY <1>1, <2>1 DEF ContentsInv, TypeOK
<1>3. TypeOK'
  <2>1. <<>> \in String
    BY EmptySeq DEF String
  <2> QED BY <1>1, <2>1 DEF ContentsInv, TypeOK
<1> QED BY <1>1, <1>2, <1>3 DEF ContentsInv, Quiet, Calling, Answering, Missing, ServerEnded

\* An outcome or a character is shown.
LEMMA ReceiveResponseKeeps ==
  ASSUME ContentsInv, ReceiveResponse
  PROVE  ContentsInv'
<1>1. AnswerIn(Received) \in Answers
  <2>1. AnswerIn(Received) \in [ outcome : {"Good", "NoFile", "FileBound"}, text : String ]
    BY ResponseArrived DEF ReceiveResponse, Receive
  <2> QED BY <2>1 DEF Answers
<1>2. Receive({Insert, Shift, Mode}) /\ clientFiles' = clientFiles /\ shown' \in Answers
  BY <1>1 DEF ReceiveResponse
<1>3. IsFileSystem(clientFiles') /\ \A p \in DOMAIN clientFiles' : Len(clientFiles'[p]) < INT_MAX
  BY <1>2 DEF ContentsInv, TypeOK
<1> QED BY <1>2, <1>3, ReceiveKeeps

\* Only a read is answered by a text.
LEMMA FileArrived ==
  ASSUME ContentsInv, ReceiveFile
  PROVE  command.name = "read"
<1>1. /\ command \in Commands /\ messageNum - 1 \in uint
      /\ CallOf(command, messageNum - 1).callType = Dump
  BY ResponseArrived DEF ReceiveFile, Receive
<1>2. PICK c \in Commands, n \in uint : c = command /\ n = messageNum - 1
  BY <1>1
<1>3. CallOf(c, n).callType = Dump
  BY <1>1, <1>2
<1>4. c.name = "insert" => CallOf(c, n).callType = Insert
  BY CallOfCommand DEF Message
<1>5. c.name = "shift" => CallOf(c, n).callType = Shift
  BY CallOfCommand DEF Message
<1>6. c.name = "mode" => CallOf(c, n).callType = Mode
  BY CallOfCommand DEF Message
<1> QED BY <1>2, <1>3, <1>4, <1>5, <1>6, CommandKinds DEF Insert, Shift, Mode, Dump

\* A text that came in a packet has a size that an int can hold, and is copied.
LEMMA ReceiveFileKeeps ==
  ASSUME ContentsInv, ReceiveFile
  PROVE  ContentsInv'
<1>1. Receive({Dump}) /\ command.name = "read"
  BY FileArrived DEF ReceiveFile
<1>2. AnswerIn(Received) \in [ outcome : {"Good", "NoFile", "FileBound"}, text : String ]
  BY <1>1, ResponseArrived DEF Receive
<1>3. CASE AnswerIn(Received).outcome # "Good"
  <2>1. shown' = AnswerIn(Received) /\ clientFiles' = clientFiles
    BY <1>3 DEF ReceiveFile
  <2>2. shown' \in Answers
    BY <1>2, <2>1 DEF Answers
  <2>3. IsFileSystem(clientFiles') /\ \A p \in DOMAIN clientFiles' : Len(clientFiles'[p]) < INT_MAX
    BY <2>1 DEF ContentsInv, TypeOK
  <2> QED BY <1>1, <2>2, <2>3, ReceiveKeeps
<1>4. CASE AnswerIn(Received).outcome = "Good"
  <2>1. PICK text : text = Received.strArgs[1]
    OBVIOUS
  <2>2. text \in String /\ 28 + Words(text) <= MaxDatagram
    BY <1>1, <1>4, <2>1, ResponseArrived DEF Receive
  <2>3. Len(text) < INT_MAX
    <3>1. Words(text) \in Nat /\ Words(text) >= Len(text) /\ Len(text) \in Nat
      BY <2>2, WordsOf, LenProperties DEF String
    <3> QED BY <2>2, <3>1, Bounds
  <2>4. PICK c \in Commands : c = command /\ c.name = "read"
    BY <1>1, ResponseArrived DEF Receive
  <2>5. PICK old : old = clientFiles
    OBVIOUS
  <2>6. IsFileSystem(old) /\ \A p \in DOMAIN old : Len(old[p]) < INT_MAX
    BY <2>5 DEF ContentsInv, TypeOK
  <2>7. PICK files : files = overwriteFile(old, c.path, text)
    OBVIOUS
  <2>8. /\ IsFileSystem(files) /\ DOMAIN files = DOMAIN old \cup {c.path} /\ files[c.path] = text
        /\ \A p \in DOMAIN old : p # c.path => files[p] = old[p]
    <3>1. c.path \in String /\ IsFileSystem(old) /\ text \in String
      BY <2>2, <2>6, CommandKinds
    <3>2. PICK path \in String : path = c.path
      BY <3>1
    <3>3. IsFileSystem(overwriteFile(old, path, text))
      BY <3>1, Overwritten, Zenon
    <3>4. /\ DOMAIN overwriteFile(old, path, text) = DOMAIN old \cup {path}
          /\ overwriteFile(old, path, text)[path] = text
          /\ \A p \in DOMAIN old : p # path => overwriteFile(old, path, text)[p] = old[p]
      BY Zenon DEF overwriteFile
    <3> QED BY <2>7, <3>2, <3>3, <3>4, Zenon
  <2>9. \A p \in DOMAIN files : Len(files[p]) < INT_MAX
    BY <2>3, <2>6, <2>8
  <2>10. clientFiles' = files /\ shown' = readFile(files, c.path, c.offset, c.num)
    BY <1>4, <2>1, <2>4, <2>5, <2>7 DEF ReceiveFile
  <2>11. shown' \in Answers
    <3>1. c.path \in DOMAIN files /\ Len(files[c.path]) < INT_MAX
      BY <2>8, <2>9
    <3>2. readFile(files, c.path, c.offset, c.num) \in [ outcome : {"Good", "FileBound"}, text : String ]
      BY <2>4, <2>8, <3>1, CommandKinds, ReadShows
    <3> QED BY <2>10, <3>2 DEF Answers
  <2> QED BY <1>1, <2>8, <2>9, <2>10, <2>11, ReceiveKeeps
<1> QED BY <1>3, <1>4

\* The client gives up.
LEMMA GiveUpKeeps ==
  ASSUME ContentsInv, GiveUp
  PROVE  ContentsInv'
BY DEF ContentsInv, GiveUp, TypeOK, Quiet, Calling, Answering, Missing, ServerEnded, TextAt

\* A call that is executed and answered: the response is on its way, unless the text
\* of a file makes it too long.
LEMMA AnsweredKeeps ==
  ASSUME ContentsInv, NEW callType, Serve(callType),
         IsFileSystem(serverFiles'), update' \in Answers,
         NEW ints, NEW strs, Respond(ints, strs), NEW m,
         m = Message(Response, Received.callType, Received.num, ints, strs),
         AnswersTo(command, m),
         \/ messageSize(m) <= MaxDatagram
         \/ command.name = "read" /\ messageSize(m) = 28 + Words(TextAt(command.path)')
  PROVE  ContentsInv'
<1>1. /\ client = "Waits" /\ serverUp /\ command \in Commands /\ messageNum - 1 \in uint
      /\ Received.callType = CallOf(command, messageNum - 1).callType
      /\ Received.num = messageNum - 1
  BY CallArrived DEF Serve
<1>2. PICK c \in Commands, n \in uint : c = command /\ n = messageNum - 1
  BY <1>1
<1>3. /\ client' = "Waits" /\ command' = c /\ messageNum' - 1 = n /\ messageNum' = messageNum
      /\ executed' = TRUE /\ UNCHANGED <<clientFiles, shown>> /\ packet' = Sent(m) /\ serverUp' = serverUp
  <2>1. packet' = Sent(m) /\ serverUp' = serverUp
    BY Zenon DEF Respond
  <2>2. executed' = TRUE /\ UNCHANGED <<clientFiles, client, command, messageNum, shown>>
    BY DEF Serve
  <2> QED BY <1>1, <1>2, <2>1, <2>2
<1>4. m = Message(Response, CallOf(c, n).callType, n, ints, strs) /\ AnswersTo(c, m)
  BY <1>1, <1>2, Zenon
<1>5. /\ m \in Packable /\ m.type = Response /\ m.num = n /\ m.callType = CallOf(c, n).callType
      /\ Sent(m) \in String /\ (Sent(m) = <<>> <=> messageSize(m) > MaxDatagram)
      /\ Sent(m) # <<>> => ReceivedFrom(Sent(m)) = m
  BY <1>4, AnswerArrives
<1>6. TypeOK'
  <2>1. TypeOK
    BY DEF ContentsInv
  <2>2. packet' \in String /\ executed' \in BOOLEAN
    BY <1>3, <1>5
  <2> QED BY <1>1, <1>2, <1>3, <2>1, <2>2 DEF TypeOK
<1>7. Quiet' /\ Calling' /\ ServerEnded'
  BY <1>1, <1>3 DEF Quiet, Calling, ServerEnded
<1>8. Received' = ReceivedFrom(packet')
  BY Zenon DEF Received, ReceivedFrom
<1>9. Answering'
  <2> SUFFICES ASSUME packet' # <<>>
      PROVE  /\ packet' = Sent(Received')
             /\ Received'.type = Response /\ Received'.num = messageNum' - 1
             /\ Received'.callType = CallOf(command', messageNum' - 1).callType
             /\ AnswersTo(command', Received')
    BY Zenon DEF Answering
  <2>1. Received' = m
    BY <1>3, <1>5, <1>8
  <2> QED BY <1>3, <1>4, <1>5, <2>1, Zenon
<1>10. Missing'
  <2> SUFFICES ASSUME packet' = <<>>
      PROVE  command'.name = "read" /\ 28 + Words(TextAt(command.path)') > MaxDatagram
    BY <1>3 DEF Missing, TextAt
  <2>1. messageSize(m) > MaxDatagram /\ messageSize(m) \in Nat /\ MaxDatagram \in Nat
    BY <1>3, <1>5, PacketLength, Bounds
  <2>2. ~(messageSize(m) <= MaxDatagram)
    BY <2>1
  <2> QED BY <1>2, <1>3, <2>1, <2>2
<1> QED BY <1>6, <1>7, <1>9, <1>10 DEF ContentsInv

\* A call on which the server ends.
LEMMA CrashKeeps ==
  ASSUME ContentsInv, NEW callType, Serve(callType), Crash,
         IsFileSystem(serverFiles'), update' \in Answers,
         ServerEnded'
  PROVE  ContentsInv'
<1>1. client = "Waits"
  BY CallArrived DEF Serve
<1>2. /\ executed' = TRUE /\ UNCHANGED <<clientFiles, client, command, messageNum, shown>>
      /\ packet' = <<>> /\ serverUp' = FALSE
  BY DEF Serve, Crash
<1>3. TypeOK'
  <2>1. <<>> \in String
    BY EmptySeq DEF String
  <2> QED BY <1>2, <2>1 DEF ContentsInv, TypeOK
<1> QED BY <1>1, <1>2, <1>3 DEF ContentsInv, Quiet, Calling, Answering, Missing

\* An update can be packed.
LEMMA UpdateMessage ==
  ASSUME NEW path \in String, NEW text \in String
  PROVE  LET m == Message(Call, MonitorUpdate, 0, <<>>, << path, text >>)
         IN /\ m \in Packable /\ m.strArgs = << path, text >>
            /\ messageSize(m) = 32 + Words(path) + Words(text)
<1>1. PICK ints \in Seq(uint) : ints = <<>> /\ Len(ints) = 0
  BY EmptySeq
<1>2. PICK strs \in Seq(String) : strs = << path, text >>
  BY ShortVectors, Zenon
<1>3. stringsLength(strs) = 12 + Words(path) + Words(text)
  <2>1. stringsLength(<< path, text >>) = 12 + Words(path) + Words(text)
    BY FewStrings, Zenon
  <2> QED BY <1>2, <2>1
<1>4. Words(path) \in Nat /\ Words(text) \in Nat
  BY WordsOf
<1>5. /\ Message(Call, MonitorUpdate, 0, ints, strs) \in Packable
      /\ messageSize(Message(Call, MonitorUpdate, 0, ints, strs)) = 20 + 4 * Len(ints) + stringsLength(strs)
      /\ Message(Call, MonitorUpdate, 0, ints, strs).strArgs = strs
  BY Numbers, MessageType
<1> QED BY <1>1, <1>2, <1>3, <1>4, <1>5

\* What an answer without a text may be.
LEMMA PlainAnswers ==
  ASSUME ContentsInv, Arrived(Call)
  PROVE  /\ \A e \in {NoFileException, FileBoundException} :
              LET m == Message(Response, Received.callType, Received.num, << Failure, e >>, <<>>)
              IN AnswersTo(command, m) /\ messageSize(m) <= MaxDatagram
         /\ command.name \in {"insert", "shift"} =>
              LET m == Message(Response, Received.callType, Received.num, << Good >>, <<>>)
              IN AnswersTo(command, m) /\ messageSize(m) <= MaxDatagram
         /\ command.name = "mode" => \A b \in Byte :
              LET m == Message(Response, Received.callType, Received.num, << Good >>, << << b >> >>)
              IN AnswersTo(command, m) /\ messageSize(m) <= MaxDatagram
         /\ command.name = "read" => \A text \in String :
              LET m == Message(Response, Received.callType, Received.num, <<>>, << text >>)
              IN AnswersTo(command, m) /\ messageSize(m) = 28 + Words(text)
<1>1. Received.callType \in uint /\ Received.num \in uint
  BY CallArrived, CallOfCommand DEF Packable
<1>2. PICK ct \in uint, n \in uint : ct = Received.callType /\ n = Received.num
  BY <1>1
<1>3. PICK c : c = command
  OBVIOUS
<1>4. ASSUME NEW e \in {NoFileException, FileBoundException}
      PROVE  LET m == Message(Response, ct, n, << Failure, e >>, <<>>)
             IN AnswersTo(c, m) /\ messageSize(m) <= MaxDatagram
  <2>1. messageSize(Message(Response, ct, n, << Failure, e >>, <<>>)) <= MaxDatagram
    BY ShortResponses, Numbers, Zenon
  <2>2. AnswersTo(c, Message(Response, ct, n, << Failure, e >>, <<>>))
    BY DEF AnswersTo, Message
  <2> QED BY <2>1, <2>2
<1>5. ASSUME c.name \in {"insert", "shift"}
      PROVE  LET m == Message(Response, ct, n, << Good >>, <<>>)
             IN AnswersTo(c, m) /\ messageSize(m) <= MaxDatagram
  <2>1. messageSize(Message(Response, ct, n, << Good >>, <<>>)) <= MaxDatagram
    BY ShortResponses, Zenon
  <2>2. AnswersTo(c, Message(Response, ct, n, << Good >>, <<>>))
    BY <1>5 DEF AnswersTo, Message
  <2> QED BY <2>1, <2>2
<1>6. ASSUME c.name = "mode", NEW b \in Byte
      PROVE  LET m == Message(Response, ct, n, << Good >>, << << b >> >>)
             IN AnswersTo(c, m) /\ messageSize(m) <= MaxDatagram
  <2>1. messageSize(Message(Response, ct, n, << Good >>, << << b >> >>)) <= MaxDatagram
    BY ShortResponses, Zenon
  <2>2. << << b >> >> \in { << << d >> >> : d \in Byte }
    OBVIOUS
  <2>3. AnswersTo(c, Message(Response, ct, n, << Good >>, << << b >> >>))
    BY <1>6, <2>2 DEF AnswersTo, Message
  <2> QED BY <2>1, <2>3
<1>7. ASSUME c.name = "read", NEW text \in String
      PROVE  LET m == Message(Response, ct, n, <<>>, << text >>)
             IN AnswersTo(c, m) /\ messageSize(m) = 28 + Words(text)
  <2>1. messageSize(Message(Response, ct, n, <<>>, << text >>)) = 28 + Words(text)
    BY ShortResponses, Zenon
  <2>2. << text >> \in [ 1 .. 1 -> String ]
    OBVIOUS
  <2>3. AnswersTo(c, Message(Response, ct, n, <<>>, << text >>))
    BY <1>7, <2>2 DEF AnswersTo, Message
  <2> QED BY <2>1, <2>3
<1> QED BY <1>2, <1>3, <1>4, <1>5, <1>6, <1>7, Zenon

\* A file is written, and shown to those who monitor it, unless it is too long.
LEMMA EditKeeps ==
  ASSUME ContentsInv, NEW callType, Serve(callType), command.name \in {"insert", "shift"},
         NEW files, IsFileSystem(files), command.path \in DOMAIN files, Edit(files)
  PROVE  ContentsInv'
<1>1. /\ Arrived(Call) /\ command \in Commands /\ command.path \in String /\ Path = command.path
  BY CallArrived DEF Serve
<1>2. PICK path \in String : path = command.path /\ path = Path
  BY <1>1
<1>3. PICK text \in String : text = readWholeFile(files, path)
  BY <1>2, FileText
<1>4. PICK up : up = Message(Call, MonitorUpdate, 0, <<>>, << path, text >>)
  OBVIOUS
<1>5. Update(files) = up
  BY <1>2, <1>3, <1>4, Zenon DEF Update
<1>6. /\ up \in Packable /\ up.strArgs = << path, text >>
      /\ messageSize(up) = 32 + Words(path) + Words(text)
  BY <1>4, UpdateMessage
<1>7. /\ serverFiles' = files /\ IsFileSystem(serverFiles')
      /\ command' = command /\ TextAt(command.path)' = text
  <2>1. serverFiles' = files /\ command' = command
    BY Zenon DEF Edit, Serve
  <2>2. path \in DOMAIN files
    BY <1>2
  <2> QED BY <1>2, <1>3, <2>1, <2>2 DEF TextAt, Exists
<1>8. update \in Answers
  BY DEF ContentsInv, TypeOK
<1>9. PICK m : m = Message(Response, Received.callType, Received.num, << Good >>, <<>>)
  OBVIOUS
<1>10. AnswersTo(command, m) /\ messageSize(m) <= MaxDatagram
  BY <1>1, <1>9, PlainAnswers, Zenon
<1>11. CASE Path \in Watched /\ Sent(Update(files)) = <<>>
  <2>1. Crash /\ update' = update
    BY <1>11 DEF Edit
  <2>2. messageSize(up) > MaxDatagram
    BY <1>5, <1>6, <1>11, SentArrives
  <2>3. ServerEnded'
    BY <1>2, <1>6, <1>7, <1>11, <2>2 DEF ServerEnded
  <2> QED BY <1>7, <1>8, <2>1, <2>3, CrashKeeps
<1>12. CASE Path \in Watched /\ Sent(Update(files)) # <<>>
  <2>1. /\ update' = [ outcome |-> "update", text |-> unmarshalMessage(Sent(Update(files))).value.strArgs[2] ]
        /\ Respond(<< Good >>, <<>>)
    BY <1>12 DEF Edit
  <2>2. unmarshalMessage(Sent(up)) = [ value |-> up, length |-> Len(Sent(up)) ]
    BY <1>5, <1>6, <1>12, SentArrives
  <2>3. unmarshalMessage(Sent(up)).value.strArgs[2] = text
    BY <1>6, <2>2
  <2>4. update' = [ outcome |-> "update", text |-> text ]
    BY <1>5, <2>1, <2>3, Zenon
  <2>5. update' \in Answers
    BY <2>4 DEF Answers
  <2> QED BY <1>7, <1>9, <1>10, <2>1, <2>5, AnsweredKeeps
<1>13. CASE Path \notin Watched
  <2>1. update' = update /\ Respond(<< Good >>, <<>>)
    BY <1>13 DEF Edit
  <2> QED BY <1>7, <1>8, <1>9, <1>10, <2>1, AnsweredKeeps
<1> QED BY <1>11, <1>12, <1>13

\* An exception is told.
LEMMA FailureKeeps ==
  ASSUME ContentsInv, NEW callType, Serve(callType), NEW e \in {NoFileException, FileBoundException},
         RespondOnly(<< Failure, e >>, <<>>)
  PROVE  ContentsInv'
<1>1. PICK m : m = Message(Response, Received.callType, Received.num, << Failure, e >>, <<>>)
  OBVIOUS
<1>2. Arrived(Call)
  BY DEF Serve
<1>3. AnswersTo(command, m) /\ messageSize(m) <= MaxDatagram
  BY <1>1, <1>2, PlainAnswers, Zenon
<1>4. IsFileSystem(serverFiles') /\ update' \in Answers /\ Respond(<< Failure, e >>, <<>>)
  <2>1. serverFiles' = serverFiles /\ update' = update /\ Respond(<< Failure, e >>, <<>>)
    BY DEF RespondOnly
  <2> QED BY <2>1 DEF ContentsInv, TypeOK
<1> QED BY <1>1, <1>3, <1>4, AnsweredKeeps

\* A text is inserted, or the offset is behind the end of the file.
LEMMA ServeInsertKeeps ==
  ASSUME ContentsInv, ServeInsert
  PROVE  ContentsInv'
<1>1. Serve(Insert) /\ Received.callType = Insert
  BY DEF ServeInsert, Serve
<1>2. /\ command.name = "insert" /\ command \in Commands
      /\ Path = command.path /\ command.path \in String
      /\ Received.intArgs[1] = command.offset /\ command.offset \in Nat /\ command.offset <= INT_MAX
      /\ Received.strArgs[2] = command.bytes /\ command.bytes \in String
  BY <1>1, CallArrived DEF Serve
<1>3. PICK path \in String, offset \in Nat, bytes \in String :
        /\ path = command.path /\ offset = command.offset /\ bytes = command.bytes
        /\ offset <= INT_MAX
  BY <1>2
<1>4. PICK old : old = serverFiles
  OBVIOUS
<1>5. IsFileSystem(old)
  BY <1>3, <1>4 DEF ContentsInv, TypeOK
<1>6. CASE canInsert(old, path, offset)
  <2>1. PICK files : files = insertFile(old, path, offset, bytes)
    OBVIOUS
  <2>2. PICK new : new \in String /\ files = overwriteFile(old, path, new)
    BY <1>3, <1>4, <1>5, <1>6, <2>1, InsertedFile
  <2>3. IsFileSystem(files) /\ DOMAIN files = DOMAIN old \cup {path}
    BY <1>5, <2>2, Overwritten
  <2>4. Edit(files)
    BY <1>2, <1>3, <1>4, <1>6, <2>1, Zenon DEF ServeInsert
  <2>5. command.path \in DOMAIN files /\ command.name \in {"insert", "shift"}
    BY <1>2, <1>3, <1>4, <2>3
  <2> QED BY <1>1, <2>3, <2>4, <2>5, EditKeeps
<1>7. CASE ~canInsert(old, path, offset)
  <2>1. RespondOnly(<< Failure, FileBoundException >>, <<>>)
    BY <1>2, <1>3, <1>4, <1>7, Zenon DEF ServeInsert
  <2> QED BY <1>1, <2>1, FailureKeeps
<1> QED BY <1>6, <1>7

\* A file is shifted, if there is one.
LEMMA ServeShiftKeeps ==
  ASSUME ContentsInv, ServeShift
  PROVE  ContentsInv'
<1>1. Serve(Shift) /\ Received.callType = Shift
  BY DEF ServeShift, Serve
<1>2. /\ command.name = "shift" /\ command \in Commands
      /\ Path = command.path /\ command.path \in String /\ Received.intArgs[1] = 1
  BY <1>1, CallArrived DEF Serve
<1>3. PICK path \in String : path = command.path
  BY <1>2
<1>4. PICK old : old = serverFiles
  OBVIOUS
<1>5. IsFileSystem(old)
  BY <1>3, <1>4 DEF ContentsInv, TypeOK
<1>6. CASE Exists(old, path)
  <2>1. PICK files : files = shiftFile(old, path, 1)
    OBVIOUS
  <2>2. path \in DOMAIN old
    BY <1>6 DEF Exists
  <2>3. PICK new : new \in String /\ files = overwriteFile(old, path, new)
    BY <1>5, <2>1, <2>2, ShiftedFile
  <2>4. IsFileSystem(files) /\ DOMAIN files = DOMAIN old \cup {path}
    BY <1>5, <2>3, Overwritten
  <2>5. Edit(files)
    BY <1>2, <1>3, <1>4, <1>6, <2>1, Zenon DEF ServeShift
  <2>6. command.path \in DOMAIN files /\ command.name \in {"insert", "shift"}
    BY <1>2, <1>3, <1>4, <2>4
  <2> QED BY <1>1, <2>4, <2>5, <2>6, EditKeeps
<1>7. CASE ~Exists(old, path)
  <2>1. RespondOnly(<< Failure, NoFileException >>, <<>>)
    BY <1>2, <1>3, <1>4, <1>7, Zenon DEF ServeShift, NoSuchFile
  <2> QED BY <1>1, <2>1, FailureKeeps
<1> QED BY <1>6, <1>7

\* The most common character is told, or counting has ended the server.
LEMMA ServeModeKeeps ==
  ASSUME ContentsInv, ServeMode
  PROVE  ContentsInv'
<1>1. Serve(Mode) /\ Received.callType = Mode /\ Arrived(Call)
  BY DEF ServeMode, Serve
<1>2. command.name = "mode" /\ Path = command.path /\ command.path \in String
  BY <1>1, CallArrived
<1>3. PICK path \in String : path = command.path
  BY <1>2
<1>4. PICK old : old = serverFiles
  OBVIOUS
<1>5. IsFileSystem(old) /\ update \in Answers
  BY <1>3, <1>4 DEF ContentsInv, TypeOK
<1>6. ASSUME NEW b \in getMode(old, path), Exists(old, path), RespondOnly(<< Good >>, << << b >> >>)
      PROVE  ContentsInv'
  <2>1. b \in Byte
    BY <1>5, <1>6, ModeOfFile DEF Exists
  <2>2. PICK m : m = Message(Response, Received.callType, Received.num, << Good >>, << << b >> >>)
    OBVIOUS
  <2>3. AnswersTo(command, m) /\ messageSize(m) <= MaxDatagram
    BY <1>1, <1>2, <2>1, <2>2, PlainAnswers, Zenon
  <2>4. serverFiles' = old /\ update' = update /\ Respond(<< Good >>, << << b >> >>)
    BY <1>3, <1>4, <1>6 DEF RespondOnly
  <2>5. IsFileSystem(serverFiles') /\ update' \in Answers
    BY <1>5, <2>4
  <2> QED BY <1>1, <2>2, <2>3, <2>4, <2>5, AnsweredKeeps
<1>7. ASSUME Exists(old, path), ~IsAscii(readWholeFile(old, path)), Crash, UNCHANGED <<serverFiles, update>>
      PROVE  ContentsInv'
  <2>1. IsFileSystem(serverFiles') /\ update' \in Answers
    BY <1>3, <1>4, <1>5, <1>7
  <2>2. command' = command
    BY <1>1 DEF Serve
  <2>3. TextAt(command.path)' = readWholeFile(old, path)
    BY <1>3, <1>4, <1>7, <2>2 DEF TextAt
  <2>4. ServerEnded'
    BY <1>2, <1>7, <2>2, <2>3 DEF ServerEnded
  <2> QED BY <1>1, <1>7, <2>1, <2>4, CrashKeeps
<1>8. CASE Exists(old, path)
  <2>1. \/ \E b \in getMode(old, path) : RespondOnly(<< Good >>, << << b >> >>)
        \/ ~IsAscii(readWholeFile(old, path)) /\ Crash /\ UNCHANGED <<serverFiles, update>>
    BY <1>2, <1>3, <1>4, <1>8, Zenon DEF ServeMode
  <2> QED BY <1>6, <1>7, <1>8, <2>1
<1>9. CASE ~Exists(old, path)
  <2>1. RespondOnly(<< Failure, NoFileException >>, <<>>)
    BY <1>2, <1>3, <1>4, <1>9, Zenon DEF ServeMode, NoSuchFile
  <2> QED BY <1>1, <2>1, FailureKeeps
<1> QED BY <1>8, <1>9

\* The text of a file is sent whole.
LEMMA ServeDumpKeeps ==
  ASSUME ContentsInv, ServeDump
  PROVE  ContentsInv'
<1>1. Serve(Dump) /\ Received.callType = Dump /\ Arrived(Call)
  BY DEF ServeDump, Serve
<1>2. command.name = "read" /\ Path = command.path /\ command.path \in String
  BY <1>1, CallArrived
<1>3. PICK path \in String : path = command.path
  BY <1>2
<1>4. PICK old : old = serverFiles
  OBVIOUS
<1>5. IsFileSystem(old) /\ update \in Answers
  BY <1>3, <1>4 DEF ContentsInv, TypeOK
<1>6. CASE Exists(old, path)
  <2>1. PICK text \in String : text = readWholeFile(old, path)
    BY <1>5, <1>6, FileText DEF Exists
  <2>2. PICK m : m = Message(Response, Received.callType, Received.num, <<>>, << text >>)
    OBVIOUS
  <2>3. AnswersTo(command, m) /\ messageSize(m) = 28 + Words(text)
    BY <1>1, <1>2, <2>2, PlainAnswers, Zenon
  <2>4. RespondOnly(<<>>, << text >>)
    BY <1>2, <1>3, <1>4, <1>6, <2>1, Zenon DEF ServeDump
  <2>5. serverFiles' = old /\ update' = update /\ Respond(<<>>, << text >>)
    BY <1>3, <1>4, <2>4 DEF RespondOnly
  <2>6. IsFileSystem(serverFiles') /\ update' \in Answers
    BY <1>5, <2>5
  <2>7. command' = command
    BY <1>1 DEF Serve
  <2>8. TextAt(command.path)' = text
    BY <1>3, <1>4, <1>6, <2>1, <2>5, <2>7 DEF TextAt
  <2> QED BY <1>1, <1>2, <2>2, <2>3, <2>5, <2>6, <2>8, AnsweredKeeps
<1>7. CASE ~Exists(old, path)
  <2>1. RespondOnly(<< Failure, NoFileException >>, <<>>)
    BY <1>2, <1>3, <1>4, <1>7, Zenon DEF ServeDump, NoSuchFile
  <2> QED BY <1>1, <2>1, FailureKeeps
<1> QED BY <1>6, <1>7

\* Every step of the two keeps the inductive invariant.
LEMMA StepKeeps == ContentsInv /\ [Next]_vars => ContentsInv'
<1> SUFFICES ASSUME ContentsInv, [Next]_vars PROVE ContentsInv'
  OBVIOUS
<1>1. ASSUME NEW c \in Commands, Enter(c) PROVE ContentsInv'
  BY <1>1, EnterKeeps
<1>2. ASSUME NEW c \in Commands, ReadLocally(c) PROVE ContentsInv'
  BY <1>2, ReadLocallyKeeps
<1>3. CASE ReceiveResponse
  BY <1>3, ReceiveResponseKeeps
<1>4. CASE ReceiveFile
  BY <1>4, ReceiveFileKeeps
<1>5. CASE GiveUp
  BY <1>5, GiveUpKeeps
<1>6. CASE ServeInsert
  BY <1>6, ServeInsertKeeps
<1>7. CASE ServeShift
  BY <1>7, ServeShiftKeeps
<1>8. CASE ServeMode
  BY <1>8, ServeModeKeeps
<1>9. CASE ServeDump
  BY <1>9, ServeDumpKeeps
<1>10. CASE UNCHANGED vars
  <2>1. UNCHANGED <<serverFiles, serverUp, clientFiles, client, command, messageNum, packet, executed, shown, update>>
    BY <1>10 DEF vars
  <2>2. Received' = Received
    BY <2>1 DEF Received
  <2> QED BY <2>1, <2>2 DEF ContentsInv, TypeOK, Quiet, Calling, Answering, Missing, ServerEnded, TextAt
<1> QED BY <1>1, <1>2, <1>3, <1>4, <1>5, <1>6, <1>7, <1>8, <1>9, <1>10 DEF Next

\* marshal.cpp and sender.cpp between client_loop and execute: the packet that is on
\* its way is the call that the user has entered or the answer to it, byte for byte,
\* whatever the paths, texts and numbers are; it is missing only for its length or
\* with the server.
THEOREM ContentsInvHolds == Spec => []ContentsInv
BY InitHolds, StepKeeps, PTL DEF Spec

\* Every packet is as long as its first four bytes tell, and is unpacked to its last
\* byte: recvWholeStream never waits for more, and unmarshalMessage never reads past
\* the end.
THEOREM PacketsExactHolds == Spec => []PacketsExact
<1>1. ContentsInv => PacketsExact
  BY OnItsWayType DEF PacketsExact
<1> QED BY <1>1, ContentsInvHolds, PTL

\* A client ends without an answer only by a call or a text that is too long for a
\* packet, or by a server that has ended, on a byte above 127 or on an update that is
\* too long.
THEOREM UnansweredOnlyIfTooLongHolds == Spec => []UnansweredOnlyIfTooLong
<1>1. ContentsInv => UnansweredOnlyIfTooLong
  <2> SUFFICES ASSUME ContentsInv PROVE UnansweredOnlyIfTooLong
    OBVIOUS
  <2>1. ~serverUp =>
          \/ command.name = "mode" /\ ~IsAscii(TextAt(command.path))
          \/ /\ command.path \in Watched
             /\ 28 + Words(TextAt(command.path)) + 4 + Words(command.path) > MaxDatagram
    <3> SUFFICES ASSUME ~serverUp
        PROVE  \/ command.name = "mode" /\ ~IsAscii(TextAt(command.path))
               \/ /\ command.path \in Watched
                  /\ 28 + Words(TextAt(command.path)) + 4 + Words(command.path) > MaxDatagram
      OBVIOUS
    <3>1. IsFileSystem(serverFiles) /\ client # "Prompt"
      BY DEF ContentsInv, TypeOK, Quiet
    <3>2. command \in Commands
      BY <3>1 DEF ContentsInv, TypeOK
    <3>3. PICK c \in Commands : c = command
      BY <3>2
    <3>4. PICK files : files = serverFiles
      OBVIOUS
    <3>5. TextAt(command.path) \in String /\ command.path \in String
      <4>1. <<>> \in String
        BY EmptySeq DEF String
      <4>2. c.path \in DOMAIN files => readWholeFile(files, c.path) \in String
        BY <3>1, <3>3, <3>4, FileText
      <4> QED BY <3>3, <3>4, <4>1, <4>2, CommandKinds DEF TextAt, Exists
    <3>6. Words(TextAt(command.path)) \in Nat /\ Words(command.path) \in Nat
      BY <3>5, WordsOf
    <3> QED BY <3>6 DEF ContentsInv, ServerEnded
  <2>2. client = "Ended" =>
          \/ ~serverUp
          \/ CallLength(command) > MaxDatagram
          \/ command.name = "read" /\ 28 + Words(TextAt(command.path)) > MaxDatagram
    BY DEF ContentsInv, Quiet, Missing
  <2> QED BY <2>1, <2>2 DEF UnansweredOnlyIfTooLong
<1> QED BY <1>1, ContentsInvHolds, PTL

-----------------------------------------------------------------------------
(* Every step is one of TextService.                                        *)

\* The command and the answer of the abstract service.
TheCommand ==
  CASE client = "Prompt" -> [ name |-> "idle" ]
    [] client = "Waits" -> command
    [] client = "Ended" -> [ name |-> "gone" ]

TheAnswer ==
  IF client # "Waits" \/ ~executed THEN [ outcome |-> "not yet", text |-> <<>> ]
  ELSE IF packet = <<>> THEN [ outcome |-> "lost", text |-> <<>> ]
  ELSE AnswerIn(Received)

\* The texts of some files.
LEMMA TextsOf ==
  ASSUME NEW files
  PROVE  /\ DOMAIN Texts(files) = DOMAIN files
         /\ \A p \in DOMAIN files : Texts(files)[p] = readWholeFile(files, p)
BY DEF Texts

\* A file that is written changes its text only, and keeps what is written.
LEMMA TextsWritten ==
  ASSUME NEW files, IsFileSystem(files), NEW path \in String, NEW bytes \in String,
         NEW new, new = overwriteFile(files, path, bytes)
  PROVE  /\ IsFileSystem(new) /\ path \in DOMAIN new
         /\ readWholeFile(new, path) \in Service!Kept(bytes)
         /\ Texts(new) = Service!Set(Texts(files), path, readWholeFile(new, path))
<1>1. /\ IsFileSystem(new) /\ DOMAIN new = DOMAIN files \cup {path}
      /\ readWholeFile(new, path) = withoutLastNewLine(bytes)
      /\ \A p \in DOMAIN files : p # path => new[p] = files[p]
  <2>1. IsFileSystem(new) /\ readWholeFile(new, path) = withoutLastNewLine(bytes)
    BY Overwritten, Zenon
  <2>2. DOMAIN new = DOMAIN files \cup {path} /\ \A p \in DOMAIN files : p # path => new[p] = files[p]
    BY Zenon DEF overwriteFile
  <2> QED BY <2>1, <2>2
<1>2. readWholeFile(new, path) \in Service!Kept(bytes)
  BY <1>1, TextKept
<1>3. \A p \in DOMAIN new : p # path => p \in DOMAIN files /\ readWholeFile(new, p) = Texts(files)[p]
  BY <1>1, TextsOf DEF readWholeFile
<1>4. Texts(new) = Service!Set(Texts(files), path, readWholeFile(new, path))
  <2>1. DOMAIN Texts(files) = DOMAIN files
    BY TextsOf
  <2>2. Service!Set(Texts(files), path, readWholeFile(new, path)) =
          [ p \in DOMAIN new |-> IF p = path THEN readWholeFile(new, path) ELSE Texts(files)[p] ]
    BY <1>1, <2>1, Zenon DEF Service!Set
  <2>3. Texts(new) = [ p \in DOMAIN new |-> readWholeFile(new, p) ]
    BY Zenon DEF Texts
  <2>4. \A p \in DOMAIN new :
          readWholeFile(new, p) = IF p = path THEN readWholeFile(new, path) ELSE Texts(files)[p]
    BY <1>3, Zenon
  <2> QED BY <2>2, <2>3, <2>4, Zenon
<1> QED BY <1>1, <1>2, <1>4

\* What a response tells.
LEMMA ToldBy ==
  ASSUME NEW callType, NEW num
  PROVE  /\ AnswerIn(Message(Response, callType, num, << Failure, NoFileException >>, <<>>))
              = Service!Answer("NoFile", <<>>)
         /\ AnswerIn(Message(Response, callType, num, << Failure, FileBoundException >>, <<>>))
              = Service!Answer("FileBound", <<>>)
         /\ AnswerIn(Message(Response, callType, num, << Good >>, <<>>)) = Service!Answer("Good", <<>>)
         /\ \A b : AnswerIn(Message(Response, callType, num, << Good >>, << << b >> >>))
                     = Service!Answer("Good", << b >>)
         /\ \A text : AnswerIn(Message(Response, callType, num, <<>>, << text >>))
                        = Service!Answer("Good", text)
<1>1. NoFileException # FileBoundException /\ Good # Failure
  BY DEF NoFileException, FileBoundException, Good, Failure
<1>2. AnswerIn(Message(Response, callType, num, << Failure, NoFileException >>, <<>>))
        = Service!Answer("NoFile", <<>>)
  <2>1. PICK m : m = Message(Response, callType, num, << Failure, NoFileException >>, <<>>)
    OBVIOUS
  <2>2. m.intArgs # <<>> /\ m.intArgs[1] = Failure /\ m.intArgs[2] = NoFileException
    BY <2>1 DEF Message
  <2>3. AnswerIn(m) = Thrown("NoFile")
    BY <2>2, Zenon DEF AnswerIn
  <2> QED BY <2>1, <2>3 DEF Thrown, Service!Answer
<1>3. AnswerIn(Message(Response, callType, num, << Failure, FileBoundException >>, <<>>))
        = Service!Answer("FileBound", <<>>)
  <2>1. PICK m : m = Message(Response, callType, num, << Failure, FileBoundException >>, <<>>)
    OBVIOUS
  <2>2. m.intArgs # <<>> /\ m.intArgs[1] = Failure /\ m.intArgs[2] # NoFileException
    BY <1>1, <2>1 DEF Message
  <2>3. AnswerIn(m) = Thrown("FileBound")
    BY <2>2, Zenon DEF AnswerIn
  <2> QED BY <2>1, <2>3 DEF Thrown, Service!Answer
<1>4. AnswerIn(Message(Response, callType, num, << Good >>, <<>>)) = Service!Answer("Good", <<>>)
  <2>1. PICK m : m = Message(Response, callType, num, << Good >>, <<>>)
    OBVIOUS
  <2>2. m.intArgs[1] # Failure /\ m.strArgs = <<>>
    BY <1>1, <2>1 DEF Message
  <2>3. AnswerIn(m) = Text(<<>>)
    BY <2>2, Zenon DEF AnswerIn
  <2> QED BY <2>1, <2>3 DEF Text, Service!Answer
<1>5. ASSUME NEW b
      PROVE  AnswerIn(Message(Response, callType, num, << Good >>, << << b >> >>)) = Service!Answer("Good", << b >>)
  <2>1. PICK m, text : m = Message(Response, callType, num, << Good >>, << text >>) /\ text = << b >>
    OBVIOUS
  <2>2. m.intArgs[1] # Failure /\ m.strArgs # <<>> /\ m.strArgs[1] = text
    BY <1>1, <2>1 DEF Message
  <2>3. AnswerIn(m) = Text(text)
    BY <2>2, Zenon DEF AnswerIn
  <2> QED BY <2>1, <2>3 DEF Text, Service!Answer
<1>6. ASSUME NEW text
      PROVE  AnswerIn(Message(Response, callType, num, <<>>, << text >>)) = Service!Answer("Good", text)
  <2>1. PICK m : m = Message(Response, callType, num, <<>>, << text >>)
    OBVIOUS
  <2>2. m.intArgs = <<>> /\ m.strArgs # <<>> /\ m.strArgs[1] = text
    BY <2>1 DEF Message
  <2>3. AnswerIn(m) = Text(text)
    BY <2>2, Zenon DEF AnswerIn
  <2> QED BY <2>1, <2>3 DEF Text, Service!Answer
<1> QED BY <1>2, <1>3, <1>4, <1>5, <1>6

\* The first state is one of the service.
LEMMA InitMaps == Init => Service!Init
<1> SUFFICES ASSUME Init PROVE Service!Init
  OBVIOUS
<1>1. Texts(clientFiles) = << >>
  <2>1. DOMAIN << >> = 1 .. 0 /\ 1 .. 0 = {}
    BY EmptySeq
  <2>2. clientFiles = << >>
    BY DEF Init
  <2>3. Texts(<< >>) \in [ 1 .. 0 -> Nat ]
    BY <2>1 DEF Texts
  <2>4. Texts(<< >>) \in Seq(Nat) /\ Len(Texts(<< >>)) = 0
    BY <2>3
  <2> QED BY <2>2, <2>4
<1>2. client = "Prompt" /\ shown = [ outcome |-> "not yet", text |-> <<>> ] /\ update = shown
  BY DEF Init
<1> QED BY <1>1, <1>2 DEF Service!Init, Service!Idle, Service!NotYet, Service!Answer

\* The user enters a command.
LEMMA EnterMaps ==
  ASSUME ContentsInv, NEW c \in Commands, Enter(c)
  PROVE  Service!Enter(c)
<1>1. /\ client = "Prompt" /\ client' = "Waits" /\ command' = c /\ executed' = FALSE
      /\ UNCHANGED <<serverFiles, clientFiles, shown, update>>
  BY DEF Enter
<1>2. TheCommand = [ name |-> "idle" ] /\ TheCommand' = c
  BY <1>1 DEF TheCommand
<1>3. TheAnswer' = TheAnswer
  BY <1>1 DEF TheAnswer
<1>4. Texts(serverFiles)' = Texts(serverFiles) /\ Texts(clientFiles)' = Texts(clientFiles)
  BY <1>1 DEF Texts
<1> QED BY <1>1, <1>2, <1>3, <1>4 DEF Service!Enter, Service!Idle, TheCommand, TheAnswer

\* A part of a copy is shown.
LEMMA ReadLocallyMaps ==
  ASSUME ContentsInv, NEW c \in Commands, ReadLocally(c)
  PROVE  Service!ReadCopy(c)
<1>1. /\ client = "Prompt" /\ c.name = "read" /\ c.path \in DOMAIN clientFiles
      /\ shown' = readFile(clientFiles, c.path, c.offset, c.num)
      /\ UNCHANGED <<serverFiles, clientFiles, client, command, packet, executed, update>>
  BY DEF ReadLocally, Exists
<1>2. PICK files, path : files = clientFiles /\ path = c.path
  OBVIOUS
<1>3. IsFileSystem(files) /\ path \in DOMAIN files /\ Len(files[path]) < INT_MAX
  BY <1>1, <1>2 DEF ContentsInv, TypeOK
<1>4. c.offset \in Nat /\ c.offset <= INT_MAX /\ c.num \in Nat /\ c.num <= INT_MAX
  BY <1>1, CommandKinds
<1>5. readFile(files, path, c.offset, c.num) = Service!Part(readWholeFile(files, path), c.offset, c.num)
  BY <1>3, <1>4, ReadPart
<1>6. DOMAIN Texts(files) = DOMAIN files /\ Texts(files)[path] = readWholeFile(files, path)
  BY <1>3, TextsOf
<1>7. shown' = Service!Part(Texts(clientFiles)[c.path], c.offset, c.num) /\ c.path \in DOMAIN Texts(clientFiles)
  BY <1>1, <1>2, <1>5, <1>6, Zenon
<1>8. TheCommand = [ name |-> "idle" ] /\ TheCommand' = TheCommand
  BY <1>1 DEF TheCommand
<1>9. TheAnswer' = TheAnswer
  BY <1>1 DEF TheAnswer, Received
<1>10. Texts(serverFiles)' = Texts(serverFiles) /\ Texts(clientFiles)' = Texts(clientFiles)
  BY <1>1 DEF Texts
<1> QED BY <1>1, <1>7, <1>8, <1>9, <1>10, Zenon DEF Service!ReadCopy, Service!Idle, TheCommand, TheAnswer

\* The user is not answered.
LEMMA GiveUpMaps ==
  ASSUME ContentsInv, GiveUp
  PROVE  Service!GiveUp
<1>1. /\ client = "Waits" /\ client' = "Ended"
      /\ UNCHANGED <<serverFiles, clientFiles, shown, update>>
  BY DEF GiveUp
<1>2. TheCommand = command /\ TheCommand' = [ name |-> "gone" ]
  BY <1>1 DEF TheCommand
<1>3. command # [ name |-> "idle" ] /\ command # [ name |-> "gone" ]
  <2>1. command \in Commands
    BY <1>1 DEF ContentsInv, TypeOK
  <2>2. command.name \in {"insert", "shift", "mode", "read"}
    BY <2>1, CommandKinds
  <2> QED BY <2>2
<1>4. TheAnswer' = [ outcome |-> "not yet", text |-> <<>> ]
  BY <1>1 DEF TheAnswer
<1>5. Texts(serverFiles)' = Texts(serverFiles) /\ Texts(clientFiles)' = Texts(clientFiles)
  BY <1>1 DEF Texts
<1> QED BY <1>1, <1>2, <1>3, <1>4, <1>5, Zenon
        DEF Service!GiveUp, Service!Idle, Service!Gone, Service!NotYet, Service!Answer, TheCommand, TheAnswer

\* A response is an answer of the service.
LEMMA ResponseMaps ==
  ASSUME ContentsInv, NEW callTypes, Receive(callTypes)
  PROVE  /\ TheCommand = command /\ TheCommand' = Service!Idle
         /\ TheAnswer = AnswerIn(Received) /\ TheAnswer' = Service!NotYet
         /\ TheAnswer \notin { Service!NotYet, Service!Lost }
         /\ Texts(serverFiles)' = Texts(serverFiles) /\ update' = update
<1>1. /\ client = "Waits" /\ client' = "Prompt" /\ packet # <<>> /\ Arrived(Response)
      /\ UNCHANGED <<serverFiles, update>>
  BY DEF Receive, Arrived
<1>2. /\ executed /\ AnswerIn(Received) \in [ outcome : {"Good", "NoFile", "FileBound"}, text : String ]
  BY <1>1, ResponseArrived
<1>3. TheCommand = command /\ TheCommand' = Service!Idle
  BY <1>1 DEF TheCommand, Service!Idle
<1>4. TheAnswer = AnswerIn(Received) /\ TheAnswer' = Service!NotYet
  BY <1>1, <1>2 DEF TheAnswer, Service!NotYet, Service!Answer
<1>5. TheAnswer.outcome \in {"Good", "NoFile", "FileBound"}
  BY <1>2, <1>4
<1>6. Service!NotYet.outcome = "not yet" /\ Service!Lost.outcome = "lost"
  BY DEF Service!NotYet, Service!Lost, Service!Answer
<1>7. TheAnswer \notin { Service!NotYet, Service!Lost }
  BY <1>5, <1>6
<1>8. Texts(serverFiles)' = Texts(serverFiles)
  BY <1>1 DEF Texts
<1> QED BY <1>1, <1>3, <1>4, <1>7, <1>8

\* An outcome or a character is shown.
LEMMA ReceiveResponseMaps ==
  ASSUME ContentsInv, ReceiveResponse
  PROVE  Service!Return
<1>1. /\ Receive({Insert, Shift, Mode}) /\ Arrived(Response)
      /\ Received.callType \in {Insert, Shift, Mode}
      /\ shown' = AnswerIn(Received) /\ clientFiles' = clientFiles
  BY DEF ReceiveResponse, Receive
<1>2. command.name # "read"
  <2>1. /\ command \in Commands /\ messageNum - 1 \in uint
        /\ Received.callType = CallOf(command, messageNum - 1).callType
    BY <1>1, ResponseArrived
  <2>2. PICK c \in Commands, n \in uint : c = command /\ n = messageNum - 1
    BY <2>1
  <2>3. c.name = "read" => CallOf(c, n).callType = Dump
    BY CallOfCommand DEF Message
  <2> QED BY <1>1, <2>1, <2>2, <2>3 DEF Insert, Shift, Mode, Dump
<1>3. Texts(clientFiles)' = Texts(clientFiles)
  BY <1>1 DEF Texts
<1>4. /\ TheCommand = command /\ TheCommand' = Service!Idle
      /\ TheAnswer = AnswerIn(Received) /\ TheAnswer' = Service!NotYet
      /\ TheAnswer \notin { Service!NotYet, Service!Lost }
      /\ Texts(serverFiles)' = Texts(serverFiles) /\ update' = update
  BY <1>1, ResponseMaps
<1>5. ~(TheCommand.name = "read" /\ TheAnswer.outcome = "Good") /\ shown' = TheAnswer
  BY <1>1, <1>2, <1>4
<1> QED BY <1>3, <1>4, <1>5, Zenon DEF Service!Return, TheCommand, TheAnswer

\* The text of a read is copied, and the part that was asked for is shown.
LEMMA ReceiveFileMaps ==
  ASSUME ContentsInv, ReceiveFile
  PROVE  Service!Return
<1>1. Receive({Dump}) /\ Arrived(Response) /\ command.name = "read"
  BY FileArrived DEF ReceiveFile, Receive
<1>2. /\ TheCommand = command /\ TheCommand' = Service!Idle
      /\ TheAnswer = AnswerIn(Received) /\ TheAnswer' = Service!NotYet
      /\ TheAnswer \notin { Service!NotYet, Service!Lost }
      /\ Texts(serverFiles)' = Texts(serverFiles) /\ update' = update
  BY <1>1, ResponseMaps
<1>3. CASE AnswerIn(Received).outcome # "Good"
  <2>1. shown' = AnswerIn(Received) /\ clientFiles' = clientFiles
    BY <1>3 DEF ReceiveFile
  <2>2. Texts(clientFiles)' = Texts(clientFiles)
    BY <2>1 DEF Texts
  <2>3. ~(TheCommand.name = "read" /\ TheAnswer.outcome = "Good") /\ shown' = TheAnswer
    BY <1>2, <1>3, <2>1
  <2> QED BY <1>2, <2>2, <2>3, Zenon DEF Service!Return, TheCommand, TheAnswer
<1>4. CASE AnswerIn(Received).outcome = "Good"
  <2>1. PICK text : text = Received.strArgs[1]
    OBVIOUS
  <2>2. text \in String /\ 28 + Words(text) <= MaxDatagram /\ AnswerIn(Received) = Text(text)
    BY <1>1, <1>4, <2>1, ResponseArrived
  <2>3. Len(text) < INT_MAX /\ Len(text) \in Nat
    <3>1. Words(text) \in Nat /\ Words(text) >= Len(text) /\ Len(text) \in Nat
      BY <2>2, WordsOf, LenProperties DEF String
    <3> QED BY <2>2, <3>1, Bounds
  <2>4. PICK c \in Commands : c = command /\ c.name = "read"
    BY <1>1, ResponseArrived
  <2>5. PICK old, files : old = clientFiles /\ files = overwriteFile(old, c.path, text)
    OBVIOUS
  <2>6. IsFileSystem(old)
    BY <2>5 DEF ContentsInv, TypeOK
  <2>7. clientFiles' = files /\ shown' = readFile(files, c.path, c.offset, c.num)
    BY <1>4, <2>1, <2>4, <2>5 DEF ReceiveFile
  <2>8. PICK path \in String : path = c.path
    BY CommandKinds
  <2>9. /\ IsFileSystem(files) /\ path \in DOMAIN files
        /\ readWholeFile(files, path) \in Service!Kept(text)
        /\ Texts(files) = Service!Set(Texts(old), path, readWholeFile(files, path))
    BY <2>2, <2>5, <2>6, <2>8, TextsWritten
  <2>10. files[path] = text
    <3>1. files = overwriteFile(old, path, text)
      BY <2>5, <2>8
    <3> QED BY <2>2, <2>6, <3>1, Zenon DEF overwriteFile
  <2>11. c.offset \in Nat /\ c.offset <= INT_MAX /\ c.num \in Nat /\ c.num <= INT_MAX
    BY <2>4, CommandKinds
  <2>12. readFile(files, path, c.offset, c.num) = Service!Part(readWholeFile(files, path), c.offset, c.num)
    BY <2>3, <2>9, <2>10, <2>11, ReadPart
  <2>13. TheAnswer.outcome = "Good" /\ TheAnswer.text = text /\ TheCommand.name = "read"
    BY <1>1, <1>2, <1>4, <2>2 DEF Text
  <2>14. /\ Texts(clientFiles)' = Service!Set(Texts(clientFiles), TheCommand.path, readWholeFile(files, path))
         /\ shown' = Service!Part(readWholeFile(files, path), TheCommand.offset, TheCommand.num)
    <3>1. Texts(clientFiles)' = Texts(files)
      BY <2>7 DEF Texts
    <3> QED BY <1>2, <2>4, <2>5, <2>7, <2>8, <2>9, <2>12, <3>1, Zenon
  <2>15. \E kept \in Service!Kept(TheAnswer.text) :
           /\ Texts(clientFiles)' = Service!Set(Texts(clientFiles), TheCommand.path, kept)
           /\ shown' = Service!Part(kept, TheCommand.offset, TheCommand.num)
    BY <2>9, <2>13, <2>14, Zenon
  <2> QED BY <1>2, <2>13, <2>15, Zenon DEF Service!Return, TheCommand, TheAnswer
<1> QED BY <1>3, <1>4

\* The server executes the command that is carried out.
LEMMA ServeMaps ==
  ASSUME ContentsInv, NEW callType, Serve(callType)
  PROVE  /\ TheCommand = command /\ TheCommand' = command
         /\ TheAnswer = Service!NotYet
         /\ TheAnswer' = IF packet' = <<>> THEN Service!Lost ELSE AnswerIn(ReceivedFrom(packet'))
         /\ Texts(clientFiles)' = Texts(clientFiles) /\ shown' = shown
<1>1. /\ client = "Waits" /\ executed' = TRUE
      /\ UNCHANGED <<clientFiles, client, command, messageNum, shown>> /\ Arrived(Call)
  BY CallArrived DEF Serve
<1>2. ~executed
  BY <1>1, CallArrived
<1>3. TheCommand = command /\ TheCommand' = command
  BY <1>1 DEF TheCommand
<1>4. TheAnswer = Service!NotYet
  BY <1>2 DEF TheAnswer, Service!NotYet, Service!Answer
<1>5. Received' = ReceivedFrom(packet')
  BY Zenon DEF Received, ReceivedFrom
<1>6. TheAnswer' = IF packet' = <<>> THEN Service!Lost ELSE AnswerIn(Received')
  BY <1>1 DEF TheAnswer, Service!Lost, Service!Answer, AnswerIn
<1>7. Texts(clientFiles)' = Texts(clientFiles)
  BY <1>1 DEF Texts
<1> QED BY <1>1, <1>3, <1>4, <1>5, <1>6, <1>7

\* The server executes the command that is carried out, for the first time.
LEMMA ExecuteMaps ==
  ASSUME ContentsInv, NEW callType, Serve(callType), NEW name, command.name = name
  PROVE  Service!Execute(name)
<1>1. /\ TheCommand = command /\ TheCommand' = command
      /\ TheAnswer = Service!NotYet
      /\ Texts(clientFiles)' = Texts(clientFiles) /\ shown' = shown
  BY ServeMaps
<1>2. TheCommand.name = name /\ TheCommand' = TheCommand
  BY <1>1
<1> QED BY <1>1, <1>2, Zenon DEF Service!Execute, TheCommand, TheAnswer

\* A response arrives or is lost.
LEMMA AnsweredMaps ==
  ASSUME ContentsInv, NEW callType, Serve(callType), NEW ints, NEW strs, Respond(ints, strs), NEW m,
         m = Message(Response, Received.callType, Received.num, ints, strs),
         AnswersTo(command, m)
  PROVE  TheAnswer' \in { Service!Lost, AnswerIn(m) }
<1>1. /\ command \in Commands /\ messageNum - 1 \in uint
      /\ Received.callType = CallOf(command, messageNum - 1).callType
      /\ Received.num = messageNum - 1
  BY CallArrived DEF Serve
<1>2. PICK c \in Commands, n \in uint : c = command /\ n = messageNum - 1
  BY <1>1
<1>3. m = Message(Response, CallOf(c, n).callType, n, ints, strs) /\ AnswersTo(c, m)
  BY <1>1, <1>2, Zenon
<1>4. Sent(m) # <<>> => ReceivedFrom(Sent(m)) = m
  BY <1>3, AnswerArrives
<1>5. packet' = Sent(m)
  BY Zenon DEF Respond
<1>6. TheAnswer' = IF packet' = <<>> THEN Service!Lost ELSE AnswerIn(ReceivedFrom(packet'))
  BY ServeMaps
<1>7. PICK p, a : p = packet' /\ a = TheAnswer'
  OBVIOUS
<1>8. a = IF p = <<>> THEN Service!Lost ELSE AnswerIn(ReceivedFrom(p))
  BY <1>6, <1>7
<1>9. a \in { Service!Lost, AnswerIn(m) }
  BY <1>4, <1>5, <1>7, <1>8
<1> QED BY <1>7, <1>9

\* What is told without a change of the files.
LEMMA TellMaps ==
  ASSUME ContentsInv, NEW callType, Serve(callType), NEW ints, NEW strs, RespondOnly(ints, strs), NEW m,
         m = Message(Response, Received.callType, Received.num, ints, strs),
         AnswersTo(command, m),
         NEW outcome, NEW text, AnswerIn(m) = Service!Answer(outcome, text)
  PROVE  Service!Tell(outcome, text)
<1>1. Respond(ints, strs) /\ serverFiles' = serverFiles /\ update' = update
  BY DEF RespondOnly
<1>2. TheAnswer' \in { Service!Lost, Service!Answer(outcome, text) }
  BY <1>1, AnsweredMaps
<1>3. Texts(serverFiles)' = Texts(serverFiles)
  BY <1>1 DEF Texts
<1> QED BY <1>1, <1>2, <1>3, Zenon DEF Service!Tell, TheAnswer

\* An edit of a text.
LEMMA EditMaps ==
  ASSUME ContentsInv, NEW callType, Serve(callType), command.name \in {"insert", "shift"},
         NEW bytes \in String, NEW files, files = overwriteFile(serverFiles, command.path, bytes), Edit(files)
  PROVE  Service!Edit(bytes)
<1>1. /\ Arrived(Call) /\ command \in Commands /\ command.path \in String /\ Path = command.path
  BY CallArrived DEF Serve
<1>2. PICK path \in String : path = command.path
  BY <1>1
<1>3. PICK old : old = serverFiles
  OBVIOUS
<1>4. IsFileSystem(old)
  BY <1>2, <1>3 DEF ContentsInv, TypeOK
<1>5. files = overwriteFile(old, path, bytes)
  BY <1>2, <1>3
<1>6. /\ IsFileSystem(files) /\ path \in DOMAIN files
      /\ readWholeFile(files, path) \in Service!Kept(bytes)
      /\ Texts(files) = Service!Set(Texts(old), path, readWholeFile(files, path))
  BY <1>4, <1>5, TextsWritten
<1>7. PICK kept \in String : kept = readWholeFile(files, path)
  BY <1>6, FileText
<1>8. PICK up : up = Message(Call, MonitorUpdate, 0, <<>>, << path, kept >>)
  OBVIOUS
<1>9. Update(files) = up
  BY <1>1, <1>2, <1>3, <1>7, <1>8, Zenon DEF Update
<1>10. up \in Packable /\ up.strArgs = << path, kept >>
  BY <1>8, UpdateMessage
<1>11. TheCommand = command /\ serverFiles' = files
  BY ServeMaps DEF Edit
<1>12. Texts(serverFiles)' = Service!Set(Texts(serverFiles), TheCommand.path, kept)
  <2>1. Texts(serverFiles)' = Texts(files)
    BY <1>11 DEF Texts
  <2> QED BY <1>2, <1>3, <1>6, <1>7, <1>11, <2>1, Zenon
<1>13. PICK m : m = Message(Response, Received.callType, Received.num, << Good >>, <<>>)
  OBVIOUS
<1>14. AnswersTo(command, m) /\ AnswerIn(m) = Service!Answer("Good", <<>>)
  BY <1>1, <1>13, PlainAnswers, ToldBy, Zenon
<1>15. Respond(<< Good >>, <<>>) => TheAnswer' \in { Service!Lost, Service!Answer("Good", <<>>) }
  BY <1>13, <1>14, AnsweredMaps
<1>16. Crash => TheAnswer' \in { Service!Lost, Service!Answer("Good", <<>>) }
  BY ServeMaps DEF Crash
<1>17. /\ update' \in { update, Service!Answer("update", kept) }
       /\ TheAnswer' \in { Service!Lost, Service!Answer("Good", <<>>) }
  <2>1. CASE Path \in Watched /\ Sent(Update(files)) = <<>>
    <3>1. Crash /\ update' = update
      BY <2>1 DEF Edit
    <3> QED BY <1>16, <3>1
  <2>2. CASE Path \in Watched /\ Sent(Update(files)) # <<>>
    <3>1. /\ update' = [ outcome |-> "update", text |-> unmarshalMessage(Sent(Update(files))).value.strArgs[2] ]
          /\ Respond(<< Good >>, <<>>)
      BY <2>2 DEF Edit
    <3>2. unmarshalMessage(Sent(up)) = [ value |-> up, length |-> Len(Sent(up)) ]
      BY <1>9, <1>10, <2>2, SentArrives
    <3>3. unmarshalMessage(Sent(up)).value.strArgs[2] = kept
      BY <1>10, <3>2
    <3>4. update' = Service!Answer("update", kept)
      BY <1>9, <3>1, <3>3, Zenon DEF Service!Answer
    <3> QED BY <1>15, <3>1, <3>4
  <2>3. CASE Path \notin Watched
    <3>1. update' = update /\ Respond(<< Good >>, <<>>)
      BY <2>3 DEF Edit
    <3> QED BY <1>15, <3>1
  <2> QED BY <2>1, <2>2, <2>3
<1>18. kept \in Service!Kept(bytes)
  BY <1>6, <1>7
<1> QED BY <1>12, <1>17, <1>18, Zenon DEF Service!Edit, TheCommand, TheAnswer

\* The text of the file that the command is about.
LEMMA TheText ==
  ASSUME ContentsInv, NEW callType, Serve(callType)
  PROVE  /\ Service!Known <=> Exists(serverFiles, command.path)
         /\ Service!Text = TextToInsertInto(serverFiles, command.path)
         /\ Exists(serverFiles, command.path) => Service!Text = readWholeFile(serverFiles, command.path)
<1>1. TheCommand = command
  BY ServeMaps
<1>2. Service!Known <=> TheCommand.path \in DOMAIN Texts(serverFiles)
  BY Zenon DEF Service!Known, TheCommand
<1>3. Service!Text = IF Service!Known THEN Texts(serverFiles)[TheCommand.path] ELSE <<>>
  BY Zenon DEF Service!Text, TheCommand
<1>4. /\ DOMAIN Texts(serverFiles) = DOMAIN serverFiles
      /\ \A p \in DOMAIN serverFiles : Texts(serverFiles)[p] = readWholeFile(serverFiles, p)
  BY TextsOf
<1> QED BY <1>1, <1>2, <1>3, <1>4, Zenon DEF Exists, TextToInsertInto

\* The server inserts what the user has entered where the user means it.
LEMMA ServeInsertMaps ==
  ASSUME ContentsInv, ServeInsert
  PROVE  Service!Insert
<1>1. Serve(Insert) /\ Received.callType = Insert
  BY DEF ServeInsert, Serve
<1>2. /\ command.name = "insert" /\ command \in Commands /\ Arrived(Call)
      /\ Path = command.path /\ command.path \in String
      /\ Received.intArgs[1] = command.offset /\ command.offset \in Nat /\ command.offset <= INT_MAX
      /\ Received.strArgs[2] = command.bytes /\ command.bytes \in String
  BY <1>1, CallArrived DEF Serve
<1>3. PICK path \in String, offset \in Nat, bytes \in String :
        /\ path = command.path /\ offset = command.offset /\ bytes = command.bytes
        /\ offset <= INT_MAX
  BY <1>2
<1>4. PICK old : old = serverFiles
  OBVIOUS
<1>5. IsFileSystem(old)
  BY <1>3, <1>4 DEF ContentsInv, TypeOK
<1>6. TheCommand = command /\ Service!Text = TextToInsertInto(old, path)
  BY <1>1, <1>3, <1>4, ServeMaps, TheText
<1>7. PICK text : text = TextToInsertInto(old, path)
  OBVIOUS
<1>8. PICK new : new = SubSeq(text, 1, offset) \o bytes \o SubSeq(text, offset + 1, Len(text))
  OBVIOUS
<1>9. /\ canInsert(old, path, offset) <=> offset <= Len(text)
      /\ insertFile(old, path, offset, bytes) = overwriteFile(old, path, new)
      /\ offset <= Len(text) => new \in String
  BY <1>3, <1>4, <1>5, <1>7, <1>8, InsertedFile, Zenon
<1>10. ASSUME offset <= Len(text) PROVE Service!Edit(new)
  <2>1. PICK files : files = overwriteFile(serverFiles, command.path, new)
    OBVIOUS
  <2>2. Edit(files)
    BY <1>2, <1>3, <1>4, <1>9, <1>10, <2>1, Zenon DEF ServeInsert
  <2> QED BY <1>1, <1>2, <1>9, <1>10, <2>1, <2>2, EditMaps
<1>11. ASSUME ~(offset <= Len(text)) PROVE Service!Tell("FileBound", <<>>)
  <2>1. RespondOnly(<< Failure, FileBoundException >>, <<>>)
    BY <1>2, <1>3, <1>4, <1>9, <1>11, Zenon DEF ServeInsert
  <2>2. PICK m : m = Message(Response, Received.callType, Received.num, << Failure, FileBoundException >>, <<>>)
    OBVIOUS
  <2>3. AnswersTo(command, m) /\ AnswerIn(m) = Service!Answer("FileBound", <<>>)
    BY <1>2, <2>2, PlainAnswers, ToldBy, Zenon
  <2> QED BY <1>1, <2>1, <2>2, <2>3, TellMaps
<1>12. Service!Execute("insert")
  BY <1>1, <1>2, ExecuteMaps
<1>13. /\ TheCommand.offset = offset /\ TheCommand.bytes = bytes /\ Service!Text = text
  BY <1>3, <1>4, <1>6, <1>7
<1>14. IF TheCommand.offset <= Len(Service!Text)
       THEN Service!Edit(SubSeq(Service!Text, 1, TheCommand.offset) \o TheCommand.bytes
                           \o SubSeq(Service!Text, TheCommand.offset + 1, Len(Service!Text)))
       ELSE Service!Tell("FileBound", <<>>)
  BY <1>8, <1>10, <1>11, <1>13, Zenon
<1> QED BY <1>12, <1>14, Zenon DEF Service!Insert, TheCommand

\* The answer that there is no such file.
LEMMA NoSuchFileMaps ==
  ASSUME ContentsInv, NEW callType, Serve(callType), NoSuchFile
  PROVE  Service!Tell("NoFile", <<>>)
<1>1. RespondOnly(<< Failure, NoFileException >>, <<>>) /\ Arrived(Call)
  BY DEF NoSuchFile, Serve
<1>2. PICK m : m = Message(Response, Received.callType, Received.num, << Failure, NoFileException >>, <<>>)
  OBVIOUS
<1>3. AnswersTo(command, m) /\ AnswerIn(m) = Service!Answer("NoFile", <<>>)
  BY <1>1, <1>2, PlainAnswers, ToldBy, Zenon
<1> QED BY <1>1, <1>2, <1>3, TellMaps

\* The server shifts every letter of a file.
LEMMA ServeShiftMaps ==
  ASSUME ContentsInv, ServeShift
  PROVE  Service!Shift
<1>1. Serve(Shift) /\ Received.callType = Shift
  BY DEF ServeShift, Serve
<1>2. /\ command.name = "shift" /\ Path = command.path /\ command.path \in String /\ Received.intArgs[1] = 1
  BY <1>1, CallArrived DEF Serve
<1>3. PICK path \in String : path = command.path
  BY <1>2
<1>4. PICK old : old = serverFiles
  OBVIOUS
<1>5. IsFileSystem(old)
  BY <1>3, <1>4 DEF ContentsInv, TypeOK
<1>6. /\ Service!Known <=> Exists(old, path)
      /\ Exists(old, path) => Service!Text = readWholeFile(old, path)
  BY <1>1, <1>3, <1>4, TheText
<1>7. ASSUME Exists(old, path)
      PROVE  Service!Edit([ i \in DOMAIN Service!Text |-> Service!NextLetter(Service!Text[i]) ])
  <2>1. PICK text : text = readWholeFile(old, path)
    OBVIOUS
  <2>2. PICK new : new = [ i \in DOMAIN text |-> Service!NextLetter(text[i]) ]
    OBVIOUS
  <2>3. path \in DOMAIN old
    BY <1>7 DEF Exists
  <2>4. shiftFile(old, path, 1) = overwriteFile(old, path, new) /\ new \in String
    BY <1>5, <2>1, <2>2, <2>3, ShiftedFile, Zenon
  <2>5. PICK files : files = overwriteFile(serverFiles, command.path, new)
    OBVIOUS
  <2>6. Edit(files)
    BY <1>2, <1>3, <1>4, <1>7, <2>4, <2>5, Zenon DEF ServeShift
  <2>7. Service!Edit(new)
    BY <1>1, <1>2, <2>4, <2>5, <2>6, EditMaps
  <2> QED BY <1>6, <1>7, <2>1, <2>2, <2>7, Zenon
<1>8. ASSUME ~Exists(old, path) PROVE Service!Tell("NoFile", <<>>)
  <2>1. NoSuchFile
    BY <1>2, <1>3, <1>4, <1>8, Zenon DEF ServeShift
  <2> QED BY <1>1, <2>1, NoSuchFileMaps
<1>9. Service!Execute("shift")
  BY <1>1, <1>2, ExecuteMaps
<1> QED BY <1>6, <1>7, <1>8, <1>9, Zenon DEF Service!Shift

\* The server tells one of the most common characters, or is ended by a byte above 127.
LEMMA ServeModeMaps ==
  ASSUME ContentsInv, ServeMode
  PROVE  Service!Mode
<1>1. Serve(Mode) /\ Received.callType = Mode /\ Arrived(Call)
  BY DEF ServeMode, Serve
<1>2. command.name = "mode" /\ Path = command.path /\ command.path \in String
  BY <1>1, CallArrived
<1>3. PICK path \in String : path = command.path
  BY <1>2
<1>4. PICK old : old = serverFiles
  OBVIOUS
<1>5. IsFileSystem(old)
  BY <1>3, <1>4 DEF ContentsInv, TypeOK
<1>6. /\ Service!Known <=> Exists(old, path)
      /\ Exists(old, path) => Service!Text = readWholeFile(old, path)
  BY <1>1, <1>3, <1>4, TheText
<1>7. ASSUME NEW c \in getMode(old, path), Exists(old, path), RespondOnly(<< Good >>, << << c >> >>)
      PROVE  \E d \in Service!MostCommon(Service!Text) : Service!Tell("Good", << d >>)
  <2>1. c \in Service!MostCommon(readWholeFile(old, path)) /\ c \in Byte
    BY <1>5, <1>7, ModeOfFile DEF Exists
  <2>2. PICK m : m = Message(Response, Received.callType, Received.num, << Good >>, << << c >> >>)
    OBVIOUS
  <2>3. AnswersTo(command, m) /\ AnswerIn(m) = Service!Answer("Good", << c >>)
    BY <1>1, <1>2, <2>1, <2>2, PlainAnswers, ToldBy, Zenon
  <2>4. PICK strs, text : strs = << << c >> >> /\ text = << c >>
    OBVIOUS
  <2>5. Service!Tell("Good", text)
    BY <1>1, <1>7, <2>2, <2>3, <2>4, TellMaps
  <2> QED BY <1>6, <1>7, <2>1, <2>4, <2>5, Zenon
<1>8. ASSUME Exists(old, path), ~IsAscii(readWholeFile(old, path)), Crash, UNCHANGED <<serverFiles, update>>
      PROVE  \E d \in Service!MostCommon(Service!Text) : Service!Tell("Good", << d >>)
  <2>1. PICK text \in String : text = readWholeFile(old, path)
    BY <1>5, <1>8, FileText DEF Exists
  <2>2. \E c \in { text[i] : i \in DOMAIN text } : c > 127
    <3>1. PICK i \in DOMAIN text : ~(text[i] < 128)
      BY <1>8, <2>1 DEF IsAscii
    <3>2. text \in Seq(Byte)
      BY DEF String
    <3>3. text[i] \in Byte
      BY <3>1, <3>2
    <3>4. text[i] \in Int
      BY <3>3 DEF Byte
    <3> QED BY <3>1, <3>4
  <2>3. 0 \in Service!MostCommon(text)
    BY <2>2 DEF Service!MostCommon
  <2>4. TheAnswer' = Service!Lost
    BY <1>1, <1>8, ServeMaps DEF Crash
  <2>5. Texts(serverFiles)' = Texts(serverFiles) /\ update' = update
    BY <1>8 DEF Texts
  <2>6. Service!Tell("Good", << 0 >>)
    BY <2>4, <2>5, Zenon DEF Service!Tell, TheAnswer
  <2> QED BY <1>6, <1>8, <2>1, <2>3, <2>6, Zenon
<1>9. ASSUME Exists(old, path)
      PROVE  \E d \in Service!MostCommon(Service!Text) : Service!Tell("Good", << d >>)
  <2>1. \/ \E c \in getMode(old, path) : RespondOnly(<< Good >>, << << c >> >>)
        \/ ~IsAscii(readWholeFile(old, path)) /\ Crash /\ UNCHANGED <<serverFiles, update>>
    BY <1>2, <1>3, <1>4, <1>9, Zenon DEF ServeMode
  <2> QED BY <1>7, <1>8, <1>9, <2>1, Zenon
<1>10. ASSUME ~Exists(old, path) PROVE Service!Tell("NoFile", <<>>)
  <2>1. NoSuchFile
    BY <1>2, <1>3, <1>4, <1>10, Zenon DEF ServeMode
  <2> QED BY <1>1, <2>1, NoSuchFileMaps
<1>11. Service!Execute("mode")
  BY <1>1, <1>2, ExecuteMaps
<1> QED BY <1>6, <1>9, <1>10, <1>11, Zenon DEF Service!Mode

\* The server sends the text of a file.
LEMMA ServeDumpMaps ==
  ASSUME ContentsInv, ServeDump
  PROVE  Service!Dump
<1>1. Serve(Dump) /\ Received.callType = Dump /\ Arrived(Call)
  BY DEF ServeDump, Serve
<1>2. command.name = "read" /\ Path = command.path /\ command.path \in String
  BY <1>1, CallArrived
<1>3. PICK path \in String : path = command.path
  BY <1>2
<1>4. PICK old : old = serverFiles
  OBVIOUS
<1>5. IsFileSystem(old)
  BY <1>3, <1>4 DEF ContentsInv, TypeOK
<1>6. /\ Service!Known <=> Exists(old, path)
      /\ Exists(old, path) => Service!Text = readWholeFile(old, path)
  BY <1>1, <1>3, <1>4, TheText
<1>7. ASSUME Exists(old, path) PROVE Service!Tell("Good", Service!Text)
  <2>1. PICK text \in String : text = readWholeFile(old, path)
    BY <1>5, <1>7, FileText DEF Exists
  <2>2. PICK m : m = Message(Response, Received.callType, Received.num, <<>>, << text >>)
    OBVIOUS
  <2>3. AnswersTo(command, m) /\ AnswerIn(m) = Service!Answer("Good", text)
    BY <1>1, <1>2, <2>1, <2>2, PlainAnswers, ToldBy, Zenon
  <2>4. RespondOnly(<<>>, << text >>)
    BY <1>2, <1>3, <1>4, <1>7, <2>1, Zenon DEF ServeDump
  <2>5. Service!Tell("Good", text)
    BY <1>1, <2>2, <2>3, <2>4, TellMaps
  <2> QED BY <1>6, <1>7, <2>1, <2>5, Zenon
<1>8. ASSUME ~Exists(old, path) PROVE Service!Tell("NoFile", <<>>)
  <2>1. NoSuchFile
    BY <1>2, <1>3, <1>4, <1>8, Zenon DEF ServeDump
  <2> QED BY <1>1, <2>1, NoSuchFileMaps
<1>9. Service!Execute("read")
  BY <1>1, <1>2, ExecuteMaps
<1> QED BY <1>6, <1>7, <1>8, <1>9, Zenon DEF Service!Dump

\* Every step of the two is a step of the service, or changes nothing of it.
LEMMA StepMaps == ContentsInv /\ [Next]_vars => [Service!Next]_(Service!vars)
<1> SUFFICES ASSUME ContentsInv, [Next]_vars PROVE Service!Next \/ UNCHANGED Service!vars
  OBVIOUS
<1>1. ASSUME NEW c \in Commands, Enter(c) PROVE Service!Next
  BY <1>1, EnterMaps, Zenon DEF Service!Next
<1>2. ASSUME NEW c \in Commands, ReadLocally(c) PROVE Service!Next
  BY <1>2, ReadLocallyMaps, Zenon DEF Service!Next
<1>3. CASE ReceiveResponse
  BY <1>3, ReceiveResponseMaps, Zenon DEF Service!Next
<1>4. CASE ReceiveFile
  BY <1>4, ReceiveFileMaps, Zenon DEF Service!Next
<1>5. CASE GiveUp
  BY <1>5, GiveUpMaps, Zenon DEF Service!Next
<1>6. CASE ServeInsert
  BY <1>6, ServeInsertMaps, Zenon DEF Service!Next
<1>7. CASE ServeShift
  BY <1>7, ServeShiftMaps, Zenon DEF Service!Next
<1>8. CASE ServeMode
  BY <1>8, ServeModeMaps, Zenon DEF Service!Next
<1>9. CASE ServeDump
  BY <1>9, ServeDumpMaps, Zenon DEF Service!Next
<1>10. CASE UNCHANGED vars
  <2>1. UNCHANGED <<serverFiles, clientFiles, client, command, packet, executed, shown, update>>
    BY <1>10 DEF vars
  <2>2. /\ Texts(serverFiles)' = Texts(serverFiles) /\ Texts(clientFiles)' = Texts(clientFiles)
        /\ shown' = shown /\ update' = update
    BY <2>1 DEF Texts
  <2>3. TheCommand' = TheCommand
    BY <2>1, Zenon DEF TheCommand
  <2>4. TheAnswer' = TheAnswer
    BY <2>1, Zenon DEF TheAnswer, Received
  <2> QED BY <2>2, <2>3, <2>4 DEF Service!vars, TheCommand, TheAnswer
<1> QED BY <1>1, <1>2, <1>3, <1>4, <1>5, <1>6, <1>7, <1>8, <1>9, <1>10 DEF Next

\* client.cpp and server.cpp with all the bytes between them do what TextService says
\* to the texts: the command that is entered is executed at most once, on the file,
\* the offset and the bytes that were meant, and what is shown and copied is its text.
THEOREM RefinesTextService == Spec => ImplementsTextService
BY InitMaps, StepMaps, ContentsInvHolds, PTL DEF Spec, ImplementsTextService, Service!Spec
==============================================================================
