------------------------------- MODULE Marshal -------------------------------
(***************************************************************************)
(* The bytes of a message (marshal.cpp).                                   *)
(*                                                                         *)
(* A string is a sequence of bytes, an unsigned int a number below 2^32,   *)
(* and the buffer that a packaging function fills is the sequence of bytes *)
(* it appends.  An unpackaging function takes the buffer from where it is  *)
(* to read on, and returns the value and how many bytes it has read.       *)
(***************************************************************************)
EXTENDS Integers, Sequences, SequencesExt

CONSTANT LittleEndian  \* whether htonl reverses the bytes of an int

ASSUME MarshalAssumption == LittleEndian \in BOOLEAN

Byte == 0 .. 255
String == Seq(Byte)

uint_size == 4

-----------------------------------------------------------------------------
(* One int, one string.                                                     *)

\* htonl before the shifts, which take the most significant byte first anyway,
\* leaves the bytes in the order of the host.
intToChar(n) ==
  LET bytes == << n \div 16777216, (n \div 65536) % 256, (n \div 256) % 256, n % 256 >>
  IN IF LittleEndian THEN << bytes[4], bytes[3], bytes[2], bytes[1] >> ELSE bytes

charToInt(src) ==
  IF LittleEndian THEN ((src[4] * 256 + src[3]) * 256 + src[2]) * 256 + src[1]
                  ELSE ((src[1] * 256 + src[2]) * 256 + src[3]) * 256 + src[4]

\* The buffer from its n-th byte on, counted from 0.
From(src, n) == SubSeq(src, n + 1, Len(src))

\* Mutant of dif: a string that ends on a word boundary gets a word of zeros.
difOfAll(len) == uint_size - (len % uint_size)

\* How many zeros fill the last word of a string.
dif(len) ==
  LET rest == uint_size - (len % uint_size)
  IN IF rest = 4 THEN 0 ELSE rest

packageString(src) ==
  intToChar(Len(src)) \o src \o [ i \in 1 .. dif(Len(src)) |-> 0 ]

unpackageString(src) ==
  LET len == charToInt(src)
  IN [ value |-> SubSeq(src, uint_size + 1, uint_size + len),
       length |-> uint_size + len + dif(len) ]

\* Mutant of stringLength: the filling is left out.
stringLengthUnfilled(s) == uint_size + Len(s)

stringLength(s) == uint_size + Len(s) + dif(Len(s))

-----------------------------------------------------------------------------
(* Vectors of them.                                                         *)

intsLength(ints) == uint_size + uint_size * Len(ints)

stringsLength(strs) ==
  LET len[i \in 0 .. Len(strs)] ==  \* that of the first i
        IF i = 0 THEN uint_size ELSE len[i - 1] + stringLength(strs[i])
  IN len[Len(strs)]

packageInts(src) ==
  intToChar(Len(src)) \o FlattenSeq([ i \in DOMAIN src |-> intToChar(src[i]) ])

packageStrings(src) ==
  intToChar(Len(src)) \o FlattenSeq([ i \in DOMAIN src |-> packageString(src[i]) ])

unpackageInts(src) ==
  LET num_ints == charToInt(src)
  IN [ value |-> [ i \in 1 .. num_ints |-> charToInt(From(src, uint_size * i)) ],
       length |-> uint_size + uint_size * num_ints ]

unpackageStrings(src) ==
  LET read[n \in 0 .. charToInt(src)] ==  \* the first n strings
        IF n = 0 THEN [ value |-> <<>>, length |-> uint_size ]
        ELSE LET str == unpackageString(From(src, read[n - 1].length))
             IN [ value |-> Append(read[n - 1].value, str.value),
                  length |-> read[n - 1].length + str.length ]
  IN read[charToInt(src)]

-----------------------------------------------------------------------------
(* A message.                                                               *)

\* The size that marshalMessage allocates and writes first.
messageSize(m) == 4 * uint_size + intsLength(m.intArgs) + stringsLength(m.strArgs)

marshalMessage(m) ==
  intToChar(messageSize(m)) \o intToChar(m.type) \o intToChar(m.callType) \o intToChar(m.num)
    \o packageInts(m.intArgs) \o packageStrings(m.strArgs)

getMarshalLength(buf) == charToInt(buf)
getMarshalType(buf) == charToInt(From(buf, 1 * uint_size))
getMarshalCallType(buf) == charToInt(From(buf, 2 * uint_size))
getMarshalNum(buf) == charToInt(From(buf, 3 * uint_size))

unmarshalMessage(buf) ==
  LET ints == unpackageInts(From(buf, 4 * uint_size))
      strs == unpackageStrings(From(buf, 4 * uint_size + ints.length))
  IN [ value |-> [ type |-> getMarshalType(buf), callType |-> getMarshalCallType(buf),
                   num |-> getMarshalNum(buf), intArgs |-> ints.value, strArgs |-> strs.value ],
       length |-> 4 * uint_size + ints.length + strs.length ]
=============================================================================
