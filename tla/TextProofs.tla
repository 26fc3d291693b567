------------------------------ MODULE TextProofs ------------------------------
(***************************************************************************)
(* What marshal.cpp and filesystem.cpp do to every int, every string and   *)
(* every text.                                                             *)
(***************************************************************************)
EXTENDS FileSystem, LoopProofs, SequenceTheorems, FiniteSetTheorems, TLAPS

\* What an unsigned int holds.
uint == { n \in Nat : n < 4294967296 }

\* An int is four bytes, and comes back from them, whatever the order of bytes.
LEMMA IntRoundTrip ==
  ASSUME NEW n \in uint
  PROVE  /\ intToChar(n) \in Seq(Byte)
         /\ Len(intToChar(n)) = 4
         /\ charToInt(intToChar(n)) = n
<1> DEFINE b1 == n \div 16777216
           b2 == (n \div 65536) % 256
           b3 == (n \div 256) % 256
           b4 == n % 256
<1>1. b1 \in Byte /\ b2 \in Byte /\ b3 \in Byte /\ b4 \in Byte
  BY DEF uint, Byte
<1>2. ((b1 * 256 + b2) * 256 + b3) * 256 + b4 = n
  BY DEF uint
<1>3. intToChar(n) = IF LittleEndian THEN << b4, b3, b2, b1 >> ELSE << b1, b2, b3, b4 >>
  BY DEF intToChar
<1> HIDE DEF b1, b2, b3, b4
<1>4. CASE LittleEndian
  <2>1. intToChar(n) = << b4, b3, b2, b1 >>
    BY <1>3, <1>4
  <2> QED BY <1>1, <1>2, <1>4, <2>1 DEF charToInt
<1>5. CASE ~LittleEndian
  <2>1. intToChar(n) = << b1, b2, b3, b4 >>
    BY <1>3, <1>5
  <2> QED BY <1>1, <1>2, <1>5, <2>1 DEF charToInt
<1> QED BY <1>4, <1>5

\* charToInt reads no more than four bytes.
LEMMA FirstBytes ==
  ASSUME NEW p, NEW q, p[1] = q[1], p[2] = q[2], p[3] = q[3], p[4] = q[4]
  PROVE  charToInt(p) = charToInt(q)
BY DEF charToInt

\* What is in front of a sequence, and what is in its middle.
LEMMA FrontAndMiddle ==
  ASSUME NEW x \in Seq(Byte), NEW y \in Seq(Byte), NEW w \in Seq(Byte)
  PROVE  /\ x \o y \o w \in Seq(Byte)
         /\ Len(x \o y \o w) = Len(x) + Len(y) + Len(w)
         /\ \A i \in 1 .. Len(x) : (x \o y \o w)[i] = x[i]
         /\ SubSeq(x \o y \o w, Len(x) + 1, Len(x) + Len(y)) = y
<1> DEFINE all == x \o y \o w
           part == SubSeq(all, Len(x) + 1, Len(x) + Len(y))
<1>1. Len(x) \in Nat /\ Len(y) \in Nat /\ Len(w) \in Nat
  BY LenProperties
<1>2. /\ x \o y \in Seq(Byte) /\ Len(x \o y) = Len(x) + Len(y)
      /\ \A i \in 1 .. Len(x) + Len(y) : (x \o y)[i] = IF i <= Len(x) THEN x[i] ELSE y[i - Len(x)]
  BY ConcatProperties
<1>3. /\ all \in Seq(Byte) /\ Len(all) = Len(x) + Len(y) + Len(w)
      /\ \A i \in 1 .. Len(x) + Len(y) : all[i] = (x \o y)[i]
  <2>1. /\ all \in Seq(Byte) /\ Len(all) = Len(x \o y) + Len(w)
        /\ \A i \in 1 .. Len(x \o y) + Len(w) :
             all[i] = IF i <= Len(x \o y) THEN (x \o y)[i] ELSE w[i - Len(x \o y)]
    BY <1>2, ConcatProperties
  <2> QED BY <1>1, <1>2, <2>1
<1> HIDE DEF all
<1>4. \A i \in 1 .. Len(x) : all[i] = x[i]
  BY <1>1, <1>2, <1>3
<1>5. part = y
  <2>1. \A i \in Len(x) + 1 .. Len(x) + Len(y) : all[i] = y[i - Len(x)] /\ i - Len(x) \in 1 .. Len(y)
    BY <1>1, <1>2, <1>3
  <2>2. \A i \in Len(x) + 1 .. Len(x) + Len(y) : all[i] \in Byte
    BY <2>1, ElementOfSeq
  <2>3. /\ part \in Seq(Byte)
        /\ Len(part) = IF Len(x) + 1 <= Len(x) + Len(y) THEN (Len(x) + Len(y)) - (Len(x) + 1) + 1 ELSE 0
        /\ \A i \in 1 .. (Len(x) + Len(y)) - (Len(x) + 1) + 1 : part[i] = all[Len(x) + 1 + i - 1]
    BY <1>1, <2>2, SubSeqProperties
  <2> HIDE DEF part
  <2>4. Len(part) = Len(y)
    BY <1>1, <2>3
  <2>5. ASSUME NEW i \in 1 .. Len(part) PROVE part[i] = y[i]
    <3>1. /\ Len(x) + i \in Len(x) + 1 .. Len(x) + Len(y)
          /\ i \in 1 .. (Len(x) + Len(y)) - (Len(x) + 1) + 1
          /\ Len(x) + 1 + i - 1 = Len(x) + i /\ Len(x) + i - Len(x) = i
      BY <1>1, <2>4
    <3>2. part[i] = all[Len(x) + i]
      BY <2>3, <3>1
    <3>3. all[Len(x) + i] = y[i]
      BY <2>1, <3>1
    <3> QED BY <3>2, <3>3
  <2> QED BY <2>3, <2>4, <2>5, SeqEqual
<1> QED BY <1>3, <1>4, <1>5 DEF all

\* A string fills whole words.
LEMMA DifFills ==
  ASSUME NEW len \in Nat
  PROVE  /\ dif(len) \in 0 .. 3
         /\ (uint_size + len + dif(len)) % 4 = 0
BY DEF dif, uint_size

\* A string comes back from its bytes, whatever follows them, and the length that
\* is computed for it, the one that is written and the one that is read agree.
THEOREM StringRoundTrip ==
  ASSUME NEW s \in String, Len(s) \in uint, NEW rest \in Seq(Byte)
  PROVE  LET read == unpackageString(packageString(s) \o rest)
         IN /\ read.value = s
            /\ read.length = stringLength(s)
            /\ Len(packageString(s)) = stringLength(s)
            /\ stringLength(s) % 4 = 0
<1> DEFINE len == Len(s)
           zeros == [ i \in 1 .. dif(len) |-> 0 ]
           bytes == packageString(s) \o rest
<1>1. /\ intToChar(len) \in Seq(Byte) /\ Len(intToChar(len)) = 4
      /\ charToInt(intToChar(len)) = len
  BY IntRoundTrip
<1>2. len \in Nat /\ s \in Seq(Byte) /\ dif(len) \in Nat
  BY LenProperties, DifFills DEF String
<1>3. zeros \in Seq(Byte) /\ Len(zeros) = dif(len)
  <2>1. zeros \in [ 1 .. dif(len) -> Byte ]
    BY DEF Byte
  <2> QED BY <1>2, <2>1
<1> HIDE DEF zeros
<1>4. packageString(s) = intToChar(len) \o s \o zeros
  BY DEF packageString, zeros
<1>5. /\ packageString(s) \in Seq(Byte)
      /\ Len(packageString(s)) = 4 + len + dif(len)
      /\ \A i \in 1 .. 4 : packageString(s)[i] = intToChar(len)[i]
  <2>1. PICK x \in Seq(Byte), w \in Seq(Byte) : x = intToChar(len) /\ w = zeros
    BY <1>1, <1>3
  <2>2. /\ x \o s \o w \in Seq(Byte)
        /\ Len(x \o s \o w) = Len(x) + Len(s) + Len(w)
        /\ \A i \in 1 .. Len(x) : (x \o s \o w)[i] = x[i]
    BY <1>2, FrontAndMiddle
  <2>3. packageString(s) = x \o s \o w
    BY <1>4, <2>1
  <2> QED BY <1>1, <1>3, <2>1, <2>2, <2>3
<1>6. Len(packageString(s)) = stringLength(s)
  BY <1>5 DEF stringLength, uint_size
<1>7. \A i \in 1 .. Len(packageString(s)) : bytes[i] = packageString(s)[i]
  BY <1>5, ConcatProperties
<1>8. charToInt(bytes) = len
  <2>1. \A i \in {1, 2, 3, 4} : bytes[i] = intToChar(len)[i]
    BY <1>2, <1>5, <1>7
  <2>2. bytes[1] = intToChar(len)[1] /\ bytes[2] = intToChar(len)[2]
        /\ bytes[3] = intToChar(len)[3] /\ bytes[4] = intToChar(len)[4]
    BY <2>1
  <2>3. charToInt(bytes) = charToInt(intToChar(len))
    BY <2>2, FirstBytes
  <2> QED BY <1>1, <2>3
<1>9. SubSeq(bytes, 5, 4 + len) = s
  <2>1. PICK x \in Seq(Byte), w \in Seq(Byte) : x = intToChar(len) /\ w = zeros
    BY <1>1, <1>3
  <2>2. x \o s \in Seq(Byte) /\ w \o rest \in Seq(Byte)
    BY <1>2, ConcatProperties
  <2>3. bytes = x \o s \o (w \o rest)
    <3>1. (x \o s \o w) \o rest = (x \o s) \o (w \o rest)
      BY <2>2, ConcatAssociative, SMTT(40)
    <3> QED BY <1>4, <2>1, <3>1
  <2>4. SubSeq(x \o s \o (w \o rest), Len(x) + 1, Len(x) + Len(s)) = s
    BY <1>2, <2>2, FrontAndMiddle
  <2>5. Len(x) = 4
    BY <1>1, <2>1
  <2>6. SubSeq(x \o s \o (w \o rest), 4 + 1, 4 + len) = s
    BY <2>4, <2>5
  <2>7. 4 + 1 = 5
    OBVIOUS
  <2> QED BY <2>3, <2>6, <2>7, Zenon
<1> HIDE DEF bytes
<1>10. unpackageString(bytes).value = s /\ unpackageString(bytes).length = stringLength(s)
  BY <1>8, <1>9 DEF unpackageString, stringLength, uint_size
<1>11. stringLength(s) % 4 = 0
  BY <1>2, DifFills DEF stringLength
<1> QED BY <1>6, <1>10, <1>11 DEF bytes

-----------------------------------------------------------------------------
(* The bytes of a whole message.                                            *)

\* What follows a prefix.
LEMMA FromBehind ==
  ASSUME NEW S, NEW x \in Seq(S), NEW y \in Seq(S)
  PROVE  /\ From(x \o y, Len(x)) = y
         /\ \A i \in 1 .. Len(x) : (x \o y)[i] = x[i]
<1>1. /\ x \o y \in Seq(S) /\ Len(x \o y) = Len(x) + Len(y)
      /\ \A i \in 1 .. Len(x) + Len(y) : (x \o y)[i] = IF i <= Len(x) THEN x[i] ELSE y[i - Len(x)]
      /\ Len(x) \in Nat /\ Len(y) \in Nat
  BY ConcatProperties, LenProperties
<1>2. PICK all \in Seq(S) : all = x \o y
  BY <1>1
<1> DEFINE part == SubSeq(all, Len(x) + 1, Len(all))
<1>3. \A i \in Len(x) + 1 .. Len(all) : all[i] \in S
  BY <1>1, <1>2
<1>4. /\ part \in Seq(S)
      /\ Len(part) = IF Len(x) + 1 <= Len(all) THEN Len(all) - (Len(x) + 1) + 1 ELSE 0
      /\ \A i \in 1 .. Len(all) - (Len(x) + 1) + 1 : part[i] = all[Len(x) + 1 + i - 1]
  BY <1>1, <1>2, <1>3, SubSeqProperties
<1> HIDE DEF part
<1>5. Len(part) = Len(y)
  BY <1>1, <1>2, <1>4
<1>6. ASSUME NEW i \in 1 .. Len(y) PROVE part[i] = y[i]
  <2>1. /\ Len(x) + i \in 1 .. Len(x) + Len(y) /\ ~(Len(x) + i <= Len(x))
        /\ i \in 1 .. Len(all) - (Len(x) + 1) + 1
        /\ Len(x) + 1 + i - 1 = Len(x) + i /\ Len(x) + i - Len(x) = i
    BY <1>1, <1>2
  <2>2. part[i] = all[Len(x) + i]
    BY <1>4, <2>1
  <2>3. all[Len(x) + i] = y[i]
    BY <1>1, <1>2, <2>1
  <2> QED BY <2>2, <2>3
<1>7. part = y
  BY <1>4, <1>5, <1>6, SeqEqual
<1>8. \A i \in 1 .. Len(x) : all[i] = x[i]
  BY <1>1, <1>2
<1> QED BY <1>2, <1>7, <1>8 DEF From, part

\* What the first i of some sequences make when one is put behind the other.
IsFlat(flat, seqs) ==
  flat[0] = <<>> /\ \A i \in 1 .. Len(seqs) : flat[i] = flat[i - 1] \o seqs[i]

\* FlattenSeq is the last of a sequence of ever longer concatenations.
LEMMA FlattenUnfolds ==
  ASSUME NEW S, NEW seqs \in Seq(Seq(S))
  PROVE  \E flat \in [ 0 .. Len(seqs) -> Seq(S) ] :
            IsFlat(flat, seqs) /\ FlattenSeq(seqs) = flat[Len(seqs)]
<1> DEFINE k == Len(seqs)
           step == [ p \in (1 .. k) \X Seq(S) |-> p[2] \o seqs[p[1]] ]
<1>1. k \in Nat /\ <<>> \in Seq(S) /\ \A i \in 1 .. k : seqs[i] \in Seq(S)
  OBVIOUS
<1>2. step \in [ (1 .. k) \X Seq(S) -> Seq(S) ]
  <2>1. ASSUME NEW p \in (1 .. k) \X Seq(S) PROVE p[2] \o seqs[p[1]] \in Seq(S)
    BY <1>1, ConcatProperties
  <2> QED BY <2>1
<1>3. PICK flat \in [ 0 .. k -> Seq(S) ] : IsLoop(flat, k, <<>>, step)
  <2> HIDE DEF step, k
  <2> QED BY <1>1, <1>2, LoopExists
<1>4. IsFlat(flat, seqs)
  <2>1. ASSUME NEW i \in 1 .. k PROVE flat[i] = flat[i - 1] \o seqs[i]
    <3>1. i - 1 \in 0 .. k
      BY <1>1
    <3>2. <<i, flat[i - 1]>> \in (1 .. k) \X Seq(S)
      BY <3>1
    <3>3. step[<<i, flat[i - 1]>>] = flat[i - 1] \o seqs[i]
      BY <3>2
    <3>4. flat[i] = step[<<i, flat[i - 1]>>]
      BY <1>3 DEF IsLoop
    <3> QED BY <3>3, <3>4
  <2> QED BY <1>3, <2>1 DEF IsLoop, IsFlat
<1> HIDE DEF step
<1>5. CASE k = 0
  <2>1. FlattenSeq(seqs) = seqs /\ seqs = <<>>
    BY <1>5 DEF FlattenSeq
  <2> QED BY <1>4, <1>5, <2>1 DEF IsFlat
<1>6. CASE k # 0
  <2> DEFINE Turn(g, i) == IF i = 1 THEN seqs[i] ELSE g[i - 1] \o seqs[i]
             f == [ i \in 1 .. k |-> flat[i] ]
             g == CHOOSE g : g = [ i \in 1 .. k |-> Turn(g, i) ]
  <2>1. \A i \in 1 .. k : f[i] = Turn(f, i)
    <3> SUFFICES ASSUME NEW i \in 1 .. k PROVE f[i] = Turn(f, i)
      OBVIOUS
    <3>1. flat[i] = flat[i - 1] \o seqs[i] /\ flat[0] = <<>>
      BY <1>4 DEF IsFlat
    <3>2. CASE i = 1
      <4>1. i - 1 = 0
        BY <3>2
      <4>2. flat[i] = <<>> \o seqs[i]
        BY <3>1, <4>1, Zenon
      <4>3. <<>> \o seqs[i] = seqs[i]
        BY <1>1, ConcatEmptySeq
      <4> QED BY <3>2, <4>2, <4>3
    <3>3. CASE i # 1
      <4>1. i - 1 \in 1 .. k
        BY <1>1, <3>3
      <4> QED BY <3>1, <3>3, <4>1
    <3> QED BY <3>2, <3>3
  <2>2. f = [ i \in 1 .. k |-> Turn(f, i) ]
    <3> HIDE DEF Turn
    <3> QED BY <2>1, Zenon
  <2> HIDE DEF f
  <2>3. g = [ i \in 1 .. k |-> Turn(g, i) ]
    <3> HIDE DEF Turn
    <3> QED BY <2>2, Zenon
  <2>4. FlattenSeq(seqs) = g[k]
    BY <1>6, Zenon DEF FlattenSeq
  <2> HIDE DEF g
  <2>5. \A i \in 1 .. k : g[i] = Turn(g, i)
    <3> HIDE DEF Turn
    <3> QED BY <2>3, Zenon
  <2> DEFINE Same == { i \in 0 .. k : i # 0 => g[i] = flat[i] }
  <2>6. 0 \in Same
    BY <1>1
  <2>7. ASSUME NEW i \in 1 .. k, i - 1 \in Same PROVE i \in Same
    <3>1. g[i] = Turn(g, i) /\ flat[i] = flat[i - 1] \o seqs[i] /\ flat[0] = <<>>
      BY <1>4, <2>5 DEF IsFlat
    <3>2. <<>> \o seqs[i] = seqs[i]
      BY <1>1, ConcatEmptySeq
    <3>3. g[i] = flat[i]
      <4>1. CASE i = 1
        <5>1. i - 1 = 0
          BY <4>1
        <5>2. flat[i] = seqs[i]
          BY <3>1, <3>2, <5>1, Zenon
        <5> QED BY <3>1, <4>1, <5>2
      <4>2. CASE i # 1
        <5>1. g[i - 1] = flat[i - 1]
          BY <2>7, <4>2
        <5>2. g[i] = g[i - 1] \o seqs[i]
          BY <3>1, <4>2
        <5> QED BY <3>1, <5>1, <5>2
      <4> QED BY <4>1, <4>2
    <3> QED BY <3>3
  <2>8. \A i \in 0 .. k : i \in Same
    <3> HIDE DEF Same, k
    <3> QED BY <1>1, <2>6, <2>7, Counting
  <2> QED BY <1>1, <1>4, <1>6, <2>4, <2>8, SMTT(40)
<1> QED BY <1>5, <1>6

\* The bytes of one stand behind those before it and in front of those after it.
LEMMA FlattenSplits ==
  ASSUME NEW S, NEW seqs \in Seq(Seq(S)), NEW flat \in [ 0 .. Len(seqs) -> Seq(S) ],
         IsFlat(flat, seqs)
  PROVE  \A i \in 0 .. Len(seqs) : \E rest \in Seq(S) : flat[Len(seqs)] = flat[i] \o rest
<1> DEFINE k == Len(seqs)
           Split == { n \in 0 .. k : \A i \in 0 .. n : \E rest \in Seq(S) : flat[n] = flat[i] \o rest }
<1>1. k \in Nat /\ <<>> \in Seq(S) /\ \A i \in 1 .. k : seqs[i] \in Seq(S)
  OBVIOUS
<1>2. \A i \in 0 .. k : flat[i] \o <<>> = flat[i]
  BY ConcatEmptySeq
<1>3. \A x, y, z \in Seq(S) : (x \o y) \o z = x \o (y \o z)
  BY ConcatAssociative
<1>4. 0 \in Split
  <2>1. 0 \in 0 .. k /\ \A i \in 0 .. 0 : i = 0
    BY <1>1
  <2>2. flat[0] = flat[0] \o <<>>
    BY <1>2, <2>1
  <2> QED BY <1>1, <2>1, <2>2
<1>5. ASSUME NEW n \in 1 .. k, n - 1 \in Split PROVE n \in Split
  <2> SUFFICES ASSUME NEW i \in 0 .. n PROVE \E rest \in Seq(S) : flat[n] = flat[i] \o rest
    <3> n \in 0 .. k
      BY <1>1
    <3> QED OBVIOUS
  <2>1. CASE i = n
    <3>1. flat[n] = flat[i] \o <<>>
      BY <1>2, <2>1
    <3> QED BY <1>1, <3>1, Zenon
  <2>2. CASE i # n
    <3>1. i \in 0 .. n - 1 /\ i \in 0 .. k
      BY <2>2
    <3>2. PICK rest \in Seq(S) : flat[n - 1] = flat[i] \o rest
      BY <1>5, <3>1
    <3>3. flat[n] = flat[n - 1] \o seqs[n]
      BY DEF IsFlat
    <3>4. flat[i] \in Seq(S) /\ seqs[n] \in Seq(S)
      BY <1>1, <3>1
    <3>5. (flat[i] \o rest) \o seqs[n] = flat[i] \o (rest \o seqs[n])
      BY <3>4, <1>3, Zenon
    <3>6. rest \o seqs[n] \in Seq(S)
      BY <3>4, ConcatProperties
    <3> QED BY <3>2, <3>3, <3>5, <3>6
  <2> QED BY <2>1, <2>2
<1>6. \A n \in 0 .. k : n \in Split
  <2> HIDE DEF Split, k
  <2> QED BY <1>1, <1>4, <1>5, Counting
<1>7. k \in Split
  <2> HIDE DEF Split
  <2> QED BY <1>1, <1>6
<1> QED BY <1>7

\* Where the strings of a vector end in its bytes.
AreEnds(ends, strs) ==
  ends[0] = 4 /\ \A i \in 1 .. Len(strs) : ends[i] = ends[i - 1] + stringLength(strs[i])

\* A packed string has four bytes for its length, and at least its own.
LEMMA StringLengthType ==
  ASSUME NEW s \in String
  PROVE  stringLength(s) \in Nat /\ stringLength(s) >= 4 + Len(s)
<1>1. Len(s) \in Nat
  BY LenProperties DEF String
<1>2. dif(Len(s)) \in 0 .. 3
  BY <1>1, DifFills
<1> HIDE DEF String
<1> QED BY <1>1, <1>2 DEF stringLength, uint_size

\* stringsLength is the last of a sequence of ever larger sums.
LEMMA StringsLengthUnfolds ==
  ASSUME NEW strs \in Seq(String)
  PROVE  \E ends \in [ 0 .. Len(strs) -> Nat ] :
            AreEnds(ends, strs) /\ stringsLength(strs) = ends[Len(strs)]
<1> DEFINE k == Len(strs)
           step == [ p \in (1 .. k) \X Nat |-> p[2] + stringLength(strs[p[1]]) ]
           Turn(g, i) == IF i = 0 THEN uint_size ELSE g[i - 1] + stringLength(strs[i])
<1>1. k \in Nat /\ \A i \in 1 .. k : strs[i] \in String
  OBVIOUS
<1>2. \A i \in 1 .. k : stringLength(strs[i]) \in Nat
  BY <1>1, StringLengthType
<1>3. step \in [ (1 .. k) \X Nat -> Nat ]
  <2>1. ASSUME NEW p \in (1 .. k) \X Nat PROVE p[2] + stringLength(strs[p[1]]) \in Nat
    <3>1. p[1] \in 1 .. k /\ p[2] \in Nat
      OBVIOUS
    <3> QED BY <1>2, <3>1
  <2> QED BY <2>1
<1>4. PICK ends \in [ 0 .. k -> Nat ] : IsLoop(ends, k, 4, step)
  <2> HIDE DEF step, k
  <2> QED BY <1>1, <1>3, LoopExists
<1>5. AreEnds(ends, strs)
  <2>1. ASSUME NEW i \in 1 .. k PROVE ends[i] = ends[i - 1] + stringLength(strs[i])
    <3>1. i - 1 \in 0 .. k
      BY <1>1
    <3>2. <<i, ends[i - 1]>> \in (1 .. k) \X Nat
      BY <3>1
    <3>3. step[<<i, ends[i - 1]>>] = ends[i - 1] + stringLength(strs[i])
      BY <3>2
    <3>4. ends[i] = step[<<i, ends[i - 1]>>]
      BY <1>4 DEF IsLoop
    <3> QED BY <3>3, <3>4
  <2> QED BY <1>4, <2>1 DEF IsLoop, AreEnds
<1> HIDE DEF step
<1>6. \A i \in 0 .. k : ends[i] = Turn(ends, i)
  BY <1>5 DEF AreEnds, uint_size
<1> DEFINE g == CHOOSE g : g = [ i \in 0 .. k |-> Turn(g, i) ]
<1>7. ends = [ i \in 0 .. k |-> Turn(ends, i) ]
  <2> HIDE DEF Turn
  <2> QED BY <1>6, Zenon
<1>8. g = [ i \in 0 .. k |-> Turn(g, i) ]
  <2> HIDE DEF Turn
  <2> QED BY <1>7, Zenon
<1>9. stringsLength(strs) = g[k]
  BY Zenon DEF stringsLength
<1> HIDE DEF g
<1>10. \A i \in 0 .. k : g[i] = Turn(g, i)
  <2> HIDE DEF Turn
  <2> QED BY <1>8, Zenon
<1> DEFINE Same == { i \in 0 .. k : g[i] = ends[i] }
<1>11. 0 \in Same
  BY <1>1, <1>6, <1>10
<1>12. ASSUME NEW i \in 1 .. k, i - 1 \in Same PROVE i \in Same
  <2>1. g[i] = g[i - 1] + stringLength(strs[i]) /\ ends[i] = ends[i - 1] + stringLength(strs[i])
    BY <1>6, <1>10
  <2> QED BY <1>12, <2>1
<1>13. \A i \in 0 .. k : i \in Same
  <2> HIDE DEF Same, k
  <2> QED BY <1>1, <1>11, <1>12, Counting
<1> QED BY <1>1, <1>5, <1>9, <1>13

\* The four bytes of any number, and the bytes of any string, be it too long for
\* its length to be written.
LEMMA IntBytes ==
  ASSUME NEW n \in Nat
  PROVE  intToChar(n) \in Seq(Nat) /\ Len(intToChar(n)) = 4
<1> DEFINE b1 == n \div 16777216
           b2 == (n \div 65536) % 256
           b3 == (n \div 256) % 256
           b4 == n % 256
<1>1. b1 \in Nat /\ b2 \in Nat /\ b3 \in Nat /\ b4 \in Nat
  OBVIOUS
<1>2. intToChar(n) = IF LittleEndian THEN << b4, b3, b2, b1 >> ELSE << b1, b2, b3, b4 >>
  BY DEF intToChar
<1> HIDE DEF b1, b2, b3, b4
<1> QED BY <1>1, <1>2

\* A packed string is bytes, as many as were counted for it.
LEMMA StringBytes ==
  ASSUME NEW s \in String, NEW S, Byte \subseteq S, intToChar(Len(s)) \in Seq(S)
  PROVE  packageString(s) \in Seq(S) /\ Len(packageString(s)) = stringLength(s)
<1>1. Len(s) \in Nat /\ s \in Seq(S)
  BY LenProperties, SeqMonotonic DEF String
<1>2. dif(Len(s)) \in Nat
  BY <1>1, DifFills
<1> DEFINE zeros == [ i \in 1 .. dif(Len(s)) |-> 0 ]
<1>3. zeros \in Seq(S) /\ Len(zeros) = dif(Len(s))
  <2>1. 0 \in S
    BY DEF Byte
  <2>2. zeros \in [ 1 .. dif(Len(s)) -> S ]
    BY <2>1
  <2> QED BY <1>2, <2>2
<1> HIDE DEF zeros
<1>4. packageString(s) = intToChar(Len(s)) \o s \o zeros
  BY DEF packageString, zeros
<1>5. intToChar(Len(s)) \o s \in Seq(S) /\ Len(intToChar(Len(s)) \o s) = 4 + Len(s)
  <2>1. Len(intToChar(Len(s))) = 4
    BY <1>1, IntBytes
  <2>2. Len(intToChar(Len(s)) \o s) = Len(intToChar(Len(s))) + Len(s)
    BY <1>1, ConcatProperties
  <2> QED BY <1>1, <2>1, <2>2, ConcatProperties
<1>6. /\ (intToChar(Len(s)) \o s) \o zeros \in Seq(S)
      /\ Len((intToChar(Len(s)) \o s) \o zeros) = 4 + Len(s) + dif(Len(s))
  <2>1. PICK x \in Seq(S) : x = intToChar(Len(s)) \o s
    BY <1>5
  <2>2. x \o zeros \in Seq(S) /\ Len(x \o zeros) = Len(x) + Len(zeros)
    BY <1>3, ConcatProperties
  <2>3. Len(x) = 4 + Len(s) /\ Len(x \o zeros) = 4 + Len(s) + dif(Len(s))
    BY <1>3, <1>5, <2>1, <2>2
  <2> QED BY <2>1, <2>2, <2>3, Zenon
<1> QED BY <1>4, <1>6 DEF stringLength, uint_size

\* The strings of a vector stand one behind the other, behind their number.
Flattened(flat, seqs, S) ==
  seqs \in Seq(Seq(S)) /\ flat \in [ 0 .. Len(seqs) -> Seq(S) ] /\ IsFlat(flat, seqs)

Layout(strs, S, ends, flat, seqs) ==
  /\ Flattened(flat, seqs, S) /\ Len(seqs) = Len(strs)
  /\ \A i \in 1 .. Len(strs) : seqs[i] = packageString(strs[i])
  /\ packageStrings(strs) = intToChar(Len(strs)) \o flat[Len(strs)]
  /\ ends \in [ 0 .. Len(strs) -> Nat ] /\ AreEnds(ends, strs)
  /\ \A i \in 0 .. Len(strs) : ends[i] = 4 + Len(flat[i])
  /\ stringsLength(strs) = ends[Len(strs)]

\* Packed strings are bytes, as many as were counted, one string behind the other.
LEMMA StringsBytes ==
  ASSUME NEW strs \in Seq(String), NEW S, Byte \subseteq S,
         intToChar(Len(strs)) \in Seq(S),
         \A i \in 1 .. Len(strs) : intToChar(Len(strs[i])) \in Seq(S)
  PROVE  /\ packageStrings(strs) \in Seq(S)
         /\ Len(packageStrings(strs)) = stringsLength(strs)
         /\ \E ends, flat, seqs : Layout(strs, S, ends, flat, seqs)
<1> DEFINE k == Len(strs)
           seqs == [ i \in DOMAIN strs |-> packageString(strs[i]) ]
<1>1. k \in Nat /\ DOMAIN strs = 1 .. k /\ \A i \in 1 .. k : strs[i] \in String
  OBVIOUS
<1>2. \A i \in 1 .. k : packageString(strs[i]) \in Seq(S) /\ Len(packageString(strs[i])) = stringLength(strs[i])
  BY <1>1, StringBytes
<1>3. seqs \in Seq(Seq(S)) /\ Len(seqs) = k /\ \A i \in 1 .. k : seqs[i] = packageString(strs[i])
  <2>1. seqs \in [ 1 .. k -> Seq(S) ]
    BY <1>1, <1>2
  <2> QED BY <1>1, <2>1
<1>4. packageStrings(strs) = intToChar(k) \o FlattenSeq(seqs)
  BY DEF packageStrings
<1> HIDE DEF seqs
<1>5. PICK flat \in [ 0 .. k -> Seq(S) ] : IsFlat(flat, seqs) /\ FlattenSeq(seqs) = flat[k]
  BY <1>3, FlattenUnfolds
<1>6. PICK ends \in [ 0 .. k -> Nat ] : AreEnds(ends, strs) /\ stringsLength(strs) = ends[k]
  BY StringsLengthUnfolds
<1> DEFINE Ends == { i \in 0 .. k : ends[i] = 4 + Len(flat[i]) }
<1>7. 0 \in Ends
  BY <1>1, <1>5, <1>6 DEF IsFlat, AreEnds
<1>8. ASSUME NEW i \in 1 .. k, i - 1 \in Ends PROVE i \in Ends
  <2>1. ends[i] = ends[i - 1] + stringLength(strs[i]) /\ i - 1 \in 0 .. k /\ i \in 0 .. k
    BY <1>1, <1>6 DEF AreEnds
  <2>2. flat[i] = flat[i - 1] \o packageString(strs[i])
    BY <1>3, <1>5 DEF IsFlat
  <2>3. PICK x \in Seq(S), y \in Seq(S) : x = flat[i - 1] /\ y = packageString(strs[i])
    BY <1>2, <2>1
  <2>4. Len(x \o y) = Len(x) + Len(y)
    BY ConcatProperties
  <2>5. Len(flat[i]) = Len(flat[i - 1]) + stringLength(strs[i])
    BY <1>2, <2>2, <2>3, <2>4
  <2>6. ends[i - 1] = 4 + Len(flat[i - 1])
    BY <1>8
  <2>7. Len(flat[i - 1]) \in Nat /\ stringLength(strs[i]) \in Nat
    BY <1>1, <2>1, StringLengthType, LenProperties
  <2> QED BY <2>1, <2>5, <2>6, <2>7
<1>9. \A i \in 0 .. k : i \in Ends
  <2> HIDE DEF Ends, k
  <2> QED BY <1>1, <1>7, <1>8, Counting
<1>10. flat[k] \in Seq(S) /\ ends[k] = 4 + Len(flat[k])
  BY <1>1, <1>9
<1>11. /\ intToChar(k) \o flat[k] \in Seq(S)
       /\ Len(intToChar(k) \o flat[k]) = 4 + Len(flat[k])
  <2>1. Len(intToChar(k)) = 4
    BY <1>1, IntBytes
  <2>2. PICK x \in Seq(S), y \in Seq(S) : x = intToChar(k) /\ y = flat[k]
    BY <1>10
  <2>3. x \o y \in Seq(S) /\ Len(x \o y) = Len(x) + Len(y)
    BY ConcatProperties
  <2> QED BY <2>1, <2>2, <2>3
<1> HIDE DEF k, Ends
<1>12. packageStrings(strs) \in Seq(S) /\ Len(packageStrings(strs)) = stringsLength(strs)
  BY <1>4, <1>5, <1>6, <1>10, <1>11
<1>13. \A i \in 0 .. k : ends[i] = 4 + Len(flat[i])
  BY <1>9 DEF Ends
<1>14. packageStrings(strs) = intToChar(k) \o flat[k]
  BY <1>4, <1>5
<1>15. Flattened(flat, seqs, S)
  BY <1>3, <1>5 DEF Flattened
<1>16. Layout(strs, S, ends, flat, seqs)
  BY <1>3, <1>6, <1>13, <1>14, <1>15 DEF k, Layout
<1> QED BY <1>12, <1>16

\* An int is read off the front of what follows it.
LEMMA IntInFront ==
  ASSUME NEW n \in uint, NEW y \in Seq(Byte)
  PROVE  charToInt(intToChar(n) \o y) = n
<1>1. /\ intToChar(n) \in Seq(Byte) /\ Len(intToChar(n)) = 4 /\ charToInt(intToChar(n)) = n
  BY IntRoundTrip
<1>2. PICK x \in Seq(Byte) : x = intToChar(n)
  BY <1>1
<1>3. \A i \in 1 .. Len(x) : (x \o y)[i] = x[i]
  BY FromBehind
<1>4. Len(x) = 4
  BY <1>1, <1>2
<1>5. (x \o y)[1] = x[1] /\ (x \o y)[2] = x[2] /\ (x \o y)[3] = x[3] /\ (x \o y)[4] = x[4]
  <2>1. 1 \in 1 .. Len(x) /\ 2 \in 1 .. Len(x) /\ 3 \in 1 .. Len(x) /\ 4 \in 1 .. Len(x)
    BY <1>4
  <2> QED BY <1>3, <2>1, Zenon
<1>6. charToInt(x \o y) = charToInt(x)
  BY <1>5, FirstBytes
<1> QED BY <1>1, <1>2, <1>6

\* Concatenation, with what is to be known of it only.
Cat(x, y) == x \o y

\* It does not matter in which order sequences are put together.
LEMMA CatAssociative ==
  ASSUME NEW S
  PROVE  /\ \A x, y \in Seq(S) : Cat(x, y) \in Seq(S)
         /\ \A x, y, z \in Seq(S) : Cat(Cat(x, y), z) = Cat(x, Cat(y, z))
<1>1. \A x, y, z \in Seq(S) : (x \o y) \o z = x \o (y \o z)
  BY ConcatAssociative
<1>2. \A x, y \in Seq(S) : x \o y \in Seq(S)
  BY ConcatProperties
<1> QED BY <1>1, <1>2, Zenon DEF Cat

\* The middle of a buffer.
LEMMA Regroup ==
  ASSUME NEW S
  PROVE  \A a, b, c, d, e \in Seq(S) :
           /\ Cat(Cat(a, Cat(Cat(b, c), d)), e) = Cat(Cat(a, b), Cat(c, Cat(d, e)))
           /\ Cat(a, b) \in Seq(S) /\ Cat(d, e) \in Seq(S)
<1> TAKE a, b, c, d, e \in Seq(S)
<1>1. \A x, y, z \in Seq(S) : Cat(Cat(x, y), z) = Cat(x, Cat(y, z))
  BY CatAssociative
<1>2. \A x, y \in Seq(S) : Cat(x, y) \in Seq(S)
  BY CatAssociative
<1>3. Cat(a, b) \in Seq(S) /\ Cat(b, c) \in Seq(S) /\ Cat(d, e) \in Seq(S)
  BY <1>2
<1>4. Cat(Cat(b, c), d) \in Seq(S) /\ Cat(c, Cat(d, e)) \in Seq(S)
  BY <1>2, <1>3
<1>5. Cat(Cat(a, Cat(Cat(b, c), d)), e) = Cat(a, Cat(Cat(Cat(b, c), d), e))
  BY <1>1, <1>4
<1>6. Cat(Cat(Cat(b, c), d), e) = Cat(Cat(b, c), Cat(d, e))
  BY <1>1, <1>3
<1>7. Cat(Cat(b, c), Cat(d, e)) = Cat(b, Cat(c, Cat(d, e)))
  BY <1>1, <1>3
<1>8. Cat(a, Cat(b, Cat(c, Cat(d, e)))) = Cat(Cat(a, b), Cat(c, Cat(d, e)))
  BY <1>1, <1>4
<1> QED BY <1>3, <1>5, <1>6, <1>7, <1>8

\* Where the i-th piece of a vector is read, it stands, whatever comes behind it.
StandsAt(n, piece, all, S) == \E behind \in Seq(S) : From(all, n) = Cat(piece, behind)

\* A piece of a longer sequence stands behind all the pieces before it.
LEMMA PieceFound ==
  ASSUME NEW S, NEW head \in Seq(S), NEW seqs, NEW flat, Flattened(flat, seqs, S),
         NEW rest \in Seq(S), NEW i \in 1 .. Len(seqs)
  PROVE  StandsAt(Len(head) + Len(flat[i - 1]), seqs[i], Cat(Cat(head, flat[Len(seqs)]), rest), S)
<1>1. /\ i \in 0 .. Len(seqs) /\ Len(seqs) \in 0 .. Len(seqs)
      /\ flat[i - 1] \in Seq(S) /\ flat[i] = Cat(flat[i - 1], seqs[i]) /\ seqs[i] \in Seq(S)
  <2>1. seqs \in Seq(Seq(S)) /\ flat \in [ 0 .. Len(seqs) -> Seq(S) ] /\ IsFlat(flat, seqs)
    BY DEF Flattened
  <2>2. i \in 0 .. Len(seqs) /\ i - 1 \in 0 .. Len(seqs) /\ Len(seqs) \in 0 .. Len(seqs)
    BY <2>1
  <2>3. flat[i] = flat[i - 1] \o seqs[i]
    BY <2>1 DEF IsFlat
  <2>4. flat[i - 1] \in Seq(S) /\ seqs[i] \in Seq(S)
    <3>1. flat \in [ 0 .. Len(seqs) -> Seq(S) ]
      BY <2>1
    <3>2. seqs \in Seq(Seq(S))
      BY <2>1
    <3>3. flat[i - 1] \in Seq(S)
      BY <2>2, <3>1
    <3> QED BY <3>2, <3>3, ElementOfSeq
  <2> QED BY <2>2, <2>3, <2>4, Zenon DEF Cat
<1>2. PICK t \in Seq(S) : flat[Len(seqs)] = Cat(flat[i], t)
  <2>1. seqs \in Seq(Seq(S)) /\ flat \in [ 0 .. Len(seqs) -> Seq(S) ] /\ IsFlat(flat, seqs)
    BY DEF Flattened
  <2>2. \A n \in 0 .. Len(seqs) : \E t \in Seq(S) : flat[Len(seqs)] = flat[n] \o t
    BY <2>1, FlattenSplits, Zenon
  <2> QED BY <1>1, <2>2, Zenon DEF Cat
<1>3. PICK f \in Seq(S), p \in Seq(S) : f = flat[i - 1] /\ p = seqs[i]
  BY <1>1
<1>4. /\ Cat(Cat(head, Cat(Cat(f, p), t)), rest) = Cat(Cat(head, f), Cat(p, Cat(t, rest)))
      /\ Cat(head, f) \in Seq(S) /\ Cat(t, rest) \in Seq(S)
  <2>1. Cat(Cat(head, Cat(Cat(f, p), t)), rest) = Cat(Cat(head, f), Cat(p, Cat(t, rest)))
    BY Regroup
  <2>2. Cat(head, f) \in Seq(S) /\ Cat(t, rest) \in Seq(S)
    BY CatAssociative
  <2> QED BY <2>1, <2>2
<1>5. PICK x \in Seq(S), y \in Seq(S) : x = Cat(head, f) /\ y = Cat(t, rest)
  BY <1>4
<1>6. Len(x) = Len(head) + Len(f)
  BY <1>5, ConcatProperties DEF Cat
<1>7. PICK z \in Seq(S) : z = Cat(p, y)
  BY CatAssociative
<1>8. From(Cat(x, z), Len(x)) = z
  BY FromBehind DEF Cat
<1>9. Cat(Cat(head, flat[Len(seqs)]), rest) = Cat(x, z)
  BY <1>1, <1>2, <1>3, <1>4, <1>5, <1>7, Zenon
<1>10. From(Cat(Cat(head, flat[Len(seqs)]), rest), Len(head) + Len(flat[i - 1])) = Cat(seqs[i], y)
  BY <1>3, <1>6, <1>7, <1>8, <1>9, Zenon
<1> QED BY <1>10 DEF StandsAt

\* One more string of a vector.
LEMMA OneMore ==
  ASSUME NEW S, NEW seq \in Seq(S), NEW n \in 1 .. Len(seq)
  PROVE  SubSeq(seq, 1, n) = Append(SubSeq(seq, 1, n - 1), seq[n])
<1>1. SubSeq(seq, 1, n) = SubSeq(seq, 1, n - 1) \o << seq[n] >>
  BY SubSeqRecursiveSecond
<1>2. SubSeq(seq, 1, n - 1) \in Seq(S) /\ seq[n] \in S
  OBVIOUS
<1> QED BY <1>1, <1>2, AppendIsConcat

\* The strings of a vector come back from its bytes.
LEMMA StringsRoundTrip ==
  ASSUME NEW strs \in Seq(String), Len(strs) \in uint,
         \A i \in 1 .. Len(strs) : Len(strs[i]) \in uint,
         NEW rest \in Seq(Byte)
  PROVE  unpackageStrings(packageStrings(strs) \o rest)
           = [ value |-> strs, length |-> stringsLength(strs) ]
<1> DEFINE k == Len(strs)
<1>1. k \in Nat /\ \A i \in 1 .. k : strs[i] \in String
  OBVIOUS
<1>2. intToChar(k) \in Seq(Byte) /\ Len(intToChar(k)) = 4
  BY IntRoundTrip
<1>3. \A i \in 1 .. k : intToChar(Len(strs[i])) \in Seq(Byte)
  BY IntRoundTrip
<1>4. PICK ends, flat, seqs : Layout(strs, Byte, ends, flat, seqs)
  BY <1>2, <1>3, StringsBytes, Zenon
<1>5. /\ AreEnds(ends, strs) /\ ends \in [ 0 .. k -> Nat ]
      /\ stringsLength(strs) = ends[k]
      /\ Flattened(flat, seqs, Byte) /\ Len(seqs) = k
      /\ \A i \in 1 .. k : seqs[i] = packageString(strs[i])
      /\ packageStrings(strs) = intToChar(k) \o flat[k]
      /\ \A i \in 0 .. k : ends[i] = 4 + Len(flat[i])
  BY <1>4 DEF Layout
<1>6. flat[k] \in Seq(Byte)
  <2>1. flat \in [ 0 .. k -> Seq(Byte) ]
    BY <1>5 DEF Flattened
  <2> QED BY <1>1, <2>1
<1>7. PICK buf : buf = packageStrings(strs) \o rest
  OBVIOUS
<1>8. charToInt(buf) = k
  <2>1. PICK head \in Seq(Byte), f \in Seq(Byte) : head = intToChar(k) /\ f = flat[k]
    BY <1>2, <1>6
  <2>2. PICK y \in Seq(Byte) : y = Cat(f, rest)
    BY CatAssociative
  <2>3. Cat(Cat(head, f), rest) = Cat(head, y)
    BY <2>2, CatAssociative
  <2>4. buf = intToChar(k) \o y
    BY <1>5, <1>7, <2>1, <2>3, Zenon DEF Cat
  <2>5. charToInt(intToChar(k) \o y) = k
    BY IntInFront
  <2> QED BY <2>4, <2>5, Zenon
<1>9. ASSUME NEW i \in 1 .. k
      PROVE  unpackageString(From(buf, ends[i - 1])) = [ value |-> strs[i], length |-> stringLength(strs[i]) ]
  <2>1. Flattened(flat, seqs, Byte)
    BY <1>5
  <2>2. PICK head \in Seq(Byte) : head = intToChar(k)
    BY <1>2
  <2>3. i \in 1 .. Len(seqs) /\ Len(seqs) = k /\ i - 1 \in 0 .. k
    BY <1>1, <1>5
  <2>4. StandsAt(Len(head) + Len(flat[i - 1]), seqs[i], Cat(Cat(head, flat[Len(seqs)]), rest), Byte)
    BY <2>1, <2>3, PieceFound
  <2>5. PICK behind \in Seq(Byte) :
          From(Cat(Cat(head, flat[Len(seqs)]), rest), Len(head) + Len(flat[i - 1])) = Cat(seqs[i], behind)
    BY <2>4 DEF StandsAt
  <2>6. Cat(Cat(head, flat[Len(seqs)]), rest) = buf
    BY <1>5, <1>7, <2>2, <2>3, Zenon DEF Cat
  <2>7. Len(head) + Len(flat[i - 1]) = ends[i - 1]
    BY <1>2, <1>5, <2>2, <2>3
  <2>8. From(buf, ends[i - 1]) = packageString(strs[i]) \o behind
    BY <1>5, <2>5, <2>6, <2>7, Zenon DEF Cat
  <2>9. /\ unpackageString(packageString(strs[i]) \o behind).value = strs[i]
        /\ unpackageString(packageString(strs[i]) \o behind).length = stringLength(strs[i])
    BY <1>1, StringRoundTrip
  <2>10. \A src : unpackageString(src) =
          [ value |-> unpackageString(src).value, length |-> unpackageString(src).length ]
    BY DEF unpackageString
  <2> QED BY <2>8, <2>9, <2>10, Zenon
<1> DEFINE Turn(g, n) ==
             IF n = 0 THEN [ value |-> <<>>, length |-> uint_size ]
             ELSE [ value |-> Append(g[n - 1].value, unpackageString(From(buf, g[n - 1].length)).value),
                    length |-> g[n - 1].length + unpackageString(From(buf, g[n - 1].length)).length ]
           Read(n) == [ value |-> SubSeq(strs, 1, n), length |-> ends[n] ]
           f == [ n \in 0 .. charToInt(buf) |-> Read(n) ]
<1>10. \A n \in 0 .. k : f[n] = Read(n)
  BY <1>8
<1> HIDE DEF f
<1>11. ASSUME NEW n \in 0 .. k, NEW g, n # 0 => g[n - 1] = Read(n - 1)
      PROVE  Turn(g, n) = Read(n)
  <2>1. CASE n = 0
    <3>1. SubSeq(strs, 1, 0) = <<>>
      BY SubSeqEmpty
    <3>2. ends[0] = uint_size
      BY <1>5 DEF AreEnds, uint_size
    <3> QED BY <2>1, <3>1, <3>2, Zenon
  <2>2. CASE n # 0
    <3>1. n \in 1 .. k
      BY <2>2
    <3>2. g[n - 1].value = SubSeq(strs, 1, n - 1) /\ g[n - 1].length = ends[n - 1]
      BY <1>11, <2>2
    <3>3. /\ unpackageString(From(buf, ends[n - 1])).value = strs[n]
          /\ unpackageString(From(buf, ends[n - 1])).length = stringLength(strs[n])
      <4>1. unpackageString(From(buf, ends[n - 1])) = [ value |-> strs[n], length |-> stringLength(strs[n]) ]
        BY <1>9, <3>1, Zenon
      <4> QED BY <4>1
    <3>4. ends[n] = ends[n - 1] + stringLength(strs[n])
      BY <1>5, <3>1 DEF AreEnds
    <3>5. SubSeq(strs, 1, n) = Append(SubSeq(strs, 1, n - 1), strs[n])
      BY <3>1, OneMore
    <3> QED BY <2>2, <3>2, <3>3, <3>4, <3>5, Zenon
  <2> QED BY <2>1, <2>2
<1>12. \A n \in 0 .. k : f[n] = Turn(f, n)
  <2> SUFFICES ASSUME NEW n \in 0 .. k PROVE f[n] = Turn(f, n)
    OBVIOUS
  <2>1. n # 0 => n - 1 \in 0 .. k
    BY <1>1
  <2>2. n # 0 => f[n - 1] = Read(n - 1)
    BY <1>10, <2>1, Zenon
  <2> HIDE DEF Turn, Read
  <2> QED BY <1>10, <1>11, <2>2, Zenon
<1>13. f = [ n \in 0 .. charToInt(buf) |-> Turn(f, n) ]
  <2>1. f = [ n \in 0 .. k |-> Read(n) ]
    BY <1>8 DEF f
  <2> HIDE DEF Turn, Read
  <2> QED BY <1>8, <1>10, <1>12, <2>1, Zenon
<1> DEFINE h == CHOOSE g : g = [ n \in 0 .. charToInt(buf) |-> Turn(g, n) ]
<1>14. h = [ n \in 0 .. charToInt(buf) |-> Turn(h, n) ]
  <2> HIDE DEF Turn
  <2> QED BY <1>13, Zenon
<1>15. unpackageStrings(buf) = h[charToInt(buf)]
  BY Zenon DEF unpackageStrings
<1> HIDE DEF h
<1>16. \A n \in 0 .. k : h[n] = Turn(h, n)
  <2> HIDE DEF Turn
  <2> QED BY <1>8, <1>14, Zenon
<1> DEFINE Right == { n \in 0 .. k : h[n] = Read(n) }
<1> HIDE DEF Turn, Read
<1>17. 0 \in Right
  BY <1>1, <1>11, <1>16
<1>18. ASSUME NEW n \in 1 .. k, n - 1 \in Right PROVE n \in Right
  <2>1. n \in 0 .. k
    BY <1>1
  <2>2. h[n - 1] = Read(n - 1)
    BY <1>18
  <2> QED BY <1>11, <1>16, <2>1, <2>2
<1>19. \A n \in 0 .. k : n \in Right
  <2> HIDE DEF Right, k
  <2> QED BY <1>1, <1>17, <1>18, Counting
<1>20. unpackageStrings(buf) = Read(k)
  BY <1>1, <1>8, <1>15, <1>19
<1>21. Read(k) = [ value |-> strs, length |-> stringsLength(strs) ]
  <2>1. SubSeq(strs, 1, k) = strs
    BY SubSeqFull
  <2> QED BY <1>5, <2>1 DEF Read
<1> QED BY <1>7, <1>20, <1>21, Zenon

\* The ints of a vector stand one behind the other, behind their number.
IntLayout(ints, S, flat, seqs) ==
  /\ Flattened(flat, seqs, S) /\ Len(seqs) = Len(ints)
  /\ \A i \in 1 .. Len(ints) : seqs[i] = intToChar(ints[i])
  /\ packageInts(ints) = intToChar(Len(ints)) \o flat[Len(ints)]
  /\ \A i \in 0 .. Len(ints) : Len(flat[i]) = 4 * i

\* Packed ints are bytes, as many as were counted, one int behind the other.
LEMMA IntsBytes ==
  ASSUME NEW ints \in Seq(uint), NEW S, Byte \subseteq S, intToChar(Len(ints)) \in Seq(S)
  PROVE  /\ packageInts(ints) \in Seq(S)
         /\ Len(packageInts(ints)) = intsLength(ints)
         /\ \E flat, seqs : IntLayout(ints, S, flat, seqs)
<1> DEFINE k == Len(ints)
           seqs == [ i \in DOMAIN ints |-> intToChar(ints[i]) ]
<1>1. k \in Nat /\ DOMAIN ints = 1 .. k /\ \A i \in 1 .. k : ints[i] \in uint
  OBVIOUS
<1>2. \A i \in 1 .. k : intToChar(ints[i]) \in Seq(S) /\ Len(intToChar(ints[i])) = 4
  <2> SUFFICES ASSUME NEW i \in 1 .. k PROVE intToChar(ints[i]) \in Seq(S) /\ Len(intToChar(ints[i])) = 4
    OBVIOUS
  <2>1. intToChar(ints[i]) \in Seq(Byte) /\ Len(intToChar(ints[i])) = 4
    BY <1>1, IntRoundTrip
  <2> QED BY <2>1, SeqMonotonic
<1>3. seqs \in Seq(Seq(S)) /\ Len(seqs) = k /\ \A i \in 1 .. k : seqs[i] = intToChar(ints[i])
  <2>1. seqs \in [ 1 .. k -> Seq(S) ]
    BY <1>1, <1>2
  <2> QED BY <1>1, <2>1
<1>4. packageInts(ints) = intToChar(k) \o FlattenSeq(seqs)
  BY DEF packageInts
<1> HIDE DEF seqs
<1>5. PICK flat \in [ 0 .. k -> Seq(S) ] : IsFlat(flat, seqs) /\ FlattenSeq(seqs) = flat[k]
  BY <1>3, FlattenUnfolds
<1> DEFINE Ends == { i \in 0 .. k : Len(flat[i]) = 4 * i }
<1>6. 0 \in Ends
  BY <1>1, <1>5 DEF IsFlat
<1>7. ASSUME NEW i \in 1 .. k, i - 1 \in Ends PROVE i \in Ends
  <2>1. i - 1 \in 0 .. k /\ i \in 0 .. k
    BY <1>1
  <2>2. flat[i] = flat[i - 1] \o intToChar(ints[i])
    BY <1>3, <1>5 DEF IsFlat
  <2>3. PICK x \in Seq(S), y \in Seq(S) : x = flat[i - 1] /\ y = intToChar(ints[i])
    BY <1>2, <2>1
  <2>4. Len(x \o y) = Len(x) + Len(y)
    BY ConcatProperties
  <2>5. Len(flat[i]) = Len(flat[i - 1]) + 4
    BY <1>2, <2>2, <2>3, <2>4
  <2>6. Len(flat[i - 1]) = 4 * (i - 1)
    BY <1>7
  <2>7. Len(flat[i]) = 4 * i
    BY <2>1, <2>5, <2>6
  <2> QED BY <2>1, <2>7
<1>8. \A i \in 0 .. k : i \in Ends
  <2> HIDE DEF Ends, k
  <2> QED BY <1>1, <1>6, <1>7, Counting
<1>9. flat[k] \in Seq(S) /\ Len(flat[k]) = 4 * k
  BY <1>1, <1>8
<1>10. /\ intToChar(k) \o flat[k] \in Seq(S)
       /\ Len(intToChar(k) \o flat[k]) = 4 + 4 * k
  <2>1. Len(intToChar(k)) = 4
    BY <1>1, IntBytes
  <2>2. PICK x \in Seq(S), y \in Seq(S) : x = intToChar(k) /\ y = flat[k]
    BY <1>9
  <2>3. x \o y \in Seq(S) /\ Len(x \o y) = Len(x) + Len(y)
    BY ConcatProperties
  <2> QED BY <1>9, <2>1, <2>2, <2>3
<1>11. \A i \in 0 .. k : Len(flat[i]) = 4 * i
  BY <1>8
<1> HIDE DEF Ends
<1>12. intsLength(ints) = 4 + 4 * k
  BY DEF intsLength, uint_size
<1>13. packageInts(ints) \in Seq(S) /\ Len(packageInts(ints)) = intsLength(ints)
  BY <1>4, <1>5, <1>10, <1>12
<1>14. Flattened(flat, seqs, S)
  BY <1>3, <1>5 DEF Flattened
<1>15. IntLayout(ints, S, flat, seqs)
  BY <1>3, <1>4, <1>5, <1>11, <1>14 DEF IntLayout
<1> QED BY <1>13, <1>15

\* The ints of a vector come back from its bytes.
LEMMA IntsRoundTrip ==
  ASSUME NEW ints \in Seq(uint), Len(ints) \in uint, NEW rest \in Seq(Byte)
  PROVE  unpackageInts(packageInts(ints) \o rest) = [ value |-> ints, length |-> intsLength(ints) ]
<1> DEFINE k == Len(ints)
<1>1. k \in Nat /\ ints \in [ 1 .. k -> uint ]
  OBVIOUS
<1>2. intToChar(k) \in Seq(Byte) /\ Len(intToChar(k)) = 4
  BY IntRoundTrip
<1>3. PICK flat, seqs : IntLayout(ints, Byte, flat, seqs)
  BY <1>2, IntsBytes, Zenon
<1>4. /\ Flattened(flat, seqs, Byte) /\ Len(seqs) = k
      /\ \A i \in 1 .. k : seqs[i] = intToChar(ints[i])
      /\ packageInts(ints) = intToChar(k) \o flat[k]
      /\ \A i \in 0 .. k : Len(flat[i]) = 4 * i
  BY <1>3 DEF IntLayout
<1>5. flat[k] \in Seq(Byte)
  <2>1. flat \in [ 0 .. k -> Seq(Byte) ]
    BY <1>4 DEF Flattened
  <2> QED BY <1>1, <2>1
<1>6. PICK buf : buf = packageInts(ints) \o rest
  OBVIOUS
<1>7. charToInt(buf) = k
  <2>1. PICK head \in Seq(Byte), f \in Seq(Byte) : head = intToChar(k) /\ f = flat[k]
    BY <1>2, <1>5
  <2>2. PICK y \in Seq(Byte) : y = Cat(f, rest)
    BY CatAssociative
  <2>3. Cat(Cat(head, f), rest) = Cat(head, y)
    BY <2>2, CatAssociative
  <2>4. buf = intToChar(k) \o y
    BY <1>4, <1>6, <2>1, <2>3, Zenon DEF Cat
  <2>5. charToInt(intToChar(k) \o y) = k
    BY IntInFront
  <2> QED BY <2>4, <2>5, Zenon
<1>8. ASSUME NEW i \in 1 .. k PROVE charToInt(From(buf, uint_size * i)) = ints[i]
  <2>1. PICK head \in Seq(Byte) : head = intToChar(k)
    BY <1>2
  <2>2. i \in 1 .. Len(seqs) /\ Len(seqs) = k /\ i - 1 \in 0 .. k
    BY <1>1, <1>4
  <2>3. StandsAt(Len(head) + Len(flat[i - 1]), seqs[i], Cat(Cat(head, flat[Len(seqs)]), rest), Byte)
    BY <1>4, <2>2, PieceFound
  <2>4. PICK behind \in Seq(Byte) :
          From(Cat(Cat(head, flat[Len(seqs)]), rest), Len(head) + Len(flat[i - 1])) = Cat(seqs[i], behind)
    BY <2>3 DEF StandsAt
  <2>5. Cat(Cat(head, flat[Len(seqs)]), rest) = buf
    BY <1>4, <1>6, <2>1, <2>2, Zenon DEF Cat
  <2>6. Len(head) + Len(flat[i - 1]) = uint_size * i
    <3>1. Len(flat[i - 1]) = 4 * (i - 1)
      BY <1>4, <2>2
    <3>2. Len(head) = 4 /\ i \in Int
      BY <1>2, <2>1
    <3>3. 4 + 4 * (i - 1) = 4 * i
      BY <3>2
    <3> QED BY <3>1, <3>2, <3>3 DEF uint_size
  <2>7. From(buf, uint_size * i) = intToChar(ints[i]) \o behind
    BY <1>4, <2>4, <2>5, <2>6, Zenon DEF Cat
  <2>8. ints[i] \in uint
    BY <1>1
  <2>9. charToInt(intToChar(ints[i]) \o behind) = ints[i]
    BY <2>8, IntInFront
  <2> QED BY <2>7, <2>9, Zenon
<1>9. [ i \in 1 .. charToInt(buf) |-> charToInt(From(buf, uint_size * i)) ] = ints
  <2>1. [ i \in 1 .. k |-> charToInt(From(buf, uint_size * i)) ] = [ i \in 1 .. k |-> ints[i] ]
    BY <1>8, Zenon
  <2>2. [ i \in 1 .. k |-> ints[i] ] = ints
    BY <1>1
  <2> QED BY <1>7, <2>1, <2>2, Zenon
<1>10. unpackageInts(buf) = [ value |-> ints, length |-> uint_size + uint_size * k ]
  BY <1>7, <1>9, Zenon DEF unpackageInts
<1> QED BY <1>6, <1>10, Zenon DEF intsLength

\* A vector of strings takes four bytes for its number and for every string, and
\* the bytes of every string.
LEMMA StringsLengthBounds ==
  ASSUME NEW strs \in Seq(String)
  PROVE  /\ stringsLength(strs) \in Nat
         /\ stringsLength(strs) >= 4 + 4 * Len(strs)
         /\ \A i \in 1 .. Len(strs) : stringsLength(strs) >= Len(strs[i])
<1> DEFINE k == Len(strs)
<1>1. k \in Nat /\ \A i \in 1 .. k : strs[i] \in String
  OBVIOUS
<1>2. PICK ends \in [ 0 .. k -> Nat ] : AreEnds(ends, strs) /\ stringsLength(strs) = ends[k]
  BY StringsLengthUnfolds
<1>3. \A i \in 1 .. k : Len(strs[i]) \in Nat /\ stringLength(strs[i]) \in Nat /\ stringLength(strs[i]) >= 4 + Len(strs[i])
  <2> SUFFICES ASSUME NEW i \in 1 .. k
      PROVE Len(strs[i]) \in Nat /\ stringLength(strs[i]) \in Nat /\ stringLength(strs[i]) >= 4 + Len(strs[i])
    OBVIOUS
  <2>1. strs[i] \in String
    BY <1>1
  <2>2. Len(strs[i]) \in Nat
    BY <2>1, LenProperties DEF String
  <2> QED BY <2>1, <2>2, StringLengthType
<1> DEFINE Long == { n \in 0 .. k : ends[n] >= 4 + 4 * n /\ \A i \in 1 .. n : ends[n] >= Len(strs[i]) }
<1>4. 0 \in Long
  BY <1>1, <1>2 DEF AreEnds
<1>5. ASSUME NEW n \in 1 .. k, n - 1 \in Long PROVE n \in Long
  <2>1. n - 1 \in 0 .. k /\ n \in 0 .. k
    BY <1>1
  <2>2. ends[n] = ends[n - 1] + stringLength(strs[n]) /\ ends[n] \in Nat /\ ends[n - 1] \in Nat
    BY <1>2, <2>1 DEF AreEnds
  <2>3. stringLength(strs[n]) >= 4 + Len(strs[n]) /\ Len(strs[n]) \in Nat /\ stringLength(strs[n]) \in Nat
    BY <1>3
  <2>4. ends[n] >= 4 + 4 * n
    BY <1>5, <2>1, <2>2, <2>3
  <2>5. ASSUME NEW i \in 1 .. n PROVE ends[n] >= Len(strs[i])
    <3>1. CASE i = n
      BY <2>2, <2>3, <3>1
    <3>2. CASE i # n
      <4>1. i \in 1 .. n - 1 /\ i \in 1 .. k
        BY <2>1, <3>2
      <4>2. ends[n - 1] >= Len(strs[i]) /\ Len(strs[i]) \in Nat
        BY <1>3, <1>5, <4>1
      <4> QED BY <2>2, <2>3, <4>2
    <3> QED BY <3>1, <3>2
  <2> QED BY <2>1, <2>4, <2>5
<1>6. \A n \in 0 .. k : n \in Long
  <2> HIDE DEF Long, k
  <2> QED BY <1>1, <1>4, <1>5, Counting
<1>7. k \in Long /\ k \in 0 .. k
  BY <1>1, <1>6
<1> QED BY <1>2, <1>7

\* Six pieces: how long they are together, and what is found where one ends.
ArePieces(all, a, b, c, d, e, f) ==
  /\ Len(all) = Len(a) + Len(b) + Len(c) + Len(d) + Len(e) + Len(f)
  /\ all = Cat(a, Cat(b, Cat(c, Cat(d, Cat(e, f)))))
  /\ From(all, Len(a)) = Cat(b, Cat(c, Cat(d, Cat(e, f))))
  /\ From(all, Len(a) + Len(b)) = Cat(c, Cat(d, Cat(e, f)))
  /\ From(all, Len(a) + Len(b) + Len(c)) = Cat(d, Cat(e, f))
  /\ From(all, Len(a) + Len(b) + Len(c) + Len(d)) = Cat(e, f)
  /\ From(all, Len(a) + Len(b) + Len(c) + Len(d) + Len(e)) = f

\* Six sequences put together stand one behind the other.
LEMMA SixPieces ==
  ASSUME NEW S, NEW a \in Seq(S), NEW b \in Seq(S), NEW c \in Seq(S), NEW d \in Seq(S),
         NEW e \in Seq(S), NEW f \in Seq(S)
  PROVE  /\ Cat(Cat(Cat(Cat(Cat(a, b), c), d), e), f) \in Seq(S)
         /\ ArePieces(Cat(Cat(Cat(Cat(Cat(a, b), c), d), e), f), a, b, c, d, e, f)
<1> DEFINE all == Cat(Cat(Cat(Cat(Cat(a, b), c), d), e), f)
<1>1. \A x, y, z \in Seq(S) : Cat(Cat(x, y), z) = Cat(x, Cat(y, z))
  BY CatAssociative
<1>2. \A x, y \in Seq(S) : Cat(x, y) \in Seq(S)
  BY CatAssociative
<1>3. \A x, y \in Seq(S) : Len(Cat(x, y)) = Len(x) + Len(y)
  BY ConcatProperties DEF Cat
<1>4. \A x, y \in Seq(S) : From(Cat(x, y), Len(x)) = y
  <2> SUFFICES ASSUME NEW x \in Seq(S), NEW y \in Seq(S) PROVE From(Cat(x, y), Len(x)) = y
    OBVIOUS
  <2>1. From(x \o y, Len(x)) = y
    BY FromBehind
  <2> QED BY <2>1, Zenon DEF Cat
<1> DEFINE ab == Cat(a, b)
           abc == Cat(ab, c)
           abcd == Cat(abc, d)
           abcde == Cat(abcd, e)
           ef == Cat(e, f)
           def == Cat(d, ef)
           cdef == Cat(c, def)
           bcdef == Cat(b, cdef)
<1>5. ab \in Seq(S) /\ ef \in Seq(S) /\ Len(ab) = Len(a) + Len(b)
  BY <1>2, <1>3
<1> HIDE DEF ab, ef
<1>6. abc \in Seq(S) /\ def \in Seq(S) /\ Len(abc) = Len(ab) + Len(c)
  BY <1>2, <1>3, <1>5
<1> HIDE DEF abc, def
<1>7. abcd \in Seq(S) /\ cdef \in Seq(S) /\ Len(abcd) = Len(abc) + Len(d)
  BY <1>2, <1>3, <1>6
<1> HIDE DEF abcd, cdef
<1>8. abcde \in Seq(S) /\ bcdef \in Seq(S) /\ Len(abcde) = Len(abcd) + Len(e)
  BY <1>2, <1>3, <1>7
<1> HIDE DEF abcde, bcdef
<1>9. all = Cat(abcde, f)
  BY DEF ab, abc, abcd, abcde
<1> HIDE DEF all
<1>10. all = Cat(abcd, ef)
  BY <1>1, <1>7, <1>9 DEF abcde, ef
<1>11. all = Cat(abc, def)
  BY <1>1, <1>5, <1>6, <1>10 DEF abcd, def
<1>12. all = Cat(ab, cdef)
  BY <1>1, <1>5, <1>6, <1>11 DEF abc, cdef
<1>13. all = Cat(a, bcdef)
  BY <1>1, <1>7, <1>12 DEF ab, bcdef
<1>14. all \in Seq(S)
  BY <1>2, <1>8, <1>9
<1>15. Len(all) = Len(abcde) + Len(f)
  BY <1>3, <1>8, <1>9
<1>16. From(all, Len(a)) = bcdef
  BY <1>8, <1>13, <1>4
<1>17. From(all, Len(ab)) = cdef
  BY <1>5, <1>7, <1>12, <1>4
<1>18. From(all, Len(abc)) = def
  BY <1>6, <1>11, <1>4
<1>19. From(all, Len(abcd)) = ef
  BY <1>5, <1>7, <1>10, <1>4
<1>20. From(all, Len(abcde)) = f
  BY <1>8, <1>9, <1>4
<1>21. bcdef = Cat(b, cdef) /\ cdef = Cat(c, def) /\ def = Cat(d, ef) /\ ef = Cat(e, f)
  BY DEF bcdef, cdef, def, ef
<1>22. ArePieces(all, a, b, c, d, e, f)
  BY <1>5, <1>6, <1>7, <1>8, <1>13, <1>16, <1>20, <1>21, <1>15, <1>17, <1>18, <1>19, Zenon DEF ArePieces
<1> QED BY <1>14, <1>22, Zenon DEF all

\* What can be in a message.
Packable == [ type : uint, callType : uint, num : uint, intArgs : Seq(uint), strArgs : Seq(String) ]

\* The bytes of a message are as many as its size, be it too long for this to be
\* written.
LEMMA MessageBytes ==
  ASSUME NEW m \in Packable, NEW S, Byte \subseteq S,
         intToChar(messageSize(m)) \in Seq(S), intToChar(Len(m.intArgs)) \in Seq(S),
         intToChar(Len(m.strArgs)) \in Seq(S),
         \A i \in 1 .. Len(m.strArgs) : intToChar(Len(m.strArgs[i])) \in Seq(S)
  PROVE  marshalMessage(m) \in Seq(S) /\ Len(marshalMessage(m)) = messageSize(m)
<1>1. /\ m.type \in uint /\ m.callType \in uint /\ m.num \in uint
      /\ m.intArgs \in Seq(uint) /\ m.strArgs \in Seq(String)
  BY DEF Packable
<1>2. PICK a \in Seq(S) : a = intToChar(messageSize(m))
  OBVIOUS
<1>3. messageSize(m) \in Nat
  <2>1. stringsLength(m.strArgs) \in Nat
    BY <1>1, StringsLengthBounds
  <2>2. Len(m.intArgs) \in Nat
    BY <1>1, LenProperties
  <2> QED BY <2>1, <2>2 DEF messageSize, intsLength, uint_size
<1>4. Len(a) = 4
  BY <1>2, <1>3, IntBytes
<1>5. \A n \in uint : intToChar(n) \in Seq(S) /\ Len(intToChar(n)) = 4
  <2> SUFFICES ASSUME NEW n \in uint PROVE intToChar(n) \in Seq(S) /\ Len(intToChar(n)) = 4
    OBVIOUS
  <2>1. intToChar(n) \in Seq(Byte) /\ Len(intToChar(n)) = 4
    BY IntRoundTrip
  <2> QED BY <2>1, SeqMonotonic
<1>6. PICK b \in Seq(S), c \in Seq(S), d \in Seq(S) :
        b = intToChar(m.type) /\ c = intToChar(m.callType) /\ d = intToChar(m.num)
  BY <1>1, <1>5
<1>7. Len(b) = 4 /\ Len(c) = 4 /\ Len(d) = 4
  BY <1>1, <1>5, <1>6
<1>8. PICK e \in Seq(S) : e = packageInts(m.intArgs) /\ Len(e) = intsLength(m.intArgs)
  BY <1>1, IntsBytes
<1>9. PICK f \in Seq(S) : f = packageStrings(m.strArgs) /\ Len(f) = stringsLength(m.strArgs)
  BY <1>1, StringsBytes
<1> DEFINE all == Cat(Cat(Cat(Cat(Cat(a, b), c), d), e), f)
<1>10. all \in Seq(S) /\ ArePieces(all, a, b, c, d, e, f)
  BY SixPieces, Zenon
<1>11. Len(all) = Len(a) + Len(b) + Len(c) + Len(d) + Len(e) + Len(f)
  BY <1>10, Zenon DEF ArePieces
<1>12. marshalMessage(m) = all
  BY <1>2, <1>6, <1>8, <1>9, Zenon DEF marshalMessage, Cat
<1> HIDE DEF all
<1>13. Len(all) = messageSize(m)
  <2>1. Len(e) \in Nat /\ Len(f) \in Nat
    BY LenProperties
  <2>2. messageSize(m) = 16 + Len(e) + Len(f)
    BY <1>8, <1>9 DEF messageSize, uint_size
  <2> QED BY <1>4, <1>7, <1>11, <2>1, <2>2
<1> QED BY <1>10, <1>12, <1>13, Zenon

\* The empty sequence, as one of bytes.
LEMMA NoBytes == \E none \in Seq(Byte) : none = <<>>
<1>1. <<>> \in Seq(Byte)
  BY EmptySeq
<1> QED BY <1>1, Zenon

\* messageSize is a number, and is no smaller than what it counts.
LEMMA MessageSizeBounds ==
  ASSUME NEW m \in Packable
  PROVE  /\ messageSize(m) \in Nat
         /\ messageSize(m) = 16 + intsLength(m.intArgs) + stringsLength(m.strArgs)
         /\ intsLength(m.intArgs) \in Nat /\ stringsLength(m.strArgs) \in Nat
         /\ Len(m.intArgs) \in Nat /\ Len(m.strArgs) \in Nat
         /\ messageSize(m) >= Len(m.intArgs) /\ messageSize(m) >= Len(m.strArgs)
         /\ \A i \in 1 .. Len(m.strArgs) : Len(m.strArgs[i]) \in Nat /\ messageSize(m) >= Len(m.strArgs[i])
<1>1. PICK ints \in Seq(uint), strs \in Seq(String) : ints = m.intArgs /\ strs = m.strArgs
  BY DEF Packable
<1>2. /\ stringsLength(strs) \in Nat /\ stringsLength(strs) >= 4 + 4 * Len(strs)
      /\ \A i \in 1 .. Len(strs) : stringsLength(strs) >= Len(strs[i])
  BY StringsLengthBounds
<1>3. Len(ints) \in Nat /\ Len(strs) \in Nat
  OBVIOUS
<1>4. intsLength(ints) = 4 + 4 * Len(ints)
  BY DEF intsLength, uint_size
<1>5. messageSize(m) = 16 + intsLength(ints) + stringsLength(strs)
  BY <1>1 DEF messageSize, uint_size
<1>6. messageSize(m) \in Nat /\ messageSize(m) >= Len(ints) /\ messageSize(m) >= Len(strs)
  BY <1>2, <1>3, <1>4, <1>5
<1>7. ASSUME NEW i \in 1 .. Len(strs)
      PROVE  Len(strs[i]) \in Nat /\ messageSize(m) >= Len(strs[i])
  <2>1. strs[i] \in String
    OBVIOUS
  <2>2. Len(strs[i]) \in Nat
    BY <2>1, LenProperties DEF String
  <2>3. stringsLength(strs) >= Len(strs[i])
    BY <1>2
  <2> QED BY <1>2, <1>3, <1>4, <1>5, <2>2, <2>3
<1> QED BY <1>1, <1>2, <1>3, <1>4, <1>5, <1>6, <1>7

\* How long a packet is.
LEMMA PacketLength ==
  ASSUME NEW m \in Packable
  PROVE  Len(marshalMessage(m)) = messageSize(m) /\ messageSize(m) \in Nat
<1>1. /\ messageSize(m) \in Nat /\ Len(m.intArgs) \in Nat /\ Len(m.strArgs) \in Nat
      /\ \A i \in 1 .. Len(m.strArgs) : Len(m.strArgs[i]) \in Nat
  BY MessageSizeBounds
<1>2. PICK S : S = Nat
  OBVIOUS
<1>3. \A n \in Nat : intToChar(n) \in Seq(S)
  BY <1>2, IntBytes
<1>4. Byte \subseteq S
  BY <1>2 DEF Byte
<1>5. /\ intToChar(messageSize(m)) \in Seq(S) /\ intToChar(Len(m.intArgs)) \in Seq(S)
      /\ intToChar(Len(m.strArgs)) \in Seq(S)
      /\ \A i \in 1 .. Len(m.strArgs) : intToChar(Len(m.strArgs[i])) \in Seq(S)
  BY <1>1, <1>3, Zenon
<1>6. Len(marshalMessage(m)) = messageSize(m)
  BY <1>4, <1>5, MessageBytes, Zenon
<1> QED BY <1>1, <1>6

\* Every message whose size an unsigned int holds comes back from its bytes, all of
\* which are read: the fields, the ints and the strings, on hosts of either order
\* of bytes.
THEOREM MessageRoundTrip ==
  ASSUME NEW m \in Packable, messageSize(m) \in uint
  PROVE  LET buf == marshalMessage(m)
         IN /\ buf \in Seq(Byte) /\ Len(buf) = messageSize(m)
            /\ getMarshalLength(buf) = Len(buf)
            /\ getMarshalType(buf) = m.type
            /\ getMarshalCallType(buf) = m.callType
            /\ getMarshalNum(buf) = m.num
            /\ unmarshalMessage(buf) = [ value |-> m, length |-> Len(buf) ]
<1>1. /\ m.type \in uint /\ m.callType \in uint /\ m.num \in uint
      /\ m.intArgs \in Seq(uint) /\ m.strArgs \in Seq(String)
      /\ m = [ type |-> m.type, callType |-> m.callType, num |-> m.num,
               intArgs |-> m.intArgs, strArgs |-> m.strArgs ]
  BY DEF Packable
<1>2. /\ messageSize(m) = 16 + intsLength(m.intArgs) + stringsLength(m.strArgs)
      /\ intsLength(m.intArgs) \in Nat /\ stringsLength(m.strArgs) \in Nat
      /\ Len(m.intArgs) \in uint /\ Len(m.strArgs) \in uint
      /\ \A i \in 1 .. Len(m.strArgs) : Len(m.strArgs[i]) \in uint
  <2>1. /\ messageSize(m) = 16 + intsLength(m.intArgs) + stringsLength(m.strArgs)
        /\ intsLength(m.intArgs) \in Nat /\ stringsLength(m.strArgs) \in Nat
        /\ Len(m.intArgs) \in Nat /\ Len(m.strArgs) \in Nat
        /\ messageSize(m) >= Len(m.intArgs) /\ messageSize(m) >= Len(m.strArgs)
        /\ \A i \in 1 .. Len(m.strArgs) : Len(m.strArgs[i]) \in Nat /\ messageSize(m) >= Len(m.strArgs[i])
    BY MessageSizeBounds
  <2>2. \A n \in Nat : messageSize(m) >= n => n \in uint
    BY DEF uint
  <2> QED BY <2>1, <2>2
<1>3. \A n \in uint : intToChar(n) \in Seq(Byte) /\ Len(intToChar(n)) = 4
  BY IntRoundTrip
<1>4. PICK a \in Seq(Byte), b \in Seq(Byte), c \in Seq(Byte), d \in Seq(Byte) :
        /\ a = intToChar(messageSize(m)) /\ b = intToChar(m.type)
        /\ c = intToChar(m.callType) /\ d = intToChar(m.num)
        /\ Len(a) = 4 /\ Len(b) = 4 /\ Len(c) = 4 /\ Len(d) = 4
  BY <1>1, <1>3
<1>5. Byte \subseteq Byte
  OBVIOUS
<1>6. PICK e \in Seq(Byte) : e = packageInts(m.intArgs) /\ Len(e) = intsLength(m.intArgs)
  <2>1. packageInts(m.intArgs) \in Seq(Byte) /\ Len(packageInts(m.intArgs)) = intsLength(m.intArgs)
    BY <1>1, <1>2, <1>3, <1>5, IntsBytes, Zenon
  <2> QED BY <2>1
<1>7. PICK f \in Seq(Byte) : f = packageStrings(m.strArgs) /\ Len(f) = stringsLength(m.strArgs)
  <2>1. packageStrings(m.strArgs) \in Seq(Byte) /\ Len(packageStrings(m.strArgs)) = stringsLength(m.strArgs)
    BY <1>1, <1>2, <1>3, <1>5, StringsBytes, Zenon
  <2> QED BY <2>1
<1> DEFINE buf == Cat(Cat(Cat(Cat(Cat(a, b), c), d), e), f)
<1>8. marshalMessage(m) = buf
  BY <1>4, <1>6, <1>7, Zenon DEF marshalMessage, Cat
<1>9. buf \in Seq(Byte) /\ ArePieces(buf, a, b, c, d, e, f)
  BY SixPieces, Zenon
<1> HIDE DEF buf
<1>10. \A x, y \in Seq(Byte) : Cat(x, y) \in Seq(Byte)
  BY CatAssociative
<1>11. PICK ef \in Seq(Byte) : ef = Cat(e, f)
  BY <1>10
<1>12. PICK def \in Seq(Byte) : def = Cat(d, ef)
  BY <1>10
<1>13. PICK cdef \in Seq(Byte) : cdef = Cat(c, def)
  BY <1>10
<1>14. PICK bcdef \in Seq(Byte) : bcdef = Cat(b, cdef)
  BY <1>10
<1>15. /\ buf = Cat(a, bcdef)
       /\ From(buf, 4) = bcdef /\ From(buf, 8) = cdef /\ From(buf, 12) = def /\ From(buf, 16) = ef
       /\ From(buf, 16 + Len(e)) = f
       /\ Len(buf) = messageSize(m)
  <2>1. /\ buf = Cat(a, bcdef)
        /\ From(buf, Len(a)) = bcdef /\ From(buf, Len(a) + Len(b)) = cdef
        /\ From(buf, Len(a) + Len(b) + Len(c)) = def
        /\ From(buf, Len(a) + Len(b) + Len(c) + Len(d)) = ef
        /\ From(buf, Len(a) + Len(b) + Len(c) + Len(d) + Len(e)) = f
        /\ Len(buf) = Len(a) + Len(b) + Len(c) + Len(d) + Len(e) + Len(f)
    BY <1>9, <1>11, <1>12, <1>13, <1>14, Zenon DEF ArePieces
  <2>2. Len(a) + Len(b) = 8 /\ Len(a) + Len(b) + Len(c) = 12 /\ Len(a) + Len(b) + Len(c) + Len(d) = 16
    BY <1>4
  <2>3. 16 + Len(e) + Len(f) = messageSize(m)
    BY <1>2, <1>6, <1>7
  <2> QED BY <1>4, <2>1, <2>2, <2>3, Zenon
<1>16. getMarshalLength(buf) = messageSize(m)
  <2>1. charToInt(intToChar(messageSize(m)) \o bcdef) = messageSize(m)
    BY IntInFront
  <2> QED BY <1>4, <1>15, <2>1, Zenon DEF getMarshalLength, Cat
<1>17. uint_size * 1 = 4 /\ 1 * uint_size = 4 /\ 2 * uint_size = 8 /\ 3 * uint_size = 12 /\ 4 * uint_size = 16
  BY DEF uint_size
<1>18. getMarshalType(buf) = m.type
  <2>1. charToInt(intToChar(m.type) \o cdef) = m.type
    BY <1>1, IntInFront
  <2> QED BY <1>4, <1>14, <1>15, <1>17, <2>1, Zenon DEF getMarshalType, Cat
<1>19. getMarshalCallType(buf) = m.callType
  <2>1. charToInt(intToChar(m.callType) \o def) = m.callType
    BY <1>1, IntInFront
  <2> QED BY <1>4, <1>13, <1>15, <1>17, <2>1, Zenon DEF getMarshalCallType, Cat
<1>20. getMarshalNum(buf) = m.num
  <2>1. charToInt(intToChar(m.num) \o ef) = m.num
    BY <1>1, IntInFront
  <2> QED BY <1>4, <1>12, <1>15, <1>17, <2>1, Zenon DEF getMarshalNum, Cat
<1>21. unpackageInts(From(buf, 16)) = [ value |-> m.intArgs, length |-> intsLength(m.intArgs) ]
  <2>1. unpackageInts(packageInts(m.intArgs) \o f) = [ value |-> m.intArgs, length |-> intsLength(m.intArgs) ]
    BY <1>1, <1>2, IntsRoundTrip
  <2> QED BY <1>6, <1>11, <1>15, <2>1, Zenon DEF Cat
<1>22. unpackageStrings(From(buf, 16 + intsLength(m.intArgs)))
         = [ value |-> m.strArgs, length |-> stringsLength(m.strArgs) ]
  <2>1. PICK none \in Seq(Byte) : none = <<>>
    BY NoBytes, Zenon
  <2>2. unpackageStrings(packageStrings(m.strArgs) \o none)
          = [ value |-> m.strArgs, length |-> stringsLength(m.strArgs) ]
    BY <1>1, <1>2, StringsRoundTrip
  <2>3. f \o none = f
    BY <2>1, ConcatEmptySeq
  <2> QED BY <1>6, <1>7, <1>15, <2>2, <2>3, Zenon
<1>23. unmarshalMessage(buf) = [ value |-> m, length |-> Len(buf) ]
  <2>1. unpackageInts(From(buf, 16)).value = m.intArgs
        /\ unpackageInts(From(buf, 16)).length = intsLength(m.intArgs)
    BY <1>21
  <2>2. unpackageStrings(From(buf, 16 + intsLength(m.intArgs))).value = m.strArgs
        /\ unpackageStrings(From(buf, 16 + intsLength(m.intArgs))).length = stringsLength(m.strArgs)
    BY <1>22
  <2>3. unmarshalMessage(buf) =
          [ value |-> [ type |-> m.type, callType |-> m.callType, num |-> m.num,
                        intArgs |-> m.intArgs, strArgs |-> m.strArgs ],
            length |-> 16 + intsLength(m.intArgs) + stringsLength(m.strArgs) ]
    BY <1>17, <1>18, <1>19, <1>20, <2>1, <2>2, Zenon DEF unmarshalMessage
  <2> QED BY <1>1, <1>2, <1>15, <2>3, Zenon
<1> QED BY <1>8, <1>9, <1>15, <1>16, <1>18, <1>19, <1>20, <1>23, Zenon

-----------------------------------------------------------------------------
(* What is read and written in a file.                                      *)

\* A shift in one direction is undone by one in the other: no two letters become
\* the same, and what is no letter stays and is never taken for one.
THEOREM ShiftUndone ==
  ASSUME NEW c \in Byte
  PROVE  /\ shiftChar(shiftChar(c, 1), -1) = c
         /\ shiftChar(shiftChar(c, -1), 1) = c
BY DEF shiftChar, Byte, Letters

\* The check of readFile, made on a sum of two ints that may wrap, throws exactly
\* when the characters asked for are not all there.
THEOREM ReadBoundsExact ==
  ASSUME NEW files, NEW path \in DOMAIN files, readWholeFile(files, path) \in String,
         Len(readWholeFile(files, path)) < INT_MAX,
         NEW offset \in Nat, offset <= INT_MAX,
         NEW num \in Nat, num <= INT_MAX
  PROVE  readFile(files, path, offset, num) =
           IF offset + num > Len(readWholeFile(files, path)) THEN Thrown("FileBound")
           ELSE Text(SubSeq(readWholeFile(files, path), offset + 1, offset + num))
<1> DEFINE text == readWholeFile(files, path)
<1>1. Len(text) \in Nat /\ Len(text) < INT_MAX /\ INT_MAX \in Nat
  BY LenProperties DEF String, INT_MAX
<1> HIDE DEF text
<1>2. asSize(intSum(offset, num)) > Len(text) <=> offset + num > Len(text)
  BY <1>1 DEF asSize, intSum
<1>3. offset + num <= Len(text) => substr(text, offset, num) = SubSeq(text, offset + 1, offset + num)
  BY <1>1 DEF substr
<1>4. CASE offset + num > Len(text)
  BY <1>2, <1>4 DEF readFile, Exists, text
<1>5. CASE offset + num <= Len(text)
  <2>1. ~(offset + num > Len(text)) /\ ~(offset < 0) /\ ~(num < 0)
    BY <1>1, <1>5
  <2>2. ~(asSize(intSum(offset, num)) > Len(text))
    BY <1>2, <2>1
  <2>3. readFile(files, path, offset, num) = Text(substr(text, offset, num))
    BY <2>1, <2>2 DEF readFile, Exists, text
  <2> QED BY <1>3, <1>5, <2>1, <2>3 DEF text
<1> QED BY <1>1, <1>4, <1>5

\* One more character is counted.
LEMMA OccurrencesStep ==
  ASSUME NEW text \in String, NEW i \in 1 .. Len(text), NEW c
  PROVE  /\ occurrences(text, i, c) \in Nat /\ occurrences(text, i - 1, c) \in Nat
         /\ occurrences(text, i, c) = occurrences(text, i - 1, c) + (IF text[i] = c THEN 1 ELSE 0)
         /\ i = 1 => occurrences(text, i - 1, c) = 0
<1> DEFINE A == { j \in 1 .. i - 1 : text[j] = c }
           B == { j \in 1 .. i : text[j] = c }
<1>1. i \in Nat /\ i - 1 \in Nat /\ i >= 1
  BY LenProperties DEF String
<1>2. IsFiniteSet(1 .. i - 1) /\ IsFiniteSet(1 .. i)
  BY <1>1, FS_Interval
<1>3. IsFiniteSet(A) /\ Cardinality(A) \in Nat
  <2>1. A \subseteq 1 .. i - 1
    OBVIOUS
  <2> HIDE DEF A
  <2> QED BY <1>2, <2>1, FS_Subset, FS_CardinalityType
<1>4. i \notin A
  BY <1>1
<1>5. B = IF text[i] = c THEN A \cup {i} ELSE A
  <2>1. \A j \in 1 .. i : j = i \/ j \in 1 .. i - 1
    BY <1>1
  <2>2. 1 .. i - 1 \subseteq 1 .. i /\ i \in 1 .. i
    BY <1>1
  <2> QED BY <2>1, <2>2
<1>6. Cardinality(A \cup {i}) = Cardinality(A) + 1
  <2> HIDE DEF A
  <2> QED BY <1>3, <1>4, FS_AddElement
<1>7. i = 1 => Cardinality(A) = 0
  <2>1. i = 1 => A = {}
    OBVIOUS
  <2> HIDE DEF A
  <2> QED BY <2>1, FS_EmptySet
<1>8. occurrences(text, i - 1, c) = Cardinality(A) /\ occurrences(text, i, c) = Cardinality(B)
  BY DEF occurrences
<1> HIDE DEF A, B
<1> QED BY <1>3, <1>5, <1>6, <1>7, <1>8

\* The most common ones among the first i characters of a text.
Tops(text, i) ==
  { c \in Byte : /\ i # 0 => \E j \in 1 .. i : text[j] = c
                 /\ i = 0 => c = 0
                 /\ \A j \in 1 .. i : occurrences(text, i, text[j]) <= occurrences(text, i, c) }

\* The loop of getMode keeps the most common character so far.
LEMMA TopStep ==
  ASSUME NEW text \in String, NEW i \in 1 .. Len(text), NEW m \in Tops(text, i - 1)
  PROVE  (IF occurrences(text, i, text[i]) > occurrences(text, i, m) THEN text[i] ELSE m) \in Tops(text, i)
<1> DEFINE c == text[i]
           t == IF occurrences(text, i, c) > occurrences(text, i, m) THEN c ELSE m
<1>1. /\ i - 1 \in Nat /\ i \in Nat /\ i >= 1 /\ i # 0 /\ i - 1 + 1 = i
      /\ \A j \in 1 .. i : j \in 1 .. Len(text) /\ (j = i \/ j \in 1 .. i - 1)
      /\ \A j \in 1 .. i - 1 : j \in 1 .. i
      /\ i \in 1 .. i
  BY LenProperties DEF String
<1>2. c \in Byte /\ m \in Byte
  BY DEF Tops, String
<1>3. \A d : /\ occurrences(text, i, d) \in Nat /\ occurrences(text, i - 1, d) \in Nat
             /\ text[i] = d => occurrences(text, i, d) = occurrences(text, i - 1, d) + 1
             /\ text[i] # d => occurrences(text, i, d) = occurrences(text, i - 1, d)
             /\ i = 1 => occurrences(text, i - 1, d) = 0
  BY OccurrencesStep
<1>4. /\ i - 1 # 0 => \E j \in 1 .. i - 1 : text[j] = m
      /\ \A j \in 1 .. i - 1 : occurrences(text, i - 1, text[j]) <= occurrences(text, i - 1, m)
  BY DEF Tops
<1> HIDE DEF Byte, String
<1>5. ASSUME NEW j \in 1 .. i PROVE occurrences(text, i, text[j]) <= occurrences(text, i, t)
  <2>1. PICK oc \in Nat, om \in Nat, oj \in Nat :
          oc = occurrences(text, i, c) /\ om = occurrences(text, i, m) /\ oj = occurrences(text, i, text[j])
    BY <1>3
  <2>2. occurrences(text, i, t) = IF oc > om THEN oc ELSE om
    BY <2>1
  <2>3. oj <= oc \/ oj <= om
    <3>1. CASE text[j] = c
      BY <2>1, <3>1
    <3>2. CASE text[j] # c
      <4>1. j \in 1 .. i - 1
        BY <1>1, <3>2
      <4>2. occurrences(text, i - 1, text[j]) <= occurrences(text, i - 1, m)
        BY <1>4, <4>1
      <4>3. oj = occurrences(text, i - 1, text[j])
        BY <1>3, <2>1, <3>2
      <4>4. occurrences(text, i - 1, m) <= om /\ occurrences(text, i - 1, m) \in Nat
        <5>1. om = occurrences(text, i - 1, m) \/ om = occurrences(text, i - 1, m) + 1
          BY <1>3, <2>1
        <5>2. occurrences(text, i - 1, m) \in Nat
          BY <1>3
        <5> QED BY <5>1, <5>2
      <4> QED BY <4>2, <4>3, <4>4
    <3> QED BY <3>1, <3>2
  <2> QED BY <2>1, <2>2, <2>3
<1>6. \E j \in 1 .. i : text[j] = t
  <2>1. CASE t = c
    BY <1>1, <2>1
  <2>2. CASE t # c
    <3>1. t = m /\ ~(occurrences(text, i, c) > occurrences(text, i, m)) /\ m # c
      BY <2>2
    <3>2. i - 1 # 0
      <4> SUFFICES ASSUME i = 1 PROVE FALSE
        BY <1>1
      <4>1. occurrences(text, i, c) = 1 /\ occurrences(text, i, m) = 0
        BY <1>3, <3>1
      <4> QED BY <3>1, <4>1
    <3>3. PICK j \in 1 .. i - 1 : text[j] = m
      BY <1>4, <3>2
    <3> QED BY <1>1, <3>1, <3>3
  <2> QED BY <2>1, <2>2
<1>7. t \in Byte
  BY <1>2
<1> HIDE DEF t
<1>8. t \in Tops(text, i)
  BY <1>1, <1>5, <1>6, <1>7 DEF Tops
<1> QED BY <1>8, Zenon DEF t, c

\* getMode returns a most common character of a text, 0 if it is empty; if not all
\* of it is ASCII, some character of it or 0.
THEOREM ModeIsMostCommon ==
  ASSUME NEW files, NEW path, readWholeFile(files, path) \in String
  PROVE  LET text == readWholeFile(files, path)
         IN getMode(files, path) \subseteq
              IF IsAscii(text) THEN Tops(text, Len(text)) ELSE { 0 } \cup { text[i] : i \in DOMAIN text }
<1> DEFINE text == readWholeFile(files, path)
           k == Len(text)
           Larger(i, m) == IF occurrences(text, i, text[i]) > occurrences(text, i, m) THEN text[i] ELSE m
           step == [ p \in (1 .. k) \X Byte |-> Larger(p[1], p[2]) ]
           Turn(g, i) == IF i = 0 THEN 0 ELSE Larger(i, g[i - 1])
           g == CHOOSE g : g = [ i \in 0 .. k |-> Turn(g, i) ]
<1>1. k \in Nat /\ 0 \in Byte /\ text \in Seq(Byte) /\ \A i \in 1 .. k : text[i] \in Byte
  <2>1. text \in Seq(Byte)
    BY DEF String
  <2>2. 0 \in Byte
    BY DEF Byte
  <2> HIDE DEF text
  <2>3. k \in Nat /\ \A i \in 1 .. k : text[i] \in Byte
    BY <2>1
  <2> QED BY <2>1, <2>2, <2>3
<1>2. step \in [ (1 .. k) \X Byte -> Byte ]
  <2>1. ASSUME NEW p \in (1 .. k) \X Byte PROVE Larger(p[1], p[2]) \in Byte
    BY <1>1
  <2> QED BY <2>1
<1>3. PICK f \in [ 0 .. k -> Byte ] : IsLoop(f, k, 0, step)
  <2> HIDE DEF step, k, Byte
  <2> QED BY <1>1, <1>2, LoopExists
<1>4. \A i \in 0 .. k : f[i] = Turn(f, i)
  <2>1. f[0] = Turn(f, 0)
    BY <1>3 DEF IsLoop
  <2>2. ASSUME NEW i \in 1 .. k PROVE f[i] = Turn(f, i)
    <3>1. i - 1 \in 0 .. k /\ i # 0
      BY <1>1
    <3>2. <<i, f[i - 1]>> \in (1 .. k) \X Byte
      BY <3>1
    <3>3. step[<<i, f[i - 1]>>] = Larger(i, f[i - 1])
      BY <3>2
    <3>4. f[i] = step[<<i, f[i - 1]>>]
      BY <1>3 DEF IsLoop
    <3> HIDE DEF step, Larger
    <3> QED BY <3>1, <3>3, <3>4
  <2> HIDE DEF Turn
  <2> QED BY <1>1, <2>1, <2>2
<1> HIDE DEF step
<1>5. f = [ i \in 0 .. k |-> Turn(f, i) ]
  <2> HIDE DEF Turn
  <2> QED BY <1>4, Zenon
<1>6. g = [ i \in 0 .. k |-> Turn(g, i) ]
  <2> HIDE DEF Turn
  <2> QED BY <1>5, Zenon
<1>7. getMode(files, path) = IF IsAscii(text) THEN { g[k] } ELSE { 0 } \cup Range(text)
  BY Zenon DEF getMode
<1> HIDE DEF g, text
<1>8. \A i \in 0 .. k : g[i] = Turn(g, i)
  <2> HIDE DEF Turn
  <2> QED BY <1>6, Zenon
<1> DEFINE Right == { i \in 0 .. k : g[i] \in Tops(text, i) }
<1>9. 0 \in Right
  <2>1. g[0] = 0
    BY <1>1, <1>8
  <2> QED BY <1>1, <2>1 DEF Tops
<1>10. ASSUME NEW i \in 1 .. k, i - 1 \in Right PROVE i \in Right
  <2>1. i \in 0 .. k /\ i # 0
    BY <1>1
  <2>2. PICK m \in Tops(text, i - 1) : m = g[i - 1]
    BY <1>10
  <2>3. Larger(i, m) \in Tops(text, i)
    <3>1. text \in String /\ i \in 1 .. Len(text)
      BY DEF text
    <3> HIDE DEF text, String
    <3> QED BY <3>1, TopStep
  <2>4. g[i] = Larger(i, m)
    <3> HIDE DEF Larger
    <3> QED BY <1>8, <2>1, <2>2
  <2> HIDE DEF Larger, k
  <2> QED BY <2>1, <2>3, <2>4, Zenon
<1>11. \A i \in 0 .. k : i \in Right
  <2> HIDE DEF Right, k
  <2> QED BY <1>1, <1>9, <1>10, Counting
<1>12. g[k] \in Tops(text, k)
  BY <1>1, <1>11
<1>13. Range(text) = { text[i] : i \in DOMAIN text }
  BY DEF Range
<1> QED BY <1>7, <1>12, <1>13, Zenon DEF text
===============================================================================
