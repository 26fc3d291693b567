----------------------------- MODULE CacheProofs -----------------------------
(***************************************************************************)
(* How stale a read through the cache may be, for every interval, timeout  *)
(* and number of tries: FreshnessInv of ClientCache is inductive.          *)
(***************************************************************************)
EXTENDS ClientCache, TLAPS

USE TimedSenderAssumption, ClientCacheAssumption

-----------------------------------------------------------------------------
(* The sender.                                                              *)

\* A sequence of some elements is a sequence of more of them.
LEMMA SeqGrows ==
  ASSUME NEW S, NEW T, S \subseteq T
  PROVE  Seq(S) \subseteq Seq(T)
OBVIOUS

\* What a sequence is of is told by its elements.
LEMMA SeqOfElements ==
  ASSUME NEW S, NEW T, NEW q \in Seq(S), \A i \in DOMAIN q : q[i] \in T
  PROVE  q \in Seq(T)
<1>1. q \in [ 1 .. Len(q) -> T ] /\ Len(q) \in Nat
  OBVIOUS
<1> QED BY <1>1

\* What is left of a queue was in it.
LEMMA TakenFrom ==
  ASSUME NEW S, NEW q \in Seq(S), NEW left,
         left = q \/ left = <<>> \/ (q # <<>> /\ left = Tail(q))
  PROVE  /\ left \in Seq(S)
         /\ \A i \in DOMAIN left : \E j \in DOMAIN q : left[i] = q[j]
<1>1. CASE q # <<>> /\ left = Tail(q)
  <2>1. left \in Seq(S)
    BY <1>1
  <2>2. \A i \in DOMAIN left : i + 1 \in DOMAIN q /\ left[i] = q[i + 1]
    BY <1>1
  <2> QED BY <2>1, <2>2
<1>2. CASE left = q
  BY <1>2
<1>3. CASE left = <<>>
  BY <1>3
<1> QED BY <1>1, <1>2, <1>3

\* The calls among the first n are among more of them.
LEMMA RequestsGrow ==
  ASSUME NEW m \in Nat, NEW n \in Nat, m <= n
  PROVE  /\ Requests(m) \subseteq Requests(n)
         /\ Seq(Requests(m)) \subseteq Seq(Requests(n))
<1>1. Requests(m) \subseteq Requests(n)
  <2> SUFFICES ASSUME NEW r \in Requests(m) PROVE r \in Requests(n)
    OBVIOUS
  <2>1. /\ r = [ num |-> r.num, type |-> r.type ]
        /\ r.num \in 0 .. m - 1 /\ r.type \in {"Fresh", "Dump"}
    BY DEF Requests
  <2>2. r.num \in 0 .. n - 1
    BY <2>1
  <2> QED BY <2>1, <2>2 DEF Requests
<1> QED BY <1>1

\* A call that is made waits, and has its type.
LEMMA SendMessageWaits ==
  ASSUME SenderTypeOK, NEW type \in {"Fresh", "Dump"}, NEW left,
         SendMessage(type, left), UNCHANGED now
  PROVE  SenderTypeOK' /\ WaitBounded'
<1>1. call' = [ num |-> messageNum, type |-> type ] /\ messageNum' = messageNum + 1
      /\ tries' = 1 /\ since' = now /\ improper' = 0 /\ now' = now
      /\ deadline' = now + 2 * TIMEOUT_DURATION
  BY DEF SendMessage, WaitAgain
<1>2. requests' = Append(requests, call') \/ requests' = requests
  BY DEF SendMessage, SendOrLose
<1>3. SenderTypeOK'
  <2>1. now' \in Nat /\ deadline' \in Nat /\ since' \in Nat /\ messageNum' \in Nat
        /\ tries' \in 0 .. NUM_TIMEOUTS /\ improper' \in Nat
    BY <1>1 DEF SenderTypeOK
  <2>2. call' \in Requests(messageNum') /\ call'.num = messageNum' - 1
    BY <1>1 DEF SenderTypeOK, Requests
  <2>3. requests \in Seq(Requests(messageNum'))
    BY <1>1, RequestsGrow DEF SenderTypeOK
  <2>4. requests' \in Seq(Requests(messageNum'))
    BY <1>2, <2>2, <2>3
  <2> QED BY <2>1, <2>2, <2>4 DEF SenderTypeOK
<1>4. WaitBounded'
  BY <1>1 DEF WaitBounded, SenderTypeOK
<1> QED BY <1>3, <1>4

\* A call that has returned does not wait.
LEMMA ReturnWaitsNot ==
  ASSUME SenderTypeOK, NEW left, Return(left), UNCHANGED now
  PROVE  SenderTypeOK' /\ WaitBounded'
<1>1. ~Waits'
  BY DEF Return, Waits
<1> QED BY <1>1 DEF Return, SenderTypeOK, WaitBounded

\* The steps of sendMessage and of the clock keep a wait within its bounds.
LEMMA WaitingBounded ==
  ASSUME SenderTypeOK, WaitBounded,
         DiscardImproper \/ Retransmit \/ GiveUp \/ Tick
  PROVE  SenderTypeOK' /\ WaitBounded'
<1>1. CASE DiscardImproper
  <2>1. Waits /\ Waits' /\ improper' = improper + 1
        /\ deadline' = now + 2 * ((deadline - now + 1) \div 2)
    BY <1>1 DEF DiscardImproper, RemainingSeconds, Waits
  <2>2. deadline <= deadline' /\ deadline' <= deadline + 1 /\ deadline' \in Nat
    BY <2>1 DEF SenderTypeOK, WaitBounded
  <2>3. SenderTypeOK'
    BY <1>1, <2>1, <2>2 DEF DiscardImproper, SenderTypeOK
  <2>4. WaitBounded'
    <3>1. tries * TIMEOUT_DURATION \in Nat /\ 2 * TIMEOUT_DURATION * tries \in Nat
      BY DEF SenderTypeOK
    <3> QED BY <1>1, <2>1, <2>2, <3>1 DEF DiscardImproper, SenderTypeOK, WaitBounded
  <2> QED BY <2>3, <2>4
<1>2. CASE Retransmit
  <2>1. Waits /\ Waits' /\ now = deadline /\ tries' = tries + 1 /\ tries < NUM_TIMEOUTS
        /\ deadline' = now + 2 * TIMEOUT_DURATION
        /\ UNCHANGED <<now, call, messageNum, since, improper>>
    BY <1>2 DEF Retransmit, WaitAgain, TimeIsUp, Waits
  <2>2. requests' \in Seq(Requests(messageNum'))
    <3>1. call \in Requests(messageNum) /\ requests \in Seq(Requests(messageNum))
      BY <2>1 DEF SenderTypeOK, Waits
    <3>2. requests' = Append(requests, call) \/ requests' = requests
      BY <1>2 DEF Retransmit, SendOrLose
    <3> QED BY <2>1, <3>1, <3>2
  <2>3. SenderTypeOK'
    BY <2>1, <2>2 DEF SenderTypeOK
  <2>4. 2 * TIMEOUT_DURATION * tries' = 2 * TIMEOUT_DURATION * tries + 2 * TIMEOUT_DURATION
    BY <2>1 DEF SenderTypeOK
  <2>5. 2 * TIMEOUT_DURATION * tries \in Nat
    BY DEF SenderTypeOK
  <2>6. WaitBounded'
    BY <2>1, <2>4, <2>5 DEF SenderTypeOK, WaitBounded
  <2> QED BY <2>3, <2>6
<1>3. CASE GiveUp
  BY <1>3 DEF GiveUp, SenderTypeOK, WaitBounded, Waits
<1>4. CASE Tick
  BY <1>4 DEF Tick, SenderTypeOK, WaitBounded, Waits
<1> QED BY <1>1, <1>2, <1>3, <1>4

-----------------------------------------------------------------------------
(* The file and the responses.                                              *)

\* The file is edited, or it is not.
EditsGrow == edits' = edits \/ edits' = Append(edits, now)

\* Time passes, or it does not.
TimeGrows == now' \in Nat /\ now <= now'

\* A call waits on, or is over, or has just been made.
CallMovesOn ==
  /\ messageNum' \in Nat /\ messageNum <= messageNum'
  /\ \/ ~Waits'
     \/ Waits /\ call' = call /\ since' = since
     \/ call'.num = messageNum

\* The times of the editions do not change.
LEMMA EditionsKept ==
  ASSUME now \in Nat, EditsOrdered, EditsGrow
  PROVE  /\ Edition \in Nat /\ Edition' \in Nat /\ Edition <= Edition'
         /\ Edition' = Edition \/ (Edition' = Edition + 1 /\ edits'[Edition + 1] = now)
         /\ \A i \in 1 .. Edition : edits'[i] = edits[i] /\ edits[i] \in 0 .. now
         /\ edits' \in Seq(0 .. now)
BY SMTT(40) DEF EditsOrdered, EditsGrow, Edition

\* The order of the edits, while time goes on.
LEMMA EditsOrderKept ==
  ASSUME now \in Nat, EditsOrdered, EditsGrow, TimeGrows
  PROVE  EditsOrdered'
<1>1. edits' \in Seq(0 .. now')
  <2>1. edits' \in Seq(0 .. now)
    BY EditionsKept
  <2>2. 0 .. now \subseteq 0 .. now'
    BY DEF TimeGrows
  <2> QED BY <2>1, <2>2, SeqGrows
<1>2. ASSUME NEW i \in DOMAIN edits', NEW j \in DOMAIN edits', i < j
      PROVE  edits'[i] <= edits'[j]
  <2>1. i \in 1 .. Edition' /\ j \in 1 .. Edition'
    BY <1>1 DEF Edition
  <2>2. i \in 1 .. Edition
    <3>1. Edition' <= Edition + 1 /\ Edition \in Nat /\ Edition' \in Nat
      BY EditionsKept
    <3> QED BY <1>2, <2>1, <3>1
  <2>3. CASE j \in 1 .. Edition
    BY <1>2, <2>2, <2>3, EditionsKept, SMTT(40) DEF EditsOrdered, Edition
  <2>4. CASE j = Edition + 1 /\ edits'[Edition + 1] = now
    BY <2>2, <2>4, EditionsKept
  <2> QED BY <2>1, <2>3, <2>4, EditionsKept
<1> QED BY <1>1, <1>2 DEF EditsOrdered

\* What was the file at some time in the past stays that.
LEMMA CurrentKept ==
  ASSUME now \in Nat, EditsOrdered, EditsGrow,
         NEW e, NEW time \in Nat, time <= now, Current(e, time)
  PROVE  Current(e, time)'
<1>1. e \in 0 .. Edition /\ e \in 0 .. Edition'
  BY EditionsKept DEF Current
<1>2. e > 0 => edits'[e] <= time
  BY <1>1, EditionsKept DEF Current
<1>3. ASSUME e < Edition' PROVE time <= edits'[e + 1]
  <2>1. CASE e < Edition
    BY <1>1, <2>1, EditionsKept DEF Current
  <2>2. CASE e = Edition
    BY <1>1, <1>3, <2>2, EditionsKept
  <2> QED BY <1>1, <2>1, <2>2, EditionsKept
<1> QED BY <1>1, <1>2, <1>3 DEF Current

\* A response stays true.
LEMMA TrueKept ==
  ASSUME SenderTypeOK, EditsOrdered, EditsGrow, TimeGrows, CallMovesOn,
         NEW r \in Responses(messageNum, now), IsTrue(r)
  PROVE  r \in Responses(messageNum', now') /\ IsTrue(r)'
<1>1. now \in Nat /\ messageNum \in Nat /\ r.served \in Nat /\ r.served <= now
      /\ r.num \in 0 .. messageNum - 1 /\ r.edition \in Nat
  BY DEF SenderTypeOK, Responses
<1>2. r \in Responses(messageNum', now')
  <2>1. r = [ num |-> r.num, type |-> r.type, edition |-> r.edition,
              modified |-> r.modified, served |-> r.served ]
        /\ r.type \in {"Fresh", "Dump"} /\ r.modified \in Nat
    BY DEF Responses
  <2>2. r.num \in 0 .. messageNum' - 1 /\ r.served \in 0 .. now'
    BY <1>1 DEF CallMovesOn, TimeGrows
  <2> QED BY <1>1, <2>1, <2>2 DEF Responses
<1>3. Current(r.edition, r.served)'
  BY <1>1, CurrentKept DEF IsTrue
<1>4. r.edition > 0 => r.modified = Seconds(edits'[r.edition])
  BY <1>1, EditionsKept DEF IsTrue, Current
<1>5. Waits' /\ r.num = call'.num => since' <= r.served
  BY <1>1 DEF CallMovesOn, IsTrue
<1> QED BY <1>2, <1>3, <1>4, <1>5 DEF IsTrue

\* Steps of the client take responses only.
LEMMA ResponsesTaken ==
  ASSUME SenderTypeOK, EditsOrdered, EditsGrow, TimeGrows, CallMovesOn, ResponsesTrue,
         messageMap' = messageMap,
         socket' = socket \/ socket' = <<>> \/ (socket # <<>> /\ socket' = Tail(socket))
  PROVE  ResponsesTrue'
<1>1. \A r \in messageMap' : r \in Responses(messageNum', now') /\ IsTrue(r)'
  BY TrueKept DEF ResponsesTrue
<1>2. /\ socket' \in Seq(Responses(messageNum, now))
      /\ \A i \in DOMAIN socket' : \E j \in DOMAIN socket : socket'[i] = socket[j]
  <2>1. socket \in Seq(Responses(messageNum, now))
    BY DEF ResponsesTrue
  <2> QED BY <2>1, TakenFrom
<1>3. ASSUME NEW i \in DOMAIN socket'
      PROVE  socket'[i] \in Responses(messageNum', now') /\ IsTrue(socket[i])'
  <2>1. PICK j \in DOMAIN socket : socket'[i] = socket[j]
    BY <1>2
  <2>2. socket[j] \in Responses(messageNum, now) /\ IsTrue(socket[j])
    BY DEF ResponsesTrue
  <2>3. PICK r \in Responses(messageNum, now) : r = socket[j]
    BY <2>2
  <2>4. r \in Responses(messageNum', now') /\ IsTrue(r)'
    BY <2>2, <2>3, TrueKept
  <2> QED BY <2>1, <2>3, <2>4 DEF IsTrue
<1>4. socket' \in Seq(Responses(messageNum', now'))
  BY <1>2, <1>3, SeqOfElements
<1> QED BY <1>1, <1>3, <1>4 DEF ResponsesTrue

\* The server stores a response once it is true, and sends stored ones only.
LEMMA ServeResponses ==
  ASSUME SenderTypeOK, WaitBounded, EditsOrdered, ResponsesTrue, Serve
  PROVE  ResponsesTrue'
<1> DEFINE All == messageMap \cup {Response(Head(requests))}
<1>1. now \in Nat /\ messageNum \in Nat /\ Edition \in Nat
  BY DEF SenderTypeOK, EditsOrdered, Edition
<1>2. UNCHANGED <<now, call, messageNum, since, edits>>
  BY DEF Serve
<1>3. Head(requests) \in Requests(messageNum)
  BY DEF Serve, SenderTypeOK
<1>4. Response(Head(requests)) \in Responses(messageNum, now)
  <2>1. Edition > 0 => edits[Edition] \in 0 .. now
    BY <1>1 DEF EditsOrdered, Edition
  <2>2. (IF edits = <<>> THEN 0 ELSE Seconds(edits[Edition])) \in Nat
    BY <1>1, <2>1 DEF EditsOrdered, Edition, Seconds
  <2> QED BY <1>1, <1>3, <2>2 DEF Response, Responses, Requests
<1>5. IsTrue(Response(Head(requests)))
  <2>1. Current(Edition, now)
    BY <1>1 DEF Current, EditsOrdered, Edition
  <2>2. edits = <<>> => Edition = 0
    BY DEF Edition
  <2>3. Waits => since <= now
    BY DEF WaitBounded
  <2> QED BY <2>1, <2>2, <2>3 DEF IsTrue, Response
<1>6. \A r \in All : r \in Responses(messageNum, now) /\ IsTrue(r)
  BY <1>4, <1>5 DEF ResponsesTrue
<1>7. messageMap' \subseteq All
  BY DEF Serve
<1>8. \E r \in All : socket' = socket \/ socket' = Append(socket, r)
  BY DEF Serve, Stored, SendOrLose
<1>9. socket' \in Seq(Responses(messageNum, now)) /\ \A i \in DOMAIN socket' : IsTrue(socket'[i])
  <2>1. PICK r \in All : socket' = socket \/ socket' = Append(socket, r)
    BY <1>8
  <2>2. socket \in Seq(Responses(messageNum, now)) /\ \A i \in DOMAIN socket : IsTrue(socket[i])
    BY DEF ResponsesTrue
  <2>3. r \in Responses(messageNum, now) /\ IsTrue(r)
    BY <1>6
  <2>4. CASE socket' = Append(socket, r)
    <3>1. socket' \in Seq(Responses(messageNum, now))
      BY <2>2, <2>3, <2>4
    <3>2. \A i \in DOMAIN socket' : socket'[i] = r \/ (i \in DOMAIN socket /\ socket'[i] = socket[i])
      BY <2>2, <2>4
    <3> QED BY <2>2, <2>3, <3>1, <3>2
  <2> QED BY <2>1, <2>2, <2>4
<1> QED BY <1>2, <1>6, <1>7, <1>9 DEF ResponsesTrue, IsTrue, Current, Edition, Waits

-----------------------------------------------------------------------------
(* The cache.                                                               *)

\* Whole seconds keep the order of time.
LEMMA SecondsOrdered ==
  ASSUME NEW a \in Int, NEW b \in Int, a <= b
  PROVE  Seconds(a) <= Seconds(b)
BY DEF Seconds

\* Two instants less than n seconds apart in whole seconds are less than n
\* seconds apart.
LEMMA SecondsApart ==
  ASSUME NEW a \in Nat, NEW b \in Nat, NEW n \in Nat, Seconds(b) - Seconds(a) < n
  PROVE  b - a < 2 * n
BY DEF Seconds

\* Neither an edit nor time makes a copy, an entry or an answer untrue.
LEMMA CacheKept ==
  ASSUME FreshnessInv, EditsGrow, TimeGrows,
         UNCHANGED <<t, copy, lastValidation, validated, shown>>
  PROVE  CopyWasFile' /\ EntryValid' /\ ShownPast' /\ ReadsFresh'
<1>1. now \in Nat /\ Edition \in Nat /\ Edition' \in Nat /\ Edition <= Edition'
      /\ (Edition' = Edition \/ (Edition' = Edition + 1 /\ edits'[Edition + 1] = now))
      /\ \A i \in 1 .. Edition : edits'[i] = edits[i] /\ edits[i] \in 0 .. now
  BY EditionsKept DEF FreshnessInv, SenderTypeOK
<1>2. CopyWasFile'
  <2>1. copy.edition > 0 => Current(copy.edition, copy.served)'
    <3> SUFFICES ASSUME copy.edition > 0 PROVE Current(copy.edition, copy.served)'
      OBVIOUS
    <3>1. copy.edition \in Nat /\ copy.served \in Nat /\ copy.served <= now /\ Current(copy.edition, copy.served)
      BY <1>1 DEF FreshnessInv, CopyWasFile, CacheTypeOK, Copies
    <3>2. PICK e, time \in Nat : e = copy.edition /\ time = copy.served
      BY <3>1
    <3>3. Current(e, time)'
      BY <1>1, <3>1, <3>2, CurrentKept DEF FreshnessInv
    <3>4. copy'.edition = e /\ copy'.served = time
      BY <3>2
    <3> QED BY <3>3, <3>4 DEF Current
  <2> QED BY <1>1, <2>1 DEF FreshnessInv, CopyWasFile, TimeGrows, CacheTypeOK, Copies
<1>3. EntryValid'
  BY <1>1 DEF FreshnessInv, EntryValid, CacheTypeOK, Copies, Validations, TimeGrows, Overlooked
<1>4. ShownPast'
  BY <1>1 DEF FreshnessInv, ShownPast, CacheTypeOK, TimeGrows
<1>5. ReadsFresh'
  BY <1>1 DEF FreshnessInv, ReadsFresh, ShownPast, CacheTypeOK, Validations, Overlooked, ClientCacheAssumption
<1> QED BY <1>2, <1>3, <1>4, <1>5

\* What a read may show.
MayShow(edition, validation, file) ==
  /\ edition \in 0 .. Edition
  /\ validation \in Validations /\ validation.served <= validation.at
  /\ file \in Copies
  /\ edition < Edition =>
       LET superseded == edits[edition + 1] IN
       \/ now - superseded <= 2 * t + (validation.at - validation.served)
       \/ edition > 0 /\ Overlooked(file, superseded)

\* A read that shows what it may show keeps ReadsFresh.
LEMMA ShowFresh ==
  ASSUME now \in Nat, NEW e, NEW v, NEW f, MayShow(e, v, f), Edition \in Nat,
         Show(e, v, f), UNCHANGED <<now, edits, t>>
  PROVE  /\ ShownPast' /\ ReadsFresh'
         /\ shown' \in [ edition : Nat, at : Nat, validated : Validations, copy : Copies ]
<1>1. shown' = [ edition |-> e, at |-> now, validated |-> v, copy |-> f ]
  BY DEF Show
<1>2. e \in Nat /\ e <= Edition
  BY DEF MayShow
<1>3. ShownPast'
  BY <1>1, <1>2 DEF MayShow, ShownPast, Edition
<1>4. ReadsFresh'
  BY <1>1, <1>2 DEF MayShow, ReadsFresh, Edition, Overlooked
<1>5. shown' \in [ edition : Nat, at : Nat, validated : Validations, copy : Copies ]
  BY <1>1, <1>2 DEF MayShow
<1> QED BY <1>3, <1>4, <1>5

\* The answer to a call.
LEMMA AnswerTrue ==
  ASSUME FreshnessInv, Answered
  PROVE  /\ Resp \in Responses(messageNum, now)
         /\ IsTrue(Resp)
         /\ Resp.num = call.num /\ Waits
         /\ since <= Resp.served /\ Resp.served \in Nat /\ Resp.served <= now
         /\ Resp.edition \in 0 .. Edition
<1>1. socket \in Seq(Responses(messageNum, now)) /\ socket # <<>>
      /\ \A i \in DOMAIN socket : IsTrue(socket[i])
  BY DEF FreshnessInv, ResponsesTrue, Answered
<1>2. Resp = socket[1] /\ 1 \in DOMAIN socket
  BY <1>1 DEF Resp
<1>3. Resp \in Responses(messageNum, now) /\ IsTrue(Resp)
  BY <1>1, <1>2
<1>4. Waits /\ Resp.num = call.num
  BY DEF Answered, IsAnswer, Resp
<1>5. Resp.served \in Nat /\ Resp.served <= now
  BY <1>3 DEF Responses, FreshnessInv, SenderTypeOK
<1> QED BY <1>3, <1>4, <1>5 DEF IsTrue, Current

\* A copy that is stored was the file, and is as fresh as its call.
LEMMA StoredCopyFresh ==
  ASSUME FreshnessInv, StoreCopy
  PROVE  /\ CopyWasFile' /\ EntryValid'
         /\ MayShow(Resp.edition, validated', copy')
         /\ copy' \in Copies /\ lastValidation' \in Nat /\ validated' \in Validations
<1>1. Answered /\ Resp.edition > 0
      /\ UNCHANGED <<now, t, edits, messageMap, curTime, reads>>
      /\ copy' = [ edition |-> Resp.edition, served |-> Resp.served, written |-> now ]
      /\ lastValidation' = Seconds(now)
      /\ validated' = [ served |-> Resp.served, at |-> now ]
  BY DEF StoreCopy, Receive
<1>2. /\ now \in Nat /\ t \in Nat /\ Edition \in Nat
      /\ Resp.served \in Nat /\ Resp.served <= now
      /\ Resp.edition \in 0 .. Edition /\ Current(Resp.edition, Resp.served)
  BY <1>1, AnswerTrue DEF FreshnessInv, SenderTypeOK, CacheTypeOK, IsTrue, EditsOrdered, Edition
<1>3. copy' \in Copies /\ lastValidation' \in Nat /\ validated' \in Validations
  BY <1>1, <1>2 DEF Copies, Validations, Seconds
<1>4. CopyWasFile'
  BY <1>1, <1>2 DEF CopyWasFile, Current, Edition
<1>5. Resp.edition < Edition => Resp.served <= edits[Resp.edition + 1] /\ edits[Resp.edition + 1] \in Nat
  BY <1>2 DEF Current, FreshnessInv, EditsOrdered, Edition
<1>6. EntryValid'
  BY <1>1, <1>2, <1>5 DEF EntryValid, Edition
<1>7. MayShow(Resp.edition, validated', copy')
  BY <1>1, <1>2, <1>3, <1>5 DEF MayShow
<1> QED BY <1>3, <1>4, <1>6, <1>7

\* A copy that is found unmodified is as fresh as the call, or was overlooked.
LEMMA UnmodifiedFresh ==
  ASSUME FreshnessInv, Answered, Resp.edition > 0, lastValidation # NoEntry,
         ~IsModified(Seconds(copy.written), Resp.modified)
  PROVE  copy.edition < Edition =>
           LET superseded == edits[copy.edition + 1] IN
           Resp.served <= superseded \/ Overlooked(copy, superseded)
<1> SUFFICES ASSUME copy.edition < Edition, ~(Resp.served <= edits[copy.edition + 1])
             PROVE  Overlooked(copy, edits[copy.edition + 1])
  OBVIOUS
<1> DEFINE superseded == edits[copy.edition + 1]
<1>1. /\ now \in Nat /\ Edition \in Nat /\ copy.edition \in Nat /\ copy.edition > 0
      /\ copy.served \in Nat /\ copy.written \in Nat
      /\ Current(copy.edition, copy.served)
      /\ \A i \in 1 .. Edition : edits[i] \in Nat
      /\ \A i, j \in 1 .. Edition : i < j => edits[i] <= edits[j]
  <2>1. now \in Nat /\ copy.edition \in Nat /\ copy.edition > 0
        /\ copy.served \in Nat /\ copy.written \in Nat
        /\ Current(copy.edition, copy.served)
    BY DEF FreshnessInv, SenderTypeOK, CacheTypeOK, Copies, CopyWasFile, EntryValid
  <2>2. edits \in Seq(0 .. now) /\ \A i, j \in DOMAIN edits : i < j => edits[i] <= edits[j]
    BY DEF FreshnessInv, EditsOrdered
  <2>3. Edition \in Nat /\ \A i \in 1 .. Edition : edits[i] \in 0 .. now
    BY <2>1, <2>2 DEF Edition
  <2> QED BY <2>1, <2>2, <2>3, SMTT(40) DEF Edition
<1>2. /\ Resp.served \in Nat /\ Resp.edition \in 1 .. Edition
      /\ Resp.edition < Edition => Resp.served <= edits[Resp.edition + 1]
      /\ Resp.modified = Seconds(edits[Resp.edition])
  BY <1>1, AnswerTrue DEF IsTrue, Current
<1>3. copy.edition + 1 \in 1 .. Edition /\ superseded \in Nat
  BY <1>1
<1>4. copy.edition + 1 <= Resp.edition
  <2> SUFFICES ASSUME Resp.edition + 1 <= copy.edition + 1 PROVE FALSE
    BY <1>1, <1>2
  <2>1. Resp.edition + 1 \in 1 .. Edition /\ Resp.served <= edits[Resp.edition + 1]
    BY <1>1, <1>2
  <2>2. edits[Resp.edition + 1] <= superseded
    BY <1>1, <1>2, <1>3, <2>1
  <2> QED BY <1>1, <1>2, <1>3, <2>1, <2>2
<1>5. superseded <= edits[Resp.edition]
  BY <1>1, <1>2, <1>3, <1>4
<1>6. Seconds(superseded) <= Resp.modified
  BY <1>1, <1>2, <1>3, <1>5, SecondsOrdered
<1>7. Resp.modified <= Seconds(copy.written)
  BY <1>1, <1>2 DEF IsModified, Seconds
<1>8. Seconds(superseded) <= Seconds(copy.written)
  BY <1>1, <1>2, <1>3, <1>6, <1>7 DEF Seconds
<1>9. copy.served <= superseded
  BY <1>1 DEF Current
<1> QED BY <1>8, <1>9 DEF Overlooked

-----------------------------------------------------------------------------
(* The steps.                                                               *)

\* The invariant holds at the start.
LEMMA InitInv ==
  ASSUME Init
  PROVE  FreshnessInv
<1>1. Edition \in {0, 1} /\ edits \in Seq(0 .. 0) /\ edits \in {<<>>, <<0>>}
  <2>1. CASE edits = <<>>
    BY <2>1 DEF Edition
  <2>2. CASE edits = <<0>>
    <3>1. Len(<<0>>) = 1 /\ <<0>> \in Seq(0 .. 0)
      OBVIOUS
    <3> QED BY <2>2, <3>1 DEF Edition
  <2> QED BY <2>1, <2>2 DEF Init
<1>2. SenderTypeOK /\ WaitBounded
  BY DEF Init, SenderInit, SenderTypeOK, WaitBounded, Waits, Prompt
<1>3. CacheTypeOK
  BY DEF Init, CacheTypeOK, Copies, Validations, NoEntry
<1>4. EditsOrdered
  BY <1>1 DEF Init, SenderInit, EditsOrdered
<1>5. ResponsesTrue
  <2>1. socket = <<>> /\ messageMap = {}
    BY DEF Init, SenderInit
  <2>2. socket \in Seq(Responses(messageNum, now)) /\ DOMAIN socket = {}
    BY <2>1
  <2> QED BY <2>1, <2>2 DEF ResponsesTrue
<1>6. CopyWasFile /\ EntryValid /\ EntriesValidated
  BY DEF Init, SenderInit, CopyWasFile, EntryValid, EntriesValidated, Waits
<1>7. ShownPast /\ ReadsFresh
  <2>1. /\ shown.edition = 0 /\ shown.at = 0 /\ now = 0
        /\ shown.validated.served = 0 /\ shown.validated.at = 0
    BY DEF Init, SenderInit
  <2>2. edits # <<>> => edits[1] = 0
    BY <1>1
  <2>3. edits = <<>> => Edition = 0
    BY DEF Edition
  <2>4. t \in Nat
    BY DEF Init
  <2> QED BY <1>1, <2>1, <2>2, <2>3, <2>4 DEF ShownPast, ReadsFresh
<1> QED BY <1>2, <1>3, <1>4, <1>5, <1>6, <1>7 DEF FreshnessInv

\* What the steps of the client that make or end a call have in common.
LEMMA CallEnds ==
  ASSUME FreshnessInv, UNCHANGED <<now, edits, messageMap>>,
         NEW left, left = socket \/ (socket # <<>> /\ left = Tail(socket)),
         Return(left) \/ \E type \in {"Fresh", "Dump"} : SendMessage(type, left)
  PROVE  SenderTypeOK' /\ WaitBounded' /\ EditsOrdered' /\ ResponsesTrue'
<1>1. SenderTypeOK' /\ WaitBounded'
  BY SendMessageWaits, ReturnWaitsNot DEF FreshnessInv
<1>2. EditsGrow /\ TimeGrows /\ now \in Nat
  BY DEF EditsGrow, TimeGrows, FreshnessInv, SenderTypeOK
<1>3. CallMovesOn /\ socket' = left
  <2>1. messageNum \in Nat
    BY DEF FreshnessInv, SenderTypeOK
  <2>2. CASE Return(left)
    BY <2>1, <2>2 DEF CallMovesOn, Return, Waits
  <2>3. ASSUME NEW type \in {"Fresh", "Dump"}, SendMessage(type, left)
        PROVE  CallMovesOn /\ socket' = left
    BY <2>1, <2>3 DEF CallMovesOn, SendMessage
  <2> QED BY <2>2, <2>3
<1>4. EditsOrdered' /\ ResponsesTrue'
  BY <1>2, <1>3, EditsOrderKept, ResponsesTaken DEF FreshnessInv
<1> QED BY <1>1, <1>4

\* The steps of the client that neither ask nor show anything.
LEMMA SendingInv ==
  ASSUME FreshnessInv, InSendMessage \/ TimePasses
  PROVE  FreshnessInv'
<1>1. UNCHANGED cacheVars
  BY DEF InSendMessage, TimePasses
<1>2. SenderTypeOK' /\ WaitBounded'
  BY WaitingBounded DEF InSendMessage, TimePasses, FreshnessInv
<1>3. now \in Nat /\ messageNum \in Nat /\ EditsGrow /\ TimeGrows
  BY <1>1, <1>2 DEF InSendMessage, TimePasses, cacheVars, EditsGrow, TimeGrows, FreshnessInv,
     SenderTypeOK, DiscardImproper, Retransmit, GiveUp, Tick
<1>4. CallMovesOn
  <2>1. CASE GiveUp
    BY <1>3, <2>1 DEF GiveUp, CallMovesOn, Waits
  <2>2. CASE DiscardImproper \/ Retransmit \/ Tick
    BY <1>3, <2>2 DEF DiscardImproper, Retransmit, Tick, CallMovesOn, Waits, TimeIsUp
  <2> QED BY <2>1, <2>2 DEF InSendMessage, TimePasses
<1>5. socket' = socket \/ socket' = <<>> \/ (socket # <<>> /\ socket' = Tail(socket))
  BY DEF InSendMessage, TimePasses, DiscardImproper, Retransmit, GiveUp, Tick
<1>6. EditsOrdered' /\ ResponsesTrue'
  BY <1>1, <1>3, <1>4, <1>5, EditsOrderKept, ResponsesTaken DEF FreshnessInv, cacheVars
<1>7. CopyWasFile' /\ EntryValid' /\ ShownPast' /\ ReadsFresh'
  BY <1>1, <1>3, CacheKept DEF cacheVars
<1>8. CacheTypeOK'
  BY <1>1 DEF cacheVars, FreshnessInv, CacheTypeOK
<1>9. EntriesValidated'
  BY <1>1 DEF InSendMessage, TimePasses, cacheVars, FreshnessInv, EntriesValidated, Waits,
     DiscardImproper, Retransmit, GiveUp, Tick
<1> QED BY <1>2, <1>6, <1>7, <1>8, <1>9 DEF FreshnessInv

\* An edit of the file.
LEMMA EditFileInv ==
  ASSUME FreshnessInv, EditFile
  PROVE  FreshnessInv'
<1>1. EditsGrow /\ TimeGrows /\ now \in Nat
      /\ UNCHANGED <<senderVars, t, messageMap, copy, lastValidation, curTime, validated, shown, reads>>
  BY DEF EditFile, EditsGrow, TimeGrows, senderVars, FreshnessInv, SenderTypeOK
<1>2. SenderTypeOK' /\ WaitBounded' /\ CacheTypeOK'
  BY <1>1 DEF FreshnessInv, senderVars, SenderTypeOK, WaitBounded, CacheTypeOK, Waits
<1>3. CallMovesOn
  BY <1>1 DEF CallMovesOn, senderVars, Waits, FreshnessInv, SenderTypeOK
<1>4. EditsOrdered' /\ ResponsesTrue'
  BY <1>1, <1>3, EditsOrderKept, ResponsesTaken DEF FreshnessInv, senderVars
<1>5. CopyWasFile' /\ EntryValid' /\ ShownPast' /\ ReadsFresh'
  BY <1>1, CacheKept
<1>6. EntriesValidated'
  BY <1>1 DEF FreshnessInv, senderVars, EntriesValidated, Waits
<1> QED BY <1>2, <1>4, <1>5, <1>6 DEF FreshnessInv

\* The server takes a call: executed or answered from the map, its response is true.
LEMMA ServeInv ==
  ASSUME FreshnessInv, Serve
  PROVE  FreshnessInv'
<1>1. EditsGrow /\ TimeGrows /\ now \in Nat
      /\ UNCHANGED <<now, call, messageNum, tries, deadline, since, improper>>
      /\ UNCHANGED <<t, edits, copy, lastValidation, curTime, validated, shown, reads>>
  BY DEF Serve, EditsGrow, TimeGrows, FreshnessInv, SenderTypeOK
<1>2. SenderTypeOK'
  <2>1. requests \in Seq(Requests(messageNum)) /\ requests # <<>> /\ requests' = Tail(requests)
    BY DEF FreshnessInv, SenderTypeOK, Serve
  <2>2. requests' \in Seq(Requests(messageNum'))
    BY <1>1, <2>1, TakenFrom
  <2> QED BY <1>1, <2>2 DEF FreshnessInv, SenderTypeOK, Waits
<1>3. WaitBounded' /\ CacheTypeOK'
  BY <1>1 DEF FreshnessInv, WaitBounded, CacheTypeOK, Waits
<1>4. EditsOrdered' /\ ResponsesTrue'
  BY <1>1, EditsOrderKept, ServeResponses DEF FreshnessInv
<1>5. CopyWasFile' /\ EntryValid' /\ ShownPast' /\ ReadsFresh'
  BY <1>1, CacheKept
<1>6. EntriesValidated'
  BY <1>1 DEF FreshnessInv, EntriesValidated, Waits
<1> QED BY <1>2, <1>3, <1>4, <1>5, <1>6 DEF FreshnessInv

\* A copy that has not changed is as current as it was.
LEMMA ReadLocallyInv ==
  ASSUME FreshnessInv, ReadLocally
  PROVE  FreshnessInv'
<1>1. /\ UNCHANGED <<senderVars, t, edits, messageMap, copy, lastValidation, validated>>
      /\ Show(copy.edition, validated, copy)
      /\ reads' = reads + 1 /\ curTime' = Seconds(now)
      /\ lastValidation # NoEntry /\ Seconds(now) - lastValidation < t
  BY DEF ReadLocally, StartRead, IsFresh
<1>2. /\ EditsGrow /\ TimeGrows /\ CallMovesOn
      /\ now \in Nat /\ t \in Nat /\ Edition \in Nat
  <2>1. EditsGrow /\ TimeGrows /\ now \in Nat /\ t \in Nat
    BY <1>1 DEF senderVars, EditsGrow, TimeGrows, FreshnessInv, SenderTypeOK, CacheTypeOK
  <2>2. CallMovesOn
    BY <1>1 DEF CallMovesOn, senderVars, Waits, FreshnessInv, SenderTypeOK
  <2> QED BY <2>1, <2>2, EditionsKept DEF FreshnessInv
<1>3. MayShow(copy.edition, validated, copy)
  <2>1. /\ copy \in Copies /\ validated \in Validations
        /\ validated.served <= validated.at /\ validated.at <= now
        /\ copy.edition \in 0 .. Edition /\ copy.edition > 0
    BY <1>1 DEF FreshnessInv, CacheTypeOK, EntryValid, CopyWasFile, Current
  <2>2. validated.at \in Nat /\ validated.served \in Nat
    BY <2>1 DEF Validations
  <2>3. now - validated.at < 2 * t
    BY <1>1, <1>2, <2>2, SecondsApart DEF FreshnessInv, EntryValid
  <2>4. copy.edition < Edition => edits[copy.edition + 1] \in Nat
    <3>1. edits \in Seq(0 .. now)
      BY DEF FreshnessInv, EditsOrdered
    <3> QED BY <1>2, <2>1, <3>1 DEF Edition
  <2>5. copy.edition < Edition =>
          \/ now - edits[copy.edition + 1] <= 2 * t + (validated.at - validated.served)
          \/ Overlooked(copy, edits[copy.edition + 1])
    <3>1. copy.edition < Edition =>
            \/ validated.served <= edits[copy.edition + 1]
            \/ Overlooked(copy, edits[copy.edition + 1])
      BY <1>1 DEF FreshnessInv, EntryValid
    <3> QED BY <1>2, <2>2, <2>3, <2>4, <3>1
  <2> QED BY <2>1, <2>5 DEF MayShow
<1>4. /\ ShownPast' /\ ReadsFresh'
      /\ shown' \in [ edition : Nat, at : Nat, validated : Validations, copy : Copies ]
  <2>1. PICK e, v, f : e = copy.edition /\ v = validated /\ f = copy
    OBVIOUS
  <2> QED BY <1>1, <1>2, <1>3, <2>1, ShowFresh DEF senderVars
<1>5. SenderTypeOK' /\ WaitBounded'
  BY <1>1 DEF FreshnessInv, senderVars, SenderTypeOK, WaitBounded, Waits
<1>6. CacheTypeOK'
  BY <1>1, <1>2, <1>4 DEF FreshnessInv, CacheTypeOK, Seconds
<1>7. EditsOrdered' /\ ResponsesTrue'
  BY <1>1, <1>2, EditsOrderKept, ResponsesTaken DEF FreshnessInv, senderVars
<1>8. CopyWasFile' /\ EntryValid'
  BY <1>1 DEF senderVars, FreshnessInv, CopyWasFile, EntryValid, Current, Edition, Overlooked
<1>9. EntriesValidated'
  BY <1>1 DEF FreshnessInv, senderVars, EntriesValidated, Waits
<1> QED BY <1>4, <1>5, <1>6, <1>7, <1>8, <1>9 DEF FreshnessInv

\* A call that is made while nothing else changes but the count of reads.
LEMMA AskInv ==
  ASSUME FreshnessInv,
         NEW left, left = socket \/ (socket # <<>> /\ left = Tail(socket)),
         NEW type \in {"Fresh", "Dump"}, SendMessage(type, left),
         type = "Fresh" => lastValidation # NoEntry,
         UNCHANGED <<now, t, edits, messageMap, copy, lastValidation, validated, shown>>,
         CacheTypeOK'
  PROVE  FreshnessInv'
<1>1. SenderTypeOK' /\ WaitBounded' /\ EditsOrdered' /\ ResponsesTrue'
  BY CallEnds
<1>2. EditsGrow /\ TimeGrows
  BY DEF EditsGrow, TimeGrows, FreshnessInv, SenderTypeOK
<1>3. CopyWasFile' /\ EntryValid' /\ ShownPast' /\ ReadsFresh'
  BY <1>2, CacheKept
<1>4. EntriesValidated'
  BY DEF SendMessage, EntriesValidated
<1> QED BY <1>1, <1>3, <1>4 DEF FreshnessInv

\* The first call of a read.
LEMMA StartAskInv ==
  ASSUME FreshnessInv, AskForFile \/ AskWhetherFresh
  PROVE  FreshnessInv'
<1>1. /\ UNCHANGED <<now, t, edits, messageMap, copy, lastValidation, validated, shown>>
      /\ reads' = reads + 1 /\ curTime' = Seconds(now)
      /\ \E type \in {"Fresh", "Dump"} :
           SendMessage(type, socket) /\ (type = "Fresh" => lastValidation # NoEntry)
  BY DEF AskForFile, AskWhetherFresh, StartRead
<1>2. now \in Nat
  BY DEF FreshnessInv, SenderTypeOK
<1>3. CacheTypeOK'
  BY <1>1, <1>2 DEF FreshnessInv, CacheTypeOK, Seconds
<1> QED BY <1>1, <1>3, AskInv

\* What the answers have in common.
LEMMA ReceiveFacts ==
  ASSUME FreshnessInv, NEW types, Receive(types)
  PROVE  /\ UNCHANGED <<now, t, edits, messageMap, curTime, reads>>
         /\ now \in Nat /\ t \in Nat /\ Edition \in Nat
         /\ edits \in Seq(0 .. now) /\ socket # <<>>
         /\ Resp.served \in Nat /\ Resp.served <= now
         /\ Resp.edition \in 0 .. Edition /\ Current(Resp.edition, Resp.served)
<1>1. Answered /\ UNCHANGED <<now, t, edits, messageMap, curTime, reads>>
  BY DEF Receive
<1> QED BY <1>1, AnswerTrue DEF FreshnessInv, SenderTypeOK, CacheTypeOK, IsTrue, EditsOrdered, Edition, Answered

\* There was no file when the call was executed.
LEMMA ReceiveNoFileInv ==
  ASSUME FreshnessInv, ReceiveNoFile
  PROVE  FreshnessInv'
<1> DEFINE validation == [ served |-> Resp.served, at |-> now ]
<1>1. /\ UNCHANGED <<now, t, edits, messageMap, curTime, reads>>
      /\ now \in Nat /\ t \in Nat /\ Edition \in Nat
      /\ edits \in Seq(0 .. now) /\ socket # <<>>
      /\ Resp.served \in Nat /\ Resp.served <= now
      /\ Current(Resp.edition, Resp.served)
  BY ReceiveFacts DEF ReceiveNoFile
<1>2. /\ Resp.edition = 0 /\ Return(Tail(socket)) /\ Show(0, validation, copy)
      /\ UNCHANGED <<copy, lastValidation, validated>>
  BY DEF ReceiveNoFile
<1>3. SenderTypeOK' /\ WaitBounded' /\ EditsOrdered' /\ ResponsesTrue'
  BY <1>1, <1>2, CallEnds
<1>4. MayShow(0, validation, copy)
  <2>1. validation \in Validations /\ copy \in Copies
    BY <1>1 DEF Validations, FreshnessInv, CacheTypeOK
  <2>2. 0 < Edition => Resp.served <= edits[1] /\ edits[1] \in Nat
    BY <1>1, <1>2 DEF Current, Edition
  <2>3. validation.served = Resp.served /\ validation.at = now
    OBVIOUS
  <2>4. 0 < Edition => now - edits[1] <= 2 * t + (validation.at - validation.served)
    BY <1>1, <2>2, <2>3
  <2> HIDE DEF validation
  <2> QED BY <1>1, <2>1, <2>3, <2>4 DEF MayShow
<1>5. /\ ShownPast' /\ ReadsFresh'
      /\ shown' \in [ edition : Nat, at : Nat, validated : Validations, copy : Copies ]
  <2>1. PICK v, f : v = validation /\ f = copy
    OBVIOUS
  <2> QED BY <1>1, <1>2, <1>4, <2>1, ShowFresh
<1>6. CacheTypeOK'
  BY <1>1, <1>2, <1>5 DEF FreshnessInv, CacheTypeOK
<1>7. CopyWasFile' /\ EntryValid' /\ EntriesValidated'
  BY <1>1, <1>2 DEF FreshnessInv, CopyWasFile, EntryValid, EntriesValidated, Current, Edition,
     Overlooked, Return, Waits
<1> QED BY <1>3, <1>5, <1>6, <1>7 DEF FreshnessInv

\* A copy that has come is shown.
LEMMA ReceiveFileInv ==
  ASSUME FreshnessInv, ReceiveFile
  PROVE  FreshnessInv'
<1>1. /\ UNCHANGED <<now, t, edits, messageMap, curTime, reads>>
      /\ now \in Nat /\ t \in Nat /\ Edition \in Nat /\ socket # <<>>
  BY ReceiveFacts DEF ReceiveFile, StoreCopy
<1>2. /\ CopyWasFile' /\ EntryValid'
      /\ MayShow(Resp.edition, validated', copy')
      /\ copy' \in Copies /\ lastValidation' \in Nat /\ validated' \in Validations
  BY StoredCopyFresh DEF ReceiveFile
<1>3. Return(Tail(socket)) /\ Show(Resp.edition, validated', copy')
  BY DEF ReceiveFile
<1>4. SenderTypeOK' /\ WaitBounded' /\ EditsOrdered' /\ ResponsesTrue'
  BY <1>1, <1>3, CallEnds
<1>5. /\ ShownPast' /\ ReadsFresh'
      /\ shown' \in [ edition : Nat, at : Nat, validated : Validations, copy : Copies ]
  <2>1. PICK e, v, f : e = Resp.edition /\ v = validated' /\ f = copy'
    OBVIOUS
  <2>2. MayShow(e, v, f) /\ Show(e, v, f)
    BY <1>2, <1>3, <2>1
  <2> QED BY <1>1, <2>2, ShowFresh
<1>6. CacheTypeOK'
  BY <1>1, <1>2, <1>5 DEF FreshnessInv, CacheTypeOK
<1>7. EntriesValidated'
  BY <1>3 DEF Return, EntriesValidated, Waits
<1> QED BY <1>2, <1>4, <1>5, <1>6, <1>7 DEF FreshnessInv

\* A copy that has come is validated at once.
LEMMA ReceiveFileAndAskInv ==
  ASSUME FreshnessInv, ReceiveFileAndAsk
  PROVE  FreshnessInv'
<1>1. /\ UNCHANGED <<now, t, edits, messageMap, curTime, reads, shown>>
      /\ now \in Nat /\ t \in Nat /\ Edition \in Nat /\ socket # <<>>
  BY ReceiveFacts DEF ReceiveFileAndAsk, StoreCopy
<1>2. /\ CopyWasFile' /\ EntryValid'
      /\ copy' \in Copies /\ lastValidation' \in Nat /\ validated' \in Validations
  BY StoredCopyFresh DEF ReceiveFileAndAsk
<1>3. \E type \in {"Fresh", "Dump"} : SendMessage(type, Tail(socket))
  BY DEF ReceiveFileAndAsk
<1>4. SenderTypeOK' /\ WaitBounded' /\ EditsOrdered' /\ ResponsesTrue'
  BY <1>1, <1>3, CallEnds
<1>5. ShownPast' /\ ReadsFresh'
  BY <1>1 DEF FreshnessInv, ShownPast, ReadsFresh, Edition, Overlooked
<1>6. CacheTypeOK'
  BY <1>1, <1>2 DEF FreshnessInv, CacheTypeOK
<1>7. EntriesValidated'
  BY <1>2 DEF EntriesValidated, NoEntry
<1> QED BY <1>2, <1>4, <1>5, <1>6, <1>7 DEF FreshnessInv

\* A copy that the server has modified is asked for.
LEMMA ReceiveModifiedInv ==
  ASSUME FreshnessInv, ReceiveModified
  PROVE  FreshnessInv'
<1>1. /\ UNCHANGED <<now, t, edits, messageMap, curTime, reads>>
      /\ UNCHANGED <<copy, lastValidation, validated, shown>>
      /\ socket # <<>>
      /\ SendMessage("Dump", Tail(socket))
  BY ReceiveFacts DEF ReceiveModified
<1>2. CacheTypeOK'
  BY <1>1 DEF FreshnessInv, CacheTypeOK
<1> QED BY <1>1, <1>2, AskInv

\* A copy that the server has not modified is as fresh as the call.
LEMMA ReceiveUnmodifiedInv ==
  ASSUME FreshnessInv, ReceiveUnmodified
  PROVE  FreshnessInv'
<1>1. /\ Answered /\ Resp.edition > 0
      /\ ~IsModified(Seconds(copy.written), Resp.modified)
      /\ lastValidation' = Seconds(now)
      /\ validated' = [ served |-> Resp.served, at |-> now ]
      /\ Return(Tail(socket)) /\ Show(copy.edition, validated', copy)
      /\ UNCHANGED copy /\ lastValidation # NoEntry
  <2>1. Answered /\ call.type = "Fresh"
    BY DEF ReceiveUnmodified, Receive
  <2>2. lastValidation # NoEntry
    BY <2>1 DEF Answered, FreshnessInv, EntriesValidated
  <2> QED BY <2>1, <2>2 DEF ReceiveUnmodified
<1>2. /\ UNCHANGED <<now, t, edits, messageMap, curTime, reads>>
      /\ now \in Nat /\ t \in Nat /\ Edition \in Nat
      /\ edits \in Seq(0 .. now) /\ socket # <<>>
      /\ Resp.served \in Nat /\ Resp.served <= now
  BY ReceiveFacts DEF ReceiveUnmodified
<1>3. copy.edition < Edition =>
        \/ Resp.served <= edits[copy.edition + 1]
        \/ Overlooked(copy, edits[copy.edition + 1])
  BY <1>1, UnmodifiedFresh
<1>4. /\ copy \in Copies /\ copy.edition \in 1 .. Edition
      /\ validated' \in Validations /\ lastValidation' \in Nat
  <2>1. copy \in Copies /\ copy.edition > 0 /\ copy.edition \in 0 .. Edition
    BY <1>1 DEF FreshnessInv, CacheTypeOK, EntryValid, CopyWasFile, Current
  <2> QED BY <1>1, <1>2, <2>1 DEF Validations, Seconds
<1>5. SenderTypeOK' /\ WaitBounded' /\ EditsOrdered' /\ ResponsesTrue'
  BY <1>1, <1>2, CallEnds
<1>6. EntryValid' /\ EntriesValidated' /\ CopyWasFile'
  <2>1. EntryValid' /\ EntriesValidated'
    <3>1. copy'.edition < Edition' =>
            \/ validated'.served <= edits'[copy'.edition + 1]
            \/ Overlooked(copy', edits'[copy'.edition + 1])
      BY <1>1, <1>2, <1>3 DEF Edition
    <3> QED BY <1>1, <1>2, <1>4, <3>1 DEF EntryValid, EntriesValidated, Return, Waits, Overlooked
  <2>2. CopyWasFile'
    BY <1>1, <1>2 DEF FreshnessInv, CopyWasFile, Current, Edition
  <2> QED BY <2>1, <2>2
<1>7. MayShow(copy.edition, validated', copy)
  <2>1. copy.edition < Edition => edits[copy.edition + 1] \in Nat
    BY <1>2, <1>4 DEF Edition
  <2>2. copy.edition < Edition =>
          \/ now - edits[copy.edition + 1] <= 2 * t + (validated'.at - validated'.served)
          \/ Overlooked(copy, edits[copy.edition + 1])
    BY <1>1, <1>2, <1>3, <2>1
  <2>3. validated'.served <= validated'.at
    BY <1>1, <1>2
  <2> QED BY <1>2, <1>4, <2>2, <2>3 DEF MayShow
<1>8. /\ ShownPast' /\ ReadsFresh'
      /\ shown' \in [ edition : Nat, at : Nat, validated : Validations, copy : Copies ]
  <2>1. PICK e, v, f : e = copy.edition /\ v = validated' /\ f = copy
    OBVIOUS
  <2>2. MayShow(e, v, f) /\ Show(e, v, f)
    BY <1>1, <1>7, <2>1
  <2> QED BY <1>2, <2>2, ShowFresh
<1>9. CacheTypeOK'
  BY <1>1, <1>2, <1>4, <1>8 DEF FreshnessInv, CacheTypeOK
<1> QED BY <1>5, <1>6, <1>8, <1>9 DEF FreshnessInv

\* Every step keeps the invariant.
LEMMA StepInv ==
  ASSUME FreshnessInv, [Next]_vars
  PROVE  FreshnessInv'
<1>1. CASE UNCHANGED vars
  BY <1>1 DEF vars, senderVars, cacheVars, FreshnessInv, SenderTypeOK, CacheTypeOK, WaitBounded,
     EditsOrdered, ResponsesTrue, IsTrue, Current, CopyWasFile, EntryValid, EntriesValidated,
     ShownPast, ReadsFresh, Waits, Edition, Overlooked
<1>2. CASE Next
  BY <1>2, EditFileInv, ServeInv, ReadLocallyInv, StartAskInv, ReceiveNoFileInv, ReceiveFileInv,
     ReceiveFileAndAskInv, ReceiveUnmodifiedInv, ReceiveModifiedInv, SendingInv DEF Next
<1> QED BY <1>1, <1>2

\* The inductive invariant holds of every behaviour of the client and the server.
THEOREM FreshnessInvariant == Spec => []FreshnessInv
<1>1. Init => FreshnessInv
  BY InitInv
<1>2. FreshnessInv /\ [Next]_vars => FreshnessInv'
  BY StepInv
<1> QED BY <1>1, <1>2, PTL DEF Spec

\* What a read shows (cache.cpp, readFile after updateCache) is no older than the
\* interval and the validating call, or was superseded while it was fetched,
\* whatever the interval, the timeout and the number of tries.
THEOREM ReadsAreFresh == Spec => []ReadsFresh
<1>1. FreshnessInv => ReadsFresh
  BY DEF FreshnessInv
<1> QED BY <1>1, FreshnessInvariant, PTL

\* sendMessage gives up no sooner than it has waited for each transmission, and
\* no later by more than half a second for each improper packet.
THEOREM GivesUpInTimeHolds == Spec => GivesUpInTime
<1>1. FreshnessInv /\ [Next]_vars =>
        [ call' = Ended /\ call # Ended =>
            LET waited == 2 * TIMEOUT_DURATION * NUM_TIMEOUTS IN
            waited <= now - since /\ now - since <= waited + improper ]_vars
  <2> SUFFICES ASSUME FreshnessInv, Next, call' = Ended, call # Ended
               PROVE  /\ 2 * TIMEOUT_DURATION * NUM_TIMEOUTS <= now - since
                      /\ now - since <= 2 * TIMEOUT_DURATION * NUM_TIMEOUTS + improper
    BY DEF vars, senderVars
  <2>1. GiveUp
    <3>1. messageNum \in Nat
      BY DEF FreshnessInv, SenderTypeOK
    <3>2. ASSUME NEW type, NEW left, SendMessage(type, left) PROVE FALSE
      BY <3>1, <3>2 DEF SendMessage, Ended
    <3>3. ASSUME NEW left, Return(left) PROVE FALSE
      BY <3>3 DEF Return, Ended, Prompt
    <3> QED BY <3>2, <3>3 DEF Next, EditFile, Serve, ReadLocally, AskForFile, AskWhetherFresh,
          ReceiveNoFile, ReceiveFile, ReceiveFileAndAsk, ReceiveUnmodified, ReceiveModified,
          InSendMessage, DiscardImproper, Retransmit, TimePasses, Tick, senderVars
  <2>2. Waits /\ now = deadline /\ tries = NUM_TIMEOUTS
    BY <2>1 DEF GiveUp, TimeIsUp
  <2>3. /\ since + 2 * TIMEOUT_DURATION * NUM_TIMEOUTS <= now
        /\ now <= since + 2 * TIMEOUT_DURATION * NUM_TIMEOUTS + improper
    BY <2>2 DEF FreshnessInv, WaitBounded
  <2>4. 2 * TIMEOUT_DURATION * NUM_TIMEOUTS \in Nat /\ now \in Nat /\ since \in Nat /\ improper \in Nat
    BY DEF FreshnessInv, SenderTypeOK
  <2> QED BY <2>3, <2>4
<1> QED BY <1>1, FreshnessInvariant, PTL DEF Spec, GivesUpInTime

\* The answer that validates a copy was executed for the call that it answers,
\* and the call has lasted no longer than its transmissions.
THEOREM ValidatedByThisCallHolds == Spec => ValidatedByThisCall
<1>1. FreshnessInv /\ [Next]_vars =>
        [ validated' # validated =>
            /\ since <= validated'.served
            /\ now - since <= 2 * TIMEOUT_DURATION * tries + improper ]_vars
  <2> SUFFICES ASSUME FreshnessInv, Next, validated' # validated
               PROVE  /\ since <= validated'.served
                      /\ now - since <= 2 * TIMEOUT_DURATION * tries + improper
    BY DEF vars, cacheVars
  <2>1. Answered /\ validated' = [ served |-> Resp.served, at |-> now ]
    BY DEF Next, EditFile, Serve, ReadLocally, AskForFile, AskWhetherFresh, ReceiveNoFile,
       ReceiveFile, ReceiveFileAndAsk, ReceiveUnmodified, ReceiveModified, InSendMessage,
       TimePasses, cacheVars, StoreCopy, Receive
  <2>2. since <= Resp.served /\ Waits
    BY <2>1, AnswerTrue
  <2>3. now <= deadline /\ deadline <= since + 2 * TIMEOUT_DURATION * tries + improper
    BY <2>2 DEF FreshnessInv, WaitBounded
  <2>4. 2 * TIMEOUT_DURATION * tries \in Nat /\ now \in Nat /\ since \in Nat /\ improper \in Nat
        /\ deadline \in Nat
    BY DEF FreshnessInv, SenderTypeOK
  <2> QED BY <2>1, <2>2, <2>3, <2>4
<1> QED BY <1>1, FreshnessInvariant, PTL DEF Spec, ValidatedByThisCall
=============================================================================
