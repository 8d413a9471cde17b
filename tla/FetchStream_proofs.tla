------------------------- MODULE FetchStream_proofs -------------------------
(***************************************************************************)
(* The buffers of FetchStream are one pipe, for bodies, chunks and buffers *)
(* of any size: whatever order chunks, reads, errors and the end come in,  *)
(* what the callback has, what node holds and what FetchStream holds are,  *)
(* one after the other, the bytes that arrived up to the maximum.          *)
(***************************************************************************)
EXTENDS FetchStream, SequenceTheorems, TLAPS

Bytes(n) == [k \in 1..n |-> k]

Before == {"deferred", "resolving", "requested"}

RequestT ==
  [state : Before \cup {"receiving", "cut", "over"},
   body : BodyLengths \cup {0}, sent : Nat, gzip : BOOLEAN]

StreamT ==
  [redirectCount : Nat, responseBuffer : Seq(Nat), curlen : Nat,
   readyToRead : {0, HighWaterMark}, ended : BOOLEAN]

ReadableT ==
  [buffer : Seq(Nat), reading : BOOLEAN, eof : BOOLEAN, ended : BOOLEAN]

ResultT == [chunks : Seq(Nat), callback : {"none", "error", "body"}]

Typed ==
  /\ options \in Options
  /\ request \in RequestT /\ request.sent <= request.body
  /\ stream \in StreamT /\ readable \in ReadableT /\ result \in ResultT
  /\ requests \in Nat /\ silent \in BOOLEAN

(* Redirects are counted, and requests are one more at most.               *)
Counted ==
  /\ stream.redirectCount <= options.maxRedirects
  /\ requests <= stream.redirectCount + 1
  /\ request.state \in {"deferred", "resolving"} =>
       requests <= stream.redirectCount

Upto(n, m) == IF n > m THEN m ELSE n

(* Every byte that arrived is in one of three places.                      *)
Arrived ==
  /\ request.state \in Before => request.sent = 0
  /\ stream.curlen = Upto(request.sent, maxResponseLength)
  /\ result.chunks \o (readable.buffer \o stream.responseBuffer)
       = Bytes(stream.curlen)

(* Bytes wait in FetchStream only while nothing is asked for.              *)
Asked ==
  /\ stream.responseBuffer # <<>> => stream.readyToRead = 0
  /\ readable.reading \/ readable.eof \/ stream.readyToRead = 0

(* The end goes through the three places after the bytes.                  *)
EndsInOrder ==
  /\ stream.ended => request.state \in {"over", "cut"}
  /\ readable.eof => stream.ended /\ stream.responseBuffer = <<>>
  /\ readable.ended => readable.eof /\ readable.buffer = <<>>

(* What the callback was told.                                             *)
Told ==
  /\ stream.ended => \/ request.sent = request.body
                     \/ request.state = "cut"
                     \/ result.callback = "error"
  /\ result.callback = "body" =>
       /\ readable.ended
       /\ request.sent < request.body => request.state = "cut"

FInv == Typed /\ Counted /\ Arrived /\ Asked /\ EndsInOrder /\ Told

-----------------------------------------------------------------------------
(* Lemmas                                                                  *)

LEMMA OptionTyped ==
  ASSUME options \in Options
  PROVE  /\ options.maxRedirects \in Nat /\ maxResponseLength \in Nat
         /\ options.disableRedirects \in BOOLEAN
  BY FetchAssumption DEF Option, maxResponseLength

LEMMA FieldsTyped ==
  ASSUME Typed
  PROVE  /\ request.sent \in Nat /\ request.body \in Nat
         /\ stream.redirectCount \in Nat /\ stream.curlen \in Nat
         /\ stream.responseBuffer \in Seq(Nat) /\ readable.buffer \in Seq(Nat)
         /\ result.chunks \in Seq(Nat)
<1>1. BodyLengths \cup {0} \subseteq Nat
  BY FetchAssumption
<1>2. request.sent \in Nat /\ request.body \in Nat
  BY <1>1 DEF Typed, RequestT
<1>3. /\ stream.redirectCount \in Nat /\ stream.curlen \in Nat
      /\ stream.responseBuffer \in Seq(Nat)
  BY DEF Typed, StreamT
<1>4. readable.buffer \in Seq(Nat)
  BY DEF Typed, ReadableT
<1>5. result.chunks \in Seq(Nat)
  BY DEF Typed, ResultT
<1> QED
  BY <1>2, <1>3, <1>4, <1>5

LEMMA NatConcat ==
  \A s, t \in Seq(Nat) :
    /\ s \o t \in Seq(Nat) /\ Len(s \o t) = Len(s) + Len(t)
    /\ \A i \in 1..(Len(s) + Len(t)) :
         (s \o t)[i] = IF i <= Len(s) THEN s[i] ELSE t[i - Len(s)]
  BY ConcatProperties

LEMMA NatAssoc ==
  \A s, t, u \in Seq(Nat) : (s \o t) \o u = s \o (t \o u)
  BY ConcatAssociative

LEMMA NatSplit ==
  \A s \in Seq(Nat) : \A k \in 0..Len(s) :
    SubSeq(s, 1, k) \o SubSeq(s, k + 1, Len(s)) = s
<1> SUFFICES ASSUME NEW s \in Seq(Nat), NEW k \in 0..Len(s)
             PROVE  SubSeq(s, 1, k) \o SubSeq(s, k + 1, Len(s)) = s
  OBVIOUS
<1>1. Len(s) \in Nat
  BY LenProperties
<1>2. 1 \in 1..(Len(s) + 1) /\ k \in (1 - 1)..Len(s) /\ Len(s) \in k..Len(s)
  BY <1>1
<1>3. SubSeq(s, 1, k) \o SubSeq(s, k + 1, Len(s)) = SubSeq(s, 1, Len(s))
  BY <1>2, ConcatAdjacentSubSeq
<1> QED
  BY <1>3, SubSeqFull

LEMMA BytesTyped ==
  ASSUME NEW n \in Nat
  PROVE  Bytes(n) \in Seq(Nat) /\ Len(Bytes(n)) = n
  BY IsASeq DEF Bytes

(* A chunk goes on where the last one stopped.                             *)
LEMMA BytesGrow ==
  ASSUME NEW n \in Nat, NEW m \in Nat
  PROVE  /\ [k \in 1..m |-> n + k] \in Seq(Nat)
         /\ Bytes(n) \o [k \in 1..m |-> n + k] = Bytes(n + m)
<1> DEFINE c == [k \in 1..m |-> n + k]
<1>1. c \in Seq(Nat) /\ Len(c) = m
  OBVIOUS
<1>2. /\ Bytes(n) \in Seq(Nat) /\ Len(Bytes(n)) = n
      /\ Bytes(n + m) \in Seq(Nat) /\ Len(Bytes(n + m)) = n + m
  BY BytesTyped
<1>3. /\ Bytes(n) \o c \in Seq(Nat) /\ Len(Bytes(n) \o c) = n + m
      /\ \A i \in 1..(n + m) :
           (Bytes(n) \o c)[i] = IF i <= n THEN Bytes(n)[i] ELSE c[i - n]
  <2>1. /\ Bytes(n) \o c \in Seq(Nat)
        /\ Len(Bytes(n) \o c) = Len(Bytes(n)) + Len(c)
        /\ \A i \in 1..(Len(Bytes(n)) + Len(c)) :
             (Bytes(n) \o c)[i]
               = IF i <= Len(Bytes(n)) THEN Bytes(n)[i] ELSE c[i - Len(Bytes(n))]
    <3> HIDE DEF c
    <3> QED BY <1>1, <1>2, NatConcat, ZenonT(30)
  <2> QED
    <3> HIDE DEF c
    <3> QED BY <1>1, <1>2, <2>1
<1>4. ASSUME NEW i \in 1..(n + m)
      PROVE  (Bytes(n) \o c)[i] = Bytes(n + m)[i]
  BY <1>3 DEF Bytes
<1>5. Bytes(n) \o c = Bytes(n + m)
  <2> HIDE DEF c
  <2> QED BY <1>2, <1>3, <1>4, SeqEqual
<1> QED
  BY <1>1, <1>5

(* What is pushed and what stays are the buffer.                           *)
LEMMA PushableSplits ==
  ASSUME NEW s \in StreamT
  PROVE  /\ Pushable(s) \in Seq(Nat)
         /\ SubSeq(s.responseBuffer, Len(Pushable(s)) + 1, Len(s.responseBuffer))
              \in Seq(Nat)
         /\ Pushable(s) \o
              SubSeq(s.responseBuffer, Len(Pushable(s)) + 1, Len(s.responseBuffer))
              = s.responseBuffer
         /\ Pushable(s) = <<>> =>
              s.responseBuffer = <<>> \/ s.readyToRead = 0
<1> DEFINE b == s.responseBuffer
           r == s.readyToRead
<1>1. /\ b \in Seq(Nat) /\ Len(b) \in Nat /\ r \in Nat
      /\ \A i \in 1..Len(b) : b[i] \in Nat
  BY FetchAssumption, LenProperties, ElementOfSeq DEF StreamT
<1>2. CASE Len(b) > r
  <2>1. Pushable(s) = SubSeq(b, 1, r)
    BY <1>2 DEF Pushable
  <2>2. SubSeq(b, 1, r) \in Seq(Nat) /\ Len(SubSeq(b, 1, r)) = r
    <3> HIDE DEF b, r
    <3> QED BY <1>1, <1>2, SubSeqProperties
  <2>3. SubSeq(b, r + 1, Len(b)) \in Seq(Nat)
    <3> HIDE DEF b, r
    <3> QED BY <1>1, <1>2, SubSeqProperties
  <2>4. SubSeq(b, 1, r) \o SubSeq(b, r + 1, Len(b)) = b
    <3> HIDE DEF b, r
    <3>1. r \in 0..Len(b)
      BY <1>1, <1>2
    <3> QED BY <1>1, <3>1, NatSplit, Zenon
  <2>5. SubSeq(b, 1, r) = <<>> => r = 0
    BY <2>2, EmptySeq
  <2> HIDE DEF b, r
  <2> QED
    BY <2>1, <2>2, <2>3, <2>4, <2>5 DEF b, r
<1>3. CASE ~(Len(b) > r)
  <2>1. Pushable(s) = b
    BY <1>3 DEF Pushable
  <2>2. SubSeq(b, Len(b) + 1, Len(b)) = <<>>
    <3> HIDE DEF b
    <3> QED BY <1>1, SubSeqEmpty
  <2>3. b \o <<>> = b /\ <<>> \in Seq(Nat)
    <3> HIDE DEF b
    <3> QED BY <1>1, ConcatEmptySeq
  <2> HIDE DEF b, r
  <2> QED
    BY <1>1, <2>1, <2>2, <2>3 DEF b, r
<1> QED
  BY <1>2, <1>3

(* Draining moves bytes from one place to the next.                        *)
LEMMA DrainMoves ==
  ASSUME NEW s \in StreamT, NEW r \in ReadableT, drainBuffer(s, r),
         r.reading \/ s.readyToRead = 0
  PROVE  /\ stream' \in StreamT /\ readable' \in ReadableT
         /\ stream'.redirectCount = s.redirectCount
         /\ stream'.curlen = s.curlen /\ stream'.ended = s.ended
         /\ readable'.eof = r.eof /\ readable'.ended = r.ended
         /\ readable'.buffer \o stream'.responseBuffer
              = r.buffer \o s.responseBuffer
         /\ stream'.responseBuffer # <<>> => stream'.readyToRead = 0
         /\ readable'.reading \/ stream'.readyToRead = 0
<1> DEFINE p == Pushable(s)
           q == SubSeq(s.responseBuffer, Len(p) + 1, Len(s.responseBuffer))
<1>1. /\ p \in Seq(Nat) /\ q \in Seq(Nat) /\ p \o q = s.responseBuffer
      /\ p = <<>> => s.responseBuffer = <<>> \/ s.readyToRead = 0
  BY PushableSplits
<1>2. CASE p = <<>>
  BY <1>1, <1>2 DEF drainBuffer
<1>3. CASE p # <<>>
  <2>1. /\ readable' = [r EXCEPT !.buffer = @ \o p, !.reading = FALSE]
        /\ stream' = [s EXCEPT !.readyToRead = 0, !.responseBuffer = q]
    BY <1>3 DEF drainBuffer, Pushed
  <2>2. r.buffer \in Seq(Nat)
    BY DEF ReadableT
  <2>3. r.buffer \o p \in Seq(Nat)
    <3> HIDE DEF p
    <3> QED BY <1>1, <2>2, NatConcat, Zenon
  <2>4. (r.buffer \o p) \o q = r.buffer \o (p \o q)
    <3> HIDE DEF p, q
    <3> QED BY <1>1, <2>2, NatAssoc, Zenon
  <2> HIDE DEF p, q
  <2>5. stream' \in StreamT /\ readable' \in ReadableT
    BY <1>1, <2>1, <2>3 DEF StreamT, ReadableT
  <2>6. readable'.buffer = r.buffer \o p /\ stream'.responseBuffer = q
    BY <2>1 DEF StreamT, ReadableT
  <2>7. readable'.buffer \o stream'.responseBuffer = r.buffer \o s.responseBuffer
    BY <1>1, <2>4, <2>6
  <2> QED
    BY <2>1, <2>5, <2>7 DEF StreamT, ReadableT
<1> QED
  BY <1>2, <1>3

-----------------------------------------------------------------------------
(* The invariant is inductive                                              *)

LEMMA InitInv == Init => FInv
<1> SUFFICES ASSUME Init PROVE FInv
  OBVIOUS
<1> USE DEF Init
<1>1. <<>> \in Seq(Nat)
  OBVIOUS
<1>2. maxResponseLength \in Nat /\ options.maxRedirects \in Nat
  BY OptionTyped
<1>3. Typed
  <2>1. request \in RequestT /\ request.sent <= request.body
    BY DEF RequestT, Before
  <2>2. stream \in StreamT
    BY <1>1 DEF StreamT
  <2>3. readable \in ReadableT /\ result \in ResultT
    BY <1>1 DEF ReadableT, ResultT
  <2> QED
    BY <2>1, <2>2, <2>3 DEF Typed
<1>4. Counted
  BY <1>2 DEF Counted
<1>5. <<>> \o (<<>> \o <<>>) = Bytes(0)
  <2>1. <<>> \o <<>> = <<>>
    BY <1>1, ConcatEmptySeq
  <2>2. Bytes(0) = <<>>
    BY DEF Bytes
  <2> QED
    BY <2>1, <2>2
<1>6. Arrived
  BY <1>2, <1>5 DEF Arrived, Upto
<1>7. Asked /\ EndsInOrder /\ Told
  BY DEF Asked, EndsInOrder, Told
<1> QED
  BY <1>3, <1>4, <1>6, <1>7 DEF FInv

(* The callback is called once.                                            *)
LEMMA CallbackOnce ==
  ASSUME result \in ResultT, NEW o \in {"error", "body"}, Callback(o)
  PROVE  /\ result' \in ResultT /\ result'.chunks = result.chunks
         /\ result'.callback # "none"
         /\ result.callback # "none" => result' = result
         /\ result'.callback \in {result.callback, o}
  BY DEF Callback, ResultT

LEMMA EmitErrorTyped ==
  ASSUME result \in ResultT, silent \in BOOLEAN, NEW b \in BOOLEAN,
         EmitError(b)
  PROVE  /\ result' \in ResultT /\ result'.chunks = result.chunks
         /\ silent' \in BOOLEAN
         /\ result'.callback \in {result.callback, "error"}
         /\ result.callback # "none" => result' = result
         /\ ~b => result'.callback # "none"
  BY CallbackOnce DEF EmitError

(* Nothing has arrived before the response.                                *)
LEMMA RequestInv ==
  ASSUME FInv, runStream \/ dnsCallback \/ onRedirect \/ onRequestError
  PROVE  FInv'
<1> USE DEF FInv
<1>1. request.state \in Before /\ ~stream.ended
  BY DEF runStream, dnsCallback, onRedirect, onRequestError, EndsInOrder, Before
<1>2. /\ options' = options /\ readable' = readable
      /\ \E st \in Before \cup {"over"} : request' = [request EXCEPT !.state = st]
  BY DEF runStream, dnsCallback, onRedirect, onRequestError, RunStream, Before
<1>3. /\ request' \in RequestT /\ request'.sent = request.sent
      /\ request'.body = request.body
  BY <1>2 DEF Typed, RequestT
<1>4. options.maxRedirects \in Nat /\ options.disableRedirects \in BOOLEAN
  BY OptionTyped DEF Typed
<1>5. /\ stream' \in StreamT /\ stream'.responseBuffer = stream.responseBuffer
      /\ stream'.curlen = stream.curlen /\ stream'.ended = stream.ended
      /\ stream'.readyToRead = stream.readyToRead
      /\ stream'.redirectCount <= options.maxRedirects
  <2>1. CASE onRedirect
    BY <1>4, <2>1 DEF onRedirect, mayRedirect, Typed, StreamT
  <2>2. CASE UNCHANGED stream
    BY <2>2 DEF Typed, Counted
  <2> QED
    BY <2>1, <2>2 DEF runStream, dnsCallback, onRequestError
<1>6. /\ result' \in ResultT /\ result'.chunks = result.chunks
      /\ result'.callback \in {result.callback, "error"} /\ silent' \in BOOLEAN
  BY EmitErrorTyped DEF runStream, dnsCallback, onRedirect, onRequestError, Typed
<1>7. /\ requests' \in Nat /\ requests' <= stream'.redirectCount + 1
      /\ request'.state \in {"deferred", "resolving"} =>
           requests' <= stream'.redirectCount
  <2>1. stream.redirectCount \in Nat /\ requests \in Nat
    BY DEF Typed, StreamT
  <2>2. CASE runStream
    BY <2>1, <2>2 DEF runStream, RunStream, Counted, Typed, RequestT
  <2>3. CASE dnsCallback
    <3>1. /\ stream' = stream /\ request.state = "resolving"
          /\ request'.state \in {"over", "requested"}
          /\ requests' \in {requests, requests + 1}
      BY <2>3 DEF dnsCallback, Typed, RequestT
    <3>2. requests <= stream.redirectCount
      BY <3>1 DEF Counted
    <3> QED
      BY <2>1, <3>1, <3>2
  <2>4. CASE onRedirect
    <3>1. stream'.redirectCount = stream.redirectCount + 1
      BY <2>4 DEF onRedirect, Typed, StreamT
    <3> QED
      BY <2>1, <2>4, <3>1 DEF onRedirect, RunStream, Counted, Typed, RequestT
  <2>5. CASE onRequestError
    BY <2>1, <2>5 DEF onRequestError, Counted, Typed, RequestT
  <2> QED
    BY <2>2, <2>3, <2>4, <2>5
<1>8. maxResponseLength' = maxResponseLength
  BY <1>2 DEF maxResponseLength
<1>9. Typed' /\ Counted'
  BY <1>2, <1>3, <1>5, <1>6, <1>7 DEF Typed, Counted
<1>10. Arrived'
  BY <1>1, <1>2, <1>3, <1>5, <1>6, <1>8 DEF Arrived, Upto
<1>11. Asked' /\ EndsInOrder' /\ Told'
  BY <1>1, <1>2, <1>3, <1>5, <1>6 DEF Asked, EndsInOrder, Told
<1> QED
  BY <1>9, <1>10, <1>11

LEMMA ResponseInv == FInv /\ onResponse => FInv'
<1> SUFFICES ASSUME FInv, onResponse PROVE FInv'
  OBVIOUS
<1> USE DEF FInv
<1>1. /\ request.state = "requested" /\ ~stream.ended
      /\ UNCHANGED <<options, stream, readable, result, requests, silent>>
  BY DEF onResponse, EndsInOrder
<1>2. /\ request' \in RequestT /\ request'.state = "receiving"
      /\ request'.sent = 0 /\ request'.sent <= request'.body
  BY FetchAssumption DEF onResponse, RequestT, Before
<1>3. request.sent = 0 /\ maxResponseLength' = maxResponseLength
  BY <1>1 DEF Arrived, Before, maxResponseLength
<1>4. Typed' /\ Counted'
  BY <1>1, <1>2 DEF Typed, Counted
<1>5. Arrived'
  BY <1>1, <1>2, <1>3 DEF Arrived, Before, Upto
<1>6. Asked' /\ EndsInOrder' /\ Told'
  BY <1>1 DEF Asked, EndsInOrder, Told
<1> QED
  BY <1>4, <1>5, <1>6

(* The maximum cuts the chunk in which it is reached.                      *)
LEMMA AcceptedUpto ==
  ASSUME FInv, request.state = "receiving",
         NEW n \in 1..(request.body - request.sent)
  PROVE  /\ accepted(n) \in Nat
         /\ stream.curlen + accepted(n)
              = Upto(request.sent + n, maxResponseLength)
         /\ accepted(n) # 0 => stream.curlen = request.sent
<1>1. request.sent \in Nat /\ n \in Nat /\ maxResponseLength \in Nat
  <2>1. request.sent \in Nat /\ request.body \in Nat
    BY FieldsTyped DEF FInv
  <2>2. maxResponseLength \in Nat
    BY OptionTyped DEF FInv, Typed
  <2> QED
    BY <2>1, <2>2
<1>2. stream.curlen = Upto(request.sent, maxResponseLength)
  BY DEF FInv, Arrived
<1> QED
  BY <1>1, <1>2 DEF accepted, Upto

(* What a step that only moves bytes out of the stream keeps.              *)
LEMMA BytesMove ==
  ASSUME FInv, stream' \in StreamT, readable' \in ReadableT,
         result' = result,
         readable'.buffer \o stream'.responseBuffer
           = readable.buffer \o stream.responseBuffer
  PROVE  result'.chunks \o (readable'.buffer \o stream'.responseBuffer)
           = Bytes(stream.curlen)
  BY DEF FInv, Arrived

LEMMA ReceiveInv == FInv /\ receive => FInv'
<1> SUFFICES ASSUME FInv, receive PROVE FInv'
  OBVIOUS
<1> USE DEF FInv
<1>1. /\ request.state = "receiving" /\ ~stream.ended /\ ~readable.eof
      /\ ~readable.ended
      /\ UNCHANGED <<options, result, requests, silent>>
  BY DEF receive, EndsInOrder, Typed, StreamT, ReadableT
<1>2. PICK n \in 1..(request.body - request.sent) :
        /\ request' = [request EXCEPT !.sent = @ + n]
        /\ IF accepted(n) = 0 THEN UNCHANGED <<stream, readable>>
           ELSE drainBuffer([stream EXCEPT !.curlen = @ + accepted(n),
                  !.responseBuffer =
                    @ \o [k \in 1..accepted(n) |-> request.sent + k]], readable)
  BY DEF receive
<1> DEFINE m == accepted(n)
           bytes == [k \in 1..m |-> request.sent + k]
           s == [stream EXCEPT !.curlen = @ + m, !.responseBuffer = @ \o bytes]
<1>3. /\ m \in Nat
      /\ stream.curlen + m = Upto(request.sent + n, maxResponseLength)
      /\ m # 0 => stream.curlen = request.sent
  BY <1>1, AcceptedUpto
<1>4. /\ request.sent \in Nat /\ request.body \in Nat /\ stream.curlen \in Nat
      /\ stream.responseBuffer \in Seq(Nat) /\ readable.buffer \in Seq(Nat)
      /\ result.chunks \in Seq(Nat)
  BY FieldsTyped
<1>5. /\ request' \in RequestT /\ request'.sent = request.sent + n
      /\ request'.sent <= request'.body /\ request'.state = "receiving"
      /\ maxResponseLength' = maxResponseLength
  <2>1. request \in RequestT /\ request' = [request EXCEPT !.sent = @ + n]
    BY <1>2 DEF Typed
  <2>2. request.sent + n \in Nat /\ request.sent + n <= request.body
    BY <1>4
  <2>3. /\ request' \in RequestT /\ request'.sent = request.sent + n
        /\ request'.body = request.body /\ request'.state = request.state
    BY <2>1, <2>2 DEF RequestT
  <2> QED
    BY <1>1, <2>2, <2>3 DEF maxResponseLength
<1>6. CASE m = 0
  <2>1. UNCHANGED <<stream, readable>>
    BY <1>2, <1>6
  <2>2. Typed' /\ Counted'
    BY <1>1, <1>5, <2>1 DEF Typed, Counted
  <2>3. Arrived'
    <3>1. stream'.curlen = Upto(request'.sent, maxResponseLength')
      BY <1>3, <1>4, <1>5, <1>6, <2>1
    <3>2. result'.chunks \o (readable'.buffer \o stream'.responseBuffer)
            = Bytes(stream'.curlen)
      BY <1>1, <2>1 DEF Arrived
    <3> QED
      BY <1>5, <3>1, <3>2 DEF Arrived, Before
  <2>4. Asked' /\ EndsInOrder' /\ Told'
    BY <1>1, <2>1 DEF Asked, EndsInOrder, Told
  <2> QED
    BY <2>2, <2>3, <2>4
<1>7. CASE m # 0
  <2>1. drainBuffer(s, readable)
    BY <1>2, <1>7
  <2>2. /\ bytes \in Seq(Nat)
        /\ Bytes(stream.curlen) \o bytes = Bytes(stream.curlen + m)
    BY <1>3, <1>4, <1>7, BytesGrow
  <2> HIDE DEF bytes, m
  <2>3. stream.responseBuffer \o bytes \in Seq(Nat)
    BY <1>4, <2>2, NatConcat, Zenon
  <2>4. /\ s \in StreamT /\ s.curlen = stream.curlen + m
        /\ s.responseBuffer = stream.responseBuffer \o bytes
        /\ s.redirectCount = stream.redirectCount
        /\ s.ended = stream.ended /\ s.readyToRead = stream.readyToRead
    <3>1. stream \in StreamT /\ stream.curlen + m \in Nat
      BY <1>3, <1>4 DEF Typed
    <3> HIDE DEF FInv
    <3> QED
      BY <2>3, <3>1 DEF StreamT, s
  <2> HIDE DEF s
  <2>5. readable \in ReadableT /\ (readable.reading \/ s.readyToRead = 0)
    BY <1>1, <2>4 DEF Typed, Asked
  <2>6. /\ stream' \in StreamT /\ readable' \in ReadableT
        /\ stream'.redirectCount = s.redirectCount
        /\ stream'.curlen = s.curlen /\ stream'.ended = s.ended
        /\ readable'.eof = readable.eof /\ readable'.ended = readable.ended
        /\ readable'.buffer \o stream'.responseBuffer
             = readable.buffer \o s.responseBuffer
        /\ stream'.responseBuffer # <<>> => stream'.readyToRead = 0
        /\ readable'.reading \/ stream'.readyToRead = 0
    BY <2>1, <2>4, <2>5, DrainMoves
  <2>7. result.chunks \o (readable.buffer \o (stream.responseBuffer \o bytes))
          = Bytes(stream.curlen + m)
    <3>1. readable.buffer \o stream.responseBuffer \in Seq(Nat)
      BY <1>4, NatConcat, Zenon
    <3>2. readable.buffer \o (stream.responseBuffer \o bytes)
            = (readable.buffer \o stream.responseBuffer) \o bytes
      BY <1>4, <2>2, NatAssoc, Zenon
    <3>3. result.chunks \o ((readable.buffer \o stream.responseBuffer) \o bytes)
            = (result.chunks \o (readable.buffer \o stream.responseBuffer))
                \o bytes
      BY <1>4, <2>2, <3>1, NatAssoc, Zenon
    <3>4. result.chunks \o (readable.buffer \o stream.responseBuffer)
            = Bytes(stream.curlen)
      BY DEF Arrived
    <3> QED
      BY <2>2, <3>2, <3>3, <3>4, Zenon
  <2>8. Typed' /\ Counted'
    BY <1>1, <1>5, <2>4, <2>6 DEF Typed, Counted
  <2>9. Arrived'
    <3>1. stream'.curlen = Upto(request'.sent, maxResponseLength')
      BY <1>3, <1>5, <2>4, <2>6
    <3>2. result'.chunks \o (readable'.buffer \o stream'.responseBuffer)
            = Bytes(stream'.curlen)
      BY <1>1, <2>4, <2>6, <2>7
    <3> QED
      BY <1>5, <3>1, <3>2 DEF Arrived, Before
  <2>10. Asked' /\ EndsInOrder' /\ Told'
    BY <1>1, <2>4, <2>6 DEF Asked, EndsInOrder, Told
  <2> QED
    BY <2>8, <2>9, <2>10
<1> QED
  BY <1>6, <1>7

(* The end of the response goes to the reader, or waits for the buffer.    *)
LEMMA EndKeepsBytes ==
  ASSUME FInv, End
  PROVE  /\ stream' \in StreamT /\ readable' \in ReadableT
         /\ stream'.ended /\ stream'.redirectCount = stream.redirectCount
         /\ stream'.curlen = stream.curlen
         /\ readable'.buffer \o stream'.responseBuffer
              = readable.buffer \o stream.responseBuffer
         /\ Asked'
         /\ readable'.eof => stream'.responseBuffer = <<>>
         /\ readable'.ended => readable'.eof /\ readable'.buffer = <<>>
<1>1. stream \in StreamT /\ readable \in ReadableT
  BY DEF FInv, Typed
<1>2. /\ stream' \in StreamT /\ stream'.ended
      /\ stream'.redirectCount = stream.redirectCount
      /\ stream'.curlen = stream.curlen
      /\ stream'.responseBuffer = stream.responseBuffer
      /\ stream'.readyToRead = stream.readyToRead
  BY <1>1 DEF End, StreamT
<1>3. /\ readable' \in ReadableT /\ readable'.buffer = readable.buffer
      /\ readable'.ended = readable.ended
      /\ \/ stream.responseBuffer = <<>> /\ readable'.eof
         \/ readable' = readable
  BY <1>1 DEF End, Eof, ReadableT
<1>4. Asked'
  BY <1>2, <1>3 DEF FInv, Asked
<1>5. /\ readable'.eof => stream'.responseBuffer = <<>>
      /\ readable'.ended => readable'.eof /\ readable'.buffer = <<>>
  BY <1>2, <1>3 DEF FInv, EndsInOrder
<1> QED
  BY <1>2, <1>3, <1>4, <1>5

(* The response is over: with its end, an error of zlib, or a lost         *)
(* connection.                                                             *)
LEMMA OverInv ==
  ASSUME FInv,
         NEW st \in {"over", "cut"}, request.state = "receiving",
         request' = [request EXCEPT !.state = st],
         UNCHANGED <<options, requests>>,
         stream' \in StreamT, stream'.redirectCount = stream.redirectCount,
         stream'.curlen = stream.curlen,
         readable' \in ReadableT,
         readable'.buffer \o stream'.responseBuffer
           = readable.buffer \o stream.responseBuffer,
         Asked',
         readable'.eof => stream'.ended /\ stream'.responseBuffer = <<>>,
         readable'.ended => readable'.eof /\ readable'.buffer = <<>>,
         result' \in ResultT, result'.chunks = result.chunks,
         result'.callback \in {result.callback, "error"},
         silent' \in BOOLEAN,
         stream'.ended => \/ request.sent = request.body \/ st = "cut"
                          \/ result'.callback = "error"
  PROVE  FInv'
<1>1. /\ request' \in RequestT /\ request'.state = st
      /\ request'.sent = request.sent /\ request'.body = request.body
  BY DEF FInv, Typed, RequestT
<1>2. maxResponseLength' = maxResponseLength
  BY DEF maxResponseLength
<1>3. Typed' /\ Counted'
  BY <1>1 DEF FInv, Typed, Counted
<1>4. Arrived'
  BY <1>1, <1>2 DEF FInv, Arrived, Before
<1>5. EndsInOrder'
  BY <1>1 DEF EndsInOrder
<1>6. Told'
  <2>1. result.callback # "body"
    BY DEF FInv, Told, EndsInOrder
  <2> QED
    BY <1>1, <2>1 DEF Told
<1> QED
  BY <1>3, <1>4, <1>5, <1>6 DEF FInv

LEMMA EndInv == FInv /\ end => FInv'
<1> SUFFICES ASSUME FInv, end PROVE FInv'
  OBVIOUS
<1>1. /\ request.state = "receiving" /\ request.sent = request.body
      /\ request' = [request EXCEPT !.state = "over"] /\ End
      /\ UNCHANGED <<options, result, requests, silent>>
  BY DEF end
<1>2. /\ stream' \in StreamT /\ readable' \in ReadableT
      /\ stream'.ended /\ stream'.redirectCount = stream.redirectCount
      /\ stream'.curlen = stream.curlen
      /\ readable'.buffer \o stream'.responseBuffer
           = readable.buffer \o stream.responseBuffer
      /\ Asked'
      /\ readable'.eof => stream'.responseBuffer = <<>>
      /\ readable'.ended => readable'.eof /\ readable'.buffer = <<>>
  BY <1>1, EndKeepsBytes
<1>3. result \in ResultT /\ silent \in BOOLEAN
  BY DEF FInv, Typed
<1> QED
  BY <1>1, <1>2, <1>3, OverInv

LEMMA ErrorInv == FInv /\ error => FInv'
<1> SUFFICES ASSUME FInv, error PROVE FInv'
  OBVIOUS
<1> DEFINE s == [stream EXCEPT !.ended = TRUE]
<1>1. /\ request.state = "receiving"
      /\ request' = [request EXCEPT !.state = "over"]
      /\ EmitError(FALSE) /\ drainBuffer(s, readable)
      /\ UNCHANGED <<options, requests>>
  BY DEF error
<1>2. /\ stream \in StreamT /\ readable \in ReadableT
      /\ result \in ResultT /\ silent \in BOOLEAN
  BY DEF FInv, Typed
<1>3. /\ ~readable.eof /\ ~readable.ended /\ result.callback # "body"
      /\ readable.reading \/ stream.readyToRead = 0
  BY <1>1, <1>2 DEF FInv, EndsInOrder, Told, Asked, ReadableT
<1>4. /\ s \in StreamT /\ s.redirectCount = stream.redirectCount
      /\ s.curlen = stream.curlen /\ s.ended
      /\ s.responseBuffer = stream.responseBuffer
      /\ s.readyToRead = stream.readyToRead
  BY <1>2 DEF StreamT
<1> HIDE DEF s
<1>5. /\ stream' \in StreamT /\ readable' \in ReadableT
      /\ stream'.redirectCount = s.redirectCount
      /\ stream'.curlen = s.curlen /\ stream'.ended = s.ended
      /\ readable'.eof = readable.eof /\ readable'.ended = readable.ended
      /\ readable'.buffer \o stream'.responseBuffer
           = readable.buffer \o s.responseBuffer
      /\ stream'.responseBuffer # <<>> => stream'.readyToRead = 0
      /\ readable'.reading \/ stream'.readyToRead = 0
  BY <1>1, <1>2, <1>3, <1>4, DrainMoves
<1>6. Asked'
  BY <1>5 DEF Asked
<1>7. /\ result' \in ResultT /\ result'.chunks = result.chunks
      /\ silent' \in BOOLEAN /\ result'.callback = "error"
  <2>1. /\ result' \in ResultT /\ result'.chunks = result.chunks
        /\ silent' \in BOOLEAN
        /\ result'.callback \in {result.callback, "error"}
        /\ result'.callback # "none"
    BY <1>1, <1>2, EmitErrorTyped
  <2> QED
    BY <1>2, <1>3, <2>1 DEF ResultT
<1> QED
  BY <1>1, <1>3, <1>4, <1>5, <1>6, <1>7, OverInv

LEMMA CloseInv == FInv /\ onClose => FInv'
<1> SUFFICES ASSUME FInv, onClose PROVE FInv'
  OBVIOUS
<1>1. /\ request.state = "receiving"
      /\ request' = [request EXCEPT !.state = "cut"]
      /\ UNCHANGED <<options, requests>>
      /\ UNCHANGED result \/ Callback("error")
      /\ \/ End /\ UNCHANGED silent
         \/ silent' = TRUE /\ UNCHANGED <<stream, readable>>
  BY DEF onClose
<1>2. /\ stream \in StreamT /\ readable \in ReadableT
      /\ result \in ResultT /\ silent \in BOOLEAN
  BY DEF FInv, Typed
<1>3. /\ result' \in ResultT /\ result'.chunks = result.chunks
      /\ result'.callback \in {result.callback, "error"}
  BY <1>1, <1>2, CallbackOnce
<1>4. /\ silent' \in BOOLEAN
      /\ stream' \in StreamT /\ readable' \in ReadableT
      /\ stream'.redirectCount = stream.redirectCount
      /\ stream'.curlen = stream.curlen
      /\ readable'.buffer \o stream'.responseBuffer
           = readable.buffer \o stream.responseBuffer
      /\ Asked'
      /\ readable'.eof => stream'.ended /\ stream'.responseBuffer = <<>>
      /\ readable'.ended => readable'.eof /\ readable'.buffer = <<>>
  <2>1. CASE End /\ UNCHANGED silent
    BY <1>2, <2>1, EndKeepsBytes
  <2>2. CASE silent' = TRUE /\ UNCHANGED <<stream, readable>>
    BY <1>2, <2>2 DEF FInv, Asked, EndsInOrder
  <2> QED
    BY <1>1, <2>1, <2>2
<1> QED
  BY <1>1, <1>3, <1>4, OverInv

(* The reader asks, and gets what there is or the end.                     *)
LEMMA ReadInv == FInv /\ read => FInv'
<1> SUFFICES ASSUME FInv, read PROVE FInv'
  OBVIOUS
<1> DEFINE s == [stream EXCEPT !.readyToRead = @ + HighWaterMark]
<1>1. /\ ~readable.reading /\ ~readable.eof /\ _read(HighWaterMark)
      /\ UNCHANGED <<options, request, result, requests, silent>>
  BY DEF read
<1>2. /\ stream \in StreamT /\ readable \in ReadableT
      /\ readable.ended = FALSE /\ readable.eof = FALSE
      /\ stream.readyToRead = 0
  BY <1>1 DEF FInv, Typed, EndsInOrder, Asked, ReadableT
<1>3. /\ stream' \in StreamT /\ readable' \in ReadableT
      /\ stream'.redirectCount = stream.redirectCount
      /\ stream'.curlen = stream.curlen /\ stream'.ended = stream.ended
      /\ readable'.ended = FALSE
      /\ readable'.buffer \o stream'.responseBuffer
           = readable.buffer \o stream.responseBuffer
      /\ stream'.responseBuffer # <<>> => stream'.readyToRead = 0
      /\ readable'.reading \/ readable'.eof \/ stream'.readyToRead = 0
      /\ readable'.eof => stream'.ended /\ stream'.responseBuffer = <<>>
  <2>1. CASE stream.ended /\ stream.responseBuffer = <<>>
    <3>1. stream' = stream
          /\ readable' = [readable EXCEPT !.eof = TRUE, !.reading = FALSE]
      BY <1>1, <2>1 DEF _read, Eof
    <3> QED
      BY <1>2, <2>1, <3>1 DEF ReadableT
  <2>2. CASE ~(stream.ended /\ stream.responseBuffer = <<>>)
    <3>1. drainBuffer(s, AskedFor)
      BY <1>1, <2>2 DEF _read
    <3>2. /\ s \in StreamT /\ s.redirectCount = stream.redirectCount
          /\ s.curlen = stream.curlen /\ s.ended = stream.ended
          /\ s.responseBuffer = stream.responseBuffer
      BY <1>2, FetchAssumption DEF StreamT
    <3>3. /\ AskedFor \in ReadableT /\ AskedFor.reading
          /\ AskedFor.eof = FALSE /\ AskedFor.ended = FALSE
          /\ AskedFor.buffer = readable.buffer
      BY <1>2 DEF AskedFor, ReadableT
    <3> HIDE DEF s
    <3>4. /\ stream' \in StreamT /\ readable' \in ReadableT
          /\ stream'.redirectCount = s.redirectCount
          /\ stream'.curlen = s.curlen /\ stream'.ended = s.ended
          /\ readable'.eof = AskedFor.eof /\ readable'.ended = AskedFor.ended
          /\ readable'.buffer \o stream'.responseBuffer
               = AskedFor.buffer \o s.responseBuffer
          /\ stream'.responseBuffer # <<>> => stream'.readyToRead = 0
          /\ readable'.reading \/ stream'.readyToRead = 0
      BY <3>1, <3>2, <3>3, DrainMoves
    <3> QED
      BY <3>2, <3>3, <3>4
  <2> QED
    BY <2>1, <2>2
<1>4. maxResponseLength' = maxResponseLength
  BY <1>1 DEF maxResponseLength
<1>5. Typed' /\ Counted'
  BY <1>1, <1>3 DEF FInv, Typed, Counted
<1>6. Arrived'
  BY <1>1, <1>3, <1>4 DEF FInv, Arrived
<1>7. Asked' /\ EndsInOrder' /\ Told'
  BY <1>1, <1>2, <1>3 DEF FInv, Asked, EndsInOrder, Told
<1> QED
  BY <1>5, <1>6, <1>7 DEF FInv

LEMMA DataInv == FInv /\ onData => FInv'
<1> SUFFICES ASSUME FInv, onData PROVE FInv'
  OBVIOUS
<1>1. /\ readable.buffer # <<>>
      /\ result' = [result EXCEPT !.chunks = @ \o readable.buffer]
      /\ readable' = [readable EXCEPT !.buffer = <<>>]
      /\ UNCHANGED <<options, request, stream, requests, silent>>
  BY DEF onData
<1>2. /\ result.chunks \in Seq(Nat) /\ readable.buffer \in Seq(Nat)
      /\ stream.responseBuffer \in Seq(Nat)
  BY FieldsTyped DEF FInv
<1>3. result.chunks \o readable.buffer \in Seq(Nat)
  BY <1>2, NatConcat, Zenon
<1>4. /\ result' \in ResultT /\ result'.callback = result.callback
      /\ result'.chunks = result.chunks \o readable.buffer
  BY <1>1, <1>3 DEF FInv, Typed, ResultT
<1>5. /\ readable' \in ReadableT /\ readable'.buffer = <<>>
      /\ readable'.reading = readable.reading /\ readable'.eof = readable.eof
      /\ readable'.ended = readable.ended
  <2>1. readable \in ReadableT /\ <<>> \in Seq(Nat)
    BY DEF FInv, Typed
  <2> QED
    BY <1>1, <2>1 DEF ReadableT
<1>6. result'.chunks \o (readable'.buffer \o stream'.responseBuffer)
        = Bytes(stream'.curlen)
  <2>1. <<>> \o stream.responseBuffer = stream.responseBuffer
    BY <1>2, ConcatEmptySeq
  <2>2. (result.chunks \o readable.buffer) \o stream.responseBuffer
          = result.chunks \o (readable.buffer \o stream.responseBuffer)
    BY <1>2, NatAssoc, Zenon
  <2> QED
    BY <1>1, <1>4, <1>5, <2>1, <2>2 DEF FInv, Arrived
<1>7. maxResponseLength' = maxResponseLength
  BY <1>1 DEF maxResponseLength
<1>8. Typed' /\ Counted'
  BY <1>1, <1>4, <1>5 DEF FInv, Typed, Counted
<1>9. Arrived'
  BY <1>1, <1>6, <1>7 DEF FInv, Arrived
<1>10. Asked' /\ EndsInOrder' /\ Told'
  BY <1>1, <1>4, <1>5 DEF FInv, Asked, EndsInOrder, Told
<1> QED
  BY <1>8, <1>9, <1>10 DEF FInv

LEMMA EndReadInv == FInv /\ onEnd => FInv'
<1> SUFFICES ASSUME FInv, onEnd PROVE FInv'
  OBVIOUS
<1>1. /\ readable.eof /\ readable.buffer = <<>>
      /\ readable' = [readable EXCEPT !.ended = TRUE]
      /\ Callback("body")
      /\ UNCHANGED <<options, request, stream, requests, silent>>
  BY DEF onEnd
<1>2. /\ readable' \in ReadableT /\ readable'.buffer = readable.buffer
      /\ readable'.reading = readable.reading /\ readable'.eof = readable.eof
      /\ readable'.ended
  BY <1>1 DEF FInv, Typed, ReadableT
<1>3. /\ result' \in ResultT /\ result'.chunks = result.chunks
      /\ result.callback # "none" => result' = result
  BY <1>1, CallbackOnce DEF FInv, Typed
<1>4. maxResponseLength' = maxResponseLength
  BY <1>1 DEF maxResponseLength
<1>5. Typed' /\ Counted'
  BY <1>1, <1>2, <1>3 DEF FInv, Typed, Counted
<1>6. Arrived'
  BY <1>1, <1>2, <1>3, <1>4 DEF FInv, Arrived
<1>7. Asked' /\ EndsInOrder'
  BY <1>1, <1>2 DEF FInv, Asked, EndsInOrder
<1>8. Told'
  <2>1. stream.ended
    BY <1>1 DEF FInv, EndsInOrder
  <2>2. \/ request.sent = request.body \/ request.state = "cut"
        \/ result.callback = "error"
    BY <2>1 DEF FInv, Told
  <2>3. request.sent \in Nat /\ request.body \in Nat
    BY FieldsTyped DEF FInv
  <2>4. CASE result.callback = "error"
    BY <1>1, <1>3, <2>4 DEF Told
  <2>5. CASE request.sent = request.body \/ request.state = "cut"
    BY <1>1, <1>2, <2>3, <2>5 DEF Told
  <2> QED
    BY <2>2, <2>4, <2>5
<1> QED
  BY <1>5, <1>6, <1>7, <1>8 DEF FInv

LEMMA NextInv == FInv /\ [Next]_vars => FInv'
<1>1. FInv /\ UNCHANGED vars => FInv'
  BY DEF vars, FInv, Typed, Counted, Arrived, Asked, EndsInOrder, Told,
     maxResponseLength
<1> QED
  BY <1>1, RequestInv, ResponseInv, ReceiveInv, EndInv, ErrorInv, CloseInv,
     ReadInv, DataInv, EndReadInv
     DEF Next, Network, Reader

LEMMA AlwaysInv == Spec => []FInv
  BY InitInv, NextInv, PTL DEF Spec

-----------------------------------------------------------------------------
(* Theorems                                                                *)

(* Redirects and requests keep to maxRedirects, what has been let through  *)
(* keeps to maxResponseLength, and bytes wait in FetchStream only when     *)
(* nothing is asked for, for any options and any size of buffer.           *)
THEOREM TypeCorrect == Spec => []TypeOK
<1>1. FInv => TypeOK
  <2> SUFFICES ASSUME FInv PROVE TypeOK
    OBVIOUS
  <2>1. /\ request.sent \in Nat /\ request.body \in Nat
        /\ stream.redirectCount \in Nat /\ stream.curlen \in Nat
    BY FieldsTyped DEF FInv
  <2>2. maxResponseLength \in Nat /\ options.maxRedirects \in Nat
    BY OptionTyped DEF FInv, Typed
  <2>3. request \in
          [state : {"deferred", "resolving", "requested", "receiving", "cut",
                    "over"},
           body : BodyLengths \cup {0}, sent : 0..request.body,
           gzip : BOOLEAN]
    <3>1. request.sent \in 0..request.body
      BY <2>1 DEF FInv, Typed
    <3> QED
      BY <3>1 DEF FInv, Typed, RequestT, Before
  <2>4. stream \in
          [redirectCount : 0..options.maxRedirects, responseBuffer : Seq(Nat),
           curlen : 0..maxResponseLength, readyToRead : {0, HighWaterMark},
           ended : BOOLEAN]
    <3>1. stream.redirectCount \in 0..options.maxRedirects
      BY <2>1, <2>2 DEF FInv, Counted
    <3>2. stream.curlen \in 0..maxResponseLength
      BY <2>1, <2>2 DEF FInv, Arrived, Upto
    <3> QED
      BY <3>1, <3>2 DEF FInv, Typed, StreamT
  <2>5. readable \in
          [buffer : Seq(Nat), reading : BOOLEAN, eof : BOOLEAN, ended : BOOLEAN]
    BY DEF FInv, Typed, ReadableT
  <2>6. result \in [chunks : Seq(Nat), callback : {"none", "error", "body"}]
    BY DEF FInv, Typed, ResultT
  <2>7. requests \in 0..(stream.redirectCount + 1)
    BY <2>1 DEF FInv, Typed, Counted
  <2> QED
    BY <2>3, <2>4, <2>5, <2>6, <2>7 DEF TypeOK, FInv, Typed, Asked
<1> QED
  BY <1>1, AlwaysInv, PTL

(* A callback that is told of no error has every byte that arrived, up to  *)
(* the maximum, in its place, and misses some only when the connection was *)
(* cut.                                                                    *)
THEOREM BodyArrives == Spec => []BodyIsWhatArrived
<1>1. FInv => BodyIsWhatArrived
  <2> SUFFICES ASSUME FInv, result.callback = "body"
               PROVE  /\ result.chunks =
                            Bytes(Upto(request.sent, maxResponseLength))
                      /\ request.sent < request.body => request.state = "cut"
    BY DEF BodyIsWhatArrived, Bytes, Upto
  <2>1. /\ readable.buffer = <<>> /\ stream.responseBuffer = <<>>
        /\ request.sent < request.body => request.state = "cut"
    BY DEF FInv, Told, EndsInOrder
  <2>2. result.chunks \in Seq(Nat)
    BY FieldsTyped DEF FInv
  <2>3. <<>> \o <<>> = <<>> /\ result.chunks \o <<>> = result.chunks
    BY <2>2, ConcatEmptySeq
  <2> QED
    BY <2>1, <2>3 DEF FInv, Arrived
<1> QED
  BY <1>1, AlwaysInv, PTL

(* The bytes that were let through, wherever they are.                     *)
Written == result.chunks \o readable.buffer \o stream.responseBuffer

LEMMA WrittenIsBytes ==
  ASSUME FInv
  PROVE  /\ Written = Bytes(stream.curlen) /\ Len(Written) = stream.curlen
         /\ stream.curlen = Upto(request.sent, maxResponseLength)
<1>1. /\ result.chunks \in Seq(Nat) /\ readable.buffer \in Seq(Nat)
      /\ stream.responseBuffer \in Seq(Nat) /\ stream.curlen \in Nat
  BY FieldsTyped DEF FInv
<1>2. Written = result.chunks \o (readable.buffer \o stream.responseBuffer)
  BY <1>1, NatAssoc, Zenon DEF Written
<1>3. /\ result.chunks \o (readable.buffer \o stream.responseBuffer)
           = Bytes(stream.curlen)
      /\ stream.curlen = Upto(request.sent, maxResponseLength)
  BY DEF FInv, Arrived
<1> QED
  BY <1>1, <1>2, <1>3, BytesTyped

(* A step that takes nothing out of the pipe may only have put bytes in.   *)
LEMMA WriteStep ==
  ASSUME FInv, FInv', options' = options,
         result'.chunks = result.chunks, readable'.ended = readable.ended,
         request.sent <= request'.sent,
         request'.sent # request.sent => ~readable.ended
  PROVE  [Pipe!Next]_(Pipe!vars)
<1>1. /\ Written = Bytes(stream.curlen) /\ Len(Written) = stream.curlen
      /\ stream.curlen = Upto(request.sent, maxResponseLength)
  BY WrittenIsBytes
<1>2. /\ Written' = Bytes(stream'.curlen)
      /\ stream'.curlen = Upto(request'.sent, maxResponseLength)
  <2>1. /\ (Written = Bytes(stream.curlen))'
        /\ (stream.curlen = Upto(request.sent, maxResponseLength))'
    BY WrittenIsBytes, PTL
  <2> QED
    BY <2>1 DEF Bytes, Upto, maxResponseLength
<1>3. maxResponseLength' = maxResponseLength /\ maxResponseLength \in Nat
  BY OptionTyped DEF maxResponseLength, FInv, Typed
<1>4. /\ request.sent \in Nat /\ request'.sent \in Nat
  BY DEF FInv, Typed, RequestT
<1>5. CASE stream'.curlen = stream.curlen
  <2>1. Written' = Written
    BY <1>1, <1>2, <1>5
  <2> QED
    BY <1>3, <2>1 DEF Pipe!vars, Written
<1>6. CASE stream'.curlen # stream.curlen
  <2> DEFINE n == stream'.curlen - stream.curlen
  <2>1. /\ stream.curlen \in Nat /\ n \in 1..(maxResponseLength - stream.curlen)
        /\ stream'.curlen = stream.curlen + n /\ n \in Nat
        /\ request'.sent # request.sent
    BY <1>1, <1>2, <1>3, <1>4, <1>6 DEF Upto
  <2> HIDE DEF n
  <2>2. Written' = Written \o [k \in 1..n |-> Len(Written) + k]
    <3>1. Bytes(stream.curlen) \o [k \in 1..n |-> stream.curlen + k]
            = Bytes(stream.curlen + n)
      BY <2>1, BytesGrow
    <3>2. [k \in 1..n |-> Len(Written) + k] = [k \in 1..n |-> stream.curlen + k]
      BY <1>1
    <3> QED
      BY <1>1, <1>2, <2>1, <3>1, <3>2, Zenon
  <2>3. n \in 1..(maxResponseLength - Len(Written))
    BY <1>1, <2>1
  <2>4. Pipe!Write
    BY <1>3, <2>1, <2>2, <2>3, Zenon DEF Pipe!Write, Written
  <2> QED
    BY <2>4 DEF Pipe!Next
<1> QED
  BY <1>5, <1>6

(* Draining announces no end.                                              *)
LEMMA DrainEnds ==
  \A s : \A r \in ReadableT : drainBuffer(s, r) => readable'.ended = r.ended
  BY DEF drainBuffer, Pushed, ReadableT

LEMMA NatPrefix ==
  \A s, t \in Seq(Nat) : s # <<>> => SubSeq(s \o t, 1, Len(s)) = s
<1> SUFFICES ASSUME NEW s \in Seq(Nat), NEW t \in Seq(Nat), s # <<>>
             PROVE  SubSeq(s \o t, 1, Len(s)) = s
  OBVIOUS
<1>1. Len(s) \in Nat /\ Len(s) # 0
  BY LenProperties, EmptySeq
<1>2. 1 \in 1..Len(s) /\ Len(s) \in 1..Len(s)
  BY <1>1
<1> QED
  BY <1>2, SubSeqOfConcat1, SubSeqFull

LEMMA ReadStep == FInv /\ FInv' /\ onData => Pipe!Read
<1> SUFFICES ASSUME FInv, FInv', onData PROVE Pipe!Read
  OBVIOUS
<1> DEFINE c == result.chunks
           r == readable.buffer
           b == stream.responseBuffer
<1>1. /\ r # <<>> /\ result'.chunks = c \o r /\ readable'.buffer = <<>>
      /\ stream' = stream /\ readable'.ended = readable.ended
      /\ ~readable.ended /\ maxResponseLength' = maxResponseLength
  BY DEF onData, FInv, Typed, ResultT, ReadableT, EndsInOrder, maxResponseLength
<1>2. c \in Seq(Nat) /\ r \in Seq(Nat) /\ b \in Seq(Nat)
  BY FieldsTyped DEF FInv
<1>3. Written = (c \o r) \o b
  BY DEF Written
<1>4. Written' = ((c \o r) \o <<>>) \o b
  BY <1>1 DEF Written
<1> HIDE DEF c, r, b
<1>5. /\ c \o r \in Seq(Nat) /\ (c \o r) \o b \in Seq(Nat)
      /\ Len(c \o r) = Len(c) + Len(r)
      /\ Len((c \o r) \o b) = Len(c \o r) + Len(b)
  BY <1>2, NatConcat, Zenon
<1>6. /\ Len(c) \in Nat /\ Len(r) \in Nat /\ Len(b) \in Nat /\ Len(r) # 0
  BY <1>1, <1>2, LenProperties, EmptySeq
<1>7. Written' = Written
  BY <1>3, <1>4, <1>5, ConcatEmptySeq
<1>8. Len(c \o r) \in (Len(c) + 1)..Len(Written)
  BY <1>3, <1>5, <1>6
<1>9. c \o r # <<>>
  BY <1>5, <1>6, EmptySeq
<1>10. result'.chunks = SubSeq(Written, 1, Len(c \o r))
  BY <1>1, <1>2, <1>3, <1>5, <1>9, NatPrefix, Zenon
<1> QED
  BY <1>1, <1>7, <1>8, <1>10, Zenon DEF Pipe!Read, Written, c

LEMMA FinishStep == FInv /\ onEnd => Pipe!Finish
<1> SUFFICES ASSUME FInv, onEnd PROVE Pipe!Finish
  OBVIOUS
<1>1. /\ readable.buffer = <<>> /\ readable.eof /\ ~readable.ended
      /\ readable' = [readable EXCEPT !.ended = TRUE] /\ Callback("body")
      /\ UNCHANGED <<options, stream>>
  BY DEF onEnd
<1>2. /\ readable'.ended = TRUE /\ readable'.buffer = readable.buffer
      /\ stream.responseBuffer = <<>> /\ maxResponseLength' = maxResponseLength
  BY <1>1 DEF FInv, Typed, ReadableT, EndsInOrder, maxResponseLength
<1>3. result'.chunks = result.chunks /\ result.chunks \in Seq(Nat)
  BY <1>1, CallbackOnce, FieldsTyped DEF FInv, Typed
<1>4. result.chunks = Written
  BY <1>1, <1>2, <1>3, ConcatEmptySeq DEF Written
<1>5. Written' = Written
  BY <1>1, <1>2, <1>3 DEF Written
<1> QED
  BY <1>1, <1>2, <1>3, <1>4, <1>5, Zenon DEF Pipe!Finish, Written

(* Whatever order chunks, reads, errors and the end come in, the three     *)
(* buffers between the response and the callback are one bounded pipe.     *)
THEOREM PipeImplemented == Spec => ImplementsPipe
<1>1. FInv /\ Init => Pipe!Init
  <2> SUFFICES ASSUME FInv, Init PROVE Pipe!Init
    OBVIOUS
  <2>1. /\ stream.curlen = 0 /\ result.chunks = <<>> /\ readable.ended = FALSE
    BY DEF Init
  <2>2. Bytes(0) = <<>>
    BY DEF Bytes
  <2>3. Written = <<>> /\ maxResponseLength \in Nat
    BY <2>1, <2>2, WrittenIsBytes, OptionTyped DEF FInv, Typed
  <2> QED
    BY <2>1, <2>3, Zenon DEF Pipe!Init, Written
<1>2. FInv /\ FInv' /\ [Next]_vars => [Pipe!Next]_(Pipe!vars)
  <2> SUFFICES ASSUME FInv, FInv', [Next]_vars
               PROVE  [Pipe!Next]_(Pipe!vars)
    OBVIOUS
  <2>1. request.sent \in Nat
    BY FieldsTyped DEF FInv
  <2>2. CASE onData
    BY <2>2, ReadStep DEF Pipe!Next
  <2>3. CASE onEnd
    BY <2>3, FinishStep DEF Pipe!Next
  <2>4. CASE runStream \/ dnsCallback \/ onRedirect \/ onRequestError
    <3>1. options' = options /\ readable' = readable
      BY <2>4 DEF runStream, dnsCallback, onRedirect, onRequestError
    <3>2. request'.sent = request.sent
      BY <2>4 DEF runStream, dnsCallback, onRedirect, onRequestError, RunStream,
         FInv, Typed, RequestT
    <3>3. result'.chunks = result.chunks
      BY <2>4, EmitErrorTyped DEF runStream, dnsCallback, onRedirect,
         onRequestError, FInv, Typed
    <3> QED
      BY <2>1, <3>1, <3>2, <3>3, WriteStep
  <2>5. CASE onResponse
    <3>1. request.sent = 0 /\ request'.sent = 0
      BY <2>5 DEF onResponse, FInv, Arrived, Before
    <3> QED
      BY <2>5, <3>1, WriteStep DEF onResponse
  <2>6. CASE receive
    <3>1. request.sent <= request'.sent
      <4>1. PICK n \in 1..(request.body - request.sent) :
              request' = [request EXCEPT !.sent = @ + n]
        BY <2>6 DEF receive
      <4>2. request'.sent = request.sent + n /\ request.body \in Nat
        BY <4>1, FieldsTyped DEF FInv, Typed, RequestT
      <4> QED
        BY <2>1, <4>1, <4>2
    <3>2. ~readable.ended /\ UNCHANGED <<options, result>>
      BY <2>6 DEF receive, FInv, EndsInOrder
    <3>3. readable'.ended = readable.ended
      <4>1. readable' = readable \/ \E s : drainBuffer(s, readable)
        BY <2>6 DEF receive
      <4>2. readable \in ReadableT
        BY DEF FInv, Typed
      <4> QED
        BY <4>1, <4>2, DrainEnds
    <3> QED
      BY <3>1, <3>2, <3>3, WriteStep
  <2>7. CASE end \/ error \/ onClose
    <3>1. options' = options
      BY <2>7 DEF end, error, onClose
    <3>2. request'.sent = request.sent
      BY <2>7 DEF end, error, onClose, FInv, Typed, RequestT
    <3>3. result'.chunks = result.chunks
      BY <2>7, EmitErrorTyped, CallbackOnce DEF end, error, onClose, FInv, Typed
    <3>4. readable'.ended = readable.ended
      BY <2>7, DrainEnds DEF end, error, onClose, End, Eof, FInv, Typed, ReadableT
    <3> QED
      BY <2>1, <3>1, <3>2, <3>3, <3>4, WriteStep
  <2>8. CASE read
    <3>1. UNCHANGED <<options, request, result>>
      BY <2>8 DEF read
    <3>2. AskedFor \in ReadableT /\ AskedFor.ended = readable.ended
      BY DEF AskedFor, FInv, Typed, ReadableT
    <3>3. readable'.ended = readable.ended
      BY <2>8, <3>2, DrainEnds DEF read, _read, Eof, FInv, Typed, ReadableT
    <3> QED
      BY <2>1, <3>1, <3>3, WriteStep
  <2>9. CASE UNCHANGED vars
    BY <2>1, <2>9, WriteStep DEF vars
  <2> QED
    BY <2>2, <2>3, <2>4, <2>5, <2>6, <2>7, <2>8, <2>9
       DEF Next, Network, Reader
<1> QED
  BY <1>1, <1>2, AlwaysInv, PTL DEF Spec, ImplementsPipe, Pipe!Spec
=============================================================================
