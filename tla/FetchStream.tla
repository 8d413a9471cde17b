---------------------------- MODULE FetchStream ----------------------------
(***************************************************************************)
(* The HTTP client shipped with the browser assets: FetchStream follows    *)
(* redirects and turns a response into a readable stream, with a buffer of *)
(* its own for what the reader has not asked for; fetchUrl collects the    *)
(* stream and calls back. The requests, the sockets, zlib and the Readable *)
(* base class are node's.                                                  *)
(***************************************************************************)
EXTENDS Naturals, Sequences

CONSTANTS
  Options,        \* the options a caller may give, once normalized
  BodyLengths,    \* bytes of a response
  HighWaterMark,  \* what node asks of _read, and keeps
  Infinity        \* more bytes than any response has

Option ==
  [maxRedirects : Nat, disableRedirects : BOOLEAN, asyncDnsLoookup : BOOLEAN,
   maxResponseLength : Nat]

ASSUME FetchAssumption ==
  /\ Options \subseteq Option
  /\ BodyLengths \subseteq Nat
  /\ HighWaterMark \in Nat \ {0}
  /\ Infinity \in Nat
  /\ \A n \in BodyLengths : n < Infinity

VARIABLES
  options,   \* of the call
  request,   \* node's request and response: where it is, what has arrived
  stream,    \* the fields of FetchStream and the variables of _runStream
  readable,  \* node's Readable
  result,    \* what fetchUrl has collected, and its callback
  requests,  \* history: requests made
  silent     \* history: something ended of which no event tells

vars == <<options, request, stream, readable, result, requests, silent>>

Init ==
  /\ options \in Options
  /\ request = [state |-> "deferred", body |-> 0, sent |-> 0, gzip |-> FALSE]
  /\ stream = [redirectCount |-> 0, responseBuffer |-> <<>>, curlen |-> 0,
               readyToRead |-> 0, ended |-> FALSE]
  /\ readable = [buffer |-> <<>>, reading |-> FALSE, eof |-> FALSE,
                 ended |-> FALSE]
  /\ result = [chunks |-> <<>>, callback |-> "none"]
  /\ requests = 0
  /\ silent = FALSE

(* A maximum of 0 is one that is not set.                                  *)
maxResponseLength ==
  IF options.maxResponseLength = 0 THEN Infinity ELSE options.maxResponseLength

Callback(outcome) ==
  result' = IF result.callback = "none"
            THEN [result EXCEPT !.callback = outcome] ELSE result

(* The error listener of fetchUrl skips HPE_INVALID_CONSTANT.              *)
EmitError(skipped) ==
  /\ IF skipped THEN UNCHANGED result ELSE Callback("error")
  /\ silent' = (silent \/ skipped)

-----------------------------------------------------------------------------
(* Requests and redirects.                                                 *)

(* runStream: the request is made at once, or after a lookup.              *)
RunStream(req) ==
  IF options.asyncDnsLoookup
  THEN request' = [req EXCEPT !.state = "resolving"] /\ UNCHANGED requests
  ELSE request' = [req EXCEPT !.state = "requested"] /\ requests' = requests + 1

runStream ==
  /\ request.state = "deferred"
  /\ RunStream(request)
  /\ UNCHANGED <<options, stream, readable, result, silent>>

dnsCallback ==
  /\ request.state = "resolving"
  /\ \/ /\ EmitError(FALSE)
        /\ request' = [request EXCEPT !.state = "over"]
        /\ UNCHANGED requests
     \/ /\ request' = [request EXCEPT !.state = "requested"]
        /\ requests' = requests + 1
        /\ UNCHANGED <<result, silent>>
  /\ UNCHANGED <<options, stream, readable>>

(* Fault: one redirect too many.                                           *)
mayRedirectOnce == ~options.disableRedirects
                     /\ options.maxRedirects >= stream.redirectCount

mayRedirect == ~options.disableRedirects
                 /\ options.maxRedirects > stream.redirectCount

onRedirect ==
  /\ request.state = "requested"
  /\ mayRedirect
  /\ stream' = [stream EXCEPT !.redirectCount = @ + 1]
  /\ RunStream(request)
  /\ UNCHANGED <<options, readable, result, silent>>

(* Any other response, or a redirect that is not followed.                 *)
onResponse ==
  /\ request.state = "requested"
  /\ \E n \in BodyLengths, gzip \in BOOLEAN :
       request' = [state |-> "receiving", body |-> n, sent |-> 0, gzip |-> gzip]
  /\ UNCHANGED <<options, stream, readable, result, requests, silent>>

(* No connection, or a timeout, before the response.                       *)
onRequestError ==
  /\ request.state = "requested"
  /\ \E invalidConstant \in BOOLEAN : EmitError(invalidConstant)
  /\ request' = [request EXCEPT !.state = "over"]
  /\ UNCHANGED <<options, stream, readable, requests>>

-----------------------------------------------------------------------------
(* The response, in chunks.                                                *)

(* node's push: what it adds for the reader, and the end of the _read.     *)
Pushed(r, bytes) == [r EXCEPT !.buffer = @ \o bytes, !.reading = FALSE]

Eof == readable' = [readable EXCEPT !.eof = TRUE, !.reading = FALSE]

AskedFor == [readable EXCEPT !.reading = TRUE]

Pushable(s) ==
  IF Len(s.responseBuffer) > s.readyToRead
  THEN SubSeq(s.responseBuffer, 1, s.readyToRead) ELSE s.responseBuffer

(* As much as the reader has asked for, r being its side before.           *)
drainBuffer(s, r) ==
  IF Pushable(s) = <<>> THEN stream' = s /\ readable' = r
  ELSE /\ readable' = Pushed(r, Pushable(s))
       /\ stream' = [s EXCEPT !.readyToRead = 0,
            !.responseBuffer = SubSeq(@, Len(Pushable(s)) + 1, Len(@))]

(* Fault: a chunk counts when it is whole only.                            *)
acceptedIfRoom(n) == IF stream.curlen >= maxResponseLength THEN 0 ELSE n

(* How much of a chunk of n bytes the maximum lets through.                *)
accepted(n) ==
  IF stream.curlen + n > maxResponseLength
  THEN maxResponseLength - stream.curlen ELSE n

receive ==
  /\ request.state = "receiving"
  /\ \E n \in 1..(request.body - request.sent) :
       LET m == accepted(n)
           bytes == [k \in 1..m |-> request.sent + k]
       IN  /\ request' = [request EXCEPT !.sent = @ + n]
           /\ IF m = 0 THEN UNCHANGED <<stream, readable>>
              ELSE drainBuffer([stream EXCEPT !.curlen = @ + m,
                     !.responseBuffer = @ \o bytes], readable)
  /\ UNCHANGED <<options, result, requests, silent>>

(* Fault: the end does not wait for what is in the buffer.                 *)
EndAtOnce == stream' = [stream EXCEPT !.ended = TRUE] /\ Eof

End ==
  /\ stream' = [stream EXCEPT !.ended = TRUE]
  /\ IF stream.responseBuffer = <<>> THEN Eof ELSE UNCHANGED readable

end ==
  /\ request.state = "receiving" /\ request.sent = request.body
  /\ request' = [request EXCEPT !.state = "over"]
  /\ End
  /\ UNCHANGED <<options, result, requests, silent>>

(* zlib finds an error in the data, or that they stop too early.           *)
error ==
  /\ request.state = "receiving" /\ request.gzip
  /\ request' = [request EXCEPT !.state = "over"]
  /\ EmitError(FALSE)
  /\ drainBuffer([stream EXCEPT !.ended = TRUE], readable)
  /\ UNCHANGED <<options, requests>>

(* The connection is lost before the end of the body, on a timeout too:    *)
(* the request may tell its error, then node ends the response (before     *)
(* version 13) or leaves it.                                               *)
onClose ==
  /\ request.state = "receiving" /\ request.sent < request.body
  /\ request' = [request EXCEPT !.state = "cut"]
  /\ UNCHANGED result \/ Callback("error")
  /\ \/ ~request.gzip /\ End /\ UNCHANGED silent
     \/ silent' = TRUE /\ UNCHANGED <<stream, readable>>
  /\ UNCHANGED <<options, requests>>

-----------------------------------------------------------------------------
(* The reader.                                                             *)

(* Fault: the end is not looked for when there is nothing to push.         *)
_readToDrain(size) ==
  drainBuffer([stream EXCEPT !.readyToRead = @ + size], AskedFor)

_read(size) ==
  IF stream.ended /\ stream.responseBuffer = <<>>
  THEN Eof /\ UNCHANGED stream
  ELSE drainBuffer([stream EXCEPT !.readyToRead = @ + size], AskedFor)

(* node calls _read when the last one was answered and there is room.      *)
read ==
  /\ ~readable.reading /\ ~readable.eof
  /\ Len(readable.buffer) < HighWaterMark
  /\ _read(HighWaterMark)
  /\ UNCHANGED <<options, request, result, requests, silent>>

onData ==
  /\ readable.buffer # <<>>
  /\ result' = [result EXCEPT !.chunks = @ \o readable.buffer]
  /\ readable' = [readable EXCEPT !.buffer = <<>>]
  /\ UNCHANGED <<options, request, stream, requests, silent>>

onEnd ==
  /\ readable.eof /\ readable.buffer = <<>> /\ ~readable.ended
  /\ readable' = [readable EXCEPT !.ended = TRUE]
  /\ Callback("body")
  /\ UNCHANGED <<options, request, stream, requests, silent>>

Network == onRedirect \/ onResponse \/ onRequestError \/ receive \/ end
             \/ error \/ onClose

Reader == read \/ onData \/ onEnd

Next == runStream \/ dnsCallback \/ Network \/ Reader

Spec == Init /\ [][Next]_vars

(* node runs what is due; a lookup and a request come to something (with a *)
(* timeout, or because the server goes on or closes).                      *)
FairSpec ==
  Spec /\ WF_vars(runStream) /\ WF_vars(dnsCallback) /\ WF_vars(Network)
       /\ WF_vars(Reader)

-----------------------------------------------------------------------------
(* Properties                                                              *)

TypeOK ==
  /\ options \in Options
  /\ request \in
       [state : {"deferred", "resolving", "requested", "receiving", "cut",
                 "over"},
        body : BodyLengths \cup {0}, sent : 0..request.body, gzip : BOOLEAN]
  /\ stream \in
       [redirectCount : 0..options.maxRedirects, responseBuffer : Seq(Nat),
        curlen : 0..maxResponseLength, readyToRead : {0, HighWaterMark},
        ended : BOOLEAN]
  /\ readable \in
       [buffer : Seq(Nat), reading : BOOLEAN, eof : BOOLEAN, ended : BOOLEAN]
  /\ result \in
       [chunks : Seq(Nat), callback : {"none", "error", "body"}]
  /\ requests \in 0..(stream.redirectCount + 1)
  /\ silent \in BOOLEAN
  /\ stream.responseBuffer # <<>> => stream.readyToRead = 0

(* The callback is given, without an error, what has arrived up to the     *)
(* maximum, every byte in its place, and the whole of it unless the        *)
(* connection was cut, which nothing tells the callback.                   *)
BodyIsWhatArrived ==
  result.callback = "body" =>
    /\ result.chunks =
         [k \in 1..(IF request.sent > maxResponseLength
                    THEN maxResponseLength ELSE request.sent) |-> k]
    /\ request.sent < request.body => request.state = "cut"

(* The callback is called, after every sequence of redirects, chunks and   *)
(* reads, unless the error that ends it all is skipped or not told.        *)
CallsBack == <>(result.callback # "none" \/ silent)

Pipe == INSTANCE BytePipe WITH
  limit <- maxResponseLength,
  written <- result.chunks \o readable.buffer \o stream.responseBuffer,
  read <- result.chunks,
  finished <- readable.ended

(* The three buffers between the response and the callback, and their      *)
(* pushes, reads and ends in every order, are one pipe.                    *)
ImplementsPipe == Pipe!Spec
=============================================================================
