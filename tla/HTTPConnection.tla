---------------------------- MODULE HTTPConnection ----------------------------
(***************************************************************************)
(* One connection of HTTPServer.c from its start to its finalization, with *)
(* what reads and writes for it: HTTPMessageReadMessage, HTTPReadHeader,   *)
(* and the transport, the bare socket until the response to the last       *)
(* pair-verify is written, NetTransportChaCha20Poly1305 from then on.      *)
(* Everything runs on the queue of the server; module DispatchSource shows *)
(* what the two sources of the connection promise.                         *)
(*                                                                         *)
(* A message is a few units, of which a read or write may move any number: *)
(* the line and the end of a request's header and its body, the head and   *)
(* the body of a response.  An encrypted frame is its length, its units    *)
(* and its tag.  The client may send requests ahead of the responses.      *)
(***************************************************************************)
EXTENDS Naturals, Sequences, FiniteSets, SequencesExt, FiniteSetsExt, Sublists

CONSTANTS Requests,  \* number of requests the client sends
          WithBody,  \* those that have a body
          Verify,    \* the last pair-verify, 0 if there is none
          ReadMax,   \* bound: units in a frame of the client
          WriteMax,  \* units in a frame of the server, kMaxMessageWriteSize
          SendBuffer \* units that the socket takes before it blocks

ASSUME RequestsAssumption == /\ Requests \in Nat \ {0}
                             /\ WithBody \subseteq 1 .. Requests
                             /\ Verify \in 0 .. Requests
ASSUME SizesAssumption == {ReadMax, WriteMax, SendBuffer} \subseteq Nat \ {0}

VARIABLES
  asked,          \* the client: units of its requests it has sent
  sending,        \* the client: the rest of the frame it sends
  got,            \* the client: wire units it has received
  left,           \* the client has closed its end
  inbox, outbox,  \* the socket
  encrypted,      \* the transport delegate is the encrypted one
  partial,        \* NTContext: what was read of a frame
  buffered,       \* NTContext: decrypted units not asked for yet
  header,         \* requestMsg->header: what was read of it
  headerRead,     \* requestMsg->headerRead
  extra,          \* requestMsg->header.extraDataPtr: what was read behind it
  body,           \* requestMsg->bodyPtr
  state,          \* inCnx->state
  response,       \* responseMsg->iop: units the transport has not taken
  written,        \* NTContext: the write buffer, or the iov of a bare socket
  completion,     \* responseMsg->completion is set
  handled,        \* requests given to handleMessage_f
  running,        \* a handler is in _HTTPConnectionRunStateMachine
  readSuspended, writeSuspended,
  stopped,        \* HTTPConnectionStop was called
  cancels,        \* cancel handlers that have not run
  refs            \* references to the connection; without one it is finalized

client == <<asked, sending, got, left>>
reading == <<partial, buffered, header, headerRead, extra, body>>
writing == <<response, written, completion>>
life == <<readSuspended, writeSuspended, stopped, cancels, refs>>
cnxVars == <<client, inbox, outbox, encrypted, reading, state, writing, handled, running, life>>

-------------------------------------------------------------------------------
(* The units of the messages. *)

Unit(part, n) == [part |-> part, n |-> n]
RequestUnits(k) == <<Unit("line", k), Unit("end", k)>>
                     \o (IF k \in WithBody THEN <<Unit("data", k)>> ELSE <<>>)
ResponseUnits(k) == <<Unit("head", k), Unit("body", k)>>
Frame(s) == <<Unit("length", Len(s))>> \o s \o <<Unit("tag", 0)>>
\* A response is two units, so that two frames are enough for it.
Frames(s) == IF Len(s) <= WriteMax THEN Frame(s)
             ELSE Frame(SubSeq(s, 1, WriteMax)) \o Frame(SubSeq(s, WriteMax + 1, Len(s)))
OnWire(k) == IF Verify # 0 /\ k > Verify THEN Frames(ResponseUnits(k)) ELSE ResponseUnits(k)

\* The units of the first k requests, and the wire units of the first k responses.
RequestsUpto[k \in 0 .. Requests] ==
  IF k = 0 THEN <<>> ELSE RequestsUpto[k - 1] \o RequestUnits(k)
ResponsesUpto[k \in 0 .. Requests] ==
  IF k = 0 THEN <<>> ELSE ResponsesUpto[k - 1] \o OnWire(k)

AllRequests == RequestsUpto[Requests]
AllResponses == ResponsesUpto[Requests]
Sent(k) == sending = <<>> /\ asked >= Len(RequestsUpto[k])
Answer(k) == got >= Len(ResponsesUpto[k])

UnitType == [part : {"line", "end", "data", "head", "body", "length", "tag"},
             n : Nat]
Units == Seq(UnitType)

CnxTypeOK == /\ asked \in 0 .. Len(AllRequests) /\ sending \in Units
             /\ got \in 0 .. Len(AllResponses) /\ left \in BOOLEAN
             /\ inbox \in Units /\ outbox \in Units /\ Len(outbox) <= SendBuffer
             /\ encrypted \in BOOLEAN
             /\ partial \in Units /\ buffered \in Units
             /\ header \in Units /\ headerRead \in BOOLEAN /\ extra \in Units /\ body \in Units
             /\ state \in {"ReadingRequest", "WritingResponse"}
             /\ response \in Units /\ written \in Units /\ completion \in BOOLEAN
             /\ handled \in 0 .. Requests
             /\ running \in BOOLEAN /\ readSuspended \in BOOLEAN /\ writeSuspended \in BOOLEAN
             /\ stopped \in BOOLEAN /\ cancels \in 0 .. 2 /\ refs \in 0 .. 4

\* HTTPConnectionCreate and HTTPConnectionStart: the list of the server and the
\* two sources refer to the connection.
CnxInit == /\ asked = 0 /\ sending = <<>> /\ got = 0 /\ left = FALSE
           /\ inbox = <<>> /\ outbox = <<>>
           /\ encrypted = FALSE /\ partial = <<>> /\ buffered = <<>>
           /\ header = <<>> /\ headerRead = FALSE /\ extra = <<>> /\ body = <<>>
           /\ state = "ReadingRequest"
           /\ response = <<>> /\ written = <<>> /\ completion = FALSE
           /\ handled = 0 /\ running = FALSE
           /\ readSuspended = FALSE /\ writeSuspended = TRUE
           /\ stopped = FALSE /\ cancels = 0 /\ refs = 3

-------------------------------------------------------------------------------
(* The client. *)

server == <<encrypted, reading, state, writing, handled, running, life>>

\* It encrypts when it has the whole response to its last pair-verify.
SendPlain == /\ ~left /\ sending = <<>> /\ asked < Len(AllRequests)
             /\ LET u == AllRequests[asked + 1] IN
                /\ Verify = 0 \/ u.n <= Verify
                /\ inbox' = Append(inbox, u)
             /\ asked' = asked + 1
             /\ UNCHANGED <<sending, got, left, outbox, server>>

BeginFrame(n) == /\ ~left /\ sending = <<>>
                 /\ asked + n <= Len(AllRequests)
                 /\ Verify # 0 /\ Answer(Verify)
                 /\ AllRequests[asked + 1].n > Verify
                 /\ sending' = Frame(SubSeq(AllRequests, asked + 1, asked + n))
                 /\ asked' = asked + n
                 /\ UNCHANGED <<got, left, inbox, outbox, server>>

SendFrame == /\ ~left /\ sending # <<>>
             /\ inbox' = Append(inbox, Head(sending))
             /\ sending' = Tail(sending)
             /\ UNCHANGED <<asked, got, left, outbox, server>>

Receive == /\ ~left /\ outbox # <<>>
           /\ outbox' = Tail(outbox)
           /\ got' = got + 1
           /\ UNCHANGED <<asked, sending, left, inbox, server>>

Leave == /\ ~left /\ left' = TRUE
         /\ outbox' = <<>>
         /\ UNCHANGED <<asked, sending, got, inbox, server>>

-------------------------------------------------------------------------------
(* The transport's read_f, asked for at most n units. *)

First(s, n) == SubSeq(s, 1, Min({n, Len(s)}))
After(s, n) == SubSeq(s, n + 1, Len(s))

ReadSocket(n) == [got |-> First(inbox, n), buffered |-> buffered, partial |-> partial,
                  inbox |-> After(inbox, n)]

\* _NetTransportRead decrypts frame by frame until it has n units, and keeps the rest
\* of the last frame; if the socket has no more it keeps what it has of a frame.
Framing == {"length", "tag"}
Decrypted[w \in Units] == Sublist(w, {i \in DOMAIN w : w[i].part \notin Framing})
ReadFrames(n) ==
  LET w == partial \o inbox
      data(i) == buffered \o Decrypted[SubSeq(w, 1, i)]
      tags == {0} \union {i \in DOMAIN w : w[i].part = "tag"}
      enough == {i \in tags : Len(data(i)) >= n}
      i == Min(enough \union {Max(tags)})
  IN [got |-> First(data(i), n), buffered |-> After(data(i), n),
      partial |-> IF enough = {} THEN After(w, i) ELSE IF i = 0 THEN partial ELSE <<>>,
      inbox |-> IF enough = {} THEN <<>> ELSE IF i = 0 THEN inbox ELSE After(w, i)]

\* It does not read at all.
NoRead == [got |-> <<>>, buffered |-> buffered, partial |-> partial, inbox |-> inbox]
\* Mutant: it asks the socket before it looks at what it has decrypted.
SocketFirst(n) == IF ~encrypted THEN ReadSocket(n) ELSE IF inbox = <<>> THEN NoRead ELSE ReadFrames(n)
ReadF(n) == IF encrypted THEN ReadFrames(n) ELSE ReadSocket(n)
Took(r) == buffered' = r.buffered /\ partial' = r.partial /\ inbox' = r.inbox

-------------------------------------------------------------------------------
(* HTTPConnectionStop and _HTTPServerCloseConnection: out of the server's   *)
(* list, both sources cancelled and released.                               *)

Closed == /\ stopped' = TRUE
          /\ cancels' = 2
          /\ readSuspended' = FALSE /\ writeSuspended' = FALSE
          /\ refs' = refs - 1
          /\ running' = FALSE

\* EWOULDBLOCK: the state machine stops until the source fires.
WaitsToRead == /\ running' = FALSE /\ readSuspended' = FALSE
               /\ UNCHANGED <<writeSuspended, stopped, cancels, refs>>
WaitsToWrite == /\ running' = FALSE /\ writeSuspended' = FALSE
                /\ UNCHANGED <<readSuspended, stopped, cancels, refs>>
GoesOn == UNCHANGED <<running, life>>

\* _HTTPConnectionReadHandler, _HTTPConnectionWriteHandler.
Readable == inbox # <<>> \/ left
ReadHandler == /\ ~running /\ ~stopped /\ ~readSuspended /\ Readable
               /\ readSuspended' = TRUE /\ running' = TRUE
               /\ UNCHANGED <<client, inbox, outbox, encrypted, reading, state, writing, handled,
                              writeSuspended, stopped, cancels, refs>>

Writable == Len(outbox) < SendBuffer \/ left
WriteHandler == /\ ~running /\ ~stopped /\ ~writeSuspended /\ Writable
                /\ writeSuspended' = TRUE /\ running' = TRUE
                /\ UNCHANGED <<client, inbox, outbox, encrypted, reading, state, writing, handled,
                               readSuspended, stopped, cancels, refs>>

-------------------------------------------------------------------------------
(* _HTTPConnectionRunStateMachine, ReadingRequest. *)

Reads == running /\ state = "ReadingRequest"
HasEnd(s) == \E i \in DOMAIN s : s[i].part = "end"
EndOf(s) == Min({i \in DOMAIN s : s[i].part = "end"})

\* HTTPReadHeader looks at what was read behind the last request before it reads.
InHand == header \o extra

ReadHeader ==
  /\ Reads /\ ~headerRead
  /\ \E r \in {IF HasEnd(InHand) THEN NoRead ELSE ReadF(Len(AllRequests))} :
       LET s == InHand \o r.got
       IN /\ Took(r)
          /\ IF HasEnd(s)
             THEN /\ header' = First(s, EndOf(s)) /\ extra' = After(s, EndOf(s))
                  /\ headerRead' = TRUE
                  /\ GoesOn
             ELSE /\ header' = s /\ extra' = <<>>
                  /\ UNCHANGED headerRead
                  /\ IF left THEN Closed ELSE WaitsToRead
  /\ UNCHANGED <<client, outbox, encrypted, body, state, writing, handled>>

BodyLen == IF Head(header).n \in WithBody THEN 1 ELSE 0
Complete == headerRead /\ Len(body) = BodyLen

ReadBody ==
  /\ Reads /\ headerRead /\ ~Complete
  /\ \E r \in {IF extra # <<>> THEN NoRead ELSE ReadF(BodyLen - Len(body))} :
       LET n == BodyLen - Len(body)
           s == First(extra \o r.got, n)
       IN /\ Took(r)
          /\ body' = body \o s
          /\ extra' = After(extra, n)
          /\ IF Len(s) = n THEN GoesOn ELSE IF left THEN Closed ELSE WaitsToRead
  /\ UNCHANGED <<client, outbox, encrypted, header, headerRead, state, writing, handled>>

\* The completion of the last pair-verify holds a reference until it has run.
\* Mutants: it is not taken; it is not given up.
RetainedNot(k) == refs
Retained(k) == IF k = Verify THEN refs + 1 ELSE refs
CompletedLeak == refs
Completed == IF completion THEN refs - 1 ELSE refs

\* handleMessage_f answers at once (HTTPConnectionSendResponse), or fails.
HandleRequest ==
  /\ Reads /\ Complete
  /\ handled' = handled + 1
  /\ state' = "WritingResponse"
  /\ response' = IF encrypted THEN ResponseUnits(handled + 1) ELSE <<>>
  /\ written' = IF encrypted THEN <<>> ELSE ResponseUnits(handled + 1)
  /\ completion' = (handled + 1 = Verify)
  /\ refs' = Retained(handled + 1)
  /\ UNCHANGED <<client, inbox, outbox, encrypted, reading, running, readSuspended, writeSuspended,
                 stopped, cancels>>

HandleFails ==
  /\ Reads /\ Complete
  /\ Closed
  /\ UNCHANGED <<client, inbox, outbox, encrypted, reading, state, writing, handled>>

-------------------------------------------------------------------------------
(* WritingResponse. *)

Writes == running /\ state = "WritingResponse"

\* _NetTransportWriteV fills its buffer when it is empty.
Encrypt == /\ Writes /\ encrypted /\ written = <<>> /\ response # <<>>
           /\ written' = Frame(First(response, WriteMax))
           /\ response' = After(response, WriteMax)
           /\ UNCHANGED <<client, inbox, outbox, encrypted, reading, state, completion, handled,
                          running, life>>

\* UpdateIOVec: what a write of n units leaves.
\* Mutant: it does not go past what was written.
UnwrittenAll(w, n) == IF n < Len(w) THEN w ELSE <<>>
Unwritten(w, n) == After(w, n)

\* SocketWriteData: what did not fit stays.
Flush == /\ Writes /\ ~left /\ written # <<>>
         /\ LET room == SendBuffer - Len(outbox) IN
            /\ outbox' = outbox \o First(written, room)
            /\ written' = Unwritten(written, room)
            /\ IF Len(written) <= room THEN GoesOn ELSE WaitsToWrite
         /\ UNCHANGED <<client, inbox, encrypted, reading, state, response, completion, handled>>

WriteFails == /\ Writes /\ left /\ written # <<>>
              /\ Closed
              /\ UNCHANGED <<client, inbox, outbox, encrypted, reading, state, writing, handled>>

\* What is kept of a request when the next one is read.
\* Mutant: HTTPMessageReset forgets what was read behind the request.
KeptNothing == <<>>
Kept == extra

\* The response is written: the completion runs, and if the connection is persistent
\* the next request is read (there are no events).
ResponseWritten ==
  /\ Writes /\ written = <<>> /\ response = <<>>
  /\ encrypted' = (encrypted \/ completion)
  /\ completion' = FALSE
  /\ \/ /\ state' = "ReadingRequest"
        /\ header' = <<>> /\ headerRead' = FALSE /\ body' = <<>> /\ extra' = Kept
        /\ refs' = Completed
        /\ UNCHANGED <<running, readSuspended, writeSuspended, stopped, cancels>>
     \/ /\ stopped' = TRUE /\ cancels' = 2
        /\ readSuspended' = FALSE /\ writeSuspended' = FALSE
        /\ refs' = Completed - 1
        /\ running' = FALSE
        /\ UNCHANGED <<state, header, headerRead, body, extra>>
  /\ UNCHANGED <<client, inbox, outbox, partial, buffered, response, written, handled>>

StateMachine == \/ ReadHeader \/ ReadBody \/ HandleRequest \/ HandleFails
                \/ Encrypt \/ Flush \/ WriteFails \/ ResponseWritten

-------------------------------------------------------------------------------
\* _HTTPServerStop, or another connection that hijacks this one.
ServerCloses == /\ ~running /\ ~stopped
                /\ Closed
                /\ UNCHANGED <<client, inbox, outbox, encrypted, reading, state, writing, handled>>

\* _HTTPConnectionCancelHandler.
CancelHandler == /\ ~running /\ cancels > 0
                 /\ cancels' = cancels - 1
                 /\ refs' = refs - 1
                 /\ UNCHANGED <<client, inbox, outbox, encrypted, reading, state, writing, handled,
                                running, readSuspended, writeSuspended, stopped>>

ClientStep == SendPlain \/ (\E n \in 1 .. ReadMax : BeginFrame(n)) \/ SendFrame \/ Receive \/ Leave
CnxNext == \/ ClientStep
           \/ ReadHandler \/ WriteHandler \/ StateMachine
           \/ ServerCloses \/ CancelHandler

\* A frame begun is sent and the client reads; the queue runs what is queued and the
\* sources fire.
CnxFairness == /\ WF_cnxVars(SendFrame) /\ WF_cnxVars(Receive)
               /\ WF_cnxVars(ReadHandler) /\ WF_cnxVars(WriteHandler)
               /\ WF_cnxVars(StateMachine) /\ WF_cnxVars(CancelHandler)

CnxSpec == CnxInit /\ [][CnxNext]_cnxVars /\ CnxFairness

-------------------------------------------------------------------------------
\* handleMessage_f gets the requests of the client, whole, in order, each once: however
\* reads cut them, with requests read behind others, and frames read half.
HandledWhole == Reads /\ Complete /\ handled < Requests
                  => header \o body = RequestUnits(handled + 1)

\* The client gets the responses in order, in plain up to the one that ends the
\* pair-verify and framed from then on, with nothing lost or written twice when the
\* socket blocks.
AnsweredInOrder == outbox = SubSeq(AllResponses, got + 1, got + Len(outbox))

\* The connection lives while something of it is to run.
AliveWhileUsed == (running \/ cancels > 0 \/ ~stopped) => refs > 0

\* A request that was sent is answered unless the connection ends: none is left
\* behind in a buffer, where the socket does not wake the connection for it.
Answered == \A k \in 1 .. Requests : Sent(k) ~> (Answer(k) \/ left \/ stopped)

\* A connection that was stopped is finalized, and with it its socket closed, unless
\* the response with the completion was not written.
ClosedIsFreed == (stopped /\ ~completion) ~> refs = 0

\* HTTPMessage.h: the completion is the "Function to call when a message completes".
\* It does not hold.
CompletionRuns == completion ~> ~completion
===============================================================================
