------------------------------- MODULE TsClient -------------------------------
(*****************************************************************************)
(* MankaShredsClient of the TypeScript SDK once it is connected: chunks of   *)
(* the transport are drained into events, events go to whoever called next   *)
(* or onto a queue, and the queue's length pauses and resumes the            *)
(* transport.  The event loop runs one callback at a time: a drain is        *)
(* several steps here, and `pc` keeps every other callback out of it.        *)
(*                                                                           *)
(* What the client writes, and its counters, are left out.                   *)
(*****************************************************************************)
EXTENDS Feed, SequencesExt

CONSTANTS
  Transports,       \* "tcp", "quic", or both
  Limit,            \* maxMessageBytes, in payload cells
  Chunk,            \* the most cells a chunk has
  MaxBacklog,       \* MAX_BACKLOG
  ResumeBacklog,    \* RESUME_BACKLOG
  MaxCalls          \* bound: calls of next

(* 64 KiB of headers are no more frames than MAX_BACKLOG. *)
ASSUME TsClientAssumption ==
  /\ FeedAssumption
  /\ Transports \subseteq {"tcp", "quic"}
  /\ Limit \in Nat
  /\ Chunk \in Nat \ {0}
  /\ MaxBacklog \in Nat
  /\ ResumeBacklog \in Nat
  /\ ResumeBacklog < MaxBacklog
  /\ Chunk <= MaxBacklog * HeaderLen
  /\ MaxCalls \in Nat

VARIABLES
  transport,
  pc,               \* "starting", "constructing" or "draining" in onData, "idle"
  buffer,
  at,               \* where the drain is in it
  pending,          \* calls of next that wait, as the functions that resolve them
  failed,           \* the same, as the functions that reject them
  queue,
  paused,
  error,
  done,
  answers,          \* what each call of next was answered
  flowing,          \* whether the socket flows, or the pump's gate is open
  pump,             \* "parked" at its gate, "reading", "ended"
  closed,           \* whether close was called on the transport
  asked             \* whether the consumer called close

calls == <<pending, failed, answers>>
wiring == <<flowing, pump, closed>>
vars == <<feed, transport, pc, buffer, at, calls, queue, paused, error, done, wiring, asked>>

-----------------------------------------------------------------------------

Reading == pc \in {"constructing", "draining"}

Rest == SubSeq(buffer, at + 1, Len(buffer))

(* The header the drain is at, once it is whole. *)
Leading == IF Len(Rest) < HeaderLen THEN {} ELSE {written[Rest[1].frame]}

TooLarge(header) == header.size > Limit

Whole(header) == ~TooLarge(header) /\ Len(Rest) >= HeaderLen + header.size

(* What drain throws on: a length, a payload or a body it does not accept. *)
Refused(header) ==
  \/ TooLarge(header)
  \/ Whole(header) /\ (header.codec # "zstd" \/ header.kind = "Failing")

Untrimmed == buffer    \* mutant: the frames drained stay in the buffer

(* buffer.subarray(at). *)
Trimmed == Rest

FullLate(backlog) == Len(backlog) > MaxBacklog    \* mutant: off by one

Full(backlog) == Len(backlog) >= MaxBacklog

NeverLow(backlog) == FALSE    \* mutant: the iterator does not call drained

Low(backlog) == Len(backlog) <= ResumeBacklog

Unshifted == failed    \* mutant: only the resolver is shifted

(* failed.shift(), on whatever is there. *)
Shifted == IF failed = <<>> THEN <<>> ELSE Tail(failed)

(* What a call of next is answered: an event, or one of the others. *)
Given(i) == [what |-> "event", frame |-> i]

Answer(what) == [what |-> what, frame |-> 0]

(* A promise settles once. *)
Settle(promises, outcome) ==
  answers' = [c \in DOMAIN answers |->
                IF c \in ToSet(promises) /\ answers[c] = Answer("waiting") THEN outcome ELSE answers[c]]

OnlyFirst(promises) ==    \* mutant: finish wakes one waiter
  IF promises = <<>> THEN <<>> ELSE <<Head(promises)>>

Everyone(promises) == promises

SettledByEnd == done    \* mutant: next does not look at the error

(* No call made now will be answered by an event. *)
Settled == error \/ done

-----------------------------------------------------------------------------

Init ==
  /\ FeedInit
  /\ transport \in Transports
  /\ pc = "starting"
  /\ buffer = <<>>
  /\ at = 0
  /\ pending = <<>>
  /\ failed = <<>>
  /\ queue = <<>>
  /\ paused = FALSE
  /\ error = FALSE
  /\ done = FALSE
  /\ answers = <<>>
  /\ flowing = TRUE
  /\ pump = IF transport = "tcp" THEN "reading" ELSE "parked"
  /\ closed = FALSE
  /\ asked = FALSE

(* The first n cells on the wire join the buffer, and drain begins. *)
Feeds(n, where) ==
  /\ buffer' = buffer \o SubSeq(wire, 1, n)
  /\ wire' = SubSeq(wire, n + 1, Len(wire))
  /\ pc' = where
  /\ UNCHANGED <<written, next, since, lost, open>>

(* The constructor, with what came in the handshake's last chunk behind its reply. *)
Construct ==
  /\ pc = "starting"
  /\ \E n \in 0..(Chunk - 1) :
       /\ n <= Len(wire)
       /\ Feeds(n, IF n = 0 THEN "idle" ELSE "constructing")
  /\ UNCHANGED <<transport, at, calls, queue, paused, error, done, wiring, asked>>

(* onData returns; the constructor then resumes the transport, paused or not. *)
Returns ==
  /\ pc' = "idle"
  /\ at' = 0

(* fail: only the first failure counts, and every waiter is rejected. *)
Fails ==
  IF error \/ done
  THEN UNCHANGED <<error, calls>>
  ELSE /\ error' = TRUE
       /\ Settle(failed, Answer("error"))
       /\ pending' = <<>>
       /\ failed' = <<>>

(* finish: every waiter is told it is over. *)
Finishes ==
  IF done
  THEN UNCHANGED <<done, calls>>
  ELSE /\ done' = TRUE
       /\ Settle(Everyone(pending), Answer("end"))
       /\ pending' = <<>>
       /\ failed' = <<>>

(* close: the gate of a QUIC pump opens, so that it can end. *)
Closes ==
  /\ closed' = TRUE
  /\ flowing' = (flowing \/ transport = "quic" \/ pc = "constructing")
  /\ UNCHANGED pump

-----------------------------------------------------------------------------
(* The drain *)

(* Nothing whole is left: what was drained is cut off. *)
Trim ==
  /\ Reading
  /\ \A header \in Leading : ~TooLarge(header) /\ ~Whole(header)
  /\ buffer' = Trimmed
  /\ Returns
  /\ flowing' = (flowing \/ pc = "constructing")
  /\ UNCHANGED <<feed, transport, calls, queue, paused, error, done, pump, closed, asked>>

(* drain throws: onData fails and closes, and nothing is cut off. *)
Throw ==
  /\ Reading
  /\ \E header \in Leading : Refused(header)
  /\ Fails
  /\ Closes
  /\ Returns
  /\ UNCHANGED <<feed, transport, buffer, queue, paused, done, asked>>

(* An Error or a mid-stream Dictionary fails and closes, and the drain goes on. *)
Refusal ==
  /\ Reading
  /\ \E header \in Leading :
       /\ Whole(header) /\ ~Refused(header)
       /\ header.kind = "Refusal"
       /\ at' = at + HeaderLen + header.size
  /\ Fails
  /\ closed' = TRUE
  /\ flowing' = (flowing \/ transport = "quic")
  /\ UNCHANGED <<feed, transport, pc, buffer, queue, paused, done, pump, asked>>

(* emit: the longest waiting call is answered, or the event is queued; a queue that
   has grown to its bound stops the transport. *)
HandOn(event) ==
  IF pending # <<>>
  THEN /\ Settle(<<Head(pending)>>, Given(event))
       /\ pending' = Tail(pending)
       /\ failed' = Shifted
       /\ UNCHANGED <<queue, paused, flowing>>
  ELSE /\ queue' = Append(queue, event)
       /\ failed' = Shifted
       /\ paused' = (paused \/ Full(queue'))
       /\ flowing' = (flowing /\ ~(Full(queue') /\ ~paused /\ (transport = "tcp" \/ ~closed)))
       /\ UNCHANGED <<pending, answers>>

Event ==
  /\ Reading
  /\ \E header \in Leading :
       /\ Whole(header) /\ ~Refused(header)
       /\ header.kind # "Refusal"
       /\ at' = at + HeaderLen + header.size
  /\ HandOn(Rest[1].frame)
  /\ UNCHANGED <<feed, transport, pc, buffer, error, done, pump, closed, asked>>

Drain == Trim \/ Throw \/ Refusal \/ Event

-----------------------------------------------------------------------------
(* The consumer *)

(* next, of the client or of its iterator. *)
Ask ==
  /\ pc = "idle"
  /\ Len(answers) < MaxCalls
  /\ \/ /\ queue # <<>>
        /\ queue' = Tail(queue)
        /\ answers' = Append(answers, Given(Head(queue)))
        /\ paused' = (paused /\ ~Low(queue'))
        /\ flowing' = (flowing \/ (paused /\ Low(queue')))
        /\ UNCHANGED <<pending, failed>>
     \/ /\ queue = <<>>
        /\ Settled
        /\ answers' = Append(answers, Answer(IF error THEN "error" ELSE "end"))
        /\ UNCHANGED <<queue, paused, flowing, pending, failed>>
     \/ /\ queue = <<>>
        /\ ~Settled
        /\ answers' = Append(answers, Answer("waiting"))
        /\ pending' = Append(pending, Len(answers'))
        /\ failed' = Append(failed, Len(answers'))
        /\ UNCHANGED <<queue, paused, flowing>>
  /\ UNCHANGED <<feed, transport, pc, buffer, at, error, done, pump, closed, asked>>

(* close, or the iterator's return. *)
Close ==
  /\ pc = "idle"
  /\ ~asked
  /\ asked' = TRUE
  /\ Closes
  /\ UNCHANGED <<feed, transport, pc, buffer, at, calls, queue, paused, error, done>>

-----------------------------------------------------------------------------
(* The transport *)

(* The QUIC pump passes its gate. *)
Pass ==
  /\ pc = "idle"
  /\ pump = "parked"
  /\ flowing
  /\ pump' = "reading"
  /\ UNCHANGED <<feed, transport, pc, buffer, at, calls, queue, paused, error, done, flowing,
                 closed, asked>>

(* A chunk arrives: for TCP while the socket flows and is not destroyed, for QUIC
   whenever a read is under way. *)
Data ==
  /\ pc = "idle"
  /\ pump = "reading"
  /\ transport = "tcp" => flowing /\ ~closed
  /\ \E n \in 1..Chunk : n <= Len(wire) /\ Feeds(n, "draining")
  /\ pump' = IF transport = "quic" THEN "parked" ELSE pump
  /\ UNCHANGED <<transport, at, calls, queue, paused, error, done, flowing, closed, asked>>

(* The transport is over: it was closed here, or the node's end was read to.  A QUIC
   pump that finds itself closed tells nobody. *)
Over ==
  /\ pc = "idle"
  /\ pump = "reading"
  /\ closed \/ (~open /\ wire = <<>> /\ flowing)
  /\ pump' = "ended"
  /\ IF transport = "quic" /\ closed THEN UNCHANGED <<done, calls>> ELSE Finishes
  /\ UNCHANGED <<feed, transport, pc, buffer, at, queue, paused, error, flowing, closed, asked>>

(* The connection fails; a TCP socket is destroyed by that, and then closes. *)
Break ==
  /\ pc = "idle"
  /\ pump # "ended"
  /\ ~closed
  /\ Fails
  /\ \/ /\ transport = "tcp"
        /\ closed' = TRUE
        /\ UNCHANGED pump
     \/ /\ transport = "quic"
        /\ pump = "reading"
        /\ pump' = "ended"
        /\ UNCHANGED closed
  /\ UNCHANGED <<feed, transport, pc, buffer, at, queue, paused, done, flowing, asked>>

Wire == Pass \/ Data \/ Over

(* What the node writes once the client's end is over reaches nobody. *)
Round ==
  /\ pump # "ended"
  /\ Node
  /\ UNCHANGED <<transport, pc, buffer, at, calls, queue, paused, error, done, wiring, asked>>

Next == Construct \/ Drain \/ Ask \/ Close \/ Wire \/ Break \/ Round

Spec == Init /\ [][Next]_vars

(* The event loop runs callbacks, the transport delivers, and the consumer asks again. *)
FairSpec ==
  Spec /\ WF_vars(Construct) /\ WF_vars(Drain) /\ WF_vars(Ask) /\ WF_vars(Wire)

-----------------------------------------------------------------------------
(* Properties *)

Answers == [what : {"event", "waiting", "error", "end"}, frame : 0..MaxFrames]

(* Every variable stays in its range; each waiting call can be both resolved and
   rejected. *)
TypeOK ==
  /\ pc \in {"starting", "constructing", "draining", "idle"}
  /\ at \in 0..Len(buffer)
  /\ pending = failed
  /\ \A i \in DOMAIN pending : answers[pending[i]] = Answer("waiting")
  /\ answers \in Seq(Answers)
  /\ pump \in {"parked", "reading", "ended"}
  /\ {paused, error, done, flowing, closed, asked} \subseteq BOOLEAN

(* The frames that become events. *)
Events == {i \in DOMAIN written : written[i].kind \notin {"Failing", "Refusal"}}

(* The calls an event answered, what they were answered with, and what is next. *)
Met == {c \in DOMAIN answers : answers[c].what = "event"}

Handed == {answers[c].frame : c \in Met}

Drained == Handed \cup ToSet(queue)

(* Chunks still come in order: a QUIC read under way when close is called may still
   bring one, onto a buffer that a throw left untrimmed. *)
InStream == transport = "tcp" \/ ~closed

(* The consumer's calls are answered in order with the events in order, none skipped,
   none twice, and the queue has the next ones (client.ts:609-735). *)
InOrder ==
  InStream =>
    /\ \A c, d \in Met : c < d => answers[c].frame < answers[d].frame
    /\ \A c \in Met, i \in DOMAIN queue : answers[c].frame < queue[i]
    /\ \A i, j \in DOMAIN queue : i < j => queue[i] < queue[j]
    /\ Drained \subseteq Events
    /\ \A i \in Drained, event \in Events : event < i => event \in Drained

(* Nobody waits for what is there: an event, a failure or the end. *)
NobodyWaits == pending # <<>> => queue = <<>> /\ ~error /\ ~done

(* A consumer that does not ask costs the backlog and what one chunk completes, however
   much the node writes (client.ts:645-664). *)
BacklogBounded == InStream => Len(queue) <= MaxBacklog + (Chunk - 1) \div HeaderLen

(* A consumer that goes on asking is given every event: a transport that was paused
   is resumed (client.ts:667-672). *)
Served ==
  \A i \in 1..MaxFrames \cap 1..MaxCalls :
    Len(written) >= i ~> i \in Handed \/ error \/ closed

Waits == \E c \in DOMAIN answers : answers[c] = Answer("waiting")

(* Over TCP every waiting call is answered once the connection is closed, by whichever
   end (client.ts:674-688). *)
TcpEnds == transport = "tcp" /\ (closed \/ ~open) ~> ~Waits

(* MankaShredsClient.close: "Closes the connection. The iterator ends." (client.ts:595) *)
IteratorEnds == asked ~> ~Waits

===============================================================================
