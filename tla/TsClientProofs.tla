---------------------------- MODULE TsClientProofs ----------------------------
(*****************************************************************************)
(* The two queues of waiting calls stay in step, no call waits for what is   *)
(* there, the backlog keeps its bound, and the calls are given the events in *)
(* order, over either transport and whatever the node writes.                *)
(*****************************************************************************)
EXTENDS TsClient, FeedProofs

Streams ==
  /\ written \in Seq(Frames) /\ Len(written) <= MaxFrames
  /\ wire \in Seq(FrameCells(written))
  /\ buffer \in Seq(FrameCells(written))
  /\ at \in 0..Len(buffer)
  /\ next \in Nat /\ since \in Nat

(* The calls that wait are told apart, and each of them waits. *)
Waiting(promises) ==
  /\ promises \in Seq(Nat)
  /\ \A i \in 1..Len(promises) :
       promises[i] \in 1..Len(answers) /\ answers[promises[i]] = Answer("waiting")
  /\ \A i, j \in 1..Len(promises) : promises[i] = promises[j] => i = j

Calls ==
  /\ answers \in Seq(Answers)
  /\ queue \in Seq(1..MaxFrames)
  /\ failed = pending
  /\ Waiting(pending)

Flags ==
  /\ pc \in {"starting", "constructing", "draining", "idle"}
  /\ pump \in {"parked", "reading", "ended"}
  /\ {paused, error, done, flowing, closed, asked} \subseteq BOOLEAN

IInv == Streams /\ Calls /\ Flags /\ NobodyWaits

-----------------------------------------------------------------------------
(* What the steps have in common *)

LEMMA Constants ==
  /\ FeedAssumption
  /\ HeaderLen \in Nat \ {0} /\ MaxFrames \in Nat /\ Chunk \in Nat \ {0}
BY TsClientAssumption DEF TsClientAssumption, FeedAssumption

(* Settling promises answers those that waited, and nobody else. *)
LEMMA Settles ==
  ASSUME answers \in Seq(Answers), NEW promises, NEW outcome \in Answers,
         Settle(promises, outcome)
  PROVE  /\ answers' \in Seq(Answers)
         /\ Len(answers') = Len(answers)
         /\ \A c \in 1..Len(answers) : c \notin ToSet(promises) => answers'[c] = answers[c]
<1>1. /\ Len(answers) \in Nat /\ DOMAIN answers = 1..Len(answers)
      /\ \A c \in 1..Len(answers) : answers[c] \in Answers
  BY LenProperties, ElementOfSeq
<1>2. answers' = [c \in 1..Len(answers) |->
                    IF c \in ToSet(promises) /\ answers[c] = Answer("waiting")
                    THEN outcome ELSE answers[c]]
  BY <1>1 DEF Settle
<1>3. answers' \in [1..Len(answers) -> Answers]
  BY <1>1, <1>2
<1>4. answers' \in Seq(Answers)
  BY <1>1, <1>3, SeqDef
<1>5. Len(answers') = Len(answers)
  BY <1>1, <1>3, <1>4, LenProperties
<1>6. QED
  BY <1>2, <1>4, <1>5

LEMMA AnswerTypes ==
  /\ \A what \in {"waiting", "error", "end"} : Answer(what) \in Answers
  /\ \A i \in 1..MaxFrames : Given(i) \in Answers
BY Constants DEF Answer, Given, Answers

LEMMA FailsKeeps ==
  ASSUME Calls, Flags, NobodyWaits, Fails, UNCHANGED <<queue, done>>
  PROVE  Calls' /\ NobodyWaits' /\ error' \in BOOLEAN
<1>1. CASE error \/ done
  BY <1>1 DEF Fails, calls, Calls, Waiting, NobodyWaits, Flags
<1>2. CASE ~(error \/ done)
  <2>1. error' = TRUE /\ Settle(failed, Answer("error")) /\ pending' = <<>> /\ failed' = <<>>
    BY <1>2 DEF Fails
  <2>2. answers' \in Seq(Answers)
    BY <2>1, Settles, AnswerTypes DEF Calls
  <2>3. Waiting(pending)'
    BY <2>1, EmptySeq DEF Waiting
  <2>4. QED
    BY <2>1, <2>2, <2>3 DEF Calls, NobodyWaits
<1>3. QED
  BY <1>1, <1>2

LEMMA FinishesKeeps ==
  ASSUME Calls, Flags, NobodyWaits, Finishes, UNCHANGED <<queue, error>>
  PROVE  Calls' /\ NobodyWaits' /\ done' \in BOOLEAN
<1>1. CASE done
  BY <1>1 DEF Finishes, calls, Calls, Waiting, NobodyWaits, Flags
<1>2. CASE ~done
  <2>1. done' = TRUE /\ Settle(Everyone(pending), Answer("end")) /\ pending' = <<>> /\ failed' = <<>>
    BY <1>2 DEF Finishes
  <2>2. answers' \in Seq(Answers)
    BY <2>1, Settles, AnswerTypes DEF Calls
  <2>3. Waiting(pending)'
    BY <2>1, EmptySeq DEF Waiting
  <2>4. QED
    BY <2>1, <2>2, <2>3 DEF Calls, NobodyWaits
<1>3. QED
  BY <1>1, <1>2

(* The event goes to the call that has waited longest, or onto the queue. *)
LEMMA HandOnKeeps ==
  ASSUME Calls, Flags, NobodyWaits, NEW event \in 1..MaxFrames, HandOn(event),
         UNCHANGED <<error, done>>
  PROVE  Calls' /\ NobodyWaits' /\ {paused', flowing'} \subseteq BOOLEAN
<1>1. CASE pending # <<>>
  <2>1. /\ Settle(<<Head(pending)>>, Given(event))
        /\ pending' = Tail(pending) /\ failed' = Shifted
        /\ UNCHANGED <<queue, paused, flowing>>
    BY <1>1 DEF HandOn
  <2>2. /\ pending \in Seq(Nat) /\ Len(pending) \in Nat \ {0}
        /\ \A i \in 1..Len(pending) :
             pending[i] \in 1..Len(answers) /\ answers[pending[i]] = Answer("waiting")
        /\ \A i, j \in 1..Len(pending) : pending[i] = pending[j] => i = j
    BY <1>1, EmptySeq DEF Calls, Waiting
  <2>3. /\ pending' \in Seq(Nat) /\ Len(pending') = Len(pending) - 1
        /\ \A i \in 1..Len(pending') : pending'[i] = pending[i + 1]
        /\ Head(pending) = pending[1]
    BY <1>1, <2>1, <2>2, HeadTailProperties
  <2>4. /\ answers' \in Seq(Answers) /\ Len(answers') = Len(answers)
        /\ \A c \in 1..Len(answers) : c # pending[1] => answers'[c] = answers[c]
    <3>1. ToSet(<<Head(pending)>>) = {pending[1]}
      BY <2>3 DEF ToSet
    <3>2. QED
      BY <2>1, <3>1, Settles, AnswerTypes DEF Calls
  <2>5. \A i \in 1..Len(pending') :
          i + 1 \in 1..Len(pending) /\ pending'[i] = pending[i + 1] /\ pending[i + 1] # pending[1]
    BY <2>2, <2>3
  <2>6. Waiting(pending)'
    <3>1. \A i \in 1..Len(pending') :
            pending'[i] \in 1..Len(answers') /\ answers'[pending'[i]] = Answer("waiting")
      <4> TAKE i \in 1..Len(pending')
      <4>1. PICK c \in 1..Len(answers) : c = pending'[i] /\ c # pending[1] /\ answers[c] = Answer("waiting")
        <5>1. PICK a \in 1..Len(pending) : pending'[i] = pending[a] /\ pending[a] # pending[1]
          BY <2>5
        <5>2. pending[a] \in 1..Len(answers) /\ answers[pending[a]] = Answer("waiting")
          BY <2>2
        <5>3. QED
          BY <5>1, <5>2
      <4>2. answers'[c] = answers[c] /\ c \in 1..Len(answers')
        BY <2>4, <4>1
      <4>3. QED
        BY <4>1, <4>2
    <3>2. ASSUME NEW i \in 1..Len(pending'), NEW j \in 1..Len(pending'), pending'[i] = pending'[j]
          PROVE  i = j
      <4>1. PICK a \in 1..Len(pending), b \in 1..Len(pending) :
              a = i + 1 /\ b = j + 1 /\ pending[a] = pending[b]
        <5>1. PICK a \in 1..Len(pending) : a = i + 1 /\ pending'[i] = pending[a]
          BY <2>5
        <5>2. PICK b \in 1..Len(pending) : b = j + 1 /\ pending'[j] = pending[b]
          BY <2>5
        <5>3. QED
          BY <3>2, <5>1, <5>2
      <4>2. a = b
        BY <2>2, <4>1
      <4>3. QED
        BY <4>1, <4>2
    <3>3. QED
      BY <2>3, <3>1, <3>2 DEF Waiting
  <2>7. failed' = pending'
    BY <1>1, <2>1 DEF Shifted, Calls
  <2>8. Calls' /\ NobodyWaits'
    BY <1>1, <2>1, <2>4, <2>6, <2>7 DEF Calls, NobodyWaits
  <2>9. QED
    BY <2>1, <2>8 DEF Flags
<1>2. CASE pending = <<>>
  <2>1. /\ queue' = Append(queue, event) /\ failed' = Shifted
        /\ paused' = (paused \/ Full(queue'))
        /\ flowing' = (flowing /\ ~(Full(queue') /\ ~paused /\ (transport = "tcp" \/ ~closed)))
        /\ UNCHANGED <<pending, answers>>
    BY <1>2 DEF HandOn
  <2>2. queue' \in Seq(1..MaxFrames)
    BY <2>1, AppendProperties DEF Calls
  <2>3. failed' = pending'
    BY <1>2, <2>1 DEF Shifted, Calls
  <2>4. Calls' /\ NobodyWaits'
    BY <1>2, <2>1, <2>2, <2>3 DEF Calls, Waiting, NobodyWaits
  <2>5. paused' \in BOOLEAN /\ flowing' \in BOOLEAN
    BY <2>1
  <2>6. QED
    BY <2>4, <2>5
<1>3. QED
  BY <1>1, <1>2

(* Nothing is taken off a chunk and nothing added. *)
LEMMA StreamsKept ==
  ASSUME Streams, UNCHANGED <<feed, buffer, at>>
  PROVE  Streams'
BY DEF Streams, feed

LEMMA CallsKept ==
  ASSUME Calls, NobodyWaits, UNCHANGED <<calls, queue, error, done>>
  PROVE  Calls' /\ NobodyWaits'
BY DEF Calls, Waiting, NobodyWaits, calls

(* What the drain has yet to look at. *)
LEMMA RestType ==
  ASSUME Streams
  PROVE  /\ Rest \in Seq(FrameCells(written))
         /\ Len(Rest) = Len(buffer) - at /\ Len(Rest) \in Nat
         /\ Len(buffer) \in Nat /\ at \in Nat
<1>1. /\ buffer \in Seq(FrameCells(written)) /\ Len(buffer) \in Nat /\ at \in 0..Len(buffer)
  BY LenProperties DEF Streams
<1>2. \A i \in (at + 1)..Len(buffer) : buffer[i] \in FrameCells(written)
  <2>1. \A i \in (at + 1)..Len(buffer) : i \in 1..Len(buffer)
    BY <1>1
  <2>2. QED
    BY <1>1, <2>1, ElementOfSeq
<1>3. /\ Rest \in Seq(FrameCells(written))
      /\ Len(Rest) = IF at + 1 <= Len(buffer) THEN Len(buffer) - (at + 1) + 1 ELSE 0
  <2>1. at + 1 \in Int /\ Len(buffer) \in Int
    BY <1>1
  <2>2. QED
    BY <1>2, <2>1, SubSeqProperties DEF Rest
<1>4. QED
  BY <1>1, <1>3

(* A whole frame the drain is at ends within the buffer. *)
LEMMA LeadingType ==
  ASSUME Streams, NEW header \in Leading
  PROVE  /\ Rest[1].frame \in 1..MaxFrames
         /\ header \in Frames
         /\ Whole(header) => at + HeaderLen + header.size \in 0..Len(buffer)
<1>1. Len(Rest) \in Nat /\ Len(Rest) >= HeaderLen /\ header = written[Rest[1].frame]
  BY RestType, Constants DEF Leading
<1>2. Rest[1] \in FrameCells(written)
  BY <1>1, RestType, ElementOfSeq, Constants
<1>3. Rest[1].frame \in 1..Len(written) /\ Len(written) \in Nat
  BY <1>2, LenProperties DEF FrameCells, Streams
<1>4. header \in Frames
  BY <1>1, <1>3, ElementOfSeq DEF Streams
<1>5. header.size \in Nat
  BY <1>4 DEF Frames
<1>6. Whole(header) => at + HeaderLen + header.size \in 0..Len(buffer)
  BY <1>5, RestType, Constants DEF Whole
<1>7. Rest[1].frame \in 1..MaxFrames
  BY <1>3, Constants DEF Streams
<1>8. QED
  BY <1>4, <1>6, <1>7

(* Cells move from the wire to the buffer. *)
LEMMA FeedsKeeps ==
  ASSUME Streams, NEW n \in Nat, n <= Len(wire), NEW where, Feeds(n, where), at' = at
  PROVE  Streams'
<1> DEFINE K == FrameCells(written)
<1>1. /\ wire \in Seq(K) /\ Len(wire) \in Nat /\ buffer \in Seq(K) /\ Len(buffer) \in Nat
      /\ at \in 0..Len(buffer)
  BY LenProperties DEF Streams
<1> HIDE DEF K
<1>2. /\ SubSeq(wire, 1, n) \in Seq(K) /\ Len(SubSeq(wire, 1, n)) \in Nat
      /\ SubSeq(wire, n + 1, Len(wire)) \in Seq(K)
  <2>1. n \in 0..Len(wire)
    BY <1>1
  <2>2. QED
    BY <1>1, <2>1, Parted
<1>3. /\ buffer \o SubSeq(wire, 1, n) \in Seq(K)
      /\ Len(buffer \o SubSeq(wire, 1, n)) = Len(buffer) + Len(SubSeq(wire, 1, n))
  BY <1>1, <1>2, ConcatProperties
<1>4. /\ buffer' = buffer \o SubSeq(wire, 1, n)
      /\ wire' = SubSeq(wire, n + 1, Len(wire))
      /\ UNCHANGED <<written, next, since>>
  BY DEF Feeds
<1>5. at' \in 0..Len(buffer')
  BY <1>1, <1>2, <1>3, <1>4
<1>6. QED
  BY <1>2, <1>3, <1>4, <1>5 DEF Streams, K

-----------------------------------------------------------------------------
(* The steps *)

LEMMA ConstructKeeps ==
  ASSUME IInv, Construct
  PROVE  IInv'
<1>1. PICK n \in 0..(Chunk - 1) : n <= Len(wire) /\ Feeds(n, IF n = 0 THEN "idle" ELSE "constructing")
  BY DEF Construct
<1>2. UNCHANGED <<transport, at, calls, queue, paused, error, done, wiring, asked>>
  BY DEF Construct
<1>3. Streams'
  <2>1. n \in Nat
    BY <1>1, Constants
  <2>2. QED
    BY <1>1, <1>2, <2>1, FeedsKeeps DEF IInv
<1>4. Calls' /\ NobodyWaits'
  BY <1>2, CallsKept DEF IInv
<1>5. Flags'
  BY <1>1, <1>2 DEF IInv, Flags, Feeds, wiring
<1>6. QED
  BY <1>3, <1>4, <1>5 DEF IInv

LEMMA TrimKeeps ==
  ASSUME IInv, Trim
  PROVE  IInv'
<1>1. /\ buffer' = Rest /\ at' = 0 /\ pc' = "idle"
      /\ flowing' = (flowing \/ pc = "constructing")
      /\ UNCHANGED <<feed, transport, calls, queue, paused, error, done, pump, closed, asked>>
  BY DEF Trim, Trimmed, Returns
<1>2. Streams'
  <2>1. Rest \in Seq(FrameCells(written)) /\ Len(Rest) \in Nat
    BY RestType DEF IInv
  <2>2. QED
    BY <1>1, <2>1 DEF IInv, Streams, feed
<1>3. Calls' /\ NobodyWaits'
  BY <1>1, CallsKept DEF IInv
<1>4. Flags'
  BY <1>1 DEF IInv, Flags
<1>5. QED
  BY <1>2, <1>3, <1>4 DEF IInv

LEMMA ThrowKeeps ==
  ASSUME IInv, Throw
  PROVE  IInv'
<1>1. /\ Fails /\ closed' = TRUE
      /\ flowing' = (flowing \/ transport = "quic" \/ pc = "constructing")
      /\ UNCHANGED pump /\ pc' = "idle" /\ at' = 0
      /\ UNCHANGED <<feed, transport, buffer, queue, paused, done, asked>>
  BY DEF Throw, Closes, Returns
<1>2. Streams'
  BY <1>1, LenProperties DEF IInv, Streams, feed
<1>3. Calls' /\ NobodyWaits' /\ error' \in BOOLEAN
  BY <1>1, FailsKeeps DEF IInv
<1>4. Flags'
  BY <1>1, <1>3 DEF IInv, Flags
<1>5. QED
  BY <1>2, <1>3, <1>4 DEF IInv

LEMMA RefusalKeeps ==
  ASSUME IInv, Refusal
  PROVE  IInv'
<1>1. PICK header \in Leading : Whole(header) /\ at' = at + HeaderLen + header.size
  BY DEF Refusal
<1>2. /\ Fails /\ closed' = TRUE /\ flowing' = (flowing \/ transport = "quic")
      /\ UNCHANGED <<feed, transport, pc, buffer, queue, paused, done, pump, asked>>
  BY DEF Refusal
<1>3. Streams'
  <2>1. at' \in 0..Len(buffer)
    BY <1>1, LeadingType DEF IInv
  <2>2. QED
    BY <1>2, <2>1 DEF IInv, Streams, feed
<1>4. Calls' /\ NobodyWaits' /\ error' \in BOOLEAN
  BY <1>2, FailsKeeps DEF IInv
<1>5. Flags'
  BY <1>2, <1>4 DEF IInv, Flags
<1>6. QED
  BY <1>3, <1>4, <1>5 DEF IInv

LEMMA EventKeeps ==
  ASSUME IInv, Event
  PROVE  IInv'
<1>1. PICK header \in Leading : Whole(header) /\ at' = at + HeaderLen + header.size
  BY DEF Event
<1>2. /\ HandOn(Rest[1].frame)
      /\ UNCHANGED <<feed, transport, pc, buffer, error, done, pump, closed, asked>>
  BY DEF Event
<1>3. Streams'
  <2>1. at' \in 0..Len(buffer)
    BY <1>1, LeadingType DEF IInv
  <2>2. QED
    BY <1>2, <2>1 DEF IInv, Streams, feed
<1>4. Calls' /\ NobodyWaits' /\ {paused', flowing'} \subseteq BOOLEAN
  BY <1>1, <1>2, LeadingType, HandOnKeeps DEF IInv
<1>5. Flags'
  BY <1>2, <1>4 DEF IInv, Flags
<1>6. QED
  BY <1>3, <1>4, <1>5 DEF IInv

LEMMA AskKeeps ==
  ASSUME IInv, Ask
  PROVE  IInv'
<1>1. /\ UNCHANGED <<feed, transport, pc, buffer, at, error, done, pump, closed, asked>>
      /\ Streams'
  BY StreamsKept DEF Ask, IInv
<1>2. /\ answers \in Seq(Answers) /\ queue \in Seq(1..MaxFrames) /\ failed = pending
      /\ pending \in Seq(Nat) /\ Len(answers) \in Nat /\ Len(pending) \in Nat
      /\ \A i \in 1..Len(pending) :
           pending[i] \in 1..Len(answers) /\ answers[pending[i]] = Answer("waiting")
      /\ \A i, j \in 1..Len(pending) : pending[i] = pending[j] => i = j
  BY LenProperties DEF IInv, Calls, Waiting
(* One answer more leaves those that wait waiting. *)
<1>3. ASSUME NEW answer \in Answers, answers' = Append(answers, answer)
      PROVE  /\ answers' \in Seq(Answers) /\ Len(answers') = Len(answers) + 1
             /\ answers'[Len(answers) + 1] = answer
             /\ \A i \in 1..Len(pending) :
                  pending[i] \in 1..Len(answers) /\ answers'[pending[i]] = Answer("waiting")
  BY <1>2, <1>3, AppendProperties
<1>4. CASE /\ queue # <<>>
           /\ queue' = Tail(queue)
           /\ answers' = Append(answers, Given(Head(queue)))
           /\ paused' = (paused /\ ~Low(queue'))
           /\ flowing' = (flowing \/ (paused /\ Low(queue')))
           /\ UNCHANGED <<pending, failed>>
  <2>1. Head(queue) \in 1..MaxFrames /\ queue' \in Seq(1..MaxFrames)
    BY <1>2, <1>4, HeadTailProperties
  <2>2. Given(Head(queue)) \in Answers
    BY <2>1, AnswerTypes
  <2>3. Waiting(pending)' /\ answers' \in Seq(Answers)
    BY <1>2, <1>3, <1>4, <2>2 DEF Waiting
  <2>4. Calls'
    BY <1>2, <1>4, <2>1, <2>3 DEF Calls
  <2>5. pending = <<>>
    BY <1>4 DEF IInv, NobodyWaits
  <2>6. NobodyWaits'
    BY <1>4, <2>5 DEF NobodyWaits
  <2>7. paused' \in BOOLEAN /\ flowing' \in BOOLEAN
    BY <1>4
  <2>8. Flags'
    BY <1>1, <2>7 DEF IInv, Flags
  <2>9. QED
    BY <1>1, <2>4, <2>6, <2>8 DEF IInv
<1>5. CASE /\ queue = <<>>
           /\ Settled
           /\ answers' = Append(answers, Answer(IF error THEN "error" ELSE "end"))
           /\ UNCHANGED <<queue, paused, flowing, pending, failed>>
  <2>1. Answer(IF error THEN "error" ELSE "end") \in Answers
    BY AnswerTypes
  <2>2. Waiting(pending)' /\ answers' \in Seq(Answers)
    BY <1>2, <1>3, <1>5, <2>1 DEF Waiting
  <2>3. Calls'
    BY <1>2, <1>5, <2>2 DEF Calls
  <2>4. NobodyWaits' /\ Flags'
    BY <1>1, <1>5 DEF IInv, NobodyWaits, Flags
  <2>5. QED
    BY <1>1, <2>3, <2>4 DEF IInv
<1>6. CASE /\ queue = <<>>
           /\ ~Settled
           /\ answers' = Append(answers, Answer("waiting"))
           /\ pending' = Append(pending, Len(answers'))
           /\ failed' = Append(failed, Len(answers'))
           /\ UNCHANGED <<queue, paused, flowing>>
  <2>1. /\ answers' \in Seq(Answers) /\ Len(answers') = Len(answers) + 1
        /\ answers'[Len(answers) + 1] = Answer("waiting")
        /\ \A i \in 1..Len(pending) :
             pending[i] \in 1..Len(answers) /\ answers'[pending[i]] = Answer("waiting")
    BY <1>3, <1>6, AnswerTypes
  <2>2. /\ pending' \in Seq(Nat) /\ Len(pending') = Len(pending) + 1
        /\ \A i \in 1..Len(pending) : pending'[i] = pending[i]
        /\ pending'[Len(pending) + 1] = Len(answers) + 1
    BY <1>2, <1>6, <2>1, AppendProperties
  <2>3. ASSUME NEW i \in 1..Len(pending')
        PROVE  pending'[i] \in 1..Len(answers') /\ answers'[pending'[i]] = Answer("waiting")
    <3>1. CASE i \in 1..Len(pending)
      <4>1. PICK c \in 1..Len(answers) : c = pending[i] /\ answers'[c] = Answer("waiting")
        BY <2>1, <3>1
      <4>2. pending'[i] = c /\ c \in 1..Len(answers')
        BY SMTT(30), <1>2, <2>1, <2>2, <3>1, <4>1
      <4>3. QED
        BY <4>1, <4>2
    <3>2. CASE i = Len(pending) + 1
      BY <1>2, <2>1, <2>2, <3>2
    <3>3. QED
      BY <1>2, <2>2, <3>1, <3>2
  <2>4. ASSUME NEW i \in 1..Len(pending'), NEW j \in 1..Len(pending'), pending'[i] = pending'[j]
        PROVE  i = j
    <3>1. ASSUME NEW k \in 1..Len(pending)
          PROVE  pending'[k] # Len(answers) + 1
      <4>1. PICK c \in 1..Len(answers) : c = pending[k]
        BY <1>2
      <4>2. c # Len(answers) + 1
        BY <1>2
      <4>3. QED
        BY <2>2, <4>1, <4>2
    <3>2. i \in 1..Len(pending) \/ i = Len(pending) + 1
      BY <1>2, <2>2
    <3>3. j \in 1..Len(pending) \/ j = Len(pending) + 1
      BY <1>2, <2>2
    <3>4. QED
      BY <1>2, <2>2, <2>4, <3>1, <3>2, <3>3
  <2>5. Calls'
    BY <1>2, <1>6, <2>1, <2>2, <2>3, <2>4 DEF Calls, Waiting
  <2>6. NobodyWaits' /\ Flags'
    BY <1>1, <1>6 DEF IInv, NobodyWaits, Flags, Settled
  <2>7. QED
    BY <1>1, <2>5, <2>6 DEF IInv
<1>7. QED
  BY <1>4, <1>5, <1>6 DEF Ask

LEMMA CloseKeeps ==
  ASSUME IInv, Close
  PROVE  IInv'
<1>1. /\ closed' = TRUE /\ asked' = TRUE
      /\ flowing' = (flowing \/ transport = "quic" \/ pc = "constructing")
      /\ UNCHANGED <<feed, transport, pc, buffer, at, calls, queue, paused, error, done, pump>>
  BY DEF Close, Closes
<1>2. Streams' /\ Calls' /\ NobodyWaits'
  BY <1>1, StreamsKept, CallsKept DEF IInv
<1>3. Flags'
  BY <1>1 DEF IInv, Flags
<1>4. QED
  BY <1>2, <1>3 DEF IInv

LEMMA PassKeeps ==
  ASSUME IInv, Pass
  PROVE  IInv'
<1>1. /\ pump' = "reading"
      /\ UNCHANGED <<feed, transport, pc, buffer, at, calls, queue, paused, error, done, flowing,
                     closed, asked>>
  BY DEF Pass
<1>2. Streams' /\ Calls' /\ NobodyWaits'
  BY <1>1, StreamsKept, CallsKept DEF IInv
<1>3. Flags'
  BY <1>1 DEF IInv, Flags
<1>4. QED
  BY <1>2, <1>3 DEF IInv

LEMMA DataKeeps ==
  ASSUME IInv, Data
  PROVE  IInv'
<1>1. PICK n \in 1..Chunk : n <= Len(wire) /\ Feeds(n, "draining")
  BY DEF Data
<1>2. /\ pump = "reading" /\ pump' = IF transport = "quic" THEN "parked" ELSE pump
      /\ UNCHANGED <<transport, at, calls, queue, paused, error, done, flowing, closed, asked>>
  BY DEF Data
<1>3. Streams'
  <2>1. n \in Nat
    BY <1>1, Constants
  <2>2. QED
    BY <1>1, <1>2, <2>1, FeedsKeeps DEF IInv
<1>4. Calls' /\ NobodyWaits'
  BY <1>2, CallsKept DEF IInv
<1>5. Flags'
  BY <1>1, <1>2 DEF IInv, Flags, Feeds
<1>6. QED
  BY <1>3, <1>4, <1>5 DEF IInv

LEMMA OverKeeps ==
  ASSUME IInv, Over
  PROVE  IInv'
<1>1. /\ pump' = "ended"
      /\ UNCHANGED <<feed, transport, pc, buffer, at, queue, paused, error, flowing, closed, asked>>
      /\ UNCHANGED <<done, calls>> \/ Finishes
  BY DEF Over
<1>2. Streams'
  BY <1>1, StreamsKept DEF IInv
<1>3. Calls' /\ NobodyWaits' /\ done' \in BOOLEAN
  <2>1. CASE UNCHANGED <<done, calls>>
    BY <1>1, <2>1, CallsKept DEF IInv, Flags
  <2>2. CASE Finishes
    BY <1>1, <2>2, FinishesKeeps DEF IInv
  <2>3. QED
    BY <1>1, <2>1, <2>2
<1>4. Flags'
  BY <1>1, <1>3 DEF IInv, Flags
<1>5. QED
  BY <1>2, <1>3, <1>4 DEF IInv

LEMMA BreakKeeps ==
  ASSUME IInv, Break
  PROVE  IInv'
<1>1. /\ Fails
      /\ closed' = TRUE \/ closed' = closed
      /\ pump' = pump \/ pump' = "ended"
      /\ UNCHANGED <<feed, transport, pc, buffer, at, queue, paused, done, flowing, asked>>
  BY DEF Break
<1>2. Streams'
  BY <1>1, StreamsKept DEF IInv
<1>3. Calls' /\ NobodyWaits' /\ error' \in BOOLEAN
  BY <1>1, FailsKeeps DEF IInv
<1>4. closed' \in BOOLEAN
  BY <1>1 DEF IInv, Flags
<1>5. Flags'
  BY <1>1, <1>3, <1>4 DEF IInv, Flags
<1>6. QED
  BY <1>2, <1>3, <1>5 DEF IInv

LEMMA RoundKeeps ==
  ASSUME IInv, Round
  PROVE  IInv'
<1>1. UNCHANGED <<transport, pc, buffer, at, calls, queue, paused, error, done, wiring, asked>>
  BY DEF Round
<1>2. Calls' /\ NobodyWaits' /\ Flags'
  BY <1>1, CallsKept DEF IInv, Flags, wiring
<1>3. /\ next' \in Nat /\ since' \in Nat
      /\ (written' = written /\ wire' = wire) \/ Writing(written', wire')
  BY NodeWrites, Constants DEF Round, IInv, Streams
<1>4. CASE written' = written /\ wire' = wire
  BY <1>1, <1>2, <1>3, <1>4 DEF IInv, Streams
<1>5. CASE Writing(written', wire')
  <2>1. PICK frame \in Frames :
          /\ Len(written) < MaxFrames
          /\ written' = Append(written, frame)
          /\ wire' = wire \o CellsOf(Len(written) + 1, frame)
    BY <1>5 DEF Writing
  <2> DEFINE K == FrameCells(written')
  <2>2. /\ written' \in Seq(Frames) /\ Len(written') = Len(written) + 1
        /\ Len(written) \in Nat /\ FrameCells(written) \subseteq K
        /\ CellsOf(Len(written) + 1, frame) \in Seq(K)
    BY <2>1, LenProperties, FrameAdded, Constants DEF IInv, Streams
  <2>3. wire \in Seq(K) /\ buffer \in Seq(K)
    BY <2>2, SeqMonotonic DEF IInv, Streams
  <2>4. Len(written') <= MaxFrames
    BY <2>1, <2>2, Constants
  <2>5. wire' \in Seq(K)
    BY <2>1, <2>2, <2>3, ConcatProperties
  <2>6. Streams'
    BY <1>1, <1>3, <2>2, <2>3, <2>4, <2>5 DEF IInv, Streams
  <2>7. QED
    BY <1>2, <2>6 DEF IInv
<1>6. QED
  BY <1>3, <1>4, <1>5

LEMMA NextKeeps == IInv /\ [Next]_vars => IInv'
<1> SUFFICES ASSUME IInv, [Next]_vars
             PROVE  IInv'
  OBVIOUS
<1>1. CASE UNCHANGED vars
  <2>1. Streams' /\ Calls' /\ NobodyWaits'
    BY <1>1, StreamsKept, CallsKept DEF vars, IInv
  <2>2. Flags'
    BY <1>1 DEF vars, wiring, IInv, Flags
  <2>3. QED
    BY <2>1, <2>2 DEF IInv
<1>2. CASE Next
  BY <1>2, ConstructKeeps, TrimKeeps, ThrowKeeps, RefusalKeeps, EventKeeps, AskKeeps, CloseKeeps,
     PassKeeps, DataKeeps, OverKeeps, BreakKeeps, RoundKeeps
  DEF Next, Drain, Wire
<1>3. QED
  BY <1>1, <1>2

LEMMA InitHolds == Init => IInv
<1> SUFFICES ASSUME Init
             PROVE  IInv
  OBVIOUS
<1>1. /\ \A S : <<>> \in Seq(S)
      /\ Len(<<>>) = 0
  BY EmptySeq
<1>2. Streams
  BY <1>1, Constants DEF Init, FeedInit, Streams
<1>3. Calls /\ NobodyWaits
  BY <1>1 DEF Init, Calls, Waiting, NobodyWaits
<1>4. Flags
  BY DEF Init, Flags
<1>5. QED
  BY <1>2, <1>3, <1>4 DEF IInv

LEMMA Invariance == Spec => []IInv
BY InitHolds, NextKeeps, PTL DEF Spec

-----------------------------------------------------------------------------
(* The results *)

(* Every variable stays in its range; resolvers and rejecters stay in step, and every
   call that is waiting can be both resolved and rejected (client.ts:609-688). *)
THEOREM TypeCorrect == Spec => []TypeOK
<1>1. ASSUME IInv PROVE TypeOK
  <2>1. DOMAIN pending = 1..Len(pending)
    BY <1>1, LenProperties DEF IInv, Calls, Waiting
  <2>2. QED
    BY <1>1, <2>1 DEF IInv, Streams, Calls, Waiting, Flags, TypeOK
<1>2. QED
  BY <1>1, Invariance, PTL

(* No call of next waits while there is an event, a failure or the end to answer it
   with, whatever callbacks come in between (client.ts:609-735). *)
THEOREM WaitsForNothing == Spec => []NobodyWaits
BY Invariance, PTL DEF IInv

-----------------------------------------------------------------------------
(* BacklogBounded.  The transport is not paused while it delivers, so a chunk finds
   less than the bound on the queue; and a chunk completes at most one frame that was
   begun before it, and those it has all the headers of. *)

Gate ==
  /\ transport \in {"tcp", "quic"}
  /\ ~paused => Len(queue) < MaxBacklog
  /\ flowing /\ ~closed => ~paused
  /\ transport = "quic" /\ pump = "reading" => pc = "idle" /\ (~closed => ~paused)
  /\ pc = "starting" => ~closed /\ at = 0 /\ buffer = <<>> /\ queue = <<>> /\ ~paused
  /\ pc = "idle" => at = 0
  /\ pc = "constructing" => /\ ~paused /\ Len(buffer) <= Chunk - 1
                            /\ Len(queue) * HeaderLen <= at

(* The first frame in the buffer has more cells than b. *)
Begun(b) == buffer # <<>> /\ b < Extent(written[buffer[1].frame])

(* The chunk came onto b cells, and k frames were taken since. *)
Taken(b, k) ==
  /\ Len(buffer) <= b + Chunk
  /\ Len(queue) <= MaxBacklog - 1 + k
  /\ k = 0 => at = 0 /\ Begun(b)
  /\ k > 0 => b + 1 + (k - 1) * HeaderLen <= at

Backlog ==
  /\ Gate
  /\ InStream /\ pc = "draining" => \E b, k \in Nat : Taken(b, k)
  /\ InStream /\ pc = "idle" /\ ~closed /\ buffer # <<>> => Begun(Len(buffer))
  /\ BacklogBounded

(* h headers take more room than k when there is not room for h. *)
LEMMA FewHeaders ==
  ASSUME NEW k \in Nat, NEW h \in Nat, NEW m \in Nat \ {0}, k * m < h * m
  PROVE  k < h
<1>1. ASSUME h <= k
      PROVE  FALSE
  <2>1. PICK d \in Nat : k = h + d
    <3>1. k - h \in Nat /\ k = h + (k - h)
      BY <1>1
    <3>2. QED
      BY <3>1
  <2>2. k * m = h * m + d * m /\ d * m \in Nat /\ h * m \in Nat
    BY <2>1
  <2>3. QED
    BY <2>2
<1>2. QED
  BY <1>1

LEMMA MoreHeaders ==
  ASSUME NEW k \in Nat, NEW l \in Nat, NEW m \in Nat, NEW a \in Nat, NEW b \in Nat,
         l <= k + 1, k * m <= a, a + m <= b
  PROVE  l * m <= b
<1>1. (k + 1) * m = k * m + m /\ k * m \in Nat /\ l * m \in Nat
  OBVIOUS
<1>2. l * m <= (k + 1) * m
  <2>1. PICK d \in Nat : k + 1 = l + d
    <3>1. k + 1 - l \in Nat /\ k + 1 = l + (k + 1 - l)
      OBVIOUS
    <3>2. QED
      BY <3>1
  <2>2. (l + d) * m = l * m + d * m /\ d * m \in Nat
    OBVIOUS
  <2>3. QED
    BY <1>1, <2>1, <2>2
<1>3. QED
  BY <1>1, <1>2

LEMMA Quotient ==
  ASSUME NEW k \in Nat, NEW c \in Nat, NEW m \in Nat \ {0}, k * m <= c
  PROVE  k <= c \div m
<1>1. /\ c \div m \in Nat
      /\ c < (c \div m + 1) * m
  OBVIOUS
<1>2. k * m < (c \div m + 1) * m
  BY <1>1
<1>3. k < c \div m + 1
  BY <1>1, <1>2, FewHeaders
<1>4. QED
  BY <1>1, <1>3

(* What a frame taken uses up. *)
LEMMA LeadingExtent ==
  ASSUME Streams, NEW header \in Leading
  PROVE  /\ buffer # <<>> /\ Len(Rest) > 0 /\ Rest[1] = buffer[at + 1]
         /\ header = written[Rest[1].frame]
         /\ Extent(header) = HeaderLen + header.size /\ Extent(header) \in Nat
         /\ Extent(header) >= HeaderLen /\ header.size \in Nat
<1>1. /\ Len(Rest) = Len(buffer) - at /\ Len(Rest) \in Nat /\ Len(buffer) \in Nat /\ at \in Nat
  BY RestType
<1>2. Len(Rest) >= HeaderLen /\ header = written[Rest[1].frame]
  BY <1>1, Constants DEF Leading
<1>3. Len(Rest) > 0
  BY <1>1, <1>2, Constants
<1>4. Rest[1] = buffer[at + 1]
  BY <1>1, <1>3 DEF Rest
<1>5. header \in Frames
  BY LeadingType
<1>6. header.size \in Nat
  BY <1>5 DEF Frames
<1>7. buffer # <<>>
  <2>1. Len(buffer) > 0
    BY <1>1, <1>3
  <2>2. QED
    BY <2>1, EmptySeq
<1>8. QED
  BY <1>2, <1>3, <1>4, <1>6, <1>7, Constants DEF Extent

LEMMA HandOnBounded ==
  ASSUME IInv, Gate, NEW event, HandOn(event), UNCHANGED closed
  PROVE  /\ Len(queue') \in Nat /\ Len(queue) \in Nat /\ Len(queue') <= Len(queue) + 1
         /\ ~paused' => Len(queue') < MaxBacklog
         /\ flowing' /\ ~closed' => ~paused'
         /\ ~paused' => ~paused
         /\ ~paused /\ paused' => Len(queue') >= MaxBacklog
<1>1. queue \in Seq(1..MaxFrames) /\ Len(queue) \in Nat
  BY DEF IInv, Calls
<1>2. CASE pending # <<>>
  BY <1>1, <1>2 DEF HandOn, Gate
<1>3. CASE pending = <<>>
  <2>1. /\ queue' = Append(queue, event)
        /\ paused' = (paused \/ Full(queue'))
        /\ flowing' = (flowing /\ ~(Full(queue') /\ ~paused /\ (transport = "tcp" \/ ~closed)))
    BY <1>3 DEF HandOn
  <2>2. Len(queue') = Len(queue) + 1
    BY <1>1, <2>1
  <2>3. Full(queue') <=> Len(queue') >= MaxBacklog
    BY DEF Full
  <2>4. ~paused' => ~paused /\ ~Full(queue')
    BY <2>1
  <2>5. flowing' /\ ~closed' => ~paused'
    BY <2>1 DEF Gate
  <2>6. ~paused /\ paused' => Full(queue')
    BY <2>1
  <2>7. MaxBacklog \in Nat
    BY TsClientAssumption DEF TsClientAssumption
  <2>8. QED
    BY <1>1, <2>2, <2>3, <2>4, <2>5, <2>6, <2>7
<1>4. QED
  BY <1>2, <1>3

LEMMA GateKeeps ==
  ASSUME IInv, IInv', Gate, [Next]_vars
  PROVE  Gate'
<1> USE DEF IInv, Flags
<1>0. /\ MaxBacklog \in Nat \ {0} /\ Chunk <= MaxBacklog * HeaderLen /\ ResumeBacklog < MaxBacklog
      /\ ResumeBacklog \in Nat /\ Chunk \in Nat \ {0} /\ HeaderLen \in Nat \ {0}
      /\ Len(queue) \in Nat /\ at \in Nat /\ Len(buffer) \in Nat
      /\ queue \in Seq(1..MaxFrames) /\ wire \in Seq(FrameCells(written))
      /\ buffer \in Seq(FrameCells(written))
  BY SMTT(20), TsClientAssumption, Constants, RestType DEF TsClientAssumption, FeedAssumption, Calls, Streams
<1>1. CASE Construct
  <2>1. PICK n \in 0..(Chunk - 1) : n <= Len(wire) /\ Feeds(n, IF n = 0 THEN "idle" ELSE "constructing")
    BY <1>1 DEF Construct
  <2>2. /\ UNCHANGED <<transport, at, queue, paused, flowing, pump, closed>> /\ pc = "starting"
    BY <1>1 DEF Construct, wiring
  <2>3. buffer' = <<>> \o SubSeq(wire, 1, n) /\ pc' \in {"idle", "constructing"}
    BY <2>1, <2>2 DEF Feeds, Gate
  <2>4. Len(buffer') = n
    BY <1>0, <2>1, <2>3
  <2>5. Len(queue) = 0 /\ at = 0
    BY <2>2 DEF Gate
  <2>6. QED
    BY <1>0, <2>1, <2>2, <2>3, <2>4, <2>5 DEF Gate
<1>2. CASE Trim
  BY <1>0, <1>2 DEF Gate, Trim, Returns, Reading
<1>3. CASE Throw
  BY <1>0, <1>3 DEF Gate, Throw, Closes, Returns, Reading
<1>4. CASE Refusal
  <2>1. PICK header \in Leading : at' = at + HeaderLen + header.size
    BY <1>4 DEF Refusal
  <2>2. at' >= at
    BY <1>0, <2>1, LeadingExtent
  <2>3. QED
    BY <1>0, <1>4, <2>2 DEF Gate, Refusal, Reading
<1>5. CASE Event
  <2>1. PICK header \in Leading : Whole(header) /\ at' = at + HeaderLen + header.size
    BY <1>5 DEF Event
  <2>2. /\ HandOn(Rest[1].frame) /\ Reading
        /\ UNCHANGED <<transport, pc, buffer, pump, closed>>
    BY <1>5 DEF Event
  <2>3. /\ Len(queue') \in Nat /\ Len(queue') <= Len(queue) + 1
        /\ ~paused' => Len(queue') < MaxBacklog
        /\ flowing' /\ ~closed' => ~paused'
        /\ ~paused /\ paused' => Len(queue') >= MaxBacklog
    BY <2>2, HandOnBounded
  <2>4. at' >= at + HeaderLen /\ at' <= Len(buffer) /\ at' \in Nat
    BY <1>0, <2>1, LeadingExtent, LeadingType
  <2>5. ASSUME pc = "constructing"
        PROVE  ~paused' /\ Len(queue') * HeaderLen <= at' /\ Len(buffer') <= Chunk - 1
    <3>1. Len(queue) * HeaderLen <= at /\ Len(buffer) <= Chunk - 1 /\ ~paused
      BY <2>5 DEF Gate
    <3>2. Len(queue') * HeaderLen <= at'
      BY <1>0, <2>3, <2>4, <3>1, MoreHeaders
    <3>3. Len(queue') * HeaderLen \in Nat /\ MaxBacklog * HeaderLen \in Nat
      BY <1>0, <2>3
    <3>4. Len(queue') * HeaderLen < MaxBacklog * HeaderLen
      BY <1>0, <2>2, <2>4, <3>1, <3>2, <3>3
    <3>5. Len(queue') < MaxBacklog
      BY <1>0, <2>3, <3>4, FewHeaders
    <3>6. QED
      BY <1>0, <2>2, <2>3, <3>1, <3>2, <3>5
  <2>6. QED
    BY <2>2, <2>3, <2>5 DEF Gate, Reading
<1>6. CASE Ask
  <2>1. UNCHANGED <<transport, pc, buffer, at, pump, closed>> /\ pc = "idle"
    BY <1>6 DEF Ask
  <2>2. CASE UNCHANGED <<queue, paused, flowing>>
    BY <2>1, <2>2 DEF Gate
  <2>3. CASE /\ queue # <<>> /\ queue' = Tail(queue)
             /\ paused' = (paused /\ ~Low(queue'))
             /\ flowing' = (flowing \/ (paused /\ Low(queue')))
    <3>1. Len(queue') = Len(queue) - 1
      BY <1>0, <2>3
    <3>2. Low(queue') => Len(queue') < MaxBacklog
      BY <1>0, <3>1 DEF Low
    <3>3. ~paused' => ~paused \/ Low(queue')
      BY <2>3
    <3>4. ~paused' => Len(queue') < MaxBacklog
      BY <1>0, <3>1, <3>2, <3>3 DEF Gate
    <3>5. flowing' /\ ~closed' => ~paused'
      BY <2>1, <2>3 DEF Gate
    <3>6. ~paused => ~paused'
      BY <2>3
    <3>7. QED
      BY <2>1, <3>4, <3>5, <3>6 DEF Gate
  <2>4. QED
    BY <1>6, <2>2, <2>3 DEF Ask
<1>7. CASE Close
  BY <1>0, <1>7 DEF Gate, Close, Closes
<1>8. CASE Pass
  BY <1>0, <1>8 DEF Gate, Pass
<1>9. CASE Data
  <2>1. /\ pc = "idle" /\ pc' = "draining" /\ UNCHANGED <<transport, at, queue, paused, flowing, closed>>
        /\ pump' = IF transport = "quic" THEN "parked" ELSE pump
    BY <1>9 DEF Data, Feeds
  <2>2. QED
    BY <2>1 DEF Gate
<1>10. CASE Over \/ Break
  <2>1. /\ UNCHANGED <<transport, pc, buffer, at, queue, paused, flowing>> /\ pc = "idle"
        /\ pump' \in {pump, "ended"} /\ (closed => closed')
    BY <1>10 DEF Over, Break
  <2>2. QED
    BY <2>1 DEF Gate
<1>11. CASE Round \/ UNCHANGED vars
  BY <1>11 DEF Gate, Round, vars, wiring
<1>12. QED
  BY <1>1, <1>2, <1>3, <1>4, <1>5, <1>6, <1>7, <1>8, <1>9, <1>10, <1>11 DEF Next, Drain, Wire

(* The frame a cell is of is one the node has written, with a header at least. *)
LEMMA CellExtent ==
  ASSUME Streams, NEW cell \in FrameCells(written)
  PROVE  /\ cell.frame \in 1..Len(written) /\ written[cell.frame] \in Frames
         /\ Extent(written[cell.frame]) \in Nat \ {0}
<1>1. cell.frame \in 1..Len(written)
  BY DEF FrameCells
<1>2. written[cell.frame] \in Frames
  BY <1>1, ElementOfSeq DEF Streams
<1>3. QED
  BY <1>1, <1>2, Constants, ExtentType

(* A frame is taken, and at most one event is queued. *)
LEMMA TakenOne ==
  ASSUME IInv, NEW header \in Leading, Whole(header), at' = at + HeaderLen + header.size,
         buffer' = buffer, written' = written,
         Len(queue) \in Nat, Len(queue') \in Nat, Len(queue') <= Len(queue) + 1,
         NEW b \in Nat, NEW k \in Nat, Taken(b, k)
  PROVE  Taken(b, k + 1)'
<1>1. /\ HeaderLen \in Nat \ {0} /\ Chunk \in Nat /\ MaxBacklog \in Nat /\ at \in Nat
      /\ Len(buffer) \in Nat
  BY Constants, TsClientAssumption, RestType DEF TsClientAssumption, IInv
<1>2. /\ at' = at + Extent(header) /\ Extent(header) \in Nat /\ Extent(header) >= HeaderLen
      /\ header = written[Rest[1].frame] /\ Rest[1] = buffer[at + 1]
      /\ at' \in Nat
  <2>1. /\ Extent(header) = HeaderLen + header.size /\ Extent(header) \in Nat
        /\ Extent(header) >= HeaderLen /\ header.size \in Nat
        /\ header = written[Rest[1].frame] /\ Rest[1] = buffer[at + 1]
    BY LeadingExtent DEF IInv
  <2>2. at + HeaderLen + header.size = at + (HeaderLen + header.size)
    <3>1. \A a, h, z \in Nat : a + h + z = a + (h + z)
      OBVIOUS
    <3>2. at \in Nat /\ HeaderLen \in Nat /\ header.size \in Nat
      BY <1>1, <2>1
    <3>3. QED
      BY <3>1, <3>2
  <2>3. at' = at + Extent(header)
    BY <2>1, <2>2 DEF Extent
  <2>4. at' \in Nat
    <3>1. PICK a \in Nat : at = a
      BY <1>1
    <3>2. PICK e \in Nat : Extent(header) = e
      BY <2>1
    <3>3. at' = a + e
      BY <2>3, <3>1, <3>2
    <3>4. QED
      BY <3>3
  <2>5. QED
    BY <2>1, <2>3, <2>4
<1>3. Len(buffer') <= b + Chunk /\ Len(queue') <= MaxBacklog - 1 + (k + 1)
  BY <1>1 DEF Taken
<1>4. b + 1 + ((k + 1) - 1) * HeaderLen <= at'
  <2>1. CASE k = 0
    <3>1. at = 0 /\ b < Extent(written[buffer[1].frame])
      BY <2>1 DEF Taken, Begun
    <3>2. at' = Extent(header) /\ header = written[buffer[1].frame]
      BY <1>1, <1>2, <3>1
    <3>3. ((k + 1) - 1) * HeaderLen = 0
      BY <1>1, <2>1
    <3>4. QED
      BY <1>2, <3>1, <3>2, <3>3
  <2>2. CASE k > 0
    <3>1. b + 1 + (k - 1) * HeaderLen <= at
      BY <2>2 DEF Taken
    <3>2. ((k + 1) - 1) * HeaderLen = (k - 1) * HeaderLen + HeaderLen /\ (k - 1) * HeaderLen \in Int
      BY <1>1
    <3>3. PICK q \in Int, h \in Nat, e \in Nat, a \in Nat :
            q = (k - 1) * HeaderLen /\ h = HeaderLen /\ e = Extent(header) /\ a = at
      BY <1>1, <1>2, <3>2
    <3>4. b + 1 + q <= a /\ at' = a + e /\ e >= h
      BY <1>2, <3>1, <3>3
    <3>5. ((k + 1) - 1) * HeaderLen = q + h
      BY <3>2, <3>3
    <3>6. b + 1 + (q + h) <= a + e
      BY <3>3, <3>4
    <3>7. QED
      BY <3>4, <3>5, <3>6
  <2>3. QED
    BY <2>1, <2>2
<1>5. QED
  BY <1>3, <1>4 DEF Taken

(* However many frames were taken of a chunk, the bound holds. *)
LEMMA TakenBounds ==
  ASSUME IInv', NEW b \in Nat, NEW k \in Nat, k > 0, Taken(b, k)'
  PROVE  BacklogBounded'
<1>1. /\ HeaderLen \in Nat \ {0} /\ Chunk \in Nat \ {0} /\ MaxBacklog \in Nat
      /\ at' \in 0..Len(buffer') /\ Len(buffer') \in Nat /\ Len(queue') \in Nat
  BY Constants, TsClientAssumption, LenProperties DEF TsClientAssumption, IInv, Streams, Calls
<1>2. (k - 1) * HeaderLen <= Chunk - 1
  <2>1. (k - 1) * HeaderLen \in Int
    BY <1>1
  <2>2. QED
    BY <1>1, <2>1 DEF Taken
<1>3. k - 1 <= (Chunk - 1) \div HeaderLen
  BY SMTT(20), <1>1, <1>2, Quotient
<1>4. (Chunk - 1) \div HeaderLen \in Int
  BY <1>1
<1>5. QED
  BY <1>1, <1>3, <1>4 DEF Taken, BacklogBounded

LEMMA BacklogKeeps ==
  ASSUME IInv, IInv', Backlog, [Next]_vars
  PROVE  Backlog'
<1> USE DEF IInv, Flags
<1>0. /\ MaxBacklog \in Nat \ {0} /\ Chunk \in Nat \ {0} /\ HeaderLen \in Nat \ {0}
      /\ Len(queue) \in Nat /\ at \in Nat /\ Len(buffer) \in Nat /\ Len(queue') \in Nat
      /\ queue \in Seq(1..MaxFrames) /\ wire \in Seq(FrameCells(written))
      /\ buffer \in Seq(FrameCells(written))
      /\ (Chunk - 1) \div HeaderLen \in Nat
  <2>1. /\ MaxBacklog \in Nat \ {0} /\ Chunk \in Nat \ {0} /\ HeaderLen \in Nat \ {0}
    BY TsClientAssumption, Constants DEF TsClientAssumption
  <2>2. (Chunk - 1) \div HeaderLen \in Nat
    BY <2>1
  <2>3. QED
    BY SMTT(20), <2>1, <2>2, RestType DEF Calls, Streams
<1> DEFINE Drains == InStream /\ pc = "draining" => \E b, k \in Nat : Taken(b, k)
           Waits0 == InStream /\ pc = "idle" /\ ~closed /\ buffer # <<>> => Begun(Len(buffer))
<1>a. Gate'
  BY GateKeeps DEF Backlog
<1>b. ASSUME Drains', Waits0', BacklogBounded'
      PROVE  Backlog'
  BY <1>a, <1>b DEF Backlog
<1>c. Drains /\ Waits0 /\ BacklogBounded /\ Gate
  BY DEF Backlog
(* Calls of the consumer, and what is heard of the transport, between two chunks. *)
<1>d. ASSUME pc = "idle", UNCHANGED <<transport, pc, buffer, written>>, closed => closed',
             Len(queue') <= Len(queue)
      PROVE  Backlog'
  <2>1. InStream' => InStream
    BY <1>d DEF InStream
  <2>2. BacklogBounded'
    BY <1>0, <1>c, <1>d, <2>1 DEF BacklogBounded
  <2>3. Drains' /\ Waits0'
    BY <1>c, <1>d, <2>1 DEF Begun
  <2>4. QED
    BY <1>b, <2>2, <2>3
<1>1. CASE Construct
  <2>1. PICK n \in 0..(Chunk - 1) : n <= Len(wire) /\ Feeds(n, IF n = 0 THEN "idle" ELSE "constructing")
    BY <1>1 DEF Construct
  <2>2. UNCHANGED <<transport, queue, closed>> /\ pc = "starting"
    BY <1>1 DEF Construct, wiring
  <2>3. /\ buffer' = <<>> \o SubSeq(wire, 1, n)
        /\ pc' = IF n = 0 THEN "idle" ELSE "constructing"
    BY <1>c, <2>1, <2>2 DEF Feeds, Gate
  <2>4. n = 0 => buffer' = <<>>
    <3>1. Len(buffer') = n
      BY <1>0, <2>1, <2>3
    <3>2. QED
      BY <3>1, EmptySeq DEF Streams
  <2>5. BacklogBounded'
    BY <1>c, <2>2 DEF BacklogBounded, InStream
  <2>6. Drains' /\ Waits0'
    BY <2>3, <2>4
  <2>7. QED
    BY <1>b, <2>5, <2>6
<1>2. CASE Trim
  <2>1. /\ buffer' = Rest /\ pc' = "idle" /\ UNCHANGED <<written, queue, transport, closed>>
        /\ \A header \in Leading : ~TooLarge(header) /\ ~Whole(header)
    BY <1>2 DEF Trim, Returns, Trimmed, feed
  <2>2. BacklogBounded'
    BY <1>c, <2>1 DEF BacklogBounded, InStream
  <2>3. ASSUME buffer' # <<>>
        PROVE  Begun(Len(buffer))'
    <3>1. Rest \in Seq(FrameCells(written)) /\ Len(Rest) \in Nat
      BY RestType
    <3>2. Len(Rest) > 0 /\ Rest[1] \in FrameCells(written)
      BY <2>1, <2>3, <3>1, EmptySeq, ElementOfSeq
    <3>3. /\ written[Rest[1].frame] \in Frames
          /\ Extent(written[Rest[1].frame]) = HeaderLen + written[Rest[1].frame].size
          /\ written[Rest[1].frame].size \in Nat
      BY <3>2, CellExtent DEF Extent, Frames
    <3>4. CASE Len(Rest) < HeaderLen
      BY <1>0, <2>1, <2>3, <3>1, <3>3, <3>4 DEF Begun
    <3>5. CASE Len(Rest) >= HeaderLen
      <4>1. written[Rest[1].frame] \in Leading
        BY <1>0, <3>1, <3>5 DEF Leading
      <4>2. Len(Rest) < HeaderLen + written[Rest[1].frame].size
        BY <1>0, <2>1, <3>1, <3>3, <3>5, <4>1 DEF Whole
      <4>3. QED
        BY <2>1, <2>3, <3>3, <4>2 DEF Begun
    <3>6. QED
      BY <1>0, <3>1, <3>4, <3>5
  <2>4. Drains' /\ Waits0'
    BY <2>1, <2>3
  <2>5. QED
    BY <1>b, <2>2, <2>4
<1>3. CASE Throw
  <2>1. closed' = TRUE /\ pc' = "idle" /\ UNCHANGED <<queue, transport>>
    BY <1>3 DEF Throw, Closes, Returns
  <2>2. BacklogBounded' /\ Drains' /\ Waits0'
    BY <1>c, <2>1 DEF BacklogBounded, InStream
  <2>3. QED
    BY <1>b, <2>2
<1>4. CASE Refusal \/ Event
  <2>1. PICK header \in Leading : Whole(header) /\ at' = at + HeaderLen + header.size
    BY <1>4 DEF Refusal, Event
  <2>2. /\ UNCHANGED <<transport, pc, buffer, written>> /\ Reading
        /\ Len(queue') <= Len(queue) + 1 /\ (closed => closed')
    <3>1. CASE Refusal
      BY <1>0, <3>1 DEF Refusal, feed
    <3>2. CASE Event
      BY <1>c, <3>2, HandOnBounded DEF Event, feed
    <3>3. QED
      BY <1>4, <3>1, <3>2
  <2>3. InStream' => InStream
    BY <2>2 DEF InStream
  <2>4. CASE pc = "constructing"
    <3>1. Len(queue') < MaxBacklog
      BY <1>a, <2>2, <2>4 DEF Gate
    <3>2. BacklogBounded' /\ Drains' /\ Waits0'
      BY <1>0, <2>2, <2>4, <3>1 DEF BacklogBounded
    <3>3. QED
      BY <1>b, <3>2
  <2>5. CASE pc = "draining" /\ InStream'
    <3>1. PICK b \in Nat, k \in Nat : Taken(b, k)
      BY <1>c, <2>3, <2>5
    <3>2. Taken(b, k + 1)' /\ k + 1 \in Nat /\ k + 1 > 0
      BY <1>0, <2>1, <2>2, <3>1, TakenOne
    <3>3. BacklogBounded'
      BY <3>2, TakenBounds
    <3>4. Drains' /\ Waits0'
      BY <2>2, <2>5, <3>1, <3>2
    <3>5. QED
      BY <1>b, <3>3, <3>4
  <2>6. CASE ~InStream'
    BY <1>b, <2>6 DEF BacklogBounded
  <2>7. QED
    BY <2>2, <2>4, <2>5, <2>6 DEF Reading
<1>5. CASE Ask
  <2>1. pc = "idle" /\ UNCHANGED <<transport, pc, buffer, written, closed>>
    BY <1>5 DEF Ask, feed
  <2>2. Len(queue') <= Len(queue)
    <3>1. CASE queue' = queue
      BY <1>0, <3>1
    <3>2. CASE queue # <<>> /\ queue' = Tail(queue)
      BY <1>0, <3>2
    <3>3. QED
      BY <1>5, <3>1, <3>2 DEF Ask
  <2>3. QED
    BY <1>d, <2>1, <2>2
<1>6. CASE Close \/ Pass \/ Over \/ Break
  <2>1. /\ pc = "idle" /\ UNCHANGED <<transport, pc, buffer, written, queue>> /\ (closed => closed')
    BY <1>6 DEF Close, Closes, Pass, Over, Break, feed
  <2>2. QED
    BY <1>0, <1>d, <2>1
<1>7. CASE Data
  <2>1. PICK n \in 1..Chunk : n <= Len(wire) /\ Feeds(n, "draining")
    BY <1>7 DEF Data
  <2>2. /\ pc = "idle" /\ pc' = "draining" /\ pump = "reading"
        /\ UNCHANGED <<transport, queue, closed, written, at>>
        /\ transport = "tcp" => flowing /\ ~closed
        /\ buffer' = buffer \o SubSeq(wire, 1, n)
    BY <1>7, <2>1 DEF Data, Feeds
  <2>3. BacklogBounded'
    BY <1>c, <2>2 DEF BacklogBounded, InStream
  <2>4. Len(buffer') = Len(buffer) + n /\ buffer' \in Seq(FrameCells(written))
        /\ (Len(buffer) > 0 => buffer'[1] = buffer[1])
    BY <1>0, <2>1, <2>2 DEF Streams
  <2>5. ASSUME InStream', NEW b \in Nat, b = Len(buffer)
        PROVE  Taken(b, 0)'
    <3>1. ~closed
      BY <2>2, <2>5 DEF InStream
    <3>2. ~paused
      BY <1>c, <2>2, <2>5, <3>1 DEF Gate, InStream
    <3>3. Len(queue) < MaxBacklog /\ at = 0
      BY <1>c, <2>2, <3>2 DEF Gate
    <3>4. buffer' # <<>> /\ Len(buffer') > 0
      BY <1>0, <2>1, <2>4
    <3>5. Extent(written[buffer'[1].frame]) \in Nat \ {0}
      BY <2>4, <3>4, ElementOfSeq, CellExtent
    <3>6. Len(buffer) < Extent(written[buffer'[1].frame])
      <4>1. CASE Len(buffer) = 0
        BY <3>5, <4>1
      <4>2. CASE Len(buffer) > 0
        <5>1. buffer # <<>> /\ InStream
          BY <2>2, <2>5, <4>2 DEF InStream
        <5>2. QED
          BY <1>c, <2>2, <2>4, <3>1, <4>2, <5>1 DEF Begun
      <4>3. QED
        BY <1>0, <4>1, <4>2
    <3>7. Begun(b)'
      BY <2>2, <2>5, <3>4, <3>6 DEF Begun
    <3>8. Len(buffer') <= b + Chunk /\ Len(queue') <= MaxBacklog - 1 + 0 /\ at' = 0
      BY <1>0, <2>1, <2>2, <2>4, <2>5, <3>3
    <3>9. QED
      BY <3>7, <3>8 DEF Taken
  <2>6. Drains' /\ Waits0'
    <3>1. PICK b \in Nat : b = Len(buffer)
      BY <1>0
    <3>2. QED
      BY <2>2, <2>5, <3>1
  <2>7. QED
    BY <1>b, <2>3, <2>6
<1>8. CASE Round
  <2>1. UNCHANGED <<transport, pc, buffer, at, queue, closed>>
    BY <1>8 DEF Round, wiring
  <2>2. \A i \in 1..Len(written) : written'[i] = written[i]
    <3>1. (written' = written /\ wire' = wire) \/ Writing(written', wire')
      BY <1>8, NodeWrites, Constants DEF Round, Streams
    <3>2. CASE Writing(written', wire')
      <4>1. PICK frame \in Frames : written' = Append(written, frame)
        BY <3>2 DEF Writing
      <4>2. QED
        BY <4>1, AppendProperties DEF Streams
    <3>3. QED
      BY <3>1, <3>2
  <2>3. ASSUME NEW b, Begun(b)
        PROVE  Begun(b)'
    <3>1. buffer[1].frame \in 1..Len(written)
      <4>1. Len(buffer) > 0
        BY <1>0, <2>3, EmptySeq DEF Begun
      <4>2. QED
        BY <1>0, <4>1, ElementOfSeq, CellExtent
    <3>2. QED
      BY <2>1, <2>2, <2>3, <3>1 DEF Begun
  <2>4. Waits0' /\ BacklogBounded'
    BY <1>c, <2>1, <2>3 DEF BacklogBounded, InStream
  <2>5. Drains'
    BY <1>c, <2>1, <2>3 DEF Taken, InStream
  <2>6. QED
    BY <1>b, <2>4, <2>5
<1>9. CASE UNCHANGED vars
  BY <1>9 DEF Backlog, Gate, BacklogBounded, InStream, Taken, Begun, vars, feed, wiring
<1>10. QED
  BY <1>1, <1>2, <1>3, <1>4, <1>5, <1>6, <1>7, <1>8, <1>9 DEF Next, Drain, Wire

LEMMA BacklogInit == Init => Backlog
<1> SUFFICES ASSUME Init
             PROVE  Backlog
  OBVIOUS
<1>1. /\ MaxBacklog \in Nat \ {0} /\ HeaderLen \in Nat \ {0} /\ Chunk \in Nat \ {0}
  BY TsClientAssumption, Constants DEF TsClientAssumption
<1>2. (Chunk - 1) \div HeaderLen \in Nat
  BY <1>1
<1>3. Len(queue) = 0
  BY DEF Init
<1>4. Gate
  BY <1>1, <1>3, TsClientAssumption DEF Init, Gate, TsClientAssumption
<1>5. QED
  BY <1>1, <1>2, <1>3, <1>4 DEF Init, Backlog, BacklogBounded

(* A consumer that does not ask costs no more than the backlog and what the headers of
   one chunk can begin, however much the node writes and whatever it is cut into
   (client.ts:645-672). *)
THEOREM Bounded == Spec => []BacklogBounded
<1>1. IInv /\ IInv' /\ Backlog /\ [Next]_vars => Backlog'
  BY BacklogKeeps
<1>2. Backlog => BacklogBounded
  BY DEF Backlog
<1>3. QED
  BY <1>1, <1>2, BacklogInit, Invariance, PTL DEF Spec

-----------------------------------------------------------------------------
(* InOrder.  The events taken off the stream are those of its first n frames: a call
   made earlier has the earlier one, and those on the queue come after. *)

Ordered ==
  /\ \A c, d \in Met : c < d => answers[c].frame < answers[d].frame
  /\ \A c \in Met, i \in 1..Len(queue) : answers[c].frame < queue[i]
  /\ \A i, j \in 1..Len(queue) : i < j => queue[i] < queue[j]

(* Those that wait asked after everyone who was given an event. *)
Lined ==
  /\ \A i, j \in 1..Len(pending) : i < j => pending[i] < pending[j]
  /\ \A c \in Met, i \in 1..Len(pending) : c < pending[i]

(* What is to come is whole frames from the next one on, as long as any of it can. *)
Placed(n) ==
  /\ n \in 0..Len(written)
  /\ Drained = Events \cap 1..n
  /\ Reading \/ ~closed => Framed(Rest \o wire, n, written)

Sequence ==
  /\ Lined
  /\ InStream => Ordered
  /\ InStream => \E n \in Nat : Placed(n)

(* What the calls that were given an event, and the queue, have in common. *)
LEMMA MetType ==
  ASSUME Calls
  PROVE  /\ Len(answers) \in Nat /\ DOMAIN answers = 1..Len(answers) /\ Met \subseteq 1..Len(answers)
         /\ Len(queue) \in Nat /\ DOMAIN queue = 1..Len(queue)
         /\ \A c \in Met : answers[c].frame \in Drained /\ answers[c].frame \in 0..MaxFrames
         /\ \A i \in 1..Len(queue) : queue[i] \in Drained /\ queue[i] \in 1..MaxFrames
         /\ Len(pending) \in Nat /\ \A i \in 1..Len(pending) : pending[i] \in Nat
<1>1. /\ answers \in Seq(Answers) /\ queue \in Seq(1..MaxFrames) /\ pending \in Seq(Nat)
  BY DEF Calls, Waiting
<1>2. /\ Len(answers) \in Nat /\ DOMAIN answers = 1..Len(answers)
      /\ Len(queue) \in Nat /\ DOMAIN queue = 1..Len(queue) /\ Len(pending) \in Nat
  BY <1>1, LenProperties
<1>3. Met \subseteq 1..Len(answers)
  BY <1>2 DEF Met
<1>4. ASSUME NEW c \in Met
      PROVE  answers[c].frame \in Drained /\ answers[c].frame \in 0..MaxFrames
  <2>1. answers[c] \in Answers
    BY <1>1, <1>3, ElementOfSeq
  <2>2. answers[c].frame \in Handed
    BY DEF Handed
  <2>3. QED
    BY <2>1, <2>2 DEF Answers, Drained
<1>5. ASSUME NEW i \in 1..Len(queue)
      PROVE  queue[i] \in Drained /\ queue[i] \in 1..MaxFrames
  BY <1>1, <1>2, ElementOfSeq DEF Drained, ToSet
<1>6. \A i \in 1..Len(pending) : pending[i] \in Nat
  BY <1>1, ElementOfSeq
<1>7. QED
  BY <1>2, <1>3, <1>4, <1>5, <1>6

(* An error or an end hands nothing on. *)
LEMMA Unhanded ==
  ASSUME Calls, Fails \/ Finishes \/ UNCHANGED calls
  PROVE  /\ Met' = Met
         /\ \A c \in Met : answers'[c] = answers[c]
         /\ pending' \in {pending, <<>>}
<1>1. ASSUME NEW promises, NEW what \in {"error", "end"}, Settle(promises, Answer(what))
      PROVE  Met' = Met /\ \A c \in Met : answers'[c] = answers[c]
  <2>1. answers' = [c \in DOMAIN answers |->
                     IF c \in ToSet(promises) /\ answers[c] = Answer("waiting")
                     THEN Answer(what) ELSE answers[c]]
    BY <1>1 DEF Settle
  <2>2. Answer(what).what = what /\ Answer("waiting").what = "waiting"
    BY DEF Answer
  <2>3. DOMAIN answers' = DOMAIN answers
    BY <2>1
  <2>4. \A c \in DOMAIN answers : answers[c].what = "event" => answers'[c] = answers[c]
    BY <2>1, <2>2
  <2>5. \A c \in DOMAIN answers : answers'[c] = answers[c] \/ answers'[c] = Answer(what)
    BY <2>1
  <2>6. \A c \in DOMAIN answers : answers'[c].what = "event" => answers'[c] = answers[c]
    BY <1>1, <2>2, <2>5
  <2>7. QED
    BY <2>3, <2>4, <2>6 DEF Met
<1>2. CASE UNCHANGED calls
  BY <1>2 DEF calls, Met
<1>3. CASE Fails /\ ~(error \/ done)
  <2>1. Settle(failed, Answer("error")) /\ pending' = <<>>
    BY <1>3 DEF Fails
  <2>2. QED
    BY <1>1, <2>1
<1>4. CASE Finishes /\ ~done
  <2>1. Settle(Everyone(pending), Answer("end")) /\ pending' = <<>>
    BY <1>4 DEF Finishes
  <2>2. QED
    BY <1>1, <2>1
<1>5. QED
  BY <1>2, <1>3, <1>4 DEF Fails, Finishes

(* So the order stays. *)
LEMMA OrderStays ==
  ASSUME Calls, Lined, InStream => Ordered, InStream' => InStream, queue' = queue,
         Fails \/ Finishes \/ UNCHANGED calls
  PROVE  Lined' /\ (InStream' => Ordered') /\ Drained' = Drained
<1>1. /\ Met' = Met
      /\ \A c \in Met : answers'[c] = answers[c]
      /\ pending' \in {pending, <<>>}
  BY Unhanded
<1>2. Lined'
  <2>1. CASE pending' = pending
    BY <1>1, <2>1 DEF Lined
  <2>2. CASE pending' = <<>>
    BY <1>1, <2>2, EmptySeq DEF Lined
  <2>3. QED
    BY <1>1, <2>1, <2>2
<1>3. InStream' => Ordered'
  BY <1>1 DEF Ordered
<1>4. Handed' = Handed
  BY <1>1 DEF Handed
<1>5. QED
  BY <1>2, <1>3, <1>4 DEF Drained

(* The event goes to the call that has waited longest, or onto the queue's end. *)
LEMMA OrderHandsOn ==
  ASSUME IInv, Lined, NEW event \in 1..MaxFrames, HandOn(event)
  PROVE  /\ Lined'
         /\ Ordered /\ (\A i \in Drained : i < event) => Ordered'
         /\ Drained' = Drained \cup {event}
<1>0. /\ Len(answers) \in Nat /\ DOMAIN answers = 1..Len(answers) /\ Met \subseteq 1..Len(answers)
      /\ Len(queue) \in Nat /\ DOMAIN queue = 1..Len(queue)
      /\ \A c \in Met : answers[c].frame \in Drained /\ answers[c].frame \in 0..MaxFrames
      /\ \A i \in 1..Len(queue) : queue[i] \in Drained /\ queue[i] \in 1..MaxFrames
      /\ Len(pending) \in Nat /\ \A i \in 1..Len(pending) : pending[i] \in Nat
  BY MetType DEF IInv
<1>1. CASE pending # <<>>
  <2>1. /\ Settle(<<Head(pending)>>, Given(event)) /\ pending' = Tail(pending) /\ queue' = queue
    BY <1>1 DEF HandOn
  <2>2. /\ queue = <<>> /\ pending \in Seq(Nat)
        /\ \A i \in 1..Len(pending) :
             pending[i] \in 1..Len(answers) /\ answers[pending[i]] = Answer("waiting")
    BY <1>1 DEF IInv, NobodyWaits, Calls, Waiting
  <2>3. /\ Len(pending) > 0 /\ Len(pending') = Len(pending) - 1
        /\ \A i \in 1..Len(pending') : pending'[i] = pending[i + 1]
    BY <1>1, <2>1, <2>2, HeadTailProperties, EmptySeq
  <2>4. PICK first \in 1..Len(answers) : first = pending[1] /\ first = Head(pending)
    BY <1>0, <2>2, <2>3
  <2>5. answers[first] = Answer("waiting")
    BY <2>2, <2>3, <2>4
  <2>6. /\ DOMAIN answers' = DOMAIN answers
        /\ answers'[first] = Given(event)
        /\ \A c \in DOMAIN answers : c # first => answers'[c] = answers[c]
    <3>1. ToSet(<<Head(pending)>>) = {first}
      BY <2>4 DEF ToSet
    <3>2. answers' = [c \in DOMAIN answers |->
                       IF c \in {first} /\ answers[c] = Answer("waiting")
                       THEN Given(event) ELSE answers[c]]
      BY <2>1, <3>1 DEF Settle
    <3>3. QED
      BY <1>0, <2>5, <3>2
  <2>7. Given(event).what = "event" /\ Given(event).frame = event /\ Answer("waiting").what = "waiting"
    BY DEF Given, Answer
  <2>8. first \notin Met /\ Met' = Met \cup {first}
    BY <1>0, <2>5, <2>6, <2>7 DEF Met
  <2>9. ASSUME NEW c \in Met
        PROVE  answers'[c] = answers[c] /\ c < first
    <3>1. c < pending[1]
      BY <1>0, <2>3 DEF Lined
    <3>2. c \in DOMAIN answers /\ c # first
      BY <1>0, <2>8
    <3>3. QED
      BY <2>4, <2>6, <3>1, <3>2
  <2>10. Lined'
    <3>1. ASSUME NEW i \in 1..Len(pending'), NEW j \in 1..Len(pending'), i < j
          PROVE  pending'[i] < pending'[j]
      <4>1. pending[i + 1] < pending[j + 1]
        BY <1>0, <2>3, <3>1 DEF Lined
      <4>2. QED
        BY <2>3, <4>1
    <3>2. ASSUME NEW c \in Met', NEW i \in 1..Len(pending')
          PROVE  c < pending'[i]
      <4>1. i + 1 \in 1..Len(pending) /\ 1 \in 1..Len(pending) /\ 1 < i + 1
        BY <1>0, <2>3
      <4>2. pending[1] < pending[i + 1] /\ pending'[i] = pending[i + 1]
        BY <2>3, <4>1 DEF Lined
      <4>3. CASE c = first
        BY <2>4, <4>2, <4>3
      <4>4. CASE c \in Met
        BY <2>3, <4>1, <4>2, <4>4 DEF Lined
      <4>5. QED
        BY <2>8, <4>3, <4>4
    <3>3. QED
      BY <3>1, <3>2 DEF Lined
  <2>11. ASSUME Ordered, \A i \in Drained : i < event
         PROVE  Ordered'
    <3>1. ASSUME NEW c \in Met', NEW d \in Met', c < d
          PROVE  answers'[c].frame < answers'[d].frame
      <4>1. CASE d = first
        <5>1. c \in Met
          BY <1>0, <2>8, <3>1, <4>1
        <5>2. QED
          BY <1>0, <2>6, <2>7, <2>9, <2>11, <4>1, <5>1
      <4>2. CASE d \in Met
        <5>1. c \in Met
          <6>1. c # first
            BY <1>0, <2>9, <3>1, <4>2
          <6>2. QED
            BY <2>8, <6>1
        <5>2. QED
          BY <2>9, <2>11, <3>1, <4>2, <5>1 DEF Ordered
      <4>3. QED
        BY <2>8, <4>1, <4>2
    <3>2. Len(queue') = 0
      BY <2>1, <2>2, EmptySeq
    <3>3. QED
      BY <3>1, <3>2 DEF Ordered
  <2>12. Handed' = Handed \cup {event}
    BY <2>6, <2>7, <2>8, <2>9 DEF Handed
  <2>13. QED
    BY <2>1, <2>10, <2>11, <2>12 DEF Drained
<1>2. CASE pending = <<>>
  <2>1. queue' = Append(queue, event) /\ UNCHANGED <<pending, answers>>
    BY <1>2 DEF HandOn
  <2>2. /\ Len(queue') = Len(queue) + 1 /\ queue'[Len(queue) + 1] = event
        /\ DOMAIN queue' = 1..(Len(queue) + 1)
        /\ \A i \in 1..Len(queue) : queue'[i] = queue[i]
    BY <1>0, <2>1, AppendProperties, LenProperties DEF IInv, Calls
  <2>3. Met' = Met /\ Handed' = Handed
    BY <2>1 DEF Met, Handed
  <2>4. Lined'
    BY <2>1, <2>3 DEF Lined
  <2>5. ASSUME Ordered, \A i \in Drained : i < event
        PROVE  Ordered'
    <3>1. ASSUME NEW c \in Met, NEW i \in 1..Len(queue')
          PROVE  answers[c].frame < queue'[i]
      BY <1>0, <2>2, <2>5 DEF Ordered
    <3>2. ASSUME NEW i \in 1..Len(queue'), NEW j \in 1..Len(queue'), i < j
          PROVE  queue'[i] < queue'[j]
      BY <1>0, <2>2, <2>5, <3>2 DEF Ordered
    <3>3. QED
      BY <2>1, <2>3, <2>5, <3>1, <3>2 DEF Ordered
  <2>6. ToSet(queue') = ToSet(queue) \cup {event}
    <3>1. ToSet(queue) = {queue[i] : i \in 1..Len(queue)}
      BY <1>0 DEF ToSet
    <3>2. ToSet(queue') = {queue'[i] : i \in 1..Len(queue) \cup {Len(queue) + 1}}
      <4>1. DOMAIN queue' = 1..Len(queue) \cup {Len(queue) + 1}
        BY <1>0, <2>2
      <4>2. QED
        BY <4>1 DEF ToSet
    <3>3. QED
      BY <2>2, <3>1, <3>2
  <2>7. QED
    BY <2>3, <2>4, <2>5, <2>6 DEF Drained
<1>3. QED
  BY <1>1, <1>2

(* A call is given the queue's first, or waits behind the others. *)
LEMMA OrderAsks ==
  ASSUME IInv, Lined, InStream => Ordered, Ask
  PROVE  Lined' /\ (InStream' => Ordered') /\ Drained' = Drained
<1>0. /\ Len(answers) \in Nat /\ DOMAIN answers = 1..Len(answers) /\ Met \subseteq 1..Len(answers)
      /\ Len(queue) \in Nat /\ DOMAIN queue = 1..Len(queue)
      /\ \A c \in Met : answers[c].frame \in Drained /\ answers[c].frame \in 0..MaxFrames
      /\ \A i \in 1..Len(queue) : queue[i] \in Drained /\ queue[i] \in 1..MaxFrames
      /\ Len(pending) \in Nat /\ \A i \in 1..Len(pending) : pending[i] \in Nat
      /\ answers \in Seq(Answers) /\ queue \in Seq(1..MaxFrames) /\ pending \in Seq(Nat)
      /\ \A i \in 1..Len(pending) : pending[i] \in 1..Len(answers)
  BY MetType DEF IInv, Calls, Waiting
<1>1. InStream' <=> InStream
  BY DEF Ask, InStream
<1> DEFINE new == Len(answers) + 1
<1>2. ASSUME NEW answer, answers' = Append(answers, answer)
      PROVE  /\ DOMAIN answers' = 1..new /\ Len(answers') = new
             /\ answers'[new] = answer
             /\ \A c \in 1..Len(answers) : answers'[c] = answers[c]
  BY <1>0, <1>2
<1>3. CASE /\ queue # <<>>
           /\ queue' = Tail(queue)
           /\ answers' = Append(answers, Given(Head(queue)))
           /\ UNCHANGED <<pending, failed>>
  <2>1. pending = <<>> /\ Len(pending') = 0
    BY <1>3, EmptySeq DEF IInv, NobodyWaits
  <2>2. /\ Len(queue) > 0 /\ Len(queue') = Len(queue) - 1 /\ Head(queue) = queue[1]
        /\ \A i \in 1..Len(queue') : queue'[i] = queue[i + 1]
        /\ DOMAIN queue' = 1..Len(queue')
    BY <1>0, <1>3, HeadTailProperties, EmptySeq, LenProperties
  <2>3. /\ answers'[new] = Given(queue[1]) /\ DOMAIN answers' = 1..new
        /\ \A c \in 1..Len(answers) : answers'[c] = answers[c]
    BY <1>2, <1>3, <2>2
  <2>4. Given(queue[1]).what = "event" /\ Given(queue[1]).frame = queue[1]
    BY DEF Given
  <2>5. Met' = Met \cup {new}
    BY <1>0, <2>3, <2>4 DEF Met
  <2>6. Lined'
    BY <2>1 DEF Lined
  <2>7. ASSUME Ordered
        PROVE  Ordered'
    <3>1. ASSUME NEW c \in Met', NEW d \in Met', c < d
          PROVE  answers'[c].frame < answers'[d].frame
      <4>1. c \in Met
        BY <1>0, <2>5, <3>1
      <4>2. CASE d \in Met
        BY <1>0, <2>3, <2>7, <3>1, <4>1, <4>2 DEF Ordered
      <4>3. CASE d = new
        BY <1>0, <2>2, <2>3, <2>4, <2>7, <4>1, <4>3 DEF Ordered
      <4>4. QED
        BY <2>5, <4>2, <4>3
    <3>2. ASSUME NEW c \in Met', NEW i \in 1..Len(queue')
          PROVE  answers'[c].frame < queue'[i]
      <4>1. i + 1 \in 1..Len(queue) /\ 1 \in 1..Len(queue) /\ 1 < i + 1 /\ queue'[i] = queue[i + 1]
        BY <1>0, <2>2
      <4>2. CASE c \in Met
        BY <1>0, <2>3, <2>7, <4>1, <4>2 DEF Ordered
      <4>3. CASE c = new
        BY <2>3, <2>4, <2>7, <4>1, <4>3 DEF Ordered
      <4>4. QED
        BY <2>5, <4>2, <4>3
    <3>3. ASSUME NEW i \in 1..Len(queue'), NEW j \in 1..Len(queue'), i < j
          PROVE  queue'[i] < queue'[j]
      <4>1. queue[i + 1] < queue[j + 1]
        BY <1>0, <2>2, <2>7, <3>3 DEF Ordered
      <4>2. QED
        BY <2>2, <4>1
    <3>4. QED
      BY <3>1, <3>2, <3>3 DEF Ordered
  <2>8. Handed' = Handed \cup {queue[1]}
    <3>1. \A c \in Met : answers'[c].frame = answers[c].frame
      BY <1>0, <2>3
    <3>2. answers'[new].frame = queue[1]
      BY <2>3, <2>4
    <3>3. QED
      BY <2>5, <3>1, <3>2 DEF Handed
  <2>9. ToSet(queue) = ToSet(queue') \cup {queue[1]}
    <3>1. \A i \in 1..Len(queue) : i = 1 \/ (i - 1 \in 1..Len(queue') /\ queue'[i - 1] = queue[i])
      BY <1>0, <2>2
    <3>2. 1 \in 1..Len(queue) /\ \A i \in 1..Len(queue') : i + 1 \in 1..Len(queue)
      BY <1>0, <2>2
    <3>3. ASSUME NEW i \in 1..Len(queue)
          PROVE  queue[i] \in ToSet(queue') \cup {queue[1]}
      <4>1. CASE i # 1
        <5>1. PICK j \in 1..Len(queue') : queue'[j] = queue[i]
          BY <3>1, <4>1
        <5>2. QED
          BY <2>2, <5>1 DEF ToSet
      <4>2. QED
        BY <4>1
    <3>4. ASSUME NEW i \in 1..Len(queue')
          PROVE  queue'[i] \in ToSet(queue)
      <4>1. PICK j \in 1..Len(queue) : queue'[i] = queue[j]
        BY <2>2, <3>2
      <4>2. QED
        BY <1>0, <4>1 DEF ToSet
    <3>5. queue[1] \in ToSet(queue)
      BY <1>0, <3>2 DEF ToSet
    <3>6. ToSet(queue) = {queue[i] : i \in 1..Len(queue)}
      BY <1>0 DEF ToSet
    <3>7. ToSet(queue') = {queue'[i] : i \in 1..Len(queue')}
      BY <1>0, <2>2 DEF ToSet
    <3>8. ToSet(queue) \subseteq ToSet(queue') \cup {queue[1]}
      BY <3>3, <3>6
    <3>9. ToSet(queue') \subseteq ToSet(queue)
      BY <3>4, <3>7
    <3>10. QED
      BY <3>5, <3>8, <3>9
  <2>10. QED
    BY <1>1, <2>6, <2>7, <2>8, <2>9 DEF Drained
<1>4. ASSUME NEW what \in {"waiting", "error", "end"}, answers' = Append(answers, Answer(what)),
             queue' = queue
      PROVE  /\ Met' = Met /\ \A c \in Met : answers'[c] = answers[c]
             /\ Ordered => Ordered'
             /\ Drained' = Drained
  <2>1. Answer(what).what # "event"
    BY DEF Answer
  <2>2. Met' = Met /\ \A c \in Met : answers'[c] = answers[c]
    BY <1>0, <1>2, <1>4, <2>1 DEF Met
  <2>3. QED
    BY <1>4, <2>2 DEF Ordered, Drained, Handed
<1>5. CASE /\ answers' = Append(answers, Answer(IF error THEN "error" ELSE "end"))
           /\ UNCHANGED <<queue, pending>>
  BY <1>1, <1>4, <1>5 DEF Lined
<1>6. CASE /\ answers' = Append(answers, Answer("waiting"))
           /\ pending' = Append(pending, Len(answers'))
           /\ UNCHANGED queue
  <2>1. /\ Len(pending') = Len(pending) + 1 /\ pending'[Len(pending) + 1] = new
        /\ \A i \in 1..Len(pending) : pending'[i] = pending[i]
    BY <1>0, <1>2, <1>6, AppendProperties
  <2>2. Lined'
    <3>1. ASSUME NEW i \in 1..Len(pending'), NEW j \in 1..Len(pending'), i < j
          PROVE  pending'[i] < pending'[j]
      <4>1. i \in 1..Len(pending) /\ pending'[i] = pending[i]
        BY <1>0, <2>1, <3>1
      <4>2. CASE j \in 1..Len(pending)
        BY <2>1, <3>1, <4>1, <4>2 DEF Lined
      <4>3. CASE j = Len(pending) + 1
        <5>1. PICK p \in 1..Len(answers) : p = pending[i]
          BY <1>0, <4>1
        <5>2. QED
          BY <1>0, <2>1, <4>1, <4>3, <5>1
      <4>4. QED
        BY <1>0, <2>1, <4>2, <4>3
    <3>2. ASSUME NEW c \in Met, NEW i \in 1..Len(pending')
          PROVE  c < pending'[i]
      <4>1. CASE i \in 1..Len(pending)
        BY <2>1, <4>1 DEF Lined
      <4>2. CASE i = Len(pending) + 1
        BY <1>0, <2>1, <4>2
      <4>3. QED
        BY <1>0, <2>1, <4>1, <4>2
    <3>3. Met' = Met
      BY <1>4, <1>6
    <3>4. QED
      BY <3>1, <3>2, <3>3 DEF Lined
  <2>3. QED
    BY <1>1, <1>4, <1>6, <2>2
<1>7. QED
  BY <1>3, <1>5, <1>6 DEF Ask

(* The whole frame the drain is at is the next one. *)
LEMMA NextFrame ==
  ASSUME IInv, NEW header \in Leading, Whole(header), NEW n \in Nat,
         Framed(Rest \o wire, n, written)
  PROVE  /\ n + 1 \in 1..Len(written) /\ Rest[1].frame = n + 1 /\ header = written[n + 1]
         /\ \A a \in Nat : a = at + HeaderLen + header.size =>
              Framed(SubSeq(buffer, a + 1, Len(buffer)) \o wire, n + 1, written)
<1> DEFINE K == FrameCells(written)
           l == Rest \o wire
<1>1. /\ Rest \in Seq(K) /\ wire \in Seq(K) /\ buffer \in Seq(K)
      /\ Len(Rest) = Len(buffer) - at /\ Len(Rest) \in Nat /\ Len(buffer) \in Nat /\ at \in Nat
  BY RestType DEF IInv, Streams
<1>2. /\ Len(Rest) > 0 /\ header = written[Rest[1].frame]
      /\ Extent(header) = HeaderLen + header.size /\ Extent(header) \in Nat /\ header.size \in Nat
      /\ HeaderLen \in Nat /\ Len(Rest) >= HeaderLen + header.size
  BY LeadingExtent, Constants DEF IInv, Whole
<1> HIDE DEF K
<1>3. Len(l) > 0 /\ l[1] = Rest[1]
  BY <1>1, <1>2, ConcatProperties, LenProperties
<1>4. /\ n + 1 \in 1..Len(written) /\ l[1] = [frame |-> n + 1, cell |-> 1]
  <2> HIDE DEF l
  <2>0. Framed(l, n, written) /\ FeedAssumption
    BY Constants DEF l
  <2>1. /\ n + 1 \in 1..Len(written) /\ Extent(written[n + 1]) \in 1..Len(l)
        /\ \A k \in 1..Extent(written[n + 1]) : l[k] = [frame |-> n + 1, cell |-> k]
    BY <1>3, <2>0, FramedFront
  <2>2. 1 \in 1..Extent(written[n + 1])
    BY <2>1
  <2>3. QED
    BY <2>1, <2>2
<1>5. Rest[1].frame = n + 1 /\ header = written[n + 1]
  BY <1>2, <1>3, <1>4
<1>6. Framed(SubSeq(l, Extent(header) + 1, Len(l)), n + 1, written)
  BY <1>3, <1>5, FramedTaken, Constants
<1>7. ASSUME NEW a \in Nat, a = at + HeaderLen + header.size
      PROVE  Framed(SubSeq(buffer, a + 1, Len(buffer)) \o wire, n + 1, written)
  <2>1. PICK e \in Nat : e = Extent(header)
    BY <1>2
  <2>2. at \in Nat /\ at + e <= Len(buffer)
    <3>1. PICK r \in Nat, f \in Nat, b \in Nat : r = Len(Rest) /\ f = Len(buffer) /\ b = at
      BY <1>1
    <3>2. r = f - b /\ r >= e
      BY <1>1, <1>2, <2>1, <3>1
    <3>3. b + e <= f
      BY <3>2
    <3>4. QED
      BY <3>1, <3>3
  <2>3. SubSeq(l, e + 1, Len(l)) = SubSeq(buffer, at + e + 1, Len(buffer)) \o wire
    <3>1. buffer \in Seq(K) /\ wire \in Seq(K)
      BY <1>1
    <3>2. LET c == SubSeq(buffer, at + 1, Len(buffer)) \o wire
          IN  SubSeq(c, e + 1, Len(c)) = SubSeq(buffer, at + e + 1, Len(buffer)) \o wire
      BY Zenon, <2>2, <3>1, CutThrough
    <3>3. QED
      BY <3>2 DEF Rest
  <2>4. at + e = a
    <3>1. PICK b \in Nat, h \in Nat, z \in Nat : b = at /\ h = HeaderLen /\ z = header.size
      BY <1>1, <1>2
    <3>2. e = h + z /\ a = b + h + z
      BY <1>2, <1>7, <2>1, <3>1
    <3>3. QED
      BY <3>1, <3>2
  <2>5. QED
    BY <1>6, <2>1, <2>3, <2>4
<1>8. QED
  BY <1>4, <1>5, <1>7

(* A chunk moves from the wire onto what is there. *)
LEMMA FeedsPlaced ==
  ASSUME IInv, NEW n \in Nat, Placed(n), ~closed, closed' = closed, at = 0, at' = 0,
         NEW m \in Nat, m <= Len(wire), NEW where, Feeds(m, where), Drained' = Drained
  PROVE  Placed(n)'
<1> DEFINE K == FrameCells(written)
<1>1. /\ wire \in Seq(K) /\ buffer \in Seq(K) /\ Len(buffer) \in Nat /\ Len(wire) \in Nat
      /\ Rest = SubSeq(buffer, 1, Len(buffer)) /\ Rest' = SubSeq(buffer', 1, Len(buffer'))
  BY LenProperties DEF IInv, Streams, Rest
<1>2. /\ buffer' = buffer \o SubSeq(wire, 1, m) /\ wire' = SubSeq(wire, m + 1, Len(wire))
      /\ written' = written
  BY DEF Feeds
<1> HIDE DEF K
<1>3. buffer' \in Seq(K)
  <2>1. SubSeq(wire, 1, m) \in Seq(K)
    <3>1. \A i \in 1..m : wire[i] \in K
      <4>1. \A i \in 1..m : i \in 1..Len(wire)
        BY <1>1
      <4>2. QED
        BY <1>1, <4>1, ElementOfSeq
    <3>2. QED
      BY <3>1, SubSeqProperties
  <2>2. QED
    BY <1>1, <1>2, <2>1, ConcatProperties
<1>4. Rest = buffer /\ Rest' = buffer'
  BY <1>1, <1>3, SubSeqFull
<1>5. Rest' \o wire' = Rest \o wire
  <2>1. m \in 0..Len(wire)
    BY <1>1
  <2>2. QED
    BY <1>1, <1>2, <1>4, <2>1, Moving
<1>6. Events' = Events
  BY <1>2 DEF Events
<1>7. QED
  BY <1>2, <1>5, <1>6 DEF Placed

LEMMA PlaceStands ==
  ASSUME NEW n \in Nat, Placed(n), UNCHANGED <<written, wire, buffer, at>>, Drained' = Drained,
         (Reading \/ ~closed)' => Reading \/ ~closed
  PROVE  Placed(n)'
BY DEF Placed, Events, Rest

(* A frame the node writes is behind all the others. *)
LEMMA RoundPlaced ==
  ASSUME IInv, NEW n \in Nat, Placed(n), Round, Drained' = Drained
  PROVE  Placed(n)'
<1>1. UNCHANGED <<transport, pc, buffer, at, closed>> /\ Rest' = Rest
  BY DEF Round, wiring, Rest
<1>2. (written' = written /\ wire' = wire) \/ Writing(written', wire')
  BY NodeWrites, Constants DEF Round, IInv, Streams
<1>3. CASE written' = written /\ wire' = wire
  BY <1>1, <1>3 DEF Placed, Events, Reading
<1>4. CASE Writing(written', wire')
  <2>1. PICK frame \in Frames : /\ written' = Append(written, frame)
                                /\ wire' = wire \o CellsOf(Len(written) + 1, frame)
    BY <1>4 DEF Writing
  <2>2. /\ Len(written) \in Nat /\ Len(written') = Len(written) + 1
        /\ \A i \in 1..Len(written) : written'[i] = written[i]
        /\ DOMAIN written = 1..Len(written) /\ DOMAIN written' = 1..Len(written')
    BY <2>1, AppendProperties, LenProperties DEF IInv, Streams
  <2>3. n \in 0..Len(written') /\ Events' \cap 1..n = Events \cap 1..n
    <3>1. n \in 0..Len(written)
      BY DEF Placed
    <3>2. \A i \in 1..n : i \in DOMAIN written /\ i \in DOMAIN written' /\ written'[i] = written[i]
      BY <2>2, <3>1
    <3>3. QED
      BY <2>2, <3>1, <3>2 DEF Events
  <2>4. ASSUME Reading \/ ~closed
        PROVE  Framed(Rest' \o wire', n, written')
    <3>1. Framed((Rest \o wire) \o CellsOf(Len(written) + 1, frame), n, written')
      BY <2>1, <2>4, FramedWritten, Constants DEF Placed
    <3>2. /\ Rest \in Seq(Cells) /\ wire \in Seq(Cells)
          /\ CellsOf(Len(written) + 1, frame) \in Seq(Cells)
      <4>1. Rest \in Seq(FrameCells(written)) /\ wire \in Seq(FrameCells(written))
            /\ FrameCells(written) \subseteq Cells
        BY RestType DEF IInv, Streams, FrameCells
      <4>2. Len(written) + 1 \in Nat
        BY <2>2
      <4>3. QED
        BY <4>1, <4>2, SeqMonotonic, CellsOfProperties, Constants
    <3>3. (Rest \o wire) \o CellsOf(Len(written) + 1, frame) = Rest' \o wire'
      <4>1. (Rest \o wire) \o CellsOf(Len(written) + 1, frame)
              = Rest \o (wire \o CellsOf(Len(written) + 1, frame))
        BY <3>2, ConcatAssociative
      <4>2. QED
        BY <1>1, <2>1, <4>1
    <3>4. QED
      BY <3>1, <3>3
  <2>5. QED
    BY <1>1, <2>3, <2>4 DEF Placed, Reading
<1>5. QED
  BY <1>2, <1>3, <1>4

LEMMA SequenceKeeps ==
  ASSUME IInv, Gate, Sequence, [Next]_vars
  PROVE  Sequence'
<1> USE DEF IInv
<1>a. ASSUME UNCHANGED <<queue>>, Fails \/ Finishes \/ UNCHANGED calls, InStream' => InStream,
             InStream' => \A n \in Nat : Placed(n) /\ Drained' = Drained => Placed(n)'
      PROVE  Sequence'
  <2>1. Lined' /\ (InStream' => Ordered') /\ Drained' = Drained
    BY <1>a, OrderStays DEF Sequence
  <2>2. ASSUME InStream'
        PROVE  \E n \in Nat : Placed(n)'
    <3>1. PICK n \in Nat : Placed(n)
      BY <1>a, <2>2 DEF Sequence
    <3>2. QED
      BY <1>a, <2>1, <2>2, <3>1
  <2>3. QED
    BY <2>1, <2>2 DEF Sequence
<1>1. CASE Construct
  <2>1. PICK m \in 0..(Chunk - 1) : m <= Len(wire) /\ Feeds(m, IF m = 0 THEN "idle" ELSE "constructing")
    BY <1>1 DEF Construct
  <2>2. /\ UNCHANGED <<transport, queue, closed, calls>> /\ at = 0 /\ at' = 0 /\ ~closed
    BY <1>1 DEF Construct, wiring, Gate
  <2>3. m \in Nat
    BY <2>1, Constants
  <2>4. \A n \in Nat : Placed(n) /\ Drained' = Drained => Placed(n)'
    BY <2>1, <2>2, <2>3, FeedsPlaced
  <2>5. QED
    BY <1>a, <2>2, <2>4 DEF InStream
<1>2. CASE Trim
  <2>1. /\ buffer' = Rest /\ at' = 0 /\ Reading /\ pc' = "idle"
        /\ UNCHANGED <<written, wire, calls, queue, transport, closed>>
    BY <1>2 DEF Trim, Returns, Trimmed, feed
  <2>2. Rest' = Rest
    <3>1. Rest' = SubSeq(Rest, 1, Len(Rest))
      BY <2>1 DEF Rest
    <3>2. QED
      BY <3>1, RestType, SubSeqFull
  <2>3. \A n \in Nat : Placed(n) /\ Drained' = Drained => Placed(n)'
    BY <2>1, <2>2 DEF Placed, Events
  <2>4. QED
    BY <1>a, <2>1, <2>3 DEF InStream
<1>3. CASE Throw
  <2>1. /\ Fails /\ closed' = TRUE /\ pc' = "idle" /\ UNCHANGED <<written, wire, queue, transport>>
    BY <1>3 DEF Throw, Closes, Returns, feed
  <2>2. \A n \in Nat : Placed(n) /\ Drained' = Drained => Placed(n)'
    BY <2>1 DEF Placed, Events, Reading
  <2>3. QED
    BY <1>a, <2>1, <2>2 DEF InStream
<1>4. CASE Refusal
  <2>1. PICK header \in Leading : /\ Whole(header) /\ header.kind = "Refusal"
                                  /\ at' = at + HeaderLen + header.size
    BY <1>4 DEF Refusal
  <2>2. /\ Fails /\ closed' = TRUE /\ Reading
        /\ UNCHANGED <<written, wire, buffer, queue, transport, pc>>
    BY <1>4 DEF Refusal, feed
  <2>3. InStream' => InStream
    BY <2>2 DEF InStream
  <2>4. Lined' /\ (InStream' => Ordered') /\ Drained' = Drained
    BY <2>2, <2>3, OrderStays DEF Sequence
  <2>5. ASSUME NEW n \in Nat, Placed(n)
        PROVE  Placed(n + 1)'
    <3>1. /\ n + 1 \in 1..Len(written) /\ header = written[n + 1]
          /\ Framed(SubSeq(buffer, at' + 1, Len(buffer)) \o wire, n + 1, written)
      <4>1. PICK a \in Nat : a = at'
        BY <2>1, LeadingType
      <4>2. QED
        BY <2>1, <2>2, <2>5, <4>1, NextFrame DEF Placed
    <3>2. Events \cap 1..(n + 1) = Events \cap 1..n
      <4>1. n + 1 \notin Events
        BY <2>1, <3>1 DEF Events
      <4>2. 1..(n + 1) = 1..n \cup {n + 1}
        OBVIOUS
      <4>3. QED
        BY <4>1, <4>2
    <3>3. Events' = Events /\ written' = written /\ wire' = wire
          /\ Rest' = SubSeq(buffer, at' + 1, Len(buffer))
      BY <2>2 DEF Events, Rest
    <3>4. n + 1 \in 0..Len(written)
      BY <3>1
    <3>5. QED
      BY <2>4, <2>5, <3>1, <3>2, <3>3, <3>4 DEF Placed
  <2>6. InStream' => \E n \in Nat : Placed(n)'
    <3>1. \A n \in Nat : n + 1 \in Nat
      OBVIOUS
    <3>2. QED
      BY <2>3, <2>5, <3>1 DEF Sequence
  <2>7. QED
    BY <2>4, <2>6 DEF Sequence
<1>5. CASE Event
  <2>1. PICK header \in Leading : /\ Whole(header) /\ header.kind # "Refusal" /\ ~Refused(header)
                                  /\ at' = at + HeaderLen + header.size
    BY <1>5 DEF Event
  <2>2. /\ HandOn(Rest[1].frame) /\ Reading
        /\ UNCHANGED <<written, wire, buffer, transport, pc, closed>>
    BY <1>5 DEF Event, feed
  <2>3. InStream' <=> InStream
    BY <2>2 DEF InStream
  <2>4. PICK event \in 1..MaxFrames : event = Rest[1].frame
    BY LeadingType
  <2>5. /\ Lined'
        /\ Ordered /\ (\A i \in Drained : i < event) => Ordered'
        /\ Drained' = Drained \cup {event}
    BY <2>2, <2>4, OrderHandsOn DEF Sequence
  <2>6. ASSUME NEW n \in Nat, Placed(n)
        PROVE  Placed(n + 1)' /\ \A i \in Drained : i < event
    <3>1. /\ n + 1 \in 1..Len(written) /\ header = written[n + 1] /\ event = n + 1
          /\ Framed(SubSeq(buffer, at' + 1, Len(buffer)) \o wire, n + 1, written)
      <4>1. PICK a \in Nat : a = at'
        BY <2>1, LeadingType
      <4>2. QED
        BY <2>1, <2>2, <2>4, <2>6, <4>1, NextFrame DEF Placed
    <3>2. Events \cap 1..(n + 1) = (Events \cap 1..n) \cup {n + 1}
      <4>1. n + 1 \in Events
        <5>1. header.kind # "Failing"
          BY <2>1 DEF Refused
        <5>2. n + 1 \in DOMAIN written
          BY <3>1, LenProperties DEF Streams
        <5>3. QED
          BY <2>1, <3>1, <5>1, <5>2 DEF Events
      <4>2. 1..(n + 1) = 1..n \cup {n + 1}
        OBVIOUS
      <4>3. QED
        BY <4>1, <4>2
    <3>3. Events' = Events /\ written' = written /\ wire' = wire
          /\ Rest' = SubSeq(buffer, at' + 1, Len(buffer))
      BY <2>2 DEF Events, Rest
    <3>4. n + 1 \in 0..Len(written)
      BY <3>1
    <3>5. Drained = Events \cap 1..n
      BY <2>6 DEF Placed
    <3>6. \A i \in Drained : i < event
      BY <3>1, <3>5
    <3>7. QED
      BY <2>5, <3>1, <3>2, <3>3, <3>4, <3>5, <3>6 DEF Placed
  <2>7. ASSUME InStream'
        PROVE  Ordered' /\ \E n \in Nat : Placed(n)'
    <3>1. PICK n \in Nat : Placed(n)
      BY <2>3, <2>7 DEF Sequence
    <3>2. Placed(n + 1)' /\ n + 1 \in Nat /\ Ordered'
      BY <2>3, <2>5, <2>6, <2>7, <3>1 DEF Sequence
    <3>3. QED
      BY <3>2
  <2>8. QED
    BY <2>5, <2>7 DEF Sequence
<1>6. CASE Ask
  <2>1. UNCHANGED <<written, wire, buffer, at, transport, pc, closed>>
    BY <1>6 DEF Ask, feed
  <2>2. Lined' /\ (InStream' => Ordered') /\ Drained' = Drained
    BY <1>6, OrderAsks DEF Sequence
  <2>3. \A n \in Nat : Placed(n) => Placed(n)'
    BY <2>1, <2>2, PlaceStands DEF Reading
  <2>4. QED
    BY <2>1, <2>2, <2>3 DEF Sequence, InStream
<1>7. CASE Close \/ Pass \/ Over \/ Break
  <2>1. /\ UNCHANGED <<written, wire, buffer, at, transport, pc, queue>>
        /\ closed => closed'
        /\ Fails \/ Finishes \/ UNCHANGED calls
    BY <1>7 DEF Close, Closes, Pass, Over, Break, feed
  <2>2. \A n \in Nat : Placed(n) /\ Drained' = Drained => Placed(n)'
    BY <2>1, PlaceStands DEF Reading
  <2>3. QED
    BY <1>a, <2>1, <2>2 DEF InStream
<1>8. CASE Data
  <2>1. PICK m \in 1..Chunk : m <= Len(wire) /\ Feeds(m, "draining")
    BY <1>8 DEF Data
  <2>2. /\ UNCHANGED <<transport, queue, closed, calls>> /\ at = 0 /\ at' = 0
        /\ transport = "tcp" => ~closed
    BY <1>8 DEF Data, Gate
  <2>3. m \in Nat
    BY <2>1, Constants
  <2>4. ~closed => \A n \in Nat : Placed(n) /\ Drained' = Drained => Placed(n)'
    BY <2>1, <2>2, <2>3, FeedsPlaced
  <2>5. QED
    BY <1>a, <2>2, <2>4 DEF InStream
<1>9. CASE Round
  <2>1. UNCHANGED <<transport, queue, closed, calls>>
    BY <1>9 DEF Round, wiring
  <2>2. \A n \in Nat : Placed(n) /\ Drained' = Drained => Placed(n)'
    BY <1>9, RoundPlaced
  <2>3. QED
    BY <1>a, <2>1, <2>2 DEF InStream
<1>10. CASE UNCHANGED vars
  <2>1. UNCHANGED <<written, wire, buffer, at, transport, pc, queue, closed, calls>>
    BY <1>10 DEF vars, feed, wiring
  <2>2. \A n \in Nat : Placed(n) /\ Drained' = Drained => Placed(n)'
    BY <2>1, PlaceStands DEF Reading
  <2>3. QED
    BY <1>a, <2>1, <2>2 DEF InStream
<1>11. QED
  BY <1>1, <1>2, <1>3, <1>4, <1>5, <1>6, <1>7, <1>8, <1>9, <1>10 DEF Next, Drain, Wire

LEMMA SequenceInit == Init => Sequence
<1> SUFFICES ASSUME Init
             PROVE  Sequence
  OBVIOUS
<1>1. Len(<<>>) = 0 /\ DOMAIN <<>> = {}
  BY EmptySeq
<1>2. Met = {} /\ Handed = {} /\ Drained = {}
  BY <1>1 DEF Init, Met, Handed, Drained, ToSet
<1>3. Lined /\ Ordered
  BY <1>1, <1>2 DEF Init, Lined, Ordered
<1>4. Rest \o wire = <<>> /\ written = <<>>
  BY <1>1 DEF Init, FeedInit, Rest
<1>5. Placed(0)
  BY <1>1, <1>2, <1>4, FramedNothing DEF Placed, Events
<1>6. QED
  BY <1>3, <1>5 DEF Sequence

(* The consumer's calls are answered in order with the node's events in order, none
   skipped and none twice, whatever the chunks are cut into and whichever callbacks
   come in between: of two calls the earlier has the earlier event, and the queue holds
   the next ones (client.ts:609-735). *)
THEOREM Sequenced == Spec => []InOrder
<1>1. IInv /\ Backlog /\ Sequence /\ [Next]_vars => Sequence'
  BY SequenceKeeps DEF Backlog
<1>2. ASSUME IInv, Sequence
      PROVE  InOrder
  <2>1. DOMAIN queue = 1..Len(queue)
    BY <1>2, MetType DEF IInv
  <2>2. ASSUME InStream
        PROVE  /\ Drained \subseteq Events
               /\ \A i \in Drained, event \in Events : event < i => event \in Drained
    <3>1. PICK n \in Nat : Drained = Events \cap 1..n
      BY <1>2, <2>2 DEF Sequence, Placed
    <3>2. Events \subseteq Nat \ {0}
      <4>1. DOMAIN written = 1..Len(written) /\ Len(written) \in Nat
        BY <1>2, LenProperties DEF IInv, Streams
      <4>2. QED
        BY <4>1 DEF Events
    <3>3. ASSUME NEW i \in Drained, NEW event \in Events, event < i
          PROVE  event \in Drained
      <4>1. i \in 1..n /\ event \in Nat \ {0}
        BY <3>1, <3>2, <3>3
      <4>2. event \in 1..n
        BY <3>3, <4>1
      <4>3. QED
        BY <3>1, <4>2
    <3>4. QED
      BY <3>1, <3>3
  <2>3. QED
    BY <1>2, <2>1, <2>2 DEF Sequence, Ordered, InOrder
<1>3. IInv /\ IInv' /\ Backlog /\ [Next]_vars => Backlog'
  BY BacklogKeeps
<1>4. QED
  BY <1>1, <1>2, <1>3, BacklogInit, SequenceInit, Invariance, PTL DEF Spec

=============================================================================
