------------------------------ MODULE EventLoop ------------------------------
(***************************************************************************)
(* The calls of a connected Client of the Rust SDK.  next_event reads a    *)
(* frame into `pending` by as many reads as it takes, decompresses, drains *)
(* and accounts for it, and returns an event or an error; set_filters and  *)
(* ping write a frame.  A call may be dropped at any await, as select! and *)
(* timeout drop it; whatever that leaves in `pending`, and of a frame on   *)
(* its way out, is where the next call starts.                             *)
(***************************************************************************)
EXTENDS Feed, SequencesExt

CONSTANTS
  Transport,        \* "quic" or "tcp"
  Limit,            \* max_message_bytes, in payload cells
  Chunk,            \* the most cells one read brings
  FilterLen,        \* payload cells of the filters that are set
  Noise,            \* the lengths and numbers that bytes which are no header may say
  MaxSent,          \* bound: frames after which set_filters and ping write no more
  MaxWireBytes,     \* bound: cells counted, so that retries end
  MaxCancels        \* bound: calls dropped

ASSUME EventLoopAssumption ==
  /\ FeedAssumption
  /\ Transport \in {"quic", "tcp"}
  /\ Limit \in Nat
  /\ Chunk \in Nat \ {0}
  /\ FilterLen \in Nat
  /\ Noise \subseteq Nat /\ Noise # {}
  /\ MaxSent \in Nat
  /\ MaxWireBytes \in Nat
  /\ MaxCancels \in Nat

VARIABLES
  pc,               \* "idle" between calls, else where the call is
  pending,          \* bytes read and not yet taken
  at,               \* while reading: where in pending the read goes
  expected_seq,
  gaps,
  wire_bytes,
  out,              \* the frames begun to be written, and what is left of each
  taken,            \* frames taken out of pending
  skipped,          \* numbers of frames drained before they were accounted for
  cancels,
  broken            \* whether the connection was lost

stats == <<expected_seq, gaps, wire_bytes, taken, skipped>>
vars == <<feed, pc, pending, at, stats, out, cancels, broken>>

-----------------------------------------------------------------------------

Zero == [frame |-> 0, cell |-> 0]

(* What the bytes at the front of pending may say when no header starts there, or
   another's begins before it ends: read_frame_header takes a kind, flags, a length
   and a number from whatever is there, and a Lag its numbers from what follows. *)
Misread ==
  {header \in [kind : Kinds, size : Noise, codec : Codecs \cup {"zstd"}, seq : Noise,
               dropped : Noise \cup {0}, resume : Noise] :
     header.kind = "Lag" \/ header.dropped = 0}

(* A payload that zeros are in the middle of: it decompresses, and decodes, or not. *)
Torn(frame) ==
  [kind : {frame.kind, "Failing"}, size : {frame.size},
   codec : IF frame.codec = "other" THEN {"other"} ELSE {"zstd", "corrupt"},
   seq : {frame.seq}, dropped : {frame.dropped}, resume : {frame.resume}]

(* The first n cells of pending, or as many as there are, are of one frame. *)
OfOneFrame(n) == \A k \in 1..n : k <= Len(pending) => pending[k].frame = pending[1].frame

(* read_frame_header, over whatever bytes are there, and what is made of the payload. *)
Headers ==
  LET frame == written[pending[1].frame] IN
  IF ~(pending[1].cell = 1 /\ OfOneFrame(HeaderLen)) THEN Misread
  ELSE IF OfOneFrame(HeaderLen + frame.size) THEN {frame}
  ELSE Torn(frame)

LimitIgnored(header) == TRUE    \* mutant: the length is the server's to choose

WithinLimit(header) == header.size <= Limit

(* The header at the front of pending, once a whole one is there. *)
Leading == IF Len(pending) < HeaderLen THEN {} ELSE Headers

(* Mutant: a byte past the frame is waited for. *)
WholeAndMore(header) ==
  /\ WithinLimit(header)
  /\ Len(pending) > HeaderLen + header.size

(* A whole frame is in pending, and this is its header. *)
Whole(header) ==
  /\ WithinLimit(header)
  /\ Len(pending) >= HeaderLen + header.size

(* Mutant: the payload is drained and the header forgotten. *)
DrainedPayload(header) == SubSeq(pending, header.size + 1, Len(pending))

(* pending.drain(..range.end): what came after the frame stays. *)
Drained(header) == SubSeq(pending, HeaderLen + header.size + 1, Len(pending))

CountedPayload(header) == wire_bytes + header.size    \* mutant: headers are not counted

Counted(header) == wire_bytes + HeaderLen + header.size

GapUnguarded(header) == header.seq - expected_seq    \* mutant: may be negative

(* What the frame's number says was dropped before it; zero says nothing yet. *)
Gap(header) ==
  IF expected_seq # 0 /\ header.seq > expected_seq THEN header.seq - expected_seq ELSE 0

(* Mutant: the count is believed, and the sequence goes on from the Lag's number. *)
ResumeIgnored(header) == header.seq + 1

(* The number expected after this frame: a Lag says where the stream resumes. *)
Expected(header) == IF header.kind = "Lag" THEN header.resume ELSE header.seq + 1

Init ==
  /\ FeedInit
  /\ pc = "idle"
  /\ pending = <<>>
  /\ at = 0
  /\ expected_seq = 0
  /\ gaps = 0
  /\ wire_bytes = 0
  /\ out = <<>>
  /\ taken = 0
  /\ skipped = {}
  /\ cancels = 0
  /\ broken = FALSE

(* next_event is called: read_frame looks at what pending already has. *)
Call ==
  /\ pc = "idle"
  /\ wire_bytes < MaxWireBytes
  /\ pc' = "looking"
  /\ UNCHANGED <<feed, pending, at, stats, out, cancels, broken>>

(* The frame is longer than this connection accepts, and stays where it is. *)
TooLarge ==
  /\ pc = "looking"
  /\ \E header \in Leading : ~WithinLimit(header)
  /\ pc' = "idle"
  /\ UNCHANGED <<feed, pending, at, stats, out, cancels, broken>>

(* The read goes into the spare capacity; QUIC's fills it with zeros first. *)
StartRead ==
  /\ pc = "looking"
  /\ Leading = {} \/ \E header \in Leading : WithinLimit(header) /\ ~Whole(header)
  /\ pc' = "reading"
  /\ at' = Len(pending)
  /\ pending' = IF Transport = "quic" THEN pending \o [i \in 1..Chunk |-> Zero] ELSE pending
  /\ UNCHANGED <<feed, stats, out, cancels, broken>>

(* What arrived is put at the end, and the rest of the zeros cut off. *)
Receive ==
  /\ pc = "reading"
  /\ ~broken
  /\ \E n \in 1..Chunk :
       /\ n <= Len(wire)
       /\ pending' = SubSeq(pending, 1, at) \o SubSeq(wire, 1, n)
       /\ wire' = SubSeq(wire, n + 1, Len(wire))
  /\ pc' = "looking"
  /\ at' = 0
  /\ UNCHANGED <<written, next, since, lost, open, stats, out, cancels, broken>>

(* A read of nothing: the peer is done, and the call fails. *)
Closed ==
  /\ pc = "reading"
  /\ ~open
  /\ wire = <<>>
  /\ pc' = "idle"
  /\ at' = 0
  /\ pending' = SubSeq(pending, 1, at)
  /\ UNCHANGED <<feed, stats, out, cancels, broken>>

(* The read fails, and the call with it, before the zeros are cut off. *)
ReadFails ==
  /\ pc = "reading"
  /\ pc' = "idle"
  /\ at' = 0
  /\ broken' = TRUE
  /\ UNCHANGED <<feed, pending, stats, out, cancels>>

Length(kind) == HeaderLen + IF kind = "SetFilter" THEN FilterLen ELSE 0

(* A call begins to write a frame. *)
Begins(kind) ==
  /\ out' = Append(out, [kind |-> kind, left |-> Length(kind)])
  /\ pc' = "writing"

(* set_filters or ping is called. *)
Send ==
  /\ pc = "idle"
  /\ Len(out) < MaxSent
  /\ \E kind \in {"SetFilter", "Ping"} : Begins(kind)
  /\ UNCHANGED <<feed, pending, at, stats, cancels, broken>>

(* The frame is decompressed, drained and accounted for.  All but a Ping end the
   call here, as an event or as an error; a Ping is answered first. *)
Take ==
  /\ pc = "looking"
  /\ \E header \in Leading :
       /\ Whole(header)
       /\ header.codec = "zstd"
       /\ pending' = Drained(header)
       /\ wire_bytes' = Counted(header)
       /\ gaps' = gaps + Gap(header) + header.dropped
       /\ expected_seq' = Expected(header)
       /\ IF header.kind = "Ping" THEN Begins("Pong") ELSE pc' = "idle" /\ UNCHANGED out
  /\ taken' = taken + 1
  /\ UNCHANGED <<feed, at, skipped, cancels, broken>>

(* The payload does not decompress: the call fails with the frame counted and
   still in pending, where the next call finds it. *)
Undecodable ==
  /\ pc = "looking"
  /\ \E header \in Leading :
       /\ Whole(header)
       /\ header.codec = "corrupt"
       /\ wire_bytes' = Counted(header)
  /\ pc' = "idle"
  /\ UNCHANGED <<feed, pending, at, expected_seq, gaps, taken, skipped, out, cancels, broken>>

(* A codec that was not asked for: the frame is drained, its number unseen. *)
OtherCodec ==
  /\ pc = "looking"
  /\ \E header \in Leading :
       /\ Whole(header)
       /\ header.codec = "other"
       /\ pending' = Drained(header)
       /\ wire_bytes' = Counted(header)
       /\ skipped' = skipped \cup {header.seq}
  /\ taken' = taken + 1
  /\ pc' = "idle"
  /\ UNCHANGED <<feed, at, expected_seq, gaps, out, cancels, broken>>

WrittenOnce(n) == TRUE    \* mutant: write, which may take less than all of it

WrittenAll(n) == n = Last(out).left

(* write_all: the transport takes some of the frame.  When it has all of it the call
   returns, that of a Ping with its event. *)
Writes ==
  /\ pc = "writing"
  /\ ~broken
  /\ \E n \in 1..Last(out).left :
       /\ out' = [out EXCEPT ![Len(out)].left = @ - n]
       /\ pc' = IF WrittenAll(n) THEN "idle" ELSE pc
  /\ UNCHANGED <<feed, pending, at, stats, cancels, broken>>

WriteFails ==
  /\ pc = "writing"
  /\ broken' = TRUE
  /\ pc' = "idle"
  /\ UNCHANGED <<feed, pending, at, stats, out, cancels>>

(* The future is dropped where it waits, and its locals with it. *)
Cancel ==
  /\ pc \in {"reading", "writing"}
  /\ cancels < MaxCancels
  /\ cancels' = cancels + 1
  /\ pc' = "idle"
  /\ at' = 0
  /\ UNCHANGED <<feed, pending, stats, out, broken>>

-----------------------------------------------------------------------------

Reader ==
  \/ TooLarge \/ StartRead \/ Receive \/ Closed
  \/ Take \/ Undecodable \/ OtherCodec \/ Writes

Round == Node /\ UNCHANGED <<pc, pending, at, stats, out, cancels, broken>>

Next == Call \/ Send \/ Reader \/ ReadFails \/ WriteFails \/ Cancel \/ Round

Spec == Init /\ [][Next]_vars

(* The consumer calls next_event again, the runtime polls the call, bytes on the wire
   arrive, and the transport takes more of a frame that is being written, so that the
   peer goes on reading.  Nothing is assumed of what the node writes, or of when the
   connection fails. *)
FairSpec == Spec /\ WF_vars(Call) /\ WF_vars(Reader)

-----------------------------------------------------------------------------
(* Properties *)

(* Every variable stays in its range, and a number below the expected one takes nothing
   off the count of dropped frames (client.rs:713-716).  Counts are not of 64 bits here. *)
TypeOK ==
  /\ pc \in {"idle", "looking", "reading", "writing"}
  /\ \A i \in DOMAIN pending : pending[i] \in Cells
  /\ at \in 0..Len(pending)
  /\ expected_seq \in Nat
  /\ gaps \in Nat
  /\ wire_bytes \in Nat
  /\ \A i \in DOMAIN out : out[i].left \in 0..Length(out[i].kind)
  /\ taken \in Nat
  /\ skipped \subseteq Nat
  /\ cancels \in 0..MaxCancels
  /\ broken \in BOOLEAN

(* What pending holds that was read from the socket. *)
Received == IF pc = "reading" THEN SubSeq(pending, 1, at) ELSE pending

(* What is read and what is on its way are together the frames not yet taken,
   from the first byte of a header on: however the bytes were cut, and wherever a
   call was dropped, no call starts inside a frame (client.rs:678-708, 804-830). *)
Boundary ==
  LET rest == Received \o wire IN
  IF rest = <<>> THEN taken = Len(written)
  ELSE
    /\ rest[1] = [frame |-> taken + 1, cell |-> 1]
    /\ Last(rest) = Last(CellsOf(Len(written), written[Len(written)]))
    /\ \A i \in 1..(Len(rest) - 1) :
         \/ rest[i + 1] = [rest[i] EXCEPT !.cell = @ + 1]
         \/ /\ rest[i].cell = HeaderLen + written[rest[i].frame].size
            /\ rest[i + 1] = [frame |-> rest[i].frame + 1, cell |-> 1]

(* `gaps` is the number of frames the node dropped before the next one expected,
   each counted once, whether a Lag told of them, the numbers did, or both; of a
   frame in another codec it counts at most that one (client.rs:711-735). *)
GapsExact ==
  LET missing == {s \in lost \cup skipped : s < expected_seq} IN
  /\ gaps <= Cardinality(missing)
  /\ skipped = {} => gaps = Cardinality(missing)

(* A frame at the front that no call will ever get past. *)
Stuck == \E header \in Leading :
  \/ ~WithinLimit(header)
  \/ Whole(header) /\ header.codec = "corrupt"

(* The cells of all the frames. *)
CellsWritten == CellsOfFirst(written, Len(written))

(* Until a frame cannot be decompressed, every cell that was read is counted once,
   or still in pending (client.rs:678-704). *)
WireBytesExact ==
  ~Stuck => wire_bytes + Len(Received) + Len(wire) = Cardinality(CellsWritten)

(* However long the frames the node announces are, what is buffered is less than
   one frame within the limit and one read (client.rs:811-824). *)
BufferBounded == Len(Received) < HeaderLen + Limit + Chunk

(* Every Ping taken is answered by a Pong in the call that takes it, and every frame
   goes out whole before the next begins, but for one of each call that was dropped
   and whatever there was to write when the connection was lost (client.rs:655-672,
   718-722, 783-788, transport.rs:147-156). *)
PingsAnswered ==
  /\ Cardinality({i \in DOMAIN out : out[i].kind = "Pong"})
       = Cardinality({i \in 1..taken : written[i].kind = "Ping"})
  /\ ~broken =>
       Cardinality({i \in DOMAIN out : out[i].left > 0})
         <= cancels + IF pc = "writing" THEN 1 ELSE 0

(* Every frame written is taken, unless one before it cannot be. *)
Delivered ==
  \A i \in 1..MaxFrames : Len(written) >= i ~> taken >= i \/ Stuck \/ broken

(* Client::pending: "Bytes read from the socket that do not yet form a whole
   frame." (client.rs:320) *)
PendingWasRead == pc = "idle" => \A i \in DOMAIN pending : pending[i] # Zero

(* Client::wire_bytes: "Compressed bytes received." (client.rs:621) *)
WireBytesReceived == wire_bytes + Len(wire) <= Cardinality(CellsWritten)

=============================================================================
