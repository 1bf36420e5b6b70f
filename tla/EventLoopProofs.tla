--------------------------- MODULE EventLoopProofs ---------------------------
(***************************************************************************)
(* What the calls of a connected client promise whatever the node writes,  *)
(* however reads cut it, and wherever calls are dropped.  That calls start *)
(* between frames, answer the Pings among them, and count each gap and     *)
(* each byte once is proved over TCP: over QUIC a dropped read leaves      *)
(* zeros behind, and they do not.                                          *)
(***************************************************************************)
EXTENDS EventLoop, FeedProofs

(* Only the first cell of a header says which frame it is of. *)
KnownCells(w) == {c \in Cells : c.cell = 1 => c.frame \in 1..Len(w)}

Outgoing == [kind : {"SetFilter", "Ping", "Pong"}, left : Nat]

Streams ==
  /\ written \in Seq(Frames)
  /\ wire \in Seq(KnownCells(written))
  /\ pending \in Seq(KnownCells(written))
  /\ next \in Nat /\ since \in Nat
  /\ taken \in Nat

Reads ==
  /\ pc \in {"idle", "looking", "reading", "writing"}
  /\ at \in 0..Len(pending) /\ (pc # "reading" => at = 0)
  /\ Len(pending) < HeaderLen + Limit + Chunk
  /\ pc = "reading" => at < HeaderLen + Limit /\ (Transport = "tcp" => at = Len(pending))

Counts ==
  /\ expected_seq \in Nat
  /\ gaps \in Nat
  /\ wire_bytes \in Nat
  /\ skipped \subseteq Nat
  /\ cancels \in 0..MaxCancels
  /\ broken \in BOOLEAN

(* What is read and what is on its way are together the frames not yet taken. *)
InPlace == Transport = "tcp" => Framed(pending \o wire, taken, written)

Unfinished == {i \in 1..Len(out) : out[i].left > 0}

(* A call that writes has something left to write, of the last frame. *)
Sends ==
  /\ out \in Seq(Outgoing)
  /\ \A i \in 1..Len(out) : out[i].left <= Length(out[i].kind)
  /\ pc = "writing" => Len(out) \in Unfinished
  /\ ~broken => Cardinality(Unfinished) <= cancels + IF pc = "writing" THEN 1 ELSE 0

Pongs == {i \in 1..Len(out) : out[i].kind = "Pong"}

Pings == {i \in 1..taken : written[i].kind = "Ping"}

(* Nothing but data comes in a codec that was not asked for. *)
OnlyData == \A i \in 1..Len(written) : written[i].codec # "zstd" => written[i].kind = "Data"

Answers == Transport = "tcp" => OnlyData /\ Cardinality(Pongs) = Cardinality(Pings)

IInv == Streams /\ Reads /\ Counts /\ InPlace /\ Sends /\ Answers

-----------------------------------------------------------------------------
(* What the steps have in common *)

LEMMA Constants ==
  /\ HeaderLen \in Nat \ {0} /\ Limit \in Nat /\ Chunk \in Nat \ {0}
  /\ FilterLen \in Nat /\ MaxCancels \in Nat
  /\ Sizes \subseteq Nat /\ Long \in Nat
  /\ Transport \in {"quic", "tcp"}
BY EventLoopAssumption DEF EventLoopAssumption, FeedAssumption

LEMMA LengthType == \A kind : Length(kind) \in Nat \ {0}
BY Constants DEF Length

LEMMA KnownGrows ==
  ASSUME NEW w \in Seq(Frames), NEW v \in Seq(Frames), Len(w) <= Len(v)
  PROVE  KnownCells(w) \subseteq KnownCells(v)
<1>1. Len(w) \in Nat /\ Len(v) \in Nat
  BY LenProperties
<1>2. QED
  BY <1>1 DEF KnownCells

LEMMA KnownAreCells == \A w : KnownCells(w) \subseteq Cells
BY DEF KnownCells

(* Whatever stands at the front of pending, a header is read from it. *)
LEMMA LeadingType ==
  ASSUME Streams
  PROVE  /\ Leading \subseteq Frames
         /\ Len(pending) >= HeaderLen => Leading # {}
<1>1. Len(pending) \in Nat /\ HeaderLen \in Nat \ {0}
  BY LenProperties, Constants DEF Streams
<1>2. CASE Len(pending) < HeaderLen
  BY <1>1, <1>2 DEF Leading
<1>3. CASE ~(Len(pending) < HeaderLen)
  <2>1. pending[1] \in KnownCells(written)
    BY <1>1, <1>3, ElementOfSeq DEF Streams
  <2> DEFINE frame == written[pending[1].frame]
  <2>2. CASE pending[1].cell = 1 /\ OfOneFrame(HeaderLen)
    <3>1. frame \in Frames
      BY <2>1, <2>2, ElementOfSeq DEF Streams, KnownCells
    <3>2. CASE OfOneFrame(HeaderLen + frame.size)
      <4>1. Leading = {frame}
        BY <1>3, <2>2, <3>2 DEF Leading, Headers
      <4>2. QED
        BY <3>1, <4>1
    <3>3. CASE ~OfOneFrame(HeaderLen + frame.size)
      <4>1. Leading = Torn(frame)
        BY <1>3, <2>2, <3>3 DEF Leading, Headers
      <4> HIDE DEF frame
      <4> DEFINE codecs == IF frame.codec = "other" THEN {"other"} ELSE {"zstd", "corrupt"}
      <4>2. codecs \subseteq {"zstd", "corrupt", "other"} /\ \E c \in codecs : TRUE
        OBVIOUS
      <4>3. Torn(frame) = [kind : {frame.kind, "Failing"}, size : {frame.size}, codec : codecs,
                           seq : {frame.seq}, dropped : {frame.dropped}, resume : {frame.resume}]
        BY DEF Torn
      <4> HIDE DEF codecs
      <4>4. frame.kind \in Kinds /\ "Failing" \in Kinds /\ frame.size \in Nat /\ frame.seq \in Nat
            /\ frame.dropped \in Nat /\ frame.resume \in Nat
        BY <3>1 DEF Frames, Kinds
      <4>5. Torn(frame) \subseteq Frames
        <5> SUFFICES ASSUME NEW torn \in Torn(frame)
                     PROVE  torn \in Frames
          OBVIOUS
        <5> DEFINE ks == {frame.kind, "Failing"}
                   sizes == {frame.size}
                   seqs == {frame.seq}
                   drops == {frame.dropped}
                   resumes == {frame.resume}
        <5>1. /\ ks \subseteq Kinds /\ sizes \subseteq Nat /\ seqs \subseteq Nat
              /\ drops \subseteq Nat /\ resumes \subseteq Nat
          BY <4>4
        <5>2. torn \in [kind : ks, size : sizes, codec : codecs, seq : seqs, dropped : drops,
                        resume : resumes]
          BY <4>3
        <5> HIDE DEF ks, sizes, seqs, drops, resumes
        <5>3. QED
          BY <4>2, <5>1, <5>2 DEF Frames
      <4>6. PICK c \in codecs : TRUE
        BY <4>2
      <4>7. [kind |-> frame.kind, size |-> frame.size, codec |-> c, seq |-> frame.seq,
             dropped |-> frame.dropped, resume |-> frame.resume] \in Torn(frame)
        BY <4>3
      <4>8. QED
        BY <4>1, <4>5, <4>7
    <3>4. QED
      BY <3>2, <3>3
  <2>3. CASE ~(pending[1].cell = 1 /\ OfOneFrame(HeaderLen))
    <3>1. Leading = Misread
      BY <1>3, <2>3 DEF Leading, Headers
    <3>2. Noise \subseteq Nat /\ Codecs \subseteq {"zstd", "corrupt", "other"} /\ Noise # {}
      BY EventLoopAssumption DEF EventLoopAssumption, FeedAssumption
    <3>3. Misread \subseteq Frames
      <4>1. ASSUME NEW m \in Misread
            PROVE  m \in [kind : Kinds, size : Nat, codec : {"zstd", "corrupt", "other"}, seq : Nat,
                          dropped : Nat, resume : Nat]
        <5>1. m \in [kind : Kinds, size : Noise, codec : Codecs \cup {"zstd"}, seq : Noise,
                     dropped : Noise \cup {0}, resume : Noise]
          BY DEF Misread
        <5>2. Codecs \cup {"zstd"} \subseteq {"zstd", "corrupt", "other"} /\ Noise \cup {0} \subseteq Nat
          BY <3>2
        <5>3. QED
          BY <3>2, <5>1, <5>2
      <4>2. QED
        BY <4>1 DEF Frames
    <3>4. PICK n \in Noise : TRUE
      BY <3>2
    <3>5. [kind |-> "Lag", size |-> n, codec |-> "zstd", seq |-> n, dropped |-> 0, resume |-> n]
            \in Misread
      BY DEF Misread, Kinds
    <3>6. QED
      BY <3>1, <3>3, <3>5
  <2>4. QED
    BY <2>2, <2>3
<1>4. QED
  BY <1>2, <1>3

(* Over TCP it is the header of the next frame to take, and all of it is there. *)
LEMMA LeadingFront ==
  ASSUME IInv, Transport = "tcp", NEW header \in Leading
  PROVE  /\ Len(pending) >= HeaderLen
         /\ Len(pending \o wire) > 0
         /\ taken + 1 \in 1..Len(written)
         /\ header = written[taken + 1]
<1>1. /\ Len(pending) \in Nat /\ Len(wire) \in Nat /\ HeaderLen \in Nat \ {0}
      /\ pending \in Seq(Cells) /\ wire \in Seq(Cells)
  BY LenProperties, Constants, KnownAreCells, SeqMonotonic DEF IInv, Streams
<1>2. Len(pending) >= HeaderLen
  BY <1>1 DEF Leading
<1>3. /\ Len(pending \o wire) = Len(pending) + Len(wire)
      /\ \A k \in 1..(Len(pending) + Len(wire)) :
           (pending \o wire)[k] = IF k <= Len(pending) THEN pending[k] ELSE wire[k - Len(pending)]
  BY <1>1, ConcatProperties
<1>4. Len(pending \o wire) > 0
  BY <1>1, <1>2, <1>3
<1>5. /\ taken + 1 \in 1..Len(written) /\ written[taken + 1] \in Frames
      /\ \A k \in 1..Extent(written[taken + 1]) :
           (pending \o wire)[k] = [frame |-> taken + 1, cell |-> k]
  <2>1. Framed(pending \o wire, taken, written)
    BY DEF IInv, InPlace
  <2>2. FeedAssumption
    BY EventLoopAssumption DEF EventLoopAssumption
  <2>3. /\ taken + 1 \in 1..Len(written) /\ written[taken + 1] \in Frames
        /\ \A k \in 1..Extent(written[taken + 1]) :
             (pending \o wire)[k] = [frame |-> taken + 1, cell |-> k]
    <3> DEFINE rest == pending \o wire
    <3>1. Framed(rest, taken, written) /\ Len(rest) > 0
      BY <1>4, <2>1
    <3> HIDE DEF rest
    <3>2. /\ taken + 1 \in 1..Len(written) /\ written[taken + 1] \in Frames
          /\ \A k \in 1..Extent(written[taken + 1]) :
               rest[k] = [frame |-> taken + 1, cell |-> k]
      BY <2>2, <3>1, FramedFront
    <3>3. QED
      BY <3>2 DEF rest
  <2>4. QED
    BY <2>3
<1>6. \A k \in 1..HeaderLen : k \in 1..Extent(written[taken + 1]) /\ k \in 1..Len(pending)
  BY <1>1, <1>2, <1>5 DEF Extent, Frames
<1>7. \A k \in 1..HeaderLen : pending[k] = (pending \o wire)[k]
  BY <1>1, <1>3, <1>6
<1>8. \A k \in 1..HeaderLen : pending[k] = [frame |-> taken + 1, cell |-> k]
  BY <1>5, <1>6, <1>7
<1>9. pending[1] = [frame |-> taken + 1, cell |-> 1]
  BY <1>1, <1>8
<1>10. pending[1].frame = taken + 1 /\ pending[1].cell = 1
  BY <1>9
<1>11. OfOneFrame(HeaderLen) /\ OfOneFrame(HeaderLen + written[taken + 1].size)
  <2>1. ASSUME NEW k \in 1..Extent(written[taken + 1]), k <= Len(pending)
        PROVE  pending[k].frame = taken + 1
    <3>1. k \in 1..Len(pending) /\ k \in 1..(Len(pending) + Len(wire))
      BY <1>1, <2>1, <1>5 DEF Extent, Frames
    <3>2. pending[k] = [frame |-> taken + 1, cell |-> k]
      BY <1>3, <1>5, <2>1, <3>1
    <3>3. QED
      BY <3>2
  <2>2. QED
    BY <1>6, <1>10, <2>1 DEF OfOneFrame, Extent
<1>12. Leading = {written[taken + 1]}
  BY <1>1, <1>2, <1>10, <1>11 DEF Leading, Headers
<1>13. QED
  BY <1>2, <1>4, <1>5, <1>12

-----------------------------------------------------------------------------
(* The node *)

LEMMA RoundKeeps ==
  ASSUME IInv, Round
  PROVE  IInv'
<1>1. /\ Reads' /\ Counts' /\ Sends'
      /\ UNCHANGED <<pending, taken, out>>
  BY DEF IInv, Round, Reads, Counts, Sends, Unfinished, stats
<1>2. /\ next' \in Nat /\ since' \in Nat
      /\ (written' = written /\ wire' = wire) \/ Writing(written', wire')
  BY NodeWrites, EventLoopAssumption DEF Round, IInv, Streams, EventLoopAssumption
<1>3. CASE written' = written /\ wire' = wire
  BY <1>1, <1>2, <1>3 DEF IInv, Streams, InPlace, Answers, OnlyData, Pongs, Pings
<1>4. CASE Writing(written', wire')
  <2>1. PICK frame \in Frames :
               /\ frame.codec # "zstd" => frame.kind = "Data"
               /\ written' = Append(written, frame)
               /\ wire' = wire \o CellsOf(Len(written) + 1, frame)
    BY <1>4 DEF Writing
  <2> DEFINE cells == CellsOf(Len(written) + 1, frame)
  <2>2. /\ written \in Seq(Frames) /\ Len(written) \in Nat
        /\ written' \in Seq(Frames) /\ Len(written') = Len(written) + 1
        /\ \A i \in 1..Len(written) : written'[i] = written[i]
        /\ written'[Len(written) + 1] = frame
    BY <2>1, LenProperties, AppendProperties DEF IInv, Streams
  <2>3. /\ cells \in Seq(Cells) /\ Len(cells) = Extent(frame)
        /\ \A k \in 1..Extent(frame) : cells[k] = [frame |-> Len(written) + 1, cell |-> k]
    BY <2>2, CellsOfProperties, EventLoopAssumption DEF EventLoopAssumption
  <2>4. /\ wire \in Seq(KnownCells(written')) /\ pending \in Seq(KnownCells(written'))
        /\ wire \in Seq(Cells) /\ pending \in Seq(Cells)
    BY <2>2, KnownGrows, KnownAreCells, SeqMonotonic DEF IInv, Streams
  <2>5. cells \in Seq(KnownCells(written'))
    <3>1. \A k \in 1..Extent(frame) : cells[k] \in KnownCells(written')
      <4> SUFFICES ASSUME NEW k \in 1..Extent(frame)
                   PROVE  cells[k] \in KnownCells(written')
        OBVIOUS
      <4>1. cells[k] = [frame |-> Len(written) + 1, cell |-> k] /\ cells[k] \in Cells
        BY <2>3, ElementOfSeq
      <4>2. cells[k].frame = Len(written) + 1
        BY <4>1
      <4>3. QED
        BY <2>2, <4>1, <4>2 DEF KnownCells
    <3>2. cells \in [1..Len(cells) -> KnownCells(written')] /\ Len(cells) \in Nat
      BY <2>3, <3>1, LenProperties
    <3>3. QED
      BY <3>2, SeqDef
  <2>6. wire' \in Seq(KnownCells(written'))
    BY <2>1, <2>4, <2>5, ConcatProperties
  <2>7. Streams'
    BY <1>1, <1>2, <2>2, <2>4, <2>6 DEF IInv, Streams
  <2>8. InPlace'
    <3> SUFFICES ASSUME Transport = "tcp"
                 PROVE  Framed(pending \o wire', taken, written')
      BY <1>1 DEF InPlace
    <3>1. pending \o wire' = (pending \o wire) \o cells
      <4>1. wire' = wire \o cells
        BY <2>1
      <4> HIDE DEF cells
      <4>2. (pending \o wire) \o cells = pending \o (wire \o cells)
        BY <2>3, <2>4, ConcatAssociative
      <4>3. QED
        BY <4>1, <4>2
    <3>2. Framed((pending \o wire) \o cells, taken, Append(written, frame))
      BY FramedWritten, EventLoopAssumption DEF IInv, InPlace, EventLoopAssumption
    <3>3. QED
      BY <2>1, <3>1, <3>2
  <2>9. Answers'
    <3> SUFFICES ASSUME Transport = "tcp"
                 PROVE  OnlyData' /\ Cardinality(Pongs') = Cardinality(Pings')
      BY DEF Answers
    <3>1. OnlyData'
      <4>1. \A i \in 1..(Len(written) + 1) : written'[i].codec # "zstd" => written'[i].kind = "Data"
        BY <2>1, <2>2 DEF IInv, Answers, OnlyData
      <4>2. QED
        BY <2>2, <4>1 DEF OnlyData
    <3>2. taken \in 0..Len(written)
      BY DEF IInv, InPlace, Framed
    <3>3. Pings' = Pings
      BY <1>1, <2>2, <3>2 DEF Pings
    <3>4. Pongs' = Pongs
      BY <1>1 DEF Pongs
    <3>5. QED
      BY <3>1, <3>3, <3>4 DEF IInv, Answers
  <2>10. QED
    BY <1>1, <2>7, <2>8, <2>9 DEF IInv
<1>5. QED
  BY <1>2, <1>3, <1>4

-----------------------------------------------------------------------------
(* What the client's steps have in common *)

LEMMA StreamKept ==
  ASSUME IInv, UNCHANGED <<feed, pending, taken, out>>
  PROVE  Streams' /\ InPlace' /\ Answers'
BY DEF IInv, feed, Streams, InPlace, Answers, OnlyData, Pongs, Pings

LEMMA SendsKept ==
  ASSUME IInv, UNCHANGED <<out, cancels>>, pc # "writing", pc' # "writing",
         broken' = broken \/ broken' = TRUE
  PROVE  Sends'
BY DEF IInv, Sends, Unfinished

LEMMA Finite ==
  ASSUME IInv
  PROVE  /\ IsFiniteSet(Unfinished) /\ Cardinality(Unfinished) \in Nat
         /\ IsFiniteSet(Pongs) /\ Cardinality(Pongs) \in Nat
         /\ IsFiniteSet(Pings) /\ Cardinality(Pings) \in Nat
<1>1. Len(out) \in Nat /\ taken \in Nat
  BY LenProperties DEF IInv, Sends, Streams
<1>2. IsFiniteSet(1..Len(out)) /\ IsFiniteSet(1..taken)
  BY <1>1, FS_Interval
<1>3. Unfinished \subseteq 1..Len(out) /\ Pongs \subseteq 1..Len(out) /\ Pings \subseteq 1..taken
  BY DEF Unfinished, Pongs, Pings
<1>4. IsFiniteSet(Unfinished) /\ IsFiniteSet(Pongs) /\ IsFiniteSet(Pings)
  BY <1>2, <1>3, FS_Subset
<1>5. QED
  BY <1>4, FS_CardinalityType

(* One frame more is on its way out. *)
LEMMA BeginsKeeps ==
  ASSUME IInv, NEW kind \in {"SetFilter", "Ping", "Pong"}, Begins(kind), pc # "writing",
         UNCHANGED <<cancels, broken>>
  PROVE  /\ Sends'
         /\ Cardinality(Pongs') = Cardinality(Pongs) + IF kind = "Pong" THEN 1 ELSE 0
<1> DEFINE f == [kind |-> kind, left |-> Length(kind)]
           n == Len(out)
<1>1. /\ f \in Outgoing /\ f.left = Length(kind) /\ f.kind = kind
      /\ Length(kind) \in Nat \ {0}
  BY LengthType DEF Outgoing
<1>2. out \in Seq(Outgoing) /\ n \in Nat /\ out' = Append(out, f)
  BY LenProperties DEF IInv, Sends, Begins
<1> HIDE DEF f
<1>3. /\ out' \in Seq(Outgoing) /\ Len(out') = n + 1
      /\ \A i \in 1..n : out'[i] = out[i]
      /\ out'[n + 1] = f
  BY <1>1, <1>2, AppendProperties
<1> HIDE DEF n
<1>4. Unfinished = {i \in 1..n : out[i].left > 0} /\ Pongs = {i \in 1..n : out[i].kind = "Pong"}
  BY DEF Unfinished, Pongs, n
<1>5. /\ Unfinished' = {i \in 1..(n + 1) : out'[i].left > 0}
      /\ Pongs' = {i \in 1..(n + 1) : out'[i].kind = "Pong"}
  BY <1>3 DEF Unfinished, Pongs
<1>6. n + 1 \notin Unfinished /\ n + 1 \notin Pongs
  BY <1>2, <1>4
<1>7. Unfinished' = Unfinished \cup {n + 1}
  BY <1>1, <1>2, <1>3, <1>4, <1>5
<1>8. Cardinality(Unfinished') = Cardinality(Unfinished) + 1
  BY <1>6, <1>7, Finite, FS_AddElement
<1>9. \A i \in 1..Len(out') : out'[i].left <= Length(out'[i].kind)
  <2>1. \A i \in 1..n : out[i].left <= Length(out[i].kind)
    BY DEF IInv, Sends, n
  <2>2. f.left <= Length(f.kind)
    BY <1>1
  <2>3. QED
    BY <1>2, <1>3, <2>1, <2>2
<1>10. Sends'
  <2>1. pc' = "writing" /\ UNCHANGED <<cancels, broken>>
    BY DEF Begins
  <2>2. ~broken => Cardinality(Unfinished) <= cancels
    BY DEF IInv, Sends, Counts
  <2>3. Len(out') \in Unfinished'
    BY <1>3, <1>7
  <2>4. ~broken' => Cardinality(Unfinished') <= cancels' + 1
    BY <1>8, <2>1, <2>2, Finite DEF IInv, Counts
  <2>5. QED
    BY <1>3, <1>9, <2>1, <2>3, <2>4 DEF Sends
<1>11. Cardinality(Pongs') = Cardinality(Pongs) + IF kind = "Pong" THEN 1 ELSE 0
  <2>1. CASE kind = "Pong"
    <3>1. Pongs' = Pongs \cup {n + 1}
      BY <1>1, <1>2, <1>3, <1>4, <1>5, <2>1
    <3>2. QED
      BY <1>6, <2>1, <3>1, Finite, FS_AddElement
  <2>2. CASE kind # "Pong"
    <3>1. Pongs' = Pongs
      BY <1>1, <1>2, <1>3, <1>4, <1>5, <2>2
    <3>2. QED
      BY <2>2, <3>1, Finite
  <2>3. QED
    BY <2>1, <2>2
<1>12. QED
  BY <1>10, <1>11

(* The frame at the front is taken. *)
LEMMA TakenKeeps ==
  ASSUME IInv, NEW header \in Leading, Whole(header), pending' = Drained(header),
         taken' = taken + 1, UNCHANGED feed
  PROVE  /\ Streams' /\ InPlace'
         /\ Len(pending') < HeaderLen + Limit + Chunk
         /\ Transport = "tcp" =>
              /\ OnlyData' /\ (header.codec # "zstd" => header.kind = "Data")
              /\ Cardinality(Pings') = Cardinality(Pings) + IF header.kind = "Ping" THEN 1 ELSE 0
<1> DEFINE E == HeaderLen + header.size
           L == Len(pending)
           K == KnownCells(written)
<1>1. /\ header.size \in Nat /\ E \in Nat \ {0} /\ L \in Nat /\ E <= L
      /\ pending \in Seq(K) /\ wire \in Seq(K) /\ Len(wire) \in Nat
      /\ L < HeaderLen + Limit + Chunk
  BY SMTT(20), LeadingType, LenProperties, Constants DEF IInv, Streams, Reads, Whole, Frames
<1>2. pending' = SubSeq(pending, E + 1, L)
  BY <1>1, Constants DEF Drained
<1> HIDE DEF E, K
<1>3. /\ pending' \in Seq(K) /\ Len(pending') = L - E
      /\ \A i \in 1..(L - E) : pending'[i] = pending[i + E]
  <2>1. \A i \in (E + 1)..L : pending[i] \in K
    <3>1. \A i \in (E + 1)..L : i \in 1..L
      BY <1>1
    <3>2. QED
      BY <1>1, <3>1, ElementOfSeq
  <2>2. /\ pending' \in Seq(K)
        /\ Len(pending') = IF E + 1 <= L THEN L - (E + 1) + 1 ELSE 0
        /\ \A i \in 1..(L - (E + 1) + 1) : pending'[i] = pending[E + 1 + i - 1]
    BY <1>1, <1>2, <2>1, SubSeqProperties
  <2> HIDE DEF L
  <2>3. \A i \in 1..(L - E) : E + 1 + i - 1 = i + E /\ i \in 1..(L - (E + 1) + 1)
    BY <1>1
  <2>4. QED
    BY <1>1, <2>2, <2>3
<1>4. Streams'
  BY <1>1, <1>3 DEF IInv, Streams, feed, K
<1>5. Len(pending') < HeaderLen + Limit + Chunk
  BY <1>1, <1>3, Constants
<1>6. ASSUME Transport = "tcp"
      PROVE  /\ Framed(pending' \o wire', taken', written')
             /\ OnlyData' /\ (header.codec # "zstd" => header.kind = "Data")
             /\ Cardinality(Pings') = Cardinality(Pings) + IF header.kind = "Ping" THEN 1 ELSE 0
  <2>1. /\ Len(pending \o wire) > 0 /\ taken + 1 \in 1..Len(written)
        /\ header = written[taken + 1]
    BY <1>6, LeadingFront
  <2>2. E = Extent(written[taken + 1])
    BY <2>1 DEF E, Extent
  <2>3. /\ pending \o wire \in Seq(K) /\ Len(pending \o wire) = L + Len(wire)
        /\ \A i \in 1..(L + Len(wire)) :
             (pending \o wire)[i] = IF i <= L THEN pending[i] ELSE wire[i - L]
    BY <1>1, ConcatProperties
  <2>4. /\ pending' \o wire \in Seq(K) /\ Len(pending' \o wire) = (L - E) + Len(wire)
        /\ \A i \in 1..((L - E) + Len(wire)) :
             (pending' \o wire)[i] = IF i <= L - E THEN pending'[i] ELSE wire[i - (L - E)]
    <3>1. PICK p \in Seq(K) : p = pending'
      BY <1>3
    <3>2. /\ p \o wire \in Seq(K) /\ Len(p \o wire) = Len(p) + Len(wire)
          /\ \A i \in 1..(Len(p) + Len(wire)) :
               (p \o wire)[i] = IF i <= Len(p) THEN p[i] ELSE wire[i - Len(p)]
      BY <1>1, ConcatProperties
    <3>3. Len(p) = L - E
      BY <1>3, <3>1
    <3>4. QED
      BY <3>1, <3>2, <3>3
  <2> DEFINE s == pending \o wire
             t == pending' \o wire
             u == SubSeq(s, E + 1, Len(s))
             W == Len(wire)
  <2> HIDE DEF s, t, L, W
  <2>5. /\ u \in Seq(K) /\ Len(u) = (L - E) + W
        /\ \A i \in 1..((L - E) + W) : u[i] = s[i + E]
    <3>1. Len(s) = L + W /\ s \in Seq(K)
      BY <2>3 DEF s, W
    <3>2. \A i \in (E + 1)..(L + W) : s[i] \in K
      <4>1. \A i \in (E + 1)..(L + W) : i \in 1..(L + W)
        BY <1>1 DEF W
      <4>2. QED
        BY <3>1, <4>1, ElementOfSeq
    <3> DEFINE a == E + 1
               b == L + W
    <3>3. a \in Int /\ b \in Int /\ (\A i \in a..b : s[i] \in K) /\ u = SubSeq(s, a, b)
      BY <1>1, <3>1, <3>2 DEF W
    <3>4. /\ \A i \in 1..((L - E) + W) : a + i - 1 = i + E /\ i \in 1..(b - a + 1)
          /\ (L - E) + W = IF a <= b THEN b - a + 1 ELSE 0
      BY <1>1 DEF W
    <3> HIDE DEF a, b, u
    <3>5. /\ SubSeq(s, a, b) \in Seq(K)
          /\ Len(SubSeq(s, a, b)) = IF a <= b THEN b - a + 1 ELSE 0
          /\ \A i \in 1..(b - a + 1) : SubSeq(s, a, b)[i] = s[a + i - 1]
      BY <3>3, SubSeqProperties
    <3>6. QED
      BY <3>3, <3>4, <3>5
  <2>6. t = u
    <3>1. ASSUME NEW i \in 1..((L - E) + W)
          PROVE  t[i] = u[i]
      <4>1. u[i] = s[i + E] /\ i + E \in 1..(L + W)
        BY <1>1, <2>5 DEF W
      <4>2. CASE i <= L - E
        <5>1. t[i] = pending'[i] /\ pending'[i] = pending[i + E] /\ i + E <= L
          BY <1>1, <1>3, <2>4, <4>2 DEF t, W
        <5>2. s[i + E] = pending[i + E]
          BY <2>3, <4>1, <5>1 DEF s, W
        <5>3. QED
          BY <4>1, <5>1, <5>2
      <4>3. CASE ~(i <= L - E)
        <5>1. t[i] = wire[i - (L - E)]
          BY <2>4, <4>3 DEF t, W
        <5>2. ~(i + E <= L) /\ (i + E) - L = i - (L - E)
          BY <1>1, <4>3 DEF W
        <5>3. s[i + E] = wire[(i + E) - L]
          BY <2>3, <4>1, <5>2 DEF s, W
        <5>4. QED
          BY <4>1, <5>1, <5>2, <5>3
      <4>4. QED
        BY <4>2, <4>3
    <3>2. t \in Seq(K) /\ Len(t) = (L - E) + W
      BY <2>4 DEF t, W
    <3> HIDE DEF u
    <3>3. QED
      BY <2>5, <3>1, <3>2, SeqEqual
  <2>7. Framed(u, taken + 1, written)
    <3>1. Framed(s, taken, written) /\ Len(s) > 0
      BY <1>6, <2>1 DEF IInv, InPlace, s
    <3>2. QED
      BY <2>2, <3>1, FramedTaken, EventLoopAssumption DEF EventLoopAssumption
  <2>8. Framed(pending' \o wire', taken', written')
    BY <2>6, <2>7 DEF t, feed
  <2>9. OnlyData' /\ (header.codec # "zstd" => header.kind = "Data")
    BY <1>6, <2>1 DEF IInv, Answers, OnlyData, feed
  <2>10. taken \in Nat /\ taken + 1 \notin Pings
    BY DEF IInv, Streams, Pings
  <2>11. CASE header.kind = "Ping"
    <3>1. Pings' = Pings \cup {taken + 1}
      BY <2>1, <2>10, <2>11 DEF Pings, feed
    <3>2. QED
      BY <2>8, <2>9, <2>10, <2>11, <3>1, Finite, FS_AddElement
  <2>12. CASE header.kind # "Ping"
    <3>1. Pings' = Pings
      BY <2>1, <2>10, <2>12 DEF Pings, feed
    <3>2. QED
      BY <2>8, <2>9, <2>12, <3>1, Finite
  <2>13. QED
    BY <2>11, <2>12
<1>7. QED
  BY <1>4, <1>5, <1>6 DEF InPlace

-----------------------------------------------------------------------------
(* The client's steps *)

LEMMA CallKeeps ==
  ASSUME IInv, Call \/ TooLarge
  PROVE  IInv'
<1>1. /\ UNCHANGED <<feed, pending, taken, out>> /\ pc # "writing" /\ pc' # "writing"
      /\ UNCHANGED <<cancels, broken>>
  BY DEF Call, TooLarge, stats
<1>2. Streams' /\ InPlace' /\ Answers' /\ Sends'
  BY <1>1, StreamKept, SendsKept
<1>3. Reads' /\ Counts'
  BY DEF Call, TooLarge, stats, IInv, Reads, Counts
<1>4. QED
  BY <1>2, <1>3 DEF IInv

LEMMA StartReadKeeps ==
  ASSUME IInv, StartRead
  PROVE  IInv'
<1> DEFINE zeros == [i \in 1..Chunk |-> Zero]
           K == KnownCells(written)
<1>1. /\ pc = "looking" /\ pc' = "reading" /\ at' = Len(pending)
      /\ UNCHANGED <<feed, stats, out, cancels, broken>>
      /\ Transport = "tcp" => pending' = pending
      /\ Transport = "quic" => pending' = pending \o zeros
  BY DEF StartRead
<1>2. /\ pending \in Seq(K) /\ Len(pending) \in Nat
      /\ HeaderLen \in Nat \ {0} /\ Limit \in Nat /\ Chunk \in Nat \ {0}
      /\ Transport \in {"quic", "tcp"}
  BY LenProperties, Constants DEF IInv, Streams
<1>3. Len(pending) < HeaderLen + Limit
  <2>1. CASE Len(pending) < HeaderLen
    BY <1>2, <2>1
  <2>2. CASE ~(Len(pending) < HeaderLen)
    <3>1. PICK header \in Leading : WithinLimit(header) /\ ~Whole(header)
      BY <1>2, <2>2, LeadingType DEF IInv, StartRead
    <3>2. header.size \in Nat
      BY <3>1, LeadingType DEF IInv, Frames
    <3>3. QED
      BY <1>2, <3>1, <3>2 DEF WithinLimit, Whole
  <2>3. QED
    BY <2>1, <2>2
<1>4. zeros \in Seq(K) /\ Len(zeros) = Chunk
  <2>1. Zero \in K
    BY DEF Zero, KnownCells, Cells
  <2>2. zeros \in [1..Chunk -> K]
    BY <2>1
  <2>3. QED
    BY <1>2, <2>2, SeqDef
<1>5. /\ pending' \in Seq(K)
      /\ Len(pending') = Len(pending) + IF Transport = "quic" THEN Chunk ELSE 0
  <2>1. CASE Transport = "tcp"
    BY <1>1, <1>2, <2>1
  <2>2. CASE Transport = "quic"
    <3>1. pending \o zeros \in Seq(K) /\ Len(pending \o zeros) = Len(pending) + Len(zeros)
      BY <1>2, <1>4, ConcatProperties
    <3>2. QED
      BY <1>1, <1>4, <2>2, <3>1
  <2>3. QED
    BY <1>2, <2>1, <2>2
<1>6. Streams'
  BY <1>1, <1>5 DEF IInv, Streams, feed, stats
<1>7. Reads'
  BY <1>1, <1>2, <1>3, <1>5 DEF Reads
<1>8. Counts' /\ InPlace' /\ Answers'
  BY <1>1 DEF IInv, Counts, InPlace, Answers, OnlyData, Pongs, Pings, stats, feed
<1>9. Sends'
  BY <1>1, SendsKept
<1>10. QED
  BY <1>6, <1>7, <1>8, <1>9 DEF IInv

(* Cutting pending at where the read went, over TCP, is cutting nothing. *)
LEMMA CutPending ==
  ASSUME IInv, pc = "reading"
  PROVE  /\ SubSeq(pending, 1, at) \in Seq(KnownCells(written))
         /\ Len(SubSeq(pending, 1, at)) = at
         /\ at \in Nat /\ at < HeaderLen + Limit
         /\ Transport = "tcp" => SubSeq(pending, 1, at) = pending
<1>1. /\ pending \in Seq(KnownCells(written)) /\ Len(pending) \in Nat /\ at \in 0..Len(pending)
      /\ at < HeaderLen + Limit /\ (Transport = "tcp" => at = Len(pending))
  BY LenProperties DEF IInv, Streams, Reads
<1>2. \A i \in 1..at : pending[i] \in KnownCells(written)
  BY <1>1, ElementOfSeq
<1>3. /\ SubSeq(pending, 1, at) \in Seq(KnownCells(written))
      /\ Len(SubSeq(pending, 1, at)) = IF 1 <= at THEN at - 1 + 1 ELSE 0
  BY <1>1, <1>2, SubSeqProperties
<1>4. Transport = "tcp" => SubSeq(pending, 1, at) = pending
  BY <1>1, SubSeqFull
<1>5. QED
  BY <1>1, <1>3, <1>4

LEMMA ReceiveKeeps ==
  ASSUME IInv, Receive
  PROVE  IInv'
<1> DEFINE K == KnownCells(written)
           kept == SubSeq(pending, 1, at)
<1>1. PICK n \in 1..Chunk :
        /\ n <= Len(wire)
        /\ pending' = kept \o SubSeq(wire, 1, n)
        /\ wire' = SubSeq(wire, n + 1, Len(wire))
  BY DEF Receive
<1>2. /\ pc = "reading" /\ pc' = "looking" /\ at' = 0
      /\ UNCHANGED <<written, next, since, stats, out, cancels, broken>>
  BY DEF Receive
<1>3. /\ kept \in Seq(K) /\ Len(kept) = at /\ at \in Nat /\ at < HeaderLen + Limit
      /\ Transport = "tcp" => kept = pending
  BY <1>2, CutPending
<1> HIDE DEF kept
<1>4. /\ wire \in Seq(K) /\ Len(wire) \in Nat /\ n \in Nat \ {0} /\ n <= Chunk
      /\ HeaderLen \in Nat /\ Limit \in Nat /\ Chunk \in Nat
  BY LenProperties, Constants DEF IInv, Streams
<1>5. /\ SubSeq(wire, 1, n) \in Seq(K) /\ Len(SubSeq(wire, 1, n)) = n
      /\ wire' \in Seq(K)
  <2>1. \A i \in 1..Len(wire) : wire[i] \in K
    BY <1>4, ElementOfSeq
  <2>2. /\ \A i \in 1..n : wire[i] \in K
        /\ \A i \in (n + 1)..Len(wire) : wire[i] \in K
    BY <1>1, <1>4, <2>1
  <2>3. /\ SubSeq(wire, 1, n) \in Seq(K)
        /\ Len(SubSeq(wire, 1, n)) = IF 1 <= n THEN n - 1 + 1 ELSE 0
    BY <1>4, <2>2, SubSeqProperties
  <2>4. SubSeq(wire, n + 1, Len(wire)) \in Seq(K)
    BY <1>4, <2>2, SubSeqProperties
  <2>5. QED
    BY <1>1, <1>4, <2>3, <2>4
<1>6. pending' \in Seq(K) /\ Len(pending') = at + n
  <2>1. /\ kept \o SubSeq(wire, 1, n) \in Seq(K)
        /\ Len(kept \o SubSeq(wire, 1, n)) = Len(kept) + Len(SubSeq(wire, 1, n))
    BY <1>3, <1>5, ConcatProperties
  <2>2. QED
    BY <1>1, <1>3, <1>5, <2>1
<1>7. Streams'
  BY <1>2, <1>5, <1>6 DEF IInv, Streams, stats
<1>8. Reads'
  BY <1>2, <1>3, <1>4, <1>6 DEF Reads
<1>9. InPlace'
  <2> SUFFICES ASSUME Transport = "tcp"
               PROVE  Framed(pending' \o wire', taken, written)
    BY <1>2 DEF InPlace, stats
  <2>1. pending' \o wire' = kept \o (SubSeq(wire, 1, n) \o wire')
    <3>1. (kept \o SubSeq(wire, 1, n)) \o wire' = kept \o (SubSeq(wire, 1, n) \o wire')
      BY <1>3, <1>5, ConcatAssociative
    <3>2. QED
      BY <1>1, <3>1
  <2>2. SubSeq(wire, 1, n) \o SubSeq(wire, n + 1, Len(wire)) = SubSeq(wire, 1, Len(wire))
    <3>1. /\ 1 \in 1..(Len(wire) + 1) /\ n \in (1 - 1)..Len(wire)
          /\ Len(wire) \in n..Len(wire)
      BY <1>1, <1>4
    <3>2. QED
      BY <1>4, <3>1, ConcatAdjacentSubSeq
  <2>3. SubSeq(wire, 1, Len(wire)) = wire
    BY <1>4, SubSeqFull
  <2>4. pending' \o wire' = pending \o wire
    BY <1>1, <1>3, <2>1, <2>2, <2>3
  <2>5. QED
    BY <2>4 DEF IInv, InPlace
<1>10. Counts' /\ Answers'
  BY <1>2 DEF IInv, Counts, Answers, OnlyData, Pongs, Pings, stats
<1>11. Sends'
  BY <1>2, SendsKept
<1>12. QED
  BY <1>7, <1>8, <1>9, <1>10, <1>11 DEF IInv

LEMMA ClosedKeeps ==
  ASSUME IInv, Closed
  PROVE  IInv'
<1>1. /\ pc = "reading" /\ pc' = "idle" /\ at' = 0 /\ pending' = SubSeq(pending, 1, at)
      /\ UNCHANGED <<feed, stats, out, cancels, broken>>
  BY DEF Closed
<1>2. /\ pending' \in Seq(KnownCells(written)) /\ Len(pending') = at
      /\ at \in Nat /\ at < HeaderLen + Limit
      /\ Transport = "tcp" => pending' = pending
  BY <1>1, CutPending
<1>3. Streams'
  BY <1>1, <1>2 DEF IInv, Streams, feed, stats
<1>4. Reads'
  BY <1>1, <1>2, Constants DEF Reads
<1>5. Counts' /\ InPlace' /\ Answers'
  BY <1>1, <1>2 DEF IInv, Counts, InPlace, Answers, OnlyData, Pongs, Pings, stats, feed
<1>6. Sends'
  BY <1>1, SendsKept
<1>7. QED
  BY <1>3, <1>4, <1>5, <1>6 DEF IInv

(* The connection is lost, or the call dropped. *)
LEMMA EndKeeps ==
  ASSUME IInv, ReadFails \/ WriteFails \/ Cancel
  PROVE  IInv'
<1>1. /\ UNCHANGED <<feed, pending, taken, out>> /\ pc' = "idle"
      /\ pc \in {"reading", "writing"}
      /\ at' = 0 \/ (at' = at /\ pc = "writing")
      /\ UNCHANGED <<expected_seq, gaps, wire_bytes, skipped>>
      /\ \/ cancels' = cancels /\ broken' = TRUE
         \/ cancels' = cancels + 1 /\ cancels < MaxCancels /\ broken' = broken
  BY DEF ReadFails, WriteFails, Cancel, stats
<1>2. Streams' /\ InPlace' /\ Answers'
  BY <1>1, StreamKept
<1>3. Reads' /\ Counts'
  <2>1. Len(pending) \in Nat
    BY LenProperties DEF IInv, Streams
  <2>2. at' = 0
    BY <1>1 DEF IInv, Reads
  <2>3. Reads'
    BY <1>1, <2>1, <2>2 DEF IInv, Reads
  <2>4. cancels' \in 0..MaxCancels
    <3>1. cancels' = cancels \/ (cancels' = cancels + 1 /\ cancels < MaxCancels)
      BY <1>1
    <3>2. cancels \in 0..MaxCancels
      BY DEF IInv, Counts
    <3>3. QED
      BY <3>1, <3>2, Constants
  <2>5. broken' \in BOOLEAN
    <3>1. broken' = TRUE \/ broken' = broken
      BY <1>1
    <3>2. broken \in BOOLEAN
      BY DEF IInv, Counts
    <3>3. QED
      BY <3>1, <3>2
  <2>6. QED
    BY <1>1, <2>3, <2>4, <2>5 DEF IInv, Counts
<1>4. Sends'
  BY <1>1, Finite DEF IInv, Sends, Unfinished, Counts
<1>5. QED
  BY <1>2, <1>3, <1>4 DEF IInv

LEMMA SendKeeps ==
  ASSUME IInv, Send
  PROVE  IInv'
<1>1. /\ pc = "idle" /\ UNCHANGED <<feed, pending, at, stats, cancels, broken>>
  BY DEF Send
<1>2. PICK kind \in {"SetFilter", "Ping"} : Begins(kind)
  BY DEF Send
<1>3. Sends' /\ Cardinality(Pongs') = Cardinality(Pongs)
  BY <1>1, <1>2, BeginsKeeps, Finite
<1>4. Streams' /\ Reads' /\ Counts' /\ InPlace'
  BY <1>1, <1>2 DEF IInv, Streams, Reads, Counts, InPlace, Begins, feed, stats
<1>5. Answers'
  BY <1>1, <1>3 DEF IInv, Answers, OnlyData, Pings, feed, stats
<1>6. QED
  BY <1>3, <1>4, <1>5 DEF IInv

LEMMA TakeKeeps ==
  ASSUME IInv, Take
  PROVE  IInv'
<1>1. PICK header \in Leading :
        /\ Whole(header)
        /\ pending' = Drained(header)
        /\ wire_bytes' = Counted(header)
        /\ gaps' = gaps + Gap(header) + header.dropped
        /\ expected_seq' = Expected(header)
        /\ IF header.kind = "Ping" THEN Begins("Pong") ELSE pc' = "idle" /\ UNCHANGED out
  BY DEF Take
<1>2. /\ pc = "looking" /\ taken' = taken + 1
      /\ UNCHANGED <<feed, at, skipped, cancels, broken>>
  BY DEF Take
<1>3. /\ Streams' /\ InPlace' /\ Len(pending') < HeaderLen + Limit + Chunk
      /\ Transport = "tcp" =>
           /\ OnlyData'
           /\ Cardinality(Pings') = Cardinality(Pings) + IF header.kind = "Ping" THEN 1 ELSE 0
  BY <1>1, <1>2, TakenKeeps
<1>4. Reads'
  <2>1. Len(pending') \in Nat
    BY <1>3, LenProperties DEF Streams
  <2>2. pc' \in {"idle", "writing"}
    BY <1>1 DEF Begins
  <2>3. QED
    BY <1>2, <1>3, <2>1, <2>2 DEF IInv, Reads
<1>5. Counts'
  <2>1. /\ header.size \in Nat /\ header.seq \in Nat /\ header.dropped \in Nat
        /\ header.resume \in Nat /\ HeaderLen \in Nat
    BY LeadingType, Constants DEF IInv, Frames
  <2>2. Gap(header) \in Nat
    BY <2>1 DEF IInv, Counts, Gap
  <2>3. wire_bytes' \in Nat /\ gaps' \in Nat /\ expected_seq' \in Nat
    BY <1>1, <2>1, <2>2 DEF IInv, Counts, Counted, Expected
  <2>4. QED
    BY <1>2, <2>3 DEF IInv, Counts
<1>6. CASE header.kind = "Ping"
  <2>1. Begins("Pong")
    BY <1>1, <1>6
  <2>2. Sends' /\ Cardinality(Pongs') = Cardinality(Pongs) + 1
    BY <1>2, <2>1, BeginsKeeps
  <2>3. Answers'
    BY <1>3, <1>6, <2>2 DEF IInv, Answers
  <2>4. QED
    BY <1>3, <1>4, <1>5, <2>2, <2>3 DEF IInv
<1>7. CASE header.kind # "Ping"
  <2>1. pc' = "idle" /\ UNCHANGED out
    BY <1>1, <1>7
  <2>2. Sends' /\ Pongs' = Pongs
    BY <1>2, <2>1, SendsKept DEF Pongs
  <2>3. Answers'
    BY <1>3, <1>7, <2>2, Finite DEF IInv, Answers
  <2>4. QED
    BY <1>3, <1>4, <1>5, <2>2, <2>3 DEF IInv
<1>8. QED
  BY <1>6, <1>7

LEMMA OtherCodecKeeps ==
  ASSUME IInv, OtherCodec
  PROVE  IInv'
<1>1. PICK header \in Leading :
        /\ Whole(header) /\ header.codec = "other"
        /\ pending' = Drained(header)
        /\ wire_bytes' = Counted(header)
        /\ skipped' = skipped \cup {header.seq}
  BY DEF OtherCodec
<1>2. /\ pc = "looking" /\ pc' = "idle" /\ taken' = taken + 1
      /\ UNCHANGED <<feed, at, expected_seq, gaps, out, cancels, broken>>
  BY DEF OtherCodec
<1>3. /\ Streams' /\ InPlace' /\ Len(pending') < HeaderLen + Limit + Chunk
      /\ Transport = "tcp" =>
           /\ OnlyData' /\ header.kind = "Data"
           /\ Cardinality(Pings') = Cardinality(Pings) + IF header.kind = "Ping" THEN 1 ELSE 0
  BY <1>1, <1>2, TakenKeeps
<1>4. Reads'
  <2>1. Len(pending') \in Nat
    BY <1>3, LenProperties DEF Streams
  <2>2. QED
    BY <1>2, <1>3, <2>1 DEF IInv, Reads
<1>5. Counts'
  <2>1. header.size \in Nat /\ header.seq \in Nat /\ HeaderLen \in Nat
    BY LeadingType, Constants DEF IInv, Frames
  <2>2. wire_bytes' \in Nat
    BY <1>1, <2>1 DEF IInv, Counts, Counted
  <2>3. skipped' \subseteq Nat
    BY <1>1, <2>1 DEF IInv, Counts
  <2>4. QED
    BY <1>2, <2>2, <2>3 DEF IInv, Counts
<1>6. Sends' /\ Pongs' = Pongs
  BY <1>2, SendsKept DEF Pongs
<1>7. Answers'
  BY <1>3, <1>6, Finite DEF IInv, Answers
<1>8. QED
  BY <1>3, <1>4, <1>5, <1>6, <1>7 DEF IInv

LEMMA UndecodableKeeps ==
  ASSUME IInv, Undecodable
  PROVE  IInv'
<1>1. PICK header \in Leading : wire_bytes' = Counted(header)
  BY DEF Undecodable
<1>2. /\ pc = "looking" /\ pc' = "idle"
      /\ UNCHANGED <<feed, pending, at, expected_seq, gaps, taken, skipped, out, cancels, broken>>
  BY DEF Undecodable
<1>3. Streams' /\ InPlace' /\ Answers' /\ Sends'
  BY <1>2, StreamKept, SendsKept
<1>4. header.size \in Nat /\ HeaderLen \in Nat
  BY LeadingType, Constants DEF IInv, Frames
<1>5. Reads' /\ Counts'
  BY <1>1, <1>2, <1>4 DEF IInv, Reads, Counts, Counted
<1>6. QED
  BY <1>3, <1>5 DEF IInv

LEMMA WritesKeeps ==
  ASSUME IInv, Writes
  PROVE  IInv'
<1> DEFINE m == Len(out)
           old == out[m]
<1>1. /\ out \in Seq(Outgoing) /\ m \in 1..Len(out) /\ m \in Nat
      /\ old \in Outgoing /\ old.left > 0 /\ old.left <= Length(old.kind)
      /\ pc = "writing"
  <2>1. Len(out) \in Unfinished /\ out \in Seq(Outgoing) /\ pc = "writing"
    BY DEF Writes, IInv, Sends
  <2>2. QED
    BY <2>1, LenProperties, ElementOfSeq DEF Unfinished, IInv, Sends
<1>2. PICK n \in 1..old.left :
        /\ out' = [out EXCEPT ![m] = [old EXCEPT !.left = old.left - n]]
        /\ pc' = IF n = old.left THEN "idle" ELSE pc
  BY <1>1 DEF Writes, WrittenAll, Last
<1>3. UNCHANGED <<feed, pending, at, stats, cancels, broken>>
  BY DEF Writes
<1> DEFINE new == [old EXCEPT !.left = old.left - n]
<1>4. /\ new \in Outgoing /\ new.kind = old.kind /\ new.left = old.left - n
      /\ old.left \in Nat /\ n \in Nat \ {0} /\ n <= old.left
      /\ Length(old.kind) \in Nat
  BY <1>1, LengthType DEF Outgoing
<1> HIDE DEF new
<1>5. /\ out' \in Seq(Outgoing) /\ Len(out') = m
      /\ \A i \in 1..m : out'[i] = IF i = m THEN new ELSE out[i]
  BY <1>1, <1>2, <1>4, ExceptSeq DEF new
<1> HIDE DEF m, old
<1>6. \A i \in 1..m : out'[i].kind = out[i].kind
  BY <1>4, <1>5 DEF old
<1>7. Pongs' = Pongs
  BY <1>5, <1>6 DEF Pongs, m
<1>8. \A i \in 1..Len(out') : out'[i].left <= Length(out'[i].kind)
  <2>1. \A i \in 1..m : out[i].left <= Length(out[i].kind)
    BY DEF IInv, Sends, m
  <2>2. new.left <= Length(new.kind)
    BY <1>1, <1>4
  <2>3. QED
    BY <1>5, <2>1, <2>2
<1>9. /\ Unfinished = {i \in 1..m : out[i].left > 0}
      /\ Unfinished' = {i \in 1..m : out'[i].left > 0}
      /\ m \in Unfinished
  BY <1>1, <1>5 DEF Unfinished, m, old
<1>10. /\ new.left > 0 => Unfinished' = Unfinished
       /\ ~(new.left > 0) => Unfinished' = Unfinished \ {m}
  BY <1>5, <1>9
<1>11. Sends'
  <2>1. CASE n = old.left
    <3>1. pc' = "idle" /\ Unfinished' = Unfinished \ {m}
      BY <1>2, <1>4, <1>10, <2>1 DEF old, m
    <3>2. Cardinality(Unfinished') = Cardinality(Unfinished) - 1
      <4>1. Cardinality(Unfinished \ {m}) = Cardinality(Unfinished) - 1
        BY <1>9, Finite, FS_RemoveElement
      <4>2. QED
        BY <3>1, <4>1
    <3>3. ~broken' => Cardinality(Unfinished') <= cancels'
      BY <1>1, <1>3, <3>2, Finite DEF IInv, Sends, Counts
    <3>4. QED
      BY <1>3, <1>5, <1>8, <3>1, <3>3, Finite DEF Sends, IInv, Counts
  <2>2. CASE n # old.left
    <3>1. pc' = "writing" /\ Unfinished' = Unfinished
      BY <1>1, <1>2, <1>4, <1>10, <2>2 DEF old, m
    <3>2. QED
      BY <1>1, <1>3, <1>5, <1>8, <1>9, <3>1 DEF Sends, IInv
  <2>3. QED
    BY <2>1, <2>2
<1>12. Streams' /\ Counts' /\ InPlace'
  BY <1>3 DEF IInv, Streams, Counts, InPlace, feed, stats
<1>13. Reads'
  BY <1>1, <1>2, <1>3 DEF IInv, Reads
<1>14. Answers'
  BY <1>3, <1>7 DEF IInv, Answers, OnlyData, Pings, feed, stats
<1>15. QED
  BY <1>11, <1>12, <1>13, <1>14 DEF IInv

LEMMA NextKeeps == IInv /\ [Next]_vars => IInv'
<1> SUFFICES ASSUME IInv, [Next]_vars
             PROVE  IInv'
  OBVIOUS
<1>1. CASE UNCHANGED vars
  BY <1>1 DEF vars, stats, feed, IInv, Streams, Reads, Counts, InPlace, Sends, Answers,
              Unfinished, OnlyData, Pongs, Pings
<1>2. CASE Next
  BY <1>2, CallKeeps, StartReadKeeps, ReceiveKeeps, ClosedKeeps, EndKeeps, SendKeeps,
     TakeKeeps, OtherCodecKeeps, UndecodableKeeps, WritesKeeps, RoundKeeps
  DEF Next, Reader
<1>3. QED
  BY <1>1, <1>2

LEMMA InitHolds == Init => IInv
<1> SUFFICES ASSUME Init
             PROVE  IInv
  OBVIOUS
<1>1. /\ written = <<>> /\ wire = <<>> /\ next = 0 /\ since = 0
      /\ pc = "idle" /\ pending = <<>> /\ at = 0 /\ expected_seq = 0 /\ gaps = 0
      /\ wire_bytes = 0 /\ out = <<>> /\ taken = 0 /\ skipped = {} /\ cancels = 0
      /\ broken = FALSE
  BY DEF Init, FeedInit
<1>2. /\ \A S : <<>> \in Seq(S)
      /\ Len(<<>>) = 0
  BY EmptySeq
<1>3. Streams /\ Reads /\ Counts
  <2>1. Streams
    BY <1>1, <1>2 DEF Streams
  <2>2. Reads
    BY <1>1, <1>2, Constants DEF Reads
  <2>3. Counts
    <3>1. 0 \in 0..MaxCancels
      BY Constants
    <3>2. broken \in BOOLEAN
      BY <1>1
    <3>3. QED
      BY <1>1, <3>1, <3>2 DEF Counts
  <2>4. QED
    BY <2>1, <2>2, <2>3
<1>4. InPlace
  <2>1. <<>> \o <<>> = <<>>
    BY <1>2, ConcatEmptySeq
  <2>2. QED
    BY <1>1, <2>1, FramedNothing DEF InPlace
<1>5. Unfinished = {} /\ Pongs = {} /\ Pings = {}
  BY <1>1, <1>2 DEF Unfinished, Pongs, Pings
<1>6. Sends /\ Answers
  BY <1>1, <1>2, <1>5, FS_EmptySet DEF Sends, Answers, OnlyData
<1>7. QED
  BY <1>3, <1>4, <1>6 DEF IInv

LEMMA Invariance == Spec => []IInv
BY InitHolds, NextKeeps, PTL DEF Spec

-----------------------------------------------------------------------------
(* The results *)

(* Every variable stays in its range, whatever the bytes are read as; the count of
   dropped frames, which the code subtracts for, never wraps (client.rs:711-735). *)
THEOREM TypeCorrect == Spec => []TypeOK
<1>1. ASSUME IInv PROVE TypeOK
  <2>1. /\ DOMAIN pending = 1..Len(pending) /\ \A i \in 1..Len(pending) : pending[i] \in Cells
        /\ DOMAIN out = 1..Len(out) /\ \A i \in 1..Len(out) : out[i] \in Outgoing
    <3>1. pending \in Seq(Cells) /\ out \in Seq(Outgoing)
      BY <1>1, KnownAreCells, SeqMonotonic DEF IInv, Streams, Sends
    <3>2. QED
      BY <3>1, LenProperties, ElementOfSeq
  <2>2. \A i \in 1..Len(out) : out[i].left \in 0..Length(out[i].kind)
    <3>1. \A i \in 1..Len(out) : out[i].left <= Length(out[i].kind)
      BY <1>1 DEF IInv, Sends
    <3>2. \A i \in 1..Len(out) : out[i].left \in Nat
      BY <2>1 DEF Outgoing
    <3>3. QED
      BY <3>1, <3>2, LengthType
  <2>3. QED
    BY <1>1, <2>1, <2>2 DEF TypeOK, IInv, Reads, Counts, Streams
<1>2. QED
  BY <1>1, Invariance, PTL

(* However long the frames are that bytes announce, and over either transport, what is
   buffered is less than one frame within the limit and one read (client.rs:811-824). *)
THEOREM Bounded == Spec => []BufferBounded
<1>1. ASSUME IInv PROVE BufferBounded
  <2>1. CASE pc = "reading"
    <3>1. /\ Len(SubSeq(pending, 1, at)) = at /\ at \in Nat /\ at < HeaderLen + Limit
      BY <1>1, <2>1, CutPending
    <3>2. QED
      BY <2>1, <3>1, Constants DEF BufferBounded, Received
  <2>2. CASE pc # "reading"
    BY <1>1, <2>2 DEF BufferBounded, Received, IInv, Reads
  <2>3. QED
    BY <2>1, <2>2
<1>2. QED
  BY <1>1, Invariance, PTL

(* Over TCP no call starts inside a frame, however the bytes were cut and wherever
   calls were dropped (client.rs:678-708, 804-830). *)
THEOREM KeepsItsPlace == Spec => [](Transport = "tcp" => Boundary)
<1>1. ASSUME IInv, Transport = "tcp" PROVE Boundary
  <2> DEFINE s == pending \o wire
  <2>1. Received = pending
    <3>1. pc = "reading" => SubSeq(pending, 1, at) = pending
      BY <1>1, CutPending
    <3>2. QED
      BY <3>1 DEF Received
  <2>2. Framed(s, taken, written)
    BY <1>1 DEF IInv, InPlace
  <2> HIDE DEF s
  <2>3. /\ s \in Seq(Cells) /\ Len(s) \in Nat /\ (s # <<>> => Len(s) > 0)
        /\ written \in Seq(Frames) /\ Len(written) \in Nat /\ taken \in 0..Len(written)
    BY <2>2, LenProperties, EmptySeq DEF Framed
  <2>4. CASE s = <<>>
    <3>1. Len(s) = 0
      BY <2>4, EmptySeq
    <3>2. QED
      BY <2>1, <2>2, <2>4, <3>1 DEF Boundary, Framed, s
  <2>5. CASE s # <<>>
    <3>1. s[1] = [frame |-> taken + 1, cell |-> 1]
      BY <2>2, <2>3, <2>5 DEF Framed
    <3>2. Last(s) = Last(CellsOf(Len(written), written[Len(written)]))
      <4>1. s[Len(s)] = [frame |-> Len(written), cell |-> Extent(written[Len(written)])]
        BY <2>2, <2>3, <2>5 DEF Framed
      <4>2. written[Len(written)] \in Frames
        <5>1. Len(written) \in 1..Len(written)
          BY <2>2, <2>3, <2>5 DEF Framed
        <5>2. QED
          BY <2>3, <5>1, ElementOfSeq
      <4> DEFINE f == written[Len(written)]
                 c == CellsOf(Len(written), f)
      <4>3. Extent(f) \in Nat \ {0}
        BY <4>2, ExtentType, EventLoopAssumption DEF EventLoopAssumption
      <4>4. Len(c) = Extent(f) /\ \A k \in 1..Extent(f) : c[k] = [frame |-> Len(written), cell |-> k]
        BY ZenonT(30), <2>3, <4>2, CellsOfProperties, EventLoopAssumption DEF EventLoopAssumption
      <4>5. c[Len(c)] = [frame |-> Len(written), cell |-> Extent(f)]
        BY <4>3, <4>4
      <4>6. QED
        BY <4>1, <4>5 DEF Last
    <3>3. ASSUME NEW i \in 1..(Len(s) - 1)
          PROVE  \/ s[i + 1] = [s[i] EXCEPT !.cell = @ + 1]
                 \/ /\ s[i].cell = HeaderLen + written[s[i].frame].size
                    /\ s[i + 1] = [frame |-> s[i].frame + 1, cell |-> 1]
      <4>1. i \in 1..Len(s) /\ i \in Nat
        BY <2>3
      <4>2. /\ s[i] \in Cells
            /\ s[i].frame \in (taken + 1)..Len(written)
            /\ s[i].cell \in 1..Extent(written[s[i].frame])
        BY <2>2, <2>3, <4>1, ElementOfSeq DEF Framed, CellsInside
      <4>3. PICK c \in Nat : c = s[i].cell
        BY <4>2 DEF Cells
      <4>4. PICK g \in Nat : g = s[i].frame
        BY <4>2 DEF Cells
      <4>5. s[i] = [frame |-> g, cell |-> c]
        BY <4>2, <4>3, <4>4 DEF Cells
      <4>6. Extent(written[g]) \in Nat
        <5>1. g \in 1..Len(written)
          BY <2>3, <4>2, <4>4
        <5>2. QED
          BY <2>3, <5>1, ElementOfSeq, ExtentType, EventLoopAssumption DEF EventLoopAssumption
      <4>7. CASE c = Extent(written[g])
        BY <2>2, <4>3, <4>4, <4>7 DEF Framed, CellsFollow, Extent
      <4>8. CASE c # Extent(written[g])
        <5>1. c + 1 \in 1..Extent(written[g])
          BY <4>2, <4>3, <4>4, <4>6, <4>8
        <5>2. PICK k \in 1..Extent(written[g]) : k = c + 1
          BY <5>1
        <5>3. s[i - c + k] = [frame |-> g, cell |-> k]
          BY <2>2, <4>1, <4>3, <4>4 DEF Framed, CellsTogether
        <5>4. i - c + k = i + 1
          BY <4>1, <5>2
        <5>5. s[i + 1] = [frame |-> g, cell |-> c + 1]
          BY <5>2, <5>3, <5>4
        <5>6. [s[i] EXCEPT !.cell = @ + 1] = [frame |-> g, cell |-> c + 1]
          BY <4>5
        <5>7. QED
          BY <5>5, <5>6
      <4>9. QED
        BY <4>7, <4>8
    <3>4. QED
      BY <2>1, <2>5, <3>1, <3>2, <3>3 DEF Boundary, s
  <2>6. QED
    BY <2>4, <2>5
<1>2. IInv => (Transport = "tcp" => Boundary)
  BY <1>1
<1>3. QED
  BY <1>2, Invariance, PTL

(* Over TCP the Pings taken are answered, and frames go out whole but for those of
   calls that were dropped (client.rs:718-722, 783-788, transport.rs:147-156). *)
THEOREM AnswersPings == Spec => [](Transport = "tcp" => PingsAnswered)
<1>1. ASSUME IInv, Transport = "tcp" PROVE PingsAnswered
  <2>1. DOMAIN out = 1..Len(out)
    BY <1>1, LenProperties DEF IInv, Sends
  <2>2. QED
    BY <1>1, <2>1 DEF PingsAnswered, IInv, Sends, Answers, Pongs, Pings, Unfinished
<1>2. IInv => (Transport = "tcp" => PingsAnswered)
  BY <1>1
<1>3. QED
  BY <1>2, Invariance, PTL

-----------------------------------------------------------------------------
(* GapsExact.  Between two frames the node used up numbers for none but those it lost,
   and a Lag tells how many; so what the client has not accounted for yet, below the
   number after the last frame it took, was lost or skipped. *)

(* The number expected after the first i frames. *)
Before(i) == IF i = 0 THEN 0 ELSE Expected(written[i])

(* From b to m all numbers were lost, but the one the frame took. *)
Numbered(frame, b, m) ==
  /\ b \in Nat /\ m = Expected(frame) /\ b < m
  /\ \A s \in b..(m - 1) : s \in lost \/ (frame.kind # "Lag" /\ s = frame.seq)
  /\ frame.kind # "Lag" => frame.dropped = 0 /\ frame.seq \notin lost
  /\ frame.kind = "Lag" => frame.dropped = m - b /\ frame.seq \in {0, b}

Numbers ==
  /\ written \in Seq(Frames)
  /\ next \in Nat /\ since \in Nat /\ since <= next
  /\ since = Before(Len(written))
  /\ lost \subseteq Nat /\ IsFiniteSet(lost) /\ \A s \in lost : s < next
  /\ \A s \in since..(next - 1) : s \in lost
  /\ Len(written) = 0 => next = 0
  /\ \A i \in 1..Len(written) :
       /\ Numbered(written[i], Before(i - 1), Before(i))
       /\ Before(i) <= next
       /\ i = 1 => written[i].kind # "Lag" /\ written[i].seq = 0

Missing == {s \in lost \cup skipped : s < expected_seq}

Accounted ==
  /\ skipped \subseteq Nat /\ IsFiniteSet(skipped)
  /\ gaps \in Nat /\ expected_seq \in Nat
  /\ expected_seq <= Before(taken)
  /\ skipped = {} => expected_seq = Before(taken)
  /\ \A s \in expected_seq..(Before(taken) - 1) : s \in lost \cup skipped
  /\ gaps <= Cardinality(Missing)
  /\ skipped = {} => gaps = Cardinality(Missing)

Account == Numbers /\ (Transport = "tcp" => Accounted)

(* A set below a bound grows by the numbers up to the next bound that it has. *)
LEMMA MissingGrows ==
  ASSUME NEW S \in SUBSET Nat, IsFiniteSet(S), NEW e \in Nat, NEW m \in Nat, e <= m,
         \A s \in e..(m - 1) : s \in S
  PROVE  /\ Cardinality({s \in S : s < e}) \in Nat
         /\ Cardinality({s \in S : s < m}) = Cardinality({s \in S : s < e}) + (m - e)
<1> DEFINE A == {s \in S : s < e}
           B == {s \in S : s < m}
           C == e..(m - 1)
<1>1. A \subseteq S /\ B \subseteq S /\ B = A \cup C /\ A \cap C = {}
  <2>1. S \subseteq Nat
    OBVIOUS
  <2>2. A \subseteq S /\ B \subseteq S /\ A \subseteq B /\ C \subseteq B
    <3>1. \A s \in S : s < e => s < m
      BY <2>1
    <3>2. \A s \in C : s \in S /\ s < m
      OBVIOUS
    <3>3. QED
      BY <3>1, <3>2
  <2>3. \A s \in B : s \in A \/ s \in C
    BY <2>1
  <2>4. \A s \in A : s \notin C
    BY <2>1
  <2>5. QED
    BY <2>2, <2>3, <2>4
<1>2. IsFiniteSet(A) /\ Cardinality(A) \in Nat
  BY <1>1, FS_Subset, FS_CardinalityType
<1>3. IsFiniteSet(C) /\ Cardinality(C) = m - e
  <2>1. (IF e > m - 1 THEN 0 ELSE m - 1 - e + 1) = m - e /\ m - 1 \in Int /\ e \in Int
    OBVIOUS
  <2>2. IsFiniteSet(C) /\ Cardinality(C) = IF e > m - 1 THEN 0 ELSE m - 1 - e + 1
    BY <2>1, FS_Interval
  <2> HIDE DEF C
  <2>3. QED
    BY <2>1, <2>2
<1> HIDE DEF A, B, C
<1>4. Cardinality(B) = Cardinality(A) + Cardinality(C)
  <2>1. Cardinality(B) = Cardinality(A) + Cardinality(C) - Cardinality(A \cap C)
    BY <1>1, <1>2, <1>3, FS_Union
  <2>2. Cardinality(A \cap C) = 0
    BY <1>1, FS_EmptySet
  <2>3. QED
    BY <1>2, <1>3, <2>1, <2>2
<1>5. QED
  BY <1>2, <1>3, <1>4 DEF A, B

(* The numbers below a bound are no more than those below a higher one, and as many
   when there are none between. *)
LEMMA MissingMore ==
  ASSUME NEW S \in SUBSET Nat, IsFiniteSet(S), NEW e \in Nat, NEW m \in Nat, e <= m
  PROVE  /\ Cardinality({s \in S : s < e}) \in Nat /\ Cardinality({s \in S : s < m}) \in Nat
         /\ Cardinality({s \in S : s < e}) <= Cardinality({s \in S : s < m})
         /\ (\A s \in S : ~(e <= s /\ s < m)) =>
              Cardinality({s \in S : s < m}) = Cardinality({s \in S : s < e})
<1> DEFINE A == {s \in S : s < e}
           B == {s \in S : s < m}
<1>1. A \subseteq B /\ B \subseteq S /\ ((\A s \in S : ~(e <= s /\ s < m)) => A = B)
  <2>1. S \subseteq Nat
    OBVIOUS
  <2>2. A \subseteq B /\ B \subseteq S
    <3>1. \A s \in S : s < e => s < m
      BY <2>1
    <3>2. QED
      BY <3>1
  <2>3. ASSUME \A s \in S : ~(e <= s /\ s < m)
        PROVE  B \subseteq A
    <3>1. \A s \in S : s < m => s < e
      BY <2>1, <2>3
    <3>2. QED
      BY <3>1
  <2>4. QED
    BY <2>2, <2>3
<1>2. IsFiniteSet(B) /\ Cardinality(B) \in Nat /\ IsFiniteSet(A) /\ Cardinality(A) \in Nat
  BY <1>1, FS_Subset, FS_CardinalityType
<1> HIDE DEF A, B
<1>3. Cardinality(A) <= Cardinality(B)
  BY <1>1, <1>2, FS_Subset
<1>4. QED
  BY <1>1, <1>2, <1>3 DEF A, B

(* The frame the node writes next is numbered after the others. *)
LEMMA WrittenNumbered ==
  ASSUME Numbers, NEW f \in Frames, written' = Append(written, f), UNCHANGED lost,
         next' \in Nat, next <= next', since' = next', since' = Expected(f),
         next' \in {next, next + 1},
         Numbered(f, since, since'),
         Len(written) = 0 => f.kind # "Lag" /\ f.seq = 0
  PROVE  Numbers'
<1>1. /\ written \in Seq(Frames) /\ Len(written) \in Nat
      /\ written' \in Seq(Frames) /\ Len(written') = Len(written) + 1
      /\ \A i \in 1..Len(written) : written'[i] = written[i]
      /\ written'[Len(written) + 1] = f
  BY LenProperties, AppendProperties DEF Numbers
<1>2. PICK n \in Nat : n = Len(written)
  BY <1>1
<1>3. \A i \in 0..n : Before(i)' = Before(i)
  BY <1>1, <1>2 DEF Before, Expected
<1>4. Before(n + 1)' = since'
  BY <1>1, <1>2 DEF Before, Expected
<1>5. ASSUME NEW i \in 1..n
      PROVE  /\ Numbered(written[i], Before(i - 1), Before(i))'
             /\ Before(i)' <= next'
             /\ i = 1 => written'[i].kind # "Lag" /\ written'[i].seq = 0
  <2>1. /\ Numbered(written[i], Before(i - 1), Before(i))
        /\ Before(i) <= next
        /\ i = 1 => written[i].kind # "Lag" /\ written[i].seq = 0
    BY <1>2 DEF Numbers
  <2>2. Before(i - 1)' = Before(i - 1) /\ Before(i)' = Before(i) /\ written'[i] = written[i]
    <3>1. i - 1 \in 0..n /\ i \in 0..n /\ i \in 1..Len(written)
      BY <1>2
    <3>2. QED
      BY <1>1, <1>3, <3>1
  <2>3. Before(i) \in Int
    <3>1. written[i] \in Frames
      BY <1>1, <1>2, ElementOfSeq
    <3>2. QED
      BY <3>1 DEF Before, Expected, Frames
  <2>4. Numbered(written[i], Before(i - 1), Before(i))'
    BY <2>1, <2>2 DEF Numbered, Expected
  <2>5. QED
    BY <2>1, <2>2, <2>3, <2>4 DEF Numbers
<1>6. /\ Numbered(written[n + 1], Before(n), Before(n + 1))'
      /\ Before(n + 1)' <= next'
      /\ n + 1 = 1 => written'[n + 1].kind # "Lag" /\ written'[n + 1].seq = 0
  <2>1. Before(n)' = since
    BY <1>2, <1>3 DEF Numbers
  <2>2. written'[n + 1] = f
    BY <1>1, <1>2
  <2>3. Numbered(written[n + 1], Before(n), Before(n + 1))'
    BY <1>4, <2>1, <2>2 DEF Numbered, Expected
  <2>4. QED
    BY <1>2, <1>4, <2>2, <2>3
<1>7. ASSUME NEW i \in 1..(n + 1)
      PROVE  /\ Numbered(written[i], Before(i - 1), Before(i))'
             /\ Before(i)' <= next'
             /\ i = 1 => written'[i].kind # "Lag" /\ written'[i].seq = 0
  <2>1. CASE i \in 1..n
    BY <1>5, <2>1
  <2>2. CASE i \notin 1..n
    <3>1. i = n + 1 /\ i - 1 = n
      BY <2>2
    <3>2. QED
      BY <1>6, <3>1
  <2>3. QED
    BY <2>1, <2>2
<1>8. \A s \in lost' : s < next'
  BY DEF Numbers
<1>9. since' = Before(Len(written))'
  BY <1>1, <1>2, <1>4
<1>10. QED
  BY <1>1, <1>2, <1>7, <1>8, <1>9 DEF Numbers

(* Whatever the node does, its numbers are in order. *)
LEMMA NumbersKept ==
  ASSUME Numbers, Node
  PROVE  Numbers'
<1>1. /\ next \in Nat /\ since \in Nat /\ since <= next /\ written \in Seq(Frames)
      /\ Len(written) \in Nat
      /\ \A s \in since..(next - 1) : s \in lost
      /\ \A s \in lost : s < next /\ s \in Nat
      /\ lost \subseteq Nat /\ IsFiniteSet(lost)
      /\ Sizes \subseteq Nat /\ Long \in Nat
      /\ Bare \subseteq {"Failing", "Refusal", "Ping"}
      /\ Codecs \subseteq {"zstd", "corrupt", "other"}
  BY LenProperties, EventLoopAssumption DEF Numbers, EventLoopAssumption, FeedAssumption
<1>2. CASE Emit
  <2>1. UNCHANGED lost /\ next' = next + 1 /\ since' = next + 1
    BY <1>2 DEF Emit
  <2>2. PICK kind \in Kinds \ {"Lag"}, size \in Nat, codec \in {"zstd", "corrupt", "other"} :
          Write([kind |-> kind, size |-> size, codec |-> codec, seq |-> next,
                 dropped |-> 0, resume |-> 0])
    BY <1>1, <1>2 DEF Emit, Kinds
  <2> DEFINE f == [kind |-> kind, size |-> size, codec |-> codec, seq |-> next,
                   dropped |-> 0, resume |-> 0]
  <2>3. f \in Frames /\ f.kind # "Lag" /\ f.seq = next /\ f.dropped = 0 /\ written' = Append(written, f)
    BY <1>1, <2>2 DEF Frames, Write, Kinds
  <2> HIDE DEF f
  <2>4. Expected(f) = next + 1
    BY <2>3 DEF Expected
  <2>5. Numbered(f, since, since')
    BY <1>1, <2>1, <2>3, <2>4 DEF Numbered
  <2>6. Len(written) = 0 => f.seq = 0
    BY <2>3 DEF Numbers
  <2>7. QED
    BY <1>1, <2>1, <2>3, <2>4, <2>5, <2>6, WrittenNumbered
<1>3. CASE Lose
  <2>1. /\ lost' = lost \cup {next} /\ next' = next + 1 /\ UNCHANGED <<written, since>>
        /\ written # <<>>
    BY <1>3 DEF Lose
  <2>2. IsFiniteSet(lost')
    BY <1>1, <2>1, FS_AddElement
  <2>3. ASSUME NEW i \in 1..Len(written)
        PROVE  /\ Numbered(written[i], Before(i - 1), Before(i))'
               /\ Before(i)' <= next'
               /\ i = 1 => written'[i].kind # "Lag" /\ written'[i].seq = 0
    <3>1. /\ Numbered(written[i], Before(i - 1), Before(i))
          /\ Before(i) <= next
          /\ i = 1 => written[i].kind # "Lag" /\ written[i].seq = 0
      BY DEF Numbers
    <3>2. Before(i - 1)' = Before(i - 1) /\ Before(i)' = Before(i) /\ written'[i] = written[i]
      BY <2>1 DEF Before, Expected
    <3>3. written[i] \in Frames /\ Before(i) \in Nat
      <4>1. written[i] \in Frames
        BY <1>1, ElementOfSeq
      <4>2. QED
        BY <4>1 DEF Before, Expected, Frames
    <3>4. written[i].kind # "Lag" => written[i].seq < next /\ written[i].seq \in Nat
      BY <3>1, <3>3, <1>1 DEF Before, Expected, Frames
    <3>5. Numbered(written[i], Before(i - 1), Before(i))'
      BY <1>1, <2>1, <3>1, <3>2, <3>4 DEF Numbered, Expected
    <3>6. QED
      BY <1>1, <2>1, <3>1, <3>2, <3>3, <3>5
  <2>4. Before(Len(written))' = Before(Len(written))
    BY <2>1 DEF Before, Expected
  <2>5. Len(written) # 0
    BY <1>1, <2>1, EmptySeq
  <2>6. \A s \in since..next : s \in lost'
    BY <1>1, <2>1
  <2>7. QED
    BY <1>1, <2>1, <2>2, <2>3, <2>4, <2>5, <2>6 DEF Numbers
<1>4. CASE Report
  <2>1. /\ since < next /\ since' = next /\ UNCHANGED <<next, lost>>
    BY <1>4 DEF Report
  <2>2. PICK seq \in {0, since} :
          Write([kind |-> "Lag", size |-> 0, codec |-> "zstd", seq |-> seq,
                 dropped |-> next - since, resume |-> next])
    BY <1>4 DEF Report
  <2> DEFINE f == [kind |-> "Lag", size |-> 0, codec |-> "zstd", seq |-> seq,
                   dropped |-> next - since, resume |-> next]
  <2>3. /\ f \in Frames /\ f.kind = "Lag" /\ f.seq \in {0, since} /\ f.dropped = next - since
        /\ f.resume = next /\ written' = Append(written, f)
    <3>1. next - since \in Nat
      BY <1>1, <2>1
    <3>2. f \in Frames
      BY <1>1, <3>1 DEF Frames, Kinds
    <3>3. QED
      BY <2>2, <3>2 DEF Write
  <2> HIDE DEF f
  <2>4. Expected(f) = next
    BY <2>3 DEF Expected
  <2>5. Numbered(f, since, since')
    BY <1>1, <2>1, <2>3, <2>4 DEF Numbered
  <2>6. Len(written) # 0
    BY <1>1, <2>1 DEF Numbers
  <2>7. QED
    BY <1>1, <2>1, <2>3, <2>4, <2>5, <2>6, WrittenNumbered
<1>5. CASE Shut
  BY <1>5 DEF Shut, Numbers, Numbered, Before, Expected
<1>6. QED
  BY <1>2, <1>3, <1>4, <1>5 DEF Node

(* The next frame to take, with what the client has accounted for before it. *)
LEMMA NextNumbered ==
  ASSUME IInv, Numbers, Accounted, Transport = "tcp", NEW header \in Leading
  PROVE  /\ Before(taken) \in Nat /\ Before(taken + 1) \in Nat
         /\ Before(taken + 1) = Expected(header)
         /\ Numbered(header, Before(taken), Before(taken + 1))
         /\ header \in Frames
         /\ Before(taken) = 0 => header.kind # "Lag" /\ header.seq = 0
<1>1. taken + 1 \in 1..Len(written) /\ header = written[taken + 1] /\ header \in Frames
  BY LeadingFront, LeadingType DEF IInv
<1>2. taken \in Nat
  BY DEF IInv, Streams
<1>3. PICK i \in 1..Len(written) : i = taken + 1 /\ i - 1 = taken
  BY <1>1, <1>2
<1>4. Numbered(header, Before(taken), Before(taken + 1))
  <2>1. Numbered(written[i], Before(i - 1), Before(i))
    BY DEF Numbers
  <2>2. QED
    BY <1>1, <1>3, <2>1
<1>5. Before(taken + 1) = Expected(header)
  BY <1>4 DEF Numbered
<1>6. Before(taken) \in Nat /\ Before(taken + 1) \in Nat
  BY <1>1, <1>4, <1>5 DEF Numbered, Expected, Frames
<1>7. ASSUME Before(taken) = 0
      PROVE  header.kind # "Lag" /\ header.seq = 0
  <2>1. CASE taken = 0
    BY <1>1, <2>1 DEF Numbers
  <2>2. CASE taken # 0
    <3>1. taken \in 1..Len(written)
      BY <1>1, <1>2, <2>2, LenProperties DEF Numbers
    <3>2. Numbered(written[taken], Before(taken - 1), Before(taken))
      BY <3>1 DEF Numbers
    <3>3. Before(taken - 1) \in Nat /\ Before(taken - 1) < Before(taken)
      BY <3>2 DEF Numbered
    <3>4. QED
      BY <1>7, <3>3
  <2>3. QED
    BY <2>1, <2>2
<1>8. QED
  BY <1>1, <1>4, <1>5, <1>6, <1>7

LEMMA TakeAccounts ==
  ASSUME IInv, Numbers, Accounted, Transport = "tcp", Take
  PROVE  Accounted'
<1>1. PICK header \in Leading :
        /\ gaps' = gaps + Gap(header) + header.dropped
        /\ expected_seq' = Expected(header)
  BY DEF Take
<1>2. taken' = taken + 1 /\ UNCHANGED <<lost, written, skipped>>
  BY DEF Take, feed
<1>3. PICK e \in Nat : e = expected_seq
  BY DEF Accounted
<1>4. PICK b \in Nat : b = Before(taken)
  BY <1>1, NextNumbered
<1>5. PICK m \in Nat : m = Before(taken + 1)
  BY <1>1, NextNumbered
<1>6. /\ m = Expected(header) /\ Numbered(header, b, m) /\ header \in Frames
      /\ b = 0 => header.kind # "Lag" /\ header.seq = 0
  BY <1>1, <1>4, <1>5, NextNumbered
<1>7. PICK q \in Nat, d \in Nat : q = header.seq /\ d = header.dropped
  BY <1>6 DEF Frames
<1> DEFINE S == lost \cup skipped
<1>8. /\ S \in SUBSET Nat /\ IsFiniteSet(S) /\ S' = S
      /\ Missing = {s \in S : s < e} /\ Missing' = {s \in S : s < m}
      /\ skipped = {} => S = lost
  BY <1>1, <1>2, <1>3, <1>6, FS_Union DEF Numbers, Accounted, Missing
<1>9. /\ e <= b /\ (skipped = {} => e = b) /\ \A s \in e..(b - 1) : s \in S
      /\ gaps \in Nat /\ gaps <= Cardinality(Missing)
      /\ skipped = {} => gaps = Cardinality(Missing)
  BY <1>3, <1>4 DEF Accounted
<1>10. /\ b < m
       /\ \A s \in b..(m - 1) : s \in S \/ (header.kind # "Lag" /\ s = q)
       /\ header.kind # "Lag" => d = 0 /\ q \notin lost /\ m = q + 1
       /\ header.kind = "Lag" => d = m - b /\ q \in {0, b}
  BY <1>6, <1>7 DEF Numbered, Expected
<1>11. PICK g \in Nat : g = Gap(header) /\ g = IF e # 0 /\ q > e THEN q - e ELSE 0
  BY <1>3, <1>7 DEF Gap
<1> HIDE DEF S
<1>12. gaps' = gaps + g + d
  BY <1>1, <1>7, <1>11
<1>13. CASE header.kind # "Lag"
  <2>1. m = q + 1 /\ b <= q /\ e <= q /\ d = 0 /\ \A s \in e..(q - 1) : s \in S
    <3>1. m = q + 1 /\ d = 0 /\ b <= q /\ e <= q
      BY <1>9, <1>10, <1>13
    <3>2. ASSUME NEW s \in e..(q - 1)
          PROVE  s \in S
      <4>1. s \in e..(b - 1) \/ (s \in b..(m - 1) /\ s # q)
        BY <1>9, <3>1
      <4>2. QED
        BY <1>9, <1>10, <4>1
    <3>3. QED
      BY <3>1, <3>2
  <2>2. /\ Cardinality(Missing) \in Nat
        /\ Cardinality({s \in S : s < q}) = Cardinality(Missing) + (q - e)
    BY <1>8, <2>1, MissingGrows
  <2>3. q <= m /\ \A s \in S : q <= s /\ s < m => s = q
    BY <1>8, <2>1
  <2>4. /\ Cardinality(Missing') \in Nat
        /\ Cardinality({s \in S : s < q}) <= Cardinality(Missing')
        /\ q \notin S => Cardinality(Missing') = Cardinality({s \in S : s < q})
    BY <1>8, <2>3, MissingMore
  <2>5. g <= q - e
    BY <1>11, <2>1
  <2>6. skipped = {} => g = q - e /\ q \notin S
    <3>1. skipped = {} /\ e = 0 => q = 0
      BY <1>6, <1>7, <1>9
    <3>2. QED
      BY <1>8, <1>10, <1>11, <1>13, <2>1, <3>1
  <2>7. /\ gaps' \in Nat /\ gaps' <= Cardinality(Missing')
        /\ skipped = {} => gaps' = Cardinality(Missing')
    BY <1>9, <1>12, <2>1, <2>2, <2>4, <2>5, <2>6
  <2>8. Before(taken)' = m
    BY <1>2, <1>5 DEF Before, Expected
  <2>9. QED
    BY <1>1, <1>2, <1>6, <2>7, <2>8 DEF Accounted
<1>14. CASE header.kind = "Lag"
  <2>1. e <= m /\ \A s \in e..(m - 1) : s \in S
    <3>1. ASSUME NEW s \in e..(m - 1)
          PROVE  s \in S
      <4>1. s \in e..(b - 1) \/ s \in b..(m - 1)
        BY <1>9
      <4>2. QED
        BY <1>9, <1>10, <1>14, <4>1
    <3>2. QED
      BY <1>9, <1>10, <3>1
  <2>2. /\ Cardinality(Missing) \in Nat
        /\ Cardinality(Missing') = Cardinality(Missing) + (m - e)
    BY <1>8, <2>1, MissingGrows
  <2>3. d = m - b /\ g <= b - e
    BY <1>9, <1>10, <1>11, <1>14
  <2>4. /\ gaps' \in Nat /\ gaps' <= Cardinality(Missing')
        /\ skipped = {} => gaps' = Cardinality(Missing')
    BY <1>9, <1>10, <1>12, <2>2, <2>3
  <2>5. Before(taken)' = m
    BY <1>2, <1>5 DEF Before, Expected
  <2>6. QED
    BY <1>1, <1>2, <1>6, <2>4, <2>5 DEF Accounted
<1>15. QED
  BY <1>13, <1>14

LEMMA OtherAccounts ==
  ASSUME IInv, Numbers, Accounted, Transport = "tcp", OtherCodec
  PROVE  Accounted'
<1>1. PICK header \in Leading : Whole(header) /\ header.codec = "other" /\ skipped' = skipped \cup {header.seq}
  BY DEF OtherCodec
<1>2. taken' = taken + 1 /\ UNCHANGED <<lost, written, expected_seq, gaps>>
  BY DEF OtherCodec, feed
<1>3. header.kind # "Lag"
  <2>1. header = written[taken + 1] /\ taken + 1 \in 1..Len(written)
    BY LeadingFront
  <2>2. QED
    BY <1>1, <2>1 DEF IInv, Answers, OnlyData
<1>4. PICK e \in Nat : e = expected_seq
  BY DEF Accounted
<1>5. PICK b \in Nat : b = Before(taken)
  BY <1>1, NextNumbered
<1>6. PICK q \in Nat : q = header.seq
  BY <1>1, NextNumbered DEF Frames
<1>7. b <= q /\ Before(taken + 1) = q + 1 /\ \A s \in b..(q - 1) : s \in lost
  <2>1. Numbered(header, b, q + 1) /\ Before(taken + 1) = q + 1
    BY <1>1, <1>3, <1>5, <1>6, NextNumbered DEF Expected
  <2>2. QED
    BY <1>6, <2>1 DEF Numbered
<1>8. e <= b /\ \A s \in e..(b - 1) : s \in lost \cup skipped
  BY <1>4, <1>5 DEF Accounted
<1>9. Missing' = Missing
  <2>1. \A s \in {header.seq} : ~(s < expected_seq)
    BY <1>4, <1>6, <1>7, <1>8
  <2>2. QED
    BY <1>1, <1>2, <2>1 DEF Missing
<1>10. Before(taken)' = q + 1
  BY <1>2, <1>7 DEF Before, Expected
<1>11. ASSUME NEW s \in e..q
       PROVE  s \in lost \cup skipped'
  <2>1. s \in e..(b - 1) \/ s \in b..(q - 1) \/ s = q
    BY <1>7, <1>8
  <2>2. QED
    BY <1>1, <1>6, <1>7, <1>8, <2>1
<1>12. skipped' # {} /\ skipped' \subseteq Nat /\ IsFiniteSet(skipped')
  BY <1>1, <1>6, FS_AddElement DEF Accounted
<1>13. e <= q + 1
  BY <1>7, <1>8
<1>14. \A s \in expected_seq'..(Before(taken)' - 1) : s \in lost' \cup skipped'
  BY <1>2, <1>4, <1>10, <1>11
<1>15. expected_seq' <= Before(taken)'
  BY <1>2, <1>4, <1>10, <1>13
<1>16. QED
  BY <1>2, <1>9, <1>12, <1>14, <1>15 DEF Accounted

LEMMA AccountKeeps ==
  ASSUME IInv, Account, [Next]_vars
  PROVE  Account'
<1>1. ASSUME UNCHANGED feed
      PROVE  Numbers'
  <2>1. UNCHANGED <<written, next, since, lost>>
    BY <1>1 DEF feed
  <2>2. \A i : Before(i)' = Before(i)
    BY <2>1 DEF Before, Expected
  <2>3. \A f, b, m : Numbered(f, b, m)' <=> Numbered(f, b, m)
    BY <2>1 DEF Numbered, Expected
  <2>4. QED
    BY <2>1, <2>2, <2>3 DEF Account, Numbers
<1>2. ASSUME UNCHANGED <<feed, expected_seq, gaps, taken, skipped>>
      PROVE  Account'
  <2>1. Accounted => Accounted'
    BY <1>2 DEF feed, Accounted, Missing, Before, Expected
  <2>2. QED
    BY <1>1, <1>2, <2>1 DEF Account
<1>3. CASE Take
  BY <1>1, <1>3, TakeAccounts DEF Account, Take
<1>4. CASE OtherCodec
  BY <1>1, <1>4, OtherAccounts DEF Account, OtherCodec
<1>5. CASE Receive
  <2>1. UNCHANGED <<written, next, since, lost, expected_seq, gaps, taken, skipped>>
    BY <1>5 DEF Receive, stats
  <2>2. Numbers' /\ (Accounted => Accounted')
    BY <2>1 DEF Account, Numbers, Numbered, Accounted, Missing, Before, Expected
  <2>3. QED
    BY <2>2 DEF Account
<1>6. CASE Round
  <2>1. Node /\ UNCHANGED <<expected_seq, gaps, taken, skipped>>
    BY <1>6 DEF Round, stats
  <2>2. Numbers'
    BY <2>1, NumbersKept DEF Account
  <2>3. ASSUME Transport = "tcp"
        PROVE  Accounted'
    <3>1. Accounted /\ Numbers
      BY <2>3 DEF Account
    <3>2. taken \in 0..Len(written)
      BY <2>3 DEF IInv, InPlace, Framed
    <3>3. Before(taken)' = Before(taken) /\ Before(taken) <= next
      <4>1. CASE taken = 0
        BY <2>1, <3>1, <4>1 DEF Before, Numbers
      <4>2. CASE taken # 0
        <5>1. taken \in 1..Len(written)
          BY <3>2, <4>2
        <5>2. written'[taken] = written[taken]
          <6>1. (written' = written /\ wire' = wire) \/ Writing(written', wire')
            BY <2>1, NodeWrites, EventLoopAssumption DEF IInv, Streams, EventLoopAssumption
          <6>2. CASE Writing(written', wire')
            <7>1. PICK frame \in Frames : written' = Append(written, frame)
              BY <6>2 DEF Writing
            <7>2. QED
              BY <5>1, <7>1, AppendProperties DEF IInv, Streams
          <6>3. QED
            BY <6>1, <6>2
        <5>3. QED
          BY <2>1, <3>1, <4>2, <5>1, <5>2 DEF Before, Expected, Numbers
      <4>3. QED
        BY <4>1, <4>2
    <3>4. lost \subseteq lost' /\ \A s \in lost' : s \in lost \/ s = next
      BY <2>1 DEF Node, Emit, Lose, Report, Shut
    <3>5. Missing' = Missing
      <4>1. Before(taken) \in Nat
        <5>1. taken # 0 => written[taken] \in Frames
          BY <3>1, <3>2, ElementOfSeq DEF Numbers
        <5>2. QED
          BY <5>1 DEF Before, Expected, Frames
      <4>2. expected_seq \in Nat /\ expected_seq <= next /\ next \in Nat
        BY <3>1, <3>3, <4>1 DEF Accounted, Numbers
      <4>3. ~(next < expected_seq)
        BY <4>2
      <4>4. QED
        BY <2>1, <3>4, <4>3 DEF Missing
    <3>6. QED
      BY <2>1, <3>1, <3>3, <3>4, <3>5 DEF Accounted
  <2>4. QED
    BY <2>2, <2>3 DEF Account
<1>7. CASE UNCHANGED vars
  BY <1>2, <1>7 DEF vars, stats
<1>8. CASE Call \/ Send \/ TooLarge \/ StartRead \/ Closed \/ Undecodable \/ Writes \/ ReadFails
           \/ WriteFails \/ Cancel
  <2>1. UNCHANGED <<feed, expected_seq, gaps, taken, skipped>>
    BY <1>8 DEF Call, Send, TooLarge, StartRead, Closed, Undecodable, Writes, ReadFails, WriteFails,
       Cancel, stats
  <2>2. QED
    BY <1>2, <2>1
<1>9. QED
  BY <1>3, <1>4, <1>5, <1>6, <1>7, <1>8 DEF Next, Reader

LEMMA AccountInit == Init => Account
<1> SUFFICES ASSUME Init
             PROVE  Account
  OBVIOUS
<1>1. Len(<<>>) = 0 /\ <<>> \in Seq(Frames)
  BY EmptySeq
<1>2. IsFiniteSet({}) /\ Cardinality({}) = 0
  BY FS_EmptySet
<1>3. Before(0) = 0
  BY DEF Before
<1>4. Numbers
  BY <1>1, <1>2, <1>3 DEF Init, FeedInit, Numbers
<1>5. Missing = {}
  BY DEF Init, FeedInit, Missing
<1>6. Accounted
  BY <1>2, <1>3, <1>5 DEF Init, FeedInit, Accounted
<1>7. QED
  BY <1>4, <1>6 DEF Account

(* Over TCP `gaps` is the number of frames the node dropped before the next one
   expected, each once, whether a Lag told of them, the numbers did, or both
   (client.rs:711-735). *)
THEOREM CountsEachGapOnce == Spec => [](Transport = "tcp" => GapsExact)
<1>1. Account => (Transport = "tcp" => GapsExact)
  BY DEF Account, Accounted, Missing, GapsExact
<1>2. IInv /\ Account /\ [Next]_vars => Account'
  BY AccountKeeps
<1>3. QED
  BY <1>1, <1>2, AccountInit, Invariance, PTL DEF Spec

-----------------------------------------------------------------------------
(* The bytes: those counted, those waiting in pending and those on their way
   are together the cells of all the frames. *)

Tallied ==
  /\ IsFiniteSet(CellsWritten)
  /\ Transport = "tcp" /\ ~Stuck =>
       wire_bytes + Len(pending) + Len(wire) = Cardinality(CellsWritten)

(* A frame adds as many cells as it has, all of them its own. *)
LEMMA CellsGrow ==
  ASSUME written \in Seq(Frames), IsFiniteSet(CellsWritten), NEW frame \in Frames,
         written' = Append(written, frame)
  PROVE  /\ IsFiniteSet(CellsWritten')
         /\ Cardinality(CellsWritten) \in Nat
         /\ Cardinality(CellsWritten') = Cardinality(CellsWritten) + Extent(frame)
<1>1. /\ Len(written) \in Nat /\ Len(written') = Len(written) + 1
      /\ written' \in Seq(Frames) /\ written'[Len(written) + 1] = frame
  BY LenProperties, AppendProperties
<1>2. FeedAssumption
  BY EventLoopAssumption DEF EventLoopAssumption
<1>3. CellsOfFirst(written', Len(written)) = CellsWritten
  BY <1>1, FirstKept DEF CellsWritten
<1>4. CellsWritten' = CellsOfFirst(written', Len(written) + 1)
  BY <1>1 DEF CellsWritten
<1>5. /\ IsFiniteSet(CellsOfFirst(written', Len(written) + 1))
      /\ Cardinality(CellsOfFirst(written', Len(written))) \in Nat
      /\ Cardinality(CellsOfFirst(written', Len(written) + 1))
           = Cardinality(CellsOfFirst(written', Len(written)))
               + Extent(written'[Len(written) + 1])
  <2>1. ASSUME NEW n \in Nat, n = Len(written)
        PROVE  n + 1 <= Len(written') /\ IsFiniteSet(CellsOfFirst(written', n))
    BY <1>1, <1>3, <2>1
  <2>2. QED
    BY <1>1, <1>2, <2>1, OneMore
<1>6. QED
  BY <1>1, <1>3, <1>4, <1>5

(* Whoever looks sees the next frame, before a step as after it. *)
FrontIsNext ==
  Transport = "tcp" =>
    /\ Len(pending) >= HeaderLen => Leading # {}
    /\ \A header \in Leading : header = written[taken + 1]

LEMMA FrontSeen == IInv => FrontIsNext
BY LeadingType, LeadingFront DEF FrontIsNext, IInv

LEMMA FrontSeenNext == IInv' => FrontIsNext'
BY FrontSeen, PTL

(* A call that gets no further than the front of pending does not by more behind it. *)
LEMMA StuckStays ==
  ASSUME IInv, IInv', Transport = "tcp", Stuck, Len(pending) <= Len(pending'), taken' = taken,
         \A i \in 1..Len(written) : written'[i] = written[i]
  PROVE  Stuck'
<1>1. PICK header \in Leading :
        ~WithinLimit(header) \/ (Whole(header) /\ header.codec = "corrupt")
  BY DEF Stuck
<1>2. /\ Len(pending) >= HeaderLen /\ taken + 1 \in 1..Len(written)
      /\ header = written[taken + 1] /\ header.size \in Nat
  BY LeadingFront, LeadingType DEF IInv, Frames
<1>3. Len(pending) \in Nat /\ Len(pending') \in Nat /\ HeaderLen \in Nat
  BY LenProperties, Constants DEF IInv, Streams
<1>4. PICK next_header \in Leading' : TRUE
  <2>1. Len(pending') >= HeaderLen
    BY <1>2, <1>3
  <2>2. QED
    BY <2>1, FrontSeenNext DEF FrontIsNext
<1>5. next_header = header
  BY <1>2, <1>4, FrontSeenNext DEF FrontIsNext
<1>6. CASE ~WithinLimit(header)
  BY <1>4, <1>5, <1>6 DEF Stuck, WithinLimit
<1>7. CASE Whole(header) /\ header.codec = "corrupt"
  <2>1. Whole(header)'
    BY <1>2, <1>3, <1>7 DEF Whole, WithinLimit
  <2>2. QED
    BY <1>4, <1>5, <1>7, <2>1 DEF Stuck
<1>8. QED
  BY <1>1, <1>6, <1>7

LEMMA RoundTallies ==
  ASSUME IInv, IInv', Tallied, Round
  PROVE  Tallied'
<1>1. UNCHANGED <<pending, wire_bytes>>
  BY DEF Round, stats
<1>2. (written' = written /\ wire' = wire) \/ Writing(written', wire')
  BY NodeWrites, EventLoopAssumption DEF Round, IInv, Streams, EventLoopAssumption
<1>3. CASE written' = written /\ wire' = wire
  <2>1. Leading' = Leading
    BY <1>1, <1>3 DEF Leading, Headers, Misread, Torn, OfOneFrame
  <2>2. Stuck' = Stuck
    BY <1>1, <2>1 DEF Stuck, WithinLimit, Whole
  <2>3. QED
    BY <1>1, <1>3, <2>2 DEF Tallied, CellsWritten
<1>4. CASE Writing(written', wire')
  <2>1. PICK frame \in Frames :
          /\ written' = Append(written, frame)
          /\ wire' = wire \o CellsOf(Len(written) + 1, frame)
    BY <1>4 DEF Writing
  <2>2. /\ written \in Seq(Frames) /\ written' \in Seq(Frames) /\ Len(written) \in Nat
        /\ pending \in Seq(Cells) /\ wire \in Seq(Cells)
        /\ Len(pending) \in Nat /\ Len(wire) \in Nat
        /\ \A i \in 1..Len(written) : written'[i] = written[i]
    BY <2>1, LenProperties, AppendProperties, KnownAreCells, SeqMonotonic DEF IInv, Streams
  <2>3. /\ IsFiniteSet(CellsWritten')
        /\ Cardinality(CellsWritten) \in Nat
        /\ Cardinality(CellsWritten') = Cardinality(CellsWritten) + Extent(frame)
    BY <2>1, <2>2, CellsGrow DEF Tallied
  <2>4. /\ CellsOf(Len(written) + 1, frame) \in Seq(Cells)
        /\ Len(CellsOf(Len(written) + 1, frame)) = Extent(frame)
        /\ Extent(frame) \in Nat
    BY <2>2, CellsOfProperties, ExtentType, EventLoopAssumption DEF EventLoopAssumption
  <2>5. Len(wire') = Len(wire) + Extent(frame)
    BY <2>1, <2>2, <2>4, ConcatProperties
  <2>6. Transport = "tcp" /\ Stuck => Stuck'
    BY <1>1, <2>2, StuckStays DEF Round, stats
  <2>7. wire_bytes \in Nat
    BY DEF IInv, Counts
  <2>8. Transport = "tcp" /\ ~Stuck' =>
          wire_bytes' + Len(pending') + Len(wire') = Cardinality(CellsWritten')
    BY <1>1, <2>2, <2>3, <2>4, <2>5, <2>6, <2>7 DEF Tallied
  <2>9. QED
    BY <2>3, <2>8 DEF Tallied
<1>5. QED
  BY <1>2, <1>3, <1>4

(* A read moves bytes from the wire to pending. *)
LEMMA ReceiveTallies ==
  ASSUME IInv, IInv', Tallied, Receive
  PROVE  Tallied'
<1> DEFINE kept == SubSeq(pending, 1, at)
<1>1. PICK n \in 1..Chunk :
        /\ n <= Len(wire)
        /\ pending' = kept \o SubSeq(wire, 1, n)
        /\ wire' = SubSeq(wire, n + 1, Len(wire))
  BY DEF Receive
<1>2. pc = "reading" /\ UNCHANGED <<written, wire_bytes>>
  BY DEF Receive, stats
<1>3. CellsWritten' = CellsWritten
  BY <1>2 DEF CellsWritten
<1>4. ASSUME Transport = "tcp", ~Stuck'
      PROVE  wire_bytes + Len(pending') + Len(wire') = Cardinality(CellsWritten)
  <2>1. kept = pending
    BY <1>2, <1>4, CutPending
  <2>2. /\ pending \in Seq(Cells) /\ wire \in Seq(Cells) /\ written \in Seq(Frames)
        /\ Len(pending) \in Nat /\ Len(wire) \in Nat /\ n \in Nat \ {0}
    BY LenProperties, Constants, KnownAreCells, SeqMonotonic DEF IInv, Streams
  <2> HIDE DEF kept
  <2>3. \A i \in 1..Len(wire) : wire[i] \in Cells
    BY <2>2, ElementOfSeq
  <2>4. /\ \A i \in 1..n : wire[i] \in Cells
        /\ \A i \in (n + 1)..Len(wire) : wire[i] \in Cells
    BY <1>1, <2>2, <2>3
  <2>5. SubSeq(wire, 1, n) \in Seq(Cells) /\ Len(SubSeq(wire, 1, n)) = n
    <3>1. /\ SubSeq(wire, 1, n) \in Seq(Cells)
          /\ Len(SubSeq(wire, 1, n)) = IF 1 <= n THEN n - 1 + 1 ELSE 0
      BY <2>2, <2>4, SubSeqProperties
    <3>2. QED
      BY <2>2, <3>1
  <2>6. Len(wire') = Len(wire) - n
    <3>1. Len(wire') = IF n + 1 <= Len(wire) THEN Len(wire) - (n + 1) + 1 ELSE 0
      BY <1>1, <2>2, <2>4, SubSeqProperties
    <3>2. QED
      BY <1>1, <2>2, <3>1
  <2>7. /\ pending' \in Seq(Cells) /\ Len(pending') = Len(pending) + n
        /\ \A k \in 1..Len(pending) : pending'[k] = pending[k]
    <3> DEFINE front == SubSeq(wire, 1, n)
    <3>1. pending' = pending \o front /\ front \in Seq(Cells) /\ Len(front) = n
      BY <1>1, <2>1, <2>5
    <3> HIDE DEF front
    <3>2. /\ pending \o front \in Seq(Cells) /\ Len(pending \o front) = Len(pending) + Len(front)
          /\ \A k \in 1..(Len(pending) + Len(front)) :
               (pending \o front)[k]
                 = IF k <= Len(pending) THEN pending[k] ELSE front[k - Len(pending)]
      BY <2>2, <3>1, ConcatProperties
    <3>3. \A k \in 1..Len(pending) : k \in 1..(Len(pending) + Len(front)) /\ k <= Len(pending)
      BY <2>2, <3>1
    <3>4. QED
      BY <3>1, <3>2, <3>3
  <2>8. ~Stuck
    <3>1. Len(pending) <= Len(pending')
      BY <2>2, <2>7
    <3>2. Stuck => Stuck'
      BY <1>2, <1>4, <2>2, <2>7, <3>1, StuckStays DEF Receive, stats
    <3>3. QED
      BY <1>4, <3>2
  <2>9. wire_bytes + Len(pending) + Len(wire) = Cardinality(CellsWritten) /\ wire_bytes \in Nat
    BY <1>4, <2>8 DEF Tallied, IInv, Counts
  <2>10. \A b, p, w, i \in Nat : b + (p + i) + (w - i) = b + p + w
    OBVIOUS
  <2>11. wire_bytes + (Len(pending) + n) + (Len(wire) - n) = wire_bytes + Len(pending) + Len(wire)
    BY <2>2, <2>9, <2>10
  <2>12. QED
    BY <2>6, <2>7, <2>9, <2>11
<1>5. QED
  BY <1>2, <1>3, <1>4 DEF Tallied

(* A frame that is taken is counted, all of it, and leaves pending. *)
LEMMA TakenTallies ==
  ASSUME IInv, Tallied, NEW header \in Leading, Whole(header), header.codec # "corrupt",
         pending' = Drained(header), wire_bytes' = Counted(header), UNCHANGED feed
  PROVE  Tallied'
<1> DEFINE E == HeaderLen + header.size
           L == Len(pending)
<1>1. CellsWritten' = CellsWritten /\ wire' = wire
  BY DEF CellsWritten, feed
<1>2. ASSUME Transport = "tcp"
      PROVE  wire_bytes' + Len(pending') + Len(wire) = Cardinality(CellsWritten)
  <2>1. ~Stuck
    <3>1. \A h \in Leading : h = header
      BY <1>2, LeadingFront
    <3>2. WithinLimit(header)
      BY DEF Whole
    <3>3. QED
      BY <3>1, <3>2 DEF Stuck
  <2>2. wire_bytes + L + Len(wire) = Cardinality(CellsWritten) /\ wire_bytes \in Nat
    BY <1>2, <2>1 DEF Tallied, IInv, Counts
  <2>3. /\ header.size \in Nat /\ E \in Nat \ {0} /\ L \in Nat /\ E <= L
        /\ pending \in Seq(Cells) /\ Len(wire) \in Nat /\ HeaderLen \in Nat
    BY LeadingType, LenProperties, Constants, KnownAreCells, SeqMonotonic
       DEF IInv, Streams, Whole, Frames
  <2>4. Len(pending') = L - E
    <3>1. pending' = SubSeq(pending, E + 1, L)
      BY DEF Drained
    <3> HIDE DEF E
    <3>2. \A i \in (E + 1)..L : pending[i] \in Cells
      <4>1. \A i \in (E + 1)..L : i \in 1..L
        BY <2>3
      <4>2. QED
        BY <2>3, <4>1, ElementOfSeq
    <3>3. Len(pending') = IF E + 1 <= L THEN L - (E + 1) + 1 ELSE 0
      BY <2>3, <3>1, <3>2, SubSeqProperties
    <3> HIDE DEF L
    <3>4. QED
      BY <2>3, <3>3
  <2>5. wire_bytes' = wire_bytes + E
    BY <2>2, <2>3 DEF Counted
  <2> HIDE DEF E, L
  <2>6. \A b, l, w, e \in Nat : (b + e) + (l - e) + w = b + l + w
    OBVIOUS
  <2>7. (wire_bytes + E) + (L - E) + Len(wire) = wire_bytes + L + Len(wire)
    BY <2>2, <2>3, <2>6
  <2>8. QED
    BY <2>2, <2>4, <2>5, <2>7
<1>3. QED
  BY <1>1, <1>2 DEF Tallied

(* A frame that cannot be decompressed is counted each time, and is there for good. *)
LEMMA UndecodableTallies ==
  ASSUME Tallied, Undecodable
  PROVE  Tallied'
<1>1. PICK header \in Leading : Whole(header) /\ header.codec = "corrupt"
  BY DEF Undecodable
<1>2. UNCHANGED <<feed, pending>>
  BY DEF Undecodable
<1>3. Leading' = Leading /\ CellsWritten' = CellsWritten /\ Whole(header)'
  <2>1. written' = written /\ pending' = pending
    BY <1>2 DEF feed
  <2>2. Leading' = Leading
    BY <2>1 DEF Leading, Headers, Misread, OfOneFrame
  <2>3. QED
    BY <1>1, <1>2, <2>1, <2>2 DEF CellsWritten, Whole, WithinLimit
<1>4. Stuck'
  BY <1>1, <1>3 DEF Stuck
<1>5. QED
  BY <1>3, <1>4 DEF Tallied

LEMMA TalliedKeeps ==
  ASSUME IInv, IInv', Tallied, [Next]_vars
  PROVE  Tallied'
<1>1. ASSUME UNCHANGED <<feed, wire_bytes>>, Transport = "tcp" => pending' = pending
      PROVE  Tallied'
  <2>1. CellsWritten' = CellsWritten /\ wire' = wire
    BY <1>1 DEF CellsWritten, feed
  <2>2. ASSUME Transport = "tcp"
        PROVE  Stuck' = Stuck
    <3>1. pending' = pending /\ written' = written
      BY <1>1, <2>2 DEF feed
    <3>2. QED
      BY <3>1 DEF Stuck, Leading, Headers, Misread, Torn, OfOneFrame, WithinLimit, Whole
  <2>3. QED
    BY <1>1, <2>1, <2>2 DEF Tallied
<1>2. CASE Round
  BY <1>2, RoundTallies
<1>3. CASE Receive
  BY <1>3, ReceiveTallies
<1>4. CASE Undecodable
  BY <1>4, UndecodableTallies
<1>5. CASE Take
  <2>1. PICK header \in Leading :
          /\ Whole(header) /\ header.codec = "zstd"
          /\ pending' = Drained(header) /\ wire_bytes' = Counted(header)
    BY <1>5 DEF Take
  <2>2. UNCHANGED feed
    BY <1>5 DEF Take
  <2>3. QED
    BY <2>1, <2>2, TakenTallies
<1>6. CASE OtherCodec
  <2>1. PICK header \in Leading :
          /\ Whole(header) /\ header.codec = "other"
          /\ pending' = Drained(header) /\ wire_bytes' = Counted(header)
    BY <1>6 DEF OtherCodec
  <2>2. UNCHANGED feed
    BY <1>6 DEF OtherCodec
  <2>3. QED
    BY <2>1, <2>2, TakenTallies
<1>7. CASE StartRead
  <2>1. UNCHANGED <<feed, wire_bytes>> /\ (Transport = "tcp" => pending' = pending)
    BY <1>7 DEF StartRead, stats
  <2>2. QED
    BY <1>1, <2>1
<1>8. CASE Closed
  <2>1. UNCHANGED <<feed, wire_bytes>> /\ pc = "reading" /\ pending' = SubSeq(pending, 1, at)
    BY <1>8 DEF Closed, stats
  <2>2. QED
    BY <1>1, <2>1, CutPending
<1>9. CASE UNCHANGED vars
  BY <1>1, <1>9 DEF vars, stats
<1>10. CASE Call \/ Send \/ TooLarge \/ Writes \/ ReadFails \/ WriteFails \/ Cancel
  <2>1. UNCHANGED <<feed, wire_bytes, pending>>
    BY <1>10 DEF Call, Send, TooLarge, Writes, ReadFails, WriteFails, Cancel, stats
  <2>2. QED
    BY <1>1, <2>1
<1>11. QED
  BY <1>2, <1>3, <1>4, <1>5, <1>6, <1>7, <1>8, <1>9, <1>10 DEF Next, Reader

LEMMA TalliedInit == Init => Tallied
<1> SUFFICES ASSUME Init
             PROVE  Tallied
  OBVIOUS
<1>1. Len(<<>>) = 0 /\ DOMAIN <<>> = 1..0 /\ 1..0 = {}
  BY EmptySeq, LenProperties
<1>2. CellsWritten = {}
  <2>1. written = <<>> /\ Len(<<>>) = 0
    BY <1>1, EmptySeq DEF Init, FeedInit
  <2>2. QED
    BY <2>1 DEF CellsWritten, CellsOfFirst
<1>3. IsFiniteSet({}) /\ Cardinality({}) = 0
  BY FS_EmptySet
<1>4. QED
  BY <1>1, <1>2, <1>3 DEF Init, FeedInit, Tallied

(* Over TCP, until a frame cannot be decompressed, every byte that was read is
   counted once or still waits in pending (client.rs:678-704). *)
THEOREM CountsBytesOnce == Spec => [](Transport = "tcp" => WireBytesExact)
<1>1. IInv /\ Tallied => (Transport = "tcp" => WireBytesExact)
  <2> SUFFICES ASSUME IInv, Tallied, Transport = "tcp"
               PROVE  WireBytesExact
    OBVIOUS
  <2>1. Received = pending
    BY CutPending DEF Received
  <2>2. QED
    BY <2>1 DEF Tallied, WireBytesExact
<1>2. IInv /\ IInv' /\ Tallied /\ [Next]_vars => Tallied'
  BY TalliedKeeps
<1>3. QED
  BY <1>1, <1>2, TalliedInit, Invariance, PTL DEF Spec

=============================================================================
