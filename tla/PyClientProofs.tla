---------------------------- MODULE PyClientProofs ----------------------------
(***************************************************************************)
(* What the calls of the Python client promise whatever the node writes,   *)
(* however reads cut it, wherever a call is cancelled and whenever other   *)
(* tasks write to the node or close the client: they stay in step with the *)
(* frames and answer each Ping until a call ends between a header and its  *)
(* payload, and count each byte once even then.                            *)
(***************************************************************************)
EXTENDS PyClient, FeedProofs

Heads ==
  [frame : Nat, kind : Kinds, size : 0..Limit, codec : {"zstd", "corrupt", "other"}]

Streams ==
  /\ written \in Seq(Frames)
  /\ wire \in Seq(FrameCells(written))
  /\ buffer \in Seq(FrameCells(written))
  /\ next \in Nat /\ since \in Nat
  /\ taken \in Nat /\ wire_bytes \in Nat
  /\ \A i \in 1..Len(written) : written[i].codec # "zstd" => written[i].kind = "Data"

Reads ==
  /\ pc \in {"idle", "header", "payload", "ponging"}
  /\ header \in Heads
  /\ Len(buffer) < HeaderLen + Limit + Chunk

Flags ==
  /\ iterating \in BOOLEAN
  /\ result \in {"nothing", "event", "TransportError", "ServerError", "ProtocolError",
                 "OSError", "cancelled", "over"}
  /\ out \in Seq({"Pong", "SetFilter", "Ping"})
  /\ closed \in BOOLEAN /\ shut \in BOOLEAN /\ ended \in BOOLEAN
  /\ broken \in BOOLEAN /\ torn \in BOOLEAN
  /\ cancels \in 0..MaxCancels

(* The header of the next frame, where a call has taken it out of the buffer already. *)
Front ==
  IF pc = "payload" THEN [k \in 1..HeaderLen |-> [frame |-> taken + 1, cell |-> k]] ELSE <<>>

HeaderOf(i) ==
  [frame |-> i, kind |-> written[i].kind, size |-> written[i].size, codec |-> written[i].codec]

(* With that header, what is read and what is on its way are the frames not taken. *)
InPlace ==
  ~torn => /\ Framed(Front \o (buffer \o wire), taken, written)
           /\ pc = "payload" => header = HeaderOf(taken + 1)

Within == IF pc = "payload" THEN HeaderLen ELSE 0

Tally ==
  /\ IsFiniteSet(CellsOfFirst(written, Len(written)))
  /\ wire_bytes + Len(wire) = Size(Len(written))
  /\ ~torn => wire_bytes = Size(taken) + Within + Len(buffer)

Pongs == {i \in DOMAIN out : out[i] = "Pong"}

Pings == {i \in 1..taken : written[i].kind = "Ping"}

Answers == ~torn => Cardinality(Pongs) = Cardinality(Pings)

IInv == Streams /\ Reads /\ Flags /\ InPlace /\ Tally /\ Answers

-----------------------------------------------------------------------------
(* What the steps have in common *)

LEMMA Constants ==
  /\ HeaderLen \in Nat \ {0} /\ Limit \in Nat /\ Chunk \in Nat \ {0}
  /\ MaxCancels \in Nat /\ Sizes \subseteq Nat /\ Long \in Nat
  /\ FeedAssumption
BY PyClientAssumption DEF PyClientAssumption, FeedAssumption

LEMMA StreamTypes ==
  ASSUME Streams
  PROVE  /\ Len(written) \in Nat /\ Len(wire) \in Nat /\ Len(buffer) \in Nat
         /\ wire \in Seq(Cells) /\ buffer \in Seq(Cells)
<1>1. FrameCells(written) \subseteq Cells
  BY DEF FrameCells
<1>2. QED
  BY <1>1, SeqMonotonic, LenProperties DEF Streams

LEMMA FrontType ==
  ASSUME Streams
  PROVE  /\ Front \in Seq(Cells) /\ Len(Front) = Within /\ Within \in Nat
         /\ \A k \in 1..Len(Front) : Front[k] = [frame |-> taken + 1, cell |-> k]
<1>1. taken + 1 \in Nat /\ HeaderLen \in Nat
  BY Constants DEF Streams
<1>2. CASE pc = "payload"
  <2> DEFINE f == [k \in 1..HeaderLen |-> [frame |-> taken + 1, cell |-> k]]
  <2>1. \A k \in 1..HeaderLen : [frame |-> taken + 1, cell |-> k] \in Cells
    BY <1>1 DEF Cells
  <2>2. f \in Seq(Cells) /\ Len(f) = HeaderLen
    BY <1>1, <2>1
  <2>3. QED
    BY <1>1, <1>2, <2>2 DEF Front, Within
<1>3. CASE pc # "payload"
  <2>1. <<>> \in Seq(Cells) /\ Len(<<>>) = 0
    BY EmptySeq
  <2>2. Front = <<>> /\ Within = 0
    BY <1>3 DEF Front, Within
  <2>3. QED
    BY <2>1, <2>2
<1>4. QED
  BY <1>2, <1>3

(* Where no header is in hand, only the buffer and the wire are left. *)
LEMMA NoFront ==
  ASSUME Streams, pc # "payload"
  PROVE  Front \o (buffer \o wire) = buffer \o wire
<1>1. buffer \o wire \in Seq(Cells)
  BY StreamTypes, ConcatProperties
<1>2. Front = <<>>
  BY DEF Front
<1>3. QED
  BY <1>1, <1>2, ConcatEmptySeq

LEMMA Finite ==
  ASSUME Streams, Flags
  PROVE  /\ IsFiniteSet(Pongs) /\ Cardinality(Pongs) \in Nat
         /\ IsFiniteSet(Pings) /\ Cardinality(Pings) \in Nat
<1>1. Len(out) \in Nat /\ DOMAIN out = 1..Len(out) /\ taken \in Nat
  BY LenProperties DEF Streams, Flags
<1>2. IsFiniteSet(1..Len(out)) /\ IsFiniteSet(1..taken)
  BY <1>1, FS_Interval
<1>3. Pongs \subseteq 1..Len(out) /\ Pings \subseteq 1..taken
  BY <1>1 DEF Pongs, Pings
<1>4. IsFiniteSet(Pongs) /\ IsFiniteSet(Pings)
  BY <1>2, <1>3, FS_Subset
<1>5. QED
  BY <1>4, FS_CardinalityType

(* A frame written to the node is a Pong or it is not. *)
LEMMA OutGrows ==
  ASSUME Streams, Flags, NEW kind \in {"Pong", "SetFilter", "Ping"}, out' = Append(out, kind)
  PROVE  /\ out' \in Seq({"Pong", "SetFilter", "Ping"})
         /\ Cardinality(Pongs') = Cardinality(Pongs) + IF kind = "Pong" THEN 1 ELSE 0
<1> DEFINE n == Len(out)
<1>1. /\ n \in Nat /\ DOMAIN out = 1..n
      /\ out' \in Seq({"Pong", "SetFilter", "Ping"}) /\ Len(out') = n + 1
      /\ DOMAIN out' = 1..(n + 1)
      /\ \A i \in 1..n : out'[i] = out[i]
      /\ out'[n + 1] = kind
  BY LenProperties, AppendProperties DEF Flags
<1> HIDE DEF n
<1>2. Pongs = {i \in 1..n : out[i] = "Pong"} /\ Pongs' = {i \in 1..(n + 1) : out'[i] = "Pong"}
  BY <1>1 DEF Pongs
<1>3. n + 1 \notin Pongs
  BY <1>1, <1>2
<1>4. CASE kind = "Pong"
  <2>1. Pongs' = Pongs \cup {n + 1}
    BY <1>1, <1>2, <1>4
  <2>2. QED
    BY <1>1, <1>3, <1>4, <2>1, Finite, FS_AddElement
<1>5. CASE kind # "Pong"
  <2>1. Pongs' = Pongs
    BY <1>1, <1>2, <1>5
  <2>2. QED
    BY <1>1, <1>5, <2>1, Finite
<1>6. QED
  BY <1>4, <1>5

(* A step that moves no byte leaves the next frame where it is, unless it drops the
   header in hand. *)
LEMMA PlaceKept ==
  ASSUME IInv, UNCHANGED <<feed, buffer, wire_bytes, taken>>,
         ~torn' => /\ ~torn
                   /\ (pc = "payload") = (pc' = "payload")
                   /\ pc = "payload" => header' = header
  PROVE  Streams' /\ InPlace' /\ Tally'
<1>1. UNCHANGED <<written, wire, next, since, buffer, wire_bytes, taken>>
  BY DEF feed
<1>2. Streams'
  BY <1>1 DEF IInv, Streams
<1>3. ASSUME ~torn'
      PROVE  Front' = Front /\ Within' = Within
  BY <1>1, <1>3 DEF Front, Within
<1>4. InPlace'
  <2> SUFFICES ASSUME ~torn'
               PROVE  /\ Framed(Front' \o (buffer' \o wire'), taken', written')
                      /\ pc' = "payload" => header' = HeaderOf(taken + 1)
    BY <1>1 DEF InPlace, HeaderOf
  <2>1. Framed(Front \o (buffer \o wire), taken, written)
    BY DEF IInv, InPlace
  <2>2. QED
    BY <1>1, <1>3, <2>1 DEF IInv, InPlace
<1>5. Tally'
  BY <1>1, <1>3 DEF IInv, Tally, Size
<1>6. QED
  BY <1>2, <1>4, <1>5

LEMMA AnswersKept ==
  ASSUME IInv, UNCHANGED <<feed, taken, out>>, ~torn' => ~torn
  PROVE  Answers'
BY DEF IInv, feed, Answers, Pongs, Pings

(* A call that ends there has no header in hand any more. *)
LEMMA ReturnTypes ==
  ASSUME IInv, NEW what, Return(what),
         what \in {"event", "TransportError", "ServerError", "ProtocolError", "OSError",
                   "cancelled"}
  PROVE  /\ pc' = "idle" /\ header' \in Heads
         /\ iterating' \in BOOLEAN
         /\ result' \in {"nothing", "event", "TransportError", "ServerError",
                         "ProtocolError", "OSError", "cancelled", "over"}
<1>1. None \in Heads
  <2>1. 0 \in 0..Limit /\ 0 \in Nat
    BY Constants
  <2>2. QED
    BY <2>1 DEF None, Heads, Kinds
<1>2. QED
  BY <1>1 DEF Return, IInv, Flags

(* The frames taken have as many cells as they have. *)
LEMMA SizeType ==
  ASSUME IInv, ~torn
  PROVE  IsFiniteSet(CellsOfFirst(written, taken)) /\ Size(taken) \in Nat
<1>1. Framed(Front \o (buffer \o wire), taken, written)
  BY DEF IInv, InPlace
<1>2. taken \in 0..Len(written) /\ Len(written) \in Nat
  BY <1>1, StreamTypes DEF IInv, Framed
<1>3. CellsOfFirst(written, taken) \subseteq CellsOfFirst(written, Len(written))
  BY <1>2 DEF CellsOfFirst
<1>4. QED
  BY <1>3, FS_Subset, FS_CardinalityType DEF IInv, Tally, Size

-----------------------------------------------------------------------------
(* The steps *)

LEMMA RoundKeeps ==
  ASSUME IInv, Round
  PROVE  IInv'
<1>1. /\ Reads' /\ Flags'
      /\ UNCHANGED <<pc, header, buffer, wire_bytes, taken, out, torn>>
  BY DEF IInv, Round, Reads, Flags, locals, socket, history
<1>2. /\ next' \in Nat /\ since' \in Nat
      /\ (written' = written /\ wire' = wire) \/ Writing(written', wire')
  BY NodeWrites, Constants DEF Round, IInv, Streams
<1>3. Front' = Front /\ Within' = Within
  BY <1>1 DEF Front, Within
<1>4. CASE written' = written /\ wire' = wire
  <2>1. Streams' /\ Tally' /\ Answers'
    BY <1>1, <1>2, <1>3, <1>4 DEF IInv, Streams, Tally, Size, Answers, Pongs, Pings
  <2>2. InPlace'
    BY <1>1, <1>3, <1>4 DEF IInv, InPlace, HeaderOf
  <2>3. QED
    BY <1>1, <2>1, <2>2 DEF IInv
<1>5. CASE Writing(written', wire')
  <2>1. PICK frame \in Frames :
          /\ frame.codec # "zstd" => frame.kind = "Data"
          /\ written' = Append(written, frame)
          /\ wire' = wire \o CellsOf(Len(written) + 1, frame)
    BY <1>5 DEF Writing
  <2> DEFINE cells == CellsOf(Len(written) + 1, frame)
             K == FrameCells(written')
             m == Len(written)
  <2>2. /\ written \in Seq(Frames) /\ m \in Nat
        /\ written' \in Seq(Frames) /\ Len(written') = m + 1
        /\ FrameCells(written) \subseteq K /\ cells \in Seq(K)
    BY <2>1, LenProperties, FrameAdded, Constants DEF IInv, Streams
  <2>3. (\A i \in 1..m : written'[i] = written[i]) /\ written'[m + 1] = frame
    BY <2>1, <2>2, AppendProperties
  <2>4. wire \in Seq(K) /\ buffer \in Seq(K)
    BY <2>2, SeqMonotonic DEF IInv, Streams
  <2>5. wire' \in Seq(K) /\ Len(wire') = Len(wire) + Len(cells)
    BY <2>1, <2>2, <2>4, ConcatProperties
  <2>6. cells \in Seq(Cells) /\ Len(cells) = Extent(frame) /\ Extent(frame) \in Nat
    BY <2>2, CellsOfProperties, ExtentType, Constants
  <2> HIDE DEF cells, m
  <2>7. Streams'
    <3>1. \A i \in 1..(m + 1) : written'[i].codec # "zstd" => written'[i].kind = "Data"
      BY <2>1, <2>2, <2>3 DEF IInv, Streams, m
    <3>2. QED
      BY <1>1, <1>2, <2>2, <2>4, <2>5, <3>1 DEF IInv, Streams
  <2>8. ASSUME ~torn
        PROVE  taken \in 0..m /\ (pc = "payload" => taken + 1 \in 1..m)
    <3>1. Framed(Front \o (buffer \o wire), taken, written)
      BY <2>8 DEF IInv, InPlace
    <3>2. taken \in 0..m
      BY <3>1 DEF Framed, m
    <3>3. ASSUME pc = "payload"
          PROVE  taken < m
      <4>1. Len(Front \o (buffer \o wire)) = Len(Front) + Len(buffer \o wire)
        BY FrontType, StreamTypes, ConcatProperties DEF IInv
      <4>2. Len(buffer \o wire) = Len(buffer) + Len(wire)
        BY StreamTypes, ConcatProperties DEF IInv
      <4>3. Len(Front \o (buffer \o wire)) > 0
        BY <3>3, <4>1, <4>2, FrontType, StreamTypes, Constants DEF IInv, Within
      <4>4. QED
        BY <3>1, <4>3 DEF Framed, m
    <3>4. QED
      BY <2>2, <3>2, <3>3
  <2>9. InPlace'
    <3> SUFFICES ASSUME ~torn
                 PROVE  /\ Framed(Front \o (buffer \o wire'), taken, written')
                        /\ pc = "payload" => header = HeaderOf(taken + 1)'
      BY <1>1, <1>3 DEF InPlace, HeaderOf
    <3>1. Framed((Front \o (buffer \o wire)) \o cells, taken, Append(written, frame))
      BY FramedWritten, Constants DEF IInv, InPlace, cells, m
    <3>2. (Front \o (buffer \o wire)) \o cells = Front \o (buffer \o wire')
      <4>1. /\ Front \in Seq(Cells) /\ buffer \in Seq(Cells) /\ wire \in Seq(Cells)
            /\ buffer \o wire \in Seq(Cells)
        BY FrontType, StreamTypes, ConcatProperties DEF IInv
      <4>2. ASSUME NEW r \in Seq(Cells)
            PROVE  (Front \o r) \o cells = Front \o (r \o cells)
        BY SMTT(30), <2>6, <4>1, <4>2, ConcatAssociative
      <4>3. (buffer \o wire) \o cells = buffer \o (wire \o cells)
        BY <2>6, <4>1, ConcatAssociative
      <4>4. wire' = wire \o cells
        BY <2>1 DEF cells, m
      <4>5. QED
        BY <4>1, <4>2, <4>3, <4>4
    <3>3. ASSUME pc = "payload"
          PROVE  header = HeaderOf(taken + 1)'
      <4>1. header = HeaderOf(taken + 1) /\ taken + 1 \in 1..m
        BY <2>8, <3>3 DEF IInv, InPlace
      <4>2. written'[taken + 1] = written[taken + 1]
        BY <2>3, <4>1
      <4>3. QED
        BY <1>1, <4>1, <4>2 DEF HeaderOf
    <3>4. QED
      BY <2>1, <3>1, <3>2, <3>3
  <2>10. Tally'
    <3>1. /\ CellsOfFirst(written', m) = CellsOfFirst(written, m)
          /\ ~torn => CellsOfFirst(written', taken) = CellsOfFirst(written, taken)
      <4>1. m <= Len(written)
        BY <2>2 DEF m
      <4>2. ~torn => taken \in Nat /\ taken <= Len(written)
        BY <2>8 DEF m
      <4>3. QED
        BY <2>1, <2>2, <4>1, <4>2, FirstKept
    <3>2. IsFiniteSet(CellsOfFirst(written', m))
      BY <3>1 DEF IInv, Tally, m
    <3>3. m + 1 <= Len(written')
      BY <2>2
    <3>4. /\ IsFiniteSet(CellsOfFirst(written', m + 1))
          /\ Cardinality(CellsOfFirst(written', m)) \in Nat
          /\ Cardinality(CellsOfFirst(written', m + 1))
               = Cardinality(CellsOfFirst(written', m)) + Extent(written'[m + 1])
      BY <2>2, <3>2, <3>3, OneMore, Constants
    <3>5. wire_bytes + Len(wire) = Cardinality(CellsOfFirst(written', m))
      BY <3>1 DEF IInv, Tally, Size, m
    <3>6. wire_bytes \in Nat /\ Len(wire) \in Nat
      BY StreamTypes DEF IInv, Streams
    <3>7. wire_bytes + Len(wire') = Cardinality(CellsOfFirst(written', m + 1))
      BY <2>3, <2>5, <2>6, <3>4, <3>5, <3>6
    <3>8. ~torn => wire_bytes = Cardinality(CellsOfFirst(written', taken)) + Within + Len(buffer)
      BY <3>1 DEF IInv, Tally, Size
    <3>9. QED
      BY <1>1, <1>3, <2>2, <3>4, <3>7, <3>8 DEF Tally, Size
  <2>11. Answers'
    <3>1. ~torn => Pings' = Pings
      BY <1>1, <2>2, <2>3, <2>8 DEF Pings
    <3>2. Pongs' = Pongs
      BY <1>1 DEF Pongs
    <3>3. QED
      BY <1>1, <3>1, <3>2 DEF IInv, Answers
  <2>12. QED
    BY <1>1, <2>7, <2>9, <2>10, <2>11 DEF IInv
<1>6. QED
  BY <1>2, <1>4, <1>5

(* A read moves bytes from the wire to the buffer and counts them. *)
LEMMA ReceiveKeeps ==
  ASSUME IInv, Receive
  PROVE  IInv'
<1> DEFINE K == FrameCells(written)
<1>1. PICK n \in 1..Chunk :
        /\ n <= Len(wire)
        /\ buffer' = buffer \o SubSeq(wire, 1, n)
        /\ wire' = SubSeq(wire, n + 1, Len(wire))
        /\ wire_bytes' = wire_bytes + n
  BY DEF Receive
<1>2. /\ UNCHANGED <<written, next, since, pc, iterating, result, header, taken, out>>
      /\ UNCHANGED <<closed, shut, ended, broken, torn, cancels>>
      /\ Reading /\ Short
  BY DEF Receive, locals, socket, history
<1>3. /\ n \in Nat \ {0} /\ n \in 0..Len(wire) /\ n <= Chunk
      /\ wire \in Seq(K) /\ buffer \in Seq(K) /\ Len(wire) \in Nat /\ Len(buffer) \in Nat
      /\ wire_bytes \in Nat /\ Limit \in Nat /\ HeaderLen \in Nat /\ Chunk \in Nat
  BY <1>1, StreamTypes, Constants DEF IInv, Streams
<1> HIDE DEF K
<1>4. /\ SubSeq(wire, 1, n) \in Seq(K) /\ Len(SubSeq(wire, 1, n)) = n
      /\ wire' \in Seq(K) /\ Len(wire') = Len(wire) - n
  BY <1>1, <1>3, Parted
<1>5. buffer' \in Seq(K) /\ Len(buffer') = Len(buffer) + n
  BY <1>1, <1>3, <1>4, ConcatProperties
<1>6. buffer' \o wire' = buffer \o wire
  BY <1>1, <1>3, Moving
<1>7. Streams'
  <2>1. wire_bytes' \in Nat
    BY <1>1, <1>3
  <2>2. FrameCells(written)' = K
    BY <1>2 DEF K
  <2>3. QED
    BY <1>2, <1>4, <1>5, <2>1, <2>2 DEF IInv, Streams
<1>8. Reads'
  <2>1. header.size \in 0..Limit
    BY DEF IInv, Reads, Heads
  <2>2. Len(buffer) < HeaderLen + Limit
    BY <1>2, <1>3, <2>1, Constants DEF Short, Need
  <2>3. Len(buffer') < HeaderLen + Limit + Chunk
    BY <1>3, <1>5, <2>2
  <2>4. QED
    BY <1>2, <2>3 DEF IInv, Reads
<1>9. Flags' /\ Answers'
  BY <1>2 DEF IInv, Flags, Answers, Pongs, Pings
<1>10. Front' = Front /\ Within' = Within
  BY <1>2 DEF Front, Within
<1>11. InPlace'
  BY <1>2, <1>6, <1>10 DEF IInv, InPlace, HeaderOf
<1>12. Tally'
  <2>1. wire_bytes' + Len(wire') = wire_bytes + Len(wire)
    <3>1. \A b, w, k \in Nat : (b + k) + (w - k) = b + w
      OBVIOUS
    <3>2. (wire_bytes + n) + (Len(wire) - n) = wire_bytes + Len(wire)
      BY <1>3, <3>1
    <3>3. QED
      BY <1>1, <1>4, <3>2
  <2>2. Size(taken)' = Size(taken) /\ Size(Len(written))' = Size(Len(written))
    BY <1>2 DEF Size
  <2>3. ~torn => wire_bytes' = (Size(taken) + Within + Len(buffer)) + n
    BY <1>1 DEF IInv, Tally
  <2>4. ASSUME ~torn
        PROVE  wire_bytes' = Size(taken) + Within + Len(buffer')
    <3>1. Size(taken) \in Nat
      BY <2>4, SizeType
    <3>2. Within \in Nat
      BY FrontType DEF IInv
    <3>3. QED
      BY <1>3, <1>5, <2>3, <2>4, <3>1, <3>2
  <2>5. QED
    BY <1>2, <1>10, <2>1, <2>2, <2>4 DEF IInv, Tally
<1>13. QED
  BY <1>7, <1>8, <1>9, <1>11, <1>12 DEF IInv

(* What stands at the front, if nothing is torn: the rest of the next frame. *)
LEMMA AtFront ==
  ASSUME IInv, ~torn, Len(Front \o (buffer \o wire)) > 0
  PROVE  /\ taken + 1 \in 1..Len(written) /\ written[taken + 1] \in Frames
         /\ Extent(written[taken + 1]) <= Within + Len(buffer) + Len(wire)
         /\ \A k \in 1..Extent(written[taken + 1]) :
              (Front \o (buffer \o wire))[k] = [frame |-> taken + 1, cell |-> k]
<1> DEFINE s == Front \o (buffer \o wire)
<1>1. Framed(s, taken, written) /\ Len(s) > 0 /\ FeedAssumption
  BY Constants DEF IInv, InPlace
<1>2. Len(s) = Within + Len(buffer) + Len(wire)
  <2>1. /\ Front \in Seq(Cells) /\ Len(Front) = Within /\ Within \in Nat
        /\ buffer \in Seq(Cells) /\ wire \in Seq(Cells)
        /\ Len(buffer) \in Nat /\ Len(wire) \in Nat
    BY FrontType, StreamTypes DEF IInv
  <2>2. buffer \o wire \in Seq(Cells) /\ Len(buffer \o wire) = Len(buffer) + Len(wire)
    BY <2>1, ConcatProperties
  <2>3. ASSUME NEW r \in Seq(Cells)
        PROVE  Len(Front \o r) = Len(Front) + Len(r)
    BY <2>1, <2>3, ConcatProperties
  <2>4. Len(s) = Len(Front) + Len(buffer \o wire)
    BY <2>2, <2>3
  <2>5. QED
    BY <2>1, <2>2, <2>4
<1> HIDE DEF s
<1>3. /\ taken + 1 \in 1..Len(written) /\ written[taken + 1] \in Frames
      /\ Extent(written[taken + 1]) \in 1..Len(s)
      /\ \A k \in 1..Extent(written[taken + 1]) : s[k] = [frame |-> taken + 1, cell |-> k]
  BY <1>1, FramedFront
<1>4. QED
  BY <1>2, <1>3 DEF s

(* The header read is that of the next frame, and leaves the buffer for Front. *)
LEMMA HeaderKeeps ==
  ASSUME IInv, Header
  PROVE  IInv'
<1> DEFINE K == FrameCells(written)
           h == HeaderOf(taken + 1)
           rest == buffer \o wire
<1>1. /\ pc = "header" /\ pc' = "payload" /\ Len(buffer) >= HeaderLen
      /\ buffer' = SubSeq(buffer, HeaderLen + 1, Len(buffer))
      /\ UNCHANGED <<written, wire, next, since, iterating, result, wire_bytes, taken, out>>
      /\ UNCHANGED <<closed, shut, ended, broken, torn, cancels>>
  <2>1. Len(buffer) \in Nat /\ HeaderLen \in Nat
    BY StreamTypes, Constants DEF IInv
  <2>2. QED
    BY <2>1 DEF Header, Short, Need, Behind, feed, socket, history
<1>2. PICK g \in Headers : WithinLimit(g) /\ header' = g
  BY DEF Header
<1>3. /\ buffer \in Seq(K) /\ wire \in Seq(K) /\ Len(buffer) \in Nat /\ HeaderLen \in Nat \ {0}
      /\ HeaderLen \in 0..Len(buffer) /\ Limit \in Nat /\ Chunk \in Nat
      /\ buffer \in Seq(Cells) /\ wire \in Seq(Cells) /\ Len(wire) \in Nat
  BY <1>1, StreamTypes, Constants DEF IInv, Streams
<1>4. header' \in Heads
  <2>1. CASE buffer[1].cell = 1 /\ \A k \in 1..HeaderLen : buffer[k].frame = buffer[1].frame
    <3>1. buffer[1] \in K
      BY <1>1, <1>3, ElementOfSeq
    <3>2. buffer[1].frame \in 1..Len(written) /\ buffer[1].frame \in Nat
      BY <3>1 DEF FrameCells, Cells
    <3>3. written[buffer[1].frame] \in Frames
      BY <3>2, ElementOfSeq DEF IInv, Streams
    <3>4. g = [frame |-> buffer[1].frame, kind |-> written[buffer[1].frame].kind,
               size |-> written[buffer[1].frame].size,
               codec |-> written[buffer[1].frame].codec]
      BY <1>2, <2>1 DEF Headers
    <3>5. written[buffer[1].frame].size \in 0..Limit
      BY <1>2, <1>3, <3>3, <3>4 DEF WithinLimit, Frames
    <3>6. QED
      BY <1>2, <3>2, <3>3, <3>4, <3>5 DEF Heads, Frames
  <2>2. CASE ~(buffer[1].cell = 1 /\ \A k \in 1..HeaderLen : buffer[k].frame = buffer[1].frame)
    <3>1. PICK size \in Sizes \cup {Long} : g = [None EXCEPT !.size = size]
      BY <1>2, <2>2 DEF Headers
    <3>2. g = [frame |-> 0, kind |-> "Data", size |-> size, codec |-> "zstd"]
      BY <3>1 DEF None
    <3>3. size \in 0..Limit
      BY <1>2, <1>3, <3>2, Constants DEF WithinLimit
    <3>4. QED
      BY <1>2, <3>2, <3>3 DEF Heads, Kinds
  <2>3. QED
    BY <2>1, <2>2
<1> HIDE DEF K
<1>5. /\ buffer' \in Seq(K) /\ Len(buffer') = Len(buffer) - HeaderLen
  BY <1>1, <1>3, Parted
<1>6. Streams'
  <2>1. FrameCells(written)' = K
    BY <1>1 DEF K
  <2>2. QED
    BY <1>1, <1>3, <1>5, <2>1 DEF IInv, Streams
<1>7. Reads'
  <2>1. Len(buffer') < HeaderLen + Limit + Chunk
    BY <1>3, <1>5 DEF IInv, Reads
  <2>2. QED
    BY <1>1, <1>4, <2>1 DEF Reads
<1>8. Flags' /\ Answers'
  BY <1>1 DEF IInv, Flags, Answers, Pongs, Pings
<1>9. ASSUME ~torn
      PROVE  /\ Front' \o (buffer' \o wire') = Front \o (buffer \o wire)
             /\ header' = HeaderOf(taken + 1)
  <2>1. Front \o rest = rest
    BY <1>1, NoFront DEF IInv
  <2>2. /\ rest \in Seq(Cells) /\ Len(rest) = Len(buffer) + Len(wire)
        /\ \A k \in 1..(Len(buffer) + Len(wire)) :
             rest[k] = IF k <= Len(buffer) THEN buffer[k] ELSE wire[k - Len(buffer)]
    BY <1>3, ConcatProperties
  <2>3. Len(Front \o rest) > 0
    BY <1>1, <1>3, <2>1, <2>2
  <2>4. /\ taken + 1 \in 1..Len(written) /\ written[taken + 1] \in Frames
        /\ \A k \in 1..Extent(written[taken + 1]) : rest[k] = [frame |-> taken + 1, cell |-> k]
    BY <1>9, <2>1, <2>3, AtFront
  <2>5. \A k \in 1..HeaderLen :
          /\ k \in 1..Extent(written[taken + 1])
          /\ k \in 1..(Len(buffer) + Len(wire)) /\ k <= Len(buffer)
    BY <1>1, <1>3, <2>4 DEF Extent, Frames
  <2> HIDE DEF rest
  <2>6. \A k \in 1..HeaderLen : buffer[k] = [frame |-> taken + 1, cell |-> k]
    <3> TAKE k \in 1..HeaderLen
    <3>1. rest[k] = buffer[k]
      BY <2>2, <2>5
    <3>2. QED
      BY <2>4, <2>5, <3>1
  <2>7. \A k \in 1..HeaderLen : buffer[k].frame = taken + 1
    <3> TAKE k \in 1..HeaderLen
    <3>1. buffer[k] = [frame |-> taken + 1, cell |-> k]
      BY <2>6
    <3>2. QED
      BY <3>1
  <2>8. buffer[1].cell = 1
    <3>1. buffer[1] = [frame |-> taken + 1, cell |-> 1]
      BY <1>3, <2>6
    <3>2. QED
      BY <3>1
  <2>9. header' = HeaderOf(taken + 1)
    <3>1. buffer[1].frame = taken + 1
      BY <1>3, <2>7
    <3>2. Headers = {HeaderOf(taken + 1)}
      BY <2>7, <2>8, <3>1 DEF Headers, HeaderOf
    <3>3. QED
      BY <1>2, <3>2
  <2>10. Front' \o (buffer' \o wire') = rest
    <3> DEFINE front == SubSeq(buffer, 1, HeaderLen)
    <3>1. /\ front \in Seq(Cells) /\ Len(front) = HeaderLen
          /\ \A i \in 1..HeaderLen : front[i] = buffer[i]
          /\ buffer' \in Seq(Cells) /\ front \o buffer' = buffer
      BY <1>1, <1>3, Parted
    <3>2. front = Front'
      <4> DEFINE f == [k \in 1..HeaderLen |-> [frame |-> taken + 1, cell |-> k]]
      <4>1. Front' = f
        BY <1>1 DEF Front
      <4>2. DOMAIN front = 1..HeaderLen /\ front = [i \in 1..HeaderLen |-> front[i]]
        <5>1. front \in [1..HeaderLen -> Cells]
          BY <3>1, LenProperties
        <5> HIDE DEF front
        <5>2. QED
          BY <5>1
      <4> HIDE DEF front
      <4>3. \A i \in 1..HeaderLen : front[i] = f[i]
        BY <2>6, <3>1
      <4>4. QED
        BY <4>1, <4>2, <4>3
    <3> HIDE DEF front
    <3>3. (front \o buffer') \o wire = front \o (buffer' \o wire)
      <4>1. front \in Seq(Cells) /\ buffer' \in Seq(Cells) /\ wire \in Seq(Cells)
        BY <1>3, <3>1
      <4>2. QED
        BY <4>1, ConcatAssociative
    <3>4. QED
      BY <1>1, <3>1, <3>2, <3>3 DEF rest
  <2>11. QED
    BY <2>1, <2>9, <2>10 DEF rest
<1>10. InPlace'
  <2> SUFFICES ASSUME ~torn
               PROVE  /\ Framed(Front' \o (buffer' \o wire'), taken, written)
                      /\ header' = HeaderOf(taken + 1)
    BY <1>1 DEF InPlace, HeaderOf
  <2>1. Framed(Front \o (buffer \o wire), taken, written)
    BY DEF IInv, InPlace
  <2>2. QED
    BY <1>9, <2>1
<1>11. Tally'
  <2>1. Within = 0 /\ Within' = HeaderLen
    BY <1>1 DEF Within
  <2>2. Size(taken)' = Size(taken) /\ Size(Len(written))' = Size(Len(written))
    BY <1>1 DEF Size
  <2>3. ASSUME ~torn
        PROVE  wire_bytes = Size(taken) + HeaderLen + Len(buffer')
    <3>1. wire_bytes = Size(taken) + 0 + Len(buffer)
      BY <2>1, <2>3 DEF IInv, Tally
    <3>2. Size(taken) \in Nat
      BY <2>3, SizeType DEF IInv
    <3>3. QED
      BY <1>3, <1>5, <3>1, <3>2
  <2>4. QED
    BY <1>1, <2>1, <2>2, <2>3 DEF IInv, Tally
<1>12. QED
  BY <1>6, <1>7, <1>8, <1>10, <1>11 DEF IInv

(* A frame taken leaves its payload's bytes behind it, and is the next one. *)
LEMMA TakeKeeps ==
  ASSUME IInv, Take
  PROVE  IInv'
<1> DEFINE K == FrameCells(written)
           e == header.size
           rest == buffer \o wire
<1>1. /\ pc = "payload" /\ Len(buffer) >= e
      /\ pc' \in {"idle", "ponging"} /\ taken' = taken + 1
      /\ buffer' = SubSeq(buffer, e + 1, Len(buffer))
      /\ UNCHANGED <<written, wire, next, since, wire_bytes>>
      /\ UNCHANGED <<closed, shut, ended, broken, torn, cancels>>
  <2>1. Len(buffer) \in Nat /\ e \in Nat
    BY StreamTypes, Constants DEF IInv, Reads, Heads
  <2>2. QED
    BY <2>1 DEF Take, Short, Need, Behind, Return, feed, socket, history
<1>2. /\ buffer \in Seq(K) /\ wire \in Seq(K) /\ Len(buffer) \in Nat /\ Len(wire) \in Nat
      /\ e \in 0..Limit /\ e \in Nat /\ e \in 0..Len(buffer)
      /\ HeaderLen \in Nat /\ Limit \in Nat /\ Chunk \in Nat
      /\ buffer \in Seq(Cells) /\ wire \in Seq(Cells)
      /\ taken \in Nat
  BY <1>1, StreamTypes, Constants DEF IInv, Streams, Reads, Heads
<1>3. /\ iterating' \in BOOLEAN /\ header' \in Heads
      /\ result' \in {"nothing", "event", "TransportError", "ServerError", "ProtocolError",
                      "OSError", "cancelled", "over"}
  <2>1. CASE header.codec = "zstd" /\ header.kind = "Ping"
    BY <2>1 DEF Take, IInv, Flags, Reads, locals
  <2>2. CASE ~(header.codec = "zstd" /\ header.kind = "Ping")
    <3>1. PICK what \in {"event", "ServerError", "ProtocolError"} : Return(what)
      BY <2>2 DEF Take
    <3>2. QED
      BY <3>1, ReturnTypes
  <2>3. QED
    BY <2>1, <2>2
<1>4. /\ out' \in Seq({"Pong", "SetFilter", "Ping"})
      /\ Cardinality(Pongs')
           = Cardinality(Pongs)
               + IF header.codec = "zstd" /\ header.kind = "Ping" THEN 1 ELSE 0
  <2>1. CASE header.codec = "zstd" /\ header.kind = "Ping"
    <3>1. out' = Append(out, "Pong")
      BY <2>1 DEF Take, Answered
    <3>2. QED
      BY <2>1, <3>1, OutGrows DEF IInv
  <2>2. CASE ~(header.codec = "zstd" /\ header.kind = "Ping")
    <3>1. out' = out
      BY <2>2 DEF Take
    <3>2. Pongs' = Pongs
      BY <3>1 DEF Pongs
    <3>3. QED
      BY <2>2, <3>1, <3>2, Finite DEF IInv, Flags
  <2>3. QED
    BY <2>1, <2>2
<1>5. Flags'
  BY <1>1, <1>3, <1>4 DEF IInv, Flags
<1> HIDE DEF K, e
<1>6. /\ buffer' \in Seq(K) /\ buffer' \in Seq(Cells) /\ Len(buffer') = Len(buffer) - e
  BY <1>1, <1>2, Parted
<1>7. Streams'
  <2>1. FrameCells(written)' = K /\ taken' \in Nat
    BY <1>1, <1>2 DEF K
  <2>2. QED
    BY <1>1, <1>2, <1>6, <2>1 DEF IInv, Streams
<1>8. Reads'
  <2>1. Len(buffer') < HeaderLen + Limit + Chunk
    BY <1>2, <1>6 DEF IInv, Reads
  <2>2. QED
    BY <1>1, <1>3, <2>1 DEF Reads
<1>9. ASSUME ~torn
      PROVE  /\ taken + 1 \in 1..Len(written) /\ written[taken + 1] \in Frames
             /\ header = HeaderOf(taken + 1)
             /\ Extent(written[taken + 1]) = HeaderLen + e
             /\ Framed(Front' \o (buffer' \o wire'), taken + 1, written)
  <2>1. header = HeaderOf(taken + 1) /\ Framed(Front \o rest, taken, written)
    BY <1>1, <1>9 DEF IInv, InPlace
  <2>2. /\ Front \in Seq(Cells) /\ Len(Front) = HeaderLen
        /\ rest \in Seq(Cells) /\ Len(rest) = Len(buffer) + Len(wire)
    BY <1>1, <1>2, FrontType, ConcatProperties DEF IInv, Within
  <2> DEFINE s == Front \o rest
  <2>3. s \in Seq(Cells) /\ Len(s) = HeaderLen + Len(rest)
    <3>1. ASSUME NEW r \in Seq(Cells)
          PROVE  Front \o r \in Seq(Cells) /\ Len(Front \o r) = Len(Front) + Len(r)
      BY <2>2, <3>1, ConcatProperties
    <3>2. QED
      BY <2>2, <3>1
  <2>4. Len(s) > 0
    BY <1>2, <2>2, <2>3, Constants
  <2>5. taken + 1 \in 1..Len(written) /\ written[taken + 1] \in Frames
    BY <1>9, <2>4, AtFront
  <2>6. Extent(written[taken + 1]) = HeaderLen + e
    <3>1. header.size = written[taken + 1].size
      BY <2>1 DEF HeaderOf
    <3>2. QED
      BY <3>1 DEF Extent, e
  <2>7. Framed(SubSeq(s, HeaderLen + e + 1, Len(s)), taken + 1, written)
    <3>1. Framed(SubSeq(s, Extent(written[taken + 1]) + 1, Len(s)), taken + 1, written)
      <4>1. Framed(s, taken, written) /\ FeedAssumption
        BY <2>1, Constants
      <4> HIDE DEF s
      <4>2. QED
        BY <2>4, <4>1, FramedTaken
    <3>2. QED
      BY <2>6, <3>1
  <2>8. SubSeq(s, HeaderLen + e + 1, Len(s)) = buffer' \o wire
    <3>1. ASSUME NEW r \in Seq(Cells), e <= Len(r)
          PROVE  SubSeq(Front \o r, HeaderLen + e + 1, Len(Front \o r))
                   = SubSeq(r, e + 1, Len(r))
      <4>1. e \in 0..Len(r)
        BY <1>2, <3>1, LenProperties
      <4>2. SubSeq(Front \o r, Len(Front) + e + 1, Len(Front \o r)) = SubSeq(r, e + 1, Len(r))
        BY <2>2, <3>1, <4>1, CutBehind
      <4>3. QED
        BY <2>2, <4>2
    <3>2. SubSeq(rest, e + 1, Len(rest)) = buffer' \o wire
      BY <1>1, <1>2, CutInside
    <3>3. e <= Len(rest)
      BY <1>2, <2>2
    <3>4. SubSeq(s, HeaderLen + e + 1, Len(s)) = SubSeq(rest, e + 1, Len(rest))
      BY <2>2, <3>1, <3>3
    <3>5. QED
      BY <3>2, <3>4
  <2>9. Front' \o (buffer' \o wire') = buffer' \o wire
    <3>1. Front' = <<>> /\ wire' = wire
      BY <1>1 DEF Front
    <3>2. buffer' \o wire \in Seq(Cells)
      BY <1>2, <1>6, ConcatProperties
    <3>3. QED
      BY <3>1, <3>2, ConcatEmptySeq
  <2>10. QED
    BY <2>1, <2>5, <2>6, <2>7, <2>8, <2>9
<1>10. InPlace'
  <2>1. ~torn => Framed(Front' \o (buffer' \o wire'), taken', written')
    BY <1>1, <1>9
  <2>2. torn' = torn /\ pc' # "payload"
    BY <1>1
  <2>3. QED
    BY <2>1, <2>2 DEF InPlace
<1>11. Tally'
  <2>1. Within = HeaderLen /\ Within' = 0
    BY <1>1 DEF Within
  <2>2. Size(Len(written))' = Size(Len(written))
    BY <1>1 DEF Size
  <2>3. ASSUME ~torn
        PROVE  wire_bytes = Size(taken + 1) + 0 + Len(buffer')
    <3>1. wire_bytes = Size(taken) + HeaderLen + Len(buffer)
      BY <2>1, <2>3 DEF IInv, Tally
    <3>2. Size(taken) \in Nat /\ IsFiniteSet(CellsOfFirst(written, taken))
      BY <2>3, SizeType
    <3>3. Size(taken + 1) = Size(taken) + Extent(written[taken + 1])
      <4>1. taken + 1 <= Len(written) /\ written \in Seq(Frames)
        BY <1>9, <2>3 DEF IInv, Streams
      <4>2. QED
        BY <1>2, <3>2, <4>1, OneMore, Constants DEF Size
    <3>4. Extent(written[taken + 1]) = HeaderLen + e
      BY <1>9, <2>3
    <3>5. QED
      BY <1>2, <1>6, <3>1, <3>2, <3>3, <3>4
  <2>4. Size(taken)' = Size(taken + 1)
    BY <1>1 DEF Size
  <2>5. QED
    BY <1>1, <2>1, <2>2, <2>3, <2>4 DEF IInv, Tally
<1>12. Answers'
  <2> SUFFICES ASSUME ~torn
               PROVE  Cardinality(Pongs') = Cardinality(Pings')
    BY <1>1 DEF Answers
  <2>1. /\ taken + 1 \in 1..Len(written)
        /\ header.kind = written[taken + 1].kind /\ header.codec = written[taken + 1].codec
    BY <1>9 DEF HeaderOf
  <2>2. header.codec # "zstd" => header.kind = "Data"
    BY <2>1 DEF IInv, Streams
  <2>3. Pings' = {i \in 1..(taken + 1) : written[i].kind = "Ping"}
    BY <1>1 DEF Pings
  <2>4. taken + 1 \notin Pings
    BY <1>2 DEF Pings
  <2>5. CASE header.kind = "Ping"
    <3>1. Pings' = Pings \cup {taken + 1}
      <4>1. 1..(taken + 1) = 1..taken \cup {taken + 1}
        BY <1>2
      <4>2. written[taken + 1].kind = "Ping"
        BY <2>1, <2>5
      <4>3. QED
        BY <2>3, <4>1, <4>2 DEF Pings
    <3>2. Cardinality(Pings') = Cardinality(Pings) + 1
      BY <2>4, <3>1, Finite, FS_AddElement DEF IInv
    <3>3. QED
      BY <1>4, <2>2, <2>5, <3>2 DEF IInv, Answers
  <2>6. CASE header.kind # "Ping"
    <3>1. Pings' = Pings
      BY <1>2, <2>1, <2>3, <2>6 DEF Pings
    <3>2. Cardinality(Pongs') = Cardinality(Pongs) + 0
      BY <1>4, <2>6
    <3>3. QED
      BY <3>1, <3>2, Finite DEF IInv, Answers
  <2>7. QED
    BY <2>5, <2>6
<1>13. QED
  BY <1>5, <1>7, <1>8, <1>10, <1>11, <1>12 DEF IInv

LEMMA CallKeeps ==
  ASSUME IInv, Call
  PROVE  IInv'
<1>1. /\ pc = "idle" /\ pc' \in {"idle", "header"} /\ iterating' \in BOOLEAN
      /\ result' \in {"over", "nothing"}
      /\ UNCHANGED <<feed, header, buffer, wire_bytes, taken, out>>
      /\ UNCHANGED <<closed, shut, ended, broken, torn, cancels>>
  BY DEF Call, socket, history
<1>2. Streams' /\ InPlace' /\ Tally' /\ Answers'
  BY <1>1, PlaceKept, AnswersKept
<1>3. Reads' /\ Flags'
  BY <1>1 DEF IInv, Reads, Flags
<1>4. QED
  BY <1>2, <1>3 DEF IInv

(* A call that ends without taking anything: one that fails, is cancelled, or comes
   back from its Pong. *)
Ends(what) ==
  /\ Return(what)
  /\ UNCHANGED <<feed, buffer, wire_bytes, taken, out>>
  /\ torn' = (torn \/ pc = "payload")
  /\ closed' = closed /\ shut' = shut /\ broken' = broken
  /\ ended' \in BOOLEAN /\ cancels' \in 0..MaxCancels

LEMMA EndsKeeps ==
  ASSUME IInv, NEW what, Ends(what),
         what \in {"event", "TransportError", "ServerError", "ProtocolError", "OSError",
                   "cancelled"}
  PROVE  IInv'
<1>1. /\ pc' = "idle" /\ header' \in Heads /\ iterating' \in BOOLEAN
      /\ result' \in {"nothing", "event", "TransportError", "ServerError", "ProtocolError",
                      "OSError", "cancelled", "over"}
  BY ReturnTypes DEF Ends
<1>2. /\ UNCHANGED <<feed, buffer, wire_bytes, taken, out>>
      /\ torn \in BOOLEAN /\ torn' \in BOOLEAN
      /\ ~torn' => ~torn /\ pc # "payload"
  BY DEF Ends, IInv, Flags
<1>3. Streams' /\ InPlace' /\ Tally'
  BY <1>1, <1>2, PlaceKept
<1>4. Answers'
  BY <1>2, AnswersKept
<1>5. Reads' /\ Flags'
  BY <1>1, <1>2 DEF IInv, Reads, Flags, Ends
<1>6. QED
  BY <1>3, <1>4, <1>5 DEF IInv

LEMMA FailuresKeep ==
  ASSUME IInv, TooLarge \/ AtEnd \/ ReadFails \/ Ponged \/ PongFails \/ Cancel
  PROVE  IInv'
<1>1. /\ closed \in BOOLEAN /\ ended \in BOOLEAN /\ torn \in BOOLEAN
      /\ cancels \in 0..MaxCancels /\ MaxCancels \in Nat
  BY Constants DEF IInv, Flags
<1>2. CASE TooLarge
  <2>1. Ends("ProtocolError")
    BY <1>1, <1>2 DEF TooLarge, Ends, socket, history
  <2>2. QED
    BY <2>1, EndsKeeps
<1>3. CASE AtEnd
  <2>1. Ends("TransportError")
    BY <1>1, <1>3 DEF AtEnd, Abandon, Ends
  <2>2. QED
    BY <2>1, EndsKeeps
<1>4. CASE ReadFails
  <2>1. Ends("OSError")
    BY <1>1, <1>4 DEF ReadFails, Abandon, Ends, socket
  <2>2. QED
    BY <2>1, EndsKeeps
<1>5. CASE Ponged
  <2>1. Ends("event")
    BY <1>1, <1>5 DEF Ponged, Ends, socket, history
  <2>2. QED
    BY <2>1, EndsKeeps
<1>6. CASE PongFails
  <2>1. Ends("OSError")
    BY <1>1, <1>6 DEF PongFails, Ends, socket, history
  <2>2. QED
    BY <2>1, EndsKeeps
<1>7. CASE Cancel
  <2>1. Ends("cancelled")
    BY <1>1, <1>7 DEF Cancel, Abandon, Ends, socket
  <2>2. QED
    BY <2>1, EndsKeeps
<1>8. QED
  BY <1>2, <1>3, <1>4, <1>5, <1>6, <1>7

(* Another task writes, whatever a call waits for: no Pong. *)
LEMMA SendKeeps ==
  ASSUME IInv, Send
  PROVE  IInv'
<1>1. PICK kind \in {"SetFilter", "Ping"} : out' = Append(out, kind)
  BY DEF Send
<1>2. UNCHANGED <<feed, pc, iterating, result, header, buffer, wire_bytes, taken, closed, shut,
                  ended, broken, torn, cancels>>
  BY DEF Send, locals, socket, history
<1>3. /\ out' \in Seq({"Pong", "SetFilter", "Ping"})
      /\ Cardinality(Pongs') = Cardinality(Pongs) + 0
  BY <1>1, OutGrows DEF IInv
<1>4. Streams' /\ InPlace' /\ Tally'
  BY <1>2, PlaceKept
<1>5. Reads' /\ Flags'
  BY <1>2, <1>3 DEF IInv, Reads, Flags
<1>6. Pings' = Pings
  BY <1>2 DEF Pings, feed
<1>7. Answers'
  BY <1>2, <1>3, <1>6, Finite DEF IInv, Answers
<1>8. QED
  BY <1>4, <1>5, <1>7 DEF IInv

LEMMA SocketKeeps ==
  ASSUME IInv, UNCHANGED <<feed, pc, locals, buffer, wire_bytes, taken, out, history>>,
         closed' \in BOOLEAN, shut' \in BOOLEAN, ended' \in BOOLEAN, broken' \in BOOLEAN
  PROVE  IInv'
<1>1. UNCHANGED <<iterating, result, header, torn, cancels>>
  BY DEF locals, history
<1>2. Streams' /\ InPlace' /\ Tally' /\ Answers'
  BY <1>1, PlaceKept, AnswersKept
<1>3. Reads' /\ Flags'
  BY <1>1 DEF IInv, Reads, Flags
<1>4. QED
  BY <1>2, <1>3 DEF IInv

LEMMA NextKeeps == IInv /\ [Next]_vars => IInv'
<1> SUFFICES ASSUME IInv, [Next]_vars
             PROVE  IInv'
  OBVIOUS
<1>1. closed \in BOOLEAN /\ shut \in BOOLEAN /\ ended \in BOOLEAN /\ broken \in BOOLEAN
  BY DEF IInv, Flags
<1>2. CASE Call
  BY <1>2, CallKeeps
<1>3. CASE Header
  BY <1>3, HeaderKeeps
<1>4. CASE Receive
  BY <1>4, ReceiveKeeps
<1>5. CASE Take
  BY <1>5, TakeKeeps
<1>6. CASE TooLarge \/ AtEnd \/ ReadFails \/ Ponged \/ PongFails \/ Cancel
  BY <1>6, FailuresKeep
<1>7. CASE Send
  BY <1>7, SendKeeps
<1>8. CASE Close
  <2>1. /\ closed' \in BOOLEAN /\ shut' \in BOOLEAN /\ ended' \in BOOLEAN /\ broken' \in BOOLEAN
        /\ UNCHANGED <<feed, pc, locals, buffer, wire_bytes, taken, out, history>>
    BY <1>1, <1>8 DEF Close, Closing
  <2>2. QED
    BY <2>1, SocketKeeps
<1>9. CASE Break
  <2>1. /\ closed' \in BOOLEAN /\ shut' \in BOOLEAN /\ ended' \in BOOLEAN /\ broken' \in BOOLEAN
        /\ UNCHANGED <<feed, pc, locals, buffer, wire_bytes, taken, out, history>>
    BY <1>1, <1>9 DEF Break
  <2>2. QED
    BY <2>1, SocketKeeps
<1>10. CASE Round
  BY <1>10, RoundKeeps
<1>11. CASE UNCHANGED vars
  <2>1. /\ closed' \in BOOLEAN /\ shut' \in BOOLEAN /\ ended' \in BOOLEAN /\ broken' \in BOOLEAN
        /\ UNCHANGED <<feed, pc, locals, buffer, wire_bytes, taken, out, history>>
    BY <1>1, <1>11 DEF vars, socket
  <2>2. QED
    BY <2>1, SocketKeeps
<1>12. QED
  BY <1>2, <1>3, <1>4, <1>5, <1>6, <1>7, <1>8, <1>9, <1>10, <1>11 DEF Next, Reader

LEMMA InitHolds == Init => IInv
<1> SUFFICES ASSUME Init
             PROVE  IInv
  OBVIOUS
<1>1. /\ written = <<>> /\ wire = <<>> /\ buffer = <<>> /\ out = <<>>
      /\ next = 0 /\ since = 0 /\ taken = 0 /\ wire_bytes = 0 /\ pc = "idle"
      /\ header = None /\ torn = FALSE
  BY DEF Init, FeedInit
<1>2. /\ Len(<<>>) = 0 /\ DOMAIN <<>> = 1..0 /\ 1..0 = {}
      /\ \A S : <<>> \in Seq(S)
  BY EmptySeq, LenProperties
<1>3. Streams
  BY <1>1, <1>2 DEF Streams
<1>4. Reads
  <2>1. 0 \in 0..Limit /\ 0 < HeaderLen + Limit + Chunk /\ 0 \in Nat
    BY Constants
  <2>2. None \in Heads
    BY <2>1 DEF None, Heads, Kinds
  <2>3. QED
    BY <1>1, <1>2, <2>1, <2>2 DEF Reads
<1>5. Flags
  <2>1. 0 \in 0..MaxCancels
    BY Constants
  <2>2. out \in Seq({"Pong", "SetFilter", "Ping"})
    BY <1>1, <1>2
  <2>3. QED
    BY <2>1, <2>2 DEF Init, Flags
<1>6. Front = <<>> /\ buffer \o wire = <<>> /\ Front \o (buffer \o wire) = <<>>
  BY <1>1, <1>2, ConcatEmptySeq DEF Front
<1>7. InPlace
  BY <1>1, <1>6, FramedNothing DEF InPlace
<1>8. CellsOfFirst(<<>>, 0) = {} /\ IsFiniteSet({}) /\ Cardinality({}) = 0
  BY <1>2, FS_EmptySet DEF CellsOfFirst
<1>9. Tally
  BY <1>1, <1>2, <1>8 DEF Tally, Size, Within
<1>10. Answers
  BY <1>1, <1>2 DEF Answers, Pongs, Pings
<1>11. QED
  BY <1>3, <1>4, <1>5, <1>7, <1>9, <1>10 DEF IInv

LEMMA Invariance == Spec => []IInv
BY InitHolds, NextKeeps, PTL DEF Spec

-----------------------------------------------------------------------------
(* What the invariant gives *)

(* Every variable of the Python client stays in its range: in particular no call waits
   for a payload past max_message_bytes, and what is read and not taken stays short of
   a frame of that length and a read (client.py:484-512, 524-569). *)
THEOREM TypeCorrect == Spec => []TypeOK
<1>1. IInv => TypeOK
  <2> SUFFICES ASSUME IInv
               PROVE  TypeOK
    OBVIOUS
  <2>1. \A i \in DOMAIN buffer : buffer[i] \in Cells
    BY StreamTypes, ElementOfSeq, LenProperties DEF IInv
  <2>2. header.size \in 0..Limit
    BY DEF IInv, Reads, Heads
  <2>3. QED
    BY <2>1, <2>2 DEF IInv, Streams, Reads, Flags, TypeOK
<1>2. QED
  BY <1>1, Invariance, PTL

(* Whatever the next byte belongs to, it is the first of the frame's header or payload
   a call takes it for. *)
LEMMA NextByte ==
  ASSUME IInv, ~torn, buffer \o wire # <<>>
  PROVE  \/ (buffer \o wire)[1] = [frame |-> taken + 1, cell |-> Within + 1]
         \/ /\ pc = "payload" /\ header.size = 0
            /\ (buffer \o wire)[1] = [frame |-> taken + 2, cell |-> 1]
<1> DEFINE rest == buffer \o wire
           s == Front \o rest
<1>1. /\ Front \in Seq(Cells) /\ Len(Front) = Within /\ Within \in Nat
      /\ rest \in Seq(Cells) /\ Len(rest) \in Nat
      /\ \A k \in 1..Len(Front) : Front[k] = [frame |-> taken + 1, cell |-> k]
  BY FrontType, StreamTypes, ConcatProperties, LenProperties DEF IInv
<1>2. Framed(s, taken, written)
  BY DEF IInv, InPlace
<1>3. Len(rest) > 0
  <2>1. rest # <<>>
    OBVIOUS
  <2> HIDE DEF rest
  <2>2. QED
    BY <1>1, <2>1, EmptySeq
<1> HIDE DEF rest
<1>4. /\ s \in Seq(Cells) /\ Len(s) = Within + Len(rest)
      /\ \A k \in 1..(Within + Len(rest)) :
           s[k] = IF k <= Within THEN Front[k] ELSE rest[k - Within]
  BY <1>1, ConcatProperties
<1>5. Len(s) > 0 /\ s[Within + 1] = rest[1]
  <2>1. Within + 1 \in 1..(Within + Len(rest)) /\ ~(Within + 1 <= Within) /\ Within + 1 - Within = 1
    BY <1>1, <1>3
  <2>2. QED
    BY <1>1, <1>3, <1>4, <2>1
<1>6. /\ taken + 1 \in 1..Len(written) /\ written[taken + 1] \in Frames
      /\ \A k \in 1..Extent(written[taken + 1]) : s[k] = [frame |-> taken + 1, cell |-> k]
  BY <1>5, AtFront DEF rest
<1>7. /\ Extent(written[taken + 1]) = HeaderLen + written[taken + 1].size
      /\ HeaderLen \in Nat \ {0} /\ written[taken + 1].size \in Nat
  BY <1>6, Constants DEF Extent, Frames
<1>8. CASE pc # "payload"
  <2>1. Within = 0
    BY <1>8 DEF Within
  <2>2. 1 \in 1..Extent(written[taken + 1])
    BY <1>7
  <2>3. QED
    BY <1>5, <1>6, <2>1, <2>2 DEF rest
<1>9. CASE pc = "payload"
  <2>1. Within = HeaderLen /\ header.size = written[taken + 1].size
    BY <1>9 DEF Within, IInv, InPlace, HeaderOf
  <2>2. CASE header.size > 0
    <3>1. Within + 1 \in 1..Extent(written[taken + 1])
      BY <1>7, <2>1, <2>2
    <3>2. QED
      BY <1>5, <1>6, <3>1 DEF rest
  <2>3. CASE ~(header.size > 0)
    <3>1. header.size = 0 /\ Extent(written[taken + 1]) = HeaderLen
      BY <1>7, <2>1, <2>3
    <3>2. s[HeaderLen] = [frame |-> taken + 1, cell |-> HeaderLen]
      <4>1. HeaderLen \in 1..Extent(written[taken + 1])
        BY <1>7, <3>1
      <4> HIDE DEF s
      <4>2. QED
        BY <1>6, <4>1
    <3>3. s[HeaderLen].frame = taken + 1 /\ s[HeaderLen].cell = HeaderLen
      BY <3>2
    <3>4. HeaderLen \in 1..(Len(s) - 1)
      BY <1>1, <1>3, <1>4, <1>7, <2>1
    <3>5. s[HeaderLen + 1] = [frame |-> taken + 1 + 1, cell |-> 1]
      <4>1. CellsFollow(s, written)
        BY <1>2 DEF Framed
      <4> HIDE DEF s
      <4>2. QED
        BY <3>1, <3>3, <3>4, <4>1 DEF CellsFollow
    <3>6. taken + 1 + 1 = taken + 2
      BY DEF IInv, Streams
    <3>7. QED
      BY <1>5, <1>9, <2>1, <3>1, <3>5, <3>6 DEF rest
  <2>4. QED
    BY <2>2, <2>3
<1>10. QED
  BY <1>8, <1>9

(* The calls of the Python client stay in step with the frames, whatever they wait for
   when they are cancelled, until one ends between a header and its payload; wire_bytes
   counts each byte once even then (client.py:484-512, 529-531). *)
THEOREM StaysInStep == Spec => []InStep
<1>1. IInv => InStep
  <2> SUFFICES ASSUME IInv
               PROVE  InStep
    OBVIOUS
  <2>1. wire_bytes + Len(wire) = Size(Len(written))
    BY DEF IInv, Tally
  <2>2. ~torn => wire_bytes = Size(taken) + Within + Len(buffer)
    BY DEF IInv, Tally
  <2>3. ~torn /\ pc = "payload" => header.frame = taken + 1
    BY DEF IInv, InPlace, HeaderOf
  <2>4. QED
    BY <2>1, <2>2, <2>3, NextByte DEF InStep, Within
<1>2. QED
  BY <1>1, Invariance, PTL

(* Until a call ends between a header and its payload, every Ping the Python client
   takes is answered by one Pong, also where the call is cancelled or the client closed
   while the Pong drains (client.py:554-556, transport.py:138-140). *)
THEOREM AnswersPings == Spec => []PingsAnswered
<1>1. IInv => PingsAnswered
  BY DEF IInv, Answers, Pongs, Pings, PingsAnswered
<1>2. QED
  BY <1>1, Invariance, PTL

=============================================================================
