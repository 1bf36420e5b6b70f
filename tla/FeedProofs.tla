------------------------------ MODULE FeedProofs ------------------------------
(***************************************************************************)
(* What the bytes of whole frames have in common, however long the frames  *)
(* are: a stretch that starts with a frame and ends with one stays such a  *)
(* stretch when a frame is written behind it, and when the frame in front  *)
(* is taken.  Every client of Feed keeps its place in the stream by this.  *)
(***************************************************************************)
EXTENDS Feed, SequenceTheorems, FiniteSetTheorems, TLAPS

Extent(frame) == HeaderLen + frame.size

(* Every cell is of a frame not yet taken. *)
CellsInside(s, n, w) ==
  \A j \in 1..Len(s) : s[j].frame \in (n + 1)..Len(w) /\ s[j].cell \in 1..Extent(w[s[j].frame])

(* Around every cell is the whole of its frame. *)
CellsTogether(s, w) ==
  \A j \in 1..Len(s) : \A k \in 1..Extent(w[s[j].frame]) :
    /\ j - s[j].cell + k \in 1..Len(s)
    /\ s[j - s[j].cell + k] = [frame |-> s[j].frame, cell |-> k]

(* A frame's last cell is followed by the first of the next frame. *)
CellsFollow(s, w) ==
  \A j \in 1..(Len(s) - 1) :
    s[j].cell = Extent(w[s[j].frame]) => s[j + 1] = [frame |-> s[j].frame + 1, cell |-> 1]

(* No cell is there twice. *)
CellsOnce(s) == \A i, j \in 1..Len(s) : s[i] = s[j] => i = j

(* The cells of s are those of the frames of w after the first n. *)
Framed(s, n, w) ==
  /\ s \in Seq(Cells) /\ w \in Seq(Frames) /\ n \in 0..Len(w)
  /\ Len(s) = 0 => n = Len(w)
  /\ Len(s) > 0 => /\ n < Len(w)
                   /\ s[1] = [frame |-> n + 1, cell |-> 1]
                   /\ s[Len(s)] = [frame |-> Len(w), cell |-> Extent(w[Len(w)])]
  /\ CellsInside(s, n, w)
  /\ CellsTogether(s, w)
  /\ CellsFollow(s, w)
  /\ CellsOnce(s)

LEMMA ExtentType ==
  ASSUME FeedAssumption, NEW f \in Frames
  PROVE  Extent(f) \in Nat \ {0}
BY DEF FeedAssumption, Frames, Extent

LEMMA FramedNothing == Framed(<<>>, 0, <<>>)
<1>1. /\ <<>> \in Seq(Cells) /\ <<>> \in Seq(Frames)
      /\ Len(<<>>) = 0
  BY EmptySeq
<1>2. QED
  BY <1>1 DEF Framed, CellsInside, CellsTogether, CellsFollow, CellsOnce

LEMMA CellsOfProperties ==
  ASSUME FeedAssumption, NEW f \in Frames, NEW i \in Nat
  PROVE  /\ CellsOf(i, f) \in Seq(Cells)
         /\ Len(CellsOf(i, f)) = Extent(f)
         /\ \A k \in 1..Extent(f) : CellsOf(i, f)[k] = [frame |-> i, cell |-> k]
<1>1. Extent(f) \in Nat
  BY ExtentType
<1>2. CellsOf(i, f) = [k \in 1..Extent(f) |-> [frame |-> i, cell |-> k]]
  BY DEF CellsOf, Extent
<1>3. \A k \in 1..Extent(f) : [frame |-> i, cell |-> k] \in Cells
  BY <1>1 DEF Cells
<1> DEFINE c == [k \in 1..Extent(f) |-> [frame |-> i, cell |-> k]]
<1>4. c \in Seq(Cells) /\ Len(c) = Extent(f)
  BY <1>1, <1>3
<1>5. QED
  BY <1>2, <1>4

(* The node writes a frame. *)
LEMMA FramedWritten ==
  ASSUME FeedAssumption, NEW s, NEW n, NEW w, Framed(s, n, w), NEW f \in Frames
  PROVE  Framed(s \o CellsOf(Len(w) + 1, f), n, Append(w, f))
<1> DEFINE L == Len(s)
           m == Len(w)
           E == Extent(f)
           c == CellsOf(m + 1, f)
           t == s \o c
           v == Append(w, f)
<1>1. s \in Seq(Cells) /\ w \in Seq(Frames) /\ n \in 0..m /\ L \in Nat /\ m \in Nat
  BY LenProperties DEF Framed
<1>2. E \in Nat \ {0}
  BY ExtentType
<1>3. /\ c \in Seq(Cells) /\ Len(c) = E
      /\ \A k \in 1..E : c[k] = [frame |-> m + 1, cell |-> k]
  BY <1>1, CellsOfProperties
<1>4. /\ t \in Seq(Cells) /\ Len(t) = L + E
      /\ \A j \in 1..L : t[j] = s[j]
      /\ \A j \in (L + 1)..(L + E) : t[j] = [frame |-> m + 1, cell |-> j - L]
  <2> HIDE DEF c, E, m
  <2>1. /\ t \in Seq(Cells) /\ Len(t) = L + E
        /\ \A j \in 1..(L + E) : t[j] = IF j <= L THEN s[j] ELSE c[j - L]
    <3>1. s \in Seq(Cells) /\ c \in Seq(Cells) /\ Len(c) = E
      BY <1>1, <1>3
    <3>2. QED
      BY <3>1, ConcatProperties
  <2> HIDE DEF t, L
  <2>2. \A j \in (L + 1)..(L + E) : t[j] = c[j - L] /\ j - L \in 1..E
    BY <1>1, <1>2, <2>1
  <2>3. \A j \in (L + 1)..(L + E) : t[j] = [frame |-> m + 1, cell |-> j - L]
    BY <1>3, <2>2
  <2>4. \A j \in 1..L : t[j] = s[j]
    BY <1>1, <1>2, <2>1
  <2>5. QED
    BY <2>1, <2>3, <2>4
<1>5. /\ v \in Seq(Frames) /\ Len(v) = m + 1
      /\ \A i \in 1..m : v[i] = w[i]
      /\ v[m + 1] = f
  BY <1>1, AppendProperties
<1>6. /\ \A j \in 1..L : s[j].frame \in (n + 1)..m /\ s[j].cell \in 1..Extent(w[s[j].frame])
      /\ \A j \in 1..L : \A k \in 1..Extent(w[s[j].frame]) :
           /\ j - s[j].cell + k \in 1..L
           /\ s[j - s[j].cell + k] = [frame |-> s[j].frame, cell |-> k]
      /\ \A j \in 1..(L - 1) :
           s[j].cell = Extent(w[s[j].frame]) => s[j + 1] = [frame |-> s[j].frame + 1, cell |-> 1]
      /\ \A i, j \in 1..L : s[i] = s[j] => i = j
      /\ L = 0 => n = m
      /\ L > 0 => /\ n < m
                  /\ s[1] = [frame |-> n + 1, cell |-> 1]
                  /\ s[L] = [frame |-> m, cell |-> Extent(w[m])]
  BY DEF Framed, CellsInside, CellsTogether, CellsFollow, CellsOnce
<1> HIDE DEF L, m, E, c, t, v
<1>a. ASSUME NEW j \in (L + 1)..(L + E)
      PROVE  t[j].frame = m + 1 /\ t[j].cell = j - L /\ Extent(v[t[j].frame]) = E
  <2>1. t[j] = [frame |-> m + 1, cell |-> j - L]
    BY <1>4
  <2>2. t[j].frame = m + 1 /\ t[j].cell = j - L
    BY <2>1
  <2>3. Extent(v[m + 1]) = E
    BY <1>5 DEF E
  <2>4. QED
    BY <2>2, <2>3
<1>7. \A j \in 1..L : v[s[j].frame] = w[s[j].frame]
  <2>1. \A j \in 1..L : s[j].frame \in (n + 1)..m
    BY <1>6
  <2>2. \A i \in (n + 1)..m : i \in 1..m
    BY <1>1
  <2>3. QED
    BY <1>5, <2>1, <2>2
<1>8. \A j \in 1..(L + E) : j \in 1..L \/ j \in (L + 1)..(L + E)
  BY <1>1, <1>2
<1>9. CellsInside(t, n, v)
  <2> SUFFICES ASSUME NEW j \in 1..(L + E)
               PROVE  t[j].frame \in (n + 1)..(m + 1) /\ t[j].cell \in 1..Extent(v[t[j].frame])
    BY <1>4, <1>5 DEF CellsInside
  <2>1. CASE j \in 1..L
    <3>1. t[j] = s[j] /\ v[t[j].frame] = w[s[j].frame]
      BY <1>4, <1>7, <2>1
    <3>2. s[j].frame \in (n + 1)..m /\ s[j].cell \in 1..Extent(w[s[j].frame])
      BY <1>6, <2>1
    <3>3. QED
      BY <1>1, <3>1, <3>2
  <2>2. CASE j \in (L + 1)..(L + E)
    <3>1. t[j].frame = m + 1 /\ t[j].cell = j - L /\ Extent(v[t[j].frame]) = E
      BY <1>a, <2>2
    <3>2. QED
      BY <1>1, <1>2, <2>2, <3>1
  <2>3. QED
    BY <1>8, <2>1, <2>2
<1>10. CellsTogether(t, v)
  <2> SUFFICES ASSUME NEW j \in 1..(L + E), NEW k \in 1..Extent(v[t[j].frame])
               PROVE  /\ j - t[j].cell + k \in 1..(L + E)
                      /\ t[j - t[j].cell + k] = [frame |-> t[j].frame, cell |-> k]
    BY <1>4 DEF CellsTogether
  <2>1. CASE j \in 1..L
    <3>1. t[j] = s[j] /\ k \in 1..Extent(w[s[j].frame])
      BY <1>4, <1>7, <2>1
    <3>2. j - s[j].cell + k \in 1..L /\ s[j - s[j].cell + k] = [frame |-> s[j].frame, cell |-> k]
      BY <1>6, <2>1, <3>1
    <3>3. QED
      BY <1>1, <1>2, <1>4, <3>1, <3>2
  <2>2. CASE j \in (L + 1)..(L + E)
    <3>1. t[j].frame = m + 1 /\ t[j].cell = j - L /\ k \in 1..E
      BY <1>a, <2>2
    <3>2. j - t[j].cell + k = L + k /\ L + k \in (L + 1)..(L + E)
      BY <1>1, <1>2, <2>2, <3>1
    <3>3. t[L + k] = [frame |-> m + 1, cell |-> k]
      BY <1>1, <1>2, <1>4, <3>1, <3>2
    <3>4. QED
      BY <1>1, <1>2, <3>1, <3>2, <3>3
  <2>3. QED
    BY <1>8, <2>1, <2>2
<1>11. CellsFollow(t, v)
  <2> SUFFICES ASSUME NEW j \in 1..(L + E - 1), t[j].cell = Extent(v[t[j].frame])
               PROVE  t[j + 1] = [frame |-> t[j].frame + 1, cell |-> 1]
    <3>1. Len(t) = L + E
      BY <1>4
    <3>2. QED
      BY <1>1, <1>2, <3>1 DEF CellsFollow
  <2>1. CASE j \in 1..(L - 1)
    <3>1. j \in 1..L /\ j + 1 \in 1..L
      BY <1>1, <2>1
    <3>2. t[j] = s[j] /\ t[j + 1] = s[j + 1] /\ v[t[j].frame] = w[s[j].frame]
      BY <1>4, <1>7, <3>1
    <3>3. s[j].cell = Extent(w[s[j].frame])
      BY <3>2
    <3>4. s[j + 1] = [frame |-> s[j].frame + 1, cell |-> 1]
      BY <1>6, <2>1, <3>3
    <3>5. QED
      BY <3>2, <3>4
  <2>2. CASE j = L
    <3>1. L > 0 /\ t[L] = [frame |-> m, cell |-> Extent(w[m])]
      BY <1>1, <1>4, <1>6, <2>2
    <3>2. t[L + 1] = [frame |-> m + 1, cell |-> 1]
      BY SMTT(20), <1>1, <1>2, <1>4
    <3>3. QED
      BY <2>2, <3>1, <3>2
  <2>3. CASE j \in (L + 1)..(L + E - 1)
    <3>1. j \in (L + 1)..(L + E)
      BY <1>1, <1>2, <2>3
    <3>2. t[j].cell = j - L /\ Extent(v[t[j].frame]) = E
      BY <1>a, <3>1
    <3>3. j - L = E
      BY <3>2
    <3>4. QED
      BY <1>1, <1>2, <2>3, <3>3
  <2>4. QED
    BY <1>1, <1>2, <2>1, <2>2, <2>3
<1>12. CellsOnce(t)
  <2> SUFFICES ASSUME NEW i \in 1..(L + E), NEW j \in 1..(L + E), t[i] = t[j]
               PROVE  i = j
    BY <1>4 DEF CellsOnce
  <2>1. ASSUME NEW h \in 1..L
        PROVE  t[h].frame # m + 1
    <3>1. t[h] = s[h] /\ s[h].frame \in (n + 1)..m
      BY <1>4, <1>6
    <3>2. QED
      BY <1>1, <3>1
  <2>2. \A h \in (L + 1)..(L + E) : t[h].frame = m + 1 /\ t[h].cell = h - L
    BY <1>a
  <2>3. CASE i \in 1..L /\ j \in 1..L
    BY <1>4, <1>6, <2>3
  <2>4. CASE i \in (L + 1)..(L + E) /\ j \in (L + 1)..(L + E)
    BY <1>1, <2>2, <2>4
  <2>5. QED
    BY <1>8, <2>1, <2>2, <2>3, <2>4
<1>13. /\ n < Len(v)
       /\ t[1] = [frame |-> n + 1, cell |-> 1]
       /\ t[Len(t)] = [frame |-> Len(v), cell |-> Extent(v[Len(v)])]
  <2>1. t[L + E] = [frame |-> m + 1, cell |-> E]
    <3>1. L + E \in (L + 1)..(L + E) /\ (L + E) - L = E
      BY <1>1, <1>2
    <3>2. QED
      BY <1>4, <3>1
  <2>2. t[1] = [frame |-> n + 1, cell |-> 1]
    BY <1>1, <1>2, <1>4, <1>6
  <2>3. QED
    BY <1>1, <1>4, <1>5, <2>1, <2>2 DEF E
<1>14. Len(t) > 0
  BY <1>1, <1>2, <1>4
<1>15. n \in 0..Len(v)
  BY <1>1, <1>5
<1>16. Framed(t, n, v)
  BY <1>4, <1>5, <1>9, <1>10, <1>11, <1>12, <1>13, <1>14, <1>15 DEF Framed
<1>17. QED
  BY <1>16 DEF t, c, v, m

(* What stands at the front is a whole frame, the next to be taken. *)
LEMMA FramedFront ==
  ASSUME FeedAssumption, NEW s, NEW n, NEW w, Framed(s, n, w), Len(s) > 0
  PROVE  /\ n + 1 \in 1..Len(w) /\ w[n + 1] \in Frames
         /\ Extent(w[n + 1]) \in 1..Len(s)
         /\ \A k \in 1..Extent(w[n + 1]) : s[k] = [frame |-> n + 1, cell |-> k]
<1>1. /\ s \in Seq(Cells) /\ w \in Seq(Frames) /\ n \in 0..Len(w) /\ n < Len(w)
      /\ s[1] = [frame |-> n + 1, cell |-> 1]
      /\ Len(s) \in Nat /\ Len(w) \in Nat
  BY LenProperties DEF Framed
<1>2. n + 1 \in 1..Len(w) /\ w[n + 1] \in Frames
  BY <1>1, ElementOfSeq
<1>3. Extent(w[n + 1]) \in Nat \ {0}
  BY <1>2, ExtentType
<1>4. \A k \in 1..Extent(w[n + 1]) :
        1 - 1 + k \in 1..Len(s) /\ s[1 - 1 + k] = [frame |-> n + 1, cell |-> k]
  <2>1. CellsTogether(s, w)
    BY DEF Framed
  <2>2. 1 \in 1..Len(s)
    BY <1>1
  <2>3. s[1].frame = n + 1 /\ s[1].cell = 1
    BY <1>1
  <2>4. QED
    BY <2>1, <2>2, <2>3 DEF CellsTogether
<1>5. \A k \in 1..Extent(w[n + 1]) : k \in 1..Len(s) /\ s[k] = [frame |-> n + 1, cell |-> k]
  BY <1>3, <1>4
<1>6. Extent(w[n + 1]) \in 1..Extent(w[n + 1])
  BY <1>3
<1>7. Extent(w[n + 1]) \in 1..Len(s)
  BY <1>5, <1>6
<1>8. QED
  BY <1>2, <1>5, <1>7

(* It is taken. *)
LEMMA FramedTaken ==
  ASSUME FeedAssumption, NEW s, NEW n, NEW w, Framed(s, n, w), Len(s) > 0
  PROVE  Framed(SubSeq(s, Extent(w[n + 1]) + 1, Len(s)), n + 1, w)
<1> DEFINE L == Len(s)
           m == Len(w)
           E == Extent(w[n + 1])
           t == SubSeq(s, E + 1, L)
<1>1. s \in Seq(Cells) /\ w \in Seq(Frames) /\ n \in 0..m /\ n < m /\ L \in Nat /\ m \in Nat
  BY LenProperties DEF Framed
<1>2. E \in 1..L /\ \A k \in 1..E : s[k] = [frame |-> n + 1, cell |-> k]
  BY FramedFront
<1>3. /\ \A j \in 1..L : s[j].frame \in (n + 1)..m /\ s[j].cell \in 1..Extent(w[s[j].frame])
      /\ \A j \in 1..L : \A k \in 1..Extent(w[s[j].frame]) :
           /\ j - s[j].cell + k \in 1..L
           /\ s[j - s[j].cell + k] = [frame |-> s[j].frame, cell |-> k]
      /\ \A j \in 1..(L - 1) :
           s[j].cell = Extent(w[s[j].frame]) => s[j + 1] = [frame |-> s[j].frame + 1, cell |-> 1]
      /\ \A i, j \in 1..L : s[i] = s[j] => i = j
      /\ s[L] = [frame |-> m, cell |-> Extent(w[m])]
  BY DEF Framed, CellsInside, CellsTogether, CellsFollow, CellsOnce
<1>4. \A j \in 1..L : s[j] \in Cells /\ s[j] = [frame |-> s[j].frame, cell |-> s[j].cell]
  <2>1. \A j \in 1..L : s[j] \in Cells
    BY <1>1, ElementOfSeq
  <2>2. QED
    BY <2>1 DEF Cells
<1>5. /\ t \in Seq(Cells) /\ Len(t) = L - E
      /\ \A j \in 1..(L - E) : t[j] = s[j + E]
  <2>1. \A j \in (E + 1)..L : s[j] \in Cells
    <3>1. \A j \in (E + 1)..L : j \in 1..L
      BY <1>1, <1>2
    <3>2. QED
      BY <1>4, <3>1
  <2>2. /\ t \in Seq(Cells)
        /\ Len(t) = IF E + 1 <= L THEN L - (E + 1) + 1 ELSE 0
        /\ \A j \in 1..(L - (E + 1) + 1) : t[j] = s[E + 1 + j - 1]
    BY <1>1, <1>2, <2>1, SubSeqProperties
  <2> HIDE DEF t, E, L
  <2>3. \A j \in 1..(L - E) : E + 1 + j - 1 = j + E /\ j \in 1..(L - (E + 1) + 1)
    BY <1>1, <1>2
  <2>4. QED
    BY <1>1, <1>2, <2>2, <2>3
<1> HIDE DEF L, m, E, t
<1>6. \A j \in 1..(L - E) : j + E \in 1..L /\ t[j] = s[j + E]
  BY <1>1, <1>2, <1>5
(* What is behind the frame in front is of later frames. *)
<1>7. \A j \in (E + 1)..L : s[j].frame # n + 1
  <2> SUFFICES ASSUME NEW j \in (E + 1)..L, s[j].frame = n + 1
               PROVE  FALSE
    OBVIOUS
  <2>1. j \in 1..L
    BY <1>1, <1>2
  <2>2. s[j].cell \in 1..E
    BY <1>3, <2>1 DEF E
  <2>3. s[s[j].cell] = [frame |-> n + 1, cell |-> s[j].cell]
    BY <1>2, <2>2
  <2>4. s[j] = s[s[j].cell] /\ s[j].cell \in 1..L
    BY <1>1, <1>2, <1>4, <2>1, <2>2, <2>3
  <2>5. j = s[j].cell
    BY <1>3, <2>1, <2>4
  <2>6. QED
    BY <1>1, <1>2, <2>2, <2>5
<1>8. CellsInside(t, n + 1, w)
  <2> SUFFICES ASSUME NEW j \in 1..(L - E)
               PROVE  t[j].frame \in (n + 2)..m /\ t[j].cell \in 1..Extent(w[t[j].frame])
    BY <1>1, <1>5 DEF CellsInside, m
  <2>1. j + E \in 1..L /\ j + E \in (E + 1)..L /\ t[j] = s[j + E]
    BY <1>1, <1>2, <1>6
  <2>2. s[j + E].frame \in (n + 1)..m /\ s[j + E].frame # n + 1
    BY <1>3, <1>7, <2>1
  <2>3. s[j + E].frame \in (n + 2)..m
    BY <1>1, <2>2
  <2>4. QED
    BY <1>3, <2>1, <2>3
<1>9. CellsTogether(t, w)
  <2> SUFFICES ASSUME NEW j \in 1..(L - E), NEW k \in 1..Extent(w[t[j].frame])
               PROVE  /\ j - t[j].cell + k \in 1..(L - E)
                      /\ t[j - t[j].cell + k] = [frame |-> t[j].frame, cell |-> k]
    BY <1>5 DEF CellsTogether
  <2>1. PICK p \in (E + 1)..L : p = j + E /\ t[j] = s[p]
    BY <1>1, <1>2, <1>6
  <2>2. p \in 1..L /\ p \in Nat /\ j \in Nat
    BY <1>1, <1>2
  <2>3. PICK c \in Nat : c = s[p].cell
    BY <1>4, <2>2 DEF Cells
  <2>4. k \in Nat
    <3>1. s[p].frame \in 1..m
      BY <1>1, <1>3, <2>2
    <3>2. Extent(w[s[p].frame]) \in Nat
      BY <1>1, <3>1, ElementOfSeq, ExtentType DEF m
    <3>3. QED
      BY <2>1, <3>2
  <2>5. PICK h : h = p - c + k
    OBVIOUS
  <2>6. h \in 1..L /\ s[h] = [frame |-> s[p].frame, cell |-> k]
    <3>1. \A q \in 1..L : \A r \in 1..Extent(w[s[q].frame]) :
            /\ q - s[q].cell + r \in 1..L
            /\ s[q - s[q].cell + r] = [frame |-> s[q].frame, cell |-> r]
      BY <1>3
    <3>2. k \in 1..Extent(w[s[p].frame])
      BY <2>1
    <3>3. p - s[p].cell + k \in 1..L /\ s[p - s[p].cell + k] = [frame |-> s[p].frame, cell |-> k]
      BY <2>2, <3>1, <3>2
    <3>4. p - s[p].cell + k = h
      BY <2>3, <2>5
    <3>5. QED
      BY <3>3, <3>4
  <2>7. h \notin 1..E
    <3>1. ASSUME h \in 1..E
          PROVE  FALSE
      <4>1. s[h] = [frame |-> n + 1, cell |-> h]
        BY <1>2, <3>1
      <4>2. s[h].frame = n + 1
        BY <4>1
      <4>3. s[h].frame = s[p].frame
        BY <2>6
      <4>4. QED
        BY <1>7, <4>2, <4>3
    <3>2. QED
      BY <3>1
  <2>8. PICK i \in 1..(L - E) : i + E = h
    <3>1. h - E \in 1..(L - E) /\ (h - E) + E = h
      BY <1>1, <1>2, <2>6, <2>7
    <3>2. QED
      BY <3>1
  <2>9. t[i] = s[h]
    BY <1>6, <2>8
  <2>10. i = j - c + k
    <3>1. E \in Nat /\ i \in Nat
      BY <1>1, <1>2
    <3>2. QED
      BY <2>1, <2>2, <2>4, <2>5, <2>8, <3>1
  <2>11. QED
    BY <2>1, <2>3, <2>6, <2>8, <2>9, <2>10
<1>10. CellsFollow(t, w)
  <2> SUFFICES ASSUME NEW j \in 1..(L - E - 1), t[j].cell = Extent(w[t[j].frame])
               PROVE  t[j + 1] = [frame |-> t[j].frame + 1, cell |-> 1]
    BY <1>5 DEF CellsFollow
  <2>1. t[j] = s[j + E] /\ t[j + 1] = s[j + E + 1] /\ j + E \in 1..(L - 1)
    <3>1. j \in 1..(L - E) /\ j + 1 \in 1..(L - E) /\ (j + 1) + E = j + E + 1
      BY <1>1, <1>2
    <3>2. t[j] = s[j + E] /\ t[j + 1] = s[(j + 1) + E]
      BY <1>6, <3>1
    <3>3. QED
      BY <1>1, <1>2, <3>1, <3>2
  <2>2. QED
    BY <1>3, <2>1
<1>11. CellsOnce(t)
  <2> SUFFICES ASSUME NEW i \in 1..(L - E), NEW j \in 1..(L - E), t[i] = t[j]
               PROVE  i = j
    BY <1>5 DEF CellsOnce
  <2>1. i + E = j + E
    BY <1>3, <1>6
  <2>2. QED
    BY <1>1, <1>2, <2>1
<1>12. s[E] = [frame |-> n + 1, cell |-> E]
  BY <1>1, <1>2
<1>13. CASE L = E
  <2>1. n + 1 = m
    BY <1>3, <1>12, <1>13
  <2>2. Len(t) = 0
    BY <1>1, <1>2, <1>5, <1>13
  <2>3. QED
    BY <1>1, <1>5, <1>8, <1>9, <1>10, <1>11, <2>1, <2>2 DEF Framed, t, E, L, m
<1>14. CASE L # E
  <2>1. E \in 1..(L - 1) /\ 1 \in 1..(L - E) /\ L - E \in 1..(L - E) /\ L - E > 0
    BY <1>1, <1>2, <1>14
  <2>2. s[E + 1] = [frame |-> n + 2, cell |-> 1]
    <3>1. s[E].cell = Extent(w[s[E].frame])
      BY <1>12 DEF E
    <3>2. s[E + 1] = [frame |-> s[E].frame + 1, cell |-> 1]
      BY <1>3, <2>1, <3>1
    <3>3. QED
      BY <1>1, <1>12, <3>2
  <2>3. t[1] = [frame |-> n + 2, cell |-> 1]
    <3>1. t[1] = s[1 + E] /\ 1 + E = E + 1
      BY <1>1, <1>2, <1>6, <2>1
    <3>2. QED
      BY <2>2, <3>1
  <2>4. t[L - E] = [frame |-> m, cell |-> Extent(w[m])]
    <3>1. t[L - E] = s[(L - E) + E]
      BY <1>6, <2>1
    <3>2. (L - E) + E = L
      BY <1>1, <1>2
    <3>3. QED
      BY <1>3, <3>1, <3>2
  <2>5. n + 1 < m
    <3>1. t[1].frame \in (n + 2)..m
      <4>1. t[1].frame \in ((n + 1) + 1)..m
        BY <1>5, <1>8, <2>1 DEF CellsInside, m
      <4>2. QED
        BY <1>1, <4>1
    <3>2. QED
      BY <1>1, <3>1
  <2>6. (n + 1) + 1 = n + 2
    BY <1>1
  <2>7. Framed(t, n + 1, w)
    BY SMTT(20), <1>1, <1>5, <1>8, <1>9, <1>10, <1>11, <2>1, <2>3, <2>4, <2>5, <2>6 DEF Framed, m
  <2>8. QED
    BY <2>7 DEF t, E, L
<1>15. QED
  BY <1>13, <1>14

-----------------------------------------------------------------------------
(* How many cells frames have *)

(* What is written behind frames leaves their cells as they are. *)
LEMMA FirstKept ==
  ASSUME NEW w \in Seq(Frames), NEW f \in Frames, NEW n \in Nat, n <= Len(w)
  PROVE  CellsOfFirst(Append(w, f), n) = CellsOfFirst(w, n)
<1>1. \A i \in 1..n : Append(w, f)[i] = w[i]
  BY AppendProperties, LenProperties
<1>2. QED
  BY <1>1 DEF CellsOfFirst

(* A frame more adds as many cells as it has, all of them its own. *)
LEMMA OneMore ==
  ASSUME FeedAssumption, NEW w \in Seq(Frames), NEW n \in Nat, n + 1 <= Len(w),
         IsFiniteSet(CellsOfFirst(w, n))
  PROVE  /\ IsFiniteSet(CellsOfFirst(w, n + 1))
         /\ Cardinality(CellsOfFirst(w, n)) \in Nat
         /\ Cardinality(CellsOfFirst(w, n + 1))
              = Cardinality(CellsOfFirst(w, n)) + Extent(w[n + 1])
<1> DEFINE m == n + 1
           E == Extent(w[m])
           First == CellsOfFirst(w, n)
           Own(i) == {[frame |-> i, cell |-> k] : k \in 1..(HeaderLen + w[i].size)}
<1>1. m \in Nat /\ w[m] \in Frames /\ E \in Nat
  BY LenProperties, ElementOfSeq, ExtentType
<1>2. Own(m) = {[frame |-> m, cell |-> k] : k \in 1..E}
  BY DEF Extent
<1>3. CellsOfFirst(w, m) = First \cup Own(m)
  <2>1. 1..m = (1..n) \cup {m}
    OBVIOUS
  <2>2. First = UNION {Own(i) : i \in 1..n} /\ CellsOfFirst(w, m) = UNION {Own(i) : i \in 1..m}
    BY DEF CellsOfFirst
  <2> HIDE DEF Own, First
  <2>3. QED
    BY <2>1, <2>2
<1>4. First \cap Own(m) = {}
  <2>1. \A x \in First : x.frame \in 1..n
    BY DEF CellsOfFirst
  <2>2. \A x \in Own(m) : x.frame = m
    OBVIOUS
  <2>3. QED
    BY <2>1, <2>2
<1> HIDE DEF First
<1>5. IsFiniteSet(Own(m)) /\ Cardinality(Own(m)) = E
  <2> DEFINE g == [k \in 1..E |-> [frame |-> m, cell |-> k]]
             C == Own(m)
  <2>1. g \in [1..E -> C] /\ \A c \in C : \E k \in 1..E : g[k] = c
    BY <1>2
  <2>2. \A a, b \in 1..E : g[a] = g[b] => a = b
    <3>1. \A a \in 1..E : g[a].cell = a
      OBVIOUS
    <3>2. QED
      BY <3>1
  <2> HIDE DEF g, C
  <2>3. ExistsBijection(1..E, C)
    BY <2>1, <2>2 DEF ExistsBijection, Bijection, Injection, Surjection, IsInjective
  <2>4. IsFiniteSet(C)
    BY <1>1, <2>3, FS_Bijection, FS_Interval
  <2>5. QED
    BY <1>1, <2>3, <2>4, FS_CountingElements DEF C
<1> HIDE DEF Own, E, m
<1>6. /\ IsFiniteSet(First \cup Own(m))
      /\ Cardinality(First \cup Own(m))
           = Cardinality(First) + Cardinality(Own(m)) - Cardinality(First \cap Own(m))
  BY <1>5, FS_Union DEF First
<1>7. Cardinality(First \cap Own(m)) = 0
  BY <1>4, FS_EmptySet
<1>8. Cardinality(First) \in Nat
  BY FS_CardinalityType DEF First
<1>9. Cardinality(First \cup Own(m)) = Cardinality(First) + E
  BY <1>1, <1>5, <1>6, <1>7, <1>8
<1>10. QED
  BY <1>3, <1>6, <1>8, <1>9 DEF First, m, E

-----------------------------------------------------------------------------
(* The node *)

(* One frame is written; only data comes in another codec. *)
Writing(w, s) ==
  \E frame \in Frames :
    /\ Len(written) < MaxFrames
    /\ frame.codec # "zstd" => frame.kind = "Data"
    /\ w = Append(written, frame)
    /\ s = wire \o CellsOf(Len(written) + 1, frame)

LEMMA WriteWrites ==
  ASSUME NEW f \in Frames, f.codec # "zstd" => f.kind = "Data", Write(f)
  PROVE  Writing(written', wire')
BY DEF Write, Writing

(* The node writes a frame, or nothing. *)
LEMMA NodeWrites ==
  ASSUME FeedAssumption, next \in Nat, since \in Nat, Node
  PROVE  /\ next' \in Nat /\ since' \in Nat
         /\ (written' = written /\ wire' = wire) \/ Writing(written', wire')
<1>1. /\ next \in Nat /\ since \in Nat
      /\ Sizes \subseteq Nat /\ Long \in Nat
  BY DEF FeedAssumption
<1>2. CASE Emit
  <2>1. Codecs \subseteq {"zstd", "corrupt", "other"} /\ Bare \subseteq {"Failing", "Refusal", "Ping"}
    BY DEF FeedAssumption
  <2>2. next' \in Nat /\ since' \in Nat
    BY <1>1, <1>2 DEF Emit
  <2>3. ASSUME NEW size \in Sizes, NEW codec \in Codecs,
               Write([kind |-> "Data", size |-> size, codec |-> codec, seq |-> next,
                      dropped |-> 0, resume |-> 0])
        PROVE  Writing(written', wire')
    <3>1. [kind |-> "Data", size |-> size, codec |-> codec, seq |-> next,
           dropped |-> 0, resume |-> 0] \in Frames
      BY <1>1, <2>1 DEF Frames, Kinds
    <3>2. QED
      BY <2>3, <3>1, WriteWrites
  <2>4. ASSUME Write([kind |-> "Data", size |-> Long, codec |-> "zstd", seq |-> next,
                      dropped |-> 0, resume |-> 0])
        PROVE  Writing(written', wire')
    <3>1. [kind |-> "Data", size |-> Long, codec |-> "zstd", seq |-> next,
           dropped |-> 0, resume |-> 0] \in Frames
      BY <1>1 DEF Frames, Kinds
    <3>2. QED
      BY <2>4, <3>1, WriteWrites
  <2>5. ASSUME NEW kind \in Bare,
               Write([kind |-> kind, size |-> 0, codec |-> "zstd", seq |-> next,
                      dropped |-> 0, resume |-> 0])
        PROVE  Writing(written', wire')
    <3>1. [kind |-> kind, size |-> 0, codec |-> "zstd", seq |-> next,
           dropped |-> 0, resume |-> 0] \in Frames
      BY <1>1, <2>1 DEF Frames, Kinds
    <3>2. QED
      BY <2>5, <3>1, WriteWrites
  <2>6. QED
    BY <1>2, <2>2, <2>3, <2>4, <2>5 DEF Emit
<1>3. CASE Lose
  BY <1>1, <1>3 DEF Lose
<1>4. CASE Report
  <2>1. PICK seq \in {0, since} :
               Write([kind |-> "Lag", size |-> 0, codec |-> "zstd", seq |-> seq,
                      dropped |-> next - since, resume |-> next])
    BY <1>4 DEF Report
  <2>2. next - since \in Nat
    BY <1>1, <1>4 DEF Report
  <2>3. [kind |-> "Lag", size |-> 0, codec |-> "zstd", seq |-> seq,
         dropped |-> next - since, resume |-> next] \in Frames
    BY <1>1, <2>2 DEF Frames, Kinds
  <2>4. Writing(written', wire')
    BY <2>1, <2>3, WriteWrites
  <2>5. QED
    BY <1>1, <1>4, <2>4 DEF Report
<1>5. CASE Shut
  BY <1>1, <1>5 DEF Shut
<1>6. QED
  BY <1>2, <1>3, <1>4, <1>5 DEF Node

-----------------------------------------------------------------------------
(* Cells of frames that were written *)

FrameCells(w) == {c \in Cells : c.frame \in 1..Len(w)}

(* One more frame, and its cells, are written. *)
LEMMA FrameAdded ==
  ASSUME FeedAssumption, NEW w \in Seq(Frames), NEW f \in Frames
  PROVE  /\ Append(w, f) \in Seq(Frames) /\ Len(Append(w, f)) = Len(w) + 1
         /\ FrameCells(w) \subseteq FrameCells(Append(w, f))
         /\ CellsOf(Len(w) + 1, f) \in Seq(FrameCells(Append(w, f)))
<1> DEFINE cells == CellsOf(Len(w) + 1, f)
           K == FrameCells(Append(w, f))
<1>1. /\ Len(w) \in Nat /\ Append(w, f) \in Seq(Frames) /\ Len(Append(w, f)) = Len(w) + 1
  BY LenProperties, AppendProperties
<1>2. FrameCells(w) \subseteq K
  BY <1>1 DEF FrameCells
<1>3. /\ cells \in Seq(Cells) /\ Len(cells) = Extent(f)
      /\ \A k \in 1..Extent(f) : cells[k] = [frame |-> Len(w) + 1, cell |-> k]
  BY <1>1, CellsOfProperties
<1>4. ASSUME NEW k \in 1..Len(cells)
      PROVE  cells[k] \in K
  <2>1. cells[k] = [frame |-> Len(w) + 1, cell |-> k] /\ cells[k] \in Cells
    BY <1>3, <1>4, ElementOfSeq
  <2>2. cells[k].frame = Len(w) + 1
    BY <2>1
  <2>3. QED
    BY <1>1, <2>1, <2>2 DEF FrameCells
<1>5. cells \in [1..Len(cells) -> K] /\ Len(cells) \in Nat
  BY <1>3, <1>4, LenProperties
<1>6. cells \in Seq(K)
  BY <1>5, SeqDef
<1>7. QED
  BY <1>1, <1>2, <1>6

(* The two parts of a sequence cut after its first n. *)
LEMMA Parted ==
  ASSUME NEW S, NEW s \in Seq(S), NEW n \in 0..Len(s)
  PROVE  /\ SubSeq(s, 1, n) \in Seq(S) /\ Len(SubSeq(s, 1, n)) = n
         /\ \A i \in 1..n : SubSeq(s, 1, n)[i] = s[i]
         /\ SubSeq(s, n + 1, Len(s)) \in Seq(S) /\ Len(SubSeq(s, n + 1, Len(s))) = Len(s) - n
         /\ \A i \in 1..(Len(s) - n) : SubSeq(s, n + 1, Len(s))[i] = s[n + i]
         /\ SubSeq(s, 1, n) \o SubSeq(s, n + 1, Len(s)) = s
<1>1. /\ Len(s) \in Nat /\ n \in Nat /\ n <= Len(s) /\ \A i \in 1..Len(s) : s[i] \in S
  BY LenProperties, ElementOfSeq
<1> DEFINE a == SubSeq(s, 1, n)
           b == SubSeq(s, n + 1, Len(s))
<1>2. /\ a \in Seq(S) /\ Len(a) = n /\ \A i \in 1..n : a[i] = s[i]
  <2>1. n = n - 1 + 1 /\ \A i \in 1..n : s[i] \in S /\ 1 + i - 1 = i
    BY <1>1
  <2>2. QED
    BY <1>1, <2>1, SubSeqProperties
<1>3. /\ b \in Seq(S) /\ Len(b) = Len(s) - n /\ \A i \in 1..(Len(s) - n) : b[i] = s[n + i]
  BY <1>1, SubSeqProperties
<1> HIDE DEF a, b
<1>4. /\ a \o b \in Seq(S) /\ Len(a \o b) = Len(s)
      /\ \A i \in 1..Len(s) : (a \o b)[i] = IF i <= n THEN a[i] ELSE b[i - n]
  <2>1. /\ a \o b \in Seq(S) /\ Len(a \o b) = Len(a) + Len(b)
        /\ \A i \in 1..(Len(a) + Len(b)) :
             (a \o b)[i] = IF i <= Len(a) THEN a[i] ELSE b[i - Len(a)]
    BY <1>2, <1>3, ConcatProperties
  <2>2. Len(a) = n /\ Len(a) + Len(b) = Len(s)
    BY <1>1, <1>2, <1>3
  <2>3. QED
    BY <2>1, <2>2
<1>5. \A i \in 1..Len(a \o b) : (a \o b)[i] = s[i]
  BY <1>1, <1>2, <1>3, <1>4
<1>6. a \o b = s
  BY <1>4, <1>5, SeqEqual
<1>7. QED
  BY <1>2, <1>3, <1>6 DEF a, b

(* The last d elements of a sequence. *)
LEMMA LastOnes ==
  ASSUME NEW S, NEW s \in Seq(S), NEW m \in Nat, NEW d \in Nat, Len(s) = m + d
  PROVE  /\ SubSeq(s, m + 1, m + d) \in Seq(S)
         /\ Len(SubSeq(s, m + 1, m + d)) = d
         /\ \A i \in 1..d : SubSeq(s, m + 1, m + d)[i] = s[m + i]
<1>1. PICK b \in Int : b = m + 1
  OBVIOUS
<1>2. PICK n \in Int : n = m + d
  OBVIOUS
<1>3. /\ n - b + 1 = d
      /\ (IF b <= n THEN n - b + 1 ELSE 0) = d
      /\ \A i \in 1..d : b + i - 1 = m + i
      /\ b..n \subseteq 1..Len(s)
  BY <1>1, <1>2
<1>4. \A i \in b..n : s[i] \in S
  BY <1>3, ElementOfSeq
<1> DEFINE q == SubSeq(s, b, n)
<1>5. /\ q \in Seq(S)
      /\ Len(q) = IF b <= n THEN n - b + 1 ELSE 0
      /\ \A i \in 1..(n - b + 1) : q[i] = s[b + i - 1]
  BY <1>4, SubSeqProperties
<1> HIDE DEF q
<1>6. q \in Seq(S) /\ Len(q) = d
  BY <1>3, <1>5
<1>7. \A i \in 1..d : q[i] = s[m + i]
  BY <1>3, <1>5
<1>8. q = SubSeq(s, m + 1, m + d)
  BY <1>1, <1>2 DEF q
<1>9. QED
  BY <1>6, <1>7, <1>8

(* Cutting off what is in front leaves what is behind. *)
LEMMA CutThrough ==
  ASSUME NEW S, NEW s \in Seq(S), NEW t \in Seq(S), NEW a \in Nat, NEW e \in Nat,
         a + e <= Len(s)
  PROVE  LET l == SubSeq(s, a + 1, Len(s)) \o t
         IN  SubSeq(l, e + 1, Len(l)) = SubSeq(s, a + e + 1, Len(s)) \o t
<1>1. PICK x \in Nat : x = Len(s)
  BY LenProperties
<1>2. PICK y \in Nat : y = Len(t)
  BY LenProperties
<1>3. PICK d \in Nat : x = a + e + d
  <2>1. x - (a + e) \in Nat /\ x = a + e + (x - (a + e))
    BY <1>1
  <2>2. QED
    BY <2>1
<1> DEFINE r == SubSeq(s, a + 1, x)
           q == SubSeq(s, a + e + 1, x)
           l == r \o t
<1>5. /\ r \in Seq(S) /\ Len(r) = e + d
      /\ \A i \in 1..(e + d) : r[i] = s[a + i]
  <2>1. PICK c \in Nat : c = e + d /\ Len(s) = a + c /\ x = a + c
    BY <1>1, <1>3
  <2>2. r = SubSeq(s, a + 1, a + c)
    BY <2>1
  <2> HIDE DEF r
  <2>3. r \in Seq(S) /\ Len(r) = c /\ \A i \in 1..c : r[i] = s[a + i]
    BY <2>1, <2>2, LastOnes
  <2>4. QED
    BY <2>1, <2>3
<1>6. /\ q \in Seq(S) /\ Len(q) = d
      /\ \A i \in 1..d : q[i] = s[a + e + i]
  <2>1. PICK c \in Nat : c = a + e /\ Len(s) = c + d /\ x = c + d
    BY <1>1, <1>3
  <2>2. q = SubSeq(s, c + 1, c + d)
    BY <2>1
  <2> HIDE DEF q
  <2>3. q \in Seq(S) /\ Len(q) = d /\ \A i \in 1..d : q[i] = s[c + i]
    BY <2>1, <2>2, LastOnes
  <2>4. QED
    BY <2>1, <2>3
<1> HIDE DEF r, q
<1>8. /\ l \in Seq(S) /\ Len(l) = e + d + y
      /\ \A i \in 1..(e + d + y) : l[i] = IF i <= e + d THEN r[i] ELSE t[i - (e + d)]
  <2>1. PICK c \in Nat : c = e + d
    OBVIOUS
  <2>2. /\ l \in Seq(S) /\ Len(l) = c + y
        /\ \A i \in 1..(c + y) : l[i] = IF i <= c THEN r[i] ELSE t[i - c]
    <3>1. r \in Seq(S) /\ Len(r) = c
      BY <1>5, <2>1
    <3>2. /\ r \o t \in Seq(S) /\ Len(r \o t) = Len(r) + Len(t)
          /\ \A i \in 1..(Len(r) + Len(t)) :
               (r \o t)[i] = IF i <= Len(r) THEN r[i] ELSE t[i - Len(r)]
      BY <3>1, ConcatProperties
    <3>3. QED
      BY <1>2, <3>1, <3>2
  <2>3. QED
    BY <2>1, <2>2
<1>9. /\ q \o t \in Seq(S) /\ Len(q \o t) = d + y
      /\ \A i \in 1..(d + y) : (q \o t)[i] = IF i <= d THEN q[i] ELSE t[i - d]
  BY <1>2, <1>6, ConcatProperties
<1>10. PICK z \in Nat : z = e + d + y /\ z = Len(l)
  BY <1>8
<1> DEFINE u == SubSeq(l, e + 1, z)
<1> HIDE DEF l
<1>11. /\ u \in Seq(S) /\ Len(u) = d + y
       /\ \A i \in 1..(d + y) : u[i] = l[e + i]
  <2>1. PICK c \in Nat : c = d + y /\ Len(l) = e + c /\ z = e + c
    BY <1>10
  <2>2. u = SubSeq(l, e + 1, e + c)
    BY <2>1
  <2> HIDE DEF u
  <2>3. u \in Seq(S) /\ Len(u) = c /\ \A i \in 1..c : u[i] = l[e + i]
    BY <1>8, <2>1, <2>2, LastOnes
  <2>4. QED
    BY <2>1, <2>3
<1> HIDE DEF u
<1>12. ASSUME NEW i \in 1..(d + y)
       PROVE  u[i] = (q \o t)[i]
  <2>1. u[i] = l[e + i] /\ e + i \in 1..(e + d + y)
    BY <1>11
  <2>2. CASE i <= d
    <3>1. e + i <= e + d /\ e + i \in 1..(e + d) /\ a + (e + i) = a + e + i /\ i \in 1..d
      BY <2>2
    <3>2. l[e + i] = r[e + i] /\ r[e + i] = s[a + (e + i)]
      BY <1>5, <1>8, <2>1, <3>1
    <3>3. (q \o t)[i] = q[i] /\ q[i] = s[a + e + i]
      BY <1>6, <1>9, <2>2, <3>1
    <3>4. QED
      BY <2>1, <3>1, <3>2, <3>3
  <2>3. CASE ~(i <= d)
    <3>1. ~(e + i <= e + d) /\ e + i - (e + d) = i - d
      BY <2>3
    <3>2. l[e + i] = t[e + i - (e + d)]
      BY <1>8, <2>1, <3>1
    <3>3. (q \o t)[i] = t[i - d]
      BY <1>9, <2>3
    <3>4. QED
      BY <2>1, <3>1, <3>2, <3>3
  <2>4. QED
    BY <2>2, <2>3
<1>13. u = q \o t
  BY <1>9, <1>11, <1>12, SeqEqual
<1>14. QED
  BY <1>1, <1>10, <1>13 DEF u, q, l, r

LEMMA CutInside ==
  ASSUME NEW S, NEW s \in Seq(S), NEW t \in Seq(S), NEW e \in 0..Len(s)
  PROVE  SubSeq(s \o t, e + 1, Len(s \o t)) = SubSeq(s, e + 1, Len(s)) \o t
<1>1. Len(s) \in Nat /\ e \in Nat /\ 0 + e <= Len(s) /\ 0 + e + 1 = e + 1 /\ 0 + 1 = 1
  BY LenProperties
<1> DEFINE l == SubSeq(s, 0 + 1, Len(s)) \o t
<1>2. SubSeq(l, e + 1, Len(l)) = SubSeq(s, 0 + e + 1, Len(s)) \o t
  BY <1>1, CutThrough
<1>3. SubSeq(s, 0 + 1, Len(s)) = s
  BY <1>1, SubSeqFull
<1>4. QED
  BY <1>1, <1>2, <1>3

(* What is cut off may reach into the second of two sequences. *)
LEMMA CutBehind ==
  ASSUME NEW S, NEW s \in Seq(S), NEW t \in Seq(S), NEW e \in 0..Len(t)
  PROVE  SubSeq(s \o t, Len(s) + e + 1, Len(s \o t)) = SubSeq(t, e + 1, Len(t))
<1> DEFINE a == SubSeq(t, 1, e)
           b == SubSeq(t, e + 1, Len(t))
<1>1. /\ a \in Seq(S) /\ b \in Seq(S) /\ Len(a) = e /\ e \in Nat /\ Len(s) \in Nat
  BY Parted, LenProperties
<1>2. a \o b = t
  BY Parted
<1> HIDE DEF a, b
<1>3. (s \o a) \o b = s \o t
  <2>1. (s \o a) \o b = s \o (a \o b)
    BY SMTT(30), <1>1, ConcatAssociative
  <2>2. QED
    BY <1>2, <2>1
<1>4. PICK r \in Seq(S) : r = s \o a /\ Len(r) = Len(s) + e
  BY <1>1, ConcatProperties
<1>5. Len(s) + e \in 0..Len(r) /\ Len(r) = Len(s) + e
  BY <1>1, <1>4
<1>6. SubSeq(r \o b, Len(r) + 1, Len(r \o b)) = SubSeq(r, Len(r) + 1, Len(r)) \o b
  BY <1>1, <1>5, CutInside
<1>7. SubSeq(r, Len(r) + 1, Len(r)) = <<>>
  <2>1. /\ Len(SubSeq(r, Len(r) + 1, Len(r))) = Len(r) - Len(r)
        /\ SubSeq(r, Len(r) + 1, Len(r)) \in Seq(S)
    <3>1. Len(r) \in 0..Len(r)
      BY <1>1, <1>5
    <3>2. QED
      BY <3>1, Parted
  <2>2. Len(r) - Len(r) = 0
    BY <1>1, <1>5
  <2>3. QED
    BY <2>1, <2>2, EmptySeq
<1>8. SubSeq(r \o b, Len(r) + 1, Len(r \o b)) = b
  BY <1>1, <1>6, <1>7, ConcatEmptySeq
<1>9. r \o b = s \o t
  BY <1>3, <1>4
<1>10. QED
  BY <1>5, <1>8, <1>9 DEF b

(* Moving cells from the front of t to the end of s leaves what they are together. *)
LEMMA Moving ==
  ASSUME NEW S, NEW s \in Seq(S), NEW t \in Seq(S), NEW n \in 0..Len(t)
  PROVE  (s \o SubSeq(t, 1, n)) \o SubSeq(t, n + 1, Len(t)) = s \o t
<1> DEFINE a == SubSeq(t, 1, n)
           b == SubSeq(t, n + 1, Len(t))
<1>1. a \in Seq(S) /\ b \in Seq(S)
  BY Parted
<1>2. a \o b = t
  BY Parted
<1> HIDE DEF a, b
<1>3. (s \o a) \o b = s \o (a \o b)
  BY <1>1, ConcatAssociative
<1>4. QED
  BY <1>2, <1>3 DEF a, b

=============================================================================
