------------------------------ MODULE DataProofs ------------------------------
(***************************************************************************)
(* What the Rust SDK makes of bytes it did not write itself.               *)
(*                                                                         *)
(* Transaction, for every width of its fields, every header and every      *)
(* table: what is accepted fits, what is refused does not, and every       *)
(* accessor stays inside its section.  Bodies, which reads transactions by *)
(* it: whatever the kind of a body, its length and what it declares, its   *)
(* reader stays inside it, and reads a longer one the same.                *)
(*                                                                         *)
(* DictCache, for every set of dictionaries, any number of processes, and  *)
(* however many of them die: nothing half written is ever published, no    *)
(* temporary file outlives the call that wrote it unless its process died, *)
(* the files stay few, newest returns what was used last, and only what is *)
(* damaged or long unused is removed.                                      *)
(***************************************************************************)
EXTENDS Bodies, DictCache, SequenceTheorems, FiniteSetTheorems, TLAPS

(* The sum of two fields is not cut off. *)
LEMMA NoWrap ==
  ASSUME NEW m \in Offsets, NEW n \in Offsets
  PROVE  (m + n) % Usize = m + n
<1>1. m + n \in Nat /\ m + n < Usize /\ Usize \in Nat \ {0}
  BY TransactionAssumption
<1>2. ASSUME NEW k \in Nat, NEW u \in Nat \ {0}, k < u
      PROVE  k % u = k
  BY <1>2
<1>3. QED
  BY <1>1, <1>2

LEMMA AddressesFit ==
  ASSUME NEW entry \in Entries, NEW len \in Nat
  PROVE  Addresses(entry, len) <=>
           /\ entry.first_at + entry.first_len <= len
           /\ entry.second_at + entry.second_len <= len
<1>1. /\ entry.first_at \in Offsets /\ entry.first_len \in Offsets
      /\ entry.second_at \in Offsets /\ entry.second_len \in Offsets
  BY DEF Entries
<1>2. QED
  BY <1>1, NoWrap DEF Addresses

LEMMA Padded ==
  ASSUME NEW len \in Nat
  PROVE  /\ Align8(len) \in Nat
         /\ Align8(len) >= len
         /\ Align8(len) % 8 = 0
  BY DEF Align8

LEMMA HeaderType ==
  ASSUME NEW h \in Headers \cup {None}
  PROVE  /\ h.have \in Nat /\ h.signatures \in Nat /\ h.accounts \in Nat
         /\ h.instructions \in Nat /\ h.lookups \in Nat
         /\ h.instruction_bytes \in Nat /\ h.lookup_bytes \in Nat /\ h.raw \in Nat
<1>1. CASE h = None
  BY <1>1 DEF None
<1>2. CASE h \in Headers
  <2>1. /\ h.have \in Haves /\ h.signatures \in Counts /\ h.accounts \in Counts
        /\ h.instructions \in Counts /\ h.lookups \in Counts
        /\ h.instruction_bytes \in Lengths /\ h.lookup_bytes \in Lengths
        /\ h.raw \in Lengths
    BY <1>2 DEF Headers
  <2>2. QED
    BY <2>1, TransactionAssumption
<1>3. QED
  BY <1>1, <1>2

(* The eight sections, one by one. *)
LEMMA Sections ==
  ASSUME body \in Headers \cup {None}
  PROVE  /\ Len(SectionLens) = 8 /\ DOMAIN SectionLens = 1..8
         /\ \A i \in 1..8 : SectionLens[i] \in Nat /\ Extents[i] \in Nat
                             /\ Extents[i] <= SectionLens[i]
         /\ \A i \in 1..7 : SectionLens[i] % 8 = 0
<1> DEFINE L == SectionLens
<1>1. /\ Extents[1] = body.signatures * 64 /\ Extents[2] = body.accounts * 32
      /\ Extents[3] = 32 /\ Extents[4] = body.instructions * 16
      /\ Extents[5] = body.instruction_bytes /\ Extents[6] = body.lookups * 40
      /\ Extents[7] = body.lookup_bytes /\ Extents[8] = body.raw
      /\ Len(Extents) = 8 /\ DOMAIN Extents = 1..8
  BY DEF Extents, SIGNATURE_LEN, KEY_LEN, INSTRUCTION_ENTRY_LEN, LOOKUP_ENTRY_LEN
<1>2. L = [[Extents EXCEPT ![5] = Align8(Extents[5])] EXCEPT ![7] = Align8(Extents[7])]
  BY <1>1 DEF SectionLens, InstructionBytes, LookupBytes
<1>3. L = [i \in 1..8 |-> IF i \in {5, 7} THEN Align8(Extents[i]) ELSE Extents[i]]
  BY <1>1, <1>2
<1> HIDE DEF L
<1>4. /\ L[1] = body.signatures * 64 /\ L[2] = body.accounts * 32
      /\ L[3] = 32 /\ L[4] = body.instructions * 16
      /\ L[5] = Align8(body.instruction_bytes) /\ L[6] = body.lookups * 40
      /\ L[7] = Align8(body.lookup_bytes) /\ L[8] = body.raw
      /\ DOMAIN L = 1..8
  BY <1>1, <1>3
<1>5. Len(L) = 8
  BY <1>3
<1>6. /\ Align8(body.instruction_bytes) \in Nat
      /\ Align8(body.instruction_bytes) >= body.instruction_bytes
      /\ Align8(body.instruction_bytes) % 8 = 0
      /\ Align8(body.lookup_bytes) \in Nat
      /\ Align8(body.lookup_bytes) >= body.lookup_bytes
      /\ Align8(body.lookup_bytes) % 8 = 0
  BY Padded, HeaderType
<1>7. \A i \in 1..8 : L[i] \in Nat /\ Extents[i] \in Nat /\ Extents[i] <= L[i]
  <2>1. \A i \in 1..8 : i = 1 \/ i = 2 \/ i = 3 \/ i = 4 \/ i = 5 \/ i = 6 \/ i = 7 \/ i = 8
    OBVIOUS
  <2>2. QED
    BY <2>1, <1>1, <1>4, <1>6, HeaderType
<1>8. \A i \in 1..7 : L[i] % 8 = 0
  <2>1. \A i \in 1..7 : i = 1 \/ i = 2 \/ i = 3 \/ i = 4 \/ i = 5 \/ i = 6 \/ i = 7
    OBVIOUS
  <2>2. QED
    BY <2>1, <1>4, <1>6, HeaderType
<1>9. QED
  BY <1>4, <1>5, <1>7, <1>8 DEF L

-----------------------------------------------------------------------------
(* The inductive invariant.  SectionsLaid speaks of pairs of sections and SlicesInside *)
(* of what was accepted; neither says where read is.  What does is where each section  *)
(* has to end.                                                                         *)

(* Where the k-th section ends, the header being the section before the first. *)
Ends ==
  [k \in 0..8 |->
    TX_HEADER_LEN
      + (IF k >= 1 THEN SectionLens[1] ELSE 0) + (IF k >= 2 THEN SectionLens[2] ELSE 0)
      + (IF k >= 3 THEN SectionLens[3] ELSE 0) + (IF k >= 4 THEN SectionLens[4] ELSE 0)
      + (IF k >= 5 THEN SectionLens[5] ELSE 0) + (IF k >= 6 THEN SectionLens[6] ELSE 0)
      + (IF k >= 7 THEN SectionLens[7] ELSE 0) + (IF k >= 8 THEN SectionLens[8] ELSE 0)]

(* What read has done by the time it is where it is. *)
Stage ==
  /\ pc \in {"idle", "header"} => starts = <<>>
  /\ pc \in {"idle", "header", "sections"} => table = <<>> /\ lookups = <<>>
  /\ pc = "sections" => Len(starts) < 8
  /\ pc \in {"tables", "read"} => Len(starts) = 8
  /\ lookups # <<>> => Len(table) = body.instructions
  /\ pc = "read" => Len(table) = body.instructions /\ Len(lookups) = body.lookups

(* Each section starts where the one before it ends, and the last one fits. *)
Placed ==
  /\ \A i \in 1..Len(starts) : starts[i] = Ends[i - 1]
  /\ starts # <<>> => Ends[Len(starts)] <= body.have
  /\ pc \in {"sections", "tables", "read"} => at = Ends[Len(starts)] /\ at <= body.have

(* No entry was passed over, and a refusal has its reason. *)
Checked ==
  /\ pc # "refused" =>
       /\ EndsWithin(table, body.instruction_bytes)
       /\ EndsWithin(lookups, body.lookup_bytes)
  /\ pc = "refused" => ~WellFormed

IInv == TypeOK /\ Stage /\ Placed /\ Checked

LEMMA EndsOrdered ==
  ASSUME body \in Headers \cup {None}
  PROVE  /\ Ends[0] = TX_HEADER_LEN /\ Ends[8] = Needed
         /\ \A k \in 0..8 : Ends[k] \in Nat
         /\ \A k \in 1..8 : Ends[k] = Ends[k - 1] + SectionLens[k]
         /\ \A k \in 0..8 : \A l \in k..8 : Ends[k] <= Ends[l]
         /\ \A k \in 0..7 : Ends[k] % 8 = 0
<1> DEFINE L == SectionLens
<1>1. /\ L[1] \in Nat /\ L[2] \in Nat /\ L[3] \in Nat /\ L[4] \in Nat
      /\ L[5] \in Nat /\ L[6] \in Nat /\ L[7] \in Nat /\ L[8] \in Nat
  BY Sections
<1>2. /\ L[1] % 8 = 0 /\ L[2] % 8 = 0 /\ L[3] % 8 = 0 /\ L[4] % 8 = 0
      /\ L[5] % 8 = 0 /\ L[6] % 8 = 0 /\ L[7] % 8 = 0
  BY Sections
<1>3. /\ Ends[0] = 104 /\ Ends[1] = Ends[0] + L[1] /\ Ends[2] = Ends[1] + L[2]
      /\ Ends[3] = Ends[2] + L[3] /\ Ends[4] = Ends[3] + L[4] /\ Ends[5] = Ends[4] + L[5]
      /\ Ends[6] = Ends[5] + L[6] /\ Ends[7] = Ends[6] + L[7] /\ Ends[8] = Ends[7] + L[8]
  BY <1>1 DEF Ends, TX_HEADER_LEN
<1>4. Ends[8] = Needed
  BY <1>1, <1>3 DEF Needed, TX_HEADER_LEN
<1> HIDE DEF L
<1>5. \A k \in 0..8 : k = 0 \/ k = 1 \/ k = 2 \/ k = 3 \/ k = 4 \/ k = 5 \/ k = 6 \/ k = 7 \/ k = 8
  OBVIOUS
<1>6. \A k \in 0..8 : Ends[k] \in Nat
  BY <1>1, <1>3, <1>5
<1>7. \A k \in 1..8 : Ends[k] = Ends[k - 1] + L[k]
  BY <1>3, <1>5
<1>8. \A k \in 0..8 : \A l \in k..8 : Ends[k] <= Ends[l]
  <2>1. /\ Ends[0] <= Ends[1] /\ Ends[1] <= Ends[2] /\ Ends[2] <= Ends[3]
        /\ Ends[3] <= Ends[4] /\ Ends[4] <= Ends[5] /\ Ends[5] <= Ends[6]
        /\ Ends[6] <= Ends[7] /\ Ends[7] <= Ends[8]
    BY <1>1, <1>3, <1>6
  <2>2. ASSUME NEW k \in 0..8, NEW l \in k..8
        PROVE  Ends[k] <= Ends[l]
    <3>1. l \in 0..8 /\ k <= l
      OBVIOUS
    <3>2. /\ Ends[0] \in Nat /\ Ends[1] \in Nat /\ Ends[2] \in Nat /\ Ends[3] \in Nat
          /\ Ends[4] \in Nat /\ Ends[5] \in Nat /\ Ends[6] \in Nat /\ Ends[7] \in Nat
          /\ Ends[8] \in Nat
      BY <1>6
    <3>3. CASE l \in 0..4
      BY <2>1, <3>1, <3>2, <3>3
    <3>4. CASE l \in 5..8
      BY <2>1, <3>1, <3>2, <3>4
    <3>5. QED
      BY <3>1, <3>3, <3>4
  <2>3. QED
    BY <2>2
<1>9. \A k \in 0..7 : Ends[k] % 8 = 0
  <2>1. \A m, n \in Nat : m % 8 = 0 /\ n % 8 = 0 => (m + n) % 8 = 0
    OBVIOUS
  <2>2. ASSUME NEW k \in 1..7, Ends[k - 1] % 8 = 0
        PROVE  Ends[k] % 8 = 0
    <3>1. Ends[k - 1] \in Nat /\ L[k] \in Nat /\ L[k] % 8 = 0
      BY <1>6, Sections DEF L
    <3>2. QED
      BY <2>1, <2>2, <3>1, <1>7
  <2>3. Ends[0] % 8 = 0
    BY <1>3
  <2>4. Ends[1] % 8 = 0
    BY <2>2, <2>3
  <2>5. Ends[2] % 8 = 0
    BY <2>2, <2>4
  <2>6. Ends[3] % 8 = 0
    BY <2>2, <2>5
  <2>7. Ends[4] % 8 = 0
    BY <2>2, <2>6
  <2>8. Ends[5] % 8 = 0
    BY <2>2, <2>7
  <2>9. Ends[6] % 8 = 0
    BY <2>2, <2>8
  <2>10. Ends[7] % 8 = 0
    BY <2>2, <2>9
  <2>11. QED
    BY <2>3, <2>4, <2>5, <2>6, <2>7, <2>8, <2>9, <2>10, <1>5
<1>10. QED
  BY <1>3, <1>4, <1>6, <1>7, <1>8, <1>9 DEF L, TX_HEADER_LEN

-----------------------------------------------------------------------------

(* What depends on the header alone stays as long as the body does. *)
LEMMA SameBody ==
  ASSUME body' = body
  PROVE  /\ SectionLens' = SectionLens /\ Extents' = Extents
         /\ Ends' = Ends /\ Needed' = Needed
BY DEF SectionLens, Extents, Ends, Needed

LEMMA EmptyTypes ==
  /\ <<>> \in Seq(Nat) /\ Len(<<>>) = 0
  /\ <<>> \in Seq(Entries)
  /\ \A len : EndsWithin(<<>>, len)
BY DEF EndsWithin

LEMMA Known ==
  ASSUME TypeOK
  PROVE  /\ body \in Headers \cup {None} /\ body.have \in Nat
         /\ body.instructions \in Nat /\ body.lookups \in Nat
         /\ body.instruction_bytes \in Nat /\ body.lookup_bytes \in Nat
         /\ at \in Nat /\ starts \in Seq(Nat) /\ Len(starts) \in 0..8
         /\ table \in Seq(Entries) /\ lookups \in Seq(Entries)
         /\ Needed \in Nat /\ TX_HEADER_LEN <= Needed
<1>1. /\ body \in Headers \cup {None} /\ at \in Nat /\ starts \in Seq(Nat)
      /\ Len(starts) <= 8 /\ table \in Seq(Entries) /\ lookups \in Seq(Entries)
  BY DEF TypeOK
<1>2. Len(starts) \in 0..8
  <2>1. Len(starts) \in Nat
    BY <1>1, LenProperties
  <2>2. \A k \in Nat : k <= 8 => k \in 0..8
    OBVIOUS
  <2>3. QED
    BY <1>1, <2>1, <2>2
<1>3. /\ Ends[0] \in Nat /\ Ends[8] \in Nat /\ Ends[0] <= Ends[8]
      /\ Ends[0] = TX_HEADER_LEN /\ Ends[8] = Needed
  BY <1>1, EndsOrdered
<1>4. QED
  BY <1>1, <1>2, <1>3, HeaderType

(* Nothing read and nothing taken. *)
LEMMA Cleared ==
  ASSUME at = 0, starts = <<>>, table = <<>>, lookups = <<>>, pc \in {"idle", "header"},
         body \in Headers \cup {None}
  PROVE  IInv
<1>1. TypeOK
  BY EmptyTypes, HeaderType DEF TypeOK
<1>2. Stage
  BY DEF Stage
<1>3. Placed
  BY EmptyTypes DEF Placed
<1>4. Checked
  BY EmptyTypes DEF Checked
<1>5. QED
  BY <1>1, <1>2, <1>3, <1>4 DEF IInv

LEMMA InvInit == Init => IInv
BY Cleared DEF Init

LEMMA InvReceive == IInv /\ Receive => IInv'
<1> SUFFICES ASSUME IInv, Receive PROVE IInv'
  OBVIOUS
<1>1. at' = at /\ starts' = starts /\ table' = table /\ lookups' = lookups /\ pc = "idle"
      /\ pc' = "header" /\ body' \in Headers
  BY DEF Receive
<1>2. starts = <<>> /\ table = <<>> /\ lookups = <<>>
  BY <1>1 DEF IInv, Stage
<1>3. TypeOK'
  <2>1. body'.instructions \in Nat /\ body'.lookups \in Nat
    BY <1>1, HeaderType
  <2>2. QED
    BY <1>1, <1>2, <2>1, EmptyTypes DEF IInv, TypeOK
<1>4. Stage'
  BY <1>1, <1>2 DEF Stage
<1>5. Placed'
  BY <1>1, <1>2, EmptyTypes DEF Placed
<1>6. Checked'
  BY <1>1, <1>2, EmptyTypes DEF Checked, EndsWithin
<1>7. QED
  BY <1>3, <1>4, <1>5, <1>6 DEF IInv

LEMMA InvDropped == IInv /\ Dropped => IInv'
<1> SUFFICES ASSUME IInv, Dropped PROVE IInv'
  OBVIOUS
<1>1. /\ at' = 0 /\ starts' = <<>> /\ table' = <<>> /\ lookups' = <<>>
      /\ pc' = "idle" /\ body' = None
  BY DEF Dropped
<1>2. TypeOK'
  BY <1>1, EmptyTypes DEF TypeOK, None
<1>3. Stage'
  BY <1>1 DEF Stage
<1>4. Placed'
  BY <1>1, EmptyTypes DEF Placed
<1>5. Checked'
  BY <1>1, EmptyTypes DEF Checked, EndsWithin
<1>6. QED
  BY <1>2, <1>3, <1>4, <1>5 DEF IInv

(* A refusal for want of bytes. *)
LEMMA InvRefuse ==
  ASSUME IInv, Refuse, Needed > body.have, pc # "idle"
  PROVE  IInv'
<1>1. /\ pc' = "refused" /\ body' = body /\ at' = at /\ starts' = starts
      /\ table' = table /\ lookups' = lookups
  BY DEF Refuse
<1>2. Needed' = Needed /\ Ends' = Ends
  BY <1>1, SameBody
<1>3. TypeOK'
  BY <1>1 DEF IInv, TypeOK
<1>4. Stage'
  BY <1>1 DEF IInv, Stage
<1>5. Placed'
  BY <1>1, <1>2 DEF IInv, Placed
<1>6. Checked'
  <2>1. Needed \in Nat /\ body.have \in Nat
    BY Known DEF IInv
  <2>2. ~WellFormed'
    BY <1>1, <1>2, <2>1 DEF WellFormed
  <2>3. QED
    BY <1>1, <2>2 DEF Checked
<1>7. QED
  BY <1>3, <1>4, <1>5, <1>6 DEF IInv

LEMMA InvHeaderMissing == IInv /\ HeaderMissing => IInv'
<1> SUFFICES ASSUME IInv, HeaderMissing PROVE IInv'
  OBVIOUS
<1>1. Refuse /\ body.have < TX_HEADER_LEN /\ pc # "idle"
  BY DEF HeaderMissing
<1>2. Needed \in Nat /\ body.have \in Nat /\ TX_HEADER_LEN <= Needed
  BY Known DEF IInv
<1>3. Needed > body.have
  BY <1>1, <1>2 DEF TX_HEADER_LEN
<1>4. QED
  BY <1>1, <1>3, InvRefuse

(* Where the section being taken starts, and where it will end. *)
LEMMA NextEnd ==
  ASSUME IInv, pc = "sections"
  PROVE  /\ Len(starts) \in 0..7 /\ Taking = SectionLens[Len(starts) + 1]
         /\ at = Ends[Len(starts)] /\ at + Taking = Ends[Len(starts) + 1]
         /\ at + Taking \in Nat /\ at + Taking <= Needed
<1> DEFINE n == Len(starts)
<1>1. body \in Headers \cup {None} /\ n \in 0..8 /\ n < 8 /\ at = Ends[n]
  BY Known DEF IInv, Stage, Placed
<1> HIDE DEF n
<1>2. n \in 0..7 /\ n + 1 \in 1..8 /\ n + 1 \in 0..8 /\ 8 \in (n + 1)..8 /\ (n + 1) - 1 = n
  BY <1>1
<1>3. Taking = SectionLens[n + 1]
  BY DEF Taking, n
<1>4. /\ Ends[n + 1] = Ends[(n + 1) - 1] + SectionLens[n + 1]
      /\ Ends[n + 1] \in Nat /\ Ends[n + 1] <= Ends[8] /\ Ends[8] = Needed
  BY <1>1, <1>2, EndsOrdered
<1>5. at + Taking = Ends[n + 1]
  BY <1>1, <1>2, <1>3, <1>4
<1>6. QED
  BY <1>1, <1>2, <1>3, <1>4, <1>5 DEF n

LEMMA InvOverrun == IInv /\ Overrun => IInv'
<1> SUFFICES ASSUME IInv, Overrun PROVE IInv'
  OBVIOUS
<1>1. Refuse /\ ~(at + Taking <= body.have) /\ pc = "sections"
  BY DEF Overrun, Fits
<1>2. at + Taking <= Needed /\ Needed \in Nat /\ body.have \in Nat /\ at + Taking \in Nat
  BY <1>1, NextEnd, Known DEF IInv
<1>3. Needed > body.have
  BY <1>1, <1>2
<1>4. QED
  BY <1>1, <1>3, InvRefuse

LEMMA InvHeader == IInv /\ Header => IInv'
<1> SUFFICES ASSUME IInv, Header PROVE IInv'
  OBVIOUS
<1>1. /\ pc = "header" /\ pc' = "sections" /\ at' = TX_HEADER_LEN /\ body' = body
      /\ starts' = starts /\ table' = table /\ lookups' = lookups
      /\ body.have >= TX_HEADER_LEN
  BY DEF Header
<1>2. starts = <<>> /\ table = <<>> /\ lookups = <<>>
  BY <1>1 DEF IInv, Stage
<1>3. Ends' = Ends /\ Ends[0] = TX_HEADER_LEN /\ body.have \in Nat
  BY <1>1, SameBody, EndsOrdered, HeaderType DEF IInv, TypeOK
<1>4. TypeOK'
  BY <1>1 DEF IInv, TypeOK, TX_HEADER_LEN
<1>5. Stage'
  BY <1>1, <1>2, EmptyTypes DEF Stage
<1>6. Placed'
  BY <1>1, <1>2, <1>3, EmptyTypes DEF Placed, TX_HEADER_LEN
<1>7. Checked'
  BY <1>1 DEF IInv, Checked
<1>8. QED
  BY <1>4, <1>5, <1>6, <1>7 DEF IInv

LEMMA InvTake == IInv /\ Take => IInv'
<1> SUFFICES ASSUME IInv, Take PROVE IInv'
  OBVIOUS
<1> DEFINE n == Len(starts)
<1>1. /\ pc = "sections" /\ starts' = Append(starts, at) /\ at' = at + Taking
      /\ body' = body /\ table' = table /\ lookups' = lookups
      /\ at + Taking <= body.have
      /\ pc' = IF Len(starts') = Len(SectionLens) THEN "tables" ELSE "sections"
  BY DEF Take, Fits
<1>2. /\ body \in Headers \cup {None} /\ starts \in Seq(Nat) /\ at \in Nat
      /\ table = <<>> /\ lookups = <<>>
  BY <1>1, Known DEF IInv, Stage
<1>3. /\ n \in 0..7 /\ at = Ends[n] /\ at + Taking = Ends[n + 1] /\ at + Taking \in Nat
      /\ Ends' = Ends
  BY <1>1, NextEnd, SameBody
<1> HIDE DEF n
<1>4. /\ Len(starts') = n + 1 /\ starts' \in Seq(Nat)
      /\ \A i \in 1..n : starts'[i] = starts[i]
      /\ starts'[n + 1] = at
  BY <1>1, <1>2 DEF n
<1>5. TypeOK'
  BY <1>1, <1>2, <1>3, <1>4 DEF IInv, TypeOK
<1>6. Stage'
  <2>1. pc' = IF n + 1 = 8 THEN "tables" ELSE "sections"
    BY <1>1, <1>2, <1>4, Sections
  <2>2. CASE n + 1 = 8
    BY <1>1, <1>2, <1>4, <2>1, <2>2 DEF Stage
  <2>3. CASE n + 1 # 8
    BY <1>1, <1>2, <1>3, <1>4, <2>1, <2>3 DEF Stage
  <2>4. QED
    BY <2>2, <2>3
<1>7. Placed'
  <2>1. \A i \in 1..(n + 1) : starts'[i] = Ends[i - 1]
    <3>1. \A i \in 1..n : starts[i] = Ends[i - 1]
      BY DEF IInv, Placed, n
    <3>2. starts'[n + 1] = Ends[(n + 1) - 1]
      BY <1>3, <1>4
    <3>3. \A i \in 1..(n + 1) : i \in 1..n \/ i = n + 1
      BY <1>3
    <3>4. QED
      BY <1>4, <3>1, <3>2, <3>3
  <2>2. QED
    BY <1>1, <1>2, <1>3, <1>4, <2>1 DEF Placed
<1>8. Checked'
  BY <1>1 DEF IInv, Checked
<1>9. QED
  BY <1>5, <1>6, <1>7, <1>8 DEF IInv

(* An entry that was looked at joins the ones before it; the first that points outside
   its bytes ends the reading. *)
LEMMA EntryChecked ==
  ASSUME NEW entries \in Seq(Entries), NEW entry \in Entries, NEW len \in Nat,
         EndsWithin(entries, len)
  PROVE  /\ Addresses(entry, len) => EndsWithin(Append(entries, entry), len)
         /\ ~Addresses(entry, len) => ~EndsWithin(Append(entries, entry), len)
<1> DEFINE new == Append(entries, entry)
<1>1. /\ DOMAIN entries = 1..Len(entries) /\ Len(entries) \in Nat
      /\ DOMAIN new = 1..(Len(entries) + 1) /\ new[Len(entries) + 1] = entry
      /\ \A i \in 1..Len(entries) : new[i] = entries[i]
  BY AppendProperties, LenProperties
<1>2. Addresses(entry, len) <=>
        /\ entry.first_at + entry.first_len <= len
        /\ entry.second_at + entry.second_len <= len
  BY AddressesFit
<1> HIDE DEF new
<1>3. ASSUME Addresses(entry, len)
      PROVE  EndsWithin(new, len)
  BY <1>1, <1>2, <1>3 DEF EndsWithin
<1>4. ASSUME ~Addresses(entry, len)
      PROVE  ~EndsWithin(new, len)
  BY <1>1, <1>2, <1>4 DEF EndsWithin
<1>5. QED
  BY <1>3, <1>4 DEF new

LEMMA InvInstruction == IInv /\ Instruction => IInv'
<1> SUFFICES ASSUME IInv, Instruction PROVE IInv'
  OBVIOUS
<1>1. PICK entry \in Entries :
        /\ table' = Append(table, entry)
        /\ pc' = IF Addresses(entry, body.instruction_bytes) THEN "tables" ELSE "refused"
  BY DEF Instruction
<1>2. /\ pc = "tables" /\ Len(table) < body.instructions /\ body' = body /\ at' = at
      /\ starts' = starts /\ lookups' = lookups
  BY DEF Instruction, More
<1>3. /\ table \in Seq(Entries) /\ Len(table) \in Nat /\ body.instructions \in Nat
      /\ body.instruction_bytes \in Nat
  BY Known, LenProperties DEF IInv
<1>4. Needed' = Needed /\ Ends' = Ends
  BY <1>2, SameBody
<1>5. table' \in Seq(Entries) /\ Len(table') = Len(table) + 1
  BY <1>1, <1>3, AppendProperties
<1>6. lookups = <<>>
  BY <1>2, <1>3 DEF IInv, Stage
<1>7. EndsWithin(table, body.instruction_bytes) /\ EndsWithin(lookups, body.lookup_bytes)
  BY <1>2 DEF IInv, Checked
<1>8. TypeOK'
  BY <1>1, <1>2, <1>3, <1>5 DEF IInv, TypeOK
<1>9. CASE Addresses(entry, body.instruction_bytes)
  <2>1. pc' = "tables" /\ EndsWithin(table', body.instruction_bytes)
    BY <1>1, <1>3, <1>7, <1>9, EntryChecked
  <2>2. Stage'
    BY <1>2, <1>6, <2>1 DEF IInv, Stage
  <2>3. Placed'
    BY <1>2, <1>4, <2>1 DEF IInv, Placed
  <2>4. Checked'
    BY <1>2, <1>7, <2>1 DEF Checked
  <2>5. QED
    BY <1>8, <2>2, <2>3, <2>4 DEF IInv
<1>10. CASE ~Addresses(entry, body.instruction_bytes)
  <2>1. pc' = "refused" /\ ~EndsWithin(table', body.instruction_bytes)
    BY <1>1, <1>3, <1>7, <1>10, EntryChecked
  <2>2. Stage'
    BY <1>2, <1>6, <2>1 DEF IInv, Stage
  <2>3. Placed'
    BY <1>2, <1>4, <2>1 DEF IInv, Placed
  <2>4. ~WellFormed'
    BY <1>2, <2>1 DEF WellFormed
  <2>5. Checked'
    BY <2>1, <2>4 DEF Checked
  <2>6. QED
    BY <1>8, <2>2, <2>3, <2>5 DEF IInv
<1>11. QED
  BY <1>9, <1>10

LEMMA InvLookup == IInv /\ Lookup => IInv'
<1> SUFFICES ASSUME IInv, Lookup PROVE IInv'
  OBVIOUS
<1>1. PICK entry \in Entries :
        /\ lookups' = Append(lookups, entry)
        /\ pc' = IF Addresses(entry, body.lookup_bytes) THEN "tables" ELSE "refused"
  BY DEF Lookup
<1>2. /\ pc = "tables" /\ ~(Len(table) < body.instructions) /\ Len(lookups) < body.lookups
      /\ body' = body /\ at' = at /\ starts' = starts /\ table' = table
  BY DEF Lookup, More
<1>3. /\ lookups \in Seq(Entries) /\ Len(lookups) \in Nat /\ body.lookups \in Nat
      /\ body.lookup_bytes \in Nat /\ Len(table) \in Nat /\ body.instructions \in Nat
  BY Known, LenProperties DEF IInv
<1>4. Needed' = Needed /\ Ends' = Ends
  BY <1>2, SameBody
<1>5. lookups' \in Seq(Entries) /\ Len(lookups') = Len(lookups) + 1
  BY <1>1, <1>3, AppendProperties
<1>6. Len(table) = body.instructions
  <2>1. Len(table) <= body.instructions
    BY DEF IInv, TypeOK
  <2>2. QED
    BY <1>2, <1>3, <2>1
<1>7. EndsWithin(table, body.instruction_bytes) /\ EndsWithin(lookups, body.lookup_bytes)
  BY <1>2 DEF IInv, Checked
<1>8. TypeOK'
  BY <1>1, <1>2, <1>3, <1>5 DEF IInv, TypeOK
<1>9. CASE Addresses(entry, body.lookup_bytes)
  <2>1. pc' = "tables" /\ EndsWithin(lookups', body.lookup_bytes)
    BY <1>1, <1>3, <1>7, <1>9, EntryChecked
  <2>2. Stage'
    BY <1>2, <1>6, <2>1 DEF IInv, Stage
  <2>3. Placed'
    BY <1>2, <1>4, <2>1 DEF IInv, Placed
  <2>4. Checked'
    BY <1>2, <1>7, <2>1 DEF Checked
  <2>5. QED
    BY <1>8, <2>2, <2>3, <2>4 DEF IInv
<1>10. CASE ~Addresses(entry, body.lookup_bytes)
  <2>1. pc' = "refused" /\ ~EndsWithin(lookups', body.lookup_bytes)
    BY <1>1, <1>3, <1>7, <1>10, EntryChecked
  <2>2. Stage'
    BY <1>2, <1>6, <2>1 DEF IInv, Stage
  <2>3. Placed'
    BY <1>2, <1>4, <2>1 DEF IInv, Placed
  <2>4. ~WellFormed'
    BY <1>2, <2>1 DEF WellFormed
  <2>5. Checked'
    BY <2>1, <2>4 DEF Checked
  <2>6. QED
    BY <1>8, <2>2, <2>3, <2>5 DEF IInv
<1>11. QED
  BY <1>9, <1>10

LEMMA InvAccept == IInv /\ Accept => IInv'
<1> SUFFICES ASSUME IInv, Accept PROVE IInv'
  OBVIOUS
<1>1. /\ pc = "tables" /\ pc' = "read" /\ ~(Len(table) < body.instructions)
      /\ Len(lookups) = body.lookups /\ body' = body /\ at' = at /\ starts' = starts
      /\ table' = table /\ lookups' = lookups
  BY DEF Accept, More
<1>2. Ends' = Ends
  BY <1>1, SameBody
<1>3. Len(table) = body.instructions
  <2>1. Len(table) \in Nat /\ body.instructions \in Nat
    BY Known, LenProperties DEF IInv
  <2>2. Len(table) <= body.instructions
    BY DEF IInv, TypeOK
  <2>3. QED
    BY <1>1, <2>1, <2>2
<1>4. TypeOK'
  BY <1>1 DEF IInv, TypeOK
<1>5. Stage'
  BY <1>1, <1>3 DEF IInv, Stage
<1>6. Placed'
  BY <1>1, <1>2 DEF IInv, Placed
<1>7. Checked'
  BY <1>1 DEF IInv, Checked
<1>8. QED
  BY <1>4, <1>5, <1>6, <1>7 DEF IInv

LEMMA InvNext == IInv /\ [Next]_txn => IInv'
<1> SUFFICES ASSUME IInv, [Next]_txn PROVE IInv'
  OBVIOUS
<1>1. CASE Read
  BY <1>1, InvHeaderMissing, InvHeader, InvTake, InvOverrun, InvInstruction, InvLookup, InvAccept
     DEF Read
<1>2. CASE UNCHANGED txn
  <2>1. /\ pc' = pc /\ body' = body /\ at' = at /\ starts' = starts /\ table' = table
        /\ lookups' = lookups
    BY <1>2 DEF txn
  <2>2. Needed' = Needed /\ Ends' = Ends
    BY <2>1, SameBody
  <2>3. TypeOK' /\ Stage'
    BY <2>1 DEF IInv, TypeOK, Stage
  <2>4. Placed'
    BY <2>1, <2>2 DEF IInv, Placed
  <2>5. Checked'
    BY <2>1, <2>2 DEF IInv, Checked, WellFormed
  <2>6. QED
    BY <2>3, <2>4, <2>5 DEF IInv
<1>3. QED
  BY <1>1, <1>2, InvReceive, InvDropped DEF Next

(* The strengthening holds of every reachable state. *)
LEMMA Invariant == Spec => []IInv
BY InvInit, InvNext, PTL DEF Spec

-----------------------------------------------------------------------------
(* What it implies. *)

(* Every variable stays in its range (transaction.rs:114-196). *)
THEOREM TypeCorrect == Spec => []TypeOK
<1>1. IInv => TypeOK
  BY DEF IInv
<1>2. QED
  BY <1>1, Invariant, PTL

(* Sections are aligned, apart and within the body (transaction.rs:5-6, 133-158). *)
THEOREM SectionsWithin == Spec => []SectionsLaid
<1>1. ASSUME IInv PROVE SectionsLaid
  <2> DEFINE n == Len(starts)
  <2>1. /\ body \in Headers \cup {None} /\ body.have \in Nat /\ n \in 0..8
        /\ DOMAIN starts = 1..n
    BY <1>1, Known, LenProperties DEF IInv
  <2>2. \A i \in 1..n : starts[i] = Ends[i - 1]
    BY <1>1 DEF IInv, Placed
  <2>3. starts # <<>> => Ends[n] <= body.have
    BY <1>1 DEF IInv, Placed
  <2> HIDE DEF n
  <2>4. ASSUME NEW i \in 1..n
        PROVE  /\ starts[i] % 8 = 0
               /\ starts[i] >= TX_HEADER_LEN
               /\ starts[i] + SectionLens[i] <= body.have
               /\ \A j \in 1..(i - 1) : starts[j] + SectionLens[j] <= starts[i]
    <3>1. i \in 1..8 /\ i - 1 \in 0..7 /\ i - 1 \in 0..8 /\ n \in i..8 /\ i \in 0..8 /\ n \in 0..8
      BY <2>1
    <3>2. starts[i] = Ends[i - 1]
      BY <2>2
    <3>3. starts # <<>>
      BY <2>1, <3>1, EmptyTypes DEF n
    <3>4. /\ Ends[i - 1] % 8 = 0 /\ Ends[i - 1] \in Nat /\ Ends[i] \in Nat /\ Ends[n] \in Nat
          /\ Ends[i] = Ends[i - 1] + SectionLens[i] /\ Ends[i] <= Ends[n]
      BY <2>1, <3>1, EndsOrdered
    <3>5. Ends[0] <= Ends[i - 1] /\ Ends[0] = TX_HEADER_LEN
      <4>1. 0 \in 0..8 /\ i - 1 \in 0..8
        BY <3>1
      <4>2. QED
        BY <2>1, <4>1, EndsOrdered
    <3>6. ASSUME NEW j \in 1..(i - 1)
          PROVE  starts[j] + SectionLens[j] <= starts[i]
      <4>1. j \in 1..8 /\ j \in 1..n /\ j \in 0..8 /\ i - 1 \in j..8
        BY <2>1, <3>1
      <4>2. Ends[j] = Ends[j - 1] + SectionLens[j] /\ Ends[j] <= Ends[i - 1]
        BY <2>1, <4>1, EndsOrdered
      <4>3. QED
        BY <2>2, <3>2, <4>1, <4>2
    <3>7. QED
      BY <2>1, <2>3, <3>2, <3>3, <3>4, <3>5, <3>6 DEF TX_HEADER_LEN
  <2>5. QED
    BY <2>1, <2>4 DEF SectionsLaid
<1>2. QED
  BY <1>1, Invariant, PTL

(* What is accepted is well formed and what is refused is not
   (transaction.rs:114-196). *)
THEOREM ReadsExactly == Spec => []ReadsWhatFits
<1>1. ASSUME IInv PROVE ReadsWhatFits
  <2>1. ASSUME pc = "read"
        PROVE  WellFormed /\ Len(table) = body.instructions /\ Len(lookups) = body.lookups
    <3>1. Len(starts) = 8 /\ Len(table) = body.instructions /\ Len(lookups) = body.lookups
      BY <1>1, <2>1 DEF IInv, Stage
    <3>2. at = Ends[8] /\ at <= body.have
      BY <1>1, <2>1, <3>1 DEF IInv, Placed
    <3>3. Ends[8] = Needed
      BY <1>1, Known, EndsOrdered DEF IInv
    <3>4. EndsWithin(table, body.instruction_bytes) /\ EndsWithin(lookups, body.lookup_bytes)
      BY <1>1, <2>1 DEF IInv, Checked
    <3>5. QED
      BY <3>1, <3>2, <3>3, <3>4 DEF WellFormed
  <2>2. QED
    BY <1>1, <2>1 DEF IInv, Checked, ReadsWhatFits
<1>2. QED
  BY <1>1, Invariant, PTL

(* The i-th of n elements of a fixed width is inside them. *)
LEMMA Element ==
  ASSUME NEW n \in Nat, NEW i \in 0..(n - 1), NEW w \in {16, 32, 40, 64}
  PROVE  i * w \in Nat /\ w \in Nat /\ i * w + w <= n * w
<1>1. i \in Nat /\ i + 1 <= n
  OBVIOUS
<1>2. CASE w = 16
  BY <1>1, <1>2
<1>3. CASE w = 32
  BY <1>1, <1>3
<1>4. CASE w = 40
  BY <1>1, <1>4
<1>5. CASE w = 64
  BY <1>1, <1>5
<1>6. QED
  BY <1>2, <1>3, <1>4, <1>5

(* No accessor reaches outside its own section of an accepted body
   (transaction.rs:160-161, 405-495). *)
THEOREM SlicesStayInside == Spec => []SlicesInside
<1>1. ASSUME IInv, pc = "read", NEW s \in Slices
      PROVE  /\ s.at >= starts[s.section]
             /\ s.at + s.len <= starts[s.section] + Extents[s.section]
  <2>1. /\ body \in Headers \cup {None} /\ starts \in Seq(Nat) /\ Len(starts) = 8
        /\ table \in Seq(Entries) /\ lookups \in Seq(Entries)
        /\ Len(table) = body.instructions /\ Len(lookups) = body.lookups
    BY <1>1, Known DEF IInv, Stage
  <2>2. /\ body.signatures \in Nat /\ body.accounts \in Nat /\ body.instructions \in Nat
        /\ body.lookups \in Nat /\ body.raw \in Nat
    BY <2>1, HeaderType
  <2>3. /\ Extents[1] = body.signatures * 64 /\ Extents[2] = body.accounts * 32
        /\ Extents[3] = 32 /\ Extents[4] = body.instructions * 16
        /\ Extents[5] = body.instruction_bytes /\ Extents[6] = body.lookups * 40
        /\ Extents[7] = body.lookup_bytes /\ Extents[8] = body.raw
    BY DEF Extents, SIGNATURE_LEN, KEY_LEN, INSTRUCTION_ENTRY_LEN, LOOKUP_ENTRY_LEN
  <2>4. /\ starts[1] \in Nat /\ starts[2] \in Nat /\ starts[3] \in Nat /\ starts[4] \in Nat
        /\ starts[5] \in Nat /\ starts[6] \in Nat /\ starts[7] \in Nat /\ starts[8] \in Nat
        /\ Extents[1] \in Nat /\ Extents[2] \in Nat /\ Extents[3] \in Nat /\ Extents[4] \in Nat
        /\ Extents[5] \in Nat /\ Extents[6] \in Nat /\ Extents[7] \in Nat /\ Extents[8] \in Nat
    <3>1. \A i \in 1..Len(starts) : starts[i] \in Nat
      BY <2>1, LenProperties
    <3>2. QED
      BY <2>1, <3>1, Sections
  <2>5. /\ EndsWithin(table, body.instruction_bytes) /\ DOMAIN table = 1..body.instructions
        /\ EndsWithin(lookups, body.lookup_bytes) /\ DOMAIN lookups = 1..body.lookups
    BY <1>1, <2>1, LenProperties DEF IInv, Checked
  <2>6. ASSUME NEW entry \in Entries
        PROVE  /\ entry.first_at \in Nat /\ entry.first_len \in Nat
               /\ entry.second_at \in Nat /\ entry.second_len \in Nat
    BY TransactionAssumption DEF Entries
  <2>7. CASE s \in SignatureSlices
    <3>1. PICK i \in 0..(body.signatures - 1) : s = Slice(1, i * 64, 64)
      BY <2>7 DEF SignatureSlices, Signatures, SIGNATURE_LEN
    <3>2. i * 64 \in Nat /\ 64 \in Nat /\ i * 64 + 64 <= Extents[1]
      BY <2>2, <2>3, Element
    <3>3. s.section = 1 /\ s.at = starts[1] + i * 64 /\ s.len = 64
      BY <3>1 DEF Slice
    <3>4. QED
      BY <2>4, <3>2, <3>3
  <2>8. CASE s \in AccountKeySlices
    <3>1. PICK i \in 0..(body.accounts - 1) : s = Slice(2, i * 32, 32)
      BY <2>8 DEF AccountKeySlices, AccountKeys, KEY_LEN
    <3>2. i * 32 \in Nat /\ 32 \in Nat /\ i * 32 + 32 <= Extents[2]
      BY <2>2, <2>3, Element
    <3>3. s.section = 2 /\ s.at = starts[2] + i * 32 /\ s.len = 32
      BY <3>1 DEF Slice
    <3>4. QED
      BY <2>4, <3>2, <3>3
  <2>9. CASE s \in BlockhashSlices
    <3>1. s = Slice(3, 0, 32)
      BY <2>9 DEF BlockhashSlices, Blockhash, KEY_LEN
    <3>2. 0 + 32 <= Extents[3]
      BY <2>3
    <3>3. s.section = 3 /\ s.at = starts[3] + 0 /\ s.len = 32
      BY <3>1 DEF Slice
    <3>4. QED
      BY <2>4, <3>2, <3>3
  <2>10. CASE s \in InstructionSlices
    <3>1. PICK i \in DOMAIN table :
            s \in {Slice(4, (i - 1) * 16, 16),
                   Slice(5, table[i].first_at, table[i].first_len),
                   Slice(5, table[i].second_at, table[i].second_len)}
      BY <2>10 DEF InstructionSlices, InstructionTable, InstructionBytes, INSTRUCTION_ENTRY_LEN
    <3>2. i \in 1..body.instructions /\ i - 1 \in 0..(body.instructions - 1)
      BY <2>2, <2>5
    <3>3. table[i] \in Entries
      BY <2>1, <3>1, <3>2, LenProperties
    <3>4. /\ table[i].first_at + table[i].first_len <= Extents[5]
          /\ table[i].second_at + table[i].second_len <= Extents[5]
      BY <2>3, <2>5, <3>1 DEF EndsWithin
    <3>5. (i - 1) * 16 \in Nat /\ 16 \in Nat /\ (i - 1) * 16 + 16 <= Extents[4]
      BY <2>2, <2>3, <3>2, Element
    <3>6. CASE s = Slice(4, (i - 1) * 16, 16)
      <4>1. s.section = 4 /\ s.at = starts[4] + (i - 1) * 16 /\ s.len = 16
        BY <3>6 DEF Slice
      <4>2. QED
        BY <2>4, <3>5, <4>1
    <3>7. CASE s = Slice(5, table[i].first_at, table[i].first_len)
      <4>1. s.section = 5 /\ s.at = starts[5] + table[i].first_at /\ s.len = table[i].first_len
        BY <3>7 DEF Slice
      <4>2. QED
        BY <2>4, <2>6, <3>3, <3>4, <4>1
    <3>8. CASE s = Slice(5, table[i].second_at, table[i].second_len)
      <4>1. s.section = 5 /\ s.at = starts[5] + table[i].second_at /\ s.len = table[i].second_len
        BY <3>8 DEF Slice
      <4>2. QED
        BY <2>4, <2>6, <3>3, <3>4, <4>1
    <3>9. QED
      BY <3>1, <3>6, <3>7, <3>8
  <2>11. CASE s \in LookupSlices
    <3>1. PICK i \in DOMAIN lookups :
            s \in {Slice(6, (i - 1) * 40, 40),
                   Slice(7, lookups[i].first_at, lookups[i].first_len),
                   Slice(7, lookups[i].second_at, lookups[i].second_len)}
      BY <2>11 DEF LookupSlices, LookupTable, LookupBytes, LOOKUP_ENTRY_LEN
    <3>2. i \in 1..body.lookups /\ i - 1 \in 0..(body.lookups - 1)
      BY <2>2, <2>5
    <3>3. lookups[i] \in Entries
      BY <2>1, <3>1, <3>2, LenProperties
    <3>4. /\ lookups[i].first_at + lookups[i].first_len <= Extents[7]
          /\ lookups[i].second_at + lookups[i].second_len <= Extents[7]
      BY <2>3, <2>5, <3>1 DEF EndsWithin
    <3>5. (i - 1) * 40 \in Nat /\ 40 \in Nat /\ (i - 1) * 40 + 40 <= Extents[6]
      BY <2>2, <2>3, <3>2, Element
    <3>6. CASE s = Slice(6, (i - 1) * 40, 40)
      <4>1. s.section = 6 /\ s.at = starts[6] + (i - 1) * 40 /\ s.len = 40
        BY <3>6 DEF Slice
      <4>2. QED
        BY <2>4, <3>5, <4>1
    <3>7. CASE s = Slice(7, lookups[i].first_at, lookups[i].first_len)
      <4>1. s.section = 7 /\ s.at = starts[7] + lookups[i].first_at /\ s.len = lookups[i].first_len
        BY <3>7 DEF Slice
      <4>2. QED
        BY <2>4, <2>6, <3>3, <3>4, <4>1
    <3>8. CASE s = Slice(7, lookups[i].second_at, lookups[i].second_len)
      <4>1. s.section = 7 /\ s.at = starts[7] + lookups[i].second_at /\ s.len = lookups[i].second_len
        BY <3>8 DEF Slice
      <4>2. QED
        BY <2>4, <2>6, <3>3, <3>4, <4>1
    <3>9. QED
      BY <3>1, <3>6, <3>7, <3>8
  <2>12. CASE s \in RawSlices
    <3>1. s = Slice(8, 0, body.raw)
      BY <2>12 DEF RawSlices, RawTx
    <3>2. 0 + body.raw <= Extents[8]
      BY <2>2, <2>3
    <3>3. s.section = 8 /\ s.at = starts[8] + 0 /\ s.len = body.raw
      BY <3>1 DEF Slice
    <3>4. QED
      BY <2>2, <2>4, <3>2, <3>3
  <2>13. QED
    BY <1>1, <2>7, <2>8, <2>9, <2>10, <2>11, <2>12 DEF Slices
<1>2. IInv => SlicesInside
  BY <1>1 DEF SlicesInside
<1>3. QED
  BY <1>2, Invariant, PTL

-----------------------------------------------------------------------------
(* The bodies of every kind.  What becomes of one is settled by the frame alone, or by *)
(* the steps of Transaction::read: that is the invariant, and the rest is what each    *)
(* reader loads.                                                                       *)

Whereabouts(F) == \A f \in F : f[1] \in Nat /\ f[2] \in Nat

Within(F, end) == \A f \in F : f[1] + f[2] <= end

Apart(F) == \A f \in F : \A g \in F \ {f} : f[1] + f[2] <= g[1] \/ g[1] + g[2] <= f[1]

(* What a reader may load of a body that long. *)
Laid(reader, have) ==
  reader.need <= have => Within(reader.fields, have) /\ Apart(reader.fields)

(* Fields apart, and behind them fields apart. *)
LEMMA OneBehindTheOther ==
  ASSUME NEW A, NEW B, NEW t \in Int, Whereabouts(A), Whereabouts(B),
         Apart(A), Apart(B), Within(A, t), \A g \in B : t <= g[1]
  PROVE  Apart(A \cup B)
<1> SUFFICES ASSUME NEW f \in A \cup B, NEW g \in (A \cup B) \ {f}
             PROVE  f[1] + f[2] <= g[1] \/ g[1] + g[2] <= f[1]
  BY DEF Apart
<1>1. CASE f \in A /\ g \in A
  BY <1>1 DEF Apart
<1>2. CASE f \in B /\ g \in B
  BY <1>2 DEF Apart
<1>3. CASE f \in A /\ g \in B
  BY <1>3 DEF Within, Whereabouts
<1>4. CASE f \in B /\ g \in A
  BY <1>4 DEF Within, Whereabouts
<1>5. QED
  BY <1>1, <1>2, <1>3, <1>4

LEMMA Alone ==
  ASSUME NEW p, NEW w
  PROVE  Apart({<<p, w>>})
BY DEF Apart

LEMMA LaidSlotStart == ASSUME NEW have \in Nat PROVE Laid(SlotStart, have)
BY DEF Laid, SlotStart, Within, Apart

LEMMA LaidSlotEnd == ASSUME NEW have \in Nat PROVE Laid(SlotEnd, have)
BY DEF Laid, SlotEnd, Within, Apart

LEMMA LaidEntry == ASSUME NEW have \in Nat PROVE Laid(Entry, have)
BY DEF Laid, Entry, Within, Apart

LEMMA LaidDuplicate == ASSUME NEW have \in Nat PROVE Laid(Duplicate, have)
BY DEF Laid, Duplicate, Within, Apart

LEMMA LaidRawShred == ASSUME NEW have \in Nat PROVE Laid(RawShred(have), have)
BY DEF Laid, RawShred, Within, Apart

LEMMA LaidDictionary ==
  ASSUME NEW have \in Nat, NEW len \in Nat PROVE Laid(Dictionary(len), have)
BY DEF Laid, Dictionary, Within, Apart

LEMMA LaidGreetings ==
  ASSUME NEW have \in Nat PROVE Laid(Challenge, have) /\ Laid(HelloAck, have)
BY DEF Laid, Challenge, HelloAck, Within, Apart

LEMMA LaidLag == ASSUME NEW have \in Nat PROVE Laid(Lag, have) /\ Laid(Whole(have), have)
BY DEF Laid, Lag, Whole, Within, Apart

LEMMA LaidDetails ==
  ASSUME NEW have \in Nat, NEW len \in Nat
  PROVE  Laid(ErrorMessage(len, have), have) /\ Laid(FilterAck(len, have), have)
<1>1. Laid(ErrorMessage(len, have), have)
  BY DEF Laid, ErrorMessage, Detail, Within, Apart
<1>2. Laid(FilterAck(len, have), have)
  BY DEF Laid, FilterAck, Detail, Within, Apart
<1>3. QED
  BY <1>1, <1>2

LEMMA LaidTransaction ==
  /\ Whereabouts(ScalarFields \cup CountFields)
  /\ Within(ScalarFields \cup CountFields, TX_HEADER_LEN)
  /\ Apart(ScalarFields \cup CountFields)
<1> DEFINE F == {<<76, 4>>, <<80, 4>>, <<84, 4>>, <<92, 2>>, <<94, 2>>}
           G == {<<k, 1>> : k \in 96..103}
           H == ScalarFields \cup F
<1>1. Within(ScalarFields, 96) /\ Within(F, 96) /\ Within(G, 104)
  BY DEF Within, ScalarFields
<1>2. Whereabouts(ScalarFields) /\ Whereabouts(F) /\ Whereabouts(G)
  BY DEF Whereabouts, ScalarFields
<1>3. Apart(H)
  BY DEF Apart, ScalarFields
<1>4. Apart(G)
  BY DEF Apart
<1>5. Apart(H \cup G)
  <2>1. Whereabouts(H) /\ Within(H, 96) /\ \A g \in G : 96 <= g[1]
    BY <1>1, <1>2 DEF Whereabouts, Within
  <2> HIDE DEF H, G
  <2>2. QED
    BY <2>1, <1>2, <1>3, <1>4, OneBehindTheOther
<1>6. H \cup G = ScalarFields \cup CountFields
  BY DEF CountFields
<1>7. Within(H \cup G, 104)
  <2>1. Within(H, 104)
    BY <1>1, <1>2 DEF Within, Whereabouts
  <2> HIDE DEF H, G
  <2>2. QED
    BY <1>1, <2>1 DEF Within
<1>8. Whereabouts(H \cup G)
  BY <1>2 DEF Whereabouts
<1> HIDE DEF H, G
<1>9. QED
  BY <1>5, <1>6, <1>7, <1>8 DEF TX_HEADER_LEN

LEMMA LaidLookups ==
  ASSUME NEW have \in Nat, NEW count \in Nat
  PROVE  Laid(LookupsComplete(count), have)
<1> DEFINE K == KeysAt(count)
           F == {<<0, 8>>, <<8, 8>>, <<16, 4>>, <<20, 4>>, <<24, 64>>, <<88, 1>>, <<89, 1>>,
                 <<90, 2>>}
           P == {<<96 + n, 1>> : n \in 0..(count - 1)}
           Q == {<<K + n * 32, 32>> : n \in 0..(count - 1)}
<1>1. K \in Nat /\ 96 + count <= K
  BY Padded DEF KeysAt
<1>2. /\ LookupsComplete(count).need = K + count * 32
      /\ LookupsComplete(count).fields = (F \cup P) \cup Q
  BY DEF LookupsComplete, KEY_LEN
<1> HIDE DEF K
<1>3. Whereabouts(F) /\ Within(F, 96) /\ Apart(F)
  BY DEF Whereabouts, Within, Apart
<1>4. /\ Whereabouts(P) /\ Within(P, 96 + count) /\ Apart(P)
      /\ \A f \in P : 96 <= f[1]
  BY DEF Whereabouts, Within, Apart
<1>5. \A n \in 0..(count - 1) : n * 32 \in Nat /\ n * 32 + 32 <= count * 32
  OBVIOUS
<1>6. \A f \in Q : \E n \in 0..(count - 1) : f = <<K + n * 32, 32>>
  OBVIOUS
<1>7. Whereabouts(Q) /\ Within(Q, K + count * 32) /\ \A f \in Q : K <= f[1]
  BY <1>1, <1>5, <1>6 DEF Whereabouts, Within
<1>8. Apart(Q)
  <2> SUFFICES ASSUME NEW f \in Q, NEW g \in Q, f # g
               PROVE  f[1] + f[2] <= g[1] \/ g[1] + g[2] <= f[1]
    BY DEF Apart
  <2>1. PICK m \in 0..(count - 1) : f = <<K + m * 32, 32>>
    BY <1>6
  <2>2. PICK n \in 0..(count - 1) : g = <<K + n * 32, 32>>
    BY <1>6
  <2>3. m # n
    BY <2>1, <2>2
  <2>4. m * 32 + 32 <= n * 32 \/ n * 32 + 32 <= m * 32
    BY <2>3
  <2>5. QED
    BY <1>1, <2>1, <2>2, <2>4
<1> HIDE DEF F, P, Q
<1>9. Apart(F \cup P)
  BY <1>3, <1>4, OneBehindTheOther
<1>10. Whereabouts(F \cup P) /\ Within(F \cup P, K)
  <2>1. Within(F, K)
    BY <1>1, <1>3 DEF Within, Whereabouts
  <2>2. Within(P, K)
    BY <1>1, <1>4 DEF Within, Whereabouts
  <2>3. QED
    BY <1>3, <1>4, <2>1, <2>2 DEF Within, Whereabouts
<1>11. Apart((F \cup P) \cup Q)
  BY <1>1, <1>7, <1>8, <1>9, <1>10, OneBehindTheOther
<1>12. Within((F \cup P) \cup Q, K + count * 32)
  <2>1. Within(F \cup P, K + count * 32)
    BY <1>1, <1>10 DEF Within, Whereabouts
  <2>2. QED
    BY <1>7, <2>1 DEF Within
<1>13. Whereabouts((F \cup P) \cup Q)
  BY <1>7, <1>10 DEF Whereabouts
<1>14. K + count * 32 \in Nat
  BY <1>1
<1>15. ASSUME K + count * 32 <= have
       PROVE  Within((F \cup P) \cup Q, have)
  BY <1>12, <1>13, <1>14, <1>15 DEF Within, Whereabouts
<1>16. QED
  BY <1>2, <1>11, <1>15 DEF Laid

(* Which reader a frame gets is settled by its kind, and the same for two frames that *)
(* differ in length only.                                                             *)
LEMMA ReaderOf ==
  ASSUME NEW f, NEW g, g.byte = f.byte, g.streaming = f.streaming, g.n = f.n
  PROVE  \/ Reader(f) = Entry /\ Reader(g) = Entry
         \/ Reader(f) = SlotStart /\ Reader(g) = SlotStart
         \/ Reader(f) = SlotEnd /\ Reader(g) = SlotEnd
         \/ Reader(f) = Duplicate /\ Reader(g) = Duplicate
         \/ Reader(f) = RawShred(f.have) /\ Reader(g) = RawShred(g.have)
         \/ Reader(f) = LookupsComplete(f.n) /\ Reader(g) = LookupsComplete(f.n)
         \/ Reader(f) = Lag /\ Reader(g) = Lag
         \/ Reader(f) = FilterAck(f.n, f.have) /\ Reader(g) = FilterAck(f.n, g.have)
         \/ Reader(f) = ErrorMessage(f.n, f.have) /\ Reader(g) = ErrorMessage(f.n, g.have)
         \/ Reader(f) = Challenge /\ Reader(g) = Challenge
         \/ Reader(f) = HelloAck /\ Reader(g) = HelloAck
         \/ Reader(f) = Dictionary(f.n) /\ Reader(g) = Dictionary(f.n)
         \/ Reader(f) = Whole(f.have) /\ Reader(g) = Whole(g.have)
<1> DEFINE kind == KindOf(f.byte)
           Readable(h) == kind \in DOMAIN Readers(f.n, h) /\ (f.streaming => kind \notin Greetings)
           By(h) == IF Readable(h) THEN Readers(f.n, h)[kind] ELSE Whole(h)
<1>1. Reader(f) = By(f.have) /\ Reader(g) = By(g.have)
  BY DEF Reader
<1> HIDE DEF kind
<1>2. QED
  BY <1>1 DEF Readers

LEMMA ReaderLaid ==
  ASSUME NEW f, f.have \in Nat, f.n \in Nat
  PROVE  Laid(Reader(f), f.have)
BY ReaderOf, LaidEntry, LaidSlotStart, LaidSlotEnd, LaidDuplicate, LaidRawShred, LaidLookups,
   LaidLag, LaidDetails, LaidGreetings, LaidDictionary

(* A longer body satisfies the same reader, and only a field that ran to the end of *)
(* the shorter one is found elsewhere.                                              *)
LEMMA ReaderGrown ==
  ASSUME NEW f, NEW g, g.byte = f.byte, g.streaming = f.streaming, g.n = f.n,
         f.have \in Nat, g.have \in Nat, f.n \in Nat, f.have <= g.have,
         Reader(f).need <= f.have
  PROVE  /\ Reader(g).need <= g.have
         /\ \A field \in Reader(f).fields \ Reader(g).fields :
              field[1] + field[2] = f.have
<1> DEFINE Grown(r, q) ==
             r.need <= f.have =>
               /\ q.need <= g.have
               /\ \A field \in r.fields \ q.fields : field[1] + field[2] = f.have
<1>1. Grown(Entry, Entry) /\ Grown(SlotStart, SlotStart) /\ Grown(SlotEnd, SlotEnd)
  BY DEF Entry, SlotStart, SlotEnd
<1>2. Grown(Duplicate, Duplicate) /\ Grown(Lag, Lag)
  BY DEF Duplicate, Lag
<1>3. Grown(Challenge, Challenge) /\ Grown(HelloAck, HelloAck)
  BY DEF Challenge, HelloAck
<1>4. Grown(RawShred(f.have), RawShred(g.have))
  BY DEF RawShred
<1>5. Grown(LookupsComplete(f.n), LookupsComplete(f.n))
  <2>1. LookupsComplete(f.n).need \in Nat
    BY Padded DEF LookupsComplete, KeysAt, KEY_LEN
  <2>2. QED
    BY <2>1
<1>6. Grown(Dictionary(f.n), Dictionary(f.n))
  BY DEF Dictionary
<1>7. Grown(ErrorMessage(f.n, f.have), ErrorMessage(f.n, g.have))
  BY DEF ErrorMessage, Detail
<1>8. Grown(FilterAck(f.n, f.have), FilterAck(f.n, g.have))
  BY DEF FilterAck, Detail
<1>9. Grown(Whole(f.have), Whole(g.have))
  BY DEF Whole
<1>10. Grown(Reader(f), Reader(g))
  <2> HIDE DEF Grown
  <2>1. QED
    BY <1>1, <1>2, <1>3, <1>4, <1>5, <1>6, <1>7, <1>8, <1>9, ReaderOf
<1>11. QED
  BY <1>10

-----------------------------------------------------------------------------

(* An event is what the last frame came to, or what Transaction::read did. *)
Settled ==
  \/ event = Nothing
  \/ pc = "idle" /\ frame \in Frames /\ event = Outcome(frame)
  \/ pc = "read" /\ event = [got |-> "Transaction", fields |-> ScalarFields \cup CountFields]
  \/ pc = "refused" /\ event = Refused

LEMMA DecodesOrReads == BodiesNext => [Next]_txn
BY DEF BodiesNext, Decode, DecodeTransaction, ReadTransaction, EventDropped, Next, txn

(* Reading bodies of every kind, the SDK reads transactions as Transaction says, so *)
(* what is proved of it above holds here (events.rs:30-62, transaction.rs:114-203). *)
THEOREM ReadsTransactions == BodiesSpec => Spec
<1>1. BodiesInit => Init
  BY DEF BodiesInit
<1>2. [BodiesNext]_vars => [Next]_txn
  <2>1. UNCHANGED vars => UNCHANGED txn
    BY DEF vars
  <2>2. QED
    BY <2>1, DecodesOrReads
<1>3. QED
  BY <1>1, <1>2, PTL DEF BodiesSpec, Spec

LEMMA SettledInit == BodiesInit => Settled
BY DEF BodiesInit, Settled

LEMMA SettledNext == Settled /\ [BodiesNext]_vars => Settled'
<1> SUFFICES ASSUME Settled, [BodiesNext]_vars
             PROVE  Settled'
  OBVIOUS
<1>1. CASE Decode
  <2>1. pc' = "idle" /\ frame' \in Frames /\ event' = Outcome(frame')
    BY <1>1 DEF Decode, txn
  <2>2. QED
    BY <2>1 DEF Settled
<1>2. CASE DecodeTransaction
  BY <1>2 DEF DecodeTransaction, Settled
<1>3. CASE ReadTransaction
  BY <1>3 DEF ReadTransaction, Settled
<1>4. CASE EventDropped
  BY <1>4 DEF EventDropped, Settled
<1>5. CASE UNCHANGED vars
  BY <1>5 DEF vars, txn, Settled, Outcome, Expected, Reader
<1>6. QED
  BY <1>1, <1>2, <1>3, <1>4, <1>5 DEF BodiesNext

LEMMA BodiesInvariant == BodiesSpec => [](IInv /\ Settled)
<1>1. BodiesSpec => []Settled
  BY SettledInit, SettledNext, PTL DEF BodiesSpec
<1>2. QED
  BY <1>1, ReadsTransactions, Invariant, PTL

LEMMA FrameType ==
  ASSUME NEW f \in Frames
  PROVE  f.have \in Nat /\ f.n \in Nat
BY BodiesAssumption DEF Frames

(* A transaction that was accepted is no shorter than its header. *)
LEMMA HeaderThere ==
  ASSUME IInv, pc = "read"
  PROVE  body.have \in Nat /\ TX_HEADER_LEN <= body.have
<1>1. body \in Headers \cup {None} /\ Len(starts) = 8
  BY DEF IInv, TypeOK, Stage
<1>2. Ends[8] <= body.have
  BY <1>1 DEF IInv, Placed
<1>3. Ends[0] = TX_HEADER_LEN /\ Ends[0] <= Ends[8] /\ Ends[8] \in Nat
  BY <1>1, EndsOrdered
<1>4. QED
  BY <1>1, <1>2, <1>3, HeaderType DEF TX_HEADER_LEN

(* Whatever length the node gave a body and whatever it declares, no reader loads a *)
(* byte that is not there, and none loads a byte as part of two fields              *)
(* (events.rs:64-325, protocol.rs:169-660, transaction.rs:205-403).                 *)
THEOREM LoadsWhatIsThere == BodiesSpec => []FieldsInside
<1>1. ASSUME IInv, Settled
      PROVE  FieldsInside
  <2>1. CASE event.fields = {}
    BY <2>1 DEF FieldsInside
  <2>2. CASE pc = "idle" /\ frame \in Frames /\ event = Outcome(frame) /\ event # Refused
    <3>1. event.fields = Reader(frame).fields /\ Reader(frame).need <= frame.have
      <4>1. Enough(Reader(frame).need, frame.have)
        BY <2>2 DEF Outcome
      <4>2. event = [got |-> KindOf(frame.byte), fields |-> Reader(frame).fields]
        BY <2>2 DEF Outcome
      <4>3. Reader(frame).need <= frame.have
        BY <4>1, <2>2, FrameType DEF Enough
      <4>4. QED
        BY <4>2, <4>3
    <3>2. Within(event.fields, Have) /\ Apart(event.fields)
      BY <2>2, <3>1, FrameType, ReaderLaid DEF Laid, Have
    <3>3. QED
      BY <3>2 DEF FieldsInside, Within, Apart
  <2>3. CASE /\ pc = "read"
             /\ event = [got |-> "Transaction", fields |-> ScalarFields \cup CountFields]
    <3>1. event.fields = ScalarFields \cup CountFields /\ Have = body.have
      BY <2>3 DEF Have
    <3>2. /\ Whereabouts(event.fields) /\ Apart(event.fields)
          /\ Within(event.fields, TX_HEADER_LEN)
      BY <3>1, LaidTransaction
    <3>3. Within(event.fields, Have)
      BY <1>1, <2>3, <3>1, <3>2, HeaderThere DEF Within, Whereabouts, TX_HEADER_LEN
    <3>4. QED
      BY <3>2, <3>3 DEF FieldsInside, Within, Apart
  <2>4. QED
    BY <1>1, <2>1, <2>2, <2>3 DEF Settled, Nothing, Refused
<1>2. QED
  BY <1>1, BodiesInvariant, PTL

(* Of a body that was read, every field is found where it was when a newer node writes *)
(* more behind it, save the one that runs to the end of the body                       *)
(* (events.rs:19-28, protocol.rs:67-72, 595-599, 654-659).                             *)
THEOREM OldFieldsStay == BodiesSpec => []NewerNodeRead
<1>1. ASSUME Settled
      PROVE  NewerNodeRead
  <2> SUFFICES ASSUME event.got \notin {"nothing", "refused", "Transaction"},
                      NEW more \in 1..9
               PROVE  LET newer == Outcome([frame EXCEPT !.have = @ + more]) IN
                      /\ newer.got = event.got
                      /\ \A field \in event.fields \ newer.fields :
                           field[1] + field[2] = frame.have
    BY DEF NewerNodeRead
  <2> DEFINE g == [frame EXCEPT !.have = @ + more]
  <2>1. frame \in Frames /\ event = Outcome(frame) /\ event # Refused
    BY <1>1 DEF Settled, Nothing, Refused
  <2>2. /\ g.byte = frame.byte /\ g.streaming = frame.streaming /\ g.n = frame.n
        /\ g.have = frame.have + more
    BY <2>1 DEF Frames
  <2>3. /\ frame.have \in Nat /\ frame.n \in Nat /\ g.have \in Nat /\ frame.have <= g.have
    BY <2>1, <2>2, FrameType
  <2> HIDE DEF g
  <2>4. /\ Expected(frame) /\ (KindOf(frame.byte) = "Dictionary" => frame.n <= MaxDictionary)
        /\ Enough(Reader(frame).need, frame.have)
    BY <2>1 DEF Outcome
  <2>5. event = [got |-> KindOf(frame.byte), fields |-> Reader(frame).fields]
    BY <2>1, <2>4 DEF Outcome
  <2>6. Reader(frame).need <= frame.have
    BY <2>3, <2>4 DEF Enough
  <2>7. /\ Reader(g).need <= g.have
        /\ \A field \in Reader(frame).fields \ Reader(g).fields :
             field[1] + field[2] = frame.have
    BY <2>2, <2>3, <2>6, ReaderGrown
  <2>8. Outcome(g) = [got |-> KindOf(g.byte), fields |-> Reader(g).fields]
    <3>1. Expected(g) /\ (KindOf(g.byte) = "Dictionary" => g.n <= MaxDictionary)
      BY <2>2, <2>4 DEF Expected
    <3>2. Enough(Reader(g).need, g.have)
      BY <2>7 DEF Enough
    <3>3. QED
      BY <3>1, <3>2 DEF Outcome
  <2>9. QED
    BY <2>2, <2>5, <2>7, <2>8 DEF g
<1>2. QED
  BY <1>1, BodiesInvariant, PTL

-----------------------------------------------------------------------------
(* The dictionary cache *)

(* Where a process is that has nothing in the making. *)
Quiet == {"idle", "listing", "trying", "removing", "touching", "opening", "stamping", "pruning"}

Writers == {p \in Procs : Writing(p)}

Types ==
  /\ doing \in [Procs -> Quiet \cup {"create", "filling", "rename"}]
  /\ id \in [Procs -> Ids]
  /\ call \in [Procs -> Nat]
  /\ calls \in Nat
  /\ crashes \in Nat /\ littered \in Nat /\ spared \in Nat
  /\ clock \in Nat \ {0, 1}

(* Stores are numbered one after the other, and those that write have numbers. *)
Numbered ==
  /\ \A p \in Procs : call[p] <= calls
  /\ \A p \in Procs : doing[p] \notin Quiet => call[p] > 0
  /\ \A p, q \in Procs : p # q /\ call[p] > 0 => call[p] # call[q]

(* Whoever writes has its own temporary file, and renames none that is not whole. *)
OwnFiles ==
  /\ \A p \in Procs : Writing(p) => Temp(p) \in DOMAIN temps
  /\ \A p \in Procs : doing[p] = "rename" => temps[Temp(p)] > 0

(* There are no more temporary files than stores under way, processes that died, and
   files the file system refused to remove. *)
FewFiles ==
  /\ IsFiniteSet(DOMAIN temps)
  /\ Cardinality(DOMAIN temps) <= Cardinality(Writers) + crashes + littered

CacheInv ==
  /\ Types
  /\ Numbered
  /\ OwnFiles
  /\ FewFiles
  /\ PublishedWhole

-----------------------------------------------------------------------------
(* The unique name of a temporary file is what keeps two stores apart. *)
LEMMA OwnName ==
  ASSUME CacheInv, NEW p \in Procs, NEW q \in Procs, p # q, doing[p] \notin Quiet
  PROVE  Temp(p) # Temp(q)
<1>1. call[p] # call[q]
  BY DEF CacheInv, Numbered
<1>2. QED
  BY <1>1 DEF Temp

LEMMA FiniteWriters == IsFiniteSet(Procs) => IsFiniteSet(Writers)
BY FS_Subset DEF Writers

-----------------------------------------------------------------------------

LEMMA CacheInvInit == DictCacheAssumption /\ CacheInit => CacheInv
<1> SUFFICES ASSUME DictCacheAssumption, CacheInit
             PROVE  CacheInv
  OBVIOUS
<1>1. Types /\ Numbered /\ OwnFiles /\ PublishedWhole
  BY DEF CacheInit, Types, Quiet, Numbered, OwnFiles, Writing, PublishedWhole
<1>2. FewFiles
  <2>1. DOMAIN temps = {}
    BY DEF CacheInit
  <2>2. IsFiniteSet({}) /\ Cardinality({}) = 0
    BY FS_EmptySet
  <2>3. Writers = {} /\ crashes = 0 /\ littered = 0
    BY DEF CacheInit, Writers, Writing
  <2>4. QED
    BY <2>1, <2>2, <2>3 DEF FewFiles
<1>3. QED
  BY <1>1, <1>2 DEF CacheInv

(* A step of a process that is not storing disturbs no store. *)
LEMMA QuietKeeps ==
  ASSUME CacheInv, NEW p \in Procs, NEW where \in Quiet, doing[p] \in Quiet,
         doing' = [doing EXCEPT ![p] = where],
         UNCHANGED <<temps, call, calls, crashes, littered>>, spared' \in Nat,
         clock' \in Nat \ {0, 1},
         id' \in [Procs -> Ids], \A q \in Procs : q # p => id'[q] = id[q],
         PublishedWhole'
  PROVE  CacheInv'
<1>1. Types'
  BY DEF CacheInv, Types
<1>2. \A q \in Procs : doing'[q] \notin Quiet => q # p /\ doing'[q] = doing[q] /\ Temp(q)' = Temp(q)
  BY DEF CacheInv, Types, Temp
<1>3. Numbered'
  BY <1>2 DEF CacheInv, Numbered
<1>4. OwnFiles'
  BY <1>2 DEF CacheInv, OwnFiles, Writing, Quiet
<1>5. FewFiles'
  <2>1. Writers' = Writers
    BY DEF CacheInv, Types, Writers, Writing, Quiet
  <2>2. QED
    BY <2>1 DEF CacheInv, FewFiles
<1>6. QED
  BY <1>1, <1>3, <1>4, <1>5 DEF CacheInv

(* A store takes the next number, which no other has. *)
LEMMA BeginsKeeps ==
  ASSUME CacheInv, NEW p \in Procs, NEW what, NEW where \in {"listing", "create"},
         Begins(p, what, where),
         \/ where = "listing" /\ call' = call
         \/ where = "create" /\ call' = [call EXCEPT ![p] = calls + 1],
         id' \in [Procs -> Ids], \A q \in Procs : q # p => id'[q] = id[q]
  PROVE  CacheInv'
<1> USE DEF Begins, Goes, files
<1>1. Types'
  <2>1. doing' \in [Procs -> Quiet \cup {"create", "filling", "rename"}]
    BY DEF CacheInv, Types, Quiet
  <2>2. call' \in [Procs -> Nat] /\ calls' \in Nat
    BY DEF CacheInv, Types
  <2>3. QED
    BY <2>1, <2>2 DEF CacheInv, Types
<1>2. Numbered'
  BY DEF CacheInv, Types, Numbered, Quiet
<1>3. \A q \in Procs : doing'[q] \in {"filling", "rename"} =>
        q # p /\ doing'[q] = doing[q] /\ Temp(q)' = Temp(q)
  BY DEF CacheInv, Types, Temp
<1>4. OwnFiles'
  BY <1>3 DEF CacheInv, OwnFiles, Writing
<1>5. FewFiles'
  <2>1. Writers' = Writers
    BY DEF CacheInv, Types, Writers, Writing
  <2>2. QED
    BY <2>1 DEF CacheInv, FewFiles
<1>6. PublishedWhole'
  BY DEF CacheInv, PublishedWhole
<1>7. QED
  BY <1>1, <1>2, <1>4, <1>5, <1>6 DEF CacheInv

LEMMA CreateKeeps ==
  ASSUME DictCacheAssumption, CacheInv, NEW p \in Procs, Create(p)
  PROVE  CacheInv'
<1> USE DEF Create, Goes, place, toll
<1>1. Types'
  BY DEF CacheInv, Types
<1>2. Numbered'
  BY DEF CacheInv, Types, Numbered, Quiet
<1>3. /\ DOMAIN temps' = DOMAIN temps \cup {Temp(p)}
      /\ \A y \in DOMAIN temps : y # Temp(p) => temps'[y] = temps[y]
  BY DEF With
<1>4. \A q \in Procs : q # p => Temp(q) # Temp(p)
  BY OwnName DEF CacheInv, Types, Quiet
<1>5. \A q \in Procs : Temp(q)' = Temp(q) /\ (q # p => doing'[q] = doing[q])
  BY DEF CacheInv, Types, Temp
<1>6. doing'[p] = "filling"
  BY DEF CacheInv, Types
<1>7. OwnFiles'
  BY <1>3, <1>4, <1>5, <1>6 DEF CacheInv, OwnFiles, Writing
<1>8. FewFiles'
  <2>1. Writers' = Writers \cup {p} /\ p \notin Writers
    BY <1>5, <1>6 DEF Writers, Writing
  <2>2. IsFiniteSet(Writers)
    BY FiniteWriters DEF DictCacheAssumption
  <2>3. Cardinality(Writers') = Cardinality(Writers) + 1
    BY <2>1, <2>2, FS_AddElement
  <2>4. /\ IsFiniteSet(DOMAIN temps')
        /\ Cardinality(DOMAIN temps') =
             IF Temp(p) \in DOMAIN temps THEN Cardinality(DOMAIN temps)
                                         ELSE Cardinality(DOMAIN temps) + 1
    BY <1>3, FS_AddElement DEF CacheInv, FewFiles
  <2>5. Cardinality(Writers) \in Nat /\ Cardinality(DOMAIN temps) \in Nat
    BY <2>2, FS_CardinalityType DEF CacheInv, FewFiles
  <2>6. QED
    BY <2>3, <2>4, <2>5 DEF CacheInv, Types, FewFiles
<1>9. PublishedWhole'
  BY DEF CacheInv, PublishedWhole
<1>10. QED
  BY <1>1, <1>2, <1>7, <1>8, <1>9 DEF CacheInv

(* The file is whole once its bytes are there: it then has the time of the write. *)
LEMMA FillKeeps ==
  ASSUME CacheInv, NEW p \in Procs, Fill(p)
  PROVE  CacheInv'
<1> USE DEF Fill, Goes, place, toll
<1>1. Types'
  BY DEF CacheInv, Types
<1>2. Numbered'
  BY DEF CacheInv, Types, Numbered, Quiet
<1>3. PICK t \in {clock - 1, clock} : temps' = With(temps, Temp(p), t)
  OBVIOUS
<1>4. t > 0
  BY DEF CacheInv, Types
<1>5. /\ DOMAIN temps' = DOMAIN temps \cup {Temp(p)}
      /\ temps'[Temp(p)] = t
      /\ \A y \in DOMAIN temps : y # Temp(p) => temps'[y] = temps[y]
  BY <1>3 DEF With
<1>6. \A q \in Procs : q # p => Temp(q) # Temp(p)
  BY OwnName DEF CacheInv, Types, Quiet
<1>7. \A q \in Procs : Temp(q)' = Temp(q) /\ (q # p => doing'[q] = doing[q])
  BY DEF CacheInv, Types, Temp
<1>8. OwnFiles'
  BY <1>4, <1>5, <1>6, <1>7 DEF CacheInv, OwnFiles, Writing
<1>9. FewFiles'
  <2>1. Writers' = Writers
    BY DEF CacheInv, Types, Writers, Writing
  <2>2. DOMAIN temps' = DOMAIN temps
    BY <1>5 DEF CacheInv, OwnFiles, Writing
  <2>3. QED
    BY <2>1, <2>2 DEF CacheInv, FewFiles
<1>10. PublishedWhole'
  BY DEF CacheInv, PublishedWhole
<1>11. QED
  BY <1>1, <1>2, <1>8, <1>9, <1>10 DEF CacheInv

(* A store has done with its temporary file: it takes it along, or the file is counted as
   one that it was refused to remove. *)
LEMMA EndKeeps ==
  ASSUME DictCacheAssumption, CacheInv, NEW p \in Procs, NEW where \in Quiet,
         doing[p] \notin Quiet,
         doing' = [doing EXCEPT ![p] = where],
         \/ temps' = Without(temps, Temp(p)) /\ littered' = littered
         \/ temps' = temps /\ littered' = littered + 1,
         call' = [call EXCEPT ![p] = 0],
         UNCHANGED <<clock, id, calls, crashes, spared>>,
         PublishedWhole'
  PROVE  CacheInv'
<1>1. Types'
  BY DEF CacheInv, Types
<1>2. Numbered'
  BY DEF CacheInv, Types, Numbered
<1>3. /\ \/ DOMAIN temps' = DOMAIN temps \ {Temp(p)} /\ littered' = littered
         \/ DOMAIN temps' = DOMAIN temps /\ littered' = littered + 1
      /\ \A y \in DOMAIN temps : y # Temp(p) => y \in DOMAIN temps' /\ temps'[y] = temps[y]
  BY DEF Without
<1>4. \A q \in Procs : q # p => Temp(q) # Temp(p)
  BY OwnName
<1>5. \A q \in Procs : q # p => Temp(q)' = Temp(q) /\ doing'[q] = doing[q]
  BY DEF CacheInv, Types, Temp
<1>6. doing'[p] \in Quiet
  BY DEF CacheInv, Types
<1>7. OwnFiles'
  BY <1>3, <1>4, <1>5, <1>6 DEF CacheInv, OwnFiles, Writing, Quiet
<1>8. FewFiles'
  <2>1. IsFiniteSet(Writers)
    BY FiniteWriters DEF DictCacheAssumption
  <2>2. /\ IsFiniteSet(DOMAIN temps')
        /\ \/ Cardinality(DOMAIN temps') = Cardinality(DOMAIN temps) /\ littered' = littered + 1
           \/ /\ littered' = littered
              /\ Cardinality(DOMAIN temps') =
                   IF Temp(p) \in DOMAIN temps THEN Cardinality(DOMAIN temps) - 1
                                               ELSE Cardinality(DOMAIN temps)
    BY <1>3, FS_RemoveElement DEF CacheInv, FewFiles
  <2>3. Writers' = Writers \ {p}
    BY <1>5, <1>6 DEF Writers, Writing, Quiet
  <2>4. Cardinality(Writers') =
          IF p \in Writers THEN Cardinality(Writers) - 1 ELSE Cardinality(Writers)
    BY <2>1, <2>3, FS_RemoveElement
  <2>5. p \in Writers => Temp(p) \in DOMAIN temps
    BY DEF CacheInv, OwnFiles, Writers
  <2>6. Cardinality(Writers) \in Nat /\ Cardinality(DOMAIN temps) \in Nat
    BY <2>1, FS_CardinalityType DEF CacheInv, FewFiles
  <2>7. QED
    BY <2>2, <2>4, <2>5, <2>6 DEF CacheInv, Types, FewFiles
<1>9. QED
  BY <1>1, <1>2, <1>7, <1>8 DEF CacheInv

(* What a process that dies leaves behind is counted. *)
LEMMA CrashKeeps ==
  ASSUME DictCacheAssumption, CacheInv, NEW p \in Procs, Crash(p)
  PROVE  CacheInv'
<1> USE DEF Crash, Returns, Goes
<1>1. Types'
  BY DEF CacheInv, Types, Quiet
<1>2. Numbered'
  BY DEF CacheInv, Types, Numbered, Quiet
<1>3. \A q \in Procs : q # p => Temp(q)' = Temp(q) /\ doing'[q] = doing[q]
  BY DEF CacheInv, Types, Temp
<1>4. doing'[p] = "idle"
  BY DEF CacheInv, Types
<1>5. OwnFiles'
  BY <1>3, <1>4 DEF CacheInv, OwnFiles, Writing
<1>6. FewFiles'
  <2>1. IsFiniteSet(Writers)
    BY FiniteWriters DEF DictCacheAssumption
  <2>2. Writers' = Writers \ {p}
    BY <1>3, <1>4 DEF Writers, Writing
  <2>3. Cardinality(Writers') =
          IF p \in Writers THEN Cardinality(Writers) - 1 ELSE Cardinality(Writers)
    BY <2>1, <2>2, FS_RemoveElement
  <2>4. Cardinality(Writers) \in Nat /\ Cardinality(DOMAIN temps) \in Nat
    BY <2>1, FS_CardinalityType DEF CacheInv, FewFiles
  <2>5. QED
    BY <2>3, <2>4 DEF CacheInv, Types, FewFiles
<1>7. PublishedWhole'
  BY DEF CacheInv, PublishedWhole
<1>8. QED
  BY <1>1, <1>2, <1>5, <1>6, <1>7 DEF CacheInv

-----------------------------------------------------------------------------

LEMMA StepKeeps ==
  ASSUME DictCacheAssumption, CacheInv, NEW p \in Procs, Step(p)
  PROVE  CacheInv'
<1> USE DEF Goes, Returns, files, place, toll, scan
<1>0. /\ id \in [Procs -> Ids]
      /\ clock \in Nat \ {0, 1}
      /\ doing = [doing EXCEPT ![p] = doing[p]]
      /\ spared \in Nat
      /\ PublishedWhole
  BY DEF CacheInv, Types
<1>1. CASE Newest(p)
  <2>1. PublishedWhole'
    BY <1>0, <1>1 DEF Newest, Begins, PublishedWhole
  <2>2. QED
    BY <1>0, <1>1, <2>1, BeginsKeeps DEF Newest
<1>2. CASE Store(p)
  <2>1. id' \in [Procs -> Ids] /\ \A q \in Procs : q # p => id'[q] = id[q]
    BY <1>0, <1>2 DEF Store
  <2>2. QED
    BY <1>2, <2>1, BeginsKeeps DEF Store
<1>3. CASE List(p) \/ ListFails(p) \/ Listed(p) \/ NoneLeft(p) \/ Stored(p)
  <2>1. PublishedWhole'
    BY <1>0, <1>3 DEF List, ListFails, Listed, NoneLeft, Stored, PublishedWhole
  <2>2. \E where \in Quiet : doing' = [doing EXCEPT ![p] = where]
    BY <1>0, <1>3 DEF List, ListFails, Listed, NoneLeft, Stored, Quiet
  <2>3. doing[p] \in Quiet /\ spared' \in Nat
    BY <1>0, <1>3 DEF List, ListFails, Listed, NoneLeft, Stored, Quiet
  <2>4. UNCHANGED <<temps, clock, id, call, calls, crashes, littered>>
    BY <1>3 DEF List, ListFails, Listed, NoneLeft, Stored
  <2>5. QED
    BY <1>0, <2>1, <2>2, <2>3, <2>4, QuietKeeps
<1>4. CASE Load(p)
  <2>1. id' \in [Procs -> Ids] /\ \A q \in Procs : q # p => id'[q] = id[q]
    BY <1>0, <1>4 DEF Load
  <2>2. PublishedWhole'
    BY <1>0, <1>4 DEF Load, PublishedWhole
  <2>3. \E where \in Quiet : doing' = [doing EXCEPT ![p] = where]
    BY <1>0, <1>4 DEF Load, Quiet
  <2>4. QED
    BY <1>0, <1>4, <2>1, <2>2, <2>3, QuietKeeps DEF Load, Quiet
<1>5. CASE Discard(p)
  <2>1. PublishedWhole'
    BY <1>0, <1>5 DEF Discard, Removes, PublishedWhole
  <2>2. QED
    BY <1>0, <1>5, <2>1, QuietKeeps DEF Discard, Removes, Quiet
<1>6. CASE Prune(p)
  <2>1. PICK d \in Ids : \/ Removes(p, d) /\ spared' = spared
                         \/ UNCHANGED <<files, damaged>> /\ spared' = spared + 1
    BY <1>6 DEF Prune
  <2>2. PublishedWhole' /\ temps' = temps /\ clock' = clock /\ spared' \in Nat
    BY <1>0, <2>1 DEF Removes, PublishedWhole
  <2>3. QED
    BY <1>0, <1>6, <2>2, QuietKeeps DEF Prune, Quiet
<1>7. CASE ReadClock(p) \/ Open(p) \/ TouchFails(p) \/ SetTimes(p)
  <2>1. PublishedWhole'
    BY <1>0, <1>7 DEF ReadClock, Open, TouchFails, SetTimes, Touched, PublishedWhole
  <2>2. clock' \in Nat \ {0, 1}
    BY <1>0, <1>7 DEF ReadClock, Open, TouchFails, SetTimes, Touched
  <2>3. \E where \in Quiet : doing' = [doing EXCEPT ![p] = where]
    BY <1>7 DEF ReadClock, Open, TouchFails, SetTimes, Touched, Quiet
  <2>4. doing[p] \in Quiet /\ UNCHANGED <<temps, id, call, calls, crashes, littered, spared>>
    BY <1>7 DEF ReadClock, Open, TouchFails, SetTimes, Touched, Quiet
  <2>5. QED
    BY <1>0, <2>1, <2>2, <2>3, <2>4, QuietKeeps
<1>8. CASE Create(p) \/ Fill(p) \/ Crash(p)
  BY <1>8, CreateKeeps, FillKeeps, CrashKeeps
<1>9. CASE StoreFails(p)
  <2>1. PublishedWhole'
    BY <1>0, <1>9 DEF StoreFails, PublishedWhole
  <2>2. QED
    BY <1>9, <2>1, EndKeeps DEF StoreFails, Swept, Quiet
<1>10. CASE Rename(p)
  <2>1. temps[Temp(p)] > 0
    BY <1>10 DEF Rename, CacheInv, OwnFiles
  <2>2. PublishedWhole'
    BY <1>0, <1>10, <2>1 DEF Rename, PublishedWhole
  <2>3. QED
    BY <1>10, <2>2, EndKeeps DEF Rename, Quiet
<1>11. QED
  BY <1>1, <1>2, <1>3, <1>4, <1>5, <1>6, <1>7, <1>8, <1>9, <1>10 DEF Step

LEMMA CacheInvNext == DictCacheAssumption /\ CacheInv /\ [CacheNext]_cacheVars => CacheInv'
<1> SUFFICES ASSUME DictCacheAssumption, CacheInv, [CacheNext]_cacheVars
             PROVE  CacheInv'
  OBVIOUS
<1> USE DEF files, place, toll, scan
<1>1. ASSUME NEW p \in Procs, Step(p)
      PROVE  CacheInv'
  BY <1>1, StepKeeps
<1>2. ASSUME UNCHANGED <<temps, clock, place, doing>>, PublishedWhole'
      PROVE  CacheInv'
  <2>1. Types' /\ Numbered'
    BY <1>2 DEF CacheInv, Types, Numbered
  <2>2. OwnFiles' /\ Writers' = Writers
    BY <1>2 DEF CacheInv, OwnFiles, Writing, Temp, Writers
  <2>3. FewFiles'
    BY <1>2, <2>2 DEF CacheInv, FewFiles
  <2>4. QED
    BY <1>2, <2>1, <2>2, <2>3 DEF CacheInv
<1>3. ASSUME NEW d \in Ids, Damage(d)
      PROVE  CacheInv'
  <2>1. PublishedWhole'
    BY <1>3 DEF CacheInv, Damage, PublishedWhole
  <2>2. QED
    BY <1>2, <1>3, <2>1 DEF Damage
<1>4. CASE UNCHANGED cacheVars
  <2>1. PublishedWhole'
    BY <1>4 DEF CacheInv, cacheVars, PublishedWhole
  <2>2. QED
    BY <1>2, <1>4, <2>1 DEF cacheVars
<1>5. QED
  BY <1>1, <1>3, <1>4 DEF CacheNext

LEMMA Invariance == CacheSpec => []CacheInv
<1>1. CacheInit => CacheInv
  BY DictCacheAssumption, CacheInvInit
<1>2. CacheInv /\ [CacheNext]_cacheVars => CacheInv'
  BY DictCacheAssumption, CacheInvNext
<1>3. QED
  BY <1>1, <1>2, PTL DEF CacheSpec

(* However many processes store the same dictionary, and wherever they die, the file
   under its name is the whole of it unless something else damaged it
   (dictcache.rs:152-171). *)
THEOREM Published == CacheSpec => []PublishedWhole
BY Invariance, PTL DEF CacheInv

(* A store keeps the file it writes to, and none is left but by a process that died or
   one that was refused to remove it (dictcache.rs:164-175). *)
THEOREM Tidy == CacheSpec => []NoLitter
<1>1. CacheInv => NoLitter
  BY DEF CacheInv, OwnFiles, FewFiles, Writers, NoLitter
<1>2. QED
  BY <1>1, Invariance, PTL

-----------------------------------------------------------------------------
(* What a process listed, and where it is with that *)

Listings == UNION {[s -> Nat] : s \in SUBSET Ids}

ScanTypes ==
  /\ held \in SUBSET Ids /\ IsFiniteSet(held)
  /\ whole \subseteq held
  /\ used \in [Ids -> Nat] /\ last \in [Ids -> Nat]
  /\ op \in [Procs -> {"none", "newest", "store"}]
  /\ stamp \in [Procs -> Nat]
  /\ unseen \in [Procs -> SUBSET Ids]
  /\ list \in [Procs -> Listings] /\ \A p \in Procs : IsFiniteSet(DOMAIN list[p])
  /\ stale \in [Procs -> SUBSET Ids] /\ \A p \in Procs : IsFiniteSet(stale[p])
  /\ \A x \in DOMAIN temps : temps[x] \in Nat

(* Which call a process is in, that it lists every name before it goes on, and that it
   has no listing but while it looks. *)
Places ==
  \A p \in Procs :
    /\ doing[p] \in {"create", "filling", "rename", "pruning"} => op[p] = "store"
    /\ doing[p] \in {"trying", "removing"} => op[p] = "newest"
    /\ doing[p] \in {"trying", "removing", "pruning"} => unseen[p] = {}
    /\ ~Looking(p) => DOMAIN list[p] = {}

LEMMA ListingTypes ==
  ASSUME NEW l \in Listings
  PROVE  /\ DOMAIN l \subseteq Ids /\ \A d \in DOMAIN l : l[d] \in Nat
         /\ \A d \in Ids : \A t \in Nat : /\ With(l, d, t) \in Listings
                                /\ DOMAIN With(l, d, t) = DOMAIN l \cup {d}
         /\ \A d : Without(l, d) \in Listings /\ DOMAIN Without(l, d) = DOMAIN l \ {d}
         /\ \A r \in SUBSET DOMAIN l : [d \in r |-> l[d]] \in Listings
<1>1. PICK s \in SUBSET Ids : l \in [s -> Nat]
  BY DEF Listings
<1>2. DOMAIN l = s /\ \A d \in s : l[d] \in Nat
  BY <1>1
<1>3. ASSUME NEW d \in Ids, NEW t \in Nat
      PROVE  With(l, d, t) \in Listings /\ DOMAIN With(l, d, t) = DOMAIN l \cup {d}
  <2>1. With(l, d, t) \in [s \cup {d} -> Nat]
    BY <1>2 DEF With
  <2>2. s \cup {d} \in SUBSET Ids
    OBVIOUS
  <2>3. QED
    BY <1>2, <2>1, <2>2 DEF Listings, With
<1>4. ASSUME NEW d
      PROVE  Without(l, d) \in Listings /\ DOMAIN Without(l, d) = DOMAIN l \ {d}
  <2>1. Without(l, d) \in [s \ {d} -> Nat]
    BY <1>2 DEF Without
  <2>2. s \ {d} \in SUBSET Ids
    OBVIOUS
  <2>3. QED
    BY <1>2, <2>1, <2>2 DEF Listings, Without
<1>5. ASSUME NEW r \in SUBSET DOMAIN l
      PROVE  [d \in r |-> l[d]] \in Listings
  <2>1. [d \in r |-> l[d]] \in [r -> Nat] /\ r \in SUBSET Ids
    BY <1>2
  <2>2. QED
    BY <2>1 DEF Listings
<1>6. QED
  BY <1>2, <1>3, <1>4, <1>5

LEMMA NothingListed == <<>> \in Listings /\ DOMAIN <<>> = {} /\ IsFiniteSet(DOMAIN <<>>)
<1>1. <<>> \in [{} -> Nat] /\ {} \in SUBSET Ids
  OBVIOUS
<1>2. QED
  BY <1>1, FS_EmptySet DEF Listings

LEMMA ScansInit == CacheInit => ScanTypes /\ Places
BY NothingListed, FS_EmptySet DEF CacheInit, ScanTypes, Places

LEMMA ScansNext == CacheInv /\ ScanTypes /\ Places /\ [CacheNext]_cacheVars => ScanTypes' /\ Places'
<1> SUFFICES ASSUME CacheInv, ScanTypes, Places, [CacheNext]_cacheVars
             PROVE  ScanTypes' /\ Places'
  OBVIOUS
<1> USE DEF files, place, toll, scan, Goes, Returns
<1>0. /\ id \in [Procs -> Ids] /\ clock \in Nat \ {0, 1}
      /\ doing \in [Procs -> Quiet \cup {"create", "filling", "rename"}]
  BY DEF CacheInv, Types
(* The temporary files. *)
<1>1. ASSUME NEW p \in Procs, Step(p)
      PROVE  \A x \in DOMAIN temps' : temps'[x] \in Nat
  <2> USE <1>0 DEF ScanTypes
  <2>1. ASSUME NEW t \in Nat, temps' = With(temps, Temp(p), t)
        PROVE  \A x \in DOMAIN temps' : temps'[x] \in Nat
    BY <2>1 DEF With
  <2>2. CASE Create(p)
    BY <2>1, <2>2 DEF Create
  <2>3. CASE Fill(p)
    <3>1. PICK t \in {clock - 1, clock} : temps' = With(temps, Temp(p), t)
      BY <2>3 DEF Fill
    <3>2. QED
      BY <2>1, <3>1
  <2>4. CASE StoreFails(p) \/ Rename(p)
    <3>1. temps' = Without(temps, Temp(p)) \/ temps' = temps
      BY <2>4 DEF StoreFails, Swept, Rename
    <3>2. QED
      BY <3>1 DEF Without
  <2>5. CASE Newest(p) \/ Store(p) \/ List(p) \/ ListFails(p) \/ Listed(p) \/ NoneLeft(p)
               \/ Load(p) \/ Discard(p) \/ ReadClock(p) \/ Open(p) \/ TouchFails(p) \/ SetTimes(p)
               \/ Prune(p) \/ Stored(p) \/ Crash(p)
    <3>1. temps' = temps
      BY <2>5 DEF Newest, Store, Begins, List, ListFails, Listed, NoneLeft, Load, Discard, Removes,
           ReadClock, Open, TouchFails, SetTimes, Touched, Prune, Stored, Crash
    <3>2. QED
      BY <3>1
  <2>6. QED
    BY <1>1, <2>2, <2>3, <2>4, <2>5 DEF Step
(* The listings. *)
<1>2. ASSUME NEW p \in Procs, Step(p)
      PROVE  /\ list' \in [Procs -> Listings] /\ \A q \in Procs : IsFiniteSet(DOMAIN list'[q])
             /\ unseen' \in [Procs -> SUBSET Ids]
  <2> USE <1>0 DEF ScanTypes
  <2>1. ASSUME Looked(p)
        PROVE  /\ list' \in [Procs -> Listings] /\ \A q \in Procs : IsFiniteSet(DOMAIN list'[q])
               /\ unseen' \in [Procs -> SUBSET Ids]
    BY <2>1, NothingListed DEF Looked
  <2>2. CASE List(p)
    <3>1. PICK d \in unseen[p] :
            /\ unseen' = [unseen EXCEPT ![p] = @ \ {d}]
            /\ \/ list' = [list EXCEPT ![p] = With(@, d, used[d])]
               \/ list' = [list EXCEPT ![p] = With(@, d, 0)]
               \/ list' = list
      BY <2>2 DEF List
    <3>2. d \in Ids /\ used[d] \in Nat /\ list[p] \in Listings
      BY <3>1
    <3>3. \A t \in Nat : /\ With(list[p], d, t) \in Listings
                         /\ DOMAIN With(list[p], d, t) = DOMAIN list[p] \cup {d}
      BY <3>2, ListingTypes
    <3>4. IsFiniteSet(DOMAIN list[p] \cup {d})
      BY FS_AddElement
    <3>5. unseen' \in [Procs -> SUBSET Ids]
      BY <3>1
    <3>6. CASE UNCHANGED list
      BY <3>5, <3>6
    <3>7. ASSUME NEW l \in Listings, IsFiniteSet(DOMAIN l), list' = [list EXCEPT ![p] = l]
          PROVE  list' \in [Procs -> Listings] /\ \A q \in Procs : IsFiniteSet(DOMAIN list'[q])
      BY <3>7
    <3>8. ASSUME NEW t \in Nat, list' = [list EXCEPT ![p] = With(@, d, t)]
          PROVE  list' \in [Procs -> Listings] /\ \A q \in Procs : IsFiniteSet(DOMAIN list'[q])
      <4>1. list' = [list EXCEPT ![p] = With(list[p], d, t)]
        BY <3>8
      <4>2. With(list[p], d, t) \in Listings /\ IsFiniteSet(DOMAIN With(list[p], d, t))
        BY <3>3, <3>4
      <4>3. QED
        BY <3>7, <4>1, <4>2
    <3>9. QED
      BY <3>1, <3>2, <3>5, <3>6, <3>8
  <2>3. CASE Listed(p)
    <3>1. CASE UNCHANGED list
      BY <2>3, <3>1 DEF Listed
    <3>2. ASSUME NEW r \in Pruned(p), list' = [list EXCEPT ![p] = [d \in r |-> @[d]]]
          PROVE  list' \in [Procs -> Listings] /\ \A q \in Procs : IsFiniteSet(DOMAIN list'[q])
      <4>1. r \in SUBSET DOMAIN list[p]
        BY DEF Pruned, Rest
      <4>2. [d \in r |-> list[p][d]] \in Listings /\ IsFiniteSet(r)
        BY <4>1, ListingTypes, FS_Subset
      <4>3. QED
        BY <3>2, <4>2
    <3>3. QED
      BY <2>3, <3>1, <3>2 DEF Listed
  <2>4. CASE Load(p) \/ Prune(p)
    <3>1. PICK d \in Ids : \/ list' = [list EXCEPT ![p] = Without(@, d)] /\ unseen' = unseen
                           \/ Looked(p)
      BY <2>4 DEF Load, Others, Prune
    <3>2. /\ Without(list[p], d) \in Listings
          /\ DOMAIN Without(list[p], d) = DOMAIN list[p] \ {d}
      BY ListingTypes
    <3>3. IsFiniteSet(DOMAIN list[p] \ {d})
      BY FS_RemoveElement
    <3>4. CASE list' = [list EXCEPT ![p] = Without(@, d)] /\ unseen' = unseen
      BY <3>2, <3>3, <3>4
    <3>5. QED
      BY <2>1, <3>1, <3>4
  <2>5. CASE Newest(p) \/ ListFails(p) \/ TouchFails(p) \/ SetTimes(p)
    BY <2>5 DEF Newest, Listing, ListFails, TouchFails, SetTimes, Touched
  <2>6. CASE Store(p) \/ Discard(p) \/ ReadClock(p) \/ Open(p) \/ Create(p) \/ Fill(p)
               \/ StoreFails(p) \/ Rename(p)
    BY <2>6 DEF Store, Discard, ReadClock, Open, Create, Fill, StoreFails, Rename
  <2>7. CASE NoneLeft(p) \/ Stored(p) \/ Crash(p)
    BY <2>1, <2>7 DEF NoneLeft, Stored, Crash
  <2>8. QED
    BY <1>2, <2>2, <2>3, <2>4, <2>5, <2>6, <2>7 DEF Step
(* What of them is stale: a set that grows by one file, or by files there are. *)
<1>3. ASSUME NEW p \in Procs, Step(p)
      PROVE  stale' \in [Procs -> SUBSET Ids] /\ \A q \in Procs : IsFiniteSet(stale'[q])
  <2> USE <1>0 DEF ScanTypes
  <2>1. ASSUME NEW who, NEW d \in Ids, Disturbs(who, d)
        PROVE  stale' \in [Procs -> SUBSET Ids] /\ \A q \in Procs : IsFiniteSet(stale'[q])
    <3>1. \A q \in Procs : IsFiniteSet(stale[q] \cup {d})
      BY FS_AddElement
    <3>2. QED
      BY <2>1, <3>1 DEF Disturbs
  <2>2. ASSUME NEW S \in SUBSET Ids, IsFiniteSet(S), stale' = [stale EXCEPT ![p] = @ \cup S]
        PROVE  stale' \in [Procs -> SUBSET Ids] /\ \A q \in Procs : IsFiniteSet(stale'[q])
    <3>1. IsFiniteSet(stale[p] \cup S)
      BY <2>2, FS_Union
    <3>2. QED
      BY <2>2, <3>1
  <2>3. CASE NoneLeft(p) \/ Stored(p) \/ Crash(p)
    BY <2>3, FS_EmptySet DEF NoneLeft, Stored, Crash, Looked
  <2>4. CASE List(p)
    <3>1. PICK d \in Ids : stale' = stale \/ stale' = [stale EXCEPT ![p] = @ \cup {d}]
      BY <2>4 DEF List
    <3>2. IsFiniteSet({d})
      BY FS_Singleton
    <3>3. QED
      BY <2>2, <3>1, <3>2
  <2>5. CASE ListFails(p)
    <3>1. IsFiniteSet(unseen[p] \cap held)
      BY FS_Subset
    <3>2. QED
      BY <2>2, <2>5, <3>1 DEF ListFails
  <2>6. CASE Load(p)
    <3>1. PICK d \in Ids : \/ stale' = stale \/ stale' = [stale EXCEPT ![p] = {}]
                           \/ stale' = [stale EXCEPT ![p] = @ \cup ({d} \cap held)]
      BY <2>6 DEF Load, Looked
    <3>2. IsFiniteSet({d} \cap held)
      BY FS_Subset
    <3>3. CASE stale' = [stale EXCEPT ![p] = {}]
      BY <3>3, FS_EmptySet
    <3>4. QED
      BY <2>2, <3>1, <3>2, <3>3
  <2>7. CASE Discard(p) \/ SetTimes(p) \/ Rename(p) \/ Prune(p)
    <3>1. \/ stale' = stale
          \/ \E d \in Ids, who \in SUBSET Procs : Disturbs(who, d)
      BY <2>7 DEF Discard, SetTimes, Rename, Prune, Removes
    <3>2. QED
      BY <2>1, <3>1
  <2>8. CASE Newest(p) \/ Store(p) \/ Listed(p) \/ ReadClock(p) \/ Open(p) \/ TouchFails(p)
               \/ Create(p) \/ Fill(p) \/ StoreFails(p)
    BY <2>8 DEF Newest, Store, Begins, Listed, ReadClock, Open, TouchFails, Create, Fill, StoreFails
  <2>9. QED
    BY <1>3, <2>3, <2>4, <2>5, <2>6, <2>7, <2>8 DEF Step
(* The files. *)
<1>4. ASSUME NEW p \in Procs, Step(p)
      PROVE  /\ held' \in SUBSET Ids /\ IsFiniteSet(held') /\ whole' \subseteq held'
             /\ used' \in [Ids -> Nat] /\ last' \in [Ids -> Nat]
  <2> USE <1>0 DEF ScanTypes
  <2>1. CASE Discard(p) \/ Prune(p)
    <3>1. PICK d \in Ids : Removes(p, d) \/ UNCHANGED files
      BY <2>1 DEF Discard, Prune
    <3>2. IsFiniteSet(held \ {d})
      BY FS_RemoveElement
    <3>3. CASE Removes(p, d)
      <4>1. held' = held \ {d} /\ whole' = whole \ {d} /\ last' = last
        BY <3>3 DEF Removes
      <4>2. used' \in [Ids -> Nat]
        BY <3>3 DEF Removes
      <4>3. QED
        BY <3>2, <4>1, <4>2
    <3>4. CASE UNCHANGED files
      BY <3>4
    <3>5. QED
      BY <3>1, <3>3, <3>4
  <2>2. CASE ReadClock(p) \/ Open(p) \/ TouchFails(p) \/ SetTimes(p)
    <3>1. CASE ReadClock(p)
      BY <3>1 DEF ReadClock
    <3>2. CASE Open(p) \/ TouchFails(p)
      BY <3>2 DEF Open, TouchFails, Touched
    <3>3. CASE SetTimes(p)
      BY <3>3 DEF SetTimes, Touched, Stamped
    <3>4. QED
      BY <2>2, <3>1, <3>2, <3>3
  <2>3. CASE Rename(p)
    <3>1. IsFiniteSet(held \cup {id[p]})
      BY FS_AddElement
    <3>2. id[p] \in Ids /\ temps[Temp(p)] \in Nat
      BY <2>3 DEF Rename
    <3>3. /\ held' = held \cup {id[p]} /\ whole' \subseteq held'
          /\ used' = [used EXCEPT ![id[p]] = temps[Temp(p)]]
          /\ last' = [last EXCEPT ![id[p]] = IF temps[Temp(p)] > @ THEN temps[Temp(p)] ELSE @]
      BY <2>3 DEF Rename
    <3>4. QED
      BY <3>1, <3>2, <3>3
  <2>4. CASE Newest(p) \/ Store(p) \/ List(p) \/ ListFails(p) \/ Listed(p) \/ NoneLeft(p)
               \/ Load(p) \/ Create(p) \/ Fill(p) \/ StoreFails(p) \/ Stored(p) \/ Crash(p)
    BY <2>4 DEF Newest, Store, Begins, List, ListFails, Listed, NoneLeft, Load, Create, Fill,
         StoreFails, Stored, Crash
  <2>5. QED
    BY <1>4, <2>1, <2>2, <2>3, <2>4 DEF Step
(* The call, and where in it the process is. *)
<1>5. ASSUME NEW p \in Procs, Step(p)
      PROVE  op' \in [Procs -> {"none", "newest", "store"}] /\ stamp' \in [Procs -> Nat]
  <2> USE <1>0 DEF ScanTypes
  <2>1. CASE Newest(p) \/ Store(p) \/ List(p) \/ ListFails(p) \/ Listed(p) \/ NoneLeft(p) \/ Load(p)
    BY <2>1 DEF Newest, Store, Begins, List, ListFails, Listed, NoneLeft, Load
  <2>2. CASE Discard(p) \/ ReadClock(p) \/ Open(p) \/ TouchFails(p) \/ SetTimes(p) \/ Prune(p)
               \/ Stored(p) \/ Crash(p)
    BY <2>2 DEF Discard, ReadClock, Open, TouchFails, SetTimes, Touched, Prune, Stored, Crash
  <2>3. CASE Create(p) \/ Fill(p) \/ StoreFails(p) \/ Rename(p)
    BY <2>3 DEF Create, Fill, StoreFails, Rename
  <2>4. QED
    BY <1>5, <2>1, <2>2, <2>3 DEF Step
<1>6. ASSUME NEW p \in Procs, Step(p)
      PROVE  Places'
  <2> USE <1>0 DEF ScanTypes, Places, Quiet, Looking
  <2>1. CASE Newest(p) \/ Store(p) \/ List(p) \/ ListFails(p) \/ Listed(p)
    BY <2>1 DEF Newest, Store, Begins, Listing, List, ListFails, Listed
  <2>2. CASE NoneLeft(p) \/ Stored(p) \/ Crash(p) \/ Discard(p)
    BY <2>2, NothingListed DEF NoneLeft, Stored, Crash, Looked, Discard
  <2>3. CASE Load(p)
    <3>1. /\ doing[p] = "trying" /\ op' = op
          /\ \A q \in Procs \ {p} : /\ doing'[q] = doing[q] /\ list'[q] = list[q]
                                     /\ unseen'[q] = unseen[q]
      BY <2>3 DEF Load, Looked
    <3>2. \/ doing'[p] = "touching" /\ list'[p] = <<>>
          \/ doing'[p] \in {"trying", "removing"} /\ unseen'[p] = unseen[p]
      BY <2>3 DEF Load, Looked
    <3>3. \A q \in Procs \ {p} : Looking(q)' <=> Looking(q)
      BY <3>1
    <3>4. QED
      BY <3>1, <3>2, <3>3, NothingListed
  <2>4. CASE Prune(p)
    BY <2>4 DEF Prune
  <2>5. CASE ReadClock(p) \/ Open(p) \/ TouchFails(p) \/ SetTimes(p)
    BY <2>5 DEF ReadClock, Open, TouchFails, SetTimes, Touched, Listing
  <2>6. CASE Create(p) \/ Fill(p) \/ StoreFails(p) \/ Rename(p)
    BY <2>6 DEF Create, Fill, StoreFails, Rename
  <2>7. QED
    BY <1>6, <2>1, <2>2, <2>3, <2>4, <2>5, <2>6 DEF Step
<1>7. CASE \E p \in Procs : Step(p)
  BY <1>1, <1>2, <1>3, <1>4, <1>5, <1>6, <1>7 DEF ScanTypes
<1>8. CASE \E d \in Ids : Damage(d)
  <2>1. PICK d \in Ids : Damage(d)
    BY <1>8
  <2>2. \A q \in Procs : IsFiniteSet(stale[q] \cup {d})
    BY FS_AddElement DEF ScanTypes
  <2>3. stale' \in [Procs -> SUBSET Ids] /\ \A q \in Procs : IsFiniteSet(stale'[q])
    BY <2>1, <2>2 DEF Damage, Disturbs, ScanTypes
  <2>4. QED
    BY <2>1, <2>3 DEF Damage, ScanTypes, Places, Looking
<1>9. CASE UNCHANGED cacheVars
  BY <1>9 DEF cacheVars, ScanTypes, Places, Looking
<1>10. QED
  BY <1>7, <1>8, <1>9 DEF CacheNext

-----------------------------------------------------------------------------
(* KeepsFew.  What a process that prunes leaves is what was published after it had
   begun to list, so its bound is on the processes that began to list after it: the
   invariant is that there is an order of those beginnings, `start`, under which each
   has missed no more files than there are processes that began later, processes that
   died and refusals, and that the files are bounded by those whose beginning still
   counts.  That of a process which was refused something does not. *)

Publishers == {p \in Procs : ToPrune(p)}

(* A process that has yet to begin. *)
Fixing(p) == doing[p] \in {"touching", "opening", "stamping"}

Counted(start) == {p \in Publishers : Fixing(p) \/ start[p] > 0}

Later(start, q) == {p \in Publishers : Fixing(p) \/ start[p] > start[q]}

Lost == crashes + spared

(* What q has not listed, or has listed and is to keep. *)
Missed(q) == held \ (DOMAIN list[q] \cup unseen[q])

Bounds(start, top) ==
  /\ \A p \in Procs : start[p] <= top
  /\ Cardinality(held) <= Keep + Lost + Cardinality(Counted(start))
  /\ \A q \in Publishers : ~Fixing(q) /\ start[q] > 0 =>
       Cardinality(Missed(q)) <= Lost + Cardinality(Later(start, q))
                                   + (IF doing[q] = "pruning" THEN Keep ELSE 0)

Ordered == \E start \in [Procs -> Nat], top \in Nat : Bounds(start, top)

(* The sets that are counted, and how the count goes with one more or less. *)
LEMMA Fewer ==
  ASSUME NEW S, NEW T, IsFiniteSet(S), T \subseteq S
  PROVE  /\ IsFiniteSet(T)
         /\ Cardinality(T) \in Nat /\ Cardinality(S) \in Nat
         /\ Cardinality(T) <= Cardinality(S)
BY FS_Subset, FS_CardinalityType

LEMMA OneMore ==
  ASSUME NEW S, NEW T, NEW x, IsFiniteSet(S), T \subseteq S \cup {x}
  PROVE  /\ IsFiniteSet(T)
         /\ Cardinality(T) \in Nat /\ Cardinality(S) \in Nat
         /\ Cardinality(T) <= Cardinality(S) + 1
<1>1. /\ IsFiniteSet(S \cup {x})
      /\ Cardinality(S \cup {x}) = IF x \in S THEN Cardinality(S) ELSE Cardinality(S) + 1
  BY FS_AddElement
<1>2. Cardinality(S) \in Nat
  BY FS_CardinalityType
<1>3. /\ IsFiniteSet(T) /\ Cardinality(T) \in Nat
      /\ Cardinality(T) <= Cardinality(S \cup {x})
  BY <1>1, Fewer
<1>4. QED
  BY <1>1, <1>2, <1>3

LEMMA Joined ==
  ASSUME NEW S, NEW T, NEW x, IsFiniteSet(S), x \notin S, T = S \cup {x}
  PROVE  Cardinality(T) = Cardinality(S) + 1
BY FS_AddElement

LEMMA CountedFinite ==
  ASSUME DictCacheAssumption, NEW start, NEW q
  PROVE  /\ IsFiniteSet(Publishers) /\ IsFiniteSet(Counted(start)) /\ IsFiniteSet(Later(start, q))
         /\ Cardinality(Counted(start)) \in Nat /\ Cardinality(Later(start, q)) \in Nat
<1>1. /\ Publishers \subseteq Procs /\ Counted(start) \subseteq Procs
      /\ Later(start, q) \subseteq Procs
  BY DEF Publishers, Counted, Later
<1>2. QED
  BY <1>1, Fewer DEF DictCacheAssumption

LEMMA MissedFinite ==
  ASSUME ScanTypes, NEW q
  PROVE  IsFiniteSet(Missed(q)) /\ Cardinality(Missed(q)) \in Nat /\ Cardinality(held) \in Nat
<1>1. Missed(q) \subseteq held
  BY DEF Missed
<1>2. QED
  BY <1>1, Fewer DEF ScanTypes

(* A step that publishes nothing, and that no process of the order begins or ends with:
   of what there is and of what one missed there may be less. *)
LEMMA SameOrder ==
  ASSUME DictCacheAssumption, ScanTypes, ScanTypes',
         NEW start \in [Procs -> Nat], NEW top \in Nat, Bounds(start, top),
         Lost \in Nat, Lost' = Lost, held' \subseteq held,
         Publishers' = Publishers,
         \A q \in Publishers : /\ Fixing(q)' = Fixing(q)
                               /\ doing'[q] = "pruning" <=> doing[q] = "pruning"
                               /\ Missed(q)' \subseteq Missed(q)
  PROVE  Bounds(start, top)'
<1>1. Counted(start)' = Counted(start)
  BY DEF Counted
<1>2. Cardinality(held') <= Cardinality(held)
  BY Fewer DEF ScanTypes
<1>3. ASSUME NEW q \in Publishers
      PROVE  Later(start, q)' = Later(start, q) /\ Cardinality(Missed(q)') <= Cardinality(Missed(q))
  BY MissedFinite, Fewer DEF Later
<1>4. Cardinality(held') \in Nat /\ Cardinality(held) \in Nat /\ Cardinality(Counted(start)) \in Nat
  BY MissedFinite, Fewer, CountedFinite DEF ScanTypes
<1>5. ASSUME NEW q \in Publishers', ~Fixing(q)', start[q] > 0
      PROVE  Cardinality(Missed(q)') <= Lost' + Cardinality(Later(start, q)')
                                         + (IF doing'[q] = "pruning" THEN Keep ELSE 0)
  <2>1. /\ q \in Publishers /\ Fixing(q)' = Fixing(q)
        /\ doing'[q] = "pruning" <=> doing[q] = "pruning"
    BY <1>5
  <2>2. /\ Cardinality(Missed(q)) \in Nat /\ Cardinality(Missed(q)') \in Nat
        /\ Cardinality(Later(start, q)) \in Nat
    BY MissedFinite, CountedFinite, Fewer, <2>1
  <2>3. QED
    BY <1>3, <1>5, <2>1, <2>2 DEF Bounds, DictCacheAssumption
<1>6. QED
  BY <1>1, <1>2, <1>4, <1>5 DEF Bounds, DictCacheAssumption

LEMMA OrderQuiet ==
  ASSUME DictCacheAssumption, CacheInv, ScanTypes, ScanTypes', Places, NEW p \in Procs,
         \/ Newest(p) \/ Store(p) \/ List(p) \/ NoneLeft(p) \/ Load(p) \/ Discard(p)
         \/ ReadClock(p) \/ Open(p)
         \/ Create(p) \/ Fill(p) \/ StoreFails(p) \/ Prune(p)
         \/ op[p] = "newest" /\ (ListFails(p) \/ Listed(p) \/ TouchFails(p) \/ SetTimes(p)),
         spared' = spared, Ordered
  PROVE  Ordered'
<1> USE DEF files, place, toll, scan, Goes, Returns, ScanTypes
<1>0. /\ doing \in [Procs -> Quiet \cup {"create", "filling", "rename"}] /\ Lost \in Nat
  BY DEF CacheInv, Types, Lost
<1>1. Lost' = Lost /\ held' \subseteq held
  <2>1. crashes' = crashes
    BY DEF Newest, Store, Begins, List, ListFails, Listed, NoneLeft, Load, Discard, ReadClock, Open,
       TouchFails, SetTimes, Touched, Create, Fill, StoreFails, Prune
  <2>2. held' \subseteq held
    BY DEF Newest, Store, Begins, List, ListFails, Listed, NoneLeft, Load, Discard, Removes,
       ReadClock, Open, TouchFails, SetTimes, Touched, Create, Fill, StoreFails, Prune
  <2>3. QED
    BY <2>1, <2>2 DEF Lost
<1>2. /\ Publishers' = Publishers
      /\ \A q \in Publishers : /\ Fixing(q)' = Fixing(q)
                               /\ doing'[q] = "pruning" <=> doing[q] = "pruning"
  <2>1. CASE Newest(p) \/ Store(p)
    BY <1>0, <2>1 DEF Publishers, ToPrune, Fixing, Newest, Store, Begins
  <2>2. CASE List(p) \/ NoneLeft(p) \/ Load(p) \/ Discard(p) \/ Prune(p)
    BY <1>0, <2>2 DEF Publishers, ToPrune, Fixing, Places, List, NoneLeft, Load, Discard, Prune
  <2>3. CASE ReadClock(p) \/ Open(p) \/ Create(p) \/ Fill(p) \/ StoreFails(p)
    BY <1>0, <2>3 DEF Publishers, ToPrune, Fixing, Places, ReadClock, Open, Create, Fill, StoreFails
  <2>4. CASE op[p] = "newest" /\ (ListFails(p) \/ Listed(p) \/ TouchFails(p) \/ SetTimes(p))
    BY <1>0, <2>4 DEF Publishers, ToPrune, Fixing, ListFails, Listed, TouchFails, SetTimes, Touched
  <2>5. QED
    BY <2>1, <2>2, <2>3, <2>4
<1>3. ASSUME NEW q \in Publishers
      PROVE  Missed(q)' \subseteq Missed(q)
  <2>1. CASE q # p
    <3>1. unseen'[q] = unseen[q] /\ list'[q] = list[q]
      <4>1. CASE Newest(p) \/ Store(p) \/ List(p) \/ NoneLeft(p) \/ Load(p) \/ Discard(p)
        BY <2>1, <4>1 DEF Publishers, Newest, Listing, Store, List, NoneLeft, Load, Looked, Discard
      <4>2. CASE ReadClock(p) \/ Open(p) \/ TouchFails(p) \/ SetTimes(p)
        BY <2>1, <4>2 DEF Publishers, ReadClock, Open, TouchFails, SetTimes, Touched, Listing
      <4>3. CASE ListFails(p) \/ Listed(p) \/ Create(p) \/ Fill(p) \/ StoreFails(p) \/ Prune(p)
        BY <2>1, <4>3 DEF Publishers, ListFails, Listed, Create, Fill, StoreFails, Prune
      <4>4. QED
        BY <4>1, <4>2, <4>3
    <3>2. QED
      BY <1>1, <3>1 DEF Missed
  <2>2. CASE q = p
    <3>1. op[p] = "store" /\ doing[p] \in {"touching", "opening", "stamping", "listing", "pruning"}
      BY <2>2 DEF Publishers, ToPrune
    <3>2. CASE List(p)
      <4>1. PICK d \in unseen[p] :
              /\ unseen' = [unseen EXCEPT ![p] = @ \ {d}]
              /\ \/ list' = [list EXCEPT ![p] = With(@, d, used[d])]
                 \/ list' = [list EXCEPT ![p] = With(@, d, 0)]
                 \/ d \notin held /\ list' = list
        BY <3>2 DEF List
      <4>2. \A s : DOMAIN With(list[p], d, s) = DOMAIN list[p] \cup {d}
        BY DEF With
      <4>3. unseen'[p] = unseen[p] \ {d} /\ held' = held
        BY <3>2, <4>1 DEF List
      <4>4. \/ DOMAIN list'[p] = DOMAIN list[p] \cup {d}
            \/ d \notin held /\ list'[p] = list[p]
        BY <4>1, <4>2
      <4>5. QED
        BY <2>2, <4>3, <4>4 DEF Missed
    <3>3. CASE Prune(p)
      <4>1. PICK d \in Ids : held' = held \ {d} /\ list' = [list EXCEPT ![p] = Without(@, d)]
        <5>1. spared \in Nat
          BY DEF CacheInv, Types
        <5>2. PICK d \in Ids : /\ list' = [list EXCEPT ![p] = Without(@, d)]
                               /\ Removes(p, d) \/ spared' = spared + 1
          BY <3>3 DEF Prune
        <5>3. Removes(p, d)
          BY <5>1, <5>2
        <5>4. QED
          BY <5>2, <5>3 DEF Removes
      <4>2. DOMAIN Without(list[p], d) = DOMAIN list[p] \ {d}
        BY DEF Without
      <4>3. QED
        BY <2>2, <3>3, <4>1, <4>2 DEF Missed, Prune
    <3>4. CASE ReadClock(p) \/ Open(p)
      BY <1>1, <2>2, <3>4 DEF Missed, ReadClock, Open
    <3>5. QED
      BY <3>1, <3>2, <3>3, <3>4 DEF Newest, Begins, Store, NoneLeft, Load, Discard, Create, Fill,
         StoreFails, Places
  <2>3. QED
    BY <2>1, <2>2
<1>4. QED
  BY <1>0, <1>1, <1>2, <1>3, SameOrder DEF Ordered

(* The file a store renames is one that all who list already may miss. *)
LEMMA OrderRename ==
  ASSUME DictCacheAssumption, CacheInv, ScanTypes, ScanTypes', Places, NEW p \in Procs, Rename(p),
         NEW start \in [Procs -> Nat], NEW top \in Nat, Bounds(start, top)
  PROVE  Bounds(start, top)'
<1> USE DEF files, place, toll, scan, Goes, Returns, ScanTypes
<1>0. /\ doing \in [Procs -> Quiet \cup {"create", "filling", "rename"}] /\ Lost \in Nat
      /\ Keep \in Nat
  BY DEF CacheInv, Types, DictCacheAssumption, Lost
<1>1. op[p] = "store" /\ doing[p] = "rename" /\ op' = op /\ Lost' = Lost
  BY DEF Rename, Places, Lost
<1>2. p \notin Publishers /\ Publishers' = Publishers \cup {p}
  BY <1>0, <1>1 DEF Publishers, ToPrune, Rename
<1>3. doing'[p] = "touching" /\ \A q \in Procs : q # p => doing'[q] = doing[q]
  BY <1>0 DEF Rename
<1>4. held' = held \cup {id[p]} /\ scan' = scan
  BY DEF Rename
<1>5. Cardinality(Counted(start)') = Cardinality(Counted(start)) + 1
  <2>1. Counted(start)' = Counted(start) \cup {p} /\ p \notin Counted(start)
    BY <1>2, <1>3 DEF Counted, Fixing, Publishers
  <2>2. QED
    BY <2>1, CountedFinite, Joined
<1>6. Cardinality(held') <= Keep + Lost' + Cardinality(Counted(start)')
  <2>1. Cardinality(held') <= Cardinality(held) + 1 /\ Cardinality(held) \in Nat
        /\ Cardinality(held') \in Nat
    <3>1. IsFiniteSet(held) /\ held' \subseteq held \cup {id[p]}
      BY <1>4
    <3>2. QED
      BY ONLY <3>1, OneMore
  <2>2. Cardinality(Counted(start)) \in Nat
    BY CountedFinite
  <2>3. QED
    BY <1>0, <1>1, <1>5, <2>1, <2>2 DEF Bounds
<1>7. ASSUME NEW q \in Publishers', ~Fixing(q)', start[q] > 0
      PROVE  Cardinality(Missed(q)') <= Lost' + Cardinality(Later(start, q)')
                                         + (IF doing'[q] = "pruning" THEN Keep ELSE 0)
  <2>1. q \in Publishers /\ q # p /\ doing'[q] = doing[q] /\ Fixing(q)' = Fixing(q)
    BY <1>2, <1>3, <1>7 DEF Publishers, Fixing
  <2>2. Later(start, q)' = Later(start, q) \cup {p} /\ p \notin Later(start, q)
    BY <1>2, <1>3 DEF Later, Fixing, Publishers
  <2>3. /\ Cardinality(Later(start, q)') = Cardinality(Later(start, q)) + 1
        /\ Cardinality(Later(start, q)) \in Nat
    BY <2>2, CountedFinite, Joined
  <2>4. Missed(q)' \subseteq Missed(q) \cup {id[p]}
    BY <1>4 DEF Missed
  <2>5. IsFiniteSet(Missed(q)) /\ Cardinality(Missed(q)) \in Nat
    BY MissedFinite
  <2>6. /\ Cardinality(Missed(q)') <= Cardinality(Missed(q)) + 1
        /\ Cardinality(Missed(q)') \in Nat
    BY <2>4, <2>5, OneMore
  <2>7. QED
    BY <1>0, <1>1, <1>7, <2>1, <2>3, <2>5, <2>6 DEF Bounds
<1>8. QED
  BY <1>6, <1>7 DEF Bounds

(* A process begins to list: it has missed nothing, and all others began before it. *)
LEMMA OrderTouch ==
  ASSUME DictCacheAssumption, CacheInv, ScanTypes, ScanTypes', Places,
         NEW p \in Procs, op[p] = "store", TouchFails(p) \/ SetTimes(p),
         NEW start \in [Procs -> Nat], NEW top \in Nat, Bounds(start, top)
  PROVE  Ordered'
<1> USE DEF files, place, toll, scan, Goes, Returns, ScanTypes
<1> DEFINE next == [start EXCEPT ![p] = top + 1]
<1>0. /\ doing \in [Procs -> Quiet \cup {"create", "filling", "rename"}] /\ Lost \in Nat
      /\ Keep \in Nat
      /\ \A q \in Procs : start[q] \in Nat /\ start[q] <= top
  BY DEF CacheInv, Types, DictCacheAssumption, Lost, Bounds
<1>1. /\ doing[p] \in {"opening", "stamping"} /\ op' = op /\ Lost' = Lost /\ held' = held
      /\ doing' = [doing EXCEPT ![p] = "listing"]
      /\ unseen' = [unseen EXCEPT ![p] = Ids] /\ list' = list /\ DOMAIN list[p] = {}
  BY DEF TouchFails, SetTimes, Touched, Listing, Places, Looking, Lost
<1>2. Publishers' = Publishers /\ p \in Publishers
  BY <1>0, <1>1 DEF Publishers, ToPrune
<1>3. /\ next \in [Procs -> Nat] /\ next[p] = top + 1
      /\ \A q \in Procs : q # p => next[q] = start[q] /\ doing'[q] = doing[q]
  BY <1>0, <1>1
<1>4. Counted(next)' = Counted(start)
  BY <1>0, <1>1, <1>2, <1>3 DEF Counted, Fixing, Publishers
<1>5. ASSUME NEW q \in Publishers', ~Fixing(q)', next[q] > 0
      PROVE  Cardinality(Missed(q)') <= Lost' + Cardinality(Later(next, q)')
                                         + (IF doing'[q] = "pruning" THEN Keep ELSE 0)
  <2>1. CASE q = p
    <3>1. Missed(q)' = {}
      BY <1>1, <2>1 DEF Missed
    <3>2. Cardinality(Missed(q)') = 0
      BY <3>1, FS_EmptySet
    <3>3. Later(next, q)' \subseteq Procs
      BY <1>2 DEF Later, Publishers
    <3>4. Cardinality(Later(next, q)') \in Nat
      BY ZenonT(30), <3>3, Fewer DEF DictCacheAssumption
    <3>5. QED
      BY <1>0, <1>1, <3>2, <3>4
  <2>2. CASE q # p
    <3>1. /\ q \in Publishers /\ q \in Procs /\ next[q] = start[q]
          /\ doing'[q] = doing[q] /\ Fixing(q)' = Fixing(q)
      BY <1>2, <1>3, <2>2 DEF Publishers, Fixing
    <3>2. Missed(q)' = Missed(q)
      BY <1>1, <2>2, <3>1 DEF Missed
    <3>3. Later(next, q)' = Later(start, q)
      BY <1>0, <1>1, <1>2, <1>3, <3>1 DEF Later, Fixing, Publishers
    <3>4. QED
      BY <1>1, <1>5, <3>1, <3>2, <3>3 DEF Bounds
  <2>3. QED
    BY <2>1, <2>2
<1>6. Bounds(next, top + 1)'
  <2>1. \A q \in Procs : next[q] <= top + 1
    BY <1>0, <1>3
  <2>2. QED
    BY <1>1, <1>4, <1>5, <2>1 DEF Bounds
<1>7. QED
  BY <1>3, <1>6 DEF Ordered

(* What is not to be removed of a listing is no more than KEEP. *)
LEMMA PrunedKeeps ==
  ASSUME DictCacheAssumption, ScanTypes, NEW p \in Procs, NEW r \in Pruned(p)
  PROVE  /\ r \subseteq DOMAIN list[p] /\ IsFiniteSet(DOMAIN list[p] \ r)
         /\ Cardinality(DOMAIN list[p] \ r) \in Nat
         /\ Cardinality(DOMAIN list[p] \ r) <= Keep
<1> DEFINE D == DOMAIN list[p]
<1>1. IsFiniteSet(D) /\ Cardinality(D) \in Nat /\ Keep \in Nat
  BY FS_CardinalityType DEF ScanTypes, DictCacheAssumption
<1>2. r \subseteq D
  BY DEF Pruned, Rest
<1>3. IsFiniteSet(D \ r) /\ Cardinality(D \ r) \in Nat
  BY <1>1, Fewer
<1>4. CASE Cardinality(D) <= Keep
  BY <1>1, <1>2, <1>3, <1>4, Fewer
<1>5. CASE Cardinality(D) > Keep
  <2>1. Cardinality(r) = Cardinality(D) - Keep
    BY <1>1, <1>5 DEF Pruned, Rest
  <2>2. D \cap r = r
    BY <1>2
  <2>3. Cardinality(D \ r) = Cardinality(D) - Cardinality(r)
    BY <1>1, <2>2, FS_Difference
  <2>4. QED
    BY <1>1, <1>2, <1>3, <2>1, <2>3
<1>6. QED
  BY <1>1, <1>2, <1>3, <1>4, <1>5

LEMMA OrderListed ==
  ASSUME DictCacheAssumption, CacheInv, ScanTypes, ScanTypes', Places,
         NEW p \in Procs, op[p] = "store", Listed(p),
         NEW start \in [Procs -> Nat], NEW top \in Nat, Bounds(start, top)
  PROVE  Bounds(start, top)'
<1> USE DEF files, place, toll, scan, Goes, Returns, ScanTypes
<1>0. /\ doing \in [Procs -> Quiet \cup {"create", "filling", "rename"}] /\ Lost \in Nat
      /\ Keep \in Nat
  BY DEF CacheInv, Types, DictCacheAssumption, Lost
<1>1. /\ doing[p] = "listing" /\ op' = op /\ Lost' = Lost /\ held' = held
      /\ doing' = [doing EXCEPT ![p] = "pruning"] /\ unseen' = unseen /\ unseen[p] = {}
  BY DEF Listed, Lost
<1>2. PICK r \in Pruned(p) : list' = [list EXCEPT ![p] = [d \in r |-> @[d]]]
  BY DEF Listed
<1>3. DOMAIN list'[p] = r /\ \A q \in Procs : q # p => list'[q] = list[q] /\ doing'[q] = doing[q]
  BY <1>0, <1>1, <1>2
<1>4. Publishers' = Publishers /\ Counted(start)' = Counted(start)
  BY <1>0, <1>1 DEF Publishers, ToPrune, Counted, Fixing
<1>5. ASSUME NEW q \in Publishers', ~Fixing(q)', start[q] > 0
      PROVE  Cardinality(Missed(q)') <= Lost' + Cardinality(Later(start, q)')
                                         + (IF doing'[q] = "pruning" THEN Keep ELSE 0)
  <2>1. q \in Publishers /\ q \in Procs
    BY <1>4 DEF Publishers
  <2>2. Later(start, q)' = Later(start, q)
    BY <1>0, <1>1, <1>4 DEF Later, Fixing, Publishers
  <2>3. CASE q = p
    <3>1. Missed(p)' \subseteq Missed(p) \cup (DOMAIN list[p] \ r)
      BY <1>1, <1>3 DEF Missed
    <3>2. /\ IsFiniteSet(DOMAIN list[p] \ r) /\ Cardinality(DOMAIN list[p] \ r) \in Nat
          /\ Cardinality(DOMAIN list[p] \ r) <= Keep
      BY PrunedKeeps
    <3>3. IsFiniteSet(Missed(p)) /\ Cardinality(Missed(p)) \in Nat
      BY MissedFinite
    <3>4. Missed(p) \cap (DOMAIN list[p] \ r) \subseteq Missed(p)
      OBVIOUS
    <3>5. Cardinality(Missed(p) \cap (DOMAIN list[p] \ r)) \in Nat
      BY <3>3, <3>4, Fewer
    <3>6. /\ IsFiniteSet(Missed(p) \cup (DOMAIN list[p] \ r))
          /\ Cardinality(Missed(p) \cup (DOMAIN list[p] \ r))
               = Cardinality(Missed(p)) + Cardinality(DOMAIN list[p] \ r)
                   - Cardinality(Missed(p) \cap (DOMAIN list[p] \ r))
      BY <3>2, <3>3, FS_Union
    <3>7. /\ Cardinality(Missed(p)') \in Nat
          /\ Cardinality(Missed(p)') <= Cardinality(Missed(p) \cup (DOMAIN list[p] \ r))
      BY <3>1, <3>6, Fewer
    <3>8. Cardinality(Missed(p)) <= Lost + Cardinality(Later(start, p))
      <4>1. ~Fixing(p) /\ doing[p] # "pruning"
        BY <1>1 DEF Fixing
      <4>2. Cardinality(Later(start, p)) \in Nat
        BY CountedFinite
      <4>3. QED
        BY <1>0, <1>5, <2>1, <2>3, <4>1, <4>2 DEF Bounds
    <3>9. doing'[p] = "pruning" /\ Cardinality(Later(start, p)) \in Nat
      BY <1>0, <1>1, CountedFinite
    <3>10. QED
      BY <1>0, <1>1, <2>2, <2>3, <3>2, <3>3, <3>5, <3>6, <3>7, <3>8, <3>9
  <2>4. CASE q # p
    <3>1. Missed(q)' = Missed(q) /\ doing'[q] = doing[q] /\ Fixing(q)' = Fixing(q)
      BY <1>1, <1>3, <2>1, <2>4 DEF Missed, Fixing
    <3>2. QED
      BY <1>1, <1>5, <2>1, <2>2, <3>1 DEF Bounds
  <2>5. QED
    BY <2>3, <2>4
<1>6. QED
  BY <1>1, <1>4, <1>5 DEF Bounds

(* A process has pruned: all there is it kept or missed, so what it missed is all that
   counts from here on. *)
LEMMA OrderStored ==
  ASSUME DictCacheAssumption, CacheInv, ScanTypes, ScanTypes', Places, NEW p \in Procs, Stored(p),
         NEW start \in [Procs -> Nat], NEW top \in Nat, Bounds(start, top)
  PROVE  Ordered'
<1> USE DEF files, place, toll, scan, Goes, Returns, ScanTypes
<1> DEFINE next == [r \in Procs |-> IF start[r] > start[p] THEN start[r] ELSE 0]
<1>0. /\ doing \in [Procs -> Quiet \cup {"create", "filling", "rename"}] /\ Lost \in Nat
      /\ Keep \in Nat
      /\ \A q \in Procs : start[q] \in Nat /\ start[q] <= top
  BY DEF CacheInv, Types, DictCacheAssumption, Lost, Bounds
<1>1. /\ doing[p] = "pruning" /\ op' = [op EXCEPT ![p] = "none"] /\ Lost' = Lost /\ held' = held
      /\ doing' = [doing EXCEPT ![p] = "idle"]
      /\ \A q \in Procs : q # p => unseen'[q] = unseen[q] /\ list'[q] = list[q]
      /\ unseen[p] = {} /\ DOMAIN list[p] = {} /\ op[p] = "store"
  BY DEF Stored, Looked, Places, Lost
<1>2. Publishers' = Publishers \ {p} /\ p \in Publishers
  BY <1>0, <1>1 DEF Publishers, ToPrune
<1>3. /\ next \in [Procs -> Nat]
      /\ \A r \in Procs : next[r] <= top /\ (next[r] > 0 => next[r] = start[r] /\ start[r] > start[p])
      /\ \A r \in Procs : start[r] > start[p] => next[r] = start[r]
  BY <1>0
<1>4. \A q \in Procs : q # p => doing'[q] = doing[q] /\ Fixing(q)' = Fixing(q)
  BY <1>0, <1>1 DEF Fixing
<1>5. Counted(next)' = Later(start, p)
  BY <1>0, <1>1, <1>2, <1>3, <1>4 DEF Counted, Later, Fixing, Publishers
<1>6. Cardinality(held') <= Keep + Lost' + Cardinality(Counted(next)')
  <2>1. CASE start[p] > 0
    <3>1. Missed(p) = held
      BY <1>1 DEF Missed
    <3>2. Cardinality(Missed(p)) <= Lost + Cardinality(Later(start, p)) + Keep
      BY <1>1, <1>2, <2>1 DEF Bounds, Fixing
    <3>3. Cardinality(Later(start, p)) \in Nat /\ Cardinality(held) \in Nat
      BY CountedFinite, MissedFinite
    <3>4. QED
      BY <1>0, <1>1, <1>5, <3>1, <3>2, <3>3
  <2>2. CASE start[p] = 0
    <3>1. Later(start, p) = Counted(start)
      BY <2>2 DEF Later, Counted
    <3>2. QED
      BY <1>1, <1>5, <3>1 DEF Bounds
  <2>3. QED
    BY <1>0, <2>1, <2>2
<1>7. ASSUME NEW q \in Publishers', ~Fixing(q)', next[q] > 0
      PROVE  Cardinality(Missed(q)') <= Lost' + Cardinality(Later(next, q)')
                                         + (IF doing'[q] = "pruning" THEN Keep ELSE 0)
  <2>1. /\ q \in Publishers /\ q \in Procs /\ q # p
        /\ doing'[q] = doing[q] /\ Fixing(q)' = Fixing(q)
    BY <1>2, <1>4 DEF Publishers
  <2>2. next[q] = start[q] /\ start[q] > start[p] /\ start[q] > 0
    BY <1>0, <1>3, <1>7, <2>1
  <2>3. Later(next, q)' = Later(start, q)
    BY <1>0, <1>1, <1>2, <1>3, <1>4, <2>1, <2>2 DEF Later, Fixing, Publishers
  <2>4. Missed(q)' = Missed(q)
    BY <1>1, <2>1 DEF Missed
  <2>5. QED
    BY <1>1, <1>7, <2>1, <2>2, <2>3, <2>4 DEF Bounds
<1>8. Bounds(next, top)'
  BY <1>3, <1>6, <1>7 DEF Bounds
<1>9. QED
  BY <1>3, <1>8 DEF Ordered

(* A process that ends, dies or is refused something is counted as one that was lost: its
   own beginning counts no more. *)
LEMMA OrderLost ==
  ASSUME DictCacheAssumption, CacheInv, ScanTypes, ScanTypes', NEW p \in Procs,
         NEW start \in [Procs -> Nat], NEW top \in Nat, Bounds(start, top),
         Lost' = Lost + 1, held' = held,
         Publishers' \subseteq Publishers, Publishers \subseteq Publishers' \cup {p},
         p \in Publishers' => ~Fixing(p)',
         \A q \in Procs : q # p => /\ doing'[q] = doing[q]
                                  /\ unseen'[q] = unseen[q] /\ list'[q] = list[q]
  PROVE  Ordered'
<1> USE DEF ScanTypes
<1> DEFINE next == [start EXCEPT ![p] = 0]
<1>0. /\ Lost \in Nat /\ Keep \in Nat
      /\ \A q \in Procs : start[q] \in Nat /\ start[q] <= top
  BY DEF CacheInv, Types, DictCacheAssumption, Lost, Bounds
<1>1. /\ next \in [Procs -> Nat] /\ next[p] = 0
      /\ \A q \in Procs : q # p => next[q] = start[q] /\ Fixing(q)' = Fixing(q)
  BY DEF Fixing
<1>2. Counted(start) \subseteq Counted(next)' \cup {p}
  BY <1>1 DEF Counted, Publishers
<1>3. ASSUME NEW q
      PROVE  /\ IsFiniteSet(Counted(next)') /\ IsFiniteSet(Later(next, q)')
             /\ Cardinality(Counted(next)') \in Nat /\ Cardinality(Later(next, q)') \in Nat
  <2>1. Counted(next)' \subseteq Procs /\ Later(next, q)' \subseteq Procs
    BY DEF Counted, Later, Publishers
  <2>2. IsFiniteSet(Procs)
    BY DEF DictCacheAssumption
  <2>3. QED
    BY <2>1, <2>2, Fewer
<1>4. Cardinality(held') <= Keep + Lost' + Cardinality(Counted(next)')
  <2>1. Cardinality(Counted(start)) <= Cardinality(Counted(next)') + 1
    BY <1>2, <1>3, OneMore
  <2>2. Cardinality(Counted(start)) \in Nat /\ Cardinality(Counted(next)') \in Nat
    BY CountedFinite, <1>3
  <2>3. Cardinality(held) \in Nat
    BY MissedFinite
  <2>4. QED
    BY <1>0, <2>1, <2>2, <2>3 DEF Bounds
<1>5. ASSUME NEW q \in Publishers', ~Fixing(q)', next[q] > 0
      PROVE  Cardinality(Missed(q)') <= Lost' + Cardinality(Later(next, q)')
                                         + (IF doing'[q] = "pruning" THEN Keep ELSE 0)
  <2>1. /\ q \in Publishers /\ q \in Procs /\ q # p
        /\ doing'[q] = doing[q] /\ ~Fixing(q) /\ next[q] = start[q]
    BY <1>1, <1>5 DEF Publishers
  <2>2. Later(start, q) \subseteq Later(next, q)' \cup {p}
    BY <1>1, <2>1 DEF Later, Publishers
  <2>3. Cardinality(Later(start, q)) <= Cardinality(Later(next, q)') + 1
    BY <1>3, <2>2, OneMore
  <2>4. Cardinality(Later(start, q)) \in Nat /\ Cardinality(Later(next, q)') \in Nat
    BY CountedFinite, <1>3
  <2>5. Missed(q)' = Missed(q) /\ Cardinality(Missed(q)) \in Nat
    BY <2>1, MissedFinite DEF Missed
  <2>6. QED
    BY <1>0, <1>5, <2>1, <2>3, <2>4, <2>5 DEF Bounds
<1>6. Bounds(next, top)'
  <2>1. \A q \in Procs : next[q] <= top
    BY <1>0, <1>1
  <2>2. QED
    BY <1>4, <1>5, <2>1 DEF Bounds
<1>7. QED
  BY <1>1, <1>6 DEF Ordered

(* Where a store is refused a name or the removal of a file, or a process dies. *)
LEMMA OrderMishap ==
  ASSUME DictCacheAssumption, CacheInv, ScanTypes, ScanTypes', NEW p \in Procs,
         \/ Crash(p)
         \/ (ListFails(p) \/ Prune(p)) /\ spared' # spared,
         Ordered
  PROVE  Ordered'
<1> USE DEF files, place, toll, scan, Goes, Returns, ScanTypes
<1>0. /\ doing \in [Procs -> Quiet \cup {"create", "filling", "rename"}]
      /\ crashes \in Nat /\ spared \in Nat
  BY DEF CacheInv, Types
<1>1. Lost' = Lost + 1 /\ held' = held
  <2>1. CASE Crash(p)
    BY <1>0, <2>1 DEF Crash, Lost
  <2>2. CASE (ListFails(p) \/ Prune(p)) /\ spared' # spared
    BY <1>0, <2>2 DEF ListFails, Prune, Lost
  <2>3. QED
    BY <2>1, <2>2
<1>2. \A q \in Procs : q # p => /\ doing'[q] = doing[q] /\ op'[q] = op[q]
                               /\ unseen'[q] = unseen[q] /\ list'[q] = list[q]
  BY <1>0 DEF Crash, Looked, ListFails, Prune
<1>3. /\ p \in Publishers' => p \in Publishers /\ ~Fixing(p)'
  <2>1. CASE Crash(p)
    BY <1>0, <2>1 DEF Crash, Publishers, ToPrune
  <2>2. CASE ListFails(p) \/ Prune(p)
    BY <1>0, <2>2 DEF ListFails, Prune, Publishers, ToPrune, Fixing
  <2>3. QED
    BY <2>1, <2>2
<1>4. Publishers' \subseteq Publishers /\ Publishers \subseteq Publishers' \cup {p}
  BY <1>2, <1>3 DEF Publishers, ToPrune
<1>5. PICK start \in [Procs -> Nat], top \in Nat : Bounds(start, top)
  BY DEF Ordered
<1>6. QED
  BY <1>1, <1>2, <1>3, <1>4, <1>5, OrderLost

LEMMA OrderInit == DictCacheAssumption /\ CacheInit => Ordered
<1> SUFFICES ASSUME DictCacheAssumption, CacheInit
             PROVE  Ordered
  OBVIOUS
<1> DEFINE none == [p \in Procs |-> 0]
<1>1. Publishers = {}
  BY DEF CacheInit, Publishers, ToPrune
<1>2. Counted(none) = {}
  BY <1>1 DEF Counted
<1>3. Cardinality(held) = 0 /\ Cardinality(Counted(none)) = 0 /\ Lost = 0
  <2>1. held = {} /\ crashes = 0 /\ spared = 0
    BY DEF CacheInit
  <2>2. QED
    BY <1>2, <2>1, FS_EmptySet DEF Lost
<1>4. Bounds(none, 0)
  BY <1>1, <1>3 DEF Bounds, DictCacheAssumption
<1>5. none \in [Procs -> Nat]
  OBVIOUS
<1>6. QED
  BY <1>4, <1>5 DEF Ordered

LEMMA OrderNext ==
  DictCacheAssumption /\ CacheInv /\ ScanTypes /\ ScanTypes' /\ Places /\ Ordered
    /\ [CacheNext]_cacheVars => Ordered'
<1> SUFFICES ASSUME DictCacheAssumption, CacheInv, ScanTypes, ScanTypes', Places, Ordered,
                    [CacheNext]_cacheVars
             PROVE  Ordered'
  OBVIOUS
<1>1. ASSUME NEW p \in Procs, Step(p)
      PROVE  Ordered'
  <2> USE DEF place, toll, files
  <2>1. PICK start \in [Procs -> Nat], top \in Nat : Bounds(start, top)
    BY DEF Ordered
  <2>2. CASE Rename(p)
    BY <2>1, <2>2, OrderRename DEF Ordered
  <2>3. CASE Stored(p)
    BY <2>1, <2>3, OrderStored
  <2>4. CASE Crash(p) \/ ((ListFails(p) \/ Prune(p)) /\ spared' # spared)
    BY <2>4, OrderMishap
  <2>5. CASE (ListFails(p) \/ Prune(p)) /\ spared' = spared
    <3>1. ListFails(p) => op[p] = "newest"
      <4>1. spared \in Nat
        BY DEF CacheInv, Types
      <4>2. QED
        BY <2>5, <4>1 DEF ListFails
    <3>2. QED
      BY <2>5, <3>1, OrderQuiet
  <2>6. CASE Listed(p) \/ TouchFails(p) \/ SetTimes(p)
    <3>1. spared' = spared /\ op[p] \in {"newest", "store"}
      BY <2>6 DEF Listed, TouchFails, SetTimes, Touched
    <3>2. CASE op[p] = "newest"
      BY <2>6, <3>1, <3>2, OrderQuiet
    <3>3. CASE op[p] = "store"
      BY <2>1, <2>6, <3>3, OrderListed, OrderTouch DEF Ordered
    <3>4. QED
      BY <3>1, <3>2, <3>3
  <2>7. CASE Newest(p) \/ Store(p) \/ List(p) \/ NoneLeft(p) \/ Load(p) \/ Discard(p)
               \/ ReadClock(p) \/ Open(p) \/ Create(p) \/ Fill(p) \/ StoreFails(p)
    <3>1. spared' = spared
      BY <2>7 DEF Newest, Store, Begins, List, NoneLeft, Load, Discard, ReadClock, Open, Create,
         Fill, StoreFails
    <3>2. QED
      BY <2>7, <3>1, OrderQuiet
  <2>8. QED
    BY <1>1, <2>2, <2>3, <2>4, <2>5, <2>6, <2>7 DEF Step
<1>2. CASE (\E d \in Ids : Damage(d)) \/ UNCHANGED cacheVars
  <2>1. PICK start \in [Procs -> Nat], top \in Nat : Bounds(start, top)
    BY DEF Ordered
  <2>2. held' = held /\ Lost' = Lost /\ doing' = doing /\ op' = op /\ scan' = scan
    BY <1>2 DEF Damage, place, toll, cacheVars, files, Lost
  <2>3. /\ Publishers' = Publishers
        /\ \A q : Missed(q)' = Missed(q) /\ Fixing(q)' = Fixing(q)
    BY <2>2 DEF Publishers, ToPrune, Missed, Fixing, scan
  <2>4. Lost \in Nat
    BY DEF CacheInv, Types, Lost
  <2>5. Bounds(start, top)'
    BY <2>1, <2>2, <2>3, <2>4, SameOrder
  <2>6. QED
    BY <2>1, <2>5 DEF Ordered
<1>3. QED
  BY <1>1, <1>2 DEF CacheNext

LEMMA Scans == CacheSpec => [](ScanTypes /\ Places)
<1>1. CacheInit => ScanTypes /\ Places
  BY ScansInit
<1>2. CacheInv /\ (ScanTypes /\ Places) /\ [CacheNext]_cacheVars => (ScanTypes /\ Places)'
  BY ScansNext
<1>3. QED
  BY <1>1, <1>2, Invariance, PTL DEF CacheSpec

(* Without a lock, processes that store at once may keep each other's files past KEEP, and
   so may one that is refused a name, the directory or the removal of a file; but never by
   more than one for each that has yet to prune, one for each that died before it had,
   and one for each such refusal (dictcache.rs:152-177, 186-216). *)
THEOREM Few == CacheSpec => []KeepsFew
<1>1. CacheInit => Ordered
  BY DictCacheAssumption, OrderInit
<1>2. CacheInv /\ ScanTypes /\ ScanTypes' /\ Places /\ Ordered /\ [CacheNext]_cacheVars => Ordered'
  BY DictCacheAssumption, OrderNext
<1>3. ASSUME CacheInv, ScanTypes, Ordered
      PROVE  KeepsFew
  <2>1. PICK start \in [Procs -> Nat], top \in Nat : Bounds(start, top)
    BY <1>3 DEF Ordered
  <2>2. Counted(start) \subseteq Publishers
    BY DEF Counted
  <2>3. /\ Cardinality(Counted(start)) <= Cardinality(Publishers)
        /\ Cardinality(Counted(start)) \in Nat /\ Cardinality(Publishers) \in Nat
    BY <2>2, CountedFinite, Fewer, DictCacheAssumption
  <2>4. Cardinality(held) \in Nat /\ Keep \in Nat /\ crashes \in Nat /\ spared \in Nat
    BY <1>3, MissedFinite, DictCacheAssumption DEF DictCacheAssumption, CacheInv, Types
  <2>5. QED
    BY <2>1, <2>3, <2>4 DEF Bounds, Lost, KeepsFew, Publishers
<1>4. QED
  BY <1>1, <1>2, <1>3, Invariance, Scans, PTL DEF CacheSpec

-----------------------------------------------------------------------------
(* The order of use: a file has the time of its last use, or an earlier one and is late;
   and of what is not stale, a listing tells what there is. *)

Uses == \A d \in held : used[d] <= last[d] /\ (d \notin late => used[d] = last[d])

(* What a process is about to stamp a file with is no later than its last use. *)
Stamps == \A p \in Procs : doing[p] \in {"opening", "stamping"} => stamp[p] <= last[id[p]]

(* No time is later than the clock has said. *)
Clocked == /\ \A d \in Ids : last[d] <= clock
           /\ \A x \in DOMAIN temps : temps[x] <= clock

(* What p listed are files, or were, each with a time it had, and has unless it is stale. *)
Timely(p) ==
  /\ DOMAIN list[p] \subseteq held \cup stale[p]
  /\ \A d \in DOMAIN list[p] : /\ list[p][d] <= last[d]
                               /\ d \notin stale[p] => list[p][d] = used[d]

(* What p does not remove, or another did, and was used no earlier than d was listed with. *)
Fresher(p, d) == {e \in (held \cup stale[p]) \ DOMAIN list[p] : last[e] >= list[p][d]}

FreshAt(p) ==
  /\ Looking(p) => Timely(p)
  /\ doing[p] = "listing" => held \subseteq DOMAIN list[p] \cup stale[p] \cup unseen[p]
  /\ doing[p] \in {"trying", "removing"} => whole \subseteq DOMAIN list[p] \cup stale[p]
  /\ doing[p] = "removing" => id[p] \notin DOMAIN list[p]
  /\ doing[p] = "pruning" => \A d \in DOMAIN list[p] : Cardinality(Fresher(p, d)) >= Keep

Fresh == \A p \in Procs : FreshAt(p)

LEMMA ClockedNext == CacheInv /\ ScanTypes /\ Clocked /\ [CacheNext]_cacheVars => Clocked'
<1> SUFFICES ASSUME CacheInv, ScanTypes, Clocked, [CacheNext]_cacheVars
             PROVE  Clocked'
  OBVIOUS
<1> USE DEF files, Clocked
<1>0. /\ clock \in Nat \ {0, 1} /\ last \in [Ids -> Nat]
      /\ \A x \in DOMAIN temps : temps[x] \in Nat
  BY DEF CacheInv, Types, ScanTypes
<1>1. ASSUME NEW p \in Procs, Step(p)
      PROVE  Clocked'
  <2>1. CASE Rename(p)
    <3>1. /\ temps' = Without(temps, Temp(p)) /\ clock' = clock /\ Temp(p) \in DOMAIN temps
          /\ last' = [last EXCEPT ![id[p]] = IF temps[Temp(p)] > @ THEN temps[Temp(p)] ELSE @]
      BY <2>1 DEF Rename
    <3>2. QED
      BY <1>0, <3>1 DEF Without
  <2>2. CASE ReadClock(p)
    BY <1>0, <2>2 DEF ReadClock
  <2>3. CASE Create(p) \/ Fill(p) \/ StoreFails(p)
    <3>1. last' = last /\ clock' = clock
      BY <2>3 DEF Create, Fill, StoreFails
    <3>2. \/ \E t \in {0, clock - 1, clock} : temps' = With(temps, Temp(p), t)
          \/ temps' = Without(temps, Temp(p)) \/ temps' = temps
      BY <2>3 DEF Create, Fill, StoreFails, Swept
    <3>3. QED
      BY <1>0, <3>1, <3>2 DEF With, Without
  <2>4. CASE Newest(p) \/ Store(p) \/ List(p) \/ ListFails(p) \/ Listed(p) \/ NoneLeft(p)
               \/ Load(p) \/ Discard(p) \/ Open(p) \/ TouchFails(p) \/ SetTimes(p) \/ Prune(p)
               \/ Stored(p) \/ Crash(p)
    <3>1. UNCHANGED <<last, clock, temps>>
      BY <2>4 DEF Newest, Store, Begins, List, ListFails, Listed, NoneLeft, Load, Discard, Removes,
         Open, TouchFails, SetTimes, Touched, Prune, Stored, Crash
    <3>2. QED
      BY <3>1
  <2>5. QED
    BY <1>1, <2>1, <2>2, <2>3, <2>4 DEF Step
<1>2. CASE (\E d \in Ids : Damage(d)) \/ UNCHANGED cacheVars
  BY <1>2 DEF Damage, cacheVars
<1>3. QED
  BY <1>1, <1>2 DEF CacheNext

LEMMA UsesNext ==
  CacheInv /\ ScanTypes /\ Clocked /\ Uses /\ Stamps /\ [CacheNext]_cacheVars => Uses' /\ Stamps'
<1> SUFFICES ASSUME CacheInv, ScanTypes, Clocked, Uses, Stamps, [CacheNext]_cacheVars
             PROVE  Uses' /\ Stamps'
  OBVIOUS
<1> USE DEF files, place, toll, Goes, Returns, Uses, Stamps
<1>0. /\ id \in [Procs -> Ids] /\ clock \in Nat
      /\ doing \in [Procs -> Quiet \cup {"create", "filling", "rename"}]
      /\ used \in [Ids -> Nat] /\ last \in [Ids -> Nat] /\ held \subseteq Ids
      /\ stamp \in [Procs -> Nat] /\ \A x \in DOMAIN temps : temps[x] \in Nat
      /\ \A d \in Ids : last[d] <= clock
  BY DEF CacheInv, Types, ScanTypes, Clocked
<1>1. ASSUME NEW p \in Procs, Step(p)
      PROVE  Uses' /\ Stamps'
  <2>1. CASE Rename(p)
    <3> DEFINE d == id[p]
               t == temps[Temp(p)]
    <3>1. /\ held' = held \cup {d} /\ used' = [used EXCEPT ![d] = t]
          /\ last' = [last EXCEPT ![d] = IF t > @ THEN t ELSE @]
          /\ late' = IF t >= last[d] THEN late \ {d} ELSE late \cup {d}
          /\ t \in Nat /\ id' = id /\ stamp' = stamp
      BY <1>0, <2>1 DEF Rename
    <3>2. doing'[p] = "touching" /\ \A q \in Procs : q # p => doing'[q] = doing[q]
      BY <1>0, <2>1 DEF Rename
    <3>3. used'[d] = t /\ last'[d] >= t /\ (t >= last[d] => last'[d] = t) /\ last'[d] >= last[d]
      BY <1>0, <3>1
    <3>4. \A e \in Ids : e # d => used'[e] = used[e] /\ last'[e] = last[e]
      BY <1>0, <3>1
    <3>5. Uses'
      BY <1>0, <3>1, <3>3, <3>4
    <3>6. \A e \in Ids : last'[e] >= last[e] /\ last'[e] \in Nat
      BY <1>0, <3>1, <3>3, <3>4
    <3>7. Stamps'
      BY <1>0, <3>1, <3>2, <3>6
    <3>8. QED
      BY <3>5, <3>7
  <2>2. CASE ReadClock(p)
    <3>1. /\ held' = held /\ used' = used /\ last' = [last EXCEPT ![id[p]] = clock + 1]
          /\ late' = late \cup {id[p]} /\ stamp' = [stamp EXCEPT ![p] = clock + 1] /\ id' = id
          /\ doing' = [doing EXCEPT ![p] = "opening"]
      BY <2>2 DEF ReadClock
    <3>2. QED
      BY <1>0, <3>1
  <2>3. CASE SetTimes(p)
    <3>1. /\ held' = held /\ used' = [used EXCEPT ![id[p]] = stamp[p]] /\ last' = last /\ id' = id
          /\ late' = IF stamp[p] = last[id[p]] THEN late \ {id[p]} ELSE late \cup {id[p]}
          /\ stamp' = [stamp EXCEPT ![p] = 0] /\ stamp[p] <= last[id[p]]
          /\ \A q \in Procs : q # p => doing'[q] = doing[q]
          /\ doing'[p] \in {"idle", "listing"}
      BY <1>0, <2>3 DEF SetTimes, Stamped, Touched
    <3>2. QED
      BY <1>0, <3>1
  <2>4. CASE Discard(p) \/ Prune(p)
    <3>1. PICK d \in Ids : Removes(p, d) \/ UNCHANGED files
      BY <1>0, <2>4 DEF Discard, Prune
    <3>2. /\ held' \subseteq held /\ last' = last /\ late' = late
          /\ \A e \in held' : used'[e] = used[e]
      BY <1>0, <3>1 DEF Removes
    <3>3. UNCHANGED <<id, stamp>> /\ doing'[p] \in {"trying", "pruning"}
          /\ \A q \in Procs : q # p => doing'[q] = doing[q]
      BY <1>0, <2>4 DEF Discard, Prune
    <3>4. QED
      BY <3>2, <3>3
  <2>5. CASE Newest(p) \/ Store(p) \/ List(p) \/ ListFails(p) \/ Listed(p) \/ NoneLeft(p)
               \/ Load(p) \/ Open(p) \/ TouchFails(p) \/ Create(p) \/ Fill(p) \/ StoreFails(p)
               \/ Stored(p) \/ Crash(p)
    <3>1. UNCHANGED <<held, used, last, late>>
      BY <2>5 DEF Newest, Store, Begins, List, ListFails, Listed, NoneLeft, Load, Open, TouchFails,
         Touched, Create, Fill, StoreFails, Stored, Crash
    <3>2. \A q \in Procs : q # p => doing'[q] = doing[q] /\ id'[q] = id[q] /\ stamp'[q] = stamp[q]
      BY <1>0, <2>5 DEF Newest, Store, Begins, List, ListFails, Listed, NoneLeft, Load, Open,
         TouchFails, Touched, Create, Fill, StoreFails, Stored, Crash
    <3>3. \/ doing'[p] \notin {"opening", "stamping"}
          \/ doing[p] = "opening" /\ id' = id /\ stamp' = stamp
      BY <1>0, <2>5 DEF Newest, Store, Begins, List, ListFails, Listed, NoneLeft, Load, Open,
         TouchFails, Touched, Create, Fill, StoreFails, Stored, Crash
    <3>4. QED
      BY <3>1, <3>2, <3>3
  <2>6. QED
    BY <1>1, <2>1, <2>2, <2>3, <2>4, <2>5 DEF Step
<1>2. CASE (\E d \in Ids : Damage(d)) \/ UNCHANGED cacheVars
  BY <1>2 DEF Damage, cacheVars
<1>3. QED
  BY <1>1, <1>2 DEF CacheNext

LEMMA LastGrows ==
  ASSUME CacheInv, ScanTypes, Clocked, [CacheNext]_cacheVars, NEW d \in Ids
  PROVE  last[d] \in Nat /\ last'[d] \in Nat /\ last[d] <= last'[d]
<1> USE DEF files
<1>0. /\ clock \in Nat /\ last \in [Ids -> Nat] /\ last[d] <= clock
      /\ \A x \in DOMAIN temps : temps[x] \in Nat
  BY DEF CacheInv, Types, ScanTypes, Clocked
<1>1. ASSUME NEW p \in Procs, Step(p)
      PROVE  \/ last' = last
             \/ \E e \in Ids, t \in Nat : last' = [last EXCEPT ![e] = IF t > @ THEN t ELSE @]
             \/ \E e \in Ids : last' = [last EXCEPT ![e] = clock + 1]
  <2>1. CASE Rename(p)
    BY <1>0, <2>1 DEF Rename, CacheInv, Types
  <2>2. CASE ReadClock(p)
    BY <2>2 DEF ReadClock, CacheInv, Types
  <2>3. CASE Newest(p) \/ Store(p) \/ List(p) \/ ListFails(p) \/ Listed(p) \/ NoneLeft(p)
               \/ Load(p) \/ Discard(p) \/ Open(p) \/ TouchFails(p) \/ SetTimes(p)
    BY <2>3 DEF Newest, Store, Begins, List, ListFails, Listed, NoneLeft, Load, Discard, Removes,
       Open, TouchFails, SetTimes, Touched
  <2>4. CASE Create(p) \/ Fill(p) \/ StoreFails(p) \/ Prune(p) \/ Stored(p) \/ Crash(p)
    BY <2>4 DEF Create, Fill, StoreFails, Prune, Removes, Stored, Crash
  <2>5. QED
    BY <1>1, <2>1, <2>2, <2>3, <2>4 DEF Step
<1>2. CASE (\E e \in Ids : Damage(e)) \/ UNCHANGED cacheVars
  BY <1>0, <1>2 DEF Damage, cacheVars
<1>3. QED
  BY <1>0, <1>1, <1>2 DEF CacheNext

(* What a step may do to a listing it is not part of. *)
LEMMA FreshKept ==
  ASSUME ScanTypes, ScanTypes', NEW p \in Procs, FreshAt(p),
         doing'[p] = doing[p], id'[p] = id[p], list'[p] = list[p], unseen'[p] = unseen[p],
         stale[p] \subseteq stale'[p], held \cup stale[p] \subseteq held' \cup stale'[p],
         \A d \in Ids \ stale'[p] : /\ used'[d] = used[d]
                                    /\ d \in held' => d \in held
                                    /\ d \in whole' => d \in whole,
         \A d \in Ids : last[d] \in Nat /\ last'[d] \in Nat /\ last[d] <= last'[d],
         Keep \in Nat
  PROVE  FreshAt(p)'
<1>0. /\ DOMAIN list[p] \subseteq Ids /\ \A d \in DOMAIN list[p] : list[p][d] \in Nat
      /\ held \subseteq Ids /\ held' \subseteq Ids /\ whole' \subseteq Ids
      /\ stale[p] \subseteq Ids /\ stale'[p] \subseteq Ids
      /\ IsFiniteSet(held') /\ IsFiniteSet(stale'[p])
  BY ListingTypes DEF ScanTypes
<1>1. Looking(p) => Timely(p)'
  BY <1>0 DEF FreshAt, Timely
<1>2. doing[p] = "listing" => held' \subseteq DOMAIN list[p] \cup stale'[p] \cup unseen[p]
  BY <1>0 DEF FreshAt
<1>3. doing[p] \in {"trying", "removing"} => whole' \subseteq DOMAIN list[p] \cup stale'[p]
  BY <1>0 DEF FreshAt
<1>4. ASSUME doing[p] = "pruning", NEW d \in DOMAIN list[p]
      PROVE  Cardinality(Fresher(p, d)') >= Keep
  <2>1. Fresher(p, d) \subseteq Fresher(p, d)'
    BY <1>0 DEF Fresher
  <2>2. IsFiniteSet(Fresher(p, d)')
    <3>1. IsFiniteSet(held' \cup stale'[p])
      BY <1>0, FS_Union
    <3>2. Fresher(p, d)' \subseteq held' \cup stale'[p]
      BY DEF Fresher
    <3>3. QED
      BY <3>1, <3>2, FS_Subset
  <2>3. Cardinality(Fresher(p, d)) >= Keep
    BY <1>4 DEF FreshAt
  <2>4. QED
    BY <2>1, <2>2, <2>3, Fewer
<1>5. QED
  BY <1>1, <1>2, <1>3, <1>4 DEF FreshAt, Looking

LEMMA Disturbed ==
  ASSUME NEW who \in SUBSET Procs, NEW d, NEW p \in Procs, p \in who, Disturbs(who, d), Looking(p)
  PROVE  stale'[p] = stale[p] \cup {d}
BY DEF Disturbs

(* Others leave what p listed as it was, but what they make stale. *)
LEMMA FreshOthers ==
  ASSUME CacheInv, ScanTypes, ScanTypes', NEW p \in Procs, NEW q \in Procs, q # p, Step(q),
         FreshAt(p), Looking(p), Keep \in Nat,
         \A d \in Ids : last[d] \in Nat /\ last'[d] \in Nat /\ last[d] <= last'[d]
  PROVE  FreshAt(p)'
<1> USE DEF files, place, toll, scan, Goes, Returns
<1>0. /\ id \in [Procs -> Ids] /\ doing \in [Procs -> Quiet \cup {"create", "filling", "rename"}]
      /\ used \in [Ids -> Nat]
  BY DEF CacheInv, Types, ScanTypes
<1>1. /\ doing'[p] = doing[p] /\ id'[p] = id[p] /\ list'[p] = list[p] /\ unseen'[p] = unseen[p]
  <2>0. DOMAIN doing = Procs /\ DOMAIN id = Procs /\ DOMAIN list = Procs /\ DOMAIN unseen = Procs
    BY <1>0 DEF ScanTypes
  <2> HIDE DEF scan
  <2>1. CASE Newest(q) \/ Store(q) \/ List(q) \/ ListFails(q) \/ Listed(q)
    BY <2>0, <2>1 DEF scan, Newest, Begins, Listing, Store, List, ListFails, Listed
  <2>2. CASE NoneLeft(q) \/ Load(q) \/ Stored(q) \/ Crash(q)
    BY <2>0, <2>2 DEF Looked, NoneLeft, Load, Stored, Crash
  <2>3. CASE Discard(q) \/ ReadClock(q) \/ Open(q) \/ Prune(q)
    BY <2>0, <2>3 DEF scan, Discard, ReadClock, Open, Prune
  <2>4. CASE TouchFails(q) \/ SetTimes(q)
    BY <2>0, <2>4 DEF scan, TouchFails, SetTimes, Touched, Listing
  <2>5. CASE Create(q) \/ Fill(q) \/ StoreFails(q) \/ Rename(q)
    BY <2>0, <2>5 DEF scan, Create, Fill, StoreFails, Rename
  <2>6. QED
    BY <2>1, <2>2, <2>3, <2>4, <2>5 DEF Step
<1>2. CASE \E d \in Ids : Removes(q, d)
  <2>1. PICK d \in Ids : Removes(q, d)
    BY <1>2
  <2>2. stale'[p] = stale[p] \cup {d}
    BY <2>1, Disturbed DEF Removes
  <2>3. /\ held' = held \ {d} /\ whole' = whole \ {d} /\ used' = [used EXCEPT ![d] = 0]
    BY <2>1 DEF Removes
  <2>4. \A e \in Ids : e # d => used'[e] = used[e]
    BY <2>3
  <2>5. QED
    BY <1>1, <2>2, <2>3, <2>4, FreshKept
<1>3. CASE Rename(q)
  <2>1. stale'[p] = stale[p] \cup {id[q]}
    BY <1>3, Disturbed DEF Rename
  <2>2. /\ held' = held \cup {id[q]} /\ whole' \subseteq whole \cup {id[q]}
        /\ \A e \in Ids : e # id[q] => used'[e] = used[e]
    BY <1>0, <1>3 DEF Rename
  <2>3. QED
    BY <1>1, <2>1, <2>2, FreshKept
<1>4. CASE SetTimes(q)
  <2>1. stale'[p] = stale[p] \cup {id[q]}
    BY <1>4, Disturbed DEF SetTimes
  <2>2. /\ held' = held /\ whole' = whole
        /\ \A e \in Ids : e # id[q] => used'[e] = used[e]
    BY <1>0, <1>4 DEF SetTimes, Touched
  <2>3. QED
    BY <1>1, <2>1, <2>2, FreshKept
<1>5. CASE held' = held /\ whole' = whole /\ used' = used /\ stale'[p] = stale[p]
  BY <1>1, <1>5, FreshKept
<1>6. CASE \/ Newest(q) \/ Store(q) \/ List(q) \/ ListFails(q) \/ Listed(q) \/ NoneLeft(q) \/ Load(q)
           \/ ReadClock(q) \/ Open(q) \/ TouchFails(q) \/ Create(q) \/ Fill(q) \/ StoreFails(q)
           \/ Stored(q) \/ Crash(q)
  <2>1. held' = held /\ whole' = whole /\ used' = used
    BY <1>6 DEF Newest, Begins, Store, List, ListFails, Listed, NoneLeft, Load, ReadClock, Open,
       TouchFails, Touched, Create, Fill, StoreFails, Stored, Crash
  <2>2. stale' = stale \/ \E s : stale' = [stale EXCEPT ![q] = s]
    BY <1>6 DEF Newest, Begins, Store, List, ListFails, Listed, NoneLeft, Load, Looked, ReadClock,
       Open, TouchFails, Create, Fill, StoreFails, Stored, Crash
  <2>3. stale'[p] = stale[p]
    BY <2>2 DEF ScanTypes
  <2>4. QED
    BY <1>5, <2>1, <2>3
<1>7. CASE Discard(q) \/ Prune(q)
  <2>1. (\E d \in Ids : Removes(q, d)) \/ UNCHANGED <<files, stale>>
    BY <1>0, <1>7 DEF Discard, Prune
  <2>2. QED
    BY <1>2, <1>5, <2>1
<1>8. QED
  BY <1>3, <1>4, <1>6, <1>7 DEF Step


(* What p's own steps do to its listing. *)
LEMMA FreshBegun ==
  ASSUME ScanTypes', NEW p \in Procs,
         ~Looking(p)' \/ (doing'[p] = "listing" /\ unseen'[p] = Ids /\ DOMAIN list'[p] = {})
  PROVE  FreshAt(p)'
BY DEF FreshAt, Timely, Looking, ScanTypes

LEMMA FreshList ==
  ASSUME CacheInv, ScanTypes, ScanTypes', Uses, NEW p \in Procs, FreshAt(p),
         List(p) \/ ListFails(p)
  PROVE  FreshAt(p)'
<1> USE DEF files
<1>0. /\ \A d \in DOMAIN list[p] : list[p][d] \in Nat
      /\ used \in [Ids -> Nat] /\ last \in [Ids -> Nat]
  BY ListingTypes DEF ScanTypes
<1>1. /\ Timely(p) /\ held \subseteq DOMAIN list[p] \cup stale[p] \cup unseen[p]
      /\ doing[p] = "listing" /\ doing' = doing /\ held' = held /\ used' = used /\ last' = last
  BY DEF List, ListFails, FreshAt, Looking
<1>2. CASE ListFails(p)
  <2>1. /\ list' = list /\ unseen'[p] = {} /\ stale'[p] = stale[p] \cup (unseen[p] \cap held)
    BY <1>2 DEF ListFails, ScanTypes
  <2>2. QED
    BY <1>1, <2>1 DEF FreshAt, Timely, Looking
<1>3. CASE List(p)
  <2>1. PICK d \in unseen[p] :
          /\ unseen' = [unseen EXCEPT ![p] = @ \ {d}]
          /\ \/ /\ d \in held
                /\ list' = [list EXCEPT ![p] = With(@, d, used[d])]
                /\ UNCHANGED stale
             \/ /\ d \in held \cup stale[p]
                /\ list' = [list EXCEPT ![p] = With(@, d, 0)]
                /\ stale' = [stale EXCEPT ![p] = @ \cup {d}]
             \/ /\ d \notin held
                /\ UNCHANGED <<list, stale>>
    BY <1>3 DEF List
  <2>2. unseen'[p] = unseen[p] \ {d} /\ d \in Ids
    BY <2>1 DEF ScanTypes
  <2>3. CASE d \in held /\ list' = [list EXCEPT ![p] = With(@, d, used[d])] /\ UNCHANGED stale
    <3>1. list'[p] = With(list[p], d, used[d])
      BY <2>3 DEF ScanTypes
    <3>2. /\ DOMAIN list'[p] = DOMAIN list[p] \cup {d}
          /\ \A e \in DOMAIN list'[p] : list'[p][e] = IF e = d THEN used[d] ELSE list[p][e]
      BY <3>1 DEF With
    <3>3. used[d] <= last[d]
      BY <2>3 DEF Uses
    <3>4. Timely(p)'
      BY <1>0, <1>1, <2>3, <3>2, <3>3 DEF Timely
    <3>5. QED
      BY <1>1, <2>2, <2>3, <3>2, <3>4 DEF FreshAt
  <2>4. CASE /\ d \in held \cup stale[p] /\ list' = [list EXCEPT ![p] = With(@, d, 0)]
             /\ stale' = [stale EXCEPT ![p] = @ \cup {d}]
    <3>1. list'[p] = With(list[p], d, 0) /\ stale'[p] = stale[p] \cup {d}
      BY <2>4 DEF ScanTypes
    <3>2. /\ DOMAIN list'[p] = DOMAIN list[p] \cup {d}
          /\ \A e \in DOMAIN list'[p] : list'[p][e] = IF e = d THEN 0 ELSE list[p][e]
      BY <3>1 DEF With
    <3>3. Timely(p)'
      BY <1>0, <1>1, <2>2, <2>4, <3>1, <3>2 DEF Timely
    <3>4. QED
      BY <1>1, <2>2, <3>1, <3>2, <3>3 DEF FreshAt
  <2>5. CASE d \notin held /\ UNCHANGED <<list, stale>>
    BY <1>1, <2>2, <2>5 DEF FreshAt, Timely, Looking
  <2>6. QED
    BY <2>1, <2>3, <2>4, <2>5
<1>4. QED
  BY <1>2, <1>3

LEMMA FreshListed ==
  ASSUME DictCacheAssumption, CacheInv, ScanTypes, ScanTypes', NEW p \in Procs, FreshAt(p), Listed(p)
  PROVE  FreshAt(p)'
<1> USE DEF files, Goes
<1>0. /\ doing \in [Procs -> Quiet \cup {"create", "filling", "rename"}]
      /\ DOMAIN list[p] \subseteq Ids /\ \A d \in DOMAIN list[p] : list[p][d] \in Nat
      /\ IsFiniteSet(DOMAIN list[p]) /\ last \in [Ids -> Nat] /\ Keep \in Nat
  BY ListingTypes DEF CacheInv, Types, ScanTypes, DictCacheAssumption
<1>1. /\ Timely(p) /\ held \subseteq DOMAIN list[p] \cup stale[p] /\ whole \subseteq held
      /\ held' = held /\ used' = used /\ last' = last /\ whole' = whole /\ stale' = stale
  BY DEF Listed, FreshAt, Looking, ScanTypes
<1>2. CASE op[p] = "newest"
  <2>1. doing'[p] = "trying" /\ list' = list
    BY <1>0, <1>2 DEF Listed
  <2>2. QED
    BY <1>1, <2>1 DEF FreshAt, Timely
<1>3. CASE op[p] # "newest"
  <2>1. PICK r \in Pruned(p) : list' = [list EXCEPT ![p] = [d \in r |-> @[d]]]
    BY <1>3 DEF Listed
  <2>2. doing'[p] = "pruning" /\ list'[p] = [d \in r |-> list[p][d]]
    BY <1>0, <1>3, <2>1 DEF Listed, ScanTypes
  <2>3. r \subseteq DOMAIN list[p] /\ DOMAIN list'[p] = r
    BY <2>1, <2>2 DEF Pruned, Rest
  <2>4. \A d \in r : list'[p][d] = list[p][d]
    BY <2>2
  <2>5. Timely(p)'
    BY <1>1, <2>3, <2>4 DEF Timely
  <2>6. ASSUME NEW d \in r
        PROVE  Cardinality(Fresher(p, d)') >= Keep
    <3>1. /\ Cardinality(r) = Cardinality(DOMAIN list[p]) - Keep
          /\ \A e \in DOMAIN list[p] \ r : list[p][d] <= list[p][e]
      BY <2>1, <2>6 DEF Pruned, Rest
    <3>2. DOMAIN list[p] \ r \subseteq Fresher(p, d)'
      <4>1. \A e \in DOMAIN list[p] \ r : e \in held \cup stale[p] /\ last[e] >= list[p][d]
        <5>1. \A e \in DOMAIN list[p] : /\ list[p][e] <= last[e] /\ e \in held \cup stale[p]
                                        /\ list[p][e] \in Nat /\ last[e] \in Nat
          BY <1>0, <1>1 DEF Timely
        <5>2. QED
          BY <2>3, <3>1, <5>1
      <4>2. QED
        BY <1>1, <2>3, <2>4, <4>1 DEF Fresher
    <3>3. /\ Cardinality(DOMAIN list[p] \ r) = Cardinality(DOMAIN list[p]) - Cardinality(r)
          /\ Cardinality(DOMAIN list[p]) \in Nat
      <4>1. DOMAIN list[p] \cap r = r
        BY <2>3
      <4>2. QED
        BY <1>0, <4>1, FS_Difference, FS_CardinalityType
    <3>4. IsFiniteSet(Fresher(p, d)')
      <4>1. IsFiniteSet(held' \cup stale'[p])
        BY FS_Union DEF ScanTypes
      <4>2. Fresher(p, d)' \subseteq held' \cup stale'[p]
        BY DEF Fresher
      <4>3. QED
        BY <4>1, <4>2, FS_Subset
    <3>5. /\ Cardinality(DOMAIN list[p] \ r) <= Cardinality(Fresher(p, d)')
          /\ Cardinality(Fresher(p, d)') \in Nat
      BY <3>2, <3>4, Fewer
    <3>6. Cardinality(DOMAIN list[p] \ r) = Keep
      BY <1>0, <3>1, <3>3
    <3>7. QED
      BY <3>5, <3>6
  <2>7. QED
    BY <2>2, <2>3, <2>5, <2>6 DEF FreshAt
<1>4. QED
  BY <1>2, <1>3

LEMMA FreshTried ==
  ASSUME CacheInv, ScanTypes, ScanTypes', NEW p \in Procs, FreshAt(p), Load(p) \/ Discard(p)
  PROVE  FreshAt(p)'
<1> USE DEF files, scan, place, Goes
<1>0. /\ doing \in [Procs -> Quiet \cup {"create", "filling", "rename"}]
      /\ id \in [Procs -> Ids] /\ used \in [Ids -> Nat]
      /\ DOMAIN list[p] \subseteq Ids /\ \A d \in DOMAIN list[p] : list[p][d] \in Nat
      /\ whole \subseteq held
  BY ListingTypes DEF CacheInv, Types, ScanTypes
<1>1. Timely(p) /\ whole \subseteq DOMAIN list[p] \cup stale[p]
  BY DEF Load, Discard, FreshAt, Looking
<1>2. CASE Load(p)
  <2>1. PICK d \in Ids :
          /\ First(p, d)
          /\ id' = [id EXCEPT ![p] = d]
          /\ \/ doing' = [doing EXCEPT ![p] = "touching"]
             \/ /\ d \in held \ whole
                /\ doing' = [doing EXCEPT ![p] = "removing"]
                /\ list' = [list EXCEPT ![p] = Without(@, d)]
                /\ UNCHANGED stale
             \/ /\ list' = [list EXCEPT ![p] = Without(@, d)]
                /\ stale' = [stale EXCEPT ![p] = @ \cup ({d} \cap held)]
                /\ UNCHANGED doing
    BY <1>2 DEF Load, Others
  <2>2. UNCHANGED <<held, whole, used, last>> /\ doing[p] = "trying" /\ id'[p] = d
    BY <1>0, <1>2, <2>1 DEF Load
  <2>3. CASE doing' = [doing EXCEPT ![p] = "touching"]
    <3>1. doing'[p] = "touching"
      BY <1>0, <2>3
    <3>2. QED
      BY <3>1, FreshBegun DEF Looking
  <2>4. CASE doing' # [doing EXCEPT ![p] = "touching"]
    <3>1. list'[p] = Without(list[p], d)
      BY <2>1, <2>4 DEF ScanTypes
    <3>2. /\ DOMAIN list'[p] = DOMAIN list[p] \ {d}
          /\ \A e \in DOMAIN list'[p] : list'[p][e] = list[p][e]
      BY <3>1 DEF Without
    <3>3. /\ stale[p] \subseteq stale'[p] /\ doing'[p] \in {"trying", "removing"}
          /\ d \in whole => d \in stale'[p]
      BY <1>0, <2>1, <2>2, <2>4 DEF ScanTypes
    <3>4. Timely(p)'
      BY <1>1, <2>2, <3>2, <3>3 DEF Timely
    <3>5. QED
      BY <1>1, <2>2, <3>2, <3>3, <3>4 DEF FreshAt
  <2>5. QED
    BY <2>3, <2>4
<1>3. CASE Discard(p)
  <2>1. /\ doing'[p] = "trying" /\ list' = list /\ id[p] \notin DOMAIN list[p]
    BY <1>0, <1>3 DEF Discard, FreshAt
  <2>2. CASE Removes(p, id[p])
    <3>1. /\ held' = held \ {id[p]} /\ whole' \subseteq whole /\ last' = last /\ stale'[p] = stale[p]
          /\ \A d \in DOMAIN list[p] : used'[d] = used[d]
      BY <1>0, <2>1, <2>2 DEF Removes, Disturbs
    <3>2. Timely(p)'
      BY <1>1, <2>1, <3>1 DEF Timely
    <3>3. QED
      BY <1>1, <2>1, <3>1, <3>2 DEF FreshAt
  <2>3. CASE UNCHANGED <<files, stale>>
    BY <1>1, <2>1, <2>3 DEF FreshAt, Timely
  <2>4. QED
    BY <1>3, <2>2, <2>3 DEF Discard
<1>4. QED
  BY <1>2, <1>3

LEMMA FreshPruned ==
  ASSUME DictCacheAssumption, CacheInv, ScanTypes, ScanTypes', NEW p \in Procs, FreshAt(p), Prune(p)
  PROVE  FreshAt(p)'
<1> USE DEF files
<1>1. PICK d \in Ids :
        /\ First(p, d)
        /\ list' = [list EXCEPT ![p] = Without(@, d)]
        /\ Removes(p, d) \/ UNCHANGED <<files, stale>>
  BY DEF Prune
<1>2. /\ DOMAIN list'[p] = DOMAIN list[p] \ {d} /\ d \in DOMAIN list[p]
      /\ \A e \in DOMAIN list'[p] : list'[p][e] = list[p][e]
  BY <1>1 DEF Without, First, ScanTypes
<1>3. /\ held \ {d} \subseteq held' /\ last' = last /\ stale'[p] = stale[p]
      /\ \A e \in DOMAIN list'[p] : used'[e] = used[e]
  <2>1. CASE Removes(p, d)
    BY <1>2, <2>1 DEF Removes, Disturbs, ScanTypes
  <2>2. CASE UNCHANGED <<files, stale>>
    BY <2>2
  <2>3. QED
    BY <1>1, <2>1, <2>2
<1>4. doing[p] = "pruning" /\ doing' = doing /\ Timely(p)
  BY DEF Prune, FreshAt, Looking
<1>5. Timely(p)'
  BY <1>2, <1>3, <1>4 DEF Timely
<1>6. ASSUME NEW e \in DOMAIN list'[p]
      PROVE  Cardinality(Fresher(p, e)') >= Keep
  <2>1. Fresher(p, e) \subseteq Fresher(p, e)'
    BY <1>2, <1>3 DEF Fresher
  <2>2. IsFiniteSet(Fresher(p, e)')
    <3>1. IsFiniteSet(held' \cup stale'[p])
      BY FS_Union DEF ScanTypes
    <3>2. Fresher(p, e)' \subseteq held' \cup stale'[p]
      BY DEF Fresher
    <3>3. QED
      BY <3>1, <3>2, FS_Subset
  <2>3. Cardinality(Fresher(p, e)) >= Keep
    BY <1>2, <1>4 DEF FreshAt
  <2>4. QED
    BY <2>1, <2>2, <2>3, Fewer DEF DictCacheAssumption
<1>7. QED
  BY <1>4, <1>5, <1>6 DEF FreshAt

LEMMA FreshOwn ==
  ASSUME DictCacheAssumption, CacheInv, ScanTypes, ScanTypes', Places, Uses,
         NEW p \in Procs, FreshAt(p), Step(p)
  PROVE  FreshAt(p)'
<1> USE DEF files, place, toll, scan, Goes, Returns
<1>0. doing \in [Procs -> Quiet \cup {"create", "filling", "rename"}]
  BY DEF CacheInv, Types
<1>1. CASE Newest(p)
  <2>1. doing'[p] = "listing" /\ unseen'[p] = Ids /\ list' = list /\ ~Looking(p)
    BY <1>0, <1>1 DEF Newest, Begins, Listing, Looking, ScanTypes
  <2>2. QED
    BY <2>1, FreshBegun DEF Places
<1>2. CASE TouchFails(p) \/ SetTimes(p)
  <2>1. ~Looking(p) /\ Touched(p)
    BY <1>2 DEF TouchFails, SetTimes, Looking
  <2>2. DOMAIN list[p] = {}
    BY <2>1 DEF Places
  <2>3. \/ doing'[p] = "idle"
        \/ doing'[p] = "listing" /\ unseen'[p] = Ids /\ list' = list
    BY <1>0, <2>1 DEF Touched, Listing, ScanTypes
  <2>4. QED
    BY <2>2, <2>3, FreshBegun DEF Looking
<1>3. CASE \/ Store(p) \/ NoneLeft(p) \/ ReadClock(p) \/ Open(p) \/ Create(p) \/ Fill(p)
           \/ StoreFails(p) \/ Rename(p) \/ Stored(p) \/ Crash(p)
  <2>1. doing'[p] \in {"create", "idle", "opening", "stamping", "filling", "rename", "touching"}
    BY <1>0, <1>3 DEF Store, Begins, NoneLeft, ReadClock, Open, Create, Fill, StoreFails, Rename,
       Stored, Crash
  <2>2. QED
    BY <2>1, FreshBegun DEF Looking
<1>4. QED
  BY <1>1, <1>2, <1>3, FreshList, FreshListed, FreshTried, FreshPruned DEF Step


LEMMA FreshNext ==
  DictCacheAssumption /\ CacheInv /\ ScanTypes /\ ScanTypes' /\ Places /\ Clocked /\ Uses /\ Fresh
    /\ [CacheNext]_cacheVars => Fresh'
<1> SUFFICES ASSUME DictCacheAssumption, CacheInv, ScanTypes, ScanTypes', Places, Clocked, Uses, Fresh,
                    [CacheNext]_cacheVars, NEW p \in Procs
             PROVE  FreshAt(p)'
  BY DEF Fresh
<1>0. /\ FreshAt(p) /\ Keep \in Nat
      /\ \A d \in Ids : last[d] \in Nat /\ last'[d] \in Nat /\ last[d] <= last'[d]
  BY LastGrows DEF Fresh, DictCacheAssumption
<1>1. ASSUME NEW q \in Procs, Step(q)
      PROVE  FreshAt(p)'
  <2>1. CASE q = p
    BY <1>0, <1>1, <2>1, FreshOwn
  <2>2. CASE q # p /\ Looking(p)
    BY <1>0, <1>1, <2>2, FreshOthers
  <2>3. CASE q # p /\ ~Looking(p)
    <3>1. doing'[p] = doing[p]
      BY <1>1, <2>3 DEF Step, Newest, Begins, Store, List, ListFails, Listed, NoneLeft, Load, Discard,
         ReadClock, Open, TouchFails, SetTimes, Touched, Create, Fill, StoreFails, Rename, Prune, Stored,
         Crash, Goes, Returns, CacheInv, Types
    <3>2. QED
      BY <2>3, <3>1, FreshBegun DEF Looking
  <2>4. QED
    BY <2>1, <2>2, <2>3
<1>2. ASSUME NEW d \in Ids, Damage(d)
      PROVE  FreshAt(p)'
  <2>1. /\ UNCHANGED <<held, used, list, unseen, doing, id>> /\ whole' \subseteq whole
    BY <1>2 DEF Damage, place, scan
  <2>2. stale[p] \subseteq stale'[p]
    BY <1>2 DEF Damage, Disturbs, ScanTypes
  <2>3. QED
    BY <1>0, <2>1, <2>2, FreshKept
<1>3. CASE UNCHANGED cacheVars
  <2>1. UNCHANGED <<held, whole, used, last, doing, id, list, unseen, stale>>
    BY <1>3 DEF cacheVars, files, place, scan
  <2>2. QED
    BY <1>0, <2>1 DEF FreshAt, Timely, Fresher, Looking
<1>4. QED
  BY <1>1, <1>2, <1>3 DEF CacheNext

Order == Clocked /\ Uses /\ Stamps /\ Fresh

LEMMA Ordering == CacheSpec => []Order
<1>1. CacheInit => Order
  BY DEF CacheInit, Order, Clocked, Uses, Stamps, Fresh, FreshAt, Looking
<1>2. CacheInv /\ ScanTypes /\ ScanTypes' /\ Places /\ Order /\ [CacheNext]_cacheVars => Order'
  BY DictCacheAssumption, ClockedNext, UsesNext, FreshNext DEF Order
<1>3. QED
  BY <1>1, <1>2, Invariance, Scans, PTL DEF CacheSpec

(* Whose step it is that takes a process on from where it tries, removes or prunes. *)
LEMMA OwnStep ==
  ASSUME CacheInv, ScanTypes, NEW p \in Procs, [CacheNext]_cacheVars,
         doing'[p] # doing[p] \/ list'[p] # list[p]
  PROVE  Step(p)
<1> USE DEF files, place, toll, scan, Goes, Returns
<1>1. ASSUME NEW q \in Procs, q # p, Step(q)
      PROVE  doing'[p] = doing[p] /\ list'[p] = list[p]
  <2>1. CASE Newest(q) \/ Store(q) \/ List(q) \/ ListFails(q) \/ Listed(q) \/ NoneLeft(q) \/ Load(q)
    BY <1>1, <2>1 DEF Newest, Begins, Listing, Looked, Store, List, ListFails, Listed, NoneLeft, Load,
       CacheInv, Types, ScanTypes
  <2>2. CASE \/ Discard(q) \/ ReadClock(q) \/ Open(q) \/ TouchFails(q) \/ SetTimes(q) \/ Prune(q)
             \/ Stored(q) \/ Crash(q)
    BY <1>1, <2>2 DEF Discard, ReadClock, Open, TouchFails, SetTimes, Touched, Listing, Looked, Prune,
       Stored, Crash, CacheInv, Types, ScanTypes
  <2>3. CASE Create(q) \/ Fill(q) \/ StoreFails(q) \/ Rename(q)
    BY <1>1, <2>3 DEF Create, Fill, StoreFails, Rename, CacheInv, Types, ScanTypes
  <2>4. QED
    BY <1>1, <2>1, <2>2, <2>3 DEF Step
<1>2. CASE (\E d \in Ids : Damage(d)) \/ UNCHANGED cacheVars
  BY <1>2 DEF Damage, cacheVars
<1>3. QED
  BY <1>1, <1>2 DEF CacheNext

LEMMA LatestStep ==
  ASSUME CacheInv, ScanTypes, Places, Order, [CacheNext]_cacheVars, NEW p \in Procs,
         doing[p] = "trying", doing'[p] = "touching", NEW w \in whole \ (stale[p] \cup late)
  PROVE  last[w] <= last[id'[p]]
<1>1. Step(p)
  BY OwnStep
<1>2. Load(p)
  BY <1>1 DEF Step, Newest, Store, Begins, List, ListFails, Listed, NoneLeft, Discard, ReadClock, Open,
     TouchFails, SetTimes, Touched, Create, Fill, StoreFails, Rename, Prune, Stored, Crash, Goes, Returns,
     CacheInv, Types
<1>3. PICK d \in Ids : First(p, d) /\ id' = [id EXCEPT ![p] = d]
  BY <1>2 DEF Load
<1>4. id'[p] = d
  BY <1>3 DEF CacheInv, Types
<1>5. Timely(p) /\ w \in DOMAIN list[p] /\ w \in held
  BY DEF Order, Fresh, FreshAt, Looking, ScanTypes
<1>6. d \in DOMAIN list[p] /\ list[p][w] <= list[p][d]
  BY <1>3, <1>5 DEF First
<1>7. list[p][w] = last[w] /\ list[p][d] <= last[d]
  BY <1>5, <1>6 DEF Timely, Order, Uses
<1>8. list[p][d] \in Nat /\ list[p][w] \in Nat /\ last[d] \in Nat
  BY <1>5, <1>6, ListingTypes DEF ScanTypes
<1>9. QED
  BY <1>4, <1>6, <1>7, <1>8

LEMMA SpentStep ==
  ASSUME DictCacheAssumption, CacheInv, ScanTypes, Places, Order, [CacheNext]_cacheVars,
         NEW p \in Procs, NEW d \in (held \ held') \ stale[p]
  PROVE  /\ doing[p] = "removing" /\ doing'[p] = "trying" => d \notin whole
         /\ doing[p] = "pruning" /\ DOMAIN list'[p] # DOMAIN list[p] /\ d \notin late =>
              Cardinality({e \in (held \cup stale[p]) \ {d} : last[e] >= last[d]}) >= Keep
<1>1. ASSUME doing[p] = "removing", doing'[p] = "trying"
      PROVE  d \notin whole
  <2>1. Step(p)
    BY <1>1, OwnStep
  <2>2. Discard(p)
    BY <1>1, <2>1 DEF Step, Newest, Store, Begins, List, ListFails, Listed, NoneLeft, Load, ReadClock,
       Open, TouchFails, SetTimes, Touched, Create, Fill, StoreFails, Rename, Prune, Stored, Crash, Goes,
       Returns, CacheInv, Types
  <2>3. d = id[p]
    BY <2>2 DEF Discard, Removes, files
  <2>4. QED
    BY <1>1, <2>3 DEF Order, Fresh, FreshAt
<1>2. ASSUME doing[p] = "pruning", DOMAIN list'[p] # DOMAIN list[p], d \notin late
      PROVE  Cardinality({e \in (held \cup stale[p]) \ {d} : last[e] >= last[d]}) >= Keep
  <2>1. Step(p)
    BY <1>2, OwnStep
  <2>2. Prune(p)
    <3>2. ~Stored(p) /\ ~Crash(p)
      BY <1>2, <2>1 DEF Stored, Crash, files, ScanTypes
    <3>3. QED
      BY <1>2, <2>1, <3>2 DEF Step, Newest, Store, Begins, List, ListFails, Listed, NoneLeft, Load,
         Discard, ReadClock, Open, TouchFails, SetTimes, Create, Fill, StoreFails, Rename
  <2>3. d \in DOMAIN list[p]
    BY <2>2 DEF Prune, Removes, First, files
  <2>4. Cardinality(Fresher(p, d)) >= Keep
    BY <1>2, <2>3 DEF Order, Fresh, FreshAt
  <2>5. list[p][d] = last[d]
    BY <1>2, <2>3 DEF Order, Fresh, FreshAt, Looking, Timely, Uses
  <2>6. Fresher(p, d) \subseteq {e \in (held \cup stale[p]) \ {d} : last[e] >= last[d]}
    BY <2>3, <2>5 DEF Fresher
  <2>7. IsFiniteSet({e \in (held \cup stale[p]) \ {d} : last[e] >= last[d]})
    <3>1. IsFiniteSet(held \cup stale[p])
      BY FS_Union DEF ScanTypes
    <3>2. {e \in (held \cup stale[p]) \ {d} : last[e] >= last[d]} \subseteq held \cup stale[p]
      OBVIOUS
    <3>3. QED
      BY <3>1, <3>2, FS_Subset
  <2>8. QED
    BY <2>4, <2>6, <2>7, Fewer DEF DictCacheAssumption
<1>3. QED
  BY <1>1, <1>2


(* newest passes over every dictionary that is not intact, or that it is refused, and no
   other: what it returns no intact one was stored or loaded after, of those whose file
   has the time of that and that nothing has disturbed since it listed them
   (dictcache.rs:108-138, 172-181). *)
THEOREM Latest == CacheSpec => NewestIsLatest
<1>1. CacheInv /\ (ScanTypes /\ Places) /\ Order /\ [CacheNext]_cacheVars =>
        [\A p \in Procs :
           doing[p] = "trying" /\ doing'[p] = "touching" =>
             \A d \in whole \ (stale[p] \cup late) : last[d] <= last[id'[p]]]_cacheVars
  BY LatestStep
<1>2. QED
  BY <1>1, Invariance, Scans, Ordering, PTL DEF CacheSpec, NewestIsLatest

(* newest ends with no dictionary only when each intact one there is was refused, or
   stored, loaded or taken away by another, since it began to list (dictcache.rs:113-120,
   186-204). *)
THEOREM Finds == CacheSpec => []NewestFinds
<1>1. Order => NewestFinds
  BY DEF Order, Fresh, FreshAt, NewestFinds
<1>2. QED
  BY <1>1, Ordering, PTL

(* A file nobody has disturbed since it was listed goes only because it was found damaged
   and still is, or because KEEP others were used since, there still or taken away by
   another; and the second needs its time to be that of its last use
   (dictcache.rs:128-138, 206-216). *)
THEOREM Spent == CacheSpec => RemovesOnlySpent
<1>1. CacheInv /\ (ScanTypes /\ Places) /\ Order /\ [CacheNext]_cacheVars =>
        [\A p \in Procs : \A d \in (held \ held') \ stale[p] :
           /\ doing[p] = "removing" /\ doing'[p] = "trying" => d \notin whole
           /\ doing[p] = "pruning" /\ DOMAIN list'[p] # DOMAIN list[p] /\ d \notin late =>
                Cardinality({e \in (held \cup stale[p]) \ {d} : last[e] >= last[d]}) >= Keep
        ]_cacheVars
  BY SpentStep, DictCacheAssumption
<1>2. QED
  BY <1>1, Invariance, Scans, Ordering, PTL DEF CacheSpec, RemovesOnlySpent

=============================================================================
