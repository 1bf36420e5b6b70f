----------------------------- MODULE Transaction -----------------------------
(***************************************************************************)
(* Transaction::read of the Rust SDK and the accessors that slice what it  *)
(* accepted.  The header of a body declares how long eight sections are;   *)
(* read places them one behind the other, refuses what does not fit, and   *)
(* checks each entry of the two tables once.  From then on every accessor  *)
(* slices by what the header and the tables say, without a bounds test.    *)
(*                                                                         *)
(* Bytes are not modelled: a body is how long it is and the numbers it     *)
(* declares, and a table entry is read, as any numbers at all, when the    *)
(* code reads it.                                                          *)
(***************************************************************************)
EXTENDS Integers, Sequences

CONSTANTS
  Haves,        \* the lengths a body may have
  Counts,       \* what it may declare to have: signatures, accounts, entries
  Lengths,      \* the byte lengths it may declare
  Offsets,      \* the offsets and lengths its table entries may hold
  Usize         \* how many values an index has on the target

(* Fields are at most 32 bits wide and an index 64: a sum of two does not wrap. *)
ASSUME TransactionAssumption ==
  /\ Haves \subseteq Nat
  /\ Counts \subseteq Nat
  /\ Lengths \subseteq Nat
  /\ Offsets \subseteq Nat
  /\ Usize \in Nat \ {0}
  /\ \A m, n \in Offsets : m + n < Usize

VARIABLES
  pc,           \* "idle" before a body, "read" or "refused" after one, else where read is
  body,         \* the length of the body and what its header declares
  at,           \* where the next section starts
  starts,       \* where the sections taken so far start
  table,        \* the instruction entries checked so far
  lookups       \* the lookup entries checked so far

txn == <<pc, body, at, starts, table, lookups>>

-----------------------------------------------------------------------------

TX_HEADER_LEN == 104
SIGNATURE_LEN == 64
KEY_LEN == 32
INSTRUCTION_ENTRY_LEN == 16
LOOKUP_ENTRY_LEN == 40

Headers ==
  [have : Haves,
   signatures : Counts, accounts : Counts, instructions : Counts, lookups : Counts,
   instruction_bytes : Lengths, lookup_bytes : Lengths, raw : Lengths,
   has_raw : BOOLEAN]

None ==
  [have |-> 0, signatures |-> 0, accounts |-> 0, instructions |-> 0, lookups |-> 0,
   instruction_bytes |-> 0, lookup_bytes |-> 0, raw |-> 0, has_raw |-> FALSE]

(* An instruction entry points at its accounts and its data, a lookup entry at its
   writable and its readonly indexes. *)
Entries == [first_at : Offsets, first_len : Offsets, second_at : Offsets, second_len : Offsets]

Unaligned(len) == len                     \* mutant: the padding is forgotten

Align8(len) == ((len + 7) \div 8) * 8

(* The sections, in the order they follow the header. *)
Signatures == 1
AccountKeys == 2
Blockhash == 3
InstructionTable == 4
InstructionBytes == 5
LookupTable == 6
LookupBytes == 7
RawTx == 8

(* How long each is, before the two of bytes are padded. *)
Extents ==
  << body.signatures * SIGNATURE_LEN,
     body.accounts * KEY_LEN,
     KEY_LEN,
     body.instructions * INSTRUCTION_ENTRY_LEN,
     body.instruction_bytes,
     body.lookups * LOOKUP_ENTRY_LEN,
     body.lookup_bytes,
     body.raw >>

SectionLens ==
  [Extents EXCEPT ![InstructionBytes] = Align8(@), ![LookupBytes] = Align8(@)]

Taking == SectionLens[Len(starts) + 1]

ReachesEnd(end) == end < body.have        \* mutant: the last byte is not counted

(* `at > bytes.len()` refuses. *)
Fits(end) == end <= body.have

AddressesStart(entry, len) ==             \* mutant: only where the ranges start is checked
  entry.first_at <= len /\ entry.second_at <= len

(* Both ranges of an entry end within the bytes declared for it, the padding apart. *)
Addresses(entry, len) ==
  /\ (entry.first_at + entry.first_len) % Usize <= len
  /\ (entry.second_at + entry.second_len) % Usize <= len

Init ==
  /\ pc = "idle"
  /\ body = None
  /\ at = 0
  /\ starts = <<>>
  /\ table = <<>>
  /\ lookups = <<>>

(* read is called with a body. *)
Receive ==
  /\ pc = "idle"
  /\ pc' = "header"
  /\ body' \in Headers
  /\ UNCHANGED <<at, starts, table, lookups>>

(* What borrows the body is gone before another is read. *)
Dropped ==
  /\ pc \in {"read", "refused"}
  /\ pc' = "idle"
  /\ body' = None
  /\ at' = 0
  /\ starts' = <<>>
  /\ table' = <<>>
  /\ lookups' = <<>>

Refuse ==
  /\ pc' = "refused"
  /\ UNCHANGED <<body, at, starts, table, lookups>>

HeaderMissing ==
  /\ pc = "header"
  /\ body.have < TX_HEADER_LEN
  /\ Refuse

Header ==
  /\ pc = "header"
  /\ body.have >= TX_HEADER_LEN
  /\ pc' = "sections"
  /\ at' = TX_HEADER_LEN
  /\ UNCHANGED <<body, starts, table, lookups>>

Take ==
  /\ pc = "sections"
  /\ Fits(at + Taking)
  /\ starts' = Append(starts, at)
  /\ at' = at + Taking
  /\ pc' = IF Len(starts') = Len(SectionLens) THEN "tables" ELSE "sections"
  /\ UNCHANGED <<body, table, lookups>>

Overrun ==
  /\ pc = "sections"
  /\ ~Fits(at + Taking)
  /\ Refuse

More == Len(table) < body.instructions

(* The entries are checked in order, and the first that points outside refuses. *)
Instruction ==
  /\ pc = "tables"
  /\ More
  /\ \E entry \in Entries :
       /\ table' = Append(table, entry)
       /\ pc' = IF Addresses(entry, body.instruction_bytes) THEN "tables" ELSE "refused"
  /\ UNCHANGED <<body, at, starts, lookups>>

Lookup ==
  /\ pc = "tables"
  /\ ~More
  /\ Len(lookups) < body.lookups
  /\ \E entry \in Entries :
       /\ lookups' = Append(lookups, entry)
       /\ pc' = IF Addresses(entry, body.lookup_bytes) THEN "tables" ELSE "refused"
  /\ UNCHANGED <<body, at, starts, table>>

Accept ==
  /\ pc = "tables"
  /\ ~More
  /\ Len(lookups) = body.lookups
  /\ pc' = "read"
  /\ UNCHANGED <<body, at, starts, table, lookups>>

Read == HeaderMissing \/ Header \/ Take \/ Overrun \/ Instruction \/ Lookup \/ Accept

Next == Receive \/ Read \/ Dropped

Spec == Init /\ [][Next]_txn

-----------------------------------------------------------------------------
(* The accessors: what each slices out of the bytes, and of which section.  Those of
   the header read a field at a fixed place: where it is, and how wide. *)

(* slot to flags, the leader among them *)
ScalarFields ==
  {<<0, 8>>, <<8, 8>>, <<16, 8>>, <<24, 8>>, <<32, 32>>, <<64, 4>>, <<68, 4>>, <<72, 4>>,
   <<88, 2>>, <<90, 2>>}

(* What says how long the sections are, and how the accounts divide. *)
CountFields ==
  {<<76, 4>>, <<80, 4>>, <<84, 4>>, <<92, 2>>, <<94, 2>>}
    \cup {<<k, 1>> : k \in 96..103}

Slice(section, offset, len) ==
  [section |-> section, at |-> starts[section] + offset, len |-> len]

SignatureSlices ==
  {Slice(Signatures, i * SIGNATURE_LEN, SIGNATURE_LEN) : i \in 0..(body.signatures - 1)}

AccountKeySlices == {Slice(AccountKeys, i * KEY_LEN, KEY_LEN) : i \in 0..(body.accounts - 1)}

BlockhashSlices == {Slice(Blockhash, 0, KEY_LEN)}

(* The entry of the table, and the two ranges it points at. *)
InstructionSlices ==
  UNION {{Slice(InstructionTable, (i - 1) * INSTRUCTION_ENTRY_LEN, INSTRUCTION_ENTRY_LEN),
          Slice(InstructionBytes, table[i].first_at, table[i].first_len),
          Slice(InstructionBytes, table[i].second_at, table[i].second_len)} :
         i \in DOMAIN table}

LookupSlices ==
  UNION {{Slice(LookupTable, (i - 1) * LOOKUP_ENTRY_LEN, LOOKUP_ENTRY_LEN),
          Slice(LookupBytes, lookups[i].first_at, lookups[i].first_len),
          Slice(LookupBytes, lookups[i].second_at, lookups[i].second_len)} :
         i \in DOMAIN lookups}

RawSlices == IF body.has_raw THEN {Slice(RawTx, 0, body.raw)} ELSE {}

Slices ==
  SignatureSlices \cup AccountKeySlices \cup BlockhashSlices
    \cup InstructionSlices \cup LookupSlices \cup RawSlices

-----------------------------------------------------------------------------
(* Properties *)

(* Every variable stays in its range; at most what the header declares is read. *)
TypeOK ==
  /\ pc \in {"idle", "header", "sections", "tables", "read", "refused"}
  /\ body \in Headers \cup {None}
  /\ at \in Nat
  /\ starts \in Seq(Nat) /\ Len(starts) <= 8
  /\ table \in Seq(Entries) /\ Len(table) <= body.instructions
  /\ lookups \in Seq(Entries) /\ Len(lookups) <= body.lookups

(* Every section starts where the documentation of the layout says: 8-byte aligned,
   behind the header, behind every section before it, and all of it within the body
   (transaction.rs:5-6, 133-158). *)
SectionsLaid ==
  \A i \in DOMAIN starts :
    /\ starts[i] % 8 = 0
    /\ starts[i] >= TX_HEADER_LEN
    /\ starts[i] + SectionLens[i] <= body.have
    /\ \A j \in 1..(i - 1) : starts[j] + SectionLens[j] <= starts[i]

(* Once a body is accepted no accessor reaches outside its own section, into the
   padding behind it or past the body: none needs the bounds test it lacks
   (transaction.rs:160-161, 405-495). *)
SlicesInside ==
  pc = "read" =>
    \A s \in Slices :
      /\ s.at >= starts[s.section]
      /\ s.at + s.len <= starts[s.section] + Extents[s.section]

(* How much a body with this header takes. *)
Needed ==
  TX_HEADER_LEN + SectionLens[1] + SectionLens[2] + SectionLens[3] + SectionLens[4]
    + SectionLens[5] + SectionLens[6] + SectionLens[7] + SectionLens[8]

EndsWithin(entries, len) ==
  \A i \in DOMAIN entries :
    /\ entries[i].first_at + entries[i].first_len <= len
    /\ entries[i].second_at + entries[i].second_len <= len

WellFormed ==
  /\ Needed <= body.have
  /\ EndsWithin(table, body.instruction_bytes)
  /\ EndsWithin(lookups, body.lookup_bytes)

(* read accepts what is well formed and refuses what is not, whichever check it is
   that finds out, and accepts it only once every entry was looked at
   (transaction.rs:114-196). *)
ReadsWhatFits ==
  /\ pc = "read" =>
       WellFormed /\ Len(table) = body.instructions /\ Len(lookups) = body.lookups
  /\ pc = "refused" => ~WellFormed

=============================================================================
