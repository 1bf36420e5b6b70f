------------------------------- MODULE Bodies --------------------------------
(***************************************************************************)
(* What the Rust SDK makes of a frame's body once the frame is whole: the  *)
(* event next_event returns for each kind, and the messages connect reads. *)
(* A body is refused when it is too short for the fields its reader loads; *)
(* a node newer than the client may send kinds the client does not know,   *)
(* and bodies longer than the ones it does.  Transactions are read by      *)
(* Transaction, which this module extends.                                 *)
(***************************************************************************)
EXTENDS Transaction, FiniteSets

CONSTANTS
  Bytes,          \* the kind bytes a frame may carry
  Sizes,          \* the lengths of a body
  Declared,       \* the counts and lengths a body may declare
  MaxDictionary   \* MAX_DICTIONARY_BYTES

ASSUME BodiesAssumption ==
  /\ TransactionAssumption
  /\ Bytes \subseteq 0..255
  /\ Sizes \subseteq Nat
  /\ Declared \subseteq Nat
  /\ MaxDictionary \in Nat

VARIABLES
  frame,        \* the frame last read
  event         \* what became of it

vars == <<txn, frame, event>>

-----------------------------------------------------------------------------
(* The readers: what each needs to be there, and the fields it loads, as pairs of
   where a field is and how wide. *)

SlotStart ==
  [need |-> 64,
   fields |-> {<<0, 8>>, <<8, 8>>, <<16, 32>>, <<48, 8>>, <<56, 2>>, <<58, 2>>, <<60, 1>>}]

SlotEnd ==
  [need |-> 48,
   fields |-> {<<0, 8>>, <<8, 8>>, <<16, 4>>, <<20, 4>>, <<24, 4>>, <<28, 4>>, <<32, 8>>,
               <<40, 1>>}]

Entry ==
  [need |-> 88,
   fields |-> {<<0, 8>>, <<8, 8>>, <<16, 8>>, <<24, 8>>, <<32, 8>>, <<40, 32>>, <<72, 4>>,
               <<76, 4>>, <<80, 1>>}]

Duplicate ==
  [need |-> 160,
   fields |-> {<<0, 8>>, <<8, 4>>, <<12, 2>>, <<14, 2>>, <<16, 8>>, <<24, 1>>, <<32, 64>>,
               <<96, 64>>}]

(* The shred is whatever follows the header. *)
RawShred(have) ==
  [need |-> 32,
   fields |-> {<<0, 8>>, <<8, 4>>, <<12, 4>>, <<16, 8>>, <<24, 2>>, <<26, 1>>,
               <<32, have - 32>>}]

(* The keys follow the positions, which are padded. *)
KeysAt(count) == 96 + Align8(count)

LookupsComplete(count) ==
  [need |-> KeysAt(count) + count * KEY_LEN,
   fields |-> {<<0, 8>>, <<8, 8>>, <<16, 4>>, <<20, 4>>, <<24, 64>>, <<88, 1>>, <<89, 1>>,
               <<90, 2>>}
     \cup {<<96 + n, 1>> : n \in 0..(count - 1)}
     \cup {<<KeysAt(count) + n * KEY_LEN, KEY_LEN>> : n \in 0..(count - 1)}]

Dictionary(len) ==
  [need |-> 8 + len, fields |-> {<<0, 4>>, <<4, 4>>, <<8, len>>}]

Challenge == [need |-> 64, fields |-> {<<0, 32>>, <<32, 32>>}]

HelloAck ==
  [need |-> 22,
   fields |-> {<<0, 2>>, <<2, 4>>, <<6, 8>>, <<14, 1>>, <<16, 2>>, <<18, 4>>}]

Lag == [need |-> 16, fields |-> {<<0, 8>>, <<8, 8>>}]

(* Mutant: the declared length is believed. *)
DetailDeclared(from, len, have) == <<from, len>>

(* A detail ends where it says, or where the body does. *)
Detail(from, len, have) == <<from, IF from + len < have THEN len ELSE have - from>>

ErrorMessage(len, have) == [need |-> 4, fields |-> {<<0, 2>>, <<2, 2>>, Detail(4, len, have)}]

FilterAck(len, have) ==
  [need |-> 8, fields |-> {<<0, 1>>, <<2, 4>>, <<6, 2>>, Detail(8, len, have)}]

(* Ping, Pong and what is passed on as it is. *)
Whole(have) == [need |-> 0, fields |-> {<<0, have>>}]

-----------------------------------------------------------------------------

Kinds ==
  <<"Transaction", "Entry", "SlotStart", "SlotEnd", "Duplicate", "RawShred", "Lag",
    "SourceStats", "Hello", "HelloAck", "FilterAck", "Error", "Ping", "Pong", "SetFilter",
    "Challenge", "Prove", "Dictionary">>

(* FrameKind::from_byte *)
KindOf(byte) ==
  IF byte \in DOMAIN Kinds THEN Kinds[byte]
  ELSE IF byte = 21 THEN "LookupsComplete" ELSE "Unknown"

(* What a body that declares n is read with, by its kind. *)
Readers(n, have) ==
  [Entry |-> Entry, SlotStart |-> SlotStart, SlotEnd |-> SlotEnd, Duplicate |-> Duplicate,
   RawShred |-> RawShred(have), LookupsComplete |-> LookupsComplete(n), Lag |-> Lag,
   FilterAck |-> FilterAck(n, have), Error |-> ErrorMessage(n, have),
   Challenge |-> Challenge, HelloAck |-> HelloAck, Dictionary |-> Dictionary(n)]

(* Kinds connect reads, and kinds next_event does not read though it could. *)
Greetings == {"Challenge", "HelloAck", "Dictionary"}

Reader(f) ==
  LET kind == KindOf(f.byte)
      readers == Readers(f.n, f.have)
  IN IF kind \in DOMAIN readers /\ (f.streaming => kind \notin Greetings)
     THEN readers[kind] ELSE Whole(f.have)

Exactly(need, have) == have = need        \* mutant: a longer body is refused

Enough(need, have) == have >= need

Nothing == [got |-> "nothing", fields |-> {}]
Refused == [got |-> "refused", fields |-> {}]

(* While streaming a Dictionary is refused; during the handshake, every kind that is
   not part of it. *)
Expected(f) ==
  IF f.streaming THEN KindOf(f.byte) # "Dictionary"
  ELSE KindOf(f.byte) \in Greetings \cup {"Error"}

(* The body is read, or the call fails. *)
Outcome(f) ==
  IF /\ Expected(f)
     /\ KindOf(f.byte) = "Dictionary" => f.n <= MaxDictionary
     /\ Enough(Reader(f).need, f.have)
  THEN [got |-> KindOf(f.byte), fields |-> Reader(f).fields]
  ELSE Refused

-----------------------------------------------------------------------------

Frames == [byte : Bytes, streaming : BOOLEAN, have : Sizes, n : Declared]

NoFrame == [byte |-> 0, streaming |-> FALSE, have |-> 0, n |-> 0]

BodiesInit ==
  /\ Init
  /\ frame = NoFrame
  /\ event = Nothing

IsTransaction(f) == f.streaming /\ KindOf(f.byte) = "Transaction"

(* A frame is whole and its body becomes an event or an error. *)
Decode ==
  /\ pc = "idle"
  /\ event = Nothing
  /\ \E f \in Frames :
       /\ ~IsTransaction(f)
       /\ frame' = f
       /\ event' = Outcome(f)
  /\ UNCHANGED txn

DecodeTransaction ==
  /\ event = Nothing
  /\ Receive
  /\ UNCHANGED <<frame, event>>

(* The steps of Transaction::read; what it accepts is the event. *)
ReadTransaction ==
  /\ Read
  /\ event' = CASE pc' = "read"    -> [got |-> "Transaction", fields |-> ScalarFields \cup CountFields]
               [] pc' = "refused" -> Refused
               [] OTHER           -> Nothing
  /\ UNCHANGED frame

(* The event borrows the client's buffer, and is gone before the next call. *)
EventDropped ==
  /\ event # Nothing
  /\ event' = Nothing
  /\ frame' = NoFrame
  /\ IF pc = "idle" THEN UNCHANGED txn ELSE Dropped

BodiesNext == Decode \/ DecodeTransaction \/ ReadTransaction \/ EventDropped

BodiesSpec == BodiesInit /\ [][BodiesNext]_vars

-----------------------------------------------------------------------------
(* Properties *)

Have == IF pc = "idle" THEN frame.have ELSE body.have

(* No reader loads a byte the body does not have, whatever length the node gave it and
   whatever it declares; and no byte is read as part of two fields
   (events.rs:64-325, protocol.rs:169-660, transaction.rs:205-403). *)
FieldsInside ==
  \A f \in event.fields :
    /\ f[1] + f[2] <= Have
    /\ \A g \in event.fields \ {f} : f[1] + f[2] <= g[1] \/ g[1] + g[2] <= f[1]

(* A body that was read is read the same when a newer node writes more behind it: every
   field is found where it was, save the one that runs to the end of the body
   (events.rs:19-28, protocol.rs:67-72, 595-599, 654-659). *)
NewerNodeRead ==
  \A f \in {frame} : event.got \notin {"nothing", "refused", "Transaction"} =>
    \A more \in 1..9 :
      LET newer == Outcome([f EXCEPT !.have = @ + more]) IN
      /\ newer.got = event.got
      /\ \A field \in event.fields \ newer.fields : field[1] + field[2] = f.have

=============================================================================
