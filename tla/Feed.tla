-------------------------------- MODULE Feed --------------------------------
(***************************************************************************)
(* What a node sends once a connection streams, as the clients' code and   *)
(* tests expect it: frames numbered one after the other, numbers given to  *)
(* frames it dropped because the client fell behind, and a Lag that may    *)
(* tell of them.  The node is outside the repository.  EventLoop (Rust),   *)
(* TsClient (TypeScript) and PyClient (Python) add the clients that read   *)
(* it.                                                                     *)
(*                                                                         *)
(* A frame travels as cells: HeaderLen of header, then its payload.        *)
(***************************************************************************)
EXTENDS Integers, Sequences, FiniteSets

CONSTANTS
  HeaderLen,    \* cells in a frame's header
  Sizes,        \* payload cells a data frame may have
  Long,         \* those of one past every client's limit, whatever its codec
  Codecs,       \* "zstd", "corrupt" (zstd that does not decompress), "other"
  Bare,         \* the kinds a node writes without a payload
  MaxFrames,    \* bound: frames written
  MaxLost       \* bound: frames dropped

ASSUME FeedAssumption ==
  /\ HeaderLen \in Nat \ {0}
  /\ Sizes \subseteq Nat
  /\ Long \in Nat
  /\ Codecs \subseteq {"zstd", "corrupt", "other"}
  /\ Bare \subseteq {"Failing", "Refusal", "Ping"}
  /\ MaxFrames \in Nat
  /\ MaxLost \in Nat

VARIABLES
  written,      \* every frame written
  wire,         \* the cells of them the client has not read
  next,         \* the next sequence number
  since,        \* the number the client will expect after the last frame written
  lost,         \* the numbers of the frames dropped
  open          \* whether the node's end still writes

feed == <<written, wire, next, since, lost, open>>

-----------------------------------------------------------------------------

(* "Data" stands for every kind that becomes an event without changing the client,
   unknown ones included; "Failing" for what next_event reports as an error once it
   is accounted for: an Error, a Dictionary mid-stream, a body that does not decode.
   Where the client tells the first two from the third they are "Refusal". *)
Kinds == {"Data", "Failing", "Refusal", "Ping", "Lag"}

Frames ==
  [kind : Kinds, size : Nat, codec : {"zstd", "corrupt", "other"}, seq : Nat,
   dropped : Nat, resume : Nat]

Cells == [frame : Nat, cell : Nat]

CellsOf(i, frame) ==
  [k \in 1..(HeaderLen + frame.size) |-> [frame |-> i, cell |-> k]]

(* The cells of the first n frames; no two of them are the same. *)
CellsOfFirst(frames, n) ==
  UNION {{[frame |-> i, cell |-> k] : k \in 1..(HeaderLen + frames[i].size)} : i \in 1..n}

FeedInit ==
  /\ written = <<>>
  /\ wire = <<>>
  /\ next = 0
  /\ since = 0
  /\ lost = {}
  /\ open = TRUE

Write(frame) ==
  /\ open
  /\ Len(written) < MaxFrames
  /\ written' = Append(written, frame)
  /\ wire' = wire \o CellsOf(Len(written) + 1, frame)

(* A frame takes the next number. *)
Emit ==
  /\ \/ \E size \in Sizes, codec \in Codecs :
          Write([kind |-> "Data", size |-> size, codec |-> codec, seq |-> next,
                 dropped |-> 0, resume |-> 0])
     \/ Write([kind |-> "Data", size |-> Long, codec |-> "zstd", seq |-> next,
               dropped |-> 0, resume |-> 0])
     \/ \E kind \in Bare :
          Write([kind |-> kind, size |-> 0, codec |-> "zstd", seq |-> next,
                 dropped |-> 0, resume |-> 0])
  /\ next' = next + 1
  /\ since' = next + 1
  /\ UNCHANGED <<lost, open>>

(* The connection's queue is full: what would have been sent uses up its number.
   The first frame finds the queue empty. *)
Lose ==
  /\ open
  /\ written # <<>>
  /\ Cardinality(lost) < MaxLost
  /\ lost' = lost \cup {next}
  /\ next' = next + 1
  /\ UNCHANGED <<written, wire, since, open>>

(* A Lag reports the numbers used up since the last frame.  Its own is the first of
   them, or zero for a frame outside the order.  That it is not numbered behind them is
   assumed: the Rust client would count them twice. *)
Report ==
  /\ since < next
  /\ \E seq \in {0, since} :
       Write([kind |-> "Lag", size |-> 0, codec |-> "zstd", seq |-> seq,
              dropped |-> next - since, resume |-> next])
  /\ since' = next
  /\ UNCHANGED <<next, lost, open>>

Shut ==
  /\ open
  /\ open' = FALSE
  /\ UNCHANGED <<written, wire, next, since, lost>>

Node == Emit \/ Lose \/ Report \/ Shut

=============================================================================
