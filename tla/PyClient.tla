------------------------------- MODULE PyClient -------------------------------
(***************************************************************************)
(* The event loop of the Python SDK, on asyncio: next_event reads a frame  *)
(* in two halves, header and payload, each taken out of the buffer when    *)
(* it is whole, and a consumer calls it or iterates.  A call may be        *)
(* cancelled wherever it waits, as asyncio.wait_for does; another task may *)
(* write to the node or close the client while it waits.                   *)
(***************************************************************************)
EXTENDS Feed

CONSTANTS
  Limit,            \* max_message_bytes, in payload cells
  Chunk,            \* the most cells one read brings
  MaxCancels,       \* bound: calls cancelled
  MaxSent           \* bound: frames after which set_filters and ping write no more

ASSUME PyClientAssumption ==
  /\ FeedAssumption
  /\ Limit \in Nat
  /\ Chunk \in Nat \ {0}
  /\ MaxCancels \in Nat
  /\ MaxSent \in Nat

VARIABLES
  pc,               \* "idle" between calls, else the half being read, or "ponging"
  iterating,        \* whether the call came through _iterate
  result,           \* what the last call gave
  header,           \* the frame whose payload is being read
  buffer,           \* bytes read and not taken
  wire_bytes,
  taken,            \* frames taken out of the buffer
  out,              \* the frames written to the node
  closed,           \* close was called
  shut,             \* the transport was closed
  ended,            \* a read returned nothing
  broken,           \* the connection was lost
  torn,             \* a call ended between a header and its payload
  cancels

locals == <<iterating, result, header>>
socket == <<closed, shut, ended, broken>>
history == <<torn, cancels>>
vars == <<feed, pc, locals, buffer, wire_bytes, taken, out, socket, history>>

-----------------------------------------------------------------------------

None == [frame |-> 0, kind |-> "Data", size |-> 0, codec |-> "zstd"]

(* read_frame_header: the header that starts the buffer or, when none does, whatever
   the bytes there say. *)
Headers ==
  IF buffer[1].cell = 1 /\ \A k \in 1..HeaderLen : buffer[k].frame = buffer[1].frame
  THEN LET frame == written[buffer[1].frame] IN
       {[frame |-> buffer[1].frame, kind |-> frame.kind, size |-> frame.size,
         codec |-> frame.codec]}
  ELSE {[None EXCEPT !.size = size] : size \in Sizes \cup {Long}}

LimitIgnored(h) == TRUE           \* mutant: the length is the server's to choose

WithinLimit(h) == h.size <= Limit

Reading == pc \in {"header", "payload"}

(* What _fill is asked for. *)
Need == IF pc = "header" THEN HeaderLen ELSE header.size

ShortOrEqual == Len(buffer) <= Need       \* mutant: a byte past it is waited for

Short == Len(buffer) < Need

Everything(n) == <<>>             \* mutant: what came behind is taken with it

(* del self._buffer[:n] *)
Behind(n) == SubSeq(buffer, n + 1, Len(buffer))

Init ==
  /\ FeedInit
  /\ pc = "idle" /\ iterating = FALSE /\ result = "nothing" /\ header = None
  /\ buffer = <<>> /\ wire_bytes = 0 /\ taken = 0 /\ out = <<>>
  /\ closed = FALSE /\ shut = FALSE /\ ended = FALSE /\ broken = FALSE
  /\ torn = FALSE /\ cancels = 0

(* _iterate asks for no event once the client is closed. *)
Call ==
  /\ pc = "idle"
  /\ iterating' \in BOOLEAN
  /\ IF iterating' /\ closed
     THEN pc' = "idle" /\ result' = "over"
     ELSE pc' = "header" /\ result' = "nothing"
  /\ UNCHANGED <<feed, header, buffer, wire_bytes, taken, out, socket, history>>

(* The call returns or raises, and its locals are gone.  _iterate takes what closing
   brings about for the end. *)
Return(what) ==
  /\ pc' = "idle"
  /\ header' = None
  /\ result' = IF iterating /\ closed /\ what \in {"TransportError", "ServerError"}
               THEN "over" ELSE what
  /\ UNCHANGED iterating

(* ... between a header and its payload, perhaps. *)
Abandon(what) ==
  /\ Return(what)
  /\ torn' = (torn \/ pc = "payload")

(* The frame is longer than this connection accepts, and its header stays. *)
TooLarge ==
  /\ pc = "header" /\ ~Short
  /\ \E h \in Headers : ~WithinLimit(h)
  /\ Return("ProtocolError")
  /\ UNCHANGED <<feed, buffer, wire_bytes, taken, out, socket, history>>

(* The header leaves the buffer before its payload is there. *)
Header ==
  /\ pc = "header" /\ ~Short
  /\ \E h \in Headers : WithinLimit(h) /\ header' = h
  /\ buffer' = Behind(HeaderLen)
  /\ pc' = "payload"
  /\ UNCHANGED <<feed, iterating, result, wire_bytes, taken, out, socket, history>>

(* One turn of _fill. *)
Receive ==
  /\ Reading /\ Short
  /\ ~broken /\ ~ended
  /\ \E n \in 1..Chunk :
       /\ n <= Len(wire)
       /\ buffer' = buffer \o SubSeq(wire, 1, n)
       /\ wire' = SubSeq(wire, n + 1, Len(wire))
       /\ wire_bytes' = wire_bytes + n
  /\ UNCHANGED <<written, next, since, lost, open, pc, locals, taken, out, socket, history>>

(* A read of nothing: the node is done, or the client closed its end. *)
AtEnd ==
  /\ Reading /\ Short
  /\ ~broken
  /\ shut \/ ended \/ (~open /\ wire = <<>>)
  /\ ended' = TRUE
  /\ Abandon("TransportError")
  /\ UNCHANGED <<feed, buffer, wire_bytes, taken, out, closed, shut, broken, cancels>>

(* Reading a connection that was lost raises what asyncio raises. *)
ReadFails ==
  /\ Reading /\ Short
  /\ broken
  /\ Abandon("OSError")
  /\ UNCHANGED <<feed, buffer, wire_bytes, taken, out, socket, cancels>>

Unanswered == out                 \* mutant: the Pong is left to the consumer

(* The whole Pong is handed to the transport before the call waits for anything. *)
Answered == Append(out, "Pong")

(* The payload is there: the frame is decompressed and becomes an event or an error.
   The frame is gone from the buffer whichever it is. *)
Take ==
  /\ pc = "payload" /\ ~Short
  /\ buffer' = Behind(header.size)
  /\ taken' = taken + 1
  /\ IF header.codec = "zstd" /\ header.kind = "Ping"
     THEN /\ out' = Answered
          /\ pc' = "ponging"
          /\ UNCHANGED locals
     ELSE /\ Return(CASE header.codec # "zstd"    -> "ProtocolError"
                      [] header.kind = "Refusal" -> "ServerError"
                      [] header.kind = "Failing" -> "ProtocolError"
                      [] OTHER                   -> "event")
          /\ UNCHANGED out
  /\ UNCHANGED <<feed, wire_bytes, socket, history>>

(* drain returns, and the Ping becomes an event. *)
Ponged ==
  /\ pc = "ponging"
  /\ ~broken
  /\ Return("event")
  /\ UNCHANGED <<feed, buffer, wire_bytes, taken, out, socket, history>>

PongFails ==
  /\ pc = "ponging"
  /\ broken \/ shut
  /\ Return("OSError")
  /\ UNCHANGED <<feed, buffer, wire_bytes, taken, out, socket, history>>

(* CancelledError is raised where the call waits. *)
Cancel ==
  /\ (Reading /\ Short) \/ pc = "ponging"
  /\ cancels < MaxCancels
  /\ cancels' = cancels + 1
  /\ Abandon("cancelled")
  /\ UNCHANGED <<feed, buffer, wire_bytes, taken, out, socket>>

(* set_filters and ping write a frame, whatever another task waits for. *)
Send ==
  /\ ~closed
  /\ Len(out) < MaxSent
  /\ \E kind \in {"SetFilter", "Ping"} : out' = Append(out, kind)
  /\ UNCHANGED <<feed, pc, locals, buffer, wire_bytes, taken, socket, history>>

LeftOpen == FALSE                 \* mutant: the transport is left to the garbage collector

Closing == TRUE

Close ==
  /\ ~closed
  /\ closed' = TRUE
  /\ shut' = Closing
  /\ UNCHANGED <<feed, pc, locals, buffer, wire_bytes, taken, out, ended, broken, history>>

(* The connection is reset, or times out. *)
Break ==
  /\ ~broken
  /\ broken' = TRUE
  /\ UNCHANGED <<feed, pc, locals, buffer, wire_bytes, taken, out, closed, shut, ended, history>>

-----------------------------------------------------------------------------

Reader ==
  TooLarge \/ Header \/ Receive \/ AtEnd \/ ReadFails \/ Take \/ Ponged \/ PongFails

Round ==
  /\ Node
  /\ UNCHANGED <<pc, locals, buffer, wire_bytes, taken, out, socket, history>>

Next == Call \/ Reader \/ Cancel \/ Send \/ Close \/ Break \/ Round

Spec == Init /\ [][Next]_vars

(* The consumer asks again, the event loop runs the call, and bytes on the wire
   arrive; nothing is assumed of the node or of other tasks. *)
FairSpec == Spec /\ WF_vars(Call) /\ WF_vars(Reader)

-----------------------------------------------------------------------------
(* Properties *)

(* Every variable stays in its range, and no payload past the limit is awaited. *)
TypeOK ==
  /\ pc \in {"idle", "header", "payload", "ponging"}
  /\ iterating \in BOOLEAN
  /\ result \in {"nothing", "event", "TransportError", "ServerError", "ProtocolError",
                 "OSError", "cancelled", "over"}
  /\ header.size \in 0..Limit
  /\ \A i \in DOMAIN buffer : buffer[i] \in Cells
  /\ Len(buffer) < HeaderLen + Limit + Chunk
  /\ wire_bytes \in Nat /\ taken \in Nat
  /\ out \in Seq({"Pong", "SetFilter", "Ping"})
  /\ closed \in BOOLEAN /\ shut \in BOOLEAN /\ ended \in BOOLEAN
  /\ broken \in BOOLEAN /\ torn \in BOOLEAN
  /\ cancels \in 0..MaxCancels

Size(n) == Cardinality(CellsOfFirst(written, n))

(* The next byte to take is the one the call takes it for: the first of a header or,
   once the header is taken, of its payload.  Only a call that ended between the two
   may leave it elsewhere; a frame that does not decompress, and calls cancelled
   anywhere else, do not.  wire_bytes counts each byte once, even then
   (client.py:484-512, 529-531). *)
InStep ==
  LET rest == buffer \o wire
      within == IF pc = "payload" THEN HeaderLen ELSE 0
  IN
  /\ wire_bytes + Len(wire) = Size(Len(written))
  /\ ~torn =>
       /\ wire_bytes = Size(taken) + within + Len(buffer)
       /\ pc = "payload" => header.frame = taken + 1
       /\ rest # <<>> =>
            \/ rest[1] = [frame |-> taken + 1, cell |-> within + 1]
            \/ /\ pc = "payload" /\ header.size = 0
               /\ rest[1] = [frame |-> taken + 2, cell |-> 1]

(* Every Ping taken out of the buffer is answered by one whole Pong, also if its call
   was cancelled or the client closed while it waited (client.py:554-556,
   transport.py:138-140). *)
PingsAnswered ==
  ~torn =>
    Cardinality({i \in DOMAIN out : out[i] = "Pong"})
      = Cardinality({i \in 1..taken : written[i].kind = "Ping"})

(* A frame at the front of the buffer that no call will ever get past. *)
Stuck == pc \in {"idle", "header"} /\ Len(buffer) >= HeaderLen /\ \E h \in Headers : ~WithinLimit(h)

(* Every frame written is taken, one that does not decompress among them, unless one
   before it is too large, a call was torn or the connection is over
   (client.py:524-569). *)
Delivered ==
  \A i \in 1..MaxFrames :
    Len(written) >= i ~> taken >= i \/ Stuck \/ torn \/ broken \/ closed

(* A call that waits when another task closes the client comes to an end
   (client.py:574-580, 599-610). *)
CloseEnds == closed /\ pc # "idle" ~> pc = "idle"

=============================================================================
