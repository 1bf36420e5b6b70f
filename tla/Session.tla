------------------------------- MODULE Session -------------------------------
(***************************************************************************)
(* What opening a connection promises, whichever of the SDKs opens it and  *)
(* however many frames, timers and caches it takes: this client's own      *)
(* proof of its key goes only to a peer that already proved the same key   *)
(* on the same session, and events are only ever delivered by a connection *)
(* that decodes with the dictionary the server's acknowledgement named.    *)
(* Connect (Rust) and Exchange (TypeScript, Python) are shown to implement *)
(* this specification.                                                     *)
(***************************************************************************)
EXTENDS Naturals

CONSTANT Ids    \* the ids dictionaries have; 0 stands for "no dictionary"

VARIABLES
  stage,        \* where the connection is
  genuine,      \* whether the peer shares this client's key and session
  disclosed,    \* whether this client's own proof has left the process
  agreed,       \* the dictionary id the server named, once streaming
  using         \* the id of the dictionary this client decodes with

vars == <<stage, genuine, disclosed, agreed, using>>

Init ==
  /\ stage = "closed"
  /\ genuine \in BOOLEAN
  /\ disclosed = FALSE
  /\ agreed = 0
  /\ using = 0

(* A new connection, to a peer that is or is not what it claims. *)
Begin ==
  /\ stage # "connecting"
  /\ stage' = "connecting"
  /\ genuine' \in BOOLEAN
  /\ disclosed' = FALSE
  /\ agreed' = 0
  /\ using' = 0

Disclose ==
  /\ stage = "connecting"
  /\ genuine
  /\ disclosed' = TRUE
  /\ UNCHANGED <<stage, genuine, agreed, using>>

Agree(id) ==
  /\ stage = "connecting"
  /\ disclosed
  /\ stage' = "streaming"
  /\ agreed' = id
  /\ using' = id
  /\ UNCHANGED <<genuine, disclosed>>

Abandon ==
  /\ stage = "connecting"
  /\ stage' = "failed"
  /\ UNCHANGED <<genuine, disclosed, agreed, using>>

Next == Begin \/ Disclose \/ Abandon \/ \E id \in Ids \cup {0} : Agree(id)

Spec == Init /\ [][Next]_vars

=============================================================================
