------------------------------ MODULE Handshake ------------------------------
(***************************************************************************)
(* What the three SDKs' handshakes have in common: the frames, the proofs  *)
(* of possession, the state a connection in the making has, and the other  *)
(* end.  Connect (Rust) and Exchange (TypeScript, Python) add the handlers. *)
(*                                                                         *)
(* The node is outside the repository.  Its actions (ServerX) are what the *)
(* clients' code and tests expect of it; a node in Faulty writes any frame *)
(* at any time, and so does whoever answers in a node's place.             *)
(***************************************************************************)
EXTENDS Integers, Sequences, SequencesExt

CONSTANTS
  Nodes,            \* the nodes this subscriber connects to
  Faulty,           \* those that do not keep to the protocol
  Dictionaries,     \* the dictionaries there are, as byte strings
  NoDictionary,     \* the absence of one
  DictionaryId,     \* the hash each dictionary is named by
  Transport,        \* "quic" or "tcp"
  ConnectTimeout,   \* the configured timeout, in ticks
  MaxConnections,   \* bound: connections opened
  MaxUnread,        \* bound: frames the other end is ahead of this one
  MaxRetrains       \* bound: times an operator changes a node's dictionary

ASSUME HandshakeAssumption ==
  /\ Faulty \subseteq Nodes
  /\ NoDictionary \notin Dictionaries
  /\ DictionaryId \in [Dictionaries -> Nat \ {0}]
  /\ Transport \in {"quic", "tcp"}
  /\ ConnectTimeout \in Nat \ {0}
  /\ MaxConnections \in Nat
  /\ MaxUnread \in Nat
  /\ MaxRetrains \in Nat

VARIABLES
  pc,         \* how far connect has got
  waited,     \* ticks spent under the timeout now running
  held,       \* the dictionary offered in Hello
  ack,        \* the dictionary id HelloAck named
  decoder,    \* the dictionary the connection decodes with
  wasSent,    \* whether the dictionary arrived over the wire
  sent,       \* kinds of frames this client has written
  arrived,    \* how many frames of log are in, or have been through, the buffer
  consumed,   \* how many of them were taken out of it
  conn,       \* how many connections were opened
  node,       \* the node of this connection
  via,        \* "direct", "relayed", or "impostor" when no node answers
  log,        \* every frame the other end has written on this connection
  server,     \* how far the node has got
  nodeDict,   \* the dictionary each node compresses with
  retrains    \* how often one was changed

session == <<waited, held, ack, decoder, wasSent, sent>>
peer == <<conn, node, via, log, server, nodeDict, retrains>>
handshake == <<pc, session, arrived, consumed, peer>>

-----------------------------------------------------------------------------

Held == Dictionaries \cup {NoDictionary}

(* dictionary_id, zero for no dictionary. *)
IdOf(d) == IF d = NoDictionary THEN 0 ELSE DictionaryId[d]

Ids == {DictionaryId[d] : d \in Dictionaries}

Proofs == [key : {"ours", "other"}, binding : {"none", "node", "relay"}]

Frames ==
  [kind : {"Challenge"}, proof : Proofs]
    \cup [kind : {"HelloAck"}, current : BOOLEAN, zstd : BOOLEAN, id : Ids \cup {0}]
    \cup [kind : {"Dictionary"}, id : Ids \cup {0}, bytes : Dictionaries]
    \cup [kind : {"Error", "Other", "Data"}]

(* What connect awaits: the resolver, the transport, room for a frame of its own
   to be written, or a frame of the node's. *)
Writing == {"hello", "prove"}
Reading == {"challenge", "ack", "dictionary"}
Await == {"resolving", "opening"} \cup Writing \cup Reading
Live == Await \cup {"streaming"}

(* Wire::channel_binding: the certificate the client's session ended at. *)
ChannelBinding ==
  IF Transport = "tcp" THEN "none" ELSE IF via = "relayed" THEN "relay" ELSE "node"

(* The same, as the node sees its own end. *)
NodeBinding == IF Transport = "tcp" THEN "none" ELSE "node"

(* Transcript::proof; client and server domain are told apart by the frame. *)
Transcript(key, binding) == [key |-> key, binding |-> binding]

VerifyServerByKey(proof) == proof.key = "ours"    \* mutant: the session is left out

VerifyServer(proof) == proof = Transcript("ours", ChannelBinding)

(* A proof takes the key, and speaks of the session its maker sees. *)
CanProve(proof) ==
  IF via = "impostor" THEN proof.key = "other" ELSE proof.binding = NodeBinding

(* The frame at the front of the buffer, and that a whole one is there. *)
Ready == pc \in Reading /\ consumed < arrived
Frame == log[consumed + 1]

DrainedAll == arrived    \* mutant: the buffer is cleared

(* The frame handled is taken out of the buffer, and no more than that. *)
Drained == consumed + 1

(* What is held is kept only if the node said it is using exactly that. *)
KeptAnyway(id) == IF id # 0 THEN held ELSE NoDictionary    \* mutant

Kept(id) == IF id # 0 /\ id = IdOf(held) THEN held ELSE NoDictionary

(* The dictionary must carry the announced id, and bytes that hash to it. *)
AnnouncedByName(frame) == frame.id = ack    \* mutant: the bytes are not hashed

Announced(frame) == frame.id = ack /\ DictionaryId[frame.bytes] = ack

-----------------------------------------------------------------------------

(* No connection yet. *)
Idle ==
  /\ pc = "idle"
  /\ waited = 0
  /\ held = NoDictionary
  /\ ack = 0
  /\ decoder = NoDictionary
  /\ wasSent = FALSE
  /\ sent = {}
  /\ arrived = 0
  /\ consumed = 0
  /\ conn = 0
  /\ node \in Nodes
  /\ via \in {"direct", "relayed", "impostor"}
  /\ log = <<>>
  /\ server = "greeting"
  /\ nodeDict \in [Nodes -> Held]
  /\ retrains = 0

(* connect is called for a new client; the one before it was dropped. *)
Dial ==
  /\ pc \notin Await
  /\ conn < MaxConnections
  /\ pc' = "resolving"
  /\ waited' = 0
  /\ held' = NoDictionary
  /\ ack' = 0
  /\ decoder' = NoDictionary
  /\ wasSent' = FALSE
  /\ sent' = {}
  /\ arrived' = 0
  /\ consumed' = 0
  /\ conn' = conn + 1
  /\ node' \in Nodes
  /\ via' \in {"direct", "relayed", "impostor"}
  /\ log' = <<>>
  /\ server' = "greeting"
  /\ UNCHANGED <<nodeDict, retrains>>

(* Bytes reach the buffer, however many frames one read brings. *)
Arrive ==
  /\ pc \in Reading \cup {"streaming"}
  /\ arrived' \in (arrived + 1)..Len(log)
  /\ UNCHANGED <<pc, session, consumed, peer>>

(* The connection is dropped, and with it whatever it had read or been sent. *)
Fail ==
  /\ pc' = "failed"
  /\ log' = <<>>
  /\ arrived' = 0
  /\ consumed' = 0
  /\ UNCHANGED <<session, conn, node, via, server, nodeDict, retrains>>

-----------------------------------------------------------------------------

(* The other end writes, and closes, while the connection lives. *)
Writes(frame, next) ==
  /\ server # "closed"
  /\ Len(log) < consumed + MaxUnread
  /\ log' = Append(log, frame)
  /\ server' = next
  /\ UNCHANGED <<conn, node, via, nodeDict, retrains>>

ServerChallenges ==
  /\ via # "impostor"
  /\ server = "greeting"
  /\ "Hello" \in sent
  /\ Writes([kind |-> "Challenge", proof |-> Transcript("ours", NodeBinding)], "challenged")

(* The client's proof is checked against the node's own end of the session. *)
ServerAcknowledges ==
  /\ via # "impostor"
  /\ server = "challenged"
  /\ "Prove" \in sent
  /\ ChannelBinding = NodeBinding
  /\ \E current, zstd \in BOOLEAN :
       Writes([kind |-> "HelloAck", current |-> current, zstd |-> zstd, id |-> IdOf(nodeDict[node])],
              IF IdOf(nodeDict[node]) \in {0, IdOf(held)} THEN "streaming" ELSE "announced")

ServerSendsDictionary ==
  /\ server = "announced"
  /\ nodeDict[node] # NoDictionary
  /\ Writes([kind |-> "Dictionary", id |-> IdOf(nodeDict[node]), bytes |-> nodeDict[node]],
            "streaming")

ServerStreams ==
  /\ server = "streaming"
  /\ Writes([kind |-> "Data"], "streaming")

ServerRefuses ==
  /\ "Hello" \in sent
  /\ server # "streaming"
  /\ Writes([kind |-> "Error"], "closed")

ServerMisbehaves ==
  /\ "Hello" \in sent
  /\ node \in Faulty \/ via = "impostor"
  /\ \E frame \in Frames :
       /\ frame.kind = "Challenge" => CanProve(frame.proof)
       /\ Writes(frame, server)

ServerCloses ==
  /\ server # "closed"
  /\ server' = "closed"
  /\ UNCHANGED <<conn, node, via, log, nodeDict, retrains>>

Server ==
  \/ ServerChallenges \/ ServerAcknowledges \/ ServerSendsDictionary \/ ServerStreams
  \/ ServerRefuses \/ ServerMisbehaves \/ ServerCloses

OtherEnd ==
  /\ pc \in Live
  /\ Server
  /\ UNCHANGED <<pc, session, arrived, consumed>>

(* An operator changes a node's dictionary; a connection keeps the one it began with. *)
Retrain ==
  /\ retrains < MaxRetrains
  /\ \E n \in Nodes, d \in Dictionaries :
       /\ ~(pc \in Live /\ node = n)
       /\ d # nodeDict[n]
       /\ nodeDict' = [nodeDict EXCEPT ![n] = d]
  /\ retrains' = retrains + 1
  /\ UNCHANGED <<pc, session, arrived, consumed, conn, node, via, log, server>>

-----------------------------------------------------------------------------
(* Properties, of whichever client extends this module *)

HandshakeTypeOK ==
  /\ pc \in {"idle", "failed"} \cup Live
  /\ waited \in 0..ConnectTimeout
  /\ held \in Held
  /\ ack \in Ids \cup {0}
  /\ decoder \in Held
  /\ wasSent \in BOOLEAN
  /\ sent \in SUBSET {"Hello", "Prove"}
  /\ arrived \in 0..Len(log)
  /\ consumed \in 0..arrived
  /\ conn \in Nat
  /\ node \in Nodes
  /\ via \in {"direct", "relayed", "impostor"}
  /\ log \in Seq(Frames)
  /\ server \in {"greeting", "challenged", "announced", "streaming", "closed"}
  /\ nodeDict \in [Nodes -> Held]
  /\ retrains \in Nat

(* The peer shares this client's key, over the session the client sees. *)
Genuine == via # "impostor" /\ (Transport = "quic" => via = "direct")

(* A peer that does not hold the key, or that relays the session over QUIC, is
   abandoned before this client's own proof is written (client.rs:433-454). *)
NothingDisclosed == "Prove" \in sent => Genuine

(* A connection that delivers events decodes with exactly the dictionary the
   acknowledgement named, whatever the node then sent (client.rs:490-556). *)
DecoderAgrees == pc = "streaming" => IdOf(decoder) = ack

(* Against a node that keeps to the protocol that is the dictionary the node
   compresses with, so no frame can be decoded with another. *)
DecodesWhatNodeSends ==
  pc = "streaming" /\ node \notin Faulty /\ via # "impostor" => decoder = nodeDict[node]

(* Every call to connect returns, a silent peer notwithstanding. *)
ConnectReturns == pc \in Await ~> pc \notin Await

(* The promise of opening a connection, as Session states it. *)
Promise == INSTANCE Session WITH
  stage <- CASE pc \in Await -> "connecting"
             [] pc = "idle" -> "closed"
             [] OTHER -> pc,
  genuine <- Genuine,
  disclosed <- "Prove" \in sent,
  agreed <- IF pc = "streaming" THEN ack ELSE 0,
  using <- IF pc = "streaming" THEN IdOf(decoder) ELSE 0

ImplementsSession == Promise!Spec

=============================================================================
