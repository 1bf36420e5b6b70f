--------------------------- MODULE HandshakeProofs ---------------------------
(***************************************************************************)
(* What every handshake inherits from Handshake: the other end and the     *)
(* network keep every variable typed, the other end disturbs no frame that *)
(* was already drained, a proof this client verifies was made by a peer    *)
(* that is what it claims, and a node that is correct writes what a        *)
(* handshake has it write (Faithful), which says with what it encodes.     *)
(***************************************************************************)
EXTENDS Handshake, SequenceTheorems, TLAPS

LEMMA TypeIdle == HandshakeAssumption /\ Idle => HandshakeTypeOK
<1> SUFFICES ASSUME HandshakeAssumption, Idle
             PROVE  HandshakeTypeOK
  OBVIOUS
<1>1. <<>> \in Seq(Frames) /\ Len(<<>>) = 0
  BY EmptySeq
<1>2. /\ log \in Seq(Frames)
      /\ arrived \in 0..Len(log)
      /\ consumed \in 0..arrived
      /\ waited \in 0..ConnectTimeout
  BY <1>1 DEF HandshakeAssumption, Idle
<1>3. QED
  BY <1>2 DEF Idle, HandshakeTypeOK, Held

LEMMA TypeDial == HandshakeAssumption /\ HandshakeTypeOK /\ Dial => HandshakeTypeOK'
<1> SUFFICES ASSUME HandshakeAssumption, HandshakeTypeOK, Dial
             PROVE  HandshakeTypeOK'
  OBVIOUS
<1>1. <<>> \in Seq(Frames) /\ Len(<<>>) = 0
  BY EmptySeq
<1>2. /\ log' \in Seq(Frames)
      /\ arrived' \in 0..Len(log')
      /\ consumed' \in 0..arrived'
      /\ waited' \in 0..ConnectTimeout
      /\ conn' \in Nat
  BY <1>1 DEF HandshakeTypeOK, Dial, HandshakeAssumption
<1>3. QED
  BY <1>2 DEF HandshakeTypeOK, Dial, Held, Live, Await, Writing

LEMMA TypeFail == HandshakeTypeOK /\ Fail => HandshakeTypeOK'
BY EmptySeq DEF HandshakeTypeOK, Fail, session

LEMMA TypeArrive == HandshakeTypeOK /\ Arrive => HandshakeTypeOK'
BY DEF HandshakeTypeOK, Arrive, session, peer

LEMMA TypeRetrain == HandshakeTypeOK /\ Retrain => HandshakeTypeOK'
BY DEF HandshakeTypeOK, Retrain, session, Held

LEMMA TypeStutter == HandshakeTypeOK /\ UNCHANGED handshake => HandshakeTypeOK'
BY DEF HandshakeTypeOK, handshake, session, peer

(* read_frame never hands out a frame that is not there. *)
LEMMA FrameType ==
  HandshakeTypeOK /\ Ready =>
    /\ Frame \in Frames
    /\ consumed + 1 \in 1..Len(log)
    /\ consumed + 1 \in 0..arrived
BY ElementOfSeq, LenProperties DEF Ready, Frame, HandshakeTypeOK

-----------------------------------------------------------------------------

(* Every proof on the wire was made by someone who could make it. *)
ProofsAreMade ==
  \A i \in 1..Len(log) : log[i].kind = "Challenge" => CanProve(log[i].proof)

(* A well-formed frame, with a proof its writer could make. *)
Writable(frame) ==
  frame \in Frames /\ (frame.kind = "Challenge" => CanProve(frame.proof))

(* What the other end writes is always such a frame. *)
LEMMA ServerWrites ==
  ASSUME HandshakeTypeOK, Server, ~ServerCloses
  PROVE  \E frame, next : Writable(frame) /\ Writes(frame, next)
                       /\ next \in {"greeting", "challenged", "announced", "streaming", "closed"}
<1>1. IdOf(nodeDict[node]) \in Ids \cup {0}
  BY DEF HandshakeTypeOK, IdOf, Ids, Held
<1>2. CASE ServerChallenges
  <2> DEFINE c == [kind |-> "Challenge", proof |-> Transcript("ours", NodeBinding)]
  <2>1. c \in Frames
    BY DEF Frames, Proofs, Transcript, NodeBinding
  <2>2. CanProve(c.proof)
    BY <1>2 DEF ServerChallenges, CanProve, Transcript
  <2>3. QED
    BY <1>2, <2>1, <2>2 DEF ServerChallenges, Writable
<1>3. CASE ServerAcknowledges
  <2> DEFINE next == IF IdOf(nodeDict[node]) \in {0, IdOf(held)} THEN "streaming" ELSE "announced"
  <2>1. PICK current \in BOOLEAN, zstd \in BOOLEAN :
          Writes([kind |-> "HelloAck", current |-> current, zstd |-> zstd,
                  id |-> IdOf(nodeDict[node])], next)
    BY <1>3 DEF ServerAcknowledges
  <2> DEFINE a == [kind |-> "HelloAck", current |-> current, zstd |-> zstd,
                   id |-> IdOf(nodeDict[node])]
  <2>2. a \in Frames /\ a.kind # "Challenge"
    BY <1>1 DEF Frames
  <2>3. Writable(a)
    BY <2>2 DEF Writable
  <2>4. next \in {"streaming", "announced"}
    OBVIOUS
  <2>5. QED
    BY <2>1, <2>3, <2>4
<1>4. CASE ServerSendsDictionary
  <2> DEFINE d == [kind |-> "Dictionary", id |-> IdOf(nodeDict[node]), bytes |-> nodeDict[node]]
  <2>1. d \in Frames /\ d.kind # "Challenge"
    BY <1>1, <1>4 DEF ServerSendsDictionary, HandshakeTypeOK, Held, Frames
  <2>2. QED
    BY <1>4, <2>1 DEF ServerSendsDictionary, Writable
<1>5. CASE ServerStreams
  <2>1. [kind |-> "Data"] \in Frames /\ [kind |-> "Data"].kind # "Challenge"
    BY DEF Frames
  <2>2. QED
    BY <1>5, <2>1 DEF ServerStreams, Writable
<1>6. CASE ServerRefuses
  <2>1. [kind |-> "Error"] \in Frames /\ [kind |-> "Error"].kind # "Challenge"
    BY DEF Frames
  <2>2. QED
    BY <1>6, <2>1 DEF ServerRefuses, Writable
<1>7. CASE ServerMisbehaves
  <2>1. PICK frame \in Frames :
          (frame.kind = "Challenge" => CanProve(frame.proof)) /\ Writes(frame, server)
    BY <1>7 DEF ServerMisbehaves
  <2>2. QED
    BY <2>1 DEF Writable, HandshakeTypeOK
<1>8. QED
  BY <1>2, <1>3, <1>4, <1>5, <1>6, <1>7 DEF Server

(* A frame the other end writes comes after all those there are. *)
LEMMA OtherEndAppends ==
  ASSUME HandshakeTypeOK, OtherEnd, ~ServerCloses
  PROVE  \E frame :
           /\ Writable(frame)
           /\ log' = Append(log, frame)
           /\ log' \in Seq(Frames)
           /\ Len(log') = Len(log) + 1
           /\ log'[Len(log) + 1] = frame
           /\ \A i \in 1..Len(log) : log'[i] = log[i]
           /\ server' \in {"greeting", "challenged", "announced", "streaming", "closed"}
           /\ UNCHANGED <<pc, session, arrived, consumed, conn, node, via, nodeDict, retrains>>
<1>1. PICK frame, next :
        /\ Writable(frame) /\ Writes(frame, next)
        /\ next \in {"greeting", "challenged", "announced", "streaming", "closed"}
  BY ServerWrites DEF OtherEnd
<1>2. /\ log' \in Seq(Frames)
      /\ Len(log') = Len(log) + 1
      /\ log'[Len(log) + 1] = frame
      /\ \A i \in 1..Len(log) : log'[i] = log[i]
  BY <1>1, AppendProperties, LenProperties DEF Writable, HandshakeTypeOK, Writes
<1>3. QED
  BY <1>1, <1>2 DEF OtherEnd, Writes

LEMMA TypeOtherEnd == HandshakeTypeOK /\ OtherEnd => HandshakeTypeOK'
<1> SUFFICES ASSUME HandshakeTypeOK, OtherEnd
             PROVE  HandshakeTypeOK'
  OBVIOUS
<1>1. Len(log) \in Nat
  BY LenProperties DEF HandshakeTypeOK
<1>2. CASE ServerCloses
  BY <1>2 DEF ServerCloses, OtherEnd, HandshakeTypeOK, session
<1>3. CASE ~ServerCloses
  <2>1. /\ log' \in Seq(Frames)
        /\ Len(log') = Len(log) + 1
        /\ server' \in {"greeting", "challenged", "announced", "streaming", "closed"}
        /\ UNCHANGED <<pc, session, arrived, consumed, conn, node, via, nodeDict, retrains>>
    BY <1>3, OtherEndAppends
  <2>2. QED
    BY <1>1, <2>1 DEF HandshakeTypeOK, session
<1>4. QED
  BY <1>2, <1>3

(* It disturbs nothing this client has read, done or decided. *)
LEMMA OtherEndKeeps ==
  ASSUME HandshakeTypeOK, ProofsAreMade, OtherEnd
  PROVE  /\ ProofsAreMade'
         /\ \A i \in 1..consumed : log'[i] = log[i]
         /\ UNCHANGED <<pc, session, arrived, consumed, conn, node, via>>
<1>1. CASE ServerCloses
  BY <1>1 DEF ServerCloses, OtherEnd, ProofsAreMade, CanProve, NodeBinding
<1>2. CASE ~ServerCloses
  <2>1. PICK frame :
          /\ Writable(frame)
          /\ Len(log') = Len(log) + 1
          /\ log'[Len(log) + 1] = frame
          /\ \A i \in 1..Len(log) : log'[i] = log[i]
          /\ UNCHANGED <<pc, session, arrived, consumed, conn, node, via>>
    BY <1>2, OtherEndAppends
  <2>2. Len(log) \in Nat
    BY LenProperties DEF HandshakeTypeOK
  <2>3. ProofsAreMade'
    <3> SUFFICES ASSUME NEW i \in 1..Len(log'), log'[i].kind = "Challenge"
                 PROVE  CanProve(log[i].proof)'
      BY DEF ProofsAreMade
    <3>1. CanProve(log'[i].proof)
      BY <2>1, <2>2 DEF ProofsAreMade, Writable
    <3>2. QED
      BY <2>1, <3>1 DEF CanProve, NodeBinding
  <2>4. \A i \in 1..consumed : log'[i] = log[i]
    BY <2>1, <2>2 DEF HandshakeTypeOK
  <2>5. QED
    BY <2>1, <2>3, <2>4
<1>3. QED
  BY <1>1, <1>2

(* Only a peer that is what it claims can have made the proof verified here. *)
LEMMA VerifiedIsGenuine ==
  ASSUME HandshakeTypeOK, ProofsAreMade, Ready,
         Frame.kind = "Challenge", VerifyServer(Frame.proof)
  PROVE  Genuine
<1>1. CanProve(Frame.proof)
  BY FrameType DEF ProofsAreMade, Frame
<1>2. Frame.proof = [key |-> "ours", binding |-> ChannelBinding]
  BY DEF VerifyServer, Transcript
<1>3. QED
  BY <1>1, <1>2 DEF HandshakeTypeOK, CanProve, ChannelBinding, NodeBinding, Genuine

(* A session that is the same on both sides of a step proves nothing new. *)
LEMMA ProofsUnchanged ==
  ProofsAreMade /\ UNCHANGED <<via, log>> => ProofsAreMade'
BY DEF ProofsAreMade, CanProve, NodeBinding

-----------------------------------------------------------------------------
(* A node that keeps to the protocol, and what it may have said so far. *)

Correct == node \notin Faulty /\ via # "impostor"

Truthful(frame) ==
  /\ frame.kind = "HelloAck" => frame.id = IdOf(nodeDict[node])
  /\ frame.kind = "Dictionary" => frame.bytes = nodeDict[node]

(* It challenges once, before all else; until this client has proved itself it says
   nothing more than that it refuses; and what it says of its dictionary is true of
   the one it compresses with. *)
Faithful ==
  /\ pc \notin Live => log = <<>>
  /\ Correct =>
       /\ server = "greeting" => log = <<>>
       /\ \A i \in 1..Len(log) : Truthful(log[i]) /\ (i > 1 => log[i].kind # "Challenge")
       /\ "Prove" \notin sent =>
            /\ server \in {"greeting", "challenged", "closed"}
            /\ \A i \in 1..Len(log) : log[i].kind \in {"Challenge", "Error"}

(* Different dictionaries have different ids: of a hash of 32 bits it is hoped. *)
NoCollision == \A d, e \in Dictionaries : DictionaryId[d] = DictionaryId[e] => d = e

LEMMA FaithfulIdle == Idle => Faithful
<1>1. Len(<<>>) = 0
  BY EmptySeq
<1>2. QED
  BY <1>1 DEF Idle, Faithful

LEMMA FaithfulDial == Dial => Faithful'
<1>1. Len(<<>>) = 0
  BY EmptySeq
<1>2. QED
  BY <1>1 DEF Dial, Faithful

LEMMA FaithfulFail == Faithful /\ Fail => Faithful'
<1>1. Len(<<>>) = 0
  BY EmptySeq
<1>2. QED
  BY <1>1 DEF Fail, Faithful, Correct, session

(* What the client does by itself changes nothing the node said. *)
LEMMA FaithfulStep ==
  ASSUME Faithful, UNCHANGED <<log, node, via, server, nodeDict>>, sent \subseteq sent',
         pc \in Live => pc' \in Live
  PROVE  Faithful'
BY DEF Faithful, Correct, Truthful, IdOf

LEMMA FaithfulRetrain ==
  ASSUME HandshakeTypeOK, Faithful, Retrain
  PROVE  Faithful' /\ (pc \in Live => nodeDict'[node] = nodeDict[node])
<1>1. UNCHANGED <<pc, session, arrived, consumed, conn, node, via, log, server>>
  BY DEF Retrain
<1>2. pc \in Live => nodeDict'[node] = nodeDict[node]
  BY DEF HandshakeTypeOK, Retrain
<1>3. CASE pc \in Live
  BY <1>1, <1>2, <1>3 DEF Faithful, Correct, Truthful, IdOf, session
<1>4. CASE pc \notin Live
  <2>1. log = <<>> /\ Len(<<>>) = 0
    BY <1>4, EmptySeq DEF Faithful
  <2>2. log' = <<>> /\ Len(log') = 0 /\ UNCHANGED <<pc, node, via, server, sent>>
    BY <1>1, <2>1 DEF session
  <2>3. QED
    BY <1>4, <2>1, <2>2 DEF Faithful, Correct
<1>5. QED
  BY <1>2, <1>3, <1>4

LEMMA FaithfulOtherEnd ==
  ASSUME HandshakeTypeOK, Faithful, OtherEnd
  PROVE  Faithful'
<1>1. UNCHANGED <<pc, session, conn, node, via, nodeDict>> /\ pc \in Live /\ UNCHANGED sent
  BY DEF OtherEnd, Server, ServerChallenges, ServerAcknowledges, ServerSendsDictionary,
         ServerStreams, ServerRefuses, ServerMisbehaves, ServerCloses, Writes, session
<1>2. CASE ~Correct
  BY <1>1, <1>2 DEF Faithful, Correct
<1>3. CASE ServerCloses
  BY <1>1, <1>3 DEF ServerCloses, Faithful, Correct, Truthful, IdOf
<1>4. CASE Correct /\ ~ServerCloses
  <2>1. log \in Seq(Frames) /\ Len(log) \in Nat
    BY LenProperties DEF HandshakeTypeOK
  <2>2. ASSUME NEW frame, NEW next, Writes(frame, next), frame \in Frames, Truthful(frame),
               Len(log) > 0 => frame.kind # "Challenge",
               next # "greeting",
               "Prove" \notin sent =>
                 next \in {"greeting", "challenged", "closed"} /\ frame.kind \in {"Challenge", "Error"}
        PROVE  Faithful'
    <3>1. /\ Len(log') = Len(log) + 1
          /\ log'[Len(log) + 1] = frame
          /\ \A i \in 1..Len(log) : log'[i] = log[i]
          /\ server' = next
      BY <2>1, <2>2, AppendProperties DEF Writes
    <3>2. \A i \in 1..Len(log') : i \in 1..Len(log) \/ i = Len(log) + 1
      BY <2>1, <3>1
    <3>3. \A i \in 1..Len(log') : Truthful(log'[i]) /\ (i > 1 => log'[i].kind # "Challenge")
      <4> SUFFICES ASSUME NEW i \in 1..Len(log')
                   PROVE  Truthful(log'[i]) /\ (i > 1 => log'[i].kind # "Challenge")
        OBVIOUS
      <4>1. CASE i \in 1..Len(log)
        BY <1>4, <3>1, <4>1 DEF Faithful
      <4>2. CASE i = Len(log) + 1
        BY <2>1, <2>2, <3>1, <4>2
      <4>3. QED
        BY <3>2, <4>1, <4>2
    <3>4. "Prove" \notin sent => \A i \in 1..Len(log') : log'[i].kind \in {"Challenge", "Error"}
      BY <1>4, <2>2, <3>1, <3>2 DEF Faithful
    <3>5. \A i \in 1..Len(log') : Truthful(log[i])'
      BY <1>1, <3>3 DEF Truthful, IdOf
    <3>6. QED
      BY <1>1, <2>2, <3>1, <3>3, <3>4, <3>5 DEF Faithful
  <2>3. CASE ServerChallenges
    <3> DEFINE c == [kind |-> "Challenge", proof |-> Transcript("ours", NodeBinding)]
    <3>1. c \in Frames /\ c.kind = "Challenge"
      BY DEF Frames, Proofs, Transcript, NodeBinding
    <3>2. Writes(c, "challenged") /\ server = "greeting"
      BY <2>3 DEF ServerChallenges
    <3>3. Len(log) = 0
      BY <1>4, <3>2, EmptySeq DEF Faithful
    <3>4. Truthful(c)
      BY <3>1 DEF Truthful
    <3> HIDE DEF c
    <3>5. QED
      BY <2>2, <3>1, <3>2, <3>3, <3>4
  <2>4. CASE ServerAcknowledges
    <3> DEFINE next == IF IdOf(nodeDict[node]) \in {0, IdOf(held)} THEN "streaming" ELSE "announced"
    <3>1. PICK current \in BOOLEAN, zstd \in BOOLEAN :
            Writes([kind |-> "HelloAck", current |-> current, zstd |-> zstd,
                    id |-> IdOf(nodeDict[node])], next)
      BY <2>4 DEF ServerAcknowledges
    <3> DEFINE a == [kind |-> "HelloAck", current |-> current, zstd |-> zstd,
                     id |-> IdOf(nodeDict[node])]
    <3>2. IdOf(nodeDict[node]) \in Ids \cup {0}
      BY DEF HandshakeTypeOK, IdOf, Ids, Held
    <3>3. a \in Frames /\ a.kind = "HelloAck" /\ a.id = IdOf(nodeDict[node])
      BY <3>2 DEF Frames
    <3>4. Truthful(a)
      BY <3>3 DEF Truthful
    <3>5. next # "greeting" /\ "Prove" \in sent
      BY <2>4 DEF ServerAcknowledges
    <3> HIDE DEF a, next
    <3>6. Writes(a, next)
      BY <3>1 DEF a
    <3>7. QED
      BY <2>2, <3>3, <3>4, <3>5, <3>6
  <2>5. CASE ServerSendsDictionary
    <3> DEFINE d == [kind |-> "Dictionary", id |-> IdOf(nodeDict[node]), bytes |-> nodeDict[node]]
    <3>1. IdOf(nodeDict[node]) \in Ids \cup {0} /\ nodeDict[node] \in Dictionaries
      BY <2>5 DEF ServerSendsDictionary, HandshakeTypeOK, IdOf, Ids, Held
    <3>2. d \in Frames /\ d.kind = "Dictionary" /\ d.bytes = nodeDict[node]
      BY <3>1 DEF Frames
    <3>3. Truthful(d)
      BY <3>2 DEF Truthful
    <3>4. Writes(d, "streaming") /\ server = "announced"
      BY <2>5 DEF ServerSendsDictionary
    <3>5. "Prove" \in sent
      BY <1>4, <3>4 DEF Faithful
    <3> HIDE DEF d
    <3>6. QED
      BY <2>2, <3>2, <3>3, <3>4, <3>5
  <2>6. CASE ServerStreams
    <3> DEFINE e == [kind |-> "Data"]
    <3>1. e \in Frames /\ e.kind = "Data"
      BY DEF Frames
    <3>2. Writes(e, "streaming") /\ server = "streaming"
      BY <2>6 DEF ServerStreams
    <3>3. Truthful(e) /\ "Prove" \in sent
      BY <1>4, <3>1, <3>2 DEF Truthful, Faithful
    <3> HIDE DEF e
    <3>4. QED
      BY <2>2, <3>1, <3>2, <3>3
  <2>7. CASE ServerRefuses
    <3> DEFINE e == [kind |-> "Error"]
    <3>1. e \in Frames /\ e.kind = "Error"
      BY DEF Frames
    <3>2. Writes(e, "closed") /\ Truthful(e)
      BY <2>7, <3>1 DEF ServerRefuses, Truthful
    <3> HIDE DEF e
    <3>3. QED
      BY <2>2, <3>1, <3>2
  <2>8. ~ServerMisbehaves
    BY <1>4 DEF Correct, ServerMisbehaves
  <2>9. Server
    BY DEF OtherEnd
  <2>10. QED
    BY <1>4, <2>3, <2>4, <2>5, <2>6, <2>7, <2>8, <2>9 DEF Server
<1>5. QED
  BY <1>2, <1>3, <1>4

(* What a correct node acknowledged, if this side keeps what it holds, is what the
   node compresses with; zero means that is nothing. *)
LEMMA KeptIsNodes ==
  ASSUME HandshakeAssumption, HandshakeTypeOK, NoCollision, NEW id, id = IdOf(nodeDict[node]),
         Kept(id) # NoDictionary \/ id = 0
  PROVE  Kept(id) = nodeDict[node]
<1>1. nodeDict[node] \in Held /\ held \in Held /\ NoDictionary \notin Dictionaries
  BY DEF HandshakeTypeOK, HandshakeAssumption
<1>2. \A d \in Dictionaries : DictionaryId[d] # 0
  BY DEF HandshakeAssumption
<1>3. QED
  BY <1>1, <1>2 DEF Kept, IdOf, Held, NoCollision

=============================================================================
