---------------------------- MODULE ConnectProofs ----------------------------
(***************************************************************************)
(* What holds of Connect for every set of nodes and dictionaries, every    *)
(* timeout and every behaviour of the peers.                               *)
(***************************************************************************)
EXTENDS Connect, HandshakeProofs

(* A stretch of a sequence has the elements of the sequence. *)
LEMMA Stretch ==
  ASSUME NEW S, NEW s \in Seq(S), NEW m \in Nat \ {0}, NEW n \in 0..Len(s)
  PROVE  SubSeq(s, m, n) \in Seq(S)
<1>1. \A i \in m..n : s[i] \in S
  BY ElementOfSeq
<1>2. QED
  BY <1>1, SubSeqProperties

(* What DictionaryCache::store does not write is what it keeps. *)
LEMMA RecentType ==
  ASSUME NEW S, NEW d, cache \in Seq(S), ConnectAssumption
  PROVE  Recent(d) \in Seq(S)
<1>1. Others(d) \in Seq(S)
  <2>1. CASE d \notin ToSet(cache)
    BY <2>1 DEF Others
  <2>2. CASE d \in ToSet(cache)
    <3> DEFINE i == CHOOSE j \in DOMAIN cache : cache[j] = d
    <3>1. i \in 1..Len(cache)
      BY <2>2, LenProperties DEF ToSet
    <3> HIDE DEF i
    <3>2. SubSeq(cache, 1, i - 1) \in Seq(S)
      BY <3>1, Stretch
    <3>3. SubSeq(cache, i + 1, Len(cache)) \in Seq(S)
      BY <3>1, Stretch
    <3>4. Others(d) = SubSeq(cache, 1, i - 1) \o SubSeq(cache, i + 1, Len(cache))
      BY <2>2 DEF Others, RemoveAt, i
    <3>5. QED
      BY <3>2, <3>3, <3>4, ConcatProperties
  <2>3. QED
    BY <2>1, <2>2
<1>2. QED
  <2>1. Keep \in Nat \ {0}
    BY DEF ConnectAssumption
  <2> DEFINE n == IF Len(Others(d)) < Keep THEN Len(Others(d)) ELSE Keep - 1
  <2>2. n \in 0..Len(Others(d))
    BY <1>1, <2>1
  <2>3. QED
    BY <1>1, <2>2, Stretch DEF Recent

(* It leaves a list of what it was given and what it kept. *)
LEMMA StoredType ==
  ASSUME NEW S, NEW d \in S, cache \in Seq(S), ConnectAssumption
  PROVE  Stored(d) \in Seq(S)
BY RecentType, ConcatProperties DEF Stored

-----------------------------------------------------------------------------

LEMMA TypeInit == ConnectAssumption /\ Init => TypeOK
<1>1. <<>> \in Seq(Dictionaries)
  BY EmptySeq
<1>2. QED
  BY <1>1, TypeIdle DEF ConnectAssumption, Init, TypeOK

(* Type correctness is inductive as it stands: what a handler takes from a frame
   is typed by the log, and read_frame never hands out a frame not yet whole. *)
LEMMA TypeNext == ConnectAssumption /\ TypeOK /\ [Next]_vars => TypeOK'
<1> SUFFICES ASSUME ConnectAssumption, TypeOK, [Next]_vars
             PROVE  TypeOK'
  OBVIOUS
<1> USE DEF Live, Await, Reading, Writing
<1>1. HandshakeAssumption /\ HandshakeTypeOK
  BY DEF ConnectAssumption, TypeOK
<1>2. CASE Open
  BY <1>1, <1>2, TypeDial DEF TypeOK, Open
<1>3. CASE Client
  <2>1. ASSUME Ready
        PROVE  Frame \in Frames /\ Drained \in 0..arrived
    BY <1>1, <2>1, FrameType DEF Drained
  <2>2. CASE Opened
    <3>1. Offered \in Held
      BY HeadTailProperties DEF Offered, Held, TypeOK, ConnectAssumption
    <3>2. QED
      BY <1>1, <2>2, <3>1 DEF TypeOK, HandshakeTypeOK, Opened, peer, HandshakeAssumption
  <2>3. CASE OnChallenge
    BY <1>1, <2>1, <2>3 DEF TypeOK, HandshakeTypeOK, OnChallenge, peer, HandshakeAssumption
  <2>4. CASE OnHelloAck
    <3>1. Frame.id \in Ids \cup {0} /\ Kept(Frame.id) \in Held
      BY <2>1, <2>4 DEF OnHelloAck, Frames, Kept, TypeOK, HandshakeTypeOK, Held
    <3>2. QED
      BY <1>1, <2>1, <2>4, <3>1 DEF TypeOK, HandshakeTypeOK, OnHelloAck, peer, HandshakeAssumption
  <2>5. CASE OnDictionary
    <3>1. Frame.bytes \in Dictionaries
      BY <2>1, <2>5 DEF OnDictionary, Frames
    <3>2. cache' \in Seq(Dictionaries)
      BY <2>5, <3>1, StoredType DEF OnDictionary, TypeOK
    <3>3. QED
      BY <2>1, <2>5, <3>1, <3>2 DEF TypeOK, HandshakeTypeOK, OnDictionary, peer, Held
  <2>6. CASE OnUnexpected \/ Disconnected \/ TimedOut
    BY <2>6, TypeFail DEF OnUnexpected, Disconnected, TimedOut, TypeOK
  <2>7. CASE Tick
    BY <1>1, <2>7 DEF TypeOK, HandshakeTypeOK, Tick, Running, Timed, peer, HandshakeAssumption
  <2>8. CASE Resolved \/ Written
    BY <1>1, <2>8 DEF TypeOK, HandshakeTypeOK, Resolved, Written, session, peer
  <2>9. QED
    BY <1>3, <2>2, <2>3, <2>4, <2>5, <2>6, <2>7, <2>8 DEF Client
<1>4. CASE RoundAbout
  BY <1>1, <1>4, TypeArrive, TypeRetrain, TypeOtherEnd DEF RoundAbout, TypeOK
<1>5. CASE UNCHANGED vars
  BY <1>1, <1>5, TypeStutter DEF TypeOK, vars
<1>6. QED
  BY <1>2, <1>3, <1>4, <1>5 DEF Next

(* connect keeps its variables in their ranges, on every behaviour. *)
THEOREM TypeCorrect == Spec => []TypeOK
<1>1. Init => TypeOK
  BY ConnectAssumption, TypeInit
<1>2. TypeOK /\ [Next]_vars => TypeOK'
  BY ConnectAssumption, TypeNext
<1>3. QED
  BY <1>1, <1>2, PTL DEF Spec

-----------------------------------------------------------------------------

(* What has been drained, sent and decided by the time connect awaits a frame. *)
Progress ==
  /\ pc \in {"resolving", "opening", "hello", "challenge"} =>
       consumed = 0 /\ "Prove" \notin sent
  /\ pc \in {"prove", "ack", "dictionary", "streaming"} =>
       /\ "Prove" \in sent
       /\ consumed >= 1
       /\ log[1].kind = "Challenge"
  /\ pc \in {"prove", "ack"} => consumed = 1
  /\ pc = "dictionary" => consumed = 2 /\ log[2].kind = "HelloAck"
  /\ pc \in Await => ~wasSent

IInv ==
  /\ TypeOK
  /\ ProofsAreMade
  /\ Progress
  /\ NothingDisclosed
  /\ DecoderAgrees
  /\ HandsOver

LEMMA SafetyInit == ConnectAssumption /\ Init => IInv
<1> SUFFICES ASSUME ConnectAssumption, Init
             PROVE  IInv
  OBVIOUS
<1>1. TypeOK
  BY TypeInit
<1>2. ProofsAreMade
  BY DEF Init, Idle, ProofsAreMade
<1>3. Progress /\ NothingDisclosed /\ DecoderAgrees /\ HandsOver
  BY DEF Init, Idle, Progress, NothingDisclosed, DecoderAgrees, HandsOver, Await, Reading, Writing
<1>4. QED
  BY <1>1, <1>2, <1>3 DEF IInv

(* A failed attempt keeps what was promised of it: nothing more is sent. *)
LEMMA SafetyFail == IInv /\ TypeOK' /\ Fail /\ UNCHANGED cache => IInv'
<1> SUFFICES ASSUME IInv, TypeOK', Fail, UNCHANGED cache
             PROVE  IInv'
  OBVIOUS
<1>1. ProofsAreMade'
  BY DEF Fail, ProofsAreMade
<1>2. Progress' /\ DecoderAgrees' /\ HandsOver'
  BY DEF Fail, Progress, DecoderAgrees, HandsOver, Await, Reading, Writing
<1>3. NothingDisclosed'
  BY DEF IInv, Fail, NothingDisclosed, Genuine, session
<1>4. QED
  BY <1>1, <1>2, <1>3 DEF IInv

LEMMA SafetyClient == ConnectAssumption /\ IInv /\ TypeOK' /\ Client => IInv'
<1> SUFFICES ASSUME ConnectAssumption, IInv, TypeOK', Client
             PROVE  IInv'
  OBVIOUS
<1> USE DEF Await, Reading, Writing
<1>1. CASE Opened
  <2>1. ProofsAreMade'
    BY <1>1, ProofsUnchanged DEF IInv, Opened, peer
  <2>2. Progress' /\ NothingDisclosed' /\ DecoderAgrees' /\ HandsOver'
    BY <1>1 DEF IInv, Opened, Progress, NothingDisclosed, DecoderAgrees, HandsOver, peer
  <2>3. QED
    BY <2>1, <2>2 DEF IInv
<1>2. CASE OnChallenge
  <2>1. ProofsAreMade'
    BY <1>2, ProofsUnchanged DEF IInv, OnChallenge, peer
  <2>2. Progress'
    BY <1>2 DEF IInv, OnChallenge, Progress, Drained, Frame, peer
  <2>3. NothingDisclosed'
    BY <1>2, VerifiedIsGenuine DEF IInv, TypeOK, OnChallenge, NothingDisclosed, Genuine, peer
  <2>4. DecoderAgrees' /\ HandsOver'
    BY <1>2 DEF OnChallenge, DecoderAgrees, HandsOver
  <2>5. QED
    BY <2>1, <2>2, <2>3, <2>4 DEF IInv
<1>3. CASE OnHelloAck
  <2>1. ProofsAreMade' /\ NothingDisclosed'
    BY <1>3, ProofsUnchanged DEF IInv, OnHelloAck, NothingDisclosed, Genuine, peer
  <2>2. Progress'
    BY <1>3 DEF IInv, OnHelloAck, Progress, Drained, Frame, peer
  <2>3. DecoderAgrees'
    BY <1>3 DEF OnHelloAck, DecoderAgrees, Kept, IdOf
  <2>4. HandsOver'
    BY <1>3 DEF IInv, OnHelloAck, HandsOver, Progress, Drained, Frame, peer
  <2>5. QED
    BY <2>1, <2>2, <2>3, <2>4 DEF IInv
<1>4. CASE OnDictionary
  <2>1. ProofsAreMade' /\ NothingDisclosed'
    BY <1>4, ProofsUnchanged DEF IInv, OnDictionary, NothingDisclosed, Genuine, peer
  <2>2. Progress'
    BY <1>4 DEF IInv, OnDictionary, Progress, Drained, Frame, peer
  <2>3. DecoderAgrees'
    <3>1. Frame.bytes \in Dictionaries
      <4>1. Frame \in Frames
        BY <1>4, FrameType DEF IInv, TypeOK, OnDictionary
      <4>2. QED
        BY <1>4, <4>1 DEF OnDictionary, Frames
    <3>2. QED
      BY <1>4, <3>1 DEF OnDictionary, DecoderAgrees, Announced, IdOf, ConnectAssumption, HandshakeAssumption
  <2>4. HandsOver'
    BY <1>4 DEF IInv, OnDictionary, HandsOver, Progress, Drained, Frame, peer
  <2>5. QED
    BY <2>1, <2>2, <2>3, <2>4 DEF IInv
<1>5. CASE OnUnexpected \/ Disconnected \/ TimedOut
  BY <1>5, SafetyFail DEF OnUnexpected, Disconnected, TimedOut
<1>6. CASE Tick
  <2>1. ProofsAreMade' /\ NothingDisclosed'
    BY <1>6, ProofsUnchanged DEF IInv, Tick, NothingDisclosed, Genuine, peer
  <2>2. Progress' /\ HandsOver' /\ DecoderAgrees'
    BY <1>6 DEF IInv, Tick, Running, Timed, Progress, HandsOver, DecoderAgrees, IdOf, peer
  <2>3. QED
    BY <2>1, <2>2 DEF IInv
<1>7. CASE Resolved \/ Written
  <2>1. ProofsAreMade' /\ NothingDisclosed'
    BY <1>7, ProofsUnchanged DEF IInv, Resolved, Written, NothingDisclosed, Genuine, session, peer
  <2>2. Progress' /\ HandsOver' /\ DecoderAgrees'
    BY <1>7 DEF IInv, Resolved, Written, Progress, HandsOver, DecoderAgrees, session, peer
  <2>3. QED
    BY <2>1, <2>2 DEF IInv
<1>8. QED
  BY <1>1, <1>2, <1>3, <1>4, <1>5, <1>6, <1>7 DEF Client

LEMMA SafetyNext == ConnectAssumption /\ IInv /\ [Next]_vars => IInv'
<1> SUFFICES ASSUME ConnectAssumption, IInv, [Next]_vars
             PROVE  IInv'
  OBVIOUS
<1>1. TypeOK'
  BY TypeNext DEF IInv
<1>2. CASE Open
  <2>1. ProofsAreMade'
    BY <1>2 DEF Open, Dial, ProofsAreMade
  <2>2. Progress' /\ NothingDisclosed' /\ DecoderAgrees' /\ HandsOver'
    BY <1>2 DEF Open, Dial, Progress, NothingDisclosed, DecoderAgrees, HandsOver
  <2>3. QED
    BY <1>1, <2>1, <2>2 DEF IInv
<1>3. CASE Client
  BY <1>1, <1>3, SafetyClient
<1>4. ASSUME UNCHANGED <<pc, session, consumed, via>>, ProofsAreMade',
             \A i \in 1..consumed : log'[i] = log[i]
      PROVE  IInv'
  <2>1. consumed \in Nat
    BY LenProperties DEF IInv, TypeOK, HandshakeTypeOK
  <2>2. Progress'
    BY <1>4, <2>1 DEF IInv, Progress, session
  <2>3. HandsOver'
    BY <1>4, <2>1 DEF IInv, HandsOver, session
  <2>4. NothingDisclosed' /\ DecoderAgrees'
    BY <1>4 DEF IInv, NothingDisclosed, Genuine, DecoderAgrees, IdOf, session
  <2>5. QED
    BY <1>1, <1>4, <2>2, <2>3, <2>4 DEF IInv
<1>5. CASE RoundAbout
  <2>1. CASE OtherEnd
    BY <1>4, <1>5, <2>1, OtherEndKeeps DEF RoundAbout, IInv, TypeOK
  <2>2. CASE Arrive \/ Retrain
    BY <1>4, <1>5, <2>2, ProofsUnchanged DEF RoundAbout, Arrive, Retrain, peer, IInv
  <2>3. QED
    BY <1>5, <2>1, <2>2 DEF RoundAbout
<1>6. CASE UNCHANGED vars
  BY <1>4, <1>6, ProofsUnchanged DEF vars, handshake, session, peer, IInv
<1>7. QED
  BY <1>2, <1>3, <1>5, <1>6 DEF Next

(* The parts of the inductive invariant hold of every behaviour. *)
LEMMA Safety == Spec => []IInv
<1>1. Init => IInv
  BY ConnectAssumption, SafetyInit
<1>2. IInv /\ [Next]_vars => IInv'
  BY ConnectAssumption, SafetyNext
<1>3. QED
  BY <1>1, <1>2, PTL DEF Spec

(* A proof of this client's key leaves the process only for a peer that has the
   key and, over QUIC, sees the same session. *)
THEOREM DisclosesOnlyToGenuine == Spec => []NothingDisclosed
BY Safety, PTL DEF IInv

(* A streaming connection decodes with the dictionary that was acknowledged,
   whatever the hash and however faulty the node. *)
THEOREM DictionaryAgreement == Spec => []DecoderAgrees
BY Safety, PTL DEF IInv

(* No frame past the handshake is lost on the way to the event loop. *)
THEOREM HandOver == Spec => []HandsOver
BY Safety, PTL DEF IInv

-----------------------------------------------------------------------------

(* connect starts where Session does. *)
LEMMA PromiseInit == Init => Promise!Init
BY DEF Init, Idle, Promise!Init, Await, Reading, Writing, Genuine

(* Each of its steps is one of Session's, or none. *)
LEMMA PromiseNext == IInv /\ IInv' /\ [Next]_vars => [Promise!Next]_(Promise!vars)
<1> SUFFICES ASSUME IInv, IInv', [Next]_vars
             PROVE  [Promise!Next]_(Promise!vars)
  OBVIOUS
<1> USE DEF Await, Reading, Writing, Promise!vars
<1>1. ASSUME UNCHANGED <<pc, node, via, sent, ack, decoder>>
      PROVE  UNCHANGED Promise!vars
  BY <1>1 DEF Genuine, IdOf
<1>2. CASE Open
  <2>1. Genuine' \in BOOLEAN
    BY DEF Genuine
  <2>2. Promise!Begin
    <3>1. pc # "connecting"
      BY DEF IInv, TypeOK, HandshakeTypeOK, Live
    <3>2. QED
      BY <1>2, <2>1, <3>1 DEF Open, Dial, Promise!Begin
  <2>3. QED
    BY <2>2 DEF Promise!Next
<1>3. CASE Opened \/ Resolved \/ Written
  BY <1>3 DEF IInv, Opened, Resolved, Written, Progress, Genuine, session, peer
<1>4. CASE OnChallenge
  BY <1>4, VerifiedIsGenuine DEF IInv, TypeOK, OnChallenge, Promise!Next, Promise!Disclose, Genuine, peer
<1>5. CASE OnHelloAck
  <2>1. CASE pc' = "dictionary"
    BY <1>5, <2>1 DEF OnHelloAck, Genuine, peer
  <2>2. CASE pc' = "streaming"
    <3>1. ack' \in Ids \cup {0} /\ IdOf(decoder)' = ack'
      BY <2>2 DEF IInv, TypeOK, HandshakeTypeOK, DecoderAgrees
    <3>2. Genuine' = Genuine
      BY <1>5 DEF OnHelloAck, Genuine, peer
    <3>3. Promise!Agree(ack')
      BY <1>5, <2>2, <3>1, <3>2 DEF OnHelloAck, IInv, Progress, Promise!Agree
    <3>4. QED
      BY <3>1, <3>3 DEF Promise!Next
  <2>3. QED
    BY <1>5, <2>1, <2>2 DEF OnHelloAck
<1>6. CASE OnDictionary
  <2>1. ack' \in Ids \cup {0} /\ IdOf(decoder)' = ack'
    BY <1>6 DEF IInv, TypeOK, HandshakeTypeOK, DecoderAgrees, OnDictionary
  <2>2. Genuine' = Genuine
    BY <1>6 DEF OnDictionary, Genuine, peer
  <2>3. Promise!Agree(ack')
    BY <1>6, <2>1, <2>2 DEF OnDictionary, IInv, Progress, Promise!Agree
  <2>4. QED
    BY <2>1, <2>3 DEF Promise!Next
<1>7. CASE OnUnexpected \/ Disconnected \/ TimedOut
  <2>1. pc \in Await /\ Fail
    BY <1>7 DEF OnUnexpected, Disconnected, TimedOut, Ready, Expired, Timed
  <2>2. Promise!Abandon
    BY <2>1 DEF Fail, Promise!Abandon, Genuine, session
  <2>3. QED
    BY <2>2 DEF Promise!Next
<1>8. CASE RoundAbout \/ Tick \/ UNCHANGED vars
  <2>1. CASE OtherEnd
    BY <1>1, <2>1, OtherEndKeeps DEF IInv, TypeOK, session
  <2>2. CASE Arrive \/ Retrain \/ Tick \/ UNCHANGED vars
    BY <1>1, <2>2 DEF Arrive, Retrain, Tick, session, peer, vars, handshake
  <2>3. QED
    BY <1>8, <2>1, <2>2 DEF RoundAbout
<1>9. QED
  BY <1>2, <1>3, <1>4, <1>5, <1>6, <1>7, <1>8 DEF Next, Client

(* Opening connections as the SDK does implements what Session promises. *)
THEOREM Implements == Spec => ImplementsSession
<1>1. Spec => []IInv
  BY Safety
<1>2. IInv /\ IInv' /\ [Next]_vars => [Promise!Next]_(Promise!vars)
  BY PromiseNext
<1>3. QED
  BY <1>1, <1>2, PromiseInit, PTL DEF Spec, ImplementsSession, Promise!Spec

-----------------------------------------------------------------------------

(* Whatever connect does, a correct node's frames stay what such a node writes. *)
LEMMA FaithfulNext ==
  ASSUME ConnectAssumption, IInv, Faithful, [Next]_vars
  PROVE  Faithful'
<1> USE DEF Live, Await, Reading, Writing
<1>1. HandshakeTypeOK
  BY DEF IInv, TypeOK
<1>2. CASE Open
  BY <1>2, FaithfulDial DEF Open
<1>3. CASE OnUnexpected \/ Disconnected \/ TimedOut
  BY <1>3, FaithfulFail DEF OnUnexpected, Disconnected, TimedOut
<1>4. CASE Resolved \/ Opened \/ Written \/ OnChallenge \/ OnHelloAck \/ OnDictionary \/ Tick
  <2>1. UNCHANGED <<log, node, via, server, nodeDict>> /\ pc' \in Live
    BY <1>1, <1>4 DEF HandshakeTypeOK, Resolved, Opened, Written, OnChallenge, OnHelloAck,
                      OnDictionary, Tick, Running, Timed, peer
  <2>2. sent \subseteq sent'
    BY <1>4 DEF IInv, Progress, TypeOK, HandshakeTypeOK, Resolved, Opened, Written, OnChallenge,
                OnHelloAck, OnDictionary, Tick, session
  <2>3. QED
    BY <2>1, <2>2, FaithfulStep
<1>5. CASE OtherEnd
  BY <1>1, <1>5, FaithfulOtherEnd
<1>6. CASE Retrain
  BY <1>1, <1>6, FaithfulRetrain
<1>7. CASE Arrive \/ UNCHANGED vars
  <2>1. UNCHANGED <<pc, sent, log, node, via, server, nodeDict>>
    BY <1>7 DEF Arrive, vars, handshake, session, peer
  <2>2. QED
    BY <2>1, FaithfulStep
<1>8. QED
  BY <1>2, <1>3, <1>4, <1>5, <1>6, <1>7 DEF Next, Client, RoundAbout

(* So what is read of a correct node speaks of the dictionary it compresses with. *)
LEMMA ReadIsTruthful ==
  ASSUME HandshakeTypeOK, Faithful, Correct, Ready
  PROVE  Truthful(Frame) /\ Frame \in Frames
<1>1. Frame \in Frames /\ consumed + 1 \in 1..Len(log)
  BY FrameType
<1>2. QED
  BY <1>1 DEF Faithful, Frame

LEMMA FaithfulAlways == Spec => []Faithful
<1>1. Init => Faithful
  BY FaithfulIdle DEF Init
<1>2. IInv /\ Faithful /\ [Next]_vars => Faithful'
  BY ConnectAssumption, FaithfulNext
<1>3. QED
  BY <1>1, <1>2, Safety, PTL DEF Spec

(* A streaming connection keeps what its node compresses with. *)
LEMMA DecodesNext ==
  ASSUME ConnectAssumption, NoCollision, IInv, Faithful, DecodesWhatNodeSends, [Next]_vars
  PROVE  DecodesWhatNodeSends'
<1> USE DEF Live, Await, Reading, Writing
<1>1. HandshakeAssumption /\ HandshakeTypeOK
  BY DEF ConnectAssumption, IInv, TypeOK
<1>2. CASE OnHelloAck
  <2>1. ASSUME Correct, pc' = "streaming"
        PROVE  decoder' = nodeDict[node]
    <3>1. Frame.id = IdOf(nodeDict[node])
      BY <1>1, <1>2, <2>1, ReadIsTruthful DEF OnHelloAck, Truthful
    <3>2. decoder' = Kept(Frame.id) /\ (Kept(Frame.id) # NoDictionary \/ Frame.id = 0)
      BY <1>2, <2>1 DEF OnHelloAck
    <3>3. QED
      BY <1>1, <3>1, <3>2, KeptIsNodes
  <2>2. QED
    BY <1>2, <2>1 DEF OnHelloAck, DecodesWhatNodeSends, Correct, peer
<1>3. CASE OnDictionary
  <2>1. Correct => decoder' = nodeDict[node]
    BY <1>1, <1>3, ReadIsTruthful DEF OnDictionary, Truthful
  <2>2. QED
    BY <1>3, <2>1 DEF OnDictionary, DecodesWhatNodeSends, Correct, peer
<1>4. CASE \/ Open \/ Resolved \/ Opened \/ Written \/ OnChallenge \/ Tick
           \/ OnUnexpected \/ Disconnected \/ TimedOut
  <2>1. pc' # "streaming"
    BY <1>4 DEF Open, Dial, Resolved, Opened, Written, OnChallenge, Tick, Running, Timed,
                OnUnexpected, Disconnected, TimedOut, Fail
  <2>2. QED
    BY <2>1 DEF DecodesWhatNodeSends
<1>5. CASE RoundAbout \/ UNCHANGED vars
  <2>1. UNCHANGED <<pc, decoder, node, via>>
    BY <1>5 DEF RoundAbout, OtherEnd, Arrive, Retrain, Server, ServerChallenges, ServerAcknowledges,
                ServerSendsDictionary, ServerStreams, ServerRefuses, ServerMisbehaves, ServerCloses,
                Writes, vars, handshake, session, peer
  <2>2. CASE Retrain
    BY <1>1, <2>1, <2>2, FaithfulRetrain DEF DecodesWhatNodeSends
  <2>3. CASE OtherEnd \/ Arrive \/ UNCHANGED vars
    <3>1. UNCHANGED nodeDict
      BY <2>3 DEF OtherEnd, Arrive, Server, ServerChallenges, ServerAcknowledges,
                  ServerSendsDictionary, ServerStreams, ServerRefuses, ServerMisbehaves,
                  ServerCloses, Writes, vars, handshake, peer
    <3>2. QED
      BY <2>1, <3>1 DEF DecodesWhatNodeSends
  <2>4. QED
    BY <1>5, <2>2, <2>3 DEF RoundAbout
<1>6. QED
  BY <1>2, <1>3, <1>4, <1>5 DEF Next, Client

(* Where the ids tell the dictionaries apart, a client that connected to a node that
   keeps to the protocol decodes with the dictionary that node compresses with,
   whatever it held, cached or was sent, and whenever an operator changed another's
   (client.rs:490-556). *)
THEOREM DecodesAsEncoded ==
  ASSUME NoCollision
  PROVE  Spec => []DecodesWhatNodeSends
<1>1. Init => DecodesWhatNodeSends
  BY DEF Init, Idle, DecodesWhatNodeSends
<1>2. IInv /\ Faithful /\ DecodesWhatNodeSends /\ [Next]_vars => DecodesWhatNodeSends'
  BY ConnectAssumption, DecodesNext
<1>3. QED
  BY <1>1, <1>2, Safety, FaithfulAlways, PTL DEF Spec

-----------------------------------------------------------------------------
(* What the cache spares a subscriber of one node that keeps to the protocol. *)

OneNode == Faulty = {} /\ \A m, n \in Nodes : m = n

(* A dictionary the cache has is at its front, if the node compresses with it. *)
InFront ==
  nodeDict[node] \in ToSet(cache) => cache # <<>> /\ Head(cache) = nodeDict[node]

(* What was offered is still what would be, and is not what a node sends. *)
OfferStands ==
  /\ pc \in Writing \cup Reading => held = Offered
  /\ pc = "dictionary" => ack # 0 /\ ack # IdOf(held) /\ ack = IdOf(nodeDict[node])

(* The dictionary an operator gives a node is none that the cache has. *)
Novel ==
  [][\A n \in Nodes : nodeDict'[n] # nodeDict[n] => nodeDict'[n] \notin ToSet(cache)]_vars

LEMMA FrontInit == Init => InFront /\ OfferStands
<1>1. ToSet(<<>>) = {}
  BY EmptySeq DEF ToSet
<1>2. QED
  BY <1>1 DEF Init, Idle, InFront, OfferStands, Writing, Reading

(* What is stored is at the front of what is left. *)
LEMMA StoredFirst ==
  ASSUME ConnectAssumption, cache \in Seq(Dictionaries), NEW d \in Dictionaries
  PROVE  Stored(d) # <<>> /\ Head(Stored(d)) = d
<1>1. Recent(d) \in Seq(Dictionaries)
  BY RecentType
<1>2. <<d>> \in Seq(Dictionaries) /\ Len(<<d>>) = 1 /\ <<d>>[1] = d
  OBVIOUS
<1>3. Stored(d) \in Seq(Dictionaries) /\ Len(Stored(d)) = 1 + Len(Recent(d)) /\ Stored(d)[1] = d
  BY <1>1, <1>2, ConcatProperties DEF Stored
<1>4. Len(Recent(d)) \in Nat
  BY <1>1, LenProperties
<1>5. QED
  BY <1>3, <1>4, EmptySeq, HeadTailProperties

(* What one node announces after a proof was written is what it compresses with. *)
LEMMA ReadOfTheNode ==
  ASSUME IInv, Faithful, OneNode, Ready, pc \in {"ack", "dictionary"}
  PROVE  Truthful(Frame) /\ Frame \in Frames
<1>1. Correct
  BY DEF IInv, Progress, NothingDisclosed, Genuine, OneNode, Correct
<1>2. QED
  BY <1>1, ReadIsTruthful DEF IInv, TypeOK

LEMMA FrontClient ==
  ASSUME ConnectAssumption, OneNode, CacheOn, IInv, Faithful, InFront, OfferStands, Client
  PROVE  InFront' /\ OfferStands'
<1> USE DEF Await, Reading, Writing
<1>1. CASE OnDictionary
  <2>1. Frame.bytes = nodeDict[node] /\ Frame.bytes \in Dictionaries
    BY <1>1, ReadOfTheNode DEF OnDictionary, Truthful, Frames
  <2>2. cache' = Stored(nodeDict[node]) /\ UNCHANGED <<node, nodeDict>>
    BY <1>1, <2>1 DEF OnDictionary, peer
  <2>3. Stored(nodeDict[node]) # <<>> /\ Head(Stored(nodeDict[node])) = nodeDict[node]
    BY <2>1, StoredFirst DEF IInv, TypeOK
  <2>4. InFront'
    BY <2>2, <2>3 DEF InFront
  <2>5. OfferStands'
    BY <1>1 DEF OnDictionary, OfferStands
  <2>6. QED
    BY <2>4, <2>5
<1>2. CASE OnHelloAck
  <2>1. UNCHANGED <<cache, held, node, nodeDict>> /\ pc' \in {"dictionary", "streaming"}
    BY <1>2 DEF OnHelloAck, peer
  <2>2. ack' = IdOf(nodeDict[node])
    BY <1>2, ReadOfTheNode DEF OnHelloAck, Truthful
  <2>3. pc' = "dictionary" => ack' # 0 /\ ack' # IdOf(held)
    BY <1>2 DEF OnHelloAck, Kept, IdOf
  <2>4. held = Offered
    BY <1>2 DEF OnHelloAck, OfferStands
  <2>5. QED
    BY <2>1, <2>2, <2>3, <2>4 DEF InFront, OfferStands, Offered, IdOf
<1>3. CASE Opened
  BY <1>3 DEF Opened, InFront, OfferStands, Offered, peer
<1>4. CASE OnUnexpected \/ Disconnected \/ TimedOut
  BY <1>4 DEF OnUnexpected, Disconnected, TimedOut, Fail, InFront, OfferStands
<1>5. CASE Resolved \/ Written \/ OnChallenge \/ Tick
  <2>1. UNCHANGED <<cache, held, ack, node, nodeDict>>
    BY <1>5 DEF Resolved, Written, OnChallenge, Tick, session, peer
  <2>2. /\ pc' = "dictionary" => pc = "dictionary"
        /\ pc' \in Writing \cup Reading => pc \in Writing \cup Reading
    BY <1>5 DEF Resolved, Written, OnChallenge, Tick
  <2>3. QED
    BY <2>1, <2>2 DEF InFront, OfferStands, Offered, IdOf
<1>6. QED
  BY <1>1, <1>2, <1>3, <1>4, <1>5 DEF Client

LEMMA FrontNext ==
  ASSUME ConnectAssumption, OneNode, CacheOn, IInv, IInv', Faithful, InFront, OfferStands,
         [Next]_vars,
         \A n \in Nodes : nodeDict'[n] # nodeDict[n] => nodeDict'[n] \notin ToSet(cache)
  PROVE  InFront' /\ OfferStands'
<1>1. node \in Nodes /\ node' \in Nodes
  BY DEF IInv, TypeOK, HandshakeTypeOK
<1>2. CASE Client
  BY <1>2, FrontClient
<1>3. CASE Open
  <2>1. UNCHANGED <<node, nodeDict, cache>> /\ pc' = "resolving"
    BY <1>1, <1>3 DEF Open, Dial, OneNode
  <2>2. QED
    BY <2>1 DEF InFront, OfferStands, Writing, Reading
<1>4. CASE Retrain /\ UNCHANGED cache
  <2>1. pc \notin Live /\ UNCHANGED <<pc, node>>
    BY <1>1, <1>4 DEF Retrain, OneNode
  <2>2. OfferStands'
    BY <2>1 DEF OfferStands, Live, Await, Writing, Reading
  <2>3. InFront'
    BY <1>1, <1>4, <2>1 DEF InFront
  <2>4. QED
    BY <2>2, <2>3
<1>5. CASE ((Arrive \/ OtherEnd) /\ UNCHANGED cache) \/ UNCHANGED vars
  <2>1. UNCHANGED <<pc, held, ack, node, nodeDict, cache>>
    BY <1>5 DEF OtherEnd, Arrive, Server, ServerChallenges, ServerAcknowledges,
                ServerSendsDictionary, ServerStreams, ServerRefuses, ServerMisbehaves,
                ServerCloses, Writes, vars, handshake, session, peer
  <2>2. QED
    BY <2>1 DEF InFront, OfferStands, Offered, IdOf
<1>6. QED
  BY <1>2, <1>3, <1>4, <1>5 DEF Next, RoundAbout

(* Only a dictionary the cache does not have is sent. *)
LEMMA SentIsNew ==
  ASSUME ConnectAssumption, OneNode, CacheOn, Configured = NoDictionary,
         IInv, Faithful, InFront, OfferStands, [Next]_vars,
         pc = "dictionary", pc' = "streaming"
  PROVE  decoder' \notin ToSet(cache)
<1>1. OnDictionary
  BY DEF Next, Client, RoundAbout, Open, Dial, Resolved, Opened, Written, OnChallenge, OnHelloAck,
         OnUnexpected, Disconnected, Tick, TimedOut, Fail, OtherEnd, Arrive, Retrain, vars, handshake,
         Writing
<1>2. decoder' = nodeDict[node]
  BY <1>1, ReadOfTheNode DEF OnDictionary, Truthful
<1>3. ASSUME nodeDict[node] \in ToSet(cache)
      PROVE  FALSE
  <2>1. cache # <<>> /\ Head(cache) = nodeDict[node]
    BY <1>3 DEF InFront
  <2>2. held = nodeDict[node]
    BY <2>1 DEF OfferStands, Offered, Reading
  <2>3. QED
    BY <2>2 DEF OfferStands
<1>4. QED
  BY <1>2, <1>3

(* A subscriber of one node that keeps to the protocol, which caches dictionaries and
   configures none, is never sent one its cache holds, as long as the dictionaries the
   node is given are new to the cache: offering the newest of the cache is enough
   (client.rs:369-374, 525-534). *)
THEOREM PaidOnce ==
  ASSUME OneNode, CacheOn, Configured = NoDictionary
  PROVE  Spec /\ Novel => NeverResent
<1> DEFINE Fresh == \A n \in Nodes : nodeDict'[n] # nodeDict[n] => nodeDict'[n] \notin ToSet(cache)
           New == pc = "dictionary" /\ pc' = "streaming" => decoder' \notin ToSet(cache)
           AtFront == InFront /\ OfferStands
<1>1. Init => AtFront
  BY FrontInit
<1>2. IInv /\ IInv' /\ Faithful /\ AtFront /\ [Next]_vars /\ [Fresh]_vars => AtFront'
  <2>1. SUFFICES ASSUME IInv, IInv', Faithful, AtFront, [Next]_vars, [Fresh]_vars
                 PROVE  AtFront'
    OBVIOUS
  <2>2. UNCHANGED vars => Fresh
    BY DEF vars, handshake, peer
  <2>3. QED
    BY <2>1, <2>2, ConnectAssumption, FrontNext
<1>3. IInv /\ Faithful /\ AtFront /\ [Next]_vars => [New]_vars
  BY ConnectAssumption, SentIsNew
<1> HIDE DEF AtFront
<1>4. QED
  BY <1>1, <1>2, <1>3, Safety, FaithfulAlways, PTL DEF Spec, Novel, NeverResent

-----------------------------------------------------------------------------

(* Until a first change the cache has what the node was given to begin with. *)
OnlyTheFirst == retrains = 0 => cache \in Seq({nodeDict[node]})

LEMMA OnlyTheFirstNext ==
  ASSUME ConnectAssumption, OneNode, CacheOn, IInv, IInv', Faithful, OnlyTheFirst, [Next]_vars
  PROVE  OnlyTheFirst'
<1>1. node \in Nodes /\ node' \in Nodes
  BY DEF IInv, TypeOK, HandshakeTypeOK
<1>2. node' = node
  BY <1>1 DEF OneNode
<1>3. CASE OnDictionary
  <2>1. Frame.bytes = nodeDict[node] /\ UNCHANGED <<nodeDict, retrains>>
    BY <1>3, ReadOfTheNode DEF OnDictionary, Truthful, peer
  <2>2. cache' = Stored(nodeDict[node])
    BY <1>3, <2>1 DEF OnDictionary
  <2>3. QED
    BY <1>2, <2>1, <2>2, StoredType DEF OnlyTheFirst
<1>4. CASE Retrain
  <2>1. retrains' # 0
    BY <1>4 DEF Retrain, IInv, TypeOK, HandshakeTypeOK
  <2>2. QED
    BY <2>1 DEF OnlyTheFirst
<1>5. ASSUME UNCHANGED <<nodeDict, retrains, cache>>
      PROVE  OnlyTheFirst'
  BY <1>2, <1>5 DEF OnlyTheFirst
<1>6. CASE \/ Open \/ Resolved \/ Opened \/ Written \/ OnChallenge \/ OnHelloAck \/ OnUnexpected
           \/ Disconnected \/ Tick \/ TimedOut \/ UNCHANGED vars
  BY <1>5, <1>6 DEF Open, Dial, Resolved, Opened, Written, OnChallenge, OnHelloAck, OnUnexpected,
                    Disconnected, Tick, TimedOut, Fail, vars, handshake, peer
<1>7. CASE (Arrive \/ OtherEnd) /\ UNCHANGED cache
  BY <1>5, <1>7 DEF Arrive, OtherEnd, Server, ServerChallenges, ServerAcknowledges,
                    ServerSendsDictionary, ServerStreams, ServerRefuses, ServerMisbehaves,
                    ServerCloses, Writes, peer
<1>8. QED
  BY <1>3, <1>4, <1>6, <1>7 DEF Next, Client, RoundAbout

(* One change of the dictionary gives the node one that is new. *)
LEMMA OneChangeIsNovel ==
  ASSUME MaxRetrains \in {0, 1}, OneNode, IInv, OnlyTheFirst, [Next]_vars,
         NEW n \in Nodes, nodeDict'[n] # nodeDict[n]
  PROVE  nodeDict'[n] \notin ToSet(cache)
<1>1. Retrain
  BY DEF Next, Client, RoundAbout, Open, Dial, Resolved, Opened, Written, OnChallenge, OnHelloAck,
         OnDictionary, OnUnexpected, Disconnected, Tick, TimedOut, Fail, OtherEnd, Arrive, Server,
         ServerChallenges, ServerAcknowledges, ServerSendsDictionary, ServerStreams, ServerRefuses,
         ServerMisbehaves, ServerCloses, Writes, vars, handshake, peer
<1>2. retrains = 0
  BY <1>1 DEF Retrain, IInv, TypeOK, HandshakeTypeOK
<1>3. cache \in Seq({nodeDict[n]})
  BY <1>2 DEF OnlyTheFirst, OneNode, IInv, TypeOK, HandshakeTypeOK
<1>4. \A i \in DOMAIN cache : cache[i] = nodeDict[n]
  BY <1>3, ElementOfSeq, LenProperties
<1>5. QED
  BY <1>4 DEF ToSet

(* In particular it is never sent one its cache holds when the node's dictionary is
   changed at most once, to whichever other there is (client.rs:75-76). *)
THEOREM PaidOnceOfOneChange ==
  ASSUME OneNode, CacheOn, Configured = NoDictionary, MaxRetrains \in {0, 1}
  PROVE  Spec => NeverResent
<1> DEFINE Fresh == \A n \in Nodes : nodeDict'[n] # nodeDict[n] => nodeDict'[n] \notin ToSet(cache)
<1>1. Init => OnlyTheFirst
  BY EmptySeq DEF Init, OnlyTheFirst
<1>2. IInv /\ IInv' /\ Faithful /\ OnlyTheFirst /\ [Next]_vars => OnlyTheFirst'
  BY ConnectAssumption, OnlyTheFirstNext
<1>3. IInv /\ OnlyTheFirst /\ [Next]_vars => [Fresh]_vars
  BY OneChangeIsNovel
<1>4. Spec => Novel
  BY <1>1, <1>2, <1>3, Safety, FaithfulAlways, PTL DEF Spec, Novel
<1>5. QED
  BY <1>4, PaidOnce, PTL

=============================================================================
