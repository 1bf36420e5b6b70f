---------------------------- MODULE ExchangeProofs ----------------------------
(***************************************************************************)
(* What holds of Exchange for every set of nodes and dictionaries, every   *)
(* timeout and every behaviour of the peers, whichever SDK connects.       *)
(***************************************************************************)
EXTENDS Exchange, HandshakeProofs

TypeOK ==
  /\ HandshakeTypeOK
  /\ sdk \in Sdks
  /\ due \in BOOLEAN

LEMMA TypeInit == ExchangeAssumption /\ Init => TypeOK
BY TypeIdle DEF ExchangeAssumption, Init, TypeOK

(* What a handler takes from a frame is typed by the log. *)
LEMMA TypeNext == ExchangeAssumption /\ TypeOK /\ [Next]_vars => TypeOK'
<1> SUFFICES ASSUME ExchangeAssumption, TypeOK, [Next]_vars
             PROVE  TypeOK'
  OBVIOUS
<1> USE DEF Live, Await, Reading, Writing
<1>1. HandshakeAssumption /\ HandshakeTypeOK
  BY DEF ExchangeAssumption, TypeOK
<1>2. ASSUME Examined
      PROVE  Ready /\ Frame \in Frames /\ Drained \in 0..arrived
  BY <1>1, <1>2, FrameType DEF Examined, Drained
<1>3. CASE Open
  BY <1>1, <1>3, TypeDial DEF TypeOK, Open
<1>4. CASE Opened
  BY <1>1, <1>4 DEF TypeOK, HandshakeTypeOK, Opened, peer, HandshakeAssumption
<1>5. CASE Written
  BY <1>1, <1>5 DEF TypeOK, HandshakeTypeOK, Written, session, peer
<1>6. CASE OnChallenge
  BY <1>1, <1>2, <1>6 DEF TypeOK, HandshakeTypeOK, OnChallenge, peer
<1>7. CASE OnAnnouncement
  <2>1. Frame.id \in Ids \cup {0}
    BY <1>2, <1>7 DEF OnAnnouncement, Acknowledged, Frames
  <2>2. QED
    BY <1>1, <1>2, <1>7, <2>1 DEF TypeOK, HandshakeTypeOK, OnAnnouncement, LookedAtNow, peer
<1>8. CASE OnHelloAck
  <2>1. Frame.id \in Ids \cup {0} /\ Kept(Frame.id) \in Held
    BY <1>1, <1>2, <1>8 DEF OnHelloAck, Acknowledged, Frames, Kept, HandshakeTypeOK, Held
  <2>2. QED
    BY <1>1, <1>2, <1>8, <2>1 DEF TypeOK, HandshakeTypeOK, OnHelloAck, peer
<1>9. CASE OnDictionary
  <2>1. Frame.bytes \in Held
    BY <1>2, <1>9 DEF OnDictionary, Delivered, Frames, Held
  <2>2. QED
    BY <1>1, <1>2, <1>9, <2>1 DEF TypeOK, HandshakeTypeOK, OnDictionary, peer
<1>10. CASE OnUnexpected \/ Disconnected \/ TimedOut
  BY <1>1, <1>10, TypeFail DEF OnUnexpected, Disconnected, TimedOut, Ends, TypeOK
<1>11. CASE Tick
  BY <1>1, <1>11 DEF TypeOK, HandshakeTypeOK, Tick, peer, HandshakeAssumption
<1>12. CASE Chunk
  <2>1. HandshakeTypeOK'
    BY <1>1, <1>12, TypeArrive, TypeStutter DEF Chunk
  <2>2. QED
    BY <1>12, <2>1 DEF Chunk, TypeOK
<1>13. CASE RoundAbout
  BY <1>1, <1>13, TypeRetrain, TypeOtherEnd DEF RoundAbout, TypeOK
<1>14. CASE UNCHANGED vars
  BY <1>1, <1>14, TypeStutter DEF TypeOK, vars
<1>15. QED
  BY <1>3, <1>4, <1>5, <1>6, <1>7, <1>8, <1>9, <1>10, <1>11, <1>12, <1>13, <1>14
  DEF Next, Client

-----------------------------------------------------------------------------

(* What has been drained, sent and decided at each place of the exchange. *)
Progress ==
  /\ pc \in {"resolving", "hello", "challenge"} => consumed = 0 /\ "Prove" \notin sent
  /\ pc \in {"prove", "ack"} =>
       consumed >= 1 /\ \A i \in 1..consumed : log[i].kind = "Challenge"
  /\ pc = "dictionary" =>
       /\ consumed >= 2
       /\ \A i \in 1..(consumed - 1) : log[i].kind = "Challenge"
       /\ log[consumed].kind = "HelloAck"
  /\ pc \in {"prove", "ack", "dictionary", "streaming"} => "Prove" \in sent
  /\ pc \in Await => ~wasSent
  /\ pc # "opening"

IInv ==
  /\ TypeOK
  /\ ProofsAreMade
  /\ Progress
  /\ NothingDisclosed
  /\ DecoderAgrees
  /\ HandsOver

LEMMA SafetyInit == ExchangeAssumption /\ Init => IInv
<1> SUFFICES ASSUME ExchangeAssumption, Init
             PROVE  IInv
  OBVIOUS
<1>1. TypeOK
  BY TypeInit
<1>2. ProofsAreMade
  BY DEF Init, Idle, ProofsAreMade
<1>3. Progress /\ NothingDisclosed /\ DecoderAgrees /\ HandsOver
  BY DEF Init, Idle, Progress, NothingDisclosed, DecoderAgrees, HandsOver, Await, Reading, Writing
<1>4. QED
  BY <1>1, <1>2, <1>3 DEF IInv

(* A failed attempt keeps what was promised of it: nothing more is sent. *)
LEMMA SafetyEnds == IInv /\ TypeOK' /\ Ends => IInv'
<1> SUFFICES ASSUME IInv, TypeOK', Ends
             PROVE  IInv'
  OBVIOUS
<1>1. ProofsAreMade'
  BY DEF Ends, Fail, ProofsAreMade
<1>2. Progress' /\ DecoderAgrees' /\ HandsOver'
  BY DEF Ends, Fail, Progress, DecoderAgrees, HandsOver, Await, Reading, Writing
<1>3. NothingDisclosed'
  BY DEF IInv, Ends, Fail, NothingDisclosed, Genuine, session
<1>4. QED
  BY <1>1, <1>2, <1>3 DEF IInv

(* Frames and bytes that come disturb nothing that was drained or decided. *)
LEMMA SafetyAround ==
  ASSUME IInv, TypeOK', UNCHANGED <<pc, session, consumed, via>>, ProofsAreMade',
         \A i \in 1..consumed : log'[i] = log[i]
  PROVE  IInv'
<1>1. consumed \in Nat
  BY LenProperties DEF IInv, TypeOK, HandshakeTypeOK
<1>2. Progress'
  BY <1>1 DEF IInv, Progress, session
<1>3. HandsOver'
  BY <1>1 DEF IInv, HandsOver, session
<1>4. NothingDisclosed' /\ DecoderAgrees'
  BY DEF IInv, NothingDisclosed, Genuine, DecoderAgrees, IdOf, session
<1>5. QED
  BY <1>2, <1>3, <1>4 DEF IInv

LEMMA SafetyClient == ExchangeAssumption /\ IInv /\ TypeOK' /\ Client => IInv'
<1> SUFFICES ASSUME ExchangeAssumption, IInv, TypeOK', Client
             PROVE  IInv'
  OBVIOUS
<1> USE DEF Await, Reading, Writing
<1>1. consumed \in Nat /\ Len(log) \in Nat
  BY LenProperties DEF IInv, TypeOK, HandshakeTypeOK
<1>2. CASE Opened
  <2>1. ProofsAreMade'
    BY <1>2, ProofsUnchanged DEF IInv, Opened, peer
  <2>2. Progress' /\ NothingDisclosed' /\ DecoderAgrees' /\ HandsOver'
    BY <1>2 DEF IInv, Opened, Progress, NothingDisclosed, DecoderAgrees, HandsOver, peer
  <2>3. QED
    BY <2>1, <2>2 DEF IInv
<1>3. CASE Written
  <2>1. ProofsAreMade' /\ NothingDisclosed'
    BY <1>3, ProofsUnchanged DEF IInv, Written, NothingDisclosed, Genuine, session, peer
  <2>2. Progress' /\ HandsOver' /\ DecoderAgrees'
    BY <1>3 DEF IInv, Written, Progress, HandsOver, DecoderAgrees, session, peer
  <2>3. QED
    BY <2>1, <2>2 DEF IInv
<1>4. CASE OnChallenge
  <2>1. ProofsAreMade'
    BY <1>4, ProofsUnchanged DEF IInv, OnChallenge, peer
  <2>2. Progress'
    <3>1. \A i \in 1..consumed' : log'[i].kind = "Challenge"
      BY <1>1, <1>4 DEF IInv, OnChallenge, Proving, Progress, Drained, Frame, peer
    <3>2. QED
      BY <1>1, <1>4, <3>1 DEF IInv, OnChallenge, Proving, Progress, Drained, peer
  <2>3. NothingDisclosed'
    <3>1. Genuine
      BY <1>4, VerifiedIsGenuine DEF IInv, TypeOK, OnChallenge, Examined, Proving
    <3>2. QED
      BY <1>4, <3>1 DEF OnChallenge, NothingDisclosed, Genuine, peer
  <2>4. DecoderAgrees' /\ HandsOver'
    BY <1>4 DEF OnChallenge, DecoderAgrees, HandsOver
  <2>5. QED
    BY <2>1, <2>2, <2>3, <2>4 DEF IInv
<1>5. CASE OnAnnouncement
  <2>1. ProofsAreMade' /\ NothingDisclosed'
    BY <1>5, ProofsUnchanged DEF IInv, OnAnnouncement, NothingDisclosed, Genuine, peer
  <2>2. Progress'
    BY <1>1, <1>5 DEF IInv, OnAnnouncement, Acknowledged, Progress, Drained, Frame, peer
  <2>3. DecoderAgrees' /\ HandsOver'
    BY <1>5 DEF OnAnnouncement, DecoderAgrees, HandsOver
  <2>4. QED
    BY <2>1, <2>2, <2>3 DEF IInv
<1>6. CASE OnHelloAck
  <2>1. ProofsAreMade' /\ NothingDisclosed'
    BY <1>6, ProofsUnchanged DEF IInv, OnHelloAck, NothingDisclosed, Genuine, peer
  <2>2. Progress'
    BY <1>6 DEF IInv, OnHelloAck, Acknowledged, Progress, peer
  <2>3. DecoderAgrees'
    BY <1>6 DEF OnHelloAck, DecoderAgrees, Announces, Kept, IdOf
  <2>4. HandsOver'
    BY <1>1, <1>6 DEF IInv, OnHelloAck, Acknowledged, HandsOver, Progress, Drained, Frame, peer
  <2>5. QED
    BY <2>1, <2>2, <2>3, <2>4 DEF IInv
<1>7. CASE OnDictionary
  <2>1. ProofsAreMade' /\ NothingDisclosed'
    BY <1>7, ProofsUnchanged DEF IInv, OnDictionary, NothingDisclosed, Genuine, peer
  <2>2. Progress'
    BY <1>7 DEF IInv, OnDictionary, Delivered, Progress, peer
  <2>3. DecoderAgrees'
    <3>1. Frame.bytes \in Dictionaries
      <4>1. Frame \in Frames
        BY <1>7, FrameType DEF IInv, TypeOK, OnDictionary, Examined
      <4>2. QED
        BY <1>7, <4>1 DEF OnDictionary, Delivered, Frames
    <3>2. QED
      BY <1>7, <3>1 DEF OnDictionary, Delivered, DecoderAgrees, Announced, IdOf,
                        ExchangeAssumption, HandshakeAssumption
  <2>4. HandsOver'
    BY <1>1, <1>7 DEF IInv, OnDictionary, Delivered, HandsOver, Progress, Drained, Frame, peer
  <2>5. QED
    BY <2>1, <2>2, <2>3, <2>4 DEF IInv
<1>8. CASE OnUnexpected \/ Disconnected \/ TimedOut
  BY <1>8, SafetyEnds DEF OnUnexpected, Disconnected, TimedOut
<1>9. CASE Tick
  BY <1>9, ProofsUnchanged DEF IInv, Tick, NothingDisclosed, Genuine, Progress, HandsOver,
                               DecoderAgrees, IdOf, peer
<1>10. QED
  BY <1>2, <1>3, <1>4, <1>5, <1>6, <1>7, <1>8, <1>9 DEF Client

LEMMA SafetyNext == ExchangeAssumption /\ IInv /\ [Next]_vars => IInv'
<1> SUFFICES ASSUME ExchangeAssumption, IInv, [Next]_vars
             PROVE  IInv'
  OBVIOUS
<1>1. TypeOK'
  BY TypeNext DEF IInv
<1>2. CASE Open
  <2>1. ProofsAreMade'
    BY <1>2 DEF Open, Dial, ProofsAreMade
  <2>2. Progress' /\ NothingDisclosed' /\ DecoderAgrees' /\ HandsOver'
    BY <1>2 DEF Open, Dial, Progress, NothingDisclosed, DecoderAgrees, HandsOver
  <2>3. QED
    BY <1>1, <2>1, <2>2 DEF IInv
<1>3. CASE Client
  BY <1>1, <1>3, SafetyClient
<1>4. CASE Chunk
  BY <1>1, <1>4, ProofsUnchanged, SafetyAround DEF Chunk, Arrive, handshake, session, peer, IInv
<1>5. CASE RoundAbout
  <2>1. CASE OtherEnd
    BY <1>1, <2>1, OtherEndKeeps, SafetyAround DEF IInv, TypeOK
  <2>2. CASE Retrain
    BY <1>1, <2>2, ProofsUnchanged, SafetyAround DEF Retrain, IInv
  <2>3. QED
    BY <1>5, <2>1, <2>2 DEF RoundAbout
<1>6. CASE UNCHANGED vars
  BY <1>1, <1>6, ProofsUnchanged, SafetyAround DEF vars, handshake, session, peer, IInv
<1>7. QED
  BY <1>2, <1>3, <1>4, <1>5, <1>6 DEF Next

(* The parts of the inductive invariant hold of every behaviour. *)
LEMMA Safety == Spec => []IInv
<1>1. Init => IInv
  BY ExchangeAssumption, SafetyInit
<1>2. IInv /\ [Next]_vars => IInv'
  BY ExchangeAssumption, SafetyNext
<1>3. QED
  BY <1>1, <1>2, PTL DEF Spec

(* The TypeScript and the Python SDK answer any number of challenges, and prove
   their key only to a peer that has it and, over QUIC, sees the same session
   (client.ts:868-875, client.py:386-403). *)
THEOREM DisclosesOnlyToGenuine == Spec => []NothingDisclosed
BY Safety, PTL DEF IInv

(* They decode with the dictionary that was acknowledged, though the acknowledgement
   and the dictionary are handled in one loop (client.ts:880-914, client.py:405-452). *)
THEOREM DictionaryAgreement == Spec => []DecoderAgrees
BY Safety, PTL DEF IInv

(* No frame past the handshake is taken from the buffer (client.ts:917,
   client.py:376-455). *)
THEOREM HandOver == Spec => []HandsOver
BY Safety, PTL DEF IInv

-----------------------------------------------------------------------------

LEMMA PromiseInit == Init => Promise!Init
BY DEF Init, Idle, Promise!Init, Await, Reading, Writing, Genuine

(* Each step is one of Session's, or none: a challenge answered again discloses
   nothing that was not disclosed before. *)
LEMMA PromiseNext == IInv /\ IInv' /\ [Next]_vars => [Promise!Next]_(Promise!vars)
<1> SUFFICES ASSUME IInv, IInv', [Next]_vars
             PROVE  [Promise!Next]_(Promise!vars)
  OBVIOUS
<1> USE DEF Await, Reading, Writing, Promise!vars
<1>1. ASSUME UNCHANGED <<pc, node, via, sent, ack, decoder>>
      PROVE  UNCHANGED Promise!vars
  BY <1>1 DEF Genuine, IdOf
<1>2. CASE Open
  <2>1. Genuine' \in BOOLEAN
    BY DEF Genuine
  <2>2. Promise!Begin
    <3>1. pc # "connecting"
      BY DEF IInv, TypeOK, HandshakeTypeOK, Live
    <3>2. QED
      BY <1>2, <2>1, <3>1 DEF Open, Dial, Promise!Begin
  <2>3. QED
    BY <2>2 DEF Promise!Next
<1>3. CASE Opened \/ Written
  BY <1>3 DEF IInv, Opened, Written, Progress, Genuine, session, peer
<1>4. CASE OnChallenge
  <2>1. Genuine
    BY <1>4, VerifiedIsGenuine DEF IInv, TypeOK, OnChallenge, Examined, Proving
  <2>2. Promise!Disclose
    BY <1>4, <2>1 DEF OnChallenge, Proving, Promise!Disclose, Genuine, peer
  <2>3. QED
    BY <2>2 DEF Promise!Next
<1>5. CASE OnAnnouncement
  BY <1>5 DEF OnAnnouncement, Acknowledged, Genuine, peer
<1>6. CASE OnHelloAck \/ OnDictionary
  <2>1. ack' \in Ids \cup {0} /\ IdOf(decoder)' = ack'
    BY <1>6 DEF IInv, TypeOK, HandshakeTypeOK, DecoderAgrees, OnHelloAck, OnDictionary
  <2>2. Genuine' = Genuine
    BY <1>6 DEF OnHelloAck, OnDictionary, Genuine, peer
  <2>3. Promise!Agree(ack')
    BY <1>6, <2>1, <2>2
    DEF OnHelloAck, Acknowledged, OnDictionary, Delivered, IInv, Progress, Promise!Agree
  <2>4. QED
    BY <2>1, <2>3 DEF Promise!Next
<1>7. CASE OnUnexpected \/ Disconnected \/ TimedOut
  <2>1. pc \in Await /\ Fail
    BY <1>7 DEF OnUnexpected, Disconnected, TimedOut, Ends, Examined, Ready, Expired, Timed
  <2>2. Promise!Abandon
    BY <2>1 DEF Fail, Promise!Abandon, Genuine, session
  <2>3. QED
    BY <2>2 DEF Promise!Next
<1>8. CASE Chunk \/ Tick \/ UNCHANGED vars
  BY <1>1, <1>8 DEF Chunk, Arrive, Tick, session, peer, vars, handshake
<1>9. CASE RoundAbout
  <2>1. CASE OtherEnd
    BY <1>1, <2>1, OtherEndKeeps DEF IInv, TypeOK, session
  <2>2. CASE Retrain
    BY <1>1, <2>2 DEF Retrain, session
  <2>3. QED
    BY <1>9, <2>1, <2>2 DEF RoundAbout
<1>10. QED
  BY <1>2, <1>3, <1>4, <1>5, <1>6, <1>7, <1>8, <1>9 DEF Next, Client

(* Connecting in TypeScript or Python implements what Session promises, the very
   specification the Rust client implements. *)
THEOREM Implements == Spec => ImplementsSession
<1>1. Spec => []IInv
  BY Safety
<1>2. IInv /\ IInv' /\ [Next]_vars => [Promise!Next]_(Promise!vars)
  BY PromiseNext
<1>3. QED
  BY <1>1, <1>2, PromiseInit, PTL DEF Spec, ImplementsSession, Promise!Spec

-----------------------------------------------------------------------------

(* What TypeScript may have in its buffer and not look at. *)
Unseen ==
  /\ pc = "resolving" => arrived = 0
  /\ sdk = "typescript" =>
       /\ pc \notin Writing
       /\ pc = "challenge" /\ ~due => arrived = 0
       /\ pc = "dictionary" => due
       /\ Correct /\ pc = "ack" /\ ~due /\ consumed < arrived => log[consumed + 1].kind = "Error"

Honesty == Faithful /\ Unseen

(* A challenge that is answered is the first thing a correct node says, and what it
   said behind it, before it had the answer, is that it refuses. *)
LEMMA HonestyChallenge ==
  ASSUME IInv, Honesty, OnChallenge
  PROVE  Honesty'
<1> USE DEF Live, Await, Reading, Writing
<1>1. /\ Ready /\ Frame.kind = "Challenge" /\ pc \in {"challenge", "ack"}
      /\ sent' = sent \cup {"Prove"} /\ consumed' = consumed + 1 /\ due' = FALSE
      /\ pc' = IF sdk = "python" THEN "prove" ELSE "ack"
      /\ UNCHANGED <<arrived, log, node, via, server, nodeDict, sdk>>
  BY DEF OnChallenge, Examined, Proving, Drained, peer
<1>2. Faithful'
  BY <1>1, FaithfulStep DEF Honesty
<1>3. /\ consumed \in Nat /\ arrived \in Nat /\ Len(log) \in Nat
      /\ consumed < arrived /\ arrived <= Len(log)
  BY <1>1, LenProperties DEF IInv, TypeOK, HandshakeTypeOK, Ready
<1>4. ASSUME Correct
      PROVE  pc = "challenge" /\ consumed = 0 /\ "Prove" \notin sent
  <2>1. ~(consumed + 1 > 1)
    <3>1. consumed + 1 \in 1..Len(log) /\ log[consumed + 1].kind = "Challenge"
      BY <1>1, <1>3 DEF Frame
    <3>2. QED
      BY <1>4, <3>1 DEF Honesty, Faithful
  <2>2. consumed = 0
    BY <1>3, <2>1
  <2>3. QED
    BY <1>1, <2>2 DEF IInv, Progress
<1>5. Correct /\ consumed' < arrived => log[consumed' + 1].kind = "Error"
  <2> SUFFICES ASSUME Correct, consumed' < arrived
               PROVE  log[consumed' + 1].kind = "Error"
    OBVIOUS
  <2>1. consumed' + 1 = 2 /\ 2 \in 1..Len(log)
    BY <1>1, <1>3, <1>4
  <2>2. log[2].kind \in {"Challenge", "Error"} /\ log[2].kind # "Challenge"
    BY <1>4, <2>1 DEF Honesty, Faithful
  <2>3. QED
    BY <2>1, <2>2
<1>6. Unseen'
  BY <1>1, <1>5 DEF Unseen, Correct
<1>7. QED
  BY <1>2, <1>6 DEF Honesty

LEMMA HonestyNext ==
  ASSUME ExchangeAssumption, IInv, IInv', Honesty, [Next]_vars
  PROVE  Honesty'
<1> USE DEF Live, Await, Reading, Writing
<1>1. HandshakeTypeOK /\ sdk \in {"typescript", "python"}
  BY DEF IInv, TypeOK, ExchangeAssumption
<1>2. CASE Open
  <2>1. Faithful'
    BY <1>2, FaithfulDial DEF Open
  <2>2. Unseen'
    BY <1>2 DEF Open, Dial, Unseen
  <2>3. QED
    BY <2>1, <2>2 DEF Honesty
<1>3. CASE OnChallenge
  BY <1>3, HonestyChallenge
<1>4. CASE OnUnexpected \/ Disconnected \/ TimedOut
  <2>1. Fail
    BY <1>4 DEF OnUnexpected, Disconnected, TimedOut, Ends
  <2>2. Faithful'
    BY <2>1, FaithfulFail DEF Honesty
  <2>3. Unseen'
    BY <2>1 DEF Fail, Unseen
  <2>4. QED
    BY <2>2, <2>3 DEF Honesty
<1>5. CASE Opened \/ Written \/ OnAnnouncement \/ OnHelloAck \/ OnDictionary \/ Tick
  <2>1. /\ UNCHANGED <<arrived, log, node, via, server, nodeDict, sdk>>
        /\ sent \subseteq sent' /\ pc' \in Live
    BY <1>1, <1>5 DEF IInv, Progress, HandshakeTypeOK, Opened, Written, OnAnnouncement, OnHelloAck,
                      OnDictionary, Tick, Timed, session, peer
  <2>2. Faithful'
    BY <2>1, FaithfulStep DEF Honesty
  <2>3. Unseen'
    <3>1. CASE Opened \/ Written
      BY <1>1, <2>1, <3>1 DEF Honesty, Unseen, Opened, Written
    <3>2. CASE OnAnnouncement
      BY <1>1, <2>1, <3>2 DEF Honesty, Unseen, OnAnnouncement, LookedAtNow
    <3>3. CASE OnHelloAck \/ OnDictionary
      BY <1>1, <2>1, <3>3 DEF Honesty, Unseen, OnHelloAck, OnDictionary
    <3>4. CASE Tick
      BY <1>1, <2>1, <3>4 DEF Honesty, Unseen, Tick, Correct
    <3>5. QED
      BY <1>5, <3>1, <3>2, <3>3, <3>4
  <2>4. QED
    BY <2>2, <2>3 DEF Honesty
<1>6. CASE Chunk
  <2>1. UNCHANGED <<pc, sent, log, node, via, server, nodeDict, sdk>>
    BY <1>6 DEF Chunk, Arrive, handshake, session, peer
  <2>2. Faithful'
    BY <2>1, FaithfulStep DEF Honesty
  <2>3. due' = (sdk = "typescript") /\ pc # "resolving"
    BY <1>6 DEF Chunk, Arrive
  <2>4. Unseen'
    BY <2>1, <2>3 DEF Honesty, Unseen
  <2>5. QED
    BY <2>2, <2>4 DEF Honesty
<1>7. CASE RoundAbout /\ OtherEnd
  <2>1. Faithful'
    BY <1>1, <1>7, FaithfulOtherEnd DEF Honesty
  <2>2. /\ \A i \in 1..Len(log) : log'[i] = log[i]
        /\ UNCHANGED <<pc, arrived, consumed, node, via>>
    <3>1. CASE ServerCloses
      BY <1>7, <3>1 DEF ServerCloses, OtherEnd
    <3>2. CASE ~ServerCloses
      BY <1>1, <1>7, <3>2, OtherEndAppends
    <3>3. QED
      BY <3>1, <3>2
  <2>3. consumed < arrived => consumed + 1 \in 1..Len(log)
    BY <1>1, LenProperties DEF HandshakeTypeOK
  <2>4. Unseen'
    BY <1>7, <2>2, <2>3 DEF RoundAbout, Honesty, Unseen, Correct
  <2>5. QED
    BY <2>1, <2>4 DEF Honesty
<1>8. CASE RoundAbout /\ Retrain
  <2>1. Faithful'
    BY <1>1, <1>8, FaithfulRetrain DEF Honesty
  <2>2. UNCHANGED <<pc, arrived, consumed, node, via, log, sdk, due>>
    BY <1>8 DEF RoundAbout, Retrain
  <2>3. Unseen'
    BY <2>2 DEF Honesty, Unseen, Correct
  <2>4. QED
    BY <2>1, <2>3 DEF Honesty
<1>9. CASE UNCHANGED vars
  <2>1. UNCHANGED <<pc, sent, arrived, consumed, log, node, via, server, nodeDict, sdk, due>>
    BY <1>9 DEF vars, handshake, session, peer
  <2>2. Faithful'
    BY <2>1, FaithfulStep DEF Honesty
  <2>3. Unseen'
    BY <2>1 DEF Honesty, Unseen, Correct
  <2>4. QED
    BY <2>2, <2>3 DEF Honesty
<1>10. QED
  BY <1>2, <1>3, <1>4, <1>5, <1>6, <1>7, <1>8, <1>9 DEF Next, Client, RoundAbout

LEMMA HonestyHolds == Spec => []Honesty
<1>1. Init => Honesty
  BY FaithfulIdle DEF Init, Idle, Honesty, Unseen, Writing
<1>2. IInv /\ IInv' /\ Honesty /\ [Next]_vars => Honesty'
  BY ExchangeAssumption, HonestyNext
<1>3. QED
  BY <1>1, <1>2, Safety, PTL DEF Spec

(* A frame TypeScript has and does not look at came with a Challenge, and of a node
   that keeps to the protocol it is a refusal, whatever else the chunk brought
   (client.ts:918-932). *)
THEOREM Strands == Spec => []StrandsOnlyRefusals
<1>1. IInv /\ Honesty => StrandsOnlyRefusals
  <2> SUFFICES ASSUME IInv, Honesty, Ready, sdk = "typescript", ~due
               PROVE  /\ log[consumed].kind = "Challenge"
                      /\ Correct => Frame.kind = "Error"
    BY DEF StrandsOnlyRefusals, Correct
  <2>1. pc = "ack" /\ consumed < arrived
    BY DEF Ready, Reading, Honesty, Unseen, IInv, TypeOK, HandshakeTypeOK
  <2>2. log[consumed].kind = "Challenge"
    BY <2>1 DEF IInv, Progress, TypeOK, HandshakeTypeOK
  <2>3. QED
    BY <2>1, <2>2 DEF Honesty, Unseen, Frame
<1>2. QED
  BY <1>1, Safety, HonestyHolds, PTL

-----------------------------------------------------------------------------

LEMMA DecodesNext ==
  ASSUME ExchangeAssumption, NoCollision, IInv, IInv', Honesty, DecodesWhatNodeSends, [Next]_vars
  PROVE  DecodesWhatNodeSends'
<1> USE DEF Live, Await, Reading, Writing
<1>1. HandshakeAssumption /\ HandshakeTypeOK
  BY DEF ExchangeAssumption, IInv, TypeOK
<1>2. ASSUME Ready, Correct
      PROVE  Truthful(Frame)
  BY <1>1, <1>2, FrameType DEF Honesty, Faithful, Frame
<1>3. CASE OnHelloAck
  <2>1. Correct => decoder' = nodeDict[node]
    <3> SUFFICES ASSUME Correct
                 PROVE  decoder' = nodeDict[node]
      OBVIOUS
    <3>1. Frame.id = IdOf(nodeDict[node])
      BY <1>2, <1>3 DEF OnHelloAck, Examined, Acknowledged, Truthful
    <3>2. decoder' = Kept(Frame.id) /\ (Frame.id = 0 \/ Frame.id = IdOf(held))
      BY <1>3 DEF OnHelloAck, Announces
    <3>3. Kept(Frame.id) # NoDictionary \/ Frame.id = 0
      BY <3>2 DEF Kept, IdOf
    <3>4. QED
      BY <1>1, <3>1, <3>2, <3>3, KeptIsNodes
  <2>2. QED
    BY <1>3, <2>1 DEF OnHelloAck, DecodesWhatNodeSends, Correct, peer
<1>4. CASE OnDictionary
  <2>1. Correct => decoder' = nodeDict[node]
    BY <1>2, <1>4 DEF OnDictionary, Examined, Delivered, Truthful
  <2>2. QED
    BY <1>4, <2>1 DEF OnDictionary, DecodesWhatNodeSends, Correct, peer
<1>5. CASE Retrain
  <2>1. pc \in Live => nodeDict'[node] = nodeDict[node]
    BY <1>1, <1>5, FaithfulRetrain DEF Honesty
  <2>2. UNCHANGED <<pc, decoder, node, via>>
    BY <1>5 DEF Retrain, session
  <2>3. QED
    BY <2>1, <2>2 DEF DecodesWhatNodeSends
<1>6. CASE OtherEnd
  BY <1>6 DEF OtherEnd, Server, ServerChallenges, ServerAcknowledges, ServerSendsDictionary,
              ServerStreams, ServerRefuses, ServerMisbehaves, ServerCloses, Writes, session,
              DecodesWhatNodeSends
<1>7. CASE Chunk \/ UNCHANGED vars
  BY <1>7 DEF Chunk, Arrive, vars, handshake, session, peer, DecodesWhatNodeSends
<1>8. CASE Open \/ Opened \/ Written \/ OnChallenge \/ OnAnnouncement \/ Tick
           \/ OnUnexpected \/ Disconnected \/ TimedOut
  <2>1. pc' # "streaming"
    BY <1>8 DEF Open, Dial, Opened, Written, OnChallenge, OnAnnouncement, Tick, Timed,
                OnUnexpected, Disconnected, TimedOut, Ends, Fail
  <2>2. QED
    BY <2>1 DEF DecodesWhatNodeSends
<1>9. QED
  BY <1>3, <1>4, <1>5, <1>6, <1>7, <1>8 DEF Next, Client, RoundAbout

(* Where the ids tell the dictionaries apart, the other two SDKs decode with the
   dictionary a node that keeps to the protocol compresses with
   (client.ts:880-914, client.py:405-452). *)
THEOREM DecodesAsEncoded ==
  ASSUME NoCollision
  PROVE  Spec => []DecodesWhatNodeSends
<1>1. Init => DecodesWhatNodeSends
  BY DEF Init, Idle, DecodesWhatNodeSends
<1>2. IInv /\ IInv' /\ Honesty /\ DecodesWhatNodeSends /\ [Next]_vars => DecodesWhatNodeSends'
  BY ExchangeAssumption, DecodesNext
<1>3. QED
  BY <1>1, <1>2, Safety, HonestyHolds, PTL DEF Spec

=============================================================================
