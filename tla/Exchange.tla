------------------------------- MODULE Exchange -------------------------------
(***************************************************************************)
(* How the TypeScript and the Python SDK connect.  Unlike the Rust one,    *)
(* which awaits one frame after the other, each handles whatever frame     *)
(* comes in one loop, under one timeout for the whole exchange, and        *)
(* answers every challenge it is sent until the acknowledgement.  Python   *)
(* reads frames itself; TypeScript is called with each chunk, and looks at *)
(* the frame in front only then.                                           *)
(***************************************************************************)
EXTENDS Handshake

CONSTANTS
  Sdks,       \* which of "typescript" and "python" connect
  MaxFrames   \* bound: frames the other end writes, as challenges may go on for ever

ASSUME ExchangeAssumption ==
  /\ HandshakeAssumption
  /\ Sdks \subseteq {"typescript", "python"}
  /\ MaxFrames \in Nat

VARIABLES
  sdk,        \* the one that connects
  due         \* TypeScript: bytes came that were not looked at

vars == <<handshake, sdk, due>>

-----------------------------------------------------------------------------

Init ==
  /\ Idle
  /\ sdk \in Sdks
  /\ due = FALSE

Open ==
  /\ Dial
  /\ sdk' \in Sdks
  /\ due' = FALSE

(* The transport is up, and Hello offers what the options or the cache hold.  Only
   Python waits for it to be written, before its deadline begins. *)
Opened ==
  /\ pc = "resolving"
  /\ held' \in Held
  /\ sent' = {"Hello"}
  /\ waited' = 0
  /\ pc' = IF sdk = "python" THEN "hello" ELSE "challenge"
  /\ UNCHANGED <<ack, decoder, wasSent, arrived, consumed, peer, sdk, due>>

Written ==
  /\ pc \in Writing
  /\ pc' = IF pc = "hello" THEN "challenge" ELSE "ack"
  /\ UNCHANGED <<session, arrived, consumed, peer, sdk, due>>

(* A chunk: frames, or part of one. *)
Chunk ==
  /\ \/ Arrive
     \/ /\ pc \in Reading
        /\ arrived < Len(log)
        /\ UNCHANGED handshake
  /\ due' = (sdk = "typescript")
  /\ UNCHANGED sdk

Examined == Ready /\ (sdk = "typescript" => due)

Proving == pc \in {"challenge", "ack"} /\ Frame.kind = "Challenge" /\ VerifyServer(Frame.proof)

(* The acknowledgement counts once the server has proved itself.  The version in it
   is not looked at. *)
Acknowledged == pc = "ack" /\ Frame.kind = "HelloAck"

(* It names a dictionary this side does not hold. *)
Announces == Frame.id # 0 /\ Frame.id # IdOf(held)

Delivered == pc = "dictionary" /\ Frame.kind = "Dictionary" /\ Announced(Frame)

(* The codec is compared when the exchange is over: of this frame, or of the
   acknowledgement before it. *)
Compressed == IF pc = "dictionary" THEN log[consumed].zstd ELSE Frame.zstd

(* The proof is written behind the verification, each time. *)
OnChallenge ==
  /\ Examined
  /\ Proving
  /\ sent' = sent \cup {"Prove"}
  /\ pc' = IF sdk = "python" THEN "prove" ELSE "ack"
  /\ consumed' = Drained
  /\ due' = FALSE
  /\ UNCHANGED <<waited, held, ack, decoder, wasSent, arrived, peer, sdk>>

LookedAtLater == FALSE    \* mutant: what came with the acknowledgement waits for a chunk

LookedAtNow == TRUE

(* KEEP_READING: one more frame is on its way, or here already. *)
OnAnnouncement ==
  /\ Examined
  /\ Acknowledged
  /\ Announces
  /\ ack' = Frame.id
  /\ pc' = "dictionary"
  /\ consumed' = Drained
  /\ due' = (sdk = "typescript" /\ LookedAtNow)
  /\ UNCHANGED <<waited, held, decoder, wasSent, sent, arrived, peer, sdk>>

OnHelloAck ==
  /\ Examined
  /\ Acknowledged
  /\ ~Announces
  /\ Compressed
  /\ ack' = Frame.id
  /\ decoder' = Kept(Frame.id)
  /\ pc' = "streaming"
  /\ consumed' = Drained
  /\ due' = FALSE
  /\ UNCHANGED <<waited, held, wasSent, sent, arrived, peer, sdk>>

OnDictionary ==
  /\ Examined
  /\ Delivered
  /\ Compressed
  /\ decoder' = Frame.bytes
  /\ wasSent' = TRUE
  /\ pc' = "streaming"
  /\ consumed' = Drained
  /\ due' = FALSE
  /\ UNCHANGED <<waited, held, ack, sent, arrived, peer, sdk>>

Ends ==
  /\ Fail
  /\ due' = FALSE
  /\ UNCHANGED sdk

(* Whatever else comes, an Error among it, ends the attempt. *)
OnUnexpected ==
  /\ Examined
  /\ ~Proving
  /\ ~(Acknowledged /\ (Announces \/ Compressed))
  /\ ~(Delivered /\ Compressed)
  /\ Ends

(* There is no transport, or it takes no frame, or the node is done: Python comes to
   that when it has read what there was, TypeScript is told at once. *)
Disconnected ==
  /\ \/ pc \in {"resolving"} \cup Writing
     \/ /\ pc \in Reading
        /\ server = "closed"
        /\ IF sdk = "python" THEN consumed = arrived ELSE ~due
  /\ Ends

Timed == {"resolving", "prove"} \cup Reading

Tick ==
  /\ pc \in Timed
  /\ waited < ConnectTimeout
  /\ waited' = waited + 1
  /\ UNCHANGED <<pc, held, ack, decoder, wasSent, sent, arrived, consumed, peer, sdk, due>>

(* Mutant: the timer is cleared with the acknowledgement. *)
ExpiredBeforeDictionary == pc \in Timed \ {"prove", "dictionary"} /\ waited = ConnectTimeout

(* Python looks at its deadline before it reads, and while it does. *)
Expired == pc \in Timed \ {"prove"} /\ waited = ConnectTimeout

TimedOut ==
  /\ Expired
  /\ Ends

Client ==
  \/ Opened \/ Written \/ OnChallenge \/ OnAnnouncement \/ OnHelloAck \/ OnDictionary
  \/ OnUnexpected \/ Disconnected \/ Tick \/ TimedOut

(* What happens around the client. *)
RoundAbout ==
  /\ OtherEnd \/ Retrain
  /\ Len(log') <= MaxFrames
  /\ UNCHANGED <<sdk, due>>

Next == Open \/ Client \/ Chunk \/ RoundAbout

Spec == Init /\ [][Next]_vars

(* The timer fires, and the transport takes a frame of a few hundred bytes. *)
FairSpec == Spec /\ WF_vars(Tick) /\ WF_vars(TimedOut) /\ WF_vars(Written)

-----------------------------------------------------------------------------
(* Properties, besides those of Handshake *)

(* The frames taken when a connection streams are challenges, at least one, the
   acknowledgement, and the dictionary if it was sent: what came in the same chunk
   is handed to the event loop (client.ts:917, client.py:376-455). *)
HandsOver ==
  pc = "streaming" =>
    LET last == IF wasSent THEN consumed - 1 ELSE consumed IN
    /\ last >= 2
    /\ \A i \in 1..(last - 1) : log[i].kind = "Challenge"
    /\ log[last].kind = "HelloAck"
    /\ wasSent => log[consumed].kind = "Dictionary"

(* The one frame TypeScript may leave in its buffer unseen, until a chunk comes or
   the timer fires, is one that came with a Challenge.  A node that keeps to the
   protocol has nothing to say there but that it refuses (client.ts:918-932). *)
StrandsOnlyRefusals ==
  Ready /\ sdk = "typescript" /\ ~due =>
    /\ log[consumed].kind = "Challenge"
    /\ node \notin Faulty /\ via # "impostor" => Frame.kind = "Error"

=============================================================================
