------------------------------- MODULE Connect -------------------------------
(***************************************************************************)
(* Client::connect of the Rust SDK: the transport is opened, the two ends  *)
(* prove the key to each other, the dictionary is settled, and what the    *)
(* node already sent past the handshake is left for the event loop.  Each  *)
(* wait for the node has a timeout of its own; resolving and writing have  *)
(* none.  The connections follow one another, as those of a subscriber     *)
(* that reconnects, and share the dictionary cache.                        *)
(***************************************************************************)
EXTENDS Handshake

CONSTANTS
  Configured,       \* Config::dictionary
  CacheOn,          \* whether Config::dictionary_cache is set and writable
  Keep              \* how many dictionaries the cache keeps

ASSUME ConnectAssumption ==
  /\ HandshakeAssumption
  /\ Configured \in Held
  /\ CacheOn \in BOOLEAN
  /\ Keep \in Nat \ {0}

VARIABLES
  cache       \* dictionaries in the cache, most recently used first

vars == <<handshake, cache>>

-----------------------------------------------------------------------------

(* What DictionaryCache::store leaves, after its touch and its prune. *)
Others(d) ==
  IF d \in ToSet(cache)
  THEN RemoveAt(cache, CHOOSE i \in DOMAIN cache : cache[i] = d)
  ELSE cache

Recent(d) == SubSeq(Others(d), 1, IF Len(Others(d)) < Keep THEN Len(Others(d)) ELSE Keep - 1)

StoredUntouched(d) == Append(Recent(d), d)    \* mutant: store does not touch

Stored(d) == <<d>> \o Recent(d)

(* What connect offers: the configured dictionary, else DictionaryCache::newest. *)
Offered ==
  IF Configured # NoDictionary THEN Configured
  ELSE IF CacheOn /\ cache # <<>> THEN Head(cache)
  ELSE NoDictionary

-----------------------------------------------------------------------------

Init ==
  /\ Idle
  /\ cache = <<>>

Open ==
  /\ Dial
  /\ UNCHANGED cache

Resolved ==
  /\ pc = "resolving"
  /\ pc' = "opening"
  /\ UNCHANGED <<session, cache, arrived, consumed, peer>>

(* The transport is up: the offer is chosen, and Hello begins to be written. *)
Opened ==
  /\ pc = "opening"
  /\ pc' = "hello"
  /\ held' = Offered
  /\ sent' = {"Hello"}
  /\ waited' = 0
  /\ UNCHANGED <<ack, decoder, wasSent, cache, arrived, consumed, peer>>

(* write_all returns, and the timeout on the reply begins. *)
Written ==
  /\ pc \in Writing
  /\ pc' = IF pc = "hello" THEN "challenge" ELSE "ack"
  /\ UNCHANGED <<session, cache, arrived, consumed, peer>>

(* The server's proof is verified before this client's own is written. *)
OnChallenge ==
  /\ Ready
  /\ pc = "challenge"
  /\ Frame.kind = "Challenge"
  /\ VerifyServer(Frame.proof)
  /\ pc' = "prove"
  /\ sent' = sent \cup {"Prove"}
  /\ consumed' = Drained
  /\ waited' = 0
  /\ UNCHANGED <<held, ack, decoder, wasSent, cache, arrived, peer>>

OnHelloAck ==
  /\ Ready
  /\ pc = "ack"
  /\ Frame.kind = "HelloAck"
  /\ Frame.current /\ Frame.zstd
  /\ ack' = Frame.id
  /\ decoder' = Kept(Frame.id)
  /\ pc' = IF decoder' = NoDictionary /\ ack' # 0 THEN "dictionary" ELSE "streaming"
  /\ consumed' = Drained
  /\ waited' = 0
  /\ UNCHANGED <<held, wasSent, cache, sent, arrived, peer>>

OnDictionary ==
  /\ Ready
  /\ pc = "dictionary"
  /\ Frame.kind = "Dictionary"
  /\ Announced(Frame)
  /\ pc' = "streaming"
  /\ decoder' = Frame.bytes
  /\ wasSent' = TRUE
  /\ cache' = IF CacheOn THEN Stored(Frame.bytes) ELSE cache
  /\ consumed' = Drained
  /\ UNCHANGED <<waited, held, ack, sent, arrived, peer>>

(* Any other frame ends the attempt, an Error frame as an error of the server's. *)
OnUnexpected ==
  /\ Ready
  /\ ~ \/ /\ pc = "challenge"
          /\ Frame.kind = "Challenge"
          /\ VerifyServer(Frame.proof)
       \/ /\ pc = "ack"
          /\ Frame.kind = "HelloAck"
          /\ Frame.current /\ Frame.zstd
       \/ /\ pc = "dictionary"
          /\ Frame.kind = "Dictionary"
          /\ Announced(Frame)
  /\ Fail
  /\ UNCHANGED cache

(* There is no such host, no transport, or no room, or the connection ends before
   the awaited frame is whole, with whatever had not arrived. *)
Disconnected ==
  /\ \/ pc \in {"resolving", "opening"} \cup Writing
     \/ pc \in Reading /\ server = "closed" /\ consumed = arrived
  /\ Fail
  /\ UNCHANGED cache

(* The waits that tokio::time::timeout bounds. *)
Timed == {"opening"} \cup Reading

Running == pc \in Timed /\ waited < ConnectTimeout

Tick ==
  /\ Running
  /\ waited' = waited + 1
  /\ UNCHANGED <<pc, held, ack, decoder, wasSent, cache, sent, consumed, arrived, peer>>

(* Mutant: the dictionary is awaited without a timeout. *)
ExpiredBeforeDictionary == pc \in Timed \ {"dictionary"} /\ waited = ConnectTimeout

Expired == pc \in Timed /\ waited = ConnectTimeout

TimedOut ==
  /\ Expired
  /\ Fail
  /\ UNCHANGED cache

-----------------------------------------------------------------------------

Client ==
  \/ Resolved \/ Opened \/ Written \/ OnChallenge \/ OnHelloAck \/ OnDictionary \/ OnUnexpected
  \/ Disconnected \/ Tick \/ TimedOut

(* What happens around the client. *)
RoundAbout ==
  /\ Arrive \/ OtherEnd \/ Retrain
  /\ UNCHANGED cache

Next == Open \/ Client \/ RoundAbout

Spec == Init /\ [][Next]_vars

(* The runtime's timer fires, the resolver answers, and the transport takes a frame
   of a few hundred bytes: nothing is assumed of the node or of what it sends. *)
FairSpec ==
  Spec /\ WF_vars(Tick) /\ WF_vars(TimedOut) /\ WF_vars(Resolved) /\ WF_vars(Written)

-----------------------------------------------------------------------------
(* Properties *)

(* Every variable stays in its range, and nothing is drained before it arrived. *)
TypeOK ==
  /\ HandshakeTypeOK
  /\ cache \in Seq(Dictionaries)

(* The frames drained when the event loop takes over are the handshake's and no
   other: frames that came in the same read are still in pending. *)
HandsOver ==
  pc = "streaming" =>
    /\ consumed = IF wasSent THEN 3 ELSE 2
    /\ log[1].kind = "Challenge"
    /\ log[2].kind = "HelloAck"
    /\ wasSent => log[3].kind = "Dictionary"

(* A dictionary the cache holds is not sent again: "the megabyte a node sends is
   paid once ever rather than once per connection" (client.rs:75-76). *)
NeverResent ==
  [][pc = "dictionary" /\ pc' = "streaming" => decoder' \notin ToSet(cache)]_vars

=============================================================================
