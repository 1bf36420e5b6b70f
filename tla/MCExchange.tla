------------------------------ MODULE MCExchange ------------------------------
(* Exchange on a small instance: two dictionaries, and a node that may misbehave. *)
EXTENDS Exchange

CONSTANTS d1, d2, n1, n2

MCDictionaryId == (d1 :> 1) @@ (d2 :> 2)

(* Both nodes begin with the same dictionary, which loses no connection: each is to
   one of them. *)
MCInit == Init /\ nodeDict[n1] = nodeDict[n2]

MCSpec == MCInit /\ [][Next]_vars /\ WF_vars(Tick) /\ WF_vars(TimedOut) /\ WF_vars(Written)

=============================================================================
