------------------------------ MODULE MCConnect ------------------------------
(* Connect on small instances: two dictionaries, one or two nodes. *)
EXTENDS Connect

CONSTANTS d1, d2, n1, n2

MCDictionaryId == (d1 :> 1) @@ (d2 :> 2)

=============================================================================
