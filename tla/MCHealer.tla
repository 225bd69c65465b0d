------------------------------ MODULE MCHealer ------------------------------
(* The healer with one shard in the local domain and the others elsewhere. *)
EXTENDS Healer

OneLocal ==
  LET first == CHOOSE s \in Shards : TRUE
      other == CHOOSE d \in Domains : d # LocalDomain
  IN  [s \in Shards |-> IF s = first THEN LocalDomain ELSE other]
=============================================================================
