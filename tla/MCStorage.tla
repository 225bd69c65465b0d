------------------------------ MODULE MCStorage ------------------------------
(* The chunk registry, the thin pool and its extent map, the copy-on-write    *)
(* blocks, the healer of shards and the connection pool on small instances.   *)
(* They share no state, so a behaviour is one of one of them.                 *)
EXTENDS ChunkRegistry, ThinPool, ExtentMap, CowBlocks, ConnectionPool, MCHealer, TLC

VARIABLE part

Parts == {"registry", "pool", "extents", "blocks", "connections", "healer"}

Init ==
  /\ part \in Parts
  /\ RegistryInit /\ PoolInit /\ ExtentInit /\ CowInit /\ ConnectionInit /\ HealerInit

Registry    == /\ part = "registry" /\ RegistryNext
               /\ UNCHANGED <<poolVars, extentVars, cowVars, connVars, healerVars>>
Pool        == /\ part = "pool" /\ PoolNext
               /\ UNCHANGED <<registryVars, extentVars, cowVars, connVars, healerVars>>
Extents     == /\ part = "extents" /\ ExtentNext
               /\ UNCHANGED <<registryVars, poolVars, cowVars, connVars, healerVars>>
Blocks      == /\ part = "blocks" /\ CowNext
               /\ UNCHANGED <<registryVars, poolVars, extentVars, connVars, healerVars>>
Connections == /\ part = "connections" /\ ConnectionNext
               /\ UNCHANGED <<registryVars, poolVars, extentVars, cowVars, healerVars>>
Healing     == /\ part = "healer" /\ HealerNext
               /\ UNCHANGED <<registryVars, poolVars, extentVars, cowVars, connVars>>

Next == /\ Registry \/ Pool \/ Extents \/ Blocks \/ Connections \/ Healing
        /\ UNCHANGED part
Spec == Init /\ [][Next]_<<part, registryVars, poolVars, extentVars, cowVars, connVars, healerVars>>

\* The healer's workers and the tasks of the pool are the same threads.
Symmetric == Permutations(Threads) \cup Permutations(Chunks) \cup Permutations(Versions)
=============================================================================
