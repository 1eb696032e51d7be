----------------------------- MODULE MCPlatform ------------------------------
(* Small instances of what the agents stand on: memory items, identities and  *)
(* the process manager. A behaviour moves the part in focus and leaves the    *)
(* others as they began. Only the two memory items are interchangeable: their *)
(* permutations leave every other part alone.                                 *)
EXTENDS MemoryStore, Identity, Manager, TLC

CONSTANTS m1, m2, c, w1
VARIABLE focus

MCBodyOf == [m \in Items |-> m]
InterchangeableItems == Permutations(Items)

-----------------------------------------------------------------------------

PlatformInit ==
  /\ focus \in {"memory", "identity", "manager"}
  /\ MemoryInit /\ IdentityInit /\ ManagerInit
  /\ focus # "memory" => realm = "customer"

PlatformNext ==
  \/ /\ focus = "memory" /\ MemoryNext
     /\ UNCHANGED <<identityVars, managerVars, focus>>
  \/ /\ focus = "identity" /\ IdentityNext
     /\ UNCHANGED <<vars, managerVars, focus>>
  \/ /\ focus = "manager" /\ ManagerNext
     /\ UNCHANGED <<vars, identityVars, focus>>

platformVars == <<vars, identityVars, managerVars, focus>>

PlatformSpec == PlatformInit /\ [][PlatformNext]_platformVars
=============================================================================
