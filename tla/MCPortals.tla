------------------------------ MODULE MCPortals ------------------------------
(* Small instances of what people talk through: the portal of a customer and  *)
(* the conversations of the staff. A behaviour moves the part in focus and    *)
(* leaves the other as it began.                                              *)
EXTENDS CustomerPortal, Conversations, TLC

CONSTANTS c1, c2, r1, r2, r3, s1
VARIABLE focus

MCConversationOf == (r1 :> c1) @@ (r2 :> c1) @@ (r3 :> c2)
MCMaxVersion == (c1 :> 1) @@ (c2 :> 2)

-----------------------------------------------------------------------------

PortalsInit ==
  /\ focus \in {"portal", "conversations"}
  /\ PortalInit /\ ChatInit
  /\ focus # "portal" => backend = "local"
  /\ focus # "conversations" => inMySQL

PortalsNext ==
  \/ /\ focus = "portal" /\ PortalNext
     /\ UNCHANGED <<chatVars, focus>>
  \/ /\ focus = "conversations" /\ ChatNext
     /\ UNCHANGED <<portalVars, focus>>

portalsVars == <<portalVars, chatVars, focus>>

\* The fairness of PortalSpec.
PortalsFairness ==
  /\ WF_portalVars(focus = "portal" /\ LoopStep)
  /\ SF_portalVars(focus = "portal" /\ DispatchStep)
  /\ \A r \in Requests : WF_portalVars(
       focus = "portal" /\ \E m \in inbound : m.request = r /\ (Answer(m, "reply") \/ Answer(m, "event")))

PortalsSpec == PortalsInit /\ [][PortalsNext]_portalsVars /\ PortalsFairness
=============================================================================
