------------------------------- MODULE MCService -------------------------------
(* The control service from four sides: its clients, who publish copies of one
   document that others have edited; the plan that leads the mixer from one
   document to the next; the cache of outcomes, for requests that are sent again;
   and the listener that a publish configures while it serves.  They share no
   state, and a behaviour is of one of them.                                  *)
EXTENDS MCControlService, MCSessionReconcile, RequestDedupe, MCWebListener

VARIABLE part

planVars == <<reconcileVars, installation>>

ServiceInit ==
    /\ part \in {"publish", "plan", "cache", "listener"}
    /\ Init /\ MCInit /\ DedupeInit /\ WebInit
    /\ part # "plan" => installation = "outlets"

\* The clock of the cache and the listener may rest; the worker of the listener
\* may also wait for good (JoinsWithFreeHands).
ServiceNext ==
    \/ part = "publish" /\ Next /\ UNCHANGED <<planVars, dedupeVars, webVars, part>>
    \/ part = "plan" /\ MCNext /\ UNCHANGED <<vars, dedupeVars, webVars, part>>
    \/ part = "cache" /\ DedupeNext /\ UNCHANGED <<vars, planVars, webVars, part>>
    \/ part = "listener" /\ WebNext /\ UNCHANGED <<vars, planVars, dedupeVars, part>>
    \/ part \in {"cache", "listener"} /\ UNCHANGED <<vars, planVars, dedupeVars, webVars, part>>

ServiceSpec == ServiceInit /\ [][ServiceNext]_<<vars, planVars, dedupeVars, webVars, part>>
=============================================================================
