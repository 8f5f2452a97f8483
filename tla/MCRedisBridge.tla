--------------------------- MODULE MCRedisBridge ----------------------------
(***************************************************************************)
(* The two processes of the repository, api and notifications.  The api    *)
(* publishes two events, in every mode (in mode "both" it receives them    *)
(* too), with an @EventHandler for them or without; notifications has one  *)
(* and listens, or is misconfigured as a publisher.                        *)
(***************************************************************************)
EXTENDS RedisBridge

MCProcess == {"api", "notifications"}
MCEvent == {"created", "completed"}
MCTypeOf == [e \in MCEvent |-> "TaskEvent"]
MCSource == [e \in MCEvent |-> "api"]
MCDeployments ==
  [mode : {m \in [MCProcess -> Modes] : m["notifications"] # "both"},
   decorated : {d \in [MCProcess -> SUBSET {"TaskEvent"}] : d["notifications"] # {}}]
=============================================================================
