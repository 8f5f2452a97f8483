----------------------------- MODULE MCEventBus -----------------------------
(***************************************************************************)
(* Three handlers of one type with two priorities, so that a registration  *)
(* can fall before, between and after the others, a handler of another     *)
(* type, an event of each type, whose handling overlaps, and up to two     *)
(* middlewares around them.                                                *)
(***************************************************************************)
EXTENDS EventBus

MCHandler == {"low", "mid", "high", "mail"}
MCEvent == {"task", "user"}
MCEventType == {"TaskCreated", "UserRegistered"}
MCTypeOf == [o \in MCHandler \cup MCEvent |->
               IF o \in {"mail", "user"} THEN "UserRegistered" ELSE "TaskCreated"]
MCPriority == [h \in MCHandler |-> IF h = "high" THEN 5 ELSE 0]
=============================================================================
