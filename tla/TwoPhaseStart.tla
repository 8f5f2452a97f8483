---------------------------- MODULE TwoPhaseStart ----------------------------
(***************************************************************************)
(* What a start of an application out of plugins promises, whatever the    *)
(* order in which it takes them.  Every plugin is registered, and then     *)
(* every plugin is loaded; in each of the two phases a plugin comes once   *)
(* and behind those it needs.  The start ends in the first failure of a    *)
(* plugin that may not fail; it fails for no other reason, unless no order *)
(* of the plugins exists.                                                  *)
(***************************************************************************)
CONSTANT Name

VARIABLES
  stage,        \* "idle", "starting", "ready" or "failed"
  wanted,       \* the plugins of this start
  needs,        \* needs[n]: the plugins that come before n
  mayFail,      \* the plugins whose failure the start survives
  done,         \* done[ph]: the plugins that phase ph is through with
  failures      \* the plugins that failed in either phase

vars == <<stage, wanted, needs, mayFail, done, failures>>

Phase == {"register", "load"}

Orderable ==
  /\ \A n \in wanted : needs[n] \subseteq wanted
  /\ \A S \in SUBSET wanted : S # {} => \E n \in S : needs[n] \cap S = {}
-----------------------------------------------------------------------------

Begin ==
  /\ stage # "starting"
  /\ stage' = "starting"
  /\ wanted' \in SUBSET Name
  /\ needs' \in [Name -> SUBSET Name]
  /\ mayFail' \in SUBSET wanted'
  /\ done' = [ph \in Phase |-> {}]
  /\ failures' = {}

\* It is the turn of n in the phase.
Due(n, ph) ==
  /\ stage = "starting"
  /\ n \in wanted \ done[ph]
  /\ needs[n] \subseteq done[ph]
  /\ ph = "load" => done["register"] = wanted

Passes(n, ph) ==
  /\ done' = [done EXCEPT ![ph] = @ \cup {n}]
  /\ UNCHANGED stage

Succeeds(n, ph) ==
  /\ Due(n, ph)
  /\ Passes(n, ph)
  /\ UNCHANGED <<wanted, needs, mayFail, failures>>

Fails(n, ph) ==
  /\ Due(n, ph)
  /\ failures' = failures \cup {n}
  /\ \/ n \in mayFail /\ Passes(n, ph)
     \/ n \notin mayFail /\ stage' = "failed" /\ UNCHANGED done
  /\ UNCHANGED <<wanted, needs, mayFail>>

Refuse ==
  /\ stage = "starting"
  /\ done = [ph \in Phase |-> {}]
  /\ ~ Orderable
  /\ stage' = "failed"
  /\ UNCHANGED <<wanted, needs, mayFail, done, failures>>

Return ==
  /\ stage = "starting"
  /\ done["load"] = wanted
  /\ stage' = "ready"
  /\ UNCHANGED <<wanted, needs, mayFail, done, failures>>
-----------------------------------------------------------------------------

Init ==
  /\ stage = "idle"
  /\ wanted = {} /\ mayFail = {} /\ failures = {}
  /\ needs = [n \in Name |-> {}]
  /\ done = [ph \in Phase |-> {}]

Next ==
  \/ Begin \/ Refuse \/ Return
  \/ \E n \in Name, ph \in Phase : Succeeds(n, ph) \/ Fails(n, ph)

Spec == Init /\ [][Next]_vars
=============================================================================
