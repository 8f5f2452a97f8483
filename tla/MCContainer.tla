----------------------------- MODULE MCContainer -----------------------------
(***************************************************************************)
(* Three classes and one other key.  The parameter lists allow chains,     *)
(* diamonds, cycles of two and three, a required and an optional key; any  *)
(* class is a singleton or, but for Repo, transient.  Aliases lead to both *)
(* ends of an edge, one of them hides behind a class.                      *)
(***************************************************************************)
EXTENDS Container

MCClass == {"Service", "Repo", "Bus"}
MCToken == {"PUBLISHER"}

Req(k) == [type |-> k, optional |-> FALSE]
Opt(k) == [type |-> k, optional |-> TRUE]

MCScopes == {s \in [MCClass -> {"singleton", "transient"}] : s["Repo"] = "singleton"}
MCParamLists ==
  {[c \in MCClass |-> CASE c = "Service" -> s [] c = "Repo" -> r [] c = "Bus" -> b] :
     s \in {<<Req("Repo"), Req("Bus")>>, <<Req("Bus"), Opt("PUBLISHER")>>},
     r \in {<<>>, <<Req("Bus")>>, <<Req("Service")>>},
     b \in {<<Req("PUBLISHER")>>, <<Req("Repo")>>}}
MCAliasing == {<<"PUBLISHER", "Bus">>, <<"PUBLISHER", "Repo">>, <<"Bus", "Repo">>}
=============================================================================
