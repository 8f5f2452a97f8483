--------------------------- MODULE MCQueueService ---------------------------
(***************************************************************************)
(* One queue and four calls at the same time, each of every kind.  The two *)
(* jobs differ inside an object of their data.                             *)
(***************************************************************************)
EXTENDS QueueService, TLC

CONSTANTS c1, c2, c3, c4, one, two, own

MCCallers == {c1, c2, c3, c4}

Object(fields) == [object |-> TRUE, is |-> fields]
Welcome(id) == [name |-> "welcome", data |-> [user |-> Object([id |-> id])]]

MCContents == {Welcome(one), Welcome(two)}

Symmetry == Permutations(MCCallers)
=============================================================================
