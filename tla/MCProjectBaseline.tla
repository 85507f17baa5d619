-------------------------- MODULE MCProjectBaseline --------------------------
(* ProjectBaseline for TLC: a workspace file with a baseline and one       *)
(* without; requests are interchangeable.                                  *)
EXTENDS ProjectBaseline, TLC

AFile(rate, hours, totals) ==
  [sizing |-> [mode |-> "MATRIX", direct |-> 0, cells |-> [a \in Roles |-> hours]],
   card |-> [a \in Roles |-> rate], totals |-> totals, item |-> [i \in Items |-> FALSE]]

MCFiles == {AFile(2, 1, 3), AFile(None, 0, None)}

RequestSymmetry == Permutations(Requests)
=============================================================================
