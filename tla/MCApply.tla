------------------------------ MODULE MCApply -------------------------------
(***************************************************************************)
(* A small instance of Apply for TLC: two versions of a function, of which *)
(* the second adds an Ingress, the first in a namespace of its own too, and*)
(* a file that does not validate.                                          *)
(***************************************************************************)
EXTENDS Apply, TLC

CONSTANTS prod, staging

NamespacesDef == {prod, staging}
ContentsDef   == {"v1", "v2", "bad"}

File(v, n, i, c) == [valid |-> v, namespace |-> n, ingress |-> i,
                     monitoring |-> FALSE, content |-> c]

CommandsDef ==
  {[file |-> File(TRUE, prod, FALSE, "v1"), n |-> ""],
   [file |-> File(TRUE, prod, TRUE, "v2"), n |-> ""],
   [file |-> File(TRUE, staging, FALSE, "v1"), n |-> prod],
   [file |-> File(FALSE, staging, FALSE, "bad"), n |-> ""]}

Symmetry == Permutations(Clients)
=============================================================================
