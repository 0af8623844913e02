----------------------------- MODULE MCKeyOrder -----------------------------
(* KeyOrder with numbers of each kind, among them equal ones.                *)
EXTENDS KeyOrder

MCNumbers ==
  {[kind |-> kind, half |-> half] : kind \in {"bool", "int", "uint", "float"}, half \in {0, 2}}
    \cup {[kind |-> "float", half |-> 1], [kind |-> "int", half |-> -2]}
=============================================================================
