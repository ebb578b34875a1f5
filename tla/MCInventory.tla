----------------------------- MODULE MCInventory -----------------------------
(* Every forest of three groups, two of one name, and every choice of the  *)
(* groups that list the node and of the variables they set.                *)
EXTENDS Inventory

MCGroup == {"g1", "g2", "g3"}
MCNameOf == [g1 |-> "web", g2 |-> "db", g3 |-> "web"]
MCHostName == {"n", "m"}

\* g2 is at the top or below g1, and g3 is below one of them: the top level is a map
\* and has one group of a name.
Forests ==
  {[g1 |-> Root, g2 |-> p, g3 |-> q] : p \in {Root, "g1"}, q \in {"g1", "g2"}}

\* m is in the last group; an entry of the node gives x or nothing.
MCInventories ==
  {[parent |-> p,
    hosts |-> [g \in MCGroup |-> (IF g \in in THEN {"n"} ELSE {})
                                   \cup (IF g = "g3" THEN {"m"} ELSE {})],
    defines |-> d,
    gives |-> [g \in MCGroup |-> IF g \in in /\ give THEN {"x"} ELSE {}]] :
   p \in Forests, in \in SUBSET MCGroup, give \in BOOLEAN,
   d \in [MCGroup -> SUBSET {"x", "y"}]}
=============================================================================
