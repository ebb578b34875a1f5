----------------------------- MODULE MCArchive -----------------------------
(* A directory with a role, a link and files that are named as the run's   *)
(* own are, and the same directory after the role is gone.                 *)
EXTENDS Archive

MCPath == {"top", "roles", "main.yml", "link", "executer", "inventory.yaml", "data.tar.gz"}
MCParent == [p \in MCPath |-> IF p = "main.yml" THEN "roles" ELSE "top"]

D(mode) == [kind |-> "dir", content |-> Partial, mode |-> mode]
F(content) == [kind |-> "file", content |-> content, mode |-> {"write", "setuid"}]
L(content) == [kind |-> "link", content |-> content, mode |-> {}]
TopOnly == [p \in MCPath |-> IF p = "top" THEN D({"write"}) ELSE Nothing]

MCTrees ==
  {[TopOnly EXCEPT !["roles"] = D({}), !["main.yml"] = F("a"), !["inventory.yaml"] = F("b")],
   [TopOnly EXCEPT !["roles"] = D({"write", "group"}), !["main.yml"] = F("b"), !["link"] = L("a")],
   [TopOnly EXCEPT !["link"] = L("b"), !["executer"] = F("a")],
   [TopOnly EXCEPT !["roles"] = F("a"), !["data.tar.gz"] = F("a")]}
=============================================================================
