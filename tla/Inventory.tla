------------------------------ MODULE Inventory ------------------------------
(***************************************************************************)
(* The groups of an inventory: which hosts the dialer visits (All), which  *)
(* groups a host is in (Find), and the variables an executer starts with   *)
(* (NodeVars).                                                             *)
(*                                                                         *)
(* Find and All only build sets: the order in which Go ranges over a map   *)
(* does not matter to them and they are functions here.  NodeVars merges   *)
(* maps, and the order is one of its inputs: it is the state machine of    *)
(* this module, one step per call or return of Group.NodeVars.             *)
(***************************************************************************)
EXTENDS Naturals, Sequences, FiniteSets

CONSTANTS
  Group,        \* places in the tree of groups
  NameOf,       \* the key of a group in the map it is in: two places may share one
  HostName, Var,
  Node,         \* the host NodeVars is called for
  Inventories   \* the inventories considered

\* The map of the top-level groups stands where a parent would.
Root == "root"

\* Where a value comes from tells it apart: the host entry or the vars of a group.
Value == {"host", "group"} \X Group
VarMap == UNION {[D -> Value] : D \in SUBSET Var}
Empty == [x \in {} |-> <<>>]

\* `defines` are the keys of a group's vars, `gives` those of the node's entry in it.
InventoryType == [parent : [Group -> Group \cup {Root}], hosts : [Group -> SUBSET HostName],
                  defines : [Group -> SUBSET Var], gives : [Group -> SUBSET Var]]

\* A YAML document is a finite tree: no group is among its own children, near or far.
IsForest(parent) ==
  \E depth \in [Group -> 1..Cardinality(Group)] :
    \A g \in Group : parent[g] # Root => depth[parent[g]] < depth[g]

ASSUME InventoryAssumption ==
  /\ Root \notin Group /\ NameOf \in [Group -> STRING] /\ IsFiniteSet(Group)
  /\ Node \in HostName
  /\ Inventories \subseteq InventoryType
  /\ \A inv \in Inventories : IsForest(inv.parent)

VARIABLES
  inventory,  \* the inventory of this run
  stack,      \* the calls of NodeVars under way, the innermost first
  result      \* what Inventory.NodeVars has returned, once no call is left

inventoryVars == <<inventory, stack, result>>

ChildrenBug(g) == {c \in Group : inventory.parent[c] \in {g, Root}} \* of the wrong receiver
Children(g) == {c \in Group : inventory.parent[c] = g}

-----------------------------------------------------------------------------
(* Find and All                                                            *)

\* Group.Find: a member of a child is a member of the group.
FoundInBug(n) ==                    \* a member of a child is not one of the group
  LET found[g \in Group] ==
        UNION {found[c] : c \in Children(g)}
          \cup (IF n \in inventory.hosts[g] THEN {NameOf[g]} ELSE {})
  IN  found

FoundIn(n) ==
  LET found[g \in Group] ==
        LET below == UNION {found[c] : c \in Children(g)}
        IN  below \cup (IF n \in inventory.hosts[g] \/ below # {} THEN {NameOf[g]} ELSE {})
  IN  found

Find(n) == {"all"} \cup UNION {FoundIn(n)[g] : g \in Children(Root)}

AllIn ==
  LET all[g \in Group] == inventory.hosts[g] \cup UNION {all[c] : c \in Children(g)}
  IN  all

All == UNION {AllIn[g] : g \in Children(Root)}

-----------------------------------------------------------------------------
(* NodeVars                                                                *)

\* Variables.Merge: the keys of other are copied over.
MergeBug(map, other) == other       \* assigned, not copied
Merge(map, other) ==
  [x \in DOMAIN map \cup DOMAIN other |-> IF x \in DOMAIN other THEN other[x] ELSE map[x]]

VarsOf(g) == [x \in inventory.defines[g] |-> <<"group", g>>]
HostVarsOf(g) == [x \in inventory.gives[g] |-> <<"host", g>>]

\* A call: its group, the children its loop has not reached, and its three maps.
Frame == [group : Group \cup {Root}, todo : SUBSET Group, hostVars : VarMap,
          groupVars : VarMap, childrenVars : VarMap]

NewFrameBug(g) ==                   \* the vars of every group
  [group |-> g, todo |-> Children(g),
   hostVars |-> IF Node \in inventory.hosts[g] THEN HostVarsOf(g) ELSE Empty,
   groupVars |-> VarsOf(g),
   childrenVars |-> Empty]
NewFrame(g) ==
  LET in == Node \in inventory.hosts[g]
  IN  [group |-> g, todo |-> Children(g),
       hostVars |-> IF in THEN HostVarsOf(g) ELSE Empty,
       groupVars |-> IF in THEN VarsOf(g) ELSE Empty,
       childrenVars |-> Empty]

InventoryInit ==
  /\ inventory \in Inventories
  /\ stack = << [group |-> Root, todo |-> Children(Root), hostVars |-> Empty,
                 groupVars |-> Empty, childrenVars |-> Empty] >>
  /\ result = Empty

Top == stack[1]

\* The loop over a map takes the children in any order.
Call ==
  /\ stack # <<>>
  /\ \E c \in Top.todo :
       stack' = <<NewFrame(c), [Top EXCEPT !.todo = @ \ {c}]>> \o Tail(stack)
  /\ UNCHANGED <<inventory, result>>

\* The group's own vars, below those of its children.
GroupVarsBug(f) ==                  \* the group's vars over those of its children
  IF DOMAIN f.childrenVars # {}
  THEN Merge(f.childrenVars, Merge(f.groupVars, VarsOf(f.group)))
  ELSE f.groupVars
GroupVars(f) ==
  IF DOMAIN f.childrenVars # {}
  THEN Merge(Merge(f.groupVars, VarsOf(f.group)), f.childrenVars)
  ELSE f.groupVars

\* Group.NodeVars returns and its caller merges the two maps into its own.
Return ==
  /\ Len(stack) > 1 /\ Top.todo = {}
  /\ stack' = << [stack[2] EXCEPT !.hostVars = Merge(@, Top.hostVars),
                                  !.childrenVars = Merge(@, GroupVars(Top))] >>
              \o Tail(Tail(stack))
  /\ UNCHANGED <<inventory, result>>

\* Inventory.NodeVars returns: what hosts set is above what groups set.
NodeVarsBug(f) == Merge(f.hostVars, f.childrenVars)
NodeVars(f) == Merge(f.childrenVars, f.hostVars)

Finish ==
  /\ Len(stack) = 1 /\ Top.todo = {}
  /\ result' = NodeVars(Top)
  /\ stack' = <<>>
  /\ UNCHANGED inventory

InventoryNext == Call \/ Return \/ Finish

InventorySpec == InventoryInit /\ [][InventoryNext]_inventoryVars

-----------------------------------------------------------------------------
(* Properties                                                              *)

InventoryTypeOK ==
  /\ inventory \in InventoryType
  /\ stack \in Seq(Frame) /\ Len(stack) <= Cardinality(Group) + 1
  /\ result \in VarMap

Returned == stack = <<>>

\* The groups above g, g left out.
Above(g) ==
  LET above[h \in Group] ==
        IF inventory.parent[h] = Root THEN {}
        ELSE {inventory.parent[h]} \cup above[inventory.parent[h]]
  IN  above[g]

\* A play for a group runs on the hosts that All, of which the dialer takes the
\* hosts it visits, finds in groups of that name: Find and All agree.
FindMatchesAll ==
  /\ \A n \in HostName, name \in {NameOf[g] : g \in Group} :
       name \in Find(n) <=> name = "all" \/ \E g \in Group : NameOf[g] = name /\ n \in AllIn[g]
  /\ \A n \in HostName : n \in All <=> \E g \in Group : n \in inventory.hosts[g]

\* A variable that an entry of the node gives has the value of such an entry, from
\* however deep a group, whatever groups say of it.
HostVarsWin ==
  Returned =>
    \A g \in Group : Node \in inventory.hosts[g] =>
      \A x \in inventory.gives[g] : x \in DOMAIN result /\ result[x][1] = "host"

\* No variable comes from a group the node is not in.
OnlyFromItsGroups ==
  Returned => \A x \in DOMAIN result : Node \in AllIn[result[x][2]]

\* A group that lists the node itself and defines a variable hides what the groups
\* above it say, in whatever order the maps are ranged over.
NearestWins ==
  Returned =>
    \A g \in Group : Node \in inventory.hosts[g] =>
      \A x \in inventory.defines[g] :
        x \in DOMAIN result /\ result[x] \notin {<<"group", h>> : h \in Above(g)}

\* Find's comment: "any host that is a member of a child group is automatically a
\* member of the parent group"; so a variable of any group the node is in is there.
EveryGroupReaches ==
  Returned =>
    \A g \in Group : Node \in AllIn[g] => inventory.defines[g] \subseteq DOMAIN result
=============================================================================
