----------------------------- MODULE Discovery -----------------------------
(***************************************************************************)
(* DiscoverRoles: which directories under roles/ are roles, and the        *)
(* variables and tasks that each of them has.  The tree is what is there   *)
(* when the executer starts; any read of it may fail.  A file of variables *)
(* is the map that it decodes to, one of tasks the keys of each task, and  *)
(* either may be Bad, which does not decode.                               *)
(***************************************************************************)
EXTENDS Naturals, Sequences

CONSTANTS
  RoleName,  \* the entries of roles/
  Var, Value,
  Undef,     \* stands for a variable that a file does not set
  Key,       \* of a task, other than name, when, loop and register
  Known,     \* the names of modules in NameRegistry
  Bad,
  Trees      \* what may be under roles/

VarMap == [Var -> Value \cup {Undef}]
Empty == [v \in Var |-> Undef]

\* A file under a directory: its path from there, each name as its place in the order of names.
File(Content) == [path : Seq(Nat), content : Content]

\* WalkDir goes through a directory, and what is below it, in the order of names.
Before(p, q) == \E i \in 1..Len(p) : i <= Len(q) /\ p[i] < q[i] /\ \A j \in 1..(i - 1) : p[j] = q[j]

\* main.yml, main.yaml or main.  No two entries of a directory have one name.
Node(Content) ==
  {e \in [kind : {"none", "file", "dir"}, content : Content, files : SUBSET File(Content)] :
     \A f, g \in e.files : f # g => Before(f.path, g.path) \/ Before(g.path, f.path)}
\* defaults, vars or tasks.
Place(Content) == [kind : {"none", "file", "dir"}, yml : Node(Content), yaml : Node(Content),
                   main : Node(Content)]
VarsPlace == Place(VarMap \cup {Bad})
TasksPlace == Place(Seq(SUBSET Key) \cup {Bad})
\* other: there is one of the directories that make a role and are not looked into.
Entry == [dir : BOOLEAN, defaults : VarsPlace, vars : VarsPlace, tasks : TasksPlace, other : BOOLEAN]
Role == [defaults : VarMap, vars : VarMap, tasks : Seq(Known)]
NoRole == [defaults |-> Empty, vars |-> Empty, tasks |-> <<>>]

ASSUME DiscoveryAssumption ==
  /\ Undef \notin Value /\ Known \subseteq Key
  /\ Bad \notin VarMap /\ Bad \notin Seq(SUBSET Key)
  /\ \A t \in Trees : t \in [RoleName -> Entry]

VARIABLES
  tree,
  todo,     \* entries of roles/ that are still to be looked at
  at,       \* the one that is being looked at
  place,    \* the part of it: "defaults", "vars", "tasks" or "other"
  pc,       \* "entries", "stat", "yml", "yaml", "main", "walk", "done" or "failed"
  rest,     \* the files under main/ that are not merged yet
  role,     \* what is known of the role
  isARole,
  roles     \* the result

vars == <<tree, todo, at, place, pc, rest, role, isARole, roles>>

NoRoles == [r \in {} |-> NoRole]

Init ==
  /\ tree \in Trees /\ todo = RoleName /\ at \in RoleName /\ place = "defaults"
  /\ pc = "entries" /\ rest = {} /\ role = NoRole /\ isARole = FALSE /\ roles = NoRoles

\* On an error there are no roles at all.
Fails == pc' = "failed" /\ roles' = NoRoles /\ UNCHANGED <<tree, todo, at, place, rest, role, isARole>>

-----------------------------------------------------------------------------
(* DiscoverRoles                                                           *)

\* ReadDir sorts the entries; which is first is of no matter here.
SkipFile(r) ==
  /\ pc = "entries" /\ r \in todo /\ ~tree[r].dir
  /\ todo' = todo \ {r}
  /\ UNCHANGED <<tree, at, place, pc, rest, role, isARole, roles>>

MaybeRole(r) ==
  /\ pc = "entries" /\ r \in todo /\ tree[r].dir
  /\ todo' = todo \ {r} /\ at' = r /\ place' = "defaults" /\ pc' = "stat"
  /\ role' = NoRole /\ isARole' = FALSE
  /\ UNCHANGED <<tree, rest, roles>>

Finish ==
  /\ pc = "entries" /\ todo = {}
  /\ pc' = "done"
  /\ UNCHANGED <<tree, todo, at, place, rest, role, isARole, roles>>

-----------------------------------------------------------------------------
(* maybeRole                                                               *)

Here == tree[at][place]
NextPlace == CASE place = "defaults" -> "vars" [] place = "vars" -> "tasks" [] OTHER -> "other"
Leave == place' = NextPlace /\ pc' = "stat"

\* tasks has to be a directory; defaults and vars need only be there.
Missing == Here.kind = "none" \/ (place = "tasks" /\ Here.kind = "file")

NoPlace ==
  /\ pc = "stat" /\ place # "other" /\ Missing /\ Leave
  /\ UNCHANGED <<tree, todo, at, rest, role, isARole, roles>>

EnterPlace ==
  /\ pc = "stat" /\ place # "other" /\ ~Missing
  /\ isARole' = TRUE /\ pc' = "yml"
  /\ UNCHANGED <<tree, todo, at, place, rest, role, roles>>

EndRole ==
  /\ pc = "stat" /\ place = "other"
  /\ roles' = IF isARole \/ tree[at].other
              THEN [r \in DOMAIN roles \cup {at} |-> IF r = at THEN role ELSE roles[r]]
              ELSE roles
  /\ pc' = "entries"
  /\ UNCHANGED <<tree, todo, at, place, rest, role, isARole>>

-----------------------------------------------------------------------------
(* processVars and processTasks                                            *)

\* A place that is a file has nothing in it, and says so with another error.
InFile ==
  /\ pc = "yml" /\ Here.kind = "file" /\ Fails

\* main.yml, then main.yaml, then main.
NotThere(name, next) ==
  /\ pc = name /\ Here.kind = "dir" /\ Here[name].kind = "none"
  /\ pc' = next
  /\ UNCHANGED <<tree, todo, at, place, rest, role, isARole, roles>>

Nothing ==
  /\ pc = "main" /\ Here.main.kind = "none" /\ Leave
  /\ UNCHANGED <<tree, todo, at, rest, role, isARole, roles>>

IsADirectory ==
  /\ pc \in {"yml", "yaml"} /\ Here.kind = "dir" /\ Here[pc].kind = "dir" /\ Fails

\* tasksUnmarshalYAML takes a module's name among the keys of each task, in the order of a Go
\* map, and passes over all other keys.
DecodedBug(content) == {s \in [1..Len(content) -> Key] : \A i \in 1..Len(content) : s[i] \in content[i]}
Decoded(content) == {s \in [1..Len(content) -> Known] : \A i \in 1..Len(content) : s[i] \in content[i]}

CanDecode(content) ==
  content # Bad /\ (place = "tasks" => \A i \in 1..Len(content) : content[i] \cap Known # {})

Load ==
  /\ pc \in {"yml", "yaml", "main"} /\ Here.kind = "dir" /\ Here[pc].kind = "file"
  /\ CanDecode(Here[pc].content)
  /\ IF place = "tasks" THEN \E s \in Decoded(Here[pc].content) : role' = [role EXCEPT !.tasks = s]
                        ELSE role' = [role EXCEPT ![place] = Here[pc].content]
  /\ Leave
  /\ UNCHANGED <<tree, todo, at, rest, isARole, roles>>

LoadFails ==
  /\ pc \in {"yml", "yaml", "main"} /\ Here.kind = "dir" /\ Here[pc].kind = "file"
  /\ ~CanDecode(Here[pc].content) /\ Fails

\* For tasks, a directory is not looked into.
MainDirectory ==
  /\ pc = "main" /\ Here.main.kind = "dir"
  /\ IF place = "tasks" THEN Leave /\ rest' = rest
     ELSE pc' = "walk" /\ rest' = Here.main.files /\ UNCHANGED place
  /\ UNCHANGED <<tree, todo, at, role, isARole, roles>>

Merge(a, b) == [v \in Var |-> IF b[v] # Undef THEN b[v] ELSE a[v]]

NextFileCommented(f) ==       \* vars.go:87, the more nested files last
  \A g \in rest \ {f} : \/ Len(f.path) < Len(g.path)
                        \/ Len(f.path) = Len(g.path) /\ Before(f.path, g.path)
NextFile(f) == \A g \in rest \ {f} : Before(f.path, g.path)

WalkFile ==
  /\ pc = "walk"
  /\ \E f \in rest : /\ NextFile(f) /\ f.content # Bad
                     /\ role' = [role EXCEPT ![place] = Merge(@, f.content)]
                     /\ rest' = rest \ {f}
  /\ UNCHANGED <<tree, todo, at, place, pc, isARole, roles>>

WalkFails ==
  /\ pc = "walk" /\ \E f \in rest : NextFile(f) /\ f.content = Bad
  /\ Fails

WalkEnds ==
  /\ pc = "walk" /\ rest = {} /\ Leave
  /\ UNCHANGED <<tree, todo, at, rest, role, isARole, roles>>

\* A directory or a file cannot be read, or a module's parameters do not decode.
ReadFails == pc \notin {"done", "failed"} /\ Fails

\* DiscoverRoles has returned.
Returned == pc \in {"done", "failed"} /\ UNCHANGED vars

Next ==
  \/ \E r \in todo : SkipFile(r) \/ MaybeRole(r)
  \/ Finish \/ NoPlace \/ EnterPlace \/ EndRole
  \/ InFile \/ NotThere("yml", "yaml") \/ NotThere("yaml", "main") \/ Nothing \/ IsADirectory
  \/ Load \/ LoadFails \/ MainDirectory \/ WalkFile \/ WalkFails \/ WalkEnds \/ ReadFails \/ Returned

Spec == Init /\ [][Next]_vars

-----------------------------------------------------------------------------
(* Properties                                                              *)

\* Types.
TypeOK ==
  /\ tree \in [RoleName -> Entry] /\ todo \subseteq RoleName /\ at \in RoleName
  /\ place \in {"defaults", "vars", "tasks", "other"}
  /\ pc \in {"entries", "stat", "yml", "yaml", "main", "walk", "done", "failed"}
  /\ pc \in {"yml", "yaml", "main"} => place # "other"
  /\ pc = "walk" => place \in {"defaults", "vars"}
  /\ rest \subseteq File(VarMap \cup {Bad}) /\ role \in Role /\ isARole \in BOOLEAN
  /\ DOMAIN roles \subseteq RoleName /\ \A r \in DOMAIN roles : roles[r] \in Role

\* The node of a place that counts: the first that is there, main if none is.
Chosen(p) == IF p.yml.kind # "none" THEN p.yml ELSE IF p.yaml.kind # "none" THEN p.yaml ELSE p.main

\* Of the files, all of which decode, the one that WalkDir comes to last decides a variable, be
\* it the more nested one or not.
LastWins(files, m) ==
  /\ \A f \in files : f.content # Bad
  /\ \A v \in Var :
       \/ m[v] = Undef /\ \A f \in files : f.content[v] = Undef
       \/ \E f \in files : /\ m[v] = f.content[v] /\ m[v] # Undef
                          /\ \A g \in files \ {f} : g.content[v] # Undef => Before(g.path, f.path)

VarsRight(p, m) ==
  LET c == Chosen(p) IN
  IF p.kind = "none" \/ c.kind = "none" THEN m = Empty
  ELSE /\ p.kind = "dir"
       /\ IF c.kind = "file" THEN m = c.content /\ m # Bad
          ELSE c = p.main /\ LastWins(c.files, m)

TasksRight(p, s) ==
  LET c == Chosen(p) IN
  IF p.kind # "dir" \/ c.kind = "none" THEN s = <<>>
  ELSE IF c.kind = "file" THEN c.content # Bad /\ s \in Decoded(c.content)
       ELSE c = p.main /\ s = <<>>

IsRole(e) ==
  e.dir /\ (e.defaults.kind # "none" \/ e.vars.kind # "none" \/ e.tasks.kind = "dir" \/ e.other)
RoleRight(r) == /\ VarsRight(tree[r].defaults, roles[r].defaults)
                /\ VarsRight(tree[r].vars, roles[r].vars)
                /\ TasksRight(tree[r].tasks, roles[r].tasks)

\* The executer gets every role with all that is in it, or an error and no role.  Under main/ the
\* code merges as it walks, so that b.yml overrides a/x.yml; the comment at vars.go:87 has the
\* more nested file win: NextFileCommented, which breaks this.
Discovered ==
  /\ pc = "done" => /\ DOMAIN roles = {r \in RoleName : IsRole(tree[r])}
                    /\ \A r \in DOMAIN roles : RoleRight(r)
  /\ pc = "failed" => roles = NoRoles
=============================================================================
