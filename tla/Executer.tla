------------------------------ MODULE Executer ------------------------------
(***************************************************************************)
(* One run of the executer on one node: the plays of a playbook in order,  *)
(* in each the roles and then the tasks, each task rendered, guarded by    *)
(* `when`, repeated by `loop`, applied and registered; and the variable    *)
(* maps all of that reads and writes.                                      *)
(*                                                                         *)
(* In the code a variables.Variables is a Go map, passed by reference in a *)
(* context.  `heap` holds the three maps that exist at a time, and PlayRef *)
(* and RoleRef say which of them a play's and a role's context point to.   *)
(* The content of a role's task is a pointer into the role that            *)
(* DiscoverRoles built once: `contents` is that memory.                    *)
(***************************************************************************)
EXTENDS Naturals, Sequences

CONSTANTS
  Var,            \* variable names; "item" and NoVar are among them or not
  Atom,           \* the strings a variable or a parameter may hold
  Playbooks,      \* the playbooks a run may be given
  Groups,         \* the groups inventory.Find returned for the node
  Node,           \* the name of the node
  InventoryVars,  \* the map inventory.NodeVars returned for the node
  Role,           \* the roles DiscoverRoles found
  RoleDefaults,   \* defaults of a role
  RoleVars,       \* vars of a role
  RoleTasks,      \* tasks of a role
  VarsFiles,      \* what vars files hold, by file name
  TaskFiles,      \* what task files hold, by file name
  MaxDepth        \* frames of nested task lists the process has stack for

Item == "item"
NoVar == "none"

-----------------------------------------------------------------------------
(* Values: a string, or a list of strings.  Undef is a missing key.        *)

Value == [list : BOOLEAN, of : Seq(Atom)]
Undef == [list |-> FALSE, of |-> <<>>]
Text(a) == [list |-> FALSE, of |-> <<a>>]

VarMap == [Var -> Value]
Empty == [x \in Var |-> Undef]

\* Variables.Merge: the keys of other are copied over.
MergeBug(map, other) == [x \in {y \in Var : other[y] # Undef} |-> other[x]] \* assigned, not copied
Merge(map, other) == [x \in Var |-> IF other[x] = Undef THEN map[x] ELSE other[x]]

\* A registered result, of which only the changed flag is kept.
ResultText == {"ok", "changed"}

(* A parameter is a literal or a template "{{ x }}".                       *)
Expr == {e \in [ref : BOOLEAN, of : Atom \cup Var] : e.of \in IF e.ref THEN Var ELSE Atom}
Literal(a) == [ref |-> FALSE, of |-> a]

\* A list rendered into a string field and template text that is never
\* rendered: strings of which only the kind matters.
ListText == "[...]"
RawText == "{{...}}"
AsText(v) == IF v.list THEN ListText ELSE v.of[1]

\* ProcessJinjaTemplates on one string: strict, an unknown variable is an error.
Renders(e, map) == e.ref => map[e.of] # Undef
Rendered(e, map) == IF e.ref THEN Literal(AsText(map[e.of])) ELSE e

\* JinjaProcessWhen.  A guard is empty, a test of a variable (an error when it is
\* undefined), or `x is defined`.
Guard == [op : {"none", "is", "defined"}, var : Var, atom : Atom]
WhenFails(g, map) == g.op = "is" /\ map[g.var] = Undef
WhenTrue(g, map) ==
  CASE g.op = "none"    -> TRUE
    [] g.op = "is"      -> map[g.var] = Text(g.atom)
    [] g.op = "defined" -> map[g.var] # Undef

\* `loop` is absent, a literal list, or a template that yields one.
Loop == [op : {"none", "list", "var"}, items : Seq(Expr), var : Var]

\* The elements of a literal list are interfaces, which are not rendered.
ItemValue(e) == IF e.ref THEN Text(RawText) ELSE Text(e.of)

\* A template must yield two elements or more: a single one is unwrapped to a
\* string, none at all leaves a pointer, and neither is a list.
LoopIsList(l, map) == l.op = "list" \/ (map[l.var].list /\ Len(map[l.var].of) > 1)
LoopItems(l, map) ==
  IF l.op = "list"
  THEN [i \in DOMAIN l.items |-> ItemValue(l.items[i])]
  ELSE [i \in DOMAIN map[l.var].of |-> Text(map[l.var].of[i])]

Task == [when : Guard, loop : Loop, include : BOOLEAN, content : Expr,
         register : Var \cup {NoVar}]

Play == [hosts : STRING, vars : VarMap, files : Seq(STRING), roles : Seq(STRING),
         tasks : Seq(Task)]

ASSUME ExecuterAssumption ==
  /\ Item \in Var /\ NoVar \notin Var
  /\ ResultText \cup {ListText, RawText} \subseteq Atom
  /\ \A p \in Playbooks : p \in Seq(Play)
  /\ Groups \subseteq STRING /\ Node \in STRING /\ Role \subseteq STRING
  /\ InventoryVars \in VarMap
  /\ RoleDefaults \in [Role -> VarMap] /\ RoleVars \in [Role -> VarMap]
  /\ RoleTasks \in [Role -> Seq(Task)]
  /\ DOMAIN VarsFiles \subseteq STRING /\ VarsFiles \in [DOMAIN VarsFiles -> VarMap]
  /\ DOMAIN TaskFiles \subseteq Atom /\ TaskFiles \in [DOMAIN TaskFiles -> Seq(Task)]
  /\ MaxDepth \in Nat

-----------------------------------------------------------------------------
VARIABLES
  playbook,   \* the playbook of this run
  status,     \* "running", "done", or "failed" once an error has reached main
  play,       \* index of the current play
  stage,      \* "match", "files", "roles" or "tasks"
  at,         \* index of the next vars file or of the current role
  heap,       \* the variable maps
  contents,   \* the contents of the roles' tasks, as they are in memory
  stack,      \* the task lists being executed, innermost first
  lastRun     \* history: the last time a module was applied, if it was

vars == <<playbook, status, play, stage, at, heap, contents, stack, lastRun>>

Ref == {"inventory", "play", "role"}

\* playbookApply makes playVars for every play, and Role.Apply roleCtxVars for every role.
PlayRefBug == "inventory"   \* the context's map is filled, not a new one
PlayRef == "play"
RoleRefBug == "play"        \* the role runs on the play's own map
RoleRef == "role"

Frame == [src : {"role", "play", "file"}, key : Role \cup Atom \cup {"play"}, next : Nat \ {0},
          looping : BOOLEAN, items : Seq(Value), changed : BOOLEAN]

NewFrame(src, key) == [src |-> src, key |-> key, next |-> 1, looping |-> FALSE,
                       items |-> <<>>, changed |-> FALSE]

ThisPlay == playbook[play]
Top == stack[1]
Scope == IF stage = "roles" THEN RoleRef ELSE PlayRef
Context == heap[Scope]

TasksOf(f) ==
  CASE f.src = "role" -> RoleTasks[f.key]
    [] f.src = "play" -> ThisPlay.tasks
    [] f.src = "file" -> TaskFiles[f.key]

Init ==
  /\ playbook \in Playbooks
  /\ status = "running"
  /\ play = 1 /\ stage = "match" /\ at = 1
  /\ heap = [ref \in Ref |-> IF ref = "inventory" THEN InventoryVars ELSE Empty]
  /\ contents = [r \in Role |-> [i \in DOMAIN RoleTasks[r] |-> RoleTasks[r][i].content]]
  /\ stack = <<>>
  /\ lastRun = {}

\* Any error returns to main, which ends the process.
Fail ==
  /\ status' = "failed"
  /\ UNCHANGED <<playbook, play, stage, at, heap, contents, stack, lastRun>>

-----------------------------------------------------------------------------
(* playbookApply                                                           *)

Matches(p) == p.hosts \in Groups \/ p.hosts = Node

InPlay(s) == status = "running" /\ stage = s /\ play <= Len(playbook)

SkipPlay ==
  /\ InPlay("match") /\ ~Matches(ThisPlay)
  /\ play' = play + 1
  /\ UNCHANGED <<playbook, status, stage, at, heap, contents, stack, lastRun>>

\* playVars before the vars files.
PlayScopeBug(p) == Merge(Merge(heap["play"], heap["inventory"]), p.vars) \* kept from the last play
PlayScope(p) == Merge(Merge(Empty, heap["inventory"]), p.vars)

BeginPlay ==
  /\ InPlay("match") /\ Matches(ThisPlay)
  /\ heap' = [heap EXCEPT ![PlayRef] = PlayScope(ThisPlay)]
  /\ stage' = "files" /\ at' = 1
  /\ UNCHANGED <<playbook, status, play, contents, stack, lastRun>>

MergeVarsFile ==
  /\ InPlay("files") /\ at <= Len(ThisPlay.files)
  /\ ThisPlay.files[at] \in DOMAIN VarsFiles
  /\ heap' = [heap EXCEPT ![PlayRef] = Merge(@, VarsFiles[ThisPlay.files[at]])]
  /\ at' = at + 1
  /\ UNCHANGED <<playbook, status, play, stage, contents, stack, lastRun>>

VarsFileMissing ==
  /\ InPlay("files") /\ at <= Len(ThisPlay.files)
  /\ ThisPlay.files[at] \notin DOMAIN VarsFiles
  /\ Fail

BeginRoles ==
  /\ InPlay("files") /\ at > Len(ThisPlay.files)
  /\ stage' = "roles" /\ at' = 1
  /\ UNCHANGED <<playbook, status, play, heap, contents, stack, lastRun>>

BetweenRoles == InPlay("roles") /\ stack = <<>>

UnknownRole ==
  /\ BetweenRoles /\ at <= Len(ThisPlay.roles)
  /\ ThisPlay.roles[at] \notin Role
  /\ Fail

\* Role.Apply up to its first task: what the role's tasks see.
RoleScopeCommented(r, map) == Merge(Merge(Merge(Empty, RoleDefaults[r]), RoleVars[r]), map) \* role.go:72
RoleScope(r, map) == Merge(Merge(Merge(Empty, RoleDefaults[r]), map), RoleVars[r])

BeginRole ==
  /\ BetweenRoles /\ at <= Len(ThisPlay.roles)
  /\ LET r == ThisPlay.roles[at] IN
       /\ r \in Role
       /\ heap' = [heap EXCEPT ![RoleRef] = RoleScope(r, heap[PlayRef])]
       /\ stack' = <<NewFrame("role", r)>>
  /\ UNCHANGED <<playbook, status, play, stage, at, contents, lastRun>>

\* A task list is finished when its frame has run past its last task.
Finished(src) == stack # <<>> /\ Top.src = src /\ Top.next > Len(TasksOf(Top))

\* The end of Role.Apply: the role's vars go to the rest of the play.
MergeBackBug(r, map) == map       \* the role's vars are lost with its scope
MergeBack(r, map) == Merge(map, RoleVars[r])

EndRole ==
  /\ InPlay("roles") /\ Finished("role")
  /\ heap' = [heap EXCEPT ![PlayRef] = MergeBack(Top.key, @)]
  /\ stack' = <<>>
  /\ at' = at + 1
  /\ UNCHANGED <<playbook, status, play, stage, contents, lastRun>>

BeginTasks ==
  /\ BetweenRoles /\ at > Len(ThisPlay.roles)
  /\ stage' = "tasks"
  /\ stack' = <<NewFrame("play", "play")>>
  /\ UNCHANGED <<playbook, status, play, at, heap, contents, lastRun>>

EndPlay ==
  /\ InPlay("tasks") /\ Finished("play")
  /\ play' = play + 1 /\ stage' = "match" /\ stack' = <<>>
  /\ UNCHANGED <<playbook, status, at, heap, contents, lastRun>>

EndPlaybook ==
  /\ status = "running" /\ stage = "match" /\ play > Len(playbook)
  /\ status' = "done"
  /\ UNCHANGED <<playbook, play, stage, at, heap, contents, stack, lastRun>>

-----------------------------------------------------------------------------
(* ExecuteTask, processAndRunTask and the include modules' Apply           *)

AtTask == status = "running" /\ stack # <<>> /\ Top.next <= Len(TasksOf(Top))
ThisTask == TasksOf(Top)[Top.next]

\* The tasks of an included file are rendered, validated and applied where
\* they stand, not through ExecuteTask: no `when`, no `loop`, no `register`.
Direct == Top.src = "file"
Looped == ~Direct /\ ThisTask.loop.op # "none"
Guarded == ~Direct /\ ThisTask.loop.op = "none"

\* ExecuteTask is about to render and apply the content once.
AtRun == AtTask /\ (Looped => Top.looping /\ Top.items # <<>>)

\* The variables of that run: a loop first sets `item`, in the shared map.
RunContext == IF Looped THEN [Context EXCEPT ![Item] = Head(Top.items)] ELSE Context

\* The content in memory: for a role, the one its previous application left.
Stored(f) == IF f.src = "role" THEN contents[f.key][f.next] ELSE TasksOf(f)[f.next].content

\* A loop renders a deep copy of the content, every other run the content itself.
InPlaceBug == TRUE          \* without deepCopyContent
InPlace == ~Looped

\* Contents after a run.  Those of a play or of a file are not read again.
ContentsAfter ==
  IF InPlace /\ Top.src = "role"
  THEN [contents EXCEPT ![Top.key][Top.next] = Rendered(Stored(Top), RunContext)]
  ELSE contents

\* The frame after one run of its task.
FrameAfterBug(f, changed) == \* an iteration does not take its item
  IF f.looping THEN [f EXCEPT !.changed = @ \/ changed] ELSE [f EXCEPT !.next = @ + 1]
FrameAfter(f, changed) ==
  IF f.looping
  THEN [f EXCEPT !.items = Tail(@), !.changed = @ \/ changed]
  ELSE [f EXCEPT !.next = @ + 1]

\* The map after a task without a loop ended with this result.
Registered(map, result) ==
  IF Guarded /\ ThisTask.register # NoVar
  THEN [map EXCEPT ![ThisTask.register] = Text(result)]
  ELSE map

\* An included task is rendered whole, the loop that nobody will run included.
TaskRenders ==
  /\ Renders(Stored(Top), RunContext)
  /\ Direct /\ ThisTask.loop.op = "var" => Context[ThisTask.loop.var] # Undef

Passes == Guarded => ~WhenFails(ThisTask.when, RunContext) /\ WhenTrue(ThisTask.when, RunContext)
CanRun == AtRun /\ TaskRenders /\ Passes

RenderError == AtRun /\ ~TaskRenders /\ Fail

WhenError ==
  /\ AtRun /\ Guarded /\ TaskRenders
  /\ WhenFails(ThisTask.when, RunContext)
  /\ Fail

\* A false `when`: the content has been rendered by then, and the result that
\* is registered is the zero one, which does not say skipped.
SkipTask ==
  /\ AtRun /\ Guarded /\ TaskRenders
  /\ ~WhenFails(ThisTask.when, RunContext) /\ ~WhenTrue(ThisTask.when, RunContext)
  /\ contents' = ContentsAfter
  /\ heap' = [heap EXCEPT ![Scope] = Registered(RunContext, "ok")]
  /\ stack' = [stack EXCEPT ![1] = FrameAfter(@, FALSE)]
  /\ UNCHANGED <<playbook, status, play, stage, at, lastRun>>

RunRecord == [template : Expr, got : Expr, map : VarMap]

\* A module other than an include: Validate and Apply succeed with some result.
RunModule ==
  /\ CanRun /\ ~ThisTask.include
  /\ \E result \in ResultText :
       /\ heap' = [heap EXCEPT ![Scope] = Registered(RunContext, result)]
       /\ stack' = [stack EXCEPT ![1] = FrameAfter(@, result = "changed")]
  /\ contents' = ContentsAfter
  /\ lastRun' = {[template |-> ThisTask.content,
                  got |-> Rendered(Stored(Top), RunContext),
                  map |-> RunContext]}
  /\ UNCHANGED <<playbook, status, play, stage, at>>

ModuleError == CanRun /\ ~ThisTask.include /\ Fail

IncludedFile == Rendered(Stored(Top), RunContext).of

\* The file is read and parsed anew, and its tasks run before the include returns.
IncludeFile ==
  /\ CanRun /\ ThisTask.include
  /\ IncludedFile \in DOMAIN TaskFiles
  /\ Len(stack) < MaxDepth
  /\ heap' = [heap EXCEPT ![Scope] = RunContext]
  /\ contents' = ContentsAfter
  /\ stack' = <<NewFrame("file", IncludedFile)>> \o stack
  /\ UNCHANGED <<playbook, status, play, stage, at, lastRun>>

IncludeError ==
  /\ CanRun /\ ThisTask.include
  /\ IncludedFile \notin DOMAIN TaskFiles \/ Len(stack) >= MaxDepth
  /\ Fail

\* The include returns the zero result to the task list that holds it.
AfterIncludeBug(frames) == Tail(frames)   \* the list that included ends too
AfterInclude(frames) == [frames EXCEPT ![1] = FrameAfter(@, FALSE)]

IncludeRegisters(f, t) == f.src # "file" /\ t.loop.op = "none" /\ t.register # NoVar

EndFile ==
  /\ status = "running" /\ Finished("file")
  /\ LET f == stack[2]
         t == TasksOf(f)[f.next]
     IN  heap' = IF IncludeRegisters(f, t)
                 THEN [heap EXCEPT ![Scope][t.register] = Text("ok")]
                 ELSE heap
  /\ stack' = AfterInclude(Tail(stack))
  /\ UNCHANGED <<playbook, status, play, stage, at, contents, lastRun>>

AtLoop == AtTask /\ Looped /\ ~Top.looping

LoopVarFails == ThisTask.loop.op = "var" /\ Context[ThisTask.loop.var] = Undef

BeginLoop ==
  /\ AtLoop /\ ~LoopVarFails /\ LoopIsList(ThisTask.loop, Context)
  /\ stack' = [stack EXCEPT ![1] = [@ EXCEPT !.looping = TRUE, !.changed = FALSE,
                                           !.items = LoopItems(ThisTask.loop, Context)]]
  /\ UNCHANGED <<playbook, status, play, stage, at, heap, contents, lastRun>>

LoopError ==
  /\ AtLoop /\ (LoopVarFails \/ ~LoopIsList(ThisTask.loop, Context))
  /\ Fail

LoopEnded(f) == [f EXCEPT !.looping = FALSE, !.next = @ + 1]

\* The results of the iterations are registered as one.
EndLoop ==
  /\ AtTask /\ Looped /\ Top.looping /\ Top.items = <<>>
  /\ heap' = IF ThisTask.register = NoVar THEN heap
             ELSE [heap EXCEPT ![Scope][ThisTask.register] =
                                 Text(IF Top.changed THEN "changed" ELSE "ok")]
  /\ stack' = [stack EXCEPT ![1] = LoopEnded(@)]
  /\ UNCHANGED <<playbook, status, play, stage, at, contents, lastRun>>

-----------------------------------------------------------------------------
TaskStep ==
  \/ RenderError \/ WhenError \/ SkipTask \/ RunModule \/ ModuleError
  \/ IncludeFile \/ IncludeError \/ EndFile
  \/ BeginLoop \/ LoopError \/ EndLoop

PlayStep ==
  \/ SkipPlay \/ BeginPlay \/ MergeVarsFile \/ VarsFileMissing
  \/ BeginRoles \/ UnknownRole \/ BeginRole \/ EndRole
  \/ BeginTasks \/ EndPlay \/ EndPlaybook

Next == PlayStep \/ TaskStep

\* The executer is one thread that never waits for another: it goes on while it can.
Spec == Init /\ [][Next]_vars /\ WF_vars(Next)

-----------------------------------------------------------------------------
(* Properties                                                              *)

\* Every variable holds what the code can put there.
TypeOK ==
  /\ playbook \in Playbooks
  /\ status \in {"running", "failed", "done"}
  /\ play \in Nat \ {0} /\ at \in Nat \ {0}
  /\ stage \in {"match", "files", "roles", "tasks"}
  /\ heap \in [Ref -> VarMap]
  /\ DOMAIN contents = Role
  /\ \A r \in Role : contents[r] \in [DOMAIN RoleTasks[r] -> Expr]
  /\ stack \in Seq(Frame)
  /\ lastRun \in SUBSET RunRecord

\* The lists being executed nest as the code calls them: included files on top of
\* one role or of the play's own tasks, each list under another still standing at
\* the include that it waits for.
NestedLists ==
  /\ stage \in {"match", "files"} => stack = <<>>
  /\ stage = "tasks" => stack # <<>>
  /\ stage # "match" => play \in DOMAIN playbook
  /\ \A i \in DOMAIN stack :
       /\ stack[i].src = "role" => stack[i].key \in Role /\ stage = "roles"
       /\ stack[i].src = "file" => stack[i].key \in DOMAIN TaskFiles
       /\ stack[i].src = "play" => stage = "tasks"
       /\ stack[i].src = "file" <=> i < Len(stack)
       /\ i > 1 => /\ stack[i].next <= Len(TasksOf(stack[i]))
                   /\ TasksOf(stack[i])[stack[i].next].include
                   /\ stack[i].looping => stack[i].items # <<>>
       /\ stack[i].looping => /\ stack[i].next <= Len(TasksOf(stack[i]))
                              /\ TasksOf(stack[i])[stack[i].next].loop.op # "none"
                              /\ stack[i].src # "file"

\* Whatever is registered or merged while plays and roles run, the inventory's
\* variables (the map in main's context) stay what NodeVars returned.
InventoryIntact == heap["inventory"] = InventoryVars

\* A play starts from the inventory, its own vars and its vars files: nothing an
\* earlier play registered, looped over or took from a role is still defined.
NoCarryOver ==
  stage = "files" =>
    \A x \in Var : heap["play"][x] # Undef =>
      \/ InventoryVars[x] # Undef \/ ThisPlay.vars[x] # Undef
      \/ \E i \in 1..(at - 1) : VarsFiles[ThisPlay.files[i]][x] # Undef

\* While a role runs nothing it registers, loops over or defaults reaches the
\* play: the play's map changes only with the step that ends the role.
RoleConfined == [][stage = "roles" /\ stack' # <<>> => heap'["play"] = heap["play"]]_vars

FirstDefined(s) ==
  IF \E i \in DOMAIN s : s[i] # Undef
  THEN s[CHOOSE i \in DOMAIN s : s[i] # Undef /\ \A j \in 1..(i - 1) : s[j] = Undef]
  ELSE Undef

\* When a role starts, a variable has the value of the role's vars, else of the
\* play (with the vars of the roles before), else of the role's defaults.  The
\* comment at role.go:72 puts the role's vars below the play's: RoleScopeCommented,
\* which breaks this.
RolePrecedence ==
  [][stage = "roles" /\ stack = <<>> /\ stack' # <<>> /\ stage' = "roles" =>
       \A x \in Var : LET r == ThisPlay.roles[at] IN
         heap'["role"][x] =
           FirstDefined(<<RoleVars[r][x], heap["play"][x], RoleDefaults[r][x]>>)]_vars

\* The vars of every role applied so far are there for the rest of the play:
\* the roles after it and the tasks.
RoleVarsReachLater ==
  stage \in {"roles", "tasks"} =>
    \A i \in 1..(at - 1) : \A x \in Var :
      RoleVars[ThisPlay.roles[i]][x] # Undef => heap["play"][x] # Undef

\* The roles of a playbook, by play and place in it.
RolesOf(pb) == UNION {{<<i, j>> : j \in DOMAIN pb[i].roles} : i \in DOMAIN pb}
RoleAt(pb, k) == pb[k[1]].roles[k[2]]
NoRoleTwice(pb) == \A k, m \in RolesOf(pb) : RoleAt(pb, k) = RoleAt(pb, m) => k = m

\* A module is applied with its template rendered from the variables that are in
\* scope then, and each iteration of a loop with its own item.  It holds as long
\* as no role is applied twice (NoRoleTwice).
RenderedInScope == \A run \in lastRun : run.got = Rendered(run.template, run.map)

\* Every run ends: with the last play, or with the first error.
Terminates == <>(status # "running")
=============================================================================
