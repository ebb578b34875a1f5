--------------------------- MODULE ExecuterProofs ---------------------------
(* Theorems about Executer, for every playbook, role set and inventory.    *)
EXTENDS Executer, SequenceTheorems, TLAPS

\* The inductive invariant: the types, and how the task lists nest.
IInv == TypeOK /\ NestedLists

-----------------------------------------------------------------------------
(* Values and maps                                                         *)

\* The constants' operators that make a map give one.
LEMMA MergeType ==
  ASSUME NEW map \in VarMap, NEW other \in VarMap
  PROVE  Merge(map, other) \in VarMap
BY DEF Merge, VarMap

LEMMA EmptyType == Empty \in VarMap /\ Undef \in Value
BY DEF Empty, VarMap, Undef, Value

LEMMA TextType ==
  ASSUME NEW a \in Atom
  PROVE  Text(a) \in Value
BY DEF Text, Value

\* Setting one variable keeps a map a map.
LEMMA SetType ==
  ASSUME NEW map \in VarMap, NEW x \in Var, NEW v \in Value
  PROVE  [map EXCEPT ![x] = v] \in VarMap
BY DEF VarMap

\* A rendered parameter is a literal.
LEMMA RenderedType ==
  ASSUME NEW map \in VarMap, NEW e \in Expr, Renders(e, map)
  PROVE  /\ Rendered(e, map) \in Expr
         /\ ~Rendered(e, map).ref
<1>1. CASE ~e.ref
  BY <1>1 DEF Rendered, Expr
<1>2. CASE e.ref
  <2>1. e.of \in Var
    BY <1>2 DEF Expr
  <2>2. PICK v \in Value : v = map[e.of] /\ v # Undef
    BY <1>2, <2>1 DEF Renders, VarMap
  <2>3. AsText(v) \in Atom
    <3>1. CASE v.list
      BY <3>1, ExecuterAssumption DEF AsText
    <3>2. CASE ~v.list
      <4>1. v = [list |-> FALSE, of |-> v.of] /\ v.of \in Seq(Atom)
        BY <3>2 DEF Value
      <4>2. v.of # <<>>
        BY <4>1, <2>2 DEF Undef
      <4>3. v.of[1] \in Atom
        BY <4>1, <4>2
      <4> QED BY <3>2, <4>3 DEF AsText
    <3> QED BY <3>1, <3>2 DEF Value
  <2> QED BY <1>2, <2>2, <2>3 DEF Rendered, Literal, Expr
<1> QED BY <1>1, <1>2 DEF Expr

LEMMA ItemValueType ==
  ASSUME NEW e \in Expr
  PROVE  ItemValue(e) \in Value
BY ExecuterAssumption, TextType DEF ItemValue, Expr

\* What a loop iterates over is a sequence of values.
LEMMA LoopItemsType ==
  ASSUME NEW map \in VarMap, NEW l \in Loop
  PROVE  LoopItems(l, map) \in Seq(Value)
<1>1. CASE l.op = "list"
  <2>1. l.items \in Seq(Expr)
    BY DEF Loop
  <2>2. \A i \in 1..Len(l.items) : ItemValue(l.items[i]) \in Value
    BY <2>1, ItemValueType
  <2>3. [i \in 1..Len(l.items) |-> ItemValue(l.items[i])] \in Seq(Value)
    BY <2>1, <2>2
  <2> QED BY <1>1, <2>1, <2>3 DEF LoopItems
<1>2. CASE l.op # "list"
  <2>1. map[l.var] \in Value
    BY DEF Loop, VarMap
  <2>2. map[l.var].of \in Seq(Atom)
    BY <2>1 DEF Value
  <2>3. \A i \in 1..Len(map[l.var].of) : Text(map[l.var].of[i]) \in Value
    BY <2>2, TextType
  <2>4. [i \in 1..Len(map[l.var].of) |-> Text(map[l.var].of[i])] \in Seq(Value)
    BY <2>2, <2>3
  <2> QED BY <1>2, <2>2, <2>4 DEF LoopItems
<1> QED BY <1>1, <1>2

-----------------------------------------------------------------------------
(* What a task finds when it is its turn                                   *)

\* Every list on the stack is a sequence of tasks.
LEMMA TasksOfType ==
  ASSUME IInv, NEW i \in DOMAIN stack
  PROVE  TasksOf(stack[i]) \in Seq(Task)
<1>1. stack[i] \in Frame
  BY DEF IInv, TypeOK
<1>2. CASE stack[i].src = "role"
  BY <1>2, ExecuterAssumption DEF IInv, NestedLists, TasksOf
<1>3. CASE stack[i].src = "play"
  <2>1. play \in DOMAIN playbook /\ playbook \in Seq(Play)
    BY <1>3, ExecuterAssumption DEF IInv, TypeOK, NestedLists
  <2>2. ThisPlay \in Play
    BY <2>1 DEF ThisPlay
  <2> QED BY <1>3, <2>2 DEF TasksOf, Play
<1>4. CASE stack[i].src = "file"
  BY <1>4, ExecuterAssumption DEF IInv, NestedLists, TasksOf
<1> QED BY <1>1, <1>2, <1>3, <1>4 DEF Frame

LEMMA TaskFacts ==
  ASSUME IInv, AtTask
  PROVE  /\ 1 \in DOMAIN stack /\ Top \in Frame /\ ThisTask \in Task
         /\ Top.next \in DOMAIN TasksOf(Top)
         /\ Scope \in Ref /\ Context \in VarMap
<1>1. 1 \in DOMAIN stack /\ Top \in Frame
  BY DEF IInv, TypeOK, AtTask, Top
<1>2. TasksOf(Top) \in Seq(Task)
  BY <1>1, TasksOfType DEF Top
<1>3. Top.next \in 1..Len(TasksOf(Top))
  BY <1>1, <1>2 DEF AtTask, Frame
<1>4. ThisTask \in Task /\ Top.next \in DOMAIN TasksOf(Top)
  BY <1>2, <1>3 DEF ThisTask
<1>5. Scope \in Ref
  BY DEF Scope, Ref, RoleRef, PlayRef
<1>6. Context \in VarMap
  BY <1>5 DEF Context, IInv, TypeOK
<1> QED BY <1>1, <1>4, <1>5, <1>6

LEMMA RunFacts ==
  ASSUME IInv, AtRun
  PROVE  RunContext \in VarMap /\ Stored(Top) \in Expr
<1>1. AtTask
  BY DEF AtRun
<1>2. RunContext \in VarMap
  <2>1. CASE Looped
    <3>1. Top.items \in Seq(Value) /\ Top.items # <<>>
      BY <2>1, <1>1, TaskFacts DEF AtRun, Frame
    <3>2. Head(Top.items) \in Value
      BY <3>1
    <3> QED BY <2>1, <3>2, <1>1, TaskFacts, SetType, ExecuterAssumption DEF RunContext
  <2>2. CASE ~Looped
    BY <2>2, <1>1, TaskFacts DEF RunContext
  <2> QED BY <2>1, <2>2
<1>3. Stored(Top) \in Expr
  <2>1. CASE Top.src = "role"
    <3>1. Top.key \in Role /\ Top.next \in DOMAIN RoleTasks[Top.key]
      BY <2>1, <1>1, TaskFacts DEF IInv, NestedLists, Top, TasksOf
    <3> QED BY <2>1, <3>1 DEF Stored, IInv, TypeOK
  <2>2. CASE Top.src # "role"
    <3>1. TasksOf(Top)[Top.next] \in Task
      BY <1>1, TaskFacts DEF ThisTask
    <3> QED BY <2>2, <3>1 DEF Stored, Task
  <2> QED BY <2>1, <2>2
<1> QED BY <1>2, <1>3

\* What a run of the content leaves: a literal in the role's memory, a map, and
\* the same list a little further on.
LEMMA RunEffects ==
  ASSUME IInv, AtRun, Renders(Stored(Top), RunContext)
  PROVE  /\ Rendered(Stored(Top), RunContext) \in Expr
         /\ ~Rendered(Stored(Top), RunContext).ref
         /\ DOMAIN ContentsAfter = Role
         /\ \A r \in Role : ContentsAfter[r] \in [DOMAIN RoleTasks[r] -> Expr]
         /\ \A a \in Atom : Registered(RunContext, a) \in VarMap
<1>1. AtTask
  BY DEF AtRun
<1> DEFINE e == Rendered(Stored(Top), RunContext)
<1>2. e \in Expr /\ ~e.ref
  BY RunFacts, RenderedType
<1>3. DOMAIN ContentsAfter = Role /\ \A r \in Role : ContentsAfter[r] \in [DOMAIN RoleTasks[r] -> Expr]
  <2>1. CASE InPlace /\ Top.src = "role"
    <3>1. Top.key \in Role
      BY <2>1, <1>1, TaskFacts DEF IInv, NestedLists, Top
    <3>2. ContentsAfter = [contents EXCEPT ![Top.key][Top.next] = e]
      BY <2>1 DEF ContentsAfter
    <3> HIDE DEF e
    <3> QED BY <3>1, <3>2, <1>2 DEF IInv, TypeOK
  <2>2. CASE ~(InPlace /\ Top.src = "role")
    BY <2>2 DEF ContentsAfter, IInv, TypeOK
  <2> QED BY <2>1, <2>2
<1>4. \A a \in Atom : Registered(RunContext, a) \in VarMap
  <2> SUFFICES ASSUME NEW a \in Atom PROVE Registered(RunContext, a) \in VarMap
    OBVIOUS
  <2>1. CASE Guarded /\ ThisTask.register # NoVar
    <3>1. ThisTask.register \in Var
      BY <2>1, <1>1, TaskFacts DEF Task
    <3> QED BY <2>1, <3>1, RunFacts, TextType, SetType DEF Registered
  <2>2. CASE ~(Guarded /\ ThisTask.register # NoVar)
    BY <2>2, RunFacts DEF Registered
  <2> QED BY <2>1, <2>2
<1> QED BY <1>2, <1>3, <1>4

\* The frame of a task list after a run is a frame of the same list.
LEMMA FrameAfterType ==
  ASSUME NEW f \in Frame, NEW c \in BOOLEAN, f.looping => f.items # <<>>
  PROVE  /\ FrameAfter(f, c) \in Frame
         /\ FrameAfter(f, c).src = f.src /\ FrameAfter(f, c).key = f.key
<1>1. CASE f.looping
  <2>1. f.items \in Seq(Value) /\ f.items # <<>>
    BY <1>1 DEF Frame
  <2>2. Tail(f.items) \in Seq(Value)
    BY <2>1
  <2>3. f.changed \/ c \in BOOLEAN
    BY DEF Frame
  <2> QED BY <1>1, <2>2, <2>3 DEF FrameAfter, Frame
<1>2. CASE ~f.looping
  BY <1>2 DEF FrameAfter, Frame
<1> QED BY <1>1, <1>2

-----------------------------------------------------------------------------
(* The stack after a step                                                  *)

\* The innermost list moves on; the lists below it stay where they are.
LEMMA TopMoves ==
  ASSUME IInv, AtTask, UNCHANGED <<playbook, play, stage>>,
         NEW f \in Frame, f.src = Top.src, f.key = Top.key,
         f.looping => f.next = Top.next /\ Looped,
         stack' = [stack EXCEPT ![1] = f]
  PROVE  stack' \in Seq(Frame) /\ NestedLists'
<1>1. 1 \in 1..Len(stack) /\ stack \in Seq(Frame)
  BY TaskFacts DEF IInv, TypeOK
<1>2. /\ stack' \in Seq(Frame) /\ Len(stack') = Len(stack)
      /\ \A j \in 1..Len(stack) : stack'[j] = IF j = 1 THEN f ELSE stack[j]
  BY <1>1, ExceptSeq
<1>3. \A g : TasksOf(g)' = TasksOf(g)
  BY DEF TasksOf, ThisPlay
<1>4. f.looping => /\ f.next <= Len(TasksOf(f)) /\ TasksOf(f)[f.next].loop.op # "none"
                   /\ f.src # "file"
  <2>1. TasksOf(f) = TasksOf(Top)
    BY DEF TasksOf
  <2> QED BY <2>1 DEF AtTask, Looped, Direct, ThisTask
<1> DEFINE Ok(g, i, n) ==
      /\ g.src = "role" => g.key \in Role /\ stage = "roles"
      /\ g.src = "file" => g.key \in DOMAIN TaskFiles
      /\ g.src = "play" => stage = "tasks"
      /\ g.src = "file" <=> i < n
<1>5. \A i \in 1..Len(stack) : Ok(stack'[i], i, Len(stack))
  <2>1. \A i \in 1..Len(stack) : Ok(stack[i], i, Len(stack))
    BY <1>1 DEF IInv, NestedLists
  <2> HIDE DEF Ok
  <2>2. Ok(stack[1], 1, Len(stack))
    BY <1>1, <2>1
  <2>3. Ok(f, 1, Len(stack))
    BY <2>2 DEF Ok, Top
  <2> QED BY <1>2, <2>1, <2>3
<1>6. \A i \in 2..Len(stack) : stack'[i] = stack[i]
  BY <1>1, <1>2
<1>7. ASSUME NEW i \in 1..Len(stack), i > 1
      PROVE  /\ stack'[i].next <= Len(TasksOf(stack'[i]))
             /\ TasksOf(stack'[i])[stack'[i].next].include
             /\ stack'[i].looping => stack'[i].items # <<>>
  BY <1>1, <1>6, <1>7 DEF IInv, NestedLists
<1>8. ASSUME NEW i \in 1..Len(stack), stack'[i].looping
      PROVE  /\ stack'[i].next <= Len(TasksOf(stack'[i]))
             /\ TasksOf(stack'[i])[stack'[i].next].loop.op # "none"
             /\ stack'[i].src # "file"
  <2>1. CASE i = 1
    BY <2>1, <1>1, <1>2, <1>4, <1>8
  <2>2. CASE i > 1
    BY <2>2, <1>1, <1>6, <1>8 DEF IInv, NestedLists
  <2> QED BY <2>1, <2>2
<1>9. stage # "match" => play \in DOMAIN playbook
  BY DEF IInv, NestedLists
<1>10. stack # <<>> /\ stack' # <<>> /\ stage \notin {"match", "files"}
  BY <1>1, <1>2 DEF IInv, NestedLists
<1> QED BY <1>2, <1>3, <1>5, <1>7, <1>8, <1>9, <1>10 DEF NestedLists

\* One run moves the innermost list in this way.
LEMMA RunMoves ==
  ASSUME IInv, AtRun, UNCHANGED <<playbook, play, stage>>, NEW c \in BOOLEAN,
         stack' = [stack EXCEPT ![1] = FrameAfter(@, c)]
  PROVE  stack' \in Seq(Frame) /\ NestedLists'
<1>1. AtTask /\ Top \in Frame /\ 1 \in DOMAIN stack
  BY TaskFacts DEF AtRun
<1>2. Top.looping => Looped
  BY <1>1 DEF IInv, NestedLists, Looped, Direct, ThisTask, Top
<1>3. Top.looping => Top.items # <<>>
  BY <1>2 DEF AtRun
<1>4. /\ FrameAfter(Top, c) \in Frame
      /\ FrameAfter(Top, c).src = Top.src /\ FrameAfter(Top, c).key = Top.key
  BY <1>1, <1>3, FrameAfterType
<1>5. FrameAfter(Top, c).looping => FrameAfter(Top, c).next = Top.next /\ Looped
  BY <1>1, <1>2 DEF FrameAfter, Frame
<1>6. stack' = [stack EXCEPT ![1] = FrameAfter(Top, c)]
  BY DEF Top
<1> HIDE DEF FrameAfter
<1> QED BY <1>1, <1>4, <1>5, <1>6, TopMoves

-----------------------------------------------------------------------------
(* The invariant holds at first and every step keeps it                    *)

LEMMA InitInv == Init => IInv
<1> SUFFICES ASSUME Init PROVE IInv
  OBVIOUS
<1>1. heap \in [Ref -> VarMap]
  BY EmptyType, ExecuterAssumption DEF Init
<1>2. DOMAIN contents = Role /\ \A r \in Role : contents[r] \in [DOMAIN RoleTasks[r] -> Expr]
  <2>1. ASSUME NEW r \in Role, NEW i \in DOMAIN RoleTasks[r]
        PROVE  RoleTasks[r][i].content \in Expr
    <3>1. RoleTasks[r] \in Seq(Task)
      BY ExecuterAssumption
    <3>2. RoleTasks[r][i] \in Task
      BY <3>1
    <3> QED BY <3>2 DEF Task
  <2> QED BY <2>1 DEF Init
<1>3. NestedLists
  BY DEF Init, NestedLists
<1> QED BY <1>1, <1>2, <1>3 DEF Init, IInv, TypeOK

\* The frame of a list that starts.
LEMMA NewFrameType ==
  ASSUME NEW src \in {"role", "play", "file"}, NEW key \in Role \cup Atom \cup {"play"}
  PROVE  /\ NewFrame(src, key) \in Frame
         /\ NewFrame(src, key).src = src /\ NewFrame(src, key).key = key
         /\ ~NewFrame(src, key).looping
BY DEF NewFrame, Frame

LEMMA PlayFacts ==
  ASSUME IInv, NEW s, InPlay(s)
  PROVE  ThisPlay \in Play /\ play \in DOMAIN playbook
BY ExecuterAssumption DEF IInv, TypeOK, InPlay, ThisPlay

\* The nest depends on the plays and on the stack only.
LEMMA NestedKept ==
  ASSUME NestedLists, UNCHANGED <<playbook, play, stage, stack>>
  PROVE  NestedLists'
BY DEF NestedLists, TasksOf, ThisPlay

\* A step that fails leaves everything but the status.
LEMMA FailInv ==
  ASSUME IInv, Fail
  PROVE  IInv'
<1>1. /\ status' = "failed"
      /\ UNCHANGED <<playbook, play, stage, at, heap, contents, stack, lastRun>>
  BY DEF Fail
<1>2. TypeOK'
  BY <1>1 DEF IInv, TypeOK
<1>3. NestedLists'
  BY <1>1, NestedKept DEF IInv
<1> QED BY <1>2, <1>3 DEF IInv

LEMMA PlayStepInv ==
  ASSUME IInv, PlayStep
  PROVE  IInv'
<1> USE DEF IInv
<1>1. CASE SkipPlay
  BY <1>1 DEF SkipPlay, InPlay, TypeOK, NestedLists
<1>2. CASE BeginPlay
  <2>1. PlayScope(ThisPlay) \in VarMap
    <3>1. ThisPlay \in Play
      BY <1>2, PlayFacts DEF BeginPlay
    <3>2. ThisPlay.vars \in VarMap
      BY <3>1 DEF Play
    <3>3. heap["inventory"] \in VarMap
      BY DEF TypeOK, Ref
    <3> QED BY <3>2, <3>3, EmptyType, MergeType DEF PlayScope
  <2>2. heap' \in [Ref -> VarMap]
    BY <1>2, <2>1 DEF BeginPlay, TypeOK
  <2> QED BY <1>2, <2>2, PlayFacts DEF BeginPlay, InPlay, TypeOK, NestedLists
<1>3. CASE MergeVarsFile
  <2>1. heap' \in [Ref -> VarMap]
    <3>1. VarsFiles[ThisPlay.files[at]] \in VarMap
      BY <1>3, ExecuterAssumption DEF MergeVarsFile
    <3>2. heap[PlayRef] \in VarMap
      BY DEF TypeOK, PlayRef, Ref
    <3>3. Merge(heap[PlayRef], VarsFiles[ThisPlay.files[at]]) \in VarMap
      BY <3>1, <3>2, MergeType
    <3> QED BY <1>3, <3>3 DEF MergeVarsFile, TypeOK
  <2> QED BY <1>3, <2>1 DEF MergeVarsFile, InPlay, TypeOK, NestedLists
<1>4. CASE VarsFileMissing
  BY <1>4, FailInv DEF VarsFileMissing
<1>5. CASE BeginRoles
  <2>1. stack = <<>> /\ stack' = <<>> /\ stage' = "roles" /\ play \in DOMAIN playbook
    BY <1>5, PlayFacts DEF BeginRoles, InPlay, NestedLists
  <2>2. TypeOK'
    BY <1>5 DEF BeginRoles, TypeOK
  <2>3. NestedLists'
    BY <1>5, <2>1 DEF BeginRoles, NestedLists
  <2> QED BY <2>2, <2>3
<1>6. CASE UnknownRole
  BY <1>6, FailInv DEF UnknownRole
<1>7. CASE BeginRole
  <2> DEFINE r == ThisPlay.roles[at]
  <2>1. r \in Role
    BY <1>7 DEF BeginRole
  <2>2. heap' \in [Ref -> VarMap]
    <3>1. RoleDefaults[r] \in VarMap /\ RoleVars[r] \in VarMap /\ heap[PlayRef] \in VarMap
      BY <2>1, ExecuterAssumption DEF TypeOK, PlayRef, Ref
    <3>2. RoleScope(r, heap[PlayRef]) \in VarMap
      BY <3>1, EmptyType, MergeType DEF RoleScope
    <3> QED BY <1>7, <3>2 DEF BeginRole, TypeOK
  <2>3. stack' = <<NewFrame("role", r)>>
    BY <1>7 DEF BeginRole
  <2>4. stack' \in Seq(Frame) /\ Len(stack') = 1 /\ stack'[1].src = "role"
        /\ stack'[1].key \in Role /\ ~stack'[1].looping
    <3> DEFINE f == NewFrame("role", r)
    <3>1. f \in Frame /\ f.src = "role" /\ f.key = r /\ ~f.looping
      BY <2>1, NewFrameType
    <3>2. stack' = <<f>>
      BY <2>3
    <3> HIDE DEF f
    <3> QED BY <2>1, <3>1, <3>2
  <2>5. NestedLists'
    BY <1>7, <2>4, PlayFacts DEF BeginRole, BetweenRoles, InPlay, NestedLists
  <2> QED BY <1>7, <2>2, <2>4, <2>5 DEF BeginRole, TypeOK
<1>8. CASE EndRole
  <2>1. Top.key \in Role
    <3>1. 1 \in DOMAIN stack
      BY <1>8 DEF EndRole, Finished, TypeOK
    <3> QED BY <1>8, <3>1 DEF EndRole, Finished, NestedLists, Top
  <2>2. heap' \in [Ref -> VarMap]
    <3>0. heap[PlayRef] \in VarMap /\ RoleVars[Top.key] \in VarMap /\ RoleDefaults[Top.key] \in VarMap
      BY <2>1, ExecuterAssumption DEF TypeOK, PlayRef, Ref
    <3>1. MergeBack(Top.key, heap[PlayRef]) \in VarMap
      BY <3>0, MergeType DEF MergeBack
    <3> QED BY <1>8, <3>1 DEF EndRole, TypeOK
  <2> QED BY <1>8, <2>2 DEF EndRole, InPlay, TypeOK, NestedLists
<1>9. CASE BeginTasks
  <2>1. stack' = <<NewFrame("play", "play")>>
    BY <1>9 DEF BeginTasks
  <2>2. stack' \in Seq(Frame) /\ Len(stack') = 1 /\ stack'[1].src = "play"
        /\ ~stack'[1].looping
    <3> DEFINE f == NewFrame("play", "play")
    <3>1. f \in Frame /\ f.src = "play" /\ ~f.looping
      BY NewFrameType
    <3>2. stack' = <<f>>
      BY <2>1
    <3> HIDE DEF f
    <3> QED BY <3>1, <3>2
  <2>3. NestedLists'
    BY <1>9, <2>2, PlayFacts DEF BeginTasks, BetweenRoles, InPlay, NestedLists
  <2> QED BY <1>9, <2>2, <2>3 DEF BeginTasks, TypeOK
<1>10. CASE EndPlay
  BY <1>10 DEF EndPlay, InPlay, TypeOK, NestedLists
<1>11. CASE EndPlaybook
  <2>1. TypeOK'
    BY <1>11 DEF EndPlaybook, TypeOK
  <2>2. NestedLists'
    BY <1>11, NestedKept DEF EndPlaybook
  <2> QED BY <2>1, <2>2
<1> QED BY <1>1, <1>2, <1>3, <1>4, <1>5, <1>6, <1>7, <1>8, <1>9, <1>10, <1>11 DEF PlayStep

\* Setting the map of the running scope.
LEMMA HeapType ==
  ASSUME IInv, NEW map \in VarMap
  PROVE  [heap EXCEPT ![Scope] = map] \in [Ref -> VarMap]
BY DEF IInv, TypeOK

\* Registering a result in the map of the running scope.
LEMMA HeapSetType ==
  ASSUME IInv, NEW x \in Var, NEW a \in Atom
  PROVE  [heap EXCEPT ![Scope][x] = Text(a)] \in [Ref -> VarMap]
<1>1. Scope \in Ref /\ heap \in [Ref -> VarMap]
  BY DEF Scope, Ref, RoleRef, PlayRef, IInv, TypeOK
<1>2. [heap[Scope] EXCEPT ![x] = Text(a)] \in VarMap
  BY <1>1, TextType, SetType
<1>3. [heap EXCEPT ![Scope][x] = Text(a)] =
        [heap EXCEPT ![Scope] = [heap[Scope] EXCEPT ![x] = Text(a)]]
  BY <1>1
<1> QED BY <1>1, <1>2, <1>3

\* An included file starts on top of the list that stands at its include.
LEMMA PushNests ==
  ASSUME IInv, AtRun, ThisTask.include, UNCHANGED <<playbook, play, stage>>,
         NEW f \in Frame, f.src = "file", f.key \in DOMAIN TaskFiles, ~f.looping,
         Len(stack') = Len(stack) + 1, stack' \in Seq(Frame), stack'[1] = f,
         \A i \in 2..Len(stack') : stack'[i] = stack[i - 1]
  PROVE  NestedLists'
<1>1. AtTask /\ stack \in Seq(Frame) /\ 1 \in DOMAIN stack /\ Len(stack) > 0
  BY TaskFacts DEF AtRun, IInv, TypeOK
<1>2. \A g : TasksOf(g)' = TasksOf(g)
  BY DEF TasksOf, ThisPlay
<1>3. Top.looping => Top.items # <<>>
  BY <1>1 DEF IInv, NestedLists, AtRun, Looped, Direct, ThisTask, Top
<1>4. stage \notin {"match", "files"} /\ play \in DOMAIN playbook
  BY <1>1 DEF IInv, NestedLists
<1>5. ASSUME NEW i \in 1..Len(stack'), i > 1
      PROVE  /\ stack'[i].src = "role" => stack'[i].key \in Role /\ stage = "roles"
             /\ stack'[i].src = "file" => stack'[i].key \in DOMAIN TaskFiles
             /\ stack'[i].src = "play" => stage = "tasks"
             /\ stack'[i].src = "file" <=> i < Len(stack')
             /\ stack'[i].looping => /\ stack'[i].next <= Len(TasksOf(stack'[i]))
                                     /\ TasksOf(stack'[i])[stack'[i].next].loop.op # "none"
                                     /\ stack'[i].src # "file"
  <2>1. stack'[i] = stack[i - 1] /\ i - 1 \in 1..Len(stack)
    BY <1>1, <1>5
  <2> QED BY <1>1, <2>1 DEF IInv, NestedLists
<1>6. ASSUME NEW i \in 1..Len(stack'), i > 1
      PROVE  /\ stack'[i].next <= Len(TasksOf(stack'[i]))
             /\ TasksOf(stack'[i])[stack'[i].next].include
             /\ stack'[i].looping => stack'[i].items # <<>>
  <2>1. stack'[i] = stack[i - 1] /\ i - 1 \in 1..Len(stack)
    BY <1>1, <1>6
  <2>2. CASE i = 2
    BY <2>1, <2>2, <1>1, <1>3 DEF AtTask, ThisTask, Top
  <2>3. CASE i > 2
    BY <2>1, <2>3, <1>1 DEF IInv, NestedLists
  <2> QED BY <2>2, <2>3, <1>6
<1>7. DOMAIN stack' = 1..Len(stack') /\ stack' # <<>>
  BY <1>1
<1>8. ASSUME NEW i \in 1..Len(stack')
      PROVE  i = 1 \/ i > 1
  OBVIOUS
<1> QED BY <1>1, <1>2, <1>4, <1>5, <1>6, <1>7, <1>8 DEF NestedLists

\* When a file ends, the list below it goes on after its include.
LEMMA PopNests ==
  ASSUME IInv, Finished("file"), UNCHANGED <<playbook, play, stage>>,
         stack' = AfterInclude(Tail(stack))
  PROVE  /\ stack' \in Seq(Frame) /\ NestedLists'
         /\ 2 \in DOMAIN stack
         /\ TasksOf(stack[2])[stack[2].next] \in Task
<1>1. stack \in Seq(Frame) /\ stack # <<>> /\ stack[1].src = "file" /\ 1 \in DOMAIN stack
  BY DEF IInv, TypeOK, Finished, Top
<1>2. Len(stack) >= 2
  BY <1>1 DEF IInv, NestedLists
<1> DEFINE rest == Tail(stack)
           f == FrameAfter(stack[2], FALSE)
<1>3. /\ rest \in Seq(Frame) /\ Len(rest) = Len(stack) - 1
      /\ \A i \in 1..Len(rest) : rest[i] = stack[i + 1]
  BY <1>1, HeadTailProperties
<1>4. stack[2] \in Frame /\ 2 \in DOMAIN stack /\ rest[1] = stack[2] /\ 1 \in 1..Len(rest)
  BY <1>1, <1>2, <1>3
<1>5. f \in Frame /\ f.src = stack[2].src /\ f.key = stack[2].key
  <2>1. stack[2].looping => stack[2].items # <<>>
    BY <1>1, <1>2, <1>4 DEF IInv, NestedLists
  <2> QED BY <1>4, <2>1, FrameAfterType
<1>6. f.looping => stack[2].looping /\ f.next = stack[2].next
  BY <1>4 DEF FrameAfter, Frame
<1>7. stack' = [rest EXCEPT ![1] = f]
  BY <1>4 DEF AfterInclude
<1> HIDE DEF rest, f
<1>8. /\ stack' \in Seq(Frame) /\ Len(stack') = Len(stack) - 1
      /\ stack'[1] = f
      /\ \A i \in 2..Len(stack') : stack'[i] = stack[i + 1]
  <2>1. /\ stack' \in Seq(Frame) /\ Len(stack') = Len(rest) /\ stack'[1] = f
        /\ \A i \in 1..Len(rest) : i # 1 => stack'[i] = rest[i]
    BY <1>3, <1>4, <1>5, <1>7, ExceptSeq
  <2>2. Len(stack) \in Nat /\ Len(rest) \in Nat
    BY <1>1, <1>3
  <2>3. ASSUME NEW i \in 2..Len(stack')
        PROVE  stack'[i] = stack[i + 1]
    <3>1. i \in 1..Len(rest) /\ i # 1
      BY <2>1, <2>2, <2>3
    <3> QED BY <3>1, <2>1, <1>3
  <2> QED BY <2>1, <2>3, <1>3
<1>9. \A g : TasksOf(g)' = TasksOf(g)
  BY DEF TasksOf, ThisPlay
<1>10. TasksOf(f) = TasksOf(stack[2])
  BY <1>5 DEF TasksOf
<1>11. ASSUME NEW i \in 1..Len(stack')
       PROVE  /\ stack'[i].src = "role" => stack'[i].key \in Role /\ stage = "roles"
              /\ stack'[i].src = "file" => stack'[i].key \in DOMAIN TaskFiles
              /\ stack'[i].src = "play" => stage = "tasks"
              /\ stack'[i].src = "file" <=> i < Len(stack')
  <2>1. stack'[i].src = stack[i + 1].src /\ stack'[i].key = stack[i + 1].key
    BY <1>1, <1>2, <1>5, <1>8
  <2>2. i + 1 \in DOMAIN stack
    BY <1>1, <1>8
  <2> QED BY <1>1, <1>8, <2>1, <2>2 DEF IInv, NestedLists
<1>12. ASSUME NEW i \in 1..Len(stack'), stack'[i].looping
       PROVE  /\ stack'[i].next <= Len(TasksOf(stack'[i]))
              /\ TasksOf(stack'[i])[stack'[i].next].loop.op # "none"
              /\ stack'[i].src # "file"
  <2>1. CASE i = 1
    BY <2>1, <1>1, <1>4, <1>5, <1>6, <1>8, <1>10, <1>12 DEF IInv, NestedLists
  <2>2. CASE i > 1
    <3>1. stack'[i] = stack[i + 1] /\ i + 1 \in DOMAIN stack
      BY <2>2, <1>1, <1>8
    <3> QED BY <3>1, <1>12 DEF IInv, NestedLists
  <2> QED BY <2>1, <2>2
<1>13. ASSUME NEW i \in 1..Len(stack'), i > 1
       PROVE  /\ stack'[i].next <= Len(TasksOf(stack'[i]))
              /\ TasksOf(stack'[i])[stack'[i].next].include
              /\ stack'[i].looping => stack'[i].items # <<>>
  <2>1. stack'[i] = stack[i + 1] /\ i + 1 \in DOMAIN stack /\ i + 1 > 1
    BY <1>1, <1>8, <1>13
  <2> QED BY <2>1 DEF IInv, NestedLists
<1>14. stage \notin {"match", "files"} /\ play \in DOMAIN playbook /\ stack' # <<>>
       /\ DOMAIN stack' = 1..Len(stack')
  BY <1>1, <1>2, <1>8 DEF IInv, NestedLists
<1>15. TasksOf(stack[2])[stack[2].next] \in Task
  <2>1. TasksOf(stack[2]) \in Seq(Task) /\ stack[2].next <= Len(TasksOf(stack[2]))
        /\ stack[2].next \in Nat \ {0}
    BY <1>4, TasksOfType DEF IInv, NestedLists, Frame
  <2> QED BY <2>1
<1>16. NestedLists'
  BY <1>9, <1>11, <1>12, <1>13, <1>14 DEF NestedLists
<1> QED BY <1>4, <1>8, <1>15, <1>16

LEMMA TaskStepInv ==
  ASSUME IInv, TaskStep
  PROVE  IInv'
<1>1. CASE RenderError \/ WhenError \/ ModuleError \/ IncludeError \/ LoopError
  BY <1>1, FailInv DEF RenderError, WhenError, ModuleError, IncludeError, LoopError
<1>2. CASE SkipTask
  <2>1. AtRun /\ Renders(Stored(Top), RunContext)
    BY <1>2 DEF SkipTask, TaskRenders
  <2>2. heap' \in [Ref -> VarMap]
    <3>1. "ok" \in Atom
      BY ExecuterAssumption DEF ResultText
    <3>2. Registered(RunContext, "ok") \in VarMap
      BY <2>1, <3>1, RunEffects
    <3> QED BY <1>2, <3>2, HeapType DEF SkipTask
  <2>3. stack' \in Seq(Frame) /\ NestedLists'
    BY <1>2, <2>1, RunMoves DEF SkipTask
  <2>4. DOMAIN contents' = Role /\ \A r \in Role : contents'[r] \in [DOMAIN RoleTasks[r] -> Expr]
    BY <1>2, <2>1, RunEffects DEF SkipTask
  <2> QED BY <1>2, <2>2, <2>3, <2>4 DEF SkipTask, IInv, TypeOK
<1>3. CASE RunModule
  <2>1. AtRun /\ Renders(Stored(Top), RunContext)
    BY <1>3 DEF RunModule, CanRun, TaskRenders
  <2>2. PICK result \in ResultText :
          /\ heap' = [heap EXCEPT ![Scope] = Registered(RunContext, result)]
          /\ stack' = [stack EXCEPT ![1] = FrameAfter(@, result = "changed")]
    BY <1>3 DEF RunModule
  <2>3. heap' \in [Ref -> VarMap]
    <3>1. Registered(RunContext, result) \in VarMap
      BY <2>1, RunEffects, ExecuterAssumption
    <3> QED BY <2>2, <3>1, HeapType
  <2>4. stack' \in Seq(Frame) /\ NestedLists'
    BY <1>3, <2>1, <2>2, RunMoves DEF RunModule
  <2>5. DOMAIN contents' = Role /\ \A r \in Role : contents'[r] \in [DOMAIN RoleTasks[r] -> Expr]
    BY <1>3, <2>1, RunEffects DEF RunModule
  <2>6. lastRun' \in SUBSET RunRecord
    <3>1. ThisTask.content \in Expr
      BY <2>1, TaskFacts DEF AtRun, Task
    <3>2. Rendered(Stored(Top), RunContext) \in Expr /\ RunContext \in VarMap
      BY <2>1, RunEffects, RunFacts
    <3> QED BY <1>3, <3>1, <3>2 DEF RunModule, RunRecord
  <2> QED BY <1>3, <2>3, <2>4, <2>5, <2>6 DEF RunModule, IInv, TypeOK
<1>4. CASE IncludeFile
  <2>1. AtRun /\ Renders(Stored(Top), RunContext) /\ ThisTask.include
    BY <1>4 DEF IncludeFile, CanRun, TaskRenders
  <2> DEFINE f == NewFrame("file", IncludedFile)
  <2>2. IncludedFile \in DOMAIN TaskFiles /\ IncludedFile \in Role \cup Atom \cup {"play"}
    BY <1>4, ExecuterAssumption DEF IncludeFile
  <2>3. f \in Frame /\ f.src = "file" /\ f.key = IncludedFile /\ ~f.looping
    BY <2>2, NewFrameType
  <2>4. stack' = <<f>> \o stack
    BY <1>4 DEF IncludeFile
  <2> HIDE DEF f
  <2>5. heap' \in [Ref -> VarMap]
    BY <1>4, <2>1, RunFacts, HeapType DEF IncludeFile
  <2>6. DOMAIN contents' = Role /\ \A r \in Role : contents'[r] \in [DOMAIN RoleTasks[r] -> Expr]
    BY <1>4, <2>1, RunEffects DEF IncludeFile
  <2>7. /\ stack' \in Seq(Frame) /\ Len(stack') = Len(stack) + 1 /\ Len(stack) > 0
        /\ stack'[1] = f /\ \A i \in 2..Len(stack') : stack'[i] = stack[i - 1]
    BY <2>1, <2>3, <2>4 DEF IInv, TypeOK, AtRun, AtTask
  <2>8. NestedLists'
    BY <1>4, <2>1, <2>2, <2>3, <2>7, PushNests DEF IncludeFile
  <2> QED BY <1>4, <2>5, <2>6, <2>7, <2>8 DEF IncludeFile, IInv, TypeOK
<1>5. CASE EndFile
  <2>1. /\ stack' \in Seq(Frame) /\ NestedLists'
        /\ 2 \in DOMAIN stack /\ TasksOf(stack[2])[stack[2].next] \in Task
    BY <1>5, PopNests DEF EndFile
  <2> DEFINE t == TasksOf(stack[2])[stack[2].next]
  <2>2. heap' = IF IncludeRegisters(stack[2], t)
                THEN [heap EXCEPT ![Scope][t.register] = Text("ok")]
                ELSE heap
    BY <1>5 DEF EndFile
  <2>3. IncludeRegisters(stack[2], t) => t.register \in Var
    BY <2>1 DEF IncludeRegisters, Task
  <2>4. "ok" \in Atom
    BY ExecuterAssumption DEF ResultText
  <2> HIDE DEF t
  <2>5. heap' \in [Ref -> VarMap]
    BY <2>2, <2>3, <2>4, HeapSetType DEF IInv, TypeOK
  <2> QED BY <1>5, <2>1, <2>5 DEF EndFile, IInv, TypeOK
<1>6. CASE BeginLoop
  <2>1. AtTask /\ Looped /\ ~Top.looping
    BY <1>6 DEF BeginLoop, AtLoop
  <2> DEFINE f == [Top EXCEPT !.looping = TRUE, !.changed = FALSE,
                              !.items = LoopItems(ThisTask.loop, Context)]
  <2>2. LoopItems(ThisTask.loop, Context) \in Seq(Value)
    BY <2>1, TaskFacts, LoopItemsType DEF Task
  <2>3. /\ f \in Frame /\ f.src = Top.src /\ f.key = Top.key /\ f.next = Top.next
        /\ stack' = [stack EXCEPT ![1] = f]
    BY <1>6, <2>1, <2>2, TaskFacts DEF BeginLoop, Frame, Top
  <2> HIDE DEF f
  <2>4. stack' \in Seq(Frame) /\ NestedLists'
    BY <1>6, <2>1, <2>3, TopMoves DEF BeginLoop
  <2> QED BY <1>6, <2>4 DEF BeginLoop, IInv, TypeOK
<1>7. CASE EndLoop
  <2>1. AtTask /\ Looped /\ Top.looping
    BY <1>7 DEF EndLoop
  <2> DEFINE f == LoopEnded(Top)
  <2>2. /\ f \in Frame /\ f.src = Top.src /\ f.key = Top.key /\ ~f.looping
        /\ stack' = [stack EXCEPT ![1] = f]
    <3>1. Top \in Frame /\ Top.next + 1 \in Nat \ {0}
      BY <2>1, TaskFacts DEF Frame
    <3>2. f \in Frame /\ f.src = Top.src /\ f.key = Top.key /\ ~f.looping
      BY <3>1 DEF LoopEnded, Frame
    <3>3. stack' = [stack EXCEPT ![1] = f]
      BY <1>7 DEF EndLoop, Top
    <3> QED BY <3>2, <3>3
  <2> HIDE DEF f
  <2>3. stack' \in Seq(Frame) /\ NestedLists'
    BY <1>7, <2>1, <2>2, TopMoves DEF EndLoop
  <2>4. heap' \in [Ref -> VarMap]
    <3>1. ThisTask.register # NoVar => ThisTask.register \in Var
      BY <2>1, TaskFacts DEF Task
    <3>2. (IF Top.changed THEN "changed" ELSE "ok") \in Atom
      BY ExecuterAssumption DEF ResultText
    <3> QED BY <1>7, <3>1, <3>2, HeapSetType DEF EndLoop, IInv, TypeOK
  <2> QED BY <1>7, <2>3, <2>4 DEF EndLoop, IInv, TypeOK
<1> QED BY <1>1, <1>2, <1>3, <1>4, <1>5, <1>6, <1>7 DEF TaskStep

-----------------------------------------------------------------------------
(* The theorems                                                            *)

\* The invariant is inductive.
LEMMA NextInv ==
  ASSUME IInv, [Next]_vars
  PROVE  IInv'
<1>1. CASE PlayStep
  BY <1>1, PlayStepInv
<1>2. CASE TaskStep
  BY <1>2, TaskStepInv
<1>3. CASE UNCHANGED vars
  <2>1. TypeOK'
    BY <1>3 DEF vars, IInv, TypeOK
  <2>2. NestedLists'
    BY <1>3, NestedKept DEF vars, IInv
  <2> QED BY <2>1, <2>2 DEF IInv
<1> QED BY <1>1, <1>2, <1>3 DEF Next

\* Type correctness, and how the task lists nest (Executer!NestedLists): whatever
\* is included from where, the frame below an included file waits at an include.
THEOREM Typed == Spec => []TypeOK
<1>1. IInv => TypeOK
  BY DEF IInv
<1> QED BY <1>1, InitInv, NextInv, PTL DEF Spec

THEOREM ListsNest == Spec => []NestedLists
<1>1. IInv => NestedLists
  BY DEF IInv
<1> QED BY <1>1, InitInv, NextInv, PTL DEF Spec

\* A task writes no other map than that of the scope it runs in.
LEMMA TaskWritesScope ==
  ASSUME IInv, TaskStep, NEW ref \in Ref, ref # Scope
  PROVE  heap'[ref] = heap[ref]
<1>1. heap \in [Ref -> VarMap]
  BY DEF IInv, TypeOK
<1>2. CASE RenderError \/ WhenError \/ ModuleError \/ IncludeError \/ LoopError
  BY <1>2 DEF RenderError, WhenError, ModuleError, IncludeError, LoopError, Fail
<1>3. CASE SkipTask
  BY <1>1, <1>3 DEF SkipTask
<1>4. CASE RunModule
  <2>1. PICK result \in ResultText : heap' = [heap EXCEPT ![Scope] = Registered(RunContext, result)]
    BY <1>4 DEF RunModule
  <2> QED BY <1>1, <2>1
<1>5. CASE IncludeFile
  BY <1>1, <1>5 DEF IncludeFile
<1>6. CASE EndFile
  <2> DEFINE x == TasksOf(stack[2])[stack[2].next].register
  <2>1. heap' = [heap EXCEPT ![Scope][x] = Text("ok")] \/ heap' = heap
    BY <1>6 DEF EndFile
  <2> QED BY <1>1, <2>1
<1>7. CASE BeginLoop
  BY <1>7 DEF BeginLoop
<1>8. CASE EndLoop
  BY <1>1, <1>8 DEF EndLoop
<1> QED BY <1>2, <1>3, <1>4, <1>5, <1>6, <1>7, <1>8 DEF TaskStep

\* The steps around the tasks write a play's or a role's map, and while roles run
\* only the end of one writes the play's.
LEMMA PlayWrites ==
  ASSUME IInv, PlayStep
  PROVE  /\ heap'["inventory"] = heap["inventory"]
         /\ stage = "roles" /\ stack' # <<>> => heap'["play"] = heap["play"]
<1>1. heap \in [Ref -> VarMap]
  BY DEF IInv, TypeOK
<1>2. CASE BeginPlay
  BY <1>1, <1>2 DEF BeginPlay, InPlay, PlayRef, Ref
<1>3. CASE MergeVarsFile
  BY <1>1, <1>3 DEF MergeVarsFile, InPlay, PlayRef, Ref
<1>4. CASE BeginRole
  BY <1>1, <1>4 DEF BeginRole, RoleRef, Ref
<1>5. CASE EndRole
  BY <1>1, <1>5 DEF EndRole, PlayRef, Ref
<1>6. CASE SkipPlay \/ VarsFileMissing \/ BeginRoles \/ UnknownRole \/ BeginTasks \/ EndPlay
           \/ EndPlaybook
  BY <1>6 DEF SkipPlay, VarsFileMissing, BeginRoles, UnknownRole, BeginTasks, EndPlay,
              EndPlaybook, Fail
<1> QED BY <1>2, <1>3, <1>4, <1>5, <1>6 DEF PlayStep

LEMMA StepKeepsInventory ==
  ASSUME IInv, [Next]_vars
  PROVE  heap'["inventory"] = heap["inventory"]
<1>1. "inventory" \in Ref /\ "inventory" # Scope
  BY DEF Ref, Scope, PlayRef, RoleRef
<1> QED BY <1>1, PlayWrites, TaskWritesScope DEF Next, vars

\* The inventory's variables are the same for every play, whatever is registered,
\* looped over or merged back by the plays before it.
THEOREM InventoryKept == Spec => []InventoryIntact
<1>1. Init => InventoryIntact
  BY DEF Init, InventoryIntact, Ref
<1>2. IInv /\ InventoryIntact /\ [Next]_vars => InventoryIntact'
  BY StepKeepsInventory DEF InventoryIntact
<1> QED BY <1>1, <1>2, InitInv, NextInv, PTL DEF Spec

LEMMA StepConfinesRole ==
  ASSUME IInv, [Next]_vars, stage = "roles", stack' # <<>>
  PROVE  heap'["play"] = heap["play"]
<1>1. "play" \in Ref /\ "play" # Scope
  BY DEF Ref, Scope, RoleRef
<1> QED BY <1>1, PlayWrites, TaskWritesScope DEF Next, vars

\* What a role registers, loops over or has as defaults stays in the role: while it
\* runs, the map of its play does not change.
THEOREM RolesConfined == Spec => RoleConfined
<1>1. IInv /\ [Next]_vars => [stage = "roles" /\ stack' # <<>> => heap'["play"] = heap["play"]]_vars
  BY StepConfinesRole
<1> QED BY <1>1, InitInv, NextInv, PTL DEF Spec, RoleConfined

-----------------------------------------------------------------------------
(* Which value a variable has                                              *)

LEMMA FirstOfThree ==
  ASSUME NEW a, NEW b, NEW c
  PROVE  FirstDefined(<<a, b, c>>) = IF a # Undef THEN a ELSE IF b # Undef THEN b ELSE c
<1> DEFINE s == <<a, b, c>>
           Is(i) == i \in DOMAIN s /\ s[i] # Undef /\ \A j \in 1..(i - 1) : s[j] = Undef
<1>1. DOMAIN s = 1..3 /\ s[1] = a /\ s[2] = b /\ s[3] = c
  OBVIOUS
<1> HIDE DEF s
<1>2. FirstDefined(s) = IF \E i \in DOMAIN s : s[i] # Undef THEN s[CHOOSE i \in DOMAIN s : s[i] # Undef /\ \A j \in 1..(i - 1) : s[j] = Undef] ELSE Undef
  BY DEF FirstDefined
<1>3. ASSUME NEW n \in 1..3, s[n] # Undef, \A j \in 1..(n - 1) : s[j] = Undef
      PROVE  FirstDefined(s) = s[n]
  <2>1. \A i \in DOMAIN s : s[i] # Undef /\ (\A j \in 1..(i - 1) : s[j] = Undef) => i = n
    BY <1>1, <1>3
  <2>2. n = CHOOSE i \in DOMAIN s : s[i] # Undef /\ \A j \in 1..(i - 1) : s[j] = Undef
    BY <1>1, <1>3, <2>1
  <2> QED BY <1>1, <1>2, <1>3, <2>2
<1>4. CASE a # Undef
  BY <1>1, <1>3, <1>4 DEF s
<1>5. CASE a = Undef /\ b # Undef
  <2>1. \A j \in 1..(2 - 1) : s[j] = Undef
    BY <1>1, <1>5
  <2> QED BY <1>1, <1>3, <1>5, <2>1 DEF s
<1>6. CASE a = Undef /\ b = Undef /\ c # Undef
  <2>1. \A j \in 1..(3 - 1) : s[j] = Undef
    BY <1>1, <1>6
  <2> QED BY <1>1, <1>3, <1>6, <2>1 DEF s
<1>7. CASE a = Undef /\ b = Undef /\ c = Undef
  BY <1>1, <1>2, <1>7 DEF s
<1> QED BY <1>4, <1>5, <1>6, <1>7

LEMMA StepGivesPrecedence ==
  ASSUME IInv, [Next]_vars, stage = "roles", stack = <<>>, stack' # <<>>, stage' = "roles",
         NEW x \in Var
  PROVE  LET r == ThisPlay.roles[at] IN
           heap'["role"][x] = FirstDefined(<<RoleVars[r][x], heap["play"][x], RoleDefaults[r][x]>>)
<1> DEFINE r == ThisPlay.roles[at]
<1>1. BeginRole
  BY DEF Next, PlayStep, TaskStep, vars, SkipPlay, BeginPlay, MergeVarsFile, VarsFileMissing, BeginRoles,
         UnknownRole, EndRole, BeginTasks, EndPlay, EndPlaybook, RenderError, WhenError, SkipTask,
         RunModule, ModuleError, IncludeFile, IncludeError, EndFile, BeginLoop, LoopError, EndLoop,
         CanRun, AtRun, AtTask, AtLoop, Finished, Fail, InPlay
<1>2. r \in Role /\ heap' = [heap EXCEPT !["role"] = RoleScope(r, heap["play"])]
  BY <1>1 DEF BeginRole, RoleRef, PlayRef
<1>3. heap'["role"] = RoleScope(r, heap["play"])
  BY <1>2 DEF IInv, TypeOK, Ref
<1> HIDE DEF r
<1>4. heap'["role"][x] =
        IF RoleVars[r][x] # Undef THEN RoleVars[r][x]
        ELSE IF heap["play"][x] # Undef THEN heap["play"][x] ELSE RoleDefaults[r][x]
  BY <1>3 DEF RoleScope, Merge, Empty
<1>5. heap'["role"][x] = FirstDefined(<<RoleVars[r][x], heap["play"][x], RoleDefaults[r][x]>>)
  BY <1>4, FirstOfThree
<1> QED BY <1>5 DEF r

\* A role starts with its vars before those of the play, and with its defaults after them.
THEOREM PrecedenceHolds == Spec => RolePrecedence
<1>1. IInv /\ [Next]_vars =>
        [stage = "roles" /\ stack = <<>> /\ stack' # <<>> /\ stage' = "roles" =>
           \A x \in Var : LET r == ThisPlay.roles[at] IN
             heap'["role"][x] =
               FirstDefined(<<RoleVars[r][x], heap["play"][x], RoleDefaults[r][x]>>)]_vars
  BY StepGivesPrecedence
<1> QED BY <1>1, InitInv, NextInv, PTL DEF Spec, RolePrecedence

LEMMA StepCarriesNothing ==
  ASSUME IInv, InventoryIntact, NoCarryOver, [Next]_vars
  PROVE  NoCarryOver'
<1> SUFFICES ASSUME stage' = "files", NEW x \in Var, heap'["play"][x] # Undef
             PROVE  (\/ InventoryVars[x] # Undef \/ ThisPlay.vars[x] # Undef
                     \/ \E i \in 1..(at - 1) : VarsFiles[ThisPlay.files[i]][x] # Undef)'
  BY DEF NoCarryOver
<1>1. heap \in [Ref -> VarMap] /\ "play" \in Ref
  BY DEF IInv, TypeOK, Ref
<1>2. CASE BeginPlay
  <2>1. heap'["play"] = PlayScope(ThisPlay) /\ UNCHANGED <<playbook, play>>
    BY <1>1, <1>2 DEF BeginPlay, PlayRef
  <2> QED BY <2>1 DEF PlayScope, Merge, Empty, InventoryIntact, ThisPlay
<1>3. CASE MergeVarsFile
  <2>1. /\ heap'["play"] = Merge(heap["play"], VarsFiles[ThisPlay.files[at]])
        /\ at' = at + 1 /\ UNCHANGED <<playbook, play>> /\ stage = "files"
    BY <1>1, <1>3 DEF MergeVarsFile, PlayRef, InPlay
  <2>2. heap["play"][x] # Undef \/ VarsFiles[ThisPlay.files[at]][x] # Undef
    BY <2>1 DEF Merge
  <2>3. at \in 1..(at' - 1) /\ 1..(at - 1) \subseteq 1..(at' - 1)
    BY <2>1 DEF IInv, TypeOK
  <2>4. ThisPlay' = ThisPlay
    BY <2>1 DEF ThisPlay
  <2> QED BY <2>1, <2>2, <2>3, <2>4 DEF NoCarryOver
<1>4. CASE VarsFileMissing \/ UnknownRole \/ EndPlaybook \/ UNCHANGED vars
  BY <1>4 DEF VarsFileMissing, UnknownRole, EndPlaybook, Fail, vars, NoCarryOver, ThisPlay
<1>5. ~TaskStep
  <2>1. stage \notin {"match", "files"} => stage' \notin {"match", "files"} \/ ~TaskStep
    BY DEF TaskStep, RenderError, WhenError, SkipTask, RunModule, ModuleError, IncludeFile, IncludeError,
           EndFile, BeginLoop, LoopError, EndLoop, Fail
  <2>2. TaskStep => stack # <<>>
    BY DEF TaskStep, RenderError, WhenError, SkipTask, RunModule, ModuleError, IncludeFile, IncludeError,
           EndFile, BeginLoop, LoopError, EndLoop, CanRun, AtRun, AtTask, AtLoop, Finished
  <2> QED BY <2>1, <2>2 DEF IInv, NestedLists
<1>6. CASE SkipPlay \/ BeginRoles \/ BeginRole \/ EndRole \/ BeginTasks \/ EndPlay
  BY <1>6 DEF SkipPlay, BeginRoles, BeginRole, EndRole, BeginTasks, EndPlay, BetweenRoles, InPlay
<1> QED BY <1>2, <1>3, <1>4, <1>5, <1>6 DEF Next, PlayStep

\* A play knows nothing of the plays before it, whatever they registered, looped over or
\* took from roles: every variable it starts with is the inventory's, its own or a vars file's.
THEOREM NothingCarriedOver == Spec => []NoCarryOver
<1>1. Init => NoCarryOver /\ InventoryIntact
  BY DEF Init, NoCarryOver, InventoryIntact, Ref
<1>2. IInv /\ InventoryIntact /\ NoCarryOver /\ [Next]_vars => NoCarryOver'
  BY StepCarriesNothing
<1>3. IInv /\ InventoryIntact /\ [Next]_vars => InventoryIntact'
  BY StepKeepsInventory DEF InventoryIntact
<1> QED BY <1>1, <1>2, <1>3, InitInv, NextInv, PTL DEF Spec

-----------------------------------------------------------------------------
(* The role that is being applied                                          *)

Bottom == stack[Len(stack)]

\* The list at the bottom of the stack is the current role's.
CurrentRole ==
  stage = "roles" /\ stack # <<>> =>
    at <= Len(ThisPlay.roles) /\ Bottom.src = "role" /\ Bottom.key = ThisPlay.roles[at]

\* What becomes of the bottom of the stack while tasks run.
LEMMA BottomStays ==
  ASSUME IInv, TaskStep
  PROVE  /\ stack # <<>> /\ stack' # <<>> /\ UNCHANGED <<playbook, play, stage, at>>
         /\ Bottom'.src = Bottom.src /\ Bottom'.key = Bottom.key
<1>1. UNCHANGED <<playbook, play, stage, at>>
  BY DEF TaskStep, RenderError, WhenError, SkipTask, RunModule, ModuleError, IncludeFile, IncludeError,
         EndFile, BeginLoop, LoopError, EndLoop, Fail
<1>2. stack # <<>> /\ stack \in Seq(Frame)
  BY DEF TaskStep, RenderError, WhenError, SkipTask, RunModule, ModuleError, IncludeFile, IncludeError,
         EndFile, BeginLoop, LoopError, EndLoop, CanRun, AtRun, AtTask, AtLoop, Finished, IInv, TypeOK
<1>3. CASE RenderError \/ WhenError \/ ModuleError \/ IncludeError \/ LoopError
  BY <1>1, <1>2, <1>3 DEF RenderError, WhenError, ModuleError, IncludeError, LoopError, Fail, Bottom
<1>4. ASSUME NEW f, stack' = [stack EXCEPT ![1] = f], f.src = Top.src, f.key = Top.key
      PROVE  stack' # <<>> /\ Bottom'.src = Bottom.src /\ Bottom'.key = Bottom.key
  <2>1. Len(stack) \in Nat \ {0} /\ DOMAIN stack = 1..Len(stack) /\ Len(stack') = Len(stack)
    BY <1>2, <1>4
  <2>2. stack'[Len(stack)] = IF Len(stack) = 1 THEN f ELSE stack[Len(stack)]
    BY <1>4, <2>1
  <2> QED BY <1>2, <1>4, <2>1, <2>2 DEF Bottom, Top
<1>5. \A f, c : (FrameAfter(f, c).src = f.src /\ FrameAfter(f, c).key = f.key) \/ f \notin Frame
  BY DEF FrameAfter, Frame
<1>6. Top \in Frame
  BY <1>2 DEF Top
<1>7. CASE SkipTask
  <2>1. stack' = [stack EXCEPT ![1] = FrameAfter(Top, FALSE)]
    BY <1>7 DEF SkipTask, Top
  <2> QED BY <1>1, <1>2, <1>4, <1>5, <1>6, <2>1
<1>8. CASE RunModule
  <2>1. PICK result \in ResultText : stack' = [stack EXCEPT ![1] = FrameAfter(Top, result = "changed")]
    BY <1>8 DEF RunModule, Top
  <2> QED BY <1>1, <1>2, <1>4, <1>5, <1>6, <2>1
<1>9. CASE IncludeFile
  <2> DEFINE f == NewFrame("file", IncludedFile)
  <2>1. stack' = <<f>> \o stack
    BY <1>9 DEF IncludeFile
  <2> HIDE DEF f
  <2>2. Len(stack') = Len(stack) + 1 /\ Len(stack) \in Nat \ {0}
    BY <1>2, <2>1
  <2>3. stack'[Len(stack) + 1] = stack[Len(stack)] /\ stack' # <<>>
    BY <1>2, <2>1, <2>2
  <2> QED BY <1>1, <1>2, <2>2, <2>3 DEF Bottom
<1>10. CASE EndFile
  <2> DEFINE f == FrameAfter(stack[2], FALSE)
             rest == Tail(stack)
  <2>1. Finished("file") /\ 2 \in DOMAIN stack
    BY <1>10, PopNests DEF EndFile
  <2>2. stack[2] \in Frame /\ Len(stack) \in Nat /\ Len(stack) >= 2
    BY <1>2, <2>1
  <2>3. Len(rest) = Len(stack) - 1 /\ rest[1] = stack[2] /\ rest[Len(rest)] = stack[Len(stack)]
        /\ rest \in Seq(Frame)
    BY <1>2, <2>2
  <2>4. stack' = [rest EXCEPT ![1] = f]
    BY <1>10, <2>3 DEF EndFile, AfterInclude
  <2>5. f.src = stack[2].src /\ f.key = stack[2].key
    BY <1>5, <2>2
  <2> HIDE DEF f, rest
  <2>6. Len(stack') = Len(rest) /\ stack' # <<>>
        /\ stack'[Len(rest)] = IF Len(rest) = 1 THEN f ELSE rest[Len(rest)]
    BY <2>2, <2>3, <2>4
  <2> QED BY <1>1, <1>2, <2>2, <2>3, <2>5, <2>6 DEF Bottom
<1>11. CASE BeginLoop
  <2> DEFINE f == [Top EXCEPT !.looping = TRUE, !.changed = FALSE,
                              !.items = LoopItems(ThisTask.loop, Context)]
  <2>1. stack' = [stack EXCEPT ![1] = f] /\ f.src = Top.src /\ f.key = Top.key
    BY <1>6, <1>11 DEF BeginLoop, Top, Frame
  <2> HIDE DEF f
  <2> QED BY <1>1, <1>2, <1>4, <2>1
<1>12. CASE EndLoop
  <2>1. stack' = [stack EXCEPT ![1] = LoopEnded(Top)]
    BY <1>12 DEF EndLoop, Top
  <2>2. LoopEnded(Top).src = Top.src /\ LoopEnded(Top).key = Top.key
    BY <1>6 DEF LoopEnded, Frame
  <2> QED BY <1>1, <1>2, <1>4, <2>1, <2>2
<1> QED BY <1>3, <1>7, <1>8, <1>9, <1>10, <1>11, <1>12 DEF TaskStep

LEMMA StepKeepsRole ==
  ASSUME IInv, CurrentRole, [Next]_vars
  PROVE  CurrentRole'
<1>1. CASE TaskStep
  BY <1>1, BottomStays DEF CurrentRole, ThisPlay
<1>2. CASE BeginRole
  <2> DEFINE f == NewFrame("role", ThisPlay.roles[at])
  <2>1. stack' = <<f>> /\ f.src = "role" /\ f.key = ThisPlay.roles[at] /\ at <= Len(ThisPlay.roles)
        /\ UNCHANGED <<playbook, play, at>>
    BY <1>2 DEF BeginRole, NewFrame
  <2> HIDE DEF f
  <2>2. Bottom' = f
    BY <2>1 DEF Bottom
  <2> QED BY <2>1, <2>2 DEF CurrentRole, ThisPlay
<1>3. CASE SkipPlay \/ BeginPlay \/ MergeVarsFile \/ BeginRoles \/ EndRole \/ BeginTasks \/ EndPlay
  BY <1>3 DEF SkipPlay, BeginPlay, MergeVarsFile, BeginRoles, EndRole, BeginTasks, EndPlay, InPlay,
              CurrentRole, IInv, NestedLists
<1>4. CASE VarsFileMissing \/ UnknownRole \/ EndPlaybook \/ UNCHANGED vars
  BY <1>4 DEF VarsFileMissing, UnknownRole, EndPlaybook, Fail, vars, CurrentRole, Bottom, ThisPlay
<1> QED BY <1>1, <1>2, <1>3, <1>4 DEF Next, PlayStep

\* No loop iterates over an undefined value.
AllDefined(f) == \A j \in DOMAIN f.items : f.items[j] # Undef
ItemsDefined == \A i \in DOMAIN stack : AllDefined(stack[i])

LEMMA TextDefined ==
  ASSUME NEW a
  PROVE  Text(a) # Undef
<1>1. Text(a).of = <<a>> /\ Undef.of = <<>> /\ <<a>> # <<>>
  BY DEF Text, Undef
<1> QED BY <1>1

LEMMA LoopItemsDefined ==
  ASSUME NEW map, NEW l, NEW j \in DOMAIN LoopItems(l, map)
  PROVE  LoopItems(l, map)[j] # Undef
BY TextDefined DEF LoopItems, ItemValue

LEMMA FrameAfterDefined ==
  ASSUME NEW f \in Frame, NEW c \in BOOLEAN, f.looping => f.items # <<>>, AllDefined(f)
  PROVE  AllDefined(FrameAfter(f, c))
<1>1. CASE f.looping
  <2>1. FrameAfter(f, c).items = Tail(f.items) /\ f.items \in Seq(Value) /\ f.items # <<>>
    BY <1>1 DEF FrameAfter, Frame
  <2>2. \A j \in DOMAIN Tail(f.items) : j + 1 \in DOMAIN f.items /\ Tail(f.items)[j] = f.items[j + 1]
    BY <2>1
  <2> QED BY <2>1, <2>2 DEF AllDefined
<1>2. CASE ~f.looping
  <2>1. FrameAfter(f, c).items = f.items
    BY <1>2 DEF FrameAfter, Frame
  <2> QED BY <2>1 DEF AllDefined
<1> QED BY <1>1, <1>2

LEMMA StepKeepsItems ==
  ASSUME IInv, ItemsDefined, [Next]_vars
  PROVE  ItemsDefined'
<1>1. stack \in Seq(Frame)
  BY DEF IInv, TypeOK
<1>2. ASSUME NEW f, stack # <<>>, stack' = [stack EXCEPT ![1] = f], AllDefined(f)
      PROVE  ItemsDefined'
  <2>1. \A i \in DOMAIN stack' : i \in DOMAIN stack /\ stack'[i] = IF i = 1 THEN f ELSE stack[i]
    BY <1>1, <1>2
  <2>2. \A i \in DOMAIN stack' : AllDefined(stack'[i])
    BY <1>2, <2>1 DEF ItemsDefined
  <2> QED BY <2>2 DEF ItemsDefined, AllDefined
<1>3. CASE AtRun /\ \E c \in BOOLEAN : stack' = [stack EXCEPT ![1] = FrameAfter(@, c)]
  <2>1. PICK c \in BOOLEAN : stack' = [stack EXCEPT ![1] = FrameAfter(Top, c)]
    BY <1>3 DEF Top
  <2>2. AtTask /\ Top \in Frame /\ 1 \in DOMAIN stack
    BY <1>3, TaskFacts DEF AtRun
  <2>3. Top.looping => Top.items # <<>>
    BY <1>3, <2>2 DEF IInv, NestedLists, AtRun, Looped, Direct, ThisTask, Top
  <2>4. AllDefined(Top)
    BY <2>2 DEF ItemsDefined, Top
  <2> QED BY <1>2, <2>1, <2>2, <2>3, <2>4, FrameAfterDefined DEF AtTask
<1>4. CASE SkipTask
  BY <1>3, <1>4 DEF SkipTask
<1>5. CASE RunModule
  BY <1>3, <1>5 DEF RunModule, CanRun
<1>6. CASE IncludeFile
  <2> DEFINE f == NewFrame("file", IncludedFile)
  <2>1. stack' = <<f>> \o stack /\ f.items = <<>>
    BY <1>6 DEF IncludeFile, NewFrame
  <2> HIDE DEF f
  <2>2. \A i \in DOMAIN stack' : stack'[i] = f \/ (i - 1 \in DOMAIN stack /\ stack'[i] = stack[i - 1])
    BY <1>1, <2>1
  <2>3. \A i \in DOMAIN stack' : AllDefined(stack'[i])
    BY <2>1, <2>2 DEF ItemsDefined, AllDefined
  <2> QED BY <2>3 DEF ItemsDefined, AllDefined
<1>7. CASE EndFile
  <2> DEFINE f == FrameAfter(stack[2], FALSE)
             rest == Tail(stack)
  <2>1. Finished("file") /\ 2 \in DOMAIN stack
    BY <1>7, PopNests DEF EndFile
  <2>2. stack[2] \in Frame /\ stack # <<>> /\ AllDefined(stack[2])
        /\ (stack[2].looping => stack[2].items # <<>>)
    BY <1>1, <2>1 DEF IInv, NestedLists, ItemsDefined
  <2>3. AllDefined(f)
    BY <2>2, FrameAfterDefined
  <2>4. rest[1] = stack[2] /\ rest \in Seq(Frame) /\ 1 \in DOMAIN rest
        /\ \A i \in DOMAIN rest : i + 1 \in DOMAIN stack /\ rest[i] = stack[i + 1]
    BY <1>1, <2>1, <2>2
  <2>5. stack' = [rest EXCEPT ![1] = f]
    BY <1>7, <2>4 DEF EndFile, AfterInclude
  <2> HIDE DEF f, rest
  <2>6. \A i \in DOMAIN stack' : AllDefined(stack'[i])
    BY <2>3, <2>4, <2>5 DEF ItemsDefined
  <2> QED BY <2>6 DEF ItemsDefined, AllDefined
<1>8. CASE BeginLoop
  <2> DEFINE f == [Top EXCEPT !.looping = TRUE, !.changed = FALSE,
                              !.items = LoopItems(ThisTask.loop, Context)]
  <2>1. stack # <<>> /\ Top \in Frame
    BY <1>8, TaskFacts DEF BeginLoop, AtLoop, AtTask
  <2>2. stack' = [stack EXCEPT ![1] = f] /\ f.items = LoopItems(ThisTask.loop, Context)
    BY <1>8, <2>1 DEF BeginLoop, Top, Frame
  <2> HIDE DEF f
  <2>3. AllDefined(f)
    BY <2>2, LoopItemsDefined DEF AllDefined
  <2> QED BY <1>2, <2>1, <2>2, <2>3
<1>9. CASE EndLoop
  <2>1. stack # <<>> /\ Top \in Frame /\ 1 \in DOMAIN stack
    BY <1>9, TaskFacts DEF EndLoop, AtTask
  <2>2. stack' = [stack EXCEPT ![1] = LoopEnded(Top)] /\ LoopEnded(Top).items = Top.items
    BY <1>9, <2>1 DEF EndLoop, LoopEnded, Top, Frame
  <2>3. AllDefined(LoopEnded(Top))
    BY <2>1, <2>2 DEF ItemsDefined, AllDefined, Top
  <2> QED BY <1>2, <2>1, <2>2, <2>3
<1>10. CASE stack' = stack
  BY <1>10 DEF ItemsDefined, AllDefined
<1>11. CASE stack' = <<>>
  BY <1>11 DEF ItemsDefined
<1>12. CASE BeginRole \/ BeginTasks
  <2>1. PICK f : stack' = <<f>> /\ f.items = <<>>
    BY <1>12 DEF BeginRole, BeginTasks, NewFrame
  <2> QED BY <2>1 DEF ItemsDefined, AllDefined
<1>13. CASE RenderError \/ WhenError \/ ModuleError \/ IncludeError \/ LoopError \/ UNCHANGED vars
  BY <1>10, <1>13 DEF RenderError, WhenError, ModuleError, IncludeError, LoopError, Fail, vars
<1>14. CASE SkipPlay \/ BeginPlay \/ MergeVarsFile \/ VarsFileMissing \/ BeginRoles \/ UnknownRole \/ EndRole
            \/ EndPlay \/ EndPlaybook
  BY <1>10, <1>11, <1>14 DEF SkipPlay, BeginPlay, MergeVarsFile, VarsFileMissing, BeginRoles, UnknownRole,
     EndRole, EndPlay, EndPlaybook, Fail
<1> QED BY <1>4, <1>5, <1>6, <1>7, <1>8, <1>9, <1>12, <1>13, <1>14 DEF Next, PlayStep, TaskStep

\* Tasks define variables and never undefine one.
LEMMA TasksDefine ==
  ASSUME IInv, ItemsDefined, TaskStep, NEW ref \in Ref, NEW x \in Var, heap[ref][x] # Undef
  PROVE  heap'[ref][x] # Undef
<1>1. heap \in [Ref -> VarMap] /\ Scope \in Ref
  BY DEF IInv, TypeOK, Scope, Ref, PlayRef, RoleRef
<1>2. ASSUME AtRun, heap[Scope][x] # Undef
      PROVE  RunContext[x] # Undef
  <2>1. CASE Looped
    <3>1. AtTask /\ Top.items \in Seq(Value) /\ Top.items # <<>> /\ 1 \in DOMAIN stack /\ Context \in VarMap
      BY <1>2, <2>1, TaskFacts DEF AtRun, Frame
    <3>2. Head(Top.items) # Undef
      BY <3>1 DEF ItemsDefined, AllDefined, Top
    <3> QED BY <1>2, <2>1, <3>1, <3>2 DEF RunContext, Context, VarMap
  <2>2. CASE ~Looped
    BY <1>2, <2>2 DEF RunContext, Context
  <2> QED BY <2>1, <2>2
<1>3. ASSUME AtRun, heap[Scope][x] # Undef, NEW a
      PROVE  Registered(RunContext, a)[x] # Undef
  BY <1>2, <1>3, RunFacts, TextDefined DEF Registered, VarMap
<1>4. CASE ref # Scope
  BY <1>4, TaskWritesScope
<1>5. ASSUME ref = Scope, NEW y, NEW a, heap' = [heap EXCEPT ![Scope][y] = Text(a)]
      PROVE  heap'[ref][x] # Undef
  BY <1>1, <1>5, TextDefined DEF VarMap
<1>6. CASE SkipTask /\ ref = Scope
  BY <1>1, <1>3, <1>6 DEF SkipTask
<1>7. CASE RunModule /\ ref = Scope
  <2>1. AtRun /\ \E a : heap' = [heap EXCEPT ![Scope] = Registered(RunContext, a)]
    BY <1>7 DEF RunModule, CanRun
  <2> QED BY <1>1, <1>3, <1>7, <2>1
<1>8. CASE IncludeFile /\ ref = Scope
  BY <1>1, <1>2, <1>8 DEF IncludeFile, CanRun
<1>9. CASE EndFile /\ ref = Scope
  BY <1>5, <1>9 DEF EndFile
<1>10. CASE EndLoop /\ ref = Scope
  BY <1>5, <1>10 DEF EndLoop
<1>11. CASE BeginLoop \/ RenderError \/ WhenError \/ ModuleError \/ IncludeError \/ LoopError
  BY <1>11 DEF BeginLoop, RenderError, WhenError, ModuleError, IncludeError, LoopError, Fail
<1> QED BY <1>4, <1>6, <1>7, <1>8, <1>9, <1>10, <1>11 DEF TaskStep

LEMMA StepKeepsRoleVars ==
  ASSUME IInv, ItemsDefined, CurrentRole, RoleVarsReachLater, [Next]_vars
  PROVE  RoleVarsReachLater'
<1>1. heap \in [Ref -> VarMap] /\ "play" \in Ref
  BY DEF IInv, TypeOK, Ref
<1>2. CASE TaskStep
  BY <1>1, <1>2, BottomStays, TasksDefine DEF RoleVarsReachLater, ThisPlay
<1>3. CASE EndRole
  <2>1. /\ stage = "roles" /\ at' = at + 1 /\ UNCHANGED <<playbook, play, stage>>
        /\ heap'["play"] = Merge(heap["play"], RoleVars[Top.key])
        /\ stack # <<>> /\ Top.src = "role"
    BY <1>1, <1>3 DEF EndRole, InPlay, Finished, PlayRef, MergeBack
  <2>2. stack \in Seq(Frame) /\ 1 \in DOMAIN stack
    BY <2>1 DEF IInv, TypeOK
  <2>3. Bottom = Top
    BY <2>1, <2>2 DEF IInv, NestedLists, Bottom, Top
  <2>4. Top.key = ThisPlay.roles[at] /\ ThisPlay' = ThisPlay
    BY <2>1, <2>3 DEF CurrentRole, ThisPlay
  <2>5. \A i \in 1..(at' - 1) : i \in 1..(at - 1) \/ i = at
    BY <2>1 DEF IInv, TypeOK
  <2>6. ASSUME NEW i \in 1..(at' - 1), NEW x \in Var, RoleVars[ThisPlay.roles[i]][x] # Undef
        PROVE  heap'["play"][x] # Undef
    BY <2>1, <2>4, <2>5, <2>6 DEF RoleVarsReachLater, Merge
  <2> QED BY <2>1, <2>4, <2>6 DEF RoleVarsReachLater
<1>4. CASE BeginRole \/ BeginTasks
  <2>1. heap'["play"] = heap["play"] /\ UNCHANGED <<playbook, play, at>> /\ stage = "roles"
    BY <1>1, <1>4 DEF BeginRole, BeginTasks, RoleRef, BetweenRoles, InPlay
  <2> QED BY <2>1 DEF RoleVarsReachLater, ThisPlay
<1>5. CASE BeginRoles
  BY <1>5 DEF BeginRoles, RoleVarsReachLater
<1>6. CASE SkipPlay \/ BeginPlay \/ MergeVarsFile \/ EndPlay
  BY <1>6 DEF SkipPlay, BeginPlay, MergeVarsFile, EndPlay, InPlay, RoleVarsReachLater
<1>7. CASE VarsFileMissing \/ UnknownRole \/ EndPlaybook \/ UNCHANGED vars
  BY <1>7 DEF VarsFileMissing, UnknownRole, EndPlaybook, Fail, vars, RoleVarsReachLater, ThisPlay
<1> QED BY <1>2, <1>3, <1>4, <1>5, <1>6, <1>7 DEF Next, PlayStep

LEMMA RoleInvariance == Spec => [](IInv /\ CurrentRole /\ ItemsDefined)
<1>1. Init => CurrentRole /\ ItemsDefined
  BY DEF Init, CurrentRole, ItemsDefined
<1> QED BY <1>1, InitInv, NextInv, StepKeepsRole, StepKeepsItems, PTL DEF Spec

\* The vars of a role stay defined for all that comes after it in its play, whatever later
\* roles and tasks register over them or loop with.
THEOREM RoleVarsStay == Spec => []RoleVarsReachLater
<1>1. Init => RoleVarsReachLater
  BY DEF Init, RoleVarsReachLater
<1> QED BY <1>1, RoleInvariance, StepKeepsRoleVars, PTL DEF Spec

-----------------------------------------------------------------------------
(* What rendering in place leaves in memory                                *)

\* Past applications, and what the current one has been through.
Past(k) == k[1] < play \/ (k[1] = play /\ stage \in {"roles", "tasks"} /\ k[2] < at)
Now(k, n) == /\ stage = "roles" /\ stack # <<>> /\ k = <<play, at>>
             /\ n < Bottom.next \/ (n = Bottom.next /\ Len(stack) > 1 /\ ~Bottom.looping)

\* The content of a role's task has been rendered in place only by an application of the
\* role that has come to that task.
MemoryOK ==
  \A r \in Role : \A n \in DOMAIN RoleTasks[r] :
    contents[r][n] # RoleTasks[r][n].content =>
      \E k \in RolesOf(playbook) : RoleAt(playbook, k) = r /\ (Past(k) \/ Now(k, n))

LEMMA RolesOfType ==
  ASSUME IInv, NEW k \in RolesOf(playbook)
  PROVE  k[1] \in DOMAIN playbook /\ k[2] \in DOMAIN playbook[k[1]].roles /\ k = <<k[1], k[2]>>
BY DEF RolesOf

\* The application of the current role.
LEMMA CurrentApplication ==
  ASSUME IInv, CurrentRole, stage = "roles", stack # <<>>
  PROVE  <<play, at>> \in RolesOf(playbook) /\ RoleAt(playbook, <<play, at>>) = Bottom.key
<1>1. play \in DOMAIN playbook /\ playbook \in Seq(Play) /\ at \in Nat \ {0}
  BY ExecuterAssumption DEF IInv, TypeOK, NestedLists
<1>2. ThisPlay \in Play
  BY <1>1 DEF ThisPlay
<1>3. ThisPlay.roles \in Seq(STRING)
  BY <1>2 DEF Play
<1>4. at <= Len(ThisPlay.roles)
  BY DEF CurrentRole
<1>5. at \in DOMAIN ThisPlay.roles
  BY <1>1, <1>3, <1>4
<1> QED BY <1>1, <1>5 DEF RolesOf, RoleAt, ThisPlay, CurrentRole

\* A role's list is alone on the stack while its own tasks run.
LEMMA RoleOnTop ==
  ASSUME IInv, AtTask, Top.src # "file"
  PROVE  Len(stack) = 1 /\ Bottom = Top
<1>1. stack \in Seq(Frame) /\ 1 \in DOMAIN stack
  BY TaskFacts DEF IInv, TypeOK
<1>2. stack[1].src = "file" <=> 1 < Len(stack)
  BY <1>1 DEF IInv, NestedLists
<1>3. ~(1 < Len(stack))
  BY <1>2 DEF Top
<1>4. Len(stack) \in Nat /\ DOMAIN stack = 1..Len(stack)
  BY <1>1
<1>5. Len(stack) = 1
  BY <1>1, <1>3, <1>4
<1> QED BY <1>5 DEF Top, Bottom

\* What the applications have been through does not shrink while tasks run.
LEMMA NowGrows ==
  ASSUME IInv, TaskStep, NEW k, NEW n \in Nat, Now(k, n)
  PROVE  Now(k, n)'
<1>1. /\ stack # <<>> /\ stack' # <<>> /\ UNCHANGED <<playbook, play, stage, at>>
      /\ stack \in Seq(Frame) /\ Len(stack) \in Nat \ {0} /\ Bottom \in Frame
  BY BottomStays DEF IInv, TypeOK, Bottom
<1>2. CASE stack' = stack
  BY <1>1, <1>2 DEF Now, Bottom
<1>3. CASE Len(stack) > 1 /\ \E f : stack' = [stack EXCEPT ![1] = f]
  <2>1. Len(stack') = Len(stack) /\ stack'[Len(stack)] = stack[Len(stack)]
    BY <1>1, <1>3
  <2> QED BY <1>1, <1>3, <2>1 DEF Now, Bottom
<1>4. ASSUME NEW f, Len(stack) = 1, stack' = [stack EXCEPT ![1] = f],
             f.next \in Nat, f.next >= Top.next
      PROVE  Now(k, n)'
  <2>1. Len(stack') = 1 /\ Bottom' = f /\ Bottom = Top /\ Top.next \in Nat
    BY <1>1, <1>4 DEF Bottom, Top, Frame
  <2> QED BY <1>1, <1>4, <2>1 DEF Now
<1>5. \A c : Top \in Frame /\ FrameAfter(Top, c).next \in Nat /\ FrameAfter(Top, c).next >= Top.next
  <2>1. Top \in Frame
    BY <1>1 DEF Top
  <2>2. Top.next \in Nat
    BY <2>1 DEF Frame
  <2>3. \A c : FrameAfter(Top, c).next = IF Top.looping THEN Top.next ELSE Top.next + 1
    BY <2>1 DEF FrameAfter, Frame
  <2> QED BY <2>1, <2>2, <2>3
<1>0. Len(stack) = 1 \/ Len(stack) > 1
  <2>1. Len(stack) \in Nat \ {0}
    BY <1>1
  <2>2. \A l \in Nat \ {0} : l = 1 \/ l > 1
    OBVIOUS
  <2> QED BY <2>1, <2>2
<1>6. CASE \E c : stack' = [stack EXCEPT ![1] = FrameAfter(@, c)]
  <2>1. PICK c : stack' = [stack EXCEPT ![1] = FrameAfter(Top, c)]
    BY <1>6 DEF Top
  <2> QED BY <1>0, <1>3, <1>4, <1>5, <2>1
<1>7. CASE SkipTask \/ RunModule
  BY <1>6, <1>7 DEF SkipTask, RunModule
<1>8. CASE BeginLoop
  <2> DEFINE f == [Top EXCEPT !.looping = TRUE, !.changed = FALSE,
                              !.items = LoopItems(ThisTask.loop, Context)]
  <2>1. stack' = [stack EXCEPT ![1] = f] /\ f.next = Top.next /\ Top.next \in Nat
    BY <1>5, <1>8 DEF BeginLoop, Top, Frame
  <2> HIDE DEF f
  <2>2. f.next >= Top.next
    BY <2>1
  <2> QED BY <1>0, <1>3, <1>4, <2>1, <2>2
<1>9. CASE EndLoop
  <2>1. stack' = [stack EXCEPT ![1] = LoopEnded(Top)] /\ LoopEnded(Top).next = Top.next + 1
        /\ Top.next \in Nat
    BY <1>5, <1>9 DEF EndLoop, LoopEnded, Top, Frame
  <2>2. LoopEnded(Top).next \in Nat /\ LoopEnded(Top).next >= Top.next
    BY <2>1
  <2> QED BY <1>0, <1>3, <1>4, <2>1, <2>2
<1>10. CASE IncludeFile
  <2> DEFINE f == NewFrame("file", IncludedFile)
  <2>1. stack' = <<f>> \o stack
    BY <1>10 DEF IncludeFile
  <2> HIDE DEF f
  <2>2. Len(stack') = Len(stack) + 1 /\ stack'[Len(stack) + 1] = stack[Len(stack)]
    BY <1>1, <2>1
  <2>3. Bottom' = Bottom /\ Len(stack') > 1
    BY <1>1, <2>2 DEF Bottom
  <2> QED BY <1>1, <2>3 DEF Now
<1>11. CASE EndFile
  <2> DEFINE f == FrameAfter(stack[2], FALSE)
             rest == Tail(stack)
  <2>1. Finished("file") /\ 2 \in DOMAIN stack
    BY <1>11, PopNests DEF EndFile
  <2>2. /\ rest[1] = stack[2] /\ rest \in Seq(Frame) /\ Len(rest) = Len(stack) - 1
        /\ rest[Len(rest)] = stack[Len(stack)] /\ Len(stack) >= 2
    BY <1>1, <2>1
  <2>3. stack' = [rest EXCEPT ![1] = f]
    BY <1>11, <2>2 DEF EndFile, AfterInclude
  <2>4. /\ f.next \in Nat /\ f.next >= stack[2].next /\ stack[2].next \in Nat
        /\ ~stack[2].looping => f.next = stack[2].next + 1
    <3>1. stack[2] \in Frame
      BY <1>1, <2>1
    <3> QED BY <3>1 DEF FrameAfter, Frame
  <2> HIDE DEF f, rest
  <2>5. Len(stack') = Len(rest) /\ stack'[Len(rest)] = IF Len(rest) = 1 THEN f ELSE rest[Len(rest)]
    BY <2>2, <2>3
  <2>6. CASE Len(rest) = 1
    <3>1. Bottom' = f /\ Bottom = stack[2]
      BY <1>1, <2>2, <2>5, <2>6 DEF Bottom
    <3> QED BY <1>1, <2>4, <3>1 DEF Now
  <2>7. CASE Len(rest) # 1
    <3>1. Bottom' = Bottom /\ Len(stack') > 1
      BY <1>1, <2>2, <2>5, <2>7 DEF Bottom
    <3> QED BY <1>1, <3>1 DEF Now
  <2> QED BY <2>6, <2>7
<1>12. CASE RenderError \/ WhenError \/ ModuleError \/ IncludeError \/ LoopError
  BY <1>2, <1>12 DEF RenderError, WhenError, ModuleError, IncludeError, LoopError, Fail
<1> QED BY <1>7, <1>8, <1>9, <1>10, <1>11, <1>12 DEF TaskStep

\* A task that is rendered in place has been come to after that.
LEMMA Rendering ==
  ASSUME IInv, CurrentRole, SkipTask \/ RunModule \/ IncludeFile,
         InPlace, Top.src = "role"
  PROVE  /\ Top.key = RoleAt(playbook, <<play, at>>)
         /\ \A k, n : k = <<play, at>> /\ n = Top.next => Now(k, n)'
<1>1. AtTask /\ AtRun /\ TaskStep
  BY DEF SkipTask, RunModule, IncludeFile, CanRun, AtRun, TaskStep
<1>2. Len(stack) = 1 /\ Bottom = Top /\ Top \in Frame /\ 1 \in DOMAIN stack
  BY <1>1, RoleOnTop, TaskFacts
<1>3. stage = "roles" /\ stack # <<>> /\ stack \in Seq(Frame)
  <2>1. stack \in Seq(Frame) /\ stack # <<>>
    BY <1>2 DEF IInv, TypeOK
  <2>2. stack[1].src = "role" => stage = "roles"
    BY <1>2 DEF IInv, NestedLists
  <2> QED BY <2>1, <2>2 DEF Top
<1>4. UNCHANGED <<play, stage, at>> /\ stack' # <<>>
  BY <1>1, BottomStays
<1>5. ~Top.looping
  BY <1>2 DEF InPlace, IInv, NestedLists, Looped, Direct, ThisTask, Top
<1>6. \A c : FrameAfter(Top, c).next = Top.next + 1 /\ Top.next \in Nat
  BY <1>2, <1>5 DEF FrameAfter, Frame
<1>7. CASE SkipTask \/ RunModule
  <2>1. PICK c : stack' = [stack EXCEPT ![1] = FrameAfter(Top, c)]
    BY <1>7 DEF SkipTask, RunModule, Top
  <2>2. Bottom' = FrameAfter(Top, c) /\ Top.next < Bottom'.next
    <3>1. Len(stack') = 1 /\ stack'[1] = FrameAfter(Top, c)
      BY <1>2, <1>3, <2>1
    <3> QED BY <1>6, <3>1 DEF Bottom
  <2> QED BY <1>2, <1>3, <1>4, <1>6, <2>2, CurrentApplication DEF Now
<1>8. CASE IncludeFile
  <2> DEFINE f == NewFrame("file", IncludedFile)
  <2>1. stack' = <<f>> \o stack
    BY <1>8 DEF IncludeFile
  <2> HIDE DEF f
  <2>2. Len(stack') = 2 /\ Bottom' = Top
    <3>1. stack' \in Seq(Frame \cup {f}) /\ Len(stack') = Len(stack) + 1 /\ stack'[2] = stack[1]
      BY <1>3, <2>1
    <3>2. Len(stack') = 2
      BY <1>2, <3>1
    <3> QED BY <3>1, <3>2 DEF Bottom, Top
  <2> QED BY <1>2, <1>3, <1>4, <1>5, <2>2, CurrentApplication DEF Now
<1> QED BY <1>7, <1>8

LEMMA StepKeepsMemory ==
  ASSUME IInv, CurrentRole, MemoryOK, [Next]_vars
  PROVE  MemoryOK'
<1> SUFFICES ASSUME NEW r \in Role, NEW n \in DOMAIN RoleTasks[r],
                    contents'[r][n] # RoleTasks[r][n].content
             PROVE  \E k \in RolesOf(playbook)' :
                      RoleAt(playbook, k)' = r /\ (Past(k)' \/ Now(k, n)')
  BY DEF MemoryOK
<1>1. n \in Nat
  <2>1. RoleTasks[r] \in Seq(Task)
    BY ExecuterAssumption
  <2> QED BY <2>1
<1>2. playbook' = playbook
  BY DEF Next, PlayStep, TaskStep, vars, SkipPlay, BeginPlay, MergeVarsFile, VarsFileMissing, BeginRoles,
     UnknownRole, BeginRole, EndRole, BeginTasks, EndPlay, EndPlaybook, RenderError, WhenError, SkipTask,
     RunModule, ModuleError, IncludeFile, IncludeError, EndFile, BeginLoop, LoopError, EndLoop, Fail
<1>3. SUFFICES \E k \in RolesOf(playbook) : RoleAt(playbook, k) = r /\ (Past(k)' \/ Now(k, n)')
  BY <1>2 DEF RolesOf, RoleAt
<1>4. CASE contents'[r][n] = contents[r][n]
  <2>1. PICK k \in RolesOf(playbook) : RoleAt(playbook, k) = r /\ (Past(k) \/ Now(k, n))
    BY <1>4 DEF MemoryOK
  <2>2. SUFFICES Past(k)' \/ Now(k, n)'
    BY <2>1
  <2>3. /\ k[1] \in Nat \ {0} /\ k[2] \in Nat \ {0} /\ k = <<k[1], k[2]>>
        /\ play \in Nat /\ at \in Nat
    <3>1. playbook \in Seq(Play) /\ k[1] \in DOMAIN playbook
      BY <2>1, RolesOfType, ExecuterAssumption DEF IInv, TypeOK
    <3>2. playbook[k[1]] \in Play
      BY <3>1
    <3>3. playbook[k[1]].roles \in Seq(STRING)
      BY <3>2 DEF Play
    <3>4. k[2] \in DOMAIN playbook[k[1]].roles /\ k = <<k[1], k[2]>>
      BY <2>1, RolesOfType
    <3> QED BY <3>1, <3>3, <3>4 DEF IInv, TypeOK
  <2>4. CASE TaskStep
    BY <1>1, <2>1, <2>4, BottomStays, NowGrows DEF Past
  <2>5. CASE EndRole
    <3>1. stage = "roles" /\ stage' = "roles" /\ play' = play /\ at' = at + 1
      BY <2>5 DEF EndRole, InPlay
    <3> QED BY <2>1, <2>3, <3>1 DEF Past, Now
  <2>6. CASE BeginRole \/ BeginTasks
    <3>1. stage = "roles" /\ stage' \in {"roles", "tasks"} /\ UNCHANGED <<play, at>> /\ stack = <<>>
      BY <2>6 DEF BeginRole, BeginTasks, BetweenRoles, InPlay
    <3> QED BY <2>1, <3>1 DEF Past, Now
  <2>7. CASE SkipPlay \/ EndPlay
    <3>1. play' = play + 1 /\ stage # "roles"
      BY <2>7 DEF SkipPlay, EndPlay, InPlay
    <3> QED BY <2>1, <2>3, <3>1 DEF Past, Now
  <2>8. CASE BeginPlay \/ MergeVarsFile \/ BeginRoles
    <3>1. play' = play /\ stage \in {"match", "files"}
      BY <2>8 DEF BeginPlay, MergeVarsFile, BeginRoles, InPlay
    <3> QED BY <2>1, <2>3, <3>1 DEF Past, Now
  <2>9. CASE VarsFileMissing \/ UnknownRole \/ EndPlaybook \/ UNCHANGED vars
    BY <2>1, <2>9 DEF VarsFileMissing, UnknownRole, EndPlaybook, Fail, vars, Past, Now, Bottom
  <2> QED BY <2>4, <2>5, <2>6, <2>7, <2>8, <2>9 DEF Next, PlayStep
<1>5. CASE contents'[r][n] # contents[r][n]
  <2>1. (SkipTask \/ RunModule \/ IncludeFile) /\ contents' = ContentsAfter
    BY <1>5 DEF Next, PlayStep, TaskStep, vars, SkipPlay, BeginPlay, MergeVarsFile, VarsFileMissing, BeginRoles,
       UnknownRole, BeginRole, EndRole, BeginTasks, EndPlay, EndPlaybook, RenderError, WhenError, SkipTask,
       RunModule, ModuleError, IncludeFile, IncludeError, EndFile, BeginLoop, LoopError, EndLoop, Fail
  <2>2. InPlace /\ Top.src = "role"
    BY <1>5, <2>1 DEF ContentsAfter
  <2>3. r = Top.key /\ n = Top.next
    <3> DEFINE e == Rendered(Stored(Top), RunContext)
    <3>1. contents' = [contents EXCEPT ![Top.key][Top.next] = e]
      BY <2>1, <2>2 DEF ContentsAfter
    <3> HIDE DEF e
    <3> QED BY <1>5, <3>1 DEF IInv, TypeOK
  <2>4. /\ Top.key = RoleAt(playbook, <<play, at>>)
        /\ \A k : k = <<play, at>> => Now(k, n)'
    BY <2>1, <2>2, <2>3, Rendering
  <2>5. stage = "roles" /\ stack # <<>>
    <3>1. AtTask
      BY <2>1 DEF SkipTask, RunModule, IncludeFile, CanRun, AtRun
    <3> QED BY <2>2, <3>1, TaskFacts DEF IInv, NestedLists, Top, AtTask
  <2> QED BY <2>3, <2>4, <2>5, CurrentApplication
<1> QED BY <1>4, <1>5

\* What a module is applied with, when no role is applied twice.
LEMMA StepRendersInScope ==
  ASSUME IInv, CurrentRole, MemoryOK, NoRoleTwice(playbook), RenderedInScope, [Next]_vars
  PROVE  RenderedInScope'
<1>1. CASE RunModule
  <2>1. AtTask /\ lastRun' = {[template |-> ThisTask.content, got |-> Rendered(Stored(Top), RunContext),
                               map |-> RunContext]}
    BY <1>1 DEF RunModule, CanRun, AtRun
  <2>2. Stored(Top) = ThisTask.content
    <3>1. CASE Top.src # "role"
      BY <3>1 DEF Stored, ThisTask
    <3>2. CASE Top.src = "role"
      <4>1. Len(stack) = 1 /\ Bottom = Top /\ 1 \in DOMAIN stack /\ Top \in Frame
        BY <2>1, <3>2, RoleOnTop, TaskFacts
      <4>2. stage = "roles" /\ stack # <<>> /\ Top.key \in Role /\ Top.next \in DOMAIN RoleTasks[Top.key]
        BY <2>1, <3>2, <4>1, TaskFacts DEF IInv, NestedLists, Top, TasksOf
      <4>3. <<play, at>> \in RolesOf(playbook) /\ RoleAt(playbook, <<play, at>>) = Top.key
        BY <4>1, <4>2, CurrentApplication
      <4>4. \A k \in RolesOf(playbook) : RoleAt(playbook, k) = Top.key => k = <<play, at>>
        BY <4>3 DEF NoRoleTwice
      <4>5. ~Past(<<play, at>>) /\ ~Now(<<play, at>>, Top.next)
        BY <4>1 DEF Past, Now, IInv, TypeOK, Frame
      <4>6. contents[Top.key][Top.next] = RoleTasks[Top.key][Top.next].content
        BY <4>2, <4>4, <4>5 DEF MemoryOK
      <4> QED BY <3>2, <4>6 DEF Stored, ThisTask, TasksOf
    <3> QED BY <3>1, <3>2
  <2> QED BY <2>1, <2>2 DEF RenderedInScope
<1>2. CASE ~RunModule
  <2>1. lastRun' = lastRun
    BY <1>2 DEF Next, PlayStep, TaskStep, vars, SkipPlay, BeginPlay, MergeVarsFile, VarsFileMissing, BeginRoles,
       UnknownRole, BeginRole, EndRole, BeginTasks, EndPlay, EndPlaybook, RenderError, WhenError, SkipTask,
       ModuleError, IncludeFile, IncludeError, EndFile, BeginLoop, LoopError, EndLoop, Fail
  <2> QED BY <2>1 DEF RenderedInScope
<1> QED BY <1>1, <1>2

\* Where no playbook applies a role twice, every module gets its template rendered from the
\* variables in scope, although tasks are rendered in place in memory that outlives them.
THEOREM RenderedFresh ==
  ASSUME \A pb \in Playbooks : NoRoleTwice(pb)
  PROVE  Spec => []RenderedInScope
<1>1. Init => MemoryOK /\ RenderedInScope
  BY DEF Init, MemoryOK, RenderedInScope
<1>2. IInv => NoRoleTwice(playbook)
  BY DEF IInv, TypeOK
<1>3. IInv /\ CurrentRole /\ MemoryOK /\ [Next]_vars => MemoryOK'
  BY StepKeepsMemory
<1>4. IInv /\ CurrentRole /\ MemoryOK /\ RenderedInScope /\ [Next]_vars => RenderedInScope'
  BY <1>2, StepRendersInScope
<1> QED BY <1>1, <1>3, <1>4, RoleInvariance, PTL DEF Spec
=============================================================================
