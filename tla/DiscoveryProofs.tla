-------------------------- MODULE DiscoveryProofs --------------------------
(***************************************************************************)
(* Proofs about Discovery, for every tree of directories and files.        *)
(***************************************************************************)
EXTENDS Discovery, TLAPS

-----------------------------------------------------------------------------
(* Types                                                                   *)

\* What of the tree the steps look at.
LEMMA TreeType ==
  ASSUME TypeOK, place # "other"
  PROVE  /\ place = "tasks" => Here \in TasksPlace
         /\ place # "tasks" => place \in {"defaults", "vars"} /\ Here \in VarsPlace
BY DEF TypeOK, Here, Entry

\* A role keeps its type when one of its fields is replaced.
LEMMA RoleType ==
  ASSUME NEW r \in Role
  PROVE  /\ \A m \in VarMap : [r EXCEPT !.defaults = m] \in Role /\ [r EXCEPT !.vars = m] \in Role
         /\ \A s \in Seq(Known) : [r EXCEPT !.tasks = s] \in Role
         /\ r.defaults \in VarMap /\ r.vars \in VarMap /\ r.tasks \in Seq(Known)
BY DEF Role

\* Merging gives a map of variables.
LEMMA MergeType == \A a, b \in VarMap : Merge(a, b) \in VarMap
BY DEF Merge, VarMap

\* The tasks that are decoded are of known modules.
LEMMA DecodedType ==
  ASSUME NEW c \in Seq(SUBSET Key), NEW s \in Decoded(c)
  PROVE  s \in Seq(Known)
BY DEF Decoded

\* The types hold initially.
LEMMA InitType == Init => TypeOK
<1> SUFFICES ASSUME Init PROVE TypeOK
  OBVIOUS
<1>1. role \in Role
  BY DEF Init, NoRole, Role, Empty, VarMap
<1>2. tree \in [RoleName -> Entry]
  BY DiscoveryAssumption DEF DiscoveryAssumption, Init
<1>3. DOMAIN roles = {}
  BY DEF Init, NoRoles
<1>4. /\ todo \subseteq RoleName /\ at \in RoleName /\ place = "defaults"
      /\ pc = "entries" /\ rest = {} /\ isARole \in BOOLEAN
  BY DEF Init
<1> QED BY <1>1, <1>2, <1>3, <1>4 DEF TypeOK

\* Every step keeps the types.
LEMMA NextType == TypeOK /\ [Next]_vars => TypeOK'
<1> SUFFICES ASSUME TypeOK, [Next]_vars PROVE TypeOK'
  OBVIOUS
<1>0. NoRole \in Role
  BY DEF NoRole, Role, Empty, VarMap
<1> USE DEF TypeOK
<1>a. ASSUME NEW r \in todo, SkipFile(r) PROVE TypeOK'
  BY <1>a DEF SkipFile
<1>b. ASSUME NEW r \in todo, MaybeRole(r) PROVE TypeOK'
  BY <1>0, <1>b DEF MaybeRole
<1>c. CASE Finish
  BY <1>c DEF Finish
<1>d. CASE NoPlace \/ Nothing \/ WalkEnds
  BY <1>d DEF NoPlace, Nothing, WalkEnds, Leave, NextPlace
<1>e. CASE EnterPlace
  BY <1>e DEF EnterPlace
<1>f. CASE EndRole
  BY <1>f DEF EndRole
<1>g. CASE InFile \/ IsADirectory \/ LoadFails \/ WalkFails \/ ReadFails
  BY <1>g DEF InFile, IsADirectory, LoadFails, WalkFails, ReadFails, Fails, NoRoles
<1>h. CASE NotThere("yml", "yaml") \/ NotThere("yaml", "main")
  BY <1>h DEF NotThere
<1>i. CASE Load
  <2>1. pc \in {"yml", "yaml", "main"} /\ place # "other"
    BY <1>i DEF Load
  <2>2. role' \in Role
    <3>1. CASE place = "tasks"
      <4>1. Here[pc].content \in Seq(SUBSET Key) \cup {Bad} /\ Here[pc].content # Bad
        BY <1>i, <2>1, <3>1, TreeType DEF Load, CanDecode, TasksPlace, Place, Node
      <4>2. PICK s \in Decoded(Here[pc].content) : role' = [role EXCEPT !.tasks = s]
        BY <1>i, <3>1 DEF Load
      <4>3. s \in Seq(Known)
        BY <4>1, <4>2, DecodedType
      <4> QED BY <4>2, <4>3, RoleType
    <3>2. CASE place # "tasks"
      <4>1. Here[pc].content \in VarMap
        BY <1>i, <2>1, <3>2, TreeType DEF Load, CanDecode, VarsPlace, Place, Node
      <4>2. role' = [role EXCEPT ![place] = Here[pc].content]
        BY <1>i, <3>2 DEF Load
      <4>3. place = "defaults" \/ place = "vars"
        BY <2>1, <3>2
      <4>4. CASE place = "defaults"
        <5>1. role' = [role EXCEPT !.defaults = Here[pc].content]
          BY <4>2, <4>4
        <5> QED BY <4>1, <5>1, RoleType
      <4>5. CASE place = "vars"
        <5>1. role' = [role EXCEPT !.vars = Here[pc].content]
          BY <4>2, <4>5
        <5> QED BY <4>1, <5>1, RoleType
      <4> QED BY <4>3, <4>4, <4>5
    <3> QED BY <3>1, <3>2
  <2> QED BY <1>i, <2>2 DEF Load, Leave, NextPlace
<1>j. CASE MainDirectory
  <2>1. CASE place = "tasks"
    BY <1>j, <2>1 DEF MainDirectory, Leave, NextPlace
  <2>2. CASE place # "tasks"
    <3>1. Here.main.files \subseteq File(VarMap \cup {Bad})
      BY <1>j, <2>2, TreeType DEF MainDirectory, VarsPlace, Place, Node
    <3> QED BY <1>j, <2>2, <3>1 DEF MainDirectory
  <2> QED BY <2>1, <2>2
<1>k. CASE WalkFile
  <2>1. place \in {"defaults", "vars"} /\ place # "other"
    BY <1>k DEF WalkFile
  <2>2. PICK f \in rest : /\ f.content # Bad /\ rest' = rest \ {f}
                         /\ role' = [role EXCEPT ![place] = Merge(role[place], f.content)]
    BY <1>k DEF WalkFile
  <2> DEFINE m == f.content
  <2>3. m \in VarMap
    BY <2>2 DEF File
  <2>4. role' \in Role
    <3>1. role' = [role EXCEPT ![place] = Merge(role[place], m)]
      BY <2>2
    <3> HIDE DEF m
    <3>2. CASE place = "defaults"
      <4>1. role' = [role EXCEPT !.defaults = Merge(role.defaults, m)]
        BY <3>1, <3>2
      <4> QED BY <2>3, <4>1, RoleType, MergeType
    <3>3. CASE place = "vars"
      <4>1. role' = [role EXCEPT !.vars = Merge(role.vars, m)]
        BY <3>1, <3>3
      <4> QED BY <2>3, <4>1, RoleType, MergeType
    <3> QED BY <2>1, <3>2, <3>3
  <2> QED BY <1>k, <2>1, <2>2, <2>4 DEF WalkFile
<1>l. CASE Returned
  BY <1>l DEF Returned, vars
<1>m. CASE UNCHANGED vars
  BY <1>m DEF vars
<1> QED BY <1>a, <1>b, <1>c, <1>d, <1>e, <1>f, <1>g, <1>h, <1>i, <1>j, <1>k, <1>l, <1>m DEF Next
\* What the executer gets are roles, of maps of variables and tasks of known modules.
THEOREM Types == Spec => []TypeOK
<1>1. Init => TypeOK
  BY InitType
<1>2. TypeOK /\ [Next]_vars => TypeOK'
  BY NextType
<1> QED BY <1>1, <1>2, PTL DEF Spec

-----------------------------------------------------------------------------
(* The roles that are discovered                                           *)

Inside == pc \in {"stat", "yml", "yaml", "main", "walk"}

\* What of a place is known not to be there, and what of main/ is merged.
AtNode ==
  /\ pc # "stat" => place # "other" /\ ~Missing
  /\ pc \in {"yaml", "main", "walk"} => Here.kind = "dir" /\ Here.yml.kind = "none"
  /\ pc \in {"main", "walk"} => Here.yaml.kind = "none"
  /\ pc = "walk" => /\ place \in {"defaults", "vars"} /\ Here.main.kind = "dir"
                    /\ rest \subseteq Here.main.files
                    /\ LastWins(Here.main.files \ rest, role[place])
                    /\ \A g \in Here.main.files \ rest, h \in rest : Before(g.path, h.path)

\* The places before this one are in the role as they should be, and the later ones are not.
RoleSoFar ==
  /\ place # "defaults" => VarsRight(tree[at].defaults, role.defaults)
  /\ place \in {"tasks", "other"} => VarsRight(tree[at].vars, role.vars)
  /\ place = "other" => TasksRight(tree[at].tasks, role.tasks)
  /\ place = "defaults" /\ pc # "walk" => role.defaults = Empty
  /\ place = "defaults" \/ (place = "vars" /\ pc # "walk") => role.vars = Empty
  /\ place # "other" => role.tasks = <<>>

IsARoleSoFar ==
  isARole = (\/ place # "defaults" /\ tree[at].defaults.kind # "none"
             \/ place \in {"tasks", "other"} /\ tree[at].vars.kind # "none"
             \/ place = "other" /\ tree[at].tasks.kind = "dir"
             \/ pc # "stat")

Seen == IF Inside THEN RoleName \ (todo \cup {at}) ELSE RoleName \ todo
RolesSoFar == /\ DOMAIN roles = {r \in Seen : IsRole(tree[r])}
              /\ \A r \in DOMAIN roles : RoleRight(r)

Sound ==
  /\ Inside => at \notin todo /\ tree[at].dir /\ RoleSoFar /\ IsARoleSoFar /\ AtNode
  /\ pc # "failed" => RolesSoFar
  /\ pc = "done" => todo = {}
  /\ pc = "failed" => roles = NoRoles

\* One more file is merged, which comes after the others.
LEMMA LastWinsNext ==
  ASSUME NEW files, NEW f, f \notin files, f.content # Bad, NEW m, LastWins(files, m),
         \A g \in files : Before(g.path, f.path)
  PROVE  LastWins(files \cup {f}, Merge(m, f.content))
<1> DEFINE w == Merge(m, f.content)
           more == files \cup {f}
<1> SUFFICES ASSUME NEW v \in Var
             PROVE  \/ w[v] = Undef /\ \A g \in more : g.content[v] = Undef
                    \/ \E h \in more :
                         /\ w[v] = h.content[v] /\ w[v] # Undef
                         /\ \A g \in more \ {h} : g.content[v] # Undef => Before(g.path, h.path)
  BY DEF LastWins
<1>1. w[v] = IF f.content[v] # Undef THEN f.content[v] ELSE m[v]
  BY DEF Merge
<1> HIDE DEF w
<1>2. CASE f.content[v] # Undef
  BY <1>1, <1>2
<1>3. CASE f.content[v] = Undef /\ m[v] = Undef
  <2>1. \A g \in files : g.content[v] = Undef
    BY <1>3 DEF LastWins
  <2> QED BY <1>1, <1>3, <2>1
<1>4. CASE f.content[v] = Undef /\ m[v] # Undef
  <2>1. PICK h \in files :
          /\ m[v] = h.content[v]
          /\ \A g \in files \ {h} : g.content[v] # Undef => Before(g.path, h.path)
    BY <1>4 DEF LastWins
  <2> QED BY <1>1, <1>4, <2>1
<1> QED BY <1>2, <1>3, <1>4

\* Nothing has been seen at first.
LEMMA InitSound == Init => Sound
<1>1. DOMAIN NoRoles = {}
  BY DEF NoRoles
<1> QED BY <1>1 DEF Init, Sound, Inside, RolesSoFar, Seen

\* What is kept when a step is within an entry of roles/.
LEMMA StaysInside ==
  ASSUME Sound, Inside, Inside', UNCHANGED <<tree, todo, at, roles>>,
         RoleSoFar', IsARoleSoFar', AtNode'
  PROVE  Sound'
<1>1. RolesSoFar'
  BY DEF Sound, Inside, RolesSoFar, Seen, RoleRight
<1> QED BY <1>1 DEF Sound, Inside

\* The first node that is there is the one that counts.
LEMMA ChosenHere ==
  ASSUME AtNode, pc \in {"yml", "yaml", "main"}, pc = "main" \/ Here[pc].kind # "none"
  PROVE  Chosen(Here) = Here[pc]
BY DEF AtNode, Chosen

\* A place is left when the role has what it should of it.
LEMMA LeaveSound ==
  ASSUME TypeOK, Sound, Inside, place # "other", Leave, UNCHANGED <<tree, todo, at, roles, isARole>>,
         pc = "stat" => Missing,
         place # "defaults" => role'.defaults = role.defaults,
         place # "vars" => role'.vars = role.vars,
         place # "tasks" => role'.tasks = role.tasks,
         place = "defaults" => VarsRight(Here, role'.defaults),
         place = "vars" => VarsRight(Here, role'.vars),
         place = "tasks" => TasksRight(Here, role'.tasks)
  PROVE  Sound'
<1>1. Inside' /\ pc' = "stat"
  BY DEF Leave, Inside
<1>2. /\ place = "defaults" => place' = "vars"
      /\ place = "vars" => place' = "tasks"
      /\ place = "tasks" => place' = "other"
      /\ place \in {"defaults", "vars", "tasks"}
  BY DEF Leave, NextPlace, TypeOK
<1>3. RoleSoFar /\ IsARoleSoFar /\ AtNode
  BY DEF Sound
<1>4. RoleSoFar'
  <2>1. tree' = tree /\ at' = at
    OBVIOUS
  <2>2. CASE place = "defaults"
    BY <1>1, <1>2, <1>3, <2>1, <2>2 DEF RoleSoFar, Here, VarsRight
  <2>3. CASE place = "vars"
    BY <1>1, <1>2, <1>3, <2>1, <2>3 DEF RoleSoFar, Here, VarsRight
  <2>4. CASE place = "tasks"
    BY <1>1, <1>2, <1>3, <2>1, <2>4 DEF RoleSoFar, Here, VarsRight, TasksRight
  <2> QED BY <1>2, <2>2, <2>3, <2>4
<1>5. IsARoleSoFar'
  <2>1. /\ pc = "stat" => Here.kind = "none" \/ (place = "tasks" /\ Here.kind # "dir")
        /\ pc # "stat" => Here.kind # "none" /\ (place = "tasks" => Here.kind = "dir")
    BY <1>2, <1>3, TreeType DEF AtNode, Missing, TasksPlace, Place
  <2>2. CASE place = "defaults"
    BY <1>1, <1>2, <1>3, <2>1, <2>2 DEF IsARoleSoFar, Here
  <2>3. CASE place = "vars"
    BY <1>1, <1>2, <1>3, <2>1, <2>3 DEF IsARoleSoFar, Here
  <2>4. CASE place = "tasks"
    BY <1>1, <1>2, <1>3, <2>1, <2>4 DEF IsARoleSoFar, Here
  <2> QED BY <1>2, <2>2, <2>3, <2>4
<1>6. AtNode'
  BY <1>1 DEF AtNode
<1> QED BY <1>1, <1>4, <1>5, <1>6, StaysInside

\* Every step keeps it.
LEMMA NextSound == TypeOK /\ Sound /\ [Next]_vars => Sound'
<1> SUFFICES ASSUME TypeOK, Sound, [Next]_vars PROVE Sound'
  OBVIOUS
<1>a. ASSUME NEW r \in todo, SkipFile(r) PROVE Sound'
  <2>1. ~Inside /\ ~Inside' /\ pc' = "entries" /\ UNCHANGED <<tree, roles>>
    BY <1>a DEF SkipFile, Inside
  <2>2. Seen' = Seen \cup {r} /\ ~IsRole(tree[r])
    BY <1>a, <2>1 DEF SkipFile, Seen, TypeOK, IsRole
  <2>3. RolesSoFar
    BY <1>a DEF Sound, SkipFile
  <2>4. RolesSoFar'
    BY <2>1, <2>2, <2>3 DEF RolesSoFar, RoleRight, IsRole
  <2> QED BY <2>1, <2>4 DEF Sound
<1>b. ASSUME NEW r \in todo, MaybeRole(r) PROVE Sound'
  <2>1. /\ pc = "entries" /\ ~Inside /\ Inside' /\ pc' = "stat" /\ UNCHANGED <<tree, roles>>
        /\ at' = r /\ todo' = todo \ {r} /\ tree[r].dir /\ place' = "defaults"
        /\ role' = NoRole /\ isARole' = FALSE
    BY <1>b DEF MaybeRole, Inside
  <2>2. Seen' = Seen
    BY <2>1 DEF Seen
  <2>3. RolesSoFar'
    BY <2>1, <2>2 DEF Sound, RolesSoFar, RoleRight
  <2>4. RoleSoFar' /\ IsARoleSoFar' /\ AtNode'
    BY <2>1 DEF RoleSoFar, IsARoleSoFar, AtNode, NoRole
  <2> QED BY <2>1, <2>3, <2>4 DEF Sound
<1>c. CASE Finish
  BY <1>c DEF Finish, Sound, Inside, RolesSoFar, Seen, RoleRight
<1>d. CASE NoPlace
  <2>1. /\ Here.kind = "none" \/ (place = "tasks" /\ Here.kind # "dir")
        /\ RoleSoFar /\ pc = "stat" /\ Inside
    BY <1>d DEF NoPlace, Missing, Sound, Inside
  <2>2. /\ place = "defaults" => VarsRight(Here, role.defaults)
        /\ place = "vars" => VarsRight(Here, role.vars)
        /\ place = "tasks" => TasksRight(Here, role.tasks)
    BY <2>1 DEF RoleSoFar, VarsRight, TasksRight
  <2> QED BY <1>d, <2>1, <2>2, LeaveSound DEF NoPlace
<1>e. CASE EnterPlace
  <2>1. /\ Inside /\ Inside' /\ pc = "stat" /\ pc' = "yml" /\ isARole' = TRUE
        /\ UNCHANGED <<tree, todo, at, place, role, roles>> /\ place # "other" /\ ~Missing
    BY <1>e DEF EnterPlace, Inside
  <2>2. RoleSoFar' /\ IsARoleSoFar' /\ AtNode'
    BY <2>1 DEF Sound, RoleSoFar, IsARoleSoFar, AtNode, Missing, Here, VarsRight
  <2> QED BY <2>1, <2>2, StaysInside
<1>f. CASE EndRole
  <2>1. /\ pc = "stat" /\ place = "other" /\ pc' = "entries" /\ Inside /\ ~Inside'
        /\ UNCHANGED <<tree, todo, at>>
    BY <1>f DEF EndRole, Inside
  <2>2. /\ VarsRight(tree[at].defaults, role.defaults) /\ VarsRight(tree[at].vars, role.vars)
        /\ TasksRight(tree[at].tasks, role.tasks) /\ at \notin todo /\ tree[at].dir
    BY <2>1 DEF Sound, RoleSoFar
  <2>3. isARole \/ tree[at].other <=> IsRole(tree[at])
    BY <2>1, <2>2 DEF Sound, IsARoleSoFar, IsRole
  <2>4. Seen' = Seen \cup {at} /\ at \notin Seen
    BY <2>1, <2>2 DEF Seen, TypeOK
  <2>5. RolesSoFar
    BY <2>1 DEF Sound
  <2>6. CASE IsRole(tree[at])
    <3>1. roles' = [r \in DOMAIN roles \cup {at} |-> IF r = at THEN role ELSE roles[r]]
      BY <1>f, <2>3, <2>6 DEF EndRole
    <3>2. DOMAIN roles' = {r \in Seen' : IsRole(tree'[r])}
      BY <2>1, <2>4, <2>5, <2>6, <3>1 DEF RolesSoFar
    <3>3. \A r \in DOMAIN roles' : RoleRight(r)'
      BY <2>1, <2>2, <2>5, <3>1 DEF RolesSoFar, RoleRight
    <3> QED BY <2>1, <3>2, <3>3 DEF Sound, RolesSoFar, IsRole
  <2>7. CASE ~IsRole(tree[at])
    <3>1. roles' = roles
      BY <1>f, <2>3, <2>7 DEF EndRole
    <3>2. RolesSoFar'
      BY <2>1, <2>4, <2>5, <2>7, <3>1 DEF RolesSoFar, RoleRight, IsRole
    <3> QED BY <2>1, <3>2 DEF Sound
  <2> QED BY <2>6, <2>7
<1>g. CASE InFile \/ IsADirectory \/ LoadFails \/ WalkFails \/ ReadFails
  BY <1>g DEF InFile, IsADirectory, LoadFails, WalkFails, ReadFails, Fails, Sound, Inside
<1>h. CASE NotThere("yml", "yaml") \/ NotThere("yaml", "main")
  <2>1. /\ Inside /\ Inside' /\ Here.kind = "dir" /\ pc \in {"yml", "yaml"} /\ Here[pc].kind = "none"
        /\ pc = "yml" => pc' = "yaml"
        /\ pc = "yaml" => pc' = "main"
        /\ UNCHANGED <<tree, todo, at, place, rest, role, isARole, roles>>
    BY <1>h DEF NotThere, Inside
  <2>2. RoleSoFar' /\ IsARoleSoFar'
    BY <2>1 DEF Sound, RoleSoFar, IsARoleSoFar, VarsRight
  <2>3. AtNode'
    BY <2>1 DEF Sound, AtNode, Missing, Here
  <2> QED BY <2>1, <2>2, <2>3, StaysInside
<1>i. CASE Nothing
  <2>1. pc = "main" /\ Inside /\ Here.main.kind = "none" /\ AtNode /\ RoleSoFar /\ place # "other"
    BY <1>i DEF Nothing, Sound, Inside, AtNode
  <2>2. Chosen(Here) = Here.main
    BY <2>1, ChosenHere
  <2>3. /\ place = "defaults" => VarsRight(Here, role.defaults)
        /\ place = "vars" => VarsRight(Here, role.vars)
        /\ place = "tasks" => TasksRight(Here, role.tasks)
    BY <2>1, <2>2 DEF RoleSoFar, VarsRight, TasksRight
  <2> QED BY <1>i, <2>1, <2>3, LeaveSound DEF Nothing
<1>j. CASE Load
  <2>1. /\ pc \in {"yml", "yaml", "main"} /\ Inside /\ Here.kind = "dir" /\ Here[pc].kind = "file"
        /\ CanDecode(Here[pc].content) /\ AtNode /\ place \in {"defaults", "vars", "tasks"}
    BY <1>j DEF Load, Sound, Inside, AtNode, TypeOK
  <2>2. Chosen(Here) = Here[pc]
    BY <2>1, ChosenHere
  <2>3. role \in Role
    BY DEF TypeOK
  <2>4. CASE place = "tasks"
    <3>1. PICK s \in Decoded(Here[pc].content) : role' = [role EXCEPT !.tasks = s]
      BY <1>j, <2>4 DEF Load
    <3>2. role'.tasks = s /\ role'.defaults = role.defaults /\ role'.vars = role.vars
      BY <2>3, <3>1 DEF Role
    <3>3. TasksRight(Here, role'.tasks)
      BY <2>1, <2>2, <3>1, <3>2 DEF TasksRight, CanDecode
    <3> QED BY <1>j, <2>1, <2>4, <3>2, <3>3, LeaveSound DEF Load
  <2>5. CASE place = "defaults"
    <3>1. role' = [role EXCEPT !.defaults = Here[pc].content]
      BY <1>j, <2>5 DEF Load
    <3>2. role'.defaults = Here[pc].content /\ role'.tasks = role.tasks /\ role'.vars = role.vars
      BY <2>3, <3>1 DEF Role
    <3>3. VarsRight(Here, role'.defaults)
      BY <2>1, <2>2, <3>2 DEF VarsRight, CanDecode
    <3> QED BY <1>j, <2>1, <2>5, <3>2, <3>3, LeaveSound DEF Load
  <2>6. CASE place = "vars"
    <3>1. role' = [role EXCEPT !.vars = Here[pc].content]
      BY <1>j, <2>6 DEF Load
    <3>2. role'.vars = Here[pc].content /\ role'.tasks = role.tasks /\ role'.defaults = role.defaults
      BY <2>3, <3>1 DEF Role
    <3>3. VarsRight(Here, role'.vars)
      BY <2>1, <2>2, <3>2 DEF VarsRight, CanDecode
    <3> QED BY <1>j, <2>1, <2>6, <3>2, <3>3, LeaveSound DEF Load
  <2> QED BY <2>1, <2>4, <2>5, <2>6
<1>k. CASE MainDirectory
  <2>1. /\ pc = "main" /\ Inside /\ Here.main.kind = "dir" /\ AtNode /\ RoleSoFar /\ IsARoleSoFar
        /\ place \in {"defaults", "vars", "tasks"} /\ ~Missing /\ Here.kind = "dir"
        /\ UNCHANGED <<tree, todo, at, role, isARole, roles>>
    BY <1>k DEF MainDirectory, Sound, Inside, AtNode, TypeOK
  <2>2. CASE place = "tasks"
    <3>1. Chosen(Here) = Here.main
      BY <2>1, ChosenHere
    <3>2. TasksRight(Here, role.tasks)
      BY <2>1, <2>2, <3>1 DEF TasksRight, RoleSoFar
    <3> QED BY <1>k, <2>1, <2>2, <3>2, LeaveSound DEF MainDirectory
  <2>3. CASE place # "tasks"
    <3>1. pc' = "walk" /\ rest' = Here.main.files /\ place' = place /\ Inside'
      BY <1>k, <2>3 DEF MainDirectory, Inside
    <3>2. role[place] = Empty
      BY <2>1, <2>3 DEF RoleSoFar
    <3>3. LastWins({}, role[place])
      BY <3>2 DEF LastWins, Empty
    <3>4. Here.main.files \ rest' = {}
      BY <3>1
    <3>5. AtNode'
      BY <2>1, <2>3, <3>1, <3>4, <3>3 DEF AtNode, Missing, Here
    <3>6. RoleSoFar' /\ IsARoleSoFar'
      BY <2>1, <2>3, <3>1 DEF RoleSoFar, IsARoleSoFar, VarsRight
    <3> QED BY <2>1, <3>1, <3>5, <3>6, StaysInside
  <2> QED BY <2>2, <2>3
<1>l. CASE WalkFile
  <2>1. /\ pc = "walk" /\ pc' = "walk" /\ Inside /\ Inside' /\ AtNode /\ RoleSoFar /\ IsARoleSoFar
        /\ place \in {"defaults", "vars"} /\ UNCHANGED <<tree, todo, at, place, isARole, roles>>
    BY <1>l DEF WalkFile, Sound, Inside, AtNode
  <2>2. PICK f \in rest : /\ NextFile(f) /\ f.content # Bad /\ rest' = rest \ {f}
                         /\ role' = [role EXCEPT ![place] = Merge(role[place], f.content)]
    BY <1>l DEF WalkFile
  <2> DEFINE files == Here.main.files
             merged == Merge(role[place], f.content)
  <2>3. rest \subseteq files /\ role \in Role
    BY <2>1 DEF AtNode, TypeOK
  <2>4. /\ LastWins(files \ rest', merged)
        /\ \A g \in files \ rest', h \in rest' : Before(g.path, h.path)
    <3>1. /\ files \ rest' = (files \ rest) \cup {f} /\ f \notin files \ rest
          /\ \A g \in files \ rest, h \in rest : Before(g.path, h.path)
      BY <2>1, <2>2, <2>3 DEF AtNode
    <3>2. LastWins(files \ rest, role[place])
      BY <2>1 DEF AtNode
    <3> HIDE DEF files
    <3>3. LastWins((files \ rest) \cup {f}, merged)
      BY <2>2, <3>1, <3>2, LastWinsNext
    <3>4. \A h \in rest' : Before(f.path, h.path)
      BY <2>2 DEF NextFile
    <3> QED BY <2>2, <3>1, <3>3, <3>4
  <2>5. role' = [role EXCEPT ![place] = merged]
    BY <2>2
  <2> HIDE DEF merged
  <2>6. /\ role'[place] = merged /\ role'.tasks = role.tasks
        /\ place = "defaults" => role'.vars = role.vars
        /\ place = "vars" => role'.defaults = role.defaults
    <3>1. CASE place = "defaults"
      BY <2>3, <2>5, <3>1 DEF Role
    <3>2. CASE place = "vars"
      BY <2>3, <2>5, <3>2 DEF Role
    <3> QED BY <2>1, <3>1, <3>2
  <2>7. rest' \subseteq files
    BY <2>2, <2>3
  <2>8. AtNode'
    BY <2>1, <2>4, <2>6, <2>7 DEF AtNode, Missing, Here
  <2>9. RoleSoFar' /\ IsARoleSoFar'
    BY <2>1, <2>6 DEF RoleSoFar, IsARoleSoFar, VarsRight
  <2> QED BY <2>1, <2>8, <2>9, StaysInside
<1>m. CASE WalkEnds
  <2>1. /\ pc = "walk" /\ Inside /\ AtNode /\ place \in {"defaults", "vars"} /\ rest = {}
        /\ Here.kind = "dir" /\ Here.main.kind = "dir" /\ UNCHANGED <<tree, todo, at, role, isARole, roles>>
    BY <1>m DEF WalkEnds, Sound, Inside, AtNode
  <2>2. Here.main.files \ rest = Here.main.files /\ LastWins(Here.main.files, role[place])
    BY <2>1 DEF AtNode
  <2>3. Chosen(Here) = Here.main
    BY <2>1 DEF AtNode, Chosen
  <2>4. VarsRight(Here, role[place])
    BY <2>1, <2>3, <2>2 DEF VarsRight
  <2> QED BY <1>m, <2>1, <2>4, LeaveSound DEF WalkEnds
<1>z. CASE Returned \/ UNCHANGED vars
  <2>1. UNCHANGED <<tree, todo, at, place, pc, rest, role, isARole, roles>>
    BY <1>z DEF Returned, vars
  <2> QED BY <2>1 DEF Sound, Inside, RolesSoFar, Seen, RoleRight, RoleSoFar, IsARoleSoFar, AtNode, Missing, Here
<1> QED BY <1>a, <1>b, <1>c, <1>d, <1>e, <1>f, <1>g, <1>h, <1>i, <1>j, <1>k, <1>l, <1>m, <1>z
  DEF Next
\* The executer gets every role with all that is in it, or an error and no role.
THEOREM DiscoveredHolds == Spec => []Discovered
<1>1. Init => Sound
  BY InitSound
<1>2. TypeOK /\ Sound /\ [Next]_vars => Sound'
  BY NextSound
<1>3. TypeOK /\ Sound => Discovered
  <2> SUFFICES ASSUME TypeOK, Sound PROVE Discovered
    OBVIOUS
  <2>1. CASE pc = "done"
    BY <2>1 DEF Sound, Inside, RolesSoFar, Seen, Discovered
  <2>2. CASE pc = "failed"
    BY <2>2 DEF Sound, Discovered
  <2> QED BY <2>1, <2>2 DEF Discovered
<1> QED BY <1>1, <1>2, <1>3, Types, PTL DEF Spec

=============================================================================
