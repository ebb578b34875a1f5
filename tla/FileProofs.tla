----------------------------- MODULE FileProofs -----------------------------
(* Theorems about File, for any paths, owners and tasks.                   *)
EXTENDS File, WellFoundedInduction, TLAPS

\* What exists is in directories, nothing is left of what does not, and links lead somewhere.
TreeOK == \A p \in Path : /\ Exists(p) => \A a \in Above[p] : fs[a].kind = "dir"
                          /\ ~Exists(p) => fs[p] = Nothing
                          /\ IsLink(p) => fs[p].to \in Path

\* What a task knows where it is.
PhaseOK ==
  /\ pc = "state" => fs = start /\ ~changed
  /\ pc = "link" => /\ task.state = "link"
                    /\ ~Exists(task.path) /\ \A a \in Above[task.path] : fs[a].kind = "dir"
  /\ pc = "chown" => /\ at \in todo /\ ~AsLink(task, at) /\ Exists(Resolve(at)) /\ changed
  /\ todo \subseteq Under(task.path)
  /\ ~task.recurse => todo \subseteq {task.path}
  /\ pc \in {"attrs", "ok"} /\ ~changed => fs = start
  /\ pc \in {"attrs", "chown", "ok"} => StateReached
  /\ pc \in {"attrs", "chown"} => task.state # "absent"

IInv == TypeOK /\ TreeOK /\ PhaseOK /\ Confined

\* A step that leaves the file system, the task and its walk alone.
LEMMA FsKept ==
  ASSUME TreeOK, Confined, UNCHANGED <<fs, task, start>>
  PROVE  TreeOK' /\ Confined' /\ StateReached' = StateReached
BY DEF TreeOK, Confined, StateReached, Exists, Resolve, IsLink, Under

\* A step that sets the mode or the owner of one entry.
LEMMA EntryKept ==
  ASSUME IInv, pc \in {"attrs", "chown"}, UNCHANGED <<task, start>>,
         NEW p \in Path, Exists(p), p \in Under(task.path) \cup {Resolve(task.path)},
         fs' \in [Path -> Entry],
         \A q \in Path : q # p => fs'[q] = fs[q],
         fs'[p].kind = fs[p].kind, fs'[p].to = fs[p].to
  PROVE  /\ TreeOK' /\ Confined' /\ StateReached'
         /\ \A q \in Path : Resolve(q)' = Resolve(q) /\ Exists(q)' = Exists(q) /\ AsLink(task, q)' = AsLink(task, q)
<1>1. \A q \in Path : fs'[q].kind = fs[q].kind /\ fs'[q].to = fs[q].to
  OBVIOUS
<1>2. \A q \in Path : Resolve(q)' = Resolve(q) /\ Exists(q)' = Exists(q) /\ AsLink(task, q)' = AsLink(task, q)
                      /\ IsLink(q)' = IsLink(q)
  BY <1>1 DEF Resolve, Exists, IsLink, AsLink
<1>3. task.path \in Path
  BY FileAssumption DEF IInv, TypeOK, Task
<1>4. TreeOK'
  BY <1>1, <1>2, FileAssumption DEF IInv, TreeOK, Exists, IsLink
<1>5. Confined'
  BY <1>2, <1>3 DEF IInv, Confined, Under
<1>6. StateReached'
  <2>1. task.state # "absent" /\ StateReached
    BY DEF IInv, PhaseOK
  <2>2. Resolve(task.path) \in Path
    BY <1>3 DEF IInv, TreeOK, Resolve
  <2> QED BY <1>1, <1>2, <1>3, <2>1, <2>2 DEF StateReached
<1> QED BY <1>2, <1>4, <1>5, <1>6

LEMMA InitInv == Init => IInv
<1> SUFFICES ASSUME Init PROVE IInv
  OBVIOUS
<1>1. Nothing \in Entry
  BY FileAssumption DEF Nothing, Entry
<1>2. TypeOK
  BY <1>1, FileAssumption DEF Init, TypeOK, AnyTask
<1>3. TreeOK
  BY DEF Init, TreeOK, Exists, IsLink, Nothing
<1> QED BY <1>2, <1>3 DEF Init, IInv, PhaseOK, Confined

\* What a task's fields are.
LEMMA TaskType ==
  ASSUME TypeOK
  PROVE  /\ task.path \in Path /\ task.state \in State /\ task.src \in Path \cup {NoPath}
         /\ task.recurse \in BOOLEAN /\ task.owner \in Owner \cup {NoOwner}
         /\ task.state = "link" => task.src \in Path /\ ~task.recurse
         /\ task.recurse => task.state = "directory"
BY FileAssumption DEF TypeOK, Task, Valid

-----------------------------------------------------------------------------
(* Symbolic modes                                                          *)

\* A set of numbers has a least one.
LEMMA Least ==
  ASSUME NEW T \in SUBSET Nat, T # {}
  PROVE  \E n \in T : \A k \in T : n <= k
<1> DEFINE R == {ss \in Nat \X Nat : ss[1] < ss[2]}
<1>1. IsWellFoundedOn(R, Nat)
  BY NatLessThanWellFounded DEF OpToRel
<1>2. \A k, n \in Nat : k < n => <<k, n>> \in R
  OBVIOUS
<1> HIDE DEF R
<1>3. PICK n \in T : \A k \in T : ~(<<k, n>> \in R)
  BY <1>1, WFMin
<1>4. ASSUME NEW k \in T
      PROVE  n <= k
  <2>1. k \in Nat /\ n \in Nat
    OBVIOUS
  <2>2. ~(k < n)
    BY <1>2, <1>3, <2>1
  <2> QED BY <2>1, <2>2
<1> QED BY <1>4

\* Bit b of the mode after the first n clauses: the last of them that says something of b
\* decides, and without one it is as before.
Sets(c, b) == c.op \in {"+", "="} /\ b \in c.who \X c.rights
Clears(c, b) == \/ c.op = "-" /\ b \in c.who \X c.rights
                \/ c.op = "=" /\ b \in c.who \X Rights /\ b \notin c.who \X c.rights
Bit(m, clauses, n, b) ==
  \/ \E i \in 1..n : Sets(clauses[i], b) /\ \A j \in i + 1..n : ~Clears(clauses[j], b)
  \/ b \in m /\ \A j \in 1..n : ~Clears(clauses[j], b)

LEMMA ClauseBit ==
  ASSUME NEW m \in SUBSET Perm, NEW c \in Clause
  PROVE  /\ ClauseEffect(m, c) \in SUBSET Perm
         /\ \A b \in Perm : b \in ClauseEffect(m, c) <=> Sets(c, b) \/ (b \in m /\ ~Clears(c, b))
<1> DEFINE mask == c.who \X c.rights
           whole == c.who \X Rights
<1>1. mask \subseteq whole /\ mask \subseteq Perm
  BY DEF Clause, Perm
<1>2. CASE c.op = "+"
  BY <1>1, <1>2 DEF ClauseEffect, Sets, Clears
<1>3. CASE c.op = "-"
  BY <1>1, <1>3 DEF ClauseEffect, Sets, Clears
<1>4. CASE c.op = "="
  <2>1. ClauseEffect(m, c) = (m \ whole) \cup mask
    BY <1>4 DEF ClauseEffect
  <2>2. \A b : /\ Sets(c, b) <=> b \in mask
               /\ Clears(c, b) <=> b \in whole /\ b \notin mask
    BY <1>4 DEF Sets, Clears
  <2> HIDE DEF mask, whole
  <2> QED BY <1>1, <2>1, <2>2
<1>5. CASE c.op = "invalid"
  BY <1>5 DEF ClauseEffect, Sets, Clears
<1> QED BY <1>2, <1>3, <1>4, <1>5 DEF Clause

\* One clause more.
LEMMA NextBit ==
  ASSUME NEW m, NEW clauses, NEW n \in Nat \ {0}, NEW b
  PROVE  Bit(m, clauses, n, b) <=>
           Sets(clauses[n], b) \/ (Bit(m, clauses, n - 1, b) /\ ~Clears(clauses[n], b))
<1> n - 1 \in Nat /\ n \in 1..n /\ \A j \in n + 1..n : FALSE
  OBVIOUS
<1> \A j : j \in 1..n <=> j \in 1..n - 1 \/ j = n
  OBVIOUS
<1> \A i \in 1..n - 1 : \A j : j \in i + 1..n <=> j \in i + 1..n - 1 \/ j = n
  OBVIOUS
<1>1. ASSUME Bit(m, clauses, n, b), ~Sets(clauses[n], b)
      PROVE  Bit(m, clauses, n - 1, b) /\ ~Clears(clauses[n], b)
  <2>1. CASE b \in m /\ \A j \in 1..n : ~Clears(clauses[j], b)
    BY <2>1 DEF Bit
  <2>2. ASSUME NEW i \in 1..n, Sets(clauses[i], b), \A j \in i + 1..n : ~Clears(clauses[j], b)
        PROVE  Bit(m, clauses, n - 1, b) /\ ~Clears(clauses[n], b)
    <3>1. i \in 1..n - 1
      BY <1>1, <2>2
    <3>2. n \in i + 1..n
      BY <3>1
    <3>3. \A j \in i + 1..n - 1 : ~Clears(clauses[j], b)
      BY <2>2, <3>1
    <3> QED BY <2>2, <3>1, <3>2, <3>3 DEF Bit
  <2> QED BY <1>1, <2>1, <2>2 DEF Bit
<1>2. ASSUME Sets(clauses[n], b)
      PROVE  Bit(m, clauses, n, b)
  BY <1>2 DEF Bit
<1>3. ASSUME Bit(m, clauses, n - 1, b), ~Clears(clauses[n], b)
      PROVE  Bit(m, clauses, n, b)
  BY <1>3 DEF Bit
<1> QED BY <1>1, <1>2, <1>3

\* The loop over the clauses of a symbolic mode, for any number of them.
LEMMA ClausesBits ==
  ASSUME NEW m \in SUBSET Perm, NEW clauses \in Seq(Clause)
  PROVE  NewModeFromSpec(m, clauses) = {b \in Perm : Bit(m, clauses, Len(clauses), b)}
<1> DEFINE N == Len(clauses)
           IsAfter(f) ==
             f = [n \in 0..N |-> IF n = 0 THEN m ELSE ClauseEffect(f[n - 1], clauses[n])]
           bits == [n \in 0..N |-> {b \in Perm : Bit(m, clauses, n, b)}]
           after == CHOOSE f : IsAfter(f)
<1>1. N \in Nat /\ \A n \in 1..N : clauses[n] \in Clause
  OBVIOUS
<1>2. bits[0] = m
  BY <1>1 DEF Bit
<1>3. ASSUME NEW n \in 1..N
      PROVE  bits[n] = ClauseEffect(bits[n - 1], clauses[n])
  <2>1. n \in Nat \ {0} /\ n - 1 \in 0..N /\ n \in 0..N
    BY <1>1
  <2>2. bits[n - 1] \in SUBSET Perm
    BY <2>1
  <2>3. \A b \in Perm : b \in bits[n] <=> Sets(clauses[n], b) \/ (b \in bits[n - 1] /\ ~Clears(clauses[n], b))
    BY <2>1, NextBit
  <2> HIDE DEF bits
  <2>4. /\ ClauseEffect(bits[n - 1], clauses[n]) \in SUBSET Perm
        /\ \A b \in Perm : b \in ClauseEffect(bits[n - 1], clauses[n]) <=>
             Sets(clauses[n], b) \/ (b \in bits[n - 1] /\ ~Clears(clauses[n], b))
    BY <1>1, <2>2, ClauseBit
  <2>5. bits[n] \in SUBSET Perm
    BY <2>1 DEF bits
  <2> QED BY <2>3, <2>4, <2>5
<1>4. IsAfter(bits)
  <2> DEFINE step == [n \in 0..N |-> IF n = 0 THEN m ELSE ClauseEffect(bits[n - 1], clauses[n])]
  <2> SUFFICES bits = step
    OBVIOUS
  <2>1. \A n \in 0..N : bits[n] = IF n = 0 THEN m ELSE ClauseEffect(bits[n - 1], clauses[n])
    <3> HIDE DEF bits
    <3> QED BY <1>1, <1>2, <1>3
  <2> QED BY <2>1
<1>5. IsAfter(after)
  <2> HIDE DEF IsAfter, bits
  <2> QED BY <1>4
<1>6. after[0] = m /\ \A n \in 1..N : after[n] = ClauseEffect(after[n - 1], clauses[n])
  <2> HIDE DEF after
  <2> QED BY <1>1, <1>5
<1>7. \A n \in 0..N : after[n] = bits[n]
  <2> HIDE DEF after, bits
  <2> DEFINE differ == {n \in 0..N : after[n] # bits[n]}
  <2> SUFFICES ASSUME differ # {} PROVE FALSE
    OBVIOUS
  <2>1. differ \subseteq Nat
    BY <1>1
  <2>2. PICK n \in differ : \A k \in differ : n <= k
    BY <2>1, Least
  <2>3. n \in 1..N /\ n - 1 \in 0..N
    BY <1>1, <1>2, <1>6, <2>1
  <2>4. n - 1 \notin differ
    BY <2>1, <2>2, <2>3
  <2> QED BY <1>3, <1>6, <2>3, <2>4
<1>8. NewModeFromSpec(m, clauses) = after[N]
  BY DEF NewModeFromSpec
<1>9. N \in 0..N /\ bits[N] = {b \in Perm : Bit(m, clauses, Len(clauses), b)}
  BY <1>1
<1> HIDE DEF after, bits, N
<1> QED BY <1>7, <1>8, <1>9

\* A symbolic mode that is applied to what it has made changes nothing.
LEMMA ClausesIdempotent ==
  ASSUME NEW m \in SUBSET Perm, NEW clauses \in Seq(Clause)
  PROVE  /\ NewModeFromSpec(m, clauses) \in SUBSET Perm
         /\ NewModeFromSpec(NewModeFromSpec(m, clauses), clauses) = NewModeFromSpec(m, clauses)
<1> DEFINE N == Len(clauses)
           once == NewModeFromSpec(m, clauses)
<1>1. once = {b \in Perm : Bit(m, clauses, N, b)}
  BY ClausesBits
<1> HIDE DEF once
<1>2. NewModeFromSpec(once, clauses) = {b \in Perm : Bit(once, clauses, N, b)}
  BY <1>1, ClausesBits
<1>3. \A b \in Perm : Bit(once, clauses, N, b) <=> Bit(m, clauses, N, b)
  BY <1>1 DEF Bit
<1> QED BY <1>1, <1>2, <1>3 DEF once

-----------------------------------------------------------------------------
(* One lemma per action                                                    *)

LEMMA BeginStep ==
  ASSUME IInv, NEW t \in Tasks, Begin(t)
  PROVE  IInv'
BY DEF Begin, IInv, TypeOK, TreeOK, PhaseOK, Confined, Exists, IsLink, Under, StateReached

LEMMA FailStep ==
  ASSUME IInv, Fail
  PROVE  IInv'
BY FsKept DEF Fail, IInv, TypeOK, PhaseOK, Under

LEMMA FinishStep ==
  ASSUME IInv, Finish
  PROVE  IInv'
BY FsKept DEF Finish, IInv, TypeOK, PhaseOK, Under

LEMMA SkipStep ==
  ASSUME IInv, NEW p \in todo, Skip(p)
  PROVE  IInv'
BY FsKept DEF Skip, IInv, TypeOK, PhaseOK, Under

\* Removing what is under a path, or the lower part of it.
LEMMA Removed ==
  ASSUME IInv, pc = "state", NEW gone \in SUBSET Under(task.path),
         \A q \in Path : Exists(q) /\ Above[q] \cap gone # {} => q \in gone,
         fs' = [q \in Path |-> IF q \in gone THEN Nothing ELSE fs[q]],
         UNCHANGED <<task, start>>
  PROVE  TreeOK' /\ Confined' /\ fs' \in [Path -> Entry]
<1>1. Nothing \in Entry /\ Nothing.kind = "none"
  BY FileAssumption DEF Nothing, Entry
<1>2. fs' \in [Path -> Entry]
  BY <1>1 DEF IInv, TypeOK
<1>3. TreeOK'
  BY <1>1, FileAssumption DEF IInv, TreeOK, Exists, IsLink
<1>4. Confined'
  BY DEF IInv, PhaseOK, Confined, Under
<1> QED BY <1>2, <1>3, <1>4

LEMMA AbsentStep ==
  ASSUME IInv, Absent
  PROVE  IInv'
<1>1. /\ pc = "state" /\ task.state = "absent" /\ pc' = "ok"
      /\ fs' = [q \in Path |-> IF q \in Under(task.path) THEN Nothing ELSE fs[q]]
      /\ changed' = Exists(task.path)
      /\ UNCHANGED <<task, todo, at, start, again>>
  BY DEF Absent, InState
<1>2. \A q \in Path : Above[q] \cap Under(task.path) # {} => q \in Under(task.path)
  BY FileAssumption DEF Under
<1>3. TreeOK' /\ Confined' /\ fs' \in [Path -> Entry]
  BY <1>1, <1>2, Removed
<1>4. StateReached'
  BY <1>1 DEF StateReached, Exists, Under, Nothing
<1>5. ASSUME ~changed'
      PROVE  fs' = start
  <2>1. \A q \in Under(task.path) : ~Exists(q)
    BY <1>1, <1>5 DEF IInv, TreeOK, Under, Exists
  <2>2. \A q \in Path : fs'[q] = fs[q]
    BY <1>1, <2>1 DEF IInv, TreeOK, Under
  <2> QED BY <1>1, <1>3, <2>2 DEF IInv, PhaseOK, TypeOK
<1>6. TypeOK'
  BY <1>1, <1>3 DEF IInv, TypeOK, Exists
<1>7. PhaseOK'
  BY <1>1, <1>4, <1>5 DEF IInv, PhaseOK, Under
<1> QED BY <1>3, <1>6, <1>7 DEF IInv

LEMMA AbsentHalfwayStep ==
  ASSUME IInv, AbsentHalfway
  PROVE  IInv'
<1>1. /\ pc = "state" /\ pc' = "failed"
      /\ UNCHANGED <<task, todo, at, changed, start, again>>
  BY DEF AbsentHalfway, InState
<1>2. PICK gone \in SUBSET Under(task.path) :
        /\ \A q \in Path : Exists(q) /\ Above[q] \cap gone # {} => q \in gone
        /\ fs' = [q \in Path |-> IF q \in gone THEN Nothing ELSE fs[q]]
  BY DEF AbsentHalfway
<1>3. TreeOK' /\ Confined' /\ fs' \in [Path -> Entry]
  BY <1>1, <1>2, Removed
<1> QED BY <1>1, <1>3 DEF IInv, TypeOK, PhaseOK, Under

\* Making directories on the way to a path, the higher ones first.
LEMMA Made ==
  ASSUME IInv, InState("directory"), NEW new \in SUBSET ToMake(task.path),
         \A q \in new : Above[q] \cap ToMake(task.path) \subseteq new,
         fs' = WithDirs(new), UNCHANGED <<task, start>>
  PROVE  TreeOK' /\ Confined' /\ fs' \in [Path -> Entry]
<1> DEFINE dir == [Nothing EXCEPT !.kind = "dir", !.mode = DirMode]
<1>1. dir \in Entry /\ dir.kind = "dir"
  BY FileAssumption DEF Nothing, Entry, DirMode
<1>2. fs' = [q \in Path |-> IF q \in new THEN dir ELSE fs[q]] /\ task.path \in Path
  BY TaskType DEF WithDirs, IInv
<1> HIDE DEF dir
<1>3. fs' \in [Path -> Entry]
  BY <1>1, <1>2 DEF IInv, TypeOK
<1>4. ASSUME NEW q \in Path, Exists(q)'
      PROVE  \A a \in Above[q] : fs'[a].kind = "dir"
  <2> SUFFICES ASSUME NEW a \in Above[q] PROVE fs'[a].kind = "dir"
    OBVIOUS
  <2>1. a \in Path
    BY FileAssumption
  <2>2. CASE q \in new
    <3>1. a \in Above[task.path]
      BY <1>2, <2>2, FileAssumption DEF ToMake
    <3>2. fs[a].kind \in {"none", "dir"}
      BY <3>1 DEF InState, CanStat
    <3>3. fs[a].kind = "none" => a \in new
      BY <2>1, <2>2, <3>1 DEF ToMake, Exists
    <3> QED BY <1>1, <1>2, <2>1, <3>2, <3>3
  <2>3. CASE q \notin new
    BY <1>1, <1>2, <1>4, <2>1, <2>3 DEF IInv, TreeOK, Exists
  <2> QED BY <2>2, <2>3
<1>5. TreeOK'
  BY <1>1, <1>2, <1>4 DEF IInv, TreeOK, Exists, IsLink
<1>6. Confined'
  BY <1>2 DEF IInv, TreeOK, PhaseOK, Confined, Under, ToMake, InState
<1> QED BY <1>3, <1>5, <1>6

LEMMA DirectoryStep ==
  ASSUME IInv, Directory
  PROVE  IInv'
<1>1. /\ InState("directory") /\ pc = "state" /\ task.state = "directory" /\ pc' = "attrs"
      /\ CanMake(task.path) /\ fs' = WithDirs(ToMake(task.path))
      /\ changed' = ~Exists(task.path) /\ todo' = Walk(task)
      /\ UNCHANGED <<task, at, start, again>>
  BY DEF Directory, InState, Attributes
<1>2. TreeOK' /\ Confined' /\ fs' \in [Path -> Entry]
  BY <1>1, Made
<1>3. task.path \in Path
  BY TaskType DEF IInv
<1>4. ASSUME ~changed'
      PROVE  fs' = start
  <2>1. ToMake(task.path) = {}
    BY <1>1, <1>3, <1>4, FileAssumption DEF IInv, TreeOK, ToMake, Exists
  <2>2. \A q \in Path : fs'[q] = fs[q]
    BY <1>1, <2>1 DEF WithDirs
  <2> QED BY <1>1, <1>2, <2>2 DEF IInv, PhaseOK, TypeOK
<1>5. StateReached'
  <2>1. CASE Exists(task.path)
    <3>1. fs[Resolve(task.path)].kind = "dir" /\ Resolve(task.path) \in Path
      BY <1>1, <1>3, <2>1 DEF CanMake, Resolve, IInv, TreeOK
    <3>2. fs'[task.path] = fs[task.path] /\ fs'[Resolve(task.path)] = fs[Resolve(task.path)]
      BY <1>1, <1>3, <2>1, <3>1 DEF WithDirs, ToMake, Exists
    <3>3. Resolve(task.path)' = Resolve(task.path)
      BY <1>1, <3>2 DEF Resolve, IsLink
    <3> QED BY <1>1, <3>1, <3>2, <3>3 DEF StateReached
  <2>2. CASE ~Exists(task.path)
    <3>1. fs'[task.path].kind = "dir"
      BY <1>1, <1>3, <2>2 DEF WithDirs, ToMake, Nothing
    <3> QED BY <1>1, <3>1 DEF StateReached, Resolve, IsLink
  <2> QED BY <2>1, <2>2
<1>6. todo' \subseteq Under(task.path) /\ (~task.recurse => todo' \subseteq {task.path})
  BY <1>1, <1>3 DEF Walk, Under
<1>7. TypeOK'
  BY <1>1, <1>2, <1>6 DEF IInv, TypeOK, Exists, Under
<1>8. PhaseOK'
  BY <1>1, <1>4, <1>5, <1>6 DEF IInv, PhaseOK, Under
<1> QED BY <1>2, <1>7, <1>8 DEF IInv

LEMMA DirectoryHalfwayStep ==
  ASSUME IInv, DirectoryHalfway
  PROVE  IInv'
<1>1. /\ InState("directory") /\ pc = "state" /\ pc' = "failed"
      /\ UNCHANGED <<task, todo, at, changed, start, again>>
  BY DEF DirectoryHalfway, InState
<1>2. PICK made \in SUBSET ToMake(task.path) :
        /\ \A q \in made : Above[q] \cap ToMake(task.path) \subseteq made
        /\ fs' = WithDirs(made)
  BY DEF DirectoryHalfway
<1>3. TreeOK' /\ Confined' /\ fs' \in [Path -> Entry]
  BY <1>1, <1>2, Made
<1> QED BY <1>1, <1>3 DEF IInv, TypeOK, PhaseOK, Under

LEMMA RegularStep ==
  ASSUME IInv, Regular
  PROVE  IInv'
<1>1. /\ pc = "state" /\ task.state = "file" /\ Exists(task.path)
      /\ UNCHANGED <<fs, task, at, changed, start, again>>
      /\ \/ pc' = "ok" /\ todo' = todo
         \/ pc' = "attrs" /\ todo' = {task.path}
  BY DEF Regular, InState, Attributes
<1>2. TreeOK' /\ Confined' /\ StateReached'
  BY <1>1, FsKept DEF IInv, StateReached
<1> QED BY <1>1, <1>2, TaskType DEF IInv, TypeOK, PhaseOK, Under

LEMMA KeepLinkStep ==
  ASSUME IInv, KeepLink
  PROVE  IInv'
<1>1. /\ pc = "state" /\ task.state = "link" /\ IsLink(task.path) /\ fs[task.path].to = task.src
      /\ UNCHANGED <<fs, task, at, changed, start, again>>
      /\ pc' = "attrs" /\ todo' \subseteq {task.path}
  BY DEF KeepLink, InState, Attributes, SameLink, Followed
<1>2. TreeOK' /\ Confined' /\ StateReached'
  BY <1>1, FsKept DEF IInv, StateReached
<1> QED BY <1>1, <1>2, TaskType DEF IInv, TypeOK, PhaseOK, Under

\* A file or a link comes to be at the task's path.
LEMMA PutStep ==
  ASSUME IInv, pc \in {"state", "link"}, ~Exists(task.path),
         \A a \in Above[task.path] : fs[a].kind = "dir",
         NEW kind \in {"file", "link"}, NEW mode \in SUBSET Perm, NEW to \in Path \cup {NoPath},
         kind = "link" => to \in Path,
         Put(task.path, kind, mode, to), UNCHANGED <<task, start>>
  PROVE  /\ TreeOK' /\ Confined' /\ fs' \in [Path -> Entry]
         /\ fs'[task.path].kind = kind /\ fs'[task.path].to = to
<1> DEFINE new == [kind |-> kind, mode |-> mode, owner |-> Root, to |-> to]
<1>1. new \in Entry /\ new.kind = kind /\ new.to = to
  BY FileAssumption DEF Entry
<1>2. fs' = [fs EXCEPT ![task.path] = new] /\ task.path \in Path
  BY TaskType DEF Put, IInv
<1> HIDE DEF new
<1>3. fs' \in [Path -> Entry] /\ fs'[task.path] = new
  BY <1>1, <1>2 DEF IInv, TypeOK
<1>4. \A q \in Path : task.path \in Above[q] => ~Exists(q)
  BY DEF IInv, TreeOK, Exists
<1>5. \A q \in Path : q # task.path => fs'[q] = fs[q]
  BY <1>2 DEF IInv, TypeOK
<1>6. TreeOK'
  BY <1>1, <1>2, <1>3, <1>4, <1>5, FileAssumption DEF IInv, TreeOK, Exists, IsLink
<1>7. Confined'
  <2>1. Resolve(task.path) = task.path
    BY DEF Resolve, IsLink, Exists
  <2> QED BY <1>5, <2>1 DEF IInv, Confined, Under
<1> QED BY <1>1, <1>3, <1>6, <1>7

LEMMA SymlinkStep ==
  ASSUME IInv, Symlink \/ Relink
  PROVE  IInv'
<1>1. /\ pc \in {"state", "link"} /\ task.state = "link"
      /\ ~Exists(task.path) /\ \A a \in Above[task.path] : fs[a].kind = "dir"
      /\ Put(task.path, "link", Perm, task.src)
      /\ changed' = TRUE /\ pc' = "attrs" /\ todo' \subseteq {task.path}
      /\ UNCHANGED <<task, at, start, again>>
  BY DEF Symlink, Relink, InState, CanCreate, Attributes, Followed, IInv, PhaseOK
<1>2. task.src \in Path /\ task.path \in Path
  BY <1>1, TaskType DEF IInv
<1>3. /\ TreeOK' /\ Confined' /\ fs' \in [Path -> Entry]
      /\ fs'[task.path].kind = "link" /\ fs'[task.path].to = task.src
  BY <1>1, <1>2, PutStep
<1>4. StateReached'
  BY <1>1, <1>3 DEF StateReached, IsLink
<1> QED BY <1>1, <1>2, <1>3, <1>4 DEF IInv, TypeOK, PhaseOK, Under

LEMMA UnlinkStep ==
  ASSUME IInv, Unlink
  PROVE  IInv'
<1>1. /\ pc = "state" /\ task.state = "link" /\ IsLink(task.path)
      /\ fs' = [fs EXCEPT ![task.path] = Nothing] /\ pc' = "link"
      /\ UNCHANGED <<task, todo, at, changed, start, again>>
  BY DEF Unlink, InState
<1>2. task.path \in Path /\ Nothing \in Entry /\ Nothing.kind = "none"
  BY TaskType, FileAssumption DEF IInv, Nothing, Entry
<1>3. fs' \in [Path -> Entry] /\ fs'[task.path] = Nothing /\ \A q \in Path : q # task.path => fs'[q] = fs[q]
  BY <1>1, <1>2 DEF IInv, TypeOK
<1>4. \A q \in Path : task.path \in Above[q] => ~Exists(q)
  BY <1>1 DEF IInv, TreeOK, Exists, IsLink
<1>5. TreeOK'
  BY <1>2, <1>3, <1>4, FileAssumption DEF IInv, TreeOK, Exists, IsLink
<1>6. Confined'
  BY <1>1, <1>3 DEF IInv, PhaseOK, Confined, Under
<1>7. ~Exists(task.path)' /\ \A a \in Above[task.path] : fs'[a].kind = "dir"
  BY <1>1, <1>2, <1>3, FileAssumption DEF IInv, TreeOK, Exists, IsLink
<1> QED BY <1>1, <1>3, <1>5, <1>6, <1>7 DEF IInv, TypeOK, PhaseOK, Under

LEMMA TouchStep ==
  ASSUME IInv, Touch
  PROVE  IInv'
<1>1. /\ pc = "state" /\ task.state = "touch" /\ pc' = "attrs" /\ todo' = {task.path}
      /\ UNCHANGED <<task, at, start, again>>
  BY DEF Touch, InState, Attributes
<1>2. CASE Exists(task.path) /\ UNCHANGED <<fs, changed>>
  <2>1. TreeOK' /\ Confined' /\ StateReached'
    BY <1>1, <1>2, FsKept DEF IInv, StateReached
  <2> QED BY <1>1, <1>2, <2>1, TaskType DEF IInv, TypeOK, PhaseOK, Under
<1>3. CASE CanCreate(task.path) /\ Put(task.path, "file", NewMode, NoPath) /\ changed' = TRUE
  <2>1. NewMode \in SUBSET Perm
    BY DEF NewMode, Perm, Who, Rights
  <2>2. TreeOK' /\ Confined' /\ fs' \in [Path -> Entry] /\ fs'[task.path].kind = "file"
    BY <1>1, <1>3, <2>1, PutStep DEF CanCreate
  <2>3. StateReached'
    BY <1>1, <2>2 DEF StateReached, Exists
  <2> QED BY <1>1, <1>3, <2>2, <2>3, TaskType DEF IInv, TypeOK, PhaseOK, Under
<1> QED BY <1>2, <1>3 DEF Touch, Created

\* The entry whose attributes are set exists, and is the walk's or the link's.
LEMMA Target ==
  ASSUME IInv, NEW p \in todo, ~AsLink(task, p), Exists(Resolve(p))
  PROVE  /\ p \in Path /\ Resolve(p) \in Path
         /\ Resolve(p) \in Under(task.path) \cup {Resolve(task.path)}
<1>1. p \in Path /\ p \in Under(task.path)
  BY DEF IInv, PhaseOK, TypeOK
<1>2. CASE IsLink(p)
  BY <1>1, <1>2 DEF AsLink, IInv, PhaseOK, TreeOK, Resolve
<1>3. CASE ~IsLink(p)
  BY <1>1, <1>3 DEF Resolve
<1> QED BY <1>1, <1>2, <1>3

LEMMA LchownStep ==
  ASSUME IInv, NEW p \in todo, Lchown(p)
  PROVE  IInv'
<1>1. /\ pc = "attrs" /\ AsLink(task, p) /\ NeedsChange(task, p)
      /\ fs' = [fs EXCEPT ![p].owner = task.owner]
      /\ changed' = TRUE /\ todo' = todo \ {p} /\ UNCHANGED <<task, pc, at, start, again>>
  BY DEF Lchown
<1>2. p \in Path /\ p \in Under(task.path) /\ IsLink(p)
  BY <1>1 DEF AsLink, IInv, PhaseOK, TypeOK
<1>3. task.owner \in Owner
  BY <1>1, TaskType DEF NeedsChange, NeedsMode, NeedsOwner, IInv
<1>4. /\ fs' \in [Path -> Entry]
      /\ \A q \in Path : q # p => fs'[q] = fs[q]
      /\ fs'[p].kind = fs[p].kind /\ fs'[p].to = fs[p].to
  BY <1>1, <1>2, <1>3 DEF IInv, TypeOK, Entry
<1>5. TreeOK' /\ Confined' /\ StateReached'
  BY <1>1, <1>2, <1>4, EntryKept DEF Exists, IsLink
<1> QED BY <1>1, <1>4, <1>5 DEF IInv, TypeOK, PhaseOK, Under

LEMMA ChmodStep ==
  ASSUME IInv, NEW p \in todo, Chmod(p)
  PROVE  IInv'
<1>1. /\ pc = "attrs" /\ ~AsLink(task, p) /\ Exists(Resolve(p))
      /\ fs' = IF task.mode.kind = "none" THEN fs
               ELSE [fs EXCEPT ![Resolve(p)].mode = SetMode(task.mode, p)]
      /\ changed' = TRUE /\ pc' = "chown" /\ at' = p /\ UNCHANGED <<task, todo, start, again>>
  BY DEF Chmod
<1>2. /\ p \in Path /\ Resolve(p) \in Path
      /\ Resolve(p) \in Under(task.path) \cup {Resolve(task.path)}
  BY <1>1, Target
<1>3. SetMode(task.mode, p) \in SUBSET Perm
  BY DEF SetMode
<1>4. /\ fs' \in [Path -> Entry]
      /\ \A q \in Path : q # Resolve(p) => fs'[q] = fs[q]
      /\ fs'[Resolve(p)].kind = fs[Resolve(p)].kind /\ fs'[Resolve(p)].to = fs[Resolve(p)].to
  <2>1. fs \in [Path -> Entry]
    BY DEF IInv, TypeOK
  <2>2. CASE task.mode.kind = "none"
    BY <1>1, <1>2, <2>1, <2>2
  <2>3. CASE task.mode.kind # "none"
    <3> DEFINE new == [fs[Resolve(p)] EXCEPT !.mode = SetMode(task.mode, p)]
    <3>1. fs' = [fs EXCEPT ![Resolve(p)] = new]
      BY <1>1, <2>3
    <3>2. fs[Resolve(p)] \in Entry
      BY <1>2, <2>1
    <3>3. new \in Entry /\ new.kind = fs[Resolve(p)].kind /\ new.to = fs[Resolve(p)].to
      BY <1>3, <3>2 DEF Entry
    <3> HIDE DEF new
    <3> QED BY <1>2, <2>1, <3>1, <3>3
  <2> QED BY <2>2, <2>3
<1>5. /\ TreeOK' /\ Confined' /\ StateReached'
      /\ \A q \in Path : Resolve(q)' = Resolve(q) /\ Exists(q)' = Exists(q) /\ AsLink(task, q)' = AsLink(task, q)
  BY <1>1, <1>2, <1>4, EntryKept
<1>6. at' \in todo' /\ ~AsLink(task, at)' /\ Exists(Resolve(at))'
  <2>1. ~AsLink(task, p)' /\ Resolve(p)' = Resolve(p)
    BY <1>1, <1>2, <1>5
  <2>2. fs'[Resolve(p)'].kind # "none"
    BY <1>1, <1>4, <2>1 DEF Exists
  <2> QED BY <1>1, <2>1, <2>2 DEF Exists, AsLink, IsLink, Resolve
<1>7. TypeOK'
  BY <1>1, <1>2, <1>4 DEF IInv, TypeOK
<1>8. PhaseOK'
  BY <1>1, <1>5, <1>6 DEF IInv, PhaseOK, Under
<1> QED BY <1>5, <1>7, <1>8 DEF IInv

LEMMA ChownStep ==
  ASSUME IInv, Chown
  PROVE  IInv'
<1>1. /\ pc = "chown" /\ pc' = "attrs" /\ todo' = todo \ {at} /\ at' = NoPath
      /\ fs' = IF task.owner = NoOwner THEN fs ELSE [fs EXCEPT ![Resolve(at)].owner = task.owner]
      /\ UNCHANGED <<task, changed, start, again>>
  BY DEF Chown
<1>2. at \in todo /\ ~AsLink(task, at) /\ Exists(Resolve(at)) /\ changed
  BY <1>1 DEF IInv, PhaseOK
<1>3. /\ Resolve(at) \in Path
      /\ Resolve(at) \in Under(task.path) \cup {Resolve(task.path)}
  BY <1>2, Target
<1>4. /\ fs' \in [Path -> Entry]
      /\ \A q \in Path : q # Resolve(at) => fs'[q] = fs[q]
      /\ fs'[Resolve(at)].kind = fs[Resolve(at)].kind /\ fs'[Resolve(at)].to = fs[Resolve(at)].to
  <2>1. task.owner # NoOwner => task.owner \in Owner
    BY TaskType DEF IInv
  <2> QED BY <1>1, <1>3, <2>1 DEF IInv, TypeOK, Entry
<1>5. TreeOK' /\ Confined' /\ StateReached'
  BY <1>1, <1>2, <1>3, <1>4, EntryKept
<1> QED BY <1>1, <1>2, <1>4, <1>5 DEF IInv, TypeOK, PhaseOK, Under

-----------------------------------------------------------------------------
(* The attributes, and a task that is applied again                        *)

\* The paths whose attributes a task is to bring about.
Targets ==
  {p \in Path : IF task.recurse THEN p \in Under(task.path) /\ Exists(p)
                ELSE p = task.path /\ ~IsLink(p)}

\* Behind the walk every attribute is as asked for; between Chmod and Chown the mode is.
AttributesOK ==
  /\ pc \in {"attrs", "chown", "ok"} /\ task.state # "absent" =>
       \A p \in Targets : (p \in todo /\ pc # "ok") \/ AttributesReached(p)
  /\ pc = "chown" /\ ~IsLink(at) /\ task.mode.kind # "none" =>
       Desired(task.mode, at) \cap Perm = fs[at].mode

\* The paths that a task looks at, and whether it can know that they are as asked for.
Walked == IF task.state = "link" THEN Followed(task) ELSE Walk(task)
Known == ~ThroughLink(task) /\ Sticky \notin task.mode.bits

\* A task that is applied again finds everything as it left it.
AgainOK ==
  again /\ pc # "failed" =>
    /\ pc = "state" => StateReached
    /\ pc # "link"
    /\ Known => /\ ~changed /\ pc # "chown"
                /\ pc = "state" /\ task.state # "absent" => \A p \in Walked : ~NeedsChange(task, p)
                /\ pc = "attrs" => \A p \in todo : ~NeedsChange(task, p)

LEMMA ModeType ==
  ASSUME IInv, NEW p \in Path
  PROVE  /\ task.mode.kind \in {"none", "octal", "symbolic"}
         /\ task.mode.bits \subseteq Perm \cup {Sticky}
         /\ task.mode.clauses \in Seq(Clause)
         /\ fs[p].mode \in SUBSET Perm /\ Resolve(p) \in Path
<1>1. task.mode \in Mode
  BY FileAssumption DEF IInv, TypeOK, Task
<1>2. fs[p] \in Entry /\ Resolve(p) \in Path
  BY DEF IInv, TypeOK, TreeOK, Resolve
<1> QED BY <1>1, <1>2 DEF Mode, Entry

\* What a mode asks for is below 01000, unless its digits say otherwise.
LEMMA DesiredType ==
  ASSUME IInv, NEW p \in Path, task.mode.kind = "octal" => Sticky \notin task.mode.bits
  PROVE  Desired(task.mode, p) \in SUBSET Perm
<1>1. CASE task.mode.kind = "octal"
  BY <1>1, ModeType DEF Desired
<1>2. CASE task.mode.kind # "octal"
  <2>1. fs[Resolve(p)].mode \in SUBSET Perm
    BY ModeType
  <2> QED BY <1>2, <2>1, ModeType, ClausesIdempotent DEF Desired
<1> QED BY <1>1, <1>2

\* Asking for a mode once more asks for the mode that is there.
LEMMA SetModeAgain ==
  ASSUME IInv, NEW p \in Path, ~IsLink(p), ~IsLink(p)', UNCHANGED task, task.mode.kind # "none",
         fs'[p].mode = SetMode(task.mode, p)
  PROVE  Desired(task.mode, p)' \cap Perm = fs'[p].mode
<1>1. CASE task.mode.kind = "octal"
  BY <1>1 DEF Desired, SetMode
<1>2. CASE task.mode.kind = "symbolic"
  <2> DEFINE m == fs[p].mode
             once == NewModeFromSpec(m, task.mode.clauses)
  <2>1. /\ m \in SUBSET Perm /\ task.mode.clauses \in Seq(Clause)
        /\ once \in SUBSET Perm /\ NewModeFromSpec(once, task.mode.clauses) = once
    BY ModeType, ClausesIdempotent
  <2>2. Desired(task.mode, p) = once
    BY <1>2 DEF Desired, Resolve
  <2>3. fs'[p].mode = once
    BY <2>1, <2>2 DEF SetMode
  <2>4. Desired(task.mode, p)' = NewModeFromSpec(once, task.mode.clauses)
    BY <1>2, <2>3 DEF Desired, Resolve, IsLink
  <2> QED BY <2>1, <2>3, <2>4
<1> QED BY <1>1, <1>2, ModeType

\* The attributes of an entry are its own.
LEMMA AttributesKept ==
  ASSUME NEW p \in Path, UNCHANGED task, fs'[p] = fs[p], AttributesReached(p)
  PROVE  AttributesReached(p)'
<1>1. IsLink(p)' = IsLink(p)
  BY DEF IsLink
<1>2. ~IsLink(p) => Desired(task.mode, p)' = Desired(task.mode, p)
  BY <1>1 DEF Desired, Resolve
<1> QED BY <1>1, <1>2 DEF AttributesReached

\* What the walk skips is as asked for.
LEMMA SkippedReached ==
  ASSUME IInv, NEW p \in Targets, ~NeedsChange(task, p)
  PROVE  AttributesReached(p)
<1>1. p \in Path /\ fs[p].mode \in SUBSET Perm
  BY ModeType DEF Targets
<1>2. task.mode.kind # "none" /\ ~IsLink(p) => Desired(task.mode, p) \in {{}, fs[p].mode}
  BY DEF NeedsChange, NeedsMode, AsLink
<1> QED BY <1>1, <1>2 DEF NeedsChange, NeedsOwner, AttributesReached

\* And what is as asked for is skipped, if the task can know.
LEMMA ReachedSkipped ==
  ASSUME IInv, AttributesOK, pc = "ok", Known, task.state # "absent", NEW p \in Walked
  PROVE  ~NeedsChange(task, p)
<1>1. CASE task.mode.kind = "none" /\ task.owner = NoOwner
  BY <1>1 DEF NeedsChange, NeedsMode, NeedsOwner
<1>2. CASE task.mode.kind # "none" \/ task.owner # NoOwner
  <2>1. StateReached /\ task.path \in Path
    BY TaskType DEF IInv, PhaseOK
  <2>2. task.state # "link"
    BY <1>2, <2>1, TaskType DEF Known, ThroughLink, Walked, Followed, StateReached, IInv
  <2>3. ~task.recurse => ~IsLink(task.path)
    BY <1>2, <2>2 DEF Known, ThroughLink
  <2>4. task.recurse => Exists(task.path)
    BY <2>1, TaskType DEF IInv, StateReached, Resolve, Exists, IsLink
  <2>5. p \in Targets /\ p \in Path
    BY <2>1, <2>2, <2>3, <2>4 DEF Walked, Walk, Targets, Under
  <2>6. AttributesReached(p)
    BY <2>5 DEF AttributesOK
  <2>7. Desired(task.mode, p) \in SUBSET Perm
    BY <2>5, DesiredType DEF Known
  <2>8. ~AsLink(task, p) => ~IsLink(p)
    BY <2>5 DEF AsLink, Targets
  <2>9. ~AsLink(task, p) /\ task.mode.kind # "none" => Desired(task.mode, p) \in {{}, fs[p].mode}
    BY <2>6, <2>7, <2>8 DEF AttributesReached
  <2> QED BY <2>6, <2>9 DEF NeedsChange, NeedsMode, NeedsOwner, AttributesReached
<1> QED BY <1>1, <1>2

\* Only what sets attributes changes them: the steps that leave the file system alone.
LEMMA SameFs ==
  ASSUME UNCHANGED <<fs, task>>
  PROVE  /\ StateReached' = StateReached /\ Targets' = Targets /\ Known' = Known /\ Walked' = Walked
         /\ \A p : /\ AttributesReached(p)' = AttributesReached(p)
                   /\ NeedsChange(task, p)' = NeedsChange(task, p)
<1> QED BY DEF StateReached, Targets, Known, Walked, AttributesReached, NeedsChange, NeedsMode, NeedsOwner,
       ThroughLink, Followed, Walk, Under, Exists, IsLink, Resolve, AsLink, Desired

AllInv == IInv /\ AttributesOK /\ AgainOK

\* Beginning again, right after the task has ended well.
LEMMA BeginAgain ==
  ASSUME AllInv, NEW t \in Tasks, Begin(t)
  PROVE  AllInv'
<1>1. /\ pc' = "state" /\ task' = t /\ changed' = FALSE /\ fs' = fs
      /\ again' => pc = "ok" /\ task' = task
  BY DEF Begin
<1>2. AttributesOK'
  BY <1>1 DEF AttributesOK
<1>3. AgainOK'
  <2> SUFFICES ASSUME again'
               PROVE  /\ StateReached'
                      /\ Known' /\ task'.state # "absent" => \A p \in Walked' : ~NeedsChange(task, p)'
    BY <1>1 DEF AgainOK
  <2>1. StateReached
    BY <1>1 DEF AllInv, IInv, PhaseOK
  <2>2. Known /\ task.state # "absent" => \A p \in Walked : ~NeedsChange(task, p)
    BY <1>1, ReachedSkipped DEF AllInv
  <2> QED BY <1>1, <2>1, <2>2, SameFs
<1> QED BY <1>2, <1>3, BeginStep DEF AllInv

\* A step that fails.
LEMMA FailedStep ==
  ASSUME IInv', pc' = "failed"
  PROVE  AllInv'
BY DEF AllInv, AttributesOK, AgainOK

\* A step of a task that leaves the file system as it is.
LEMMA QuietStep ==
  ASSUME AllInv, IInv', UNCHANGED <<fs, task, changed, again>>, task.state # "absent",
         pc \in {"state", "attrs"}, pc' \in {"attrs", "ok"},
         pc' = "attrs" => todo' \subseteq IF pc = "state" THEN Walked ELSE todo,
         \A p \in Targets : (p \in todo' /\ pc' = "attrs") \/ AttributesReached(p)
  PROVE  AllInv'
<1>1. AttributesOK'
  BY SameFs DEF AttributesOK
<1>2. AgainOK'
  BY SameFs DEF AgainOK, AllInv
<1> QED BY <1>1, <1>2 DEF AllInv

LEMMA AbsentAgain ==
  ASSUME AllInv, Absent
  PROVE  AllInv'
<1>1. /\ pc = "state" /\ task.state = "absent" /\ pc' = "ok" /\ changed' = Exists(task.path)
      /\ UNCHANGED <<task, again>>
  BY DEF Absent, InState
<1>2. again => ~changed'
  BY <1>1, TaskType DEF AllInv, IInv, AgainOK, StateReached, Under
<1> QED BY <1>1, <1>2, AbsentStep DEF AllInv, AttributesOK, AgainOK

LEMMA DirectoryAgain ==
  ASSUME AllInv, Directory
  PROVE  AllInv'
<1>1. /\ pc = "state" /\ task.state = "directory" /\ pc' = "attrs"
      /\ fs' = WithDirs(ToMake(task.path))
      /\ changed' = ~Exists(task.path) /\ todo' = Walk(task)
      /\ UNCHANGED <<task, at, start, again>>
  BY DEF Directory, InState, Attributes
<1>2. IInv /\ IInv'
  <2>1. IInv
    BY DEF AllInv
  <2> QED BY <2>1, DirectoryStep
<1> task.path \in Path
  BY <1>2, TaskType DEF IInv
<1>3. Targets' \subseteq todo'
  <2> SUFFICES ASSUME NEW p \in Targets' PROVE p \in todo'
    OBVIOUS
  <2>1. CASE ~task.recurse
    BY <1>1, <2>1 DEF Targets, Walk
  <2>2. CASE task.recurse
    <3>1. p \in Path /\ p \in Under(task.path) /\ Exists(p)'
      BY <1>1, <2>2 DEF Targets, Under
    <3>2. p # task.path => p \notin ToMake(task.path)
      BY <1>2, <3>1, FileAssumption DEF ToMake, Under
    <3>3. p # task.path => Exists(p)
      BY <1>1, <3>1, <3>2 DEF WithDirs, Exists
    <3> QED BY <1>1, <2>2, <3>1, <3>3 DEF Walk
  <2> QED BY <2>1, <2>2
<1>4. AttributesOK'
  BY <1>1, <1>3 DEF AttributesOK
<1>5. ASSUME again
      PROVE  fs' = fs /\ ~changed'
  <2>1. fs[Resolve(task.path)].kind = "dir"
    BY <1>1, <1>5 DEF AllInv, AgainOK, StateReached
  <2>2. Exists(task.path)
    BY <2>1 DEF Resolve, Exists, IsLink
  <2>3. ToMake(task.path) = {}
    BY <1>2, <2>2, FileAssumption DEF IInv, TreeOK, ToMake, Exists
  <2>4. fs' = [q \in Path |-> fs[q]]
    BY <1>1, <2>3 DEF WithDirs
  <2>5. fs' = fs
    BY <1>2, <2>4 DEF IInv, TypeOK
  <2> QED BY <1>1, <2>2, <2>5
<1>6. AgainOK'
  BY <1>1, <1>5, SameFs DEF AllInv, AgainOK, Walked
<1> QED BY <1>2, <1>4, <1>6 DEF AllInv

LEMMA RegularAgain ==
  ASSUME AllInv, Regular
  PROVE  AllInv'
<1>1. /\ pc = "state" /\ task.state = "file"
      /\ UNCHANGED <<fs, task, at, changed, start, again>>
      /\ \/ pc' = "ok" /\ task.mode.kind = "none" /\ task.owner = NoOwner
         \/ pc' = "attrs" /\ todo' = {task.path}
  BY DEF Regular, InState, Attributes
<1>2. ~task.recurse
  BY <1>1, TaskType DEF AllInv, IInv
<1>3. Targets \subseteq {task.path} /\ Walked = {task.path}
  BY <1>1, <1>2 DEF Targets, Walked, Walk
<1>4. task.mode.kind = "none" /\ task.owner = NoOwner => \A p \in Targets : AttributesReached(p)
  BY DEF AttributesReached
<1> QED BY <1>1, <1>3, <1>4, RegularStep, QuietStep DEF AllInv

LEMMA KeepLinkAgain ==
  ASSUME AllInv, KeepLink
  PROVE  AllInv'
<1>1. /\ pc = "state" /\ task.state = "link" /\ IsLink(task.path)
      /\ UNCHANGED <<fs, task, at, changed, start, again>>
      /\ pc' = "attrs" /\ todo' = Followed(task)
  BY DEF KeepLink, InState, Attributes
<1>2. Targets = {} /\ Walked = todo'
  BY <1>1, TaskType DEF Targets, Walked, AllInv, IInv
<1> QED BY <1>1, <1>2, KeepLinkStep, QuietStep DEF AllInv

\* A link that is there already is not made again.
LEMMA UnlinkAgain ==
  ASSUME AllInv, Unlink
  PROVE  AllInv'
<1>1. pc = "state" /\ task.state = "link" /\ ~SameLink(task) /\ pc' = "link" /\ UNCHANGED <<task, again>>
  BY DEF Unlink, InState
<1>2. ~again
  BY <1>1 DEF AllInv, AgainOK, StateReached, SameLink
<1> QED BY <1>1, <1>2, UnlinkStep DEF AllInv, AttributesOK, AgainOK

LEMMA SymlinkAgain ==
  ASSUME AllInv, Symlink \/ Relink
  PROVE  AllInv'
<1>1. /\ pc \in {"state", "link"} /\ task.state = "link" /\ ~Exists(task.path)
      /\ pc' = "attrs" /\ UNCHANGED <<task, again>>
  BY DEF Symlink, Relink, InState, CanCreate, Attributes, AllInv, IInv, PhaseOK
<1>2. ~again
  BY <1>1 DEF AllInv, AgainOK, StateReached, Exists, IsLink
<1>3. IInv' /\ StateReached'
  BY <1>1, SymlinkStep DEF AllInv, IInv, PhaseOK
<1>4. Targets' = {}
  BY <1>1, <1>3, TaskType DEF Targets, AllInv, IInv, StateReached
<1> QED BY <1>1, <1>2, <1>3, <1>4 DEF AllInv, AttributesOK, AgainOK

LEMMA TouchAgain ==
  ASSUME AllInv, Touch
  PROVE  AllInv'
<1>1. /\ pc = "state" /\ task.state = "touch" /\ pc' = "attrs" /\ todo' = {task.path}
      /\ UNCHANGED <<task, at, start, again>>
  BY DEF Touch, InState, Attributes
<1>2. ~task.recurse
  BY <1>1, TaskType DEF AllInv, IInv
<1>3. CASE UNCHANGED <<fs, changed>>
  <2>1. Targets \subseteq todo' /\ Walked = todo'
    BY <1>1, <1>2 DEF Targets, Walked, Walk
  <2> QED BY <1>1, <1>3, <2>1, TouchStep, QuietStep DEF AllInv
<1>4. CASE CanCreate(task.path)
  <2>1. ~again
    BY <1>1, <1>4 DEF AllInv, AgainOK, StateReached, CanCreate
  <2>2. Targets' \subseteq todo'
    BY <1>1, <1>2 DEF Targets
  <2> QED BY <1>1, <2>1, <2>2, TouchStep DEF AllInv, AttributesOK, AgainOK
<1> QED BY <1>3, <1>4 DEF Touch

LEMMA SkipAgain ==
  ASSUME AllInv, NEW p \in todo, Skip(p)
  PROVE  AllInv'
<1>1. /\ pc = "attrs" /\ ~NeedsChange(task, p) /\ todo' = todo \ {p}
      /\ UNCHANGED <<fs, task, pc, at, changed, start, again>>
  BY DEF Skip
<1>2. task.state # "absent"
  BY <1>1 DEF AllInv, IInv, PhaseOK
<1>3. \A q \in Targets : q \in todo' \/ AttributesReached(q)
  BY <1>1, <1>2, SkippedReached DEF AllInv, AttributesOK
<1> QED BY <1>1, <1>2, <1>3, SkipStep, QuietStep DEF AllInv

LEMMA FinishAgain ==
  ASSUME AllInv, Finish
  PROVE  AllInv'
<1>1. pc = "attrs" /\ todo = {} /\ pc' = "ok" /\ UNCHANGED <<fs, task, todo, at, changed, start, again>>
  BY DEF Finish
<1>2. task.state # "absent"
  BY <1>1 DEF AllInv, IInv, PhaseOK
<1>3. \A q \in Targets : AttributesReached(q)
  BY <1>1, <1>2 DEF AllInv, AttributesOK
<1> QED BY <1>1, <1>2, <1>3, FinishStep, QuietStep DEF AllInv

\* Setting one entry of the walk, or what a link at the task's path leads to, leaves the
\* attributes behind the walk.
LEMMA OthersKept ==
  ASSUME AllInv, pc \in {"attrs", "chown"}, UNCHANGED <<task, start>>,
         NEW p \in todo, ~AsLink(task, p) \/ (task.recurse /\ IsLink(p)), NEW r,
         r = IF task.recurse THEN p ELSE Resolve(p),
         \A q \in Path : q # r => fs'[q] = fs[q],
         \A q \in Path : Exists(q)' = Exists(q) /\ IsLink(q)' = IsLink(q)
  PROVE  /\ Targets' = Targets
         /\ \A q \in Targets : q \in todo \/ AttributesReached(q)'
         /\ p \in Targets => r = p
<1>1. Targets' = Targets
  BY TaskType DEF AllInv, IInv, Targets, Under
<1>2. p \in Targets => r = p
  BY DEF Targets, Resolve
<1>3. ASSUME NEW q \in Targets, q \notin todo
      PROVE  AttributesReached(q)'
  <2>1. AttributesReached(q) /\ q \in Path
    BY <1>3 DEF AllInv, IInv, PhaseOK, AttributesOK, Targets
  <2>2. task.recurse
    BY <1>3 DEF AllInv, IInv, PhaseOK, Targets
  <2>3. q # r
    BY <1>3, <2>2
  <2> QED BY <2>1, <2>3, AttributesKept
<1> QED BY <1>1, <1>2, <1>3

\* Setting an entry's mode or owner makes and removes none.
LEMMA SameKinds ==
  ASSUME \A q \in Path : fs'[q].kind = fs[q].kind
  PROVE  \A q \in Path : Exists(q)' = Exists(q) /\ IsLink(q)' = IsLink(q)
BY DEF Exists, IsLink

LEMMA LchownAgain ==
  ASSUME AllInv, NEW p \in todo, Lchown(p)
  PROVE  AllInv'
<1>1. /\ pc = "attrs" /\ task.recurse /\ IsLink(p) /\ NeedsChange(task, p)
      /\ fs' = [fs EXCEPT ![p].owner = task.owner]
      /\ todo' = todo \ {p} /\ UNCHANGED <<task, pc, at, start, again>>
  BY TaskType DEF Lchown, AsLink, AllInv, IInv
<1>2. /\ IInv /\ IInv' /\ p \in Path /\ fs \in [Path -> Entry] /\ task.state # "absent"
  BY <1>1, LchownStep DEF AllInv, IInv, PhaseOK, TypeOK
<1>3. /\ fs'[p].owner = task.owner
      /\ \A q \in Path : q # p => fs'[q] = fs[q]
      /\ \A q \in Path : fs'[q].kind = fs[q].kind
  BY <1>1, <1>2 DEF Entry
<1>4. /\ Targets' = Targets /\ IsLink(p)'
      /\ \A q \in Targets : q \in todo \/ AttributesReached(q)'
  BY <1>1, <1>2, <1>3, SameKinds, OthersKept
<1>5. AttributesReached(p)'
  BY <1>1, <1>3, <1>4 DEF AttributesReached
<1>6. AttributesOK'
  BY <1>1, <1>4, <1>5 DEF AttributesOK
<1>7. again => ~Known /\ ~Known'
  <2>1. again => ~Known
    BY <1>1 DEF AllInv, AgainOK
  <2>2. Known' = Known
    BY <1>1, <1>2, <1>3, TaskType, SameKinds DEF Known, ThroughLink, IInv
  <2> QED BY <2>1, <2>2
<1>8. AgainOK'
  BY <1>1, <1>7 DEF AgainOK
<1> QED BY <1>2, <1>6, <1>8 DEF AllInv

LEMMA ChmodAgain ==
  ASSUME AllInv, NEW p \in todo, Chmod(p)
  PROVE  AllInv'
<1>1. /\ pc = "attrs" /\ ~AsLink(task, p) /\ NeedsChange(task, p)
      /\ fs' = IF task.mode.kind = "none" THEN fs
               ELSE [fs EXCEPT ![Resolve(p)].mode = SetMode(task.mode, p)]
      /\ pc' = "chown" /\ at' = p /\ UNCHANGED <<task, todo, start, again>>
  BY DEF Chmod
<1>2. IInv /\ IInv' /\ p \in Path /\ fs \in [Path -> Entry] /\ task.state # "absent"
  BY <1>1, ChmodStep DEF AllInv, IInv, PhaseOK, TypeOK
<1>3. /\ Resolve(p) \in Path
      /\ Resolve(p) = IF task.recurse THEN p ELSE Resolve(p)
  BY <1>1, <1>2 DEF IInv, TreeOK, AsLink, Resolve
<1>4. /\ task.mode.kind # "none" => fs'[Resolve(p)].mode = SetMode(task.mode, p)
      /\ \A q \in Path : q # Resolve(p) => fs'[q] = fs[q]
      /\ \A q \in Path : fs'[q].kind = fs[q].kind
  BY <1>1, <1>2, <1>3 DEF Entry
<1>5. /\ Targets' = Targets /\ IsLink(p)' = IsLink(p)
      /\ \A q \in Targets : q \in todo \/ AttributesReached(q)'
  BY <1>1, <1>2, <1>3, <1>4, SameKinds, OthersKept
<1>6. ASSUME ~IsLink(p), task.mode.kind # "none"
      PROVE  Desired(task.mode, p)' \cap Perm = fs'[p].mode
  <2>1. fs'[p].mode = SetMode(task.mode, p)
    BY <1>4, <1>6 DEF Resolve
  <2>2. ~IsLink(p)' /\ UNCHANGED task
    BY <1>1, <1>5, <1>6
  <2> QED BY <1>2, <1>6, <2>1, <2>2, SetModeAgain
<1>7. AttributesOK'
  BY <1>1, <1>5, <1>6 DEF AttributesOK, Desired, Resolve, IsLink
<1>8. again => ~Known /\ ~Known'
  <2>1. again => ~Known
    BY <1>1 DEF AllInv, AgainOK
  <2>2. Known' = Known
    BY <1>1, <1>2, <1>4, TaskType, SameKinds DEF Known, ThroughLink, IInv
  <2> QED BY <2>1, <2>2
<1>9. AgainOK'
  BY <1>1, <1>8 DEF AgainOK
<1> QED BY <1>2, <1>7, <1>9 DEF AllInv

LEMMA ChownAgain ==
  ASSUME AllInv, Chown
  PROVE  AllInv'
<1>1. at \in todo
  BY DEF Chown, AllInv, IInv, PhaseOK
<1> PICK p \in todo : p = at
  BY <1>1
<1>2. /\ pc = "chown" /\ pc' = "attrs" /\ todo' = todo \ {p}
      /\ fs' = IF task.owner = NoOwner THEN fs ELSE [fs EXCEPT ![Resolve(p)].owner = task.owner]
      /\ UNCHANGED <<task, changed, start, again>>
  BY DEF Chown, Resolve, IsLink
<1>3. /\ IInv /\ IInv' /\ fs \in [Path -> Entry] /\ task.state # "absent"
      /\ p \in Path /\ ~AsLink(task, p)
  BY <1>2, ChownStep DEF AllInv, IInv, PhaseOK, TypeOK, AsLink, IsLink
<1>4. /\ Resolve(p) \in Path
      /\ Resolve(p) = IF task.recurse THEN p ELSE Resolve(p)
  BY <1>3 DEF IInv, TreeOK, AsLink, Resolve
<1>5. /\ task.owner # NoOwner => fs'[Resolve(p)].owner = task.owner
      /\ fs'[Resolve(p)].mode = fs[Resolve(p)].mode
      /\ \A q \in Path : q # Resolve(p) => fs'[q] = fs[q]
      /\ \A q \in Path : fs'[q].kind = fs[q].kind
  BY <1>2, <1>3, <1>4 DEF Entry
<1>6. /\ Targets' = Targets /\ IsLink(p)' = IsLink(p)
      /\ \A q \in Targets : q \in todo \/ AttributesReached(q)'
      /\ p \in Targets => Resolve(p) = p
  BY <1>2, <1>3, <1>4, <1>5, SameKinds, OthersKept
<1>7. ASSUME p \in Targets
      PROVE  AttributesReached(p)'
  <2>1. Resolve(p) = p
    BY <1>6, <1>7
  <2>2. task.owner # NoOwner => fs'[p].owner = task.owner
    BY <1>5, <2>1
  <2>3. ASSUME task.mode.kind # "none", ~IsLink(p)
        PROVE  Desired(task.mode, p)' \cap Perm = fs'[p].mode
    <3>1. Desired(task.mode, p) \cap Perm = fs[p].mode
      BY <1>2, <2>3 DEF AllInv, AttributesOK, Desired, Resolve, IsLink
    <3> QED BY <1>2, <1>5, <1>6, <2>1, <2>3, <3>1 DEF Desired, Resolve
  <2> QED BY <1>2, <1>6, <2>2, <2>3 DEF AttributesReached
<1>8. AttributesOK'
  BY <1>2, <1>6, <1>7 DEF AttributesOK
<1>9. again => ~Known /\ ~Known'
  <2>1. again => ~Known
    BY <1>2 DEF AllInv, AgainOK
  <2>2. Known' = Known
    BY <1>2, <1>3, <1>5, TaskType, SameKinds DEF Known, ThroughLink, IInv
  <2> QED BY <2>1, <2>2
<1>10. AgainOK'
  BY <1>2, <1>9 DEF AgainOK
<1> QED BY <1>3, <1>8, <1>10 DEF AllInv

-----------------------------------------------------------------------------
(* The invariant and what follows from it                                  *)

LEMMA Stutters ==
  ASSUME IInv, UNCHANGED vars
  PROVE  IInv'
<1>1. TreeOK' /\ Confined' /\ StateReached' = StateReached
  BY FsKept DEF vars, IInv
<1> QED BY <1>1 DEF vars, IInv, TypeOK, PhaseOK, Under, AsLink, IsLink, Resolve, Exists

LEMMA Invariance == Spec => []IInv
<1>1. IInv /\ [Next]_vars => IInv'
  BY Stutters, BeginStep, AbsentStep, AbsentHalfwayStep, DirectoryStep, DirectoryHalfwayStep, RegularStep,
     SymlinkStep, KeepLinkStep, UnlinkStep, TouchStep, SkipStep, LchownStep, ChmodStep,
     ChownStep, FinishStep, FailStep DEF Next
<1> QED BY InitInv, <1>1, PTL DEF Spec

LEMMA AllInvariance == Spec => []AllInv
<1>1. Init => AllInv
  BY InitInv DEF AllInv, AttributesOK, AgainOK, Init
<1>2. ASSUME AllInv, [Next]_vars
      PROVE  AllInv'
  <2>1. IInv
    BY <1>2 DEF AllInv
  <2>2. CASE UNCHANGED vars
    <3>1. IInv'
      BY <2>1, <2>2, Stutters
    <3>2. AttributesOK'
      BY <1>2, <2>2, SameFs DEF AllInv, AttributesOK, vars, Desired, Resolve, IsLink
    <3>3. AgainOK'
      BY <1>2, <2>2, SameFs DEF AllInv, AgainOK, vars
    <3> QED BY <3>1, <3>2, <3>3 DEF AllInv
  <2>3. CASE AbsentHalfway \/ DirectoryHalfway \/ Fail
    <3>1. IInv'
      BY <2>1, <2>3, AbsentHalfwayStep, DirectoryHalfwayStep, FailStep
    <3>2. pc' = "failed"
      BY <2>3 DEF AbsentHalfway, DirectoryHalfway, Fail
    <3> QED BY <3>1, <3>2, FailedStep
  <2>4. CASE \E t \in Tasks : Begin(t)
    BY <1>2, <2>4, BeginAgain
  <2>5. CASE Absent \/ Directory \/ Regular \/ Touch
    BY <1>2, <2>5, AbsentAgain, DirectoryAgain, RegularAgain, TouchAgain
  <2>6. CASE Symlink \/ KeepLink \/ Unlink \/ Relink
    BY <1>2, <2>6, SymlinkAgain, KeepLinkAgain, UnlinkAgain
  <2>7. CASE \E p \in todo : Skip(p) \/ Lchown(p) \/ Chmod(p)
    BY <1>2, <2>7, SkipAgain, LchownAgain, ChmodAgain
  <2>8. CASE Chown \/ Finish
    BY <1>2, <2>8, ChownAgain, FinishAgain
  <2> QED BY <1>2, <2>2, <2>3, <2>4, <2>5, <2>6, <2>7, <2>8 DEF Next
<1> QED BY <1>1, <1>2, PTL DEF Spec

\* The host's file system and the state of a task have their types.
THEOREM Typed == Spec => []TypeOK
<1>1. IInv => TypeOK
  BY DEF IInv
<1> QED BY Invariance, <1>1, PTL

\* A recursive walk, a removal or a link never changes what is outside the task's path, even
\* when it is cut off half way: for any tree, links in it and tasks.
THEOREM StaysInside == Spec => []Confined
<1>1. IInv => Confined
  BY DEF IInv
<1> QED BY Invariance, <1>1, PTL

\* Whenever Apply returns without Changed, the host is as it was.
THEOREM ReportsChanges == Spec => []UnchangedIsTrue
<1>1. IInv => UnchangedIsTrue
  BY DEF IInv, PhaseOK, UnchangedIsTrue
<1> QED BY Invariance, <1>1, PTL

\* A task that ends well leaves its path in its state, and the whole of its walk with the
\* mode and the owner it asks for, after any history of other tasks and failures and for
\* symbolic modes of any number of clauses.
THEOREM EndsAsAsked == Spec => []Reached
<1>1. AllInv => Reached
  BY DEF AllInv, IInv, PhaseOK, AttributesOK, Targets, Reached
<1> QED BY AllInvariance, <1>1, PTL

\* In particular it leaves its path in its state.
THEOREM StatesReached == Spec => [](pc = "ok" => StateReached)
<1>1. Reached => (pc = "ok" => StateReached)
  BY DEF Reached
<1> QED BY EndsAsAsked, <1>1, PTL

\* A task that is applied again right after it has ended well reports no change, unless it
\* asks for what it cannot see.
THEOREM AppliedTwice == Spec => []Settles
<1>1. AllInv => Settles
  BY DEF AllInv, AgainOK, Known, Settles
<1> QED BY AllInvariance, <1>1, PTL
=============================================================================
