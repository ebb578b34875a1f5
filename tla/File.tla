-------------------------------- MODULE File --------------------------------
(***************************************************************************)
(* The file module on the file system of a host: tasks are applied one     *)
(* after the other, in any order, and any call may fail or the executer be *)
(* killed between two of them.  Of the owner and the group of a file, one  *)
(* is kept: the code treats them alike.  Links are at the leaves and lead  *)
(* to paths that no task makes a link.                                     *)
(***************************************************************************)
EXTENDS Naturals, Sequences, FiniteSets

CONSTANTS
  Path,     \* absolute paths
  Above,    \* the directories that each of them is in, near and far
  Owner,
  Root,     \* the owner that the executer runs as
  Tasks,    \* the file tasks of the host's playbooks
  NoOwner,  \* stands for an owner that is not given
  NoPath

Who == {"u", "g", "o"}
Rights == {"r", "w", "x"}
Perm == Who \X Rights                 \* the bits of 0777
Sticky == <<"s", "t">>                \* a bit above them
DirMode == Perm \ {<<"g", "w">>, <<"o", "w">>}
NewMode == {<<"u", "r">>, <<"u", "w">>, <<"g", "r">>, <<"o", "r">>}

\* What mode.go reads: nothing, octal digits, or clauses like u=rw,a-x.
Clause == [who : SUBSET Who, op : {"+", "-", "=", "invalid"}, rights : SUBSET Rights]
Mode == [kind : {"none", "octal", "symbolic"}, bits : SUBSET (Perm \cup {Sticky}), clauses : Seq(Clause)]
State == {"absent", "directory", "file", "hard", "link", "touch"}
Task == [path : Path, state : State, src : Path \cup {NoPath}, recurse : BOOLEAN, follow : BOOLEAN,
         mode : Mode, owner : Owner \cup {NoOwner}]

\* Validate.
Valid(t) == /\ t.recurse => t.state = "directory"
            /\ t.state \in {"link", "hard"} => t.src # NoPath

Links == {t.path : t \in {u \in Tasks : u.state = "link"}}

ASSUME FileAssumption ==
  /\ Above \in [Path -> SUBSET Path]
  /\ \A p \in Path : p \notin Above[p] /\ \A a \in Above[p] : Above[a] \subseteq Above[p]
  /\ Root \in Owner /\ NoOwner \notin Owner /\ NoPath \notin Path
  /\ Tasks \subseteq Task /\ Tasks # {} /\ \A t \in Tasks : Valid(t)
  /\ \A p \in Links : \A q \in Path : p \notin Above[q]
  /\ \A t \in Tasks : t.state = "link" => t.src \notin Links

Nothing == [kind |-> "none", mode |-> {}, owner |-> Root, to |-> NoPath]
Entry == [kind : {"none", "file", "dir", "link"}, mode : SUBSET Perm, owner : Owner, to : Path \cup {NoPath}]

VARIABLES
  fs,       \* what is at each path
  task,     \* the task that is or was applied
  pc,       \* "idle", "state", "link", "attrs", "chown", "ok" or "failed"
  todo,     \* paths whose mode and owner are to be looked at
  at,       \* the one whose mode has been set and whose owner has not
  changed,  \* the result's Changed
  start,    \* history: fs when the task began
  again     \* history: the task before was the same and did not fail

vars == <<fs, task, pc, todo, at, changed, start, again>>

AnyTask == CHOOSE t \in Tasks : TRUE

Init ==
  /\ fs = [p \in Path |-> Nothing] /\ start = fs
  /\ task = AnyTask /\ pc = "idle" /\ todo = {} /\ at = NoPath
  /\ changed = FALSE /\ again = FALSE

Exists(p) == fs[p].kind # "none"
Under(p) == {q \in Path : q = p \/ p \in Above[q]}
IsLink(p) == fs[p].kind = "link"

\* The entry that Stat, Chmod and Chown reach.
Resolve(p) == IF IsLink(p) THEN fs[p].to ELSE p

-----------------------------------------------------------------------------
(* pkg/exec/util/mode.go                                                   *)

ClauseEffect(m, c) ==
  LET mask == c.who \X c.rights
  IN  CASE c.op = "+" -> m \cup mask
        [] c.op = "-" -> m \ mask
        [] c.op = "=" -> (m \ (c.who \X Rights)) \cup mask
        [] OTHER -> m

NewModeFromSpec(m, clauses) ==
  LET after[n \in 0..Len(clauses)] ==
        IF n = 0 THEN m ELSE ClauseEffect(after[n - 1], clauses[n])
  IN  after[Len(clauses)]

ValidSpec(clauses) == \A i \in DOMAIN clauses : clauses[i].op # "invalid" /\ clauses[i].rights # {}

\* The mode asked for: a symbolic one starts from what p leads to, and fails if that is
\* nothing (CanRead).
Desired(mode, p) == IF mode.kind = "octal" THEN mode.bits
                    ELSE NewModeFromSpec(fs[Resolve(p)].mode, mode.clauses)

\* What os.Chmod makes of it: of the bits above 0777 it knows none by this name.
SetModeBug(mode, p) == Desired(mode, p)
SetMode(mode, p) == Desired(mode, p) \cap Perm

-----------------------------------------------------------------------------
(* pkg/exec/file.go                                                        *)

\* The walk leaves the modes of links alone.
AsLinkBug(t, p) == FALSE
AsLink(t, p) == t.recurse /\ IsLink(p)

CanRead(t, p) ==
  t.mode.kind = "symbolic" /\ ~AsLink(t, p) => Exists(Resolve(p)) /\ ValidSpec(t.mode.clauses)

\* needsModeOrOwnershipChange: it looks at the link itself, and an empty mode is none.
NeedsOwner(t, p) == t.owner # NoOwner /\ fs[p].owner # t.owner
NeedsMode(t, p) ==
  /\ t.mode.kind # "none" /\ ~AsLink(t, p)
  /\ Desired(t.mode, p) \notin {{}, fs[p].mode}

NeedsChange(t, p) == NeedsMode(t, p) \/ NeedsOwner(t, p)

Begin(t) ==
  /\ pc \in {"idle", "ok", "failed"}
  /\ task' = t /\ start' = fs /\ again' = (pc = "ok" /\ t = task)
  /\ pc' = "state" /\ todo' = {} /\ at' = NoPath /\ changed' = FALSE
  /\ UNCHANGED fs

\* Lstat finds the path or finds that it does not exist.
CanStat(p) == \A a \in Above[p] : fs[a].kind \in {"none", "dir"}
CanCreate(p) == ~Exists(p) /\ \A a \in Above[p] : fs[a].kind = "dir"

InState(s) == pc = "state" /\ task.state = s /\ CanStat(task.path)

Attributes(paths) == pc' = "attrs" /\ todo' = paths
Put(p, kind, mode, to) ==
  fs' = [fs EXCEPT ![p] = [kind |-> kind, mode |-> mode, owner |-> Root, to |-> to]]

\* os.RemoveAll does not follow links.
Absent ==
  /\ InState("absent")
  /\ fs' = [q \in Path |-> IF q \in Under(task.path) THEN Nothing ELSE fs[q]]
  /\ changed' = Exists(task.path)
  /\ pc' = "ok"
  /\ UNCHANGED <<task, todo, at, start, again>>

\* It removes what is in a directory before the directory.
AbsentHalfway ==
  /\ InState("absent")
  /\ \E gone \in SUBSET {q \in Under(task.path) : Exists(q)} :
       /\ \A q \in Path : Exists(q) /\ Above[q] \cap gone # {} => q \in gone
       /\ fs' = [q \in Path |-> IF q \in gone THEN Nothing ELSE fs[q]]
  /\ pc' = "failed"
  /\ UNCHANGED <<task, todo, at, changed, start, again>>

\* What os.MkdirAll creates, if nothing on the way and at the end is something else.
ToMake(p) == {q \in Above[p] \cup {p} : ~Exists(q)}
CanMake(p) == Exists(p) => fs[Resolve(p)].kind = "dir"
WithDirs(new) == [q \in Path |-> IF q \in new THEN [Nothing EXCEPT !.kind = "dir", !.mode = DirMode]
                                 ELSE fs[q]]

\* filepath.WalkDir from the path, or the path alone.
WalkBug(t) == {t.path}
Walk(t) == IF t.recurse THEN {q \in Under(t.path) : q = t.path \/ Exists(q)} ELSE {t.path}

Directory ==
  /\ InState("directory") /\ CanMake(task.path)
  /\ fs' = WithDirs(ToMake(task.path))
  /\ changed' = ~Exists(task.path)
  /\ Attributes(Walk(task))
  /\ UNCHANGED <<task, at, start, again>>

DirectoryHalfway ==
  /\ InState("directory") /\ CanMake(task.path)
  /\ \E made \in SUBSET ToMake(task.path) :
       /\ \A q \in made : Above[q] \cap ToMake(task.path) \subseteq made
       /\ fs' = WithDirs(made)
  /\ pc' = "failed"
  /\ UNCHANGED <<task, todo, at, changed, start, again>>

\* Without attributes the task is skipped.
Regular ==
  /\ InState("file") /\ Exists(task.path)
  /\ IF task.mode.kind = "none" /\ task.owner = NoOwner THEN pc' = "ok" /\ UNCHANGED todo
     ELSE Attributes({task.path})
  /\ UNCHANGED <<fs, task, at, changed, start, again>>

Followed(t) == IF t.follow THEN {t.path} ELSE {}

Symlink ==
  /\ InState("link") /\ CanCreate(task.path)
  /\ Put(task.path, "link", Perm, task.src)
  /\ changed' = TRUE
  /\ Attributes(Followed(task))
  /\ UNCHANGED <<task, at, start, again>>

SameLinkBug(t) == FALSE            \* links are always made anew
SameLink(t) == fs[t.path].to = t.src

KeepLink ==
  /\ InState("link") /\ IsLink(task.path) /\ SameLink(task)
  /\ Attributes(Followed(task))
  /\ UNCHANGED <<fs, task, at, changed, start, again>>

Unlink ==
  /\ InState("link") /\ IsLink(task.path) /\ ~SameLink(task)
  /\ fs' = [fs EXCEPT ![task.path] = Nothing]
  /\ pc' = "link"
  /\ UNCHANGED <<task, todo, at, changed, start, again>>

Relink ==
  /\ pc = "link"
  /\ Put(task.path, "link", Perm, task.src)
  /\ changed' = TRUE
  /\ Attributes(Followed(task))
  /\ UNCHANGED <<task, at, start, again>>

CreatedBug == FALSE                \* the result does not say so
Created == TRUE

Touch ==
  /\ InState("touch")
  /\ \/ Exists(task.path) /\ UNCHANGED <<fs, changed>>
     \/ CanCreate(task.path) /\ Put(task.path, "file", NewMode, NoPath) /\ changed' = Created
  /\ Attributes({task.path})
  /\ UNCHANGED <<task, at, start, again>>

\* The walk is in lexical order; any order is allowed here.
Skip(p) ==
  /\ pc = "attrs" /\ CanRead(task, p) /\ ~NeedsChange(task, p)
  /\ todo' = todo \ {p}
  /\ UNCHANGED <<fs, task, pc, at, changed, start, again>>

Lchown(p) ==
  /\ pc = "attrs" /\ AsLink(task, p) /\ NeedsChange(task, p)
  /\ fs' = [fs EXCEPT ![p].owner = task.owner]
  /\ changed' = TRUE
  /\ todo' = todo \ {p}
  /\ UNCHANGED <<task, pc, at, start, again>>

\* ApplyModeAndIDs: os.Chmod, then os.Chown.
Chmod(p) ==
  /\ pc = "attrs" /\ ~AsLink(task, p) /\ CanRead(task, p) /\ NeedsChange(task, p)
  /\ Exists(Resolve(p))
  /\ fs' = IF task.mode.kind = "none" THEN fs
           ELSE [fs EXCEPT ![Resolve(p)].mode = SetMode(task.mode, p)]
  /\ changed' = TRUE
  /\ pc' = "chown" /\ at' = p
  /\ UNCHANGED <<task, todo, start, again>>

Chown ==
  /\ pc = "chown"
  /\ fs' = IF task.owner = NoOwner THEN fs ELSE [fs EXCEPT ![Resolve(at)].owner = task.owner]
  /\ pc' = "attrs" /\ todo' = todo \ {at} /\ at' = NoPath
  /\ UNCHANGED <<task, changed, start, again>>

Finish ==
  /\ pc = "attrs" /\ todo = {}
  /\ pc' = "ok"
  /\ UNCHANGED <<fs, task, todo, at, changed, start, again>>

\* Any call may fail, those that cannot succeed do, and the executer may be killed.
Fail ==
  /\ pc \in {"state", "link", "attrs", "chown"}
  /\ pc' = "failed"
  /\ UNCHANGED <<fs, task, todo, at, changed, start, again>>

Next ==
  \/ \E t \in Tasks : Begin(t)
  \/ Absent \/ AbsentHalfway \/ Directory \/ DirectoryHalfway \/ Regular
  \/ Symlink \/ KeepLink \/ Unlink \/ Relink \/ Touch
  \/ \E p \in todo : Skip(p) \/ Lchown(p) \/ Chmod(p)
  \/ Chown \/ Finish \/ Fail

Spec == Init /\ [][Next]_vars

-----------------------------------------------------------------------------
(* Properties                                                              *)

TypeOK ==
  /\ fs \in [Path -> Entry] /\ start \in [Path -> Entry]
  /\ task \in Tasks
  /\ pc \in {"idle", "state", "link", "attrs", "chown", "ok", "failed"}
  /\ todo \in SUBSET Path /\ at \in Path \cup {NoPath}
  /\ changed \in BOOLEAN /\ again \in BOOLEAN

\* A task that ends without Changed has changed nothing, whatever it did on the way.
UnchangedIsTrue == pc = "ok" /\ ~changed => fs = start

\* A task changes what is at and under its path, makes the directories above it, and
\* sets the attributes of the file that a link at its path leads to: even a recursive
\* one, killed anywhere, never leaves its tree through a link in it.
Confined ==
  \A q \in Path \ (Under(task.path) \cup {Resolve(task.path)}) :
    \/ fs[q] = start[q]
    \/ task.state = "directory" /\ q \in Above[task.path] /\ start[q] = Nothing

\* A task that ends well has brought its path to its state and the whole of its walk to
\* its mode and owner, whatever earlier tasks, finished or not, have left there.  That
\* excludes an empty mode, which is taken for none, and the files that links lead to.
StateReached ==
  CASE task.state = "absent" -> \A q \in Under(task.path) : ~Exists(q)
    [] task.state = "directory" -> fs[Resolve(task.path)].kind = "dir"
    [] task.state = "link" -> IsLink(task.path) /\ fs[task.path].to = task.src
    [] OTHER -> Exists(task.path)
AttributesReached(p) ==
  /\ task.owner # NoOwner => fs[p].owner = task.owner
  /\ task.mode.kind # "none" /\ ~IsLink(p) => Desired(task.mode, p) \cap Perm \in {{}, fs[p].mode}
Reached ==
  pc = "ok" => /\ StateReached
               /\ task.state # "absent" =>
                    \A p \in Path : /\ IF task.recurse THEN p \in Under(task.path) /\ Exists(p)
                                       ELSE p = task.path /\ ~IsLink(p)
                                    => AttributesReached(p)

\* A task that is applied again, right after it has ended well, ends well with nothing to
\* change, if it fails at nothing.  That excludes bits above 0777 and the attributes of a
\* file that a link leads to: of these it never knows that they are as asked for.
ThroughLink(t) ==
  /\ IsLink(t.path) /\ ~t.recurse /\ (t.state = "link" => t.follow)
  /\ t.mode.kind # "none" \/ t.owner # NoOwner
Settles ==
  again /\ pc = "ok" /\ ~ThroughLink(task) /\ Sticky \notin task.mode.bits => ~changed
=============================================================================
