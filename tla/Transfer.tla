------------------------------ MODULE Transfer ------------------------------
(***************************************************************************)
(* The modules that bring content to a host: copy (a file, a directory or  *)
(* its content parameter), template, get_url, and command and shell, with  *)
(* a command that writes a file.  Tasks are applied one after the other,   *)
(* in any order; any call may fail, or the executer be killed, between the *)
(* steps of one.  Content is a value of Data; Partial is what a write      *)
(* leaves that has been cut off.                                           *)
(***************************************************************************)
EXTENDS Naturals, Sequences, FiniteSets, SequencesExt

CONSTANTS
  Name,      \* of files and directories
  Path,      \* sequences of names
  Data,
  Attr,      \* modes and owners that tasks give
  Tasks,
  Default,   \* stands for the attributes of a new file, and for none given
  Partial

Above(p) == {SubSeq(p, 1, n) : n \in 1..(Len(p) - 1)}
Base(src) == <<Last(src)>>

\* data is what the source, or each of the files of a source directory, comes to, or what the
\* command writes at dest.  creates and removes are <<>> when they are not given.
Task == [kind : {"file", "dir", "content", "template", "get_url", "command"}, dest : Path,
         slash : BOOLEAN, src : Seq(Name), data : Data, files : SUBSET (Seq(Name) \ {<<>>}),
         mode : Attr \cup {Default}, owner : Attr \cup {Default},
         creates : Path \cup {<<>>}, removes : Path \cup {<<>>}]

\* Validate, and what a kind does not take.  A slash at the end of dest is of no matter to
\* a directory, and makes the other kinds fail.
Valid(t) == /\ t.src = <<>> <=> t.kind \in {"content", "command"}
            /\ t.slash => t.kind = "file"
            /\ t.kind \notin {"template", "get_url"} => t.mode = Default /\ t.owner = Default
            /\ t.kind # "command" => t.creates = <<>> /\ t.removes = <<>>

\* Paths are closed, and hold what tasks may put there; in a source directory a file is no
\* directory.
ASSUME TransferAssumption ==
  /\ Path \subseteq Seq(Name) \ {<<>>} /\ \A p \in Path : Above(p) \subseteq Path
  /\ Partial \notin Data /\ Default \notin Attr
  /\ Tasks \subseteq Task /\ Tasks # {} /\ \A t \in Tasks : Valid(t)
  /\ \A t \in Tasks : t.kind \in {"file", "dir", "get_url"} =>
       {t.dest \o t.src, t.dest \o Base(t.src)} \cup {t.dest \o Base(t.src) \o f : f \in t.files}
         \subseteq Path
  /\ \A t \in Tasks : \A f, g \in t.files : f \notin Above(g)
  /\ \A t \in Tasks : t.kind = "dir" \/ t.files = {}

Entry == [kind : {"none", "file", "dir"}, data : Data \cup {Partial},
          mode : Attr \cup {Default}, owner : Attr \cup {Default}]
Nothing == [kind |-> "none", data |-> Partial, mode |-> Default, owner |-> Default]
Dir == [Nothing EXCEPT !.kind = "dir"]

VARIABLES
  fs,      \* what is at each path
  task,    \* the task that is or was applied
  pc,      \* "idle", "state", "walk", "write", "mode", "owner", "ok" or "failed"
  dest,    \* the file that is being written
  dstDir,  \* the directory that a directory is copied to
  todo,    \* the files and directories of the source directory that are to be copied
  start,   \* history: fs when the task began
  again    \* history: the task before was the same and did not fail

vars == <<fs, task, pc, dest, dstDir, todo, start, again>>

Init ==
  /\ fs = [p \in Path |-> Nothing] /\ start = fs
  /\ task = CHOOSE t \in Tasks : TRUE
  /\ pc = "idle" /\ dest = task.dest /\ dstDir = task.dest /\ todo = {} /\ again = FALSE

IsFile(p) == fs[p].kind = "file"
IsDir(p) == fs[p].kind = "dir"
Exists(p) == fs[p].kind # "none"
InDir(p) == \A a \in Above(p) : IsDir(a)

Begin(t) ==
  /\ pc \in {"idle", "ok", "failed"}
  /\ task' = t /\ start' = fs /\ again' = (pc = "ok" /\ t = task)
  /\ pc' = "state" /\ dest' = t.dest /\ dstDir' = t.dest /\ todo' = {}
  /\ UNCHANGED fs

\* Other tasks remove things.
RemoveAll(p) ==
  /\ pc \in {"idle", "ok", "failed"} /\ Exists(p)
  /\ fs' = [q \in Path |-> IF IsPrefix(p, q) THEN Nothing ELSE fs[q]]
  /\ start' = fs' /\ pc' = "idle" /\ again' = FALSE
  /\ UNCHANGED <<task, dest, dstDir, todo>>

InState(kind) == pc = "state" /\ task.kind = kind

\* os.Create and os.WriteFile make or truncate the file before it is written.
Open(p) ==
  /\ InDir(p) /\ ~IsDir(p)
  /\ fs' = [fs EXCEPT ![p].kind = "file", ![p].data = Partial]
  /\ dest' = p /\ pc' = "write"

-----------------------------------------------------------------------------
(* copy                                                                    *)

CopyContent ==
  /\ InState("content") /\ Open(task.dest)
  /\ UNCHANGED <<task, dstDir, todo, start, again>>

\* A destination with a slash is a directory, made if need be.
MakeDest ==
  /\ InState("file") /\ task.slash /\ ~Exists(task.dest) /\ InDir(task.dest)
  /\ fs' = [fs EXCEPT ![task.dest] = Dir]
  /\ UNCHANGED <<task, pc, dest, dstDir, todo, start, again>>

\* In a directory a file keeps the path that it has in files/.
Into(t) == IF t.slash \/ IsDir(t.dest) THEN t.dest \o t.src ELSE t.dest

CopyFile ==
  /\ InState("file") /\ (task.slash => Exists(task.dest)) /\ Open(Into(task))
  /\ UNCHANGED <<task, dstDir, todo, start, again>>

\* The directory itself is copied, given with a slash or without: filepath.Join has
\* cleaned the source's path.
DirDestBug(t) == IF IsDir(t.dest) THEN t.dest \o Base(t.src) ELSE t.dest      \* as cp -r does
DirDest(t) == t.dest \o Base(t.src)

\* The directories of the source directory that hold a file; empty ones are left out.
DirsOf(t) == UNION {Above(f) : f \in t.files}

\* os.MkdirAll, which may be cut off.
MakesBug(p) == {p}                 \* os.Mkdir
Makes(p) == Above(p) \cup {p}
MakeDirs(new) == fs' = [q \in Path |-> IF q \in new /\ ~Exists(q) THEN Dir ELSE fs[q]]

CopyDir ==
  /\ InState("dir") /\ \A a \in Makes(DirDest(task)) : ~IsFile(a)
  /\ MakeDirs(Makes(DirDest(task)))
  /\ dstDir' = DirDest(task) /\ todo' = task.files \cup DirsOf(task)
  /\ pc' = "walk"
  /\ UNCHANGED <<task, dest, start, again>>

CopyDirHalfway ==
  /\ InState("dir") /\ \A a \in Makes(DirDest(task)) : ~IsFile(a)
  /\ \E a \in Above(DirDest(task)) : MakeDirs(Makes(a))
  /\ pc' = "failed"
  /\ UNCHANGED <<task, dest, dstDir, todo, start, again>>

\* A directory comes before what is in it; what else comes first is of no matter here.
Comes(f) == pc = "walk" /\ f \in todo /\ Above(f) \cap todo = {}

CopyNext(f) ==
  /\ Comes(f) /\ f \in task.files /\ Open(dstDir \o f)
  /\ todo' = todo \ {f}
  /\ UNCHANGED <<task, dstDir, start, again>>

MakeNext(f) ==
  /\ Comes(f) /\ f \in DirsOf(task) /\ ~IsFile(dstDir \o f)
  /\ MakeDirs({dstDir \o f}) /\ todo' = todo \ {f}
  /\ UNCHANGED <<task, pc, dest, dstDir, start, again>>

WalkEnds ==
  /\ pc = "walk" /\ todo = {}
  /\ pc' = "ok"
  /\ UNCHANGED <<fs, task, dest, dstDir, todo, start, again>>

-----------------------------------------------------------------------------
(* template                                                                *)

\* A file with the rendered content is left alone, its mode and owner included.
SameContentBug(t) == IsFile(t.dest)           \* any file is taken for the rendered one
SameContent(t) == IsFile(t.dest) /\ fs[t.dest].data = t.data

SkipTemplate ==
  /\ InState("template") /\ SameContent(task)
  /\ pc' = "ok"
  /\ UNCHANGED <<fs, task, dest, dstDir, todo, start, again>>

WriteTemplate ==
  /\ InState("template") /\ ~SameContent(task) /\ Open(task.dest)
  /\ UNCHANGED <<task, dstDir, todo, start, again>>

-----------------------------------------------------------------------------
(* get_url                                                                 *)

\* The name comes from the response or from the URL.
UrlDest(t) == IF IsDir(t.dest) THEN t.dest \o Base(t.src) ELSE t.dest

GetURL ==
  /\ InState("get_url") /\ Open(UrlDest(task))
  /\ UNCHANGED <<task, dstDir, todo, start, again>>

-----------------------------------------------------------------------------
(* command and shell                                                       *)

\* removes counts only where creates is not given.
ShouldApplyBug(t) == IF t.creates # <<>> THEN Exists(t.creates) ELSE TRUE
ShouldApply(t) ==
  IF t.creates # <<>> THEN ~Exists(t.creates) ELSE t.removes # <<>> => Exists(t.removes)

SkipCommand ==
  /\ InState("command") /\ ~ShouldApply(task)
  /\ pc' = "ok"
  /\ UNCHANGED <<fs, task, dest, dstDir, todo, start, again>>

ApplyCommand ==
  /\ InState("command") /\ ShouldApply(task) /\ Open(task.dest)
  /\ UNCHANGED <<task, dstDir, todo, start, again>>

-----------------------------------------------------------------------------
(* What they share                                                         *)

NoAttributes(t) == t.mode = Default /\ t.owner = Default

Write ==
  /\ pc = "write"
  /\ fs' = [fs EXCEPT ![dest].data = task.data]
  /\ pc' = IF task.kind = "dir" THEN "walk" ELSE IF NoAttributes(task) THEN "ok" ELSE "mode"
  /\ UNCHANGED <<task, dest, dstDir, todo, start, again>>

\* ApplyModeAndIDs.
SetMode ==
  /\ pc = "mode"
  /\ fs' = IF task.mode = Default THEN fs ELSE [fs EXCEPT ![dest].mode = task.mode]
  /\ pc' = "owner"
  /\ UNCHANGED <<task, dest, dstDir, todo, start, again>>

SetOwner ==
  /\ pc = "owner"
  /\ fs' = IF task.owner = Default THEN fs ELSE [fs EXCEPT ![dest].owner = task.owner]
  /\ pc' = "ok"
  /\ UNCHANGED <<task, dest, dstDir, todo, start, again>>

\* A source that cannot be read or rendered, a response other than 200, any other call
\* that fails, or the executer is killed.
Fail ==
  /\ pc \in {"state", "walk", "write", "mode", "owner"}
  /\ pc' = "failed"
  /\ UNCHANGED <<fs, task, dest, dstDir, todo, start, again>>

Next ==
  \/ \E t \in Tasks : Begin(t)
  \/ \E p \in Path : RemoveAll(p)
  \/ CopyContent \/ MakeDest \/ CopyFile \/ CopyDir \/ CopyDirHalfway
  \/ \E f \in todo : CopyNext(f) \/ MakeNext(f)
  \/ WalkEnds \/ SkipTemplate \/ WriteTemplate \/ GetURL
  \/ SkipCommand \/ ApplyCommand \/ Write \/ SetMode \/ SetOwner \/ Fail

Spec == Init /\ [][Next]_vars

-----------------------------------------------------------------------------
(* Properties                                                              *)

\* Types, and that what exists is in directories.
TypeOK ==
  /\ fs \in [Path -> Entry] /\ start \in [Path -> Entry]
  /\ \A p \in Path : Exists(p) => InDir(p)
  /\ task \in Tasks /\ todo \subseteq task.files \cup DirsOf(task) /\ again \in BOOLEAN
  /\ pc \in {"idle", "state", "walk", "write", "mode", "owner", "ok", "failed"}
  /\ dest \in Path /\ dstDir \in Path

\* A task that ends well has the whole of its content in place, under the attributes that it
\* gives, whatever earlier tasks, and earlier runs of it that were cut off, have left.  A
\* template that finds its content in place is excluded (TemplateAttributes), and of a command
\* that is skipped there is only what creates names.
Places(t) == CASE t.kind = "file" -> {Into(t)}
               [] t.kind = "dir" -> {DirDest(t) \o f : f \in t.files}
               [] t.kind = "get_url" -> {UrlDest(t)}
               [] OTHER -> {t.dest}
HasAttributes(p) == /\ task.mode # Default => fs[p].mode = task.mode
                    /\ task.owner # Default => fs[p].owner = task.owner
Skipped == /\ fs = start
           /\ \/ task.creates # <<>> /\ Exists(task.creates)
              \/ task.creates = <<>> /\ task.removes # <<>> /\ ~Exists(task.removes)
Installed ==
  pc = "ok" /\ ~Skipped => \A p \in Places(task) :
    /\ IsFile(p) /\ fs[p].data = task.data
    /\ HasAttributes(p) \/ (task.kind = "template" /\ fs = start)

\* Applied again, right after it has ended well, a task finds the same places and changes
\* nothing: that a file or a directory is there now does not lead it elsewhere.
Repeatable == again /\ pc = "ok" => fs = start

\* The documentation of template lists mode and owner as implemented: a template that
\* ends well has set them.
TemplateAttributes == pc = "ok" /\ task.kind = "template" => HasAttributes(task.dest)
=============================================================================
