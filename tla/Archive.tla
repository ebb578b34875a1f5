------------------------------ MODULE Archive ------------------------------
(***************************************************************************)
(* How the playbook's directory gets to a host: Tar walks it into an       *)
(* archive on the dialer's machine, Untar makes it again on the host, next *)
(* to the executer, the inventory and the archive in a directory under     *)
(* /tmp that the dialer makes for the run and removes after it.  The next  *)
(* run may be of another directory, which may have been edited.  The       *)
(* upload between the two is a step of Dialer.                             *)
(***************************************************************************)
EXTENDS Naturals, Sequences

CONSTANTS
  Path, Top, Parent,   \* paths under the playbook's directory: the directory itself is Top
  Own,                 \* the paths of executer, inventory and archive, when that is its place
  Executer, Data,      \* two of them
  Content, Partial,
  Bit, Lost,           \* of modes; those that umask or os.FileMode(header.Mode) take away
  Trees                \* directories that the dialer may be given

\* How the command line names the playbook's directory.  Tar names what is in it from its parent
\* and the executer looks for it under its Base: for "." both are the directory of the run itself,
\* and for ".." both are /tmp.
Place == {"site", ".", ".."}

Entry == [kind : {"none", "dir", "file", "link"}, content : Content \cup {Partial}, mode : SUBSET Bit]
Nothing == [kind |-> "none", content |-> Partial, mode |-> {}]

ASSUME ArchiveAssumption ==
  /\ Top \in Path /\ Parent \in [Path -> Path] /\ Own \subseteq Path \ {Top}
  /\ Executer \in Own /\ Data \in Own /\ \A o \in Own : Parent[o] = Top
  /\ Partial \notin Content /\ "write" \in Bit \ Lost
  \* What is a link is a link in all of them: otherwise Untar may write through an older one.
  /\ \A t \in Trees : /\ t \in [Path -> Entry] /\ t[Top].kind = "dir"
                      /\ \A p \in Path : /\ t[p].kind # "none" => t[Parent[p]].kind = "dir"
                                         /\ t[p].kind \in {"file", "link"} <=> t[p].content \in Content
                      /\ \A u \in Trees, p \in Path :
                           t[p].kind = "link" => u[p].kind \in {"none", "link"} /\ p \notin Own

VARIABLES
  place, source,  \* the directory of this run
  root,           \* the host is logged in to as root
  todo,           \* paths that Walk has not come to
  archive,        \* the paths that are in the archive
  short,          \* the last one's file had less in it than its header says
  whole,          \* the archive can be read to its end
  n,              \* how much of it Untar has read
  fs,             \* what is on the host at the three places
  pc,             \* "idle", "pack", "unpack", "ok" or "failed"
  before          \* history: fs when the run began

vars == <<place, source, root, todo, archive, short, whole, n, fs, pc, before>>

Paths(t) == {p \in Path : t[p].kind # "none"}

\* The directory of the run, as Execute has made it.
Uploaded == [p \in Path |-> IF p = Top THEN [Nothing EXCEPT !.kind = "dir", !.mode = Bit \ Lost]
                            ELSE IF p \in Own THEN [kind |-> "file", content |-> Partial, mode |-> {"write"}]
                            ELSE Nothing]
Empty == [p \in Path |-> Nothing]
Tmp == [Empty EXCEPT ![Top] = Uploaded[Top]]

Init ==
  /\ place = "." /\ source \in Trees /\ root = TRUE
  /\ todo = {} /\ archive = <<>> /\ short = FALSE /\ whole = TRUE /\ n = 0
  /\ fs = [q \in Place |-> CASE q = "." -> Uploaded [] q = "site" -> Empty [] q = ".." -> Tmp]
  /\ pc = "idle" /\ before = fs

\* Execute begins, on a directory and as a user.
Begin(q, t) ==
  /\ pc = "idle"
  /\ place' = q /\ source' = t /\ root' \in BOOLEAN
  /\ todo' = Paths(t) /\ archive' = <<>> /\ short' = FALSE /\ whole' = TRUE /\ n' = 0
  /\ pc' = "pack"
  /\ UNCHANGED <<fs, before>>

\* Its RemoveAll, and a new directory for the next run.  What is in /tmp itself stays.
LeftBug == fs["site"]       \* one directory for all runs
Left == Empty
Cleanup ==
  /\ pc \in {"ok", "failed"}
  /\ fs' = [fs EXCEPT !["."] = Uploaded, !["site"] = Left] /\ before' = fs'
  /\ pc' = "idle" /\ place' = "." /\ root' = TRUE
  /\ todo' = {} /\ archive' = <<>> /\ short' = FALSE /\ whole' = TRUE /\ n' = 0
  /\ UNCHANGED source

-----------------------------------------------------------------------------
(* Tar                                                                     *)

packs == UNCHANGED <<place, source, root, whole, n, fs, before>>

\* A directory comes before what is in it; what else comes first is of no matter here.
Comes(p) == pc = "pack" /\ p \in todo /\ (p = Top \/ Parent[p] \notin todo) /\ ~short

Pack(p) ==
  /\ Comes(p)
  /\ archive' = Append(archive, p) /\ todo' = todo \ {p}
  /\ UNCHANGED <<short, pc>> /\ packs

\* The file has got shorter since its header was made: the next header, if there is one,
\* will not be written.
PackShort(p) ==
  /\ Comes(p) /\ source[p].kind = "file"
  /\ archive' = Append(archive, p) /\ todo' = todo \ {p}
  /\ short' = TRUE
  /\ UNCHANGED pc /\ packs

\* The errors of the three deferred calls to Close are not looked at: with any of them the
\* archive ends too early, as it does after a short file.
PackEnds ==
  /\ pc = "pack" /\ todo = {}
  /\ whole' \in {FALSE, ~short}
  /\ pc' = "unpack"
  /\ UNCHANGED <<place, source, root, todo, archive, short, n, fs, before>>

-----------------------------------------------------------------------------
(* Untar                                                                   *)

Here == fs[place]
ThisPath == archive[n + 1]
Reads(kind) == pc = "unpack" /\ n < Len(archive) /\ source[ThisPath].kind = kind

\* The three kinds of calls need a parent that is a directory, and that may be written to.
InDir(p) == p = Top \/ Here[Parent[p]].kind = "dir"
CanMake(p) == InDir(p) /\ (root \/ p = Top \/ "write" \in Here[Parent[p]].mode)

unpacks == UNCHANGED <<place, source, root, todo, archive, short, before>>
Put(p, e) == fs' = [fs EXCEPT ![place][p] = e]
Made(p) == [source[p] EXCEPT !.mode = @ \ Lost]

\* MkdirAll, to which a directory that is there is one.
UnpackDir ==
  /\ Reads("dir")
  /\ \/ Here[ThisPath].kind = "dir" /\ UNCHANGED fs
     \/ Here[ThisPath].kind = "none" /\ CanMake(ThisPath) /\ Put(ThisPath, Made(ThisPath))
  /\ n' = n + 1
  /\ UNCHANGED <<whole, pc>> /\ unpacks

\* A file that is there is truncated and keeps its mode.  The executer runs, and cannot be written.
\* Writing over the archive itself leaves what has not been read from it in doubt.
CanWrite(p) == \/ Here[p].kind = "none" /\ CanMake(p)
               \/ Here[p].kind = "file" /\ (root \/ "write" \in Here[p].mode)
ModeAfter(p) == IF Here[p].kind = "none" THEN source[p].mode \ Lost ELSE Here[p].mode
IsArchive(p) == place = "." /\ p = Data

WriteBug(p, content) == Put(p, [kind |-> "file", content |-> content, mode |-> source[p].mode])   \* os.Chmod
Write(p, content) == Put(p, [kind |-> "file", content |-> content, mode |-> ModeAfter(p)])

Busy(p) == place = "." /\ p = Executer
UnpackFile ==
  /\ Reads("file") /\ CanWrite(ThisPath) /\ ~Busy(ThisPath)
  /\ Write(ThisPath, source[ThisPath].content)
  /\ n' = n + 1
  /\ whole' \in IF IsArchive(ThisPath) THEN {FALSE, whole} ELSE {whole}
  /\ UNCHANGED pc /\ unpacks

\* io.Copy fails, or the archive ends in the middle of the file.
UnpackFileHalfway ==
  /\ Reads("file") /\ CanWrite(ThisPath) /\ ~Busy(ThisPath)
  /\ Write(ThisPath, Partial)
  /\ pc' = "failed"
  /\ UNCHANGED <<n, whole>> /\ unpacks

\* Symlink fails where there is something already.
UnpackLink ==
  /\ Reads("link") /\ Here[ThisPath].kind = "none" /\ CanMake(ThisPath)
  /\ Put(ThisPath, Made(ThisPath))
  /\ n' = n + 1
  /\ UNCHANGED <<whole, pc>> /\ unpacks

\* io.EOF, which an archive that ends too early does not give.
AtEndBug == n = Len(archive) \/ ~whole      \* any error ends the loop
AtEnd == n = Len(archive) /\ whole
UnpackEnds ==
  /\ pc = "unpack" /\ AtEnd
  /\ pc' = "ok"
  /\ UNCHANGED <<n, whole, fs>> /\ unpacks

\* A call fails, the archive ends too early, or the dialer or the executer is killed.
Fail ==
  /\ pc \in {"pack", "unpack"}
  /\ pc' = "failed"
  /\ UNCHANGED <<place, source, root, todo, archive, short, whole, n, fs, before>>

Next ==
  \/ \E q \in Place, t \in Trees : Begin(q, t)
  \/ \E p \in todo : Pack(p) \/ PackShort(p)
  \/ PackEnds \/ UnpackDir \/ UnpackFile \/ UnpackFileHalfway \/ UnpackLink \/ UnpackEnds
  \/ Fail \/ Cleanup

Spec == Init /\ [][Next]_vars

-----------------------------------------------------------------------------
(* Properties                                                              *)

\* Types, and that no file of the host has a mode that umask forbids.
TypeOK ==
  /\ place \in Place /\ source \in Trees /\ root \in BOOLEAN
  /\ todo \subseteq Path /\ archive \in Seq(Path) /\ short \in BOOLEAN
  /\ whole \in BOOLEAN /\ n \in 0..Len(archive)
  /\ fs \in [Place -> [Path -> Entry]] /\ before \in [Place -> [Path -> Entry]]
  /\ \A q \in Place, p \in Path : fs[q][p].mode \cap Lost = {}
  /\ pc \in {"idle", "pack", "unpack", "ok", "failed"}

\* When Untar ends well the host has all of the directory, though Tar may have failed without
\* a word, the directory may have changed under it, and older files may be in the way.  And it has
\* nothing but it: no role or file of an earlier run, unless the playbook is in "..".
SameEntry(p) ==
  /\ Here[p].kind = source[p].kind
  /\ source[p].kind # "dir" => Here[p].content = source[p].content
  /\ before[place][p].kind = "none" => Here[p].mode = source[p].mode \ Lost
Untouched(p) == Here[p] = IF place = "." THEN Uploaded[p] ELSE Nothing
Arrived ==
  pc = "ok" => /\ \A p \in Paths(source) : SameEntry(p)
               /\ place # ".." => \A p \in Path \ Paths(source) : Untouched(p)
=============================================================================
