--------------------------- MODULE TransferProofs ---------------------------
(* Theorems about Transfer, for any paths, contents and tasks.             *)
EXTENDS Transfer, SequenceTheorems, TLAPS

At(f) == dstDir \o f

\* What a task that has ended well has left.
Complete ==
  /\ \A p \in Places(task) : /\ IsFile(p) /\ fs[p].data = task.data
                             /\ HasAttributes(p) \/ task.kind = "template"
  /\ task.kind = "dir" => /\ IsDir(DirDest(task))
                          /\ \A f \in DirsOf(task) : IsDir(DirDest(task) \o f)

\* What a task knows where it is.
PhaseOK ==
  /\ pc = "state" => task.kind = "file" \/ fs = start
  /\ pc \in {"write", "mode", "owner"} =>
       IsFile(dest) /\ (task.kind # "dir" => Places(task) = {dest})
  /\ pc \in {"mode", "owner"} => task.kind # "dir" /\ fs[dest].data = task.data
  /\ pc = "owner" /\ task.mode # Default => fs[dest].mode = task.mode
  /\ pc = "walk" => task.kind = "dir"
  /\ pc = "ok" => \/ Skipped
                  \/ Complete /\ (task.kind = "template" => fs = start \/ HasAttributes(task.dest))

\* What has been copied of a directory.
WalkOK ==
  task.kind = "dir" /\ pc \in {"walk", "write"} =>
    /\ dstDir = DirDest(task) /\ IsDir(dstDir)
    /\ \A f \in DirsOf(task) \ todo : IsDir(At(f))
    /\ \A f \in task.files \ todo :
         IsFile(At(f)) /\ (fs[At(f)].data = task.data \/ (pc = "write" /\ At(f) = dest))
    /\ pc = "write" => \E f \in task.files \ todo : dest = At(f)

\* Where a task is that is applied again.
AgainOK ==
  again =>
    /\ pc \in {"state", "walk", "mode", "owner", "ok"} => fs = start
    /\ pc = "state" => Skipped \/ Complete
    /\ pc = "write" => start = [fs EXCEPT ![dest].data = task.data]
    /\ pc \in {"write", "mode", "owner"} /\ task.kind # "dir" => HasAttributes(dest)
    /\ task.kind = "dir" /\ pc \in {"walk", "write"} =>
         /\ \A f \in DirsOf(task) : IsDir(At(f))
         /\ \A f \in task.files : IsFile(At(f)) /\ (fs[At(f)].data = task.data \/ (pc = "write" /\ At(f) = dest))

IInv == TypeOK /\ PhaseOK /\ WalkOK /\ AgainOK

-----------------------------------------------------------------------------
(* Paths                                                                   *)

LEMMA AboveType ==
  ASSUME NEW S, NEW p \in Seq(S), NEW a \in Above(p)
  PROVE  /\ a \in Seq(S) \ {<<>>} /\ a # p
         /\ Len(a) \in 1..(Len(p) - 1) /\ a = SubSeq(p, 1, Len(a))
<1>1. PICK n \in 1..(Len(p) - 1) : a = SubSeq(p, 1, n)
  BY DEF Above
<1>2. Len(p) \in Nat /\ \A i \in 1..n : p[i] \in S
  OBVIOUS
<1>3. a \in Seq(S) /\ Len(a) = n
  <2>1. /\ SubSeq(p, 1, n) \in Seq(S)
        /\ Len(SubSeq(p, 1, n)) = IF 1 <= n THEN n - 1 + 1 ELSE 0
    <3> HIDE <1>1
    <3> QED BY <1>2, SubSeqProperties
  <2> QED BY <1>1, <1>2, <2>1
<1> QED BY <1>1, <1>3

LEMMA AboveTransitive ==
  ASSUME NEW S, NEW p \in Seq(S), NEW q \in Above(p), NEW r \in Above(q)
  PROVE  r \in Above(p)
<1>1. /\ q \in Seq(S) /\ Len(q) \in 1..(Len(p) - 1) /\ q = SubSeq(p, 1, Len(q))
      /\ Len(p) \in Nat
  BY AboveType
<1>2. Len(r) \in 1..(Len(q) - 1) /\ r = SubSeq(q, 1, Len(r))
  BY <1>1, AboveType
<1>3. r = SubSeq(SubSeq(p, 1, Len(q)), 1, Len(r))
  BY <1>1, <1>2
<1>4. r = SubSeq(p, 1, Len(r))
  <2> DEFINE j == Len(q)  n == Len(r)
  <2>1. 1 \in 1..Len(p) /\ j \in 1..Len(p) /\ 1 \in 1..(j - 1 + 1) /\ n \in 1..(j - 1 + 1)
    BY <1>1, <1>2
  <2>2. SubSeq(SubSeq(p, 1, j), 1, n) = SubSeq(p, 1 + 1 - 1, 1 + n - 1)
    BY <2>1, SubSeqOfSubSeq
  <2> QED BY <1>2, <1>3, <2>2
<1>5. Len(r) \in 1..(Len(p) - 1)
  BY <1>1, <1>2
<1> QED BY <1>4, <1>5 DEF Above

\* What a removed path takes along.
LEMMA PrefixAbove ==
  ASSUME NEW S, NEW p \in Seq(S), NEW q \in Seq(S), NEW a \in Above(q), IsPrefix(p, a)
  PROVE  IsPrefix(p, q)
<1>1. /\ a \in Seq(S) /\ Len(a) \in 1..(Len(q) - 1) /\ a = SubSeq(q, 1, Len(a))
      /\ Len(q) \in Nat /\ Len(p) \in Nat /\ Len(p) <= Len(a) /\ SubSeq(p, 1, Len(p)) = SubSeq(a, 1, Len(p))
  BY AboveType DEF IsPrefix
<1>2. SubSeq(a, 1, Len(p)) = SubSeq(q, 1, Len(p))
  <2>1. CASE Len(p) = 0
    BY <2>1, SubSeqEmpty
  <2>2. CASE Len(p) # 0
    <3> DEFINE j == Len(a)  n == Len(p)
    <3>1. 1 \in 1..Len(q) /\ j \in 1..Len(q) /\ 1 \in 1..(j - 1 + 1) /\ n \in 1..(j - 1 + 1)
      BY <1>1, <2>2
    <3>2. SubSeq(SubSeq(q, 1, j), 1, n) = SubSeq(q, 1 + 1 - 1, 1 + n - 1)
      BY <3>1, SubSeqOfSubSeq
    <3> QED BY <1>1, <3>2
  <2> QED BY <2>1, <2>2
<1> QED BY <1>1, <1>2 DEF IsPrefix

\* What is above a path in a directory.
LEMMA AboveConcat ==
  ASSUME NEW S, NEW p \in Seq(S) \ {<<>>}, NEW q \in Seq(S) \ {<<>>}
  PROVE  /\ Above(p \o q) = Above(p) \cup {p} \cup {p \o a : a \in Above(q)}
         /\ p \o q # p
<1>1. /\ p \o q \in Seq(S) /\ Len(p \o q) = Len(p) + Len(q)
      /\ Len(p) \in Nat \ {0} /\ Len(q) \in Nat \ {0}
  BY ConcatProperties, EmptySeq
<1>2. \A n \in 1..Len(p) : SubSeq(p \o q, 1, n) = SubSeq(p, 1, n)
  BY <1>1, SubSeqOfConcat1
<1>3. \A n \in (Len(p) + 1)..(Len(p) + Len(q)) : SubSeq(p \o q, 1, n) = p \o SubSeq(q, 1, n - Len(p))
  BY SubSeqOfConcat2
<1>4. SubSeq(p, 1, Len(p)) = p
  BY SubSeqFull
<1>5. ASSUME NEW a \in Above(p \o q)
      PROVE  a \in Above(p) \cup {p} \cup {p \o b : b \in Above(q)}
  <2>1. PICK n \in 1..(Len(p) + Len(q) - 1) : a = SubSeq(p \o q, 1, n)
    BY <1>1 DEF Above
  <2>2. CASE n < Len(p)
    BY <1>1, <1>2, <2>1, <2>2 DEF Above
  <2>3. CASE n = Len(p)
    <3>1. a = SubSeq(p \o q, 1, n) /\ n \in 1..Len(p)
      BY <1>1, <2>1, <2>3
    <3>2. a = SubSeq(p, 1, n)
      BY <1>2, <3>1
    <3> QED BY <1>4, <2>3, <3>2
  <2>4. CASE n > Len(p)
    <3>1. n - Len(p) \in 1..(Len(q) - 1)
      BY <1>1, <2>1, <2>4
    <3>2. SubSeq(q, 1, n - Len(p)) \in Above(q)
      BY <3>1 DEF Above
    <3>3. n \in (Len(p) + 1)..(Len(p) + Len(q))
      BY <1>1, <2>1, <2>4
    <3>4. a = p \o SubSeq(q, 1, n - Len(p))
      BY <1>3, <2>1, <3>3
    <3> QED BY <3>2, <3>4
  <2>5. n < Len(p) \/ n = Len(p) \/ n > Len(p)
    BY <1>1, <2>1
  <2> QED BY <2>2, <2>3, <2>4, <2>5, Zenon
<1>6. ASSUME NEW a \in Above(p) \cup {p}
      PROVE  a \in Above(p \o q)
  <2>1. PICK n \in 1..Len(p) : a = SubSeq(p, 1, n)
    BY <1>1, <1>4 DEF Above
  <2>2. n \in 1..(Len(p \o q) - 1) /\ a = SubSeq(p \o q, 1, n)
    BY <1>1, <1>2, <2>1
  <2> QED BY <2>2 DEF Above
<1>7. ASSUME NEW b \in Above(q)
      PROVE  p \o b \in Above(p \o q)
  <2>1. PICK n \in 1..(Len(q) - 1) : b = SubSeq(q, 1, n)
    BY DEF Above
  <2>2. /\ n + Len(p) \in (Len(p) + 1)..(Len(p) + Len(q)) /\ n + Len(p) - Len(p) = n
        /\ n + Len(p) \in 1..(Len(p \o q) - 1)
    BY <1>1
  <2>3. SubSeq(p \o q, 1, n + Len(p)) = p \o b
    BY <1>3, <2>1, <2>2
  <2> QED BY <2>2, <2>3 DEF Above
<1>8. p \o q # p
  BY <1>1
<1>9. Above(p \o q) = Above(p) \cup {p} \cup {p \o b : b \in Above(q)}
  BY <1>5, <1>6, <1>7
<1> QED BY <1>8, <1>9

LEMMA AboveInside ==
  \A p, q \in Seq(Name) \ {<<>>} :
    /\ p \in Above(p \o q)
    /\ \A a \in Above(q) : p \o a \in Above(p \o q)
    /\ \A b \in Above(p \o q) : b \in Above(p) \/ b = p \/ \E a \in Above(q) : b = p \o a
<1> SUFFICES ASSUME NEW p \in Seq(Name) \ {<<>>}, NEW q \in Seq(Name) \ {<<>>}
             PROVE  /\ p \in Above(p \o q)
                    /\ \A a \in Above(q) : p \o a \in Above(p \o q)
                    /\ \A b \in Above(p \o q) :
                         b \in Above(p) \/ b = p \/ \E a \in Above(q) : b = p \o a
  OBVIOUS
<1>1. Above(p \o q) = Above(p) \cup {p} \cup {p \o a : a \in Above(q)}
  BY AboveConcat, ZenonT(30)
<1> QED BY <1>1

LEMMA ConcatInjective ==
  ASSUME NEW S, NEW p \in Seq(S), NEW q \in Seq(S), NEW r \in Seq(S), p \o q = p \o r
  PROVE  q = r
BY ConcatSimplifications

-----------------------------------------------------------------------------
(* Tasks and where they put things                                         *)

LEMMA TaskType ==
  ASSUME TypeOK
  PROVE  /\ task \in Tasks /\ task \in Task
         /\ task.kind \in {"file", "dir", "content", "template", "get_url", "command"}
         /\ task.dest \in Path /\ task.data \in Data /\ task.src \in Seq(Name)
         /\ task.files \subseteq Seq(Name) \ {<<>>}
         /\ task.mode \in Attr \cup {Default} /\ task.owner \in Attr \cup {Default}
         /\ task.kind \notin {"template", "get_url"} => NoAttributes(task)
         /\ task.kind # "command" => ~Skipped
         /\ task.kind # "dir" => task.files = {}
         /\ \A p \in Path : p \in Seq(Name) \ {<<>>} /\ Above(p) \subseteq Path
<1>1. task \in Tasks /\ task \in Task /\ Valid(task)
  BY TransferAssumption DEF TypeOK
<1>2. task.kind # "dir" => task.files = {}
  BY <1>1, TransferAssumption
<1>3. \A p \in Path : p \in Seq(Name) \ {<<>>} /\ Above(p) \subseteq Path
  BY TransferAssumption
<1> QED BY <1>1, <1>2, <1>3 DEF Task, Valid, NoAttributes, Skipped

\* The places of a task are paths.
LEMMA Inside ==
  ASSUME TypeOK
  PROVE  /\ task.kind = "file" => Into(task) \in Path
         /\ task.kind = "get_url" => UrlDest(task) \in Path
         /\ task.kind = "dir" => /\ DirDest(task) \in Path
                                 /\ \A f \in task.files \cup DirsOf(task) :
                                      /\ f \in Seq(Name) \ {<<>>} /\ DirDest(task) \o f \in Path
<1>1. task.kind = "file" => Into(task) \in Path
  BY TaskType, TransferAssumption DEF Into
<1>2. task.kind = "get_url" => UrlDest(task) \in Path
  BY TaskType, TransferAssumption DEF UrlDest
<1>3. ASSUME task.kind = "dir"
      PROVE  /\ DirDest(task) \in Path
             /\ \A f \in task.files \cup DirsOf(task) :
                  /\ f \in Seq(Name) \ {<<>>} /\ DirDest(task) \o f \in Path
  <2>1. DirDest(task) \in Path
    BY <1>3, TaskType, TransferAssumption DEF DirDest
  <2>2. ASSUME NEW f \in task.files
        PROVE  f \in Seq(Name) \ {<<>>} /\ DirDest(task) \o f \in Path
    BY <1>3, TaskType, TransferAssumption DEF DirDest
  <2>3. ASSUME NEW f \in DirsOf(task)
        PROVE  f \in Seq(Name) \ {<<>>} /\ DirDest(task) \o f \in Path
    <3>1. PICK g \in task.files : f \in Above(g)
      BY DEF DirsOf
    <3>2. f \in Seq(Name) \ {<<>>}
      BY <2>2, <3>1, AboveType
    <3>3. DirDest(task) \in Seq(Name) \ {<<>>} /\ g \in Seq(Name) \ {<<>>}
      BY <2>1, <2>2, TaskType
    <3>4. DirDest(task) \o f \in Above(DirDest(task) \o g)
      BY <3>1, <3>3, AboveInside
    <3> QED BY <2>2, <3>2, <3>4, TaskType
  <2> QED BY <2>1, <2>2, <2>3
<1> QED BY <1>1, <1>2, <1>3

\* Where a task puts things depends on which paths are directories.
LEMMA PlacesKept ==
  ASSUME TypeOK, UNCHANGED task, \A q \in Path : IsDir(q)' = IsDir(q)
  PROVE  /\ Places(task)' = Places(task) /\ DirDest(task)' = DirDest(task)
         /\ DirsOf(task)' = DirsOf(task) /\ Into(task)' = Into(task) /\ UrlDest(task)' = UrlDest(task)
<1>1. task.dest \in Path /\ task'.dest = task.dest /\ IsDir(task.dest)' = IsDir(task.dest)
  BY TaskType
<1>2. DirDest(task)' = DirDest(task) /\ DirsOf(task)' = DirsOf(task)
  BY DEF DirDest, DirsOf
<1>3. Into(task)' = Into(task) /\ UrlDest(task)' = UrlDest(task)
  BY <1>1 DEF Into, UrlDest
<1> QED BY <1>2, <1>3 DEF Places

LEMMA Names ==
  ASSUME TypeOK
  PROVE  Nothing \in Entry /\ Dir \in Entry /\ Dir.kind = "dir" /\ Nothing.kind = "none"
BY TransferAssumption DEF Nothing, Dir, Entry

\* A file that is opened.
LEMMA Opened ==
  ASSUME TypeOK, NEW p \in Path, Open(p)
  PROVE  /\ fs' \in [Path -> Entry] /\ dest' = p /\ pc' = "write"
         /\ \A q \in Path : Exists(q)' => InDir(q)'
         /\ \A q \in Path : q # p => fs'[q] = fs[q]
         /\ fs'[p].kind = "file" /\ fs'[p].data = Partial
         /\ fs'[p].mode = fs[p].mode /\ fs'[p].owner = fs[p].owner
         /\ \A q \in Path : IsDir(q)' = IsDir(q)
<1>1. /\ fs' = [fs EXCEPT ![p].kind = "file", ![p].data = Partial]
      /\ dest' = p /\ pc' = "write" /\ InDir(p) /\ ~IsDir(p)
  BY DEF Open
<1>2. fs \in [Path -> Entry] /\ fs[p] \in Entry
  BY DEF TypeOK
<1>3. fs'[p] = [fs[p] EXCEPT !.kind = "file", !.data = Partial]
  BY <1>1, <1>2
<1>4. /\ fs'[p] \in Entry /\ fs'[p].kind = "file" /\ fs'[p].data = Partial
      /\ fs'[p].mode = fs[p].mode /\ fs'[p].owner = fs[p].owner
  BY <1>2, <1>3 DEF Entry
<1>5. fs' \in [Path -> Entry] /\ \A q \in Path : q # p => fs'[q] = fs[q]
  BY <1>1, <1>2, <1>4
<1>6. \A q \in Path : IsDir(q)' = IsDir(q)
  BY <1>1, <1>4, <1>5 DEF IsDir
<1>7. \A q \in Path : Above(q) \subseteq Path
  BY TaskType
<1>8. \A q \in Path : Exists(q)' => InDir(q)
  BY <1>1, <1>4, <1>5 DEF TypeOK, Exists
<1>9. \A q \in Path : Exists(q)' => InDir(q)'
  BY <1>6, <1>7, <1>8 DEF InDir
<1> QED BY <1>1, <1>4, <1>5, <1>6, <1>9

\* A file that had its content is as before once it is written again.
LEMMA Rewritten ==
  ASSUME TypeOK, NEW p \in Path, Open(p), IsFile(p), fs[p].data = task.data
  PROVE  fs = [fs' EXCEPT ![p].data = task.data]
<1>1. fs' = [fs EXCEPT ![p].kind = "file", ![p].data = Partial]
  BY DEF Open
<1>2. fs \in [Path -> Entry] /\ fs[p] \in Entry /\ fs[p].kind = "file"
  BY DEF TypeOK, IsFile
<1>3. [fs'[p] EXCEPT !.data = task.data] = fs[p]
  BY <1>1, <1>2 DEF Entry
<1>4. fs' \in [Path -> Entry] /\ \A q \in Path : q # p => fs'[q] = fs[q]
  BY Opened
<1> QED BY <1>2, <1>3, <1>4

\* Directories that are made where there is nothing, the higher ones first.
LEMMA Made ==
  ASSUME TypeOK, NEW new \in SUBSET Path, MakeDirs(new),
         \A p \in new : ~IsFile(p) /\ \A a \in Above(p) : a \in new \/ IsDir(a)
  PROVE  /\ fs' \in [Path -> Entry]
         /\ \A q \in Path : Exists(q)' => InDir(q)'
         /\ \A q \in Path : Exists(q) => fs'[q] = fs[q]
         /\ \A q \in Path : IsDir(q)' = (IsDir(q) \/ q \in new)
         /\ (\A p \in new : IsDir(p)) => fs' = fs
<1>1. fs' = [q \in Path |-> IF q \in new /\ ~Exists(q) THEN Dir ELSE fs[q]]
  BY DEF MakeDirs
<1>2. fs \in [Path -> Entry] /\ Dir \in Entry /\ Dir.kind = "dir"
  BY Names DEF TypeOK
<1>3. fs' \in [Path -> Entry] /\ \A q \in Path : Exists(q) => fs'[q] = fs[q]
  BY <1>1, <1>2
<1>4. \A p \in new : IsDir(p) \/ ~Exists(p)
  BY <1>2 DEF IsDir, IsFile, Exists, Entry
<1>5. \A q \in Path : IsDir(q)' = (IsDir(q) \/ q \in new)
  BY <1>1, <1>2, <1>4 DEF IsDir, Exists
<1>6. \A q \in Path : Above(q) \subseteq Path
  BY TaskType
<1>7. ASSUME NEW q \in Path, Exists(q)', NEW a \in Above(q)
      PROVE  IsDir(a)'
  <2>1. CASE q \in new
    BY <1>5, <1>6, <2>1
  <2>2. CASE q \notin new
    <3>1. Exists(q)
      BY <1>1, <1>7, <2>2 DEF Exists
    <3> QED BY <1>5, <1>6, <3>1 DEF TypeOK, InDir
  <2> QED BY <2>1, <2>2
<1>8. (\A p \in new : IsDir(p)) => fs' = fs
  BY <1>1, <1>2 DEF IsDir, Exists
<1> QED BY <1>3, <1>5, <1>7, <1>8 DEF InDir

-----------------------------------------------------------------------------
(* One lemma per action                                                    *)

LEMMA InitInv == Init => IInv
<1> SUFFICES ASSUME Init PROVE IInv
  OBVIOUS
<1>1. task \in Tasks /\ task \in Task
  BY TransferAssumption DEF Init
<1>2. Nothing \in Entry
  BY TransferAssumption DEF Nothing, Entry
<1>3. TypeOK
  BY <1>1, <1>2 DEF Init, TypeOK, Exists, Nothing, Task
<1> QED BY <1>3 DEF Init, IInv, PhaseOK, WalkOK, AgainOK

\* A step that leaves the file system and the task alone.
LEMMA SameFs ==
  ASSUME UNCHANGED <<fs, task>>
  PROVE  /\ Complete' = Complete /\ Places(task)' = Places(task) /\ DirsOf(task)' = DirsOf(task)
         /\ DirDest(task)' = DirDest(task)
         /\ \A p : /\ IsFile(p)' = IsFile(p) /\ IsDir(p)' = IsDir(p) /\ Exists(p)' = Exists(p)
                   /\ InDir(p)' = InDir(p) /\ HasAttributes(p)' = HasAttributes(p)
         /\ UNCHANGED start => Skipped' = Skipped
         /\ UNCHANGED dstDir => \A f : At(f)' = At(f)
BY DEF Complete, Places, DirsOf, DirDest, IsFile, IsDir, Exists, InDir, HasAttributes, Into,
       UrlDest, Skipped, At

LEMMA StutterStep ==
  ASSUME IInv, UNCHANGED vars
  PROVE  IInv'
BY SameFs DEF vars, IInv, TypeOK, PhaseOK, WalkOK, AgainOK

LEMMA FailStep ==
  ASSUME IInv, Fail
  PROVE  IInv'
BY SameFs DEF Fail, IInv, TypeOK, PhaseOK, WalkOK, AgainOK

LEMMA BeginStep ==
  ASSUME IInv, NEW t \in Tasks, Begin(t)
  PROVE  IInv'
<1>1. /\ task' = t /\ start' = fs /\ again' = (pc = "ok" /\ t = task) /\ UNCHANGED fs
      /\ pc' = "state" /\ dest' = t.dest /\ dstDir' = t.dest /\ todo' = {}
  BY DEF Begin
<1>2. t.dest \in Path
  BY TransferAssumption DEF Task
<1>3. TypeOK'
  BY <1>1, <1>2 DEF IInv, TypeOK, Exists, InDir, IsDir
<1>4. PhaseOK' /\ WalkOK'
  BY <1>1 DEF PhaseOK, WalkOK
<1>5. AgainOK'
  <2> SUFFICES ASSUME again' PROVE Skipped' \/ Complete'
    BY <1>1 DEF AgainOK
  <2>1. UNCHANGED <<fs, task>> /\ start' = fs' /\ pc = "ok"
    BY <1>1
  <2>2. Skipped \/ Complete
    BY <2>1 DEF IInv, PhaseOK
  <2>3. Skipped => Skipped'
    BY <2>1 DEF Skipped, Exists
  <2> QED BY <2>1, <2>2, <2>3, SameFs
<1> QED BY <1>3, <1>4, <1>5 DEF IInv

LEMMA RemoveAllStep ==
  ASSUME IInv, NEW p \in Path, RemoveAll(p)
  PROVE  IInv'
<1>1. /\ fs' = [q \in Path |-> IF IsPrefix(p, q) THEN Nothing ELSE fs[q]]
      /\ start' = fs' /\ pc' = "idle" /\ again' = FALSE
      /\ UNCHANGED <<task, dest, dstDir, todo>>
  BY DEF RemoveAll
<1>2. Nothing \in Entry /\ Nothing.kind = "none"
  BY Names DEF IInv
<1>3. fs' \in [Path -> Entry]
  BY <1>1, <1>2 DEF IInv, TypeOK
<1>4. ASSUME NEW q \in Path, Exists(q)', NEW a \in Above(q)
      PROVE  IsDir(a)'
  <2>1. a \in Path /\ q \in Seq(Name) /\ p \in Seq(Name)
    BY TaskType DEF IInv
  <2>2. ~IsPrefix(p, q) /\ Exists(q)
    BY <1>1, <1>2, <1>4 DEF Exists
  <2>3. ~IsPrefix(p, a)
    BY <2>1, <2>2, PrefixAbove
  <2> QED BY <1>1, <2>1, <2>2, <2>3 DEF IInv, TypeOK, InDir, IsDir
<1>5. TypeOK'
  BY <1>1, <1>3, <1>4 DEF IInv, TypeOK, InDir, DirsOf
<1> QED BY <1>1, <1>5 DEF IInv, PhaseOK, WalkOK, AgainOK

\* Opening the one place of a task that is no copy of a directory.
LEMMA OpenOne ==
  ASSUME IInv, pc = "state", task.kind # "dir", NEW p \in Path, Places(task) = {p}, Open(p),
         ~Skipped, task.kind = "template" => ~again,
         UNCHANGED <<task, dstDir, todo, start, again>>
  PROVE  IInv'
<1>1. /\ fs' \in [Path -> Entry] /\ dest' = p /\ pc' = "write"
      /\ \A q \in Path : Exists(q)' => InDir(q)'
      /\ fs'[p].kind = "file" /\ fs'[p].mode = fs[p].mode /\ fs'[p].owner = fs[p].owner
      /\ \A q \in Path : IsDir(q)' = IsDir(q)
  BY Opened DEF IInv
<1>2. Places(task)' = {p} /\ DirsOf(task)' = DirsOf(task)
  BY <1>1, PlacesKept DEF IInv
<1>3. TypeOK'
  BY <1>1, <1>2 DEF IInv, TypeOK
<1>4. PhaseOK'
  BY <1>1, <1>2 DEF PhaseOK, IsFile
<1>5. WalkOK'
  BY DEF WalkOK
<1>6. AgainOK'
  <2> SUFFICES ASSUME again
               PROVE  start = [fs' EXCEPT ![p].data = task.data] /\ HasAttributes(p)'
    BY <1>1 DEF AgainOK
  <2>1. fs = start /\ Complete
    BY DEF IInv, AgainOK
  <2>2. IsFile(p) /\ fs[p].data = task.data /\ HasAttributes(p)
    BY <2>1 DEF Complete
  <2> QED BY <1>1, <2>1, <2>2, Rewritten DEF IInv, HasAttributes
<1> QED BY <1>3, <1>4, <1>5, <1>6 DEF IInv

LEMMA CopyContentStep ==
  ASSUME IInv, CopyContent
  PROVE  IInv'
<1>1. /\ pc = "state" /\ task.kind = "content" /\ Open(task.dest)
      /\ UNCHANGED <<task, dstDir, todo, start, again>>
  BY DEF CopyContent, InState
<1>2. Places(task) = {task.dest} /\ task.dest \in Path /\ ~Skipped
  BY <1>1, TaskType DEF IInv, Places
<1> QED BY <1>1, <1>2, OpenOne

LEMMA CopyFileStep ==
  ASSUME IInv, CopyFile
  PROVE  IInv'
<1>1. /\ pc = "state" /\ task.kind = "file" /\ Open(Into(task))
      /\ UNCHANGED <<task, dstDir, todo, start, again>>
  BY DEF CopyFile, InState
<1>2. Places(task) = {Into(task)} /\ Into(task) \in Path /\ ~Skipped
  BY <1>1, TaskType, Inside DEF IInv, Places
<1> QED BY <1>1, <1>2, OpenOne

LEMMA WriteTemplateStep ==
  ASSUME IInv, WriteTemplate
  PROVE  IInv'
<1>1. /\ pc = "state" /\ task.kind = "template" /\ ~SameContent(task) /\ Open(task.dest)
      /\ UNCHANGED <<task, dstDir, todo, start, again>>
  BY DEF WriteTemplate, InState
<1>2. Places(task) = {task.dest} /\ task.dest \in Path /\ ~Skipped
  BY <1>1, TaskType DEF IInv, Places
<1>3. ~again
  BY <1>1, <1>2 DEF IInv, AgainOK, Complete, SameContent
<1> QED BY <1>1, <1>2, <1>3, OpenOne

LEMMA GetURLStep ==
  ASSUME IInv, GetURL
  PROVE  IInv'
<1>1. /\ pc = "state" /\ task.kind = "get_url" /\ Open(UrlDest(task))
      /\ UNCHANGED <<task, dstDir, todo, start, again>>
  BY DEF GetURL, InState
<1>2. Places(task) = {UrlDest(task)} /\ UrlDest(task) \in Path /\ ~Skipped
  BY <1>1, TaskType, Inside DEF IInv, Places
<1> QED BY <1>1, <1>2, OpenOne

LEMMA ApplyCommandStep ==
  ASSUME IInv, ApplyCommand
  PROVE  IInv'
<1>1. /\ pc = "state" /\ task.kind = "command" /\ ShouldApply(task) /\ Open(task.dest)
      /\ UNCHANGED <<task, dstDir, todo, start, again>>
  BY DEF ApplyCommand, InState
<1>2. Places(task) = {task.dest} /\ task.dest \in Path
  BY <1>1, TaskType DEF IInv, Places
<1>3. ~Skipped
  BY <1>1 DEF Skipped, ShouldApply
<1> QED BY <1>1, <1>2, <1>3, OpenOne

LEMMA SkipTemplateStep ==
  ASSUME IInv, SkipTemplate
  PROVE  IInv'
<1>1. /\ pc = "state" /\ task.kind = "template" /\ SameContent(task) /\ pc' = "ok"
      /\ UNCHANGED <<fs, task, dest, dstDir, todo, start, again>>
  BY DEF SkipTemplate, InState
<1>2. Complete /\ fs = start
  BY <1>1 DEF IInv, PhaseOK, Complete, Places, SameContent
<1> QED BY <1>1, <1>2, SameFs DEF IInv, TypeOK, PhaseOK, WalkOK, AgainOK

LEMMA SkipCommandStep ==
  ASSUME IInv, SkipCommand
  PROVE  IInv'
<1>1. /\ pc = "state" /\ task.kind = "command" /\ ~ShouldApply(task) /\ pc' = "ok"
      /\ UNCHANGED <<fs, task, dest, dstDir, todo, start, again>>
  BY DEF SkipCommand, InState
<1>2. Skipped
  BY <1>1 DEF IInv, PhaseOK, Skipped, ShouldApply
<1> QED BY <1>1, <1>2, SameFs DEF IInv, TypeOK, PhaseOK, WalkOK, AgainOK

LEMMA MakeDestStep ==
  ASSUME IInv, MakeDest
  PROVE  IInv'
<1>1. /\ pc = "state" /\ task.kind = "file" /\ task.slash /\ ~Exists(task.dest) /\ InDir(task.dest)
      /\ fs' = [fs EXCEPT ![task.dest] = Dir]
      /\ UNCHANGED <<task, pc, dest, dstDir, todo, start, again>>
  BY DEF MakeDest, InState
<1>2. task.dest \in Path /\ ~Skipped /\ task.src \in Seq(Name)
  BY <1>1, TaskType DEF IInv
<1>3. ~again
  <2> SUFFICES ASSUME again PROVE FALSE
    OBVIOUS
  <2>1. Exists(Into(task)) /\ Into(task) = task.dest \o task.src /\ Into(task) \in Path
    BY <1>1, <1>2, Inside DEF IInv, AgainOK, Complete, Places, IsFile, Exists, Into
  <2>2. task.src # <<>>
    BY <1>1, TransferAssumption DEF IInv, TypeOK, Valid
  <2>3. task.dest \in Seq(Name) \ {<<>>} /\ task.src \in Seq(Name) \ {<<>>}
    BY <1>2, <2>2, TaskType DEF IInv
  <2>4. task.dest \in Above(task.dest \o task.src)
    BY <2>3, AboveInside
  <2>5. IsDir(task.dest)
    BY <2>1, <2>4 DEF IInv, TypeOK, InDir
  <2> QED BY <1>1, <2>5 DEF IsDir, Exists
<1>4. MakeDirs({task.dest})
  BY <1>1, <1>2 DEF IInv, TypeOK, MakeDirs
<1>5. fs' \in [Path -> Entry] /\ \A q \in Path : Exists(q)' => InDir(q)'
  BY <1>1, <1>2, <1>4, Made DEF IInv, IsFile, Exists, InDir
<1>6. TypeOK'
  BY <1>1, <1>5 DEF IInv, TypeOK, DirsOf
<1> QED BY <1>1, <1>3, <1>6 DEF IInv, PhaseOK, WalkOK, AgainOK

LEMMA CopyDirStep ==
  ASSUME IInv, CopyDir
  PROVE  IInv'
<1>1. /\ pc = "state" /\ task.kind = "dir" /\ \A a \in Makes(DirDest(task)) : ~IsFile(a)
      /\ MakeDirs(Makes(DirDest(task)))
      /\ dstDir' = DirDest(task) /\ todo' = task.files \cup DirsOf(task) /\ pc' = "walk"
      /\ UNCHANGED <<task, dest, start, again>>
  BY DEF CopyDir, InState
<1>2. DirDest(task) \in Path /\ Makes(DirDest(task)) \subseteq Path
  BY <1>1, Inside, TaskType DEF IInv, Makes
<1>3. \A p \in Makes(DirDest(task)) : \A a \in Above(p) : a \in Makes(DirDest(task))
  BY <1>2, TaskType, AboveTransitive DEF IInv, Makes
<1>4. /\ fs' \in [Path -> Entry] /\ \A q \in Path : Exists(q)' => InDir(q)'
      /\ \A q \in Path : IsDir(q)' = (IsDir(q) \/ q \in Makes(DirDest(task)))
      /\ (\A p \in Makes(DirDest(task)) : IsDir(p)) => fs' = fs
  BY <1>1, <1>2, <1>3, Made DEF IInv
<1>5. DirsOf(task)' = DirsOf(task) /\ DirDest(task)' = DirDest(task)
  BY <1>1 DEF DirsOf, DirDest
<1>6. TypeOK'
  BY <1>1, <1>2, <1>4, <1>5 DEF IInv, TypeOK
<1>7. WalkOK'
  BY <1>1, <1>2, <1>4, <1>5 DEF WalkOK, Makes
<1>8. AgainOK'
  <2> SUFFICES ASSUME again
               PROVE  /\ fs' = start
                      /\ \A f \in DirsOf(task) : IsDir(DirDest(task) \o f)'
                      /\ \A f \in task.files : /\ IsFile(DirDest(task) \o f)'
                                               /\ fs'[DirDest(task) \o f].data = task.data
    BY <1>1, <1>5 DEF AgainOK, At
  <2>1. fs = start /\ Complete
    BY <1>1, TaskType DEF IInv, AgainOK
  <2>2. /\ IsDir(DirDest(task)) /\ \A f \in DirsOf(task) : IsDir(DirDest(task) \o f)
        /\ \A f \in task.files : IsFile(DirDest(task) \o f) /\ fs[DirDest(task) \o f].data = task.data
    BY <1>1, <2>1 DEF Complete, Places
  <2>3. \A p \in Makes(DirDest(task)) : IsDir(p)
    BY <1>2, <2>2 DEF IInv, TypeOK, Makes, InDir, IsDir, Exists
  <2>4. fs' = fs
    BY <1>4, <2>3
  <2> QED BY <1>5, <2>1, <2>2, <2>4 DEF IsDir, IsFile
<1> QED BY <1>1, <1>6, <1>7, <1>8 DEF IInv, PhaseOK

LEMMA CopyDirHalfwayStep ==
  ASSUME IInv, CopyDirHalfway
  PROVE  IInv'
<1>1. /\ task.kind = "dir" /\ \A a \in Makes(DirDest(task)) : ~IsFile(a)
      /\ pc' = "failed" /\ UNCHANGED <<task, dest, dstDir, todo, start, again>>
  BY DEF CopyDirHalfway, InState
<1>2. PICK a \in Above(DirDest(task)) : MakeDirs(Makes(a))
  BY DEF CopyDirHalfway
<1>3. DirDest(task) \in Path /\ a \in Path /\ Makes(a) \subseteq Path
  BY <1>1, Inside, TaskType DEF IInv, Makes
<1>4. Makes(a) \subseteq Makes(DirDest(task))
  BY <1>3, TaskType, AboveTransitive DEF IInv, Makes
<1>5. \A p \in Makes(a) : \A b \in Above(p) : b \in Makes(a)
  BY <1>3, TaskType, AboveTransitive DEF IInv, Makes
<1>6. fs' \in [Path -> Entry] /\ \A q \in Path : Exists(q)' => InDir(q)'
  BY <1>1, <1>2, <1>3, <1>4, <1>5, Made DEF IInv
<1>7. TypeOK'
  BY <1>1, <1>6 DEF IInv, TypeOK, DirsOf
<1> QED BY <1>1, <1>7 DEF IInv, PhaseOK, WalkOK, AgainOK

\* Where the walk is.
LEMMA Walking ==
  ASSUME IInv, pc = "walk"
  PROVE  /\ task.kind = "dir" /\ dstDir = DirDest(task) /\ IsDir(dstDir)
         /\ \A f \in task.files \cup DirsOf(task) : f \in Seq(Name) \ {<<>>} /\ At(f) \in Path
         /\ \A f, g \in task.files \cup DirsOf(task) : At(f) = At(g) => f = g
         /\ task.files \cap DirsOf(task) = {}
         /\ dstDir \in Seq(Name) \ {<<>>}
<1>1. task.kind = "dir" /\ dstDir = DirDest(task) /\ IsDir(dstDir)
  BY DEF IInv, PhaseOK, WalkOK
<1>2. \A f \in task.files \cup DirsOf(task) : f \in Seq(Name) \ {<<>>} /\ At(f) \in Path
  BY <1>1, Inside DEF IInv, At
<1>3. dstDir \in Seq(Name) \ {<<>>}
  BY TaskType DEF IInv, TypeOK
<1>4. \A f, g \in task.files \cup DirsOf(task) : At(f) = At(g) => f = g
  BY <1>2, <1>3, ConcatInjective DEF At
<1>5. task.files \cap DirsOf(task) = {}
  BY TransferAssumption DEF IInv, TypeOK, DirsOf
<1> QED BY <1>1, <1>2, <1>3, <1>4, <1>5

LEMMA CopyNextStep ==
  ASSUME IInv, NEW f \in todo, CopyNext(f)
  PROVE  IInv'
<1>1. /\ pc = "walk" /\ f \in task.files /\ Open(At(f)) /\ todo' = todo \ {f}
      /\ UNCHANGED <<task, dstDir, start, again>>
  BY DEF CopyNext, Comes, At
<1>2. /\ task.kind = "dir" /\ dstDir = DirDest(task) /\ IsDir(dstDir)
      /\ \A g \in task.files \cup DirsOf(task) : At(g) \in Path
      /\ \A g, h \in task.files \cup DirsOf(task) : At(g) = At(h) => g = h
      /\ f \notin DirsOf(task)
  BY <1>1, Walking
<1>3. At(f) \in Path /\ dstDir \in Path
  BY <1>1, <1>2 DEF IInv, TypeOK
<1>4. /\ fs' \in [Path -> Entry] /\ dest' = At(f) /\ pc' = "write"
      /\ \A q \in Path : Exists(q)' => InDir(q)'
      /\ \A q \in Path : q # At(f) => fs'[q] = fs[q]
      /\ fs'[At(f)].kind = "file"
      /\ \A q \in Path : IsDir(q)' = IsDir(q)
  BY <1>1, <1>3, Opened DEF IInv
<1>5. DirsOf(task)' = DirsOf(task) /\ DirDest(task)' = DirDest(task) /\ \A g : At(g)' = At(g)
  BY <1>1 DEF DirsOf, DirDest, At
<1>6. TypeOK'
  BY <1>1, <1>3, <1>4, <1>5 DEF IInv, TypeOK
<1>7. PhaseOK'
  <2>1. IsFile(dest)'
    BY <1>1, <1>4 DEF IsFile, At
  <2> QED BY <1>1, <1>2, <1>4, <2>1 DEF PhaseOK
<1>8. \A g \in task.files : IsFile(At(g)) /\ fs[At(g)].data = task.data =>
        IsFile(At(g))' /\ (fs'[At(g)].data = task.data \/ At(g) = dest')
  <2> SUFFICES ASSUME NEW g \in task.files, IsFile(At(g)), fs[At(g)].data = task.data
               PROVE  IsFile(At(g))' /\ (fs'[At(g)].data = task.data \/ At(g) = dest')
    OBVIOUS
  <2>1. CASE At(g) = At(f)
    BY <1>1, <1>4, <1>5, <2>1 DEF IsFile
  <2>2. CASE At(g) # At(f)
    BY <1>2, <1>4, <1>5, <2>2 DEF IsFile
  <2> QED BY <2>1, <2>2
<1>9. \A g \in DirsOf(task) : IsDir(At(g))' = IsDir(At(g))
  BY <1>2, <1>4, <1>5 DEF IsDir
<1>10. WalkOK'
  <2>1. IsDir(dstDir)'
    BY <1>1, <1>2, <1>3, <1>4 DEF IsDir
  <2>2. \A g \in DirsOf(task) \ todo' : IsDir(At(g))'
    BY <1>1, <1>2, <1>9 DEF IInv, WalkOK
  <2>3. \A g \in task.files \ todo' : IsFile(At(g))' /\ (fs'[At(g)].data = task.data \/ At(g) = dest')
    <3> SUFFICES ASSUME NEW g \in task.files \ todo'
                 PROVE  IsFile(At(g))' /\ (fs'[At(g)].data = task.data \/ At(g) = dest')
      OBVIOUS
    <3>1. CASE g = f
      BY <1>4, <1>5, <3>1 DEF IsFile
    <3>2. CASE g # f
      BY <1>1, <1>2, <1>8, <3>2 DEF IInv, WalkOK
    <3> QED BY <3>1, <3>2
  <2> QED BY <1>1, <1>2, <1>4, <1>5, <2>1, <2>2, <2>3 DEF WalkOK
<1>11. AgainOK'
  <2> SUFFICES ASSUME again
               PROVE  /\ start = [fs' EXCEPT ![At(f)].data = task.data]
                      /\ \A g \in DirsOf(task) : IsDir(At(g))'
                      /\ \A g \in task.files :
                           IsFile(At(g))' /\ (fs'[At(g)].data = task.data \/ At(g) = dest')
    BY <1>1, <1>2, <1>4, <1>5 DEF AgainOK
  <2>1. /\ fs = start /\ \A g \in DirsOf(task) : IsDir(At(g))
        /\ \A g \in task.files : IsFile(At(g)) /\ fs[At(g)].data = task.data
    BY <1>1, <1>2 DEF IInv, AgainOK
  <2>2. start = [fs' EXCEPT ![At(f)].data = task.data]
    BY <1>1, <1>3, <2>1, Rewritten DEF IInv
  <2> QED BY <1>8, <1>9, <2>1, <2>2
<1> QED BY <1>6, <1>7, <1>10, <1>11 DEF IInv

LEMMA MakeNextStep ==
  ASSUME IInv, NEW f \in todo, MakeNext(f)
  PROVE  IInv'
<1>1. /\ pc = "walk" /\ Above(f) \cap todo = {} /\ f \in DirsOf(task) /\ ~IsFile(At(f))
      /\ MakeDirs({At(f)}) /\ todo' = todo \ {f}
      /\ UNCHANGED <<task, pc, dest, dstDir, start, again>>
  BY DEF MakeNext, Comes, At
<1>2. /\ task.kind = "dir" /\ dstDir = DirDest(task) /\ IsDir(dstDir) /\ dstDir \in Path
      /\ \A g \in task.files \cup DirsOf(task) : g \in Seq(Name) \ {<<>>} /\ At(g) \in Path
      /\ f \notin task.files /\ dstDir \in Seq(Name) \ {<<>>}
  BY <1>1, Walking DEF IInv, TypeOK
<1>3. \A a \in Above(At(f)) : IsDir(a)
  <2> SUFFICES ASSUME NEW a \in Above(At(f))
               PROVE  IsDir(a)
    OBVIOUS
  <2>1. a \in Above(dstDir) \/ a = dstDir \/ \E b \in Above(f) : a = At(b)
    <3>1. f \in Seq(Name) \ {<<>>} /\ a \in Above(dstDir \o f)
      BY <1>1, <1>2 DEF At
    <3>2. dstDir \in Seq(Name) \ {<<>>}
      BY <1>2
    <3>3. a \in Above(dstDir) \/ a = dstDir \/ \E b \in Above(f) : a = dstDir \o b
      BY <3>1, <3>2, AboveInside
    <3> QED BY <3>3 DEF At
  <2>2. CASE a \in Above(dstDir)
    BY <1>2, <2>2 DEF IInv, TypeOK, InDir, IsDir, Exists
  <2>3. ASSUME NEW b \in Above(f), a = At(b)
        PROVE  IsDir(a)
    <3>1. PICK g \in task.files : f \in Above(g)
      BY <1>1 DEF DirsOf
    <3>2. b \in Above(g)
      BY <1>2, <3>1, AboveTransitive
    <3>3. b \in DirsOf(task) \ todo
      BY <1>1, <3>2 DEF DirsOf
    <3> QED BY <1>1, <1>2, <2>3, <3>3 DEF IInv, WalkOK
  <2> QED BY <1>2, <2>1, <2>2, <2>3
<1>4. At(f) \in Path
  BY <1>1, <1>2
<1>5. /\ fs' \in [Path -> Entry]
      /\ \A q \in Path : Exists(q)' => InDir(q)'
      /\ \A q \in Path : Exists(q) => fs'[q] = fs[q]
      /\ \A q \in Path : IsDir(q)' = (IsDir(q) \/ q = At(f))
      /\ IsDir(At(f)) => fs' = fs
  BY <1>1, <1>3, <1>4, Made DEF IInv
<1>6. DirsOf(task)' = DirsOf(task) /\ DirDest(task)' = DirDest(task) /\ \A g : At(g)' = At(g)
  BY <1>1 DEF DirsOf, DirDest, At
<1>7. TypeOK'
  BY <1>1, <1>5, <1>6 DEF IInv, TypeOK
<1>8. PhaseOK'
  BY <1>1, <1>2 DEF IInv, PhaseOK
<1>9. WalkOK'
  <2>1. IsDir(dstDir)'
    BY <1>1, <1>2, <1>5 DEF IsDir
  <2>2. \A g \in DirsOf(task) \ todo' : IsDir(At(g))'
    BY <1>1, <1>2, <1>4, <1>5, <1>6 DEF IInv, WalkOK, IsDir
  <2>3. \A g \in task.files \ todo' : IsFile(At(g))' /\ fs'[At(g)].data = task.data
    BY <1>1, <1>2, <1>5, <1>6 DEF IInv, WalkOK, IsFile, Exists
  <2> QED BY <1>1, <1>2, <1>6, <2>1, <2>2, <2>3 DEF WalkOK
<1>10. AgainOK'
  <2> SUFFICES ASSUME again PROVE fs' = fs
    BY <1>1, <1>2, <1>6 DEF IInv, AgainOK, IsDir, IsFile
  <2>1. IsDir(At(f))
    BY <1>1, <1>2 DEF IInv, AgainOK
  <2> QED BY <1>5, <2>1
<1> QED BY <1>7, <1>8, <1>9, <1>10 DEF IInv

LEMMA WalkEndsStep ==
  ASSUME IInv, WalkEnds
  PROVE  IInv'
<1>1. /\ pc = "walk" /\ todo = {} /\ pc' = "ok"
      /\ UNCHANGED <<fs, task, dest, dstDir, todo, start, again>>
  BY DEF WalkEnds
<1>2. task.kind = "dir" /\ NoAttributes(task)
  BY <1>1, TaskType DEF IInv, PhaseOK
<1>3. Complete
  BY <1>1, <1>2 DEF IInv, WalkOK, Complete, Places, At, HasAttributes, NoAttributes
<1> QED BY <1>1, <1>2, <1>3, SameFs DEF IInv, TypeOK, PhaseOK, WalkOK, AgainOK

\* A step that sets the content, mode or owner of the file at hand.
LEMMA FileKept ==
  ASSUME IInv, IsFile(dest), fs' \in [Path -> Entry], UNCHANGED <<task, dest, dstDir, todo>>,
         fs'[dest].kind = "file", \A q \in Path : q # dest => fs'[q] = fs[q]
  PROVE  /\ \A q \in Path : Exists(q)' => InDir(q)'
         /\ \A q \in Path : IsDir(q)' = IsDir(q) /\ IsFile(q)' = IsFile(q)
         /\ Places(task)' = Places(task) /\ DirDest(task)' = DirDest(task)
         /\ DirsOf(task)' = DirsOf(task)
<1>1. \A q \in Path : fs'[q].kind = fs[q].kind
  BY DEF IInv, TypeOK, IsFile
<1>2. \A q \in Path : IsDir(q)' = IsDir(q) /\ IsFile(q)' = IsFile(q) /\ Exists(q)' = Exists(q)
  BY <1>1 DEF IsDir, IsFile, Exists
<1>3. \A q \in Path : InDir(q)' = InDir(q)
  BY <1>2, TaskType DEF IInv, InDir
<1> QED BY <1>2, <1>3, PlacesKept DEF IInv, TypeOK

LEMMA WriteStep ==
  ASSUME IInv, Write
  PROVE  IInv'
<1>1. /\ pc = "write" /\ fs' = [fs EXCEPT ![dest].data = task.data]
      /\ pc' = IF task.kind = "dir" THEN "walk" ELSE IF NoAttributes(task) THEN "ok" ELSE "mode"
      /\ UNCHANGED <<task, dest, dstDir, todo, start, again>>
  BY DEF Write
<1>2. IsFile(dest) /\ dest \in Path /\ task.data \in Data /\ fs[dest] \in Entry
      /\ (task.kind # "dir" => Places(task) = {dest})
  BY <1>1, TaskType DEF IInv, PhaseOK, TypeOK
<1>3. fs'[dest] = [fs[dest] EXCEPT !.data = task.data]
  BY <1>1, <1>2 DEF IInv, TypeOK
<1>4. /\ fs'[dest] \in Entry /\ fs'[dest].kind = "file" /\ fs'[dest].data = task.data
      /\ fs'[dest].mode = fs[dest].mode /\ fs'[dest].owner = fs[dest].owner
  BY <1>2, <1>3 DEF Entry, IsFile
<1>5. fs' \in [Path -> Entry] /\ \A q \in Path : q # dest => fs'[q] = fs[q]
  BY <1>1, <1>2, <1>4 DEF IInv, TypeOK
<1>6. /\ \A q \in Path : Exists(q)' => InDir(q)'
      /\ \A q \in Path : IsDir(q)' = IsDir(q) /\ IsFile(q)' = IsFile(q)
      /\ Places(task)' = Places(task) /\ DirDest(task)' = DirDest(task)
      /\ DirsOf(task)' = DirsOf(task)
  BY <1>1, <1>2, <1>4, <1>5, FileKept
<1>7. TypeOK'
  BY <1>1, <1>5, <1>6 DEF IInv, TypeOK
<1>8. CASE task.kind = "dir"
  <2>1. pc' = "walk" /\ \A g : At(g)' = At(g)
    BY <1>1, <1>8 DEF At
  <2>2. \A g \in task.files \cup DirsOf(task) : At(g) \in Path
    BY <1>1, <1>8, Inside DEF IInv, WalkOK, At
  <2>3. /\ \A g \in DirsOf(task) : IsDir(At(g))' = IsDir(At(g))
        /\ \A g \in task.files : IsFile(At(g)) /\ (fs[At(g)].data = task.data \/ At(g) = dest) =>
             IsFile(At(g))' /\ fs'[At(g)].data = task.data
    BY <1>4, <1>5, <1>6, <2>1, <2>2 DEF IsDir, IsFile
  <2>4. dstDir \in Path /\ IsDir(dstDir)' = IsDir(dstDir)
    BY <1>1, <1>5, <1>6 DEF IInv, TypeOK, IsDir
  <2>5. WalkOK'
    BY <1>1, <1>6, <1>8, <2>1, <2>3, <2>4 DEF IInv, WalkOK
  <2>6. again => fs' = start
    BY <1>1, <1>2, <1>3, <1>5 DEF IInv, AgainOK, TypeOK
  <2>7. AgainOK'
    BY <1>1, <1>6, <1>8, <2>1, <2>3, <2>6 DEF IInv, AgainOK
  <2> QED BY <1>1, <1>7, <1>8, <2>1, <2>5, <2>7 DEF IInv, PhaseOK
<1>9. CASE task.kind # "dir"
  <2>1. pc' \in {"ok", "mode"} /\ (pc' = "ok" => NoAttributes(task))
    BY <1>1, <1>9
  <2>2. Places(task)' = {dest} /\ IsFile(dest)'
    BY <1>1, <1>2, <1>4, <1>6, <1>9 DEF IsFile
  <2>3. again => fs' = start /\ HasAttributes(dest)'
    BY <1>1, <1>2, <1>3, <1>4, <1>5, <1>9 DEF IInv, AgainOK, TypeOK, HasAttributes
  <2>4. NoAttributes(task) => Complete' /\ HasAttributes(task.dest)'
    BY <1>1, <1>4, <1>9, <2>2 DEF Complete, HasAttributes, NoAttributes
  <2>5. PhaseOK'
    BY <1>1, <1>4, <1>9, <2>1, <2>2, <2>4 DEF PhaseOK
  <2>6. AgainOK'
    BY <1>1, <1>9, <2>1, <2>3 DEF AgainOK
  <2> QED BY <1>1, <1>7, <1>9, <2>5, <2>6 DEF IInv, WalkOK
<1> QED BY <1>8, <1>9

LEMMA SetModeStep ==
  ASSUME IInv, SetMode
  PROVE  IInv'
<1>1. /\ pc = "mode" /\ pc' = "owner"
      /\ fs' = IF task.mode = Default THEN fs ELSE [fs EXCEPT ![dest].mode = task.mode]
      /\ UNCHANGED <<task, dest, dstDir, todo, start, again>>
  BY DEF SetMode
<1>2. /\ IsFile(dest) /\ dest \in Path /\ fs[dest] \in Entry /\ task.kind # "dir"
      /\ Places(task) = {dest} /\ fs[dest].data = task.data
      /\ task.mode \in Attr \cup {Default} /\ fs \in [Path -> Entry]
  BY <1>1, TaskType DEF IInv, PhaseOK, TypeOK
<1>3. fs'[dest] = IF task.mode = Default THEN fs[dest] ELSE [fs[dest] EXCEPT !.mode = task.mode]
  BY <1>1, <1>2
<1>4. /\ fs'[dest] \in Entry /\ fs'[dest].kind = "file" /\ fs'[dest].data = task.data
      /\ task.mode # Default => fs'[dest].mode = task.mode
      /\ fs'[dest].owner = fs[dest].owner
  BY <1>2, <1>3 DEF Entry, IsFile
<1>5. fs' \in [Path -> Entry] /\ \A q \in Path : q # dest => fs'[q] = fs[q]
  BY <1>1, <1>2, <1>4
<1>6. (\A q \in Path : Exists(q)' => InDir(q)') /\ Places(task)' = {dest} /\ IsFile(dest)'
      /\ DirsOf(task)' = DirsOf(task)
  BY <1>1, <1>2, <1>4, <1>5, FileKept DEF IsFile
<1>7. again => fs' = fs /\ fs = start /\ HasAttributes(dest)'
  <2> SUFFICES ASSUME again PROVE fs' = fs /\ fs = start /\ HasAttributes(dest)'
    OBVIOUS
  <2>1. fs = start /\ HasAttributes(dest)
    BY <1>1, <1>2 DEF IInv, AgainOK
  <2>2. fs'[dest] = fs[dest]
    BY <1>2, <1>3, <2>1 DEF Entry, HasAttributes
  <2>3. fs' = fs
    BY <1>2, <1>5, <2>2
  <2> QED BY <1>1, <2>1, <2>3 DEF HasAttributes
<1>8. TypeOK'
  BY <1>1, <1>5, <1>6 DEF IInv, TypeOK
<1>9. PhaseOK'
  BY <1>1, <1>2, <1>4, <1>6 DEF PhaseOK
<1>10. AgainOK' /\ WalkOK'
  BY <1>1, <1>2, <1>7 DEF AgainOK, WalkOK
<1> QED BY <1>8, <1>9, <1>10 DEF IInv

LEMMA SetOwnerStep ==
  ASSUME IInv, SetOwner
  PROVE  IInv'
<1>1. /\ pc = "owner" /\ pc' = "ok"
      /\ fs' = IF task.owner = Default THEN fs ELSE [fs EXCEPT ![dest].owner = task.owner]
      /\ UNCHANGED <<task, dest, dstDir, todo, start, again>>
  BY DEF SetOwner
<1>2. /\ IsFile(dest) /\ dest \in Path /\ fs[dest] \in Entry /\ task.kind # "dir"
      /\ Places(task) = {dest} /\ fs[dest].data = task.data
      /\ task.mode # Default => fs[dest].mode = task.mode
      /\ task.owner \in Attr \cup {Default} /\ fs \in [Path -> Entry]
  BY <1>1, TaskType DEF IInv, PhaseOK, TypeOK
<1>3. fs'[dest] = IF task.owner = Default THEN fs[dest] ELSE [fs[dest] EXCEPT !.owner = task.owner]
  BY <1>1, <1>2
<1>4. /\ fs'[dest] \in Entry /\ fs'[dest].kind = "file" /\ fs'[dest].data = task.data
      /\ task.mode # Default => fs'[dest].mode = task.mode
      /\ task.owner # Default => fs'[dest].owner = task.owner
  BY <1>2, <1>3 DEF Entry, IsFile
<1>5. fs' \in [Path -> Entry] /\ \A q \in Path : q # dest => fs'[q] = fs[q]
  BY <1>1, <1>2, <1>4
<1>6. (\A q \in Path : Exists(q)' => InDir(q)') /\ Places(task)' = {dest} /\ IsFile(dest)'
      /\ DirsOf(task)' = DirsOf(task)
  BY <1>1, <1>2, <1>4, <1>5, FileKept DEF IsFile
<1>7. again => fs' = start
  <2> SUFFICES ASSUME again PROVE fs' = start
    OBVIOUS
  <2>1. fs = start /\ HasAttributes(dest)
    BY <1>1, <1>2 DEF IInv, AgainOK
  <2>2. fs'[dest] = fs[dest]
    BY <1>2, <1>3, <2>1 DEF Entry, HasAttributes
  <2> QED BY <1>2, <1>5, <2>1, <2>2
<1>8. HasAttributes(dest)' /\ Complete'
  BY <1>1, <1>2, <1>4, <1>6 DEF HasAttributes, Complete
<1>9. TypeOK'
  BY <1>1, <1>5, <1>6 DEF IInv, TypeOK
<1>10. task.kind = "template" => task.dest = dest
  BY <1>2 DEF Places
<1>11. PhaseOK'
  BY <1>1, <1>2, <1>8, <1>10 DEF PhaseOK, HasAttributes
<1>12. AgainOK' /\ WalkOK'
  BY <1>1, <1>7 DEF AgainOK, WalkOK
<1> QED BY <1>9, <1>11, <1>12 DEF IInv

-----------------------------------------------------------------------------
(* The invariant and what follows from it                                  *)

LEMMA Invariance == Spec => []IInv
<1>1. IInv /\ [Next]_vars => IInv'
  BY StutterStep, BeginStep, RemoveAllStep, CopyContentStep, MakeDestStep, CopyFileStep, CopyDirStep,
     CopyDirHalfwayStep, CopyNextStep, MakeNextStep, WalkEndsStep, SkipTemplateStep,
     WriteTemplateStep, GetURLStep, SkipCommandStep, ApplyCommandStep, WriteStep, SetModeStep,
     SetOwnerStep, FailStep DEF Next
<1> QED BY InitInv, <1>1, PTL DEF Spec

\* The host's files and the state of a task have their types, and what exists is in
\* directories: no order of copies, downloads and removals leaves a file in nothing.
THEOREM Types == Spec => []TypeOK
<1>1. IInv => TypeOK
  BY DEF IInv
<1> QED BY Invariance, <1>1, PTL

\* A copy, template, get_url or command that ends well has the whole of its content in
\* place under its attributes, whatever tasks that were cut off have left: for any paths,
\* source directories and tasks.
THEOREM InstalledHolds == Spec => []Installed
<1>1. IInv => Installed
  <2> SUFFICES ASSUME IInv, pc = "ok", ~Skipped, NEW p \in Places(task)
               PROVE  /\ IsFile(p) /\ fs[p].data = task.data
                      /\ HasAttributes(p) \/ (task.kind = "template" /\ fs = start)
    BY DEF Installed
  <2>1. Complete /\ (task.kind = "template" => fs = start \/ HasAttributes(task.dest))
    BY DEF IInv, PhaseOK
  <2>2. task.kind = "template" => p = task.dest
    BY DEF Places
  <2> QED BY <2>1, <2>2 DEF Complete
<1> QED BY Invariance, <1>1, PTL

\* A task that is applied again right after it has ended well leaves everything as it was,
\* though it may have opened and written the same files again.
THEOREM RepeatableHolds == Spec => []Repeatable
<1>1. IInv => Repeatable
  BY DEF IInv, AgainOK, Repeatable
<1> QED BY Invariance, <1>1, PTL
=============================================================================
