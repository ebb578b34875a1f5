--------------------------- MODULE ArchiveProofs ---------------------------
(***************************************************************************)
(* For any directories, of any paths and modes: a host keeps its types,    *)
(* and has all of the playbook's directory and nothing but it when Untar   *)
(* has ended well.                                                         *)
(***************************************************************************)
EXTENDS Archive, TLAPS

\* What Untar has read.
Unpacked == {archive[i] : i \in 1..n}

\* Tar has put every path into the archive once, or has yet to.
PackedOK ==
  /\ pc \in {"pack", "unpack", "ok"} =>
       /\ \A i \in 1..Len(archive) : archive[i] \in Paths(source) \ todo
       /\ \A i, j \in 1..Len(archive) : archive[i] = archive[j] => i = j
       /\ \A p \in Paths(source) \ todo : \E i \in 1..Len(archive) : archive[i] = p
       /\ todo \subseteq Paths(source)
  /\ pc \in {"unpack", "ok"} => todo = {}
  /\ pc = "ok" => n = Len(archive)

\* What a run finds: only ".." can have something of an earlier one.
BeforeOK ==
  /\ before["."] = Uploaded /\ before["site"] = Empty
  /\ pc \in {"idle", "pack"} => fs = before /\ n = 0

\* What Untar has read is in place, and the rest as it was.
UnpackedOK ==
  pc \in {"unpack", "ok"} => /\ \A p \in Unpacked : SameEntry(p)
                             /\ \A p \in Path \ Unpacked : Here[p] = before[place][p]

IInv == TypeOK /\ PackedOK /\ BeforeOK /\ UnpackedOK

-----------------------------------------------------------------------------
(* Types                                                                   *)

\* What the assumption says of a directory.
LEMMA TreesType ==
  ASSUME NEW t \in Trees
  PROVE  /\ t \in [Path -> Entry] /\ t[Top].kind = "dir" /\ Paths(t) \subseteq Path
         /\ \A p \in Path : t[p].kind # "none" => t[Parent[p]].kind = "dir"
         /\ \A p \in Path : t[p].kind = "file" => t[p].content \in Content
BY ArchiveAssumption DEF ArchiveAssumption, Paths

\* A directory of the dialer's, an empty place and /tmp are host directories without forbidden modes.
LEMMA PlacesType ==
  \A d \in {Uploaded, Empty, Tmp} : d \in [Path -> Entry] /\ \A p \in Path : d[p].mode \cap Lost = {}
<1>1. Uploaded \in [Path -> Entry] /\ \A p \in Path : Uploaded[p].mode \cap Lost = {}
  <2> DEFINE t == [Nothing EXCEPT !.kind = "dir", !.mode = Bit \ Lost]
             o == [kind |-> "file", content |-> Partial, mode |-> {"write"}]
  <2>1. t \in Entry /\ t.mode = Bit \ Lost
    BY DEF Entry, Nothing
  <2>2. o \in Entry /\ o.mode \cap Lost = {}
    BY ArchiveAssumption DEF ArchiveAssumption, Entry
  <2>3. Nothing \in Entry /\ Nothing.mode = {}
    BY DEF Entry, Nothing
  <2>4. Uploaded = [p \in Path |-> IF p = Top THEN t ELSE IF p \in Own THEN o ELSE Nothing]
    BY DEF Uploaded
  <2> HIDE DEF t, o
  <2> QED BY <2>1, <2>2, <2>3, <2>4
<1>2. Empty \in [Path -> Entry] /\ \A p \in Path : Empty[p].mode \cap Lost = {}
  BY DEF Empty, Entry, Nothing
<1>3. Tmp \in [Path -> Entry] /\ \A p \in Path : Tmp[p].mode \cap Lost = {}
  BY <1>1, <1>2 DEF Tmp
<1> QED BY <1>1, <1>2, <1>3

LEMMA InitType == Init => TypeOK
<1> SUFFICES ASSUME Init PROVE TypeOK
  OBVIOUS
<1>1. /\ fs \in [Place -> [Path -> Entry]]
      /\ \A q \in Place, p \in Path : fs[q][p].mode \cap Lost = {}
  BY PlacesType DEF Init, Place
<1>2. archive \in Seq(Path) /\ n \in 0..Len(archive)
  BY DEF Init
<1>3. place \in Place /\ todo \subseteq Path /\ before \in [Place -> [Path -> Entry]]
  BY <1>1 DEF Init, Place
<1> QED BY <1>1, <1>2, <1>3 DEF TypeOK, Init

\* Putting an entry on the host keeps its type.
LEMMA PutType ==
  ASSUME TypeOK, NEW p \in Path, NEW e \in Entry, e.mode \cap Lost = {}, Put(p, e)
  PROVE  /\ fs' \in [Place -> [Path -> Entry]]
         /\ \A q \in Place, r \in Path : fs'[q][r].mode \cap Lost = {}
         /\ Here' = [Here EXCEPT ![p] = e] \/ place' # place
BY DEF TypeOK, Put, Here

\* What Untar reads next is in the archive.
LEMMA ReadsType ==
  ASSUME TypeOK, NEW kind, Reads(kind)
  PROVE  /\ ThisPath \in Path /\ n + 1 \in 1..Len(archive) /\ n + 1 \in 0..Len(archive) /\ source[ThisPath] \in Entry
         /\ source[ThisPath].kind = kind /\ Here[ThisPath] \in Entry /\ Here[ThisPath].mode \cap Lost = {}
<1>1. n + 1 \in 1..Len(archive)
  BY DEF TypeOK, Reads
<1>2. ThisPath \in Path
  BY <1>1 DEF ThisPath, TypeOK
<1>3. source[ThisPath] \in Entry
  BY <1>2, TreesType DEF TypeOK
<1> QED BY <1>1, <1>2, <1>3 DEF TypeOK, Reads, Here

LEMMA NextType == TypeOK /\ [Next]_vars => TypeOK'
<1> SUFFICES ASSUME TypeOK, [Next]_vars PROVE TypeOK'
  OBVIOUS
<1>1. ASSUME NEW q \in Place, NEW t \in Trees, Begin(q, t) PROVE TypeOK'
  <2>1. archive' \in Seq(Path) /\ n' \in 0..Len(archive')
    BY <1>1 DEF Begin
  <2>2. todo' \subseteq Path
    BY <1>1, TreesType DEF Begin
  <2> QED BY <1>1, <2>1, <2>2 DEF Begin, TypeOK
<1>2. ASSUME NEW p \in todo, Pack(p) \/ PackShort(p) PROVE TypeOK'
  <2>1. p \in Path /\ archive' = Append(archive, p)
    BY <1>2 DEF Pack, PackShort, TypeOK
  <2>2. archive' \in Seq(Path) /\ Len(archive') = Len(archive) + 1
    BY <2>1 DEF TypeOK
  <2>3. n' \in 0..Len(archive')
    BY <1>2, <2>2 DEF Pack, PackShort, packs, TypeOK
  <2> QED BY <1>2, <2>2, <2>3 DEF Pack, PackShort, packs, Comes, TypeOK
<1>3. CASE PackEnds
  BY <1>3 DEF PackEnds, TypeOK
<1>4. CASE UnpackDir
  <2>1. /\ ThisPath \in Path /\ n + 1 \in 0..Len(archive) /\ Made(ThisPath) \in Entry
        /\ Made(ThisPath).mode \cap Lost = {}
    BY <1>4, ReadsType DEF UnpackDir, Made, Entry
  <2>2. /\ fs' \in [Place -> [Path -> Entry]]
        /\ \A q \in Place, r \in Path : fs'[q][r].mode \cap Lost = {}
    BY <1>4, <2>1, PutType DEF UnpackDir, TypeOK
  <2> QED BY <1>4, <2>1, <2>2 DEF UnpackDir, unpacks, TypeOK
<1>5. CASE UnpackFile \/ UnpackFileHalfway
  <2>1. /\ ThisPath \in Path /\ n + 1 \in 0..Len(archive) /\ source[ThisPath].content \in Content
    BY <1>5, ReadsType, TreesType DEF UnpackFile, UnpackFileHalfway, TypeOK
  <2>2. ModeAfter(ThisPath) \in SUBSET Bit /\ ModeAfter(ThisPath) \cap Lost = {}
    BY <1>5, ReadsType DEF UnpackFile, UnpackFileHalfway, ModeAfter, Entry
  <2> DEFINE e(c) == [kind |-> "file", content |-> c, mode |-> ModeAfter(ThisPath)]
  <2>3. \A c \in Content \cup {Partial} : e(c) \in Entry /\ e(c).mode \cap Lost = {}
    BY <2>2 DEF Entry
  <2>4. \E c \in Content \cup {Partial} : Put(ThisPath, e(c))
    BY <1>5, <2>1 DEF UnpackFile, UnpackFileHalfway, Write
  <2>5. /\ fs' \in [Place -> [Path -> Entry]]
        /\ \A q \in Place, r \in Path : fs'[q][r].mode \cap Lost = {}
    BY <2>1, <2>3, <2>4, PutType
  <2> QED BY <1>5, <2>1, <2>5 DEF UnpackFile, UnpackFileHalfway, unpacks, TypeOK
<1>6. CASE UnpackLink
  <2>1. /\ ThisPath \in Path /\ n + 1 \in 0..Len(archive) /\ Made(ThisPath) \in Entry
        /\ Made(ThisPath).mode \cap Lost = {}
    BY <1>6, ReadsType DEF UnpackLink, Made, Entry
  <2>2. /\ fs' \in [Place -> [Path -> Entry]]
        /\ \A q \in Place, r \in Path : fs'[q][r].mode \cap Lost = {}
    BY <1>6, <2>1, PutType DEF UnpackLink
  <2> QED BY <1>6, <2>1, <2>2 DEF UnpackLink, unpacks, TypeOK
<1>7. CASE UnpackEnds \/ Fail
  BY <1>7 DEF UnpackEnds, unpacks, Fail, TypeOK
<1>8. CASE Cleanup
  <2>1. archive' \in Seq(Path) /\ n' \in 0..Len(archive')
    BY <1>8 DEF Cleanup
  <2>2. /\ fs' \in [Place -> [Path -> Entry]]
        /\ \A q \in Place, p \in Path : fs'[q][p].mode \cap Lost = {}
    BY <1>8, PlacesType DEF Cleanup, Left, TypeOK, Place
  <2>3. place' \in Place /\ todo' \subseteq Path
    BY <1>8 DEF Cleanup, Place
  <2> QED BY <1>8, <2>1, <2>2, <2>3 DEF Cleanup, TypeOK
<1>9. CASE UNCHANGED vars
  BY <1>9 DEF vars, TypeOK
<1> QED BY <1>1, <1>2, <1>3, <1>4, <1>5, <1>6, <1>7, <1>8, <1>9 DEF Next

\* Every variable keeps its type, and no file has a mode that is taken away.
THEOREM Types == Spec => []TypeOK
BY InitType, NextType, PTL DEF Spec

-----------------------------------------------------------------------------
(* All of the directory is in the archive                                  *)

LEMMA NextPacked == TypeOK /\ PackedOK /\ [Next]_vars => PackedOK'
<1> SUFFICES ASSUME TypeOK, PackedOK, [Next]_vars PROVE PackedOK'
  OBVIOUS
<1>1. ASSUME NEW q \in Place, NEW t \in Trees, Begin(q, t) PROVE PackedOK'
  BY <1>1 DEF Begin, PackedOK, Paths
<1>2. ASSUME NEW p \in todo, Pack(p) \/ PackShort(p) PROVE PackedOK'
  <2>1. /\ pc = "pack" /\ pc' = pc /\ source' = source /\ p \in Paths(source)
        /\ archive' = Append(archive, p) /\ todo' = todo \ {p}
    BY <1>2 DEF Pack, PackShort, packs, Comes, PackedOK
  <2>2. Len(archive') = Len(archive) + 1 /\ archive'[Len(archive')] = p
    BY <2>1 DEF TypeOK
  <2>3. \A i \in 1..Len(archive) : archive'[i] = archive[i]
    BY <2>1 DEF TypeOK
  <2>4. \A i \in 1..Len(archive') : i \in 1..Len(archive) \/ i = Len(archive')
    BY <2>2 DEF TypeOK
  <2>5. \A i \in 1..Len(archive) : archive[i] \in Paths(source) \ todo
    BY <2>1 DEF PackedOK
  <2>6. \A i \in 1..Len(archive') : archive'[i] \in Paths(source') \ todo'
    BY <2>1, <2>2, <2>3, <2>4, <2>5 DEF Paths
  <2>7. \A i, j \in 1..Len(archive') : archive'[i] = archive'[j] => i = j
    BY <2>1, <2>2, <2>3, <2>4, <2>5 DEF PackedOK
  <2>8. \A r \in Paths(source') \ todo' : \E i \in 1..Len(archive') : archive'[i] = r
    <3> SUFFICES ASSUME NEW r \in Paths(source) \ todo' PROVE \E i \in 1..Len(archive') : archive'[i] = r
      BY <2>1 DEF Paths
    <3>1. CASE r = p
      <4>1. Len(archive') \in 1..Len(archive')
        BY <2>2 DEF TypeOK
      <4> QED BY <3>1, <2>2, <4>1
    <3>2. CASE r # p
      <4>1. PICK i \in 1..Len(archive) : archive[i] = r
        BY <3>2, <2>1 DEF PackedOK
      <4>2. i \in 1..Len(archive')
        BY <4>1, <2>2 DEF TypeOK
      <4> QED BY <4>1, <4>2, <2>3
    <3> QED BY <3>1, <3>2
  <2>9. todo' \subseteq Paths(source')
    BY <2>1 DEF PackedOK, Paths
  <2> QED BY <2>1, <2>6, <2>7, <2>8, <2>9 DEF PackedOK
<1>3. CASE PackEnds
  BY <1>3 DEF PackEnds, PackedOK, Paths
<1>4. CASE UnpackDir \/ UnpackFile \/ UnpackFileHalfway \/ UnpackLink
  <2>1. UNCHANGED <<source, todo, archive>> /\ pc = "unpack" /\ pc' \in {"unpack", "failed"}
    BY <1>4 DEF UnpackDir, UnpackFile, UnpackFileHalfway, UnpackLink, Reads, unpacks
  <2> QED BY <2>1 DEF PackedOK, Paths
<1>5. CASE UnpackEnds
  BY <1>5 DEF UnpackEnds, AtEnd, unpacks, PackedOK, Paths
<1>6. CASE Fail \/ Cleanup
  BY <1>6 DEF Fail, Cleanup, PackedOK
<1>7. CASE UNCHANGED vars
  BY <1>7 DEF vars, PackedOK, Paths
<1> QED BY <1>1, <1>2, <1>3, <1>4, <1>5, <1>6, <1>7 DEF Next

-----------------------------------------------------------------------------
(* What a run finds, and what it leaves                                    *)

LEMMA NextBefore == TypeOK /\ BeforeOK /\ [Next]_vars => BeforeOK'
<1> SUFFICES ASSUME TypeOK, BeforeOK, [Next]_vars PROVE BeforeOK'
  OBVIOUS
<1>1. CASE Cleanup
  <2>1. before'["."] = Uploaded /\ before'["site"] = Empty /\ fs' = before' /\ n' = 0
    BY <1>1 DEF Cleanup, Left, TypeOK, Place
  <2> QED BY <2>1 DEF BeforeOK, Uploaded, Empty
<1>2. ASSUME NEW q \in Place, NEW t \in Trees, Begin(q, t) PROVE BeforeOK'
  BY <1>2 DEF Begin, BeforeOK, Uploaded, Empty
<1>3. CASE \E p \in todo : Pack(p) \/ PackShort(p)
  BY <1>3 DEF Pack, PackShort, packs, Comes, BeforeOK, Uploaded, Empty
<1>4. CASE PackEnds \/ UnpackDir \/ UnpackFile \/ UnpackFileHalfway \/ UnpackLink \/ UnpackEnds \/ Fail
  BY <1>4 DEF PackEnds, UnpackDir, UnpackFile, UnpackFileHalfway, UnpackLink, UnpackEnds, Fail, Reads, unpacks,
              BeforeOK, Uploaded, Empty
<1>5. CASE UNCHANGED vars
  BY <1>5 DEF vars, BeforeOK, Uploaded, Empty
<1> QED BY <1>1, <1>2, <1>3, <1>4, <1>5 DEF Next

\* Reading one more path adds it to what has been read, in which it was not.
LEMMA ReadsNext ==
  ASSUME TypeOK, PackedOK, NEW kind, Reads(kind), n' = n + 1, archive' = archive
  PROVE  Unpacked' = Unpacked \cup {ThisPath} /\ ThisPath \notin Unpacked
<1>1. n \in Nat /\ n + 1 \in 1..Len(archive) /\ pc = "unpack"
  BY DEF TypeOK, Reads
<1>2. \A i \in 1..n : i \in 1..Len(archive) /\ i # n + 1
  BY <1>1
<1>3. \A i \in 1..(n + 1) : i \in 1..n \/ i = n + 1
  BY <1>1
<1>4. 1..n \subseteq 1..(n + 1) /\ n + 1 \in 1..(n + 1)
  BY <1>1
<1>5. Unpacked' = {archive[i] : i \in 1..(n + 1)}
  BY DEF Unpacked
<1>6. Unpacked' = Unpacked \cup {ThisPath}
  BY <1>3, <1>4, <1>5 DEF Unpacked, ThisPath
<1>7. ThisPath \notin Unpacked
  BY <1>1, <1>2 DEF PackedOK, Unpacked, ThisPath
<1> QED BY <1>6, <1>7

\* An entry that was put in place, or was a directory already, is the same as the source's.
LEMMA OneMore ==
  ASSUME TypeOK, PackedOK, UnpackedOK, NEW kind, Reads(kind), n' = n + 1, unpacks,
         NEW e \in Entry, Put(ThisPath, e), e.kind = source[ThisPath].kind,
         e.kind # "dir" => e.content = source[ThisPath].content,
         Here[ThisPath].kind = "none" => e.mode = source[ThisPath].mode \ Lost
  PROVE  UnpackedOK'
<1>0. PICK p \in Path : p = ThisPath
  BY ReadsType
<1>1. /\ place' = place /\ source' = source /\ before' = before /\ archive' = archive /\ pc = "unpack"
  BY DEF unpacks, Reads
<1>2. Unpacked' = Unpacked \cup {p} /\ p \notin Unpacked
  BY <1>0, <1>1, ReadsNext
<1>3. Here' = [Here EXCEPT ![p] = e] /\ Here \in [Path -> Entry]
  BY <1>0, <1>1 DEF Here, Put, TypeOK
<1>4. Here[p] = before[place][p]
  BY <1>1, <1>2 DEF UnpackedOK
<1>5. \A r \in Unpacked : r \in Path /\ SameEntry(r)
  <2>1. Unpacked \subseteq Path
    BY DEF Unpacked, TypeOK
  <2> QED BY <1>1, <2>1 DEF UnpackedOK
<1>6. SameEntry(p)'
  <2>1. Here'[p] = e /\ source'[p] = source[p] /\ before'[place'][p] = Here[p]
    BY <1>1, <1>3, <1>4
  <2> QED BY <1>0, <2>1 DEF SameEntry
<1>7. \A r \in Unpacked : SameEntry(r)'
  BY <1>1, <1>2, <1>3, <1>5 DEF SameEntry
<1>8. \A r \in Path \ Unpacked' : Here'[r] = before'[place'][r]
  BY <1>1, <1>2, <1>3 DEF UnpackedOK
<1> QED BY <1>1, <1>2, <1>6, <1>7, <1>8 DEF UnpackedOK

LEMMA NextUnpacked == TypeOK /\ PackedOK /\ BeforeOK /\ UnpackedOK /\ [Next]_vars => UnpackedOK'
<1> SUFFICES ASSUME TypeOK, PackedOK, BeforeOK, UnpackedOK, [Next]_vars PROVE UnpackedOK'
  OBVIOUS
<1>1. CASE PackEnds
  <2>1. Unpacked' = {} /\ Here' = before'[place'] /\ n = 0
    BY <1>1 DEF PackEnds, BeforeOK, Unpacked, Here
  <2> QED BY <2>1 DEF UnpackedOK
<1>2. CASE UnpackDir
  <2> DEFINE p == ThisPath
  <2>1. p \in Path /\ Here[p] \in Entry /\ source[p] \in Entry /\ source[p].kind = "dir" /\ Reads("dir")
    BY <1>2, ReadsType DEF UnpackDir
  <2>2. CASE Here[p].kind = "dir" /\ UNCHANGED fs
    <3>1. Put(p, Here[p])
      BY <2>1, <2>2 DEF Put, Here, TypeOK
    <3> QED BY <1>2, <2>1, <2>2, <3>1, OneMore DEF UnpackDir
  <2>3. CASE Here[p].kind = "none" /\ Put(p, Made(p))
    <3>1. /\ Made(p) \in Entry /\ Made(p).kind = source[p].kind
          /\ Made(p).mode = source[p].mode \ Lost
      BY <2>1 DEF Made, Entry
    <3> QED BY <1>2, <2>1, <2>3, <3>1, OneMore DEF UnpackDir
  <2> QED BY <1>2, <2>2, <2>3 DEF UnpackDir
<1>3. CASE UnpackFile
  <2> DEFINE p == ThisPath
             e == [kind |-> "file", content |-> source[p].content, mode |-> ModeAfter(p)]
  <2>1. p \in Path /\ Here[p] \in Entry /\ source[p] \in Entry /\ source[p].kind = "file" /\ Reads("file")
    BY <1>3, ReadsType DEF UnpackFile
  <2>2. Put(p, e) /\ e.kind = source[p].kind /\ e.content = source[p].content
    BY <1>3, <2>1 DEF UnpackFile, Write
  <2>3. e.mode \subseteq Bit /\ (Here[p].kind = "none" => e.mode = source[p].mode \ Lost)
    BY <2>1 DEF ModeAfter, Entry
  <2>4. e \in Entry
    BY <2>1, <2>3 DEF Entry
  <2> HIDE DEF e
  <2> QED BY <1>3, <2>1, <2>2, <2>3, <2>4, OneMore DEF UnpackFile
<1>4. CASE UnpackLink
  <2> DEFINE p == ThisPath
  <2>1. p \in Path /\ source[p] \in Entry /\ source[p].kind = "link" /\ Reads("link")
    BY <1>4, ReadsType DEF UnpackLink
  <2>2. /\ Made(p) \in Entry /\ Made(p).kind = source[p].kind /\ Made(p).content = source[p].content
        /\ Made(p).mode = source[p].mode \ Lost
    BY <2>1 DEF Made, Entry
  <2> QED BY <1>4, <2>1, <2>2, OneMore DEF UnpackLink
<1>5. CASE UnpackEnds
  <2>1. /\ pc = "unpack" /\ Unpacked' = Unpacked /\ Here' = Here
        /\ source' = source /\ before' = before /\ place' = place
    BY <1>5 DEF UnpackEnds, unpacks, Unpacked, Here
  <2>2. \A p \in Unpacked : SameEntry(p)'
    BY <2>1 DEF UnpackedOK, SameEntry
  <2> QED BY <2>1, <2>2 DEF UnpackedOK
<1>6. CASE UNCHANGED vars
  BY <1>6 DEF vars, UnpackedOK, Unpacked, SameEntry, Here
<1>7. CASE \/ \E q \in Place, t \in Trees : Begin(q, t)
           \/ \E p \in todo : Pack(p) \/ PackShort(p)
           \/ UnpackFileHalfway \/ Fail \/ Cleanup
  <2>1. pc' \notin {"unpack", "ok"}
    BY <1>7 DEF Begin, Pack, PackShort, Comes, UnpackFileHalfway, Fail, Cleanup
  <2> QED BY <2>1 DEF UnpackedOK
<1> QED BY <1>1, <1>2, <1>3, <1>4, <1>5, <1>6, <1>7 DEF Next

-----------------------------------------------------------------------------

LEMMA Inductive == Spec => []IInv
<1>1. Init => IInv
  <2> SUFFICES ASSUME Init PROVE IInv
    OBVIOUS
  <2>1. TypeOK
    BY InitType
  <2>2. PackedOK /\ UnpackedOK
    BY DEF Init, PackedOK, UnpackedOK
  <2>3. BeforeOK
    BY DEF Init, BeforeOK, Place
  <2> QED BY <2>1, <2>2, <2>3 DEF IInv
<1>2. IInv /\ [Next]_vars => IInv'
  BY NextType, NextPacked, NextBefore, NextUnpacked DEF IInv
<1> QED BY <1>1, <1>2, PTL DEF Spec

\* A host on which Untar has ended well has every path of the playbook's directory as it is there,
\* and none that an earlier run has left.
THEOREM ArrivedHolds == Spec => []Arrived
<1>1. IInv => Arrived
  <2> SUFFICES ASSUME IInv, pc = "ok"
               PROVE  /\ \A p \in Paths(source) : SameEntry(p)
                      /\ place # ".." => \A p \in Path \ Paths(source) : Untouched(p)
    BY DEF Arrived
  <2>1. Unpacked = Paths(source)
    BY DEF IInv, PackedOK, Unpacked
  <2>2. Here = fs[place] /\ place \in Place
    BY DEF Here, IInv, TypeOK
  <2>3. \A p \in Path \ Paths(source) : Here[p] = before[place][p]
    BY <2>1 DEF IInv, UnpackedOK
  <2>4. place # ".." => \A p \in Path \ Paths(source) : Untouched(p)
    BY <2>2, <2>3 DEF IInv, BeforeOK, Untouched, Empty, Place
  <2> QED BY <2>1, <2>4 DEF IInv, UnpackedOK
<1> QED BY <1>1, Inductive, PTL
=============================================================================
