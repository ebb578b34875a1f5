--------------------------- MODULE PackagesProofs ---------------------------
(***************************************************************************)
(* Proofs about Packages, for every set of packages, repositories and      *)
(* tasks.                                                                  *)
(***************************************************************************)
EXTENDS Packages, TLAPS

-----------------------------------------------------------------------------
(* Types                                                                   *)

\* What the sources offer was published.
LEMMA OfferedType ==
  ASSUME TypeOK
  PROVE  /\ Offered \in [Package -> Version]
         /\ \A p \in Package : Offered[p] <= published[p]
BY PackagesAssumption DEF PackagesAssumption, TypeOK, Offered, Version

\* An installation leaves versions that were installed or that lists knows.
LEMMA NewestType ==
  ASSUME TypeOK, NEW ps
  PROVE  /\ Newest(ps) \in [Package -> Version]
         /\ \A p \in Package : Newest(ps)[p] <= published[p] /\ Newest(ps)[p] >= installed[p]
<1>1. \A p \in Package : /\ lists[p] \in Version /\ installed[p] \in Version
                          /\ lists[p] <= published[p] /\ installed[p] <= published[p]
  BY DEF TypeOK
<1>2. Version \subseteq Nat
  BY DEF Version
<1>3. Newest(ps) = [p \in Package |-> IF p \in ps /\ lists[p] > installed[p] THEN lists[p] ELSE installed[p]]
  BY DEF Newest
<1>4. Newest(ps) \in [Package -> Version]
  BY <1>1, <1>3
<1>5. \A p \in Package : Newest(ps)[p] <= published[p] /\ Newest(ps)[p] >= installed[p]
  <2> TAKE p \in Package
  <2>1. \/ Newest(ps)[p] = lists[p] /\ lists[p] > installed[p]
        \/ Newest(ps)[p] = installed[p]
    BY <1>3
  <2>2. /\ lists[p] \in Nat /\ installed[p] \in Nat
        /\ lists[p] <= published[p] /\ installed[p] <= published[p]
    BY <1>1, <1>2
  <2> QED BY <2>1, <2>2
<1> QED BY <1>4, <1>5

\* A task is of one of the two modules.
LEMMA TaskType == Tasks \subseteq AptTask \cup RepoTask
BY PackagesAssumption DEF PackagesAssumption

\* The types hold initially.
LEMMA InitType == Init => TypeOK
<1> SUFFICES ASSUME Init PROVE TypeOK
  OBVIOUS
<1>1. 0 \in Version /\ 1 \in Version
  BY PackagesAssumption DEF PackagesAssumption, Version
<1>2. /\ lists \in [Package -> Version]
      /\ \A p \in Package : lists[p] <= 1 /\ (lists[p] > 0 => listed)
  BY <1>1 DEF Init, Offered
<1>3. \A p \in Package : published[p] = 1 /\ installed[p] = 0
  BY DEF Init
<1>4. /\ published \in [Package -> Version] /\ installed \in [Package -> Version]
      /\ \A p \in Package : /\ lists[p] <= published[p] /\ installed[p] <= published[p]
                            /\ lists[p] > 0 => listed
  BY <1>1, <1>2, <1>3 DEF Init
<1> QED BY <1>2, <1>4 DEF Init, TypeOK

\* Every step keeps the types.
LEMMA NextType == TypeOK /\ [Next]_vars => TypeOK'
<1> SUFFICES ASSUME TypeOK, [Next]_vars PROVE TypeOK'
  OBVIOUS
<1> USE PackagesAssumption DEF PackagesAssumption, TypeOK
<1>a. ASSUME NEW p \in Package, Publish(p) PROVE TypeOK'
  BY <1>a, PackagesAssumption DEF PackagesAssumption, Publish, host, Version
<1>b. CASE GrowOld
  BY <1>b DEF GrowOld, host
<1>c. ASSUME NEW t \in Tasks, Begin(t) PROVE TypeOK'
  BY <1>c DEF Begin, FirstStep, host
<1>d. CASE SkipClean \/ SkipUpdate \/ SkipUpgrade \/ UnsupportedUpgrade \/ NothingToDo \/ SkipRefresh
  BY <1>d DEF SkipClean, SkipUpdate, SkipUpgrade, UnsupportedUpgrade, NothingToDo, SkipRefresh, Goto, host
<1>e. CASE Clean
  BY <1>e DEF Clean, Goto, keepLists
<1>f. CASE Update
  <2>1. lists' = Offered /\ listed' = TRUE /\ old' \in BOOLEAN
    BY <1>f DEF Update, CheckForUpdates, SetLists
  <2>2. changed' \in BOOLEAN
    BY <1>f DEF Update
  <2> QED BY <1>f, <2>1, <2>2, OfferedType DEF Update, Goto, keepPackages
<1>g. CASE Refresh
  <2>1. lists' = Offered /\ listed' = TRUE /\ old' \in BOOLEAN
    BY <1>g DEF Refresh, CheckForUpdates, SetLists
  <2> QED BY <1>g, <2>1, OfferedType DEF Refresh, Goto, keepPackages
<1>h. CASE UpgradeAll
  BY <1>h, NewestType DEF UpgradeAll, Install, Goto, keepLists
<1>i. CASE InstallPackages
  BY <1>i, NewestType DEF InstallPackages, Install, Goto, keepLists
<1>j. CASE RemovePackages
  BY <1>j DEF RemovePackages, Goto, keepLists, Version
<1>k. CASE SetSources
  <2>1. task.kind = "repo"
    BY <1>k, TaskType DEF SetSources, Goto, AptTask, RepoTask
  <2>2. task \in RepoTask
    BY <2>1, TaskType DEF AptTask, RepoTask
  <2>3. sources' \in SUBSET Repo
    BY <1>k, <2>2 DEF SetSources, NewSources, RepoTask
  <2>4. changed' \in BOOLEAN
    BY <1>k DEF SetSources
  <2> QED BY <1>k, <2>1, <2>3, <2>4 DEF SetSources, Goto, keepLists, keepPackages
<1>l. CASE Fail
  BY <1>l DEF Fail, Goto, host
<1>m. CASE UpdateHalfway
  <2>1. PICK got \in SUBSET sources :
          /\ lists' = [p \in Package |-> IF Origin[p] \in got THEN published[p] ELSE lists[p]]
          /\ listed' = TRUE /\ old' \in BOOLEAN
    BY <1>m DEF UpdateHalfway, CheckForUpdatesFails, SetLists
  <2>2. /\ lists' \in [Package -> Version]
        /\ \A p \in Package : lists'[p] <= published[p]
    BY <2>1 DEF Version
  <2>3. pc' = "failed" /\ UNCHANGED <<published, task, sources, changed, installed, archives>>
    BY <1>m DEF UpdateHalfway, Goto, keepPackages
  <2> QED BY <2>1, <2>2, <2>3
<1>n. CASE InstallHalfway
  <2>1. PICK ps : Install(ps)
    BY <1>n DEF InstallHalfway
  <2>2. pc' = "failed" /\ UNCHANGED <<published, task, sources, changed, lists, listed, old>>
    BY <1>n DEF InstallHalfway, Goto, keepLists
  <2> QED BY <2>1, <2>2, NewestType DEF Install
<1>o. CASE RemoveHalfway
  BY <1>o DEF RemoveHalfway, Goto, keepLists, Version
<1>p. CASE SetSourcesHalfway
  <2>1. task.kind = "repo"
    BY <1>p, TaskType DEF SetSourcesHalfway, Goto, AptTask, RepoTask
  <2>2. task \in RepoTask
    BY <2>1, TaskType DEF AptTask, RepoTask
  <2>3. sources' \in SUBSET Repo
    BY <1>p, <2>2 DEF SetSourcesHalfway, NewSources, RepoTask
  <2>4. changed' \in BOOLEAN
    BY <1>p DEF SetSourcesHalfway
  <2> QED BY <1>p, <2>3, <2>4 DEF SetSourcesHalfway, Goto, keepLists, keepPackages
<1>q. CASE UNCHANGED vars
  BY <1>q DEF vars
<1> QED
  BY <1>a, <1>b, <1>c, <1>d, <1>e, <1>f, <1>g, <1>h, <1>i, <1>j, <1>k, <1>l, <1>m, <1>n, <1>o, <1>p, <1>q
  DEF Next

\* Nothing is ever known or installed that was not published, whatever fails half way.
THEOREM Types == Spec => []TypeOK
<1>1. Init => TypeOK
  BY InitType
<1>2. TypeOK /\ [Next]_vars => TypeOK'
  BY NextType
<1> QED BY <1>1, <1>2, PTL DEF Spec

-----------------------------------------------------------------------------
(* A task that says it changed nothing                                     *)

\* At every point of a task that goes well, changed is the truth about the host so far; a
\* task begins with nothing changed.
UnchangedSoFar ==
  /\ pc # "failed" /\ ~changed => host = start
  /\ pc = "repo" => ~changed

\* The lists that Update and Refresh fetch are other than before only if CacheUpdated.
LEMMA SameLists ==
  ASSUME CheckForUpdates, ~CacheUpdated, listed \in BOOLEAN
  PROVE  lists' = lists /\ listed' = listed
BY DEF CheckForUpdates, SetLists, CacheUpdated

\* Every step keeps it.
LEMMA NextUnchanged == TypeOK /\ UnchangedSoFar /\ [Next]_vars => UnchangedSoFar'
<1> SUFFICES ASSUME TypeOK, UnchangedSoFar, [Next]_vars
             PROVE  /\ pc' # "failed" /\ ~changed' => host' = start'
                    /\ pc' = "repo" => ~changed'
  BY DEF UnchangedSoFar
<1> DEFINE Kept == /\ pc' # "failed" /\ ~changed' => host' = start'
                   /\ pc' = "repo" => ~changed'
<1> USE DEF UnchangedSoFar
<1>a. ASSUME NEW p \in Package, Publish(p) PROVE Kept
  BY <1>a DEF Publish
<1>b. CASE GrowOld
  BY <1>b DEF GrowOld
<1>c. ASSUME NEW t \in Tasks, Begin(t) PROVE Kept
  BY <1>c DEF Begin
<1>d. CASE SkipClean \/ SkipUpdate \/ SkipUpgrade \/ NothingToDo \/ SkipRefresh
  BY <1>d DEF SkipClean, SkipUpdate, SkipUpgrade, NothingToDo, SkipRefresh, Goto
<1>e. CASE Update
  <2> SUFFICES ASSUME ~changed' PROVE host' = start'
    BY <1>e DEF Update, Goto
  <2>1. ~changed /\ ~CacheUpdated
    BY <1>e DEF Update
  <2>2. lists' = lists /\ listed' = listed
    BY <1>e, <2>1, SameLists DEF Update, TypeOK
  <2> QED BY <1>e, <2>1, <2>2 DEF Update, Goto, keepPackages, host
<1>f. CASE SetSources
  <2> SUFFICES ASSUME ~changed' PROVE host' = start'
    BY <1>f DEF SetSources, Goto
  <2>1. pc = "repo" /\ ~AddsRepository(task) /\ ~RemovesRepository(task)
    BY <1>f DEF SetSources, Goto
  <2>2. sources' = sources
    BY <1>f, <2>1 DEF SetSources, NewSources, AddsRepository, RemovesRepository
  <2>3. ~changed
    BY <2>1
  <2> QED BY <1>f, <2>1, <2>2, <2>3 DEF SetSources, Goto, keepLists, keepPackages, host
<1>g. CASE Clean \/ UpgradeAll \/ InstallPackages \/ RemovePackages \/ Refresh
  BY <1>g DEF Clean, UpgradeAll, InstallPackages, RemovePackages, Refresh, Goto
<1>h. CASE UnsupportedUpgrade \/ Fail \/ UpdateHalfway \/ InstallHalfway \/ RemoveHalfway \/ SetSourcesHalfway
  BY <1>h DEF UnsupportedUpgrade, Fail, UpdateHalfway, InstallHalfway, RemoveHalfway, SetSourcesHalfway, Goto
<1>i. CASE UNCHANGED vars
  BY <1>i DEF vars, host
<1> QED BY <1>a, <1>b, <1>c, <1>d, <1>e, <1>f, <1>g, <1>h, <1>i DEF Next
\* A task that ends well without Changed has changed nothing.
THEOREM UnchangedHolds == Spec => []UnchangedIsTrue
<1>1. Init => UnchangedSoFar
  BY DEF Init, UnchangedSoFar
<1>2. TypeOK /\ UnchangedSoFar /\ [Next]_vars => UnchangedSoFar'
  BY NextUnchanged
<1>3. UnchangedSoFar => UnchangedIsTrue
  BY DEF UnchangedSoFar, UnchangedIsTrue
<1> QED BY <1>1, <1>2, <1>3, Types, PTL DEF Spec

-----------------------------------------------------------------------------
(* What a task that ends well has reached                                  *)

\* What is reached on the way: the lists once update is done, the versions once upgrade is,
\* the repository before the lists are fetched.
UpgradeReached == /\ Upgrades(task) => \A p \in Installed : installed[p] >= lists[p]
                  /\ task.upgrade # "no"
Way ==
  /\ since \in [Package -> Version] /\ \A p \in Package : since[p] <= published[p]
  /\ pc \in {"upgrade", "name"} /\ task.update => Known
  /\ pc = "name" => UpgradeReached
  /\ pc = "refresh" => (task.repo \in sources <=> task.state # "absent")
  /\ Reached

\* Fetching the lists makes them known.
LEMMA FetchKnows ==
  ASSUME TypeOK, Way, CheckForUpdates, UNCHANGED <<sources, since>>
  PROVE  Known'
<1> USE DEF TypeOK
<1>1. \A p \in Package : lists'[p] = (IF Origin[p] \in sources THEN published[p] ELSE 0)
  BY DEF CheckForUpdates, SetLists, Offered
<1>2. \A p \in Package : since[p] \in Nat /\ published[p] \in Nat /\ published[p] >= since[p]
  BY PackagesAssumption DEF PackagesAssumption, TypeOK, Way, Version
<1> QED BY <1>1, <1>2 DEF Known

\* After an installation its packages, and those that were there, are installed.
LEMMA InstallReaches ==
  ASSUME TypeOK, NEW ps, Install(ps)
  PROVE  /\ \A p \in Package : installed'[p] \in Nat /\ installed'[p] >= installed[p]
         /\ \A p \in Package : p \in ps => installed'[p] >= lists[p]
         /\ \A p \in Package : p \notin ps => installed'[p] = installed[p]
<1>1. Version \subseteq Nat
  BY PackagesAssumption DEF PackagesAssumption, Version
<1> SUFFICES ASSUME NEW p \in Package
             PROVE  /\ installed'[p] \in Nat /\ installed'[p] >= installed[p]
                    /\ p \in ps => installed'[p] >= lists[p]
                    /\ p \notin ps => installed'[p] = installed[p]
  OBVIOUS
<1>2. lists[p] \in Nat /\ installed[p] \in Nat
  BY <1>1 DEF TypeOK
<1>3. installed'[p] = IF p \in ps /\ lists[p] > installed[p] THEN lists[p] ELSE installed[p]
  BY DEF Install, Newest
<1> QED BY <1>2, <1>3

\* Every step keeps it.
LEMMA NextWay == TypeOK /\ Way /\ [Next]_vars => Way'
<1> SUFFICES ASSUME TypeOK, Way, [Next]_vars PROVE Way'
  OBVIOUS
<1>a. ASSUME NEW p \in Package, Publish(p) PROVE Way'
  <2>1. \A q \in Package : since[q] <= published'[q]
    <3> SUFFICES ASSUME NEW q \in Package PROVE since[q] <= published'[q]
      OBVIOUS
    <3>1. since[q] \in Nat /\ published[q] \in Nat /\ since[q] <= published[q]
      BY PackagesAssumption DEF PackagesAssumption, TypeOK, Way, Version
    <3>2. published'[q] = published[q] \/ published'[q] = published[q] + 1
      BY <1>a DEF Publish, TypeOK
    <3> QED BY <3>1, <3>2
  <2>2. UNCHANGED <<host, task, pc, since>>
    BY <1>a DEF Publish
  <2> QED BY <2>1, <2>2 DEF Way, host, Known, UpgradeReached, Installed, Reached, AptReached, RepoReached
<1>b. CASE GrowOld
  BY <1>b DEF GrowOld, Way, host, Known, UpgradeReached, Installed, Reached, AptReached, RepoReached
<1>c. ASSUME NEW t \in Tasks, Begin(t) PROVE Way'
  <2>1. /\ since' = published /\ published' = published
        /\ pc' = "clean" \/ pc' = "repo"
    BY <1>c DEF Begin, FirstStep
  <2>2. \A p \in Package : published[p] \in Nat
    BY PackagesAssumption DEF PackagesAssumption, TypeOK, Version
  <2> QED BY <2>1, <2>2 DEF Way, Reached, TypeOK
<1>d. CASE SkipClean
  BY <1>d DEF SkipClean, Goto, Way, Reached
<1>e. CASE Clean
  <2>1. pc' = "update" => Way'
    BY <1>e DEF Clean, Goto, Way, Reached
  <2>2. OnlyCleans(task) => AptReached'
    BY <1>e DEF Clean, Goto, OnlyCleans, AptReached, Upgrades, Installed
  <2>3. task.kind = "apt"
    BY <1>e DEF Clean, Goto, TypeOK
  <2> QED BY <1>e, <2>1, <2>2, <2>3 DEF Clean, Goto, Way, Reached
<1>f. CASE SkipUpdate
  BY <1>f DEF SkipUpdate, Goto, NeedsUpdate, Way, Reached
<1>g. CASE Update
  <2>1. Known'
    BY <1>g, FetchKnows DEF Update, Goto
  <2> QED BY <1>g, <2>1 DEF Update, Goto, Way, Reached
<1>h. CASE SkipUpgrade
  <2>1. UNCHANGED <<task, since, sources, lists, installed>> /\ ~Upgrades(task)
    BY <1>h DEF SkipUpgrade, Goto, host, Upgrades
  <2> QED BY <1>h, <2>1 DEF SkipUpgrade, Goto, Way, Reached, Known, UpgradeReached, Upgrades
<1>i. CASE UpgradeAll
  <2>1. UNCHANGED <<published, task, since, sources, lists>> /\ pc = "upgrade" /\ pc' = "name"
    BY <1>i DEF UpgradeAll, Goto, keepLists
  <2>2. UpgradeReached'
    <3>1. Install(Installed) /\ Upgrades(task)
      BY <1>i DEF UpgradeAll
    <3> SUFFICES ASSUME NEW p \in Package, installed'[p] > 0 PROVE installed'[p] >= lists'[p]
      BY <2>1, <3>1 DEF UpgradeReached, Installed, Upgrades
    <3>2. installed[p] > 0 => installed'[p] >= lists[p]
      BY <3>1, InstallReaches DEF Installed
    <3>3. ~(installed[p] > 0) => installed'[p] = installed[p]
      BY <3>1, InstallReaches DEF Installed
    <3> QED BY <2>1, <3>2, <3>3
  <2> QED BY <2>1, <2>2 DEF Way, Reached, Known
<1>j. CASE NothingToDo
  <2>1. UNCHANGED <<published, task, since, sources, lists, installed>> /\ pc = "name" /\ pc' = "ok"
    BY <1>j DEF NothingToDo, Goto, host
  <2>2. task.kind = "apt"
    BY <2>1 DEF TypeOK
  <2>3. AptReached
    BY <1>j, <2>1 DEF NothingToDo, Present, ToInstall, Installed, AptReached, Way, UpgradeReached
  <2>4. AptReached'
    BY <2>1, <2>3 DEF AptReached, Upgrades, Installed, OnlyCleans, Known
  <2> QED BY <2>1, <2>2, <2>4 DEF Way, Reached
<1>k. CASE InstallPackages
  <2>1. /\ UNCHANGED <<published, task, since, sources, lists>> /\ pc = "name" /\ pc' = "ok"
        /\ task.state # "absent" /\ Install(ToInstall(task))
        /\ \A p \in ToInstall(task) : lists[p] > 0 \/ installed[p] > 0
    BY <1>k DEF InstallPackages, Goto, keepLists
  <2>2. task.kind = "apt" /\ task.name \subseteq Package
    BY <2>1, TaskType DEF TypeOK, AptTask, RepoTask
  <2>3. \A p \in Package : lists[p] \in Nat /\ installed[p] \in Nat
    BY PackagesAssumption DEF PackagesAssumption, TypeOK, Version
  <2>4. \A p \in task.name : installed'[p] > 0
    <3> SUFFICES ASSUME NEW p \in task.name PROVE installed'[p] > 0
      OBVIOUS
    <3>1. CASE p \in ToInstall(task)
      BY <2>1, <2>2, <2>3, <3>1, InstallReaches
    <3>2. CASE p \notin ToInstall(task)
      <4>1. installed[p] > 0
        BY <3>2 DEF ToInstall, Installed
      <4> QED BY <2>1, <2>2, <2>3, <4>1, InstallReaches
    <3> QED BY <3>1, <3>2
  <2>5. task.state = "latest" => \A p \in task.name : installed'[p] >= lists[p]
    BY <2>1, <2>2, InstallReaches DEF ToInstall, Present
  <2>6. Upgrades(task) => \A p \in Package : installed'[p] > 0 => installed'[p] >= lists[p]
    <3> SUFFICES ASSUME Upgrades(task), NEW p \in Package, installed'[p] > 0
                 PROVE  installed'[p] >= lists[p]
      OBVIOUS
    <3>1. CASE p \in ToInstall(task)
      BY <2>1, <3>1, InstallReaches
    <3>2. CASE p \notin ToInstall(task)
      BY <2>1, <3>2, InstallReaches DEF Way, UpgradeReached, Installed
    <3> QED BY <3>1, <3>2
  <2>7. AptReached'
    BY <2>1, <2>4, <2>5, <2>6 DEF Way, UpgradeReached, AptReached, Installed, Upgrades, Known, OnlyCleans
  <2> QED BY <2>1, <2>2, <2>7 DEF Way, Reached
<1>l. CASE RemovePackages
  <2>1. /\ UNCHANGED <<published, task, since, sources, lists>> /\ pc = "name" /\ pc' = "ok"
        /\ task.state = "absent"
        /\ installed' = [p \in Package |-> IF p \in task.name THEN 0 ELSE installed[p]]
    BY <1>l DEF RemovePackages, Goto, keepLists
  <2>2. task.kind = "apt" /\ task.name \subseteq Package
    BY <2>1, TaskType DEF TypeOK, AptTask, RepoTask
  <2>3. /\ \A p \in task.name : installed'[p] = 0
        /\ \A p \in Package : installed'[p] > 0 => installed'[p] = installed[p]
    BY <2>1, <2>2
  <2>4. Upgrades(task) => \A p \in Package : installed'[p] > 0 => installed'[p] >= lists[p]
    BY <2>1, <2>3 DEF Way, UpgradeReached, Installed
  <2>5. task.update => Known'
    BY <2>1 DEF Way, Known
  <2>6. AptReached'
    BY <2>1, <2>3, <2>4, <2>5 DEF Way, UpgradeReached, AptReached, Installed, Upgrades
  <2> QED BY <2>1, <2>2, <2>6 DEF Way, Reached
<1>m. CASE SetSources
  <2>1. /\ UNCHANGED <<published, task, since>> /\ pc' = "refresh"
        /\ sources' = IF task.state = "absent" THEN sources \ {task.repo} ELSE sources \cup {task.repo}
    BY <1>m DEF SetSources, Goto, NewSources
  <2> QED BY <2>1 DEF Way, Reached
<1>n. CASE Refresh
  <2>1. UNCHANGED <<published, task, since, sources>> /\ pc = "refresh" /\ pc' = "ok"
    BY <1>n DEF Refresh, Goto
  <2>2. Known'
    BY <1>n, <2>1, FetchKnows DEF Refresh
  <2>3. task.kind # "apt"
    BY <2>1 DEF TypeOK
  <2> QED BY <2>1, <2>2, <2>3 DEF Way, Reached, RepoReached
<1>o. CASE SkipRefresh
  <2>1. UNCHANGED <<published, task, since, sources>> /\ pc = "refresh" /\ pc' = "ok" /\ ~task.update
    BY <1>o DEF SkipRefresh, Goto, Refreshes, host
  <2>2. task.kind # "apt"
    BY <2>1 DEF TypeOK
  <2> QED BY <2>1, <2>2 DEF Way, Reached, RepoReached
<1>p. CASE UnsupportedUpgrade \/ Fail \/ UpdateHalfway \/ InstallHalfway \/ RemoveHalfway \/ SetSourcesHalfway
  <2>1. UNCHANGED <<published, since>> /\ pc' = "failed"
    BY <1>p DEF UnsupportedUpgrade, Fail, UpdateHalfway, InstallHalfway, RemoveHalfway, SetSourcesHalfway, Goto
  <2> QED BY <2>1 DEF Way, Reached
<1>z. CASE UNCHANGED vars
  BY <1>z DEF vars, Way, Known, UpgradeReached, Installed, Reached, AptReached, RepoReached
<1> QED
  BY <1>a, <1>b, <1>c, <1>d, <1>e, <1>f, <1>g, <1>h, <1>i, <1>j, <1>k, <1>l, <1>m, <1>n, <1>o, <1>p, <1>z
  DEF Next

\* A task that ends well has done all that it was asked for, whatever an earlier one that
\* failed left half done.
THEOREM ReachedHolds == Spec => []Reached
<1>1. Init => Way
  BY InitType DEF Init, Way, Reached, TypeOK
<1>2. TypeOK /\ Way /\ [Next]_vars => Way'
  BY NextWay
<1>3. Way => Reached
  BY DEF Way
<1> QED BY <1>1, <1>2, <1>3, Types, PTL DEF Spec

=============================================================================
