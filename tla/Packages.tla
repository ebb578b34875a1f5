------------------------------ MODULE Packages ------------------------------
(***************************************************************************)
(* The modules apt and apt_repository on the packages of a host.  Tasks    *)
(* are applied one after the other, in any order, while the repositories   *)
(* publish new versions and the lists of packages grow old; any call may   *)
(* fail or be killed half way.  What apt itself does is external: of a     *)
(* package's dependencies and configuration nothing is kept.               *)
(***************************************************************************)
EXTENDS Naturals

CONSTANTS
  Package,
  Repo,
  Origin,      \* the repository that publishes each package
  Tasks,
  MaxVersion   \* bounds what is published

\* deb is not looked at, but for Clean; valid is cache_valid_time.
AptTask == [kind : {"apt"}, name : SUBSET Package, state : {"", "present", "latest", "absent"},
            upgrade : {"", "yes", "safe", "dist", "full", "no"}, clean : BOOLEAN, deb : BOOLEAN,
            update : BOOLEAN, valid : {"none", "zero", "long"}]
RepoTask == [kind : {"repo"}, repo : Repo, state : {"", "present", "absent"}, update : BOOLEAN]

ASSUME PackagesAssumption ==
  /\ Origin \in [Package -> Repo] /\ MaxVersion \in Nat \ {0}
  /\ Tasks \subseteq AptTask \cup RepoTask /\ Tasks # {}

VARIABLES
  published,  \* the newest version of each package
  sources,    \* the repositories in /etc/apt
  lists,      \* the version of each package that /var/lib/apt/lists knows, or 0
  listed,     \* lists exists
  old,        \* lists has not changed for longer than a cache_valid_time
  installed,  \* the version of each package that is installed, or 0
  archives,   \* there are downloaded packages
  task, pc,   \* pc: "idle", "clean", "update", "upgrade", "name", "repo", "refresh", "ok", "failed"
  changed,    \* the result's Changed
  start,      \* history: the host when the task began
  since       \* history: what was published then

host == <<sources, lists, listed, installed, archives>>
vars == <<published, sources, lists, listed, old, installed, archives, task, pc, changed, start, since>>

Version == 0..MaxVersion
Offered == [p \in Package |-> IF Origin[p] \in sources THEN published[p] ELSE 0]

Init ==
  /\ published = [p \in Package |-> 1]
  /\ sources \in SUBSET Repo /\ listed \in BOOLEAN
  /\ lists = IF listed THEN Offered ELSE [p \in Package |-> 0]
  /\ old = FALSE /\ installed = [p \in Package |-> 0] /\ archives = FALSE
  /\ task \in Tasks /\ pc = "idle" /\ changed = FALSE /\ start = host /\ since = published

-----------------------------------------------------------------------------
(* The world                                                               *)

Publish(p) ==
  /\ published[p] < MaxVersion
  /\ published' = [published EXCEPT ![p] = @ + 1]
  /\ UNCHANGED <<host, old, task, pc, changed, start, since>>

GrowOld ==
  /\ listed /\ ~old /\ old' = TRUE
  /\ UNCHANGED <<published, host, task, pc, changed, start, since>>

-----------------------------------------------------------------------------
(* apt's commands, on the host                                             *)

\* The time of lists changes with its content only.
SetLists(new) ==
  /\ lists' = new /\ listed' = TRUE
  /\ old' = (old /\ listed /\ new = lists)
CheckForUpdates == SetLists(Offered)
\* Cut off, it has fetched the lists of some repositories.
CheckForUpdatesFails ==
  \E got \in SUBSET sources :
    SetLists([p \in Package |-> IF Origin[p] \in got THEN published[p] ELSE lists[p]])

\* The packages of ps get the version that lists knows, if it is newer.
Newest(ps) == [p \in Package |-> IF p \in ps /\ lists[p] > installed[p] THEN lists[p] ELSE installed[p]]
Install(ps) == installed' = Newest(ps) /\ archives' = TRUE
Installed == {p \in Package : installed[p] > 0}

-----------------------------------------------------------------------------
(* apt                                                                     *)

Goto(from, to) == pc = from /\ pc' = to /\ UNCHANGED <<published, task, start, since>>
keepLists == UNCHANGED <<lists, listed, old>>
keepPackages == UNCHANGED <<installed, archives>>

\* The registry has an adapter for each kind of task.
FirstStepBug(t) == "clean"                \* the adapter of apt for both
FirstStep(t) == IF t.kind = "apt" THEN "clean" ELSE "repo"
Begin(t) ==
  /\ pc \in {"idle", "ok", "failed"}
  /\ task' = t /\ pc' = FirstStep(t)
  /\ changed' = FALSE /\ start' = host /\ since' = published
  /\ UNCHANGED <<published, host, old>>

\* A task that cleans and neither upgrades nor names a package does nothing else.
OnlyCleans(t) == t.clean /\ t.name = {} /\ t.upgrade \in {"", "no"} /\ ~t.deb

SkipClean ==
  /\ Goto("clean", "update") /\ ~task.clean
  /\ UNCHANGED <<host, old, changed>>

Clean ==
  /\ Goto("clean", IF OnlyCleans(task) THEN "ok" ELSE "update") /\ task.clean
  /\ archives' = FALSE /\ changed' = TRUE
  /\ UNCHANGED <<sources, installed>> /\ keepLists

\* update_cache wins over a cache that is still valid.
NeedsUpdate(t) ==
  \/ t.update
  \/ t.valid # "none" /\ (~listed \/ t.valid = "zero" \/ old)

SkipUpdate ==
  /\ Goto("update", "upgrade") /\ ~NeedsUpdate(task)
  /\ UNCHANGED <<host, old, changed>>

\* handleUpdate tells a change from the time of lists.
CacheUpdatedBug == ~listed                \* only a new directory counts
CacheUpdated == ~listed \/ Offered # lists
Update ==
  /\ Goto("update", "upgrade") /\ NeedsUpdate(task)
  /\ CheckForUpdates /\ changed' = (changed \/ CacheUpdated)
  /\ UNCHANGED sources /\ keepPackages

SkipUpgrade ==
  /\ Goto("upgrade", "name") /\ task.upgrade = ""
  /\ UNCHANGED <<host, old, changed>>

\* UpgradeAll or DistUpgrade.
Upgrades(t) == t.upgrade \in {"yes", "safe", "dist", "full"}
UpgradeAll ==
  /\ Goto("upgrade", "name") /\ Upgrades(task)
  /\ Install(Installed) /\ changed' = TRUE
  /\ UNCHANGED sources /\ keepLists

\* Validate accepts "no", and Apply does not.
UnsupportedUpgrade ==
  /\ Goto("upgrade", "failed") /\ task.upgrade \notin {"", "yes", "safe", "dist", "full"}
  /\ UNCHANGED <<host, old, changed>>

Present(t) == t.state \in {"", "present"}
ToInstall(t) == IF Present(t) THEN t.name \ Installed ELSE t.name

\* No package is named, or all that should be there are.
NothingToDo ==
  /\ Goto("name", "ok") /\ (task.name = {} \/ (Present(task) /\ ToInstall(task) = {}))
  /\ UNCHANGED <<host, old, changed>>

InstallPackages ==
  /\ Goto("name", "ok") /\ task.state # "absent" /\ ToInstall(task) # {}
  /\ \A p \in ToInstall(task) : lists[p] > 0 \/ installed[p] > 0
  /\ Install(ToInstall(task)) /\ changed' = TRUE
  /\ UNCHANGED sources /\ keepLists

RemovePackages ==
  /\ Goto("name", "ok") /\ task.state = "absent" /\ task.name # {}
  /\ installed' = [p \in Package |-> IF p \in task.name THEN 0 ELSE installed[p]]
  /\ changed' = TRUE
  /\ UNCHANGED <<sources, archives>> /\ keepLists

-----------------------------------------------------------------------------
(* apt_repository                                                          *)

AddsRepository(t) == t.state # "absent" /\ t.repo \notin sources
RemovesRepository(t) == t.state = "absent" /\ t.repo \in sources
NewSources == IF task.state = "absent" THEN sources \ {task.repo} ELSE sources \cup {task.repo}

SetSources ==
  /\ Goto("repo", "refresh")
  /\ sources' = NewSources /\ changed' = (AddsRepository(task) \/ RemovesRepository(task))
  /\ keepLists /\ keepPackages

\* The lists are fetched even if the repository was there already: an earlier run may have
\* been cut off between the two.
RefreshesBug(t) == t.update /\ changed
Refreshes(t) == t.update

Refresh ==
  /\ Goto("refresh", "ok") /\ Refreshes(task)
  /\ CheckForUpdates /\ changed' = TRUE
  /\ UNCHANGED sources /\ keepPackages

SkipRefresh ==
  /\ Goto("refresh", "ok") /\ ~Refreshes(task)
  /\ UNCHANGED <<host, old, changed>>

-----------------------------------------------------------------------------
(* Failures                                                                *)

\* A call fails, or the executer is killed, before the call has done anything.
Fail ==
  /\ Goto(pc, "failed") /\ pc \in {"clean", "update", "upgrade", "name", "repo", "refresh"}
  /\ UNCHANGED <<host, old, changed>>

UpdateHalfway ==
  /\ \/ Goto("update", "failed") /\ NeedsUpdate(task)
     \/ Goto("refresh", "failed") /\ Refreshes(task)
  /\ CheckForUpdatesFails
  /\ UNCHANGED <<sources, changed>> /\ keepPackages

InstallHalfway ==
  /\ \/ Goto("upgrade", "failed") /\ Upgrades(task) /\ \E ps \in SUBSET Installed : Install(ps)
     \/ /\ Goto("name", "failed") /\ task.state # "absent"
        /\ \E ps \in SUBSET {p \in ToInstall(task) : lists[p] > 0} : Install(ps)
  /\ UNCHANGED <<sources, changed>> /\ keepLists

RemoveHalfway ==
  /\ Goto("name", "failed") /\ task.kind = "apt" /\ task.state = "absent"
  /\ \E ps \in SUBSET task.name : installed' = [p \in Package |-> IF p \in ps THEN 0 ELSE installed[p]]
  /\ UNCHANGED <<sources, archives, changed>> /\ keepLists

SetSourcesHalfway ==
  /\ Goto("repo", "failed") /\ sources' = NewSources
  /\ changed' = (AddsRepository(task) \/ RemovesRepository(task))
  /\ keepLists /\ keepPackages

Next ==
  \/ \E p \in Package : Publish(p)
  \/ GrowOld
  \/ \E t \in Tasks : Begin(t)
  \/ SkipClean \/ Clean \/ SkipUpdate \/ Update \/ SkipUpgrade \/ UpgradeAll \/ UnsupportedUpgrade
  \/ NothingToDo \/ InstallPackages \/ RemovePackages
  \/ SetSources \/ Refresh \/ SkipRefresh
  \/ Fail \/ UpdateHalfway \/ InstallHalfway \/ RemoveHalfway \/ SetSourcesHalfway

Spec == Init /\ [][Next]_vars

-----------------------------------------------------------------------------
(* Properties                                                              *)

\* Types, and that nothing is known or installed that was not published, nor known without
\* the directory of the lists.
TypeOK ==
  /\ published \in [Package -> Version] /\ lists \in [Package -> Version]
  /\ installed \in [Package -> Version]
  /\ \A p \in Package : /\ lists[p] <= published[p] /\ installed[p] <= published[p]
                        /\ lists[p] > 0 => listed
  /\ sources \in SUBSET Repo
  /\ listed \in BOOLEAN /\ old \in BOOLEAN /\ archives \in BOOLEAN /\ changed \in BOOLEAN
  /\ task \in Tasks
  /\ pc \in {"idle", "ok", "failed"} \cup IF task.kind = "apt" THEN {"clean", "update", "upgrade", "name"}
                                                              ELSE {"repo", "refresh"}

\* A task that ends well without Changed has changed nothing.
UnchangedIsTrue == pc = "ok" /\ ~changed => host = start

\* lists has what the sources offered when the task began, or something newer of it.
Known == \A p \in Package : IF Origin[p] \in sources THEN lists[p] >= since[p] ELSE lists[p] = 0

\* A task that ends well has done all that it was asked for, whatever was there before it,
\* half done or not: its packages are there, the newest that lists knows, or gone; its
\* repository is there or gone; and with update_cache lists knows what the sources offer.
\* upgrade: no, which Validate accepts, ends well only where Clean has taken it for no upgrade.
AptReached ==
  /\ \A p \in task.name : CASE task.state = "absent" -> installed[p] = 0
                            [] task.state = "latest" -> installed[p] > 0 /\ installed[p] >= lists[p]
                            [] OTHER -> installed[p] > 0
  /\ Upgrades(task) => \A p \in Installed : installed[p] >= lists[p]
  /\ task.upgrade = "no" => OnlyCleans(task)
  /\ task.update /\ ~OnlyCleans(task) => Known
RepoReached ==
  /\ task.repo \in sources <=> task.state # "absent"
  /\ task.update => Known
Reached == pc = "ok" => IF task.kind = "apt" THEN AptReached ELSE RepoReached
=============================================================================
