# Sophons in TLA+

Sophons is an implementation of part of Ansible in Go.  A *dialer* on the
operator's machine visits the hosts of an inventory over SSH, uploads an
*executer* with the inventory and an archive of the playbook's directory, and
runs it; the executer applies the plays that concern its host.  A *conformance*
runner compares what sophons and Ansible make of the same playbook in
containers.

These modules model the parts of it with state, concurrency or failure, check
them with TLC on small instances, and prove the most important properties for
every value of the constants with TLAPS.  Paths below are relative to `src/`.

## The system

| component | state | operations | hard behaviour | modelled in |
|---|---|---|---|---|
| executer: `cmd/executer/main.go`, `pkg/role/role.go`, `pkg/exec/task.go`, `pkg/variables`, `pkg/playbook` | variable maps passed by reference; task contents shared by pointer; the stack of calls | plays, vars files, roles, tasks, loops, register | aliasing, lifetime of variables, order of merges, content rendered in place, recursion | `Executer` |
| Jinja processing: `pkg/exec/util/jinja.go` | none of its own: it writes into what it is given | render, `when`, `loop` | what is rendered where, lists of one element, strict undefined variables | `Executer` |
| include_tasks, import_tasks | a nested task list | Validate, Apply | bypass `ExecuteTask`; self-inclusion | `Executer` |
| inventory: `pkg/inventory` | a tree of groups | Find, All, NodeVars | random order of Go maps, precedence, membership | `Inventory` |
| dialer: `cmd/dialer`, `pkg/dialer` | SSH and SFTP connection; a directory under `/tmp` of a host | connect, mkdir, upload, run, remove, close | two dialers on one host, lost connections, kills, each call failing | `Dialer`, which implements `Rollout` |
| conformance: `cmd/conformance` | channels, workers, containers, ports | send, start, dial, run, stop, rm, diff, collect | a pool of goroutines, resources left behind, the verdict | `Conformance`, which implements `Suite` |
| archives: `pkg/util/tar.go` | an archive; the directory it is made again in | Tar, Untar | errors that are lost in deferred calls, files that change meanwhile, what is there already | `Archive` |
| role discovery: `pkg/role` | a map of roles | DiscoverRoles | which of several files counts, the order of merges, all or nothing | `Discovery` |
| module file: `pkg/exec/file.go`, `pkg/exec/util/mode.go` | the host's files, links, modes and owners; the result's Changed | absent, directory, file, link, touch; walk, chmod, chown | a kill between two calls, links in a tree, a second run with nothing to do | `File` |
| modules copy, template, get_url, command, shell of `pkg/exec` | the host's files | Validate, Apply | truncated files, a destination that has become a directory, attributes set after the content, `creates` and `removes` | `Transfer` |
| modules apt, apt_repository of `pkg/exec` | packages, sources and lists of the host | Validate, Apply | the order of clean-up, cache, upgrade and packages; a cut between source and cache; what is reported | `Packages` |
| YAML of tasks, registry, `pkg/proto` | none | decoding | two module keys in one task | the choice of a module in `Discovery`; the rest not (pure decoding, generated code) |
| `cmd/tardiff` | none | compare | (a pure comparison) | no: an outcome in `Conformance` |
| `cmd/docgen` | none | writes `docs/` | (a developer's tool) | no |

The parts interact as follows.  The dialer takes the hosts to visit from
`Inventory.All`, and starts one executer on each, with `-n host`.  What `Dialer` uploads as one step is made
and unpacked in `Archive`, in the directory of which `Discovery` finds the roles that are
constants of `Executer`.  The executer
calls `Inventory.Find` for the groups its plays are matched with, and
`Inventory.NodeVars` for the map in its context; these are the constants
`Groups` and `InventoryVars` of `Executer`.  A role's `Apply` and the play share a
map; `include_tasks` is a module that calls back into the modules.

## The modules

**`Executer`** models one run of the executer on one node.  `heap` has the three maps
that exist at a time (the inventory's in main's context, the play's, the role's);
`PlayRef` and `RoleRef` are the maps that the contexts point to, since Go passes a
map by reference.  `contents` is the memory of the roles' task contents: a role
is discovered once, and `FromProto` keeps the pointer to its message.  `stack` is
the nest of task lists.  One action per step of the code:

| code | actions |
|---|---|
| `playbookApply`, `cmd/executer/main.go:41-95` | SkipPlay, BeginPlay, MergeVarsFile, VarsFileMissing, BeginRoles, UnknownRole, BeginTasks, EndPlay, EndPlaybook |
| `Role.Apply`, `pkg/role/role.go:126-163` | BeginRole, EndRole |
| `processAndRunTask` and `ExecuteTask`, `pkg/exec/task.go:115-232` | RenderError, WhenError, SkipTask, RunModule, ModuleError, BeginLoop, LoopError, EndLoop |
| include and import `Apply`, `pkg/exec/include_tasks.go:51-96`, `import_tasks.go:51-97` | IncludeFile, IncludeError, EndFile |

Data is reduced to what the properties tell apart: a value is a string or a list
of strings; a parameter is a literal or `{{ x }}`; a guard is empty, a comparison
or `is defined`; of a registered result the changed flag is kept.  A module other
than an include succeeds with some result or fails.  `MaxDepth` stands for the
process's stack.  `lastRun` is a history variable.

**`Inventory`** has Find and All as functions over the tree of groups, and NodeVars as a
state machine: one step per call and return of `Group.NodeVars`, whose loop over the
children (a Go map) takes them in any order.  A value is the place that it was
set in, so that the result shows who won.  Its names are its own (`InventorySpec`), since the proofs use it
beside `Dialer`.

**`Dialer`** models any number of dialers over the hosts of an inventory: main's loop
and `Execute`, one action per call that can fail and one for its failure.  The
deferred `RemoveAll` is the step `cleanup`.  A `Mkdir` that fails has made nothing, or has made the
directory and lost its answer (`MakeDirUnanswered`).  The environment may lose a
connection or kill a dialer at any time; an executer that has lost its dialer goes
on and ends by itself.  `orphans` and `applied` are history variables.

**`Rollout`** is what a dialer promises its user: it takes every host once, takes the next one
only when the executer has succeeded on the last, ends with the first failure, and ends with success
only when all are done.  `Dialer` implements it (`ImplementsRollout`): a host is current
from the connection to its closing (`Current`), connections, directories and uploads
are stutters, and the liveness of Rollout, that each dialer gets on until it ends, is Dialer's too.

**`Conformance`** models the runner's main, its channel and errCh, and the workers' two
halves of a test against docker (external): `docker run` that fails leaves a
container or none, a container that still runs cannot be removed, a port that is
in use cannot be taken.  `passed`, `stuck` and `leaked` are history variables.

**`Suite`** is what the runner promises: every playbook passes or fails once, in any order, and
then there is one verdict, which is "passed" when none has failed.  `Conformance` implements it
(`ImplementsSuite`), with the main goroutine's state as the verdict (`Verdict`); that
the verdict comes rules out that workers wait for main and main for workers.

**`Archive`** models how the playbook's directory gets to a host, over several runs: `Begin` is
`Execute` with a directory, `Pack`, `PackShort` and `PackEnds` are Tar, entry by entry, `UnpackDir`, `UnpackFile`,
`UnpackFileHalfway`, `UnpackLink` and `UnpackEnds` are Untar, and `Cleanup` is `RemoveAll` and the
next run's `Mkdir`.  An archive is the list of paths in it; `whole` says whether it can be read to its end, which Tar does not
know, since it ignores the errors of its deferred `Close`.  The playbook's directory may be
named (`Place`), ".", where it is unpacked over the run's own files, or "..", where it is
unpacked into `/tmp`.  `before` is a history variable.

**`Discovery`** models `DiscoverRoles` on a tree of files: of every entry of `roles/`, `defaults`, `vars` and
`tasks` in turn (`place`), of each of them `main.yml`, `main.yaml` and `main` in turn (`pc`), the
walk under a `main` directory, and the end of it all by the first error.  What is under `main` is a set of paths with
contents: a path has the place of each of its names in the order of names, and `NextFile` takes the first
(`Before`) of those that are left (`rest`).  A file of variables is the
map that it decodes to, a file of tasks the keys of each of its tasks; `Decoded` is `tasksUnmarshalYAML`, with
any of two known keys.

**`File`** models the file module on a host's file system: tasks in any order, one action per
call that changes something, and a failure or a kill between any two of them.  Every
task of the constants passes `Valid` (Validate); `Begin` is Apply's entry and `InState` its
switch over the states.

| code, `pkg/exec/file.go` | actions |
|---|---|
| absent, 205-215 | Absent, AbsentHalfway |
| directory, 217-282 | Directory, DirectoryHalfway, then Skip, Lchown, Chmod and Chown for each path of the walk |
| file, 284-309, and touch, 361-387 | Regular, Touch |
| link, 311-359 | Symlink, KeepLink, Unlink, Relink |
| the tail, 393-447 | Skip, Chmod, Chown, Finish |

`NewModeFromSpec` is the fold of a symbolic mode's clauses over the permission bits.  A path is a
value with the set of paths `Above` it; an entry has a kind, a mode, an owner and what a link leads to.
`start` and `again` are history variables.

**`Transfer`** models copy, template, get_url, and command and shell with a command that writes a
file, on shared paths.  What they have in common is that
a file is created or truncated (`Open`), written (`Write`), and given its mode and owner
(`SetMode`, `SetOwner`): between any two of these the task may be cut off, and content is then
`Partial`.  `Into`, `DirDest` and `UrlDest` are the three rules for where content goes when the
destination is a directory; `CopyDir`, `MakeNext` and `CopyNext` are the walk over a source directory with
directories in it; `ShouldApply` is the rule for `creates` and `removes`.  `start` and `again` are history variables.

**`Packages`** models apt and apt_repository on a host with packages, sources, the lists of what the
sources offer, and downloaded archives.  Repositories publish new versions at any time (`Publish`), and
the lists grow old (`GrowOld`).

| code | actions |
|---|---|
| `Apt.Apply`, `pkg/exec/apt.go:157-297` | Begin, SkipClean, Clean, SkipUpdate, Update, SkipUpgrade, UpgradeAll, UnsupportedUpgrade, NothingToDo, InstallPackages, RemovePackages |
| `AptRepository.Apply`, `pkg/exec/apt_repository.go:65-118` | Begin, SetSources, Refresh, SkipRefresh |
| a call that is cut off in the middle | UpdateHalfway, InstallHalfway, RemoveHalfway, SetSourcesHalfway |

`apt-get` is external and modelled from how the code uses it: an update sets the lists to what
is published, an installation takes the newest version that the lists know.  `start` and `since` are history
variables.

`MC*` modules give the constants small values; nothing of the specifications is
replaced.  Operators whose names end in `Bug` or `Retry`, next to the definition
they vary, are wrong versions of it: each property fails when one of them takes
the definition's place, which shows that the run can tell.  Those that end in `Commented` are
what a comment in the source says, where the code does something else.

## The runs

| run | instance | shows |
|---|---|---|
| `executer` | playbooks of one or two of eleven plays, three roles, two task files, five variables; no role twice | InventoryIntact, NoCarryOver, RoleVarsReachLater, RenderedInScope, RoleConfined, RolePrecedence, Terminates hold |
| `role_reuse` | the same with roles that are applied twice | RenderedInScope fails: see below |
| `inventory` | all trees of three groups (two of one name), memberships, and definitions of two variables | FindMatchesAll, HostVarsWin, OnlyFromItsGroups, NearestWins hold |
| `parent_vars` | the same | EveryGroupReaches fails |
| `dialer` | two dialers, two hosts, two names | DirExclusive, OwnDirIntact, ExecuterHasItsFiles, NoLeftover hold, and Rollout is implemented |
| `conformance` | two workers, three playbooks | OwnContainerAnswers, PortTakenByOwn, NoContainerForgotten, DiffOfBoth hold, and Suite is implemented |
| `archive` | any number of runs of four directories over seven paths, with a role, a link, and files named as the run's own; three places; as root and not | Arrived holds |
| `discovery` | 4688 shapes of a role and three of an entry beside it, two variables, three keys | Discovered holds |
| `file` | fifteen tasks on a directory with a file and a link in it, and a file outside; two owners | UnchangedIsTrue, Confined, Reached, Settles hold |
| `transfer` | fourteen tasks on eight paths, two contents, a mode and an owner | Installed, Repeatable hold |
| `template_attributes` | the same | TemplateAttributes fails |
| `packages` | thirteen tasks, two packages of two repositories, two versions of each | UnchangedIsTrue, Reached hold |

Each run that passes checks its module's TypeOK too.

**Bounds.**  In `executer` the plays were chosen so that each action fires, with a loop in
a role, an include within a loop, an include that includes itself, a role before and
after one that sets the same variable, and a play after each of them; two plays are
enough for what one play leaves to the next.  Three groups give a chain, two siblings
and a sibling of a parent.  Two dialers with two names draw the same name and different
ones, on the same host and on two.  With three playbooks one worker always gets two or
more, and a container that it could not stop meets its next one.  In `file` the tree has one
of each kind of entry, a link may lead into the tree or out of it, and two tasks want the same
path in different states; a task is followed by any other, so each starts from what any
sequence of tasks, finished or cut off, has left.  That is so in `transfer`, `packages` and `archive`
too, none of which bounds the number of tasks or runs.  `MaxVersion` = 2 in `packages` lets a package be
installed, be outdated and be upgraded.  The places of `discovery` have each of their three names
there, missing, undecodable, or a directory, and up to three files under `main` are merged, one of them in a
directory that comes before or after the others.  In `transfer` the same path is now
a file, now a directory, and every kind of task writes where another has written.

**Deadlock** is checked where the system never stops: in `file`, `transfer`, `packages` and
`archive`, whose tasks or runs follow one another for ever, and in `discovery`, where a function that has
returned may stutter (`Returned`).  The other programs end.  That they end only where they should is what
Terminates and the implementations of Rollout and Suite say.

**Fairness.**  The executer is one thread and never waits for another: WF of Next.  A dialer
goes on while a step of its own is possible: WF of `Step(d)` for each; its SSH calls
return (the connection has timeouts, and a lost one ends the wait), and so does the
executer it waits for.  No fairness is assumed of lost connections, kills or orphaned
executers.  The conformance runner's goroutines are scheduled by Go, and each command it
waits for ends: WF of main and of each worker.

### What the failing runs show

- `role_reuse`: `ProcessJinjaTemplates` writes into the role's own message
  (`pkg/exec/util/jinja.go:165`).  A role that is applied again after a variable has
  changed uses the text of its first application.
- `parent_vars`: `Group.NodeVars` tests whether a child's map is empty
  (`pkg/inventory/inventory.go:106`) where membership is meant; a node in a child
  without variables loses those of the parent.
- `template_attributes`: a template whose content is in place is skipped before its mode and owner
  are looked at (`pkg/exec/template.go:126`).  When a first run was cut off after the write,
  or something else wrote the same content, they are never set.

### What passing runs show against the source's comments

- `executer`, RolePrecedence: `Role.Apply` merges the role's vars last (`pkg/role/role.go:135`, `RoleScope`), so they
  override those of the play and of the inventory; the comment at lines 72-73 ranks them below these.  With the
  order of the comment (`RoleScopeCommented`) the property fails.
- `discovery`, Discovered: the files under `main/` are merged in the order of names (`pkg/role/vars.go:90`, `NextFile`), so
  that `main/b.yml` overrides `main/a/x.yml`; the comment at lines 87-89 has the more nested one win.  With the order of the
  comment (`NextFileCommented`) the property fails.
- `packages`, Reached: Validate accepts `upgrade: no` (`pkg/exec/apt.go:71`) and `Clean` takes it for no upgrade (line 183),
  but Apply has no case for it and fails (line 218, `UnsupportedUpgrade`).  The only task with it that ends well is
  one that cleans and does nothing else (`OnlyCleans`), which is what the property says.

Other places where the models had to follow the code rather than what is written about it:

- The tasks of an included file are applied without `ExecuteTask`
  (`pkg/exec/include_tasks.go:79-89`; `Guarded`, `Looped` and `IncludeRegisters`), so their `when`, `loop` and
  `register` have no effect; the documentation of both modules says that there are no deviations.
- `needsModeOrOwnershipChange` takes a desired mode of 0 for no mode (`pkg/exec/file.go:143`, `NeedsMode`), so
  `mode: "0000"` leaves a file that has another one as it is.
- A playbook that is given without a directory, as in the README's example, is unpacked into the
  directory of the run itself: a file of it named `inventory.yaml` replaces the inventory, which has been read
  by then, and one named `executer` makes Untar fail.  One in ".." is unpacked into the host's `/tmp`, where it
  stays (`Place`).
- Untar gives the modes of the archive to `os.FileMode`, which has other bits for setuid, setgid and sticky: these
  are lost (`Lost`).

## The proofs

Every proof is for all values of the constants that the module's `...Assumption` allows: the
constants have their types, tasks pass Validate, and paths, where there are any, form a hierarchy in which
what a task names has a place; groups are finitely many and no group is under itself, as in any YAML document.
RenderedInScope alone needs an assumption about the playbooks.  Each module proves an inductive
invariant, which TLC has checked first, and reads the properties off it; liveness is left to TLC.

`ExecuterProofs` proves TypeOK, NestedLists, InventoryIntact, RoleConfined, NoCarryOver, RoleVarsReachLater and
RolePrecedence for every set of playbooks, roles, files and variables, and RenderedInScope when no playbook
applies a role twice (`NoRoleTwice`), which is what `role_reuse` shows to be needed.  `TypeOK` alone is not
inductive: an action may take the top of the stack for granted only because the lists nest, and a frame's
task exists because the play, role or file it belongs to does.  `IInv` is TypeOK and NestedLists
together; one lemma per kind of step (a frame moves on, a file is pushed, a file is
popped) carries NestedLists over.  InventoryIntact and RoleConfined follow since a task
writes only into the map of its scope (`TaskWritesScope`).  The other four need that the list at the
bottom of the stack is the current role's (`CurrentRole`), that no loop is over an undefined value (`ItemsDefined`),
and, for RenderedInScope, that the content of a role's task differs from what was read only
after an application of the role has come to it (`MemoryOK`, with `Past` and `Now`).

`FleetProofs` is about the hosts there are and how the dialers visit them.  Of `Dialer` it proves TypeOK, DirExclusive,
OwnDirIntact, ExecuterHasItsFiles, NoLeftover and HostsAccounted for any sets of dialers, hosts and names.
The inductive invariant adds which program counters hold a directory and a
connection (`HeldOK`), how todo, applied and the current host divide the hosts
(`AccountsOK`), and that the directory of a running executer cannot be removed by anybody
but the dialer that waits for it or has lost it (`DirsOK`).  `Implements` is the safety half of
ImplementsRollout: every step of a dialer is one of Rollout's or a stutter (`RolloutStep`), for which a
dialer's host must be that of its program counter (`PlaceOK`).

Of `Inventory`, `FleetProofs` proves InventoryTypeOK, FindMatchesAll, HostVarsWin, OnlyFromItsGroups and NearestWins for any finite
forest of groups.  What is at or above a group is defined without recursion (`Up`: the least
set that holds the group and the parents of its members), and the recursive Find, All and Above are shown to say
the same (`FoundIsNames`, `AllInIsBelow`, `AboveIsUp`).  The invariant of NodeVars (`NodeVarsInv`) says of every call under way that
the calls are on a group, its parent and so on (`ChainOK`), and that what each has collected is right for the
children its loop has been through (`FrameOK`, with `GroupsOK` and `HostsOK`): only from groups the node is in, with
an entry of the node first, and nothing of a group that lists the node missing or hidden from above.  The defect that
`parent_vars` shows touches none of these.  Where it bites is proved too: what a group says reaches the node whenever a
group at or below it lists the node and sets anything (`SpokenReaches`), so that EveryGroupReaches holds of
inventories in which every group that lists the node sets a variable (`ParentsReach`).

The two together, for dialers whose hosts are those of All (`HostsListed`): when one has ended with success, its executer has
succeeded on exactly the hosts that some group lists, and so on every host that a play for a group is meant for
(`GroupsConfigured`, from HostsAccounted and FindMatchesAll).

`ConformanceProofs` proves TypeOK, OwnContainerAnswers, PortTakenByOwn, NoContainerForgotten,
DiffOfBoth and VerdictSound for any number of workers and playbooks.
The inductive invariant adds where a job is: no playbook is queued twice or
both queued and at work, and what has passed or failed is at no worker (`PlacesOK`); what a worker has
exported at each of its steps (`ExportsOK`); and whose ports the running containers have
(`PortsOK`).  That two workers have two ports is arithmetic on the worker's number.  `Implements` is the
safety half of ImplementsSuite (`SuiteStep`).
`NobodyWaitsForEver` is the part of its liveness half that needs no
fairness: there is always room in errCh for a worker that reports (`ErrorsFit`: its playbook is not in errCh yet, and there are as many
playbooks as places), and until the verdict main or a worker can go on (`CanGoOn`, which spells the guards out,
since ENABLED cannot be proved about).  It needs that a worker leaves only when the channel is closed
(`LeavesWhenClosed`) and that there is a worker at all.

`FileProofs` proves TypeOK, Confined, UnchangedIsTrue, Reached and Settles for any paths, owners and tasks,
where links are leaves that lead to no link.
The inductive invariant `IInv` adds that what
exists is in directories and links lead to paths (`TreeOK`), and what a task knows at
each of its steps (`PhaseOK`): the walk stays under the task's path, the state has been reached
before attributes are set, and an unchanged result means an unchanged host at every step of
the walk and not only at its end.  Reached needs in addition that the paths which the walk has behind it have
the attributes asked for (`AttributesOK`), and Settles that a task which is applied again finds
nothing to do at any of its steps (`AgainOK`).  Both rest on what `NewModeFromSpec` computes: a symbolic mode of any
number of clauses sets and clears each bit as its last clause on it says
(`ClausesBits`), so that it gives back what it has made (`ClausesIdempotent`).

`TransferProofs` proves TypeOK, Installed and Repeatable for any paths, contents and tasks.  The inductive
invariant adds what a task knows where it is (`PhaseOK`), which part of a source directory has
been copied (`WalkOK`), and how little a task that is applied again changes before it ends (`AgainOK`: only the
file that is being written differs).  Paths are sequences here, so it rests on lemmas about prefixes: what lies
under a directory is not above it, and copying one file leaves those copied before it in place.

`PackagesProofs` proves TypeOK, UnchangedIsTrue and Reached for any packages, repositories, tasks and versions.  An
unchanged result means an unchanged host all along (`UnchangedSoFar`), and what the steps behind a task have
reached stays (`Way`).  A task that asks for an upgrade and has got past it has one of the kinds that Apply
knows, so that `upgrade: no` never ends well but after a clean.

`DiscoveryProofs` proves TypeOK and Discovered for any tree.  The invariant (`Sound`) says of every point in the
search what the places and files before it have given the role: `AtNode` within a place,
`RoleSoFar` and `IsARoleSoFar` within a role, `RolesSoFar` across them.  During the walk under `main`, what is merged
is right for the files that are no longer in `rest`, all of which come before those that are.

`ArchiveProofs` proves TypeOK and Arrived for any directories, paths and number of runs: Tar has packed each path
once or has yet to (`PackedOK`), a run starts in a directory with nothing but its own files unless it is ".."
(`BeforeOK`), and what Untar has read is in place and the rest untouched (`UnpackedOK`).

Facts about recursive functions (Find and All, the clauses of a mode) need induction over the data, and the library's
induction theorems cannot be used: they take a predicate as a parameter.  The proofs take the least counterexample instead: `Least` gives the first number at which a
predicate, as a set, fails, and the definition of the function at that point contradicts it.

Every invariant that a passing run checks is proved.  Only model-checked is all liveness, Terminates and that
of Rollout and Suite included, which the provers do not reach.

## Not modelled

- The template language and its filters (gonja's), and the contents of registered results.
- Links in `Transfer`'s destinations, empty source directories, and modes above 0777 as entries.
- The decoding of a module's parameters: it has no state.  The choice of the module is in `Discovery`.
- SSH configuration and host keys; flags and the reading of files at a program's start, which fails before there is any state.
- The dialer's local archive, which is never removed.
- Of Untar: the error of closing a written file, which it ignores (`pkg/util/tar.go:119`; a local disk is taken to
  have reported it at the write), and entries of a kind that Tar does not make, which are skipped with a
  message (line 130).
- A playbook directory that is itself a link.
- tardiff's comparison, a pure function whose verdict is an input of `Conformance`.
- docgen, a developers' tool, and `pkg/proto/*.pb.go`, which are generated.

## Plan

1. `Executer`, `Dialer` with `Rollout`, `Inventory`, `Conformance` with `Suite`, `File`, `Transfer`, `Packages`,
   `Discovery`, `Archive`, and the proofs above: done.
2. An abstract specification of a task, which reaches a state and reports truly whether it had to,
   or fails, that `File`, `Transfer` and `Packages` implement and `Executer`'s RunModule assumes.
