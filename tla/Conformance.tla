----------------------------- MODULE Conformance -----------------------------
(***************************************************************************)
(* The conformance runner: main hands playbooks to workers over an         *)
(* unbuffered channel; a worker runs each one against a fresh container    *)
(* with sophons, against another with ansible, and compares the two        *)
(* exported file systems.  A worker has one port of the host for all of    *)
(* its containers.  Docker (external) keeps the containers and the ports.  *)
(***************************************************************************)
EXTENDS Naturals, Sequences, FiniteSets, Functions

CONSTANTS
  Worker,      \* worker IDs, 0 to concurrency - 1
  Playbooks    \* those that match the filter, in the order filepath.Glob lists them

basePort == 2222
None == <<>>
Playbook == Range(Playbooks)
Mode == {"sophons", "ansible"}

\* One worker at least: without any, main's first send blocks for ever.
ASSUME ConformanceAssumption ==
  /\ Worker \subseteq Nat /\ Worker # {}
  /\ Playbooks \in Seq(Playbook) /\ IsInjective(Playbooks)
  /\ None \notin Playbook

\* A container is known by the playbook and mode it was started for.
Container == Playbook \X Mode

VARIABLES
  main,        \* "send", "wait", "passed" or "failed"
  queue,       \* playbooks that main has not sent
  closed,      \* whether playbookCh is closed
  errCh,       \* the playbooks whose errors are in errCh
  pc,          \* where each worker is
  job,         \* its playbook
  mode,        \* the half of the test it is at
  err,         \* whether runPlaybook or runConformanceTest is returning an error
  exported,    \* modes whose file system is in its temporary directory
  port,        \* the port that each of docker's containers was started with, or 0
  containers,  \* containers that docker knows
  running,     \* those that run, each with its port
  passed,      \* history: playbooks that tardiff has found equal
  stuck,       \* history: workers one of whose docker stop has failed
  leaked       \* history: containers that a failing docker command has left

vars == <<main, queue, closed, errCh, pc, job, mode, err, exported, port, containers,
          running, passed, stuck, leaked>>
docker == <<port, containers, running, stuck, leaked>>
mains == <<main, queue, closed>>

Init ==
  /\ main = "send" /\ queue = Playbooks /\ closed = FALSE /\ errCh = {}
  /\ pc = [w \in Worker |-> "idle"]
  /\ job = [w \in Worker |-> None]
  /\ mode = [w \in Worker |-> "sophons"]
  /\ err = [w \in Worker |-> FALSE]
  /\ exported = [w \in Worker |-> {}]
  /\ port = [c \in Container |-> 0]
  /\ containers = {} /\ running = {}
  /\ passed = {} /\ stuck = {} /\ leaked = {}

Goto(w, l) == pc' = [pc EXCEPT ![w] = l]
Mine(w) == <<job[w], mode[w]>>

\* runConformanceTest returns: its variables and its directory are gone.
Return(w) ==
  /\ Goto(w, "idle")
  /\ job' = [job EXCEPT ![w] = None]
  /\ mode' = [mode EXCEPT ![w] = "sophons"]
  /\ err' = [err EXCEPT ![w] = FALSE]
  /\ exported' = [exported EXCEPT ![w] = {}]

-----------------------------------------------------------------------------
(* run: main                                                               *)

\* The channel has no buffer: a send is the receive of an idle worker.
Send(w) ==
  /\ main = "send" /\ pc[w] = "idle" /\ queue # <<>>
  /\ queue' = Tail(queue)
  /\ job' = [job EXCEPT ![w] = Head(queue)]
  /\ Goto(w, "prepare")
  /\ UNCHANGED <<main, closed, errCh, mode, err, exported, passed, docker>>

CloseQueue ==
  /\ main = "send" /\ queue = <<>>
  /\ closed' = TRUE
  /\ main' = "wait"
  /\ UNCHANGED <<queue, errCh, pc, job, mode, err, exported, passed, docker>>

\* wg.Wait.
WorkersDoneBug == closed     \* the errors are read when all is handed out
WorkersDone == \A w \in Worker : pc[w] = "done"

Collect ==
  /\ main = "wait" /\ WorkersDone
  /\ main' = IF errCh = {} THEN "passed" ELSE "failed"
  /\ UNCHANGED <<queue, closed, errCh, pc, job, mode, err, exported, passed, docker>>

-----------------------------------------------------------------------------
(* A worker: runConformanceTest                                            *)

\* The loop over the channel ends when it is closed.
WorkerDone(w) ==
  /\ pc[w] = "idle" /\ closed
  /\ Goto(w, "done")
  /\ UNCHANGED <<mains, errCh, job, mode, err, exported, passed, docker>>

\* MkdirTemp and ssh-keygen.
Prepare(w) ==
  /\ pc[w] = "prepare"
  /\ \E ok \in BOOLEAN :
       /\ err' = [err EXCEPT ![w] = ~ok]
       /\ Goto(w, IF ok THEN "start" ELSE "report")
  /\ UNCHANGED <<mains, errCh, job, mode, exported, passed, docker>>

PortOfBug(w) == basePort         \* one port for everybody
PortOf(w) == basePort + w

Busy(n) == \E c \in running : port[c] = n

\* startContainer: docker run.
Start(w) ==
  /\ pc[w] = "start" /\ ~Busy(PortOf(w))
  /\ port' = [port EXCEPT ![Mine(w)] = PortOf(w)]
  /\ containers' = containers \cup {Mine(w)}
  /\ running' = running \cup {Mine(w)}
  /\ Goto(w, "dial")
  /\ UNCHANGED <<mains, errCh, job, mode, err, exported, passed, stuck, leaked>>

\* docker run fails before or after it has created the container, as it does when
\* the port is taken.  Nobody removes it: its name is not known.
AfterStartFailsBug == "dial"     \* docker run's status is not looked at
AfterStartFails == "report"

StartFails(w) ==
  /\ pc[w] = "start"
  /\ \E created \in SUBSET {Mine(w)} :
       containers' = containers \cup created /\ leaked' = leaked \cup created
  /\ err' = [err EXCEPT ![w] = TRUE]
  /\ Goto(w, AfterStartFails)
  /\ UNCHANGED <<mains, errCh, job, mode, exported, port, running, passed, stuck>>

\* The SSH server answers within the 20 attempts, or the container is given up.
Dial(w) ==
  /\ pc[w] = "dial"
  /\ \E ok \in BOOLEAN :
       /\ err' = [err EXCEPT ![w] = ~ok]
       /\ Goto(w, IF ok THEN "run" ELSE "stop")
  /\ UNCHANGED <<mains, errCh, job, mode, exported, passed, docker>>

\* runPlaybook from the host keys to docker export: any of its commands may fail.
Run(w) ==
  /\ pc[w] = "run"
  /\ exported' = [exported EXCEPT ![w] = @ \cup {mode[w]}]
  /\ Goto(w, "stop")
  /\ UNCHANGED <<mains, errCh, job, mode, err, passed, docker>>

AfterRunFailsBug == "next"       \* an early return before the deferred cleanup
AfterRunFails == "stop"

RunFails(w) ==
  /\ pc[w] = "run"
  /\ err' = [err EXCEPT ![w] = TRUE]
  /\ Goto(w, AfterRunFails)
  /\ UNCHANGED <<mains, errCh, job, mode, exported, passed, docker>>

\* containerCleanup: docker stop, its error logged.
Stop(w) ==
  /\ pc[w] = "stop"
  /\ \E ok \in BOOLEAN :
       /\ running' = IF ok THEN running \ {Mine(w)} ELSE running
       /\ stuck' = IF ok THEN stuck ELSE stuck \cup {w}
  /\ Goto(w, "rm")
  /\ UNCHANGED <<mains, errCh, job, mode, err, exported, port, containers, passed, leaked>>

\* docker rm, its error logged: it fails for a container that still runs.
Remove(w) ==
  /\ pc[w] = "rm"
  /\ \E ok \in BOOLEAN :
       /\ ok => Mine(w) \notin running
       /\ containers' = IF ok THEN containers \ {Mine(w)} ELSE containers
       /\ port' = IF ok THEN [port EXCEPT ![Mine(w)] = 0] ELSE port
       /\ leaked' = IF ok THEN leaked ELSE leaked \cup {Mine(w)}
  /\ Goto(w, "next")
  /\ UNCHANGED <<mains, errCh, job, mode, err, exported, running, passed, stuck>>

\* runConformanceTest looks at runPlaybook's error.
FailedBug(w) == FALSE
Failed(w) == err[w]

SecondModeBug == "Ansible"       \* a mode that runPlaybook does not know
SecondMode == "ansible"

NextMode(w) ==
  /\ pc[w] = "next"
  /\ Goto(w, IF Failed(w) THEN "report" ELSE IF mode[w] = "sophons" THEN "start" ELSE "diff")
  /\ mode' = [mode EXCEPT ![w] = IF ~Failed(w) THEN SecondMode ELSE @]
  /\ UNCHANGED <<mains, errCh, job, err, exported, passed, docker>>

Diff(w) ==
  /\ pc[w] = "diff"
  /\ \/ passed' = passed \cup {job[w]} /\ Return(w)
     \/ /\ err' = [err EXCEPT ![w] = TRUE]
        /\ Goto(w, "report")
        /\ UNCHANGED <<job, mode, exported, passed>>
  /\ UNCHANGED <<mains, errCh, docker>>

\* errCh has room for an error of every playbook; main reads it at the end only.
ErrRoomBug == 1
ErrRoom == Len(Playbooks)

Report(w) ==
  /\ pc[w] = "report" /\ Cardinality(errCh) < ErrRoom
  /\ errCh' = errCh \cup {job[w]}
  /\ Return(w)
  /\ UNCHANGED <<mains, passed, docker>>

Work(w) ==
  \/ Send(w) \/ WorkerDone(w) \/ Prepare(w) \/ Start(w) \/ StartFails(w) \/ Dial(w)
  \/ Run(w) \/ RunFails(w) \/ Stop(w) \/ Remove(w) \/ NextMode(w) \/ Diff(w) \/ Report(w)

Main == CloseQueue \/ Collect

Next == Main \/ \E w \in Worker : Work(w)

\* Every goroutine runs, and every command it waits for ends.
Spec == Init /\ [][Next]_vars /\ WF_vars(Main) /\ \A w \in Worker : WF_vars(Work(w))

-----------------------------------------------------------------------------
(* Properties                                                              *)

TypeOK ==
  /\ main \in {"send", "wait", "passed", "failed"}
  /\ queue \in Seq(Playbook) /\ closed \in BOOLEAN /\ errCh \in SUBSET Playbook
  /\ pc \in [Worker -> {"idle", "prepare", "start", "dial", "run", "stop", "rm", "next",
                        "diff", "report", "done"}]
  /\ job \in [Worker -> Playbook \cup {None}]
  /\ mode \in [Worker -> Mode]
  /\ err \in [Worker -> BOOLEAN]
  /\ exported \in [Worker -> SUBSET Mode]
  /\ port \in [Container -> Nat]
  /\ containers \in SUBSET Container /\ running \in SUBSET containers
  /\ passed \in SUBSET Playbook
  /\ stuck \in SUBSET Worker /\ leaked \in SUBSET Container

\* The container that answers on a worker's port while it runs a playbook is the one
\* it has started for it, and not one left from before or another worker's.
OwnContainerAnswers ==
  \A w \in Worker : pc[w] \in {"dial", "run"} =>
    /\ Mine(w) \in running
    /\ \A c \in running : port[c] = PortOf(w) => c = Mine(w)

\* A worker finds its port taken only if a docker stop of its own has failed:
\* workers do not disturb each other.
PortTakenByOwn == \A w \in Worker : pc[w] = "start" /\ Busy(PortOf(w)) => w \in stuck

\* No path through a test forgets a container: what docker knows is in use, or was
\* left by a docker command that failed.
NoContainerForgotten ==
  \A c \in containers :
    c \in leaked \/ \E w \in Worker : Mine(w) = c /\ pc[w] \in {"dial", "run", "stop", "rm"}

\* tardiff compares what both of the runs have exported, of one playbook.
DiffOfBoth == \A w \in Worker : pc[w] = "diff" => exported[w] = Mode

\* run returns nil only when the test of every playbook has ended and passed, and an
\* error only when one has not.
VerdictSound == main \in {"passed", "failed"} => (main = "passed" <=> passed = Playbook)

\* Workers, channels, docker and their failures together are no more than a suite: every
\* playbook's test ends once, each error is collected, and the verdict comes, after all
\* of them and of all of them.  Nobody waits for ever, on a channel or on the group.
Verdict == IF main \in {"passed", "failed"} THEN main ELSE "none"
S == INSTANCE Suite WITH failed <- errCh, verdict <- Verdict
ImplementsSuite == S!Spec
=============================================================================
