-------------------------- MODULE ConformanceProofs --------------------------
(* Theorems about Conformance, for any number of workers and playbooks.    *)
EXTENDS Conformance, SequenceTheorems, FiniteSetTheorems, TLAPS

AtWork == {"prepare", "start", "dial", "run", "stop", "rm", "next", "diff", "report"}

\* A playbook is in one place: to be sent, in the hands of one worker, passed or
\* reported.
PlacesOK ==
  /\ IsInjective(queue)
  /\ main # "send" <=> closed
  /\ closed => queue = <<>>
  /\ main \in {"passed", "failed"} => WorkersDone
  /\ main = "passed" => errCh = {}
  /\ main = "failed" => errCh # {}
  /\ errCh \cap passed = {}
  /\ (errCh \cup passed) \cap Range(queue) = {}
  /\ \A w \in Worker :
       /\ pc[w] \in AtWork <=> job[w] # None
       /\ job[w] \notin errCh \cup passed \cup Range(queue)
       /\ \A v \in Worker : job[w] = job[v] /\ job[w] # None => v = w
  /\ \A p \in Playbook : p \in errCh \cup passed \cup Range(queue) \/ \E w \in Worker : job[w] = p

\* What a worker has exported where it is.
ExportsOK ==
  \A w \in Worker :
    /\ pc[w] \in {"idle", "prepare"} => mode[w] = "sophons"
    /\ pc[w] \in {"idle", "prepare", "start", "dial", "run"} => err[w] = FALSE
    /\ pc[w] \in {"start", "dial", "run", "stop", "rm", "next"} /\ mode[w] = "ansible" =>
         "sophons" \in exported[w]
    /\ pc[w] \in {"stop", "rm", "next"} /\ ~err[w] => mode[w] \in exported[w]
    /\ pc[w] = "diff" => exported[w] = Mode

\* Whose port a container that runs is on.
PortsOK ==
  \A c \in running :
    \E w \in Worker :
      /\ port[c] = PortOf(w)
      /\ w \in stuck \/ (Mine(w) = c /\ pc[w] \in {"dial", "run", "stop"})

IInv == /\ TypeOK /\ PlacesOK /\ ExportsOK /\ PortsOK /\ OwnContainerAnswers
        /\ NoContainerForgotten

\* Two workers have two ports.
LEMMA PortsDiffer ==
  ASSUME NEW v \in Worker, NEW w \in Worker, PortOf(v) = PortOf(w)
  PROVE  v = w
BY ConformanceAssumption DEF PortOf, basePort

\* No port is 0, the mark of a container without one.
LEMMA PortType ==
  ASSUME NEW w \in Worker
  PROVE  PortOf(w) \in Nat /\ PortOf(w) # 0
BY ConformanceAssumption DEF PortOf, basePort

\* Taking the first element of a sequence without duplicates.
LEMMA TailOfQueue ==
  ASSUME NEW T, NEW s \in Seq(T), s # <<>>, IsInjective(s)
  PROVE  /\ Tail(s) \in Seq(T) /\ Head(s) \in T /\ IsInjective(Tail(s))
         /\ Range(s) = {Head(s)} \cup Range(Tail(s))
         /\ Head(s) \notin Range(Tail(s))
<1>1. /\ Tail(s) \in Seq(T) /\ Head(s) \in T /\ Head(s) = s[1]
      /\ Len(s) \in Nat \ {0} /\ Len(Tail(s)) = Len(s) - 1
      /\ \A i \in 1..Len(Tail(s)) : Tail(s)[i] = s[i + 1]
  BY HeadTailProperties
<1>2. DOMAIN s = 1..Len(s) /\ DOMAIN Tail(s) = 1..(Len(s) - 1)
  BY <1>1
<1>3. \A i \in 1..Len(s) : i = 1 \/ (i - 1 \in 1..(Len(s) - 1) /\ s[i] = Tail(s)[i - 1])
  BY <1>1, <1>2
<1>4. IsInjective(Tail(s))
  <2> SUFFICES ASSUME NEW i \in DOMAIN Tail(s), NEW j \in DOMAIN Tail(s), Tail(s)[i] = Tail(s)[j]
               PROVE  i = j
    BY DEF IsInjective
  <2>1. s[i + 1] = s[j + 1] /\ i + 1 \in DOMAIN s /\ j + 1 \in DOMAIN s /\ i \in Nat /\ j \in Nat
    BY <1>1, <1>2
  <2>2. i + 1 = j + 1
    BY <2>1 DEF IsInjective
  <2> QED BY <2>1, <2>2
<1>6. Head(s) \notin Range(Tail(s))
  <2> SUFFICES ASSUME NEW i \in DOMAIN Tail(s), Tail(s)[i] = Head(s)
               PROVE  FALSE
    BY DEF Range
  <2>1. s[i + 1] = s[1] /\ i + 1 \in DOMAIN s /\ 1 \in DOMAIN s /\ i \in Nat \ {0}
    BY <1>1, <1>2
  <2>2. i + 1 = 1
    BY <2>1 DEF IsInjective
  <2> QED BY <2>1, <2>2
<1>5. Range(s) = {Head(s)} \cup Range(Tail(s))
  <2>1. ASSUME NEW i \in DOMAIN s
        PROVE  s[i] \in {Head(s)} \cup Range(Tail(s))
    BY <1>1, <1>2, <1>3 DEF Range
  <2>2. ASSUME NEW i \in DOMAIN Tail(s)
        PROVE  Tail(s)[i] \in Range(s)
    <3>1. i + 1 \in DOMAIN s /\ Tail(s)[i] = s[i + 1]
      BY <1>1, <1>2
    <3> QED BY <3>1 DEF Range
  <2>3. Head(s) \in Range(s)
    BY <1>1, <1>2 DEF Range
  <2> QED BY <2>1, <2>2, <2>3 DEF Range
<1> QED BY <1>1, <1>4, <1>5, <1>6

-----------------------------------------------------------------------------
(* Types                                                                   *)

LEMMA InitInv == Init => IInv
<1> SUFFICES ASSUME Init PROVE IInv
  OBVIOUS
<1>1. TypeOK
  BY ConformanceAssumption DEF Init, TypeOK, Mode, Container
<1>2. PlacesOK
  BY ConformanceAssumption DEF Init, PlacesOK, WorkersDone, AtWork, Playbook
<1> QED BY <1>1, <1>2
  DEF Init, IInv, ExportsOK, PortsOK, OwnContainerAnswers, NoContainerForgotten

\* A worker that is through with a playbook.
LEMMA ReturnType ==
  ASSUME TypeOK, NEW w \in Worker, Return(w)
  PROVE  /\ pc' \in [Worker -> {"idle", "prepare", "start", "dial", "run", "stop", "rm", "next",
                               "diff", "report", "done"}]
         /\ job' \in [Worker -> Playbook \cup {None}] /\ mode' \in [Worker -> Mode]
         /\ err' \in [Worker -> BOOLEAN] /\ exported' \in [Worker -> SUBSET Mode]
BY DEF TypeOK, Return, Goto, Mode

LEMMA TypeStep ==
  ASSUME IInv, [Next]_vars
  PROVE  TypeOK'
<1> USE DEF IInv, TypeOK, Goto, mains, docker
<1>1. ASSUME NEW w \in Worker, Send(w)
      PROVE  TypeOK'
  <2>1. Tail(queue) \in Seq(Playbook) /\ Head(queue) \in Playbook
    BY <1>1, HeadTailProperties DEF Send
  <2> QED BY <1>1, <2>1 DEF Send
<1>2. CASE Main
  BY <1>2 DEF Main, CloseQueue, Collect
<1>3. ASSUME NEW w \in Worker, WorkerDone(w) \/ Prepare(w) \/ Dial(w) \/ RunFails(w)
      PROVE  TypeOK'
  BY <1>3 DEF WorkerDone, Prepare, Dial, RunFails, AfterRunFails
<1>4. ASSUME NEW w \in Worker, Start(w) \/ StartFails(w) \/ Stop(w) \/ Remove(w), pc[w] \in AtWork
      PROVE  TypeOK'
  <2>1. Mine(w) \in Container
    BY <1>4 DEF PlacesOK, Mine, Container, AtWork
  <2>2. PortOf(w) \in Nat
    BY PortType
  <2>3. CASE Start(w)
    BY <2>1, <2>2, <2>3 DEF Start
  <2>4. CASE StartFails(w)
    BY <2>1, <2>4 DEF StartFails, AfterStartFails
  <2>5. CASE Stop(w)
    BY <2>1, <2>5 DEF Stop
  <2>6. CASE Remove(w)
    BY <2>1, <2>6 DEF Remove
  <2> QED BY <1>4, <2>3, <2>4, <2>5, <2>6
<1>5. ASSUME NEW w \in Worker, Run(w) \/ NextMode(w)
      PROVE  TypeOK'
  BY <1>5 DEF Run, NextMode, SecondMode, Failed, Mode
<1>6. ASSUME NEW w \in Worker, Diff(w) \/ Report(w), pc[w] \in AtWork
      PROVE  TypeOK'
  <2>1. job[w] \in Playbook /\ {} \in SUBSET Mode /\ "sophons" \in Mode
    BY <1>6 DEF PlacesOK, Mode, AtWork
  <2>2. CASE passed' = passed \cup {job[w]} /\ Return(w) /\ UNCHANGED <<mains, errCh, docker>>
    <3> HIDE DEF Goto
    <3>1. /\ pc' \in [Worker -> {"idle", "prepare", "start", "dial", "run", "stop", "rm", "next",
                                "diff", "report", "done"}]
          /\ job' \in [Worker -> Playbook \cup {None}] /\ mode' \in [Worker -> Mode]
          /\ err' \in [Worker -> BOOLEAN] /\ exported' \in [Worker -> SUBSET Mode]
      BY <2>2, ReturnType
    <3>2. /\ passed' \in SUBSET Playbook
          /\ UNCHANGED <<main, queue, closed, errCh, port, containers, running, stuck, leaked>>
      BY <2>1, <2>2
    <3> QED BY <3>1, <3>2
  <2>3. CASE /\ pc' = [pc EXCEPT ![w] = "report"] /\ err' = [err EXCEPT ![w] = TRUE]
             /\ UNCHANGED <<mains, errCh, job, mode, exported, passed, docker>>
    BY <2>3
  <2>4. CASE Report(w)
    <3>1. Return(w) /\ errCh' = errCh \cup {job[w]} /\ UNCHANGED <<mains, passed, docker>>
      BY <2>4 DEF Report
    <3> HIDE DEF Goto
    <3>2. /\ pc' \in [Worker -> {"idle", "prepare", "start", "dial", "run", "stop", "rm", "next",
                                "diff", "report", "done"}]
          /\ job' \in [Worker -> Playbook \cup {None}] /\ mode' \in [Worker -> Mode]
          /\ err' \in [Worker -> BOOLEAN] /\ exported' \in [Worker -> SUBSET Mode]
      BY <3>1, ReturnType
    <3>3. /\ errCh' \in SUBSET Playbook
          /\ UNCHANGED <<main, queue, closed, passed, port, containers, running, stuck, leaked>>
      BY <2>1, <3>1
    <3> QED BY <3>2, <3>3
  <2> QED BY <1>6, <2>2, <2>3, <2>4 DEF Diff
<1>7. CASE UNCHANGED vars
  BY <1>7 DEF vars
<1>8. ASSUME NEW w \in Worker, Work(w)
      PROVE  TypeOK'
  <2>1. Start(w) \/ StartFails(w) \/ Stop(w) \/ Remove(w) \/ Diff(w) \/ Report(w) => pc[w] \in AtWork
    BY DEF Start, StartFails, Stop, Remove, Diff, Report, AtWork
  <2> QED BY <1>1, <1>3, <1>4, <1>5, <1>6, <1>8, <2>1 DEF Work
<1> QED BY <1>2, <1>7, <1>8 DEF Next

-----------------------------------------------------------------------------
(* Playbooks                                                               *)

\* A step that moves a worker from work to work changes nothing of PlacesOK.
LEMMA PlacesKept ==
  ASSUME IInv, NEW w \in Worker, pc[w] \in AtWork, NEW l \in AtWork, Goto(w, l),
         UNCHANGED <<main, queue, closed, errCh, job, passed>>
  PROVE  PlacesOK'
BY DEF IInv, TypeOK, PlacesOK, Goto, WorkersDone, AtWork

LEMMA PlacesStep ==
  ASSUME IInv, [Next]_vars
  PROVE  PlacesOK'
<1> USE DEF IInv, mains, docker
<1>1. ASSUME NEW w \in Worker, Send(w)
      PROVE  PlacesOK'
  <2>1. /\ Tail(queue) \in Seq(Playbook) /\ Head(queue) \in Playbook /\ IsInjective(Tail(queue))
        /\ Range(queue) = {Head(queue)} \cup Range(Tail(queue))
        /\ Head(queue) \notin Range(Tail(queue))
    BY <1>1, TailOfQueue DEF Send, TypeOK, PlacesOK
  <2>2. Head(queue) # None
    BY <2>1, ConformanceAssumption
  <2>3. /\ pc[w] = "idle" /\ job[w] = None /\ main = "send" /\ ~closed
        /\ queue' = Tail(queue) /\ job' = [job EXCEPT ![w] = Head(queue)]
        /\ pc' = [pc EXCEPT ![w] = "prepare"]
        /\ UNCHANGED <<main, closed, errCh, passed>>
    BY <1>1 DEF Send, Goto, PlacesOK, AtWork
  <2>4. ASSUME NEW v \in Worker
        PROVE  /\ pc'[v] \in AtWork <=> job'[v] # None
               /\ job'[v] \notin errCh \cup passed \cup Range(Tail(queue))
               /\ \A u \in Worker : job'[v] = job'[u] /\ job'[v] # None => u = v
    BY <2>1, <2>2, <2>3 DEF PlacesOK, TypeOK, AtWork
  <2>5. ASSUME NEW p \in Playbook
        PROVE  p \in errCh \cup passed \cup Range(Tail(queue)) \/ \E v \in Worker : job'[v] = p
    <3>1. CASE p = Head(queue)
      <4>1. job'[w] = p
        BY <2>3, <3>1 DEF TypeOK
      <4> QED BY <4>1
    <3>2. ASSUME NEW v \in Worker, job[v] = p
          PROVE  job'[v] = p
      BY <2>3, <3>2, ConformanceAssumption DEF TypeOK
    <3>3. p \in errCh \cup passed \cup Range(queue) \/ \E v \in Worker : job[v] = p
      BY DEF PlacesOK
    <3> QED BY <2>1, <3>1, <3>2, <3>3
  <2>6. /\ IsInjective(queue') /\ Range(queue') = Range(Tail(queue))
        /\ (errCh \cup passed) \cap Range(Tail(queue)) = {} /\ errCh \cap passed = {}
    BY <2>1, <2>3 DEF PlacesOK
  <2>7. main' = "send" /\ ~closed' /\ errCh' = errCh /\ passed' = passed
    BY <2>3
  <2> QED BY <2>4, <2>5, <2>6, <2>7 DEF PlacesOK
<1>2. CASE CloseQueue
  BY <1>2 DEF CloseQueue, PlacesOK, WorkersDone
<1>3. CASE Collect
  BY <1>3 DEF Collect, PlacesOK, WorkersDone
<1>4. ASSUME NEW w \in Worker, WorkerDone(w)
      PROVE  PlacesOK'
  BY <1>4 DEF WorkerDone, PlacesOK, WorkersDone, TypeOK, Goto, AtWork
<1>5. ASSUME NEW w \in Worker, Prepare(w) \/ Dial(w) \/ RunFails(w)
      PROVE  PlacesOK'
  BY <1>5, PlacesKept DEF Prepare, Dial, RunFails, AfterRunFails, AtWork, Goto
<1>6. ASSUME NEW w \in Worker, Start(w) \/ StartFails(w)
      PROVE  PlacesOK'
  BY <1>6, PlacesKept DEF Start, StartFails, AfterStartFails, AtWork
<1>7. ASSUME NEW w \in Worker, Run(w) \/ Stop(w) \/ Remove(w)
      PROVE  PlacesOK'
  BY <1>7, PlacesKept DEF Run, Stop, Remove, AtWork
<1>8. ASSUME NEW w \in Worker, NextMode(w)
      PROVE  PlacesOK'
  <2>1. PICK l \in AtWork : Goto(w, l)
    BY <1>8 DEF NextMode, AtWork
  <2> QED BY <1>8, <2>1, PlacesKept DEF NextMode, AtWork
<1>9. ASSUME NEW w \in Worker, Diff(w) \/ Report(w)
      PROVE  PlacesOK'
  <2>1. pc[w] \in AtWork /\ job[w] \in Playbook /\ job[w] # None
        /\ UNCHANGED <<main, queue, closed>>
    BY <1>9 DEF Diff, Report, AtWork, PlacesOK, TypeOK
  <2>2. CASE Goto(w, "report") /\ UNCHANGED <<job, passed, errCh>>
    BY <2>1, <2>2, PlacesKept DEF AtWork
  <2>3. CASE /\ pc' = [pc EXCEPT ![w] = "idle"] /\ job' = [job EXCEPT ![w] = None]
             /\ \/ errCh' = errCh \cup {job[w]} /\ passed' = passed
                \/ passed' = passed \cup {job[w]} /\ errCh' = errCh
    <3>1. main \notin {"passed", "failed"}
      BY <2>1 DEF PlacesOK, WorkersDone, AtWork
    <3>2. errCh' \cap passed' = {} /\ (errCh' \cup passed') \cap Range(queue) = {}
      BY <2>1, <2>3 DEF PlacesOK
    <3>3. ASSUME NEW v \in Worker
          PROVE  /\ pc'[v] \in AtWork <=> job'[v] # None
                 /\ job'[v] \notin errCh' \cup passed' \cup Range(queue)
                 /\ \A u \in Worker : job'[v] = job'[u] /\ job'[v] # None => u = v
      <4>1. None \notin errCh' \cup passed' \cup Range(queue)
        BY <2>1, <2>3, ConformanceAssumption DEF TypeOK, Range
      <4> QED BY <2>1, <2>3, <4>1 DEF PlacesOK, TypeOK, AtWork
    <3>4. ASSUME NEW p \in Playbook
          PROVE  p \in errCh' \cup passed' \cup Range(queue) \/ \E v \in Worker : job'[v] = p
      BY <2>1, <2>3 DEF PlacesOK, TypeOK
    <3> QED BY <2>1, <3>1, <3>2, <3>3, <3>4 DEF PlacesOK, WorkersDone
  <2> QED BY <1>9, <2>2, <2>3 DEF Diff, Report, Return, Goto
<1>10. CASE UNCHANGED vars
  BY <1>10 DEF vars, PlacesOK, WorkersDone
<1> QED BY <1>1, <1>2, <1>3, <1>4, <1>5, <1>6, <1>7, <1>8, <1>9, <1>10 DEF Next, Main, Work

-----------------------------------------------------------------------------
(* What is exported                                                        *)

LEMMA ExportsStep ==
  ASSUME IInv, [Next]_vars
  PROVE  ExportsOK'
<1> USE DEF IInv, TypeOK, ExportsOK, Goto, mains, docker
<1>1. CASE Main
  BY <1>1 DEF Main, CloseQueue, Collect
<1>2. ASSUME NEW w \in Worker, Send(w) \/ WorkerDone(w) \/ Prepare(w)
      PROVE  ExportsOK'
  BY <1>2 DEF Send, WorkerDone, Prepare
<1>3. ASSUME NEW w \in Worker, Start(w) \/ StartFails(w) \/ Dial(w)
      PROVE  ExportsOK'
  <2>1. CASE Start(w)
    BY <2>1 DEF Start
  <2>3. CASE Dial(w)
    <3>1. /\ pc[w] = "dial" /\ UNCHANGED <<mode, exported>>
          /\ \/ pc' = [pc EXCEPT ![w] = "run"] /\ err' = [err EXCEPT ![w] = FALSE]
             \/ pc' = [pc EXCEPT ![w] = "stop"] /\ err' = [err EXCEPT ![w] = TRUE]
      BY <2>3 DEF Dial
    <3> QED BY <3>1
  <2>2. CASE StartFails(w)
    <3>1. /\ pc[w] = "start" /\ pc' = [pc EXCEPT ![w] = "report"]
          /\ err' = [err EXCEPT ![w] = TRUE] /\ UNCHANGED <<mode, exported>>
      BY <2>2 DEF StartFails, AfterStartFails
    <3> QED BY <3>1
  <2> QED BY <1>3, <2>1, <2>2, <2>3
<1>4. ASSUME NEW w \in Worker, Run(w)
      PROVE  ExportsOK'
  BY <1>4 DEF Run
<1>5. ASSUME NEW w \in Worker, RunFails(w) \/ Stop(w) \/ Remove(w)
      PROVE  ExportsOK'
  BY <1>5 DEF RunFails, AfterRunFails, Stop, Remove
<1>6. ASSUME NEW w \in Worker, NextMode(w)
      PROVE  ExportsOK'
  BY <1>6 DEF NextMode, SecondMode, Failed, Mode
<1>7. ASSUME NEW w \in Worker, Diff(w) \/ Report(w)
      PROVE  ExportsOK'
  BY <1>7 DEF Diff, Report, Return
<1>8. CASE UNCHANGED vars
  BY <1>8 DEF vars
<1> QED BY <1>1, <1>2, <1>3, <1>4, <1>5, <1>6, <1>7, <1>8 DEF Next, Work

-----------------------------------------------------------------------------
(* Containers and ports                                                    *)

ContainersOK == PortsOK /\ OwnContainerAnswers /\ NoContainerForgotten

\* A worker at work has a container's name of its own.
LEMMA MineDiffers ==
  ASSUME IInv, NEW w \in Worker, pc[w] \in AtWork
  PROVE  /\ Mine(w) \in Container
         /\ \A v \in Worker : Mine(v) = Mine(w) => v = w
BY DEF IInv, TypeOK, PlacesOK, Mine, Container

\* A step of a worker's that leaves docker alone and does not leave its container.
LEMMA ContainersKept ==
  ASSUME IInv, NEW w \in Worker, NEW l, Goto(w, l), docker' = docker,
         \A v \in Worker : v # w => job'[v] = job[v] /\ mode'[v] = mode[v],
         \/ /\ pc[w] \notin {"dial", "run", "stop", "rm"}
            /\ l \notin {"dial", "run"}
         \/ /\ pc[w] \in {"dial", "run", "stop"} /\ l \in {"run", "stop"}
            /\ pc[w] = "stop" => l = "stop"
            /\ Mine(w)' = Mine(w)
  PROVE  ContainersOK'
<1>1. \A v \in Worker : v # w => Mine(v)' = Mine(v)
  BY DEF Mine
<1> QED BY <1>1 DEF IInv, TypeOK, ContainersOK, PortsOK, OwnContainerAnswers, NoContainerForgotten,
                    Goto, docker, PortOf

LEMMA ContainersStep ==
  ASSUME IInv, [Next]_vars
  PROVE  ContainersOK'
<1>1. CASE Main \/ UNCHANGED vars
  BY <1>1 DEF Main, CloseQueue, Collect, vars, docker, IInv, ContainersOK, PortsOK,
              OwnContainerAnswers, NoContainerForgotten, Mine, PortOf
<1>2. ASSUME NEW w \in Worker, Send(w)
      PROVE  ContainersOK'
  BY <1>2, ContainersKept DEF Send, IInv, TypeOK
<1>3. ASSUME NEW w \in Worker, WorkerDone(w) \/ Prepare(w) \/ Dial(w) \/ Run(w) \/ RunFails(w)
      PROVE  ContainersOK'
  BY <1>3, ContainersKept DEF WorkerDone, Prepare, Dial, Run, RunFails, AfterRunFails, Goto, Mine, IInv, TypeOK
<1>4. ASSUME NEW w \in Worker, NextMode(w) \/ Diff(w) \/ Report(w)
      PROVE  ContainersOK'
  BY <1>4, ContainersKept DEF NextMode, Diff, Report, Return, Goto, IInv, TypeOK
<1> USE DEF IInv, TypeOK, ContainersOK, PortsOK, OwnContainerAnswers, NoContainerForgotten
<1>5. ASSUME NEW w \in Worker, Start(w)
      PROVE  ContainersOK'
  <2>1. /\ pc[w] = "start" /\ ~Busy(PortOf(w))
        /\ port' = [port EXCEPT ![Mine(w)] = PortOf(w)]
        /\ containers' = containers \cup {Mine(w)}
        /\ running' = running \cup {Mine(w)}
        /\ pc' = [pc EXCEPT ![w] = "dial"]
        /\ UNCHANGED <<job, mode, stuck, leaked>>
    BY <1>5 DEF Start, Goto
  <2>2. /\ Mine(w) \in Container
        /\ \A v \in Worker : Mine(v) = Mine(w) => v = w
        /\ \A v \in Worker : Mine(v)' = Mine(v) /\ PortOf(v)' = PortOf(v)
    BY <2>1, MineDiffers DEF AtWork, Mine, PortOf
  <2>3. /\ port'[Mine(w)] = PortOf(w)
        /\ \A c \in Container : c # Mine(w) => port'[c] = port[c]
        /\ pc'[w] = "dial" /\ \A v \in Worker : v # w => pc'[v] = pc[v]
    BY <2>1, <2>2
  <2>4. \A c \in running : port[c] # PortOf(w)
    BY <2>1 DEF Busy
  <2>5. ASSUME NEW c \in running, c # Mine(w)
        PROVE  \E v \in Worker : /\ port'[c] = PortOf(v)
                                 /\ v \in stuck \/ (Mine(v) = c /\ pc'[v] \in {"dial", "run", "stop"})
    <3>1. PICK v \in Worker : /\ port[c] = PortOf(v)
                              /\ v \in stuck \/ (Mine(v) = c /\ pc[v] \in {"dial", "run", "stop"})
      OBVIOUS
    <3> QED BY <2>3, <2>5, <3>1
  <2>6. PortsOK'
    BY <2>1, <2>2, <2>3, <2>5
  <2>7. OwnContainerAnswers'
    BY <2>1, <2>2, <2>3, <2>4, PortsDiffer
  <2>8. NoContainerForgotten'
    BY <2>1, <2>2, <2>3
  <2> QED BY <2>6, <2>7, <2>8
<1>6. ASSUME NEW w \in Worker, StartFails(w)
      PROVE  ContainersOK'
  <2>1. PICK created \in SUBSET {Mine(w)} :
          containers' = containers \cup created /\ leaked' = leaked \cup created
    BY <1>6 DEF StartFails
  <2>2. /\ pc[w] = "start" /\ pc' = [pc EXCEPT ![w] = "report"]
        /\ UNCHANGED <<job, mode, port, running, stuck>>
    BY <1>6 DEF StartFails, AfterStartFails, Goto
  <2>3. \A v \in Worker : Mine(v)' = Mine(v) /\ PortOf(v)' = PortOf(v)
    BY <2>2 DEF Mine, PortOf
  <2> QED BY <2>1, <2>2, <2>3
<1>7. ASSUME NEW w \in Worker, Stop(w)
      PROVE  ContainersOK'
  <2>1. /\ pc[w] = "stop" /\ pc' = [pc EXCEPT ![w] = "rm"]
        /\ UNCHANGED <<job, mode, port, containers, leaked>>
        /\ \/ running' = running \ {Mine(w)} /\ stuck' = stuck
           \/ running' = running /\ stuck' = stuck \cup {w}
    BY <1>7 DEF Stop, Goto
  <2>2. /\ \A v \in Worker : Mine(v) = Mine(w) => v = w
        /\ \A v \in Worker : Mine(v)' = Mine(v) /\ PortOf(v)' = PortOf(v)
    BY <2>1, MineDiffers DEF AtWork, Mine, PortOf
  <2>3. PortsOK'
    BY <2>1, <2>2
  <2>4. OwnContainerAnswers'
    BY <2>1, <2>2
  <2>5. NoContainerForgotten'
    BY <2>1, <2>2
  <2> QED BY <2>3, <2>4, <2>5
<1>8. ASSUME NEW w \in Worker, Remove(w)
      PROVE  ContainersOK'
  <2>1. /\ pc[w] = "rm" /\ pc' = [pc EXCEPT ![w] = "next"]
        /\ UNCHANGED <<job, mode, running, stuck>>
        /\ \/ /\ Mine(w) \notin running /\ containers' = containers \ {Mine(w)}
              /\ port' = [port EXCEPT ![Mine(w)] = 0] /\ leaked' = leaked
           \/ containers' = containers /\ port' = port /\ leaked' = leaked \cup {Mine(w)}
    BY <1>8 DEF Remove, Goto
  <2>2. /\ \A v \in Worker : Mine(v) = Mine(w) => v = w
        /\ \A v \in Worker : Mine(v)' = Mine(v) /\ PortOf(v)' = PortOf(v)
    BY <2>1, MineDiffers DEF AtWork, Mine, PortOf
  <2>3. \A c \in running : port'[c] = port[c]
    BY <2>1
  <2>4. PortsOK'
    BY <2>1, <2>2, <2>3
  <2>5. OwnContainerAnswers'
    BY <2>1, <2>2, <2>3
  <2>6. NoContainerForgotten'
    BY <2>1, <2>2
  <2> QED BY <2>4, <2>5, <2>6
<1> QED BY <1>1, <1>2, <1>3, <1>4, <1>5, <1>6, <1>7, <1>8 DEF Next, Work

-----------------------------------------------------------------------------
(* The invariant and what follows from it                                  *)

LEMMA Invariance == Spec => []IInv
<1>1. IInv /\ [Next]_vars => IInv'
  BY TypeStep, PlacesStep, ExportsStep, ContainersStep DEF IInv, ContainersOK
<1> QED BY InitInv, <1>1, PTL DEF Spec

\* The state of main, of the workers and of docker has its type.
THEOREM Typed == Spec => []TypeOK
<1>1. IInv => TypeOK
  BY DEF IInv
<1> QED BY Invariance, <1>1, PTL

\* However many workers share the host, the one that runs a playbook is answered by the
\* container it has started for that playbook and mode.
THEOREM AnswersOwn == Spec => []OwnContainerAnswers
<1>1. IInv => OwnContainerAnswers
  BY DEF IInv
<1> QED BY Invariance, <1>1, PTL

\* A port that basePort + worker finds taken is taken by a container which that worker
\* has failed to stop.
THEOREM PortsTakenByOwn == Spec => []PortTakenByOwn
<1>1. ASSUME IInv, NEW w \in Worker, pc[w] = "start", Busy(PortOf(w))
      PROVE  w \in stuck
  <2>1. PICK c \in running : port[c] = PortOf(w)
    BY <1>1 DEF Busy
  <2>2. PICK v \in Worker : /\ port[c] = PortOf(v)
                            /\ v \in stuck \/ pc[v] \in {"dial", "run", "stop"}
    BY <1>1 DEF IInv, PortsOK
  <2>3. v = w
    BY <2>1, <2>2, PortsDiffer
  <2> QED BY <1>1, <2>2, <2>3
<1>2. IInv => PortTakenByOwn
  BY <1>1 DEF PortTakenByOwn
<1> QED BY Invariance, <1>2, PTL

\* Every path through runPlaybook, its failures included, removes the container it has
\* started or has seen a docker command fail.
THEOREM NothingForgotten == Spec => []NoContainerForgotten
<1>1. IInv => NoContainerForgotten
  BY DEF IInv
<1> QED BY Invariance, <1>1, PTL

\* tardiff is given the file systems of both halves of the test.
THEOREM DiffsBoth == Spec => []DiffOfBoth
<1>1. IInv => DiffOfBoth
  BY DEF IInv, ExportsOK, DiffOfBoth
<1> QED BY Invariance, <1>1, PTL

\* run's verdict: nil exactly when every playbook's test has passed.
THEOREM Verdicts == Spec => []VerdictSound
<1>1. ASSUME IInv, main \in {"passed", "failed"}
      PROVE  main = "passed" <=> passed = Playbook
  <2>1. /\ main # "send" /\ closed /\ queue = <<>>
        /\ \A w \in Worker : pc[w] = "done" /\ job[w] = None
    BY <1>1 DEF IInv, TypeOK, PlacesOK, WorkersDone, AtWork
  <2>2. Range(queue) = {}
    BY <2>1 DEF Range
  <2>3. Playbook \subseteq errCh \cup passed
    BY <1>1, <2>1, <2>2, ConformanceAssumption DEF IInv, PlacesOK
  <2>4. errCh \cap passed = {} /\ errCh \subseteq Playbook /\ passed \subseteq Playbook
    BY <1>1 DEF IInv, TypeOK, PlacesOK
  <2>5. main = "passed" <=> errCh = {}
    BY <1>1 DEF IInv, PlacesOK
  <2> QED BY <2>3, <2>4, <2>5
<1>2. IInv => VerdictSound
  BY <1>1 DEF VerdictSound
<1> QED BY Invariance, <1>2, PTL

-----------------------------------------------------------------------------
(* Nobody waits for ever                                                   *)

\* A worker leaves the pool only when the channel is closed.
LeavesWhenClosed == \A w \in Worker : pc[w] = "done" => closed

\* errCh never makes a worker wait.
ErrorsFit == \A w \in Worker : pc[w] = "report" => Cardinality(errCh) < ErrRoom

\* Somebody has a step to take: an idle worker is sent a playbook or sees the channel
\* closed, one at work has nobody to wait for, main has nothing left to send, or wg.Wait
\* returns.
CanGoOn ==
  \/ main = "send" /\ (queue = <<>> \/ \E w \in Worker : pc[w] = "idle")
  \/ main = "wait" /\ WorkersDone
  \/ \E w \in Worker :
       \/ pc[w] = "idle" /\ closed
       \/ pc[w] \in AtWork \ {"report"}
       \/ pc[w] = "report" /\ Cardinality(errCh) < ErrRoom

NobodyBlocked == ErrorsFit /\ (main \in {"passed", "failed"} \/ CanGoOn)

\* There are as many playbooks as Glob has listed.
LEMMA PlaybooksCounted == IsFiniteSet(Playbook) /\ Cardinality(Playbook) = ErrRoom
<1>1. /\ Playbooks \in [1..Len(Playbooks) -> Playbook] /\ Len(Playbooks) \in Nat
      /\ DOMAIN Playbooks = 1..Len(Playbooks)
  BY ConformanceAssumption
<1>2. \A p \in Playbook : \E i \in 1..Len(Playbooks) : Playbooks[i] = p
  BY <1>1 DEF Playbook, Range
<1>3. Playbooks \in Bijection(1..Len(Playbooks), Playbook)
  BY <1>1, <1>2, ConformanceAssumption DEF Bijection, Injection, Surjection
<1>4. ExistsBijection(1..Len(Playbooks), Playbook)
  BY <1>3 DEF ExistsBijection
<1> QED BY <1>1, <1>4, FS_CountingElements, FS_NatBijection DEF ErrRoom

LEMMA LeavesStep ==
  ASSUME TypeOK, LeavesWhenClosed, [Next]_vars
  PROVE  LeavesWhenClosed'
<1> USE DEF TypeOK, LeavesWhenClosed, mains
<1>1. ASSUME NEW w \in Worker, NEW l, l # "done", Goto(w, l), closed' = closed
      PROVE  LeavesWhenClosed'
  BY <1>1 DEF Goto
<1>2. ASSUME NEW w \in Worker, Work(w), ~WorkerDone(w)
      PROVE  closed' = closed /\ \E l : l # "done" /\ Goto(w, l)
  <2>1. CASE Send(w) \/ Prepare(w) \/ Start(w) \/ Dial(w) \/ Run(w) \/ Stop(w) \/ Remove(w)
    BY <2>1 DEF Send, Prepare, Start, Dial, Run, Stop, Remove
  <2>2. CASE StartFails(w) \/ RunFails(w) \/ NextMode(w)
    BY <2>2 DEF StartFails, RunFails, NextMode, AfterStartFails, AfterRunFails
  <2>3. CASE Diff(w) \/ Report(w)
    BY <2>3 DEF Diff, Report, Return
  <2> QED BY <1>2, <2>1, <2>2, <2>3 DEF Work
<1>3. CASE \E w \in Worker : WorkerDone(w)
  BY <1>3 DEF WorkerDone, Goto
<1>4. CASE CloseQueue \/ Collect
  BY <1>4 DEF CloseQueue, Collect
<1>5. CASE UNCHANGED vars
  BY <1>5 DEF vars
<1> QED BY <1>1, <1>2, <1>3, <1>4, <1>5 DEF Next, Main

\* The playbook that a worker reports is not in errCh yet, so that errCh is not full.
LEMMA ErrorsFitAlways == IInv => ErrorsFit
<1> SUFFICES ASSUME IInv, NEW w \in Worker, pc[w] = "report"
             PROVE  Cardinality(errCh) < ErrRoom
  BY DEF ErrorsFit
<1>1. job[w] \in Playbook \ errCh /\ errCh \subseteq Playbook
  BY DEF IInv, TypeOK, PlacesOK, AtWork
<1>2. /\ IsFiniteSet(errCh) /\ Cardinality(errCh) <= Cardinality(Playbook)
      /\ Cardinality(errCh) # Cardinality(Playbook)
  BY <1>1, PlaybooksCounted, FS_Subset
<1>3. Cardinality(errCh) \in Nat /\ Cardinality(Playbook) \in Nat
  BY <1>2, PlaybooksCounted, FS_CardinalityType
<1> QED BY <1>2, <1>3, PlaybooksCounted

\* Whatever fails, no worker waits to hand over an error that main does not read yet, and
\* main and the workers never all wait for each other before the verdict.
THEOREM NobodyWaitsForEver == Spec => []NobodyBlocked
<1>1. Init => LeavesWhenClosed
  BY DEF Init, LeavesWhenClosed
<1>2. IInv /\ LeavesWhenClosed /\ [Next]_vars => LeavesWhenClosed'
  BY LeavesStep DEF IInv
<1>3. ASSUME IInv, LeavesWhenClosed, main \notin {"passed", "failed"}, ~CanGoOn
      PROVE  FALSE
  <2>1. ErrorsFit
    BY <1>3, ErrorsFitAlways
  <2>2. \A w \in Worker : pc[w] \notin AtWork
    BY <1>3, <2>1 DEF CanGoOn, ErrorsFit
  <2>3. \A w \in Worker : pc[w] = "idle" \/ pc[w] = "done"
    BY <1>3, <2>2 DEF IInv, TypeOK, AtWork
  <2>4. CASE main = "send"
    <3>1. \A w \in Worker : pc[w] = "done"
      BY <1>3, <2>3, <2>4 DEF CanGoOn
    <3> QED BY <1>3, <2>4, <3>1, ConformanceAssumption DEF LeavesWhenClosed, IInv, PlacesOK
  <2>5. CASE main = "wait"
    <3>1. closed
      BY <1>3, <2>5 DEF IInv, PlacesOK
    <3> QED BY <1>3, <2>3, <2>5, <3>1 DEF CanGoOn, WorkersDone
  <2> QED BY <1>3, <2>4, <2>5 DEF IInv, TypeOK
<1>4. IInv /\ LeavesWhenClosed => NobodyBlocked
  BY <1>3, ErrorsFitAlways DEF NobodyBlocked
<1> QED BY Invariance, <1>1, <1>2, <1>4, PTL DEF Spec

-----------------------------------------------------------------------------
(* Conformance implements Suite                                            *)

LEMMA SuiteInit == Init => S!Init
BY DEF Init, S!Init, Verdict

\* A worker's step other than the end of a test leaves the suite as it is.
LEMMA SuiteStep ==
  ASSUME IInv, [Next]_vars
  PROVE  [S!Next]_(S!vars)
<1> USE DEF IInv, TypeOK, mains, docker, S!vars, Verdict
<1>1. CASE CloseQueue
  BY <1>1 DEF CloseQueue
<1>2. CASE Collect
  <2>1. /\ main = "wait" /\ Verdict = "none"
        /\ \A w \in Worker : pc[w] = "done" /\ job[w] = None
        /\ queue = <<>>
    BY <1>2 DEF Collect, WorkersDone, PlacesOK, AtWork
  <2>2. S!Untested = {}
    BY <2>1, ConformanceAssumption DEF PlacesOK, S!Untested, Range
  <2>3. Verdict' = IF errCh = {} THEN "passed" ELSE "failed"
    BY <1>2 DEF Collect
  <2>4. UNCHANGED <<passed, errCh>>
    BY <1>2 DEF Collect
  <2> QED BY <2>1, <2>2, <2>3, <2>4 DEF S!Next, S!Conclude
<1>3. ASSUME NEW w \in Worker,
             \/ Send(w) \/ WorkerDone(w) \/ Prepare(w) \/ Start(w) \/ StartFails(w) \/ Dial(w)
             \/ Run(w) \/ RunFails(w) \/ Stop(w) \/ Remove(w) \/ NextMode(w)
      PROVE  UNCHANGED <<main, errCh, passed>>
  BY <1>3 DEF Send, WorkerDone, Prepare, Start, StartFails, Dial, Run, RunFails, Stop, Remove,
              NextMode
<1>4. ASSUME NEW w \in Worker, Diff(w) \/ Report(w)
      PROVE  [S!Next]_(S!vars)
  <2>1. /\ pc[w] \in AtWork /\ job[w] \in S!Untested /\ main' = main
    BY <1>4 DEF Diff, Report, AtWork, PlacesOK, S!Untested
  <2>2. Verdict = "none" /\ Verdict' = "none"
    BY <2>1 DEF PlacesOK, WorkersDone, AtWork
  <2>3. CASE UNCHANGED <<errCh, passed>>
    BY <2>2, <2>3
  <2>4. CASE passed' = passed \cup {job[w]} /\ errCh' = errCh
    BY <2>1, <2>2, <2>4 DEF S!Next, S!Pass
  <2>5. CASE errCh' = errCh \cup {job[w]} /\ passed' = passed
    BY <2>1, <2>2, <2>5 DEF S!Next, S!Fail
  <2> QED BY <1>4, <2>3, <2>4, <2>5 DEF Diff, Report
<1>5. CASE UNCHANGED vars
  BY <1>5 DEF vars
<1> QED BY <1>1, <1>2, <1>3, <1>4, <1>5 DEF Next, Main, Work

\* The safety half of ImplementsSuite: every step of a worker, of main and of docker is
\* the end of one playbook's test, the verdict, or nothing to the suite.
THEOREM Implements == Spec => S!Safety
<1>1. Spec => Init /\ [][Next]_vars
  BY PTL DEF Spec
<1>2. IInv /\ [Next]_vars => [S!Next]_(S!vars)
  BY SuiteStep
<1> QED BY <1>1, <1>2, SuiteInit, Invariance, PTL DEF S!Safety
=============================================================================
