---------------------------- MODULE FleetProofs ----------------------------
(***************************************************************************)
(* Theorems about which hosts there are (Inventory) and how the dialers    *)
(* visit them (Dialer), and about the two together: for any number of      *)
(* dialers, hosts and names, and for any finite forest of groups, of any   *)
(* depth and with any names, hosts and variables.                          *)
(***************************************************************************)
EXTENDS Dialer, Inventory, WellFoundedInduction, FiniteSetTheorems, TLAPS

\* What a dialer holds where it is: a directory exactly while it is in Execute, and
\* an executer of its own only while it waits for it or has lost it.
HeldOK ==
  \A d \in Dialer :
    /\ dir[d] # NoDir <=> pc[d] \in InExecute
    /\ pc[d] \in {"connect", "mkdir", "close"} \cup InExecute => host[d] \in Host
    /\ pc[d] \in InExecute /\ Here(d) \in executing =>
         pc[d] = "wait" \/ (pc[d] = "cleanup" /\ link[d] = "lost")

\* Which hosts a dialer has behind it.
AccountsOK ==
  \A d \in Dialer :
    /\ pc[d] \in {"next", "exit"} => Host \subseteq todo[d] \cup applied[d]
    /\ pc[d] = "exit" => todo[d] = {}
    /\ pc[d] \notin {"next"} \cup Ended => Host \subseteq todo[d] \cup applied[d] \cup {host[d]}
    /\ pc[d] \in {"cleanup", "close"} /\ ~failed[d] => host[d] \in applied[d]
    /\ \E h \in Host \cup {NoHost} : Host \subseteq todo[d] \cup applied[d] \cup {h}

\* The directories: DirExclusive needs that the others own what they have made.
DirsOK == DirExclusive /\ OwnDirIntact /\ ExecuterHasItsFiles /\ NoLeftover

IInv == TypeOK /\ HeldOK /\ AccountsOK /\ DirsOK

LEMMA InitInv == Init => IInv
<1> SUFFICES ASSUME Init PROVE IInv
  OBVIOUS
<1>1. TypeOK
  BY DEF Init, TypeOK
<1>2. HeldOK
  BY DEF Init, HeldOK, InExecute
<1>3. AccountsOK
  BY DEF Init, AccountsOK, Ended
<1>4. DirsOK
  BY DEF Init, DirsOK, DirExclusive, OwnDirIntact, ExecuterHasItsFiles, NoLeftover
<1> QED BY <1>1, <1>2, <1>3, <1>4 DEF IInv

-----------------------------------------------------------------------------
(* Types                                                                   *)

LEMMA TypeStep ==
  ASSUME IInv, [Next]_vars
  PROVE  TypeOK'
<1> USE DEF IInv, TypeOK, Goto, remote, Here, File, InExecute, Ended
<1>1. ASSUME NEW d \in Dialer, Step(d)
      PROVE  TypeOK'
  <2>1. CASE NextHost(d)
    BY <2>1 DEF NextHost
  <2>2. CASE Exit(d) \/ Connect(d) \/ ConnectFails(d)
    BY <2>2 DEF Exit, Connect, ConnectFails
  <2>3. CASE MakeDir(d)
    <3>1. PICK n \in Dir : dirs' = dirs \cup {<<host[d], n>>} /\ dir' = [dir EXCEPT ![d] = n]
      BY <2>3 DEF MakeDir
    <3>2. host[d] \in Host
      BY <2>3 DEF MakeDir, HeldOK
    <3>3. dirs' \in SUBSET (Host \X Dir) /\ dir' \in [Dialer -> Dir \cup {NoDir}]
      BY <3>1, <3>2
    <3> QED BY <2>3, <3>3 DEF MakeDir
  <2>4. CASE MakeDirFails(d)
    BY <2>4 DEF MakeDirFails, Deferred, AfterMakeDirFails
  <2>5. CASE MakeDirUnanswered(d)
    <3>1. PICK n \in Dir : /\ dirs' = dirs \cup {<<host[d], n>>}
                          /\ orphans' = orphans \cup {<<host[d], n>>}
      BY <2>5 DEF MakeDirUnanswered
    <3>2. host[d] \in Host
      BY <2>5 DEF MakeDirUnanswered, HeldOK
    <3>3. dirs' \in SUBSET (Host \X Dir) /\ orphans' \in SUBSET (Host \X Dir)
      BY <3>1, <3>2
    <3> QED BY <2>5, <3>3 DEF MakeDirUnanswered, AfterMakeDirFails
  <2>6. CASE Upload(d)
    <3>1. pc[d] \in File /\ host[d] \in Host /\ dir[d] \in Dir
      BY <2>6 DEF Upload, HeldOK
    <3>2. uploaded' \in SUBSET (Host \X Dir \X File)
      BY <2>6, <3>1 DEF Upload
    <3>3. After(pc[d]) \in InExecute
      BY <3>1 DEF After
    <3>4. pc' \in [Dialer -> {"next", "connect", "mkdir", "close"} \cup InExecute \cup Ended]
      BY <2>6, <3>3 DEF Upload
    <3> QED BY <2>6, <3>2, <3>4 DEF Upload
  <2>7. CASE UploadFails(d) \/ SessionFails(d)
    BY <2>7 DEF UploadFails, SessionFails, OnError
  <2>8. CASE StartExecuter(d)
    BY <2>8 DEF StartExecuter, HeldOK
  <2>9. CASE ExecuterReturns(d) \/ WaitFails(d)
    <3>1. CASE ExecuterReturns(d)
      <4>1. PICK ok \in BOOLEAN :
              /\ failed' = [failed EXCEPT ![d] = ~ok]
              /\ applied' = IF ok THEN [applied EXCEPT ![d] = @ \cup {host[d]}] ELSE applied
        BY <3>1 DEF ExecuterReturns
      <4>2. failed' \in [Dialer -> BOOLEAN]
        BY <4>1
      <4>3. host[d] \in Host
        BY <3>1 DEF ExecuterReturns, HeldOK
      <4>4. applied' \in [Dialer -> SUBSET Host]
        BY <4>1, <4>3
      <4> QED BY <3>1, <4>2, <4>4 DEF ExecuterReturns
    <3>2. CASE WaitFails(d)
      BY <3>2 DEF WaitFails
    <3> QED BY <2>9, <3>1, <3>2
  <2>10. CASE Cleanup(d) \/ CleanupFails(d)
    BY <2>10 DEF Cleanup, CleanupFails, HeldOK
  <2>11. CASE Close(d)
    BY <2>11 DEF Close, AfterClose
  <2> QED BY <1>1, <2>1, <2>2, <2>3, <2>4, <2>5, <2>6, <2>7, <2>8, <2>9, <2>10, <2>11 DEF Step
<1>2. ASSUME NEW d \in Dialer, LoseLink(d) \/ Kill(d)
      PROVE  TypeOK'
  BY <1>2 DEF LoseLink, Kill, HeldOK
<1>3. CASE OrphanEnds
  BY <1>3 DEF OrphanEnds
<1>4. CASE UNCHANGED vars
  BY <1>4 DEF vars
<1> QED BY <1>1, <1>2, <1>3, <1>4 DEF Next

-----------------------------------------------------------------------------
(* Accounts                                                                *)

LEMMA AccountsStep ==
  ASSUME IInv, [Next]_vars
  PROVE  AccountsOK'
<1> USE DEF IInv, TypeOK, AccountsOK, Goto, InExecute, Ended
<1>1. ASSUME NEW d \in Dialer, Step(d)
      PROVE  AccountsOK'
  <2>1. CASE NextHost(d)
    <3>1. PICK h \in todo[d] : host' = [host EXCEPT ![d] = h]
                              /\ todo' = [todo EXCEPT ![d] = @ \ {h}]
      BY <2>1 DEF NextHost
    <3>2. pc[d] = "next" /\ pc' = [pc EXCEPT ![d] = "connect"] /\ UNCHANGED <<applied, failed>>
      BY <2>1 DEF NextHost
    <3>3. Host \subseteq todo'[d] \cup applied'[d] \cup {h} /\ h \in Host
      BY <3>1, <3>2
    <3> QED BY <3>1, <3>2, <3>3
  <2>2. CASE Exit(d) \/ Connect(d) \/ ConnectFails(d)
    BY <2>2 DEF Exit, Connect, ConnectFails
  <2>3. CASE MakeDir(d)
    BY <2>3 DEF MakeDir
  <2>4. CASE MakeDirFails(d) \/ MakeDirUnanswered(d)
    BY <2>4 DEF MakeDirFails, MakeDirUnanswered, Deferred, AfterMakeDirFails
  <2>5. CASE Upload(d)
    BY <2>5 DEF Upload, After, File
  <2>6. CASE UploadFails(d) \/ SessionFails(d)
    BY <2>6 DEF UploadFails, SessionFails, OnError, File
  <2>7. CASE StartExecuter(d)
    BY <2>7 DEF StartExecuter
  <2>8. CASE ExecuterReturns(d)
    <3>1. PICK ok \in BOOLEAN :
            /\ failed' = [failed EXCEPT ![d] = ~ok]
            /\ applied' = IF ok THEN [applied EXCEPT ![d] = @ \cup {host[d]}] ELSE applied
      BY <2>8 DEF ExecuterReturns
    <3>2. pc[d] = "wait" /\ pc' = [pc EXCEPT ![d] = "cleanup"] /\ UNCHANGED <<todo, host>>
      BY <2>8 DEF ExecuterReturns
    <3>3. CASE ok
      BY <3>1, <3>2, <3>3
    <3>4. CASE ~ok
      BY <3>1, <3>2, <3>4
    <3> QED BY <3>3, <3>4
  <2>9. CASE WaitFails(d)
    BY <2>9 DEF WaitFails
  <2>10. CASE Cleanup(d) \/ CleanupFails(d)
    BY <2>10 DEF Cleanup, CleanupFails
  <2>11. CASE Close(d)
    BY <2>11 DEF Close, AfterClose
  <2> QED BY <1>1, <2>1, <2>2, <2>3, <2>4, <2>5, <2>6, <2>7, <2>8, <2>9, <2>10, <2>11 DEF Step
<1>2. ASSUME NEW d \in Dialer, LoseLink(d) \/ Kill(d)
      PROVE  AccountsOK'
  BY <1>2 DEF LoseLink, Kill
<1>3. CASE OrphanEnds
  BY <1>3 DEF OrphanEnds
<1>4. CASE UNCHANGED vars
  BY <1>4 DEF vars
<1> QED BY <1>1, <1>2, <1>3, <1>4 DEF Next

-----------------------------------------------------------------------------
(* What a dialer holds                                                     *)

LEMMA HeldStep ==
  ASSUME IInv, [Next]_vars
  PROVE  HeldOK'
<1> USE DEF IInv, TypeOK, HeldOK, Goto, InExecute, Ended, Here
<1>1. ASSUME NEW d \in Dialer, Step(d)
      PROVE  HeldOK'
  <2>1. CASE NextHost(d)
    <3>1. PICK h \in todo[d] : host' = [host EXCEPT ![d] = h]
      BY <2>1 DEF NextHost
    <3>2. /\ pc[d] = "next" /\ pc' = [pc EXCEPT ![d] = "connect"] /\ h \in Host
          /\ UNCHANGED <<dir, link, executing>>
      BY <2>1, <3>1 DEF NextHost, remote
    <3> QED BY <3>1, <3>2
  <2>2. CASE Exit(d) \/ Connect(d) \/ ConnectFails(d)
    <3>1. /\ UNCHANGED <<host, dir, executing>> /\ pc[d] \in {"next", "connect"}
          /\ \A e \in Dialer : e # d => link'[e] = link[e] /\ pc'[e] = pc[e]
          /\ pc'[d] \in {"exit", "mkdir", "fatal"} /\ (pc'[d] = "mkdir" => pc[d] = "connect")
      BY <2>2 DEF Exit, Connect, ConnectFails, remote
    <3> QED BY <3>1
  <2>3. CASE MakeDir(d)
    <3>1. PICK n \in Dir : <<host[d], n>> \notin dirs /\ dir' = [dir EXCEPT ![d] = n]
      BY <2>3 DEF MakeDir, CanMake
    <3>2. <<host[d], n>> \notin executing /\ n # NoDir
      BY <3>1, DialerAssumption DEF DirsOK, ExecuterHasItsFiles
    <3>3. /\ pc[d] = "mkdir" /\ pc' = [pc EXCEPT ![d] = "executer"]
          /\ UNCHANGED <<host, link, executing>>
      BY <2>3 DEF MakeDir
    <3> QED BY <3>1, <3>2, <3>3
  <2>4. CASE MakeDirFails(d)
    <3>1. /\ pc[d] = "mkdir" /\ pc' = [pc EXCEPT ![d] = "close"]
          /\ dir' = [dir EXCEPT ![d] = NoDir] /\ UNCHANGED <<host, link, executing>>
      BY <2>4 DEF MakeDirFails, Deferred, AfterMakeDirFails, remote
    <3> QED BY <3>1
  <2>5. CASE MakeDirUnanswered(d)
    <3>1. /\ pc[d] = "mkdir" /\ pc' = [pc EXCEPT ![d] = "close"]
          /\ link' = [link EXCEPT ![d] = "lost"] /\ UNCHANGED <<host, dir, executing>>
      BY <2>5 DEF MakeDirUnanswered, AfterMakeDirFails
    <3> QED BY <3>1
  <2>6. CASE Upload(d) \/ UploadFails(d) \/ SessionFails(d)
    <3>1. /\ pc[d] \in File \cup {"session"} /\ UNCHANGED <<host, dir, link, executing>>
          /\ pc' = [pc EXCEPT ![d] = pc'[d]] /\ pc'[d] \in {"inventory", "data", "session", "cleanup"}
      BY <2>6 DEF Upload, After, UploadFails, SessionFails, OnError, remote, File
    <3> QED BY <3>1 DEF File
  <2>7. CASE StartExecuter(d)
    <3>1. /\ pc[d] = "session" /\ pc' = [pc EXCEPT ![d] = "wait"] /\ dir[d] # NoDir
          /\ executing' = executing \cup {Here(d)} /\ UNCHANGED <<host, dir, link>>
      BY <2>7 DEF StartExecuter
    <3>2. \A e \in Dialer : e # d => Here(e) # Here(d)
      BY <3>1 DEF DirsOK, DirExclusive
    <3> QED BY <3>1, <3>2
  <2>8. CASE ExecuterReturns(d)
    <3>1. /\ pc[d] = "wait" /\ pc' = [pc EXCEPT ![d] = "cleanup"]
          /\ executing' = executing \ {Here(d)} /\ UNCHANGED <<host, dir, link>>
      BY <2>8 DEF ExecuterReturns
    <3> QED BY <3>1
  <2>9. CASE WaitFails(d)
    <3>1. /\ pc[d] = "wait" /\ link[d] = "lost" /\ pc' = [pc EXCEPT ![d] = "cleanup"]
          /\ UNCHANGED <<host, dir, link, executing>>
      BY <2>9 DEF WaitFails, remote
    <3> QED BY <3>1
  <2>10. CASE Cleanup(d) \/ CleanupFails(d)
    <3>1. /\ pc[d] = "cleanup" /\ pc' = [pc EXCEPT ![d] = "close"]
          /\ dir' = [dir EXCEPT ![d] = NoDir] /\ UNCHANGED <<host, link, executing>>
      BY <2>10 DEF Cleanup, CleanupFails
    <3> QED BY <3>1
  <2>11. CASE Close(d)
    <3>1. /\ pc[d] = "close" /\ pc' = [pc EXCEPT ![d] = pc'[d]] /\ pc'[d] \in {"next", "fatal"}
          /\ host' = [host EXCEPT ![d] = NoHost] /\ link' = [link EXCEPT ![d] = "none"]
          /\ UNCHANGED <<dir, executing>>
      BY <2>11 DEF Close, AfterClose, remote
    <3> QED BY <3>1
  <2> QED BY <1>1, <2>1, <2>2, <2>3, <2>4, <2>5, <2>6, <2>7, <2>8, <2>9, <2>10, <2>11 DEF Step
<1>2. ASSUME NEW d \in Dialer, LoseLink(d)
      PROVE  HeldOK'
  BY <1>2 DEF LoseLink, remote
<1>3. ASSUME NEW d \in Dialer, Kill(d)
      PROVE  HeldOK'
  <2>1. /\ pc' = [pc EXCEPT ![d] = "killed"] /\ dir' = [dir EXCEPT ![d] = NoDir]
        /\ link' = [link EXCEPT ![d] = "none"] /\ UNCHANGED <<host, executing>>
    BY <1>3 DEF Kill
  <2> QED BY <2>1
<1>4. CASE OrphanEnds \/ UNCHANGED vars
  BY <1>4 DEF OrphanEnds, vars
<1> QED BY <1>1, <1>2, <1>3, <1>4 DEF Next

-----------------------------------------------------------------------------
(* The directories                                                         *)

\* Nobody else has the name that Mkdir has made.
LEMMA ExclusiveStep ==
  ASSUME IInv, [Next]_vars
  PROVE  DirExclusive'
<1> USE DialerAssumption DEF IInv, TypeOK, DirsOK, DirExclusive, Here
<1>1. ASSUME UNCHANGED <<host, dir>>
      PROVE  DirExclusive'
  BY <1>1
<1>2. ASSUME NEW d \in Dialer, Step(d)
      PROVE  DirExclusive'
  <2>1. CASE NextHost(d)
    <3>1. dir[d] = NoDir /\ dir' = dir
      BY <2>1 DEF NextHost, HeldOK, InExecute
    <3>2. \A e \in Dialer : e # d => host'[e] = host[e]
      BY <2>1 DEF NextHost
    <3> QED BY <3>1, <3>2
  <2>2. CASE MakeDir(d)
    <3>1. PICK n \in Dir : <<host[d], n>> \notin dirs /\ dir' = [dir EXCEPT ![d] = n]
      BY <2>2 DEF MakeDir, CanMake
    <3>2. \A e \in Dialer : dir[e] # NoDir => <<host[e], dir[e]>> \in dirs
      BY DEF OwnDirIntact
    <3>3. host' = host
      BY <2>2 DEF MakeDir
    <3> QED BY <3>1, <3>2, <3>3
  <2>3. CASE Cleanup(d) \/ CleanupFails(d) \/ MakeDirFails(d)
    <3>1. dir' = [dir EXCEPT ![d] = NoDir] /\ host' = host
      BY <2>3 DEF Cleanup, CleanupFails, MakeDirFails, Deferred
    <3> QED BY <3>1
  <2>4. CASE Close(d)
    <3>1. dir[d] = NoDir /\ dir' = dir
      BY <2>4 DEF Close, HeldOK, InExecute
    <3>2. \A e \in Dialer : e # d => host'[e] = host[e]
      BY <2>4 DEF Close
    <3> QED BY <3>1, <3>2
  <2>5. CASE \/ Exit(d) \/ Connect(d) \/ ConnectFails(d) \/ MakeDirUnanswered(d) \/ Upload(d) \/ UploadFails(d)
             \/ StartExecuter(d) \/ SessionFails(d) \/ ExecuterReturns(d) \/ WaitFails(d)
    <3>1. UNCHANGED <<host, dir>>
      BY <2>5 DEF Exit, Connect, ConnectFails, MakeDirUnanswered, Upload, UploadFails, StartExecuter, SessionFails,
                  ExecuterReturns, WaitFails
    <3> QED BY <1>1, <3>1
  <2> QED BY <1>2, <2>1, <2>2, <2>3, <2>4, <2>5 DEF Step
<1>3. ASSUME NEW d \in Dialer, LoseLink(d)
      PROVE  DirExclusive'
  BY <1>1, <1>3 DEF LoseLink
<1>4. ASSUME NEW d \in Dialer, Kill(d)
      PROVE  DirExclusive'
  <2>1. \A e \in Dialer : \/ dir'[e] = dir[e] /\ host'[e] = host[e]
                          \/ e = d /\ dir'[e] = NoDir
    BY <1>4 DEF Kill
  <2> QED BY <2>1
<1>5. CASE OrphanEnds \/ UNCHANGED vars
  BY <1>1, <1>5 DEF OrphanEnds, vars
<1> QED BY <1>2, <1>3, <1>4, <1>5 DEF Next

\* A removal is of the dialer's own directory, which nobody else has.
LEMMA IntactStep ==
  ASSUME IInv, [Next]_vars
  PROVE  OwnDirIntact'
<1> USE DEF IInv, TypeOK, DirsOK, OwnDirIntact, Goto, Here
<1>1. ASSUME NEW d \in Dialer, Step(d)
      PROVE  OwnDirIntact'
  <2>1. CASE NextHost(d) \/ Close(d)
    <3>1. /\ dir[d] = NoDir /\ UNCHANGED <<dir, dirs, uploaded>>
          /\ \A e \in Dialer : e # d => host'[e] = host[e] /\ pc'[e] = pc[e]
      BY <2>1 DEF NextHost, Close, remote, HeldOK, InExecute
    <3> QED BY <3>1
  <2>2. CASE Exit(d) \/ Connect(d) \/ ConnectFails(d)
    <3>1. /\ dir[d] = NoDir /\ UNCHANGED <<host, dir, dirs, uploaded>>
          /\ \A e \in Dialer : e # d => pc'[e] = pc[e]
      BY <2>2 DEF Exit, Connect, ConnectFails, remote, HeldOK, InExecute
    <3> QED BY <3>1
  <2>3. CASE MakeDir(d)
    <3>1. PICK n \in Dir : dirs' = dirs \cup {<<host[d], n>>} /\ dir' = [dir EXCEPT ![d] = n]
      BY <2>3 DEF MakeDir
    <3>2. UNCHANGED <<host, uploaded>> /\ pc' = [pc EXCEPT ![d] = "executer"]
      BY <2>3 DEF MakeDir
    <3>3. Done("executer") = {}
      BY DEF Done
    <3> QED BY <3>1, <3>2, <3>3
  <2>4. CASE MakeDirFails(d)
    <3>1. /\ dir' = [dir EXCEPT ![d] = NoDir] /\ UNCHANGED <<host, dirs, uploaded>>
          /\ \A e \in Dialer : e # d => pc'[e] = pc[e]
      BY <2>4 DEF MakeDirFails, Deferred, remote
    <3> QED BY <3>1
  <2>5. CASE MakeDirUnanswered(d)
    <3>1. /\ dirs \subseteq dirs' /\ UNCHANGED <<host, dir, uploaded>> /\ dir[d] = NoDir
          /\ \A e \in Dialer : e # d => pc'[e] = pc[e]
      BY <2>5 DEF MakeDirUnanswered, HeldOK, InExecute
    <3> QED BY <3>1
  <2>6. CASE Upload(d)
    <3>1. /\ UNCHANGED <<host, dir, dirs>> /\ uploaded' = uploaded \cup {<<host[d], dir[d], pc[d]>>}
          /\ pc' = [pc EXCEPT ![d] = After(pc[d])] /\ pc[d] \in File
      BY <2>6 DEF Upload
    <3>2. Done(After(pc[d])) \subseteq Done(pc[d]) \cup {pc[d]}
      BY <3>1 DEF Done, After, File
    <3>3. /\ pc'[d] = After(pc[d])
          /\ \A e \in Dialer : e # d => pc'[e] = pc[e]
      BY <3>1
    <3>4. ASSUME NEW e \in Dialer, dir[e] # NoDir, NEW f \in Done(pc'[e])
          PROVE  <<host[e], dir[e], f>> \in uploaded'
      <4>1. CASE e # d
        BY <3>1, <3>3, <3>4, <4>1
      <4>2. CASE e = d
        BY <3>1, <3>2, <3>3, <3>4, <4>2
      <4> QED BY <4>1, <4>2
    <3> QED BY <3>1, <3>4
  <2>7. CASE UploadFails(d) \/ SessionFails(d) \/ WaitFails(d) \/ ExecuterReturns(d)
    <3>1. UNCHANGED <<host, dir, dirs, uploaded>> /\ pc' = [pc EXCEPT ![d] = "cleanup"]
      BY <2>7 DEF UploadFails, SessionFails, OnError, WaitFails, ExecuterReturns, remote
    <3>2. Done("cleanup") = {}
      BY DEF Done
    <3> QED BY <3>1, <3>2
  <2>8. CASE StartExecuter(d)
    <3>1. /\ UNCHANGED <<host, dir, dirs, uploaded>> /\ pc' = [pc EXCEPT ![d] = "wait"]
          /\ pc[d] = "session"
      BY <2>8 DEF StartExecuter
    <3>2. Done("wait") = Done("session")
      BY DEF Done
    <3> QED BY <3>1, <3>2
  <2>9. CASE Cleanup(d) \/ CleanupFails(d)
    <3>1. /\ dir[d] # NoDir /\ dir' = [dir EXCEPT ![d] = NoDir] /\ host' = host
          /\ \A e \in Dialer : e # d => pc'[e] = pc[e]
      BY <2>9 DEF Cleanup, CleanupFails, HeldOK, InExecute
    <3>2. /\ dirs \ {Here(d)} \subseteq dirs'
          /\ \A h, n, f : <<h, n, f>> \in uploaded /\ <<h, n>> # Here(d) => <<h, n, f>> \in uploaded'
      BY <2>9 DEF Cleanup, CleanupFails
    <3>3. \A e \in Dialer : e # d /\ dir[e] # NoDir => Here(e) # Here(d)
      BY <3>1 DEF DirExclusive
    <3> QED BY <3>1, <3>2, <3>3
  <2> QED BY <1>1, <2>1, <2>2, <2>3, <2>4, <2>5, <2>6, <2>7, <2>8, <2>9 DEF Step
<1>2. ASSUME NEW d \in Dialer, LoseLink(d)
      PROVE  OwnDirIntact'
  BY <1>2 DEF LoseLink, remote
<1>3. ASSUME NEW d \in Dialer, Kill(d)
      PROVE  OwnDirIntact'
  <2>1. /\ dir' = [dir EXCEPT ![d] = NoDir] /\ UNCHANGED <<host, dirs, uploaded>>
        /\ \A e \in Dialer : e # d => pc'[e] = pc[e]
    BY <1>3 DEF Kill
  <2> QED BY <2>1
<1>4. CASE OrphanEnds \/ UNCHANGED vars
  BY <1>4 DEF OrphanEnds, vars
<1> QED BY <1>1, <1>2, <1>3, <1>4 DEF Next

\* An executer starts when everything is there, and what is removed has none: a dialer
\* that has lost its executer has lost its connection with it.
LEMMA FilesStep ==
  ASSUME IInv, [Next]_vars
  PROVE  ExecuterHasItsFiles'
<1> USE DEF IInv, TypeOK, DirsOK, ExecuterHasItsFiles, Here
<1>1. ASSUME executing' \subseteq executing, dirs \subseteq dirs', uploaded \subseteq uploaded'
      PROVE  ExecuterHasItsFiles'
  BY <1>1
<1>2. ASSUME NEW d \in Dialer, Step(d)
      PROVE  ExecuterHasItsFiles'
  <2>1. CASE StartExecuter(d)
    <3>1. pc[d] = "session" /\ dir[d] # NoDir
      BY <2>1 DEF StartExecuter, HeldOK, InExecute
    <3>2. Here(d) \in dirs /\ \A f \in File : <<host[d], dir[d], f>> \in uploaded
      BY <3>1 DEF OwnDirIntact, Done
    <3>3. executing' = executing \cup {Here(d)} /\ UNCHANGED <<dirs, uploaded>>
      BY <2>1 DEF StartExecuter
    <3> QED BY <3>2, <3>3
  <2>2. CASE Cleanup(d) \/ CleanupFails(d)
    <3>1. /\ pc[d] = "cleanup" /\ executing' = executing
          /\ \/ UNCHANGED <<dirs, uploaded>>
             \/ CanRemove(d)
      BY <2>2 DEF Cleanup, CleanupFails
    <3>2. ASSUME CanRemove(d)
          PROVE  Here(d) \notin executing
      BY <3>1, <3>2 DEF CanRemove, HeldOK, InExecute
    <3>3. /\ dirs \ {Here(d)} \subseteq dirs'
          /\ \A h, n, f : <<h, n, f>> \in uploaded /\ <<h, n>> # Here(d) => <<h, n, f>> \in uploaded'
      BY <2>2 DEF Cleanup, CleanupFails
    <3>4. \A e \in executing : e = <<e[1], e[2]>>
      OBVIOUS
    <3> QED BY <3>1, <3>2, <3>3, <3>4
  <2>3. CASE MakeDir(d) \/ MakeDirUnanswered(d) \/ Upload(d) \/ ExecuterReturns(d)
    BY <1>1, <2>3 DEF MakeDir, MakeDirUnanswered, Upload, ExecuterReturns
  <2>4. CASE \/ NextHost(d) \/ Exit(d) \/ Connect(d) \/ ConnectFails(d) \/ MakeDirFails(d)
             \/ UploadFails(d) \/ SessionFails(d) \/ WaitFails(d) \/ Close(d)
    BY <1>1, <2>4 DEF NextHost, Exit, Connect, ConnectFails, MakeDirFails, UploadFails, SessionFails,
                      WaitFails, Close, remote
  <2> QED BY <1>2, <2>1, <2>2, <2>3, <2>4 DEF Step
<1>3. CASE OrphanEnds \/ UNCHANGED vars \/ \E d \in Dialer : LoseLink(d) \/ Kill(d)
  BY <1>1, <1>3 DEF OrphanEnds, vars, LoseLink, Kill, remote
<1> QED BY <1>2, <1>3 DEF Next

\* Who lets go of a directory has removed it, or it is an orphan.
LEMMA LeftoverStep ==
  ASSUME IInv, [Next]_vars
  PROVE  NoLeftover'
<1> USE DEF IInv, TypeOK, DirsOK, NoLeftover, Here
<1>1. ASSUME NEW d \in Dialer, Step(d)
      PROVE  NoLeftover'
  <2>1. CASE NextHost(d) \/ Close(d)
    <3>1. /\ dir[d] = NoDir /\ UNCHANGED <<dir, dirs, orphans>>
          /\ \A e \in Dialer : e # d => host'[e] = host[e]
      BY <2>1 DEF NextHost, Close, remote, HeldOK, InExecute
    <3> QED BY <3>1
  <2>2. CASE MakeDir(d)
    <3>1. PICK n \in Dir : dirs' = dirs \cup {<<host[d], n>>} /\ dir' = [dir EXCEPT ![d] = n]
      BY <2>2 DEF MakeDir
    <3>2. UNCHANGED <<host, orphans>> /\ dir[d] = NoDir /\ n # NoDir
      BY <2>2, <3>1, DialerAssumption DEF MakeDir, HeldOK, InExecute
    <3> QED BY <3>1, <3>2
  <2>3. CASE MakeDirFails(d)
    <3>1. /\ dir[d] = NoDir /\ dir' = [dir EXCEPT ![d] = NoDir] /\ UNCHANGED <<host, dirs, orphans>>
      BY <2>3 DEF MakeDirFails, Deferred, remote, HeldOK, InExecute
    <3> QED BY <3>1
  <2>4. CASE MakeDirUnanswered(d)
    <3>1. PICK n \in Dir : /\ dirs' = dirs \cup {<<host[d], n>>}
                          /\ orphans' = orphans \cup {<<host[d], n>>}
      BY <2>4 DEF MakeDirUnanswered
    <3>2. UNCHANGED <<host, dir>>
      BY <2>4 DEF MakeDirUnanswered
    <3> QED BY <3>1, <3>2
  <2>5. CASE Cleanup(d) \/ CleanupFails(d)
    <3>1. /\ dir' = [dir EXCEPT ![d] = NoDir] /\ host' = host /\ orphans \subseteq orphans'
          /\ dirs' \subseteq dirs /\ (Here(d) \in dirs' => Here(d) \in orphans')
      BY <2>5 DEF Cleanup, CleanupFails
    <3> QED BY <3>1
  <2>6. CASE \/ Exit(d) \/ Connect(d) \/ ConnectFails(d) \/ Upload(d) \/ UploadFails(d)
             \/ StartExecuter(d) \/ SessionFails(d) \/ ExecuterReturns(d) \/ WaitFails(d)
    <3>1. UNCHANGED <<host, dir, dirs, orphans>>
      BY <2>6 DEF Exit, Connect, ConnectFails, Upload, UploadFails, StartExecuter, SessionFails,
                  ExecuterReturns, WaitFails, remote
    <3> QED BY <3>1
  <2> QED BY <1>1, <2>1, <2>2, <2>3, <2>4, <2>5, <2>6 DEF Step
<1>2. ASSUME NEW d \in Dialer, Kill(d)
      PROVE  NoLeftover'
  <2>1. /\ dir' = [dir EXCEPT ![d] = NoDir] /\ UNCHANGED <<host, dirs>> /\ orphans \subseteq orphans'
        /\ (dir[d] # NoDir => Here(d) \in orphans')
    BY <1>2 DEF Kill
  <2> QED BY <2>1
<1>3. CASE OrphanEnds \/ UNCHANGED vars \/ \E d \in Dialer : LoseLink(d)
  <2>1. UNCHANGED <<host, dir, dirs, orphans>>
    BY <1>3 DEF OrphanEnds, vars, LoseLink, remote
  <2> QED BY <2>1
<1> QED BY <1>1, <1>2, <1>3 DEF Next

LEMMA DirsStep ==
  ASSUME IInv, [Next]_vars
  PROVE  DirsOK'
BY ExclusiveStep, IntactStep, FilesStep, LeftoverStep DEF DirsOK

-----------------------------------------------------------------------------
(* The theorems                                                            *)

LEMMA Invariance == Spec => []IInv
<1>1. IInv /\ [Next]_vars => IInv'
  BY TypeStep, HeldStep, AccountsStep, DirsStep DEF IInv
<1> QED BY <1>1, InitInv, PTL DEF Spec

\* Type correctness.
THEOREM Typed == Spec => []TypeOK
<1>1. IInv => TypeOK
  BY DEF IInv
<1> QED BY <1>1, Invariance, PTL

\* No two dialers ever work in the same directory of a host, although the names
\* are drawn at random and independently.
THEOREM Exclusive == Spec => []DirExclusive
<1>1. IInv => DirExclusive
  BY DEF IInv, DirsOK
<1> QED BY <1>1, Invariance, PTL

\* What a dialer has made and uploaded stays until it removes it itself.
THEOREM Intact == Spec => []OwnDirIntact
<1>1. IInv => OwnDirIntact
  BY DEF IInv, DirsOK
<1> QED BY <1>1, Invariance, PTL

\* A running executer never loses its files, with whatever connections are lost
\* and dialers killed.
THEOREM ExecuterSafe == Spec => []ExecuterHasItsFiles
<1>1. IInv => ExecuterHasItsFiles
  BY DEF IInv, DirsOK
<1> QED BY <1>1, Invariance, PTL

\* Execute leaves nothing behind but for a kill, a lost link or a failed removal.
THEOREM CleanHosts == Spec => []NoLeftover
<1>1. IInv => NoLeftover
  BY DEF IInv, DirsOK
<1> QED BY <1>1, Invariance, PTL

\* A dialer that exits with success has done every host, and at any time it has at
\* most one host half done.
THEOREM Accounted == Spec => []HostsAccounted
<1>1. IInv => HostsAccounted
  BY DEF IInv, TypeOK, AccountsOK, HostsAccounted
<1> QED BY <1>1, Invariance, PTL

-----------------------------------------------------------------------------
(* Dialer implements Rollout                                               *)

\* Which host a dialer may be at, and when it counts as done.
PlaceOK ==
  \A d \in Dialer :
    /\ applied[d] \cap todo[d] = {}
    /\ NoHost \notin applied[d] \cup todo[d]
    /\ pc[d] = "next" => host[d] = NoHost
    /\ pc[d] \notin {"next"} \cup Ended => host[d] \notin todo[d]
    /\ pc[d] \notin {"next", "cleanup", "close"} \cup Ended => host[d] \notin applied[d]
    /\ pc[d] \in {"cleanup", "close"} => (failed[d] <=> host[d] \notin applied[d])

RInv == IInv /\ PlaceOK

LEMMA HostsInit == Init => PlaceOK
BY DialerAssumption DEF Init, PlaceOK, Ended

LEMMA HostsStep ==
  ASSUME RInv, [Next]_vars
  PROVE  PlaceOK'
<1> USE DialerAssumption DEF RInv, IInv, TypeOK, HeldOK, PlaceOK, Goto, InExecute, Ended
<1>1. ASSUME NEW d \in Dialer, Step(d)
      PROVE  PlaceOK'
  <2>1. CASE NextHost(d)
    <3>1. PICK h \in todo[d] : host' = [host EXCEPT ![d] = h]
                              /\ todo' = [todo EXCEPT ![d] = @ \ {h}]
      BY <2>1 DEF NextHost
    <3>2. pc[d] = "next" /\ pc' = [pc EXCEPT ![d] = "connect"] /\ UNCHANGED <<applied, failed>>
      BY <2>1 DEF NextHost
    <3> QED BY <3>1, <3>2
  <2>2. CASE Exit(d) \/ Connect(d) \/ ConnectFails(d)
    BY <2>2 DEF Exit, Connect, ConnectFails
  <2>3. CASE MakeDir(d)
    BY <2>3 DEF MakeDir
  <2>4. CASE MakeDirFails(d) \/ MakeDirUnanswered(d)
    BY <2>4 DEF MakeDirFails, MakeDirUnanswered, Deferred, AfterMakeDirFails
  <2>5. CASE Upload(d)
    BY <2>5 DEF Upload, After, File
  <2>6. CASE UploadFails(d) \/ SessionFails(d)
    BY <2>6 DEF UploadFails, SessionFails, OnError, File
  <2>7. CASE StartExecuter(d)
    BY <2>7 DEF StartExecuter
  <2>8. CASE ExecuterReturns(d)
    <3>1. PICK ok \in BOOLEAN :
            /\ failed' = [failed EXCEPT ![d] = ~ok]
            /\ applied' = IF ok THEN [applied EXCEPT ![d] = @ \cup {host[d]}] ELSE applied
      BY <2>8 DEF ExecuterReturns
    <3>2. pc[d] = "wait" /\ pc' = [pc EXCEPT ![d] = "cleanup"] /\ UNCHANGED <<todo, host>>
      BY <2>8 DEF ExecuterReturns
    <3>3. host[d] \in Host /\ host[d] \notin todo[d] /\ host[d] \notin applied[d]
      BY <3>2
    <3>4. CASE ok
      <4>1. ~failed'[d] /\ applied' = [applied EXCEPT ![d] = @ \cup {host[d]}]
        BY <3>1, <3>4
      <4>2. \A e \in Dialer : applied'[e] = IF e = d THEN applied[d] \cup {host[d]} ELSE applied[e]
        BY <4>1
      <4>3. \A e \in Dialer : e # d => pc'[e] = pc[e] /\ failed'[e] = failed[e]
        BY <3>1, <3>2
      <4>4. applied'[d] \cap todo[d] = {} /\ NoHost \notin applied'[d] \cup todo[d]
        BY <3>3, <4>2
      <4>5. pc'[d] = "cleanup" /\ host[d] \in applied'[d] /\ host[d] \notin todo[d]
        BY <3>2, <3>3, <4>2
      <4> QED BY <3>2, <4>1, <4>2, <4>3, <4>4, <4>5
    <3>5. CASE ~ok
      BY <3>1, <3>2, <3>3, <3>5
    <3> QED BY <3>4, <3>5
  <2>9. CASE WaitFails(d)
    BY <2>9 DEF WaitFails
  <2>10. CASE Cleanup(d) \/ CleanupFails(d)
    BY <2>10 DEF Cleanup, CleanupFails
  <2>11. CASE Close(d)
    BY <2>11 DEF Close, AfterClose
  <2> QED BY <1>1, <2>1, <2>2, <2>3, <2>4, <2>5, <2>6, <2>7, <2>8, <2>9, <2>10, <2>11 DEF Step
<1>2. ASSUME NEW d \in Dialer, LoseLink(d) \/ Kill(d)
      PROVE  PlaceOK'
  BY <1>2 DEF LoseLink, Kill
<1>3. CASE OrphanEnds
  BY <1>3 DEF OrphanEnds
<1>4. CASE UNCHANGED vars
  BY <1>4 DEF vars
<1> QED BY <1>1, <1>2, <1>3, <1>4 DEF Next

LEMMA HostsInvariance == Spec => []RInv
<1>1. Init => RInv
  BY InitInv, HostsInit DEF RInv
<1>2. RInv /\ [Next]_vars => RInv'
  BY TypeStep, HeldStep, AccountsStep, DirsStep, HostsStep DEF RInv, IInv
<1> QED BY <1>1, <1>2, PTL DEF Spec

\* Moving from one place inside Execute to another is nothing to the rollout.
LEMMA RolloutKept ==
  ASSUME TypeOK, NEW d \in Dialer, NEW l, Goto(d, l), pc[d] \notin Ended, l \notin Ended,
         UNCHANGED <<todo, host, applied>>
  PROVE  UNCHANGED R!vars
<1>1. \A e \in Dialer : pc'[e] \in Ended <=> pc[e] \in Ended
  BY DEF TypeOK, Goto
<1>2. \A e \in Dialer : pc[e] \in Ended => pc'[e] = pc[e]
  BY DEF TypeOK, Goto
<1>3. Current' = Current
  BY <1>1 DEF Current
<1>4. Outcome' = Outcome
  BY <1>1, <1>2 DEF Outcome
<1> QED BY <1>3, <1>4 DEF R!vars

\* How a dialer ends.
LEMMA RolloutEnds ==
  ASSUME TypeOK, NEW d \in Dialer, NEW l \in Ended, Goto(d, l), pc[d] \notin Ended,
         \A e \in Dialer : e # d => host'[e] = host[e],
         UNCHANGED <<todo, applied>>
  PROVE  R!End(d, l)
<1>1. Outcome[d] = "running" /\ Outcome' = [Outcome EXCEPT ![d] = l]
  BY DEF TypeOK, Goto, Outcome
<1>2. Current' = [Current EXCEPT ![d] = NoHost]
  BY DEF TypeOK, Goto, Current
<1> QED BY <1>1, <1>2 DEF R!End

LEMMA RolloutStep ==
  ASSUME RInv, [Next]_vars
  PROVE  [R!Next]_(R!vars)
<1>t. TypeOK
  BY DEF RInv, IInv
<1>1. ASSUME NEW d \in Dialer, Step(d)
      PROVE  [R!Next]_(R!vars)
  <2> USE <1>t
  <2>1. CASE NextHost(d)
    <3>1. PICK h \in todo[d] : host' = [host EXCEPT ![d] = h]
                              /\ todo' = [todo EXCEPT ![d] = @ \ {h}]
      BY <2>1 DEF NextHost
    <3>2. /\ pc[d] = "next" /\ pc' = [pc EXCEPT ![d] = "connect"] /\ applied' = applied
          /\ host[d] = NoHost
      BY <2>1 DEF NextHost, Goto, RInv, PlaceOK
    <3>3. Current[d] = NoHost /\ Current' = [Current EXCEPT ![d] = h]
      BY <3>1, <3>2 DEF TypeOK, Current, Ended
    <3>4. Outcome[d] = "running" /\ Outcome' = Outcome
      BY <3>2 DEF TypeOK, Outcome, Ended
    <3>5. R!Take(d)
      BY <3>1, <3>2, <3>3, <3>4 DEF R!Take
    <3> QED BY <3>5 DEF R!Next, R!Step
  <2>2. CASE Exit(d)
    <3>1. R!End(d, "exit")
      BY <2>2, RolloutEnds DEF Exit, Ended
    <3>2. Current[d] = NoHost /\ todo[d] = {}
      BY <2>2 DEF Exit, Current, Ended, RInv, PlaceOK
    <3> QED BY <3>1, <3>2 DEF R!Next, R!Step, R!Exit
  <2>3. CASE ConnectFails(d)
    <3>1. R!End(d, "fatal")
      BY <2>3, RolloutEnds DEF ConnectFails, Ended
    <3>2. R!Pending(d)
      BY <2>3, DialerAssumption DEF ConnectFails, Current, Ended, RInv, PlaceOK, IInv, HeldOK, R!Pending
    <3> QED BY <3>1, <3>2 DEF R!Next, R!Step, R!Fail
  <2>4. CASE \/ Connect(d) \/ MakeDir(d) \/ MakeDirFails(d) \/ MakeDirUnanswered(d) \/ Upload(d)
             \/ UploadFails(d) \/ StartExecuter(d) \/ SessionFails(d) \/ WaitFails(d)
             \/ Cleanup(d) \/ CleanupFails(d)
    <3>1. /\ pc[d] \notin Ended /\ UNCHANGED <<todo, host, applied>>
          /\ \E l : l \notin Ended /\ Goto(d, l)
      <4>1. CASE Connect(d) \/ MakeDir(d)
        BY <4>1 DEF Connect, MakeDir, Ended
      <4>2. CASE MakeDirFails(d) \/ MakeDirUnanswered(d)
        BY <4>2 DEF MakeDirFails, MakeDirUnanswered, AfterMakeDirFails, Ended
      <4>3. CASE Upload(d)
        BY <4>3 DEF Upload, After, File, Ended
      <4>4. CASE UploadFails(d) \/ SessionFails(d)
        BY <4>4 DEF UploadFails, SessionFails, OnError, File, Ended
      <4>5. CASE StartExecuter(d) \/ WaitFails(d)
        BY <4>5 DEF StartExecuter, WaitFails, Ended
      <4>6. CASE Cleanup(d) \/ CleanupFails(d)
        BY <4>6 DEF Cleanup, CleanupFails, Ended
      <4> QED BY <2>4, <4>1, <4>2, <4>3, <4>4, <4>5, <4>6 DEF remote
    <3> QED BY <3>1, RolloutKept
  <2>5. CASE ExecuterReturns(d)
    <3>1. PICK ok \in BOOLEAN :
            applied' = IF ok THEN [applied EXCEPT ![d] = @ \cup {host[d]}] ELSE applied
      BY <2>5 DEF ExecuterReturns
    <3>2. pc[d] = "wait" /\ Goto(d, "cleanup") /\ UNCHANGED <<todo, host>>
      BY <2>5 DEF ExecuterReturns
    <3>3. CASE ~ok
      BY <3>1, <3>2, <3>3, RolloutKept DEF Ended
    <3>4. CASE ok
      <4>1. Current' = Current /\ Outcome' = Outcome
        BY <3>2 DEF TypeOK, Goto, Current, Outcome, Ended
      <4>2. Current[d] = host[d] /\ Outcome[d] = "running"
        BY <3>2 DEF Current, Outcome, Ended
      <4>3. host[d] \in Host /\ host[d] \notin applied[d]
        BY <3>2 DEF RInv, IInv, HeldOK, PlaceOK, InExecute, Ended
      <4>4. R!Apply(d)
        BY <3>1, <3>2, <3>4, <4>1, <4>2, <4>3, DialerAssumption DEF R!Apply, R!Pending
      <4> QED BY <4>4 DEF R!Next, R!Step
    <3> QED BY <3>3, <3>4
  <2>6. CASE Close(d)
    <3>1. /\ pc[d] = "close" /\ host' = [host EXCEPT ![d] = NoHost]
          /\ UNCHANGED <<todo, applied>>
          /\ host[d] \in Host /\ Current[d] = host[d] /\ Outcome[d] = "running"
          /\ failed[d] <=> host[d] \notin applied[d]
      BY <2>6 DEF Close, RInv, IInv, HeldOK, PlaceOK, Current, Outcome, Ended
    <3>2. CASE failed[d]
      <4>1. R!End(d, "fatal")
        BY <2>6, <3>1, <3>2, RolloutEnds DEF Close, AfterClose, Ended, TypeOK
      <4>2. R!Pending(d)
        BY <3>1, <3>2, DialerAssumption DEF R!Pending
      <4> QED BY <4>1, <4>2 DEF R!Next, R!Step, R!Fail
    <3>3. CASE ~failed[d]
      <4>1. pc' = [pc EXCEPT ![d] = "next"]
        BY <2>6, <3>3 DEF Close, AfterClose, Goto
      <4>2. Current' = [Current EXCEPT ![d] = NoHost] /\ Outcome' = Outcome
        BY <3>1, <4>1 DEF TypeOK, Current, Outcome, Ended
      <4>3. R!Leave(d)
        BY <3>1, <3>3, <4>2 DEF R!Leave
      <4> QED BY <4>3 DEF R!Next, R!Step
    <3> QED BY <3>2, <3>3
  <2> QED BY <1>1, <2>1, <2>2, <2>3, <2>4, <2>5, <2>6 DEF Step
<1>2. ASSUME NEW d \in Dialer, LoseLink(d)
      PROVE  [R!Next]_(R!vars)
  BY <1>2 DEF LoseLink, R!vars, Current, Outcome
<1>3. ASSUME NEW d \in Dialer, Kill(d)
      PROVE  [R!Next]_(R!vars)
  <2>1. R!End(d, "killed")
    BY <1>t, <1>3, RolloutEnds DEF Kill, Ended
  <2> QED BY <2>1 DEF R!Next, R!Kill
<1>4. CASE OrphanEnds \/ UNCHANGED vars
  BY <1>4 DEF OrphanEnds, vars, R!vars, Current, Outcome
<1> QED BY <1>1, <1>2, <1>3, <1>4 DEF Next

LEMMA RolloutInit == Init => R!Init
BY DEF Init, R!Init, Current, Outcome, Ended

\* The safety half of ImplementsRollout, for any number of dialers and hosts: through
\* lost connections, failures and kills no host is taken after a failure or twice, and
\* success is every host's.
THEOREM Implements == Spec => R!Safety
<1>1. Spec => Init /\ [][Next]_vars
  BY PTL DEF Spec
<1>2. RInv /\ [Next]_vars => [R!Next]_(R!vars)
  BY RolloutStep
<1> QED BY <1>1, <1>2, RolloutInit, HostsInvariance, PTL DEF R!Safety

-----------------------------------------------------------------------------
(* The inventory's trees of groups.  A fact of the recursive functions is  *)
(* carried up the forest from the first group that could break it (Least); *)
(* the calls of NodeVars, below, keep what they have collected so far      *)
(* within the same bounds.                                                 *)

\* The groups under g, at once; g and those above h; how deep a group is.
Kids(inv, g) == {c \in Group : inv.parent[c] = g}
Closed(inv, S) == \A x \in S : inv.parent[x] # Root => inv.parent[x] \in S
Up(inv, h) == {g \in Group : \A S \in SUBSET Group : h \in S /\ Closed(inv, S) => g \in S}
IsDepth(parent, depth) ==
  /\ depth \in [Group -> 1..Cardinality(Group)]
  /\ \A g \in Group : parent[g] # Root => depth[parent[g]] < depth[g]
Depth(inv) == CHOOSE depth : IsDepth(inv.parent, depth)

LEMMA InvType ==
  ASSUME NEW inv \in Inventories
  PROVE  /\ inv.parent \in [Group -> Group \cup {Root}] /\ inv.hosts \in [Group -> SUBSET HostName]
         /\ inv.defines \in [Group -> SUBSET Var] /\ inv.gives \in [Group -> SUBSET Var]
         /\ Root \notin Group
BY InventoryAssumption DEF InventoryType

LEMMA DepthType ==
  ASSUME NEW inv \in Inventories
  PROVE  /\ Cardinality(Group) \in Nat
         /\ \A g \in Group : Depth(inv)[g] \in 1..Cardinality(Group)
         /\ \A g \in Group : inv.parent[g] # Root => Depth(inv)[inv.parent[g]] < Depth(inv)[g]
<1>1. Cardinality(Group) \in Nat
  BY InventoryAssumption, FS_CardinalityType
<1>2. \E depth : IsDepth(inv.parent, depth)
  BY InventoryAssumption DEF IsForest, IsDepth
<1>3. IsDepth(inv.parent, Depth(inv))
  BY <1>2 DEF Depth
<1> QED BY <1>1, <1>3 DEF IsDepth

LEMMA UpSelf ==
  ASSUME NEW inv \in Inventories, NEW h \in Group
  PROVE  h \in Up(inv, h)
BY DEF Up

LEMMA UpParent ==
  ASSUME NEW inv \in Inventories, NEW h \in Group, NEW g \in Up(inv, h), inv.parent[g] # Root
  PROVE  inv.parent[g] \in Up(inv, h)
BY InvType DEF Up, Closed

LEMMA UpLeast ==
  ASSUME NEW inv \in Inventories, NEW h \in Group, NEW S \in SUBSET Group, h \in S,
         \A x \in S : inv.parent[x] # Root => inv.parent[x] \in S
  PROVE  Up(inv, h) \subseteq S
BY DEF Up, Closed

\* What is above a group is the group and what is above its parent.
LEMMA UpStep ==
  ASSUME NEW inv \in Inventories, NEW h \in Group
  PROVE  Up(inv, h) = {h} \cup (IF inv.parent[h] = Root THEN {} ELSE Up(inv, inv.parent[h]))
<1> DEFINE S == {h} \cup (IF inv.parent[h] = Root THEN {} ELSE Up(inv, inv.parent[h]))
<1>1. S \in SUBSET Group
  BY DEF Up
<1>2. \A x \in S : inv.parent[x] # Root => inv.parent[x] \in S
  <2> SUFFICES ASSUME NEW x \in S, inv.parent[x] # Root PROVE inv.parent[x] \in S
    OBVIOUS
  <2>1. CASE x = h
    BY <2>1, InvType, UpSelf
  <2>2. CASE inv.parent[h] # Root /\ x \in Up(inv, inv.parent[h])
    <3>1. inv.parent[h] \in Group
      BY <2>2, InvType
    <3> QED BY <2>2, <3>1, UpParent
  <2> QED BY <2>1, <2>2
<1>3. Up(inv, h) \subseteq S
  <2> HIDE DEF S
  <2>1. h \in S
    BY DEF S
  <2> QED BY <1>1, <1>2, <2>1, UpLeast
<1>4. inv.parent[h] # Root => Up(inv, inv.parent[h]) \subseteq Up(inv, h)
  <2> SUFFICES ASSUME inv.parent[h] # Root PROVE Up(inv, inv.parent[h]) \subseteq Up(inv, h)
    OBVIOUS
  <2>1. inv.parent[h] \in Group /\ inv.parent[h] \in Up(inv, h) /\ Up(inv, h) \in SUBSET Group
    BY InvType, UpSelf, UpParent DEF Up
  <2> QED BY <2>1, UpLeast, UpParent
<1> QED BY <1>3, <1>4, UpSelf

LEMMA UpDepth ==
  ASSUME NEW inv \in Inventories, NEW h \in Group, NEW g \in Up(inv, h)
  PROVE  g \in Group /\ (g = h \/ Depth(inv)[g] < Depth(inv)[h])
<1> DEFINE S == {x \in Group : x = h \/ Depth(inv)[x] < Depth(inv)[h]}
<1>1. \A x \in S : inv.parent[x] # Root => inv.parent[x] \in S
  <2> SUFFICES ASSUME NEW x \in S, inv.parent[x] # Root PROVE inv.parent[x] \in S
    OBVIOUS
  <2>1. inv.parent[x] \in Group
    BY InvType
  <2>2. /\ Depth(inv)[inv.parent[x]] < Depth(inv)[x]
        /\ \A y \in Group : Depth(inv)[y] \in Nat
    BY DepthType
  <2> QED BY <2>1, <2>2
<1>2. S \in SUBSET Group /\ h \in S
  OBVIOUS
<1> HIDE DEF S
<1>3. g \in S
  BY <1>1, <1>2, UpLeast
<1> QED BY <1>3 DEF S

LEMMA UpTrans ==
  ASSUME NEW inv \in Inventories, NEW h \in Group, NEW k \in Up(inv, h), NEW g \in Up(inv, k)
  PROVE  g \in Up(inv, h)
<1>1. Up(inv, h) \in SUBSET Group /\ k \in Group
  BY DEF Up
<1> QED BY <1>1, UpLeast, UpParent

\* The groups above one group are above each other.
LEMMA UpChain ==
  ASSUME NEW inv \in Inventories, NEW h \in Group, NEW a \in Up(inv, h), NEW b \in Up(inv, h)
  PROVE  a \in Up(inv, b) \/ b \in Up(inv, a)
<1> DEFINE S == {x \in Up(inv, h) : \A y \in Up(inv, h) : x \in Up(inv, y) \/ y \in Up(inv, x)}
<1>1. Up(inv, h) \in SUBSET Group /\ S \in SUBSET Group
  BY DEF Up
<1>2. h \in S
  BY UpSelf
<1>3. ASSUME NEW x \in S, inv.parent[x] # Root
      PROVE  inv.parent[x] \in S
  <2> DEFINE p == inv.parent[x]
  <2>1. x \in Group /\ x \in Up(inv, h) /\ p \in Up(inv, h) /\ p \in Group
    BY <1>1, <1>3, UpParent
  <2>2. ASSUME NEW y \in Up(inv, h)
        PROVE  p \in Up(inv, y) \/ y \in Up(inv, p)
    <3>1. y \in Group /\ (x \in Up(inv, y) \/ y \in Up(inv, x))
      BY <1>1
    <3>2. CASE x \in Up(inv, y)
      BY <1>3, <3>1, <3>2, UpParent
    <3>3. CASE y \in Up(inv, x)
      <4>1. y = x \/ y \in Up(inv, p)
        BY <1>3, <2>1, <3>3, UpStep
      <4>2. p \in Up(inv, x)
        BY <1>3, <2>1, UpSelf, UpParent
      <4> QED BY <4>1, <4>2
    <3> QED BY <3>1, <3>2, <3>3
  <2> QED BY <2>1, <2>2
<1> HIDE DEF S
<1>4. a \in S
  BY <1>1, <1>2, <1>3, UpLeast
<1> QED BY <1>4 DEF S

\* On the way up to g comes a child of g.
LEMMA UpChild ==
  ASSUME NEW inv \in Inventories, NEW h \in Group, NEW g \in Up(inv, h), g # h
  PROVE  \E c \in Kids(inv, g) : c \in Up(inv, h)
<1> DEFINE S == {x \in Up(inv, h) : x = h \/ \E c \in Up(inv, h) : inv.parent[c] = x}
<1>1. Up(inv, h) \in SUBSET Group /\ S \in SUBSET Group
  BY DEF Up
<1>2. h \in S
  BY UpSelf
<1>3. \A x \in S : inv.parent[x] # Root => inv.parent[x] \in S
  BY UpParent
<1> HIDE DEF S
<1>4. g \in S
  BY <1>1, <1>2, <1>3, UpLeast
<1> QED BY <1>1, <1>4 DEF S, Kids

LEMMA UpOfChild ==
  ASSUME NEW inv \in Inventories, NEW h \in Group, NEW g \in Group, NEW c \in Kids(inv, g), c \in Up(inv, h)
  PROVE  g \in Up(inv, h) /\ g # h
<1>1. c \in Group /\ inv.parent[c] = g /\ g # Root
  BY InvType DEF Kids
<1>2. g \in Up(inv, h)
  BY <1>1, UpParent
<1>3. Depth(inv)[g] < Depth(inv)[c] /\ (c = h \/ Depth(inv)[c] < Depth(inv)[h])
      /\ Depth(inv)[g] \in Nat /\ Depth(inv)[c] \in Nat /\ Depth(inv)[h] \in Nat
  BY <1>1, DepthType, UpDepth
<1> QED BY <1>2, <1>3

\* Nothing is below two children of one group.
LEMMA UpSiblings ==
  ASSUME NEW inv \in Inventories, NEW h \in Group, NEW g, NEW c \in Kids(inv, g), NEW d \in Kids(inv, g),
         c \in Up(inv, h), d \in Up(inv, h)
  PROVE  c = d
<1>1. c \in Group /\ d \in Group /\ inv.parent[c] = g /\ inv.parent[d] = g
  BY DEF Kids
<1>2. ASSUME NEW a \in Group, NEW b \in Group, a \in Up(inv, b), a # b, inv.parent[a] = inv.parent[b]
      PROVE  FALSE
  <2>1. inv.parent[b] # Root /\ a \in Up(inv, inv.parent[b])
    BY <1>2, UpStep
  <2>2. inv.parent[b] \in Group
    BY <2>1, InvType
  <2>3. a = inv.parent[a] \/ Depth(inv)[a] < Depth(inv)[inv.parent[a]]
    BY <1>2, <2>1, <2>2, UpDepth
  <2>4. Depth(inv)[inv.parent[a]] < Depth(inv)[a]
        /\ Depth(inv)[inv.parent[a]] \in Nat /\ Depth(inv)[a] \in Nat
    BY <1>2, <2>1, <2>2, DepthType
  <2> QED BY <2>3, <2>4
<1> QED BY <1>1, <1>2, UpChain

\* A set of numbers has a least one.
LEMMA Least ==
  ASSUME NEW T \in SUBSET Nat, T # {}
  PROVE  \E n \in T : \A k \in T : n <= k
<1> DEFINE W == {ss \in Nat \X Nat : ss[1] < ss[2]}
<1>1. IsWellFoundedOn(W, Nat)
  BY NatLessThanWellFounded DEF OpToRel
<1>2. \A k, n \in Nat : k < n => <<k, n>> \in W
  OBVIOUS
<1> HIDE DEF W
<1>3. PICK n \in T : \A k \in T : ~(<<k, n>> \in W)
  BY <1>1, WFMin
<1>4. ASSUME NEW k \in T
      PROVE  n <= k
  <2>1. k \in Nat /\ n \in Nat
    OBVIOUS
  <2>2. ~(k < n)
    BY <1>2, <1>3, <2>1
  <2> QED BY <2>1, <2>2
<1> QED BY <1>4

\* Of the groups of a non-empty set, one has the least rank.
LEMMA LeastRank ==
  ASSUME NEW rank, \A g \in Group : rank[g] \in Nat, NEW T \in SUBSET Group, T # {}
  PROVE  \E g \in T : \A h \in T : rank[g] <= rank[h]
<1> DEFINE W == {rank[g] : g \in T}
<1>1. W \in SUBSET Nat /\ W # {}
  OBVIOUS
<1>2. PICK n \in W : \A k \in W : n <= k
  <2> HIDE DEF W
  <2> QED BY <1>1, Least
<1> QED BY <1>2

LEMMA UpTop ==
  ASSUME NEW inv \in Inventories, NEW h \in Group
  PROVE  \E t \in Kids(inv, Root) : t \in Up(inv, h)
<1>1. Up(inv, h) \in SUBSET Group /\ Up(inv, h) # {}
  BY UpSelf DEF Up
<1>2. PICK t \in Up(inv, h) : \A x \in Up(inv, h) : Depth(inv)[t] <= Depth(inv)[x]
  BY <1>1, DepthType, LeastRank
<1>3. inv.parent[t] = Root
  <2> SUFFICES ASSUME inv.parent[t] # Root PROVE FALSE
    OBVIOUS
  <2>1. inv.parent[t] \in Up(inv, h)
    BY UpParent
  <2>2. Depth(inv)[inv.parent[t]] < Depth(inv)[t] /\ Depth(inv)[inv.parent[t]] \in Nat /\ Depth(inv)[t] \in Nat
    BY <1>1, <2>1, DepthType
  <2> QED BY <1>2, <2>1, <2>2
<1> QED BY <1>1, <1>3 DEF Kids

-----------------------------------------------------------------------------
(* What Find, All and the groups above one compute                         *)

\* The hosts at or below a group.
Below(inv, g) == {n \in HostName : \E k \in Group : g \in Up(inv, k) /\ n \in inv.hosts[k]}

\* Two functions agree everywhere if they do wherever they agree on the lower ranks.
LEMMA Agree ==
  ASSUME NEW rank, \A g \in Group : rank[g] \in Nat, NEW f, NEW e,
         \A g \in Group : (\A c \in Group : rank[c] < rank[g] => f[c] = e[c]) => f[g] = e[g]
  PROVE  \A g \in Group : f[g] = e[g]
<1> DEFINE differ == {g \in Group : f[g] # e[g]}
<1> SUFFICES ASSUME differ # {} PROVE FALSE
  OBVIOUS
<1>1. PICK g \in differ : \A h \in differ : rank[g] <= rank[h]
  BY LeastRank
<1>2. ASSUME NEW c \in Group, rank[c] < rank[g]
      PROVE  f[c] = e[c]
  <2>1. rank[c] \in Nat /\ rank[g] \in Nat
    OBVIOUS
  <2> QED BY <1>1, <1>2, <2>1
<1> QED BY <1>2

\* The same, where the value at a group depends on its children, or on its parent.
LEMMA AgreeFromKids ==
  ASSUME NEW inv \in Inventories, NEW f, NEW e,
         \A g \in Group : (\A c \in Kids(inv, g) : f[c] = e[c]) => f[g] = e[g]
  PROVE  \A g \in Group : f[g] = e[g]
<1> DEFINE rank == [g \in Group |-> Cardinality(Group) - Depth(inv)[g]]
<1>1. \A g \in Group : rank[g] \in Nat
  BY DepthType
<1>2. \A g \in Group : \A c \in Kids(inv, g) : c \in Group /\ rank[c] < rank[g]
  BY DepthType, InvType DEF Kids
<1> HIDE DEF rank
<1>3. \A g \in Group : (\A c \in Group : rank[c] < rank[g] => f[c] = e[c]) => f[g] = e[g]
  BY <1>2
<1> QED BY <1>1, <1>3, Agree

LEMMA AgreeFromParent ==
  ASSUME NEW inv \in Inventories, NEW f, NEW e,
         \A g \in Group : (inv.parent[g] # Root => f[inv.parent[g]] = e[inv.parent[g]]) => f[g] = e[g]
  PROVE  \A g \in Group : f[g] = e[g]
<1>1. \A g \in Group : Depth(inv)[g] \in Nat
  BY DepthType
<1>2. \A g \in Group : (\A c \in Group : Depth(inv)[c] < Depth(inv)[g] => f[c] = e[c]) => f[g] = e[g]
  BY InvType, DepthType
<1> QED BY <1>1, <1>2, Agree

\* Children is of the inventory of this run.
LEMMA ChildrenAreKids ==
  ASSUME NEW g
  PROVE  Children(g) = Kids(inventory, g)
BY DEF Children, Kids

\* Group.All, whatever the order it goes through the groups in: the hosts at or below.
LEMMA AllInIsBelow ==
  ASSUME inventory \in Inventories
  PROVE  \A g \in Group : AllIn[g] = Below(inventory, g)
<1> DEFINE IsAll(f) == f = [g \in Group |-> inventory.hosts[g] \cup UNION {f[c] : c \in Children(g)}]
           all == CHOOSE f : IsAll(f)
           below == [g \in Group |-> Below(inventory, g)]
<1>1. ASSUME NEW g \in Group
      PROVE  Below(inventory, g) = inventory.hosts[g] \cup UNION {Below(inventory, c) : c \in Kids(inventory, g)}
  <2>1. inventory.hosts[g] \subseteq Below(inventory, g)
    BY UpSelf, InvType DEF Below
  <2>2. ASSUME NEW c \in Kids(inventory, g), NEW n \in Below(inventory, c)
        PROVE  n \in Below(inventory, g)
    BY <2>2, UpOfChild DEF Below
  <2>3. ASSUME NEW n \in Below(inventory, g), n \notin inventory.hosts[g]
        PROVE  \E c \in Kids(inventory, g) : n \in Below(inventory, c)
    BY <2>3, UpChild DEF Below
  <2> QED BY <2>1, <2>2, <2>3
<1>2. IsAll(below)
  <2>1. \A g \in Group : \A c \in Children(g) : below[c] = Below(inventory, c)
    BY ChildrenAreKids DEF Kids
  <2>2. \A g \in Group : {below[c] : c \in Children(g)} = {Below(inventory, c) : c \in Kids(inventory, g)}
    BY <2>1, ChildrenAreKids
  <2>3. \A g \in Group : below[g] = inventory.hosts[g] \cup UNION {below[c] : c \in Children(g)}
    BY <1>1, <2>2
  <2>4. below = [g \in Group |-> below[g]]
    OBVIOUS
  <2> HIDE DEF below
  <2> QED BY <2>3, <2>4
<1>3. IsAll(all)
  <2> HIDE DEF IsAll, below
  <2> QED BY <1>2
<1>4. all = AllIn
  BY DEF AllIn
<1> HIDE DEF all
<1>5. ASSUME NEW g \in Group, \A c \in Kids(inventory, g) : all[c] = below[c]
      PROVE  all[g] = below[g]
  <2> HIDE DEF below
  <2>1. {all[c] : c \in Children(g)} = {below[c] : c \in Children(g)}
    BY <1>5, ChildrenAreKids
  <2>2. all[g] = inventory.hosts[g] \cup UNION {all[c] : c \in Children(g)}
    BY <1>3
  <2>3. below[g] = inventory.hosts[g] \cup UNION {below[c] : c \in Children(g)}
    BY <1>2
  <2> QED BY <2>1, <2>2, <2>3
<1>6. \A g \in Group : all[g] = below[g]
  <2> HIDE DEF below
  <2> QED BY <1>5, AgreeFromKids
<1> QED BY <1>4, <1>6

\* The names of the groups at or below one that the host is in.
Names(inv, n, g) == {NameOf[k] : k \in {j \in Group : g \in Up(inv, j) /\ n \in Below(inv, j)}}

LEMMA FoundIsNames ==
  ASSUME inventory \in Inventories, NEW n \in HostName
  PROVE  \A g \in Group : FoundIn(n)[g] = Names(inventory, n, g)
<1> DEFINE With(g, below) ==
             below \cup (IF n \in inventory.hosts[g] \/ below # {} THEN {NameOf[g]} ELSE {})
           IsFound(f) == f = [g \in Group |-> With(g, UNION {f[c] : c \in Children(g)})]
           found == CHOOSE f : IsFound(f)
           names == [g \in Group |-> Names(inventory, n, g)]
<1>1. ASSUME NEW g \in Group
      PROVE  Names(inventory, n, g) = With(g, UNION {Names(inventory, n, c) : c \in Kids(inventory, g)})
  <2> DEFINE below == UNION {Names(inventory, n, c) : c \in Kids(inventory, g)}
  <2>1. ASSUME NEW c \in Kids(inventory, g), NEW j \in Group, c \in Up(inventory, j), n \in Below(inventory, j)
        PROVE  NameOf[j] \in Names(inventory, n, g) /\ n \in Below(inventory, g)
    <3>1. g \in Up(inventory, j)
      BY <2>1, UpOfChild
    <3>2. PICK k \in Group : j \in Up(inventory, k) /\ n \in inventory.hosts[k]
      BY <2>1 DEF Below
    <3>3. g \in Up(inventory, k)
      BY <3>1, <3>2, UpTrans
    <3> QED BY <2>1, <3>1, <3>2, <3>3 DEF Names, Below
  <2>2. below \subseteq Names(inventory, n, g) /\ (below # {} => n \in Below(inventory, g))
    BY <2>1 DEF Names
  <2>3. n \in inventory.hosts[g] => n \in Below(inventory, g)
    BY UpSelf DEF Below
  <2>4. n \in Below(inventory, g) => NameOf[g] \in Names(inventory, n, g)
    BY UpSelf DEF Names
  <2>5. ASSUME NEW j \in Group, g \in Up(inventory, j), n \in Below(inventory, j), j # g
        PROVE  NameOf[j] \in below
    <3>1. PICK c \in Kids(inventory, g) : c \in Up(inventory, j)
      BY <2>5, UpChild
    <3> QED BY <2>5, <3>1 DEF Names
  <2>6. ASSUME n \in Below(inventory, g), n \notin inventory.hosts[g]
        PROVE  below # {}
    <3>1. PICK k \in Group : g \in Up(inventory, k) /\ n \in inventory.hosts[k]
      BY <2>6 DEF Below
    <3>2. n \in Below(inventory, k) /\ k # g
      BY <2>6, <3>1, UpSelf DEF Below
    <3> QED BY <2>5, <3>1, <3>2
  <2>7. Names(inventory, n, g) \subseteq below \cup {NameOf[g]}
    BY <2>5 DEF Names
  <2>8. NameOf[g] \in Names(inventory, n, g) /\ NameOf[g] \notin below => n \in Below(inventory, g)
    BY <2>5 DEF Names
  <2> HIDE DEF below
  <2> QED BY <2>2, <2>3, <2>4, <2>6, <2>7, <2>8 DEF below
<1> HIDE DEF With
<1>2. IsFound(names)
  <2>1. \A g \in Group : {names[c] : c \in Children(g)} = {Names(inventory, n, c) : c \in Kids(inventory, g)}
    BY ChildrenAreKids DEF Kids
  <2>2. \A g \in Group : names[g] = With(g, UNION {names[c] : c \in Children(g)})
    BY <1>1, <2>1
  <2>3. names = [g \in Group |-> names[g]]
    OBVIOUS
  <2> HIDE DEF names
  <2> QED BY <2>2, <2>3
<1>3. IsFound(found)
  <2> HIDE DEF IsFound, names
  <2> QED BY <1>2
<1>4. found = FoundIn(n)
  BY DEF FoundIn, With
<1> HIDE DEF found
<1>5. ASSUME NEW g \in Group, \A c \in Kids(inventory, g) : found[c] = names[c]
      PROVE  found[g] = names[g]
  <2> HIDE DEF names
  <2>1. {found[c] : c \in Children(g)} = {names[c] : c \in Children(g)}
    BY <1>5, ChildrenAreKids
  <2>2. found[g] = With(g, UNION {found[c] : c \in Children(g)})
    BY <1>3
  <2>3. names[g] = With(g, UNION {names[c] : c \in Children(g)})
    BY <1>2
  <2> QED BY <2>1, <2>2, <2>3
<1>6. \A g \in Group : found[g] = names[g]
  <2> HIDE DEF names
  <2> QED BY <1>5, AgreeFromKids
<1> QED BY <1>4, <1>6

LEMMA AboveIsUp ==
  ASSUME inventory \in Inventories, NEW h \in Group
  PROVE  Above(h) = Up(inventory, h) \ {h}
<1> DEFINE p(g) == inventory.parent[g]
           IsAbove(f) == f = [g \in Group |-> IF p(g) = Root THEN {} ELSE {p(g)} \cup f[p(g)]]
           above == CHOOSE f : IsAbove(f)
           up == [g \in Group |-> Up(inventory, g) \ {g}]
<1>1. ASSUME NEW g \in Group
      PROVE  up[g] = IF p(g) = Root THEN {} ELSE {p(g)} \cup up[p(g)]
  <2>1. CASE p(g) = Root
    BY <2>1, UpStep
  <2>2. CASE p(g) # Root
    <3>1. p(g) \in Group /\ p(g) \in Up(inventory, p(g))
      BY <2>2, InvType, UpSelf
    <3>2. Up(inventory, g) = {g} \cup Up(inventory, p(g))
      BY <2>2, UpStep
    <3>3. g \notin Up(inventory, p(g))
      BY <2>2, <3>1, UpSelf, UpOfChild DEF Kids
    <3> QED BY <2>2, <3>1, <3>2, <3>3
  <2> QED BY <2>1, <2>2
<1>2. up = [g \in Group |-> up[g]]
  OBVIOUS
<1>3. IsAbove(up)
  <2> HIDE DEF up
  <2> QED BY <1>1, <1>2
<1>4. IsAbove(above)
  <2> HIDE DEF IsAbove, up
  <2> QED BY <1>3
<1>5. above[h] = Above(h)
  BY DEF Above
<1> HIDE DEF above, up
<1>6. ASSUME NEW g \in Group, p(g) # Root => above[p(g)] = up[p(g)]
      PROVE  above[g] = up[g]
  <2>1. above[g] = IF p(g) = Root THEN {} ELSE {p(g)} \cup above[p(g)]
    BY <1>4
  <2>2. up[g] = IF p(g) = Root THEN {} ELSE {p(g)} \cup up[p(g)]
    BY <1>1
  <2> HIDE DEF IsAbove
  <2> QED BY <1>6, <2>1, <2>2
<1>7. above[h] = up[h]
  BY <1>6, AgreeFromParent
<1> QED BY <1>5, <1>7 DEF up

\* Find and All agree, in every inventory.
LEMMA FindAndAll ==
  ASSUME inventory \in Inventories
  PROVE  FindMatchesAll
<1>1. ASSUME NEW n \in HostName, NEW name
      PROVE  name \in Find(n) <=> name = "all" \/ \E g \in Group : NameOf[g] = name /\ n \in AllIn[g]
  <2>1. \A t \in Children(Root) : t \in Group /\ FoundIn(n)[t] = Names(inventory, n, t)
    BY FoundIsNames DEF Children
  <2>2. \A g \in Group : \E t \in Children(Root) : t \in Up(inventory, g)
    BY UpTop, ChildrenAreKids
  <2>3. \A g \in Group : AllIn[g] = Below(inventory, g)
    BY AllInIsBelow
  <2> QED BY <2>1, <2>2, <2>3 DEF Find, Names
<1>2. ASSUME NEW n \in HostName
      PROVE  n \in All <=> \E g \in Group : n \in inventory.hosts[g]
  <2>1. \A t \in Children(Root) : t \in Group /\ AllIn[t] = Below(inventory, t)
    BY AllInIsBelow DEF Children
  <2>2. \A g \in Group : \E t \in Children(Root) : t \in Up(inventory, g)
    BY UpTop, ChildrenAreKids
  <2> QED BY <2>1, <2>2 DEF All, Below
<1> QED BY <1>1, <1>2 DEF FindMatchesAll

-----------------------------------------------------------------------------
(* NodeVars: maps of variables                                             *)

\* The node is in the group.
In(inv, g) == Node \in Below(inv, g)

\* A map of group variables that is complete for what is at or below the groups D: its
\* values come from there, from groups the node is in, and no value of a group that lists
\* the node is missing or hidden by a group above it; and what a group says is there when one at
\* or below it lists the node and sets anything (Speaks).
Speaks(inv, k) == Node \in inv.hosts[k] /\ inv.defines[k] # {}
GroupsOK(inv, map, D) ==
  /\ \A x \in DOMAIN map :
       \E h \in Group : map[x] = <<"group", h>> /\ In(inv, h) /\ \E c \in D : c \in Up(inv, h)
  /\ \A g \in Group : Node \in inv.hosts[g] /\ (\E c \in D : c \in Up(inv, g)) =>
       \A x \in inv.defines[g] : x \in DOMAIN map /\ \A h \in Up(inv, g) \ {g} : map[x] # <<"group", h>>
  /\ \A k \in Group : Speaks(inv, k) =>
       \A h \in Up(inv, k) : (\E c \in D : c \in Up(inv, h)) => inv.defines[h] \subseteq DOMAIN map

\* The same of the variables that the node's entries give.
HostsOK(inv, map, D) ==
  /\ \A x \in DOMAIN map : \E h \in Group : map[x] = <<"host", h>> /\ Node \in inv.hosts[h]
  /\ \A h \in Group : Node \in inv.hosts[h] /\ (\E c \in D : c \in Up(inv, h)) =>
       inv.gives[h] \subseteq DOMAIN map

\* The host variables of a call on g, whose loop has been through the groups D.
OwnHostsOK(inv, map, g, D) ==
  /\ HostsOK(inv, map, D)
  /\ g \in Group /\ Node \in inv.hosts[g] => inv.gives[g] \subseteq DOMAIN map

LEMMA MapType ==
  ASSUME NEW map
  PROVE  map \in VarMap <=> \E D \in SUBSET Var : map \in [D -> Value]
BY DEF VarMap

LEMMA EmptyType == Empty \in VarMap /\ DOMAIN Empty = {}
<1>1. DOMAIN Empty = {} /\ Empty \in [{} -> Value]
  BY DEF Empty
<1> QED BY <1>1, MapType

LEMMA MergeType ==
  ASSUME NEW map \in VarMap, NEW other \in VarMap
  PROVE  Merge(map, other) \in VarMap
<1>1. PICK D \in SUBSET Var : map \in [D -> Value]
  BY MapType
<1>2. PICK E \in SUBSET Var : other \in [E -> Value]
  BY MapType
<1>3. Merge(map, other) \in [D \cup E -> Value]
  BY <1>1, <1>2 DEF Merge
<1> QED BY <1>3, MapType

LEMMA MergeKeys ==
  ASSUME NEW map, NEW other
  PROVE  /\ DOMAIN Merge(map, other) = DOMAIN map \cup DOMAIN other
         /\ \A x \in DOMAIN other : Merge(map, other)[x] = other[x]
         /\ \A x \in DOMAIN map \ DOMAIN other : Merge(map, other)[x] = map[x]
BY DEF Merge

\* What a child returns is merged over what the children before it did.
LEMMA MergeGroups ==
  ASSUME NEW inv \in Inventories, NEW g, NEW D \in SUBSET Kids(inv, g), NEW c \in Kids(inv, g), c \notin D,
         NEW map, NEW other, GroupsOK(inv, map, D), GroupsOK(inv, other, {c})
  PROVE  GroupsOK(inv, Merge(map, other), D \cup {c})
<1> DEFINE merged == Merge(map, other)
<1>0. /\ DOMAIN merged = DOMAIN map \cup DOMAIN other
      /\ \A x \in DOMAIN other : merged[x] = other[x]
      /\ \A x \in DOMAIN map \ DOMAIN other : merged[x] = map[x]
  BY MergeKeys
<1> HIDE DEF merged
<1>1. ASSUME NEW x \in DOMAIN merged
      PROVE  \E h \in Group : merged[x] = <<"group", h>> /\ In(inv, h) /\ \E d \in D \cup {c} : d \in Up(inv, h)
  <2>1. CASE x \in DOMAIN other
    BY <2>1, <1>0 DEF GroupsOK
  <2>2. CASE x \in DOMAIN map \ DOMAIN other
    BY <2>2, <1>0 DEF GroupsOK
  <2> QED BY <1>1, <2>1, <2>2, <1>0
<1>2. ASSUME NEW k \in Group, Node \in inv.hosts[k], NEW d \in D \cup {c}, d \in Up(inv, k),
             NEW x \in inv.defines[k]
      PROVE  x \in DOMAIN merged /\ \A h \in Up(inv, k) \ {k} : merged[x] # <<"group", h>>
  <2>1. CASE d = c
    <3>1. x \in DOMAIN other /\ \A h \in Up(inv, k) \ {k} : other[x] # <<"group", h>>
      BY <1>2, <2>1 DEF GroupsOK
    <3> QED BY <3>1, <1>0
  <2>2. CASE d \in D
    <3>1. x \in DOMAIN map /\ \A h \in Up(inv, k) \ {k} : map[x] # <<"group", h>>
      BY <1>2, <2>2 DEF GroupsOK
    <3>2. CASE x \notin DOMAIN other
      BY <3>1, <3>2, <1>0
    <3>3. CASE x \in DOMAIN other
      <4>1. PICK h \in Group : other[x] = <<"group", h>> /\ c \in Up(inv, h)
        BY <3>3 DEF GroupsOK
      <4>2. h \notin Up(inv, k)
        BY <1>2, <2>2, <4>1, UpTrans, UpSiblings
      <4> QED BY <3>1, <3>3, <4>1, <4>2, <1>0
    <3> QED BY <3>2, <3>3
  <2> QED BY <2>1, <2>2
<1>3. ASSUME NEW k \in Group, Speaks(inv, k), NEW h \in Up(inv, k), NEW d \in D \cup {c}, d \in Up(inv, h)
      PROVE  inv.defines[h] \subseteq DOMAIN merged
  <2>1. CASE d = c
    BY <1>0, <1>3, <2>1 DEF GroupsOK
  <2>2. CASE d \in D
    BY <1>0, <1>3, <2>2 DEF GroupsOK
  <2> QED BY <2>1, <2>2
<1>4. GroupsOK(inv, merged, D \cup {c})
  BY <1>1, <1>2, <1>3 DEF GroupsOK
<1> QED BY <1>4 DEF merged

LEMMA MergeHosts ==
  ASSUME NEW inv \in Inventories, NEW D, NEW E, NEW map, NEW other,
         HostsOK(inv, map, D), HostsOK(inv, other, E)
  PROVE  HostsOK(inv, Merge(map, other), D \cup E)
<1> DEFINE merged == Merge(map, other)
<1>0. /\ DOMAIN merged = DOMAIN map \cup DOMAIN other
      /\ \A x \in DOMAIN other : merged[x] = other[x]
      /\ \A x \in DOMAIN map \ DOMAIN other : merged[x] = map[x]
  BY MergeKeys
<1> HIDE DEF merged
<1>1. ASSUME NEW x \in DOMAIN merged
      PROVE  \E h \in Group : merged[x] = <<"host", h>> /\ Node \in inv.hosts[h]
  <2>1. CASE x \in DOMAIN other
    BY <2>1, <1>0 DEF HostsOK
  <2>2. CASE x \in DOMAIN map \ DOMAIN other
    BY <2>2, <1>0 DEF HostsOK
  <2> QED BY <1>1, <2>1, <2>2, <1>0
<1>2. ASSUME NEW h \in Group, Node \in inv.hosts[h], NEW c \in D \cup E, c \in Up(inv, h)
      PROVE  inv.gives[h] \subseteq DOMAIN merged
  BY <1>2, <1>0 DEF HostsOK
<1>3. HostsOK(inv, merged, D \cup E)
  BY <1>1, <1>2 DEF HostsOK
<1> QED BY <1>3 DEF merged

\* What a call that has been through all of the group's children returns.
LEMMA ReturnedHosts ==
  ASSUME NEW inv \in Inventories, NEW g \in Group, NEW map, OwnHostsOK(inv, map, g, Kids(inv, g))
  PROVE  HostsOK(inv, map, {g})
<1>1. ASSUME NEW h \in Group, Node \in inv.hosts[h], g \in Up(inv, h), h # g
      PROVE  inv.gives[h] \subseteq DOMAIN map
  BY <1>1, UpChild DEF OwnHostsOK, HostsOK
<1> QED BY <1>1 DEF OwnHostsOK, HostsOK

LEMMA ReturnedGroups ==
  ASSUME inventory \in Inventories, NEW f, f.group \in Group,
         f.groupVars = IF Node \in inventory.hosts[f.group] THEN VarsOf(f.group) ELSE Empty,
         GroupsOK(inventory, f.childrenVars, Kids(inventory, f.group))
  PROVE  GroupsOK(inventory, GroupVars(f), {f.group})
<1> DEFINE g == f.group
           below == f.childrenVars
           own == VarsOf(g)
<1>1. DOMAIN own = inventory.defines[g] /\ \A x \in DOMAIN own : own[x] = <<"group", g>>
  BY DEF VarsOf
<1>2. ASSUME NEW x \in DOMAIN below
      PROVE  /\ In(inventory, g)
             /\ \E h \in Group : below[x] = <<"group", h>> /\ In(inventory, h)
                                 /\ g \in Up(inventory, h) /\ h # g
  <2>1. PICK h \in Group : /\ below[x] = <<"group", h>> /\ In(inventory, h)
                           /\ \E c \in Kids(inventory, g) : c \in Up(inventory, h)
    BY DEF GroupsOK
  <2>2. g \in Up(inventory, h) /\ h # g
    BY <2>1, UpOfChild
  <2>3. In(inventory, g)
    BY <2>1, <2>2, UpTrans DEF In, Below
  <2> QED BY <2>1, <2>2, <2>3
<1>3. Node \in inventory.hosts[g] => In(inventory, g)
  BY UpSelf, InventoryAssumption DEF In, Below
<1>4. ASSUME NEW k \in Group, Speaks(inventory, k), NEW h \in Up(inventory, k), g \in Up(inventory, h), h # g
      PROVE  inventory.defines[h] \subseteq DOMAIN below
  <2> h \in Group
    BY DEF Up
  <2>1. PICK c \in Kids(inventory, g) : c \in Up(inventory, h)
    BY <1>4, UpChild
  <2> QED BY <1>4, <2>1 DEF GroupsOK
<1>5. ASSUME NEW k \in Group, Speaks(inventory, k), g \in Up(inventory, k), k # g
      PROVE  DOMAIN below # {}
  <2>1. inventory.defines[k] \subseteq DOMAIN below
    BY <1>4, <1>5, UpSelf
  <2> QED BY <1>5, <2>1 DEF Speaks
<1>6. CASE DOMAIN below = {}
  <2>1. GroupVars(f) = f.groupVars
    BY <1>6 DEF GroupVars
  <2>2. \A k \in Group : Node \in inventory.hosts[k] /\ g \in Up(inventory, k) /\ k # g => inventory.defines[k] = {}
    <3> SUFFICES ASSUME NEW k \in Group, Node \in inventory.hosts[k], g \in Up(inventory, k), k # g
                 PROVE  inventory.defines[k] = {}
      OBVIOUS
    <3>1. PICK c \in Kids(inventory, g) : c \in Up(inventory, k)
      BY UpChild
    <3> QED BY <1>6, <3>1 DEF GroupsOK
  <2>3. ASSUME NEW k \in Group, Speaks(inventory, k), NEW h \in Up(inventory, k), g \in Up(inventory, h)
        PROVE  inventory.defines[h] \subseteq DOMAIN f.groupVars
    <3>1. CASE h # g
      BY <1>4, <1>6, <2>3, <3>1
    <3>2. CASE h = g
      <4>1. k = g
        BY <1>5, <1>6, <2>3, <3>2
      <4> QED BY <1>1, <2>3, <3>2, <4>1 DEF Speaks
    <3> QED BY <3>1, <3>2
  <2>4. CASE Node \in inventory.hosts[g]
    <3> DEFINE map == GroupVars(f)
    <3>1. map = own
      BY <2>1, <2>4
    <3> HIDE DEF map
    <3>2. ASSUME NEW x \in DOMAIN map
          PROVE  \E h \in Group : map[x] = <<"group", h>> /\ In(inventory, h) /\ g \in Up(inventory, h)
      BY <1>1, <1>3, <2>4, <3>1, UpSelf
    <3>3. ASSUME NEW k \in Group, Node \in inventory.hosts[k], g \in Up(inventory, k), NEW x \in inventory.defines[k]
          PROVE  x \in DOMAIN map /\ \A h \in Up(inventory, k) \ {k} : map[x] # <<"group", h>>
      BY <1>1, <2>2, <3>1, <3>3
    <3>4. ASSUME NEW k \in Group, Speaks(inventory, k), NEW h \in Up(inventory, k), g \in Up(inventory, h)
          PROVE  inventory.defines[h] \subseteq DOMAIN map
      BY <2>1, <2>3, <3>4 DEF map
    <3>5. GroupsOK(inventory, map, {g})
      BY <3>2, <3>3, <3>4 DEF GroupsOK
    <3> QED BY <3>5 DEF map
  <2>5. CASE Node \notin inventory.hosts[g]
    <3>1. DOMAIN f.groupVars = {}
      BY <2>5, EmptyType
    <3> QED BY <2>1, <2>2, <2>3, <2>5, <3>1 DEF GroupsOK
  <2> QED BY <2>4, <2>5
<1>7. CASE DOMAIN below # {}
  <2> DEFINE low == Merge(f.groupVars, own)
             map == Merge(low, below)
  <2> HIDE DEF own
  <2>0. DOMAIN low = DOMAIN f.groupVars \cup DOMAIN own /\ \A x \in DOMAIN own : low[x] = own[x]
    BY DEF Merge
  <2> HIDE DEF low
  <2>1. DOMAIN low = DOMAIN own /\ \A x \in DOMAIN low : low[x] = <<"group", g>>
    BY <1>1, <2>0, EmptyType DEF own
  <2>2. /\ DOMAIN map = inventory.defines[g] \cup DOMAIN below
        /\ \A x \in DOMAIN below : map[x] = below[x]
        /\ \A x \in DOMAIN map \ DOMAIN below : map[x] = <<"group", g>>
    <3>1. /\ DOMAIN map = DOMAIN low \cup DOMAIN below
          /\ \A x \in DOMAIN below : map[x] = below[x]
          /\ \A x \in DOMAIN low \ DOMAIN below : map[x] = low[x]
      BY MergeKeys
    <3> HIDE DEF map
    <3> QED BY <1>1, <2>1, <3>1
  <2>3. GroupVars(f) = map
    BY <1>7 DEF GroupVars, low, own
  <2> HIDE DEF map
  <2>4. ASSUME NEW x \in DOMAIN map
        PROVE  \E h \in Group : map[x] = <<"group", h>> /\ In(inventory, h) /\ g \in Up(inventory, h)
    <3>1. CASE x \in DOMAIN below
      BY <1>2, <2>2, <3>1
    <3>2. CASE x \notin DOMAIN below
      BY <1>2, <1>7, <2>2, <3>2, UpSelf
    <3> QED BY <3>1, <3>2
  <2>5. ASSUME NEW x \in inventory.defines[g]
        PROVE  x \in DOMAIN map /\ \A h \in Up(inventory, g) \ {g} : map[x] # <<"group", h>>
    <3>1. CASE x \in DOMAIN below
      <4>1. PICK h \in Group : below[x] = <<"group", h>> /\ g \in Up(inventory, h) /\ h # g
        BY <1>2, <3>1
      <4>2. h \notin Up(inventory, g)
        <5>1. h \in Up(inventory, g) => Depth(inventory)[h] < Depth(inventory)[g]
          BY <4>1, UpDepth
        <5>2. Depth(inventory)[g] < Depth(inventory)[h]
          BY <4>1, UpDepth
        <5>3. Depth(inventory)[g] \in Nat /\ Depth(inventory)[h] \in Nat
          BY DepthType
        <5> QED BY <5>1, <5>2, <5>3
      <4> QED BY <2>2, <3>1, <4>1, <4>2
    <3>2. CASE x \notin DOMAIN below
      BY <2>2, <3>2
    <3> QED BY <3>1, <3>2
  <2>6. ASSUME NEW k \in Group, Node \in inventory.hosts[k], g \in Up(inventory, k), k # g,
               NEW x \in inventory.defines[k]
        PROVE  x \in DOMAIN map /\ \A h \in Up(inventory, k) \ {k} : map[x] # <<"group", h>>
    <3>1. PICK c \in Kids(inventory, g) : c \in Up(inventory, k)
      BY <2>6, UpChild
    <3>2. x \in DOMAIN below /\ \A h \in Up(inventory, k) \ {k} : below[x] # <<"group", h>>
      BY <2>6, <3>1 DEF GroupsOK
    <3> QED BY <2>2, <3>2
  <2>7. ASSUME NEW k \in Group, Speaks(inventory, k), NEW h \in Up(inventory, k), g \in Up(inventory, h)
        PROVE  inventory.defines[h] \subseteq DOMAIN map
    <3>1. CASE h = g
      BY <2>2, <3>1
    <3>2. CASE h # g
      BY <1>4, <2>2, <2>7, <3>2
    <3> QED BY <3>1, <3>2
  <2>8. GroupsOK(inventory, map, {g})
    BY <2>4, <2>5, <2>6, <2>7 DEF GroupsOK
  <2> QED BY <2>3, <2>8
<1> QED BY <1>6, <1>7

-----------------------------------------------------------------------------
(* NodeVars: the calls under way                                           *)

\* The children that the loop of call i has been through and that have returned.
Passed(inv, s, i) ==
  Kids(inv, s[i].group) \ (s[i].todo \cup IF i = 1 THEN {} ELSE {s[i - 1].group})

\* What a call has collected is right for the children that its loop has been through.
FrameOK(inv, f, D) ==
  /\ f.todo \subseteq Kids(inv, f.group)
  /\ f.group \in Group =>
       f.groupVars = IF Node \in inv.hosts[f.group] THEN [x \in inv.defines[f.group] |-> <<"group", f.group>>]
                     ELSE Empty
  /\ OwnHostsOK(inv, f.hostVars, f.group, D)
  /\ GroupsOK(inv, f.childrenVars, D)

\* The calls are on a group, its parent and so on up to the inventory.
ChainOK(inv, s) ==
  /\ s # <<>> => s[Len(s)].group = Root
  /\ \A i \in 1..Len(s) - 1 :
       /\ s[i].group \in Kids(inv, s[i + 1].group) \ s[i + 1].todo
       /\ Len(s) - i <= Depth(inv)[s[i].group]

\* The sequence of calls, and what each has collected.
CallsOK(inv, s) ==
  /\ ChainOK(inv, s)
  /\ \A i \in 1..Len(s) : FrameOK(inv, s[i], Passed(inv, s, i))

LEMMA FrameKept ==
  ASSUME NEW inv, NEW s, NEW t, NEW i, NEW j, s[i] = t[j],
         i = 1 <=> j = 1, i # 1 => s[i - 1].group = t[j - 1].group,
         FrameOK(inv, s[i], Passed(inv, s, i))
  PROVE  FrameOK(inv, t[j], Passed(inv, t, j))
<1>1. Passed(inv, s, i) = Passed(inv, t, j)
  BY DEF Passed
<1> QED BY <1>1

\* Nothing has been merged before the first child has returned.
LEMMA NoneMerged ==
  ASSUME NEW inv, NEW g
  PROVE  GroupsOK(inv, Empty, {}) /\ HostsOK(inv, Empty, {})
BY EmptyType DEF GroupsOK, HostsOK

LEMMA NewFrameOK ==
  ASSUME inventory \in Inventories, NEW c \in Group
  PROVE  /\ NewFrame(c) \in Frame /\ NewFrame(c).group = c /\ NewFrame(c).todo = Kids(inventory, c)
         /\ FrameOK(inventory, NewFrame(c), {})
<1> DEFINE f == NewFrame(c)
           own == IF Node \in inventory.hosts[c] THEN HostVarsOf(c) ELSE Empty
           groups == IF Node \in inventory.hosts[c] THEN VarsOf(c) ELSE Empty
<1>1. f = [group |-> c, todo |-> Kids(inventory, c), hostVars |-> own, groupVars |-> groups,
           childrenVars |-> Empty]
  BY ChildrenAreKids DEF NewFrame
<1>2. HostVarsOf(c) \in VarMap /\ VarsOf(c) \in VarMap
  <2>1. HostVarsOf(c) \in [inventory.gives[c] -> Value] /\ VarsOf(c) \in [inventory.defines[c] -> Value]
    BY DEF HostVarsOf, VarsOf, Value
  <2> QED BY <2>1, InvType, MapType
<1>3. own \in VarMap /\ groups \in VarMap
  BY <1>2, EmptyType
<1>4. OwnHostsOK(inventory, own, c, {})
  BY NoneMerged, EmptyType DEF OwnHostsOK, HostsOK, HostVarsOf
<1>5. groups = IF Node \in inventory.hosts[c] THEN [x \in inventory.defines[c] |-> <<"group", c>>] ELSE Empty
  BY DEF VarsOf
<1>6. Kids(inventory, c) \in SUBSET Group
  BY DEF Kids
<1> HIDE DEF f, own, groups
<1>7. f \in Frame
  BY <1>1, <1>3, <1>6, EmptyType DEF Frame
<1>8. FrameOK(inventory, f, {})
  BY <1>1, <1>4, <1>5, NoneMerged DEF FrameOK
<1> QED BY <1>1, <1>7, <1>8 DEF f

\* A call and a return, as changes of the sequence of calls.
LEMMA Pushed ==
  ASSUME NEW S, NEW s \in Seq(S), s # <<>>, NEW f \in S, NEW g \in S, NEW t, t = <<f, g>> \o Tail(s)
  PROVE  /\ t \in Seq(S) /\ Len(t) = Len(s) + 1 /\ t[1] = f /\ t[2] = g
         /\ \A i \in 3..Len(t) : t[i] = s[i - 1]
<1>1. Tail(s) \in Seq(S) /\ Len(Tail(s)) = Len(s) - 1 /\ \A i \in 1..Len(s) - 1 : Tail(s)[i] = s[i + 1]
  OBVIOUS
<1>2. <<f, g>> \in Seq(S) /\ Len(<<f, g>>) = 2
  OBVIOUS
<1> QED BY <1>1, <1>2

LEMMA TailFacts ==
  ASSUME NEW S, NEW s \in Seq(S), Len(s) >= 1
  PROVE  Tail(s) \in Seq(S) /\ Len(Tail(s)) = Len(s) - 1 /\ \A i \in 1..Len(s) - 1 : Tail(s)[i] = s[i + 1]
OBVIOUS

LEMMA ConsFacts ==
  ASSUME NEW S, NEW s \in Seq(S), NEW g \in S
  PROVE  /\ <<g>> \o s \in Seq(S) /\ Len(<<g>> \o s) = Len(s) + 1 /\ (<<g>> \o s)[1] = g
         /\ \A i \in 2..Len(s) + 1 : (<<g>> \o s)[i] = s[i - 1]
OBVIOUS

LEMMA Popped ==
  ASSUME NEW s \in Seq(Frame), Len(s) > 1, NEW g \in Frame
  PROVE  /\ <<g>> \o Tail(Tail(s)) \in Seq(Frame) /\ Len(<<g>> \o Tail(Tail(s))) = Len(s) - 1
         /\ (<<g>> \o Tail(Tail(s)))[1] = g
         /\ \A i \in 2..Len(s) - 1 : (<<g>> \o Tail(Tail(s)))[i] = s[i + 1]
<1> DEFINE u == Tail(s)
           w == Tail(u)
           r == <<g>> \o w
<1>1. Len(s) \in Nat
  OBVIOUS
<1>2. u \in Seq(Frame) /\ Len(u) = Len(s) - 1 /\ \A i \in 1..Len(s) - 1 : u[i] = s[i + 1]
  BY <1>1, TailFacts
<1> HIDE DEF u
<1>3. w \in Seq(Frame) /\ Len(w) = Len(u) - 1 /\ \A i \in 1..Len(u) - 1 : w[i] = u[i + 1]
  BY <1>1, <1>2, TailFacts
<1> HIDE DEF w
<1>4. r \in Seq(Frame) /\ Len(r) = Len(w) + 1 /\ r[1] = g /\ \A i \in 2..Len(w) + 1 : r[i] = w[i - 1]
  BY <1>3, ConsFacts
<1> HIDE DEF r
<1>5. ASSUME NEW i \in 2..Len(r)
      PROVE  r[i] = s[i + 1]
  <2>1. r[i] = w[i - 1] /\ i - 1 \in 1..Len(u) - 1
    BY <1>1, <1>2, <1>3, <1>4
  <2>2. w[i - 1] = u[i - 1 + 1] /\ i - 1 + 1 = i /\ i \in 1..Len(s) - 1
    BY <1>1, <1>2, <1>3, <2>1
  <2>3. u[i] = s[i + 1]
    BY <1>2, <2>2
  <2> QED BY <2>1, <2>2, <2>3
<1>6. Len(r) = Len(s) - 1
  BY <1>1, <1>2, <1>3, <1>4
<1> QED BY <1>4, <1>5, <1>6 DEF r, w, u

LEMMA PushOK ==
  ASSUME NEW inv \in Inventories, NEW s \in Seq(Frame), s # <<>>, CallsOK(inv, s),
         NEW c \in s[1].todo, NEW f \in Frame, f.group = c, f.todo = Kids(inv, c), FrameOK(inv, f, {}),
         NEW g, g.group = s[1].group, g.todo = s[1].todo \ {c}, g.hostVars = s[1].hostVars,
         g.groupVars = s[1].groupVars, g.childrenVars = s[1].childrenVars,
         NEW t, Len(t) = Len(s) + 1, t[1] = f, t[2] = g, \A i \in 3..Len(t) : t[i] = s[i - 1]
  PROVE  CallsOK(inv, t)
<1> DEFINE N == Len(s)
<1>1. N \in Nat /\ N >= 1
  OBVIOUS
<1>2. g.group = s[1].group
  OBVIOUS
<1>3. Len(t) = N + 1 /\ t[1] = f /\ t[2] = g /\ \A i \in 3..N + 1 : t[i] = s[i - 1]
  OBVIOUS
<1> HIDE DEF N
<1>4. FrameOK(inv, s[1], Kids(inv, s[1].group) \ s[1].todo)
  <2>1. FrameOK(inv, s[1], Passed(inv, s, 1))
    BY <1>1 DEF CallsOK, N
  <2> QED BY <2>1 DEF Passed
<1>5. c \in Kids(inv, s[1].group) /\ c \in Group
  BY <1>4 DEF FrameOK, Kids
<1>6. ChainOK(inv, t)
  <2>1. t[N + 1].group = Root
    <3>1. s[N].group = Root
      BY <1>1 DEF CallsOK, ChainOK, N
    <3>2. CASE N = 1
      BY <1>2, <1>3, <3>1, <3>2
    <3>3. CASE N > 1
      BY <1>1, <1>3, <3>1, <3>3
    <3> QED BY <1>1, <3>2, <3>3
  <2>2. \A i \in 2..N : t[i].group = s[i - 1].group /\ (i # 2 => t[i] = s[i - 1])
    BY <1>1, <1>2, <1>3
  <2>3. ASSUME NEW i \in 1..N
        PROVE  t[i].group \in Kids(inv, t[i + 1].group) \ t[i + 1].todo /\ N + 1 - i <= Depth(inv)[t[i].group]
    <3>1. CASE i = 1
      <4>1. N <= Depth(inv)[c]
        <5>1. CASE N = 1
          BY <1>5, <5>1, DepthType
        <5>2. CASE N > 1
          <6>1. s[1].group \in Group /\ N - 1 <= Depth(inv)[s[1].group]
            BY <1>1, <5>2 DEF CallsOK, ChainOK, Kids, N
          <6>2. Depth(inv)[s[1].group] < Depth(inv)[c]
            BY <1>5, <6>1, DepthType, InvType DEF Kids
          <6>3. Depth(inv)[s[1].group] \in Nat /\ Depth(inv)[c] \in Nat
            BY <1>5, <6>1, DepthType
          <6> QED BY <1>1, <6>1, <6>2, <6>3
        <5> QED BY <1>1, <5>1, <5>2
      <4> QED BY <1>1, <1>2, <1>3, <1>5, <3>1, <4>1
    <3>2. CASE i # 1
      <4>1. i - 1 \in 1..N - 1 /\ i \in 2..N /\ i + 1 \in 3..N + 1
        BY <1>1, <3>2
      <4>2. /\ s[i - 1].group \in Kids(inv, s[i - 1 + 1].group) \ s[i - 1 + 1].todo
            /\ N - (i - 1) <= Depth(inv)[s[i - 1].group]
        BY <4>1 DEF CallsOK, ChainOK, N
      <4>3. i - 1 + 1 = i /\ N - (i - 1) = N + 1 - i /\ t[i + 1] = s[i]
        BY <1>1, <1>3, <4>1
      <4> QED BY <2>2, <4>1, <4>2, <4>3
    <3> QED BY <3>1, <3>2
  <2>4. Len(t) = N + 1 /\ 1..Len(t) - 1 = 1..N
    BY <1>1, <1>3
  <2>5. ASSUME NEW i \in 1..Len(t) - 1
        PROVE  /\ t[i].group \in Kids(inv, t[i + 1].group) \ t[i + 1].todo
               /\ Len(t) - i <= Depth(inv)[t[i].group]
    <3>1. i \in 1..N /\ Len(t) - i = N + 1 - i
      BY <1>1, <2>4
    <3> QED BY <2>3, <3>1
  <2>6. t[Len(t)].group = Root
    BY <2>1, <2>4
  <2> QED BY <2>5, <2>6 DEF ChainOK
<1>7. ASSUME NEW i \in 1..N + 1
      PROVE  FrameOK(inv, t[i], Passed(inv, t, i))
  <2>1. CASE i = 1
    <3>1. Passed(inv, t, 1) = {}
      BY <1>3 DEF Passed
    <3> QED BY <1>3, <2>1, <3>1
  <2>2. CASE i = 2
    <3>1. Passed(inv, t, 2) = Kids(inv, s[1].group) \ s[1].todo
      BY <1>2, <1>3 DEF Passed
    <3>2. FrameOK(inv, g, Kids(inv, s[1].group) \ s[1].todo)
      BY <1>2, <1>4 DEF FrameOK
    <3> QED BY <1>3, <2>2, <3>1, <3>2
  <2>3. CASE i \notin {1, 2}
    <3> DEFINE j == i - 1
    <3>1. j \in 1..N /\ j # 1 /\ i \in 3..N + 1 /\ i # 1
      BY <1>1, <2>3
    <3>2. t[i] = s[j]
      BY <1>3, <3>1
    <3>3. t[i - 1].group = s[j - 1].group
      <4>1. CASE i = 3
        BY <1>2, <1>3, <4>1
      <4>2. CASE i # 3
        <5>1. i - 1 \in 3..N + 1
          BY <1>1, <3>1, <4>2
        <5> QED BY <1>3, <5>1
      <4> QED BY <4>1, <4>2
    <3>4. FrameOK(inv, s[j], Passed(inv, s, j))
      BY <3>1 DEF CallsOK, N
    <3> HIDE DEF j
    <3>5. (i = 1 <=> j = 1) /\ (j # 1 => t[i - 1].group = s[j - 1].group)
      BY <3>1, <3>3
    <3> QED BY <3>2, <3>4, <3>5, FrameKept
  <2> QED BY <2>1, <2>2, <2>3
<1> QED BY <1>3, <1>6, <1>7 DEF CallsOK

LEMMA PopOK ==
  ASSUME inventory \in Inventories, NEW s \in Seq(Frame), Len(s) > 1, CallsOK(inventory, s),
         s[1].todo = {},
         NEW g, g.group = s[2].group, g.todo = s[2].todo, g.groupVars = s[2].groupVars,
         g.hostVars = Merge(s[2].hostVars, s[1].hostVars),
         g.childrenVars = Merge(s[2].childrenVars, GroupVars(s[1])),
         NEW t, Len(t) = Len(s) - 1, t[1] = g, \A i \in 2..Len(t) : t[i] = s[i + 1]
  PROVE  CallsOK(inventory, t)
<1> DEFINE N == Len(s) - 1
           inv == inventory
           c == s[1].group
           D == Kids(inv, g.group) \ (g.todo \cup {c})
<1>1. N \in Nat /\ N >= 1 /\ Len(s) = N + 1
  OBVIOUS
<1>2. Len(t) = N /\ t[1] = g /\ \A i \in 2..N : t[i] = s[i + 1]
  OBVIOUS
<1> HIDE DEF N
<1>3. /\ c \in Kids(inv, s[2].group) \ s[2].todo
      /\ c \in Group /\ c \in Kids(inv, g.group) /\ c \notin g.todo
  <2>1. c \in Kids(inv, s[1 + 1].group) \ s[1 + 1].todo
    BY <1>1 DEF CallsOK, ChainOK
  <2>2. 1 + 1 = 2
    OBVIOUS
  <2> QED BY <2>1, <2>2 DEF Kids
<1>4. FrameOK(inv, s[1], Kids(inv, c))
  <2>1. FrameOK(inv, s[1], Passed(inv, s, 1))
    BY <1>1 DEF CallsOK
  <2>2. Passed(inv, s, 1) = Kids(inv, c)
    BY DEF Passed
  <2> QED BY <2>1, <2>2
<1>5. FrameOK(inv, s[2], D)
  <2>1. FrameOK(inv, s[2], Passed(inv, s, 2))
    BY <1>1 DEF CallsOK
  <2>2. Passed(inv, s, 2) = D
    BY DEF Passed
  <2> QED BY <2>1, <2>2
<1>6. Passed(inv, t, 1) = D \cup {c}
  BY <1>2, <1>3 DEF Passed
<1>7. FrameOK(inv, g, D \cup {c})
  <2>1. HostsOK(inv, s[1].hostVars, {c}) /\ HostsOK(inv, s[2].hostVars, D)
    BY <1>3, <1>4, <1>5, ReturnedHosts DEF FrameOK, OwnHostsOK
  <2>2. HostsOK(inv, g.hostVars, D \cup {c})
    BY <2>1, MergeHosts
  <2>3. OwnHostsOK(inv, g.hostVars, g.group, D \cup {c})
    <3>1. DOMAIN s[2].hostVars \subseteq DOMAIN g.hostVars
      BY DEF Merge
    <3> QED BY <1>5, <2>2, <3>1 DEF FrameOK, OwnHostsOK
  <2>4. GroupsOK(inv, GroupVars(s[1]), {c})
    BY <1>3, <1>4, ReturnedGroups DEF FrameOK, VarsOf
  <2>5. D \in SUBSET Kids(inv, g.group) /\ c \notin D /\ GroupsOK(inv, s[2].childrenVars, D)
    BY <1>5 DEF FrameOK
  <2> HIDE DEF D
  <2>6. GroupsOK(inv, g.childrenVars, D \cup {c})
    BY <1>3, <2>4, <2>5, MergeGroups
  <2> QED BY <1>5, <2>3, <2>6 DEF FrameOK
<1>8. \A i \in 1..N : t[i].group = s[i + 1].group /\ t[i].todo = s[i + 1].todo
  <2> SUFFICES ASSUME NEW i \in 1..N PROVE t[i].group = s[i + 1].group /\ t[i].todo = s[i + 1].todo
    OBVIOUS
  <2>1. CASE i = 1
    BY <1>2, <2>1
  <2>2. CASE i # 1
    BY <1>2, <2>2
  <2> QED BY <2>1, <2>2
<1>9. ChainOK(inv, t)
  <2>1. t[N].group = Root
    <3>1. s[N + 1].group = Root
      BY <1>1 DEF CallsOK, ChainOK
    <3> QED BY <1>1, <1>8, <3>1
  <2>2. ASSUME NEW i \in 1..N - 1
        PROVE  t[i].group \in Kids(inv, t[i + 1].group) \ t[i + 1].todo /\ N - i <= Depth(inv)[t[i].group]
    <3> DEFINE j == i + 1
    <3>1. i \in 1..N /\ j \in 1..N /\ N + 1 - j = N - i
      BY <1>1
    <3>2. /\ s[j].group \in Kids(inv, s[j + 1].group) \ s[j + 1].todo
          /\ N + 1 - j <= Depth(inv)[s[j].group]
      BY <1>1, <3>1 DEF CallsOK, ChainOK
    <3>3. /\ t[i].group = s[j].group
          /\ t[j].group = s[j + 1].group /\ t[j].todo = s[j + 1].todo
      BY <1>8, <3>1
    <3> QED BY <3>1, <3>2, <3>3
  <2>3. t # <<>>
    BY <1>1, <1>2
  <2> QED BY <1>2, <2>1, <2>2, <2>3 DEF ChainOK
<1>10. ASSUME NEW i \in 1..N
       PROVE  FrameOK(inv, t[i], Passed(inv, t, i))
  <2>1. CASE i = 1
    BY <1>2, <1>6, <1>7, <2>1
  <2>2. CASE i # 1
    <3> DEFINE j == i + 1
    <3>1. j \in 1..N + 1 /\ j # 1 /\ i \in 2..N /\ i - 1 \in 1..N /\ i - 1 + 1 = j - 1
      BY <1>1, <2>2
    <3>2. t[i] = s[j] /\ t[i - 1].group = s[i - 1 + 1].group
      BY <1>2, <1>8, <3>1
    <3>3. FrameOK(inv, s[j], Passed(inv, s, j))
      BY <1>1, <3>1 DEF CallsOK
    <3> HIDE DEF j
    <3>4. (i = 1 <=> j = 1) /\ (j # 1 => t[i - 1].group = s[j - 1].group)
      BY <2>2, <3>1, <3>2
    <3> QED BY <3>2, <3>3, <3>4, FrameKept
  <2> QED BY <2>1, <2>2
<1> QED BY <1>2, <1>9, <1>10 DEF CallsOK

-----------------------------------------------------------------------------
(* NodeVars: the invariant                                                 *)

\* What is returned.
ResultOK(inv, r) ==
  /\ \A x \in DOMAIN r : \E h \in Group :
       (r[x] = <<"host", h>> \/ r[x] = <<"group", h>>) /\ In(inv, h)
  /\ \A g \in Group : Node \in inv.hosts[g] =>
       /\ \A x \in inv.gives[g] : x \in DOMAIN r /\ \E h \in Group : r[x] = <<"host", h>>
       /\ \A x \in inv.defines[g] : x \in DOMAIN r /\ \A h \in Up(inv, g) \ {g} : r[x] # <<"group", h>>
  /\ \A k \in Group : Speaks(inv, k) => \A h \in Up(inv, k) : inv.defines[h] \subseteq DOMAIN r

\* The inductive invariant.
NodeVarsInv ==
  /\ inventory \in Inventories
  /\ stack \in Seq(Frame) /\ result \in VarMap
  /\ CallsOK(inventory, stack)
  /\ stack = <<>> => ResultOK(inventory, result)

LEMMA NodeVarsStart ==
  ASSUME InventoryInit
  PROVE  NodeVarsInv
<1> DEFINE f == [group |-> Root, todo |-> Kids(inventory, Root), hostVars |-> Empty,
                 groupVars |-> Empty, childrenVars |-> Empty]
<1>1. inventory \in Inventories /\ stack = <<f>> /\ result = Empty
  BY ChildrenAreKids DEF InventoryInit
<1>2. f \in Frame
  BY EmptyType DEF Frame, Kids
<1>3. FrameOK(inventory, f, {})
  BY <1>1, NoneMerged, InvType DEF FrameOK, OwnHostsOK
<1>4. f.group = Root /\ f.todo = Kids(inventory, Root)
  OBVIOUS
<1> HIDE DEF f
<1>5. stack \in Seq(Frame) /\ Len(stack) = 1 /\ stack[1] = f /\ stack # <<>>
  BY <1>1, <1>2
<1>6. Passed(inventory, stack, 1) = {}
  BY <1>4, <1>5 DEF Passed
<1>7. ChainOK(inventory, stack)
  BY <1>4, <1>5 DEF ChainOK
<1>8. ASSUME NEW i \in 1..Len(stack)
      PROVE  FrameOK(inventory, stack[i], Passed(inventory, stack, i))
  <2>1. i = 1
    BY <1>5
  <2> QED BY <1>3, <1>5, <1>6, <2>1
<1> QED BY <1>1, <1>5, <1>7, <1>8, EmptyType DEF NodeVarsInv, CallsOK

LEMMA CallStep ==
  ASSUME NodeVarsInv, Call
  PROVE  NodeVarsInv'
<1>1. /\ inventory \in Inventories /\ stack \in Seq(Frame) /\ stack # <<>>
      /\ CallsOK(inventory, stack) /\ UNCHANGED <<inventory, result>> /\ result \in VarMap
  BY DEF NodeVarsInv, Call
<1>2. PICK c \in Top.todo : stack' = <<NewFrame(c), [Top EXCEPT !.todo = @ \ {c}]>> \o Tail(stack)
  BY DEF Call
<1> DEFINE f == NewFrame(c)
           g == [Top EXCEPT !.todo = @ \ {c}]
           s == stack
           t == stack'
<1>3. Top = s[1] /\ s[1] \in Frame
  BY <1>1 DEF Top
<1>4. /\ g \in Frame /\ g.group = s[1].group /\ g.todo = s[1].todo \ {c}
      /\ g.hostVars = s[1].hostVars /\ g.groupVars = s[1].groupVars /\ g.childrenVars = s[1].childrenVars
  BY <1>3 DEF Frame
<1>5. c \in s[1].todo /\ c \in Group
  BY <1>2, <1>3 DEF Frame
<1>6. f \in Frame /\ f.group = c /\ f.todo = Kids(inventory, c) /\ FrameOK(inventory, f, {})
  BY <1>1, <1>5, NewFrameOK
<1>7. t = <<f, g>> \o Tail(s)
  BY <1>2
<1> HIDE DEF f, g
<1>8. /\ t \in Seq(Frame) /\ Len(t) = Len(s) + 1 /\ t[1] = f /\ t[2] = g
      /\ \A i \in 3..Len(t) : t[i] = s[i - 1]
  BY <1>1, <1>4, <1>6, <1>7, Pushed
<1>9. Len(s) \in Nat /\ t # <<>>
  BY <1>1, <1>8
<1> HIDE DEF s, t
<1>10. s \in Seq(Frame) /\ s # <<>> /\ CallsOK(inventory, s)
  BY <1>1 DEF s
<1>11. CallsOK(inventory, t)
  BY <1>1, <1>4, <1>5, <1>6, <1>8, <1>10, PushOK
<1> QED BY <1>1, <1>8, <1>9, <1>11 DEF NodeVarsInv, t

LEMMA ReturnStep ==
  ASSUME NodeVarsInv, Return
  PROVE  NodeVarsInv'
<1> DEFINE s == stack
           t == stack'
           hosts == Merge(s[2].hostVars, s[1].hostVars)
           groups == Merge(s[2].childrenVars, GroupVars(s[1]))
           g == [s[2] EXCEPT !.hostVars = hosts, !.childrenVars = groups]
<1>1. /\ inventory \in Inventories /\ s \in Seq(Frame) /\ Len(s) > 1 /\ s[1].todo = {}
      /\ CallsOK(inventory, s) /\ UNCHANGED <<inventory, result>> /\ result \in VarMap
      /\ Top = s[1] /\ t = <<g>> \o Tail(Tail(s))
  BY DEF NodeVarsInv, Return, Top
<1>2. s[1] \in Frame /\ s[2] \in Frame
  BY <1>1
<1>3. s[1].group \in Group
  <2>1. 1 \in 1..Len(s) - 1
    BY <1>1
  <2> QED BY <1>1, <2>1 DEF CallsOK, ChainOK, Kids
<1>4. GroupVars(s[1]) \in VarMap
  <2>1. VarsOf(s[1].group) \in VarMap
    <3>1. VarsOf(s[1].group) \in [inventory.defines[s[1].group] -> Value]
      BY <1>3 DEF VarsOf, Value
    <3> QED BY <1>1, <1>3, <3>1, InvType, MapType
  <2>2. s[1].groupVars \in VarMap /\ s[1].childrenVars \in VarMap
    BY <1>2 DEF Frame
  <2> QED BY <2>1, <2>2, MergeType DEF GroupVars
<1>5. hosts \in VarMap /\ groups \in VarMap
  BY <1>2, <1>4, MergeType DEF Frame
<1> HIDE DEF hosts, groups
<1>6. /\ g.group = s[2].group /\ g.todo = s[2].todo /\ g.groupVars = s[2].groupVars
      /\ g.hostVars = hosts /\ g.childrenVars = groups
      /\ g \in Frame
  BY <1>2, <1>5 DEF Frame
<1> HIDE DEF g
<1>7. /\ t \in Seq(Frame) /\ Len(t) = Len(s) - 1 /\ t[1] = g
      /\ \A i \in 2..Len(t) : t[i] = s[i + 1]
  <2>1. s \in Seq(Frame) /\ Len(s) > 1 /\ g \in Frame /\ t = <<g>> \o Tail(Tail(s))
    BY <1>1, <1>6
  <2>2. /\ <<g>> \o Tail(Tail(s)) \in Seq(Frame) /\ Len(<<g>> \o Tail(Tail(s))) = Len(s) - 1
        /\ (<<g>> \o Tail(Tail(s)))[1] = g
        /\ \A i \in 2..Len(s) - 1 : (<<g>> \o Tail(Tail(s)))[i] = s[i + 1]
    BY <2>1, Popped
  <2> QED BY <2>1, <2>2
<1>8. t # <<>> /\ Len(s) \in Nat
  BY <1>1, <1>7
<1> HIDE DEF s, t
<1>9. CallsOK(inventory, t)
  BY <1>1, <1>6, <1>7, PopOK DEF hosts, groups
<1> QED BY <1>1, <1>7, <1>8, <1>9 DEF NodeVarsInv, t

LEMMA FinishStep ==
  ASSUME NodeVarsInv, Finish
  PROVE  NodeVarsInv'
<1> DEFINE f == stack[1]
           D == Kids(inventory, Root)
           r == Merge(f.childrenVars, f.hostVars)
<1>1. /\ inventory \in Inventories /\ UNCHANGED inventory /\ stack' = <<>> /\ stack \in Seq(Frame)
      /\ Len(stack) = 1 /\ f.todo = {} /\ result' = r /\ CallsOK(inventory, stack)
  BY DEF NodeVarsInv, Finish, Top, NodeVars
<1>2. f \in Frame
  BY <1>1
<1>3. f.group = Root
  BY <1>1, <1>2 DEF CallsOK, ChainOK
<1>4. FrameOK(inventory, f, D)
  <2>1. FrameOK(inventory, stack[1], Passed(inventory, stack, 1))
    BY <1>1 DEF CallsOK
  <2>2. Passed(inventory, stack, 1) = D
    BY <1>1, <1>3 DEF Passed
  <2> QED BY <2>1, <2>2
<1>5. HostsOK(inventory, f.hostVars, D) /\ GroupsOK(inventory, f.childrenVars, D)
  BY <1>4 DEF FrameOK, OwnHostsOK
<1>6. f.childrenVars \in VarMap /\ f.hostVars \in VarMap
  BY <1>2 DEF Frame
<1> HIDE DEF f
<1>7. /\ DOMAIN r = DOMAIN f.childrenVars \cup DOMAIN f.hostVars
      /\ \A x \in DOMAIN f.hostVars : r[x] = f.hostVars[x]
      /\ \A x \in DOMAIN f.childrenVars \ DOMAIN f.hostVars : r[x] = f.childrenVars[x]
  BY DEF Merge
<1>8. r \in VarMap
  BY <1>6, MergeType
<1> HIDE DEF r, D
<1>9. \A g \in Group : \E c \in D : c \in Up(inventory, g)
  BY <1>1, UpTop DEF D
<1>10. \A h \in Group : Node \in inventory.hosts[h] => In(inventory, h)
  BY <1>1, UpSelf, InventoryAssumption DEF In, Below
<1>11. ASSUME NEW x \in DOMAIN r
       PROVE  \E h \in Group : (r[x] = <<"host", h>> \/ r[x] = <<"group", h>>) /\ In(inventory, h)
  <2>1. CASE x \in DOMAIN f.hostVars
    BY <1>5, <1>7, <1>10, <2>1 DEF HostsOK
  <2>2. CASE x \notin DOMAIN f.hostVars
    BY <1>5, <1>7, <1>11, <2>2 DEF GroupsOK
  <2> QED BY <2>1, <2>2
<1>12. ASSUME NEW g \in Group, Node \in inventory.hosts[g], NEW x \in inventory.gives[g]
       PROVE  x \in DOMAIN r /\ \E h \in Group : r[x] = <<"host", h>>
  <2>1. x \in DOMAIN f.hostVars
    BY <1>5, <1>9, <1>12 DEF HostsOK
  <2> QED BY <1>5, <1>7, <2>1 DEF HostsOK
<1>13. ASSUME NEW g \in Group, Node \in inventory.hosts[g], NEW x \in inventory.defines[g]
       PROVE  x \in DOMAIN r /\ \A h \in Up(inventory, g) \ {g} : r[x] # <<"group", h>>
  <2>1. x \in DOMAIN f.childrenVars /\ \A h \in Up(inventory, g) \ {g} : f.childrenVars[x] # <<"group", h>>
    BY <1>5, <1>9, <1>13 DEF GroupsOK
  <2>2. CASE x \in DOMAIN f.hostVars
    <3>1. PICK h \in Group : r[x] = <<"host", h>>
      BY <1>5, <1>7, <2>2 DEF HostsOK
    <3>2. \A k : <<"host", h>> # <<"group", k>>
      OBVIOUS
    <3> QED BY <1>7, <2>2, <3>1, <3>2
  <2>3. CASE x \notin DOMAIN f.hostVars
    BY <1>7, <2>1, <2>3
  <2> QED BY <2>2, <2>3
<1>14. ASSUME NEW k \in Group, Speaks(inventory, k), NEW h \in Up(inventory, k)
       PROVE  inventory.defines[h] \subseteq DOMAIN r
  <2>1. h \in Group /\ \E c \in D : c \in Up(inventory, h)
    BY <1>9 DEF Up
  <2> QED BY <1>5, <1>7, <1>14, <2>1 DEF GroupsOK
<1>15. ResultOK(inventory, r)
  BY <1>11, <1>12, <1>13, <1>14 DEF ResultOK
<1>16. stack' \in Seq(Frame) /\ CallsOK(inventory, stack')
  BY <1>1 DEF CallsOK, ChainOK
<1> QED BY <1>1, <1>8, <1>15, <1>16 DEF NodeVarsInv

LEMMA NodeVarsInvariance == InventorySpec => []NodeVarsInv
<1>1. InventoryInit => NodeVarsInv
  BY NodeVarsStart
<1>2. NodeVarsInv /\ [InventoryNext]_inventoryVars => NodeVarsInv'
  <2>1. NodeVarsInv /\ UNCHANGED inventoryVars => NodeVarsInv'
    BY DEF NodeVarsInv, inventoryVars
  <2> QED BY <2>1, CallStep, ReturnStep, FinishStep DEF InventoryNext
<1> QED BY <1>1, <1>2, PTL DEF InventorySpec

\* Every variable keeps its type, and NodeVars never has more calls under way than there
\* are groups, and the one on the inventory.
THEOREM InventoryTyped == InventorySpec => []InventoryTypeOK
<1>1. ASSUME NodeVarsInv
      PROVE  InventoryTypeOK
  <2>1. inventory \in Inventories /\ stack \in Seq(Frame) /\ CallsOK(inventory, stack)
    BY <1>1 DEF NodeVarsInv
  <2>2. Len(stack) \in Nat /\ Cardinality(Group) \in Nat
    BY <2>1, DepthType
  <2>3. Len(stack) <= Cardinality(Group) + 1
    <3>1. CASE Len(stack) <= 1
      BY <2>2, <3>1
    <3>2. CASE Len(stack) > 1
      <4>1. 1 \in 1..Len(stack) - 1
        BY <2>2, <3>2
      <4>2. stack[1].group \in Group /\ Len(stack) - 1 <= Depth(inventory)[stack[1].group]
        BY <2>1, <4>1 DEF CallsOK, ChainOK, Kids
      <4>3. Depth(inventory)[stack[1].group] \in 1..Cardinality(Group)
        BY <2>1, <4>2, DepthType
      <4> QED BY <2>2, <4>2, <4>3
    <3> QED BY <2>2, <3>1, <3>2
  <2> QED BY <1>1, <2>3, InventoryAssumption DEF NodeVarsInv, InventoryTypeOK
<1> QED BY NodeVarsInvariance, <1>1, PTL

\* The groups whose plays a host takes part in are those that the dialer's list and the
\* nesting of groups say: Find, which the executer uses, agrees with All, which the dialer uses.
THEOREM FindAgrees == InventorySpec => []FindMatchesAll
<1>1. NodeVarsInv => FindMatchesAll
  BY FindAndAll DEF NodeVarsInv
<1> QED BY NodeVarsInvariance, <1>1, PTL

\* A host's own entry decides a variable, from however deep a group, in whatever order the
\* maps are ranged over.
THEOREM HostEntriesWin == InventorySpec => []HostVarsWin
<1>1. NodeVarsInv => HostVarsWin
  BY DEF NodeVarsInv, ResultOK, HostVarsWin, Returned
<1> QED BY NodeVarsInvariance, <1>1, PTL

\* NodeVars hands a host no variable of a group that it is not in.
THEOREM NoForeignVars == InventorySpec => []OnlyFromItsGroups
<1>1. NodeVarsInv => OnlyFromItsGroups
  BY AllInIsBelow DEF NodeVarsInv, ResultOK, OnlyFromItsGroups, Returned, In
<1> QED BY NodeVarsInvariance, <1>1, PTL

\* What a group that lists the host itself says of a variable is not hidden by what the groups
\* above it say.
THEOREM NearestGroupsWin == InventorySpec => []NearestWins
<1>1. NodeVarsInv => NearestWins
  BY AboveIsUp DEF NodeVarsInv, ResultOK, NearestWins, Returned
<1> QED BY NodeVarsInvariance, <1>1, PTL

\* What a group says of a variable reaches the node when a group at or below it lists the node
\* and sets anything: what is lost was said only above groups without variables.
THEOREM SpokenReaches ==
  InventorySpec => [](Returned => \A k \in Group : Speaks(inventory, k) =>
                        \A g \in {k} \cup Above(k) : inventory.defines[g] \subseteq DOMAIN result)
<1> DEFINE Reaches == Returned => \A k \in Group : Speaks(inventory, k) =>
                        \A g \in {k} \cup Above(k) : inventory.defines[g] \subseteq DOMAIN result
<1>1. ASSUME NodeVarsInv, Returned, NEW k \in Group, Speaks(inventory, k), NEW g \in {k} \cup Above(k)
      PROVE  inventory.defines[g] \subseteq DOMAIN result
  <2>1. g \in Up(inventory, k)
    BY <1>1, AboveIsUp, UpSelf DEF NodeVarsInv
  <2> QED BY <1>1, <2>1 DEF NodeVarsInv, ResultOK, Returned
<1>2. NodeVarsInv => Reaches
  BY <1>1
<1> QED BY NodeVarsInvariance, <1>2, PTL

\* So what Find's comment says of the members of a child group is true of their variables where
\* every group that lists the node sets at least one.
THEOREM ParentsReach ==
  ASSUME \A inv \in Inventories, g \in Group : Node \in inv.hosts[g] => inv.defines[g] # {}
  PROVE  InventorySpec => []EveryGroupReaches
<1>1. ASSUME NodeVarsInv, Returned, NEW g \in Group, Node \in AllIn[g]
      PROVE  inventory.defines[g] \subseteq DOMAIN result
  <2>1. inventory \in Inventories
    BY <1>1 DEF NodeVarsInv
  <2>2. PICK k \in Group : g \in Up(inventory, k) /\ Node \in inventory.hosts[k]
    BY <1>1, <2>1, AllInIsBelow DEF Below
  <2>3. Speaks(inventory, k)
    BY <2>1, <2>2 DEF Speaks
  <2> QED BY <1>1, <2>2, <2>3 DEF NodeVarsInv, ResultOK, Returned
<1>2. NodeVarsInv => EveryGroupReaches
  BY <1>1 DEF EveryGroupReaches
<1> QED BY NodeVarsInvariance, <1>2, PTL

-----------------------------------------------------------------------------
(* The two together: the dialers take their hosts from All, and upload the *)
(* inventory that the executers read.                                      *)

HostsListed == Host = All

\* When a dialer has ended well, its executer has succeeded on the hosts that some group lists,
\* and so on every host that a play for a group can be meant for.
FleetDone ==
  \A d \in Dialer : pc[d] = "exit" =>
    /\ \A n \in HostName : n \in applied[d] <=> \E g \in Group : n \in inventory.hosts[g]
    /\ \A n \in HostName, name \in {NameOf[g] : g \in Group} \ {"all"} :
         name \in Find(n) => n \in applied[d]

LEMMA ListedStays ==
  ASSUME HostsListed, UNCHANGED inventory
  PROVE  HostsListed'
BY DEF HostsListed, All, AllIn, Children

LEMMA FleetDoneHolds ==
  ASSUME HostsAccounted, NodeVarsInv, HostsListed
  PROVE  FleetDone
<1>1. inventory \in Inventories /\ FindMatchesAll
  BY FindAndAll DEF NodeVarsInv
<1> SUFFICES ASSUME NEW d \in Dialer, pc[d] = "exit"
             PROVE  /\ \A n \in HostName : n \in applied[d] <=> \E g \in Group : n \in inventory.hosts[g]
                    /\ \A n \in HostName, name \in {NameOf[g] : g \in Group} \ {"all"} :
                         name \in Find(n) => n \in applied[d]
  BY DEF FleetDone
<1>2. applied[d] = All
  BY DEF HostsAccounted, HostsListed
<1>3. \A n \in HostName : n \in applied[d] <=> \E g \in Group : n \in inventory.hosts[g]
  BY <1>1, <1>2 DEF FindMatchesAll
<1>4. ASSUME NEW n \in HostName, NEW name \in {NameOf[g] : g \in Group} \ {"all"}, name \in Find(n)
      PROVE  n \in applied[d]
  <2>1. PICK g \in Group : n \in AllIn[g]
    BY <1>1, <1>4 DEF FindMatchesAll
  <2>2. n \in Below(inventory, g)
    BY <1>1, <2>1, AllInIsBelow
  <2>3. \E k \in Group : n \in inventory.hosts[k]
    BY <2>2 DEF Below
  <2> QED BY <1>3, <2>3
<1> QED BY <1>3, <1>4

\* A dialer that has ended well leaves no member of any group, however the groups are nested,
\* without a successful run of the executer.
THEOREM GroupsConfigured == Spec /\ InventorySpec /\ HostsListed => []FleetDone
<1>1. NodeVarsInv /\ HostsListed /\ [InventoryNext]_inventoryVars => HostsListed'
  <2>1. NodeVarsInv /\ [InventoryNext]_inventoryVars => UNCHANGED inventory
    BY DEF InventoryNext, Call, Return, Finish, inventoryVars
  <2> QED BY <2>1, ListedStays
<1>2. HostsAccounted /\ NodeVarsInv /\ HostsListed => FleetDone
  BY FleetDoneHolds
<1>3. Spec => []HostsAccounted
  BY Accounted
<1> QED BY <1>1, <1>2, <1>3, NodeVarsInvariance, PTL DEF InventorySpec
=============================================================================
