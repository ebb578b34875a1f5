------------------------------- MODULE Dialer -------------------------------
(***************************************************************************)
(* Dialers that work through the hosts of an inventory, one host after the *)
(* other: connect, make a directory under /tmp, upload the executer, the   *)
(* inventory and the archive, run the executer, remove the directory,      *)
(* disconnect.  Several dialers may run at once, against the same hosts.   *)
(* Connections get lost, uploads and executers fail, dialers get killed.   *)
(***************************************************************************)

CONSTANTS
  Dialer,    \* the dialer processes
  Host,      \* the hosts inventory.All returned
  Dir,       \* the names tempDirName can draw
  NoHost,
  NoDir

ASSUME DialerAssumption == NoHost \notin Host /\ NoDir \notin Dir

File == {"executer", "inventory", "data"}

VARIABLES
  pc,         \* where each dialer is
  todo,       \* hosts that its loop has not reached
  host,       \* the host it is at
  dir,        \* the directory that its deferred RemoveAll is for
  link,       \* its connection
  failed,     \* whether Execute is returning an error
  dirs,       \* the directories that exist: pairs of a host and a name
  uploaded,   \* the files that are there in full: a host, a name, a file
  executing,  \* the executers that run: a host, a name
  applied,    \* history: the hosts that a dialer's executer succeeded on
  orphans     \* history: directories left by a kill, a lost link or a failed removal

vars == <<pc, todo, host, dir, link, failed, dirs, uploaded, executing, applied, orphans>>
remote == <<dirs, uploaded, executing, orphans>>

Ended == {"exit", "fatal", "killed"}
InExecute == {"executer", "inventory", "data", "session", "wait", "cleanup"}

Init ==
  /\ pc = [d \in Dialer |-> "next"]
  /\ todo = [d \in Dialer |-> Host]
  /\ host = [d \in Dialer |-> NoHost]
  /\ dir = [d \in Dialer |-> NoDir]
  /\ link = [d \in Dialer |-> "none"]
  /\ failed = [d \in Dialer |-> FALSE]
  /\ dirs = {} /\ uploaded = {} /\ executing = {}
  /\ applied = [d \in Dialer |-> {}]
  /\ orphans = {}

Here(d) == <<host[d], dir[d]>>
Goto(d, l) == pc' = [pc EXCEPT ![d] = l]

-----------------------------------------------------------------------------
(* main's loop and NewDialer                                               *)

NextHost(d) ==
  /\ pc[d] = "next"
  /\ \E h \in todo[d] :
       /\ host' = [host EXCEPT ![d] = h]
       /\ todo' = [todo EXCEPT ![d] = @ \ {h}]
  /\ Goto(d, "connect")
  /\ UNCHANGED <<dir, link, failed, applied, remote>>

Exit(d) ==
  /\ pc[d] = "next" /\ todo[d] = {}
  /\ Goto(d, "exit")
  /\ UNCHANGED <<todo, host, dir, link, failed, applied, remote>>

Connect(d) ==
  /\ pc[d] = "connect"
  /\ link' = [link EXCEPT ![d] = "up"]
  /\ Goto(d, "mkdir")
  /\ UNCHANGED <<todo, host, dir, failed, applied, remote>>

\* ssh.Dial or sftp.NewClient fails.
ConnectFails(d) ==
  /\ pc[d] = "connect"
  /\ Goto(d, "fatal")
  /\ UNCHANGED <<todo, host, dir, link, failed, applied, remote>>

-----------------------------------------------------------------------------
(* Execute                                                                 *)

\* sftp's Mkdir fails on a name that exists.
CanMakeBug(d, n) == link[d] = "up"     \* MkdirAll, which does not
CanMake(d, n) == link[d] = "up" /\ <<host[d], n>> \notin dirs

MakeDir(d) ==
  /\ pc[d] = "mkdir"
  /\ \E n \in Dir :
       /\ CanMake(d, n)
       /\ dirs' = dirs \cup {<<host[d], n>>}
       /\ dir' = [dir EXCEPT ![d] = n]
  /\ Goto(d, "executer")
  /\ UNCHANGED <<todo, host, link, failed, uploaded, executing, applied, orphans>>

\* The name is taken, or the call fails.  RemoveAll is not deferred yet.
AfterMakeDirFailsRetry == "mkdir"   \* another name is drawn, for ever
AfterMakeDirFailsBug == "cleanup"   \* there is nothing to remove
AfterMakeDirFails == "close"
DeferredBug(d, n) == n            \* deferred before Mkdir is known to have worked
Deferred(d, n) == NoDir

MakeDirFails(d) ==
  /\ pc[d] = "mkdir"
  /\ \E n \in Dir : dir' = [dir EXCEPT ![d] = Deferred(d, n)]
  /\ failed' = [failed EXCEPT ![d] = TRUE]
  /\ Goto(d, IF dir'[d] = NoDir THEN AfterMakeDirFails ELSE "cleanup")
  /\ UNCHANGED <<todo, host, link, applied, remote>>

\* The directory is made and the connection lost before the answer: an error like any other.
MakeDirUnanswered(d) ==
  /\ pc[d] = "mkdir"
  /\ \E n \in Dir :
       /\ CanMake(d, n)
       /\ dirs' = dirs \cup {<<host[d], n>>}
       /\ orphans' = orphans \cup {<<host[d], n>>}
  /\ link' = [link EXCEPT ![d] = "lost"]
  /\ failed' = [failed EXCEPT ![d] = TRUE]
  /\ Goto(d, AfterMakeDirFails)
  /\ UNCHANGED <<todo, host, dir, uploaded, executing, applied>>

After(f) ==
  CASE f = "executer"  -> "inventory"
    [] f = "inventory" -> "data"
    [] f = "data"      -> "session"

Upload(d) ==
  /\ pc[d] \in File /\ link[d] = "up"
  /\ uploaded' = uploaded \cup {<<host[d], dir[d], pc[d]>>}
  /\ Goto(d, After(pc[d]))
  /\ UNCHANGED <<todo, host, dir, link, failed, dirs, executing, applied, orphans>>

\* The remote system is unknown, the local file cannot be read, the archive cannot
\* be made, the copy stops half way: what is there is not the file.
OnErrorBug == "close"             \* the deferred RemoveAll is left out on this path
OnError == "cleanup"

UploadFails(d) ==
  /\ pc[d] \in File
  /\ failed' = [failed EXCEPT ![d] = TRUE]
  /\ Goto(d, OnError)
  /\ UNCHANGED <<todo, host, dir, link, applied, remote>>

StartExecuter(d) ==
  /\ pc[d] = "session" /\ link[d] = "up"
  /\ executing' = executing \cup {Here(d)}
  /\ Goto(d, "wait")
  /\ UNCHANGED <<todo, host, dir, link, failed, dirs, uploaded, applied, orphans>>

SessionFails(d) ==
  /\ pc[d] = "session"
  /\ failed' = [failed EXCEPT ![d] = TRUE]
  /\ Goto(d, OnError)
  /\ UNCHANGED <<todo, host, dir, link, applied, remote>>

\* CombinedOutput returns with the exit status of the executer.
ExecuterReturns(d) ==
  /\ pc[d] = "wait" /\ link[d] = "up"
  /\ executing' = executing \ {Here(d)}
  /\ \E ok \in BOOLEAN :
       /\ failed' = [failed EXCEPT ![d] = ~ok]
       /\ applied' = IF ok THEN [applied EXCEPT ![d] = @ \cup {host[d]}] ELSE applied
  /\ Goto(d, "cleanup")
  /\ UNCHANGED <<todo, host, dir, link, dirs, uploaded, orphans>>

\* CombinedOutput returns because the connection is gone; the executer is not.
WaitFails(d) ==
  /\ pc[d] = "wait" /\ link[d] = "lost"
  /\ failed' = [failed EXCEPT ![d] = TRUE]
  /\ Goto(d, "cleanup")
  /\ UNCHANGED <<todo, host, dir, link, applied, remote>>

\* RemoveAll over the connection of the run.
CanRemoveBug(d) == TRUE           \* over a connection made anew
CanRemove(d) == link[d] = "up"

Cleanup(d) ==
  /\ pc[d] = "cleanup" /\ CanRemove(d)
  /\ dirs' = dirs \ {Here(d)}
  /\ uploaded' = uploaded \ {<<host[d], dir[d], f>> : f \in File}
  /\ dir' = [dir EXCEPT ![d] = NoDir]
  /\ Goto(d, "close")
  /\ UNCHANGED <<todo, host, link, failed, executing, applied, orphans>>

\* Its error is ignored: the directory stays, with or without its files.
CleanupFails(d) ==
  /\ pc[d] = "cleanup"
  /\ \E gone \in {{}, File} :
       /\ gone # {} => CanRemove(d)
       /\ uploaded' = uploaded \ {<<host[d], dir[d], f>> : f \in gone}
  /\ orphans' = orphans \cup {Here(d)}
  /\ dir' = [dir EXCEPT ![d] = NoDir]
  /\ Goto(d, "close")
  /\ UNCHANGED <<todo, host, link, failed, dirs, executing, applied>>

\* Close, and main's look at the error.
AfterCloseBug(d) == "next"        \* a failed host does not stop the loop
AfterClose(d) == IF failed[d] THEN "fatal" ELSE "next"

Close(d) ==
  /\ pc[d] = "close"
  /\ link' = [link EXCEPT ![d] = "none"]
  /\ host' = [host EXCEPT ![d] = NoHost]
  /\ Goto(d, AfterClose(d))
  /\ UNCHANGED <<todo, dir, failed, applied, remote>>

-----------------------------------------------------------------------------
(* The environment                                                         *)

LoseLink(d) ==
  /\ link[d] = "up" /\ pc[d] \notin Ended
  /\ link' = [link EXCEPT ![d] = "lost"]
  /\ UNCHANGED <<pc, todo, host, dir, failed, applied, remote>>

Kill(d) ==
  /\ pc[d] \notin Ended
  /\ Goto(d, "killed")
  /\ link' = [link EXCEPT ![d] = "none"]
  /\ orphans' = IF dir[d] = NoDir THEN orphans ELSE orphans \cup {Here(d)}
  /\ dir' = [dir EXCEPT ![d] = NoDir]
  /\ UNCHANGED <<todo, host, failed, dirs, uploaded, executing, applied>>

\* An executer that nobody waits for any more ends.
OrphanEnds ==
  /\ \E e \in executing :
       /\ \A d \in Dialer : pc[d] = "wait" => Here(d) # e
       /\ executing' = executing \ {e}
  /\ UNCHANGED <<pc, todo, host, dir, link, failed, dirs, uploaded, applied, orphans>>

Step(d) ==
  \/ NextHost(d) \/ Exit(d) \/ Connect(d) \/ ConnectFails(d)
  \/ MakeDir(d) \/ MakeDirFails(d) \/ MakeDirUnanswered(d) \/ Upload(d) \/ UploadFails(d)
  \/ StartExecuter(d) \/ SessionFails(d) \/ ExecuterReturns(d) \/ WaitFails(d)
  \/ Cleanup(d) \/ CleanupFails(d) \/ Close(d)

Next == (\E d \in Dialer : Step(d) \/ LoseLink(d) \/ Kill(d)) \/ OrphanEnds

\* A dialer goes on while it can; its calls return, that of the executer included.
Fairness == \A d \in Dialer : WF_vars(Step(d))

Spec == Init /\ [][Next]_vars /\ Fairness

-----------------------------------------------------------------------------
(* Properties                                                              *)

TypeOK ==
  /\ pc \in [Dialer -> {"next", "connect", "mkdir", "close"} \cup InExecute \cup Ended]
  /\ todo \in [Dialer -> SUBSET Host]
  /\ host \in [Dialer -> Host \cup {NoHost}]
  /\ dir \in [Dialer -> Dir \cup {NoDir}]
  /\ link \in [Dialer -> {"none", "up", "lost"}]
  /\ failed \in [Dialer -> BOOLEAN]
  /\ dirs \in SUBSET (Host \X Dir)
  /\ uploaded \in SUBSET (Host \X Dir \X File)
  /\ executing \in SUBSET (Host \X Dir)
  /\ applied \in [Dialer -> SUBSET Host]
  /\ orphans \in SUBSET (Host \X Dir)

\* Two dialers never work in one directory of a host, whatever names they draw.
DirExclusive ==
  \A d, e \in Dialer : d # e /\ dir[d] # NoDir => Here(d) # Here(e)

\* From Mkdir to its own RemoveAll a dialer's directory is there, with every file it
\* has uploaded: no other dialer's failure or cleanup takes it away.
Done(l) ==
  CASE l \in {"session", "wait"} -> File
    [] l = "data"      -> {"executer", "inventory"}
    [] l = "inventory" -> {"executer"}
    [] OTHER           -> {}

OwnDirIntact ==
  \A d \in Dialer : dir[d] # NoDir =>
    Here(d) \in dirs /\ \A f \in Done(pc[d]) : <<host[d], dir[d], f>> \in uploaded

\* An executer that runs has its directory and all of its files until it ends, also
\* when the dialer that started it has lost it or is gone.
ExecuterHasItsFiles ==
  \A e \in executing : e \in dirs /\ \A f \in File : <<e[1], e[2], f>> \in uploaded

\* What is left under /tmp of a host is in use, or was left by a kill, by a lost
\* connection or by a removal that failed: no path through Execute forgets it.
NoLeftover == \A x \in dirs : x \in orphans \/ \E d \in Dialer : dir[d] # NoDir /\ Here(d) = x

\* A dialer that exits with success has run the executer on every host with
\* success; one that does not has left at most one host half done.
HostsAccounted ==
  \A d \in Dialer :
    /\ pc[d] = "exit" => applied[d] = Host
    /\ \E h \in Host \cup {NoHost} : Host \subseteq todo[d] \cup applied[d] \cup {h}

\* Whatever is lost, fails or is killed, a dialer does what a rollout does: no host is
\* taken twice or after a failure, none counts as done without its executer's success,
\* and every dialer ends.
Current == [d \in Dialer |-> IF pc[d] \in Ended THEN NoHost ELSE host[d]]
Outcome == [d \in Dialer |-> IF pc[d] \in Ended THEN pc[d] ELSE "running"]
R == INSTANCE Rollout WITH waiting <- todo, current <- Current, outcome <- Outcome
ImplementsRollout == R!Spec
=============================================================================
