---------------------------- MODULE PreforkMaster ----------------------------
(***************************************************************************)
(* The master process: PreforkServer::run, _spawnChild up to fork,         *)
(* _reapChildren, _cleanupChildren and _hupHandler.                        *)
(***************************************************************************)
EXTENDS PreforkState

AvailKids == {p \in children : avail[p]}

-----------------------------------------------------------------------------
(* The entries of m_children *)

\* child_new(child, true)
NewChildNotAvail(p) ==
  /\ children' = children \cup {p}
  /\ file'  = [file EXCEPT ![p] = TRUE]
  /\ avail' = [avail EXCEPT ![p] = FALSE]

NewChild(p) ==
  /\ children' = children \cup {p}
  /\ file'  = [file EXCEPT ![p] = TRUE]
  /\ avail' = [avail EXCEPT ![p] = TRUE]

\* close(x->file); x->file = -1, for an entry that has a descriptor
CloseFileLeaks(p) ==
  /\ file' = [file EXCEPT ![p] = FALSE]
  /\ UNCHANGED fds

CloseFile(p) ==
  /\ file' = [file EXCEPT ![p] = FALSE]
  /\ fds'  = IF file[p] THEN fds - 1 ELSE fds

\* m_children.erase
ForgetNot(p) == UNCHANGED children

Forget(p) == children' = children \ {p}

-----------------------------------------------------------------------------
(* _spawnChild *)

\* Both ends of the socketpair are opened; after fork the master closes the
\* worker's end and enters the worker, available, into m_children. The process
\* starts with copies of g_keepGoing and of every open master end.
Spawn ==
  \E p \in Pids :
    /\ wpc[p] = "none"
    /\ NewChild(p)
    /\ fds' = fds + 1
    /\ wpc'  = [wpc EXCEPT ![p] = "born"]
    /\ go'   = [go EXCEPT ![p] = keepGoing]
    /\ held' = [held EXCEPT ![p] = OpenEnds]
    /\ UNCHANGED <<keepGoing, hup, todo, abnormal, chan, reqs, cur, sig, envVars>>

\* fork fails: the function returns with both descriptors open.
SpawnFails ==
  /\ forkFails < MaxForkFails
  /\ forkFails' = forkFails + 1
  /\ fds' = fds + 2
  /\ UNCHANGED <<keepGoing, hup, children, file, avail, todo, abnormal,
                 workerVars, conn, crashes>>

-----------------------------------------------------------------------------
(* The main loop *)

MGoto(pc) == mpc' = pc /\ UNCHANGED <<keepGoing, hup, children, file, avail, abnormal, fds>>

\* Leaving the loop enters _cleanupChildren, whose first loop visits every entry.
Break == MGoto("close") /\ todo' = children

\* while(g_keepGoing)
Top ==
  /\ mpc = "top"
  /\ \/ keepGoing /\ MGoto("fill") /\ UNCHANGED todo
     \/ ~keepGoing /\ Break
  /\ UNCHANGED <<workerVars, envVars>>

\* while(m_children.size() < m_maxSpare), whatever m_maxChildren says
TooFew == Cardinality(children) < MaxSpare

Fill ==
  /\ mpc = "fill"
  /\ TooFew
  /\ \/ Spawn /\ UNCHANGED mpc
     \/ SpawnFails /\ mpc' = "select"

FillDone ==
  /\ mpc = "fill"
  /\ ~TooFew
  /\ MGoto("select")
  /\ UNCHANGED <<todo, workerVars, envVars>>

\* select returns the ready descriptors, none after its timeout.
Select ==
  /\ mpc = "select"
  /\ MGoto("scan")
  /\ todo' = {p \in OpenEnds : Readable(p)}
  /\ UNCHANGED <<workerVars, envVars>>

\* select fails with another error than EINTR.
SelectFails ==
  /\ SelectMayFail
  /\ mpc = "select"
  /\ Break
  /\ UNCHANGED <<workerVars, envVars>>

\* if(state != '\x00')
SaysAvailInverted(byte) == byte = Busy

SaysAvail(byte) == byte # Busy

\* recv returns the next byte.
RecvByte ==
  /\ mpc = "scan"
  /\ \E p \in todo :
       /\ Least(p, todo)
       /\ chan[p] # <<>>
       /\ avail' = [avail EXCEPT ![p] = SaysAvail(Head(chan[p]))]
       /\ chan'  = [chan EXCEPT ![p] = Tail(@)]
       /\ todo'  = todo \ {p}
  /\ UNCHANGED <<mpc, keepGoing, hup, children, file, abnormal, fds,
                 wpc, go, held, reqs, cur, sig, envVars>>

\* abnormal_exit counts ends of file that come within two seconds of the one
\* before; the clock decides which do.
CountExitGoesOn ==
  \E soon \in BOOLEAN :
    /\ abnormal' = IF soon THEN abnormal + 1 ELSE 0
    /\ UNCHANGED keepGoing

CountExitEarly ==
  \E soon \in BOOLEAN :
    /\ abnormal' = IF soon THEN abnormal + 1 ELSE 0
    /\ keepGoing' = (keepGoing /\ abnormal' < AbnormalLimit)

CountExit ==
  \E soon \in BOOLEAN :
    /\ abnormal' = IF soon THEN abnormal + 1 ELSE 0
    /\ keepGoing' = (keepGoing /\ abnormal' <= AbnormalLimit)

\* recv returns 0 at the end of file. The variable that counts the ready
\* descriptors holds that 0 now, so the scan stops here; the entries left out
\* are still readable at the next select.
RecvEof ==
  /\ mpc = "scan"
  /\ \E p \in todo :
       /\ Least(p, todo)
       /\ chan[p] = <<>>
       /\ CloseFile(p)
       /\ avail' = [avail EXCEPT ![p] = FALSE]
  /\ CountExit
  /\ todo' = {}
  /\ UNCHANGED <<mpc, hup, children, workerVars, envVars>>

ScanDone ==
  /\ mpc = "scan"
  /\ todo = {}
  /\ MGoto("reap")
  /\ UNCHANGED <<todo, workerVars, envVars>>

-----------------------------------------------------------------------------
(* _reapChildren *)

\* waitpid (or wait) returned p: its entry goes, with its descriptor if that is
\* still open, and the kernel may hand the pid out again. A copy of the old
\* master end that a fresh sibling holds belongs to no worker any more.
Erase(p) ==
  /\ Forget(p)
  /\ CloseFile(p)
  /\ avail' = [avail EXCEPT ![p] = FALSE]
  /\ wpc'  = [wpc EXCEPT ![p] = "none"]
  /\ held' = [q \in Pids |-> held[q] \ {p}]
  /\ chan' = [chan EXCEPT ![p] = <<>>]
  /\ UNCHANGED <<keepGoing, hup, todo, abnormal, go, reqs, cur, sig, envVars>>

Reap ==
  /\ mpc = "reap"
  /\ keepGoing
  /\ \E p \in Zombies : Erase(p)
  /\ UNCHANGED mpc

ReapDone ==
  /\ mpc = "reap"
  /\ ~keepGoing \/ Zombies = {}
  /\ MGoto("adjust")
  /\ UNCHANGED <<todo, workerVars, envVars>>

-----------------------------------------------------------------------------
(* Growing and shrinking the pool *)

TooBusy == Cardinality(AvailKids) < MinSpare

TooIdleOffByOne == Cardinality(AvailKids) >= MaxSpare

TooIdle == Cardinality(AvailKids) > MaxSpare

HasRoomOffByOne == Cardinality(children) <= MaxChildren

HasRoom == Cardinality(children) < MaxChildren

Adjust ==
  /\ mpc = "adjust"
  /\ \/ ~keepGoing /\ Break
     \/ keepGoing /\ TooBusy /\ MGoto("grow") /\ UNCHANGED todo
     \/ keepGoing /\ ~TooBusy /\ TooIdle /\ MGoto("shrink") /\ UNCHANGED todo
     \/ keepGoing /\ ~TooBusy /\ ~TooIdle /\ MGoto("top") /\ UNCHANGED todo
  /\ UNCHANGED <<workerVars, envVars>>

Grow ==
  /\ mpc = "grow"
  /\ TooBusy /\ HasRoom
  /\ \/ Spawn /\ UNCHANGED mpc
     \/ SpawnFails /\ mpc' = "top"

GrowDone ==
  /\ mpc = "grow"
  /\ ~(TooBusy /\ HasRoom)
  /\ MGoto("top")
  /\ UNCHANGED <<todo, workerVars, envVars>>

\* Closing the master's end is how a worker is asked to leave; what it sent and
\* the master had not read is gone.
CloseEnd(p) ==
  /\ CloseFile(p)
  /\ chan' = [chan EXCEPT ![p] = <<>>]

Shrink ==
  /\ mpc = "shrink"
  /\ TooIdle
  /\ \E p \in AvailKids :
       /\ Least(p, AvailKids)
       /\ CloseEnd(p)
       /\ avail' = [avail EXCEPT ![p] = FALSE]
  /\ UNCHANGED <<mpc, keepGoing, hup, children, todo, abnormal,
                 wpc, go, held, reqs, cur, sig, envVars>>

ShrinkDone ==
  /\ mpc = "shrink"
  /\ ~TooIdle
  /\ MGoto("top")
  /\ UNCHANGED <<todo, workerVars, envVars>>

-----------------------------------------------------------------------------
(* _cleanupChildren *)

\* kill(p, s): the signal is on its way, p runs on until it is delivered. One
\* sent to a process that has ended but was not waited for does nothing.
SendSignal(p, s) == sig' = [sig EXCEPT ![p] = IF Alive(p) THEN @ \cup {s} ELSE @]

\* Every worker is asked to leave; the ones not believed available get SIGINT.
CloseAll ==
  /\ mpc = "close"
  /\ \E p \in todo :
       /\ Least(p, todo)
       /\ CloseEnd(p)
       /\ IF avail[p] THEN UNCHANGED sig ELSE SendSignal(p, "INT")
       /\ todo' = todo \ {p}
  /\ UNCHANGED <<mpc, keepGoing, hup, children, avail, abnormal,
                 wpc, go, held, reqs, cur, envVars>>

CloseDone ==
  /\ mpc = "close"
  /\ todo = {}
  /\ MGoto("wait")
  /\ UNCHANGED <<todo, workerVars, envVars>>

\* wait(NULL) returns a worker that has ended.
WaitReap ==
  /\ mpc = "wait"
  /\ \E p \in Zombies : Erase(p)
  /\ UNCHANGED mpc

WaitDone ==
  /\ mpc = "wait"
  /\ children = {}
  /\ MGoto("kill")
  /\ UNCHANGED <<todo, workerVars, envVars>>

\* The alarm set for ten seconds, or another signal, makes wait fail with EINTR,
\* unless the system restarts it: then the handler runs and the wait goes on.
WaitInterrupted ==
  /\ ~WaitRestarts
  /\ mpc = "wait"
  /\ children # {}
  /\ MGoto("kill")
  /\ todo' = children
  /\ UNCHANGED <<workerVars, envVars>>

\* kill(pid, SIGKILL)
KillIfNotAvail(p) == IF avail[p] THEN UNCHANGED sig ELSE SendSignal(p, "KILL")

KillForcibly(p) == SendSignal(p, "KILL")

\* SIGKILL to whatever is left. Nobody waits for it to be delivered.
Kill ==
  /\ mpc = "kill"
  /\ \E p \in todo :
       /\ Least(p, todo)
       /\ KillForcibly(p)
       /\ todo' = todo \ {p}
  /\ UNCHANGED <<mpc, keepGoing, hup, children, file, avail, abnormal, fds,
                 wpc, go, held, chan, reqs, cur, envVars>>

\* _restoreSignalHandlers and return g_hupReceived; main() returns after it.
KillDone ==
  /\ mpc = "kill"
  /\ todo = {}
  /\ MGoto("done")
  /\ UNCHANGED <<todo, workerVars, envVars>>

-----------------------------------------------------------------------------
(* Signals and failures *)

\* _hupHandler, for SIGINT, SIGTERM and SIGHUP alike. It makes a select in
\* progress fail with EINTR; one that has not started yet is not affected. A
\* later signal changes nothing (WaitInterrupted is what it does to wait).
HupHandler ==
  /\ mpc \notin {"done", "dead"}
  /\ ~hup
  /\ keepGoing' = FALSE
  /\ hup' = TRUE
  /\ \/ UNCHANGED mpc
     \/ mpc = "select" /\ mpc' = "top"
  /\ UNCHANGED <<children, file, avail, todo, abnormal, fds, workerVars, envVars>>

MasterCode ==
  \/ Top \/ Fill \/ FillDone
  \/ Select \/ RecvByte \/ RecvEof \/ ScanDone
  \/ Reap \/ ReapDone
  \/ Adjust \/ Grow \/ GrowDone \/ Shrink \/ ShrinkDone
  \/ CloseAll \/ CloseDone \/ WaitReap \/ WaitDone \/ WaitInterrupted
  \/ Kill \/ KillDone

MasterNext == MasterCode \/ SelectFails \/ HupHandler
=============================================================================
