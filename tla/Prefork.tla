------------------------------- MODULE Prefork -------------------------------
(***************************************************************************)
(* The prefork server as a whole: the master, its workers, the clients     *)
(* that connect, and the properties of their interplay.                    *)
(***************************************************************************)
EXTENDS PreforkMaster, PreforkWorker

\* A client connects to the listening socket, which the master and every worker
\* hold open.
Arrive(c) ==
  /\ mpc \notin {"done", "dead"} \/ \E p \in Pids : Alive(p)
  /\ conn[c] = "new"
  /\ conn' = [conn EXCEPT ![c] = "queued"]
  /\ UNCHANGED <<masterVars, workerVars, crashes, forkFails>>

\* The master is killed: the kernel closes its descriptors, nothing is cleaned up.
MasterDies ==
  /\ MasterMayDie
  /\ mpc \notin {"done", "dead"}
  /\ mpc' = "dead"
  /\ file' = [p \in Pids |-> FALSE]
  /\ chan' = [p \in Pids |-> <<>>]
  /\ fds' = 0
  /\ todo' = {}
  /\ UNCHANGED <<keepGoing, hup, children, avail, abnormal,
                 wpc, go, held, reqs, cur, sig, envVars>>

\* The master is gone: what is left to happen is up to the workers.
Over ==
  /\ mpc \in {"done", "dead"}
  /\ UNCHANGED vars

Next ==
  \/ MasterNext
  \/ \E p \in Pids : WorkerNext(p)
  \/ \E c \in Conns : Arrive(c)
  \/ MasterDies
  \/ Over

Spec == Init /\ [][Next]_vars

\* Every process is scheduled; a client may be silent for ever, and with
\* max_execute_time = 0 so may a script.
UntimedSpec == Spec /\ WF_vars(MasterCode) /\ \A p \in Pids : WF_vars(WorkerCode(p))

-----------------------------------------------------------------------------
(* Safety *)

Stopping == mpc \in {"close", "wait", "kill", "done", "dead"}

\* The variables stay in their ranges; abnormal_exit never passes the limit by
\* more than the exit that stops the server.
TypeOK ==
  /\ mpc \in MasterPCs
  /\ keepGoing \in BOOLEAN
  /\ hup \in BOOLEAN
  /\ children \in SUBSET Pids
  /\ file \in [Pids -> BOOLEAN]
  /\ avail \in [Pids -> BOOLEAN]
  /\ todo \in SUBSET Pids
  /\ abnormal \in 0 .. AbnormalLimit + 1
  /\ fds \in Int
  /\ wpc \in [Pids -> WorkerPCs]
  /\ go \in [Pids -> BOOLEAN]
  /\ held \in [Pids -> SUBSET Pids]
  /\ chan \in [Pids -> Seq({Busy, Free})]
  /\ reqs \in [Pids -> Nat]
  /\ cur \in [Pids -> Conns \cup {NoConn}]
  /\ sig \in [Pids -> SUBSET Signals]
  /\ conn \in [Conns -> ConnStates]
  /\ crashes \in 0 .. MaxCrashes
  /\ forkFails \in 0 .. MaxForkFails

\* m_children is exactly the set of forked processes not yet waited for, dead
\* ones included: no exit is missed ("child %d not mine"), and the kill() of
\* _cleanupChildren never hits a pid that the kernel has handed to another.
TableExact == children = {p \in Pids : wpc[p] # "none"}

\* The two spawning loops of run(), one bounded by max_spare and the other by
\* max_children, together never exceed the larger bound, whatever is dying,
\* retired or failing to start meanwhile.
PoolBound == Cardinality(children) <= Larger(MaxSpare, MaxChildren)

\* What the master will believe of p once it has read everything p sent.
LastWord(p) ==
  IF chan[p] = <<>> THEN avail[p] ELSE chan[p][Len(chan[p])] = Free

\* The master's view of a worker it has not let go lags behind but is never
\* wrong for good: up to the bytes in flight, it is available exactly when it
\* is not between its two _notifyParent calls.
BeliefTracks ==
  \A p \in OpenEnds :
    wpc[p] \notin {"exit", "zombie"} => (LastWord(p) <=> wpc[p] \notin {"serve", "report"})

\* Every byte in flight changes the master's mind: no notification is sent
\* twice, lost or reordered, up to and including the worker's death.
BytesAlternate ==
  \A p \in OpenEnds :
    \A i \in 1 .. Len(chan[p]) :
      chan[p][i] = IF i = 1 THEN (IF avail[p] THEN Busy ELSE Free)
                            ELSE (IF chan[p][i-1] = Free THEN Busy ELSE Free)

\* The master holds one socketpair descriptor per open entry of m_children and
\* the two that each failed fork leaked: an exit, a retirement or the cleanup
\* closes its descriptor exactly once.
FdsAccounted ==
  mpc # "dead" => fds = Cardinality(OpenEnds) + 2 * forkFails

\* An accepted connection is in the hands of exactly one running worker until
\* it is served or lost, although every idle worker is woken for it.
ConnsOwned ==
  /\ \A p \in Pids : cur[p] # NoConn <=> wpc[p] \in {"read", "tell", "serve"}
  /\ \A c \in Conns : conn[c] = "taken" <=> \E p \in Pids : cur[p] = c
  /\ \A p, q \in Pids : cur[p] = cur[q] /\ cur[p] # NoConn => p = q

\* When run() returns, a worker it forked that still runs has SIGKILL on its
\* way: none is left to itself, although run() does not wait for the last ones.
NoOrphans == mpc = "done" => \A p \in Pids : Alive(p) => "KILL" \in sig[p]

\* run() ends by itself only when more workers died on their own than it
\* tolerates: an exit that is part of the protocol is not held against them,
\* and no exit is counted twice.
SelfStopJustified == ~keepGoing /\ ~hup => crashes > AbnormalLimit

\* Once its parameters are read, a request is not lost because its worker is
\* retired, told to stop or unable to notify the master: only a crash or the
\* SIGKILL of _cleanupChildren takes it from its client.
RequestsKept ==
  [][\A p \in Pids : wpc[p] \in {"tell", "serve"} =>
       conn'[cur[p]] # "dropped" \/ crashes' # crashes \/ "KILL" \in sig[p]]_vars

-----------------------------------------------------------------------------
(* Refinement *)

\* The processes implement the service: a worker takes a connection when accept
\* returns it, and the service has stopped when run() has returned and the last
\* worker that was sent SIGKILL has ended.
Phase ==
  IF mpc = "done" /\ \A p \in Pids : ~Alive(p) THEN "stopped"
  ELSE IF Stopping THEN "stopping"
  ELSE "running"

Service == INSTANCE RequestService
  WITH phase <- Phase, life <- conn, Capacity <- Larger(MaxSpare, MaxChildren)

\* Seen from outside, master and workers together are that service: no
\* interleaving of forks, exits and signals loses a connection silently, has it
\* taken twice, or leaves one in work for good when run() has returned.
ImplementsService == Service!SSpec

\* The workers, whoever they are told by, take turns as WorkerTurns says: none
\* takes a request before it is done with the last, nor more than max_requests,
\* and a new process under an old pid does not inherit its count.
Turn(p) ==
  IF ~Alive(p) THEN "gone" ELSE IF wpc[p] = "serve" THEN "working" ELSE "resting"

Turns == INSTANCE WorkerTurns
  WITH Workers <- Pids, Limit <- MaxRequests,
       turn <- [p \in Pids |-> Turn(p)], count <- reqs

WorkersTakeTurns == Turns!TSpec

-----------------------------------------------------------------------------
(* Liveness *)

\* A worker whose end the master has closed leaves, even when siblings were
\* forked in between and even when clients keep connecting.
LetGoLeaves == \A p \in Pids : (p \in children /\ ~file[p]) ~> ~Alive(p)

\* _cleanupChildren gets rid of every child it waits for, by SIGKILL if need be.
HungWorkersKilled == mpc = "wait" ~> \A p \in Pids : ~Alive(p)
=============================================================================
