---------------------------- MODULE PreforkState ----------------------------
(***************************************************************************)
(* The state shared by the prefork server of preforkserver.cpp: the master *)
(* process (PreforkServer::run), its worker processes                      *)
(* (PreforkServer::_childLoop), and what the kernel keeps between them:    *)
(* the process table, one socketpair per worker, the listening socket.     *)
(* PreforkMaster and PreforkWorker hold the two programs; Prefork composes *)
(* them.                                                                   *)
(***************************************************************************)
EXTENDS Integers, Sequences, FiniteSets

CONSTANTS
  Pids,           (* process identifiers the kernel may hand out            *)
  Conns,          (* client connections, each made once                     *)
  NoConn,         (* "no connection", not a member of Conns                 *)
  MinSpare,       (* m_minSpare                                             *)
  MaxSpare,       (* m_maxSpare                                             *)
  MaxChildren,    (* m_maxChildren                                          *)
  MaxRequests,    (* m_maxRequests, 0 when a worker is never recycled       *)
  AbnormalLimit,  (* the 10 of "abnormal_exit > 10"                         *)
  MaxCrashes,     (* bound: how many workers may die on their own           *)
  MaxForkFails,   (* bound: how many calls of fork may fail                 *)
  SelectMayFail,  (* may the master's select fail other than with EINTR?    *)
  WaitRestarts,   (* is wait() restarted after a handler (SA_RESTART)?      *)
  MasterMayDie    (* may the master be killed from outside?                 *)

Larger(m, n) == IF m >= n THEN m ELSE n

\* The ranges main() in fcgid.cpp enforces; the kernel has a free pid for every
\* worker the master may want.
ASSUME PreforkAssumption ==
  /\ Pids \subseteq Nat
  /\ IsFiniteSet(Pids)
  /\ NoConn \notin Conns
  /\ MinSpare \in Nat \ {0}
  /\ MaxSpare \in Nat \ {0}
  /\ MaxChildren \in Nat \ {0}
  /\ Cardinality(Pids) >= Larger(MaxSpare, MaxChildren)
  /\ MaxRequests \in Nat
  /\ AbnormalLimit \in Nat
  /\ MaxCrashes \in Nat
  /\ MaxForkFails \in Nat
  /\ SelectMayFail \in BOOLEAN
  /\ WaitRestarts \in BOOLEAN
  /\ MasterMayDie \in BOOLEAN

VARIABLES
  (* the master *)
  mpc,        (* where run() and _cleanupChildren() are                      *)
  keepGoing,  (* g_keepGoing                                                 *)
  hup,        (* g_hupReceived, the value run() returns                      *)
  children,   (* the keys of m_children                                      *)
  file,       (* child_t.file of each key: TRUE for a descriptor, FALSE for -1 *)
  avail,      (* child_t.avail of each key                                   *)
  todo,       (* the entries the loop in progress has still to visit         *)
  abnormal,   (* the local abnormal_exit                                     *)
  fds,        (* socketpair descriptors the master holds open                *)
  (* the workers and the kernel *)
  wpc,        (* where each process is; "none" when the pid is free          *)
  go,         (* the worker's own copy of g_keepGoing                        *)
  held,       (* master ends of other workers a fresh process still holds    *)
  chan,       (* bytes sent by a worker that the master has not received     *)
  reqs,       (* requestCount                                                *)
  cur,        (* the connection the worker has accepted                      *)
  sig,        (* signals sent to the process and not delivered yet           *)
  (* the environment *)
  conn,       (* each connection's life                                      *)
  crashes,    (* workers that died on their own so far                       *)
  forkFails   (* forks that failed so far                                    *)

masterVars == <<mpc, keepGoing, hup, children, file, avail, todo, abnormal, fds>>
workerVars == <<wpc, go, held, chan, reqs, cur, sig>>
envVars    == <<conn, crashes, forkFails>>
vars       == <<masterVars, workerVars, envVars>>

(***************************************************************************)
(* The byte '\x00' a worker sends when it takes a request and the byte     *)
(* '\xff' when it is free again.                                           *)
(***************************************************************************)
Busy == "busy"
Free == "free"

\* What _cleanupChildren sends: SIGINT and SIGKILL.
Signals == {"INT", "KILL"}

WorkerPCs == {"none", "born", "boot", "select", "accept", "read", "tell",
              "serve", "report", "exit", "zombie"}
MasterPCs == {"top", "fill", "select", "scan", "reap", "adjust", "grow",
              "shrink", "close", "wait", "kill", "done", "dead"}
ConnStates == {"new", "queued", "taken", "served", "dropped"}

Alive(p) == wpc[p] \notin {"none", "zombie"}
Zombies  == {p \in Pids : wpc[p] = "zombie"}
Queued   == {c \in Conns : conn[c] = "queued"}

\* std::map iterates in key order and avail_list is sorted: the loops of the
\* master visit the smallest pid first.
Least(p, S) == p \in S /\ \A q \in S : p <= q

\* The descriptors of the open master ends: the fd_set of the master's select,
\* and what a process forked now inherits.
OpenEnds == {p \in children : file[p]}

\* Does anyone hold the other end of p's socketpair? Besides the master that is
\* a sibling which was forked while the end was open and has not closed its
\* inherited copy yet.
PeerOpen(p) == file[p] \/ \E q \in Pids : p \in held[q]

\* recv on the master's end returns at once: a byte is queued, or the worker
\* and so the only copy of its end is gone.
Readable(p) == chan[p] # <<>> \/ wpc[p] = "zombie"

(***************************************************************************)
(* Process p ends, however it comes about: its descriptors are closed, so  *)
(* a connection it holds is lost. The process stays in the table until the *)
(* master waits for it; the bytes it sent stay readable.                   *)
(***************************************************************************)
Die(p) ==
  /\ wpc'  = [wpc EXCEPT ![p] = "zombie"]
  /\ go'   = [go EXCEPT ![p] = FALSE]
  /\ held' = [held EXCEPT ![p] = {}]
  /\ reqs' = [reqs EXCEPT ![p] = 0]
  /\ cur'  = [cur EXCEPT ![p] = NoConn]
  /\ sig'  = [sig EXCEPT ![p] = {}]
  /\ conn' = [c \in Conns |-> IF c = cur[p] THEN "dropped" ELSE conn[c]]
  /\ UNCHANGED chan

Init ==
  /\ mpc = "top"
  /\ keepGoing = TRUE
  /\ hup = FALSE
  /\ children = {}
  /\ file  = [p \in Pids |-> FALSE]
  /\ avail = [p \in Pids |-> FALSE]
  /\ todo = {}
  /\ abnormal = 0
  /\ fds = 0
  /\ wpc  = [p \in Pids |-> "none"]
  /\ go   = [p \in Pids |-> FALSE]
  /\ held = [p \in Pids |-> {}]
  /\ chan = [p \in Pids |-> <<>>]
  /\ reqs = [p \in Pids |-> 0]
  /\ cur  = [p \in Pids |-> NoConn]
  /\ sig  = [p \in Pids |-> {}]
  /\ conn = [c \in Conns |-> "new"]
  /\ crashes = 0
  /\ forkFails = 0
=============================================================================
