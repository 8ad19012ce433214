-------------------------------- MODULE Server --------------------------------
(***************************************************************************)
(* The whole program: main() starts the server (Startup), the server runs  *)
(* (Prefork), and main() returns. Clients may connect, and signals come,   *)
(* from the moment the socket listens, before any worker exists.           *)
(***************************************************************************)
EXTENDS Prefork, Startup

serverVars == <<vars, startVars>>

ServerInit == Init /\ StartInit

Starting == StartCode /\ UNCHANGED vars

EnterLoop == StartLoop /\ UNCHANGED <<mpc, hup, children, file, avail, todo, abnormal, fds,
                                      workerVars, envVars>>

KilledEarly == Killed /\ UNCHANGED vars

\* A client connects while no worker exists yet: the kernel queues it, and the
\* queue survives the forks of _daemonize.
ArriveEarly(c) ==
  /\ Listening /\ stage # "up"
  /\ Arrive(c)
  /\ UNCHANGED startVars

\* The handlers are installed, the loop has not begun.
HupEarly == stage = "ready" /\ HupHandler /\ UNCHANGED startVars

\* The steps of the server's processes. The workers that run() leaves behind go
\* on after main() has returned.
Up == stage \in {"up", "returned"} /\ UNCHANGED startVars

\* run() has returned; main() ignores what it says and returns 0.
MainReturns ==
  /\ mpc = "done"
  /\ Step("up", "returned")
  /\ UNCHANGED <<given, port, config, vars>>

\* The start came to nothing.
Rest ==
  /\ stage \in Abandoned
  /\ UNCHANGED serverVars

ServerNext ==
  \/ Starting \/ EnterLoop \/ KilledEarly \/ HupEarly
  \/ \E c \in Conns : ArriveEarly(c)
  \/ Next /\ Up
  \/ MainReturns
  \/ Rest

ServerSafety == ServerInit /\ [][ServerNext]_serverVars

\* Every process is scheduled, a client that connected sends its request or
\* goes away, and max_execute_time > 0: the alarm ends every script. The output
\* that is flushed when the alarm is off (by _timeout_error and FCGX_Finish_r)
\* ends because the client reads it or goes away, which is assumed of it too.
ServerFairness ==
  /\ WF_serverVars(Starting \/ EnterLoop)
  /\ WF_serverVars(MasterCode /\ Up)
  /\ WF_serverVars(MainReturns)
  /\ \A p \in Pids :
       /\ WF_serverVars(WorkerCode(p) /\ Up)
       /\ WF_serverVars(ClientStep(p) /\ Up)
       /\ WF_serverVars(Serve(p) /\ Up)

ServerSpec == ServerSafety /\ ServerFairness

-----------------------------------------------------------------------------
(* Refinement *)

\* Once started, and whatever came before, the program is the prefork server:
\* its initial state is reached with nothing but clients queued and signals
\* noted, and everything proved of it holds of the program.
RunsPrefork == Spec

-----------------------------------------------------------------------------
(* Liveness *)

Ended == Stopping \/ stage \in Abandoned

Ending == hup \/ ~keepGoing \/ Ended

\* The process that listens, the master later, or an orphaned worker has the
\* listening socket open.
PortHeld == (Listening /\ mpc # "dead") \/ \E p \in Pids : Alive(p)

\* However the server comes to its end - a signal at any moment since it
\* listens, before or after the handlers are installed, too many exits, a
\* master killed from outside - the port is free for the next start in the end,
\* and for good. In particular run() returns: until then the master holds it.
PortFreed == Ending ~> []~PortHeld

\* A client that connects, be it before the first worker exists, is served,
\* unless it goes away, its worker dies, or the server stops.
ClientsServed ==
  \A c \in Conns : conn[c] = "queued" ~> (conn[c] \in {"served", "dropped"} \/ Ended)

\* Once clients stop connecting and workers stop dying, the pool comes to rest
\* with max_spare idle workers: it neither stays depleted nor spawns and
\* retires workers in turns. This needs min_spare <= max_spare, which main()
\* does not check.
PoolSettles ==
  <>[](Ended \/ ( /\ Cardinality(children) = MaxSpare
                 /\ \A p \in children : wpc[p] = "select" /\ file[p] /\ avail[p]))
=============================================================================
