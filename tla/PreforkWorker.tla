---------------------------- MODULE PreforkWorker ----------------------------
(***************************************************************************)
(* A worker process: _spawnChild after fork returned 0, _childLoop,        *)
(* _handleRequest as one step, _notifyParent, and what SIGINT does to it.  *)
(* FCGX_Accept_r is libfcgi's: it accepts a connection from the            *)
(* non-blocking listening socket and then reads the request's parameters   *)
(* from it, for as long as the client takes.                               *)
(***************************************************************************)
EXTENDS PreforkState

Goto(p, pc) == wpc' = [wpc EXCEPT ![p] = pc]

\* _notifyParent: the byte is queued for the master while its end is open. It
\* fails with EPIPE when no process holds that end, and is lost unread when
\* only a freshly forked sibling does.
Send(p, byte) ==
  chan' = IF file[p] THEN [chan EXCEPT ![p] = Append(@, byte)] ELSE chan

\* The end of the loop body: leave after max_requests requests, else test
\* g_keepGoing, which nothing changes any more, and select again.
Recycled(n) == MaxRequests > 0 /\ n >= MaxRequests
NextTurn(p) == IF Recycled(reqs[p]) THEN "exit" ELSE "select"

-----------------------------------------------------------------------------
(* Start-up *)

\* Until _restoreSignalHandlers the process runs the master's handlers. Boot
\* closes its copy of its own master end, restores the handlers and closes the
\* inherited ends of the siblings.
BootKeepsEnds(p) ==
  /\ wpc[p] = "born"
  /\ Goto(p, "boot")
  /\ UNCHANGED <<masterVars, envVars, go, held, chan, reqs, cur, sig>>

BootKeepsOwnEnd(p) ==
  /\ wpc[p] = "born"
  /\ Goto(p, "boot")
  /\ held' = [held EXCEPT ![p] = {p}]
  /\ UNCHANGED <<masterVars, envVars, go, chan, reqs, cur, sig>>

Boot(p) ==
  /\ wpc[p] = "born"
  /\ Goto(p, "boot")
  /\ held' = [held EXCEPT ![p] = {}]
  /\ UNCHANGED <<masterVars, envVars, go, chan, reqs, cur, sig>>

\* FCGX_Init and wsgi_python_init, which installs Python's SIGINT handler, then
\* the first test of "while(g_keepGoing)".
InitPython(p) ==
  /\ wpc[p] = "boot"
  /\ Goto(p, IF go[p] THEN "select" ELSE "exit")
  /\ UNCHANGED <<masterVars, envVars, go, held, chan, reqs, cur, sig>>

-----------------------------------------------------------------------------
(* The request loop *)

\* The master never writes to the socketpair: select reports it readable only
\* for its end of file, which every open copy of the other end delays.
ToldToQuit(p) == ~PeerOpen(p)

\* select returns with the master's end of file: FD_ISSET(parent) is tested
\* before the listening socket.
SelectQuit(p) ==
  /\ wpc[p] = "select"
  /\ ToldToQuit(p)
  /\ Goto(p, "exit")
  /\ UNCHANGED <<masterVars, envVars, go, held, chan, reqs, cur, sig>>

\* select returns with the listening socket readable: in every idle worker.
SelectListen(p) ==
  /\ wpc[p] = "select"
  /\ ~ToldToQuit(p)
  /\ Queued # {}
  /\ Goto(p, "accept")
  /\ UNCHANGED <<masterVars, envVars, go, held, chan, reqs, cur, sig>>

\* FCGX_Accept_r: accept wins a connection.
Accept(p) ==
  /\ wpc[p] = "accept"
  /\ \E c \in Queued :
       /\ conn' = [conn EXCEPT ![c] = "taken"]
       /\ cur'  = [cur EXCEPT ![p] = c]
  /\ Goto(p, "read")
  /\ UNCHANGED <<masterVars, crashes, forkFails, go, held, chan, reqs, sig>>

\* FCGX_Accept_r: the siblings took them all, accept fails with EAGAIN.
AcceptMisses(p) ==
  /\ wpc[p] = "accept"
  /\ Queued = {}
  /\ Goto(p, NextTurn(p))
  /\ UNCHANGED <<masterVars, envVars, go, held, chan, reqs, cur, sig>>

\* FCGX_Accept_r returns 0: the client has sent the request's parameters.
ReadParams(p) ==
  /\ wpc[p] = "read"
  /\ Goto(p, "tell")
  /\ UNCHANGED <<masterVars, envVars, go, held, chan, reqs, cur, sig>>

\* FCGX_Accept_r: the connection ends first; it is closed and accept is tried
\* again without returning to the loop.
LoseClientKeepsFd(p) ==
  /\ conn' = [conn EXCEPT ![cur[p]] = "dropped"]
  /\ UNCHANGED cur
  /\ Goto(p, "accept")

LoseClient(p) ==
  /\ cur' = [cur EXCEPT ![p] = NoConn]
  /\ conn' = [conn EXCEPT ![cur[p]] = "dropped"]
  /\ Goto(p, "accept")

ClientGone(p) ==
  /\ wpc[p] = "read"
  /\ LoseClient(p)
  /\ UNCHANGED <<masterVars, crashes, forkFails, go, held, chan, reqs, sig>>

TellBusyUncounted(p) ==
  /\ wpc[p] = "tell"
  /\ Send(p, Busy)
  /\ Goto(p, "serve")
  /\ UNCHANGED <<masterVars, envVars, go, held, reqs, cur, sig>>

TellBusyOrDie(p) ==
  /\ wpc[p] = "tell"
  /\ IF PeerOpen(p)
     THEN /\ Send(p, Busy)
          /\ reqs' = [reqs EXCEPT ![p] = @ + 1]
          /\ Goto(p, "serve")
          /\ UNCHANGED <<masterVars, envVars, go, held, cur, sig>>
     ELSE Die(p) /\ UNCHANGED <<masterVars, crashes, forkFails>>

\* The result of this _notifyParent is ignored, and SIGPIPE with it: Python
\* ignores that signal.
TellBusy(p) ==
  /\ wpc[p] = "tell"
  /\ Send(p, Busy)
  /\ reqs' = [reqs EXCEPT ![p] = @ + 1]
  /\ Goto(p, "serve")
  /\ UNCHANGED <<masterVars, envVars, go, held, cur, sig>>

\* _handleRequest, however the script ends, then FCGX_Finish_r and FCGX_Free.
ServeUnfinished(p) ==
  /\ wpc[p] = "serve"
  /\ cur' = [cur EXCEPT ![p] = NoConn]
  /\ Goto(p, "report")
  /\ UNCHANGED <<masterVars, envVars, go, held, chan, reqs, sig>>

Serve(p) ==
  /\ wpc[p] = "serve"
  /\ conn' = [conn EXCEPT ![cur[p]] = "served"]
  /\ cur'  = [cur EXCEPT ![p] = NoConn]
  /\ Goto(p, "report")
  /\ UNCHANGED <<masterVars, crashes, forkFails, go, held, chan, reqs, sig>>

\* Here a failing _notifyParent ends the loop, before the count is tested.
ReportFree(p) ==
  /\ wpc[p] = "report"
  /\ Send(p, Free)
  /\ Goto(p, IF PeerOpen(p) THEN NextTurn(p) ELSE "exit")
  /\ UNCHANGED <<masterVars, envVars, go, held, reqs, cur, sig>>

\* wsgi_python_cleanup and exit(0).
Exit(p) ==
  /\ wpc[p] = "exit"
  /\ Die(p)
  /\ UNCHANGED <<masterVars, crashes, forkFails>>

-----------------------------------------------------------------------------
(* Signals, which only the master's _cleanupChildren sends *)

\* The inherited _hupHandler clears the process's own g_keepGoing.
SigintBorn(p) ==
  /\ wpc[p] = "born"
  /\ go' = [go EXCEPT ![p] = FALSE]
  /\ UNCHANGED <<masterVars, envVars, wpc, held, chan, reqs, cur>>

\* SIG_DFL kills the process.
SigintBoot(p) ==
  /\ wpc[p] = "boot"
  /\ Die(p)
  /\ UNCHANGED <<masterVars, crashes, forkFails>>

\* Python's handler interrupts select ("ret <= 0": leave the loop) or the read
\* of the parameters (the connection is given up) when it runs during the call.
\* Otherwise it sets a flag that at most makes the script raise
\* KeyboardInterrupt: the signal leaves no trace in this loop.
SigintSelect(p) ==
  /\ wpc[p] = "select"
  /\ Goto(p, "exit")
  /\ UNCHANGED <<masterVars, envVars, go, held, chan, reqs, cur>>

SigintRead(p) ==
  /\ wpc[p] = "read"
  /\ LoseClient(p)
  /\ UNCHANGED <<masterVars, crashes, forkFails, go, held, chan, reqs>>

SigintFlag(p) ==
  /\ wpc[p] \notin {"none", "born", "boot", "zombie"}
  /\ UNCHANGED <<masterVars, envVars, wpc, go, held, chan, reqs, cur>>

Sigint(p) ==
  /\ "INT" \in sig[p]
  /\ \/ SigintBoot(p)
     \/ /\ sig' = [sig EXCEPT ![p] = @ \ {"INT"}]
        /\ SigintBorn(p) \/ SigintSelect(p) \/ SigintRead(p) \/ SigintFlag(p)

\* SIGKILL ends the process wherever it is.
Sigkill(p) ==
  /\ "KILL" \in sig[p]
  /\ Alive(p)
  /\ Die(p)
  /\ UNCHANGED <<masterVars, crashes, forkFails>>

-----------------------------------------------------------------------------
(* The steps, by what makes them happen: the process itself when it is     *)
(* scheduled, the client, the script, or a failure of the process.         *)

WorkerCode(p) ==
  \/ Boot(p) \/ InitPython(p)
  \/ SelectQuit(p) \/ SelectListen(p)
  \/ Accept(p) \/ AcceptMisses(p)
  \/ TellBusy(p) \/ ReportFree(p)
  \/ Exit(p)
  \/ Sigint(p) \/ Sigkill(p)

ClientStep(p) == ReadParams(p) \/ ClientGone(p)

\* The script crashes the interpreter, calls os._exit, the kernel kills it...
Crash(p) ==
  /\ Alive(p)
  /\ crashes < MaxCrashes
  /\ crashes' = crashes + 1
  /\ Die(p)
  /\ UNCHANGED <<masterVars, forkFails>>

WorkerNext(p) == WorkerCode(p) \/ ClientStep(p) \/ Serve(p) \/ Crash(p)
=============================================================================
