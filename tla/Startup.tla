------------------------------- MODULE Startup -------------------------------
(***************************************************************************)
(* main() of fcgid.cpp and what PreforkServer::run does before its loop:   *)
(* the command line and the configuration file are read and checked, the   *)
(* listening socket is opened, the process may turn into a daemon, and the *)
(* signal handlers are installed. It follows the process that goes on to   *)
(* be the master; the ones _daemonize leaves behind exit at their fork.    *)
(*                                                                         *)
(* g_keepGoing and g_hupReceived are set at the head of run(); nobody      *)
(* reads them before, so PreforkState's Init has them set from the start.  *)
(***************************************************************************)
EXTENDS PreforkState

CONSTANTS
  MaxExecTime,  (* m_maxExecTime                                           *)
  Ports,        (* values --port may be given                              *)
  ConfigFiles,  (* configuration files                                     *)
  Unreadable    (* a file that is not there or does not parse              *)

Options == {"help", "version", "daemon", "port", "config"}

Keys == {"min_spare", "max_spare", "max_children", "max_requests", "max_execute_time"}

\* default_value: what an option that the file does not give gets. The defaults
\* PreforkServer's constructor has for a missing option are never reached.
Default(k) == IF k = "max_execute_time" THEN 10 ELSE 1

Value(f, k) == IF k \in DOMAIN f THEN f[k] ELSE Default(k)

\* The constructor takes these over.
PoolValues ==
  [k \in Keys |-> CASE k = "min_spare"    -> MinSpare
                    [] k = "max_spare"    -> MaxSpare
                    [] k = "max_children" -> MaxChildren
                    [] k = "max_requests" -> MaxRequests
                    [] k = "max_execute_time" -> MaxExecTime]

Accepted(f) ==
  /\ \A k \in {"min_spare", "max_spare", "max_children"} : Value(f, k) \in 1 .. 100
  /\ Value(f, "max_requests") <= 1024
  /\ Value(f, "max_execute_time") <= 3600

\* The files that main() accepts are those that give the pool the values of its
\* constants; the others may be anything.
ASSUME StartupAssumption ==
  /\ Ports \subseteq Nat
  /\ Unreadable \notin ConfigFiles
  /\ \A f \in ConfigFiles :
       /\ DOMAIN f \subseteq Keys
       /\ \A k \in DOMAIN f : f[k] \in Nat
       /\ Accepted(f) => \A k \in Keys : Value(f, k) = PoolValues[k]

VARIABLES
  stage,     (* where main() is                                            *)
  given,     (* the options on the command line                            *)
  port,      (* the value of --port                                        *)
  config     (* the file --config names                                    *)

startVars == <<stage, given, port, config>>

\* How a start may end before the loop: the exit status is 0 for "usage" and
\* for "lost", the server that a failed fork of _daemonize leaves the caller
\* without; 1 for "refused", -1 for "failed"; an exception or a signal ends the
\* process otherwise.
Abandoned == {"usage", "refused", "aborted", "failed", "lost", "killed"}

\* The stages in which the default action of SIGINT, SIGTERM and SIGHUP stands.
Unhandled == {"options", "config", "socket", "run", "second", "install"}

Stages == Unhandled \cup {"ready", "up", "returned"} \cup Abandoned

\* The process holds the listening socket from listen() until it ends.
Listening == stage \in {"run", "second", "install", "ready", "up"}

StartInit ==
  /\ stage = "options"
  /\ given \in SUBSET Options
  /\ port \in Ports
  /\ config \in ConfigFiles \cup {Unreadable}

Step(from, to) == stage = from /\ stage' = to

-----------------------------------------------------------------------------
(* main *)

AsksHelp == given = {} \/ given \cap {"help", "version"} # {}

Usable == {"config", "port"} \subseteq given /\ port > 1024

Usage ==
  /\ Step("options", "usage")
  /\ AsksHelp
  /\ UNCHANGED <<given, port, config>>

RefuseOptions ==
  /\ Step("options", "refused")
  /\ ~AsksHelp /\ ~Usable
  /\ UNCHANGED <<given, port, config>>

\* parse_config_file throws and nobody catches.
ConfigThrows ==
  /\ Step("options", "aborted")
  /\ ~AsksHelp /\ Usable
  /\ config = Unreadable
  /\ UNCHANGED <<given, port, config>>

ReadConfig ==
  /\ Step("options", "config")
  /\ ~AsksHelp /\ Usable
  /\ config # Unreadable
  /\ UNCHANGED <<given, port, config>>

\* A value out of its range, or realpath() fails.
RefuseConfig ==
  /\ Step("config", "refused")
  /\ UNCHANGED <<given, port, config>>

AcceptConfig ==
  /\ Step("config", "socket")
  /\ Accepted(config)
  /\ UNCHANGED <<given, port, config>>

BindFails ==
  /\ Step("socket", "failed")
  /\ UNCHANGED <<given, port, config>>

\* bind and listen. Of the command line only "daemon" is looked at again.
Listen ==
  /\ Step("socket", "run")
  /\ given' = given \cap {"daemon"}
  /\ UNCHANGED <<port, config>>

-----------------------------------------------------------------------------
(* PreforkServer::run up to its loop *)

Foreground ==
  /\ Step("run", "install")
  /\ "daemon" \notin given
  /\ UNCHANGED <<given, port, config>>

\* _daemonize: "if (0 != fork()) exit(0)". The child goes on.
Fork ==
  /\ "daemon" \in given
  /\ Step("run", "second") \/ Step("second", "install")
  /\ given' = IF stage = "second" THEN {} ELSE given
  /\ UNCHANGED <<port, config>>

\* fork() returns -1, which is not 0 either: the process takes itself for the
\* parent.
ForkFails ==
  /\ "daemon" \in given
  /\ Step("run", "lost") \/ Step("second", "lost")
  /\ UNCHANGED <<given, port, config>>

InstallSignalHandlers ==
  /\ Step("install", "ready")
  /\ UNCHANGED <<given, port, config>>

StartLoopResets ==
  /\ Step("ready", "up")
  /\ keepGoing' = TRUE
  /\ UNCHANGED <<given, port, config>>

\* _setBlocking and _setCloseOnExec on the listening socket. A signal that came
\* since the handlers are installed is not forgotten.
StartLoop ==
  /\ Step("ready", "up")
  /\ UNCHANGED keepGoing
  /\ UNCHANGED <<given, port, config>>

\* A signal before the handlers are installed.
Killed ==
  /\ stage \in Unhandled
  /\ stage' = "killed"
  /\ UNCHANGED <<given, port, config>>

StartCode ==
  \/ Usage \/ RefuseOptions \/ ConfigThrows \/ ReadConfig
  \/ RefuseConfig \/ AcceptConfig \/ BindFails \/ Listen
  \/ Foreground \/ Fork \/ ForkFails \/ InstallSignalHandlers
=============================================================================
