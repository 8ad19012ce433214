--------------------------- MODULE RequestService ---------------------------
(***************************************************************************)
(* What the prefork server promises the web server that connects to it,    *)
(* with no word of processes: every connection is taken at most once, by   *)
(* one of a bounded number of workers, taken connections are served or     *)
(* lost, and the service has stopped only when none is left in work.       *)
(***************************************************************************)
EXTENDS Naturals, FiniteSets

CONSTANTS
  Conns,      (* client connections *)
  Capacity    (* how many of them are in work at once *)

VARIABLES
  phase,      (* "running", "stopping" or "stopped" *)
  life        (* each connection's life *)

svars == <<phase, life>>

Taken == {c \in Conns : life[c] = "taken"}

SInit ==
  /\ phase = "running"
  /\ life = [c \in Conns |-> "new"]

Connect(c) ==
  /\ phase # "stopped"
  /\ life[c] = "new"
  /\ life' = [life EXCEPT ![c] = "queued"]
  /\ UNCHANGED phase

Take(c) ==
  /\ phase # "stopped"
  /\ Cardinality(Taken) < Capacity
  /\ life[c] = "queued"
  /\ life' = [life EXCEPT ![c] = "taken"]
  /\ UNCHANGED phase

\* The last one in work may end together with the service.
Finish(c) ==
  /\ life[c] = "taken"
  /\ \E fate \in {"served", "dropped"} : life' = [life EXCEPT ![c] = fate]
  /\ \/ UNCHANGED phase
     \/ phase = "stopping" /\ Taken = {c} /\ phase' = "stopped"

Stop ==
  /\ phase = "running"
  /\ phase' = "stopping"
  /\ UNCHANGED life

Stopped ==
  /\ phase = "stopping"
  /\ Taken = {}
  /\ phase' = "stopped"
  /\ UNCHANGED life

SNext ==
  \/ Stop
  \/ Stopped
  \/ \E c \in Conns : Connect(c) \/ Take(c) \/ Finish(c)

SSpec == SInit /\ [][SNext]_svars
=============================================================================
