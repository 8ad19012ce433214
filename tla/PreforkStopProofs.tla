-------------------------- MODULE PreforkStopProofs --------------------------
(***************************************************************************)
(* How run() ends: nothing it forked is left running, and, when workers    *)
(* are not recycled, it ends by itself only for too many crashes. Then who *)
(* waits for whom, and in which order workers are asked and forced.        *)
(***************************************************************************)
EXTENDS PreforkProofs

-----------------------------------------------------------------------------
(* The cleanup *)

(***************************************************************************)
(* A worker that is running is one the loop of SIGKILLs has still to visit *)
(* or has sent the signal.                                                 *)
(***************************************************************************)
KillInv ==
  /\ mpc = "kill" => \A p \in Pids : Alive(p) => p \in todo \/ "KILL" \in sig[p]
  /\ mpc = "done" => \A p \in Pids : Alive(p) => "KILL" \in sig[p]

\* A process that gets SIGKILL runs no further than its end.
LEMMA KillStays ==
  ASSUME TypeOK, NEW p \in Pids, WorkerNext(p), NEW q \in Pids, Alive(q)'
  PROVE  Alive(q) /\ ("KILL" \in sig[q] => "KILL" \in sig'[q])
<1>1. CASE q # p
  BY <1>1, WorkerFrame DEF Alive
<1>2. CASE q = p
  <2>1. ~Die(p)
    BY <1>2 DEF Die, Alive, TypeOK
  <2>2. sig' = sig \/ sig' = [sig EXCEPT ![p] = @ \ {"INT"}]
    BY <2>1 DEF WorkerNext, WorkerCode, ClientStep, Boot, InitPython, SelectQuit, SelectListen,
         Accept, AcceptMisses, TellBusy, ReportFree, Exit, Sigint, Sigkill, ReadParams, ClientGone,
         Serve, Crash, SigintBoot
  <2> QED
    BY <1>2, <2>2, WorkerFrame DEF Alive, TypeOK
<1> QED
  BY <1>1, <1>2

LEMMA KillStep == TypeInv /\ TableExact /\ KillInv /\ [Next]_vars => KillInv'
<1> SUFFICES ASSUME TypeOK, TableExact, KillInv, [Next]_vars PROVE KillInv'
  BY DEF TypeInv
<1>1. CASE ControlStep
  <2>1. UNCHANGED <<wpc, sig>>
    BY <1>1, ControlFrame DEF workerVars
  <2>2. CASE WaitDone
    BY <2>1, <2>2 DEF WaitDone, MGoto, KillInv, TableExact, Alive
  <2>3. CASE WaitInterrupted
    BY <2>1, <2>3 DEF WaitInterrupted, MGoto, KillInv, TableExact, Alive
  <2>4. CASE KillDone
    BY <2>1, <2>4 DEF KillDone, MGoto, KillInv, Alive
  <2>5. CASE HupHandler
    BY <2>1, <2>5 DEF HupHandler, KillInv, Alive
  <2>6. CASE ~(WaitDone \/ WaitInterrupted \/ KillDone \/ HupHandler)
    BY <1>1, <2>6 DEF ControlStep, Top, FillDone, Select, SelectFails, ScanDone, ReapDone, Adjust,
                      GrowDone, ShrinkDone, CloseDone, MGoto, Break, KillInv
  <2> QED
    BY <2>2, <2>3, <2>4, <2>5, <2>6
<1>2. CASE (Fill \/ Grow) /\ (Spawn \/ SpawnFails)
  BY <1>2 DEF Fill, Grow, Spawn, SpawnFails, KillInv
<1>3. CASE RecvByte \/ RecvEof \/ Shrink \/ CloseAll
  BY <1>3 DEF RecvByte, RecvEof, Shrink, CloseAll, KillInv
<1>4. CASE (Reap \/ WaitReap) /\ \E p \in Zombies : Erase(p)
  BY <1>4 DEF Reap, WaitReap, KillInv
<1>5. CASE Kill
  <2> PICK p \in todo : KillForcibly(p) /\ todo' = todo \ {p}
    BY <1>5 DEF Kill
  <2>1. mpc = "kill" /\ mpc' = "kill" /\ UNCHANGED wpc
    BY <1>5 DEF Kill
  <2>2. \A q \in Pids : Alive(q) /\ (q = p \/ "KILL" \in sig[q]) => "KILL" \in sig'[q]
    BY DEF KillForcibly, SendSignal, TypeOK
  <2> QED
    BY <2>1, <2>2 DEF KillInv, Alive
<1>6. ASSUME NEW p \in Pids, WorkerNext(p) PROVE KillInv'
  <2>1. \A q \in Pids : Alive(q)' => Alive(q) /\ ("KILL" \in sig[q] => "KILL" \in sig'[q])
    BY <1>6, KillStays
  <2>2. UNCHANGED <<mpc, todo>>
    BY <1>6, WorkerFrame DEF masterVars
  <2> QED
    BY <2>1, <2>2 DEF KillInv
<1>7. CASE \E c \in Conns : Arrive(c)
  BY <1>7 DEF Arrive, masterVars, workerVars, KillInv, Alive
<1>8. CASE MasterDies
  BY <1>8 DEF MasterDies, KillInv
<1>9. CASE UNCHANGED vars
  BY <1>9 DEF vars, masterVars, workerVars, KillInv, Alive
<1> QED
  BY <1>1, <1>2, <1>3, <1>4, <1>5, <1>6, <1>7, <1>8, <1>9, StepKinds

LEMMA KillInit == Init => KillInv /\ TableExact
BY DEF Init, KillInv, TableExact

\* When run() returns, every worker that still runs was sent SIGKILL, whether
\* wait() came to its end or was interrupted, and before that had its end closed.
THEOREM NoOrphansLeft == Spec => []NoOrphans
<1>1. KillInv => NoOrphans
  BY DEF KillInv, NoOrphans
<1> QED
  BY <1>1, KillInit, KillStep, TableStep, TypeInvariant, PTL DEF Spec

-----------------------------------------------------------------------------
(* Who is asked to leave, and when *)

(***************************************************************************)
(* Signals go only to a worker whose descriptor is closed; the cleanup     *)
(* closes every descriptor before it waits; and while the master scans,    *)
(* what select reported stays so.                                          *)
(***************************************************************************)
LateInv ==
  /\ \A p \in Pids : sig[p] # {} => Alive(p) /\ ~file[p]
  /\ mpc = "close" => OpenEnds \subseteq todo
  /\ mpc \in {"wait", "kill", "done"} => OpenEnds = {}
  /\ mpc = "scan" => \A p \in todo : Readable(p)

\* A worker's step keeps its end readable if it was, and only clears its signal.
LEMMA LateWorker ==
  ASSUME TypeOK, LateInv, NEW p \in Pids, WorkerNext(p)
  PROVE  LateInv'
<1> USE DEF Goto
<1>1. UNCHANGED <<mpc, todo, children, file>> /\ OpenEnds' = OpenEnds
  BY WorkerFrame DEF masterVars, OpenEnds
<1>2. sig'[p] # {} => sig[p] # {} /\ wpc'[p] # "zombie"
  BY DEF WorkerNext, WorkerCode, ClientStep, Boot, InitPython, SelectQuit, SelectListen, Accept,
         AcceptMisses, TellBusy, ReportFree, Exit, Sigint, Sigkill, ReadParams, ClientGone, Serve, Crash,
         Die, LoseClient, SigintBorn, SigintBoot, SigintSelect, SigintRead, SigintFlag, NextTurn,
         envVars, TypeOK
<1>3. \A q \in Pids : sig'[q] # {} => Alive(q)' /\ ~file'[q]
  BY <1>1, <1>2, WorkerFrame DEF LateInv, Alive
<1>4. chan[p] # <<>> => chan'[p] # <<>>
  <2>1. Append(chan[p], Busy) # <<>> /\ Append(chan[p], Free) # <<>>
    <3>1. chan[p] \in Seq({Busy, Free})
      BY DEF TypeOK
    <3>2. \A byte \in {Busy, Free} : Append(chan[p], byte) # <<>>
      BY <3>1, AppendProperties
    <3> QED
      BY <3>2
  <2> QED
    BY <2>1 DEF WorkerNext, WorkerCode, ClientStep, Boot, InitPython, SelectQuit, SelectListen,
         Accept, AcceptMisses, TellBusy, ReportFree, Exit, Sigint, Sigkill, ReadParams, ClientGone, Serve,
         Crash, Die, Send, SigintBorn, SigintBoot, SigintSelect, SigintRead, SigintFlag,
         envVars, TypeOK
<1>5. \A q \in Pids : Readable(q) => Readable(q)'
  BY <1>4, WorkerFrame DEF Readable
<1> QED
  BY <1>1, <1>3, <1>5 DEF LateInv, TypeOK

LEMMA LateStep == TypeInv /\ TableExact /\ EndsInv /\ LateInv /\ [Next]_vars => LateInv'
<1> SUFFICES ASSUME TypeOK, TableExact, EndsInv, LateInv, [Next]_vars PROVE LateInv'
  BY DEF TypeInv
<1>1. CASE ControlStep
  <2>1. UNCHANGED <<children, file, wpc, chan, sig>> /\ OpenEnds' = OpenEnds
    BY <1>1, ControlFrame DEF workerVars, OpenEnds
  <2>2. \A p \in Pids : sig'[p] # {} => Alive(p)' /\ ~file'[p]
    BY <2>1 DEF LateInv, Alive
  <2>3. CASE Select
    BY <2>1, <2>2, <2>3 DEF Select, MGoto, LateInv, Readable
  <2>4. CASE Break
    BY <2>1, <2>2, <2>4 DEF Break, MGoto, LateInv, OpenEnds
  <2>5. CASE CloseDone \/ WaitDone \/ WaitInterrupted \/ KillDone
    BY <2>1, <2>2, <2>5 DEF CloseDone, WaitDone, WaitInterrupted, KillDone, MGoto, LateInv
  <2>6. CASE HupHandler
    BY <2>1, <2>2, <2>6 DEF HupHandler, LateInv, Readable
  <2>7. CASE ~Break /\ (Top \/ FillDone \/ SelectFails \/ ScanDone \/ ReapDone \/ Adjust
                        \/ GrowDone \/ ShrinkDone)
    BY <2>2, <2>7 DEF Top, FillDone, SelectFails, ScanDone, ReapDone, Adjust, GrowDone, ShrinkDone,
                      MGoto, LateInv
  <2> QED
    BY <1>1, <2>3, <2>4, <2>5, <2>6, <2>7 DEF ControlStep
<1>2. CASE (Fill \/ Grow) /\ Spawn
  <2> PICK p \in Pids : wpc[p] = "none" /\ NewChild(p) /\ wpc' = [wpc EXCEPT ![p] = "born"]
    BY <1>2 DEF Spawn
  <2>1. UNCHANGED sig /\ mpc' \in {"fill", "grow", "select", "top"}
    BY <1>2 DEF Spawn, Fill, Grow
  <2>2. \A q \in Pids : sig'[q] # {} => Alive(q)' /\ ~file'[q]
    BY <2>1 DEF LateInv, Alive, NewChild, TypeOK
  <2> QED
    BY <2>1, <2>2 DEF LateInv
<1>3. CASE (Fill \/ Grow) /\ SpawnFails
  BY <1>3 DEF Fill, Grow, SpawnFails, workerVars, LateInv, Alive
<1>4. CASE RecvByte
  BY <1>4 DEF RecvByte, LateInv, Alive, Readable, TypeOK
<1>5. CASE RecvEof
  BY <1>5 DEF RecvEof, CloseFile, LateInv, Alive, workerVars, TypeOK
<1>6. CASE (Reap \/ WaitReap) /\ \E p \in Zombies : Erase(p)
  <2> PICK p \in Zombies : Erase(p)
    BY <1>6
  <2>1. wpc[p] = "zombie" /\ p \in Pids /\ UNCHANGED <<sig, todo>> /\ wpc' = [wpc EXCEPT ![p] = "none"]
        /\ file' = [file EXCEPT ![p] = FALSE] /\ children' = children \ {p}
    BY DEF Erase, Zombies, CloseFile, Forget
  <2>2. \A q \in Pids : sig'[q] # {} => Alive(q)' /\ ~file'[q]
    BY <2>1 DEF LateInv, Alive, TypeOK
  <2>3. OpenEnds' \subseteq OpenEnds
    BY <2>1 DEF OpenEnds, TypeOK
  <2>4. mpc' = mpc /\ mpc' \in {"reap", "wait"}
    BY <1>6 DEF Reap, WaitReap
  <2> QED
    BY <2>2, <2>3, <2>4 DEF LateInv
<1>7. CASE Shrink
  BY <1>7 DEF Shrink, CloseEnd, CloseFile, LateInv, Alive, TypeOK
<1>8. CASE CloseAll
  <2> PICK p \in todo : /\ CloseEnd(p)
                        /\ SendSignal(p, "INT") \/ UNCHANGED sig
                        /\ todo' = todo \ {p}
    BY <1>8 DEF CloseAll
  <2>1. UNCHANGED <<wpc, children>> /\ mpc' = "close" /\ mpc = "close" /\ p \in Pids
        /\ file' = [file EXCEPT ![p] = FALSE]
    BY <1>8 DEF CloseAll, CloseEnd, CloseFile, TypeOK
  <2>2. \A q \in Pids : sig'[q] # {} => Alive(q)' /\ ~file'[q]
    BY <2>1 DEF SendSignal, LateInv, Alive, TypeOK
  <2>3. OpenEnds' \subseteq todo'
    BY <2>1 DEF LateInv, OpenEnds, TypeOK
  <2> QED
    BY <2>1, <2>2, <2>3 DEF LateInv
<1>9. CASE Kill
  <2> PICK p \in todo : KillForcibly(p)
    BY <1>9 DEF Kill
  <2>1. UNCHANGED <<children, file, mpc, wpc>> /\ mpc = "kill" /\ OpenEnds' = OpenEnds
        /\ p \notin OpenEnds /\ p \in Pids
    BY <1>9 DEF Kill, OpenEnds, LateInv, TypeOK
  <2>2. \A q \in Pids : sig'[q] # {} => Alive(q)' /\ ~file'[q]
    BY <2>1 DEF KillForcibly, SendSignal, LateInv, Alive, OpenEnds, TableExact, TypeOK
  <2> QED
    BY <2>1, <2>2 DEF LateInv
<1>10. CASE \E p \in Pids : WorkerNext(p)
  BY <1>10, LateWorker
<1>11. CASE \E c \in Conns : Arrive(c)
  BY <1>11 DEF Arrive, masterVars, workerVars, LateInv, Alive, OpenEnds, Readable
<1>12. CASE MasterDies
  BY <1>12 DEF MasterDies, LateInv, Alive, TypeOK
<1>13. CASE UNCHANGED vars
  BY <1>13 DEF vars, masterVars, workerVars, LateInv, Alive, OpenEnds, Readable
<1> QED
  BY <1>1, <1>2, <1>3, <1>4, <1>5, <1>6, <1>7, <1>8, <1>9, <1>10, <1>11, <1>12, <1>13, StepKinds

-----------------------------------------------------------------------------
(* Exits that nobody asked for *)

OpenZombies == {p \in OpenEnds : wpc[p] = "zombie"}

\* A worker leaves its loop although the master has not let it go: it has
\* handled max_requests requests.
Recycles == \E p \in OpenEnds : wpc[p] \in {"accept", "report"} /\ wpc'[p] = "exit"

(***************************************************************************)
(* Until a signal comes, and while no worker is recycled, a worker whose   *)
(* descriptor is open ends only by crashing; each crash is counted at most *)
(* once, when its end of file is read; and only the count ends the loop.   *)
(***************************************************************************)
EarlyInv ==
  ~hup =>
    /\ \A p \in OpenEnds : wpc[p] # "exit" /\ (wpc[p] # "zombie" => go[p])
    /\ abnormal + Cardinality(OpenZombies) <= crashes
    /\ ~keepGoing => abnormal > AbnormalLimit

LEMMA EarlyWorker ==
  ASSUME TypeOK, LateInv, EarlyInv, ~Recycles, NEW p \in Pids, WorkerNext(p)
  PROVE  EarlyInv'
<1> USE DEF Goto
<1>1. UNCHANGED <<children, file, hup, keepGoing, abnormal>> /\ OpenEnds' = OpenEnds
  BY WorkerFrame DEF masterVars, OpenEnds
<1>2. SUFFICES ASSUME ~hup PROVE EarlyInv'
  BY <1>1 DEF EarlyInv
<1>3. \A q \in OpenEnds : q \in Pids /\ wpc[q] # "exit" /\ (wpc[q] # "zombie" => go[q])
  BY <1>2 DEF EarlyInv, OpenEnds, TypeOK
<1>4. IsFiniteSet(OpenZombies) /\ Cardinality(OpenZombies) \in Nat
  <2>1. OpenZombies \in SUBSET Pids
    BY DEF OpenZombies, OpenEnds, TypeOK
  <2> QED
    BY <2>1, PreforkAssumption, FS_Subset, FS_CardinalityType
<1>5. abnormal \in Nat /\ crashes \in Nat
  BY PreforkAssumption DEF TypeOK
<1>6. abnormal + Cardinality(OpenZombies) <= crashes /\ (~keepGoing => abnormal > AbnormalLimit)
  BY <1>2 DEF EarlyInv
<1>7. crashes' = crashes \/ Crash(p)
  BY DEF WorkerNext, WorkerCode, ClientStep, Boot, InitPython, SelectQuit, SelectListen, Accept,
         AcceptMisses, TellBusy, ReportFree, Exit, Sigint, Sigkill, ReadParams, ClientGone, Serve,
         SigintBorn, SigintBoot, SigintSelect, SigintRead, SigintFlag, envVars
<1>8. CASE Crash(p)
  <2>1. crashes' = crashes + 1 /\ wpc' = [wpc EXCEPT ![p] = "zombie"] /\ go' = [go EXCEPT ![p] = FALSE]
    BY <1>8 DEF Crash, Die
  <2>2. OpenZombies' \subseteq OpenZombies \cup {p}
    BY <1>1, <2>1 DEF OpenZombies, OpenEnds, TypeOK
  <2>3. Cardinality(OpenZombies') <= Cardinality(OpenZombies) + 1 /\ Cardinality(OpenZombies') \in Nat
    <3>1. IsFiniteSet(OpenZombies \cup {p})
          /\ Cardinality(OpenZombies \cup {p}) <= Cardinality(OpenZombies) + 1
      <4>1. Cardinality(OpenZombies \cup {p})
              = IF p \in OpenZombies THEN Cardinality(OpenZombies) ELSE Cardinality(OpenZombies) + 1
        BY <1>4, FS_AddElement
      <4>2. IsFiniteSet(OpenZombies \cup {p})
        BY <1>4, FS_AddElement
      <4> QED
        BY <1>4, <4>1, <4>2
    <3>2. IsFiniteSet(OpenZombies') /\ Cardinality(OpenZombies') <= Cardinality(OpenZombies \cup {p})
      BY <2>2, <3>1, FS_Subset
    <3>3. Cardinality(OpenZombies \cup {p}) \in Nat /\ Cardinality(OpenZombies') \in Nat
      BY <3>1, <3>2, FS_CardinalityType
    <3> QED
      BY <1>4, <3>1, <3>2, <3>3
  <2>4. abnormal' + Cardinality(OpenZombies') <= crashes'
    BY <1>1, <1>4, <1>5, <1>6, <2>1, <2>3
  <2>5. \A q \in OpenEnds : wpc'[q] # "exit" /\ (wpc'[q] # "zombie" => go'[q])
    BY <1>3, <2>1 DEF TypeOK
  <2> QED
    BY <1>1, <1>6, <2>4, <2>5 DEF EarlyInv
\* a worker whose end is open does not leave
<1>9. ASSUME ~Crash(p), p \in OpenEnds
      PROVE  wpc'[p] \notin {"exit", "zombie"} /\ go'[p]
  <2>1. file[p] /\ sig[p] = {} /\ wpc[p] # "exit" /\ wpc[p] # "zombie" /\ go[p]
    BY <1>3, <1>9, WorkerFrame DEF LateInv, OpenEnds
  <2>2. ~Sigint(p) /\ ~Sigkill(p) /\ ~Exit(p) /\ ~SelectQuit(p)
    BY <2>1 DEF Sigint, Sigkill, Exit, SelectQuit, ToldToQuit, PeerOpen
  <2>3. UNCHANGED go
    BY <1>9, <2>2 DEF WorkerNext, WorkerCode, ClientStep, Boot, InitPython, SelectListen, Accept,
         AcceptMisses, TellBusy, ReportFree, ReadParams, ClientGone, Serve
  <2>4. wpc'[p] \notin {"exit", "zombie"}
    <3>1. wpc[p] \in {"accept", "report"} => wpc'[p] # "exit"
      BY <1>9 DEF Recycles
    <3> QED
      BY <1>9, <2>1, <2>2, <3>1
         DEF WorkerNext, WorkerCode, ClientStep, Boot, InitPython, SelectListen, Accept,
             AcceptMisses, TellBusy, ReportFree, ReadParams, ClientGone, LoseClient, Serve,
             NextTurn, TypeOK
  <2> QED
    BY <2>1, <2>3, <2>4
<1>10. CASE ~Crash(p)
  <2>1. \A q \in OpenEnds : wpc'[q] # "exit" /\ (wpc'[q] # "zombie" => go'[q])
    BY <1>3, <1>9, <1>10, WorkerFrame
  <2>2. OpenZombies' = OpenZombies
    BY <1>1, <1>3, <1>9, <1>10, WorkerFrame DEF OpenZombies
  <2> QED
    BY <1>1, <1>6, <1>7, <1>10, <2>1, <2>2 DEF EarlyInv
<1> QED
  BY <1>8, <1>10

LEMMA EarlyStep ==
  TypeInv /\ TableExact /\ EndsInv /\ LateInv /\ EarlyInv /\ [Next]_vars /\ [~Recycles]_vars => EarlyInv'
<1> SUFFICES ASSUME TypeOK, StopInv, TableExact, EndsInv, LateInv, EarlyInv, [Next]_vars, [~Recycles]_vars
             PROVE  EarlyInv'
  BY DEF TypeInv
<1>1. SUFFICES ASSUME ~hup, ~HupHandler PROVE EarlyInv'
  <2>1. CASE HupHandler
    BY <2>1 DEF HupHandler, EarlyInv
  <2>2. hup /\ ~HupHandler => hup'
    <3>1. ControlStep /\ ~HupHandler => hup' = hup
      BY DEF ControlStep, Top, FillDone, Select, SelectFails, ScanDone, ReapDone, Adjust, GrowDone,
             ShrinkDone, CloseDone, WaitDone, WaitInterrupted, KillDone, MGoto, Break
    <3>2. Spawn \/ SpawnFails \/ RecvByte \/ RecvEof \/ Shrink \/ CloseAll \/ Kill \/ MasterDies
            => hup' = hup
      BY DEF Spawn, SpawnFails, RecvByte, RecvEof, Shrink, CloseAll, Kill, MasterDies
    <3>3. (\E p \in Zombies : Erase(p)) \/ (\E c \in Conns : Arrive(c)) \/ UNCHANGED vars => hup' = hup
      BY DEF Erase, Arrive, masterVars, vars
    <3>4. (\E p \in Pids : WorkerNext(p)) => hup' = hup
      BY WorkerFrame DEF masterVars
    <3> QED
      BY <3>1, <3>2, <3>3, <3>4, StepKinds
  <2> QED
    BY <2>1, <2>2, <1>1 DEF EarlyInv
<1>2. /\ \A p \in OpenEnds : p \in Pids /\ wpc[p] # "exit" /\ (wpc[p] # "zombie" => go[p])
      /\ abnormal + Cardinality(OpenZombies) <= crashes
      /\ ~keepGoing => abnormal > AbnormalLimit
  BY <1>1 DEF EarlyInv, OpenEnds, TypeOK
<1>3. IsFiniteSet(OpenZombies) /\ Cardinality(OpenZombies) \in Nat
  <2>1. OpenZombies \in SUBSET Pids
    BY DEF OpenZombies, OpenEnds, TypeOK
  <2> QED
    BY <2>1, PreforkAssumption, FS_Subset, FS_CardinalityType
<1>4. abnormal \in Nat /\ crashes \in Nat
  BY PreforkAssumption DEF TypeOK
\* ends are closed at most, and the workers of the others go on
<1>5. ASSUME OpenEnds' \subseteq OpenEnds, UNCHANGED <<abnormal, keepGoing, crashes>>,
             \A p \in OpenEnds' : wpc'[p] = wpc[p] /\ go'[p] = go[p]
      PROVE  EarlyInv'
  <2>1. OpenZombies' \subseteq OpenZombies
    BY <1>5 DEF OpenZombies
  <2>2. Cardinality(OpenZombies') <= Cardinality(OpenZombies) /\ Cardinality(OpenZombies') \in Nat
    BY <1>3, <2>1, FS_Subset, FS_CardinalityType
  <2>3. abnormal' + Cardinality(OpenZombies') <= crashes'
    BY <1>2, <1>3, <1>4, <1>5, <2>2
  <2> QED
    BY <1>2, <1>5, <2>3 DEF EarlyInv
<1>6. CASE ControlStep
  <2>1. UNCHANGED <<abnormal, keepGoing>>
    BY <1>1, <1>6 DEF ControlStep, Top, FillDone, Select, SelectFails, ScanDone, ReapDone, Adjust,
       GrowDone, ShrinkDone, CloseDone, WaitDone, WaitInterrupted, KillDone, MGoto, Break
  <2> QED
    BY <1>5, <1>6, <2>1, ControlFrame DEF OpenEnds, workerVars, envVars
<1>7. CASE (Fill \/ Grow) /\ Spawn
  <2> PICK p \in Pids : /\ wpc[p] = "none" /\ NewChild(p)
                        /\ wpc' = [wpc EXCEPT ![p] = "born"] /\ go' = [go EXCEPT ![p] = keepGoing]
    BY <1>7 DEF Spawn
  <2>1. UNCHANGED <<abnormal, keepGoing, crashes>>
    BY <1>7 DEF Spawn, envVars
  <2>2. keepGoing
    BY <1>2, <1>7 DEF Fill, Grow, StopInv
  <2>3. OpenEnds' = OpenEnds \cup {p} /\ p \notin OpenEnds
    BY DEF NewChild, OpenEnds, TableExact, TypeOK
  <2>4. OpenZombies' = OpenZombies
    BY <1>2, <2>3 DEF OpenZombies, TypeOK
  <2>5. \A q \in OpenEnds' : wpc'[q] # "exit" /\ (wpc'[q] # "zombie" => go'[q])
    BY <1>2, <2>2, <2>3 DEF TypeOK
  <2> QED
    BY <1>2, <2>1, <2>4, <2>5 DEF EarlyInv
<1>8. CASE SpawnFails
  BY <1>5, <1>8 DEF SpawnFails, OpenEnds, workerVars
<1>9. CASE RecvByte
  BY <1>5, <1>9 DEF RecvByte, OpenEnds, envVars
<1>10. CASE RecvEof
  <2> PICK p \in todo : chan[p] = <<>> /\ CloseFile(p)
    BY <1>10 DEF RecvEof
  <2>1. mpc = "scan" /\ UNCHANGED <<children, wpc, go, crashes>>
    BY <1>10 DEF RecvEof, workerVars, envVars
  <2>2. p \in OpenZombies /\ p \in Pids
    BY <2>1 DEF LateInv, EndsInv, Readable, OpenZombies, TypeOK
  <2>3. OpenEnds' = OpenEnds \ {p} /\ OpenZombies' = OpenZombies \ {p}
    BY <2>1, <2>2 DEF CloseFile, OpenEnds, OpenZombies, TypeOK
  <2>4. Cardinality(OpenZombies') = Cardinality(OpenZombies) - 1
    BY <1>3, <2>2, <2>3, FS_RemoveElement
  <2>5. abnormal' <= abnormal + 1
    BY <1>4, <1>10 DEF RecvEof, CountExit
  <2>6. abnormal' \in Nat
    BY <1>4, <1>10 DEF RecvEof, CountExit
  <2>7. abnormal' + Cardinality(OpenZombies') <= crashes'
    BY <1>2, <1>3, <1>4, <2>1, <2>4, <2>5, <2>6
  <2>8. keepGoing
    BY <1>2, <2>1 DEF StopInv
  <2>9. ASSUME ~keepGoing' PROVE abnormal' > AbnormalLimit
    <3>1. keepGoing' = (keepGoing /\ abnormal' <= AbnormalLimit)
      BY <1>10, Zenon DEF RecvEof, CountExit
    <3>2. ~(abnormal' <= AbnormalLimit)
      BY <2>8, <2>9, <3>1, Zenon
    <3> QED
      BY <2>6, <3>2, PreforkAssumption
  <2>10. \A q \in OpenEnds' : wpc'[q] # "exit" /\ (wpc'[q] # "zombie" => go'[q])
    BY <1>2, <2>1, <2>3
  <2> QED
    BY <2>7, <2>9, <2>10 DEF EarlyInv
<1>11. CASE \E p \in Zombies : Erase(p)
  <2> PICK p \in Zombies : Erase(p)
    BY <1>11
  <2>1. OpenEnds' = OpenEnds \ {p} /\ wpc' = [wpc EXCEPT ![p] = "none"]
        /\ UNCHANGED <<abnormal, keepGoing, crashes, go>>
    BY DEF Erase, Forget, CloseFile, OpenEnds, Zombies, TypeOK, envVars
  <2> QED
    BY <1>2, <1>5, <2>1 DEF TypeOK
<1>12. CASE Shrink
  <2> PICK p \in AvailKids : CloseEnd(p)
    BY <1>12 DEF Shrink
  <2>1. OpenEnds' = OpenEnds \ {p}
    BY <1>12 DEF Shrink, CloseEnd, CloseFile, OpenEnds, AvailKids, TypeOK
  <2> QED
    BY <1>5, <1>12, <2>1 DEF Shrink, envVars
<1>13. CASE CloseAll
  <2> PICK p \in todo : CloseEnd(p)
    BY <1>13 DEF CloseAll
  <2>1. OpenEnds' = OpenEnds \ {p}
    BY <1>13 DEF CloseAll, CloseEnd, CloseFile, OpenEnds, TypeOK
  <2> QED
    BY <1>5, <1>13, <2>1 DEF CloseAll, envVars
<1>14. CASE Kill
  <2>1. OpenEnds' = {} /\ OpenEnds = {} /\ UNCHANGED <<abnormal, keepGoing, crashes>>
    BY <1>14 DEF Kill, LateInv, OpenEnds, envVars
  <2> QED
    BY <1>5, <2>1
<1>15. CASE \E p \in Pids : WorkerNext(p)
  <2>1. ~Recycles \/ UNCHANGED vars
    OBVIOUS
  <2>2. ~Recycles
    BY <2>1 DEF Recycles, vars, workerVars
  <2> QED
    BY <1>15, <2>2, EarlyWorker
<1>16. CASE \E c \in Conns : Arrive(c)
  BY <1>5, <1>16 DEF Arrive, OpenEnds, masterVars, workerVars
<1>17. CASE MasterDies
  <2>1. OpenEnds' = {} /\ UNCHANGED <<abnormal, keepGoing, crashes>>
    BY <1>17 DEF MasterDies, OpenEnds, envVars, TypeOK
  <2> QED
    BY <1>5, <2>1
<1>18. CASE UNCHANGED vars
  BY <1>5, <1>18 DEF vars, OpenEnds, masterVars, workerVars, envVars
<1> QED
  BY <1>6, <1>7, <1>8, <1>9, <1>10, <1>11, <1>12, <1>13, <1>14, <1>15, <1>16, <1>17, <1>18,
     StepKinds

\* As long as no worker is recycled, run() ends by itself only when more workers
\* crashed than abnormal_exit tolerates: workers that were retired, that lost
\* their clients or that are being shut down are never counted, and no crash
\* counts twice. Recycling alone is what SelfStopJustified fails for.
THEOREM SelfStopUnlessRecycled == Spec /\ [][~Recycles]_vars => []SelfStopJustified
<1>1. Init => EndsInv /\ TableExact /\ LateInv
  BY EndsInit DEF Init, LateInv, OpenEnds
<1>2. Init => EarlyInv
  BY FS_EmptySet DEF Init, EarlyInv, OpenZombies, OpenEnds
<1>3. TypeInv /\ EarlyInv => SelfStopJustified
  <2> SUFFICES ASSUME TypeOK, EarlyInv, ~keepGoing, ~hup
               PROVE  crashes > AbnormalLimit
    BY DEF TypeInv, SelfStopJustified
  <2>1. OpenZombies \in SUBSET Pids
    BY DEF OpenZombies, OpenEnds, TypeOK
  <2>2. Cardinality(OpenZombies) \in Nat
    BY <2>1, PreforkAssumption, FS_Subset, FS_CardinalityType
  <2>3. abnormal \in Nat /\ crashes \in Nat
    BY PreforkAssumption DEF TypeOK
  <2> QED
    BY <2>2, <2>3, PreforkAssumption DEF EarlyInv
<1> QED
  BY <1>1, <1>2, <1>3, TypeInvariant, TableStep, EndsStep, LateStep, EarlyStep, PTL DEF Spec

\* With max_requests = 0 no worker is recycled.
LEMMA NeverRecycled == MaxRequests = 0 /\ TypeInv /\ [Next]_vars => [~Recycles]_vars
<1> SUFFICES ASSUME MaxRequests = 0, TypeOK, [Next]_vars, Recycles PROVE FALSE
  BY DEF TypeInv
<1> PICK p \in OpenEnds : wpc[p] \in {"accept", "report"} /\ wpc'[p] = "exit"
  BY DEF Recycles
<1>1. p \in Pids /\ file[p] /\ PeerOpen(p) /\ NextTurn(p) = "select"
  BY DEF OpenEnds, PeerOpen, NextTurn, Recycled, TypeOK
<1>2. CASE \E q \in Pids : WorkerNext(q)
  <2> PICK q \in Pids : WorkerNext(q)
    BY <1>2
  <2>1. q = p
    BY <1>1, WorkerFrame
  <2> QED
    BY <1>1, <2>1 DEF WorkerNext, WorkerCode, ClientStep, Boot, InitPython, SelectQuit, SelectListen,
       Accept, AcceptMisses, TellBusy, ReportFree, Exit, Sigint, Sigkill, ReadParams, ClientGone, LoseClient,
       Serve, Crash, Die, SigintBorn, SigintBoot, SigintSelect, SigintRead, SigintFlag, Goto, TypeOK
<1>3. CASE Spawn
  BY <1>1, <1>3 DEF Spawn, TypeOK
<1>4. CASE \E q \in Zombies : Erase(q)
  BY <1>1, <1>4 DEF Erase, TypeOK
<1>5. CASE Kill
  BY <1>1, <1>5 DEF Kill
<1>6. CASE ControlStep \/ SpawnFails \/ RecvByte \/ RecvEof \/ Shrink \/ CloseAll \/ MasterDies
           \/ (\E c \in Conns : Arrive(c)) \/ UNCHANGED vars
  BY <1>6, ControlFrame DEF SpawnFails, RecvByte, RecvEof, Shrink, CloseAll, MasterDies, Arrive,
     vars, workerVars
<1> QED
  BY <1>2, <1>3, <1>4, <1>5, <1>6, StepKinds

\* Without recycling, run() ends by itself only for too many crashes.
THEOREM SelfStopSound == MaxRequests = 0 /\ Spec => []SelfStopJustified
<1>1. CASE MaxRequests = 0
  <2>1. TypeInv /\ [Next]_vars => [~Recycles]_vars
    BY <1>1, NeverRecycled
  <2>2. Spec => [][~Recycles]_vars
    BY <2>1, TypeInvariant, PTL DEF Spec
  <2> QED
    BY <2>2, SelfStopUnlessRecycled
<1> QED
  BY <1>1

-----------------------------------------------------------------------------
(* Who can keep a worker from leaving *)

\* Only a sibling that was just forked, and has its copies still to close, can
\* keep a worker from seeing that the master closed its end: nobody holds his
\* own, and no worker waits for one that waits itself.
OnlyBirthDelays ==
  \A p, q \in Pids : p \in held[q] => p # q /\ wpc[q] = "born" /\ wpc[p] # "none"

\* A fresh process is the only one that holds ends, and gives up all of them in
\* its first step; what it holds are ends of processes that are still in the
\* table.
LEMMA BirthStep == TypeInv /\ TableExact /\ OnlyBirthDelays /\ [Next]_vars => OnlyBirthDelays'
<1> SUFFICES ASSUME TypeOK, TableExact, OnlyBirthDelays, [Next]_vars PROVE OnlyBirthDelays'
  BY DEF TypeInv
<1> USE DEF OnlyBirthDelays
<1>1. CASE ControlStep
  BY <1>1, ControlFrame DEF workerVars
<1>2. CASE Spawn
  <2> PICK p \in Pids : /\ wpc[p] = "none"
                        /\ wpc' = [wpc EXCEPT ![p] = "born"]
                        /\ held' = [held EXCEPT ![p] = OpenEnds]
    BY <1>2 DEF Spawn
  <2>1. \A q \in OpenEnds : q # p /\ wpc[q] # "none"
    BY DEF OpenEnds, TableExact
  <2> QED
    BY <2>1 DEF TypeOK
<1>3. CASE \E p \in Zombies : Erase(p)
  <2> PICK p \in Zombies : /\ wpc' = [wpc EXCEPT ![p] = "none"]
                           /\ held' = [q \in Pids |-> held[q] \ {p}]
    BY <1>3 DEF Erase
  <2>1. wpc[p] = "zombie" /\ p \in Pids
    BY DEF Zombies
  <2>2. \A q, r \in Pids : r \in held'[q] => r \in held[q] /\ q # p /\ r # p
    BY <2>1
  <2> QED
    BY <2>1, <2>2 DEF TypeOK
<1>4. CASE Kill
  BY <1>4 DEF Kill
<1>5. ASSUME NEW p \in Pids, WorkerNext(p) PROVE OnlyBirthDelays'
  <2>1. held'[p] \subseteq held[p] /\ (held'[p] # {} => wpc'[p] = "born")
    BY <1>5 DEF WorkerNext, WorkerCode, ClientStep, Boot, InitPython, SelectQuit, SelectListen,
                Accept, AcceptMisses, TellBusy, ReportFree, Exit, Sigint, Sigkill, ReadParams, ClientGone,
                LoseClient, Serve, Crash, Die, SigintBorn, SigintBoot, SigintSelect, SigintRead,
                SigintFlag, Goto, envVars, TypeOK
  <2> QED
    BY <1>5, <2>1, WorkerFrame
<1>6. CASE SpawnFails \/ RecvByte \/ RecvEof \/ Shrink \/ CloseAll \/ MasterDies
           \/ (\E c \in Conns : Arrive(c)) \/ UNCHANGED vars
  BY <1>6 DEF SpawnFails, RecvByte, RecvEof, Shrink, CloseAll, MasterDies, Arrive, vars, workerVars
<1> QED
  BY <1>1, <1>2, <1>3, <1>4, <1>5, <1>6, StepKinds

\* What keeps a worker that was let go from seeing it is a sibling on its way:
\* the waits of workers for one another end, and none goes round in a circle.
THEOREM NoCircularWait == Spec => []OnlyBirthDelays
<1>1. Init => OnlyBirthDelays
  BY DEF Init, OnlyBirthDelays
<1> QED
  BY <1>1, KillInit, TableStep, BirthStep, TypeInvariant, PTL DEF Spec

\* The spawning loops do not look at g_keepGoing: a worker forked after the
\* signal that stops the server, or signalled while it still has the master's
\* handlers, leaves without having touched a connection.
ForkedLateLeave ==
  \A p \in Pids : wpc[p] \in {"select", "accept", "read", "tell", "serve", "report"} => go[p]

\* A worker's own copy of g_keepGoing is looked at before its loop begins, and
\* a signal reaches it only before that.
LEMMA LateForkStep == TypeInv /\ ForkedLateLeave /\ [Next]_vars => ForkedLateLeave'
<1> SUFFICES ASSUME TypeOK, ForkedLateLeave, [Next]_vars PROVE ForkedLateLeave'
  BY DEF TypeInv
<1> USE DEF ForkedLateLeave
<1>1. CASE ControlStep
  BY <1>1, ControlFrame DEF workerVars
<1>2. CASE Spawn
  BY <1>2 DEF Spawn, TypeOK
<1>3. CASE \E p \in Zombies : Erase(p)
  BY <1>3 DEF Erase, TypeOK
<1>4. CASE Kill
  BY <1>4 DEF Kill
<1>5. ASSUME NEW p \in Pids, WorkerNext(p) PROVE ForkedLateLeave'
  <2>1. wpc'[p] \in {"select", "accept", "read", "tell", "serve", "report"} => go'[p]
    <3>1. CASE Boot(p) \/ InitPython(p) \/ Exit(p) \/ Crash(p) \/ Sigkill(p)
      BY <3>1 DEF Boot, InitPython, Exit, Crash, Sigkill, Die, Goto, TypeOK
    <3>2. CASE Sigint(p)
      BY <3>2 DEF Sigint, SigintBorn, SigintBoot, SigintSelect, SigintRead, SigintFlag,
                  LoseClient, Die, Goto, envVars, TypeOK
    <3>3. CASE SelectQuit(p) \/ SelectListen(p) \/ Accept(p) \/ AcceptMisses(p) \/ TellBusy(p)
               \/ ReportFree(p) \/ ClientStep(p) \/ Serve(p)
      BY <3>3 DEF SelectQuit, SelectListen, Accept, AcceptMisses, TellBusy, ReportFree, ClientStep,
                  ReadParams, ClientGone, LoseClient, Serve, Goto, TypeOK
    <3> QED
      BY <1>5, <3>1, <3>2, <3>3 DEF WorkerNext, WorkerCode
  <2> QED
    BY <1>5, <2>1, WorkerFrame
<1>6. CASE SpawnFails \/ RecvByte \/ RecvEof \/ Shrink \/ CloseAll \/ MasterDies
           \/ (\E c \in Conns : Arrive(c)) \/ UNCHANGED vars
  BY <1>6 DEF SpawnFails, RecvByte, RecvEof, Shrink, CloseAll, MasterDies, Arrive, vars, workerVars
<1> QED
  BY <1>1, <1>2, <1>3, <1>4, <1>5, <1>6, StepKinds

\* A worker that was forked too late for the server it belongs to, or told to
\* stop before it knows how, takes no connection.
THEOREM LateForksLeave == Spec => []ForkedLateLeave
<1>1. Init => ForkedLateLeave
  BY DEF Init, ForkedLateLeave
<1> QED
  BY <1>1, LateForkStep, TypeInvariant, PTL DEF Spec

\* Nobody is forced to leave before he was asked to: signals go to workers whose
\* end is closed, and when the master waits, kills, or is gone, every end is.
AskedFirst ==
  /\ \A p \in Pids : sig[p] # {} => ~file[p]
  /\ mpc \in {"wait", "kill", "done", "dead"} => OpenEnds = {}

\* LateInv and a dead master, whose descriptors the kernel has closed.
THEOREM AskedBeforeForced == Spec => []AskedFirst
<1>1. Init => EndsInv /\ TableExact /\ LateInv /\ (mpc = "dead" => OpenEnds = {})
  BY EndsInit DEF Init, LateInv, OpenEnds
<1>2. TypeInv /\ (mpc = "dead" => OpenEnds = {}) /\ [Next]_vars => (mpc = "dead" => OpenEnds = {})'
  <2> SUFFICES ASSUME TypeOK, mpc = "dead" => OpenEnds = {}, [Next]_vars, mpc' = "dead"
               PROVE  OpenEnds' = {}
    BY DEF TypeInv
  <2>1. CASE MasterDies
    BY <2>1 DEF MasterDies, OpenEnds, TypeOK
  <2>2. CASE \E p \in Pids : WorkerNext(p)
    BY <2>2, WorkerFrame DEF masterVars, OpenEnds
  <2>3. CASE (\E c \in Conns : Arrive(c)) \/ UNCHANGED vars
    BY <2>3 DEF Arrive, vars, masterVars, OpenEnds
  <2>4. CASE ControlStep \/ Fill \/ Grow \/ RecvByte \/ RecvEof \/ Reap \/ WaitReap \/ Shrink
             \/ CloseAll \/ Kill
    BY <2>4 DEF ControlStep, Top, FillDone, Select, SelectFails, ScanDone, ReapDone, Adjust,
       GrowDone, ShrinkDone, CloseDone, WaitDone, WaitInterrupted, KillDone, HupHandler, MGoto,
       Break, Fill, Grow, RecvByte, RecvEof, Reap, WaitReap, Shrink, CloseAll, Kill
  <2> QED
    BY <2>1, <2>2, <2>3, <2>4, StepKinds
<1>3. LateInv /\ (mpc = "dead" => OpenEnds = {}) => AskedFirst
  BY DEF LateInv, AskedFirst
<1> QED
  BY <1>1, <1>2, <1>3, TypeInvariant, TableStep, EndsStep, LateStep, PTL DEF Spec
=============================================================================
