---------------------------- MODULE PreforkProofs ----------------------------
(***************************************************************************)
(* The safety of the prefork server, for any number of workers, clients,   *)
(* crashes and failed forks. Each invariant is proved from the ones before *)
(* it: types, then the process table, the descriptors, the connections,    *)
(* the notifications, the cleanup and the count of early exits.            *)
(***************************************************************************)
EXTENDS Prefork, SequenceTheorems, FiniteSetTheorems, TLAPS

-----------------------------------------------------------------------------
(* Types *)

(***************************************************************************)
(* TypeOK bounds abnormal_exit, and that bound is not inductive: it holds  *)
(* because the exit that passes the limit ends the scan and then the loop. *)
(***************************************************************************)
StopInv ==
  abnormal > AbnormalLimit =>
    /\ ~keepGoing
    /\ mpc \in {"scan", "reap", "adjust", "close", "wait", "kill", "done", "dead"}
    /\ mpc = "scan" => todo = {}

TypeInv == TypeOK /\ StopInv

\* The variables have their types initially.
LEMMA TypeInit == Init => TypeInv
<1> SUFFICES ASSUME Init PROVE TypeInv
  OBVIOUS
<1>1. chan \in [Pids -> Seq({Busy, Free})]
  BY EmptySeq DEF Init
<1>2. abnormal \in 0 .. AbnormalLimit + 1 /\ crashes \in 0 .. MaxCrashes
      /\ forkFails \in 0 .. MaxForkFails /\ ~(abnormal > AbnormalLimit)
  BY PreforkAssumption DEF Init
<1>3. StopInv
  BY <1>2 DEF StopInv
<1>4. file \in [Pids -> BOOLEAN] /\ avail \in [Pids -> BOOLEAN] /\ go \in [Pids -> BOOLEAN]
      /\ sig \in [Pids -> SUBSET Signals] /\ wpc \in [Pids -> WorkerPCs] /\ held \in [Pids -> SUBSET Pids]
      /\ reqs \in [Pids -> Nat] /\ cur \in [Pids -> Conns \cup {NoConn}] /\ conn \in [Conns -> ConnStates]
  BY DEF Init, WorkerPCs, ConnStates
<1>5. children \in SUBSET Pids /\ todo \in SUBSET Pids /\ fds \in Int /\ mpc \in MasterPCs
  BY DEF Init, MasterPCs
<1>6. keepGoing \in BOOLEAN /\ hup \in BOOLEAN
  BY Zenon DEF Init
<1> QED
  BY <1>1, <1>2, <1>3, <1>4, <1>5, <1>6 DEF TypeInv, TypeOK

\* The end of a process leaves what is kept of the processes and the clients in
\* their types.
LEMMA DieTypes ==
  ASSUME TypeOK, NEW p \in Pids, Die(p)
  PROVE  /\ wpc' \in [Pids -> WorkerPCs]
         /\ go' \in [Pids -> BOOLEAN]
         /\ held' \in [Pids -> SUBSET Pids]
         /\ chan' \in [Pids -> Seq({Busy, Free})]
         /\ reqs' \in [Pids -> Nat]
         /\ cur' \in [Pids -> Conns \cup {NoConn}]
         /\ sig' \in [Pids -> SUBSET Signals]
         /\ conn' \in [Conns -> ConnStates]
  BY DEF TypeOK, Die, WorkerPCs, ConnStates

\* So does a signal that is sent.
LEMMA SignalTypes ==
  ASSUME TypeOK, NEW p \in Pids, NEW s \in Signals, SendSignal(p, s) \/ UNCHANGED sig
  PROVE  sig' \in [Pids -> SUBSET Signals]
<1>1. CASE UNCHANGED sig
  BY <1>1 DEF TypeOK
<1>2. CASE SendSignal(p, s)
  <2>1. sig[p] \in SUBSET Signals /\ sig[p] \cup {s} \in SUBSET Signals
    BY DEF TypeOK
  <2> QED
    BY <1>2, <2>1 DEF TypeOK, SendSignal
<1> QED
  BY <1>1, <1>2

\* Sending and receiving a byte keep the socketpairs' contents in their type.
LEMMA SendTypes ==
  ASSUME TypeOK, NEW p \in Pids, NEW byte \in {Busy, Free}, Send(p, byte)
  PROVE  chan' \in [Pids -> Seq({Busy, Free})]
<1>1. Append(chan[p], byte) \in Seq({Busy, Free})
  BY AppendProperties DEF TypeOK
<1> QED
  BY <1>1 DEF TypeOK, Send

\* So does a successful fork, and a failed one.
LEMMA SpawnTypes == TypeOK /\ Spawn /\ mpc' \in MasterPCs => TypeOK'
<1> SUFFICES ASSUME TypeOK, Spawn, mpc' \in MasterPCs PROVE TypeOK'
  OBVIOUS
<1> PICK p \in Pids : /\ NewChild(p)
                      /\ wpc'  = [wpc EXCEPT ![p] = "born"]
                      /\ go'   = [go EXCEPT ![p] = keepGoing]
                      /\ held' = [held EXCEPT ![p] = OpenEnds]
  BY DEF Spawn
<1>1. OpenEnds \in SUBSET Pids
  BY DEF TypeOK, OpenEnds
<1>2. wpc' \in [Pids -> WorkerPCs] /\ go' \in [Pids -> BOOLEAN] /\ held' \in [Pids -> SUBSET Pids]
  BY <1>1 DEF TypeOK, WorkerPCs
<1>3. children' \in SUBSET Pids /\ file' \in [Pids -> BOOLEAN] /\ avail' \in [Pids -> BOOLEAN]
  BY DEF TypeOK, NewChild
<1> QED
  BY <1>2, <1>3 DEF TypeOK, Spawn, envVars

LEMMA SpawnFailsTypes == TypeOK /\ SpawnFails /\ mpc' \in MasterPCs => TypeOK'
<1> SUFFICES ASSUME TypeOK, SpawnFails, mpc' \in MasterPCs PROVE TypeOK'
  OBVIOUS
<1>1. forkFails' \in 0 .. MaxForkFails /\ fds' \in Int
  BY PreforkAssumption DEF TypeOK, SpawnFails
<1> QED
  BY <1>1 DEF TypeOK, SpawnFails, workerVars

\* So does closing a descriptor, dropping the bytes behind it, and forgetting a
\* process that was waited for.
LEMMA CloseTypes ==
  ASSUME TypeOK, NEW p \in Pids, CloseFile(p)
  PROVE  file' \in [Pids -> BOOLEAN] /\ fds' \in Int
  BY DEF TypeOK, CloseFile

LEMMA DrainTypes ==
  ASSUME TypeOK, NEW p \in Pids, chan' = [chan EXCEPT ![p] = <<>>]
  PROVE  chan' \in [Pids -> Seq({Busy, Free})]
<1>1. <<>> \in Seq({Busy, Free})
  BY EmptySeq
<1> QED
  BY <1>1 DEF TypeOK

LEMMA EraseTypes ==
  ASSUME TypeOK, NEW p \in Pids, Erase(p), mpc' \in MasterPCs
  PROVE  TypeOK'
<1>1. file' \in [Pids -> BOOLEAN] /\ fds' \in Int
  BY CloseTypes DEF Erase
<1>2. chan' \in [Pids -> Seq({Busy, Free})]
  BY DrainTypes DEF Erase
<1>3. children' \in SUBSET Pids /\ avail' \in [Pids -> BOOLEAN]
      /\ wpc' \in [Pids -> WorkerPCs] /\ held' \in [Pids -> SUBSET Pids]
  BY DEF Erase, Forget, TypeOK, WorkerPCs
<1> QED
  BY <1>1, <1>2, <1>3 DEF Erase, TypeOK, envVars

LEMMA ForkTypes == TypeInv /\ (Fill \/ Grow) => TypeInv'
<1> SUFFICES ASSUME TypeOK, StopInv, Fill \/ Grow PROVE TypeInv'
  BY DEF TypeInv
<1>1. ~(abnormal > AbnormalLimit)
  BY DEF StopInv, Fill, Grow
<1>2. mpc' \in MasterPCs
  BY DEF Fill, Grow, MasterPCs
<1>3. Spawn \/ SpawnFails
  BY DEF Fill, Grow
<1>4. TypeOK'
  BY <1>2, <1>3, SpawnTypes, SpawnFailsTypes
<1>5. abnormal' = abnormal
  BY <1>3 DEF Spawn, SpawnFails
<1>6. StopInv'
  BY <1>1, <1>5 DEF StopInv
<1> QED
  BY <1>4, <1>6 DEF TypeInv

\* Every step of the master keeps the variables in their ranges.
LEMMA TypeMaster == TypeInv /\ MasterNext => TypeInv'
<1> SUFFICES ASSUME TypeInv, MasterNext PROVE TypeInv'
  OBVIOUS
<1> USE PreforkAssumption DEF TypeInv, TypeOK, StopInv, MasterPCs, WorkerPCs, ConnStates,
                              workerVars, envVars, MGoto, Break
<1>1. CASE Top
  BY <1>1 DEF Top
<1>2. CASE Fill
  BY <1>2, ForkTypes
<1>3. CASE FillDone
  BY <1>3 DEF FillDone
<1>4. CASE Select
  BY <1>4 DEF Select, OpenEnds
<1>5. CASE RecvByte
  <2> PICK p \in todo : /\ chan[p] # <<>>
                        /\ avail' = [avail EXCEPT ![p] = SaysAvail(Head(chan[p]))]
                        /\ chan'  = [chan EXCEPT ![p] = Tail(@)]
                        /\ todo'  = todo \ {p}
    BY <1>5 DEF RecvByte
  <2>1. Tail(chan[p]) \in Seq({Busy, Free})
    BY HeadTailProperties
  <2>2. avail' \in [Pids -> BOOLEAN]
    BY DEF SaysAvail
  <2> QED
    BY <1>5, <2>1, <2>2 DEF RecvByte
<1>6. CASE RecvEof
  <2> PICK p \in todo : CloseFile(p) /\ avail' = [avail EXCEPT ![p] = FALSE]
    BY <1>6 DEF RecvEof
  <2>1. abnormal <= AbnormalLimit
    BY <1>6 DEF RecvEof
  <2>2. abnormal' \in 0 .. AbnormalLimit + 1
    BY <1>6, <2>1 DEF RecvEof, CountExit
  <2>3. keepGoing' \in BOOLEAN
    BY <1>6 DEF RecvEof, CountExit
  <2>4. ASSUME abnormal' > AbnormalLimit PROVE ~keepGoing'
    <3>1. ~(abnormal' <= AbnormalLimit)
      BY <2>2, <2>4
    <3>2. keepGoing' = (keepGoing /\ abnormal' <= AbnormalLimit)
      BY <1>6, Zenon DEF RecvEof, CountExit
    <3> QED
      BY <3>1, <3>2, Zenon
  <2>5. file' \in [Pids -> BOOLEAN] /\ fds' \in Int
    BY DEF CloseFile
  <2> QED
    BY <1>6, <2>2, <2>3, <2>4, <2>5 DEF RecvEof
<1>7. CASE ScanDone
  BY <1>7 DEF ScanDone
<1>8. CASE Reap
  <2> PICK p \in Pids : Erase(p)
    BY <1>8 DEF Reap, Zombies
  <2>1. mpc' = mpc /\ mpc = "reap"
    BY <1>8 DEF Reap
  <2>2. TypeOK'
    BY <2>1, EraseTypes
  <2>3. abnormal' = abnormal /\ keepGoing' = keepGoing
    BY DEF Erase
  <2> QED
    BY <2>1, <2>2, <2>3
<1>9. CASE ReapDone
  BY <1>9 DEF ReapDone
<1>10. CASE Adjust
  <2>1. CASE ~keepGoing /\ Break
    BY <1>10, <2>1 DEF Adjust
  <2>2. CASE keepGoing /\ UNCHANGED todo
             /\ \E pc \in {"grow", "shrink", "top"} : MGoto(pc)
    BY <1>10, <2>2 DEF Adjust
  <2> QED
    BY <1>10, <2>1, <2>2 DEF Adjust
<1>11. CASE Grow
  BY <1>11, ForkTypes
<1>12. CASE GrowDone
  BY <1>12 DEF GrowDone
<1>13. CASE Shrink
  <2> PICK p \in Pids : CloseEnd(p) /\ avail' = [avail EXCEPT ![p] = FALSE]
    BY <1>13 DEF Shrink, AvailKids
  <2>1. file' \in [Pids -> BOOLEAN] /\ fds' \in Int /\ chan' \in [Pids -> Seq({Busy, Free})]
    BY CloseTypes, DrainTypes DEF CloseEnd
  <2> QED
    BY <1>13, <2>1 DEF Shrink
<1>14. CASE ShrinkDone
  BY <1>14 DEF ShrinkDone
<1>15. CASE CloseAll
  <2> PICK p \in todo : /\ CloseEnd(p)
                        /\ SendSignal(p, "INT") \/ UNCHANGED sig
                        /\ todo' = todo \ {p}
    BY <1>15 DEF CloseAll
  <2>1. file' \in [Pids -> BOOLEAN] /\ fds' \in Int /\ chan' \in [Pids -> Seq({Busy, Free})]
    BY CloseTypes, DrainTypes DEF CloseEnd
  <2>2. sig' \in [Pids -> SUBSET Signals] /\ todo' \in SUBSET Pids
    BY SignalTypes DEF Signals
  <2> QED
    BY <1>15, <2>1, <2>2 DEF CloseAll
<1>16. CASE CloseDone
  BY <1>16 DEF CloseDone
<1>17. CASE WaitReap
  <2> PICK p \in Pids : Erase(p)
    BY <1>17 DEF WaitReap, Zombies
  <2>1. mpc' = mpc /\ mpc = "wait"
    BY <1>17 DEF WaitReap
  <2>2. TypeOK'
    BY <2>1, EraseTypes
  <2>3. abnormal' = abnormal /\ keepGoing' = keepGoing
    BY DEF Erase
  <2> QED
    BY <2>1, <2>2, <2>3
<1>18. CASE WaitDone
  BY <1>18 DEF WaitDone
<1>19. CASE WaitInterrupted
  BY <1>19 DEF WaitInterrupted
<1>20. CASE Kill
  <2> PICK p \in todo : KillForcibly(p) /\ todo' = todo \ {p}
    BY <1>20 DEF Kill
  <2>1. sig' \in [Pids -> SUBSET Signals] /\ todo' \in SUBSET Pids
    BY SignalTypes DEF KillForcibly, Signals
  <2> QED
    BY <1>20, <2>1 DEF Kill
<1>21. CASE KillDone
  BY <1>21 DEF KillDone
<1>22. CASE SelectFails
  BY <1>22 DEF SelectFails
<1>23. CASE HupHandler
  BY <1>23 DEF HupHandler
<1> QED
  BY <1>1, <1>2, <1>3, <1>4, <1>5, <1>6, <1>7, <1>8, <1>9, <1>10, <1>11, <1>12, <1>13,
     <1>14, <1>15, <1>16, <1>17, <1>18, <1>19, <1>20, <1>21, <1>22, <1>23
     DEF MasterNext, MasterCode

\* Every step of a worker keeps the variables in their ranges.
LEMMA TypeWorker == TypeInv /\ (\E p \in Pids : WorkerNext(p)) => TypeInv'
<1> SUFFICES ASSUME TypeInv, NEW p \in Pids, WorkerNext(p) PROVE TypeInv'
  OBVIOUS
<1> USE PreforkAssumption DEF TypeInv, TypeOK, StopInv, MasterPCs, WorkerPCs, ConnStates,
                              masterVars, envVars, Goto, NextTurn
<1>1. CASE Boot(p)
  BY <1>1 DEF Boot
<1>2. CASE InitPython(p)
  BY <1>2 DEF InitPython
<1>3. CASE SelectQuit(p)
  BY <1>3 DEF SelectQuit
<1>4. CASE SelectListen(p)
  BY <1>4 DEF SelectListen
<1>5. CASE Accept(p)
  <2> PICK c \in Conns : /\ conn' = [conn EXCEPT ![c] = "taken"]
                         /\ cur'  = [cur EXCEPT ![p] = c]
    BY <1>5 DEF Accept, Queued
  <2>1. conn' \in [Conns -> ConnStates] /\ cur' \in [Pids -> Conns \cup {NoConn}]
    OBVIOUS
  <2> QED
    BY <1>5, <2>1 DEF Accept
<1>6. CASE AcceptMisses(p)
  BY <1>6 DEF AcceptMisses
<1>7. CASE ReadParams(p)
  BY <1>7 DEF ReadParams
<1>8. CASE ClientGone(p)
  BY <1>8 DEF ClientGone, LoseClient
<1>9. CASE TellBusy(p)
  <2>1. reqs' \in [Pids -> Nat]
    BY <1>9 DEF TellBusy
  <2> QED
    BY <1>9, <2>1, SendTypes DEF TellBusy
<1>10. CASE Serve(p)
  BY <1>10 DEF Serve
<1>11. CASE ReportFree(p)
  BY <1>11, SendTypes DEF ReportFree
<1>12. CASE Exit(p)
  BY <1>12, DieTypes DEF Exit
<1>13. CASE Sigint(p)
  <2>0. sig[p] \ {"INT"} \in SUBSET Signals
    OBVIOUS
  <2>1. CASE SigintBoot(p)
    BY <1>13, <2>1, DieTypes DEF SigintBoot
  <2>2. CASE sig' = [sig EXCEPT ![p] = @ \ {"INT"}] /\ SigintBorn(p)
    BY <2>0, <2>2 DEF SigintBorn
  <2>3. CASE sig' = [sig EXCEPT ![p] = @ \ {"INT"}] /\ SigintSelect(p)
    BY <2>0, <2>3 DEF SigintSelect
  <2>4. CASE sig' = [sig EXCEPT ![p] = @ \ {"INT"}] /\ SigintRead(p)
    BY <2>0, <2>4 DEF SigintRead, LoseClient
  <2>5. CASE sig' = [sig EXCEPT ![p] = @ \ {"INT"}] /\ SigintFlag(p)
    BY <2>0, <2>5 DEF SigintFlag
  <2> QED
    BY <1>13, <2>1, <2>2, <2>3, <2>4, <2>5, Zenon DEF Sigint
<1>14. CASE Crash(p)
  <2>1. crashes' \in 0 .. MaxCrashes
    BY <1>14 DEF Crash
  <2> QED
    BY <1>14, <2>1, DieTypes DEF Crash
<1>15. CASE Sigkill(p)
  BY <1>15, DieTypes DEF Sigkill
<1> QED
  BY <1>1, <1>2, <1>3, <1>4, <1>5, <1>6, <1>7, <1>8, <1>9, <1>10, <1>11, <1>12, <1>13, <1>14, <1>15
     DEF WorkerNext, WorkerCode, ClientStep

\* So does every step of the system.
LEMMA TypeStep == TypeInv /\ [Next]_vars => TypeInv'
<1> SUFFICES ASSUME TypeInv, [Next]_vars PROVE TypeInv'
  OBVIOUS
<1>1. CASE MasterNext
  BY <1>1, TypeMaster
<1>2. CASE \E p \in Pids : WorkerNext(p)
  BY <1>2, TypeWorker
<1>3. CASE \E c \in Conns : Arrive(c)
  BY <1>3 DEF Arrive, TypeInv, TypeOK, StopInv, ConnStates, masterVars, workerVars
<1>4. CASE MasterDies
  BY <1>4 DEF MasterDies, TypeInv, TypeOK, StopInv, MasterPCs, envVars
<1>5. CASE UNCHANGED vars
  BY <1>5 DEF TypeInv, TypeOK, StopInv, vars, masterVars, workerVars, envVars
<1> QED
  BY <1>1, <1>2, <1>3, <1>4, <1>5 DEF Next, Over

\* The variables of the server always have their types, and abnormal_exit is
\* never counted past the exit that stops it.
THEOREM TypeCorrect == Spec => []TypeOK
<1>1. TypeInv => TypeOK
  BY DEF TypeInv
<1> QED
  BY <1>1, TypeInit, TypeStep, PTL DEF Spec

\* The same, with the fact that a loop past the limit is on its way out.
THEOREM TypeInvariant == Spec => []TypeInv
  BY TypeInit, TypeStep, PTL DEF Spec

-----------------------------------------------------------------------------
(* The steps by what they touch *)

\* The steps of the master that change nothing outside its own control state.
ControlStep ==
  \/ Top \/ FillDone \/ Select \/ SelectFails \/ ScanDone \/ ReapDone
  \/ Adjust \/ GrowDone \/ ShrinkDone \/ CloseDone \/ WaitDone
  \/ WaitInterrupted \/ KillDone \/ HupHandler

\* A control step leaves the table, the workers and the clients alone.
LEMMA ControlFrame ==
  ControlStep => UNCHANGED <<children, file, avail, fds, workerVars, envVars>>
BY DEF ControlStep, Top, FillDone, Select, SelectFails, ScanDone, ReapDone, Adjust, GrowDone,
       ShrinkDone, CloseDone, WaitDone, WaitInterrupted, KillDone, HupHandler, MGoto, Break,
       masterVars, workerVars, envVars

\* Every step is a control step or one of a dozen others.
LEMMA StepKinds ==
  ASSUME [Next]_vars
  PROVE  \/ ControlStep
         \/ (Fill \/ Grow) /\ Spawn
         \/ (Fill \/ Grow) /\ SpawnFails
         \/ RecvByte
         \/ RecvEof
         \/ (Reap \/ WaitReap) /\ \E p \in Zombies : Erase(p)
         \/ Shrink
         \/ CloseAll
         \/ Kill
         \/ \E p \in Pids : WorkerNext(p)
         \/ \E c \in Conns : Arrive(c)
         \/ MasterDies
         \/ UNCHANGED vars
BY DEF Next, MasterNext, MasterCode, ControlStep, Fill, Grow, Reap, WaitReap, Over

\* A worker's step is the step of a running process, which it leaves running or
\* ended, and touches neither the master nor another process.
LEMMA WorkerFrame ==
  ASSUME TypeOK, NEW p \in Pids, WorkerNext(p)
  PROVE  /\ UNCHANGED <<masterVars, forkFails>>
         /\ wpc[p] \notin {"none", "zombie"}
         /\ wpc'[p] # "none"
         /\ \A q \in Pids \ {p} :
              /\ wpc'[q] = wpc[q]
              /\ go'[q] = go[q]
              /\ held'[q] = held[q]
              /\ chan'[q] = chan[q]
              /\ reqs'[q] = reqs[q]
              /\ cur'[q] = cur[q]
              /\ sig'[q] = sig[q]
<1> USE DEF TypeOK, Goto, NextTurn, envVars, Die, Send, LoseClient
<1>1. CASE ClientStep(p)
  BY <1>1 DEF ClientStep, ReadParams, ClientGone
<1>2. CASE Serve(p)
  BY <1>2 DEF Serve
<1>3. CASE Crash(p)
  BY <1>3 DEF Crash, Alive
<1>4. CASE Sigint(p)
  BY <1>4 DEF Sigint, SigintBorn, SigintBoot, SigintSelect, SigintRead, SigintFlag
<1>5. CASE Boot(p) \/ InitPython(p) \/ SelectQuit(p) \/ SelectListen(p)
  BY <1>5 DEF Boot, InitPython, SelectQuit, SelectListen
<1>6. CASE Accept(p) \/ AcceptMisses(p)
  BY <1>6 DEF Accept, AcceptMisses
<1>7. CASE TellBusy(p) \/ ReportFree(p)
  BY <1>7 DEF TellBusy, ReportFree
<1>8. CASE Exit(p) \/ Sigkill(p)
  BY <1>8 DEF Exit, Sigkill, Alive
<1> QED
  BY <1>1, <1>2, <1>3, <1>4, <1>5, <1>6, <1>7, <1>8 DEF WorkerNext, WorkerCode

-----------------------------------------------------------------------------
(* The process table *)

\* A step of a process that stays in the table, and a fork, and a wait.
LEMMA TableStep == TypeInv /\ TableExact /\ [Next]_vars => TableExact'
<1> SUFFICES ASSUME TypeOK, TableExact, [Next]_vars PROVE TableExact'
  BY DEF TypeInv
<1> USE DEF TableExact
<1>1. CASE ControlStep
  BY <1>1, ControlFrame DEF workerVars
<1>2. CASE Spawn
  BY <1>2 DEF Spawn, NewChild, TypeOK
<1>3. CASE SpawnFails
  BY <1>3 DEF SpawnFails, workerVars
<1>4. CASE RecvByte
  BY <1>4 DEF RecvByte
<1>5. CASE RecvEof
  BY <1>5 DEF RecvEof, workerVars
<1>6. CASE \E p \in Zombies : Erase(p)
  BY <1>6 DEF Erase, Forget, TypeOK, Zombies
<1>7. CASE Shrink \/ CloseAll
  BY <1>7 DEF Shrink, CloseAll
<1>8. CASE Kill
  BY <1>8 DEF Kill
<1>9. CASE \E p \in Pids : WorkerNext(p)
  BY <1>9, WorkerFrame DEF masterVars
<1>10. CASE \E c \in Conns : Arrive(c)
  BY <1>10 DEF Arrive, masterVars, workerVars
<1>11. CASE MasterDies
  BY <1>11 DEF MasterDies
<1>12. CASE UNCHANGED vars
  BY <1>12 DEF vars, masterVars, workerVars
<1> QED
  BY <1>1, <1>2, <1>3, <1>4, <1>5, <1>6, <1>7, <1>8, <1>9, <1>10, <1>11, <1>12, StepKinds

\* m_children is always exactly the set of processes forked and not yet waited
\* for.
THEOREM TableCorrect == Spec => []TableExact
<1>1. Init => TableExact
  BY DEF Init, TableExact
<1> QED
  BY <1>1, TableStep, TypeInvariant, PTL DEF Spec

\* A fork adds one worker, below one of the two limits.
LEMMA PoolStep == TypeInv /\ PoolBound /\ [Next]_vars => PoolBound'
<1> SUFFICES ASSUME TypeOK, PoolBound, [Next]_vars PROVE PoolBound'
  BY DEF TypeInv
<1>1. IsFiniteSet(children) /\ Cardinality(children) \in Nat
  BY PreforkAssumption, FS_Subset, FS_CardinalityType DEF TypeOK
<1>2. ASSUME children' \subseteq children PROVE PoolBound'
  <2>1. Cardinality(children') <= Cardinality(children) /\ Cardinality(children') \in Nat
    BY <1>1, <1>2, FS_Subset, FS_CardinalityType
  <2> QED
    BY <1>1, <2>1, PreforkAssumption DEF PoolBound, Larger
<1>3. CASE (Fill \/ Grow) /\ Spawn
  <2> PICK p \in Pids : NewChild(p)
    BY <1>3 DEF Spawn
  <2>1. Cardinality(children') <= Cardinality(children) + 1 /\ Cardinality(children') \in Nat
    <3>1. children' = children \cup {p}
      BY DEF NewChild
    <3>2. Cardinality(children \cup {p})
            = IF p \in children THEN Cardinality(children) ELSE Cardinality(children) + 1
      BY <1>1, FS_AddElement
    <3> QED
      BY <1>1, <3>1, <3>2
  <2>2. Cardinality(children) < MaxSpare \/ Cardinality(children) < MaxChildren
    BY <1>3 DEF Fill, Grow, TooFew, HasRoom
  <2> QED
    BY <1>1, <2>1, <2>2, PreforkAssumption DEF PoolBound, Larger
<1>4. CASE ~((Fill \/ Grow) /\ Spawn)
  <2>1. children' \subseteq children
    <3>1. CASE ControlStep
      BY <3>1, ControlFrame
    <3>2. CASE SpawnFails \/ RecvByte \/ RecvEof
      BY <3>2 DEF SpawnFails, RecvByte, RecvEof
    <3>3. CASE \E p \in Zombies : Erase(p)
      BY <3>3 DEF Erase, Forget
    <3>4. CASE Shrink \/ CloseAll \/ Kill \/ MasterDies
      BY <3>4 DEF Shrink, CloseAll, Kill, MasterDies
    <3>5. CASE \E p \in Pids : WorkerNext(p)
      BY <3>5, WorkerFrame DEF masterVars
    <3>6. CASE \E c \in Conns : Arrive(c)
      BY <3>6 DEF Arrive, masterVars
    <3>7. CASE UNCHANGED vars
      BY <3>7 DEF vars, masterVars
    <3> QED
      BY <1>4, <3>1, <3>2, <3>3, <3>4, <3>5, <3>6, <3>7, StepKinds
  <2> QED
    BY <1>2, <2>1
<1> QED
  BY <1>3, <1>4

LEMMA PoolInit == Init => PoolBound
BY FS_EmptySet, PreforkAssumption DEF Init, PoolBound, Larger

\* The pool never exceeds the larger of max_spare and max_children, for any
\* values of the two.
THEOREM PoolBounded == Spec => []PoolBound
BY PoolInit, PoolStep, TypeInvariant, PTL DEF Spec

-----------------------------------------------------------------------------
(* The socketpairs *)

(***************************************************************************)
(* Only a worker of the table has an open descriptor, only an open one has *)
(* bytes to read, and the scan visits only open ones.                      *)
(***************************************************************************)
EndsInv ==
  /\ \A p \in Pids : file[p] => p \in children
  /\ \A p \in Pids : chan[p] # <<>> => file[p]
  /\ mpc = "scan" => todo \subseteq OpenEnds

\* Closing and erasing go together, and a byte is queued on open ends only.
LEMMA EndsStep == TypeInv /\ EndsInv /\ [Next]_vars => EndsInv'
<1> SUFFICES ASSUME TypeOK, EndsInv, [Next]_vars PROVE EndsInv'
  BY DEF TypeInv
<1> USE DEF EndsInv, OpenEnds
<1>1. CASE ControlStep
  <2>1. UNCHANGED <<children, file, chan>>
    BY <1>1, ControlFrame DEF workerVars
  <2>2. mpc' = "scan" => todo' \subseteq OpenEnds \/ (mpc = "scan" /\ todo' = todo)
    <3>1. CASE Select
      BY <3>1 DEF Select, Readable
    <3>2. CASE HupHandler
      BY <3>2 DEF HupHandler
    <3>3. CASE ~Select /\ ~HupHandler
      BY <1>1, <3>3 DEF ControlStep, Top, FillDone, SelectFails, ScanDone, ReapDone, Adjust,
                        GrowDone, ShrinkDone, CloseDone, WaitDone, WaitInterrupted, KillDone,
                        MGoto, Break
    <3> QED
      BY <3>1, <3>2, <3>3
  <2> QED
    BY <2>1, <2>2
<1>2. CASE (Fill \/ Grow) /\ Spawn
  <2> PICK p \in Pids : NewChild(p)
    BY <1>2 DEF Spawn
  <2>1. UNCHANGED chan /\ mpc' # "scan"
    BY <1>2 DEF Spawn, Fill, Grow
  <2> QED
    BY <2>1 DEF NewChild, TypeOK
<1>3. CASE (Fill \/ Grow) /\ SpawnFails
  BY <1>3 DEF Fill, Grow, SpawnFails, workerVars
<1>4. CASE RecvByte
  BY <1>4 DEF RecvByte, TypeOK
<1>5. CASE RecvEof
  BY <1>5 DEF RecvEof, CloseFile, workerVars, TypeOK
<1>6. CASE (Reap \/ WaitReap) /\ \E p \in Zombies : Erase(p)
  <2> PICK p \in Zombies : Erase(p)
    BY <1>6
  <2>1. mpc' # "scan"
    BY <1>6 DEF Reap, WaitReap
  <2>2. children' = children \ {p} /\ file' = [file EXCEPT ![p] = FALSE]
        /\ chan' = [chan EXCEPT ![p] = <<>>]
    BY DEF Erase, Forget, CloseFile
  <2> QED
    BY <2>1, <2>2 DEF TypeOK
<1>7. CASE Shrink
  BY <1>7 DEF Shrink, CloseEnd, CloseFile, TypeOK
<1>8. CASE CloseAll
  BY <1>8 DEF CloseAll, CloseEnd, CloseFile, TypeOK
<1>9. CASE Kill
  BY <1>9 DEF Kill
<1>10. ASSUME NEW p \in Pids, WorkerNext(p) PROVE EndsInv'
  <2>1. UNCHANGED <<children, file, mpc, todo>> /\ \A q \in Pids \ {p} : chan'[q] = chan[q]
    BY <1>10, WorkerFrame DEF masterVars
  <2>2. chan'[p] # <<>> => chan[p] # <<>> \/ file[p]
    BY <1>10 DEF WorkerNext, WorkerCode, ClientStep, Boot, InitPython, SelectQuit, SelectListen,
                 Accept, AcceptMisses, TellBusy, ReportFree, Exit, Sigint, Sigkill, ReadParams, ClientGone,
                 Serve, Crash, Die, Send, SigintBorn, SigintBoot, SigintSelect, SigintRead,
                 SigintFlag, envVars
  <2> QED
    BY <2>1, <2>2
<1>11. CASE \E c \in Conns : Arrive(c)
  BY <1>11 DEF Arrive, masterVars, workerVars
<1>12. CASE MasterDies
  BY <1>12 DEF MasterDies
<1>13. CASE UNCHANGED vars
  BY <1>13 DEF vars, masterVars, workerVars
<1> QED
  BY <1>1, <1>2, <1>3, <1>4, <1>5, <1>6, <1>7, <1>8, <1>9, <1>10, <1>11, <1>12, <1>13, StepKinds

\* The descriptor of an entry is closed once, whatever ends it.
LEMMA FdsStep ==
  TypeInv /\ TableExact /\ EndsInv /\ FdsAccounted /\ [Next]_vars => FdsAccounted'
<1> SUFFICES ASSUME TypeOK, TableExact, EndsInv, FdsAccounted, [Next]_vars PROVE FdsAccounted'
  BY DEF TypeInv
<1>1. IsFiniteSet(OpenEnds) /\ Cardinality(OpenEnds) \in Nat /\ forkFails \in Nat
  <2>1. OpenEnds \in SUBSET Pids
    BY DEF OpenEnds, TypeOK
  <2>2. IsFiniteSet(OpenEnds)
    BY <2>1, PreforkAssumption, FS_Subset
  <2>3. forkFails \in Nat
    BY PreforkAssumption DEF TypeOK
  <2> QED
    BY <2>2, <2>3, FS_CardinalityType
<1>2. OpenEnds = {p \in Pids : file[p]}
  BY DEF OpenEnds, EndsInv, TypeOK
\* the entries' descriptors, the failed forks and the master's life unchanged
<1>3. ASSUME OpenEnds' = OpenEnds, forkFails' = forkFails, fds' = fds, mpc' # "dead" => mpc # "dead"
      PROVE  FdsAccounted'
  BY <1>3 DEF FdsAccounted
\* one entry closed, if it was open
<1>4. ASSUME NEW p \in Pids, CloseFile(p), OpenEnds' = OpenEnds \ {p}, forkFails' = forkFails,
             mpc # "dead"
      PROVE  FdsAccounted'
  <2>1. p \in OpenEnds <=> file[p]
    BY <1>2
  <2>2. Cardinality(OpenEnds \ {p})
          = IF p \in OpenEnds THEN Cardinality(OpenEnds) - 1 ELSE Cardinality(OpenEnds)
    BY <1>1, FS_RemoveElement
  <2>3. fds' = IF file[p] THEN fds - 1 ELSE fds
    BY <1>4 DEF CloseFile
  <2> QED
    BY <1>1, <1>4, <2>1, <2>2, <2>3 DEF FdsAccounted, TypeOK
<1>5. CASE ControlStep
  <2>1. UNCHANGED <<children, file, fds, forkFails>>
    BY <1>5, ControlFrame DEF envVars
  <2>2. mpc # "dead"
    BY <1>5 DEF ControlStep, Top, FillDone, Select, SelectFails, ScanDone, ReapDone, Adjust,
                GrowDone, ShrinkDone, CloseDone, WaitDone, WaitInterrupted, KillDone, HupHandler
  <2> QED
    BY <1>3, <2>1, <2>2 DEF OpenEnds
<1>6. CASE (Fill \/ Grow) /\ Spawn
  <2> PICK p \in Pids : wpc[p] = "none" /\ NewChild(p)
    BY <1>6 DEF Spawn
  <2>1. p \notin OpenEnds
    BY DEF TableExact, OpenEnds
  <2>2. OpenEnds' = OpenEnds \cup {p}
    BY DEF NewChild, OpenEnds, TypeOK
  <2>3. Cardinality(OpenEnds \cup {p}) = Cardinality(OpenEnds) + 1
    BY <1>1, <2>1, FS_AddElement
  <2>4. mpc # "dead" /\ fds' = fds + 1 /\ forkFails' = forkFails
    BY <1>6 DEF Fill, Grow, Spawn, envVars
  <2> QED
    BY <1>1, <2>2, <2>3, <2>4 DEF FdsAccounted, TypeOK
<1>7. CASE (Fill \/ Grow) /\ SpawnFails
  <2>1. mpc # "dead"
    BY <1>7 DEF Fill, Grow
  <2>2. OpenEnds' = OpenEnds /\ fds' = fds + 2 /\ forkFails' = forkFails + 1
    BY <1>7 DEF SpawnFails, OpenEnds
  <2> QED
    BY <1>1, <2>1, <2>2 DEF FdsAccounted, TypeOK
<1>8. CASE RecvByte
  BY <1>3, <1>8 DEF RecvByte, OpenEnds, envVars
<1>9. CASE RecvEof
  <2> PICK p \in todo : CloseFile(p)
    BY <1>9 DEF RecvEof
  <2>1. OpenEnds' = OpenEnds \ {p}
    BY <1>9 DEF RecvEof, CloseFile, OpenEnds, TypeOK
  <2>2. forkFails' = forkFails /\ mpc # "dead" /\ p \in Pids
    BY <1>9 DEF RecvEof, envVars, TypeOK
  <2> QED
    BY <1>4, <2>1, <2>2
<1>10. CASE (Reap \/ WaitReap) /\ \E p \in Zombies : Erase(p)
  <2> PICK p \in Zombies : Erase(p)
    BY <1>10
  <2>1. CloseFile(p) /\ OpenEnds' = OpenEnds \ {p}
    BY DEF Erase, Forget, CloseFile, OpenEnds, Zombies, TypeOK
  <2>2. forkFails' = forkFails /\ mpc # "dead" /\ p \in Pids
    BY <1>10 DEF Erase, Reap, WaitReap, envVars, Zombies
  <2> QED
    BY <1>4, <2>1, <2>2
<1>11. CASE Shrink
  <2> PICK p \in AvailKids : CloseEnd(p)
    BY <1>11 DEF Shrink
  <2>1. CloseFile(p) /\ p \in Pids
    BY DEF CloseEnd, AvailKids, TypeOK
  <2>2. OpenEnds' = OpenEnds \ {p}
    BY <1>11, <2>1 DEF Shrink, CloseFile, OpenEnds, TypeOK
  <2>3. forkFails' = forkFails /\ mpc # "dead"
    BY <1>11 DEF Shrink, envVars
  <2> QED
    BY <1>4, <2>1, <2>2, <2>3
<1>12. CASE CloseAll
  <2> PICK p \in todo : CloseEnd(p)
    BY <1>12 DEF CloseAll
  <2>1. CloseFile(p) /\ p \in Pids
    BY DEF CloseEnd, TypeOK
  <2>2. OpenEnds' = OpenEnds \ {p}
    BY <1>12, <2>1 DEF CloseAll, CloseFile, OpenEnds, TypeOK
  <2>3. forkFails' = forkFails /\ mpc # "dead"
    BY <1>12 DEF CloseAll, envVars
  <2> QED
    BY <1>4, <2>1, <2>2, <2>3
<1>13. CASE Kill
  BY <1>3, <1>13 DEF Kill, OpenEnds, envVars
<1>14. CASE \E p \in Pids : WorkerNext(p)
  BY <1>3, <1>14, WorkerFrame DEF masterVars, OpenEnds
<1>15. CASE \E c \in Conns : Arrive(c)
  BY <1>3, <1>15 DEF Arrive, masterVars, OpenEnds
<1>16. CASE MasterDies
  BY <1>16 DEF MasterDies, FdsAccounted
<1>17. CASE UNCHANGED vars
  BY <1>3, <1>17 DEF vars, masterVars, envVars, OpenEnds
<1> QED
  BY <1>5, <1>6, <1>7, <1>8, <1>9, <1>10, <1>11, <1>12, <1>13, <1>14, <1>15, <1>16, <1>17,
     StepKinds

LEMMA EndsInit == Init => EndsInv /\ TableExact
BY DEF Init, EndsInv, TableExact

\* The master's descriptors are the open entries of m_children and two for each
\* failed fork: none is closed twice, and no other is leaked.
THEOREM FdsCorrect == Spec => []FdsAccounted
<1>1. Init => FdsAccounted
  BY FS_EmptySet DEF Init, FdsAccounted, OpenEnds
<1> QED
  BY <1>1, EndsInit, FdsStep, EndsStep, TableStep, TypeInvariant, PTL DEF Spec

\* While the server runs, the workers that the pool's size is judged by are ones
\* the master has not let go: none counts as spare whose end is closed.
SparesAreOpen == ~Stopping => \A p \in children : avail[p] => file[p]

\* Only what the loops of run() look at counts: a worker's entry is made open and
\* available, its byte is read while it is open, and whatever closes it in these
\* loops marks it unavailable too.
LEMMA SparesStep == TypeInv /\ EndsInv /\ SparesAreOpen /\ [Next]_vars => SparesAreOpen'
<1> SUFFICES ASSUME TypeOK, EndsInv, SparesAreOpen, [Next]_vars, ~Stopping' PROVE SparesAreOpen'
  BY DEF TypeInv, SparesAreOpen
<1>0. ~Stopping
  BY StepKinds, WorkerFrame DEF Stopping, masterVars, ControlStep, Top, FillDone, Select, SelectFails, ScanDone,
     ReapDone, Adjust, GrowDone, ShrinkDone, CloseDone, WaitDone, WaitInterrupted, KillDone,
     HupHandler, MGoto, Break, Fill, Grow, RecvByte, RecvEof, Reap, WaitReap, Shrink, CloseAll,
     Kill, Arrive, MasterDies, vars
<1>1. \A p \in children : avail[p] => file[p]
  BY <1>0 DEF SparesAreOpen
<1> SUFFICES \A p \in children' : avail'[p] => file'[p]
  BY DEF SparesAreOpen
<1>2. CASE ControlStep
  BY <1>1, <1>2, ControlFrame
<1>3. CASE Spawn
  BY <1>1, <1>3 DEF Spawn, NewChild, TypeOK
<1>4. CASE RecvByte
  <2> PICK p \in todo : avail' = [avail EXCEPT ![p] = SaysAvail(Head(chan[p]))]
    BY <1>4 DEF RecvByte
  <2>1. mpc = "scan" /\ UNCHANGED <<children, file>> /\ file[p]
    BY <1>4 DEF RecvByte, EndsInv, OpenEnds
  <2> QED
    BY <1>1, <2>1 DEF TypeOK
<1>5. CASE RecvEof
  BY <1>1, <1>5 DEF RecvEof, CloseFile, TypeOK
<1>6. CASE \E p \in Zombies : Erase(p)
  BY <1>1, <1>6 DEF Erase, Forget, CloseFile, Zombies, TypeOK
<1>7. CASE Shrink
  BY <1>1, <1>7 DEF Shrink, CloseEnd, CloseFile, AvailKids, TypeOK
<1>8. CASE CloseAll \/ MasterDies
  BY <1>0, <1>8 DEF CloseAll, MasterDies, Stopping
<1>9. CASE \E p \in Pids : WorkerNext(p)
  BY <1>1, <1>9, WorkerFrame DEF masterVars
<1>10. CASE SpawnFails \/ Kill \/ (\E c \in Conns : Arrive(c)) \/ UNCHANGED vars
  BY <1>1, <1>10 DEF SpawnFails, Kill, Arrive, vars, masterVars
<1> QED
  BY <1>2, <1>3, <1>4, <1>5, <1>6, <1>7, <1>8, <1>9, <1>10, StepKinds

\* The size of the pool is judged by workers whose end is open.
THEOREM SparesCounted == Spec => []SparesAreOpen
<1>1. Init => EndsInv /\ SparesAreOpen
  BY EndsInit DEF Init, SparesAreOpen
<1> QED
  BY <1>1, EndsStep, SparesStep, TypeInvariant, PTL DEF Spec
=============================================================================
