---------------------------- MODULE ServerProofs ----------------------------
(***************************************************************************)
(* What the program is from outside: the prefork server implements         *)
(* RequestService, and the program started by main() is the prefork server *)
(* with the values it was configured with.                                 *)
(***************************************************************************)
EXTENDS PreforkRequestProofs, PreforkStopProofs, Server

-----------------------------------------------------------------------------
(* The service *)

\* A worker that is about to take a connection holds none, so the ones in work
\* are fewer than the workers.
LEMMA RoomToTake ==
  ASSUME TypeOK, TableExact, PoolBound, ConnsOwned, NEW p \in Pids, wpc[p] = "accept"
  PROVE  Cardinality(Service!Taken) < Larger(MaxSpare, MaxChildren)
<1> DEFINE Holders == {q \in Pids : cur[q] # NoConn}
           f == [q \in Holders |-> cur[q]]
<1>1. IsFiniteSet(children) /\ Cardinality(children) \in Nat
  BY PreforkAssumption, FS_Subset, FS_CardinalityType DEF TypeOK
<1>2. p \in children /\ Holders \subseteq children \ {p}
  BY DEF ConnsOwned, TableExact
<1>3. IsFiniteSet(children \ {p}) /\ Cardinality(children \ {p}) = Cardinality(children) - 1
  BY <1>1, <1>2, FS_RemoveElement
<1>4. IsFiniteSet(Holders) /\ Cardinality(Holders) <= Cardinality(children \ {p})
      /\ Cardinality(Holders) \in Nat
  <2>1. IsFiniteSet(Holders) /\ Cardinality(Holders) <= Cardinality(children \ {p})
    BY <1>2, <1>3, FS_Subset
  <2> QED
    BY <2>1, FS_CardinalityType
<1>5. Service!Taken = {cur[q] : q \in Holders}
  <2>1. \A c \in Conns : conn[c] = "taken" <=> \E q \in Pids : cur[q] = c
    BY DEF ConnsOwned
  <2>2. NoConn \notin Conns /\ \A q \in Pids : cur[q] \in Conns \cup {NoConn}
    BY PreforkAssumption DEF TypeOK
  <2> QED
    BY <2>1, <2>2 DEF Service!Taken
<1>6. IsFiniteSet(Service!Taken) /\ Cardinality(Service!Taken) <= Cardinality(Holders)
  <2>1. f \in Surjection(Holders, Service!Taken)
    BY <1>5 DEF Surjection
  <2> QED
    BY <1>4, <2>1, FS_Surjection
<1>7. Cardinality(Service!Taken) \in Nat
  BY <1>6, FS_CardinalityType
<1> QED
  BY <1>1, <1>3, <1>4, <1>6, <1>7, PreforkAssumption DEF PoolBound, Larger

\* A process that runs holds back the end of the service; one that ends finishes
\* the connection it holds, or nothing, and may be the last.
LEMMA RunningPhase ==
  ASSUME NEW p \in Pids, Alive(p), Alive(p)', mpc' = mpc
  PROVE  Phase' = Phase /\ Phase # "stopped"
  BY DEF Phase, Stopping

LEMMA DieFinishes ==
  ASSUME TypeOK, ConnsOwned, NEW p \in Pids, Alive(p), Die(p), mpc' = mpc
  PROVE  [Service!SNext]_<<Phase, conn>>
<1>1. conn' = [c \in Conns |-> IF c = cur[p] THEN "dropped" ELSE conn[c]]
  BY DEF Die
<1>2. \/ Phase' = Phase
      \/ Phase = "stopping" /\ Phase' = "stopped" /\ \A q \in Pids \ {p} : ~Alive(q)
  <2>1. \A q \in Pids \ {p} : Alive(q)' = Alive(q)
    BY DEF Die, Alive, TypeOK
  <2> QED
    BY <2>1, Zenon DEF Phase, Stopping
<1>3. (\A q \in Pids \ {p} : ~Alive(q)) => \A c \in Service!Taken : c = cur[p]
  BY PreforkAssumption DEF Service!Taken, ConnsOwned, Alive
<1>4. CASE cur[p] = NoConn
  <2>1. conn' = conn
    BY <1>1, <1>4, PreforkAssumption DEF TypeOK
  <2>2. (\A q \in Pids \ {p} : ~Alive(q)) => Service!Taken = {}
    BY <1>3, <1>4, PreforkAssumption DEF Service!Taken
  <2> QED
    BY <1>2, <2>1, <2>2 DEF Service!Stopped, Service!SNext
<1>5. CASE cur[p] # NoConn
  <2>1. cur[p] \in Conns /\ conn[cur[p]] = "taken"
    BY <1>5 DEF TypeOK, ConnsOwned
  <2>2. conn' = [conn EXCEPT ![cur[p]] = "dropped"]
    BY <1>1, <2>1 DEF TypeOK
  <2>3. (\A q \in Pids \ {p} : ~Alive(q)) => Service!Taken = {cur[p]}
    BY <1>3, <2>1 DEF Service!Taken
  <2>4. Service!Finish(cur[p])
    BY <1>2, <2>1, <2>2, <2>3 DEF Service!Finish
  <2> QED
    BY <2>1, <2>4 DEF Service!SNext
<1> QED
  BY <1>4, <1>5

\* A worker takes a connection, finishes the one it took, or does nothing the
\* service knows of.
LEMMA ServiceWorker ==
  ASSUME TypeOK, TableExact, PoolBound, ConnsOwned, NEW p \in Pids, WorkerNext(p)
  PROVE  [Service!SNext]_<<Phase, conn>>
<1>0. mpc' = mpc /\ Alive(p)
  BY WorkerFrame DEF masterVars, Alive
<1>1. Alive(p)' => Phase' = Phase /\ Phase # "stopped"
  BY <1>0, RunningPhase
<1>2. CASE Alive(p)' /\ conn' = conn
  BY <1>1, <1>2
<1>3. CASE Accept(p)
  <2> PICK c \in Queued : conn' = [conn EXCEPT ![c] = "taken"]
    BY <1>3 DEF Accept
  <2>1. wpc[p] = "accept" /\ conn[c] = "queued" /\ c \in Conns
    BY <1>3 DEF Accept, Queued
  <2>2. Phase' = Phase /\ Phase # "stopped"
    BY <1>1, <1>3 DEF Accept, Goto, Alive, TypeOK
  <2>3. Service!Take(c)
    <3>1. Cardinality(Service!Taken) < Larger(MaxSpare, MaxChildren)
      BY <2>1, RoomToTake
    <3>2. Service!Cardinality(Service!Taken) = Cardinality(Service!Taken)
      BY DEF Cardinality, Service!Cardinality
    <3> QED
      BY <2>1, <2>2, <3>1, <3>2 DEF Service!Take
  <2> QED
    BY <2>1, <2>3 DEF Service!SNext
<1>4. CASE Serve(p) \/ ClientGone(p) \/ SigintRead(p)
  <2>1. cur[p] \in Conns /\ conn[cur[p]] = "taken"
    BY <1>4 DEF Serve, ClientGone, SigintRead, ConnsOwned, TypeOK
  <2>2. \E fate \in {"served", "dropped"} : conn' = [conn EXCEPT ![cur[p]] = fate]
    BY <1>4 DEF Serve, ClientGone, SigintRead, LoseClient
  <2>3. Phase' = Phase
    BY <1>1, <1>4 DEF Serve, ClientGone, SigintRead, LoseClient, Goto, Alive, TypeOK
  <2>4. Service!Finish(cur[p])
    BY <2>1, <2>2, <2>3 DEF Service!Finish
  <2> QED
    BY <2>1, <2>4 DEF Service!SNext
<1>5. CASE Die(p)
  BY <1>0, <1>5, DieFinishes
<1>6. CASE Boot(p) \/ InitPython(p) \/ SelectQuit(p) \/ SelectListen(p) \/ AcceptMisses(p)
           \/ ReadParams(p) \/ TellBusy(p) \/ ReportFree(p)
  <2>1. conn' = conn /\ Alive(p)'
    BY <1>6 DEF Boot, InitPython, SelectQuit, SelectListen, AcceptMisses, ReadParams, TellBusy,
                ReportFree, NextTurn, Goto, Alive, envVars, TypeOK
  <2> QED
    BY <1>2, <2>1
<1>7. CASE SigintBorn(p) \/ SigintSelect(p) \/ SigintFlag(p)
  <2>1. conn' = conn /\ Alive(p)'
    BY <1>0, <1>7 DEF SigintBorn, SigintSelect, SigintFlag, Goto, Alive, envVars, TypeOK
  <2> QED
    BY <1>2, <2>1
<1> QED
  BY <1>3, <1>4, <1>5, <1>6, <1>7
     DEF WorkerNext, WorkerCode, ClientStep, Exit, Sigint, Sigkill, Crash, SigintBoot

\* Every step of the server is a step of the service or hidden from it.
LEMMA ServiceStep ==
  TypeInv /\ TableExact /\ PoolBound /\ ConnsOwned /\ [Next]_vars
    => [Service!SNext]_<<Phase, conn>>
<1> SUFFICES ASSUME TypeOK, TableExact, PoolBound, ConnsOwned, [Next]_vars
             PROVE  [Service!SNext]_<<Phase, conn>>
  BY DEF TypeInv
<1>1. CASE ControlStep
  <2>1. conn' = conn
    BY <1>1, ControlFrame DEF envVars
  <2>2. CASE KillDone
    <3>1. Phase = "stopping" /\ Phase' = IF \A p \in Pids : ~Alive(p) THEN "stopped" ELSE "stopping"
      BY <2>2 DEF KillDone, MGoto, Phase, Stopping, workerVars, Alive
    <3>2. (\A p \in Pids : ~Alive(p)) => Service!Taken = {}
      BY PreforkAssumption DEF Service!Taken, ConnsOwned, Alive
    <3> QED
      BY <2>1, <3>1, <3>2 DEF Service!Stopped, Service!SNext
  <2>3. CASE Break /\ (Top \/ SelectFails \/ Adjust)
    <3>1. Phase = "running" /\ Phase' = "stopping"
      BY <2>3 DEF Top, SelectFails, Adjust, Break, MGoto, Phase, Stopping
    <3> QED
      BY <2>1, <3>1 DEF Service!Stop, Service!SNext
  <2>4. CASE ~Break /\ ~KillDone
    <3>1. Phase' = Phase
      BY <1>1, <2>4 DEF ControlStep, Top, FillDone, Select, SelectFails, ScanDone, ReapDone, Adjust,
         GrowDone, ShrinkDone, CloseDone, WaitDone, WaitInterrupted, HupHandler, MGoto, Phase, Stopping
    <3> QED
      BY <2>1, <3>1
  <2> QED
    BY <1>1, <2>2, <2>3, <2>4 DEF ControlStep, FillDone, Select, ScanDone, ReapDone, GrowDone,
       ShrinkDone, CloseDone, WaitDone, WaitInterrupted, HupHandler, Break, MGoto
<1>2. CASE (Fill \/ Grow) /\ (Spawn \/ SpawnFails)
  BY <1>2 DEF Fill, Grow, Spawn, SpawnFails, envVars, Phase, Stopping
<1>3. CASE RecvByte \/ RecvEof \/ Shrink \/ CloseAll
  BY <1>3 DEF RecvByte, RecvEof, Shrink, CloseAll, envVars, Phase, Stopping
<1>4. CASE (Reap \/ WaitReap) /\ \E p \in Zombies : Erase(p)
  BY <1>4 DEF Reap, WaitReap, Erase, envVars, Phase, Stopping
<1>5. CASE Kill
  BY <1>5 DEF Kill, envVars, Phase, Stopping
<1>6. CASE \E p \in Pids : WorkerNext(p)
  BY <1>6, ServiceWorker
<1>7. CASE \E c \in Conns : Arrive(c)
  <2> PICK c \in Conns : Arrive(c)
    BY <1>7
  <2>1. Phase' = Phase /\ Phase # "stopped"
    BY DEF Arrive, masterVars, workerVars, Phase, Stopping, Alive
  <2>2. Service!Connect(c)
    BY <2>1 DEF Arrive, Service!Connect
  <2> QED
    BY <2>2 DEF Service!SNext
<1>8. CASE MasterDies
  <2>1. conn' = conn /\ Phase' = "stopping" /\ Phase \in {"running", "stopping"}
    BY <1>8 DEF MasterDies, envVars, Phase, Stopping
  <2> QED
    BY <2>1 DEF Service!Stop, Service!SNext
<1>9. CASE UNCHANGED vars
  BY <1>9 DEF vars, masterVars, workerVars, envVars, Phase, Stopping, Alive
<1> QED
  BY <1>1, <1>2, <1>3, <1>4, <1>5, <1>6, <1>7, <1>8, <1>9, StepKinds

\* Master and workers together implement the service: at most
\* max(max_spare, max_children) connections are in work, each is taken once, and
\* when run() has returned and the last worker has ended none is left in work.
THEOREM Implementation == Spec => ImplementsService
<1>1. Init => Service!SInit
  BY DEF Init, Service!SInit, Phase, Stopping
<1>2. Init => TypeInv /\ TableExact /\ PoolBound /\ ConnsOwned
  BY TypeInit, PoolInit, ConnsInit DEF Init, TableExact
<1>3. TypeInv /\ TableExact /\ PoolBound /\ ConnsOwned /\ [Next]_vars
        => (TableExact /\ PoolBound /\ ConnsOwned)'
  BY TableStep, PoolStep, ConnsStep
<1> QED
  BY <1>1, <1>2, <1>3, ServiceStep, TypeInvariant, PTL
     DEF Spec, ImplementsService, Service!SSpec, Service!svars

-----------------------------------------------------------------------------
(* The program *)

\* The checks of main() leave only values for which the server is proved
\* correct: if any file can be accepted, the constants are in the ranges that
\* PreforkAssumption asks for, whatever options the file leaves out.
THEOREM ChecksSuffice ==
  ASSUME NEW f \in ConfigFiles, Accepted(f)
  PROVE  /\ MinSpare \in 1 .. 100
         /\ MaxSpare \in 1 .. 100
         /\ MaxChildren \in 1 .. 100
         /\ MaxRequests \in 0 .. 1024
         /\ MaxExecTime \in 0 .. 3600
<1>1. \A k \in Keys : Value(f, k) \in Nat /\ Value(f, k) = PoolValues[k]
  BY StartupAssumption DEF Value, Default
<1>2. /\ PoolValues["min_spare"] = MinSpare
      /\ PoolValues["max_spare"] = MaxSpare
      /\ PoolValues["max_children"] = MaxChildren
      /\ PoolValues["max_requests"] = MaxRequests
      /\ PoolValues["max_execute_time"] = MaxExecTime
  BY DEF PoolValues, Keys
<1>3. /\ Value(f, "min_spare") = MinSpare
      /\ Value(f, "max_spare") = MaxSpare
      /\ Value(f, "max_children") = MaxChildren
      /\ Value(f, "max_requests") = MaxRequests
      /\ Value(f, "max_execute_time") = MaxExecTime
  BY <1>1, <1>2 DEF Keys
<1>4. MaxRequests \in Nat /\ MaxExecTime \in Nat
  BY <1>1, <1>3 DEF Keys
<1>5. MaxRequests <= 1024 /\ MaxExecTime <= 3600
  BY <1>3 DEF Accepted
<1> QED
  BY <1>3, <1>4, <1>5 DEF Accepted

\* A step of the program is a step of the prefork server or leaves it alone: a
\* client may be queued and a signal noted before the loop, nothing else.
LEMMA ServerStep == [ServerNext]_serverVars => [Next]_vars
<1> SUFFICES ASSUME [ServerNext]_serverVars PROVE [Next]_vars
  OBVIOUS
<1>1. CASE Starting \/ KilledEarly \/ MainReturns \/ Rest
  BY <1>1 DEF Starting, KilledEarly, MainReturns, Rest, serverVars
<1>2. CASE EnterLoop
  BY <1>2 DEF EnterLoop, StartLoop, vars, masterVars
<1>3. CASE HupEarly
  BY <1>3 DEF HupEarly, Next, MasterNext
<1>4. CASE \E c \in Conns : ArriveEarly(c)
  BY <1>4 DEF ArriveEarly, Next
<1>5. CASE Next /\ Up
  BY <1>5
<1>6. CASE UNCHANGED serverVars
  BY <1>6 DEF serverVars
<1> QED
  BY <1>1, <1>2, <1>3, <1>4, <1>5, <1>6 DEF ServerNext

\* However main() starts it, the program is the prefork server.
THEOREM StartupCorrect == ServerSpec => RunsPrefork
<1>1. ServerInit => Init
  BY DEF ServerInit
<1> QED
  BY <1>1, ServerStep, PTL DEF ServerSpec, ServerSafety, RunsPrefork, Spec

\* So what was proved of the prefork server holds of the program, from its first
\* instruction on.
THEOREM ProgramCorrect ==
  ServerSpec =>
    /\ ImplementsService /\ WorkersTakeTurns /\ RequestsKept
    /\ [](TypeOK /\ TableExact /\ PoolBound /\ FdsAccounted /\ SparesAreOpen)
    /\ [](ConnsOwned /\ BeliefTracks /\ BytesAlternate)
    /\ [](AskedFirst /\ OnlyBirthDelays /\ ForkedLateLeave /\ NoOrphans)
<1>1. ServerSpec => Spec
  BY StartupCorrect DEF RunsPrefork
<1> QED
  BY <1>1, Implementation, TurnsTaken, TypeCorrect, TableCorrect, PoolBounded, FdsCorrect,
     SparesCounted, ConnsCorrect, BeliefCorrect, BytesCorrect, AskedBeforeForced, NoCircularWait,
     LateForksLeave, NoOrphansLeft, RequestsSurvive, PTL

-----------------------------------------------------------------------------
(* The start *)

(***************************************************************************)
(* From the check on, the configuration is one that passed it; and nothing *)
(* is forked before the loop.                                              *)
(***************************************************************************)
StartInv ==
  /\ config \in ConfigFiles \cup {Unreadable}
  /\ stage = "config" => config \in ConfigFiles
  /\ Listening \/ stage \in {"socket", "returned"} => config \in ConfigFiles /\ Accepted(config)
  /\ stage \notin {"up", "returned"} => children = {}

LEMMA StartStep == StartInv /\ [ServerNext]_serverVars => StartInv'
<1> SUFFICES ASSUME StartInv, [ServerNext]_serverVars PROVE StartInv'
  OBVIOUS
<1> USE DEF StartInv, Listening, Step
<1>1. CASE Starting
  BY <1>1 DEF Starting, StartCode, Usage, RefuseOptions, ConfigThrows, ReadConfig, RefuseConfig,
     AcceptConfig, BindFails, Listen, Foreground, Fork, ForkFails, InstallSignalHandlers,
     vars, masterVars
<1>2. CASE EnterLoop
  BY <1>2 DEF EnterLoop, StartLoop
<1>3. CASE KilledEarly
  BY <1>3 DEF KilledEarly, Killed, Unhandled, vars, masterVars
<1>4. CASE HupEarly \/ \E c \in Conns : ArriveEarly(c)
  <2>1. UNCHANGED <<children, startVars>>
    BY <1>4 DEF HupEarly, HupHandler, ArriveEarly, Arrive, masterVars
  <2> QED
    BY <2>1 DEF startVars
<1>5. CASE Next /\ Up
  BY <1>5 DEF Up, startVars
<1>6. CASE MainReturns
  BY <1>6 DEF MainReturns, vars, masterVars
<1>7. CASE Rest \/ UNCHANGED serverVars
  BY <1>7 DEF Rest, serverVars, startVars, vars, masterVars
<1> QED
  BY <1>1, <1>2, <1>3, <1>4, <1>5, <1>6, <1>7 DEF ServerNext

\* The program listens, and forks, only with a configuration whose values passed
\* every check.
CheckedFirst ==
  Listening \/ children # {} => config \in ConfigFiles /\ Accepted(config)

\* No configuration that fails a check is ever listened or forked with.
THEOREM CheckedBeforeUse == ServerSpec => []CheckedFirst
<1>1. ServerInit => StartInv
  BY DEF ServerInit, StartInit, Init, StartInv, Listening
<1>2. StartInv => CheckedFirst
  BY DEF StartInv, CheckedFirst, Listening
<1> QED
  BY <1>1, <1>2, StartStep, PTL DEF ServerSpec, ServerSafety

\* A signal that the handler noted is not forgotten, not even one that came
\* between the installation of the handlers and the loop.
SignalKept == hup => ~keepGoing

\* Nothing that the start or the server does sets g_keepGoing again once the
\* handler has cleared it.
LEMMA SignalStep == SignalKept /\ [ServerNext]_serverVars => SignalKept'
<1> SUFFICES ASSUME SignalKept, [ServerNext]_serverVars PROVE SignalKept'
  OBVIOUS
<1> USE DEF SignalKept
<1>1. CASE EnterLoop
  BY <1>1 DEF EnterLoop, StartLoop
<1>2. CASE HupEarly
  BY <1>2 DEF HupEarly, HupHandler
<1>3. CASE Starting \/ KilledEarly \/ MainReturns \/ Rest \/ UNCHANGED serverVars
  BY <1>3 DEF Starting, KilledEarly, MainReturns, Rest, serverVars, vars, masterVars
<1>4. CASE \E c \in Conns : ArriveEarly(c)
  BY <1>4 DEF ArriveEarly, Arrive, masterVars
<1>5. CASE Next
  <2>1. CASE HupHandler
    BY <2>1 DEF HupHandler
  <2>2. CASE RecvEof
    BY <2>2 DEF RecvEof, CountExit
  <2>3. CASE MasterCode /\ ~RecvEof
    BY <2>3 DEF MasterCode, Top, Fill, FillDone, Select, RecvByte, ScanDone, Reap, ReapDone, Adjust,
       Grow, GrowDone, Shrink, ShrinkDone, CloseAll, CloseDone, WaitReap, WaitDone, WaitInterrupted,
       Kill, KillDone, MGoto, Break, Spawn, SpawnFails, Erase
  <2>4. CASE SelectFails \/ MasterDies \/ Over \/ \E c \in Conns : Arrive(c)
    BY <2>4 DEF SelectFails, MasterDies, Over, Arrive, MGoto, Break, vars, masterVars
  <2>5. CASE \E p \in Pids : WorkerNext(p)
    BY <2>5 DEF WorkerNext, WorkerCode, ClientStep, Boot, InitPython, SelectQuit, SelectListen,
       Accept, AcceptMisses, TellBusy, ReportFree, Exit, Sigint, Sigkill, ReadParams, ClientGone, LoseClient,
       Serve, Crash, SigintBorn, SigintBoot, SigintSelect, SigintRead, SigintFlag, masterVars
  <2> QED
    BY <1>5, <2>1, <2>2, <2>3, <2>4, <2>5 DEF Next, MasterNext
<1> QED
  BY <1>1, <1>2, <1>3, <1>4, <1>5 DEF ServerNext

\* A signal is kept from the moment its handler runs.
THEOREM SignalsKept == ServerSpec => []SignalKept
<1>1. ServerInit => SignalKept
  BY DEF ServerInit, Init, SignalKept
<1> QED
  BY <1>1, SignalStep, PTL DEF ServerSpec, ServerSafety

\* From the command line to the process table: whatever the configuration file
\* says, the program never has more than a hundred workers, and more descriptors
\* than that only by the two that each failed fork costs.
THEOREM HundredWorkers ==
  ServerSpec => [](Cardinality(children) <= 100 /\ fds <= 100 + 2 * forkFails)
<1> DEFINE Few == Cardinality(children) <= 100
           FewFds == fds <= 100 + 2 * forkFails
           Dead == mpc = "dead" => fds = 0
<1>1. TypeOK /\ PoolBound /\ CheckedFirst => Few
  <2> SUFFICES ASSUME TypeOK, PoolBound, CheckedFirst PROVE Few
    OBVIOUS
  <2>1. CASE children = {}
    BY <2>1, FS_EmptySet
  <2>2. CASE children # {}
    <3>1. config \in ConfigFiles /\ Accepted(config)
      BY <2>2 DEF CheckedFirst
    <3>2. MaxSpare \in 1 .. 100 /\ MaxChildren \in 1 .. 100
      BY <3>1, ChecksSuffice
    <3>3. Cardinality(children) \in Nat
      BY PreforkAssumption, FS_Subset, FS_CardinalityType DEF TypeOK
    <3> QED
      BY <3>2, <3>3 DEF PoolBound, Larger
  <2> QED
    BY <2>1, <2>2
<1>2. TypeOK /\ Few /\ FdsAccounted /\ Dead => FewFds
  <2> SUFFICES ASSUME TypeOK, Few, FdsAccounted, Dead PROVE FewFds
    OBVIOUS
  <2>1. forkFails \in Nat
    BY PreforkAssumption DEF TypeOK
  <2>2. IsFiniteSet(children) /\ Cardinality(children) \in Nat
    BY PreforkAssumption, FS_Subset, FS_CardinalityType DEF TypeOK
  <2>3. Cardinality(OpenEnds) <= Cardinality(children) /\ Cardinality(OpenEnds) \in Nat
    BY <2>2, FS_Subset, FS_CardinalityType DEF OpenEnds
  <2> QED
    BY <2>1, <2>2, <2>3 DEF FdsAccounted
<1>3. TypeInv /\ Dead /\ [Next]_vars => Dead'
  <2> SUFFICES ASSUME TypeOK, Dead, [Next]_vars, mpc' = "dead" PROVE fds' = 0
    BY DEF TypeInv
  <2>1. CASE MasterDies
    BY <2>1 DEF MasterDies
  <2>2. CASE \E p \in Pids : WorkerNext(p)
    BY <2>2, WorkerFrame DEF masterVars
  <2>3. CASE (\E c \in Conns : Arrive(c)) \/ UNCHANGED vars
    BY <2>3 DEF Arrive, vars, masterVars
  <2>4. CASE ControlStep \/ Fill \/ Grow \/ RecvByte \/ RecvEof \/ Reap \/ WaitReap \/ Shrink
             \/ CloseAll \/ Kill
    BY <2>4 DEF ControlStep, Top, FillDone, Select, SelectFails, ScanDone, ReapDone, Adjust,
       GrowDone, ShrinkDone, CloseDone, WaitDone, WaitInterrupted, KillDone, HupHandler, MGoto,
       Break, Fill, Grow, RecvByte, RecvEof, Reap, WaitReap, Shrink, CloseAll, Kill
  <2> QED
    BY <2>1, <2>2, <2>3, <2>4, StepKinds
<1>4. Init => Dead
  BY DEF Init
<1>5. ServerSpec => Spec
  BY StartupCorrect DEF RunsPrefork
<1> QED
  BY <1>1, <1>2, <1>3, <1>4, <1>5, TypeInvariant, TypeCorrect, PoolBounded, FdsCorrect,
     CheckedBeforeUse, PTL DEF Spec

-----------------------------------------------------------------------------
(* The port *)

(***************************************************************************)
(* The server does nothing but wait for its loop before that begins, and   *)
(* main() returns only after run().                                        *)
(***************************************************************************)
PhaseInv ==
  /\ hup \/ ~keepGoing => stage \in {"ready", "up", "returned"}
  /\ mpc # "top" => stage \in {"up", "returned"}
  /\ stage = "returned" => mpc = "done"

\* A run() that has returned stays so.
LEMMA DoneStays == TypeOK /\ mpc = "done" /\ Next => mpc' = "done"
<1> SUFFICES ASSUME TypeOK, mpc = "done", Next PROVE mpc' = "done"
  OBVIOUS
<1>1. ~(MasterNext \/ MasterDies)
  BY DEF MasterNext, MasterCode, MasterDies, Top, Fill, FillDone, Select, SelectFails, RecvByte,
     RecvEof, ScanDone, Reap, ReapDone, Adjust, Grow, GrowDone, Shrink, ShrinkDone, CloseAll,
     CloseDone, WaitReap, WaitDone, WaitInterrupted, Kill, KillDone, HupHandler
<1>2. ASSUME NEW p \in Pids, WorkerNext(p) PROVE mpc' = mpc
  BY <1>2, WorkerFrame DEF masterVars
<1> QED
  BY <1>1, <1>2 DEF Next, Arrive, Over, vars, masterVars

LEMMA PhaseStep == TypeInv /\ PhaseInv /\ [ServerNext]_serverVars => PhaseInv'
<1> SUFFICES ASSUME TypeOK, PhaseInv, [ServerNext]_serverVars PROVE PhaseInv'
  BY DEF TypeInv
<1> USE DEF PhaseInv, Step
<1>1. CASE Starting
  BY <1>1 DEF Starting, StartCode, Usage, RefuseOptions, ConfigThrows, ReadConfig, RefuseConfig,
     AcceptConfig, BindFails, Listen, Foreground, Fork, ForkFails, InstallSignalHandlers,
     vars, masterVars
<1>2. CASE EnterLoop
  BY <1>2 DEF EnterLoop, StartLoop
<1>3. CASE KilledEarly
  BY <1>3 DEF KilledEarly, Killed, Unhandled, vars, masterVars
<1>4. CASE HupEarly
  BY <1>4 DEF HupEarly, HupHandler, startVars
<1>5. CASE \E c \in Conns : ArriveEarly(c)
  BY <1>5 DEF ArriveEarly, Arrive, masterVars, startVars
<1>6. CASE Next /\ Up
  BY <1>6, DoneStays DEF Up, startVars
<1>7. CASE MainReturns
  BY <1>7 DEF MainReturns, vars, masterVars
<1>8. CASE Rest \/ UNCHANGED serverVars
  BY <1>8 DEF Rest, serverVars, startVars, vars, masterVars
<1> QED
  BY <1>1, <1>2, <1>3, <1>4, <1>5, <1>6, <1>7, <1>8 DEF ServerNext

\* A master that is dead, or through, forks nobody, and nobody else does.
LEMMA DeadStays ==
  ASSUME TypeOK, mpc \in {"done", "dead"}, \A p \in Pids : ~Alive(p), Next
  PROVE  mpc' = mpc /\ \A p \in Pids : ~Alive(p)'
<1>1. ~(MasterNext \/ MasterDies)
  BY DEF MasterNext, MasterCode, MasterDies, Top, Fill, FillDone, Select, SelectFails, RecvByte,
     RecvEof, ScanDone, Reap, ReapDone, Adjust, Grow, GrowDone, Shrink, ShrinkDone, CloseAll,
     CloseDone, WaitReap, WaitDone, WaitInterrupted, Kill, KillDone, HupHandler
<1>2. ~(\E p \in Pids : WorkerNext(p))
  BY WorkerFrame DEF Alive
<1>3. UNCHANGED <<mpc, wpc>>
  BY <1>1, <1>2 DEF Next, Arrive, Over, vars, masterVars, workerVars
<1> QED
  BY <1>3 DEF Alive

\* PortFreed is for good: when main() has returned only workers with SIGKILL on
\* its way still hold the port, and once a server that is ending, however it
\* ends, has let go of the port, no step opens it again.
THEOREM PortStaysFree ==
  ServerSpec =>
    /\ [](stage = "returned" /\ PortHeld => \E p \in Pids : Alive(p) /\ "KILL" \in sig[p])
    /\ [][Ending /\ ~PortHeld => ~PortHeld']_serverVars
<1>1. ServerInit => PhaseInv
  BY DEF ServerInit, StartInit, Init, PhaseInv
<1>2. PhaseInv /\ NoOrphans
        => (stage = "returned" /\ PortHeld => \E p \in Pids : Alive(p) /\ "KILL" \in sig[p])
  BY DEF PhaseInv, NoOrphans, PortHeld, Listening
<1>3. ASSUME TypeOK, PhaseInv, ServerNext, Ending, ~PortHeld PROVE ~PortHeld'
  <2> USE DEF PortHeld
  <2>1. CASE Starting \/ EnterLoop \/ KilledEarly
    BY <1>3, <2>1 DEF Starting, StartCode, Usage, RefuseOptions, ConfigThrows, ReadConfig,
       RefuseConfig, AcceptConfig, BindFails, Listen, Foreground, Fork, ForkFails,
       InstallSignalHandlers, EnterLoop, StartLoop, KilledEarly, Killed, Unhandled, Step,
       Abandoned, Ending, Ended, Stopping, PhaseInv, Listening
  <2>2. CASE HupEarly \/ (\E c \in Conns : ArriveEarly(c)) \/ MainReturns
    BY <1>3, <2>2 DEF HupEarly, ArriveEarly, MainReturns, Step, PhaseInv, Listening
  <2>3. CASE Next /\ Up
    <3>1. mpc \in {"done", "dead"} /\ stage' = stage
      BY <1>3, <2>3 DEF Up, startVars, Listening, PhaseInv
    <3>2. mpc' = mpc /\ \A p \in Pids : ~Alive(p)'
      BY <1>3, <2>3, <3>1, DeadStays
    <3> QED
      BY <1>3, <3>1, <3>2 DEF Listening
  <2>4. CASE Rest
    BY <1>3, <2>4 DEF Rest, serverVars, vars, masterVars, workerVars, startVars, Listening, Alive
  <2> QED
    BY <1>3, <2>1, <2>2, <2>3, <2>4 DEF ServerNext
<1>4. TypeInv /\ PhaseInv /\ [ServerNext]_serverVars
        => [Ending /\ ~PortHeld => ~PortHeld']_serverVars
  BY <1>3 DEF TypeInv
<1>5. ServerSpec => Spec
  BY StartupCorrect DEF RunsPrefork
<1> QED
  BY <1>1, <1>2, <1>4, <1>5, PhaseStep, NoOrphansLeft, TypeInvariant, PTL
     DEF ServerSpec, ServerSafety
=============================================================================
