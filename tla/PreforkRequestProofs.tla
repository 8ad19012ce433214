------------------------ MODULE PreforkRequestProofs ------------------------
(***************************************************************************)
(* What the master and the workers know of the requests: a connection has  *)
(* one owner, and the notifications of a worker keep the master's view of  *)
(* it exact up to the bytes in flight.                                     *)
(***************************************************************************)
EXTENDS PreforkProofs

-----------------------------------------------------------------------------
(* Connections *)

\* The end of a process gives its connection, and only that, to nobody.
LEMMA ConnsDie ==
  ASSUME TypeOK, ConnsOwned, NEW p \in Pids, Die(p)
  PROVE  ConnsOwned'
<1> USE PreforkAssumption DEF TypeOK, ConnsOwned
<1>1. /\ wpc' = [wpc EXCEPT ![p] = "zombie"]
      /\ cur' = [cur EXCEPT ![p] = NoConn]
      /\ conn' = [c \in Conns |-> IF c = cur[p] THEN "dropped" ELSE conn[c]]
  BY DEF Die
<1>2. \A q \in Pids : cur'[q] # NoConn <=> wpc'[q] \in {"read", "tell", "serve"}
  BY <1>1
<1>3. \A c \in Conns : conn'[c] = "taken" <=> \E q \in Pids : cur'[q] = c
  BY <1>1
<1>4. \A q, r \in Pids : cur'[q] = cur'[r] /\ cur'[q] # NoConn => q = r
  BY <1>1
<1> QED
  BY <1>2, <1>3, <1>4

\* So does giving it up, or finishing with it, in a process that goes on.
LEMMA ConnsLetGo ==
  ASSUME TypeOK, ConnsOwned, NEW p \in Pids, NEW fate \in {"served", "dropped"},
         NEW pc \in WorkerPCs \ {"read", "tell", "serve"}, cur[p] # NoConn,
         cur' = [cur EXCEPT ![p] = NoConn],
         conn' = [conn EXCEPT ![cur[p]] = fate],
         wpc' = [wpc EXCEPT ![p] = pc]
  PROVE  ConnsOwned'
<1> USE PreforkAssumption DEF TypeOK, ConnsOwned
<1>1. cur[p] \in Conns
  OBVIOUS
<1>2. \A q \in Pids : cur'[q] # NoConn <=> wpc'[q] \in {"read", "tell", "serve"}
  OBVIOUS
<1>3. \A c \in Conns : conn'[c] = "taken" <=> \E q \in Pids : cur'[q] = c
  BY <1>1
<1>4. \A q, r \in Pids : cur'[q] = cur'[r] /\ cur'[q] # NoConn => q = r
  OBVIOUS
<1> QED
  BY <1>2, <1>3, <1>4

\* A step of a worker keeps every connection with one owner.
LEMMA ConnsWorker ==
  ASSUME TypeOK, ConnsOwned, NEW p \in Pids, WorkerNext(p)
  PROVE  ConnsOwned'
<1> USE DEF Goto
\* a step that neither takes nor leaves a connection
<1>1. ASSUME NEW pc \in WorkerPCs, wpc' = [wpc EXCEPT ![p] = pc], UNCHANGED <<cur, conn>>,
             wpc[p] \in {"read", "tell", "serve"} <=> pc \in {"read", "tell", "serve"}
      PROVE  ConnsOwned'
  BY <1>1 DEF ConnsOwned, TypeOK
<1>2. ASSUME UNCHANGED <<wpc, cur, conn>> PROVE ConnsOwned'
  BY <1>2 DEF ConnsOwned
<1>3. CASE Boot(p) \/ InitPython(p) \/ SelectQuit(p) \/ SelectListen(p)
  BY <1>1, <1>3 DEF Boot, InitPython, SelectQuit, SelectListen, envVars, WorkerPCs
<1>4. CASE AcceptMisses(p) \/ ReportFree(p)
  BY <1>1, <1>4 DEF AcceptMisses, ReportFree, NextTurn, envVars, WorkerPCs
<1>5. CASE ReadParams(p) \/ TellBusy(p)
  BY <1>1, <1>5 DEF ReadParams, TellBusy, envVars, WorkerPCs
<1>6. CASE Accept(p)
  <2> PICK c \in Queued : /\ conn' = [conn EXCEPT ![c] = "taken"]
                         /\ cur'  = [cur EXCEPT ![p] = c]
    BY <1>6 DEF Accept
  <2>1. wpc' = [wpc EXCEPT ![p] = "read"] /\ wpc[p] = "accept"
    BY <1>6 DEF Accept
  <2>2. c \in Conns /\ c # NoConn /\ \A q \in Pids : cur[q] # c
    BY PreforkAssumption DEF Queued, ConnsOwned
  <2>3. \A q \in Pids : cur'[q] = IF q = p THEN c ELSE cur[q]
    BY DEF TypeOK
  <2>4. \A q \in Pids : cur'[q] # NoConn <=> wpc'[q] \in {"read", "tell", "serve"}
    BY <2>1, <2>2, <2>3 DEF ConnsOwned, TypeOK
  <2>5. \A d \in Conns : conn'[d] = "taken" <=> \E q \in Pids : cur'[q] = d
    <3> TAKE d \in Conns
    <3>1. CASE d = c
      BY <2>2, <2>3, <3>1 DEF TypeOK
    <3>2. CASE d # c
      <4>1. conn'[d] = conn[d]
        BY <3>2 DEF TypeOK
      <4>2. cur[p] = NoConn /\ d # NoConn
        BY <2>1, PreforkAssumption DEF ConnsOwned
      <4> QED
        BY <2>3, <3>2, <4>1, <4>2 DEF ConnsOwned
    <3> QED
      BY <3>1, <3>2
  <2>6. \A q, r \in Pids : cur'[q] = cur'[r] /\ cur'[q] # NoConn => q = r
    BY <2>2, <2>3 DEF ConnsOwned
  <2> QED
    BY <2>4, <2>5, <2>6 DEF ConnsOwned
<1>7. CASE ClientGone(p)
  <2>1. cur[p] # NoConn
    BY <1>7 DEF ClientGone, ConnsOwned
  <2> QED
    BY <1>7, <2>1, ConnsLetGo DEF ClientGone, LoseClient, WorkerPCs
<1>8. CASE Serve(p)
  <2>1. cur[p] # NoConn
    BY <1>8 DEF Serve, ConnsOwned
  <2> QED
    BY <1>8, <2>1, ConnsLetGo DEF Serve, WorkerPCs
<1>9. CASE Exit(p) \/ Crash(p) \/ Sigkill(p)
  BY <1>9, ConnsDie DEF Exit, Crash, Sigkill
<1>10. CASE Sigint(p)
  <2>1. CASE SigintBorn(p) \/ SigintFlag(p)
    BY <1>2, <2>1 DEF SigintBorn, SigintFlag, envVars
  <2>2. CASE SigintBoot(p)
    BY <2>2, ConnsDie DEF SigintBoot
  <2>3. CASE SigintSelect(p)
    BY <1>1, <2>3 DEF SigintSelect, envVars, WorkerPCs
  <2>4. CASE SigintRead(p)
    <3>1. cur[p] # NoConn
      BY <2>4 DEF SigintRead, ConnsOwned
    <3> QED
      BY <2>4, <3>1, ConnsLetGo DEF SigintRead, LoseClient, WorkerPCs
  <2> QED
    BY <1>10, <2>1, <2>2, <2>3, <2>4 DEF Sigint
<1> QED
  BY <1>3, <1>4, <1>5, <1>6, <1>7, <1>8, <1>9, <1>10 DEF WorkerNext, WorkerCode, ClientStep

LEMMA ConnsStep == TypeInv /\ ConnsOwned /\ [Next]_vars => ConnsOwned'
<1> SUFFICES ASSUME TypeOK, ConnsOwned, [Next]_vars PROVE ConnsOwned'
  BY DEF TypeInv
<1>1. ASSUME UNCHANGED <<wpc, cur, conn>> PROVE ConnsOwned'
  BY <1>1 DEF ConnsOwned
<1>2. ASSUME UNCHANGED <<cur, conn>>, NEW p \in Pids, NEW pc \in {"born", "none"},
             wpc[p] \in {"none", "zombie"}, wpc' = [wpc EXCEPT ![p] = pc]
      PROVE  ConnsOwned'
  BY <1>2 DEF ConnsOwned, TypeOK
<1>3. CASE ControlStep \/ SpawnFails \/ RecvByte \/ RecvEof
  BY <1>1, <1>3, ControlFrame DEF SpawnFails, RecvByte, RecvEof, workerVars, envVars
<1>4. CASE Shrink \/ CloseAll \/ MasterDies
  BY <1>1, <1>4 DEF Shrink, CloseAll, MasterDies, envVars
<1>5. CASE Spawn
  BY <1>2, <1>5 DEF Spawn, envVars
<1>6. CASE \E p \in Zombies : Erase(p)
  BY <1>2, <1>6 DEF Erase, Zombies, envVars
<1>7. CASE Kill
  BY <1>1, <1>7 DEF Kill, envVars
<1>8. CASE \E p \in Pids : WorkerNext(p)
  BY <1>8, ConnsWorker
<1>9. CASE \E c \in Conns : Arrive(c)
  <2> PICK c \in Conns : Arrive(c)
    BY <1>9
  <2>1. conn[c] = "new" /\ conn' = [conn EXCEPT ![c] = "queued"] /\ UNCHANGED <<wpc, cur>>
    BY DEF Arrive, workerVars
  <2> QED
    BY <2>1 DEF ConnsOwned, TypeOK
<1>10. CASE UNCHANGED vars
  BY <1>1, <1>10 DEF vars, workerVars, envVars
<1> QED
  BY <1>3, <1>4, <1>5, <1>6, <1>7, <1>8, <1>9, <1>10, StepKinds

LEMMA ConnsInit == Init => ConnsOwned
BY PreforkAssumption DEF Init, ConnsOwned

\* An accepted connection always belongs to exactly one running worker.
THEOREM ConnsCorrect == Spec => []ConnsOwned
BY ConnsInit, ConnsStep, TypeInvariant, PTL DEF Spec

\* A connection that is lost is lost by its own worker's crash, or end by
\* SIGKILL, or before its parameters were read.
LEMMA KeptStep ==
  ASSUME TypeOK, ConnsOwned, [Next]_vars, NEW p \in Pids, wpc[p] \in {"tell", "serve"},
         conn'[cur[p]] = "dropped"
  PROVE  crashes' # crashes \/ "KILL" \in sig[p]
<1>1. cur[p] \in Conns /\ conn[cur[p]] = "taken"
  BY DEF TypeOK, ConnsOwned
<1>2. ~UNCHANGED conn
  BY <1>1
<1>3. CASE \E q \in Pids : WorkerNext(q)
  <2> PICK q \in Pids : WorkerNext(q)
    BY <1>3
  <2>1. conn'[cur[p]] # conn[cur[p]]
    BY <1>1
  <2>2. CASE q # p
    <3>1. cur[q] # cur[p]
      BY <1>1, <2>2, PreforkAssumption DEF ConnsOwned
    <3>2. CASE Die(q)
      BY <1>1, <2>1, <3>1, <3>2 DEF Die
    <3>3. CASE Serve(q) \/ ClientGone(q) \/ SigintRead(q)
      BY <1>1, <2>1, <3>1, <3>3 DEF Serve, ClientGone, SigintRead, LoseClient, TypeOK
    <3>4. CASE Accept(q)
      BY <1>1, <3>4 DEF Accept, Queued, TypeOK
    <3> QED
      BY <1>2, <3>2, <3>3, <3>4
         DEF WorkerNext, WorkerCode, ClientStep, Boot, InitPython, SelectQuit, SelectListen,
             AcceptMisses, TellBusy, ReportFree, Exit, Sigint, Sigkill, ReadParams, Crash,
             SigintBorn, SigintBoot, SigintSelect, SigintFlag, envVars
  <2>3. CASE q = p
    <3>1. CASE Serve(p)
      BY <1>1, <3>1 DEF Serve, TypeOK
    <3>2. CASE Crash(p)
      BY <3>2, PreforkAssumption DEF Crash, TypeOK
    <3>3. CASE Sigkill(p)
      BY <3>3 DEF Sigkill
    <3> QED
      BY <1>2, <2>3, <3>1, <3>2, <3>3
         DEF WorkerNext, WorkerCode, ClientStep, Boot, InitPython, SelectQuit, SelectListen, Accept,
             AcceptMisses, TellBusy, ReportFree, Exit, Sigint, ReadParams, ClientGone,
             SigintBorn, SigintBoot, SigintSelect, SigintRead, SigintFlag, envVars
  <2> QED
    BY <2>2, <2>3
<1>4. CASE \E c \in Conns : Arrive(c)
  BY <1>1, <1>4 DEF Arrive, TypeOK
<1>5. CASE ControlStep
  BY <1>2, <1>5, ControlFrame DEF envVars
<1>6. CASE Spawn \/ SpawnFails \/ RecvByte \/ RecvEof \/ (\E q \in Zombies : Erase(q)) \/ Shrink
           \/ CloseAll \/ Kill \/ MasterDies \/ UNCHANGED vars
  BY <1>2, <1>6 DEF Spawn, SpawnFails, RecvByte, RecvEof, Erase, Shrink, CloseAll, Kill, MasterDies,
     vars, envVars
<1> QED
  BY <1>3, <1>4, <1>5, <1>6, StepKinds

\* A retired worker serves the request it took, whatever becomes of its
\* notifications.
THEOREM RequestsSurvive == Spec => RequestsKept
<1>1. TypeInv /\ ConnsOwned /\ [Next]_vars =>
        [\A p \in Pids : wpc[p] \in {"tell", "serve"} =>
           conn'[cur[p]] # "dropped" \/ crashes' # crashes \/ "KILL" \in sig[p]]_vars
  BY KeptStep DEF TypeInv
<1> QED
  BY <1>1, ConnsInit, ConnsStep, TypeInvariant, PTL DEF Spec, RequestsKept

-----------------------------------------------------------------------------
(* Notifications *)

\* BeliefTracks and BytesAlternate for one worker.
TracksAt(p) ==
  wpc[p] \notin {"exit", "zombie"} => (LastWord(p) <=> wpc[p] \notin {"serve", "report"})

AlternatesAt(p) ==
  \A i \in 1 .. Len(chan[p]) :
    chan[p][i] = IF i = 1 THEN (IF avail[p] THEN Busy ELSE Free)
                          ELSE (IF chan[p][i-1] = Free THEN Busy ELSE Free)

BeliefInv == \A p \in OpenEnds : TracksAt(p) /\ AlternatesAt(p)

\* Nothing changes for a worker whose bytes and entry stay as they are and which
\* stays on its side of the two notifications, or is past them.
LEMMA BeliefStays ==
  ASSUME NEW p \in Pids, TracksAt(p), AlternatesAt(p),
         chan'[p] = chan[p], avail'[p] = avail[p],
         \/ wpc'[p] \in {"exit", "zombie"}
         \/ /\ wpc[p] \notin {"exit", "zombie"}
            /\ wpc[p] \in {"serve", "report"} <=> wpc'[p] \in {"serve", "report"}
  PROVE  TracksAt(p)' /\ AlternatesAt(p)'
<1>1. AlternatesAt(p)'
  BY DEF AlternatesAt
<1>2. LastWord(p)' <=> LastWord(p)
  BY DEF LastWord
<1>3. TracksAt(p)'
  BY <1>2 DEF TracksAt
<1> QED
  BY <1>1, <1>3

\* A byte that says the opposite of the last one keeps the bytes alternating,
\* and is the last word from then on.
LEMMA BeliefSend ==
  ASSUME TypeOK, NEW p \in Pids, NEW byte \in {Busy, Free}, AlternatesAt(p),
         LastWord(p) <=> byte = Busy, file[p], Send(p, byte), avail'[p] = avail[p]
  PROVE  AlternatesAt(p)' /\ (LastWord(p)' <=> byte = Free)
<1> DEFINE s == chan[p]
           t == chan'[p]
<1>1. s \in Seq({Busy, Free}) /\ t = Append(s, byte)
  BY DEF TypeOK, Send
<1>2. /\ t # <<>> /\ Len(t) = Len(s) + 1 /\ t[Len(s) + 1] = byte
      /\ \A i \in 1 .. Len(s) : t[i] = s[i]
      /\ Len(s) \in Nat
      /\ s = <<>> => Len(s) = 0
      /\ s # <<>> => Len(s) > 0
  BY <1>1, AppendProperties, LenProperties, EmptySeq
<1>3. Busy # Free
  BY DEF Busy, Free
<1>4. LastWord(p)' <=> byte = Free
  BY <1>2 DEF LastWord
<1>5. ASSUME NEW i \in 1 .. Len(t)
      PROVE  t[i] = IF i = 1 THEN (IF avail'[p] THEN Busy ELSE Free)
                             ELSE (IF t[i-1] = Free THEN Busy ELSE Free)
  <2>1. CASE i <= Len(s)
    <3>1. i \in 1 .. Len(s) /\ (i # 1 => i - 1 \in 1 .. Len(s))
      BY <1>2, <2>1
    <3>2. t[i] = s[i] /\ (i # 1 => t[i-1] = s[i-1])
      BY <1>2, <3>1
    <3> QED
      BY <3>1, <3>2 DEF AlternatesAt
  <2>2. CASE i = Len(s) + 1
    <3>1. CASE s = <<>>
      BY <1>2, <1>3, <2>2, <3>1 DEF LastWord
    <3>2. CASE s # <<>>
      <4>1. t[i-1] = s[Len(s)] /\ i # 1
        BY <1>2, <2>2, <3>2
      <4> QED
        BY <1>2, <1>3, <2>2, <3>2, <4>1 DEF LastWord
    <3> QED
      BY <3>1, <3>2
  <2> QED
    BY <1>2, <2>1, <2>2
<1> QED
  BY <1>4, <1>5 DEF AlternatesAt

\* Receiving a byte makes the master believe what it says.
LEMMA BeliefRecv ==
  ASSUME TypeOK, NEW p \in Pids, chan[p] # <<>>, TracksAt(p), AlternatesAt(p),
         avail'[p] = SaysAvail(Head(chan[p])), chan'[p] = Tail(chan[p]), wpc'[p] = wpc[p]
  PROVE  TracksAt(p)' /\ AlternatesAt(p)'
<1> DEFINE s == chan[p]
           t == chan'[p]
<1>1. s \in Seq({Busy, Free}) /\ t = Tail(s)
  BY DEF TypeOK
<1>2. /\ t \in Seq({Busy, Free}) /\ Len(t) = Len(s) - 1 /\ Len(t) \in Nat
      /\ \A i \in 1 .. Len(t) : t[i] = s[i+1]
      /\ Len(s) \in Nat \ {0}
      /\ t = <<>> => Len(t) = 0
      /\ t # <<>> => Len(t) > 0
  <2>1. t \in Seq({Busy, Free}) /\ Len(t) = Len(s) - 1 /\ \A i \in 1 .. Len(t) : t[i] = s[i+1]
    BY <1>1, HeadTailProperties
  <2>2. Len(s) \in Nat \ {0}
    BY <1>1, EmptySeq
  <2>3. Len(t) \in Nat
    BY <2>1, LenProperties
  <2>4. t # <<>> => Len(t) \in Nat \ {0}
    BY <2>1, EmptySeq
  <2>5. t = <<>> => Len(t) = 0
    BY EmptySeq
  <2>6. t # <<>> => Len(t) > 0
    BY <2>4
  <2> HIDE DEF s, t
  <2> QED
    BY <2>1, <2>2, <2>3, <2>5, <2>6
<1>3. Head(s) = s[1] /\ s[1] \in {Busy, Free}
  BY <1>1, <1>2, ElementOfSeq
<1>4. Busy # Free
  BY DEF Busy, Free
<1>5. avail'[p] <=> s[1] = Free
  BY <1>3, <1>4 DEF SaysAvail
<1>6. LastWord(p)' <=> LastWord(p)
  <2>1. CASE t = <<>>
    BY <1>2, <1>5, <2>1 DEF LastWord
  <2>2. CASE t # <<>>
    BY <1>2, <2>2 DEF LastWord
  <2> QED
    BY <2>1, <2>2
<1>7. ASSUME NEW i \in 1 .. Len(t)
      PROVE  t[i] = IF i = 1 THEN (IF avail'[p] THEN Busy ELSE Free)
                             ELSE (IF t[i-1] = Free THEN Busy ELSE Free)
  <2>1. t[i] = s[i+1] /\ i + 1 \in 1 .. Len(s) /\ i + 1 # 1 /\ (i + 1) - 1 = i
    BY <1>2
  <2>2. t[i] = IF s[i] = Free THEN Busy ELSE Free
    BY <2>1 DEF AlternatesAt
  <2>3. i # 1 => t[i-1] = s[i]
    BY <1>2
  <2> QED
    BY <1>5, <2>2, <2>3
<1>8. AlternatesAt(p)'
  BY <1>7 DEF AlternatesAt
<1> QED
  BY <1>6, <1>8 DEF TracksAt

\* The notifications of a worker come in turns, and say what it does.
LEMMA BeliefWorker ==
  ASSUME TypeOK, EndsInv, BeliefInv, NEW p \in Pids, WorkerNext(p)
  PROVE  BeliefInv'
<1> USE DEF Goto
<1>1. UNCHANGED <<children, file, avail>> /\ OpenEnds' = OpenEnds
  BY WorkerFrame DEF masterVars, OpenEnds
<1>2. \A q \in OpenEnds : q \in Pids
  BY DEF OpenEnds, TypeOK
<1>3. ASSUME NEW q \in OpenEnds \ {p} PROVE TracksAt(q)' /\ AlternatesAt(q)'
  <2>1. q \in Pids \ {p} /\ TracksAt(q) /\ AlternatesAt(q)
    BY <1>2 DEF BeliefInv
  <2>2. wpc'[q] = wpc[q] /\ chan'[q] = chan[q] /\ avail'[q] = avail[q]
    BY <1>1, <2>1, WorkerFrame
  <2> QED
    BY <2>1, <2>2 DEF TracksAt, AlternatesAt, LastWord
<1>4. CASE p \notin OpenEnds
  BY <1>1, <1>3, <1>4 DEF BeliefInv
<1>5. CASE p \in OpenEnds
  <2> USE <1>5
  <2>1. TracksAt(p) /\ AlternatesAt(p) /\ file[p]
    BY DEF BeliefInv, OpenEnds
  <2>2. CASE TellBusy(p)
    <3>1. wpc[p] = "tell" /\ Send(p, Busy) /\ wpc'[p] = "serve"
      BY <2>2 DEF TellBusy, TypeOK
    <3>2. LastWord(p)
      BY <2>1, <3>1 DEF TracksAt
    <3>3. AlternatesAt(p)' /\ ~LastWord(p)'
      BY <1>1, <2>1, <3>1, <3>2, BeliefSend DEF Busy, Free
    <3> QED
      BY <1>1, <1>3, <3>1, <3>3 DEF BeliefInv, TracksAt
  <2>3. CASE ReportFree(p)
    <3>1. wpc[p] = "report" /\ Send(p, Free) /\ wpc'[p] \in {"select", "exit"}
      BY <2>3 DEF ReportFree, NextTurn, TypeOK
    <3>2. ~LastWord(p)
      BY <2>1, <3>1 DEF TracksAt
    <3>3. AlternatesAt(p)' /\ LastWord(p)'
      BY <1>1, <2>1, <3>1, <3>2, BeliefSend DEF Busy, Free
    <3> QED
      BY <1>1, <1>3, <3>1, <3>3 DEF BeliefInv, TracksAt
  \* every other step: no byte, and the same side
  <2>4. CASE ~TellBusy(p) /\ ~ReportFree(p)
    <3>1. UNCHANGED chan
      BY <2>4 DEF WorkerNext, WorkerCode, ClientStep, Boot, InitPython, SelectQuit, SelectListen,
                  Accept, AcceptMisses, Exit, Sigint, Sigkill, ReadParams, ClientGone, Serve, Crash, Die,
                  SigintBorn, SigintBoot, SigintSelect, SigintRead, SigintFlag, envVars
    <3>2. \/ wpc'[p] \in {"exit", "zombie"}
          \/ wpc[p] \in {"serve", "report"} <=> wpc'[p] \in {"serve", "report"}
      BY <2>4 DEF WorkerNext, WorkerCode, ClientStep, Boot, InitPython, SelectQuit, SelectListen,
                  Accept, AcceptMisses, Exit, Sigint, Sigkill, ReadParams, ClientGone, Serve, Crash, Die,
                  SigintBorn, SigintBoot, SigintSelect, SigintRead, SigintFlag, LoseClient,
                  NextTurn, TypeOK
    <3>3. wpc[p] = "exit" => wpc'[p] \in {"exit", "zombie"}
      BY <2>4 DEF WorkerNext, WorkerCode, ClientStep, Boot, InitPython, SelectQuit, SelectListen,
                  Accept, AcceptMisses, Exit, Sigint, Sigkill, ReadParams, ClientGone, Serve, Crash, Die,
                  SigintBorn, SigintBoot, SigintSelect, SigintRead, SigintFlag, LoseClient, TypeOK
    <3>4. TracksAt(p)' /\ AlternatesAt(p)'
      BY <1>1, <2>1, <3>1, <3>2, <3>3, WorkerFrame, BeliefStays
    <3> QED
      BY <1>1, <1>3, <3>4 DEF BeliefInv
  <2> QED
    BY <2>2, <2>3, <2>4
<1> QED
  BY <1>4, <1>5

LEMMA BeliefStep ==
  TypeInv /\ TableExact /\ EndsInv /\ BeliefInv /\ [Next]_vars => BeliefInv'
<1> SUFFICES ASSUME TypeOK, TableExact, EndsInv, BeliefInv, [Next]_vars PROVE BeliefInv'
  BY DEF TypeInv
<1>1. \A q \in OpenEnds : q \in Pids
  BY DEF OpenEnds, TypeOK
\* the ends that stay open, with what is known of their workers
<1>2. ASSUME OpenEnds' \subseteq OpenEnds, UNCHANGED wpc,
             \A q \in OpenEnds' : chan'[q] = chan[q] /\ avail'[q] = avail[q]
      PROVE  BeliefInv'
  BY <1>1, <1>2 DEF BeliefInv, TracksAt, AlternatesAt, LastWord
<1>3. CASE ControlStep
  BY <1>2, <1>3, ControlFrame DEF OpenEnds, workerVars
<1>4. CASE Spawn
  <2> PICK p \in Pids : wpc[p] = "none" /\ NewChild(p) /\ wpc' = [wpc EXCEPT ![p] = "born"]
    BY <1>4 DEF Spawn
  <2>1. UNCHANGED chan
    BY <1>4 DEF Spawn
  <2>2. OpenEnds' = OpenEnds \cup {p} /\ chan[p] = <<>> /\ avail'[p] = TRUE
    BY DEF NewChild, OpenEnds, TypeOK, EndsInv, TableExact
  <2>3. Len(<<>>) = 0
    BY EmptySeq
  <2>4. TracksAt(p)' /\ AlternatesAt(p)'
    BY <2>1, <2>2, <2>3 DEF TracksAt, AlternatesAt, LastWord, TypeOK
  <2>5. ASSUME NEW q \in OpenEnds \ {p} PROVE TracksAt(q)' /\ AlternatesAt(q)'
    BY <1>1, <2>1 DEF NewChild, TypeOK, BeliefInv, TracksAt, AlternatesAt, LastWord
  <2> QED
    BY <2>2, <2>4, <2>5 DEF BeliefInv
<1>5. CASE SpawnFails
  BY <1>2, <1>5 DEF SpawnFails, OpenEnds, workerVars
<1>6. CASE RecvByte
  <2> PICK p \in todo : /\ chan[p] # <<>>
                        /\ avail' = [avail EXCEPT ![p] = SaysAvail(Head(chan[p]))]
                        /\ chan'  = [chan EXCEPT ![p] = Tail(@)]
    BY <1>6 DEF RecvByte
  <2>1. UNCHANGED <<wpc, children, file>> /\ OpenEnds' = OpenEnds
    BY <1>6 DEF RecvByte, OpenEnds
  <2>2. p \in Pids /\ p \in OpenEnds
    BY <1>6 DEF RecvByte, EndsInv, TypeOK
  <2>3. TracksAt(p)' /\ AlternatesAt(p)'
    BY <2>1, <2>2, BeliefRecv DEF BeliefInv, TypeOK
  <2>4. ASSUME NEW q \in OpenEnds \ {p} PROVE TracksAt(q)' /\ AlternatesAt(q)'
    BY <1>1, <2>1 DEF TypeOK, BeliefInv, TracksAt, AlternatesAt, LastWord
  <2> QED
    BY <2>1, <2>3, <2>4 DEF BeliefInv
<1>7. CASE RecvEof
  <2> PICK p \in todo : CloseFile(p) /\ avail' = [avail EXCEPT ![p] = FALSE]
    BY <1>7 DEF RecvEof
  <2>1. UNCHANGED <<wpc, chan, children>>
    BY <1>7 DEF RecvEof, workerVars
  <2>2. OpenEnds' = OpenEnds \ {p}
    BY <2>1 DEF CloseFile, OpenEnds, TypeOK
  <2> QED
    BY <1>1, <1>2, <2>1, <2>2 DEF TypeOK
<1>8. CASE \E p \in Zombies : Erase(p)
  <2> PICK p \in Zombies : Erase(p)
    BY <1>8
  <2>1. OpenEnds' = OpenEnds \ {p}
    BY DEF Erase, Forget, CloseFile, OpenEnds, Zombies, TypeOK
  <2>2. \A q \in OpenEnds' : chan'[q] = chan[q] /\ avail'[q] = avail[q] /\ wpc'[q] = wpc[q]
    BY <1>1, <2>1 DEF Erase, TypeOK
  <2> QED
    BY <1>1, <2>1, <2>2 DEF BeliefInv, TracksAt, AlternatesAt, LastWord
<1>9. CASE Shrink
  <2> PICK p \in AvailKids : CloseEnd(p) /\ avail' = [avail EXCEPT ![p] = FALSE]
    BY <1>9 DEF Shrink
  <2>1. OpenEnds' = OpenEnds \ {p} /\ UNCHANGED wpc
    BY <1>9 DEF Shrink, CloseEnd, CloseFile, OpenEnds, AvailKids, TypeOK
  <2>2. \A q \in OpenEnds' : chan'[q] = chan[q] /\ avail'[q] = avail[q]
    BY <1>1, <2>1 DEF CloseEnd, TypeOK
  <2> QED
    BY <1>2, <2>1, <2>2
<1>10. CASE CloseAll
  <2> PICK p \in todo : CloseEnd(p)
    BY <1>10 DEF CloseAll
  <2>1. OpenEnds' = OpenEnds \ {p} /\ UNCHANGED <<wpc, avail>>
    BY <1>10 DEF CloseAll, CloseEnd, CloseFile, OpenEnds, TypeOK
  <2>2. \A q \in OpenEnds' : chan'[q] = chan[q]
    BY <1>1, <2>1 DEF CloseEnd, TypeOK
  <2> QED
    BY <1>2, <2>1, <2>2
<1>11. CASE Kill
  BY <1>2, <1>11 DEF Kill, OpenEnds
<1>12. CASE \E p \in Pids : WorkerNext(p)
  BY <1>12, BeliefWorker
<1>13. CASE \E c \in Conns : Arrive(c)
  BY <1>2, <1>13 DEF Arrive, OpenEnds, masterVars, workerVars
<1>14. CASE MasterDies
  BY <1>14 DEF MasterDies, OpenEnds, BeliefInv, TypeOK
<1>15. CASE UNCHANGED vars
  BY <1>2, <1>15 DEF vars, OpenEnds, masterVars, workerVars
<1> QED
  BY <1>3, <1>4, <1>5, <1>6, <1>7, <1>8, <1>9, <1>10, <1>11, <1>12, <1>13, <1>14, <1>15, StepKinds

LEMMA BeliefInvariant == Spec => []BeliefInv
<1>1. Init => BeliefInv
  BY DEF Init, BeliefInv, OpenEnds
<1> QED
  BY <1>1, EndsInit, BeliefStep, EndsStep, TableStep, TypeInvariant, PTL DEF Spec

\* Once the master has read what a worker sent, it believes what is the case.
THEOREM BeliefCorrect == Spec => []BeliefTracks
<1>1. BeliefInv => BeliefTracks
  BY DEF BeliefInv, BeliefTracks, TracksAt
<1> QED
  BY <1>1, BeliefInvariant, PTL

\* The bytes in flight from a worker alternate, from what the master believes on.
THEOREM BytesCorrect == Spec => []BytesAlternate
<1>1. BeliefInv => BytesAlternate
  BY DEF BeliefInv, BytesAlternate, AlternatesAt
<1> QED
  BY <1>1, BeliefInvariant, PTL

-----------------------------------------------------------------------------
(* The turns of the workers *)

(***************************************************************************)
(* A process that is not running has counted nothing, and one that may     *)
(* take a request has not had max_requests of them.                        *)
(***************************************************************************)
TurnInv ==
  /\ \A p \in Pids : ~Alive(p) => reqs[p] = 0
  /\ \A p \in Pids :
       wpc[p] \in {"born", "boot", "select", "accept", "read", "tell"} => ~Recycled(reqs[p])

\* What one worker does to its own turn.
WorkerTurn(p) ==
  \/ Alive(p)' /\ Turn(p)' = Turn(p) /\ reqs'[p] = reqs[p]
  \/ wpc[p] = "tell" /\ wpc'[p] = "serve" /\ reqs'[p] = reqs[p] + 1
  \/ wpc[p] = "serve" /\ wpc'[p] = "report" /\ reqs'[p] = reqs[p]
  \/ wpc'[p] = "zombie" /\ reqs'[p] = 0

LEMMA WorkerTurnKinds ==
  ASSUME TypeOK, TurnInv, NEW p \in Pids, WorkerNext(p)
  PROVE  /\ WorkerTurn(p)
         /\ wpc'[p] \in {"born", "boot", "select", "accept", "read", "tell"} => ~Recycled(reqs'[p])
<1> USE DEF TypeOK, TurnInv, WorkerTurn, Turn, Alive, Goto
<1>1. CASE Boot(p) \/ InitPython(p) \/ SelectQuit(p) \/ SelectListen(p) \/ Accept(p)
  BY <1>1 DEF Boot, InitPython, SelectQuit, SelectListen, Accept
<1>2. CASE AcceptMisses(p) \/ ReportFree(p)
  BY <1>2 DEF AcceptMisses, ReportFree, NextTurn
<1>3. CASE ClientStep(p)
  BY <1>3 DEF ClientStep, ReadParams, ClientGone, LoseClient
<1>4. CASE TellBusy(p)
  BY <1>4 DEF TellBusy
<1>5. CASE Serve(p)
  BY <1>5 DEF Serve
<1>6. CASE Exit(p) \/ Crash(p) \/ Sigkill(p)
  BY <1>6 DEF Exit, Crash, Sigkill, Die
<1>7. CASE Sigint(p)
  BY <1>7 DEF Sigint, SigintBorn, SigintBoot, SigintSelect, SigintRead, SigintFlag, LoseClient, Die, envVars
<1> QED
  BY <1>1, <1>2, <1>3, <1>4, <1>5, <1>6, <1>7 DEF WorkerNext, WorkerCode

LEMMA TurnStep == TypeInv /\ TurnInv /\ [Next]_vars => TurnInv'
<1> SUFFICES ASSUME TypeOK, TurnInv, [Next]_vars PROVE TurnInv'
  BY DEF TypeInv
<1> USE DEF TurnInv, Alive
<1>1. CASE ControlStep
  BY <1>1, ControlFrame DEF workerVars
<1>2. CASE Spawn
  BY <1>2, PreforkAssumption DEF Spawn, Recycled, TypeOK
<1>3. CASE \E p \in Zombies : Erase(p)
  BY <1>3 DEF Erase, Zombies, TypeOK
<1>4. CASE Kill
  BY <1>4 DEF Kill
<1>5. ASSUME NEW p \in Pids, WorkerNext(p) PROVE TurnInv'
  <2>1. ~Alive(p)' => reqs'[p] = 0
    BY <1>5, WorkerFrame, WorkerTurnKinds DEF WorkerTurn
  <2> QED
    BY <1>5, <2>1, WorkerFrame, WorkerTurnKinds
<1>6. CASE SpawnFails \/ RecvByte \/ RecvEof \/ Shrink \/ CloseAll \/ MasterDies
           \/ (\E c \in Conns : Arrive(c)) \/ UNCHANGED vars
  BY <1>6 DEF SpawnFails, RecvByte, RecvEof, Shrink, CloseAll, MasterDies, Arrive, vars, workerVars
<1> QED
  BY <1>1, <1>2, <1>3, <1>4, <1>5, <1>6, StepKinds

\* A step that changes one process changes that worker's turn alone.
LEMMA OneTurn ==
  ASSUME TypeOK, NEW p \in Pids, NEW t, NEW n, reqs' \in [Pids -> Nat],
         Turn(p)' = t, reqs'[p] = n,
         \A q \in Pids \ {p} : wpc'[q] = wpc[q] /\ reqs'[q] = reqs[q]
  PROVE  Turns!Becomes(p, t, n)
<1>1. [q \in Pids |-> Turn(q)]' = [[q \in Pids |-> Turn(q)] EXCEPT ![p] = t]
  BY DEF Turn, Alive
<1>2. reqs' = [reqs EXCEPT ![p] = n]
  BY DEF TypeOK
<1> QED
  BY <1>1, <1>2 DEF Turns!Becomes

LEMMA TurnsStep ==
  TypeInv /\ TypeInv' /\ TurnInv /\ [Next]_vars => [Turns!TNext]_(Turns!tvars)
<1> SUFFICES ASSUME TypeOK, TypeOK', TurnInv, [Next]_vars
             PROVE  Turns!TNext \/ UNCHANGED Turns!tvars
  BY DEF TypeInv
<1>0. reqs' \in [Pids -> Nat]
  BY DEF TypeOK
<1> DEFINE turn == [q \in Pids |-> Turn(q)]
<1>1. ASSUME UNCHANGED <<wpc, reqs>> PROVE UNCHANGED Turns!tvars
  BY <1>1 DEF Turns!tvars, Turn, Alive
<1>2. ASSUME NEW p \in Pids, Turns!Start(p) \/ Turns!TakeOne(p) \/ Turns!Done(p) \/ Turns!Leave(p)
      PROVE  Turns!TNext
  BY <1>2 DEF Turns!TNext
<1>3. \A p \in Pids : turn[p] = Turn(p)
  OBVIOUS
<1>4. CASE Spawn
  <2> PICK p \in Pids : wpc[p] = "none" /\ wpc' = [wpc EXCEPT ![p] = "born"] /\ UNCHANGED reqs
    BY <1>4 DEF Spawn
  <2>1. reqs[p] = 0 /\ Turn(p) = "gone" /\ Turn(p)' = "resting"
    BY DEF TurnInv, Turn, Alive, TypeOK
  <2>2. Turns!Becomes(p, "resting", 0)
    BY <1>0, <2>1, OneTurn DEF TypeOK
  <2>3. Turns!Start(p)
    BY <2>1, <2>2 DEF Turns!Start
  <2> QED
    BY <1>2, <2>3
<1>5. CASE \E p \in Zombies : Erase(p)
  <2> PICK p \in Zombies : wpc' = [wpc EXCEPT ![p] = "none"] /\ UNCHANGED reqs
    BY <1>5 DEF Erase
  <2>1. \A q \in Pids : Turn(q)' = Turn(q)
    BY DEF Turn, Alive, Zombies, TypeOK
  <2> QED
    BY <2>1 DEF Turns!tvars
<1>6. CASE Kill
  BY <1>1, <1>6 DEF Kill
<1>7. ASSUME NEW p \in Pids, WorkerNext(p) PROVE Turns!TNext \/ UNCHANGED Turns!tvars
  <2>0. \A q \in Pids \ {p} : wpc'[q] = wpc[q] /\ reqs'[q] = reqs[q]
    BY <1>7, WorkerFrame
  <2>1. Alive(p) /\ WorkerTurn(p)
    BY <1>7, WorkerFrame, WorkerTurnKinds DEF Alive
  <2>2. Turns!Becomes(p, Turn(p)', reqs'[p])
    BY <1>0, <2>0, OneTurn
  <2>3. CASE Turn(p)' = Turn(p) /\ reqs'[p] = reqs[p]
    <3>1. \A q \in Pids : Turn(q)' = Turn(q)
      BY <2>0, <2>3 DEF Turn, Alive
    <3>2. reqs' = reqs
      BY <1>0, <2>0, <2>3 DEF TypeOK
    <3> QED
      BY <3>1, <3>2 DEF Turns!tvars
  <2>4. CASE wpc[p] = "tell" /\ wpc'[p] = "serve" /\ reqs'[p] = reqs[p] + 1
    <3>1. Turn(p) = "resting" /\ Turn(p)' = "working" /\ (MaxRequests > 0 => reqs[p] < MaxRequests)
      BY <2>4, PreforkAssumption DEF Turn, Alive, TurnInv, Recycled, TypeOK
    <3>2. Turns!TakeOne(p)
      BY <2>2, <2>4, <3>1 DEF Turns!TakeOne
    <3> QED
      BY <1>2, <3>2
  <2>5. CASE wpc[p] = "serve" /\ wpc'[p] = "report" /\ reqs'[p] = reqs[p]
    <3>1. Turn(p) = "working" /\ Turn(p)' = "resting"
      BY <2>5 DEF Turn, Alive
    <3>2. Turns!Done(p)
      BY <2>2, <2>5, <3>1 DEF Turns!Done
    <3> QED
      BY <1>2, <3>2
  <2>6. CASE wpc'[p] = "zombie" /\ reqs'[p] = 0
    <3>1. Turn(p) # "gone" /\ Turn(p)' = "gone"
      BY <2>1, <2>6 DEF Turn, Alive
    <3>2. Turns!Leave(p)
      BY <2>2, <2>6, <3>1 DEF Turns!Leave
    <3> QED
      BY <1>2, <3>2
  <2> QED
    BY <2>1, <2>3, <2>4, <2>5, <2>6 DEF WorkerTurn
<1>8. CASE ControlStep
  BY <1>1, <1>8, ControlFrame DEF workerVars
<1>9. CASE SpawnFails \/ RecvByte \/ RecvEof \/ Shrink \/ CloseAll \/ MasterDies
           \/ (\E c \in Conns : Arrive(c)) \/ UNCHANGED vars
  BY <1>1, <1>9 DEF SpawnFails, RecvByte, RecvEof, Shrink, CloseAll, MasterDies, Arrive, vars, workerVars
<1> QED
  BY <1>4, <1>5, <1>6, <1>7, <1>8, <1>9, StepKinds

\* The processes that the master forks, signals, kills and waits for are workers
\* that take turns, however often a pid is used again.
THEOREM TurnsTaken == Spec => WorkersTakeTurns
<1>1. Init => TurnInv /\ Turns!TInit
  BY PreforkAssumption DEF Init, TurnInv, Alive, Recycled, Turns!TInit, Turn
<1> QED
  BY <1>1, TypeInvariant, TurnStep, TurnsStep, PTL DEF Spec, WorkersTakeTurns, Turns!TSpec
=============================================================================
