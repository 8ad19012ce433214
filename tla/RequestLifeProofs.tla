------------------------- MODULE RequestLifeProofs -------------------------
(***************************************************************************)
(* What outlives a request stays sound for any number of requests, script  *)
(* versions and edits, although the alarm may end any step.                *)
(***************************************************************************)
EXTENDS RequestLife, SequenceTheorems, TLAPS

PieceKinds == {"app", "log", "error", "timeout"}

\* Where the application of the request in progress has not run.
Early == {"root", "lookup", "open", "import", "stat", "find", "fail"}

\* Where the worker is among its requests.
ReqInv ==
  /\ rpc # "idle" => req \in Reqs /\ file \in seen
  /\ file \in past
  /\ \A q \in Reqs : q > req => refs[q] = {} /\ out[q] = <<>>
  /\ \A q \in timedOut : q < req \/ (q = req /\ rpc = "idle")

\* The module's code is that of a file seen in this request.
Current == \E f \in seen : f.code = cached.code

\* What the alarm may leave in the module cache.
ModuleInv ==
  /\ rpc \in {"import", "stat"} => cached \in Modules /\ Current
  /\ rpc = "stat" => cached.whole
  /\ cached.mtime # NoTime => cached.whole
  /\ rpc \in {"find", "app"} =>
       cached.whole /\ (Current \/ Raced \/ Alike(cached.mtime))

\* Which objects still point to their request.
ObjectInv ==
  /\ ExpiredAfterUse
  /\ rpc \in Early \cup {"disarm"} => refs[req] = {}
  /\ rpc = "close" => refs[req] \subseteq {"log"}

\* An error page is put out only by a request whose application has not run.
OutInv ==
  /\ PagesLast
  /\ rpc \in Early => \A j \in 1 .. Len(out[req]) : out[req][j].by # req

LifeInv == TypeOK /\ ReqInv /\ ModuleInv /\ ObjectInv /\ OutInv /\ NoStrayAlarm

-----------------------------------------------------------------------------
(* Initially *)

LEMMA LifeInit == Init => LifeInv
<1> SUFFICES ASSUME Init PROVE LifeInv
  OBVIOUS
<1>1. armed \in BOOLEAN /\ recvAlarm \in BOOLEAN
  BY Zenon DEF Init
<1>2. out \in [Reqs -> Seq(Pieces)] /\ \A q \in Reqs : Len(out[q]) = 0
  BY EmptySeq DEF Init
<1>3. TypeOK
  BY <1>1, <1>2, LifeAssumption DEF Init, TypeOK, PCs
<1>4. ReqInv /\ ModuleInv /\ ObjectInv
  BY LifeAssumption DEF Init, ReqInv, ModuleInv, ObjectInv, ExpiredAfterUse, NoModule, Reqs, Early
<1>5. OutInv /\ NoStrayAlarm
  BY <1>2 DEF Init, OutInv, PagesLast, NoStrayAlarm, Early
<1> QED
  BY <1>3, <1>4, <1>5 DEF LifeInv

-----------------------------------------------------------------------------
(* Types *)

\* A piece put out is the request's last.
LEMMA PutPiece ==
  ASSUME TypeOK, req \in Reqs, NEW by \in Reqs, NEW what \in PieceKinds, Put(by, what)
  PROVE  /\ out' \in [Reqs -> Seq(Pieces)]
         /\ \A q \in Reqs : q # req => out'[q] = out[q]
         /\ Len(out'[req]) = Len(out[req]) + 1 /\ Len(out[req]) \in Nat
         /\ \A i \in 1 .. Len(out[req]) : out'[req][i] = out[req][i]
         /\ out'[req][Len(out[req]) + 1] = [by |-> by, what |-> what]
<1> DEFINE piece == [by |-> by, what |-> what]
<1>1. piece \in Pieces /\ out[req] \in Seq(Pieces)
  BY DEF Pieces, PieceKinds, TypeOK
<1>2. out' = [out EXCEPT ![req] = Append(out[req], piece)]
  BY DEF Put
<1> HIDE DEF piece
<1>3. /\ Append(out[req], piece) \in Seq(Pieces)
      /\ Len(Append(out[req], piece)) = Len(out[req]) + 1 /\ Len(out[req]) \in Nat
      /\ \A i \in 1 .. Len(out[req]) : Append(out[req], piece)[i] = out[req][i]
      /\ Append(out[req], piece)[Len(out[req]) + 1] = piece
  BY <1>1
<1>4. out' \in [Reqs -> Seq(Pieces)] /\ out'[req] = Append(out[req], piece)
  BY <1>2, <1>3 DEF TypeOK
<1> QED
  BY <1>2, <1>3, <1>4 DEF TypeOK, piece

\* The steps, by what they put out.
PutsOut(by, what) ==
  /\ req \in Reqs
  /\ by \in Reqs
  /\ req' = req
  /\ Put(by, what)
  /\ by # req => by \in kept /\ refs[by] # {}
  /\ \/ what \in {"app", "log"} /\ rpc = "app" /\ rpc' = "app" /\ timedOut' = timedOut
     \/ what \in {"app", "log"} /\ by # req /\ rpc = "import" /\ rpc' = "import" /\ timedOut' = timedOut
     \/ what = "error" /\ rpc = "fail" /\ rpc' = "disarm" /\ timedOut' = timedOut
     \/ what = "timeout" /\ rpc # "idle" /\ rpc' = "idle" /\ timedOut' = timedOut \cup {req}

LEMMA OutKinds ==
  ASSUME TypeOK, ReqInv, [Next]_lvars
  PROVE  (\E by \in Reqs, what \in PieceKinds : PutsOut(by, what)) \/ (UNCHANGED <<out, timedOut>>)
<1> USE DEF ReqInv
<1>1. CASE AppOutput
  <2>1. PutsOut(req, "app")
    BY <1>1 DEF AppOutput, PutsOut, alrm
  <2> QED
    BY <2>1 DEF PutsOut, PieceKinds
<1>2. CASE Fail
  <2>1. PutsOut(req, "error")
    BY <1>2 DEF Fail, Goto, PutsOut, alrm
  <2> QED
    BY <2>1 DEF PutsOut, PieceKinds
<1>3. CASE Timeout
  <2>1. CASE recvAlarm
    BY <1>3, <2>1 DEF Timeout
  <2>2. CASE ~recvAlarm
    <3>1. PutsOut(req, "timeout")
      BY <1>3, <2>2 DEF Timeout, PutsOut
    <3> QED
      BY <3>1 DEF PutsOut, PieceKinds
  <2> QED
    BY <2>1, <2>2
<1>4. CASE \E q \in Reqs : UseKept(q)
  <2> PICK q \in Reqs : UseKept(q)
    BY <1>4
  <2>1. CASE out' = out
    BY <2>1 DEF UseKept, alrm
  <2>2. CASE out' # out
    <3>1. PutsOut(q, "app") \/ PutsOut(q, "log")
      BY <2>2 DEF UseKept, PutsOut, alrm
    <3> QED
      BY <3>1 DEF PutsOut, PieceKinds
  <2> QED
    BY <2>1, <2>2
<1>5. CASE Begin \/ (OwnSteps /\ ~Fail) \/ ImportEnds \/ ImportRaises \/ AppKeeps \/ AppEnds
           \/ (\E f \in Files \cup {NoFile} : Edit(f)) \/ Over \/ UNCHANGED lvars
  BY <1>5 DEF Begin, OwnSteps, Disarm, Root, LookupFresh, LookupStale, Open, OpenFails, Stat, FindApp,
     FindNoApp, Wipe, CloseLog, ImportEnds, ImportRaises, AppKeeps, AppEnds, Edit, Over, lvars, alrm
<1> QED
  BY <1>1, <1>2, <1>3, <1>4, <1>5 DEF Next, ScriptSteps, OwnSteps

LEMMA OutType ==
  ASSUME TypeOK, ReqInv, [Next]_lvars
  PROVE  out' \in [Reqs -> Seq(Pieces)]
BY OutKinds, PutPiece DEF PutsOut, TypeOK

\* Entries of sys.modules stay entries when one field is set.
LEMMA ModuleFields ==
  ASSUME NEW m \in Modules
  PROVE  /\ [m EXCEPT !.whole = TRUE] \in Modules
         /\ \A t \in Times \cup {NoFile.time} : [m EXCEPT !.mtime = t] \in Modules
         /\ [m EXCEPT !.whole = TRUE].code = m.code
         /\ [m EXCEPT !.whole = TRUE].whole
         /\ \A v : /\ [m EXCEPT !.mtime = v].code = m.code
                  /\ [m EXCEPT !.mtime = v].mtime = v
                  /\ [m EXCEPT !.mtime = v].whole = m.whole
BY DEF Modules

\* What stat() and the parser get from the file.
LEMMA FileFields ==
  ASSUME NEW f \in Files \cup {NoFile}
  PROVE  /\ f.time \in Times \cup {NoFile.time}
         /\ f.time # NoTime
         /\ f # NoFile => f.code \in Versions
BY LifeAssumption DEF Files, NoFile, NoTime

LEMMA TypeStep ==
  ASSUME TypeOK, ReqInv, ModuleInv, [Next]_lvars
  PROVE  TypeOK'
<1>0. SUFFICES /\ rpc' \in PCs /\ req' \in 0 .. MaxReqs
               /\ armed' \in BOOLEAN /\ recvAlarm' \in BOOLEAN /\ timedOut' \in SUBSET Reqs
               /\ file' \in Files \cup {NoFile} /\ edits' \in 0 .. MaxEdits
               /\ seen' \in SUBSET (Files \cup {NoFile}) /\ past' \in SUBSET (Files \cup {NoFile})
               /\ cached' \in Modules \cup {NoModule}
               /\ refs' \in [Reqs -> SUBSET Objects] /\ kept' \in SUBSET Reqs
  BY OutType DEF TypeOK
<1> USE DEF TypeOK, alrm, disk, objs
<1>1. CASE Begin
  <2>1. armed' \in BOOLEAN /\ recvAlarm' \in BOOLEAN
    BY <1>1, LifeAssumption, Zenon DEF Begin, ResetAlarm
  <2> QED
    BY <1>1, <2>1, LifeAssumption DEF Begin, PCs
<1>2. CASE Timeout
  BY <1>2 DEF Timeout, PCs, ReqInv
<1>3. CASE Open \/ ImportEnds \/ ImportRaises \/ Stat \/ LookupStale
  <2>1. cached' \in Modules \cup {NoModule}
    <3>1. CASE Open
      BY <3>1, FileFields DEF Open, Modules
    <3>2. CASE ImportEnds
      BY <3>2, ModuleFields DEF ImportEnds, Goto, ModuleInv
    <3>3. CASE Stat
      BY <3>3, ModuleFields, FileFields DEF Stat, Goto, ModuleInv
    <3>4. CASE ImportRaises \/ LookupStale
      BY <3>4 DEF ImportRaises, LookupStale
    <3> QED
      BY <1>3, <3>1, <3>2, <3>3, <3>4
  <2> QED
    BY <1>3, <2>1 DEF Open, ImportEnds, ImportRaises, Stat, LookupStale, Goto, PCs
<1>4. CASE Disarm \/ Root \/ LookupFresh \/ OpenFails \/ Fail \/ FindApp \/ FindNoApp \/ Wipe \/ CloseLog
  BY <1>4 DEF Disarm, Root, LookupFresh, OpenFails, Fail, FindApp, FindNoApp, Wipe, Wiped, CloseLog,
     Goto, PCs, Objects
<1>5. CASE AppOutput \/ AppKeeps \/ AppEnds \/ \E q \in Reqs : UseKept(q)
  BY <1>5 DEF AppOutput, AppKeeps, AppEnds, UseKept, Goto, PCs, ReqInv
<1>6. CASE \E f \in Files \cup {NoFile} : Edit(f)
  BY <1>6, LifeAssumption DEF Edit
<1>7. CASE Over \/ UNCHANGED lvars
  BY <1>7 DEF Over, lvars
<1> QED
  BY <1>1, <1>2, <1>3, <1>4, <1>5, <1>6, <1>7 DEF Next, OwnSteps, ScriptSteps

-----------------------------------------------------------------------------
(* The parts of the invariant *)

\* What leaves the request in progress: its start, and its end.
LEMMA ReqStep ==
  ASSUME TypeOK, ReqInv, [Next]_lvars
  PROVE  ReqInv'
<1> USE DEF TypeOK, ReqInv, alrm, disk, objs, Reqs
<1>0. \A q \in Reqs : q > req => out'[q] = out[q]
  <2> SUFFICES ASSUME NEW q \in Reqs, q > req PROVE out'[q] = out[q]
    OBVIOUS
  <2>1. q # req
    OBVIOUS
  <2>2. ASSUME NEW by \in Reqs, NEW what \in PieceKinds, PutsOut(by, what)
        PROVE  out'[q] = out[q]
    BY <2>1, <2>2, PutPiece DEF PutsOut
  <2> QED
    BY <2>2, OutKinds
<1>1. CASE Begin
  BY <1>0, <1>1, LifeAssumption DEF Begin
<1>2. CASE Timeout
  BY <1>0, <1>2 DEF Timeout
<1>3. CASE Open \/ ImportEnds \/ ImportRaises \/ Stat \/ LookupStale
  BY <1>0, <1>3 DEF Open, ImportEnds, ImportRaises, Stat, LookupStale, Goto
<1>4. CASE Disarm \/ Root \/ LookupFresh \/ OpenFails \/ Fail \/ FindApp \/ FindNoApp \/ Wipe \/ CloseLog
  <2>1. \A q \in Reqs : q > req => refs'[q] = refs[q]
    <3>1. refs' = refs \/ \E S : refs' = [refs EXCEPT ![req] = S]
      BY <1>4 DEF Disarm, Root, LookupFresh, OpenFails, Fail, FindApp, FindNoApp, Wipe, CloseLog
    <3>2. \A q \in Reqs : q > req => q # req
      OBVIOUS
    <3> QED
      BY <3>1, <3>2
  <2>2. /\ rpc # "idle" /\ req' = req
        /\ UNCHANGED <<file, seen, past, timedOut>>
    BY <1>4 DEF Disarm, Root, LookupFresh, OpenFails, Fail, FindApp, FindNoApp, Wipe, CloseLog, Goto
  <2> QED
    BY <1>0, <2>1, <2>2
<1>5. CASE AppOutput \/ AppKeeps \/ AppEnds \/ \E q \in Reqs : UseKept(q)
  BY <1>0, <1>5 DEF AppOutput, AppKeeps, AppEnds, UseKept, Goto
<1>6. CASE \E f \in Files \cup {NoFile} : Edit(f)
  BY <1>0, <1>6 DEF Edit
<1>7. CASE Over \/ UNCHANGED lvars
  BY <1>0, <1>7 DEF Over, lvars
<1> QED
  BY <1>1, <1>2, <1>3, <1>4, <1>5, <1>6, <1>7 DEF Next, OwnSteps, ScriptSteps

\* A module gets its time only after its code has run, and from the file.
LEMMA ModuleStep ==
  ASSUME TypeOK, ReqInv, ModuleInv, [Next]_lvars
  PROVE  ModuleInv'
<1> USE DEF ModuleInv, alrm, disk, objs
<1> DEFINE Sound == Current \/ Raced \/ Alike(cached.mtime)
<1>0. UNCHANGED <<cached, seen, past>> => Current' = Current /\ Sound' = Sound
  BY DEF Current, Raced, Alike
<1>1. CASE Begin
  BY <1>1 DEF Begin
<1>2. CASE Timeout
  BY <1>0, <1>2 DEF Timeout
<1>3. CASE Open \/ ImportEnds \/ ImportRaises \/ Stat \/ LookupStale
  <2>1. CASE Open
    BY <2>1, FileFields DEF Open, Goto, Modules, TypeOK, ReqInv, Current
  <2>2. CASE ImportEnds
    BY <2>2, ModuleFields DEF ImportEnds, Goto, Current
  <2>3. CASE Stat
    BY <2>3, ModuleFields, FileFields DEF Stat, Goto, Current, TypeOK
  <2>4. CASE ImportRaises \/ LookupStale
    BY <2>4 DEF ImportRaises, LookupStale, Goto, NoModule
  <2> QED
    BY <1>3, <2>1, <2>2, <2>3, <2>4
<1>4. CASE LookupFresh
  <2>1. cached.mtime = file.time /\ cached.mtime # NoTime /\ file \in seen /\ file \in past
    BY <1>4 DEF LookupFresh, ReloadRequired, Goto, ReqInv
  <2>2. file.code = cached.code => Current
    BY <2>1 DEF Current
  <2>3. ASSUME file.code # cached.code PROVE Raced \/ Alike(cached.mtime)
    <3> DEFINE own == [code |-> cached.code, time |-> cached.mtime]
    <3>1. own.time = cached.mtime /\ own.code = cached.code
      OBVIOUS
    <3>2. own \in past => Alike(cached.mtime)
      <4> HIDE DEF own
      <4> QED
        BY <2>1, <2>3, <3>1 DEF Alike
    <3> QED
      BY <3>2 DEF Raced
  <2>4. Sound /\ cached.whole
    BY <2>1, <2>2, <2>3
  <2>5. UNCHANGED <<cached, seen, past>> /\ rpc' = "find"
    BY <1>4 DEF LookupFresh, Goto
  <2> QED
    BY <1>0, <2>4, <2>5
<1>5. CASE Disarm \/ Root \/ OpenFails \/ Fail \/ FindApp \/ FindNoApp \/ Wipe \/ CloseLog
  BY <1>0, <1>5 DEF Disarm, Root, OpenFails, Fail, FindApp, FindNoApp, Wipe, CloseLog, Goto
<1>6. CASE AppOutput \/ AppKeeps \/ AppEnds \/ \E q \in Reqs : UseKept(q)
  BY <1>0, <1>6 DEF AppOutput, AppKeeps, AppEnds, UseKept, Goto
<1>7. CASE \E f \in Files \cup {NoFile} : Edit(f)
  <2> PICK f \in Files \cup {NoFile} : Edit(f)
    BY <1>7
  <2>1. /\ UNCHANGED <<rpc, cached>>
        /\ seen' = seen \cup {f} /\ past' = past \cup {f}
    BY DEF Edit
  <2>2. (Current => Current') /\ (Alike(cached.mtime) => Alike(cached.mtime)')
    BY <2>1 DEF Current, Alike
  <2>3. Raced => Raced' \/ Current'
    BY <2>1 DEF Raced, Current
  <2> QED
    BY <2>1, <2>2, <2>3
<1>8. CASE Over \/ UNCHANGED lvars
  BY <1>0, <1>8 DEF Over, lvars
<1> QED
  BY <1>1, <1>2, <1>3, <1>4, <1>5, <1>6, <1>7, <1>8 DEF Next, OwnSteps, ScriptSteps

\* Every way out of a request but the alarm's passes "close" or never made objects.
LEMMA ObjectStep ==
  ASSUME TypeOK, ReqInv, ObjectInv, [Next]_lvars
  PROVE  ObjectInv'
<1> USE DEF TypeOK, ReqInv, ObjectInv, ExpiredAfterUse, Early, alrm, disk, objs
<1>1. CASE Begin
  <2>1. req' = req + 1 /\ req' \in Reqs /\ rpc = "idle" /\ rpc' = "root" /\ UNCHANGED <<refs, timedOut>>
    BY <1>1, LifeAssumption DEF Begin, Reqs
  <2>2. refs[req'] = {}
    BY <2>1 DEF Reqs
  <2> QED
    BY <2>1, <2>2
<1>2. CASE Timeout
  BY <1>2 DEF Timeout
<1>3. CASE Open \/ ImportEnds \/ ImportRaises \/ Stat \/ LookupStale \/ LookupFresh
  BY <1>3 DEF Open, ImportEnds, ImportRaises, Stat, LookupStale, LookupFresh, Goto
<1>4. CASE Disarm \/ Root \/ OpenFails \/ Fail \/ FindNoApp
  BY <1>4 DEF Disarm, Root, OpenFails, Fail, FindNoApp, Goto
<1>5. CASE FindApp \/ Wipe \/ CloseLog
  BY <1>5 DEF FindApp, Wipe, Wiped, CloseLog, Goto, Objects
<1>6. CASE AppOutput \/ AppKeeps \/ AppEnds \/ \E q \in Reqs : UseKept(q)
  BY <1>6 DEF AppOutput, AppKeeps, AppEnds, UseKept, Goto
<1>7. CASE \E f \in Files \cup {NoFile} : Edit(f)
  BY <1>7 DEF Edit
<1>8. CASE Over \/ UNCHANGED lvars
  BY <1>8 DEF Over, lvars
<1> QED
  BY <1>1, <1>2, <1>3, <1>4, <1>5, <1>6, <1>7, <1>8 DEF Next, OwnSteps, ScriptSteps

\* The page for an error is the only piece a request itself puts out before its
\* application runs, and the timeout page its last.
LEMMA OutStep ==
  ASSUME TypeOK, ReqInv, OutInv, [Next]_lvars
  PROVE  OutInv'
<1>1. CASE UNCHANGED <<out, timedOut>>
  <2>1. PagesLast'
    BY <1>1 DEF OutInv, PagesLast
  <2>2. ASSUME rpc' \in Early, NEW j \in 1 .. Len(out'[req'])
        PROVE  out'[req'][j].by # req'
    <3>1. CASE Begin
      <4>1. req' \in Reqs /\ req' > req
        BY <3>1, LifeAssumption DEF Begin, Reqs, TypeOK
      <4>2. out[req'] = <<>>
        BY <4>1 DEF ReqInv
      <4> QED
        BY <1>1, <2>2, <4>2
    <3>2. CASE ~Begin
      <4>1. rpc \in Early /\ req' = req
        BY <2>2, <3>2 DEF Early, Next, OwnSteps, ScriptSteps, Timeout, Disarm, Root, LookupFresh, LookupStale,
           Open, OpenFails, Stat, Fail, FindApp, FindNoApp, Wipe, CloseLog, ImportEnds, ImportRaises,
           AppOutput, AppKeeps, AppEnds, UseKept, Edit, Over, Goto, lvars
      <4> QED
        BY <1>1, <2>2, <4>1 DEF OutInv
    <3> QED
      BY <3>1, <3>2
  <2> QED
    BY <2>1, <2>2 DEF OutInv
<1>2. ASSUME NEW by \in Reqs, NEW what \in PieceKinds, PutsOut(by, what)
      PROVE  OutInv'
  <2> DEFINE n == Len(out[req])
  <2>1. /\ n \in Nat /\ Len(out'[req]) = n + 1
        /\ \A i \in 1 .. n : out'[req][i] = out[req][i]
        /\ out'[req][n + 1] = [by |-> by, what |-> what]
        /\ \A q \in Reqs : q # req => out'[q] = out[q]
    BY <1>2, PutPiece DEF PutsOut
  <2> HIDE DEF n
  <2>2. \A i \in 1 .. n + 1 : i = n + 1 \/ i \in 1 .. n
    BY <2>1
  <2>3. req \notin timedOut /\ timedOut \subseteq timedOut' /\ req' = req /\ req \in Reqs
    BY <1>2 DEF PutsOut, ReqInv, TypeOK, Early
  <2>4. ASSUME NEW i \in 1 .. n + 1, out'[req][i].what = "timeout"
        PROVE  i = n + 1 /\ req \in timedOut'
    <3>1. i \in 1 .. n => out[req][i].what # "timeout"
      BY <2>3 DEF OutInv, PagesLast, n
    <3>2. i = n + 1
      BY <2>1, <2>2, <2>4, <3>1
    <3> QED
      BY <1>2, <2>1, <2>4, <3>2 DEF PutsOut
  <2>5. ASSUME NEW i \in 1 .. n + 1, out'[req][i].what = "error"
        PROVE  \A j \in 1 .. i - 1 : out'[req][j].by # req
    <3>1. CASE i \in 1 .. n
      <4>1. out[req][i].what = "error"
        BY <2>1, <2>5, <3>1
      <4>2. \A j \in 1 .. i - 1 : out[req][j].by # req
        BY <2>3, <3>1, <4>1 DEF OutInv, PagesLast, n
      <4>3. 1 .. i - 1 \subseteq 1 .. n
        BY <2>1, <3>1
      <4> QED
        BY <2>1, <4>2, <4>3
    <3>2. CASE i = n + 1
      <4>1. rpc \in Early
        BY <1>2, <2>1, <2>5, <3>2 DEF PutsOut, Early
      <4> QED
        BY <2>1, <3>2, <4>1 DEF OutInv, n
    <3> QED
      BY <2>2, <3>1, <3>2
  <2>6. PagesLast'
    <3> SUFFICES ASSUME NEW q \in Reqs, NEW i \in 1 .. Len(out'[q])
                 PROVE  /\ out'[q][i].what = "timeout" => i = Len(out'[q]) /\ q \in timedOut'
                        /\ out'[q][i].what = "error" => \A j \in 1 .. i - 1 : out'[q][j].by # q
      BY DEF PagesLast
    <3>1. CASE q = req
      BY <2>1, <2>4, <2>5, <3>1
    <3>2. CASE q # req
      BY <2>1, <2>3, <3>2 DEF OutInv, PagesLast
    <3> QED
      BY <3>1, <3>2
  <2>7. ASSUME rpc' \in Early, NEW j \in 1 .. Len(out'[req'])
        PROVE  out'[req'][j].by # req'
    <3>1. rpc = "import" /\ by # req
      BY <1>2, <2>7 DEF PutsOut, Early
    <3>2. j = n + 1 \/ j \in 1 .. n
      BY <2>1, <2>2, <2>3, <2>7
    <3>3. \A i \in 1 .. n : out[req][i].by # req
      BY <3>1 DEF OutInv, Early, n
    <3> QED
      BY <2>1, <2>3, <3>1, <3>2, <3>3
  <2> QED
    BY <2>6, <2>7 DEF OutInv
<1> QED
  BY <1>1, <1>2, OutKinds

\* The alarm is off wherever the worker rests.
LEMMA AlarmStep ==
  ASSUME NoStrayAlarm, [Next]_lvars
  PROVE  NoStrayAlarm'
BY DEF NoStrayAlarm, Next, Begin, OwnSteps, ScriptSteps, Timeout, Disarm, Root, LookupFresh, LookupStale,
       Open, OpenFails, Stat, Fail, FindApp, FindNoApp, Wipe, CloseLog, ImportEnds, ImportRaises,
       AppOutput, AppKeeps, AppEnds, UseKept, Edit, Over, Goto, alrm, lvars

\* An alarm that is on would jump.
LEMMA TimedStep ==
  ASSUME NoStrayAlarm, AlwaysTimed, [Next]_lvars
  PROVE  AlwaysTimed'
<1> USE DEF NoStrayAlarm, AlwaysTimed, alrm
<1>1. CASE Begin
  BY <1>1, LifeAssumption DEF Begin, ResetAlarm
<1>2. CASE Timeout
  BY <1>2 DEF Timeout
<1>3. CASE OwnSteps
  BY <1>3 DEF OwnSteps, Disarm, Root, LookupFresh, LookupStale, Open, OpenFails, Stat, Fail, FindApp,
     FindNoApp, Wipe, CloseLog, Goto
<1>4. CASE ScriptSteps
  BY <1>4 DEF ScriptSteps, ImportEnds, ImportRaises, AppOutput, AppKeeps, AppEnds, UseKept, Goto
<1>5. CASE (\E f \in Files \cup {NoFile} : Edit(f)) \/ Over \/ UNCHANGED lvars
  BY <1>5 DEF Edit, Over, lvars
<1> QED
  BY <1>1, <1>2, <1>3, <1>4, <1>5 DEF Next

\* What is kept, and which requests timed out, is never taken back; without a
\* limit none times out, and an application that keeps nothing has nothing.
LEMMA HistoryGrows ==
  ASSUME [Next]_lvars
  PROVE  /\ kept \subseteq kept' /\ timedOut \subseteq timedOut'
         /\ ~Keeps => kept' = kept
         /\ ~armed => timedOut' = timedOut
         /\ ~TimeLimit /\ ~armed => ~armed'
<1> USE DEF alrm, objs
<1>1. CASE Begin
  BY <1>1 DEF Begin, ResetAlarm
<1>2. CASE Timeout
  BY <1>2 DEF Timeout
<1>3. CASE OwnSteps
  BY <1>3 DEF OwnSteps, Disarm, Root, LookupFresh, LookupStale, Open, OpenFails, Stat, Fail, FindApp,
     FindNoApp, Wipe, CloseLog
<1>4. CASE ScriptSteps
  BY <1>4 DEF ScriptSteps, ImportEnds, ImportRaises, AppOutput, AppKeeps, AppEnds, UseKept
<1>5. CASE (\E f \in Files \cup {NoFile} : Edit(f)) \/ Over \/ UNCHANGED lvars
  BY <1>5 DEF Edit, Over, lvars
<1> QED
  BY <1>1, <1>2, <1>3, <1>4, <1>5 DEF Next

\* A piece by another request's object is put out only through an object that
\* still points to its request, and such a request timed out.
LEMMA StrayStep ==
  ASSUME TypeOK, ReqInv, ExpiredAfterUse, StrayFromTimedOut, [Next]_lvars
  PROVE  StrayFromTimedOut'
<1>0. kept \cap timedOut \subseteq kept' \cap timedOut'
  BY HistoryGrows
<1>1. CASE out' = out
  BY <1>0, <1>1 DEF StrayFromTimedOut
<1>2. ASSUME NEW by \in Reqs, NEW what \in PieceKinds, PutsOut(by, what)
      PROVE  StrayFromTimedOut'
  <2> DEFINE n == Len(out[req])
  <2>1. /\ n \in Nat /\ Len(out'[req]) = n + 1
        /\ \A i \in 1 .. n : out'[req][i] = out[req][i]
        /\ out'[req][n + 1] = [by |-> by, what |-> what]
        /\ \A q \in Reqs : q # req => out'[q] = out[q]
    BY <1>2, PutPiece DEF PutsOut
  <2> HIDE DEF n
  <2>2. \A i \in 1 .. n + 1 : i = n + 1 \/ i \in 1 .. n
    BY <2>1
  <2>3. by # req => by \in timedOut \cap kept
    BY <1>2 DEF PutsOut, ExpiredAfterUse
  <2> SUFFICES ASSUME NEW q \in Reqs, NEW i \in 1 .. Len(out'[q]), out'[q][i].by # q
               PROVE  out'[q][i].by \in timedOut \cap kept
    BY <1>0 DEF StrayFromTimedOut
  <2>4. CASE q # req
    BY <2>1, <2>4 DEF StrayFromTimedOut
  <2>5. CASE q = req /\ i = n + 1
    BY <2>1, <2>3, <2>5
  <2>6. CASE q = req /\ i \in 1 .. n
    <3>1. out'[q][i] = out[q][i] /\ i \in 1 .. Len(out[q])
      BY <2>1, <2>6 DEF n
    <3> QED
      BY <3>1 DEF StrayFromTimedOut
  <2> QED
    BY <2>1, <2>2, <2>4, <2>5, <2>6
<1> QED
  BY <1>1, <1>2, OutKinds

LEMMA LifeInvariant == Spec => []LifeInv
<1>1. LifeInv /\ [Next]_lvars => LifeInv'
  BY TypeStep, ReqStep, ModuleStep, ObjectStep, OutStep, AlarmStep DEF LifeInv
<1> QED
  BY <1>1, LifeInit, PTL DEF Spec

-----------------------------------------------------------------------------
(* The theorems *)

\* The variables keep their types; above all an entry of sys.modules is always
\* made from a file that was there.
THEOREM LifeTypes == Spec => []TypeOK
<1>1. LifeInv => TypeOK
  BY DEF LifeInv
<1> QED
  BY <1>1, LifeInvariant, PTL

\* Only a request that timed out leaves objects that point to it.
THEOREM ObjectsExpire == Spec => []ExpiredAfterUse
<1>1. LifeInv => ExpiredAfterUse
  BY DEF LifeInv, ObjectInv
<1> QED
  BY <1>1, LifeInvariant, PTL

\* A module whose loading the alarm cut short is never run.
THEOREM WholeModules == Spec => []RunsWhole
<1>1. LifeInv => RunsWhole
  BY DEF LifeInv, ModuleInv, RunsWhole
<1> QED
  BY <1>1, LifeInvariant, PTL

\* The code that runs is the file's, or the module's time misleads: the load was
\* raced, or two contents had the same time.
THEOREM FreshCode == Spec => []StaleOnlyIfMisled
<1>1. LifeInv => StaleOnlyIfMisled
  BY DEF LifeInv, ModuleInv, Current, StaleOnlyIfMisled
<1> QED
  BY <1>1, LifeInvariant, PTL

\* No response has an error page behind output of its application, and none goes
\* on behind a timeout page.
THEOREM PagesApart == Spec => []PagesLast
<1>1. LifeInv => PagesLast
  BY DEF LifeInv, OutInv
<1> QED
  BY <1>1, LifeInvariant, PTL

\* No alarm goes off between two requests.
THEOREM AlarmsEnd == Spec => []NoStrayAlarm
<1>1. LifeInv => NoStrayAlarm
  BY DEF LifeInv
<1> QED
  BY <1>1, LifeInvariant, PTL

\* Whatever was cut short before it, a request with a time limit is under it from
\* its first step to its last.
THEOREM LimitAlwaysOn == Spec => []AlwaysTimed
<1>1. Init => AlwaysTimed
  BY DEF Init, AlwaysTimed
<1> QED
  BY <1>1, TimedStep, AlarmsEnd, PTL DEF Spec

\* The alarm and the request it is for begin and end together.
THEOREM AlarmsFit == Spec => []AlarmFits
BY AlarmsEnd, LimitAlwaysOn, PTL DEF AlarmFits

\* Another request's piece in a response comes from a request that timed out and
\* that the application kept.
THEOREM StrayOutput == Spec => []StrayFromTimedOut
<1>1. Init => StrayFromTimedOut
  BY EmptySeq DEF Init, StrayFromTimedOut
<1>2. LifeInv => TypeOK /\ ReqInv /\ ExpiredAfterUse
  BY DEF LifeInv, ObjectInv
<1> QED
  BY <1>1, <1>2, StrayStep, LifeInvariant, PTL DEF Spec

\* OwnOutput fails only for the two together: with no time limit, or with an
\* application that keeps none of its objects, every response is the work of its
\* own request.
THEOREM OwnOutputOtherwise == (~TimeLimit \/ ~Keeps) /\ Spec => []OwnOutput
<1>1. StrayFromTimedOut /\ (kept = {} \/ timedOut = {}) => OwnOutput
  BY DEF StrayFromTimedOut, OwnOutput
<1>2. Init => kept = {} /\ timedOut = {} /\ ~armed
  BY DEF Init
<1>3. CASE ~TimeLimit
  <2>1. timedOut = {} /\ ~armed /\ [Next]_lvars => (timedOut = {} /\ ~armed)'
    BY <1>3, HistoryGrows
  <2> QED
    BY <1>1, <1>2, <2>1, StrayOutput, PTL DEF Spec
<1>4. CASE ~Keeps
  <2>1. kept = {} /\ [Next]_lvars => (kept = {})'
    BY <1>4, HistoryGrows
  <2> QED
    BY <1>1, <1>2, <2>1, StrayOutput, PTL DEF Spec
<1> QED
  BY <1>3, <1>4

-----------------------------------------------------------------------------
(* The worker's turns *)

\* Begin takes a request, the ways back to "idle" end it, and only a kept object
\* can take the worker down.
LEMMA LifeTurn ==
  ASSUME TypeOK, ReqInv, [Next]_lvars
  PROVE  \/ rpc = "idle" /\ req < MaxReqs /\ rpc' \notin {"idle", "crashed"} /\ req' = req + 1
         \/ rpc \notin {"idle", "crashed"} /\ rpc' = "idle" /\ req' = req
         \/ rpc # "crashed" /\ rpc' = "crashed"
         \/ Turn' = Turn /\ req' = req
<1> USE DEF Turn
<1>1. CASE Begin
  BY <1>1 DEF Begin
<1>2. CASE Timeout
  BY <1>2 DEF Timeout
<1>3. CASE OwnSteps
  BY <1>3 DEF OwnSteps, Disarm, Root, LookupFresh, LookupStale, Open, OpenFails, Stat, Fail, FindApp,
     FindNoApp, Wipe, CloseLog, Goto
<1>4. CASE ScriptSteps
  BY <1>4 DEF ScriptSteps, ImportEnds, ImportRaises, AppOutput, AppKeeps, AppEnds, UseKept, Goto
<1>5. CASE (\E f \in Files \cup {NoFile} : Edit(f)) \/ Over \/ UNCHANGED lvars
  BY <1>5 DEF Edit, Over, lvars
<1> QED
  BY <1>1, <1>2, <1>3, <1>4, <1>5 DEF Next

\* One step of the turn of the only worker.
LEMMA OneTurn ==
  ASSUME NEW t, NEW n, Turn' = t, n = IF rpc' = "crashed" THEN 0 ELSE req'
  PROVE  Turns!Becomes(1, t, n)
BY DEF Turns!Becomes

LEMMA LifeTurnStep ==
  ASSUME TypeOK, ReqInv, [Next]_lvars
  PROVE  Turns!TNext \/ UNCHANGED Turns!tvars
<1>1. CASE rpc = "idle" /\ req < MaxReqs /\ rpc' \notin {"idle", "crashed"} /\ req' = req + 1
  <2>1. Turns!Becomes(1, "working", req + 1)
    BY <1>1, OneTurn DEF Turn
  <2>2. Turns!TakeOne(1)
    BY <1>1, <2>1 DEF Turns!TakeOne, Turn
  <2> QED
    BY <2>2 DEF Turns!TNext
<1>2. CASE rpc \notin {"idle", "crashed"} /\ rpc' = "idle" /\ req' = req
  <2>1. Turns!Becomes(1, "resting", req)
    BY <1>2, OneTurn DEF Turn
  <2>2. Turns!Done(1)
    BY <1>2, <2>1 DEF Turns!Done, Turn
  <2> QED
    BY <2>2 DEF Turns!TNext
<1>3. CASE rpc # "crashed" /\ rpc' = "crashed"
  <2>1. Turns!Becomes(1, "gone", 0)
    BY <1>3, OneTurn DEF Turn
  <2>2. Turns!Leave(1)
    BY <1>3, <2>1 DEF Turns!Leave, Turn
  <2> QED
    BY <2>2 DEF Turns!TNext
<1>4. CASE Turn' = Turn /\ req' = req
  <2>1. rpc' = "crashed" <=> rpc = "crashed"
    BY <1>4 DEF Turn
  <2> QED
    BY <1>4, <2>1 DEF Turns!tvars
<1> QED
  BY <1>1, <1>2, <1>3, <1>4, LifeTurn

\* What the prefork model takes for one step of a worker is what a request's
\* steps amount to: both implement WorkerTurns.
THEOREM LifeTakesTurns == Spec => TakesTurns
<1>1. Init => Turns!TInit
  BY DEF Init, Turns!TInit, Turn
<1>2. LifeInv => TypeOK /\ ReqInv
  BY DEF LifeInv
<1> QED
  BY <1>1, <1>2, LifeTurnStep, LifeInvariant, PTL DEF Spec, TakesTurns, Turns!TSpec
=============================================================================
