---------------------------- MODULE RequestLife ----------------------------
(***************************************************************************)
(* The requests one worker handles one after the other: _handleRequest of  *)
(* preforkserver.cpp around wsgi_execute_script of wsgi.cpp. It follows    *)
(* what outlives a request (the module cache, objects the application      *)
(* keeps, the alarm) while the alarm jumps out of any step and the script  *)
(* file is replaced at any moment. What a request's own adapter puts out   *)
(* is the subject of WsgiAdapter.                                          *)
(***************************************************************************)
EXTENDS Integers, Sequences

CONSTANTS
  MaxReqs,     (* requests the worker handles before it is recycled        *)
  Versions,    (* contents the script file may have                        *)
  Times,       (* modification times it may have, in whole seconds: an edit
                  may keep the time of the content before it, or bring back
                  an older one                                             *)
  TimeLimit,   (* is max_execute_time greater than 0?                      *)
  Keeps,       (* may the application keep its start_response or input?    *)
  MaxEdits,    (* bound: how often the script file changes                 *)
  MaxPieces    (* bound: pieces of output in one response                  *)

ASSUME LifeAssumption ==
  /\ MaxReqs \in Nat
  /\ Versions \subseteq Nat \ {0}
  /\ Times \subseteq Nat
  /\ TimeLimit \in BOOLEAN
  /\ Keeps \in BOOLEAN
  /\ MaxEdits \in Nat
  /\ MaxPieces \in Nat

\* The script file, and what wsgi_load_source makes of one that is not there.
Files == [code : Versions, time : Times]
NoFile == [code |-> 0, time |-> 0]

NoTime == -1       (* a module without __mtime__                            *)

Reqs == 1 .. MaxReqs

\* An entry of sys.modules: the code it was made from, __mtime__, and whether
\* that code has run to its end.
Modules == [code : Versions, mtime : Times \cup {NoFile.time, NoTime}, whole : BOOLEAN]
NoModule == [code |-> NoFile.code, mtime |-> NoTime, whole |-> FALSE]

\* The objects of a request that point to its FCGIRequest.
Objects == {"adapter", "input", "log"}

VARIABLES
  rpc,        (* where the worker is in _handleRequest; "idle" between two  *)
  req,        (* the request in progress, or the last one                   *)
  armed,      (* alarm(timeout) is running                                  *)
  recvAlarm,  (* recv_alarm                                                 *)
  file,       (* the script file                                            *)
  cached,     (* the script's module in sys.modules                         *)
  refs,       (* refs[q]: objects of q whose r is still set                 *)
  kept,       (* requests whose objects the application holds on to         *)
  out,        (* out[q]: pieces of q's response, and what logs of other
                 requests put into its error stream, with whose object did  *)
  edits,      (* how often the file has changed                             *)
  seen,       (* history: what the file was during this request             *)
  past,       (* history: what it was at any time                           *)
  timedOut    (* history: requests the alarm ended                          *)

objs  == <<refs, kept>>
alrm  == <<armed, recvAlarm, timedOut>>
disk  == <<file, edits, seen, past>>
lvars == <<rpc, req, alrm, disk, cached, objs, out>>

PCs == {"idle", "root", "lookup", "open", "import", "stat", "find", "app",
        "wipe", "close", "fail", "disarm", "crashed"}

Init ==
  /\ rpc = "idle"
  /\ req = 0
  /\ armed = FALSE
  /\ recvAlarm = FALSE
  /\ timedOut = {}
  /\ file \in Files \cup {NoFile}
  /\ edits = 0
  /\ seen = {}
  /\ past = {file}
  /\ cached = NoModule
  /\ refs = [q \in Reqs |-> {}]
  /\ kept = {}
  /\ out = [q \in Reqs |-> <<>>]

Put(by, what) == out' = [out EXCEPT ![req] = Append(@, [by |-> by, what |-> what])]

-----------------------------------------------------------------------------
(* _handleRequest *)

ResetAlarmOnce ==
  /\ armed' = TimeLimit
  /\ UNCHANGED recvAlarm

\* recv_alarm is reset and the alarm armed before the script is looked at.
ResetAlarm ==
  /\ armed' = TimeLimit
  /\ recvAlarm' = IF TimeLimit THEN FALSE ELSE recvAlarm

Begin ==
  /\ rpc = "idle"
  /\ req < MaxReqs
  /\ rpc' = "root"
  /\ req' = req + 1
  /\ ResetAlarm
  /\ seen' = {file}
  /\ UNCHANGED <<timedOut, file, edits, past, cached, objs, out>>

DisarmForgets ==
  /\ rpc = "disarm"
  /\ rpc' = "idle"
  /\ UNCHANGED <<req, alrm, disk, cached, objs, out>>

\* alarm(0), and the FCGIRequest is deleted.
Disarm ==
  /\ rpc = "disarm"
  /\ rpc' = "idle"
  /\ armed' = FALSE
  /\ UNCHANGED <<req, recvAlarm, timedOut, disk, cached, objs, out>>

TimeoutUncounted ==
  /\ armed
  /\ rpc \notin {"idle", "crashed"}
  /\ armed' = FALSE
  /\ recvAlarm' = TRUE
  /\ rpc' = "idle"
  /\ req' = req - 1
  /\ timedOut' = timedOut \cup {req}
  /\ Put(req, "timeout")
  /\ UNCHANGED <<disk, cached, objs>>

\* timeout_handler: the first alarm jumps out of whatever was running, the
\* timeout page is put out and the FCGIRequest deleted; nothing else is undone.
Timeout ==
  /\ armed
  /\ rpc \notin {"idle", "crashed"}
  /\ armed' = FALSE
  /\ IF recvAlarm
     THEN UNCHANGED <<rpc, recvAlarm, timedOut, out>>
     ELSE /\ recvAlarm' = TRUE
          /\ rpc' = "idle"
          /\ timedOut' = timedOut \cup {req}
          /\ Put(req, "timeout")
  /\ UNCHANGED <<req, disk, cached, objs>>

-----------------------------------------------------------------------------
(* wsgi_execute_script: finding the module *)

Goto(from, to) == rpc = from /\ rpc' = to

\* DOCUMENT_ROOT is there and sys.path can be set up, or not.
Root ==
  /\ Goto("root", "lookup") \/ Goto("root", "fail")
  /\ UNCHANGED <<req, alrm, disk, cached, objs, out>>

ReloadWhenNewer ==
  \/ cached.mtime = NoTime
  \/ file = NoFile
  \/ cached.mtime < file.time

ReloadTimeless ==
  \/ file = NoFile
  \/ cached.mtime # NoTime /\ cached.mtime # file.time

\* wsgi_reload_required: all it knows of the file is its time.
ReloadRequired ==
  \/ cached.mtime = NoTime
  \/ file = NoFile
  \/ cached.mtime # file.time

LookupFresh ==
  /\ Goto("lookup", "find")
  /\ cached # NoModule
  /\ ~ReloadRequired
  /\ UNCHANGED <<req, alrm, disk, cached, objs, out>>

LookupStale ==
  /\ Goto("lookup", "open")
  /\ cached = NoModule \/ ReloadRequired
  /\ cached' = NoModule
  /\ UNCHANGED <<req, alrm, disk, objs, out>>

OpenUnchecked ==
  /\ Goto("open", "import")
  /\ cached' = [code |-> file.code, mtime |-> NoTime, whole |-> FALSE]
  /\ UNCHANGED <<req, alrm, disk, objs, out>>

\* wsgi_load_source up to PyNode_Compile
Open ==
  /\ Goto("open", "import")
  /\ file # NoFile
  /\ cached' = [code |-> file.code, mtime |-> NoTime, whole |-> FALSE]
  /\ UNCHANGED <<req, alrm, disk, objs, out>>

\* No file, or one that does not compile.
OpenFails ==
  /\ Goto("open", "fail")
  /\ UNCHANGED <<req, alrm, disk, cached, objs, out>>

\* PyImport_ExecCodeModuleEx put the module into sys.modules before running it.
ImportEnds ==
  /\ Goto("import", "stat")
  /\ cached' = [cached EXCEPT !.whole = TRUE]
  /\ UNCHANGED <<req, alrm, disk, objs, out>>

ImportRaises ==
  /\ Goto("import", "fail")
  /\ cached' = NoModule
  /\ UNCHANGED <<req, alrm, disk, objs, out>>

\* The time is asked for only now, not when the file was opened.
Stat ==
  /\ Goto("stat", "find")
  /\ cached' = [cached EXCEPT !.mtime = file.time]
  /\ UNCHANGED <<req, alrm, disk, objs, out>>

\* _output_error
Fail ==
  /\ Goto("fail", "disarm")
  /\ Put(req, "error")
  /\ UNCHANGED <<req, alrm, disk, cached, objs>>

-----------------------------------------------------------------------------
(* wsgi_execute_script: running the application *)

\* Is there an object "application"? newAdapterObject points three objects to r.
FindApp ==
  /\ Goto("find", "app")
  /\ refs' = [refs EXCEPT ![req] = Objects]
  /\ UNCHANGED <<req, alrm, disk, cached, kept, out>>

FindNoApp ==
  /\ Goto("find", "fail")
  /\ UNCHANGED <<req, alrm, disk, cached, objs, out>>

AppOutput ==
  /\ rpc = "app"
  /\ Len(out[req]) < MaxPieces
  /\ Put(req, "app")
  /\ UNCHANGED <<rpc, req, alrm, disk, cached, objs>>

\* The application stores start_response, write, wsgi.input or wsgi.errors in a
\* global.
AppKeeps ==
  /\ Keeps
  /\ rpc = "app"
  /\ kept' = kept \cup {req}
  /\ UNCHANGED <<rpc, req, alrm, disk, cached, refs, out>>

\* It uses what an earlier request left. With r wiped that raises "request
\* object has expired"; otherwise r points to the deleted FCGIRequest, whose
\* memory the current one may have taken.
UseKept(q) ==
  /\ rpc \in {"import", "app"}
  /\ q \in kept \ {req}
  /\ refs[q] # {}
  /\ \/ /\ Len(out[req]) < MaxPieces
        /\ \/ "adapter" \in refs[q] /\ Put(q, "app")
           \/ "log" \in refs[q] /\ Put(q, "log")
        /\ UNCHANGED rpc
     \/ /\ rpc' = "crashed"
        /\ UNCHANGED out
  /\ UNCHANGED <<req, alrm, disk, cached, objs>>

AppEnds ==
  /\ Goto("app", "wipe")
  /\ UNCHANGED <<req, alrm, disk, cached, objs, out>>

WipedButInput == {"adapter"}

WipedButAdapter == {"input"}

Wiped == {"adapter", "input"}

\* adapter->r and adapter->input->r
Wipe ==
  /\ Goto("wipe", "close")
  /\ refs' = [refs EXCEPT ![req] = @ \ Wiped]
  /\ UNCHANGED <<req, alrm, disk, cached, kept, out>>

CloseLogThenPage ==
  /\ Goto("close", "fail")
  /\ refs' = [refs EXCEPT ![req] = @ \ {"log"}]
  /\ UNCHANGED <<req, alrm, disk, cached, kept, out>>

\* Log_close flushes and clears the log's own r.
CloseLog ==
  /\ Goto("close", "disarm")
  /\ refs' = [refs EXCEPT ![req] = @ \ {"log"}]
  /\ UNCHANGED <<req, alrm, disk, cached, kept, out>>

-----------------------------------------------------------------------------

\* Someone replaces or removes the script, or puts an old one back.
Edit(f) ==
  /\ edits < MaxEdits
  /\ f # file
  /\ file' = f
  /\ edits' = edits + 1
  /\ seen' = seen \cup {f}
  /\ past' = past \cup {f}
  /\ UNCHANGED <<rpc, req, alrm, cached, objs, out>>

\* The worker is recycled, or gone.
Over ==
  /\ rpc = "crashed" \/ (rpc = "idle" /\ req = MaxReqs)
  /\ UNCHANGED lvars

\* What the worker does without the script's help.
OwnSteps ==
  \/ Disarm \/ Root \/ LookupFresh \/ LookupStale \/ Open \/ OpenFails
  \/ Stat \/ Fail \/ FindApp \/ FindNoApp \/ Wipe \/ CloseLog

ScriptSteps ==
  \/ ImportEnds \/ ImportRaises
  \/ AppOutput \/ AppKeeps \/ AppEnds
  \/ \E q \in Reqs : UseKept(q)

Next ==
  \/ Begin
  \/ OwnSteps
  \/ ScriptSteps
  \/ Timeout
  \/ \E f \in Files \cup {NoFile} : Edit(f)
  \/ Over

Spec == Init /\ [][Next]_lvars

\* The worker is scheduled and alarms go off; a script need not end.
FairSpec == Spec /\ WF_lvars(OwnSteps) /\ WF_lvars(Timeout)

-----------------------------------------------------------------------------
(* Properties *)

Pieces == [by : Reqs, what : {"app", "log", "error", "timeout"}]

TypeOK ==
  /\ rpc \in PCs
  /\ req \in 0 .. MaxReqs
  /\ armed \in BOOLEAN
  /\ recvAlarm \in BOOLEAN
  /\ timedOut \in SUBSET Reqs
  /\ file \in Files \cup {NoFile}
  /\ edits \in 0 .. MaxEdits
  /\ seen \in SUBSET (Files \cup {NoFile})
  /\ past \in SUBSET (Files \cup {NoFile})
  /\ cached \in Modules \cup {NoModule}
  /\ refs \in [Reqs -> SUBSET Objects]
  /\ kept \in SUBSET Reqs
  /\ out \in [Reqs -> Seq(Pieces)]

\* An object the application kept never reaches into another request's
\* response or error stream: using it is found out.
OwnOutput == \A q \in Reqs : \A i \in 1 .. Len(out[q]) : out[q][i].by = q

\* What reaches into another request's response or error stream comes from an
\* object of a request the alarm ended, and which the application kept.
StrayFromTimedOut ==
  \A q \in Reqs : \A i \in 1 .. Len(out[q]) :
    out[q][i].by # q => out[q][i].by \in timedOut \cap kept

\* Every way out of wsgi_execute_script, but the alarm's, leaves no object
\* pointing to the request.
ExpiredAfterUse ==
  \A q \in Reqs : refs[q] # {} => q \in timedOut \/ (q = req /\ rpc # "idle")

\* A module whose code the alarm cut short is never mistaken for a loaded one.
RunsWhole == rpc \in {"find", "app"} => cached.whole

\* The file changed between the reading and the stat() of the load that the
\* module comes from: it has a time its code never had.
Raced == [code |-> cached.code, time |-> cached.mtime] \notin past

\* Two contents of the file had that time, to the second.
Alike(time) ==
  \E f, g \in past : f.time = time /\ g.time = time /\ f.code # g.code

\* An application runs the code its file had at some moment of the request,
\* also when an older file is put back, unless the module's time misleads: the
\* load was raced, or the file got another content with that same time, by an
\* edit within the second or one that keeps or restores the time.
StaleOnlyIfMisled ==
  rpc = "app" =>
    (\E f \in seen : f.code = cached.code) \/ Raced \/ Alike(cached.mtime)

\* Nothing follows the timeout page, which may come behind part or all of the
\* application's own output; an error page never comes behind any of it.
PagesLast ==
  \A q \in Reqs :
    \A i \in 1 .. Len(out[q]) :
      /\ out[q][i].what = "timeout" => i = Len(out[q]) /\ q \in timedOut
      /\ out[q][i].what = "error" => \A j \in 1 .. i - 1 : out[q][j].by # q

\* The alarm of one request never goes off outside it: by then the default
\* action, the end of the worker, is back.
NoStrayAlarm == rpc = "idle" => ~armed

\* With a time limit there is no moment of a request at which its alarm is not
\* on, or would not jump, also after an earlier request was ended by it.
AlwaysTimed ==
  TimeLimit /\ rpc \notin {"idle", "crashed"} => armed /\ ~recvAlarm

\* The alarm runs from the start of a request to its end, can jump all the while,
\* and runs at no other time.
AlarmFits == NoStrayAlarm /\ AlwaysTimed

\* One worker of the prefork server: Serve of PreforkWorker, one step there, is
\* what happens here from Begin until the worker is idle again.
Turn == IF rpc = "crashed" THEN "gone" ELSE IF rpc = "idle" THEN "resting" ELSE "working"

Turns == INSTANCE WorkerTurns
  WITH Workers <- {1}, Limit <- MaxReqs,
       turn <- [w \in {1} |-> Turn],
       count <- [w \in {1} |-> IF rpc = "crashed" THEN 0 ELSE req]

TakesTurns == Turns!TSpec

\* A time limit ends every request, whatever its script and those before did.
RequestsEnd == rpc # "idle" ~> rpc \in {"idle", "crashed"}
=============================================================================
