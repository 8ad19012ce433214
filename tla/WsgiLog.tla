------------------------------ MODULE WsgiLog ------------------------------
(***************************************************************************)
(* The wsgi.errors object of wsgi.cpp: text is cut into lines, complete    *)
(* ones go to the web server at once, the rest waits in a buffer. The      *)
(* request closes it when its application is through; the application may  *)
(* have closed it before, and may hold on to it afterwards. The alarm of   *)
(* the request may jump over the close.                                    *)
(***************************************************************************)
EXTENDS Naturals, Sequences

CONSTANTS
  Chars,      (* characters                                                *)
  Newline,    (* one of them                                               *)
  MaxText     (* bound: characters after which no call begins              *)

ASSUME LogAssumption ==
  /\ Newline \in Chars
  /\ MaxText \in Nat

Texts(n) == UNION {[1 .. k -> Chars] : k \in 0 .. n}

\* What write and writelines may be handed: a byte string, or a tuple of one.
Items(n) == [tuple : BOOLEAN, text : Texts(n)]

VARIABLES
  pc,         (* "idle", or "queue" in the loop of Log_queue               *)
  rest,       (* from p to e: what Log_queue has still to look at          *)
  lines,      (* the items Log_writelines has still to write               *)
  buf,        (* s and l: an incomplete line, <<>> for NULL                *)
  r,          (* r is set                                                  *)
  expired,    (* expired                                                   *)
  calls,      (* what Log_call put out, call by call                       *)
  life,       (* who refers to the object: "held" by the request's adapter,
                 "kept" by the application at most, "freed"; "leaked" by a
                 request that was cut short                                *)
  put,        (* history: the calls, joined, each ended by a newline       *)
  text        (* history: accepted text; a flush that put out a piece of a
                 line counts as a line end                                 *)

history == <<put, text>>
gvars == <<pc, rest, lines, buf, r, expired, calls, life, history>>

Init ==
  /\ pc = "idle"
  /\ rest = <<>>
  /\ lines = <<>>
  /\ buf = <<>>
  /\ r = TRUE
  /\ expired = FALSE
  /\ calls = <<>>
  /\ life = "held"
  /\ put = <<>>
  /\ text = <<>>

\* Log_call: PutDataErr and FlushErr.
Call(m) ==
  \/ /\ r
     /\ calls' = Append(calls, m)
     /\ put' = put \o Append(m, Newline)
  \/ ~r /\ UNCHANGED <<calls, put>>

-----------------------------------------------------------------------------
(* Log_queue *)

HasLine(t) == \E i \in DOMAIN t : t[i] = Newline

FirstLine(t) == CHOOSE i \in DOMAIN t :
  t[i] = Newline /\ \A j \in 1 .. i - 1 : t[j] # Newline

JoinedWithNewline(t) == Append(buf \o t, Newline)

JoinedOver(t) == t

Joined(t) == buf \o t

\* One turn of the loop: a complete line, joined with the buffered value.
QueueLine ==
  /\ pc = "queue"
  /\ HasLine(rest)
  /\ LET q == FirstLine(rest)
     IN /\ Call(Joined(SubSeq(rest, 1, q - 1)))
        /\ rest' = SubSeq(rest, q + 1, Len(rest))
  /\ buf' = <<>>
  /\ UNCHANGED <<pc, lines, r, expired, life, text>>

\* The incomplete line that is left, joined too.
QueueRest ==
  /\ pc = "queue"
  /\ ~HasLine(rest)
  /\ buf' = Joined(rest)
  /\ rest' = <<>>
  /\ pc' = "idle"
  /\ UNCHANGED <<lines, r, expired, calls, life, history>>

-----------------------------------------------------------------------------
(* The methods; all but close raise on an expired object *)

Queue(t) ==
  /\ pc' = "queue"
  /\ rest' = t
  /\ text' = text \o t
  /\ UNCHANGED <<buf, r, expired, calls, life, put>>

\* Between two items of a writelines the application's iterator runs, which may
\* call the object too (a writelines inside a writelines is left out).
Ready == pc = "idle" /\ life # "freed" /\ ~expired

Write(t) ==
  /\ Ready
  /\ Queue(t)
  /\ UNCHANGED lines

Writelines(s) ==
  /\ Ready
  /\ lines = <<>>
  /\ lines' = s
  /\ UNCHANGED <<pc, rest, buf, r, expired, calls, life, history>>

\* Each item is passed to Log_write as its argument tuple: a tuple is taken
\* apart, anything else is refused, as is every item once the object expired.
NextItem ==
  /\ pc = "idle"
  /\ lines # <<>>
  /\ IF lines[1].tuple /\ ~expired
     THEN /\ Queue(lines[1].text)
          /\ lines' = Tail(lines)
     ELSE /\ lines' = <<>>
          /\ UNCHANGED <<pc, rest, buf, r, expired, calls, life, history>>

Keep == UNCHANGED <<buf, calls, history>>

PutNothing == Keep

\* What Log_flush does with the buffer, and Log_dealloc too.
PutBuffer ==
  \/ buf = <<>> /\ Keep
  \/ /\ buf # <<>>
     /\ Call(buf)
     /\ buf' = <<>>
     /\ text' = Append(text, Newline)

Flush ==
  /\ Ready
  /\ PutBuffer
  /\ UNCHANGED <<pc, rest, lines, r, expired, life>>

\* Log_close
Shut ==
  /\ pc = "idle"
  /\ IF expired THEN Keep ELSE PutBuffer
  /\ r' = FALSE
  /\ expired' = TRUE
  /\ UNCHANGED <<pc, rest, lines>>

AppCloses ==
  /\ life # "freed"
  /\ Shut
  /\ UNCHANGED life

DropsOnly ==
  /\ life = "held"
  /\ pc = "idle"
  /\ lines = <<>>
  /\ life' = "kept"
  /\ UNCHANGED <<pc, rest, lines, buf, r, expired, calls, history>>

\* wsgi_execute_script closes the log, then drops the adapter with it.
RequestEnds ==
  /\ life = "held"
  /\ lines = <<>>
  /\ Shut
  /\ life' = "kept"

\* timeout_handler jumps out of the script, and of any method of the object, past
\* the close. The reference that the lost frame held keeps adapter and log for
\* ever: Log_dealloc is not reached. Where in a method the jump comes decides
\* whether a line is lost or put out again: from here on the text is not followed.
RequestCut ==
  /\ life \in {"held", "leaked"}
  /\ life' = "leaked"
  /\ pc' = "idle"
  /\ rest' = <<>>
  /\ lines' = <<>>
  /\ UNCHANGED <<buf, r, expired, calls, history>>

\* Log_dealloc, when nothing refers to the object any more.
Dealloc ==
  /\ life = "kept"
  /\ pc = "idle"
  /\ lines = <<>>
  /\ IF expired THEN Keep ELSE PutBuffer
  /\ life' = "freed"
  /\ UNCHANGED <<pc, rest, lines, r, expired>>

\* The worker goes on with other requests.
Freed ==
  /\ life = "freed"
  /\ UNCHANGED gvars

Room == MaxText - Len(text)

Next ==
  \/ \E t \in Texts(Room) : Write(t)
  \/ \E i, j \in Items(1) : Room >= 2 /\ Writelines(<<i, j>>)
  \/ NextItem
  \/ QueueLine
  \/ QueueRest
  \/ Flush
  \/ AppCloses
  \/ RequestEnds
  \/ RequestCut
  \/ Dealloc
  \/ Freed

Spec == Init /\ [][Next]_gvars

-----------------------------------------------------------------------------
(* Properties *)

TypeOK ==
  /\ pc \in {"idle", "queue"}
  /\ rest \in Seq(Chars)
  /\ lines \in Seq([tuple : BOOLEAN, text : Seq(Chars)])
  /\ buf \in Seq(Chars \ {Newline})
  /\ r \in BOOLEAN
  /\ expired \in BOOLEAN
  /\ calls \in Seq(Seq(Chars \ {Newline}))
  /\ life \in {"held", "kept", "leaked", "freed"}
  /\ put \in Seq(Chars)
  /\ text \in Seq(Chars)

\* However text is cut into writes, lines and flushes, what was put out (one
\* call for each line, says TypeOK), what is buffered and what Log_queue is at
\* make up the text: no character is lost, doubled or moved, unless the alarm
\* cut the request short.
LinesWhole == life # "leaked" => put \o buf \o rest = text

\* No piece of a line is left behind, in an object that was closed or in one
\* the request has dropped; what Log_dealloc would put out has gone before.
CloseFlushes == expired \/ life \in {"kept", "freed"} => buf = <<>>

\* Nothing is put out through an object that was closed, nor through one whose
\* request ended by itself. A request that the alarm ended leaves an object that
\* may be open: what becomes of its later calls is a matter of RequestLife.
NothingLate == [][expired \/ life \in {"kept", "freed"} => calls' = calls]_gvars
=============================================================================
