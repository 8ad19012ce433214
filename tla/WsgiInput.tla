----------------------------- MODULE WsgiInput -----------------------------
(***************************************************************************)
(* The wsgi.input object of wsgi.cpp over the FastCGI input stream. What   *)
(* an application asks for is a long; GetData and the local "length" are   *)
(* ints, narrower on the 64-bit builds.                                    *)
(***************************************************************************)
EXTENDS Integers

CONSTANTS
  IntMax,     (* the largest int                                           *)
  MaxBody,    (* bound: the longest request body                           *)
  MaxRead     (* bound: the largest size asked for                         *)

ASSUME InputAssumption ==
  /\ IntMax \in Nat \ {0}
  /\ MaxBody \in Nat
  /\ MaxRead \in Nat

\* read() without an argument: everything that is left
All == -1

\* readline(), readlines() and iteration
Line == -2

VARIABLES
  pc,         (* "idle", "read" in the loop of Input_read                  *)
  expired,    (* r is NULL                                                 *)
  left,       (* bytes the stream has still to deliver                     *)
  taken,      (* bytes the application has got                             *)
  size,       (* what the call in progress, or the last one, asked for     *)
  length,     (* what it has                                               *)
  done,       (* done                                                      *)
  answer,     (* what the last call came to: "none", a "string", an "error",
                 or "null", a return without value or exception            *)
  gone,       (* history: bytes that never came, the stream having ended   *)
  body,       (* history: the length of the body                           *)
  wide        (* history: some call asked for more than an int holds       *)

history == <<gone, body, wide>>
ivars == <<pc, expired, left, taken, size, length, done, answer, history>>

Init ==
  /\ pc = "idle"
  /\ expired = FALSE
  /\ body \in 0 .. MaxBody
  /\ left = body
  /\ taken = 0
  /\ size = 0
  /\ length = 0
  /\ done = FALSE
  /\ answer = "none"
  /\ gone = 0
  /\ wide = FALSE

-----------------------------------------------------------------------------
(* The methods *)

\* The call returns without a look at the stream.
AnswerNow(n, a) ==
  /\ pc = "idle"
  /\ size' = n
  /\ length' = 0
  /\ answer' = a
  /\ UNCHANGED <<pc, expired, left, taken, done, history>>

\* read, close and iteration on an expired object raise.
Expired(n) == expired /\ AnswerNow(n, "error")

\* Nothing more to come, or nothing asked for: an empty string.
ReadEmpty(n) == ~expired /\ (done \/ n = 0) /\ AnswerNow(n, "string")

\* The branch that should read everything is empty, and so are readline and
\* readlines, which do not look at r either: NULL without an exception.
ReadNothing(n) == ~expired /\ ~done /\ n < 0 /\ AnswerNow(n, "null")

ReadLine == AnswerNow(Line, "null")

\* The string of the size asked for cannot be allocated.
ReadNoMemory(n) == ~expired /\ ~done /\ n > 0 /\ AnswerNow(n, "error")

ReadStart(n) ==
  /\ pc = "idle"
  /\ ~expired /\ ~done
  /\ n > 0
  /\ pc' = "read"
  /\ size' = n
  /\ length' = 0
  /\ wide' = (wide \/ n > IntMax)
  /\ UNCHANGED <<expired, left, taken, done, answer, gone, body>>

-----------------------------------------------------------------------------
(* The loop of Input_read *)

AsIntWide(n) == n

\* A long passed as an int keeps its low bits.
AsInt(n) ==
  LET word == 2 * (IntMax + 1)
      low  == n % word
  IN IF low > IntMax THEN low - word ELSE low

Lesser(m, n) == IF m <= n THEN m ELSE n

FinishedEarly == length > 0

Finished == length = size

\* GetData delivers some of what it is asked for.
Chunk(n) ==
  /\ pc = "read"
  /\ ~Finished
  /\ n \in 1 .. Lesser(AsInt(size - length), left)
  /\ length' = length + n
  /\ left' = left - n
  /\ UNCHANGED <<pc, expired, taken, size, done, answer, history>>

\* GetData returns 0: at the end of the stream, and when asked for nothing or
\* for less.
NoData == left = 0 \/ AsInt(size - length) <= 0

ReadEndNoBreak ==
  /\ pc = "read"
  /\ \/ Finished /\ pc' = "idle" /\ taken' = taken + length /\ answer' = "string" /\ UNCHANGED done
     \/ ~Finished /\ NoData /\ done' = TRUE /\ UNCHANGED <<pc, taken, answer>>
  /\ UNCHANGED <<expired, left, size, length, history>>

ReadEndCounts ==
  /\ pc = "read"
  /\ \/ Finished /\ UNCHANGED done
     \/ ~Finished /\ NoData /\ done' = TRUE
  /\ pc' = "idle"
  /\ taken' = taken + size
  /\ answer' = "string"
  /\ UNCHANGED <<expired, left, size, length, history>>

\* The loop ends: enough, or an empty GetData, which sets done.
ReadEnd ==
  /\ pc = "read"
  /\ \/ Finished /\ UNCHANGED done
     \/ ~Finished /\ NoData /\ done' = TRUE
  /\ pc' = "idle"
  /\ taken' = taken + length
  /\ answer' = "string"
  /\ UNCHANGED <<expired, left, size, length, history>>

-----------------------------------------------------------------------------
(* Around the object *)

\* wsgi_execute_script wipes r when the application is through.
Expire ==
  /\ pc = "idle"
  /\ expired' = TRUE
  /\ UNCHANGED <<pc, left, taken, size, length, done, answer, history>>

\* The web server ends the stream early.
StreamCut ==
  /\ left > 0
  /\ left' = 0
  /\ gone' = gone + left
  /\ UNCHANGED <<pc, expired, taken, size, length, done, answer, body, wide>>

Next ==
  \/ \E n \in -1 .. MaxRead :
       Expired(n) \/ ReadEmpty(n) \/ ReadNothing(n) \/ ReadNoMemory(n) \/ ReadStart(n)
  \/ ReadLine
  \/ \E n \in 1 .. MaxBody : Chunk(n)
  \/ ReadEnd
  \/ Expire
  \/ StreamCut

Spec == Init /\ [][Next]_ivars

\* The web server sends what it announced, or ends the stream.
FairSpec == Spec /\ WF_ivars(ReadEnd) /\ WF_ivars(\E n \in 1 .. MaxBody : Chunk(n))

-----------------------------------------------------------------------------
(* Properties *)

TypeOK ==
  /\ pc \in {"idle", "read"}
  /\ expired \in BOOLEAN
  /\ left \in 0 .. MaxBody
  /\ taken \in 0 .. MaxBody
  /\ size \in -2 .. MaxRead
  /\ length \in 0 .. MaxRead
  /\ done \in BOOLEAN
  /\ answer \in {"none", "string", "error", "null"}
  /\ gone \in 0 .. MaxBody
  /\ body \in 0 .. MaxBody
  /\ wide \in BOOLEAN

\* Every byte of the body is with the application, in the call in progress,
\* still to come, or never came: reads that come up short, fail to allocate or
\* find the object expired neither lose nor double one.
NothingLost == body = taken + (IF pc = "read" THEN length ELSE 0) + left + gone

\* A string shorter than asked for, and the mark that nothing more will come,
\* appear only at the end of the stream, however it is delivered - as long as no
\* call asked for more than an int holds.
ShortOnlyAtEnd ==
  ~wide /\ pc = "idle" => (done => left = 0) /\ (answer = "string" /\ length < size => left = 0)

\* However much a call asks for and the stream delivers, the int that counts
\* what a call has read stays an int: the narrowing that makes a wide call end
\* early also keeps it from overflowing.
LengthFits == length <= IntMax

\* Every read returns, once the stream has delivered enough or has ended.
ReadsReturn == pc = "read" ~> pc = "idle"

\* read() without a size returns what is left as one string.
ReadAllReturns == pc = "idle" /\ size = All => answer # "null"
=============================================================================
