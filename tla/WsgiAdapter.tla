---------------------------- MODULE WsgiAdapter ----------------------------
(***************************************************************************)
(* One request's adapter object of wsgi.cpp, from newAdapterObject to the  *)
(* end of Adapter_run: the application may call start_response and write   *)
(* wherever its code runs (in the callable, in the iteration over what it  *)
(* returned, in close()), raise anywhere, and hand over any header list.   *)
(* The client may stop listening at any time.                              *)
(***************************************************************************)
EXTENDS Integers, FiniteSets, Sequences

CONSTANTS
  Lengths,      (* values of Content-Length the application may give       *)
  MaxHeaders,   (* bound: the longest header list                          *)
  MaxChunk,     (* bound: bytes in one write or one item of the sequence   *)
  MaxOut,       (* bound: bytes the application hands over                 *)
  Statuses      (* status lines the application may give, as sequences of
                   "digit", "space" and "other"                             *)

ASSUME AdapterAssumption ==
  /\ Lengths \subseteq Nat
  /\ MaxHeaders \in Nat
  /\ MaxChunk \in Nat
  /\ MaxOut \in Nat
  /\ Statuses \subseteq Seq({"digit", "space", "other"})

\* content_length_set is 0
Unset == -1

\* What the header loop of Adapter_output makes of a list element: a valid
\* Content-Length, another valid header, or one it rejects.
Entries == [kind : {"length"}, n : Lengths] \cup [kind : {"plain", "bad"}, n : {0}]

HeaderLists == UNION {[1 .. k -> Entries] : k \in 0 .. MaxHeaders}

VARIABLES
  pc,             (* which code of the application runs: "call", "next" in
                     the iteration, "close"; then Adapter_run is over:
                     "raised" when the callable raised, "done" otherwise     *)
  statusLine,     (* self->status_line is set                              *)
  unsent,         (* self->headers is set: a list that was not sent yet    *)
  headers,        (* that list, or the list that was sent                  *)
  contentLength,  (* content_length, Unset without content_length_set      *)
  outputLength,   (* output_length                                         *)
  result,         (* result: "ok" for HTTP_OK, "error" for 500             *)
  heads,          (* header blocks put out                                 *)
  body,           (* bytes of data put out                                 *)
  broken,         (* the client's connection is gone                       *)
  badStatus,      (* history: start_response rejected a status             *)
  late            (* history: the header block went out under close()      *)

started == <<statusLine, headers, badStatus>>
output  == <<unsent, contentLength, outputLength, heads, body, late>>
avars   == <<pc, started, output, result, broken>>

Init ==
  /\ pc = "call"
  /\ statusLine = FALSE
  /\ unsent = FALSE
  /\ headers = <<>>
  /\ contentLength = Unset
  /\ outputLength = 0
  /\ result = "error"
  /\ heads = 0
  /\ body = 0
  /\ broken = FALSE
  /\ badStatus = FALSE
  /\ late = FALSE

-----------------------------------------------------------------------------
(* The status line *)

FirstOf(S) == CHOOSE i \in S : \A j \in S : i <= j

\* ap_getword: the word before the first stop, and what follows the stops; the
\* null character behind the line ends both loops.
GetWord(line, stop) ==
  LET null == Len(line) + 1
      end  == FirstOf({i \in 1 .. null : i = null \/ line[i] = stop})
      next == FirstOf({i \in end .. null : i = null \/ line[i] # stop})
  IN [word |-> SubSeq(line, 1, end - 1), rest |-> SubSeq(line, next, Len(line))]

\* strtol gets to the end of the word, also when there is no digit in it.
IsNumber(word) == \A i \in DOMAIN word : word[i] = "digit"

Accepted(s) ==
  /\ IsNumber(GetWord(s, "space").word)
  /\ GetWord(s, "space").rest # <<>>

-----------------------------------------------------------------------------
(* Adapter_output *)

Lesser(m, n) == IF m <= n THEN m ELSE n

Greatest(S) == CHOOSE i \in S : \A j \in S : j <= i

\* The elements the header loop gets to: it stops at the first bad one.
Read(h) == {i \in DOMAIN h : \A j \in 1 .. i : h[j].kind # "bad"}

WellFormed(h) == Read(h) = DOMAIN h

LengthsIn(h) == {i \in Read(h) : h[i].kind = "length"}

\* content_length after the loop: the last one read, or what it was before.
Declared(h, before) ==
  IF LengthsIn(h) = {} THEN before ELSE h[Greatest(LengthsIn(h))].n

Limit == IF unsent THEN Declared(headers, contentLength) ELSE contentLength

AllowedEach(n) ==
  IF Limit = Unset THEN n ELSE Lesser(n, Limit)

AllowedUnclamped(n) ==
  IF Limit = Unset THEN n ELSE Lesser(n, Limit - outputLength)

\* How much of n more bytes is put out.
Allowed(n) ==
  IF Limit = Unset THEN n
  ELSE IF outputLength < Limit THEN Lesser(n, Limit - outputLength)
  ELSE 0

StartedAlways == TRUE

Started == statusLine

SendHeadKeeps ==
  /\ unsent' = unsent
  /\ heads' = IF unsent THEN heads + 1 ELSE heads

SendHead ==
  /\ unsent' = FALSE
  /\ heads' = IF unsent THEN heads + 1 ELSE heads

\* The whole of Adapter_output once the headers are found valid. The puts of
\* the header block are not checked; nothing arrives at a client that is gone.
PutOut(n) ==
  /\ Started
  /\ unsent => WellFormed(headers)
  /\ contentLength' = Limit
  /\ SendHead
  /\ outputLength' = outputLength + n
  /\ body' = IF broken THEN body ELSE body + Allowed(n)
  /\ late' = (late \/ (unsent /\ pc = "close"))

\* It returns 1. libfcgi accepts data for a closed stream while its buffer lasts.
OutputOk(n) == PutOut(n)

\* It returns 0 with an exception set: no start_response, a bad header (the
\* content length read before it stays), or a failed put or flush.
OutputFails(n) ==
  \/ /\ ~Started
     /\ UNCHANGED output
  \/ /\ Started
     /\ unsent
     /\ ~WellFormed(headers)
     /\ contentLength' = Limit
     /\ UNCHANGED <<unsent, outputLength, heads, body, late>>
  \/ /\ broken
     /\ Allowed(n) > 0
     /\ PutOut(n)

-----------------------------------------------------------------------------
(* What the application may do wherever its code runs *)

Running == pc \in {"call", "next", "close"}

Over == {"raised", "done"}

\* Refused once headers are out, with or without exc_info. The status line is
\* set before it is looked at; the headers only after.
MayStart == ~(statusLine /\ ~unsent)

StartResponse(s, h) ==
  /\ Running
  /\ MayStart
  /\ Accepted(s)
  /\ statusLine' = TRUE
  /\ headers' = h
  /\ unsent' = TRUE
  /\ UNCHANGED <<pc, contentLength, outputLength, heads, body, late, result, broken, badStatus>>

StartRejected(s) ==
  /\ Running
  /\ MayStart
  /\ ~Accepted(s)
  /\ statusLine' = TRUE
  /\ badStatus' = TRUE
  /\ UNCHANGED <<pc, headers, output, result, broken>>

Room(n) == outputLength + n <= MaxOut

\* Adapter_write: the application sees an exception when the output fails.
Write(n) ==
  /\ Running
  /\ Room(n)
  /\ OutputOk(n) \/ OutputFails(n)
  /\ UNCHANGED <<pc, started, result, broken>>

\* The list the adapter keeps is the application's own.
ChangeHeaders(h) ==
  /\ Running
  /\ unsent
  /\ headers' = h
  /\ UNCHANGED <<pc, statusLine, badStatus, output, result, broken>>

-----------------------------------------------------------------------------
(* Adapter_run *)

\* The callable raises: nothing else is done.
CallRaises ==
  /\ pc = "call"
  /\ pc' = "raised"
  /\ UNCHANGED <<started, output, result, broken>>

CallReturns ==
  /\ pc = "call"
  /\ pc' = "next"
  /\ UNCHANGED <<started, output, result, broken>>

ResultOfErrorOk(sl, us) == "ok"

\* The result of an iteration that ended in an exception.
ResultOfError(sl, us) == IF sl /\ ~us THEN "ok" ELSE result

Item(n) ==
  /\ pc = "next"
  /\ n > 0
  /\ Room(n)
  /\ \/ /\ OutputOk(n)
        /\ UNCHANGED <<pc, result>>
     \/ /\ OutputFails(n)
        /\ pc' = "close"
        /\ result' = ResultOfError(statusLine, unsent')
  /\ UNCHANGED <<started, broken>>

\* The iterator raises, there is none, or an item is no byte string.
ItemRaises ==
  /\ pc = "next"
  /\ pc' = "close"
  /\ result' = ResultOfError(statusLine, unsent)
  /\ UNCHANGED <<started, output, broken>>

\* The sequence is exhausted: headers not sent yet are sent now.
ItemsEnd ==
  /\ pc = "next"
  /\ pc' = "close"
  /\ \/ /\ OutputOk(0)
        /\ result' = "ok"
     \/ /\ OutputFails(0)
        /\ result' = ResultOfError(statusLine, unsent')
  /\ UNCHANGED <<started, broken>>

Close ==
  /\ pc = "close"
  /\ pc' = "done"
  /\ UNCHANGED <<started, output, result, broken>>

ClientLeaves ==
  /\ ~broken
  /\ broken' = TRUE
  /\ UNCHANGED <<pc, started, output, result>>

\* wsgi_execute_script goes on once Adapter_run has returned.
Returned ==
  /\ pc \in Over
  /\ UNCHANGED avars

Next ==
  \/ \E s \in Statuses, h \in HeaderLists : StartResponse(s, h)
  \/ \E s \in Statuses : StartRejected(s)
  \/ \E h \in HeaderLists : ChangeHeaders(h)
  \/ \E n \in 0 .. MaxChunk : Write(n) \/ Item(n)
  \/ CallRaises
  \/ CallReturns
  \/ ItemRaises
  \/ ItemsEnd
  \/ Close
  \/ ClientLeaves
  \/ Returned

Spec == Init /\ [][Next]_avars

-----------------------------------------------------------------------------
(* Properties *)

TypeOK ==
  /\ pc \in {"call", "next", "close"} \cup Over
  /\ statusLine \in BOOLEAN
  /\ unsent \in BOOLEAN
  /\ headers \in HeaderLists
  /\ contentLength \in Lengths \cup {Unset}
  /\ outputLength \in Nat
  /\ result \in {"ok", "error"}
  /\ heads \in Nat
  /\ body \in Nat
  /\ broken \in BOOLEAN
  /\ badStatus \in BOOLEAN
  /\ late \in BOOLEAN

\* No data precedes the headers, unless a status was rejected first: then the
\* adapter takes the missing headers for sent ones and they never come.
HeadFirst == body > 0 => heads = 1 \/ badStatus

\* Headers go out once, and before all data: not even a start_response with
\* exc_info, a retry after a failed output or close() brings a second block.
HeadOnce == [][heads' # heads => heads' = 1 /\ body = 0]_avars

\* The content length the header block that was sent names.
Promise(h) == Declared(h, Unset)

\* Never more data than the headers that went out promise, whatever lists were
\* given or rejected before, however the data is cut into writes and items.
\* ImplementsResponse implies it.
LengthKept == heads = 1 /\ Promise(headers) # Unset => body <= Promise(headers)

\* What Adapter_run returns, however it came to its end: HTTP_OK exactly when
\* the header block went out, except that it returns 500 behind a header block in
\* two cases, which the comment at wsgi.cpp:1065-1070 leaves out: the callable
\* raised after it had written, or close() was the first to write. After a
\* rejected status HTTP_OK may also come without a header block.
ResultTells ==
  pc \in Over /\ ~badStatus => (result = "ok" <=> heads = 1 /\ pc # "raised" /\ ~late)

\* What start_response and Adapter_run take for "headers have already been
\* sent", a status line without pending headers, means that they were sent.
AlreadySent == statusLine /\ ~unsent => heads = 1

\* Data is left out only because the headers that went out promised less.
CutOnlyToLength ==
  heads = 1 /\ ~broken /\ Promise(headers) = Unset => body = outputLength

\* A request's output from its header block on is one response; data without
\* one is none (HeadFirst says when there is such data).
Stage ==
  IF pc \in Over THEN "ended" ELSE IF heads = 0 THEN "empty" ELSE "open"

Named == IF heads = 0 THEN Unset ELSE Promise(headers)

Data == IF heads = 0 THEN 0 ELSE body

Reply == INSTANCE Response
  WITH Promises <- Lengths, NoPromise <- Unset,
       stage <- Stage, promise <- Named, sent <- Data

\* The adapter implements the response: the order of headers and data, and the
\* promised length, hold step by step over any legal and illegal calls of the
\* application, also after a rejected status or a rejected header list.
ImplementsResponse == Reply!RSpec
=============================================================================
