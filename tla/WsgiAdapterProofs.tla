------------------------- MODULE WsgiAdapterProofs -------------------------
(***************************************************************************)
(* The adapter keeps its response in order for any application: any header *)
(* lists, any data, any calls, at any size.                                *)
(***************************************************************************)
EXTENDS WsgiAdapter, FiniteSetTheorems, SequenceTheorems, WellFoundedInduction, TLAPS

-----------------------------------------------------------------------------
(* Words *)

\* A set of numbers that is not empty has a least member.
LEMMA HasLeast ==
  ASSUME NEW S \in SUBSET Nat, S # {}
  PROVE  FirstOf(S) \in S /\ \A j \in S : FirstOf(S) <= j
<1>0. S \subseteq Nat
  OBVIOUS
<1>1. PICK i \in S : \A j \in S : ~(<<j, i>> \in OpToRel(<, Nat))
  BY <1>0, NatLessThanWellFounded, WFMin, Zenon
<1>2. ASSUME NEW j \in S PROVE i <= j
  <2>1. i \in Nat /\ j \in Nat
    BY <1>0
  <2>2. j < i => <<j, i>> \in OpToRel(<, Nat)
    BY <2>1 DEF OpToRel
  <2>3. ~(<<j, i>> \in OpToRel(<, Nat))
    BY <1>1, Zenon
  <2>4. ~(j < i)
    BY <2>2, <2>3, Zenon
  <2> QED BY <2>1, <2>4
<1> QED BY <1>2 DEF FirstOf

\* Whatever the line, ap_getword splits it into a word without stops, stops,
\* and a rest that begins with something else: it gives up nothing but the
\* stops between the two, and reads no further than the line's end.
THEOREM WordSplit ==
  ASSUME NEW C, NEW line \in Seq(C), NEW stop
  PROVE  LET g == GetWord(line, stop)
         IN /\ g.word \in Seq(C \ {stop})
            /\ g.rest \in Seq(C)
            /\ g.rest # <<>> => g.rest[1] # stop
            /\ \E b \in Seq({stop}) : line = g.word \o b \o g.rest
<1> DEFINE null == Len(line) + 1
           Ends == {i \in 1 .. null : i = null \/ line[i] = stop}
           end  == FirstOf(Ends)
           Nexts == {i \in end .. null : i = null \/ line[i] # stop}
           next == FirstOf(Nexts)
           word == SubSeq(line, 1, end - 1)
           b    == SubSeq(line, end, next - 1)
           rest == SubSeq(line, next, Len(line))
<1>1. Len(line) \in Nat /\ \A i \in 1 .. Len(line) : line[i] \in C
  OBVIOUS
<1>2. end \in Ends /\ \A j \in Ends : end <= j
  <2>1. null \in Ends /\ Ends \in SUBSET Nat
    BY <1>1
  <2> HIDE DEF Ends
  <2> QED BY <2>1, HasLeast
<1>3. end \in 1 .. null /\ \A i \in 1 .. end - 1 : line[i] # stop
  <2>1. end \in 1 .. null
    BY <1>2
  <2>2. ASSUME NEW i \in 1 .. end - 1, line[i] = stop PROVE FALSE
    <3>1. i \in Ends
      BY <1>1, <2>1, <2>2
    <3> HIDE DEF end, Ends
    <3> QED BY <1>2, <2>1, <3>1
  <2> QED BY <2>1, <2>2
<1> HIDE DEF end
<1>4. next \in Nexts /\ \A j \in Nexts : next <= j
  <2>1. null \in Nexts /\ Nexts \in SUBSET Nat
    BY <1>1, <1>3
  <2> HIDE DEF Nexts
  <2> QED BY <2>1, HasLeast
<1>5. next \in end .. null /\ \A i \in end .. next - 1 : line[i] = stop
  <2>1. next \in end .. null
    BY <1>4
  <2>2. ASSUME NEW i \in end .. next - 1, line[i] # stop PROVE FALSE
    <3>1. i \in Nexts
      BY <1>1, <1>3, <2>1, <2>2
    <3> HIDE DEF next, Nexts
    <3> QED BY <1>3, <1>4, <2>1, <3>1
  <2> QED BY <2>1, <2>2
<1>6. next <= Len(line) => line[next] # stop
  BY <1>1, <1>4
<1> HIDE DEF next
<1>7. word \in Seq(C \ {stop})
  <2>1. \A i \in 1 .. end - 1 : line[i] \in C \ {stop}
    BY <1>1, <1>3
  <2> QED BY <1>3, <2>1, SubSeqProperties
<1>8. b \in Seq({stop})
  BY <1>1, <1>3, <1>5, SubSeqProperties
<1>9. rest \in Seq(C) /\ (rest # <<>> => rest[1] # stop)
  <2>1. rest \in Seq(C) /\ Len(rest) = IF next <= Len(line) THEN Len(line) - next + 1 ELSE 0
    BY <1>1, <1>3, <1>5, SubSeqProperties
  <2>2. CASE next <= Len(line)
    <3>1. rest[1] = line[next]
      BY <1>1, <1>3, <1>5, <2>2
    <3> QED BY <1>6, <2>1, <2>2, <3>1
  <2>3. CASE ~(next <= Len(line))
    BY <1>1, <1>3, <1>5, <2>1, <2>3
  <2> QED BY <2>1, <2>2, <2>3
<1>10. line = word \o b \o rest
  <2>1. word \o b = SubSeq(line, 1, next - 1)
    <3> DEFINE k == end - 1
    <3>1. 1 \in 1 .. Len(line) + 1 /\ k \in 1 - 1 .. Len(line) /\ next - 1 \in k .. Len(line)
      BY <1>1, <1>3, <1>5
    <3>2. SubSeq(line, 1, k) \o SubSeq(line, k + 1, next - 1) = SubSeq(line, 1, next - 1)
      <4> HIDE DEF k
      <4> QED BY <3>1, ConcatAdjacentSubSeq
    <3>3. k + 1 = end
      BY <1>1, <1>3
    <3> QED BY <3>2, <3>3
  <2>2. SubSeq(line, 1, next - 1) \o rest = SubSeq(line, 1, Len(line))
    <3> DEFINE k == next - 1
    <3>1. 1 \in 1 .. Len(line) + 1 /\ k \in 1 - 1 .. Len(line) /\ Len(line) \in k .. Len(line)
      BY <1>1, <1>3, <1>5
    <3>2. SubSeq(line, 1, k) \o SubSeq(line, k + 1, Len(line)) = SubSeq(line, 1, Len(line))
      <4> HIDE DEF k
      <4> QED BY <3>1, ConcatAdjacentSubSeq
    <3>3. k + 1 = next
      BY <1>1, <1>3, <1>5
    <3> QED BY <3>2, <3>3
  <2> QED BY <2>1, <2>2, SubSeqFull
<1>11. GetWord(line, stop) = [word |-> word, rest |-> rest]
  BY DEF GetWord, end, next
<1> HIDE DEF word, b, rest
<1>12. GetWord(line, stop).word = word /\ GetWord(line, stop).rest = rest
  BY <1>11
<1> QED BY <1>7, <1>8, <1>9, <1>10, <1>12

\* FirstOf finds the least member.
LEMMA LeastIs ==
  ASSUME NEW S \in SUBSET Nat, NEW i \in S, \A j \in S : i <= j
  PROVE  FirstOf(S) = i
<1>1. FirstOf(S) \in S /\ \A j \in S : FirstOf(S) <= j
  BY HasLeast
<1>2. FirstOf(S) \in Nat /\ i \in Nat /\ FirstOf(S) <= i /\ i <= FirstOf(S)
  BY <1>1
<1> QED
  BY <1>2

\* A status line as PEP 333 has it, a code, a space and a message, is accepted.
THEOREM StatusAccepted ==
  ASSUME NEW code \in Seq({"digit"}), NEW message \in Seq({"digit", "space", "other"}),
         message # <<>>, message[1] # "space"
  PROVE  Accepted(code \o <<"space">> \o message)
<1> DEFINE line == code \o <<"space">> \o message
           n    == Len(code)
           null == Len(line) + 1
           Ends == {i \in 1 .. null : i = null \/ line[i] = "space"}
<1>1. /\ n \in Nat /\ Len(line) \in Nat /\ n + 2 <= Len(line)
      /\ \A i \in 1 .. n : line[i] = "digit"
      /\ line[n + 1] = "space" /\ line[n + 2] = message[1]
  OBVIOUS
<1> HIDE DEF line, n
<1> DEFINE end   == FirstOf(Ends)
           Nexts == {i \in end .. null : i = null \/ line[i] # "space"}
           next  == FirstOf(Nexts)
<1>2. end = n + 1
  <2>1. n + 1 \in Ends /\ Ends \in SUBSET Nat
    BY <1>1
  <2>2. ASSUME NEW j \in Ends PROVE n + 1 <= j
    BY <1>1
  <2> HIDE DEF Ends
  <2> QED
    BY <2>1, <2>2, LeastIs
<1> HIDE DEF end
<1>3. next = n + 2
  <2>1. n + 2 \in Nexts /\ Nexts \in SUBSET Nat
    BY <1>1, <1>2
  <2>2. ASSUME NEW j \in Nexts PROVE n + 2 <= j
    BY <1>1, <1>2
  <2> HIDE DEF Nexts
  <2> QED
    BY <2>1, <2>2, LeastIs
<1> HIDE DEF next
<1>4. GetWord(line, "space") = [word |-> SubSeq(line, 1, end - 1),
                                rest |-> SubSeq(line, next, Len(line))]
  BY DEF GetWord, end, next
<1>5. line \in Seq({"digit", "space", "other"})
  BY DEF line
<1>6. IsNumber(SubSeq(line, 1, n + 1 - 1))
  <2>1. n + 1 - 1 = n
    BY <1>1
  <2>2. /\ SubSeq(line, 1, n) \in Seq({"digit", "space", "other"})
        /\ Len(SubSeq(line, 1, n)) = n
        /\ \A i \in 1 .. n : SubSeq(line, 1, n)[i] = line[i]
    BY <1>1, <1>5
  <2> QED
    BY <1>1, <2>1, <2>2 DEF IsNumber
<1>7. SubSeq(line, n + 2, Len(line)) # <<>>
  <2> DEFINE r == SubSeq(line, n + 2, Len(line))
  <2>1. Len(r) = Len(line) - (n + 2) + 1
    BY <1>1, <1>5, SubSeqProperties
  <2> HIDE DEF r
  <2>2. Len(r) # 0
    BY <1>1, <2>1
  <2>3. r # <<>>
    BY <2>2
  <2> QED
    BY <2>3 DEF r
<1>8. GetWord(line, "space").word = SubSeq(line, 1, n + 1 - 1)
      /\ GetWord(line, "space").rest = SubSeq(line, n + 2, Len(line))
  <2>1. GetWord(line, "space").word = SubSeq(line, 1, end - 1)
        /\ GetWord(line, "space").rest = SubSeq(line, next, Len(line))
    BY <1>4
  <2> QED
    BY <1>1, <1>2, <1>3, <2>1
<1>9. Accepted(line)
  BY <1>6, <1>7, <1>8 DEF Accepted
<1> QED
  BY <1>9 DEF line

-----------------------------------------------------------------------------
(* Header lists *)

\* A nonempty set of list positions has a last one: of the sets of positions
\* above its members one is smallest.
LEMMA HasGreatest ==
  ASSUME NEW k \in Nat, NEW S \in SUBSET (1 .. k), S # {}
  PROVE  \E i \in S : \A j \in S : j <= i
<1> DEFINE Above(i) == {n \in 1 .. k : n > i}
           Tails == {Above(i) : i \in S}
<1>1. Tails \subseteq SUBSET (1 .. k) /\ Tails # {}
  BY Zenon
<1>2. FiniteSubsetsOf(1 .. k) = SUBSET (1 .. k)
  <2>1. IsFiniteSet(1 .. k)
    BY FS_Interval
  <2> QED
    BY <2>1, FS_FiniteSubsetsOfFinite, Zenon
<1>3. IsWellFoundedOn(StrictSubsetOrdering(1 .. k), SUBSET (1 .. k))
  BY <1>2, FS_StrictSubsetOrderingWellFounded
<1> HIDE DEF Tails
<1>4. PICK U \in Tails : \A V \in Tails : ~(<<V, U>> \in StrictSubsetOrdering(1 .. k))
  BY <1>1, <1>3, WFMin, Zenon
<1>5. PICK i \in S : U = Above(i)
  BY Zenon DEF Tails
<1>6. \A j \in S : ~(Above(j) \subseteq Above(i) /\ Above(j) # Above(i))
  <2> SUFFICES ASSUME NEW j \in S
               PROVE  ~(Above(j) \subseteq Above(i) /\ Above(j) # Above(i))
    OBVIOUS
  <2>1. Above(j) \in Tails
    BY DEF Tails
  <2>2. ~(<<Above(j), Above(i)>> \in StrictSubsetOrdering(1 .. k))
    BY <1>4, <1>5, <2>1
  <2> QED
    BY <2>2 DEF StrictSubsetOrdering
<1>7. ASSUME NEW j \in S, j > i PROVE FALSE
  <2>1. j \in Above(i) /\ j \notin Above(j)
    BY <1>7
  <2>2. Above(j) \subseteq Above(i)
    BY <1>7
  <2> QED
    BY <2>1, <2>2, <1>6
<1> QED
  BY <1>7

\* The content length after the header loop is one of the list's or the one
\* before it.
LEMMA DeclaredType ==
  ASSUME NEW h \in HeaderLists, NEW before \in Lengths \cup {Unset}
  PROVE  Declared(h, before) \in Lengths \cup {Unset}
<1>1. CASE LengthsIn(h) = {}
  BY <1>1 DEF Declared
<1>2. CASE LengthsIn(h) # {}
  <2>1. PICK k \in 0 .. MaxHeaders : h \in [1 .. k -> Entries]
    BY DEF HeaderLists
  <2>2. k \in Nat /\ LengthsIn(h) \in SUBSET (1 .. k)
    BY <2>1, AdapterAssumption DEF LengthsIn, Read
  <2>3. Greatest(LengthsIn(h)) \in LengthsIn(h)
    <3> DEFINE S == LengthsIn(h)
    <3> HIDE DEF S
    <3>1. \E i \in S : \A j \in S : j <= i
      BY <1>2, <2>2, HasGreatest, Zenon DEF S
    <3>2. Greatest(S) \in S
      BY <3>1 DEF Greatest
    <3> QED
      BY <3>2 DEF S
  <2>4. h[Greatest(LengthsIn(h))].n \in Lengths
    BY <2>1, <2>2, <2>3 DEF LengthsIn, Entries
  <2> QED
    BY <1>2, <2>4 DEF Declared
<1> QED
  BY <1>1, <1>2

\* A list that names a content length names it whatever was stored before.
LEMMA PromiseDeclared ==
  ASSUME NEW h, NEW before, Promise(h) # Unset
  PROVE  Declared(h, before) = Promise(h)
BY DEF Promise, Declared

\* An unset content length is none that a list can name.
LEMMA UnsetApart == Lengths \subseteq Nat /\ Unset \in Int /\ Unset \notin Lengths
BY AdapterAssumption DEF Unset

-----------------------------------------------------------------------------
(* The inductive invariant *)

\* What "status_line is set and headers is not" means, and what came before it.
HeadInv ==
  /\ heads \in {0, 1}
  /\ heads = 1 => statusLine /\ ~unsent
  /\ unsent => statusLine
  /\ unsent \/ ~statusLine => heads = 0 /\ body = 0 /\ outputLength = 0
  /\ statusLine /\ ~unsent => heads = 1 \/ badStatus

\* Once headers are out the stored content length is theirs.
LengthInv ==
  /\ body <= outputLength
  /\ heads = 1 /\ Promise(headers) # Unset
       => contentLength = Promise(headers) /\ body <= contentLength

\* The result is decided when the iteration ends; from then on only close() can
\* put out a header block.
ResultInv ==
  /\ pc \in {"call", "next"} => result = "error" /\ ~late
  /\ late => heads = 1
  /\ pc = "raised" => result = "error"
  /\ pc \in {"close", "done"} /\ ~badStatus => (result = "ok" <=> heads = 1 /\ ~late)

AdapterInv == TypeOK /\ HeadInv /\ LengthInv /\ ResultInv

LEMMA AdapterInit == Init => AdapterInv
<1> SUFFICES ASSUME Init PROVE AdapterInv
  OBVIOUS
<1>1. headers \in HeaderLists
  <2>1. <<>> \in [1 .. 0 -> Entries] /\ 0 \in 0 .. MaxHeaders
    BY AdapterAssumption
  <2> QED
    BY <2>1 DEF Init, HeaderLists
<1>2. /\ statusLine \in BOOLEAN /\ unsent \in BOOLEAN /\ broken \in BOOLEAN
      /\ badStatus \in BOOLEAN /\ late \in BOOLEAN
  BY Zenon DEF Init
<1>3. TypeOK
  BY <1>1, <1>2, UnsetApart DEF Init, TypeOK, Over
<1>4. HeadInv /\ LengthInv /\ ResultInv
  BY DEF Init, HeadInv, LengthInv, ResultInv
<1> QED
  BY <1>3, <1>4 DEF AdapterInv

\* How much of n bytes is put out, and where that leaves a promise.
LEMMA AllowedBounds ==
  ASSUME AdapterInv, NEW n \in Nat
  PROVE  /\ Limit \in Lengths \cup {Unset}
         /\ Allowed(n) \in 0 .. n
         /\ Limit # Unset /\ body <= Limit => body + Allowed(n) <= Limit
<1>1. Limit \in Lengths \cup {Unset}
  BY DeclaredType DEF AdapterInv, TypeOK, Limit
<1>2. Limit \in Int /\ (Limit # Unset => Limit \in Nat)
      /\ outputLength \in Nat /\ body \in Nat /\ body <= outputLength
  BY <1>1, UnsetApart DEF AdapterInv, TypeOK, LengthInv
<1> HIDE DEF Limit
<1> QED
  BY <1>1, <1>2 DEF Allowed, Lesser

\* Adapter_output that gets as far as the data keeps the invariant.
LEMMA PutOutKeeps ==
  ASSUME AdapterInv, NEW n \in Nat, PutOut(n), UNCHANGED started
  PROVE  /\ contentLength' \in Lengths \cup {Unset}
         /\ unsent' = FALSE
         /\ heads' = 1 \/ badStatus
         /\ outputLength' \in Nat /\ heads' \in Nat /\ body' \in Nat /\ late' \in BOOLEAN
         /\ HeadInv' /\ LengthInv'
<1> USE DEF started
<1>1. /\ contentLength' \in Lengths \cup {Unset}
      /\ outputLength' \in Nat /\ heads' \in Nat /\ body' \in Nat /\ late' \in BOOLEAN
  BY AllowedBounds DEF PutOut, SendHead, AdapterInv, TypeOK
<1>2. HeadInv'
  BY DEF PutOut, SendHead, Started, AdapterInv, TypeOK, HeadInv
<1>3. body' <= outputLength'
  BY AllowedBounds DEF PutOut, AdapterInv, TypeOK, LengthInv
<1>4. ASSUME heads' = 1, Promise(headers) # Unset
      PROVE  contentLength' = Promise(headers) /\ body' <= contentLength'
  <2>1. Limit = Promise(headers)
    <3>1. CASE unsent
      BY <1>4, <3>1, PromiseDeclared DEF Limit
    <3>2. CASE ~unsent
      BY <1>4, <3>2 DEF PutOut, SendHead, AdapterInv, LengthInv, Limit
    <3> QED
      BY <3>1, <3>2
  <2>2. Limit \in Nat
    BY <1>4, <2>1, AllowedBounds, UnsetApart
  <2>3. body <= Limit
    <3>1. CASE unsent
      BY <2>2, <3>1 DEF AdapterInv, HeadInv
    <3>2. CASE ~unsent
      BY <1>4, <2>1, <3>2 DEF PutOut, SendHead, AdapterInv, LengthInv
    <3> QED
      BY <3>1, <3>2
  <2>4. body' <= Limit
    BY <1>4, <2>1, <2>2, <2>3, AllowedBounds DEF PutOut, AdapterInv, TypeOK
  <2> QED
    BY <2>1, <2>4 DEF PutOut
<1>5. LengthInv'
  BY <1>3, <1>4 DEF LengthInv, Promise, Declared, LengthsIn, Read
<1>6. unsent' = FALSE /\ (heads' = 1 \/ badStatus)
  BY DEF PutOut, SendHead, Started, AdapterInv, TypeOK, HeadInv
<1> QED
  BY <1>1, <1>2, <1>5, <1>6

\* So does every outcome of Adapter_output.
LEMMA OutputKeeps ==
  ASSUME AdapterInv, NEW n \in Nat, OutputOk(n) \/ OutputFails(n), UNCHANGED started
  PROVE  /\ contentLength' \in Lengths \cup {Unset}
         /\ unsent' \in BOOLEAN
         /\ outputLength' \in Nat /\ heads' \in Nat /\ body' \in Nat /\ late' \in BOOLEAN
         /\ HeadInv' /\ LengthInv'
<1> USE DEF started
<1>1. CASE PutOut(n)
  BY <1>1, PutOutKeeps, Zenon
<1>2. CASE UNCHANGED output
  BY <1>2 DEF output, AdapterInv, TypeOK, HeadInv, LengthInv, Promise, Declared, LengthsIn, Read
<1>3. CASE unsent /\ contentLength' = Limit /\ UNCHANGED <<unsent, outputLength, heads, body, late>>
  <2>1. contentLength' \in Lengths \cup {Unset}
    BY <1>3, DeclaredType DEF AdapterInv, TypeOK, Limit
  <2>2. HeadInv'
    BY <1>3 DEF AdapterInv, HeadInv
  <2>3. LengthInv'
    BY <1>3 DEF AdapterInv, HeadInv, LengthInv
  <2>4. unsent' \in BOOLEAN /\ outputLength' \in Nat /\ heads' \in Nat /\ body' \in Nat /\ late' \in BOOLEAN
    BY <1>3 DEF AdapterInv, TypeOK
  <2> QED
    BY <2>1, <2>2, <2>3, <2>4
<1> QED
  BY <1>1, <1>2, <1>3 DEF OutputOk, OutputFails

\* The steps that may put something out, and the others.
Outputs(n) ==
  /\ pc \notin Over /\ pc' \notin Over
  /\ OutputOk(n) \/ OutputFails(n)
  /\ UNCHANGED <<started, broken>>

Silent == UNCHANGED <<started, output>>

\* Steps that change the list waiting to be sent, or that refuse one.
Lists ==
  /\ UNCHANGED <<pc, contentLength, outputLength, heads, body, late, result, broken>>
  /\ statusLine'
  /\ \/ unsent' /\ badStatus' = badStatus /\ (MayStart \/ unsent)
     \/ UNCHANGED <<headers, unsent>> /\ badStatus' /\ MayStart

LEMMA StepKinds ==
  ASSUME AdapterInv, [Next]_avars
  PROVE  (\E n \in Nat : Outputs(n)) \/ Silent \/ Lists
<1>1. CASE (\E s \in Statuses, h \in HeaderLists : StartResponse(s, h))
           \/ \E h \in HeaderLists : ChangeHeaders(h)
  BY <1>1 DEF StartResponse, ChangeHeaders, Lists, output, AdapterInv, HeadInv
<1>2. CASE \E s \in Statuses : StartRejected(s)
  BY <1>2 DEF StartRejected, Lists, output
<1>3. CASE \E n \in 0 .. MaxChunk : Write(n) \/ Item(n)
  <2> PICK n \in 0 .. MaxChunk : Write(n) \/ Item(n)
    BY <1>3
  <2>1. n \in Nat
    BY AdapterAssumption
  <2>2. Outputs(n)
    BY DEF Write, Item, Running, Outputs, Over
  <2> QED
    BY <2>1, <2>2
<1>4. CASE ItemsEnd
  <2>1. Outputs(0)
    BY <1>4 DEF ItemsEnd, Outputs, Over
  <2> QED
    BY <2>1
<1>5. CASE CallRaises \/ CallReturns \/ ItemRaises \/ Close \/ ClientLeaves \/ Returned \/ UNCHANGED avars
  BY <1>5 DEF CallRaises, CallReturns, ItemRaises, Close, ClientLeaves, Returned, avars, Silent
<1> QED
  BY <1>1, <1>2, <1>3, <1>4, <1>5 DEF Next

\* Every step keeps the types of what the application controls.
LEMMA ControlTypes ==
  ASSUME TypeOK, [Next]_avars
  PROVE  /\ pc' \in {"call", "next", "close"} \cup Over
         /\ statusLine' \in BOOLEAN
         /\ headers' \in HeaderLists
         /\ result' \in {"ok", "error"}
         /\ broken' \in BOOLEAN
         /\ badStatus' \in BOOLEAN
<1> USE DEF TypeOK
<1>1. CASE (\E s \in Statuses, h \in HeaderLists : StartResponse(s, h))
           \/ \E h \in HeaderLists : ChangeHeaders(h)
  BY <1>1 DEF StartResponse, ChangeHeaders
<1>2. CASE \E s \in Statuses : StartRejected(s)
  BY <1>2 DEF StartRejected
<1>3. CASE \E n \in 0 .. MaxChunk : Write(n) \/ Item(n)
  BY <1>3 DEF Write, Item, started, ResultOfError
<1>4. CASE ItemsEnd
  BY <1>4 DEF ItemsEnd, started, ResultOfError
<1>5. CASE CallRaises \/ CallReturns \/ ItemRaises \/ Close \/ ClientLeaves \/ Returned \/ UNCHANGED avars
  BY <1>5 DEF CallRaises, CallReturns, ItemRaises, Close, ClientLeaves, Returned, avars, started, ResultOfError, Over
<1> QED
  BY <1>1, <1>2, <1>3, <1>4, <1>5 DEF Next

\* A header block goes out at most once; under close() that is noted.
LEMMA OutputHeads ==
  ASSUME AdapterInv, NEW n \in Nat, OutputOk(n) \/ OutputFails(n)
  PROVE  \/ UNCHANGED <<heads, late>>
         \/ heads = 0 /\ heads' = 1 /\ ~late /\ (late' <=> pc = "close")
<1>1. CASE PutOut(n)
  BY <1>1 DEF PutOut, SendHead, AdapterInv, TypeOK, HeadInv, ResultInv
<1>2. CASE UNCHANGED <<heads, late>>
  BY <1>2
<1> QED
  BY <1>1, <1>2 DEF OutputOk, OutputFails, output

\* What Adapter_run will decide is open while the iteration lasts, and stands
\* from its end on.
LEMMA ResultStep ==
  ASSUME AdapterInv, HeadInv', [Next]_avars
  PROVE  ResultInv'
<1> USE DEF ResultInv
<1>1. ASSUME NEW n \in Nat, Write(n) PROVE ResultInv'
  BY <1>1, OutputHeads DEF Write, Running, Over, AdapterInv, started
<1>2. ASSUME NEW n \in 0 .. MaxChunk, Item(n) PROVE ResultInv'
  <2>1. n \in Nat
    BY AdapterAssumption
  <2>2. UNCHANGED <<heads, late>> \/ (heads' = 1 /\ ~late /\ ~late')
    BY <1>2, <2>1, OutputHeads DEF Item
  <2>3. ~badStatus' => (heads' = 1 <=> statusLine' /\ ~unsent')
    BY DEF HeadInv
  <2> QED
    BY <1>2, <2>2, <2>3 DEF Item, AdapterInv, started, ResultOfError
<1>3. CASE ItemsEnd
  <2>1. UNCHANGED <<heads, late>> \/ (heads' = 1 /\ ~late /\ ~late')
    BY <1>3, OutputHeads DEF ItemsEnd
  <2>2. OutputOk(0) => heads' = 1 \/ badStatus
    BY <1>3, PutOutKeeps, 0 \in Nat, Zenon DEF ItemsEnd, OutputOk
  <2>3. heads' = 1 => statusLine' /\ ~unsent'
    BY DEF HeadInv
  <2>4. ~badStatus' => (heads' = 1 <=> statusLine' /\ ~unsent')
    BY DEF HeadInv
  <2> QED
    BY <1>3, <2>1, <2>2, <2>3, <2>4 DEF ItemsEnd, AdapterInv, started, ResultOfError
<1>4. CASE ItemRaises
  <2>1. ~badStatus => (heads = 1 <=> statusLine /\ ~unsent)
    BY DEF AdapterInv, HeadInv
  <2> QED
    BY <1>4, <2>1 DEF ItemRaises, AdapterInv, started, output, ResultOfError
<1>5. CASE (\E s \in Statuses, h \in HeaderLists : StartResponse(s, h))
           \/ (\E s \in Statuses : StartRejected(s))
           \/ \E h \in HeaderLists : ChangeHeaders(h)
  BY <1>5 DEF StartResponse, StartRejected, ChangeHeaders, AdapterInv, output
<1>6. CASE CallRaises \/ CallReturns \/ Close \/ ClientLeaves \/ Returned \/ UNCHANGED avars
  BY <1>6 DEF CallRaises, CallReturns, Close, ClientLeaves, Returned, avars, AdapterInv, started, output
<1>7. \A n \in 0 .. MaxChunk : n \in Nat
  BY AdapterAssumption
<1> QED
  BY <1>1, <1>2, <1>3, <1>4, <1>5, <1>6, <1>7 DEF Next

LEMMA AdapterStep ==
  ASSUME AdapterInv, [Next]_avars
  PROVE  AdapterInv'
<1>0. SUFFICES TypeOK' /\ HeadInv' /\ LengthInv'
  BY ResultStep, Zenon DEF AdapterInv
<1>1. ASSUME NEW n \in Nat, Outputs(n)
      PROVE  TypeOK' /\ HeadInv' /\ LengthInv'
  BY <1>1, OutputKeeps, ControlTypes DEF Outputs, AdapterInv, TypeOK
<1>2. CASE Silent
  <2>1. TypeOK'
    BY <1>2, ControlTypes DEF Silent, output, AdapterInv, TypeOK
  <2>2. HeadInv' /\ LengthInv'
    BY <1>2 DEF Silent, started, output, AdapterInv, HeadInv, LengthInv, Promise, Declared, LengthsIn, Read
  <2> QED
    BY <2>1, <2>2
<1>3. CASE Lists
  <2>1. TypeOK'
    BY <1>3, ControlTypes DEF Lists, AdapterInv, TypeOK
  <2>2. heads = 0 /\ HeadInv'
    BY <1>3 DEF Lists, MayStart, AdapterInv, TypeOK, HeadInv
  <2>3. LengthInv'
    BY <1>3, <2>2 DEF Lists, AdapterInv, LengthInv
  <2> QED
    BY <2>1, <2>2, <2>3
<1> QED
  BY <1>1, <1>2, <1>3, StepKinds

LEMMA AdapterInvariant == Spec => []AdapterInv
<1>1. AdapterInv /\ [Next]_avars => AdapterInv'
  BY AdapterStep
<1> QED
  BY <1>1, AdapterInit, PTL DEF Spec

-----------------------------------------------------------------------------
(* The theorems *)

\* The variables of the adapter keep their types; what the application may put
\* into a header list never leads to a negative length or count.
THEOREM AdapterTypes == Spec => []TypeOK
<1>1. AdapterInv => TypeOK
  BY DEF AdapterInv
<1> QED
  BY <1>1, AdapterInvariant, PTL

\* No data goes out before headers, except after a rejected status.
THEOREM HeadBeforeData == Spec => []HeadFirst
<1>1. AdapterInv => HeadFirst
  BY DEF AdapterInv, TypeOK, HeadInv, HeadFirst
<1> QED
  BY <1>1, AdapterInvariant, PTL

\* Data never exceeds what the headers that went out promise, for any lengths
\* and any way the data is cut.
THEOREM PromiseKept == Spec => []LengthKept
<1>1. AdapterInv => LengthKept
  BY DEF AdapterInv, LengthInv, LengthKept
<1> QED
  BY <1>1, AdapterInvariant, PTL

\* Headers go out at most once, before all data.
THEOREM OneHead == Spec => HeadOnce
<1>1. ASSUME AdapterInv, [Next]_avars
      PROVE  [heads' # heads => heads' = 1 /\ body = 0]_avars
  <2>1. ASSUME NEW n \in Nat, Outputs(n), heads' # heads
        PROVE  heads' = 1 /\ body = 0
    BY <1>1, <2>1 DEF Outputs, OutputOk, OutputFails, PutOut, SendHead, output, AdapterInv, HeadInv
  <2> QED
    BY <1>1, <2>1, StepKinds DEF Silent, Lists, output
<1> QED
  BY <1>1, AdapterInvariant, PTL DEF Spec, HeadOnce

\* Adapter_run returns HTTP_OK exactly when the header block went out before
\* close() and the callable did not raise, for any application.
THEOREM ResultSound == Spec => []ResultTells
<1>1. AdapterInv => ResultTells
  BY DEF AdapterInv, ResultInv, ResultTells, Over
<1> QED
  BY <1>1, AdapterInvariant, PTL

\* AlreadySent fails for rejected statuses alone.
THEOREM SentUnlessRejected == Spec => [](AlreadySent \/ badStatus)
<1>1. AdapterInv => AlreadySent \/ badStatus
  BY DEF AdapterInv, HeadInv, AlreadySent
<1> QED
  BY <1>1, AdapterInvariant, PTL

\* An application that gives only statuses as they should be is told the truth.
THEOREM SentWhenAccepted == (\A s \in Statuses : Accepted(s)) /\ Spec => []AlreadySent
<1>1. CASE \A s \in Statuses : Accepted(s)
  <2>1. Init => ~badStatus
    BY DEF Init
  <2>2. ~badStatus /\ [Next]_avars => ~badStatus'
    BY <1>1 DEF Next, StartResponse, StartRejected, ChangeHeaders, Write, Item, ItemsEnd, CallRaises,
       CallReturns, ItemRaises, Close, ClientLeaves, Returned, avars, started
  <2> QED
    BY <2>1, <2>2, SentUnlessRejected, PTL DEF Spec
<1> QED
  BY <1>1

\* A header list that is not sent leaves its content length with the adapter.
LeavesLength == heads' = 0 /\ contentLength' # contentLength

\* Until then the stored length is the sent one, and without one all data goes out.
WholeInv ==
  /\ heads = 0 => contentLength = Unset
  /\ heads = 1 => contentLength = Promise(headers)
  /\ heads = 1 /\ ~broken /\ contentLength = Unset => body = outputLength

LEMMA WholeStep ==
  ASSUME AdapterInv, WholeInv, [Next]_avars, ~LeavesLength \/ UNCHANGED avars
  PROVE  WholeInv'
<1>1. ASSUME NEW n \in Nat, PutOut(n), UNCHANGED <<started, broken>> PROVE WholeInv'
  <2>1. Promise(headers') = Promise(headers) /\ broken' = broken
    BY <1>1 DEF started
  <2>2. CASE heads = 0 /\ unsent
    <3>1. Limit = Promise(headers) /\ body = 0 /\ outputLength = 0 /\ heads' = 1
      BY <1>1, <2>2 DEF WholeInv, Limit, Promise, PutOut, SendHead, AdapterInv, HeadInv
    <3> QED
      BY <1>1, <2>1, <3>1 DEF WholeInv, PutOut, Allowed
  <2>3. CASE ~unsent
    <3>1. Limit = contentLength /\ heads' = heads
      BY <1>1, <2>3 DEF Limit, PutOut, SendHead
    <3> QED
      BY <1>1, <2>1, <3>1 DEF WholeInv, PutOut, Allowed, AdapterInv, TypeOK
  <2> QED
    BY <2>2, <2>3 DEF AdapterInv, HeadInv, TypeOK
<1>2. CASE \E n \in Nat : Outputs(n)
  <2> PICK n \in Nat : Outputs(n)
    BY <1>2
  <2>1. UNCHANGED <<started, broken>>
    BY DEF Outputs
  <2>2. CASE PutOut(n)
    BY <1>1, <2>1, <2>2
  <2>3. CASE UNCHANGED output
    BY <2>1, <2>3 DEF started, output, WholeInv, Promise, Declared, LengthsIn, Read
  <2>4. CASE unsent /\ UNCHANGED <<unsent, outputLength, heads, body, late>>
    <3>1. heads' = 0 /\ heads = 0
      BY <2>4 DEF AdapterInv, HeadInv
    <3>2. contentLength' = contentLength
      BY <3>1 DEF LeavesLength, avars, output
    <3> QED
      BY <3>1, <3>2 DEF WholeInv
  <2> QED
    BY <2>2, <2>3, <2>4 DEF Outputs, OutputOk, OutputFails
<1>3. CASE Silent
  <2>1. Promise(headers') = Promise(headers) /\ UNCHANGED output
    BY <1>3 DEF Silent, started
  <2>2. broken => broken'
    BY DEF Next, StartResponse, StartRejected, ChangeHeaders, Write, Item, ItemsEnd, CallRaises,
       CallReturns, ItemRaises, Close, ClientLeaves, Returned, avars
  <2> QED
    BY <2>1, <2>2 DEF output, WholeInv, AdapterInv, TypeOK
<1>4. CASE Lists
  BY <1>4 DEF Lists, MayStart, WholeInv, AdapterInv, HeadInv, TypeOK
<1> QED
  BY <1>2, <1>3, <1>4, StepKinds

\* As long as no list that is not sent leaves its content length behind, data is
\* left out only because the headers that went out promised less.
THEOREM CutUnlessLeft == Spec /\ [][~LeavesLength]_avars => []CutOnlyToLength
<1>1. Init => WholeInv
  BY DEF Init, WholeInv
<1>2. AdapterInv /\ WholeInv => CutOnlyToLength
  BY DEF WholeInv, CutOnlyToLength
<1>3. AdapterInv /\ WholeInv /\ [Next]_avars /\ [~LeavesLength]_avars => WholeInv'
  BY WholeStep
<1> QED
  BY <1>1, <1>2, <1>3, AdapterInvariant, PTL DEF Spec

\* So an application all of whose header lists are valid loses no data.
THEOREM CutNothing == Spec /\ []WellFormed(headers) => []CutOnlyToLength
<1>1. ASSUME AdapterInv, WellFormed(headers), [Next]_avars PROVE [~LeavesLength]_avars
  <2>1. ASSUME NEW n \in Nat, Outputs(n) PROVE ~LeavesLength
    <3>1. CASE PutOut(n)
      <4>1. unsent => heads' # 0
        BY <1>1, <3>1 DEF PutOut, SendHead, AdapterInv, HeadInv
      <4>2. ~unsent => contentLength' = contentLength
        BY <3>1 DEF PutOut, Limit
      <4> QED
        BY <4>1, <4>2 DEF LeavesLength
    <3>2. CASE UNCHANGED output
      BY <3>2 DEF output, LeavesLength
    <3> QED
      BY <1>1, <2>1, <3>1, <3>2 DEF Outputs, OutputOk, OutputFails
  <2> QED
    BY <1>1, <2>1, StepKinds DEF Silent, Lists, output, LeavesLength
<1>2. AdapterInv /\ WellFormed(headers) /\ [Next]_avars => [~LeavesLength]_avars
  BY <1>1
<1> QED
  BY <1>2, AdapterInvariant, CutUnlessLeft, PTL DEF Spec

\* Adapter_output is a step of the response, or is not seen.
LEMMA OutputReplies ==
  ASSUME AdapterInv, AdapterInv', NEW n \in Nat, Outputs(n)
  PROVE  [Reply!RNext]_(Reply!rvars)
<1> USE DEF started
<1>1. Promise(headers') = Promise(headers) /\ Promise(headers) \in Lengths \cup {Unset}
  BY DeclaredType DEF Outputs, Promise, AdapterInv, TypeOK
<1>2. /\ heads = 1 => heads' = 1 /\ body' >= body
      /\ heads \in {0, 1} /\ heads' \in {0, 1}
  BY AllowedBounds DEF Outputs, OutputOk, OutputFails, PutOut, SendHead, output, AdapterInv, TypeOK, HeadInv
<1>3. heads' = 1 => Data' \in IF Named' = Unset THEN Nat ELSE 0 .. Named'
  BY <1>1, UnsetApart DEF AdapterInv, TypeOK, LengthInv, Data, Named
<1>4. CASE heads' = 0
  BY <1>2, <1>4 DEF Outputs, Stage, Named, Data, Reply!rvars
<1>5. CASE heads = 0 /\ heads' = 1
  <2>1. Reply!SendHeaders(Promise(headers))
    BY <1>1, <1>3, <1>5 DEF Outputs, Stage, Named, Reply!SendHeaders
  <2> QED
    BY <1>1, <2>1 DEF Reply!RNext
<1>6. CASE heads = 1 /\ body' > body
  <2>1. Reply!SendData
    BY <1>1, <1>2, <1>3, <1>6 DEF Outputs, Stage, Named, Data, Reply!SendData
  <2> QED
    BY <2>1 DEF Reply!RNext
<1>7. CASE heads = 1 /\ body' = body
  BY <1>1, <1>2, <1>7 DEF Outputs, Stage, Named, Data, Reply!rvars
<1> QED
  BY <1>2, <1>4, <1>5, <1>6, <1>7 DEF AdapterInv, TypeOK

\* What the client sees of a request is one response, from its headers on.
THEOREM AdapterImplements == Spec => ImplementsResponse
<1>1. Init => Reply!RInit
  BY DEF Init, Stage, Named, Data, Over, Reply!RInit
<1>2. ASSUME AdapterInv, AdapterInv', [Next]_avars
      PROVE  [Reply!RNext]_(Reply!rvars)
  <2>1. CASE \E n \in Nat : Outputs(n)
    BY <1>2, <2>1, OutputReplies
  <2>2. CASE Lists
    <3>1. heads = 0 /\ heads' = 0 /\ pc' = pc
      BY <1>2, <2>2 DEF Lists, MayStart, AdapterInv, HeadInv
    <3> QED
      BY <3>1 DEF Stage, Named, Data, Reply!rvars
  <2>3. CASE Silent
    <3>1. Named' = Named /\ Data' = Data /\ heads' = heads
      BY <2>3 DEF Silent, started, output, Named, Data, Promise, Declared, LengthsIn, Read
    <3>2. CASE pc' \in Over /\ pc \notin Over
      <4>1. Reply!End
        BY <3>1, <3>2 DEF Stage, Reply!End
      <4> QED
        BY <4>1 DEF Reply!RNext
    <3>3. CASE pc' \in Over <=> pc \in Over
      BY <3>1, <3>3 DEF Stage, Reply!rvars
    <3>4. pc \in Over => pc' \in Over
      BY <1>2 DEF Next, StartResponse, ChangeHeaders, StartRejected, Write, Item, ItemsEnd, CallRaises,
         CallReturns, ItemRaises, Close, ClientLeaves, Returned, Running, Over, avars
    <3> QED
      BY <3>2, <3>3, <3>4
  <2> QED
    BY <1>2, <2>1, <2>2, <2>3, StepKinds
<1> QED
  BY <1>1, <1>2, AdapterInvariant, PTL DEF Spec, ImplementsResponse, Reply!RSpec, Reply!rvars
=============================================================================
