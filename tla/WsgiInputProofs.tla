--------------------------- MODULE WsgiInputProofs ---------------------------
(***************************************************************************)
(* The input object, for bodies and sizes without bound and any int.       *)
(***************************************************************************)
EXTENDS WsgiInput, TLAPS

-----------------------------------------------------------------------------
(* Narrowing *)

Word == 2 * (IntMax + 1)

\* A multiple of the word that lies strictly within one word of zero is zero.
LEMMA OneWord ==
  ASSUME NEW w \in Nat \ {0}, NEW q \in Int, -w < w * q, w * q < w
  PROVE  q = 0
<1>1. CASE q >= 1
  <2>1. w * q >= w * 1
    BY <1>1
  <2> QED BY <2>1
<1>2. CASE q <= -1
  <2>1. w * q <= w * (-1)
    BY <1>2
  <2> QED BY <2>1
<1> QED BY <1>1, <1>2

\* Taking off no more than the low bits of a number takes it off them.
LEMMA LowBits ==
  ASSUME NEW w \in Nat \ {0}, NEW s \in Nat, NEW l \in Nat, l <= s % w
  PROVE  (s - l) % w = (s % w) - l
<1> DEFINE q == s \div w
           r == s % w
           k == (s - l) \div w
           t == (s - l) % w
<1>1. q \in Int /\ r \in 0 .. w - 1 /\ s = w * q + r
  OBVIOUS
<1>2. k \in Int /\ t \in 0 .. w - 1 /\ s - l = w * k + t
  OBVIOUS
<1> HIDE DEF q, r, k, t
<1>3. w * (k - q) = (r - l) - t
  <2>1. w * (k - q) = w * k - w * q
    BY <1>1, <1>2
  <2> QED BY <1>1, <1>2, <2>1
<1>4. l <= r
  BY DEF r
<1>5. k - q = 0
  BY <1>1, <1>2, <1>3, <1>4, OneWord
<1> QED
  BY <1>1, <1>2, <1>3, <1>4, <1>5 DEF r, t

\* A number that is not negative is no less than its low bits.
LEMMA LowSmaller ==
  ASSUME NEW w \in Nat \ {0}, NEW s \in Nat
  PROVE  s % w \in 0 .. s
<1> DEFINE q == s \div w
           r == s % w
<1>1. q \in Int /\ r \in 0 .. w - 1 /\ s = w * q + r
  OBVIOUS
<1> HIDE DEF q, r
<1>2. CASE q <= -1
  <2>1. w * q <= w * (-1)
    BY <1>1, <1>2
  <2> QED BY <1>1, <2>1
<1>3. CASE q >= 0
  <2>1. w * q >= 0
    BY <1>1, <1>3
  <2> QED BY <1>1, <2>1 DEF r
<1> QED BY <1>1, <1>2, <1>3

\* What an int holds passes unchanged.
LEMMA IntStays ==
  ASSUME NEW n \in 0 .. IntMax
  PROVE  AsInt(n) = n
<1> USE InputAssumption DEF InputAssumption
<1>1. n % (2 * (IntMax + 1)) = n
  OBVIOUS
<1> QED BY <1>1 DEF AsInt

\* What GetData is asked for when a call has l of s bytes.
LEMMA StillAsked ==
  ASSUME NEW s \in Nat, NEW l \in Nat, l <= s % Word, AsInt(s - l) > 0, l = 0 \/ s % Word <= IntMax
  PROVE  AsInt(s - l) = (s % Word) - l /\ s % Word <= IntMax /\ s % Word \in Nat
<1> USE InputAssumption DEF InputAssumption
<1>1. Word \in Nat \ {0} /\ Word = 2 * (IntMax + 1)
  BY DEF Word
<1>2. (s - l) % Word = (s % Word) - l
  BY <1>1, LowBits
<1>3. s % Word \in 0 .. s
  BY <1>1, LowSmaller
<1>4. s % Word < Word
  BY <1>1
<1> DEFINE low == s % Word
<1>5. AsInt(s - l) = IF low - l > IntMax THEN low - l - Word ELSE low - l
  BY <1>1, <1>2 DEF AsInt
<1> HIDE DEF low
<1>6. low \in Nat /\ low < Word /\ l <= low /\ (l = 0 \/ low <= IntMax)
  BY <1>3, <1>4 DEF low
<1>7. low - l <= IntMax
  BY <1>1, <1>5, <1>6
<1> QED BY <1>1, <1>5, <1>6, <1>7 DEF low

-----------------------------------------------------------------------------
(* The invariant *)

\* Types, without the bounds that follow from NothingLost.
Flags == expired \in BOOLEAN /\ done \in BOOLEAN /\ wide \in BOOLEAN

Typed ==
  /\ pc \in {"idle", "read"}
  /\ left \in Nat /\ taken \in Nat /\ gone \in Nat /\ length \in Nat
  /\ body \in 0 .. MaxBody
  /\ size \in -2 .. MaxRead
  /\ answer \in {"none", "string", "error", "null"}

\* A call in progress has no more than the low bits of what it asked for, and
\* something only when those are an int.
Narrow ==
  /\ length \in 0 .. IntMax /\ length <= MaxRead
  /\ pc = "read" =>
       /\ size > 0 /\ ~done
       /\ length <= size % Word
       /\ length = 0 \/ size % Word <= IntMax
       /\ ~wide => size <= IntMax

IInv == Flags /\ Typed /\ NothingLost /\ Narrow /\ ShortOnlyAtEnd

LEMMA InitInv == Init => IInv
<1> SUFFICES ASSUME Init PROVE IInv
  OBVIOUS
<1> USE InputAssumption DEF InputAssumption
<1>1. Flags
  BY Zenon DEF Init, Flags
<1>2. Typed
  BY DEF Init, Typed
<1>3. NothingLost /\ Narrow /\ ShortOnlyAtEnd
  BY DEF Init, NothingLost, Narrow, ShortOnlyAtEnd
<1> QED BY <1>1, <1>2, <1>3 DEF IInv

\* A call that is answered at once moves no byte.
LEMMA AnswerInv ==
  ASSUME IInv, NEW n \in -2 .. MaxRead, NEW a \in {"string", "error", "null"}, AnswerNow(n, a),
         a = "string" => done \/ n = 0
  PROVE  IInv'
<1> USE InputAssumption DEF InputAssumption
<1>0. Flags'
  BY Zenon DEF IInv, Flags, AnswerNow, history
<1>1. Typed'
  BY DEF IInv, Typed, AnswerNow, history
<1>2. NothingLost'
  BY DEF IInv, Typed, NothingLost, AnswerNow, history
<1>3. Narrow'
  BY DEF IInv, Typed, Narrow, AnswerNow, history
<1>4. ShortOnlyAtEnd'
  BY DEF IInv, Typed, ShortOnlyAtEnd, AnswerNow, history
<1> QED BY <1>0, <1>1, <1>2, <1>3, <1>4 DEF IInv

LEMMA StartInv ==
  ASSUME IInv, NEW n \in -1 .. MaxRead, ReadStart(n)
  PROVE  IInv'
<1> USE InputAssumption DEF InputAssumption
<1>0. Flags'
  BY Zenon DEF IInv, Flags, ReadStart
<1>1. Typed'
  BY DEF IInv, Typed, ReadStart
<1>2. NothingLost'
  BY DEF IInv, Typed, NothingLost, ReadStart
<1>3. n % Word \in 0 .. n
  BY LowSmaller DEF Word, ReadStart
<1>4. Narrow'
  <2>1. ~wide' => ~(n > IntMax)
    BY Zenon DEF ReadStart
  <2>2. pc' = "read" /\ size' = n /\ length' = 0 /\ ~done' /\ n > 0
    BY DEF ReadStart
  <2>3. 0 <= n % Word
    BY <1>3
  <2>4. size' % Word = n % Word
    BY <2>2
  <2> HIDE DEF Word
  <2> QED BY <2>1, <2>2, <2>3, <2>4 DEF Narrow
<1>5. ShortOnlyAtEnd'
  BY DEF IInv, Typed, ShortOnlyAtEnd, ReadStart
<1> QED BY <1>0, <1>1, <1>2, <1>4, <1>5 DEF IInv

LEMMA ChunkInv ==
  ASSUME IInv, NEW n \in 1 .. MaxBody, Chunk(n)
  PROVE  IInv'
<1> USE InputAssumption DEF InputAssumption
<1>0. Flags'
  BY Zenon DEF IInv, Flags, Chunk, history
<1>1. n <= AsInt(size - length) /\ n <= left
  <2>1. n <= Lesser(AsInt(size - length), left)
    BY DEF Chunk
  <2>2. AsInt(size - length) \in Int
    BY DEF AsInt, IInv, Typed
  <2> QED BY <2>1, <2>2 DEF Lesser, IInv, Typed
<1>2. size \in Nat /\ size > 0 /\ size <= MaxRead /\ length <= size % Word
      /\ (length = 0 \/ size % Word <= IntMax)
  BY DEF IInv, Typed, Narrow, Chunk
<1>3. AsInt(size - length) \in Int /\ AsInt(size - length) > 0
  <2>1. AsInt(size - length) \in Int
    BY DEF AsInt, IInv, Typed
  <2> QED BY <1>1, <2>1
<1>4. AsInt(size - length) = (size % Word) - length /\ size % Word <= IntMax /\ size % Word \in Nat
  BY <1>2, <1>3, StillAsked DEF IInv, Typed
<1>5. size % Word \in 0 .. size
  BY <1>2, LowSmaller DEF Word
<1>6. Typed'
  BY <1>1 DEF IInv, Typed, Chunk, history
<1>7. NothingLost'
  BY <1>1 DEF IInv, Typed, NothingLost, Chunk, history
<1>8. Narrow'
  <2> DEFINE low == size % Word
  <2>1. length + n <= low /\ low <= IntMax /\ low \in 0 .. size
    BY <1>1, <1>4, <1>5 DEF IInv, Typed
  <2>2. size' % Word = low
    BY DEF Chunk
  <2> HIDE DEF low
  <2> QED BY <1>2, <2>1, <2>2 DEF IInv, Typed, Narrow, Chunk, history
<1>9. ShortOnlyAtEnd'
  BY <1>1 DEF IInv, Typed, Narrow, ShortOnlyAtEnd, Chunk, history
<1> QED BY <1>0, <1>6, <1>7, <1>8, <1>9 DEF IInv

LEMMA EndInv ==
  ASSUME IInv, ReadEnd
  PROVE  IInv'
<1> USE InputAssumption DEF InputAssumption
<1>0. Flags'
  BY Zenon DEF IInv, Flags, ReadEnd, history
<1>1. Typed'
  BY DEF IInv, Typed, ReadEnd, history
<1>2. NothingLost'
  BY DEF IInv, Typed, NothingLost, ReadEnd, history
<1>3. Narrow'
  BY DEF IInv, Typed, Narrow, ReadEnd, history
<1>4. ~wide /\ ~Finished => (NoData => left = 0)
  <2> SUFFICES ASSUME ~wide, ~Finished PROVE NoData => left = 0
    OBVIOUS
  <2>1. size \in 1 .. IntMax
    BY DEF IInv, Typed, Narrow, ReadEnd
  <2>2. size % Word \in 0 .. size
    BY <2>1, LowSmaller DEF Word
  <2>3. size - length \in 1 .. IntMax
    BY <2>1, <2>2 DEF IInv, Typed, Narrow, ReadEnd, Finished
  <2>4. AsInt(size - length) = size - length
    BY <2>3, IntStays
  <2> QED BY <2>3, <2>4 DEF NoData
<1>5. ShortOnlyAtEnd'
  BY <1>4 DEF IInv, Typed, Narrow, ShortOnlyAtEnd, ReadEnd, Finished, history
<1> QED BY <1>0, <1>1, <1>2, <1>3, <1>5 DEF IInv

LEMMA StepInv == IInv /\ [Next]_ivars => IInv'
<1> SUFFICES ASSUME IInv, [Next]_ivars PROVE IInv'
  OBVIOUS
<1> USE InputAssumption DEF InputAssumption
<1>1. CASE \E n \in -1 .. MaxRead : Expired(n) \/ ReadEmpty(n) \/ ReadNothing(n) \/ ReadNoMemory(n)
  BY <1>1, AnswerInv DEF Expired, ReadEmpty, ReadNothing, ReadNoMemory
<1>2. CASE \E n \in -1 .. MaxRead : ReadStart(n)
  BY <1>2, StartInv
<1>3. CASE ReadLine
  BY <1>3, AnswerInv DEF ReadLine, Line
<1>4. CASE \E n \in 1 .. MaxBody : Chunk(n)
  BY <1>4, ChunkInv
<1>5. CASE ReadEnd
  BY <1>5, EndInv
<1>6. CASE Expire
  <2>1. Flags'
    BY <1>6, Zenon DEF Expire, IInv, Flags, history
  <2>2. Typed' /\ NothingLost' /\ Narrow' /\ ShortOnlyAtEnd'
    BY <1>6 DEF Expire, IInv, Typed, NothingLost, Narrow, ShortOnlyAtEnd, history
  <2> QED BY <2>1, <2>2 DEF IInv
<1>7. CASE StreamCut
  <2>1. Flags'
    BY <1>7, Zenon DEF StreamCut, IInv, Flags
  <2>2. Typed' /\ NothingLost' /\ Narrow' /\ ShortOnlyAtEnd'
    BY <1>7 DEF StreamCut, IInv, Typed, NothingLost, Narrow, ShortOnlyAtEnd
  <2> QED BY <2>1, <2>2 DEF IInv
<1>8. CASE UNCHANGED ivars
  BY <1>8 DEF ivars, IInv, Flags, Typed, NothingLost, Narrow, ShortOnlyAtEnd, history
<1> QED BY <1>1, <1>2, <1>3, <1>4, <1>5, <1>6, <1>7, <1>8 DEF Next

LEMMA Invariant == Spec => []IInv
<1> QED BY InitInv, StepInv, PTL DEF Spec

-----------------------------------------------------------------------------

\* The state keeps its types and, whatever is asked for, its bounds.
THEOREM TypeCorrect == Spec => []TypeOK
<1>1. IInv => TypeOK
  BY InputAssumption DEF IInv, Flags, Typed, NothingLost, Narrow, TypeOK, InputAssumption
<1> QED BY <1>1, Invariant, PTL

\* No byte of a body is lost or delivered twice, for bodies and reads of any
\* size, an int of any width and a stream that ends anywhere.
THEOREM NoneLost == Spec => []NothingLost
<1>1. IInv => NothingLost
  BY DEF IInv
<1> QED BY <1>1, Invariant, PTL

\* Short strings mean the end of the stream, as long as sizes are ints.
THEOREM ShortMeansEnd == Spec => []ShortOnlyAtEnd
<1>1. IInv => ShortOnlyAtEnd
  BY DEF IInv
<1> QED BY <1>1, Invariant, PTL

\* The int that counts never leaves its range, though nothing in the code
\* looks at it: a call that asks for more than an int is cut before it could.
THEOREM LengthStaysInt == Spec => []LengthFits
<1>1. IInv => LengthFits
  BY InputAssumption DEF IInv, Typed, Narrow, LengthFits, InputAssumption
<1> QED BY <1>1, Invariant, PTL
=============================================================================
