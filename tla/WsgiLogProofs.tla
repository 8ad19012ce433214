--------------------------- MODULE WsgiLogProofs ---------------------------
(***************************************************************************)
(* The log object, for text of any length over any characters, cut into    *)
(* any calls.                                                              *)
(***************************************************************************)
EXTENDS WsgiLog, SequenceTheorems, WellFoundedInduction, TLAPS

-----------------------------------------------------------------------------
(* Lines *)

Plain == Chars \ {Newline}

\* Every text with a newline has a first one.
LEMMA FirstLineFound ==
  ASSUME NEW t \in Seq(Chars), HasLine(t)
  PROVE  /\ FirstLine(t) \in 1 .. Len(t)
         /\ t[FirstLine(t)] = Newline
         /\ \A j \in 1 .. FirstLine(t) - 1 : t[j] # Newline
<1> DEFINE Breaks == {i \in 1 .. Len(t) : t[i] = Newline}
<1>1. Len(t) \in Nat /\ DOMAIN t = 1 .. Len(t)
  OBVIOUS
<1>2. Breaks # {} /\ Breaks \subseteq Nat
  BY <1>1 DEF HasLine
<1>3. \E i \in Breaks : \A j \in Breaks : ~(<<j, i>> \in OpToRel(<, Nat))
  <2> HIDE DEF Breaks
  <2> QED BY <1>2, NatLessThanWellFounded, WFMin
<1>4. PICK i \in Breaks : \A j \in Breaks : ~(<<j, i>> \in OpToRel(<, Nat))
  BY <1>3
<1>5. \A j \in 1 .. i - 1 : t[j] # Newline
  <2> SUFFICES ASSUME NEW j \in 1 .. i - 1, t[j] = Newline PROVE FALSE
    OBVIOUS
  <2>1. j \in Breaks /\ j \in Nat /\ i \in Nat /\ j < i
    BY <1>1
  <2>2. <<j, i>> \in OpToRel(<, Nat)
    BY <2>1 DEF OpToRel
  <2> QED BY <1>4, <2>1, <2>2
<1>6. \E k \in DOMAIN t : t[k] = Newline /\ \A j \in 1 .. k - 1 : t[j] # Newline
  BY <1>1, <1>5
<1>7. /\ FirstLine(t) \in DOMAIN t
      /\ t[FirstLine(t)] = Newline
      /\ \A j \in 1 .. FirstLine(t) - 1 : t[j] # Newline
  BY <1>6 DEF FirstLine
<1> QED BY <1>1, <1>7

\* A turn of Log_queue takes a line without newlines off the text, and exactly
\* the newline after it.
LEMMA LineTaken ==
  ASSUME NEW t \in Seq(Chars), HasLine(t)
  PROVE  LET q == FirstLine(t)
             line == SubSeq(t, 1, q - 1)
             tail == SubSeq(t, q + 1, Len(t))
         IN /\ line \in Seq(Plain)
            /\ tail \in Seq(Chars)
            /\ t = Append(line, Newline) \o tail
<1> DEFINE q == FirstLine(t)
           line == SubSeq(t, 1, q - 1)
           tail == SubSeq(t, q + 1, Len(t))
<1>1. q \in 1 .. Len(t) /\ t[q] = Newline /\ \A j \in 1 .. q - 1 : t[j] # Newline
  BY FirstLineFound
<1>2. Len(t) \in Nat /\ \A i \in 1 .. Len(t) : t[i] \in Chars
  OBVIOUS
<1> HIDE DEF q
<1>3. line \in Seq(Plain)
  <2>1. \A i \in 1 .. q - 1 : t[i] \in Plain
    BY <1>1, <1>2 DEF Plain
  <2> QED BY <1>1, <2>1, SubSeqProperties
<1>4. tail \in Seq(Chars)
  BY <1>1, <1>2, SubSeqProperties
<1>5. SubSeq(t, 1, q) = line \o <<Newline>>
  BY <1>1, <1>2, SubSeqRecursiveSecond
<1>6. SubSeq(t, 1, q) \o tail = SubSeq(t, 1, Len(t))
  BY <1>1, <1>2, ConcatAdjacentSubSeq
<1>7. SubSeq(t, 1, Len(t)) = t
  BY SubSeqFull
<1>8. Append(line, Newline) = line \o <<Newline>>
  <2>1. line \in Seq(Chars) /\ Newline \in Chars
    BY <1>2, <1>1, SubSeqProperties, LogAssumption DEF LogAssumption
  <2> QED BY <2>1, AppendIsConcat
<1> QED BY <1>3, <1>4, <1>5, <1>6, <1>7, <1>8 DEF q

LEMMA Regroup ==
  \A s, t, u \in Seq(Chars) : (s \o t) \o u = s \o (t \o u)
<1> QED BY ConcatAssociative

\* Splitting the line l off what Log_queue looks at, a newline and e after it,
\* and joining it with the b that waits, after p that was put out before.
Moves(p, b, l, e) ==
  (p \o Append(b \o l, Newline)) \o <<>> \o e = p \o b \o (Append(l, Newline) \o e)

\* No character moves.
LEMMA LinePut ==
  ASSUME NEW p \in Seq(Chars), NEW b \in Seq(Chars), NEW l \in Seq(Chars), NEW e \in Seq(Chars)
  PROVE  Moves(p, b, l, e)
<1>1. Newline \in Chars /\ <<Newline>> \in Seq(Chars)
  BY LogAssumption DEF LogAssumption
<1> DEFINE nl == <<Newline>>
<1>2. Append(l, Newline) = l \o nl /\ l \o nl \in Seq(Chars)
  BY <1>1, AppendIsConcat, ConcatProperties
<1>3. b \o l \in Seq(Chars) /\ b \o (l \o nl) \in Seq(Chars) /\ p \o b \in Seq(Chars)
  BY <1>2, ConcatProperties
<1>4. Append(b \o l, Newline) = (b \o l) \o nl
  BY <1>1, <1>3, AppendIsConcat
<1>5. (b \o l) \o nl = b \o (l \o nl)
  BY <1>1, Regroup
<1> HIDE DEF nl
<1>6. p \o (b \o (l \o nl)) = (p \o b) \o (l \o nl)
  <2> DEFINE u == l \o nl
  <2>1. u \in Seq(Chars)
    BY <1>2
  <2> HIDE DEF u
  <2>2. (p \o b) \o u = p \o (b \o u)
    BY <2>1, Regroup, ZenonT(60)
  <2> QED BY <2>2 DEF u
<1>7. (p \o b) \o (l \o nl) \in Seq(Chars)
  BY <1>2, <1>3, ConcatProperties
<1>8. ((p \o b) \o (l \o nl)) \o <<>> = (p \o b) \o (l \o nl)
  BY <1>7, ConcatEmptySeq
<1>9. ((p \o b) \o (l \o nl)) \o e = (p \o b) \o ((l \o nl) \o e)
  <2> DEFINE c == p \o b
             d == l \o nl
  <2>1. c \in Seq(Chars) /\ d \in Seq(Chars)
    BY <1>2, <1>3
  <2> HIDE DEF c, d
  <2>2. (c \o d) \o e = c \o (d \o e)
    BY <2>1, Regroup, ZenonT(60)
  <2> QED BY <2>2 DEF c, d
<1> QED BY <1>2, <1>4, <1>5, <1>6, <1>8, <1>9 DEF Moves

-----------------------------------------------------------------------------
(* The invariant *)

Args == [tuple : BOOLEAN, text : Seq(Chars)]

\* Log_queue leaves nothing behind, and runs only on an open object; a request
\* that is not cut short closes the object before it drops it; an open object is
\* one that points to its request.
InLoop ==
  /\ pc = "idle" => rest = <<>>
  /\ pc = "queue" => ~expired
  /\ life \in {"kept", "freed"} => expired
  /\ r <=> ~expired

IInv == TypeOK /\ LinesWhole /\ CloseFlushes /\ InLoop

LEMMA PlainIsText == Seq(Plain) \subseteq Seq(Chars)
<1> QED BY SeqMonotonic DEF Plain

LEMMA InitInv == Init => IInv
<1> SUFFICES ASSUME Init PROVE IInv
  OBVIOUS
<1>1. \A S : <<>> \in Seq(S)
  BY EmptySeq
<1>2. TypeOK
  BY <1>1, Zenon DEF Init, TypeOK
<1>3. LinesWhole
  BY DEF Init, LinesWhole
<1>4. CloseFlushes /\ InLoop
  BY DEF Init, CloseFlushes, InLoop
<1> QED BY <1>2, <1>3, <1>4 DEF IInv

\* A text that Log_queue begins with.
LEMMA QueueInv ==
  ASSUME IInv, NEW t \in Seq(Chars), Ready, Queue(t), lines' \in Seq(Args)
  PROVE  IInv'
<1>1. rest = <<>> /\ rest' = t /\ text' = text \o t /\ pc' = "queue" /\ ~expired
  BY DEF IInv, InLoop, Ready, Queue
<1>2. UNCHANGED <<buf, r, expired, calls, life, put>>
  BY DEF Queue
<1>3. put \in Seq(Chars) /\ buf \in Seq(Chars) /\ text \in Seq(Chars) /\ put \o buf \in Seq(Chars)
  BY PlainIsText, ConcatProperties DEF IInv, TypeOK, Plain
<1>4. life # "leaked" => text = put \o buf
  BY <1>1, <1>3, ConcatEmptySeq DEF IInv, LinesWhole
<1>5. LinesWhole'
  BY <1>1, <1>2, <1>4 DEF LinesWhole
<1>6. text' \in Seq(Chars)
  BY <1>1, <1>3, ConcatProperties
<1>7. TypeOK'
  BY <1>1, <1>2, <1>6, Zenon DEF IInv, TypeOK, Args
<1>8. CloseFlushes' /\ InLoop'
  BY <1>1, <1>2 DEF IInv, CloseFlushes, InLoop
<1> QED BY <1>5, <1>7, <1>8 DEF IInv

\* Steps that move no text.
LEMMA KeepInv ==
  ASSUME IInv, pc = "idle", lines' \in Seq(Args),
         UNCHANGED <<pc, rest, buf, r, expired, calls, life, history>>
  PROVE  IInv'
<1>1. UNCHANGED <<put, text>>
  BY DEF history
<1>2. TypeOK'
  BY <1>1, Zenon DEF IInv, TypeOK, Args
<1> QED BY <1>1, <1>2 DEF IInv, LinesWhole, CloseFlushes, InLoop

LEMMA LineInv ==
  ASSUME IInv, QueueLine
  PROVE  IInv'
<1> DEFINE line == SubSeq(rest, 1, FirstLine(rest) - 1)
           tail == SubSeq(rest, FirstLine(rest) + 1, Len(rest))
<1>1. rest \in Seq(Chars) /\ HasLine(rest)
  BY DEF IInv, TypeOK, QueueLine
<1>2. line \in Seq(Plain) /\ tail \in Seq(Chars) /\ rest = Append(line, Newline) \o tail
  BY <1>1, LineTaken
<1>3. /\ calls' = Append(calls, buf \o line)
      /\ put' = put \o Append(buf \o line, Newline)
      /\ rest' = tail /\ buf' = <<>>
      /\ UNCHANGED <<pc, lines, r, expired, life, text>>
  BY DEF QueueLine, Call, Joined, IInv, InLoop
<1> HIDE DEF line, tail
<1>4. buf \in Seq(Plain) /\ buf \in Seq(Chars) /\ line \in Seq(Chars) /\ put \in Seq(Chars)
  BY <1>2, PlainIsText DEF IInv, TypeOK, Plain
<1>5. buf \o line \in Seq(Plain) /\ buf \o line \in Seq(Chars)
  BY <1>2, <1>4, PlainIsText, ConcatProperties
<1>6. calls' \in Seq(Seq(Plain))
  BY <1>3, <1>5, AppendProperties DEF IInv, TypeOK, Plain
<1>7. put' \in Seq(Chars)
  <2>1. Append(buf \o line, Newline) \in Seq(Chars)
    BY <1>5, AppendProperties, LogAssumption DEF LogAssumption
  <2> QED BY <1>3, <1>4, <2>1, ConcatProperties
<1>8. buf' \in Seq(Plain)
  BY <1>3, EmptySeq
<1>9. TypeOK'
  BY <1>2, <1>3, <1>6, <1>7, <1>8, Zenon DEF IInv, TypeOK, Plain
<1>10. LinesWhole'
  <2>1. Moves(put, buf, line, tail)
    BY <1>2, <1>4, LinePut
  <2>2. put' \o buf' \o rest' = (put \o Append(buf \o line, Newline)) \o <<>> \o tail
    BY <1>3
  <2>3. put \o buf \o rest = put \o buf \o (Append(line, Newline) \o tail)
    BY <1>2
  <2> QED BY <1>3, <2>1, <2>2, <2>3 DEF IInv, LinesWhole, Moves
<1>11. CloseFlushes' /\ InLoop'
  BY <1>3 DEF IInv, CloseFlushes, InLoop, QueueLine
<1> QED BY <1>9, <1>10, <1>11 DEF IInv

LEMMA RestInv ==
  ASSUME IInv, QueueRest
  PROVE  IInv'
<1>1. rest \in Seq(Plain)
  <2>1. rest \in Seq(Chars) /\ ~HasLine(rest)
    BY DEF IInv, TypeOK, QueueRest
  <2>2. \A i \in 1 .. Len(rest) : rest[i] \in Plain
    BY <2>1 DEF HasLine, Plain
  <2> QED BY <2>1, <2>2, IsASeq
<1>2. buf' = buf \o rest /\ rest' = <<>> /\ pc' = "idle"
  BY DEF QueueRest, Joined
<1>3. UNCHANGED <<lines, r, expired, calls, life, put, text>>
  BY DEF QueueRest, history
<1>4. buf \in Seq(Plain) /\ buf \in Seq(Chars) /\ rest \in Seq(Chars) /\ put \in Seq(Chars)
  BY <1>1, PlainIsText DEF IInv, TypeOK, Plain
<1>5. buf' \in Seq(Plain) /\ buf' \in Seq(Chars)
  BY <1>1, <1>2, <1>4, PlainIsText, ConcatProperties
<1>6. TypeOK'
  <2>1. rest' \in Seq(Chars)
    BY <1>2, EmptySeq
  <2> QED BY <1>2, <1>3, <1>5, <2>1, Zenon DEF IInv, TypeOK, Plain
<1>7. LinesWhole'
  <2>1. put \o (buf \o rest) = put \o buf \o rest
    BY <1>4, ConcatAssociative
  <2>2. put \o (buf \o rest) \in Seq(Chars)
    BY <1>2, <1>4, <1>5, ConcatProperties
  <2>3. (put \o (buf \o rest)) \o <<>> = put \o (buf \o rest)
    BY <2>2, ConcatEmptySeq
  <2> QED BY <1>2, <1>3, <2>1, <2>3 DEF IInv, LinesWhole
<1>8. CloseFlushes' /\ InLoop'
  BY <1>2, <1>3 DEF IInv, CloseFlushes, InLoop, QueueRest
<1> QED BY <1>6, <1>7, <1>8 DEF IInv

\* Log_flush, on its own, in close or in the end of the object.
LEMMA PutInv ==
  ASSUME IInv, pc = "idle", PutBuffer \/ (expired /\ Keep), UNCHANGED <<pc, rest, lines>>,
         expired' \in BOOLEAN, r' \in BOOLEAN, r' <=> ~expired', expired => expired',
         life' = "leaked" <=> life = "leaked", life' \in {"held", "kept", "leaked", "freed"},
         life' \in {"kept", "freed"} => expired'
  PROVE  IInv'
<1>1. rest = <<>> /\ rest' = <<>>
  BY DEF IInv, InLoop
<1>2. put \in Seq(Chars) /\ buf \in Seq(Plain) /\ buf \in Seq(Chars) /\ text \in Seq(Chars)
  BY PlainIsText DEF IInv, TypeOK, Plain
<1>3. (life # "leaked" => text = put \o buf) /\ put \o buf \in Seq(Chars)
  BY <1>1, <1>2, ConcatProperties, ConcatEmptySeq DEF IInv, LinesWhole
<1>4. CASE buf = <<>> /\ Keep
  <2>1. UNCHANGED <<rest, lines, buf, calls, put, text>>
    BY <1>4 DEF Keep, history
  <2>2. TypeOK'
    BY <2>1, Zenon DEF IInv, TypeOK
  <2> QED BY <1>4, <2>1, <2>2 DEF IInv, LinesWhole, CloseFlushes, InLoop
<1>5. CASE ~expired /\ buf # <<>> /\ Call(buf) /\ buf' = <<>> /\ text' = Append(text, Newline)
  <2>1. calls' = Append(calls, buf) /\ put' = put \o Append(buf, Newline)
    BY <1>5 DEF Call, IInv, InLoop
  <2>2. Append(buf, Newline) = buf \o <<Newline>> /\ Append(text, Newline) = text \o <<Newline>>
    BY <1>2, AppendIsConcat, LogAssumption DEF LogAssumption
  <2>3. <<Newline>> \in Seq(Chars)
    BY LogAssumption DEF LogAssumption
  <2>4. (life # "leaked" => put' = text') /\ put' \in Seq(Chars)
    <3>1. put' = put \o (buf \o <<Newline>>) /\ text' = text \o <<Newline>>
      BY <1>5, <2>1, <2>2
    <3>2. put \o (buf \o <<Newline>>) = (put \o buf) \o <<Newline>>
      BY <1>2, <2>3, ConcatAssociative
    <3>3. (put \o buf) \o <<Newline>> \in Seq(Chars)
      BY <1>3, <2>3, ConcatProperties
    <3> QED BY <1>3, <3>1, <3>2, <3>3
  <2>5. text' \in Seq(Chars)
    BY <1>2, <1>5, AppendProperties, LogAssumption DEF LogAssumption
  <2>6. LinesWhole'
    <3>1. put' \o <<>> = put' /\ put' \o <<>> \o <<>> = put'
      BY <2>4, ConcatEmptySeq
    <3> QED BY <1>1, <1>5, <2>4, <3>1 DEF LinesWhole
  <2>7. calls' \in Seq(Seq(Plain))
    BY <1>2, <2>1, AppendProperties DEF IInv, TypeOK, Plain
  <2>8. buf' \in Seq(Plain)
    BY <1>5, EmptySeq
  <2>9. TypeOK'
    BY <2>4, <2>5, <2>7, <2>8, Zenon DEF IInv, TypeOK, Plain
  <2> QED BY <1>5, <2>6, <2>9 DEF IInv, CloseFlushes, InLoop
<1>6. expired => buf = <<>>
  BY DEF IInv, CloseFlushes
<1> QED BY <1>4, <1>5, <1>6 DEF PutBuffer

LEMMA StepInv == IInv /\ [Next]_gvars => IInv'
<1> SUFFICES ASSUME IInv, [Next]_gvars PROVE IInv'
  OBVIOUS
<1>1. lines \in Seq(Args) /\ expired \in BOOLEAN /\ r \in BOOLEAN /\ life \in {"held", "kept", "leaked", "freed"}
  BY Zenon DEF IInv, TypeOK, Args
<1>2. \A n : Texts(n) \subseteq Seq(Chars)
  <2> SUFFICES ASSUME NEW n, NEW k \in 0 .. n, NEW t \in [1 .. k -> Chars] PROVE t \in Seq(Chars)
    BY DEF Texts
  <2>1. k \in Nat
    OBVIOUS
  <2> QED BY <2>1
<1>3. CASE \E t \in Texts(Room) : Write(t)
  BY <1>1, <1>2, <1>3, QueueInv DEF Write
<1>4. CASE \E i, j \in Items(1) : Room >= 2 /\ Writelines(<<i, j>>)
  <2>1. PICK i, j \in Items(1) : Writelines(<<i, j>>)
    BY <1>4
  <2>2. i \in Args /\ j \in Args
    BY <1>2 DEF Items, Args
  <2>3. <<i, j>> \in Seq(Args)
    BY <2>2
  <2> QED BY <2>1, <2>3, KeepInv DEF Writelines, Ready
<1>5. CASE NextItem
  <2>1. lines # <<>> /\ pc = "idle"
    BY <1>5 DEF NextItem
  <2>2. lines[1] \in Args /\ Tail(lines) \in Seq(Args) /\ <<>> \in Seq(Args)
    BY <1>1, <2>1
  <2>3. CASE lines[1].tuple /\ ~expired
    <3>1. lines[1].text \in Seq(Chars)
      BY <2>2 DEF Args
    <3>2. Queue(lines[1].text) /\ lines' = Tail(lines)
      BY <1>5, <2>3 DEF NextItem
    <3>3. Ready
      BY <2>1, <2>3 DEF Ready, IInv, InLoop
    <3> QED BY <2>2, <3>1, <3>2, <3>3, QueueInv
  <2>4. CASE ~(lines[1].tuple /\ ~expired)
    BY <1>5, <2>1, <2>2, <2>4, KeepInv DEF NextItem
  <2> QED BY <2>3, <2>4
<1>6. CASE QueueLine
  BY <1>6, LineInv
<1>7. CASE QueueRest
  BY <1>7, RestInv
<1>8. CASE Flush
  <2>1. life' = life /\ expired' = expired /\ r' = r /\ PutBuffer /\ pc = "idle"
        /\ UNCHANGED <<pc, rest, lines>>
    BY <1>8 DEF Flush, Ready
  <2> QED BY <1>1, <2>1, PutInv DEF IInv, InLoop
<1>9. CASE AppCloses \/ RequestEnds
  <2>1. Shut /\ life' \in {"held", "kept", "leaked", "freed"}
    BY <1>1, <1>9 DEF AppCloses, RequestEnds
  <2>2. expired' = TRUE /\ r' = FALSE /\ expired' \in BOOLEAN /\ pc = "idle" /\ UNCHANGED <<pc, rest, lines>>
        /\ (PutBuffer \/ (expired /\ Keep))
    BY <2>1 DEF Shut
  <2>3. life' = "leaked" <=> life = "leaked"
    BY <1>9 DEF AppCloses, RequestEnds
  <2> QED BY <2>1, <2>2, <2>3, PutInv
<1>10. CASE Dealloc
  <2>1. life = "kept" /\ expired
    BY <1>10 DEF Dealloc, IInv, InLoop
  <2>2. expired' = expired /\ r' = r /\ life' = "freed" /\ pc = "idle" /\ UNCHANGED <<pc, rest, lines>>
        /\ (PutBuffer \/ (expired /\ Keep))
    BY <1>10 DEF Dealloc
  <2> QED BY <1>1, <2>1, <2>2, PutInv DEF IInv, InLoop
<1>11. CASE RequestCut
  <2>1. /\ life' = "leaked" /\ rest' = <<>> /\ lines' = <<>> /\ pc' = "idle"
        /\ UNCHANGED <<buf, r, expired, calls, put, text>>
    BY <1>11 DEF RequestCut, history
  <2>2. \A S : <<>> \in Seq(S)
    BY EmptySeq
  <2>3. TypeOK'
    BY <2>1, <2>2, Zenon DEF IInv, TypeOK
  <2> QED BY <2>1, <2>3 DEF IInv, LinesWhole, CloseFlushes, InLoop
<1>12. CASE Freed \/ UNCHANGED gvars
  <2>1. UNCHANGED <<pc, rest, lines, buf, r, expired, calls, life, put, text>>
    BY <1>12 DEF Freed, gvars, history
  <2>2. TypeOK'
    BY <2>1, Zenon DEF IInv, TypeOK
  <2> QED BY <2>1, <2>2 DEF IInv, LinesWhole, CloseFlushes, InLoop
<1> QED BY <1>3, <1>4, <1>5, <1>6, <1>7, <1>8, <1>9, <1>10, <1>11, <1>12 DEF Next

LEMMA Invariant == Spec => []IInv
<1> QED BY InitInv, StepInv, PTL DEF Spec

-----------------------------------------------------------------------------

\* The state keeps its types; above all, no call and no buffer holds a newline.
THEOREM TypeCorrect == Spec => []TypeOK
<1>1. IInv => TypeOK
  BY DEF IInv
<1> QED BY <1>1, Invariant, PTL

\* Whatever is written, line by line or not, flushed and closed, comes out or
\* waits, in its order and once, unless the alarm cut the request short.
THEOREM TextKept == Spec => []LinesWhole
<1>1. IInv => LinesWhole
  BY DEF IInv
<1> QED BY <1>1, Invariant, PTL

\* A closed object, and one the request has dropped, holds no text: the put in
\* Log_dealloc is never reached with any.
THEOREM ClosedEmpty == Spec => []CloseFlushes
<1>1. IInv => CloseFlushes
  BY DEF IInv
<1> QED BY <1>1, Invariant, PTL

\* A closed object puts nothing out any more, nor does one whose request was not
\* cut short by the alarm.
THEOREM SilentWhenClosed == Spec => NothingLate
<1>1. IInv /\ [Next]_gvars => [expired \/ life \in {"kept", "freed"} => calls' = calls]_gvars
  <2> SUFFICES ASSUME IInv, Next, expired \/ life \in {"kept", "freed"} PROVE calls' = calls
    BY DEF gvars
  <2>1. expired /\ buf = <<>>
    BY DEF IInv, InLoop, CloseFlushes
  <2>2. pc # "queue"
    BY <2>1 DEF IInv, InLoop
  <2> QED BY <2>1, <2>2
    DEF Next, Write, Writelines, NextItem, QueueLine, QueueRest, Flush, AppCloses, RequestEnds,
        RequestCut, Shut, Dealloc, Freed, Ready, Queue, Keep, gvars
<1> QED BY <1>1, Invariant, PTL DEF Spec, NothingLate
=============================================================================
