---------------------------- MODULE CvsRespProofs ----------------------------
(***************************************************************************)
(* Proofs about CvsResp for every set of answers and every size of the     *)
(* buffer and of a recv: its type invariant, that what is received always  *)
(* fits into the buffer, that it implements Connection, and when a call    *)
(* returns its own answer.                                                 *)
(***************************************************************************)
EXTENDS CvsResp, TLAPS, SequenceTheorems

\* recv takes at least one symbol, and no more than there are or it may take.
LEMMA ReceivedBounds ==
    ASSUME wire \in Text, wire # <<>>
    PROVE  Received \in 1..Len(wire) /\ Received <= ReadSize
<1>1. Len(wire) \in Nat /\ Len(wire) # 0
  BY EmptySeq DEF Text
<1> QED
  BY <1>1, BufferAssumption DEF Received

\* The first n symbols of a text, and the rest, are texts.
LEMMA CutText ==
    ASSUME NEW s \in Text, NEW n \in 1..Len(s)
    PROVE  /\ SubSeq(s, 1, n) \in Text /\ Len(SubSeq(s, 1, n)) = n
           /\ SubSeq(s, n + 1, Len(s)) \in Text
<1>1. Len(s) \in Nat
  BY DEF Text
<1>2. \A i \in 1..n : s[i] \in Symbol
  BY <1>1 DEF Text
<1>3. \A i \in (n + 1)..Len(s) : s[i] \in Symbol
  BY <1>1 DEF Text
<1>4. SubSeq(s, 1, n) \in Seq(Symbol) /\ Len(SubSeq(s, 1, n)) = n
  BY <1>1, <1>2, SubSeqProperties DEF Text
<1>5. SubSeq(s, n + 1, Len(s)) \in Seq(Symbol)
  BY <1>1, <1>3, SubSeqProperties DEF Text
<1> QED
  BY <1>4, <1>5 DEF Text

\* The invariant: TypeOK and BufferFits together are inductive, because one
\* recv takes less than the smallest buffer holds.
Inv == TypeOK /\ BufferFits

LEMMA InitInv == Init => Inv
<1> SUFFICES ASSUME Init PROVE Inv
  OBVIOUS
<1>1. <<>> \in Text /\ Len(<<>>) = 0
  BY DEF Text
<1>2. BuffSize \in Nat /\ BuffSize > 0
  BY BufferAssumption
<1>3. BufferFits
  BY <1>1, <1>2 DEF Init, BufferFits
<1>4. limit \in Nat /\ limit >= BuffSize
  BY <1>2 DEF Init
<1>5. checks \in BOOLEAN /\ clean \in BOOLEAN
  BY DEF Init
<1> QED
  BY <1>1, <1>3, <1>4, <1>5 DEF Init, Inv, TypeOK

\* Text that arrives, and what the server does, leave the buffer alone.
LEMMA DeliverInv ==
    ASSUME Inv, NEW n \in 1..Len(outbox), Deliver(n)
    PROVE  Inv'
<1>1. SubSeq(outbox, 1, n) \in Text /\ SubSeq(outbox, n + 1, Len(outbox)) \in Text
  BY CutText DEF Inv, TypeOK
<1>2. wire' = wire \o SubSeq(outbox, 1, n) /\ outbox' = SubSeq(outbox, n + 1, Len(outbox))
  BY DEF Deliver
<1>3. \A a, b \in Text : a \o b \in Text
  BY DEF Text
<1>4. wire' \in Text /\ outbox' \in Text
  BY <1>1, <1>2, <1>3 DEF Inv, TypeOK
<1> QED
  BY <1>4 DEF Deliver, Inv, TypeOK, BufferFits

LEMMA RequestInv ==
    ASSUME Inv, NEW r \in Response, NEW c \in BOOLEAN, Request(r, c)
    PROVE  Inv'
<1>1. r \in Text
  BY ResponseAssumption
<1>2. outbox' \in Text
  BY <1>1 DEF Request, Inv, TypeOK, Text
<1>3. <<>> \in Text /\ Len(<<>>) = 0
  BY DEF Text
<1>4. BuffSize \in Nat /\ BuffSize > 0
  BY BufferAssumption
<1> QED
  BY <1>2, <1>3, <1>4 DEF Request, Inv, TypeOK, BufferFits

\* ensure_buff doubles the buffer at most once, and once is enough.
LEMMA RecvInv ==
    ASSUME Inv, Recv
    PROVE  Inv'
<1> DEFINE seg == SubSeq(wire, 1, Received)
<1>1. Received \in 1..Len(wire) /\ Received <= ReadSize
  BY ReceivedBounds DEF Recv, Inv, TypeOK
<1>2. /\ seg \in Text /\ Len(seg) = Received
      /\ SubSeq(wire, Received + 1, Len(wire)) \in Text
  BY <1>1, CutText DEF Inv, TypeOK
<1>3. buff' = buff \o seg /\ wire' = SubSeq(wire, Received + 1, Len(wire))
  BY DEF Recv
<1>4. buff' \in Text /\ Len(buff') = Len(buff) + Received /\ wire' \in Text
  BY <1>2, <1>3 DEF Inv, TypeOK, Text
<1>5. phase' \in {"complete", "reading"}
  <2>1. PICK ok \in check_ok(seg) : phase' = IF ok THEN "complete" ELSE "reading"
    BY DEF Recv
  <2> QED
    BY <2>1
<1>6. limit' = IF Len(buff) + Received >= limit THEN 2 * limit ELSE limit
  BY DEF Recv, ensure_buff
<1>7. /\ Len(buff) \in Nat /\ Received \in Nat /\ limit \in Nat /\ BuffSize \in Nat
      /\ BuffSize <= limit /\ Len(buff) < limit /\ Received < BuffSize
      /\ limit # BuffSize => 2 * Len(buff) >= limit
  BY <1>1, BufferAssumption DEF Inv, TypeOK, BufferFits, Text
<1>8. limit' \in Nat /\ limit' >= BuffSize
  BY <1>6, <1>7
<1>9. BufferFits'
  <2>1. Len(buff') < limit'
    BY <1>4, <1>6, <1>7
  <2>2. limit' # BuffSize => 2 * Len(buff') >= limit'
    BY <1>4, <1>6, <1>7
  <2> QED
    BY <2>1, <2>2 DEF BufferFits
<1>10. UNCHANGED <<checks, answer, outbox, conn>> /\ clean' \in BOOLEAN
  BY DEF Recv, server
<1>11. TypeOK'
  BY <1>4, <1>5, <1>8, <1>10 DEF Inv, TypeOK
<1> QED
  BY <1>9, <1>11 DEF Inv

LEMMA TimeoutInv ==
    ASSUME Inv, Timeout
    PROVE  Inv'
<1>1. <<>> \in Text /\ Len(<<>>) = 0
  BY DEF Text
<1>2. BuffSize \in Nat /\ BuffSize > 0
  BY BufferAssumption
<1> QED
  BY <1>1, <1>2 DEF Timeout, server, Inv, TypeOK, BufferFits

\* The server and the connection come to an end: only what is on its way is
\* lost.
LEMMA EndInv ==
    ASSUME Inv, Close \/ Reset \/ RecvEnd \/ RecvError
    PROVE  Inv'
<1>1. <<>> \in Text
  BY DEF Text
<1>2. CASE Close
  BY <1>1, <1>2 DEF Close, Inv, TypeOK, BufferFits
<1>3. CASE Reset
  BY <1>1, <1>3 DEF Reset, Inv, TypeOK, BufferFits
<1>4. CASE RecvEnd
  BY <1>4 DEF RecvEnd, vars, Inv, TypeOK, BufferFits
<1>5. CASE RecvError
  BY <1>5 DEF RecvError, server, Inv, TypeOK, BufferFits
<1> QED
  BY <1>2, <1>3, <1>4, <1>5

\* Every step keeps the invariant: one case per action of FailingNext, which
\* has all of them that cut a text anywhere.
LEMMA NextInv == Inv /\ [FailingNext]_vars => Inv'
<1> SUFFICES ASSUME Inv, [FailingNext]_vars PROVE Inv'
  OBVIOUS
<1>1. CASE RequestAny
  BY <1>1, RequestInv DEF RequestAny
<1>2. CASE DeliverAny
  BY <1>2, DeliverInv DEF DeliverAny
<1>3. CASE Recv
  BY <1>3, RecvInv
<1>4. CASE Timeout
  BY <1>4, TimeoutInv
<1>5. CASE Close \/ Reset \/ RecvEnd \/ RecvError
  BY <1>5, EndInv
<1>6. CASE UNCHANGED vars
  BY <1>6 DEF vars, Inv, TypeOK, BufferFits
<1> QED
  BY <1>1, <1>2, <1>3, <1>4, <1>5, <1>6 DEF FailingNext, LateNext

\* Whatever the server and the network do, the state keeps its types.
THEOREM RespTypeCorrect == FailingSpec => []TypeOK
<1>1. Inv => TypeOK
  BY DEF Inv
<1> QED
  BY InitInv, NextInv, <1>1, PTL DEF FailingSpec

\* Whatever the server and the network do, no recv writes past the buffer, and
\* at least half of a grown buffer is used: cvs_ensure_buff (cvs_cmds.c:123).
THEOREM RespBufferFits == FailingSpec => []BufferFits
<1>1. Inv => BufferFits
  BY DEF Inv
<1> QED
  BY InitInv, NextInv, <1>1, PTL DEF FailingSpec

-----------------------------------------------------------------------------
(* CvsResp implements Connection. *)

\* The refinement mapping: what the server owes, and what a call was given.
Waiting == phase = "reading"
Owed == IF phase = "reading" THEN buff \o wire \o outbox ELSE wire \o outbox
Given == IF phase = "complete" THEN buff ELSE <<>>

\* A concatenation is cut into its parts again.
LEMMA CutConcat ==
    ASSUME NEW s \in Text, NEW t \in Text
    PROVE  /\ s \o t \in Text /\ Len(s \o t) = Len(s) + Len(t)
           /\ Len(s) \in 0..Len(s \o t)
           /\ SubSeq(s \o t, 1, Len(s)) = s
           /\ SubSeq(s \o t, Len(s) + 1, Len(s \o t)) = t
<1> DEFINE st == s \o t
<1>1. /\ Len(s) \in Nat /\ Len(t) \in Nat
      /\ st \in Seq(Symbol) /\ Len(st) = Len(s) + Len(t)
      /\ \A i \in 1..(Len(s) + Len(t)) :
            st[i] = IF i <= Len(s) THEN s[i] ELSE t[i - Len(s)]
  BY ConcatProperties DEF Text
<1>2. /\ \A i \in 1..Len(s) : s[i] \in Symbol /\ st[i] = s[i]
      /\ \A i \in 1..Len(t) : t[i] \in Symbol
  BY <1>1 DEF Text
<1>3. \A i \in 1..Len(t) : st[Len(s) + i] = t[i]
  BY <1>1
<1>4. \A i \in (Len(s) + 1)..Len(st) : st[i] \in Symbol
  BY <1>1, <1>2
<1> HIDE DEF st
<1>5. SubSeq(st, 1, Len(s)) = s
  <2>1. /\ SubSeq(st, 1, Len(s)) \in Seq(Symbol)
        /\ Len(SubSeq(st, 1, Len(s))) = Len(s)
        /\ \A i \in 1..Len(s) : SubSeq(st, 1, Len(s))[i] = st[i]
    BY <1>1, <1>2, SubSeqProperties
  <2> QED
    BY <1>2, <2>1, SeqEqual DEF Text
<1>6. SubSeq(st, Len(s) + 1, Len(st)) = t
  <2>1. /\ SubSeq(st, Len(s) + 1, Len(st)) \in Seq(Symbol)
        /\ Len(SubSeq(st, Len(s) + 1, Len(st))) = Len(t)
        /\ \A i \in 1..Len(t) : SubSeq(st, Len(s) + 1, Len(st))[i] = st[Len(s) + i]
    BY <1>1, <1>4, SubSeqProperties
  <2> QED
    BY <1>3, <2>1, SeqEqual DEF Text
<1>7. st \in Text /\ Len(st) = Len(s) + Len(t) /\ Len(s) \in 0..Len(st)
  BY <1>1 DEF Text
<1> QED
  BY <1>5, <1>6, <1>7, Zenon DEF st

\* What was cut off and what is left make the text again.
LEMMA JoinCut ==
    ASSUME NEW s \in Text, NEW n \in 1..Len(s)
    PROVE  SubSeq(s, 1, n) \o SubSeq(s, n + 1, Len(s)) = s
<1>1. s \in Seq(Symbol) /\ Len(s) \in Nat /\ SubSeq(s, 1, Len(s)) = s
  BY SubSeqFull DEF Text
<1>2. 1 \in 1..(Len(s) + 1) /\ n \in (1 - 1)..Len(s) /\ Len(s) \in n..Len(s)
  BY <1>1
<1>3. SubSeq(s, 1, n) \o SubSeq(s, n + 1, Len(s)) = SubSeq(s, 1, Len(s))
  BY <1>1, <1>2, ConcatAdjacentSubSeq, Zenon
<1> QED
  BY <1>1, <1>3

LEMMA Associative == \A s, t, u \in Text : (s \o t) \o u = s \o (t \o u)
BY ConcatAssociative DEF Text

LEMMA JoinText == \A s, t \in Text : s \o t \in Text
BY ConcatProperties DEF Text

LEMMA JoinEmpty ==
    ASSUME NEW s \in Text
    PROVE  <<>> \o s = s /\ s \o <<>> = s /\ <<>> \in Text
BY ConcatEmptySeq, EmptySeq DEF Text

LEMMA RequestStep ==
    ASSUME Inv, NEW r \in Response, NEW c \in BOOLEAN, Request(r, c)
    PROVE  [Stream!Next]_<<Waiting, Owed, Given>>
<1>1. r \in Text /\ wire \in Text /\ outbox \in Text
  BY ResponseAssumption DEF Inv, TypeOK
<1>2. ~Waiting /\ Waiting' /\ Given' = <<>>
  BY DEF Request, Waiting, Given
<1>3. Owed = wire \o outbox /\ Owed' = (<<>> \o wire) \o (outbox \o r)
  BY DEF Request, Owed
<1>4. Owed' = Owed \o r
  <2>1. <<>> \o wire = wire
    BY <1>1, JoinEmpty
  <2>2. (wire \o outbox) \o r = wire \o (outbox \o r)
    BY <1>1, Associative
  <2> QED
    BY <1>3, <2>1, <2>2, Zenon
<1>5. Stream!Ask(r)
  BY <1>2, <1>4, Zenon DEF Stream!Ask, Waiting, Owed, Given
<1> QED
  BY <1>5 DEF Stream!Next

\* Text on its way is owed wherever it is.
LEMMA DeliverStep ==
    ASSUME Inv, NEW n \in 1..Len(outbox), Deliver(n)
    PROVE  UNCHANGED <<Waiting, Owed, Given>>
<1> DEFINE a == SubSeq(outbox, 1, n)
           b == SubSeq(outbox, n + 1, Len(outbox))
<1>1. a \in Text /\ b \in Text /\ a \o b = outbox
  BY CutText, JoinCut DEF Inv, TypeOK
<1>2. wire' = wire \o a /\ outbox' = b /\ UNCHANGED <<phase, buff>>
  BY DEF Deliver
<1> HIDE DEF a, b
<1>3. wire \in Text /\ buff \in Text
  BY DEF Inv, TypeOK
<1>4. wire' \o outbox' = wire \o outbox
  <2>1. (wire \o a) \o b = wire \o (a \o b)
    <3>1. \A u \in Text : (wire \o a) \o u = wire \o (a \o u)
      BY <1>1, <1>3, Associative, Zenon
    <3> QED BY <1>1, <3>1, Zenon
  <2> QED
    BY <1>1, <1>2, <2>1, Zenon
<1>5. wire' \in Text /\ outbox' \in Text /\ outbox \in Text
  BY <1>1, <1>2, <1>3, JoinText DEF Inv, TypeOK
<1>6. (buff \o wire') \o outbox' = (buff \o wire) \o outbox
  <2>1. (buff \o wire') \o outbox' = buff \o (wire' \o outbox')
    BY <1>3, <1>5, Associative, Zenon
  <2>2. (buff \o wire) \o outbox = buff \o (wire \o outbox)
    BY <1>3, <1>5, Associative
  <2> QED
    BY <1>4, <2>1, <2>2, Zenon
<1>7. Owed' = Owed
  BY <1>2, <1>4, <1>6 DEF Owed
<1> QED
  BY <1>2, <1>7 DEF Waiting, Given

\* A recv moves text from the connection to the buffer.
LEMMA RecvOwed ==
    ASSUME Inv, Recv
    PROVE  /\ Owed = buff' \o (wire' \o outbox')
           /\ buff' \in Text /\ wire' \in Text /\ outbox' \in Text
           /\ Len(buff') # 0
<1> DEFINE seg == SubSeq(wire, 1, Received)
           rest == SubSeq(wire, Received + 1, Len(wire))
<1>1. Received \in 1..Len(wire)
  BY ReceivedBounds DEF Recv, Inv, TypeOK
<1>2. seg \in Text /\ Len(seg) = Received /\ rest \in Text /\ seg \o rest = wire
  BY <1>1, CutText, JoinCut DEF Inv, TypeOK
<1>3. buff' = buff \o seg /\ wire' = rest /\ outbox' = outbox /\ phase = "reading"
  BY DEF Recv, server
<1>4. Received \in Nat /\ Received # 0
  BY <1>1, <1>2 DEF Text
<1> HIDE DEF seg, rest
<1>5. buff \in Text /\ outbox \in Text
  BY DEF Inv, TypeOK
<1>6. Owed = buff' \o (wire' \o outbox')
  <2>1. (buff \o seg) \o rest = buff \o (seg \o rest)
    <3>1. \A u \in Text : (buff \o seg) \o u = buff \o (seg \o u)
      BY <1>2, <1>5, Associative, Zenon
    <3> QED BY <1>2, <3>1, Zenon
  <2>2. buff \o seg \in Text
    BY <1>2, <1>5, JoinText, Zenon
  <2>3. ((buff \o seg) \o rest) \o outbox = (buff \o seg) \o (rest \o outbox)
    BY <2>2, <1>2, <1>5, Associative, Zenon
  <2>4. Owed = (buff \o wire) \o outbox
    BY <1>3 DEF Owed
  <2> QED
    BY <1>2, <1>3, <2>1, <2>3, <2>4, Zenon
<1>7. buff' \in Text /\ Len(buff') # 0
  <2>1. buff \o seg \in Text /\ Len(buff \o seg) = Len(buff) + Len(seg)
    BY <1>2, <1>5, CutConcat
  <2>2. Len(buff) \in Nat
    BY <1>5 DEF Text
  <2> QED
    BY <1>2, <1>3, <1>4, <2>1, <2>2
<1> QED
  BY <1>2, <1>3, <1>5, <1>6, <1>7

LEMMA RecvStep ==
    ASSUME Inv, Recv
    PROVE  [Stream!Next]_<<Waiting, Owed, Given>>
<1>3. phase = "reading"
  BY DEF Recv
<1>4. phase' \in {"complete", "reading"}
  <2>1. PICK ok \in check_ok(SubSeq(wire, 1, Received)) :
          phase' = IF ok THEN "complete" ELSE "reading"
    BY DEF Recv
  <2> QED
    BY <2>1
<1>7. Owed = buff' \o (wire' \o outbox')
  BY RecvOwed
<1>8. buff' \in Text /\ wire' \o outbox' \in Text /\ Len(buff') # 0
  <2>1. buff' \in Text /\ wire' \in Text /\ outbox' \in Text /\ Len(buff') # 0
    BY RecvOwed
  <2> QED
    BY <2>1, JoinText
<1>9. CASE phase' = "reading"
  <2>1. Owed' = (buff' \o wire') \o outbox'
    BY <1>9 DEF Owed
  <2>4. wire' \in Text /\ outbox' \in Text
    BY RecvOwed
  <2>2. (buff' \o wire') \o outbox' = buff' \o (wire' \o outbox')
    BY <1>8, <2>4, Associative, Zenon
  <2>3. Owed' = Owed
    BY <1>7, <2>1, <2>2, Zenon
  <2> QED
    BY <1>3, <1>9, <2>3 DEF Waiting, Given
<1>10. CASE phase' = "complete"
  <2>1. Owed' = wire' \o outbox' /\ Given' = buff' /\ Waiting /\ ~Waiting'
    BY <1>3, <1>10 DEF Owed, Given, Waiting
  <2>2. /\ Len(buff') \in 1..Len(Owed)
        /\ SubSeq(Owed, 1, Len(buff')) = buff'
        /\ SubSeq(Owed, Len(buff') + 1, Len(Owed)) = wire' \o outbox'
    <3>1. /\ Len(buff') \in 0..Len(buff' \o (wire' \o outbox'))
          /\ SubSeq(buff' \o (wire' \o outbox'), 1, Len(buff')) = buff'
          /\ SubSeq(buff' \o (wire' \o outbox'), Len(buff') + 1,
                    Len(buff' \o (wire' \o outbox'))) = wire' \o outbox'
      BY <1>8, CutConcat, Zenon
    <3>2. /\ Len(buff') \in 0..Len(Owed)
          /\ SubSeq(Owed, 1, Len(buff')) = buff'
          /\ SubSeq(Owed, Len(buff') + 1, Len(Owed)) = wire' \o outbox'
      BY <1>7, <3>1, Zenon
    <3> QED
      BY <1>8, <3>2
  <2>3. Stream!Give(Len(buff'))
    BY <2>1, <2>2 DEF Stream!Give, Waiting, Owed, Given
  <2>4. Len(buff') \in 0..Len(Owed)
    BY <2>2
  <2> QED
    BY <2>3, <2>4 DEF Stream!Next, Owed
<1> QED
  BY <1>4, <1>9, <1>10

\* A call that fails takes with it what it has received.
LEMMA FailStep ==
    ASSUME Inv, Timeout \/ RecvError
    PROVE  [Stream!Next]_<<Waiting, Owed, Given>>
<1>1. /\ phase = "reading" /\ phase' \in {"null", "crashed"}
      /\ UNCHANGED <<wire, outbox>>
  BY DEF Timeout, RecvError, server
<1>2. buff \in Text /\ wire \in Text /\ outbox \in Text
  BY DEF Inv, TypeOK
<1>3. Owed = buff \o (wire \o outbox) /\ wire \o outbox \in Text
  <2>1. Owed = (buff \o wire) \o outbox
    BY <1>1 DEF Owed
  <2>2. (buff \o wire) \o outbox = buff \o (wire \o outbox)
    BY <1>2, Associative, Zenon
  <2>3. wire \o outbox \in Text
    BY <1>2, JoinText, Zenon
  <2> QED
    BY <2>1, <2>2, <2>3
<1>4. Owed' = wire \o outbox /\ Given' = <<>> /\ Waiting /\ ~Waiting'
  BY <1>1 DEF Owed, Given, Waiting
<1>5. /\ Len(buff) \in 0..Len(Owed)
      /\ SubSeq(Owed, Len(buff) + 1, Len(Owed)) = wire \o outbox
  BY <1>2, <1>3, CutConcat
<1>6. Stream!GiveUp(Len(buff))
  BY <1>4, <1>5 DEF Stream!GiveUp, Waiting, Owed, Given
<1> QED
  BY <1>5, <1>6 DEF Stream!Next, Owed

\* The server goes: of what is owed a first part is left.
LEMMA LostOwed ==
    ASSUME Inv, Close \/ Reset
    PROVE  \E s \in Text, t \in Text : Owed = s \o t /\ Owed' = s
<1>1. /\ outbox' = <<>> /\ wire' \in {wire, <<>>}
      /\ UNCHANGED <<phase, buff>>
  BY DEF Close, Reset
<1>2. buff \in Text /\ wire \in Text /\ outbox \in Text
  BY DEF Inv, TypeOK
<1>3. CASE phase = "reading" /\ wire' = wire
  <2>1. Owed = (buff \o wire) \o outbox /\ Owed' = (buff \o wire) \o <<>>
    BY <1>1, <1>3 DEF Owed
  <2> QED
    BY <1>2, <2>1, Associative, JoinText, JoinEmpty
<1>4. CASE phase = "reading" /\ wire' = <<>>
  <2>1. Owed = (buff \o wire) \o outbox /\ Owed' = (buff \o <<>>) \o <<>>
    BY <1>1, <1>4 DEF Owed
  <2>2. Owed = buff \o (wire \o outbox) /\ Owed' = buff
    <3>1. (buff \o wire) \o outbox = buff \o (wire \o outbox) BY <1>2, Associative, Zenon
    <3>2. buff \o <<>> = buff BY <1>2, JoinEmpty, Zenon
    <3> QED BY <2>1, <3>1, <3>2, Zenon
  <2> QED
    BY <1>2, <2>2, Associative, JoinText, JoinEmpty
<1>5. CASE phase # "reading" /\ wire' = wire
  <2>1. Owed = wire \o outbox /\ Owed' = wire \o <<>>
    BY <1>1, <1>5 DEF Owed
  <2> QED
    BY <1>2, <2>1, Associative, JoinText, JoinEmpty
<1>6. CASE phase # "reading" /\ wire' = <<>>
  <2>1. Owed = wire \o outbox /\ Owed' = <<>> \o <<>>
    BY <1>1, <1>6 DEF Owed
  <2>2. Owed = <<>> \o (wire \o outbox) /\ Owed' = <<>>
    BY <1>2, <2>1, Associative, JoinText, JoinEmpty
  <2> QED
    BY <1>2, <2>2, Associative, JoinText, JoinEmpty
<1> QED
  BY <1>1, <1>3, <1>4, <1>5, <1>6

LEMMA LoseStep ==
    ASSUME Inv, Close \/ Reset
    PROVE  [Stream!Next]_<<Waiting, Owed, Given>>
<1>3. PICK s \in Text, t \in Text : Owed = s \o t /\ Owed' = s
  BY LostOwed
<1>4. Len(s) \in 0..Len(Owed) /\ SubSeq(Owed, 1, Len(s)) = Owed'
  BY <1>3, CutConcat
<1>5. UNCHANGED <<Waiting, Given>>
  BY DEF Close, Reset, Waiting, Given
<1>6. Stream!Lose(Len(s))
  BY <1>4, <1>5 DEF Stream!Lose, Waiting, Owed, Given
<1> QED
  BY <1>4, <1>6 DEF Stream!Next, Owed

LEMMA StepRefines == Inv /\ [FailingNext]_vars => [Stream!Next]_<<Waiting, Owed, Given>>
<1> SUFFICES ASSUME Inv, [FailingNext]_vars
             PROVE  [Stream!Next]_<<Waiting, Owed, Given>>
  OBVIOUS
<1>1. CASE RequestAny
  BY <1>1, RequestStep DEF RequestAny
<1>2. CASE DeliverAny
  BY <1>2, DeliverStep DEF DeliverAny
<1>3. CASE Recv
  BY <1>3, RecvStep
<1>4. CASE Timeout \/ RecvError
  BY <1>4, FailStep
<1>5. CASE Close \/ Reset
  BY <1>5, LoseStep
<1>6. CASE RecvEnd \/ UNCHANGED vars
  BY <1>6 DEF RecvEnd, vars, Waiting, Owed, Given
<1> QED
  BY <1>1, <1>2, <1>3, <1>4, <1>5, <1>6 DEF FailingNext, LateNext

\* Whatever the server and the network do, cvs_get_resp hands out the text of
\* the answers in order, none of it twice, and loses only what a call that
\* failed had received (cvs_cmds.c:194-247).
THEOREM RespImplementsConnection == FailingSpec => ImplementsConnection
<1>1. Init => Stream!Init
  <2>1. <<>> \o <<>> = <<>>
    BY EmptySeq, ConcatEmptySeq
  <2> QED
    BY <2>1 DEF Init, Stream!Init
<1>2. Inv /\ [FailingNext]_vars => [Stream!Next]_Stream!vars
  BY StepRefines DEF Stream!vars, Waiting, Owed, Given
<1> QED
  BY InitInv, NextInv, <1>1, <1>2, PTL DEF FailingSpec, ImplementsConnection, Stream!Spec

-----------------------------------------------------------------------------
(* A call returns its own answer. *)

\* A line ends here with "ok".
OkAt(s, i) == i >= 3 /\ s[i] = "n" /\ s[i - 1] = "k" /\ s[i - 2] = "o"

\* Answers in lines: none is empty or a bare "k", and only the last of an answer
\* ends in "ok".
OkEndsAnswer ==
    \A r \in Response : \A i \in DOMAIN r : r[i] = "n" =>
        /\ i > 1 /\ r[i - 1] # "n"
        /\ r[i - 1] = "k" => i > 2 /\ r[i - 2] # "n"
        /\ OkAt(r, i) => i = Len(r)

\* A clean call has received lines of its own answer, the last of which does not
\* end in "ok", and the rest of the answer is still on its way, or lost; once it
\* is over the answer is there and nothing else.
OwnText ==
    clean =>
        /\ phase = "reading" =>
              /\ answer \in Response
              /\ \E lost \in Text : answer = Owed \o lost
              /\ buff = <<>> \/ (buff # <<>> /\ buff[Len(buff)] = "n")
              /\ ~OkAt(buff, Len(buff))
        /\ phase = "complete" => buff = answer /\ wire = <<>> /\ outbox = <<>>

OwnInv == Inv /\ OwnText

-----------------------------------------------------------------------------
\* The test for a suffix looks at the last three symbols.
LEMMA OkSuffix ==
    ASSUME NEW s \in Text
    PROVE  IsSuffix(Ok, s) <=> OkAt(s, Len(s))
<1>1. Len(s) \in Nat /\ \A i \in 1..Len(s) : s[i] \in Symbol BY DEF Text
<1> DEFINE a == Reverse(Ok)
           b == Reverse(s)
<1>2. Len(Ok) = 3 /\ Ok[1] = "o" /\ Ok[2] = "k" /\ Ok[3] = "n" BY DEF Ok
<1>3. a = [i \in 1..3 |-> Ok[3 - i + 1]] BY <1>2 DEF Reverse
<1>4. a \in Seq(Symbol) /\ Len(a) = 3 /\ a[1] = "n" /\ a[2] = "k" /\ a[3] = "o"
  <2>1. \A i \in 1..3 : Ok[3 - i + 1] \in Symbol BY <1>2 DEF Symbol
  <2>2. a \in [1..3 -> Symbol] BY <1>3, <2>1
  <2> QED BY <1>2, <1>3, <2>2
<1>5. b = [i \in 1..Len(s) |-> s[(Len(s) - i) + 1]] BY DEF Reverse
<1>6. b \in Seq(Symbol) /\ Len(b) = Len(s) /\ \A i \in 1..Len(s) : b[i] = s[(Len(s) - i) + 1]
  <2>1. \A i \in 1..Len(s) : s[(Len(s) - i) + 1] \in Symbol BY <1>1
  <2>2. b \in [1..Len(s) -> Symbol] BY <1>5, <2>1
  <2> QED BY <1>1, <1>5, <2>2
<1> HIDE DEF a, b
<1>7. IsSuffix(Ok, s) <=> 3 <= Len(b) /\ SubSeq(a, 1, 3) = SubSeq(b, 1, 3)
  BY <1>4 DEF IsSuffix, IsPrefix, a, b
<1>8. ASSUME 3 <= Len(s)
      PROVE  SubSeq(a, 1, 3) = SubSeq(b, 1, 3) <=> OkAt(s, Len(s))
  <2>1. /\ SubSeq(a, 1, 3) \in Seq(Symbol) /\ Len(SubSeq(a, 1, 3)) = 3
        /\ \A i \in 1..3 : SubSeq(a, 1, 3)[i] = a[i]
    BY <1>4, SubSeqProperties
  <2>2. /\ SubSeq(b, 1, 3) \in Seq(Symbol) /\ Len(SubSeq(b, 1, 3)) = 3
        /\ \A i \in 1..3 : SubSeq(b, 1, 3)[i] = b[i]
    BY <1>1, <1>6, <1>8, SubSeqProperties
  <2>3. SubSeq(a, 1, 3) = SubSeq(b, 1, 3) <=> \A i \in 1..3 : a[i] = b[i]
    BY <2>1, <2>2, SeqEqual
  <2>4. b[1] = s[Len(s)] /\ b[2] = s[Len(s) - 1] /\ b[3] = s[Len(s) - 2]
    BY <1>1, <1>6, <1>8
  <2> QED BY <1>1, <1>4, <1>8, <2>3, <2>4 DEF OkAt
<1>9. CASE 3 <= Len(s) BY <1>6, <1>7, <1>8, <1>9
<1>10. CASE ~(3 <= Len(s)) BY <1>1, <1>6, <1>7, <1>10 DEF OkAt
<1> QED BY <1>9, <1>10

\* A text of two symbols that "ok" could end with begins with "k".
LEMMA ShortSuffix ==
    ASSUME NEW s \in Text, Len(s) = 2, IsSuffix(s, Ok)
    PROVE  s[1] = "k"
<1> DEFINE a == Reverse(Ok)
           b == Reverse(s)
<1>1. Len(Ok) = 3 /\ Ok[1] = "o" /\ Ok[2] = "k" /\ Ok[3] = "n" BY DEF Ok
<1>2. a = [i \in 1..3 |-> Ok[3 - i + 1]] BY <1>1 DEF Reverse
<1>3. a \in Seq(Symbol) /\ Len(a) = 3 /\ a[2] = "k"
  <2>1. \A i \in 1..3 : Ok[3 - i + 1] \in Symbol BY <1>1 DEF Symbol
  <2>2. a \in [1..3 -> Symbol] BY <1>2, <2>1
  <2> QED BY <1>1, <1>2, <2>2
<1>4. b = [i \in 1..2 |-> s[(2 - i) + 1]] BY DEF Reverse
<1>5. b \in Seq(Symbol) /\ Len(b) = 2 /\ b[2] = s[1]
  <2>1. \A i \in 1..2 : s[(2 - i) + 1] \in Symbol
    <3>1. \A i \in 1..2 : s[i] \in Symbol BY DEF Text
    <3> QED BY <3>1
  <2>2. b \in [1..2 -> Symbol] BY <1>4, <2>1
  <2> QED BY <1>4, <2>2
<1> HIDE DEF a, b
<1>6. SubSeq(b, 1, 2) = SubSeq(a, 1, 2) BY <1>5 DEF IsSuffix, IsPrefix, a, b
<1>7. SubSeq(b, 1, 2)[2] = b[2] /\ SubSeq(a, 1, 2)[2] = a[2]
  BY <1>3, <1>5, SubSeqProperties
<1> QED BY <1>3, <1>5, <1>6, <1>7

\* The first part of a text.
LEMMA PartOfText ==
    ASSUME NEW s \in Text, NEW t \in Text
    PROVE  /\ Len(s \o t) = Len(s) + Len(t) /\ Len(s) \in Nat /\ Len(t) \in Nat
           /\ \A i \in 1..Len(s) : (s \o t)[i] = s[i]
           /\ \A i \in 1..Len(t) : (s \o t)[Len(s) + i] = t[i]
           /\ Len(t) = 0 => t = <<>> /\ s \o t = s
           /\ IsPrefix(s, s \o t)
<1>1. /\ Len(s) \in Nat /\ Len(t) \in Nat
      /\ s \o t \in Seq(Symbol) /\ Len(s \o t) = Len(s) + Len(t)
      /\ \A i \in 1..(Len(s) + Len(t)) :
            (s \o t)[i] = IF i <= Len(s) THEN s[i] ELSE t[i - Len(s)]
  BY ConcatProperties DEF Text
<1>2. \A i \in 1..Len(s) : (s \o t)[i] = s[i] BY <1>1
<1>3. \A i \in 1..Len(t) : (s \o t)[Len(s) + i] = t[i] BY <1>1
<1>4. Len(t) = 0 => t = <<>> /\ s \o t = s
  BY JoinEmpty, EmptySeq DEF Text
<1>5. IsPrefix(s, s \o t)
  <2>1. SubSeq(s \o t, 1, Len(s)) = s BY CutConcat
  <2>2. SubSeq(s, 1, Len(s)) = s BY SubSeqFull DEF Text
  <2>3. Len(s) <= Len(s \o t) BY <1>1
  <2> QED BY <2>1, <2>2, <2>3 DEF IsPrefix
<1> QED BY <1>1, <1>2, <1>3, <1>4, <1>5

LEMMA OwnAtFirst == Init => OwnText
BY DEF Init, OwnText

LEMMA OwnRequest ==
    ASSUME Inv, NEW r \in Response, NEW c \in BOOLEAN, Request(r, c)
    PROVE  OwnText'
<1> SUFFICES ASSUME clean' PROVE OwnText' BY DEF OwnText
<1>1. /\ phase' = "reading" /\ answer' = r /\ buff' = <<>>
      /\ wire' = <<>> /\ outbox' = <<>> \o r
  BY DEF Request
<1>2. r \in Text /\ <<>> \in Text /\ Len(<<>>) = 0
  BY ResponseAssumption, JoinEmpty
<1>3. outbox' = r BY <1>1, <1>2, JoinEmpty
<1>4. Owed' = (<<>> \o <<>>) \o r BY <1>1, <1>3 DEF Owed
<1>5. <<>> \o <<>> = <<>> /\ <<>> \o r = r /\ r \o <<>> = r
  BY <1>2, JoinEmpty, Zenon
<1>6. answer' = Owed' \o <<>> BY <1>1, <1>4, <1>5
<1>7. ~OkAt(buff', Len(buff')) BY <1>1, <1>2 DEF OkAt
<1> QED BY <1>1, <1>2, <1>6, <1>7 DEF OwnText

LEMMA OwnDeliver ==
    ASSUME Inv, OwnText, NEW n \in 1..Len(outbox), Deliver(n)
    PROVE  OwnText'
<1>1. Owed' = Owed BY DeliverStep
<1>2. UNCHANGED <<phase, answer, buff, clean>> BY DEF Deliver
<1>3. CASE phase = "reading" BY <1>1, <1>2, <1>3 DEF OwnText
<1>4. CASE phase \notin {"reading", "complete"} BY <1>2, <1>4 DEF OwnText
<1>5. CASE phase = "complete" /\ clean
  <2>1. outbox = <<>> BY <1>5 DEF OwnText
  <2>2. Len(outbox) = 0 BY <2>1
  <2> QED BY <2>2
<1>6. CASE ~clean BY <1>2, <1>6 DEF OwnText
<1> QED BY <1>3, <1>4, <1>5, <1>6

\* What was received of an answer, and what a recv adds to it.
LEMMA OwnRecv ==
    ASSUME OkEndsAnswer, Inv, OwnText, Recv
    PROVE  OwnText'
<1> SUFFICES ASSUME clean' PROVE OwnText' BY DEF OwnText
<1> DEFINE seg == SubSeq(wire, 1, Received)
           b == Len(buff)
           n == Len(seg)
<1>1. seg \in Text /\ n \in Nat /\ n # 0
  <2>1. Received \in 1..Len(wire) BY ReceivedBounds DEF Recv, Inv, TypeOK
  <2>2. seg \in Text /\ n = Received BY <2>1, CutText DEF Inv, TypeOK
  <2> QED BY <2>1, <2>2 DEF Text
<1>2. /\ buff' = buff \o seg /\ phase = "reading" /\ clean /\ Last(seg) = "n"
      /\ UNCHANGED <<answer, outbox>>
      /\ \E ok \in check_ok(seg) : phase' = IF ok THEN "complete" ELSE "reading"
  BY DEF Recv, server
<1> HIDE DEF seg
<1>3. /\ answer \in Response /\ answer \in Text
      /\ buff = <<>> \/ (buff # <<>> /\ buff[b] = "n")
      /\ buff \in Text /\ b \in Nat /\ (buff # <<>> => b > 0) /\ (buff = <<>> => b = 0)
  BY <1>2, ResponseAssumption, EmptySeq DEF OwnText, Inv, TypeOK, Text
<1>4. PICK lost \in Text : answer = Owed \o lost BY <1>2 DEF OwnText
<1>5. PICK rest :
        /\ rest \in Text /\ answer = buff' \o rest
        /\ rest = (wire' \o outbox') \o lost /\ wire' \in Text /\ outbox' \in Text
        /\ buff' \in Text /\ Owed = buff' \o (wire' \o outbox')
  <2>1. /\ Owed = buff' \o (wire' \o outbox')
        /\ buff' \in Text /\ wire' \in Text /\ outbox' \in Text
    BY RecvOwed
  <2>2. wire' \o outbox' \in Text BY <2>1, JoinText, Zenon
  <2>3. answer = buff' \o ((wire' \o outbox') \o lost)
    <3>1. PICK b1, x : b1 = buff' /\ x = wire' \o outbox' OBVIOUS
    <3>2. b1 \in Text /\ x \in Text BY <2>1, <2>2, <3>1, Zenon
    <3>3. (b1 \o x) \o lost = b1 \o (x \o lost) BY <3>2, Associative
    <3> QED BY <1>4, <2>1, <3>1, <3>3, Zenon
  <2>4. (wire' \o outbox') \o lost \in Text BY <1>4, <2>2, JoinText, Zenon
  <2> QED BY <2>1, <2>3, <2>4
<1> DEFINE e == b + n
<1>6. /\ Len(buff') = e /\ buff'[b + n] = "n"
      /\ \A i \in 1..b : buff'[i] = buff[i]
      /\ \A i \in 1..n : buff'[b + i] = seg[i]
  <2>1. seg[n] = "n" BY <1>2 DEF Last
  <2>2. n \in 1..n BY <1>1
  <2> HIDE DEF n, b
  <2>3. /\ Len(buff') = b + n
        /\ \A i \in 1..b : buff'[i] = buff[i]
        /\ \A i \in 1..n : buff'[b + i] = seg[i]
    BY <1>1, <1>2, <1>3, PartOfText, Zenon DEF n, b
  <2> QED BY <2>1, <2>2, <2>3
<1>7. /\ Len(answer) = e + Len(rest) /\ Len(rest) \in Nat
      /\ \A i \in 1..e : answer[i] = buff'[i]
      /\ Len(rest) = 0 => rest = <<>> /\ answer = buff'
  <2>1. /\ Len(buff' \o rest) = Len(buff') + Len(rest) /\ Len(rest) \in Nat
        /\ \A i \in 1..Len(buff') : (buff' \o rest)[i] = buff'[i]
        /\ Len(rest) = 0 => rest = <<>> /\ buff' \o rest = buff'
    BY <1>5, PartOfText, Zenon
  <2> HIDE DEF e
  <2> QED BY <1>5, <1>6, <2>1
<1>8. e \in DOMAIN answer /\ e \in 1..e /\ e >= 1 /\ answer[e] = "n"
  <2>1. DOMAIN answer = 1..Len(answer) BY <1>3 DEF Text
  <2> QED BY <1>1, <1>3, <1>6, <1>7, <2>1
<1>9. /\ e > 1 /\ answer[e - 1] # "n"
      /\ answer[e - 1] = "k" => e > 2 /\ answer[e - 2] # "n"
      /\ OkAt(answer, e) => e = Len(answer)
  BY <1>3, <1>8 DEF OkEndsAnswer
<1>10. OkAt(buff', e) <=> OkAt(answer, e)
  <2>1. e \in 1..e /\ e \in Nat BY <1>8, <1>6
  <2>2. e >= 3 => e - 1 \in 1..e /\ e - 2 \in 1..e BY <2>1
  <2>3. answer[e] = buff'[e] BY <1>7, <2>1, Zenon
  <2>4. e >= 3 => answer[e - 1] = buff'[e - 1] /\ answer[e - 2] = buff'[e - 2]
    BY <1>7, <2>2, Zenon
  <2> QED BY <2>3, <2>4, Zenon DEF OkAt
\* The segment decides as all that was received would: a line is never so short
\* that cvs_check_ok reads in front of it.
<1>11. n # 1 /\ (n = 2 => answer[e - 1] # "k")
  <2>1. ASSUME b > 0 PROVE answer[b] = "n"
    <3>1. buff # <<>> /\ b \in 1..b /\ b \in 1..e BY <1>1, <1>3, <2>1
    <3> QED BY <1>3, <1>6, <1>7, <3>1
  <2>2. n = 1 => e - 1 = b BY <1>1, <1>3
  <2>3. n = 2 => e - 2 = b BY <1>1, <1>3
  <2> QED BY <1>3, <1>8, <1>9, <2>1, <2>2, <2>3
<1>12. phase' = IF OkAt(buff', e) THEN "complete" ELSE "reading"
  <2>1. PICK ok \in check_ok(seg) : phase' = IF ok THEN "complete" ELSE "reading"
    BY <1>2
  <2>2. CASE n >= 3
    <3>1. ok = IsSuffix(Ok, seg)
      <4>1. check_ok(seg) = {IsSuffix(Ok, seg)} BY <2>2, Zenon DEF check_ok
      <4> QED BY <2>1, <4>1, Zenon
    <3>2. IsSuffix(Ok, seg) <=> OkAt(seg, n) BY <1>1, OkSuffix
    <3>3. buff'[e] = seg[n] /\ buff'[e - 1] = seg[n - 1] /\ buff'[e - 2] = seg[n - 2]
      <4>1. n \in 1..n /\ n - 1 \in 1..n /\ n - 2 \in 1..n BY <1>1, <2>2
      <4>2. b + (n - 1) = e - 1 /\ b + (n - 2) = e - 2 BY <1>1, <1>3
      <4> QED BY <1>6, <4>1, <4>2
    <3>4. OkAt(seg, n) <=> OkAt(buff', e) BY <1>1, <1>3, <2>2, <3>3 DEF OkAt
    <3>5. CASE IsSuffix(Ok, seg) BY <2>1, <3>1, <3>2, <3>4, <3>5
    <3>6. CASE ~IsSuffix(Ok, seg) BY <2>1, <3>1, <3>2, <3>4, <3>6
    <3> QED BY <3>5, <3>6
  <2>3. CASE n = 2
    <3>1. ~OkAt(buff', e) BY <1>8, <1>10, <1>11, <2>3 DEF OkAt
    <3>2. b + 1 = e - 1 /\ b + 1 \in 1..e /\ 1 \in 1..n BY <1>1, <1>3, <2>3
    <3>3. seg[1] = answer[e - 1] BY <1>6, <1>7, <3>2
    <3>4. ~IsSuffix(seg, Ok) BY <1>1, <1>11, <2>3, <3>3, ShortSuffix
    <3>5. check_ok(seg) = {FALSE} 
      <4>1. ~(Len(seg) >= 3) BY <2>3
      <4> QED BY <3>4, <4>1, Zenon DEF check_ok
    <3> QED BY <2>1, <3>1, <3>5
  <2>4. n >= 3 \/ n = 2
    <3>1. n \in Nat /\ n # 0 /\ n # 1 BY <1>1, <1>11
    <3> HIDE DEF n
    <3> QED BY <3>1
  <2> QED BY <2>2, <2>3, <2>4, Zenon
<1>13. CASE OkAt(buff', e)
  <2>1. phase' = "complete" BY <1>12, <1>13
  <2>2. e = Len(answer) BY <1>9, <1>10, <1>13
  <2>3. Len(rest) = 0 BY <1>1, <1>3, <1>7, <2>2
  <2>4. rest = <<>> /\ answer = buff' BY <1>7, <2>3
  <2>5. wire' = <<>> /\ outbox' = <<>>
    <3>1. wire' \o outbox' \in Text BY <1>5, JoinText, Zenon
    <3>2. Len(wire' \o outbox') = 0
      <4>1. Len(rest) = Len(wire' \o outbox') + Len(lost)
            /\ Len(wire' \o outbox') \in Nat /\ Len(lost) \in Nat
        BY <1>4, <1>5, <3>1, PartOfText, Zenon
      <4> QED BY <2>3, <4>1
    <3>3. Len(wire' \o outbox') = Len(wire') + Len(outbox')
          /\ Len(wire') \in Nat /\ Len(outbox') \in Nat
      BY <1>5, PartOfText, Zenon
    <3>4. Len(wire') = 0 /\ Len(outbox') = 0 BY <3>2, <3>3
    <3> QED BY <1>5, <3>4, EmptySeq DEF Text
  <2> QED BY <1>2, <2>1, <2>4, <2>5 DEF OwnText
<1>14. CASE ~OkAt(buff', e)
  <2>1. phase' = "reading" BY <1>12, <1>14
  <2>2. Owed' = Owed
    <3>1. Owed' = (buff' \o wire') \o outbox' BY <2>1 DEF Owed
    <3>2. buff' \in Text /\ wire' \in Text /\ outbox' \in Text BY <1>5, Zenon
    <3>3. (buff' \o wire') \o outbox' = buff' \o (wire' \o outbox')
      BY <3>2, ConcatAssociative DEF Text
    <3> QED BY <1>5, <3>1, <3>3, Zenon
  <2>3. answer' = Owed' \o lost BY <1>2, <1>4, <2>2
  <2>4. buff' # <<>> /\ buff'[Len(buff')] = "n"
    <3>1. Len(<<>>) = 0 OBVIOUS
    <3> QED BY <1>6, <1>8, <3>1
  <2>5. ~OkAt(buff', Len(buff')) BY <1>6, <1>14
  <2>6. answer' \in Response BY <1>2, <1>3
  <2> QED BY <1>4, <2>1, <2>3, <2>4, <2>5, <2>6 DEF OwnText
<1> QED BY <1>13, <1>14

\* A call is given up, or the server goes: then the rest of what it owed is lost.
LEMMA OwnEnd ==
    ASSUME Inv, OwnText, Timeout \/ Close \/ Reset \/ RecvEnd \/ RecvError
    PROVE  OwnText'
<1>1. CASE Timeout \/ RecvError
  <2>1. phase' \in {"null", "crashed"} BY <1>1 DEF Timeout, RecvError
  <2> QED BY <2>1 DEF OwnText
<1>2. CASE RecvEnd BY <1>2 DEF RecvEnd, vars, OwnText, Owed
<1>3. CASE (Close \/ Reset) /\ clean /\ phase = "reading"
  <2>1. PICK s \in Text, t \in Text : Owed = s \o t /\ Owed' = s BY <1>3, LostOwed
  <2>2. PICK lost \in Text : answer = Owed \o lost BY <1>3 DEF OwnText
  <2>3. UNCHANGED <<phase, answer, buff, clean>> BY <1>3 DEF Close, Reset
  <2>4. answer' = Owed' \o (t \o lost) /\ t \o lost \in Text
    <3>1. (s \o t) \o lost = s \o (t \o lost)
      <4>1. \A u \in Text : (s \o t) \o u = s \o (t \o u) BY Associative, Zenon
      <4> QED BY <4>1, Zenon
    <3>2. t \o lost \in Text BY ConcatProperties DEF Text
    <3> QED BY <2>1, <2>2, <2>3, <3>1, <3>2, Zenon
  <2> QED BY <1>3, <2>3, <2>4 DEF OwnText
<1>4. CASE (Close \/ Reset) /\ ~(clean /\ phase = "reading")
  BY <1>4 DEF Close, Reset, OwnText
<1> QED BY <1>1, <1>2, <1>3, <1>4

LEMMA OwnKept ==
    ASSUME OkEndsAnswer PROVE OwnInv /\ [FailingNext]_vars => OwnInv'
<1> SUFFICES ASSUME OwnInv, [FailingNext]_vars PROVE OwnInv' OBVIOUS
<1>1. Inv /\ OwnText /\ Inv' BY NextInv DEF OwnInv
<1>2. CASE RequestAny BY <1>1, <1>2, OwnRequest DEF RequestAny, OwnInv
<1>3. CASE DeliverAny BY <1>1, <1>3, OwnDeliver DEF DeliverAny, OwnInv
<1>4. CASE Recv BY <1>1, <1>4, OwnRecv DEF OwnInv
<1>5. CASE Timeout \/ Close \/ Reset \/ RecvEnd \/ RecvError
  BY <1>1, <1>5, OwnEnd DEF OwnInv
<1>6. CASE UNCHANGED vars BY <1>1, <1>6 DEF vars, OwnInv, OwnText, Owed
<1> QED BY <1>2, <1>3, <1>4, <1>5, <1>6 DEF FailingNext, LateNext

\* Whatever the server and the network do, a call that finds the connection
\* clean and receives whole lines returns all of its own answer and nothing
\* else, if no line of an answer but the last ends in "ok" (cvs_check_ok).
THEOREM RespOwnResponse == ASSUME OkEndsAnswer PROVE FailingSpec => []OwnResponse
<1>1. OwnInv => OwnResponse
  <2>1. SUFFICES ASSUME OwnInv, clean, phase = "reading"
                 PROVE  IsPrefix(buff, answer) /\ ~(buff = answer /\ IsSuffix(Ok, answer))
    BY DEF OwnInv, OwnText, OwnResponse
  <2>2. buff \in Text /\ wire \in Text /\ outbox \in Text
    BY <2>1 DEF OwnInv, Inv, TypeOK
  <2>7. ~OkAt(buff, Len(buff)) BY <2>1 DEF OwnInv, OwnText
  <2>3. PICK lost \in Text : answer = Owed \o lost BY <2>1 DEF OwnInv, OwnText
  <2>4. PICK w \in Text : answer = buff \o w
    <3>1. PICK x \in Text : x = wire \o outbox BY <2>2, JoinText
    <3>2. Owed = buff \o x
      <4>1. (buff \o wire) \o outbox = buff \o (wire \o outbox) BY <2>2, Associative
      <4>2. Owed = (buff \o wire) \o outbox BY <2>1, Zenon DEF Owed
      <4> QED BY <3>1, <4>1, <4>2, Zenon
    <3>3. (buff \o x) \o lost = buff \o (x \o lost)
      <4>1. \A u \in Text : (buff \o x) \o u = buff \o (x \o u) BY <2>2, Associative, Zenon
      <4> QED BY <4>1, Zenon
    <3>4. answer = buff \o (x \o lost) BY <2>3, <3>2, <3>3, Zenon
    <3>5. x \o lost \in Text BY JoinText
    <3> QED BY <3>4, <3>5
  <2>5. IsPrefix(buff, answer) BY <2>2, <2>4, PartOfText
  <2>6. IsSuffix(Ok, buff) <=> OkAt(buff, Len(buff)) BY <2>2, OkSuffix
  <2> QED BY <2>5, <2>6, <2>7
<1>2. Init => OwnInv BY InitInv, OwnAtFirst DEF OwnInv
<1> QED BY <1>1, <1>2, OwnKept, PTL DEF FailingSpec
=============================================================================
