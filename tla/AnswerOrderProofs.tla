-------------------------- MODULE AnswerOrderProofs --------------------------
(****************************************************************************)
(* Proofs about the order of the lines a call of the AT channel reads: what *)
(* an earlier exchange left unread comes before the call's own answer, and  *)
(* an exchange that begins with a silent modem sees nothing of it.  Nothing *)
(* is assumed of the modem's timing or of its answers.                      *)
(****************************************************************************)
EXTENDS ModemLinkProofs

-----------------------------------------------------------------------------
(* Lines of the receive path, piece by piece *)

Owned(s) == \E i \in DOMAIN s : s[i].own

Ordered(s) == \A i, j \in DOMAIN s : s[i].own /\ Foreign(s[j]) => j < i

\* What holds of two pieces of the path holds of the whole.
LEMMA Joined ==
    ASSUME NEW p \in Seq(Token), NEW q \in Seq(Token)
    PROVE  /\ p \o q \in Seq(Token)
           /\ Owned(p \o q) <=> Owned(p) \/ Owned(q)
           /\ AnyForeign(p \o q) <=> AnyForeign(p) \/ AnyForeign(q)
           /\ Ordered(p \o q) <=> /\ Ordered(p) /\ Ordered(q)
                                  /\ ~(Owned(p) /\ AnyForeign(q))
  <1> DEFINE w == p \o q
  <1>1. /\ w \in Seq(Token)
        /\ DOMAIN p = 1..Len(p) /\ DOMAIN q = 1..Len(q)
        /\ DOMAIN w = 1..(Len(p) + Len(q))
        /\ Len(p) \in Nat /\ Len(q) \in Nat
    BY LenProperties, ConcatProperties
  <1>2. /\ \A i \in DOMAIN p : i \in DOMAIN w /\ w[i] = p[i]
        /\ \A i \in DOMAIN q : Len(p) + i \in DOMAIN w /\ w[Len(p) + i] = q[i]
        /\ \A i \in DOMAIN w : \/ i \in DOMAIN p
                               \/ i - Len(p) \in DOMAIN q /\ w[i] = q[i - Len(p)]
    BY <1>1, ConcatProperties
  <1> HIDE DEF w
  <1>3. Owned(w) <=> Owned(p) \/ Owned(q)
    BY <1>2 DEF Owned
  <1>4. AnyForeign(w) <=> AnyForeign(p) \/ AnyForeign(q)
    BY <1>2 DEF AnyForeign
  <1>5. ASSUME Ordered(w) PROVE Ordered(p) /\ Ordered(q) /\ ~(Owned(p) /\ AnyForeign(q))
    <2>1. Ordered(p)
      BY <1>2, <1>5 DEF Ordered
    <2>2. Ordered(q)
      <3>1. ASSUME NEW i \in DOMAIN q, NEW j \in DOMAIN q, q[i].own, Foreign(q[j])
            PROVE  j < i
        <4>1. Len(p) + j < Len(p) + i
          BY <1>2, <1>5, <3>1 DEF Ordered
        <4> QED
          BY <1>1, <4>1
      <3> QED
        BY <3>1 DEF Ordered
    <2>3. ASSUME NEW i \in DOMAIN p, NEW j \in DOMAIN q, p[i].own, Foreign(q[j])
          PROVE  FALSE
      <3>1. Len(p) + j < i
        BY <1>2, <1>5, <2>3 DEF Ordered
      <3> QED
        BY <1>1, <3>1
    <2> QED
      BY <2>1, <2>2, <2>3 DEF Owned, AnyForeign
  <1>6. ASSUME Ordered(p), Ordered(q), ~(Owned(p) /\ AnyForeign(q))
        PROVE  Ordered(w)
    <2>1. ASSUME NEW i \in DOMAIN w, NEW j \in DOMAIN w, w[i].own, Foreign(w[j])
          PROVE  j < i
      <3>1. CASE i \in DOMAIN p /\ j \in DOMAIN p
        BY <1>2, <1>6, <2>1, <3>1 DEF Ordered
      <3>2. CASE i \in DOMAIN p /\ j \notin DOMAIN p
        BY <1>2, <1>6, <2>1, <3>2 DEF Owned, AnyForeign
      <3>3. CASE i \notin DOMAIN p /\ j \in DOMAIN p
        BY <1>1, <3>3
      <3>4. CASE i \notin DOMAIN p /\ j \notin DOMAIN p
        <4>1. /\ i - Len(p) \in DOMAIN q /\ q[i - Len(p)].own
              /\ j - Len(p) \in DOMAIN q /\ Foreign(q[j - Len(p)])
          BY <1>2, <2>1, <3>4
        <4>2. j - Len(p) < i - Len(p)
          BY <1>6, <4>1 DEF Ordered
        <4> QED
          BY <1>1, <4>2
      <3> QED
        BY <3>1, <3>2, <3>3, <3>4
    <2> QED
      BY <2>1 DEF Ordered
  <1> QED
    BY <1>1, <1>3, <1>4, <1>5, <1>6 DEF w

\* The same of the three pieces a line passes through.
LEMMA PathParts ==
    ASSUME NEW b \in Seq(Token), NEW r \in Seq(Token), NEW o \in Seq(Token)
    PROVE  /\ Owned(b \o r \o o) <=> Owned(b) \/ Owned(r) \/ Owned(o)
           /\ AnyForeign(b \o r \o o) <=> AnyForeign(b) \/ AnyForeign(r) \/ AnyForeign(o)
           /\ Ordered(b \o r \o o) <=>
                /\ Ordered(b) /\ Ordered(r) /\ Ordered(o)
                /\ ~(Owned(b) /\ AnyForeign(r))
                /\ ~((Owned(b) \/ Owned(r)) /\ AnyForeign(o))
  <1>1. b \o r \in Seq(Token)
    BY Joined
  <1>2. /\ Owned(b \o r) <=> Owned(b) \/ Owned(r)
        /\ AnyForeign(b \o r) <=> AnyForeign(b) \/ AnyForeign(r)
        /\ Ordered(b \o r) <=> Ordered(b) /\ Ordered(r) /\ ~(Owned(b) /\ AnyForeign(r))
    BY Joined
  <1>3. /\ Owned(b \o r \o o) <=> Owned(b \o r) \/ Owned(o)
        /\ AnyForeign(b \o r \o o) <=> AnyForeign(b \o r) \/ AnyForeign(o)
        /\ Ordered(b \o r \o o) <=> /\ Ordered(b \o r) /\ Ordered(o)
                                    /\ ~(Owned(b \o r) /\ AnyForeign(o))
    BY <1>1, Joined
  <1> QED
    BY <1>2, <1>3

\* A line by itself, and none.
LEMMA Pieces ==
    /\ ~Owned(<<>>) /\ ~AnyForeign(<<>>) /\ Ordered(<<>>)
    /\ \A x \in Token : /\ <<x>> \in Seq(Token)
                        /\ Owned(<<x>>) <=> x.own
                        /\ AnyForeign(<<x>>) <=> Foreign(x)
                        /\ Ordered(<<x>>)
  BY DEF Owned, AnyForeign, Ordered, Foreign

\* After relabelling nothing is the current command's own.
LEMMA StaleNotOwned ==
    ASSUME NEW s \in Seq(Token)
    PROVE  /\ Stale(s) \in Seq(Token)
           /\ ~Owned(Stale(s)) /\ Ordered(Stale(s))
           /\ s = <<>> => Stale(s) = <<>>
  <1>1. Stale(s) \in Seq(Token)
    BY StaleTokens
  <1>2. DOMAIN Stale(s) = DOMAIN s /\ \A i \in DOMAIN s : s[i] \in Token
    BY LenProperties, ElementOfSeq DEF Stale
  <1>3. \A i \in DOMAIN s : ~Stale(s)[i].own
    BY <1>2 DEF Stale, Token
  <1>4. ASSUME s = <<>> PROVE Stale(s) = <<>>
    <2>1. Len(Stale(s)) = 0
      BY <1>1, <1>2, <1>4, LenProperties, EmptySeq
    <2> QED
      BY <1>1, <2>1, EmptySeq
  <1> QED
    BY <1>1, <1>2, <1>3, <1>4 DEF Owned, Ordered

-----------------------------------------------------------------------------
(* What a step does to the path of a reading task *)

LEMMA PathTypes ==
    ASSUME LInv, NEW t \in Tasks
    PROVE  buf[t] \in Seq(Token) /\ rx \in Seq(Token) /\ out \in Seq(Token)
  BY DEF LInv, TypeOK

LEMMA Regroup ==
    \A p, q, r \in Seq(Token) : (p \o q) \o r = p \o (q \o r)
  <1> SUFFICES ASSUME NEW p \in Seq(Token), NEW q \in Seq(Token), NEW r \in Seq(Token)
               PROVE  (p \o q) \o r = p \o (q \o r)
    OBVIOUS
  <1> QED
    BY ConcatAssociative

\* A read moves lines from the ring buffer to the caller's and drops none.
LEMMA ReadKeepsLines ==
    ASSUME LInv, NEW t \in Tasks, ReadDone(t)
    PROVE  buf'[t] \o rx' = buf[t] \o rx
  <1> DEFINE k == IF Len(rx) < ToRead(t) THEN Len(rx) ELSE ToRead(t)
             a == SubSeq(rx, 1, k)
             z == SubSeq(rx, k + 1, Len(rx))
  <1>1. buf[t] \in Seq(Token) /\ rx \in Seq(Token) /\ buf \in [Tasks -> Seq(Token)]
    BY DEF LInv, TypeOK
  <1>2. /\ Len(rx) \in Nat /\ Len(buf[t]) \in Nat
        /\ cmd[t] \in Commands /\ Cap[cmd[t]] \in Nat
        /\ Len(buf[t]) < Cap[cmd[t]]
    BY <1>1, LenProperties, CommandAssumption DEF LInv, TypeOK, ReadRoom, ReadDone
  <1>3. k \in Nat /\ k <= Len(rx)
    BY <1>2 DEF ToRead
  <1>4. buf'[t] = buf[t] \o a /\ rx' = z
    BY <1>1 DEF ReadDone
  <1> HIDE DEF k
  <1>5. a \in Seq(Token) /\ z \in Seq(Token)
    BY <1>1, <1>3, ReadSplits
  <1>6. a \o z = SubSeq(rx, 1, Len(rx))
    <2>1. 1 \in 1..Len(rx) + 1 /\ k \in (1 - 1)..Len(rx) /\ Len(rx) \in k..Len(rx)
      BY <1>2, <1>3
    <2> QED
      BY <1>1, <2>1, ConcatAdjacentSubSeq
  <1>7. (buf[t] \o a) \o z = buf[t] \o (a \o z)
    BY <1>1, <1>5, Regroup
  <1> QED
    BY <1>1, <1>4, <1>6, <1>7, SubSeqFull

\* The first line of a sequence and the others.
LEMMA HeadAndTail ==
    ASSUME NEW s \in Seq(Token), s # <<>>
    PROVE  /\ Head(s) \in Token /\ Tail(s) \in Seq(Token)
           /\ <<Head(s)>> \in Seq(Token)
           /\ s = <<Head(s)>> \o Tail(s)
  <1>1. /\ Head(s) \in Token /\ Tail(s) \in Seq(Token)
        /\ Len(Tail(s)) = Len(s) - 1
        /\ \A i \in 1..Len(Tail(s)) : Tail(s)[i] = s[i + 1]
        /\ Len(s) \in Nat \ {0}
    BY HeadTailProperties, EmptySeq
  <1>2. /\ <<Head(s)>> \in Seq(Token)
        /\ Len(<<Head(s)>>) = 1 /\ <<Head(s)>>[1] = s[1]
    BY <1>1
  <1>3. /\ <<Head(s)>> \o Tail(s) \in Seq(Token)
        /\ Len(<<Head(s)>> \o Tail(s)) = 1 + Len(Tail(s))
        /\ \A i \in 1..(1 + Len(Tail(s))) : (<<Head(s)>> \o Tail(s))[i] =
              IF i <= 1 THEN <<Head(s)>>[i] ELSE Tail(s)[i - 1]
    BY <1>1, <1>2, ConcatProperties
  <1>4. Len(<<Head(s)>> \o Tail(s)) = Len(s)
    BY <1>1, <1>3
  <1>5. \A i \in 1..Len(s) : s[i] = (<<Head(s)>> \o Tail(s))[i]
    BY <1>1, <1>2, <1>3
  <1>6. s = <<Head(s)>> \o Tail(s)
    BY <1>3, <1>4, <1>5, SeqEqual
  <1> QED
    BY <1>1, <1>2, <1>6

\* A line the modem sends stays where it is on the path.
LEMMA SendKeepsPath ==
    ASSUME LInv, NEW t \in Tasks, ModemSend
    PROVE  Path(t)' = Path(t)
  <1> DEFINE h == <<Head(out)>>
  <1>1. buf[t] \in Seq(Token) /\ rx \in Seq(Token) /\ out \in Seq(Token) /\ out # <<>>
    BY PathTypes DEF ModemSend
  <1>2. Head(out) \in Token /\ h \in Seq(Token) /\ Tail(out) \in Seq(Token) /\ out = h \o Tail(out)
    BY <1>1, HeadAndTail
  <1>3. buf' = buf /\ rx' = rx \o h /\ out' = Tail(out)
    BY <1>1, <1>2, AppendIsConcat DEF ModemSend, callVars
  <1> HIDE DEF h
  <1>4. buf[t] \o rx \in Seq(Token)
    BY <1>1, ConcatProperties
  <1>5. buf[t] \o (rx \o h) = (buf[t] \o rx) \o h
    BY <1>1, <1>2, Regroup
  <1>6. ((buf[t] \o rx) \o h) \o Tail(out) = (buf[t] \o rx) \o (h \o Tail(out))
    BY <1>2, <1>4, Regroup
  <1> QED
    BY <1>2, <1>3, <1>5, <1>6 DEF Path

-----------------------------------------------------------------------------
(* The order of the lines.  The invariant adds to AnswerOrder that the modem *)
(* has the newest command to execute last: only then does what it sends for  *)
(* it come after everything else.                                            *)

Reading(t) == pc[t] \in {"loop", "read"}

NewestLast == \A i \in DOMAIN inbox : inbox[i].own => i = Len(inbox)

InOrder(t) == Ordered(Path(t)) /\ (Owned(Path(t)) => inbox = <<>>)

OrderInv == NewestLast /\ \A t \in Tasks : Reading(t) => InOrder(t)

LEMMA InitOrderInv == Init => OrderInv
  BY DEF Init, OrderInv, NewestLast, Reading

\* The modem's queue changes only where a command is written or executed.
LEMMA NextNewestLast == LInv /\ NewestLast /\ [Next]_vars => NewestLast'
  <1> SUFFICES ASSUME LInv, NewestLast, [Next]_vars PROVE NewestLast'
    OBVIOUS
  <1>0. inbox \in Seq(Request)
    BY DEF LInv, TypeOK
  <1>1. ASSUME NEW t \in Tasks, Write(t) PROVE NewestLast'
    <2>1. cmd[t] \in Commands
      BY <1>1 DEF Write, LInv, TypeOK
    <2>2. [cmd |-> cmd[t], own |-> TRUE] \in Request
      BY <2>1 DEF Request
    <2>3. Stale(inbox) \in Seq(Request)
      BY <1>0, StaleRequests
    <2>4. \A i \in 1..Len(Stale(inbox)) : ~Stale(inbox)[i].own
      <3>1. DOMAIN Stale(inbox) = DOMAIN inbox /\ \A i \in DOMAIN inbox : inbox[i] \in Request
        BY <1>0, LenProperties, ElementOfSeq DEF Stale
      <3>2. \A i \in DOMAIN inbox : ~Stale(inbox)[i].own
        BY <3>1 DEF Stale, Request
      <3> QED
        BY <2>3, <3>1, <3>2, LenProperties
    <2>5. inbox' = Append(Stale(inbox), [cmd |-> cmd[t], own |-> TRUE])
      BY <1>1 DEF Write
    <2>6. /\ inbox' \in Seq(Request)
          /\ Len(inbox') = Len(Stale(inbox)) + 1
          /\ Len(Stale(inbox)) \in Nat
          /\ \A i \in 1..Len(Stale(inbox)) : inbox'[i] = Stale(inbox)[i]
      BY <2>2, <2>3, <2>5, AppendProperties, LenProperties
    <2>7. DOMAIN inbox' = 1..(Len(Stale(inbox)) + 1)
      BY <2>6, LenProperties
    <2> QED
      BY <2>4, <2>6, <2>7 DEF NewestLast
  <1>2. CASE ModemExec
    <2>1. inbox # <<>> /\ inbox' = Tail(inbox)
      BY <1>2 DEF ModemExec
    <2>2. /\ inbox' \in Seq(Request)
          /\ Len(inbox') = Len(inbox) - 1
          /\ Len(inbox) \in Nat
          /\ DOMAIN inbox = 1..Len(inbox)
          /\ \A i \in 1..Len(inbox') : inbox'[i] = inbox[i + 1]
      BY <1>0, <2>1, HeadTailProperties, LenProperties
    <2>3. DOMAIN inbox' = 1..Len(inbox')
      BY <2>2, LenProperties
    <2> QED
      BY <2>2, <2>3 DEF NewestLast
  <1>3. CASE UNCHANGED inbox
    BY <1>3 DEF NewestLast
  <1> QED
    BY <1>1, <1>2, <1>3
       DEF Next, Inside, Modem, Call, Take, Acquire, ReadStart, ReadDone, TimeUp, Release,
           Give, ModemSend, ModemUrc, FifoOverflow, BufferFull, EventFlush, vars, modemVars

\* Where nothing on the path of a task changes, its order does not either.
LEMMA SamePath ==
    ASSUME NEW t \in Tasks, InOrder(t), Path(t)' = Path(t), inbox' = inbox
    PROVE  InOrder(t)'
  BY DEF InOrder

\* What a call's task still reads after a step, it read before it, or it has
\* just written its command.
LEMMA ReadingBefore ==
    ASSUME LInv, [Next]_vars, NEW t \in Tasks, Reading(t)', ~Write(t)
    PROVE  Reading(t) /\ (~ReadDone(t) => buf'[t] = buf[t])
  <1>0. pc \in [Tasks -> Places] /\ buf \in [Tasks -> Seq(Token)]
    BY DEF LInv, TypeOK
  <1>1. ASSUME NEW u \in Tasks, u # t, Write(u) \/ ReadDone(u)
        PROVE  pc'[t] = pc[t] /\ buf'[t] = buf[t]
    <2>1. CASE Write(u)
      BY <1>0, <1>1, <2>1 DEF Write
    <2>2. CASE ReadDone(u)
      <3>1. \E p \in Places : pc' = [pc EXCEPT ![u] = p]
        BY <2>2, ReadDoneEffect DEF Places
      <3> QED
        BY <1>0, <1>1, <2>2, <3>1 DEF ReadDone
    <2> QED
      BY <1>1, <2>1, <2>2
  <1>2. ASSUME NEW u \in Tasks,
               \/ \E c \in Commands : Call(u, c)
               \/ Take(u) \/ Acquire(u) \/ ReadStart(u)
               \/ TimeUp(u) \/ Release(u) \/ Give(u)
        PROVE  Reading(t) /\ buf'[t] = buf[t]
    BY <1>0, <1>2 DEF Call, Take, Acquire, ReadStart, TimeUp, Release, Give, Reading, callVars
  <1>3. CASE Modem \/ ModemUrc \/ FifoOverflow \/ BufferFull \/ EventFlush \/ UNCHANGED vars
    BY <1>3 DEF Modem, ModemExec, ModemSend, ModemUrc, FifoOverflow, BufferFull, EventFlush,
                vars, callVars, Reading
  <1>4. CASE ReadDone(t)
    BY <1>4 DEF ReadDone, Reading
  <1> QED
    BY <1>1, <1>2, <1>3, <1>4 DEF Next, Inside, Reading

\* The steps that leave a reading task's exchange to others: all but its own
\* write and read, and those of the modem and of the UART.
Elsewhere(t) ==
    \/ \E u \in Tasks : \/ \E c \in Commands : Call(u, c)
                        \/ Take(u) \/ Acquire(u) \/ ReadStart(u)
                        \/ TimeUp(u) \/ Release(u) \/ Give(u)
    \/ BufferFull
    \/ UNCHANGED vars

\* While a task reads, no other is in an exchange: these are all its steps.
LEMMA ReadingSteps ==
    ASSUME LInv, [Next]_vars, NEW t \in Tasks, Reading(t)
    PROVE  \/ ReadDone(t) \/ ModemExec \/ ModemSend \/ ModemUrc
           \/ FifoOverflow \/ EventFlush \/ Elsewhere(t)
  <1>1. \A u \in Tasks : pc[u] \in Locked => u = t
    BY DEF LInv, LockDiscipline, Locked, Reading
  <1>2. ASSUME NEW u \in Tasks, Write(u) PROVE FALSE
    <2>1. u = t
      BY <1>1, <1>2 DEF Write, Locked
    <2> QED
      BY <1>2, <2>1 DEF Write, Reading
  <1>3. ASSUME NEW u \in Tasks, ReadDone(u) PROVE ReadDone(t)
    BY <1>1, <1>3 DEF ReadDone, Locked
  <1> QED
    BY <1>2, <1>3 DEF Next, Inside, Modem, Elsewhere

LEMMA ElsewhereKeeps ==
    ASSUME NEW t \in Tasks, Elsewhere(t)
    PROVE  UNCHANGED <<rx, inbox, out, reply>>
  BY DEF Elsewhere, Call, Take, Acquire, ReadStart, TimeUp, Release, Give, BufferFull,
         vars, modemVars

\* The lines of the answer the modem decides on are of the command it answers.
LEMMA ExecutedLines ==
    ASSUME LInv, ModemExec
    PROVE  /\ out = <<>> /\ inbox # <<>> /\ inbox' = Tail(inbox)
           /\ out' \in Seq(Token) /\ Ordered(out')
           /\ Head(inbox) = inbox[1] /\ 1 \in DOMAIN inbox
           /\ Owned(out') => Head(inbox).own
           /\ AnyForeign(out') => ~Head(inbox).own
  <1>1. PICK r \in Answers[Head(inbox).cmd] :
              out' = [i \in DOMAIN r |-> [line |-> r[i], own |-> Head(inbox).own]]
    BY DEF ModemExec
  <1>2. inbox \in Seq(Request) /\ inbox # <<>>
    BY DEF ModemExec, LInv, TypeOK
  <1>3. /\ Head(inbox) \in Request
        /\ DOMAIN inbox = 1..Len(inbox) /\ Len(inbox) \in Nat \ {0}
        /\ Head(inbox) = inbox[1]
    BY <1>2, HeadTailProperties, LenProperties, EmptySeq
  <1>4. r \in Seq(Lines)
    BY <1>1, <1>3, CommandAssumption DEF Request
  <1>5. DOMAIN r = 1..Len(r) /\ Len(r) \in Nat /\ r \in [1..Len(r) -> Lines]
    BY <1>4, LenProperties
  <1>6. out' \in Seq(Token)
    <2>1. out' \in [1..Len(r) -> Token]
      BY <1>1, <1>3, <1>5 DEF Request, Token
    <2> QED
      BY <1>5, <2>1, FunctionIsSeq
  <1>7. \A i \in DOMAIN out' : out'[i].own = Head(inbox).own
    BY <1>1
  <1>8. /\ Owned(out') => Head(inbox).own
        /\ AnyForeign(out') => ~Head(inbox).own
        /\ Ordered(out')
    BY <1>7 DEF Owned, AnyForeign, Foreign, Ordered
  <1> QED
    BY <1>2, <1>3, <1>6, <1>8 DEF ModemExec

\* Whatever a step brings, the lines of earlier answers stay ahead of a reading
\* task's own.
LEMMA NextInOrder ==
    ASSUME LInv, OrderInv, [Next]_vars, NEW t \in Tasks, Reading(t)'
    PROVE  InOrder(t)'
  <1>0. buf[t] \in Seq(Token) /\ rx \in Seq(Token) /\ out \in Seq(Token)
    BY PathTypes
  <1>1. CASE Write(t)
    <2>1. buf'[t] = <<>> /\ rx' = <<>> /\ out' = Stale(out)
      BY <1>1 DEF Write, Flush, LInv, TypeOK
    <2>2. Stale(out) \in Seq(Token) /\ ~Owned(Stale(out)) /\ Ordered(Stale(out))
      BY <1>0, StaleNotOwned
    <2>3. Path(t)' = (<<>> \o <<>>) \o Stale(out)
      BY <2>1 DEF Path
    <2>4. <<>> \in Seq(Token)
      OBVIOUS
    <2>5. ~Owned(Path(t)') /\ Ordered(Path(t)')
      BY <2>2, <2>3, <2>4, PathParts, Pieces
    <2> QED
      BY <2>5 DEF InOrder
  <1>2. CASE ~Write(t)
    <2>1. Reading(t) /\ (~ReadDone(t) => buf'[t] = buf[t])
      BY <1>2, ReadingBefore
    <2>2. InOrder(t) /\ NewestLast
      BY <2>1 DEF OrderInv
    <2>3. CASE ReadDone(t)
      <3>1. UNCHANGED <<out, inbox>>
        BY <2>3 DEF ReadDone, modemVars
      <3> QED
        BY <2>2, <2>3, <3>1, ReadKeepsLines, SamePath DEF Path
    <2>4. CASE ModemExec /\ ~ReadDone(t)
      <3>1. /\ out = <<>> /\ inbox # <<>> /\ inbox' = Tail(inbox)
            /\ out' \in Seq(Token) /\ Ordered(out')
            /\ Head(inbox) = inbox[1] /\ 1 \in DOMAIN inbox
            /\ Owned(out') => Head(inbox).own
        BY <2>4, ExecutedLines
      <3>2. ~Owned(Path(t)) /\ Ordered(Path(t))
        BY <2>2, <3>1 DEF InOrder
      <3>3. /\ ~Owned(buf[t]) /\ ~Owned(rx)
            /\ Ordered(buf[t]) /\ Ordered(rx)
        BY <1>0, <3>2, PathParts DEF Path
      <3>4. buf'[t] = buf[t] /\ rx' = rx
        BY <2>1, <2>4 DEF ModemExec
      <3>5. Ordered(Path(t)') /\ (Owned(Path(t)') => Owned(out'))
        BY <1>0, <3>1, <3>3, <3>4, PathParts DEF Path
      <3>6. ASSUME Head(inbox).own PROVE inbox' = <<>>
        <4>1. Len(inbox) = 1 /\ inbox \in Seq(Request)
          BY <2>2, <3>1, <3>6 DEF NewestLast, LInv, TypeOK
        <4>2. inbox' \in Seq(Request) /\ Len(inbox') = 0
          BY <3>1, <4>1, HeadTailProperties
        <4> QED
          BY <4>2, EmptySeq
      <3> QED
        BY <3>1, <3>5, <3>6 DEF InOrder
    <2>5. CASE ModemSend /\ ~ReadDone(t)
      <3>1. inbox' = inbox
        BY <2>5 DEF ModemSend
      <3> QED
        BY <2>2, <2>5, <3>1, SendKeepsPath, SamePath
    <2>6. CASE ModemUrc /\ ~ReadDone(t)
      <3> DEFINE urc == [line |-> "URC", own |-> FALSE]
      <3>1. urc \in Token /\ ~urc.own /\ ~Foreign(urc)
        BY LineAssumption DEF Token, Foreign
      <3>2. rx' = rx \o <<urc>> /\ out' = out /\ inbox' = inbox /\ buf'[t] = buf[t]
        BY <1>0, <2>1, <2>6, <3>1, AppendIsConcat DEF ModemUrc, modemVars
      <3> HIDE DEF urc
      <3>3. /\ <<urc>> \in Seq(Token)
            /\ ~Owned(<<urc>>) /\ ~AnyForeign(<<urc>>) /\ Ordered(<<urc>>)
        BY <3>1, Pieces
      <3>4. /\ rx' \in Seq(Token)
            /\ Owned(rx') <=> Owned(rx)
            /\ AnyForeign(rx') <=> AnyForeign(rx)
            /\ Ordered(rx') <=> Ordered(rx)
        BY <1>0, <3>2, <3>3, Joined
      <3>5. /\ Ordered(Path(t)') <=> Ordered(Path(t))
            /\ Owned(Path(t)') <=> Owned(Path(t))
        <4>1. Path(t)' = buf[t] \o rx' \o out /\ Path(t) = buf[t] \o rx \o out
          BY <3>2 DEF Path
        <4>2. /\ Owned(buf[t] \o rx' \o out) <=> Owned(buf[t]) \/ Owned(rx') \/ Owned(out)
              /\ Ordered(buf[t] \o rx' \o out) <=>
                   /\ Ordered(buf[t]) /\ Ordered(rx') /\ Ordered(out)
                   /\ ~(Owned(buf[t]) /\ AnyForeign(rx'))
                   /\ ~((Owned(buf[t]) \/ Owned(rx')) /\ AnyForeign(out))
          BY <1>0, <3>4, PathParts
        <4>3. /\ Owned(buf[t] \o rx \o out) <=> Owned(buf[t]) \/ Owned(rx) \/ Owned(out)
              /\ Ordered(buf[t] \o rx \o out) <=>
                   /\ Ordered(buf[t]) /\ Ordered(rx) /\ Ordered(out)
                   /\ ~(Owned(buf[t]) /\ AnyForeign(rx))
                   /\ ~((Owned(buf[t]) \/ Owned(rx)) /\ AnyForeign(out))
          BY <1>0, PathParts
        <4> QED
          BY <3>4, <4>1, <4>2, <4>3
      <3> QED
        BY <2>2, <3>2, <3>5 DEF InOrder
    <2>7. CASE (FifoOverflow \/ EventFlush) /\ ~ReadDone(t)
      <3>1. /\ rx' \in Seq(Token) /\ out' \in Seq(Token)
            /\ Owned(rx') => Owned(rx)
            /\ Owned(out') => Owned(out)
            /\ AnyForeign(out') => AnyForeign(out)
            /\ AnyForeign(rx') => AnyForeign(rx)
            /\ Ordered(out) => Ordered(out')
            /\ Ordered(rx) => Ordered(rx')
        <4>1. CASE FifoOverflow
          <5>1. out # <<>> /\ out' = Tail(out) /\ rx' = rx
            BY <4>1 DEF FifoOverflow
          <5>2. /\ <<Head(out)>> \in Seq(Token) /\ Tail(out) \in Seq(Token)
                /\ out = <<Head(out)>> \o Tail(out)
            BY <1>0, <5>1, HeadAndTail
          <5>3. /\ Owned(<<Head(out)>> \o Tail(out)) <=> Owned(<<Head(out)>>) \/ Owned(Tail(out))
                /\ AnyForeign(<<Head(out)>> \o Tail(out)) <=>
                      AnyForeign(<<Head(out)>>) \/ AnyForeign(Tail(out))
                /\ Ordered(<<Head(out)>> \o Tail(out)) => Ordered(Tail(out))
            BY <5>2, Joined
          <5> QED
            BY <1>0, <5>1, <5>2, <5>3
        <4>2. CASE EventFlush
          <5>1. rx' = <<>> /\ out' = out
            BY <4>2 DEF EventFlush, Flush, modemVars
          <5>2. <<>> \in Seq(Token)
            OBVIOUS
          <5> QED
            BY <1>0, <5>1, <5>2, Pieces
        <4> QED
          BY <2>7, <4>1, <4>2
      <3>2. buf'[t] = buf[t] /\ inbox' = inbox
        BY <2>1, <2>7 DEF FifoOverflow, EventFlush, modemVars
      <3>3. /\ Ordered(Path(t)) => Ordered(Path(t)')
            /\ Owned(Path(t)') => Owned(Path(t))
        BY <1>0, <3>1, <3>2, PathParts DEF Path
      <3> QED
        BY <2>2, <3>2, <3>3 DEF InOrder
    <2>8. CASE Elsewhere(t) /\ ~ReadDone(t)
      <3>1. UNCHANGED <<rx, inbox, out>>
        BY <2>8, ElsewhereKeeps
      <3>2. Path(t)' = Path(t)
        BY <2>1, <2>8, <3>1 DEF Path
      <3> QED
        BY <2>2, <3>1, <3>2, SamePath
    <2> QED
      BY <2>1, <2>3, <2>4, <2>5, <2>6, <2>7, <2>8, ReadingSteps
  <1> QED
    BY <1>1, <1>2

\* A call of modem_send_command_and_expect reads what earlier exchanges left
\* unread before the first line of its own answer, and by then the modem has
\* nothing left to execute.
THEOREM AnswersInOrder == Spec => []AnswerOrder
  <1>1. LInv /\ OrderInv /\ [Next]_vars => OrderInv'
    BY NextNewestLast, NextInOrder DEF OrderInv
  <1>2. LInv /\ OrderInv => AnswerOrder
    BY DEF OrderInv, InOrder, Reading, AnswerOrder, Ordered, Owned
  <1> QED
    BY Invariance, InitOrderInv, <1>1, <1>2, PTL DEF Spec

-----------------------------------------------------------------------------
(* Falling back into step *)

\* Writing to a silent modem leaves nothing of an earlier answer on the way.
LEMMA WriteClears ==
    ASSUME LInv, NEW t \in Tasks, Write(t), ModemQuiet
    PROVE  ~Behind(t)'
  <1>1. buf'[t] = <<>> /\ rx' = <<>> /\ out' = Stale(<<>>)
    BY DEF Write, Flush, LInv, TypeOK, ModemQuiet
  <1>2. <<>> \in Seq(Token) /\ <<>> \in Seq(Request)
    OBVIOUS
  <1>3. out' = <<>>
    BY <1>1, <1>2, StaleNotOwned
  <1>4. ~AnyForeign(Path(t)')
    BY <1>1, <1>2, <1>3, PathParts, Pieces DEF Path
  <1>5. \A i \in DOMAIN inbox' : inbox'[i].own
    <2>1. inbox' = Append(Stale(<<>>), [cmd |-> cmd[t], own |-> TRUE])
      BY DEF Write, ModemQuiet
    <2>2. Stale(<<>>) = <<>>
      BY <1>2, StaleNotOwned
    <2> QED
      BY <2>1, <2>2
  <1> QED
    BY <1>4, <1>5 DEF Behind

\* A reading task that has nothing foreign before it stays that way.
LEMMA StaysInStep ==
    ASSUME LInv, [Next]_vars, NEW t \in Tasks, Reading(t), ~Behind(t)
    PROVE  ~Behind(t)'
  <1>0. buf[t] \in Seq(Token) /\ rx \in Seq(Token) /\ out \in Seq(Token)
    BY PathTypes
  <1>1. /\ ~AnyForeign(Path(t)) /\ \A i \in DOMAIN inbox : inbox[i].own
        /\ ~AnyForeign(buf[t]) /\ ~AnyForeign(rx) /\ ~AnyForeign(out)
    BY <1>0, PathParts DEF Behind, Path
  <1>2. CASE ReadDone(t)
    <2>1. UNCHANGED <<out, inbox>>
      BY <1>2 DEF ReadDone, modemVars
    <2> QED
      BY <1>1, <1>2, <2>1, ReadKeepsLines DEF Behind, Path
  <1>3. CASE ModemExec
    <2>1. /\ inbox # <<>> /\ inbox' = Tail(inbox) /\ out' \in Seq(Token)
          /\ ~AnyForeign(out') /\ buf' = buf /\ rx' = rx
      BY <1>1, <1>3, ExecutedLines DEF ModemExec, callVars
    <2>2. ~AnyForeign(Path(t)')
      BY <1>0, <1>1, <2>1, PathParts DEF Path
    <2>3. \A i \in DOMAIN inbox' : inbox'[i].own
      <3>1. inbox \in Seq(Request)
        BY DEF LInv, TypeOK
      <3>2. /\ inbox' \in Seq(Request) /\ Len(inbox') = Len(inbox) - 1
            /\ Len(inbox) \in Nat /\ DOMAIN inbox = 1..Len(inbox)
            /\ \A i \in 1..Len(inbox') : inbox'[i] = inbox[i + 1]
        BY <2>1, <3>1, HeadTailProperties, LenProperties
      <3>3. DOMAIN inbox' = 1..Len(inbox')
        BY <3>2, LenProperties
      <3> QED
        BY <1>1, <3>2, <3>3
    <2> QED
      BY <2>2, <2>3 DEF Behind
  <1>4. CASE ModemSend
    BY <1>1, <1>4, SendKeepsPath DEF ModemSend, Behind
  <1>5. CASE ModemUrc
    <2> DEFINE urc == [line |-> "URC", own |-> FALSE]
    <2>1. urc \in Token /\ ~Foreign(urc)
      BY LineAssumption DEF Token, Foreign
    <2>2. rx' = rx \o <<urc>> /\ out' = out /\ inbox' = inbox /\ buf' = buf
      BY <1>0, <1>5, <2>1, AppendIsConcat DEF ModemUrc, modemVars, callVars
    <2> HIDE DEF urc
    <2>3. <<urc>> \in Seq(Token) /\ ~AnyForeign(<<urc>>)
      BY <2>1, Pieces
    <2>4. rx' \in Seq(Token) /\ ~AnyForeign(rx')
      BY <1>0, <1>1, <2>2, <2>3, Joined
    <2>5. ~AnyForeign(Path(t)')
      BY <1>0, <1>1, <2>2, <2>4, PathParts DEF Path
    <2> QED
      BY <1>1, <2>2, <2>5 DEF Behind
  <1>6. CASE FifoOverflow
    <2>1. out # <<>> /\ out' = Tail(out) /\ rx' = rx /\ buf' = buf /\ inbox' = inbox
      BY <1>6 DEF FifoOverflow, callVars
    <2>2. /\ <<Head(out)>> \in Seq(Token) /\ Tail(out) \in Seq(Token)
          /\ out = <<Head(out)>> \o Tail(out)
      BY <1>0, <2>1, HeadAndTail
    <2>3. AnyForeign(<<Head(out)>> \o Tail(out)) <=>
            AnyForeign(<<Head(out)>>) \/ AnyForeign(Tail(out))
      BY <2>2, Joined
    <2>4. ~AnyForeign(Path(t)')
      BY <1>0, <1>1, <2>1, <2>2, <2>3, PathParts DEF Path
    <2> QED
      BY <1>1, <2>1, <2>4 DEF Behind
  <1>7. CASE EventFlush
    <2>1. rx' = <<>> /\ out' = out /\ buf' = buf /\ inbox' = inbox /\ <<>> \in Seq(Token)
      BY <1>7 DEF EventFlush, Flush, modemVars, callVars
    <2>2. ~AnyForeign(Path(t)')
      BY <1>0, <1>1, <2>1, PathParts, Pieces DEF Path
    <2> QED
      BY <1>1, <2>1, <2>2 DEF Behind
  <1>8. CASE Elsewhere(t)
    <2>1. UNCHANGED <<rx, inbox, out>>
      BY <1>8, ElsewhereKeeps
    <2>2. buf'[t] = buf[t]
      <3>1. ASSUME NEW u \in Tasks, Give(u) PROVE u # t
        BY <3>1 DEF Give, Reading
      <3> QED
        BY <1>8, <3>1 DEF Elsewhere, Call, Take, Acquire, ReadStart, TimeUp, Release, Give,
                          BufferFull, vars, callVars, LInv, TypeOK
    <2> QED
      BY <1>1, <2>1, <2>2 DEF Behind, Path
  <1> QED
    BY <1>2, <1>3, <1>4, <1>5, <1>6, <1>7, <1>8, ReadingSteps

\* An exchange that begins while the modem owes nothing reads no line of an
\* earlier answer, from its first read to its last: after a time-out or an
\* overflow the program is back in step as soon as the modem has caught up.
THEOREM BackInStep == Spec => Resync
  <1>1. ASSUME LInv, [Next]_vars, NEW t \in Tasks,
               pc[t] = "write", pc'[t] # "write", ModemQuiet
        PROVE  ~Behind(t)'
    <2>1. pc \in [Tasks -> Places]
      BY <1>1 DEF LInv, TypeOK
    <2>2. ASSUME NEW u \in Tasks, ReadDone(u) PROVE FALSE
      <3>1. \E p \in Places : pc' = [pc EXCEPT ![u] = p]
        BY <1>1, <2>2, ReadDoneEffect DEF Places
      <3> QED
        BY <1>1, <2>1, <2>2, <3>1 DEF ReadDone
    <2>3. Write(t)
      BY <1>1, <2>1, <2>2
         DEF Next, Inside, Modem, Call, Take, Acquire, Write, ReadStart, TimeUp, Release, Give,
             ModemExec, ModemSend, ModemUrc, FifoOverflow, BufferFull, EventFlush, vars
    <2> QED
      BY <1>1, <2>3, WriteClears
  <1>2. LInv /\ [Next]_vars =>
          [\A t \in Tasks :
             /\ pc[t] = "write" /\ pc'[t] # "write" /\ ModemQuiet => ~Behind(t)'
             /\ pc[t] \in {"loop", "read"} /\ Behind(t)' => Behind(t)]_vars
    BY <1>1, StaysInStep DEF Reading
  <1> QED
    BY Invariance, <1>2, PTL DEF Spec, Resync

=============================================================================
