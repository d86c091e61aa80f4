--------------------------- MODULE ModemLinkProofs ---------------------------
(****************************************************************************)
(* Proofs about ModemLink for every set of tasks, every command profile and *)
(* every bound: type correctness, the discipline of the two locks and the   *)
(* room left in the caller's buffer.  None of it depends on InTime: the     *)
(* results hold for a modem that answers late, never or too much.           *)
(****************************************************************************)
EXTENDS ModemLink, SequenceTheorems, TLAPS

-----------------------------------------------------------------------------
(* Lemmas on the sequences of the receive path *)

\* A function on 1..n into S is a sequence over S.
LEMMA FunctionIsSeq ==
    ASSUME NEW S, NEW n \in Nat, NEW f \in [1..n -> S]
    PROVE  f \in Seq(S)
  BY SeqDef

\* Relabelling keeps lines lines and requests requests.
LEMMA StaleTokens ==
    ASSUME NEW s \in Seq(Token)
    PROVE  Stale(s) \in Seq(Token)
  <1>1. DOMAIN s = 1..Len(s) /\ Len(s) \in Nat /\ s \in [1..Len(s) -> Token]
    BY LenProperties
  <1>2. Stale(s) \in [1..Len(s) -> Token]
    BY <1>1 DEF Stale, Token
  <1> QED
    BY <1>1, <1>2, FunctionIsSeq

LEMMA StaleRequests ==
    ASSUME NEW s \in Seq(Request)
    PROVE  Stale(s) \in Seq(Request)
  <1>1. DOMAIN s = 1..Len(s) /\ Len(s) \in Nat /\ s \in [1..Len(s) -> Request]
    BY LenProperties
  <1>2. Stale(s) \in [1..Len(s) -> Request]
    BY <1>1 DEF Stale, Request
  <1> QED
    BY <1>1, <1>2, FunctionIsSeq

\* What a read takes from the ring buffer, and what it leaves there.
LEMMA ReadSplits ==
    ASSUME NEW s \in Seq(Token), NEW k \in Nat, k <= Len(s)
    PROVE  /\ SubSeq(s, 1, k) \in Seq(Token)
           /\ Len(SubSeq(s, 1, k)) = k
           /\ SubSeq(s, k + 1, Len(s)) \in Seq(Token)
  <1>1. Len(s) \in Nat /\ \A i \in 1..Len(s) : s[i] \in Token
    BY LenProperties, ElementOfSeq
  <1>2. \A i \in 1..k : s[i] \in Token
    BY <1>1
  <1>3. \A i \in (k + 1)..Len(s) : s[i] \in Token
    BY <1>1
  <1>4. /\ SubSeq(s, 1, k) \in Seq(Token)
        /\ Len(SubSeq(s, 1, k)) = IF 1 <= k THEN k - 1 + 1 ELSE 0
    BY <1>2, SubSeqProperties
  <1>5. SubSeq(s, k + 1, Len(s)) \in Seq(Token)
    BY <1>1, <1>3, SubSeqProperties
  <1> QED
    BY <1>4, <1>5

\* Classify returns a result code or decides to read on.
LEMMA ClassifyCodes ==
    ASSUME NEW c, NEW s
    PROVE  Classify(c, s) \in Codes \cup {"none"}
  BY DEF Classify, Codes

\* A call whose buffer decides nothing has room left in it.
LEMMA UndecidedHasRoom ==
    ASSUME NEW c \in Commands, NEW s \in Seq(Token), Classify(c, s) = "none"
    PROVE  Len(s) < Cap[c]
  <1>1. Len(s) \in Nat /\ Cap[c] \in Nat
    BY LenProperties, CommandAssumption
  <1> QED
    BY <1>1 DEF Classify

-----------------------------------------------------------------------------
(* The inductive invariant.  The types need the locks, which keep pm from     *)
(* falling below zero, and the room in the caller's buffer, without which     *)
(* the length of a read would be negative.                                    *)

LInv == TypeOK /\ LockDiscipline /\ ReadRoom

LEMMA InitLInv == Init => LInv
  <1> SUFFICES ASSUME Init PROVE LInv
    OBVIOUS
  <1>1. TypeOK
    BY EmptySeq DEF Init, TypeOK, Places
  <1>2. LockDiscipline
    BY TaskAssumption DEF Init, LockDiscipline, Locked
  <1>3. ReadRoom
    BY DEF Init, ReadRoom
  <1> QED
    BY <1>1, <1>2, <1>3 DEF LInv

\* What a read does to the variables it changes, told apart by its outcome.
LEMMA ReadDoneEffect ==
    ASSUME LInv, NEW t \in Tasks, ReadDone(t)
    PROVE  /\ cmd[t] \in Commands
           /\ \E got \in Seq(Token) : buf' = [buf EXCEPT ![t] = got]
           /\ rx' \in Seq(Token)
           /\ \/ /\ pc' = [pc EXCEPT ![t] = "release"]
                 /\ left' = [left EXCEPT ![t] = 0]
                 /\ \E code \in Codes : ret' = [ret EXCEPT ![t] = code]
              \/ /\ pc' = [pc EXCEPT ![t] = "loop"]
                 /\ \E n \in Nat : left' = [left EXCEPT ![t] = n]
                 /\ ret' = ret
                 /\ Len(buf'[t]) < Cap[cmd[t]]
  <1> DEFINE k    == IF Len(rx) < ToRead(t) THEN Len(rx) ELSE ToRead(t)
             got  == buf[t] \o SubSeq(rx, 1, k)
             code == IF k > 0 THEN Classify(cmd[t], got) ELSE "none"
  <1>1. /\ cmd[t] \in Commands
        /\ buf[t] \in Seq(Token)
        /\ rx \in Seq(Token)
        /\ left[t] \in Nat
        /\ buf \in [Tasks -> Seq(Token)]
    BY DEF LInv, TypeOK, ReadDone
  <1>2. /\ Len(rx) \in Nat
        /\ Len(buf[t]) \in Nat
        /\ Cap[cmd[t]] \in Nat
        /\ Len(buf[t]) < Cap[cmd[t]]
    BY <1>1, LenProperties, CommandAssumption DEF LInv, ReadRoom, ReadDone
  <1>3. k \in Nat /\ k <= Len(rx)
    BY <1>2 DEF ToRead
  <1>4. /\ SubSeq(rx, 1, k) \in Seq(Token)
        /\ Len(SubSeq(rx, 1, k)) = k
        /\ SubSeq(rx, k + 1, Len(rx)) \in Seq(Token)
    BY <1>1, <1>3, ReadSplits
  <1>5. got \in Seq(Token) /\ Len(got) = Len(buf[t]) + k
    BY <1>1, <1>4, ConcatProperties
  <1>6. code \in Codes \cup {"none"}
    BY ClassifyCodes
  <1>7. /\ buf' = [buf EXCEPT ![t] = got]
        /\ rx' = SubSeq(rx, k + 1, Len(rx))
        /\ IF code # "none"
           THEN /\ ret' = [ret EXCEPT ![t] = code]
                /\ pc' = [pc EXCEPT ![t] = "release"]
                /\ left' = [left EXCEPT ![t] = 0]
           ELSE /\ \E n \in 0..(left[t] - 1) :
                      /\ InTime /\ n = 0 => ModemQuiet
                      /\ left' = [left EXCEPT ![t] = n]
                /\ pc' = [pc EXCEPT ![t] = "loop"]
                /\ UNCHANGED ret
    BY DEF ReadDone
  <1>8. buf'[t] = got
    BY <1>1, <1>7
  <1>9. code = "none" => Len(got) < Cap[cmd[t]]
    <2>1. CASE k > 0
      BY <2>1, <1>1, <1>5, UndecidedHasRoom
    <2>2. CASE k = 0
      BY <2>2, <1>2, <1>5
    <2> QED
      BY <2>1, <2>2, <1>3
  <1> HIDE DEF k, got, code
  <1>10. CASE code # "none"
    BY <1>1, <1>4, <1>5, <1>6, <1>7, <1>10
  <1>11. CASE code = "none"
    <2>1. PICK n \in 0..(left[t] - 1) : left' = [left EXCEPT ![t] = n]
      BY <1>7, <1>11
    <2>2. n \in Nat
      BY <1>1
    <2>3. Len(buf'[t]) < Cap[cmd[t]]
      BY <1>8, <1>9, <1>11
    <2>4. pc' = [pc EXCEPT ![t] = "loop"] /\ ret' = ret
      BY <1>7, <1>11
    <2>5. rx' \in Seq(Token) /\ buf' = [buf EXCEPT ![t] = got]
      BY <1>4, <1>7
    <2> QED
      BY <1>1, <1>5, <2>1, <2>2, <2>3, <2>4, <2>5
  <1> QED
    BY <1>10, <1>11

\* Every step of the program, the modem and the UART keeps the types.
LEMMA NextTypeOK == LInv /\ [Next]_vars => TypeOK'
  <1> SUFFICES ASSUME LInv, [Next]_vars PROVE TypeOK'
    OBVIOUS
  <1>0. TypeOK
    BY DEF LInv
  <1>1. ASSUME NEW t \in Tasks, NEW c \in Commands, Call(t, c) PROVE TypeOK'
    BY <1>0, <1>1 DEF Call, TypeOK, Places, callVars, modemVars
  <1>2. ASSUME NEW t \in Tasks, Take(t) PROVE TypeOK'
    BY <1>0, <1>2 DEF Take, TypeOK, Places, callVars, modemVars
  <1>3. ASSUME NEW t \in Tasks, Acquire(t) PROVE TypeOK'
    BY <1>0, <1>3 DEF Acquire, TypeOK, Places, callVars, modemVars
  <1>4. ASSUME NEW t \in Tasks, Write(t) PROVE TypeOK'
    <2>1. cmd[t] \in Commands
      BY <1>0, <1>4 DEF Write, TypeOK
    <2>2. Stale(out) \in Seq(Token) /\ Stale(inbox) \in Seq(Request)
      BY <1>0, StaleTokens, StaleRequests DEF TypeOK
    <2>3. [cmd |-> cmd[t], own |-> TRUE] \in Request
      BY <2>1 DEF Request
    <2>4. inbox' \in Seq(Request)
      BY <1>4, <2>2, <2>3, AppendProperties DEF Write
    <2>5. rx' \in Seq(Token) /\ out' \in Seq(Token) /\ reply' \in Seq(Seq(Lines))
      BY <1>4, <2>2, EmptySeq DEF Write, Flush
    <2>6. buf' \in [Tasks -> Seq(Token)] /\ left' \in [Tasks -> Nat]
      BY <1>0, <1>4, <2>1, EmptySeq, CommandAssumption DEF Write, TypeOK
    <2> QED
      BY <1>0, <1>4, <2>4, <2>5, <2>6 DEF Write, TypeOK, Places
  <1>5. ASSUME NEW t \in Tasks, ReadStart(t) PROVE TypeOK'
    BY <1>0, <1>5 DEF ReadStart, TypeOK, Places, callVars, modemVars
  <1>6. ASSUME NEW t \in Tasks, ReadDone(t) PROVE TypeOK'
    <2>1. buf' \in [Tasks -> Seq(Token)] /\ rx' \in Seq(Token)
      BY <1>0, <1>6, ReadDoneEffect DEF TypeOK
    <2>2. /\ \E n \in Nat : left' = [left EXCEPT ![t] = n]
          /\ \E p \in {"release", "loop"} : pc' = [pc EXCEPT ![t] = p]
      <3>1. 0 \in Nat
        OBVIOUS
      <3> QED
        BY <1>6, <3>1, ReadDoneEffect
    <2>3. left' \in [Tasks -> Nat] /\ pc' \in [Tasks -> Places]
      BY <1>0, <2>2 DEF TypeOK, Places
    <2>4. ret' \in [Tasks -> Codes \cup {"none"}]
      <3>1. CASE ret' = ret
        BY <1>0, <3>1 DEF TypeOK
      <3>2. CASE \E code \in Codes : ret' = [ret EXCEPT ![t] = code]
        BY <1>0, <3>2 DEF TypeOK
      <3> QED
        BY <1>6, <3>1, <3>2, ReadDoneEffect
    <2>5. UNCHANGED <<mutex, pm, cmd, overrun, inbox, out, reply>>
      BY <1>6 DEF ReadDone, modemVars
    <2>6. \A u \in Tasks : pc'[u] # "idle" => cmd'[u] \in Commands
      <3>1. cmd[t] \in Commands
        BY <1>6, ReadDoneEffect
      <3>2. \A u \in Tasks : u # t => pc'[u] = pc[u]
        BY <1>0, <2>2 DEF TypeOK
      <3> QED
        BY <1>0, <2>5, <3>1, <3>2 DEF TypeOK
    <2> QED
      BY <1>0, <2>1, <2>3, <2>4, <2>5, <2>6 DEF TypeOK
  <1>7. ASSUME NEW t \in Tasks, TimeUp(t) PROVE TypeOK'
    BY <1>0, <1>7 DEF TimeUp, TypeOK, Places, Codes, modemVars
  <1>8. ASSUME NEW t \in Tasks, Release(t) PROVE TypeOK'
    <2>1. pm = 1
      BY <1>8 DEF LInv, LockDiscipline, Release
    <2> QED
      BY <1>0, <1>8, <2>1 DEF Release, TypeOK, Places, callVars, modemVars
  <1>9. ASSUME NEW t \in Tasks, Give(t) PROVE TypeOK'
    BY <1>0, <1>9, EmptySeq DEF Give, TypeOK, Places, modemVars
  <1>10. CASE ModemExec
    <2>1. /\ Head(inbox) \in Request
          /\ inbox' \in Seq(Request)
      BY <1>0, <1>10, HeadTailProperties DEF ModemExec, TypeOK
    <2>2. PICK r \in Answers[Head(inbox).cmd] :
              /\ out' = [i \in DOMAIN r |-> [line |-> r[i], own |-> Head(inbox).own]]
              /\ reply' = IF Head(inbox).own THEN <<r>> ELSE reply
      BY <1>10 DEF ModemExec
    <2>3. r \in Seq(Lines)
      BY <2>1, <2>2, CommandAssumption DEF Request
    <2>4. out' \in Seq(Token)
      <3>1. DOMAIN r = 1..Len(r) /\ Len(r) \in Nat /\ r \in [1..Len(r) -> Lines]
        BY <2>3, LenProperties
      <3>2. out' \in [1..Len(r) -> Token]
        BY <2>1, <2>2, <3>1 DEF Request, Token
      <3> QED
        BY <3>1, <3>2, FunctionIsSeq
    <2>5. reply' \in Seq(Seq(Lines))
      BY <1>0, <2>2, <2>3 DEF TypeOK
    <2> QED
      BY <1>0, <1>10, <2>1, <2>4, <2>5 DEF ModemExec, TypeOK, callVars
  <1>11. CASE ModemSend
    <2>1. /\ Head(out) \in Token
          /\ out' \in Seq(Token)
      BY <1>0, <1>11, HeadTailProperties DEF ModemSend, TypeOK
    <2>2. rx' \in Seq(Token)
      BY <1>0, <1>11, <2>1, AppendProperties DEF ModemSend, TypeOK
    <2> QED
      BY <1>0, <1>11, <2>1, <2>2 DEF ModemSend, TypeOK, callVars
  <1>12. CASE ModemUrc
    <2>1. [line |-> "URC", own |-> FALSE] \in Token
      BY LineAssumption DEF Token
    <2>2. rx' \in Seq(Token)
      BY <1>0, <1>12, <2>1, AppendProperties DEF ModemUrc, TypeOK
    <2> QED
      BY <1>0, <1>12, <2>2 DEF ModemUrc, TypeOK, callVars, modemVars
  <1>13. CASE FifoOverflow
    <2>1. out' \in Seq(Token)
      BY <1>0, <1>13, HeadTailProperties DEF FifoOverflow, TypeOK
    <2> QED
      BY <1>0, <1>13, <2>1 DEF FifoOverflow, TypeOK, callVars
  <1>14. CASE BufferFull
    BY <1>0, <1>14 DEF BufferFull, TypeOK, callVars, modemVars
  <1>15. CASE EventFlush
    BY <1>0, <1>15, EmptySeq DEF EventFlush, Flush, TypeOK, callVars, modemVars
  <1>16. CASE UNCHANGED vars
    BY <1>0, <1>16 DEF vars, TypeOK, callVars, modemVars
  <1> QED
    BY <1>1, <1>2, <1>3, <1>4, <1>5, <1>6, <1>7, <1>8, <1>9, <1>10, <1>11,
       <1>12, <1>13, <1>14, <1>15, <1>16 DEF Next, Inside, Modem

-----------------------------------------------------------------------------
(* The locks *)

Powered == {"write", "loop", "read", "release"}

\* A task that moves between two places inside the lock, both of them with or
\* both without the power management lock, disturbs neither lock.
LEMMA LocksMove ==
    ASSUME LInv, NEW t \in Tasks, NEW p \in Places,
           pc[t] \in Locked <=> p \in Locked,
           pc[t] \in Powered <=> p \in Powered,
           pc' = [pc EXCEPT ![t] = p],
           UNCHANGED <<mutex, pm>>
    PROVE  LockDiscipline'
  <1>1. pc \in [Tasks -> Places]
    BY DEF LInv, TypeOK
  <1>2. \A u \in Tasks : /\ pc'[u] \in Locked <=> pc[u] \in Locked
                         /\ pc'[u] \in Powered <=> pc[u] \in Powered
    BY <1>1
  <1> QED
    BY <1>2 DEF LInv, LockDiscipline, Powered

\* Every step keeps the lock discipline.
LEMMA NextLockDiscipline == LInv /\ [Next]_vars => LockDiscipline'
  <1> SUFFICES ASSUME LInv, [Next]_vars PROVE LockDiscipline'
    OBVIOUS
  <1>0. pc \in [Tasks -> Places] /\ LockDiscipline
    BY DEF LInv, TypeOK
  <1>1. ASSUME NEW t \in Tasks, NEW c \in Commands, Call(t, c)
        PROVE  LockDiscipline'
    BY <1>1, LocksMove DEF Call, Places, Locked, Powered
  <1>2. ASSUME NEW t \in Tasks, Take(t) PROVE LockDiscipline'
    <2>1. /\ mutex' = t
          /\ \A u \in Tasks : pc[u] \notin Locked
          /\ \A u \in Tasks : pc'[u] = IF u = t THEN "acquire" ELSE pc[u]
      BY <1>0, <1>2, TaskAssumption DEF Take, LockDiscipline
    <2>2. \A u \in Tasks : pc'[u] \in Locked <=> mutex' = u
      BY <2>1 DEF Locked
    <2>3. /\ ~\E u \in Tasks : pc[u] \in {"write", "loop", "read", "release"}
          /\ ~\E u \in Tasks : pc'[u] \in {"write", "loop", "read", "release"}
      BY <2>1 DEF Locked
    <2> QED
      BY <1>0, <1>2, <2>2, <2>3 DEF Take, LockDiscipline
  <1>3. ASSUME NEW t \in Tasks, Acquire(t) PROVE LockDiscipline'
    <2>1. /\ mutex = t
          /\ \A u \in Tasks : u # t => pc[u] \notin Locked
          /\ \A u \in Tasks : pc'[u] = IF u = t THEN "write" ELSE pc[u]
      BY <1>0, <1>3 DEF Acquire, LockDiscipline, Locked
    <2>2. ~\E u \in Tasks : pc[u] \in {"write", "loop", "read", "release"}
      BY <1>3, <2>1 DEF Acquire, Locked
    <2>3. pm' = 1
      BY <1>0, <1>3, <2>2 DEF Acquire, LockDiscipline
    <2>4. \A u \in Tasks : pc'[u] \in Locked <=> mutex' = u
      BY <1>3, <2>1 DEF Acquire, Locked
    <2>5. pc'[t] = "write"
      BY <2>1
    <2> QED
      BY <2>3, <2>4, <2>5 DEF LockDiscipline
  <1>4. ASSUME NEW t \in Tasks, Write(t) PROVE LockDiscipline'
    BY <1>4, LocksMove DEF Write, Places, Locked, Powered
  <1>5. ASSUME NEW t \in Tasks, ReadStart(t) PROVE LockDiscipline'
    BY <1>5, LocksMove DEF ReadStart, Places, Locked, Powered
  <1>6. ASSUME NEW t \in Tasks, ReadDone(t) PROVE LockDiscipline'
    <2>1. PICK p \in {"release", "loop"} : pc' = [pc EXCEPT ![t] = p]
      BY <1>6, ReadDoneEffect
    <2>2. pc[t] = "read" /\ UNCHANGED <<mutex, pm>>
      BY <1>6 DEF ReadDone
    <2> QED
      BY <2>1, <2>2, LocksMove DEF Places, Locked, Powered
  <1>7. ASSUME NEW t \in Tasks, TimeUp(t) PROVE LockDiscipline'
    BY <1>7, LocksMove DEF TimeUp, Places, Locked, Powered
  <1>8. ASSUME NEW t \in Tasks, Release(t) PROVE LockDiscipline'
    <2>1. /\ mutex = t
          /\ \A u \in Tasks : u # t => pc[u] \notin Locked
          /\ \A u \in Tasks : pc'[u] = IF u = t THEN "give" ELSE pc[u]
      BY <1>0, <1>8 DEF Release, LockDiscipline, Locked
    <2>2. pm = 1
      BY <1>0, <1>8 DEF Release, LockDiscipline
    <2>3. ~\E u \in Tasks : pc'[u] \in {"write", "loop", "read", "release"}
      BY <2>1 DEF Locked
    <2>4. \A u \in Tasks : pc'[u] \in Locked <=> mutex' = u
      BY <1>8, <2>1 DEF Release, Locked
    <2> QED
      BY <1>8, <2>2, <2>3, <2>4 DEF Release, LockDiscipline
  <1>9. ASSUME NEW t \in Tasks, Give(t) PROVE LockDiscipline'
    <2>1. /\ \A u \in Tasks : u # t => pc[u] \notin Locked
          /\ \A u \in Tasks : pc'[u] = IF u = t THEN "idle" ELSE pc[u]
      BY <1>0, <1>9 DEF Give, LockDiscipline, Locked
    <2>2. \A u \in Tasks : pc'[u] \notin Locked /\ mutex' # u
      BY <1>9, <2>1, TaskAssumption DEF Give, Locked
    <2>3. ~\E u \in Tasks : pc[u] \in {"write", "loop", "read", "release"}
      BY <1>9, <2>1 DEF Give, Locked
    <2>4. pm' = 0
      BY <1>0, <1>9, <2>3 DEF Give, LockDiscipline
    <2> QED
      BY <2>2, <2>4 DEF LockDiscipline, Locked
  <1>10. ASSUME Modem \/ ModemUrc \/ FifoOverflow \/ BufferFull \/ EventFlush
                \/ UNCHANGED vars
         PROVE  LockDiscipline'
    <2>1. UNCHANGED <<mutex, pm, pc>>
      BY <1>10 DEF Modem, ModemExec, ModemSend, ModemUrc, FifoOverflow,
                   BufferFull, EventFlush, vars
    <2> QED
      BY <1>0, <2>1 DEF LockDiscipline
  <1> QED
    BY <1>1, <1>2, <1>3, <1>4, <1>5, <1>6, <1>7, <1>8, <1>9, <1>10
       DEF Next, Inside

-----------------------------------------------------------------------------
(* The caller's buffer *)

\* Every step leaves a task that goes on reading room for another line.
LEMMA NextReadRoom == LInv /\ [Next]_vars => ReadRoom'
  <1> SUFFICES ASSUME LInv, [Next]_vars PROVE ReadRoom'
    OBVIOUS
  <1>0. TypeOK /\ ReadRoom
    BY DEF LInv
  <1>1. ASSUME NEW t \in Tasks, Write(t) PROVE ReadRoom'
    <2>1. cmd[t] \in Commands /\ Cap[cmd[t]] \in Nat \ {0}
      BY <1>0, <1>1, CommandAssumption DEF Write, TypeOK
    <2>2. Len(buf'[t]) < Cap[cmd'[t]]
      BY <1>0, <1>1, <2>1, EmptySeq DEF Write, TypeOK
    <2>3. \A u \in Tasks : u # t => /\ pc'[u] = pc[u]
                                    /\ buf'[u] = buf[u]
                                    /\ cmd'[u] = cmd[u]
      BY <1>0, <1>1 DEF Write, TypeOK
    <2> QED
      BY <1>0, <2>2, <2>3 DEF ReadRoom
  <1>2. ASSUME NEW t \in Tasks, ReadDone(t) PROVE ReadRoom'
    <2>1. cmd' = cmd
      BY <1>2 DEF ReadDone
    <2>2. /\ \E got \in Seq(Token) : buf' = [buf EXCEPT ![t] = got]
          /\ \E p \in {"release", "loop"} : pc' = [pc EXCEPT ![t] = p]
      BY <1>2, ReadDoneEffect
    <2>3. \A u \in Tasks : u # t => pc'[u] = pc[u] /\ buf'[u] = buf[u]
      BY <1>0, <2>2 DEF TypeOK
    <2>4. pc'[t] \in {"loop", "read"} => Len(buf'[t]) < Cap[cmd[t]]
      BY <1>0, <1>2, ReadDoneEffect DEF TypeOK
    <2> QED
      BY <1>0, <2>1, <2>3, <2>4 DEF ReadRoom
  <1>3. ASSUME NEW t \in Tasks, ReadStart(t) PROVE ReadRoom'
    BY <1>0, <1>3 DEF ReadStart, ReadRoom, TypeOK, callVars
  <1>4. ASSUME NEW t \in Tasks, NEW c \in Commands, Call(t, c) PROVE ReadRoom'
    BY <1>0, <1>4 DEF Call, ReadRoom, TypeOK
  <1>5. ASSUME NEW t \in Tasks, Take(t) \/ Acquire(t) \/ TimeUp(t) \/ Release(t)
        PROVE  ReadRoom'
    BY <1>0, <1>5 DEF Take, Acquire, TimeUp, Release, ReadRoom, TypeOK, callVars
  <1>6. ASSUME NEW t \in Tasks, Give(t) PROVE ReadRoom'
    BY <1>0, <1>6 DEF Give, ReadRoom, TypeOK
  <1>7. ASSUME Modem \/ ModemUrc \/ FifoOverflow \/ BufferFull \/ EventFlush
               \/ UNCHANGED vars
        PROVE  ReadRoom'
    <2>1. UNCHANGED <<pc, buf, cmd>>
      BY <1>7 DEF Modem, ModemExec, ModemSend, ModemUrc, FifoOverflow,
                  BufferFull, EventFlush, vars, callVars
    <2> QED
      BY <1>0, <2>1 DEF ReadRoom
  <1> QED
    BY <1>1, <1>2, <1>3, <1>4, <1>5, <1>6, <1>7 DEF Next, Inside

-----------------------------------------------------------------------------
(* The theorems *)

LEMMA Invariance == Spec => []LInv
  <1>1. LInv /\ [Next]_vars => LInv'
    BY NextTypeOK, NextLockDiscipline, NextReadRoom DEF LInv
  <1> QED
    BY InitLInv, <1>1, PTL DEF Spec

\* Every variable of the channel keeps its type.
THEOREM TypeCorrect == Spec => []TypeOK
  <1>1. LInv => TypeOK
    BY DEF LInv
  <1> QED
    BY Invariance, <1>1, PTL

\* At most one task is inside modem_send_command_and_expect's critical
\* section, it owns uart_mutex, and the power management lock is held once
\* exactly while it writes and reads.
THEOREM LocksHeld == Spec => []LockDiscipline
  <1>1. LInv => LockDiscipline
    BY DEF LInv
  <1> QED
    BY Invariance, <1>1, PTL

\* The read loop never asks the driver for no byte or a negative number of
\* bytes: res_size - total - 1 does not wrap around.
THEOREM BufferNeverOverrun == Spec => []ReadRoom
  <1>1. LInv => ReadRoom
    BY DEF LInv
  <1> QED
    BY Invariance, <1>1, PTL

-----------------------------------------------------------------------------
(* The receive buffer under a reader *)

Undisturbed == Len(rx') >= Len(rx) /\ SubSeq(rx', 1, Len(rx)) = rx

\* A line that arrives leaves those already in the buffer where they are.
LEMMA ArrivalKeepsRest ==
    ASSUME NEW s \in Seq(Token), NEW tok \in Token
    PROVE  /\ Len(Append(s, tok)) >= Len(s)
           /\ SubSeq(Append(s, tok), 1, Len(s)) = s
  <1>1. /\ Len(s) \in Nat
        /\ Append(s, tok) \in Seq(Token)
        /\ Len(Append(s, tok)) = Len(s) + 1
        /\ \A i \in 1..Len(s) : Append(s, tok)[i] = s[i]
    BY LenProperties, AppendProperties
  <1>2. \A i \in 1..Len(s) : Append(s, tok)[i] \in Token
    BY <1>1, ElementOfSeq
  <1>3. /\ SubSeq(Append(s, tok), 1, Len(s)) \in Seq(Token)
        /\ Len(SubSeq(Append(s, tok), 1, Len(s))) = Len(s)
        /\ \A i \in 1..Len(s) : SubSeq(Append(s, tok), 1, Len(s))[i] = s[i]
    <2>1. /\ SubSeq(Append(s, tok), 1, Len(s)) \in Seq(Token)
          /\ Len(SubSeq(Append(s, tok), 1, Len(s)))
                = IF 1 <= Len(s) THEN Len(s) - 1 + 1 ELSE 0
          /\ \A i \in 1..(Len(s) - 1 + 1) :
                SubSeq(Append(s, tok), 1, Len(s))[i] = Append(s, tok)[1 + i - 1]
      BY <1>1, <1>2, SubSeqProperties
    <2> QED
      BY <1>1, <2>1
  <1> QED
    BY <1>1, <1>3, SeqEqual

\* Nothing is taken out of the receive buffer behind a reading task's back:
\* uart_flush needs uart_mutex, which the reader owns, and uart_event_task's
\* flush waits for the driver's rx_mux.
THEOREM ReaderUndisturbed == Spec => NoTheft
  <1>1. ASSUME LInv, [Next]_vars, NEW t \in Tasks, pc[t] = "read", pc'[t] = "read"
        PROVE  Undisturbed
    <2>1. rx \in Seq(Token) /\ Len(rx) \in Nat /\ pc \in [Tasks -> Places]
      BY <1>1, LenProperties DEF LInv, TypeOK
    <2>2. ASSUME UNCHANGED rx PROVE Undisturbed
      BY <2>1, <2>2, SubSeqFull DEF Undisturbed
    <2>3. \A u \in Tasks : pc[u] \in Locked => u = t
      BY <1>1 DEF LInv, LockDiscipline, Locked
    <2>4. ASSUME NEW u \in Tasks, Write(u) PROVE FALSE
      BY <1>1, <2>3, <2>4 DEF Write, Locked
    <2>5. ASSUME NEW u \in Tasks, ReadDone(u) PROVE FALSE
      <3>1. u = t
        BY <2>3, <2>5 DEF ReadDone, Locked
      <3>2. \E p \in {"release", "loop"} : pc' = [pc EXCEPT ![t] = p]
        BY <1>1, <2>5, <3>1, ReadDoneEffect
      <3> QED
        BY <1>1, <2>1, <3>2
    <2>6. CASE ModemSend
      <3>1. Head(out) \in Token
        BY <1>1, <2>6, HeadTailProperties DEF ModemSend, LInv, TypeOK
      <3> QED
        BY <2>1, <2>6, <3>1, ArrivalKeepsRest DEF ModemSend, Undisturbed
    <2>7. CASE ModemUrc
      <3>1. [line |-> "URC", own |-> FALSE] \in Token
        BY LineAssumption DEF Token
      <3> QED
        BY <2>1, <2>7, <3>1, ArrivalKeepsRest DEF ModemUrc, Undisturbed
    <2>8. CASE EventFlush
      BY <1>1, <2>8 DEF EventFlush
    <2>9. ASSUME NEW u \in Tasks,
                 \/ \E c \in Commands : Call(u, c)
                 \/ Take(u) \/ Acquire(u) \/ ReadStart(u)
                 \/ TimeUp(u) \/ Release(u) \/ Give(u)
          PROVE  Undisturbed
      BY <2>2, <2>9 DEF Call, Take, Acquire, ReadStart, TimeUp, Release, Give
    <2>10. CASE ModemExec \/ FifoOverflow \/ BufferFull \/ UNCHANGED vars
      BY <2>2, <2>10 DEF ModemExec, FifoOverflow, BufferFull, vars
    <2> QED
      BY <1>1, <2>4, <2>5, <2>6, <2>7, <2>8, <2>9, <2>10 DEF Next, Inside, Modem
  <1>2. LInv /\ [Next]_vars => [\A t \in Tasks : pc[t] = "read" /\ pc'[t] = "read" =>
                 Len(rx') >= Len(rx) /\ SubSeq(rx', 1, Len(rx)) = rx]_vars
    BY <1>1 DEF Undisturbed
  <1> QED
    BY Invariance, <1>2, PTL DEF Spec, NoTheft

=============================================================================
