------------------------------ MODULE ModemLink ------------------------------
(****************************************************************************)
(* The AT command channel: at/modem.c as the tasks of the program run it,   *)
(* the UART driver's receive buffer between the ESP32 and the modem, and    *)
(* uart_event_task, which empties that buffer without taking uart_mutex.    *)
(*                                                                          *)
(* A line the modem sends is a record: what it is (OK, ERROR, the marker a  *)
(* caller waits for, an unsolicited line) and whether it belongs to the     *)
(* command that was written last (own).  Writing a command makes everything *)
(* still on its way the answer to an earlier one.                           *)
(*                                                                          *)
(* Time is the number of one-second reads a call has left.  With InTime the *)
(* modem completes every answer before the time-out of the call; without    *)
(* it an answer may come later, or while another call is waiting.           *)
(****************************************************************************)
EXTENDS Naturals, Sequences, FiniteSets

CONSTANTS
    Tasks,      \* the tasks that call modem_send_command_and_expect
    NoTask,     \* no task holds the mutex
    Lines,      \* the kinds of line the modem sends
    Commands,   \* the commands the tasks use
    Expect,     \* Expect[c]: the expect argument the callers of c pass
    Cap,        \* Cap[c]: lines that fill the caller's buffer (res_size - 1)
    Reads,      \* Reads[c]: one-second reads that fit in timeout_ms, rounded up
    Answers,    \* Answers[c]: the answers the modem may give to c
    InTime,     \* the modem answers before the caller's time is up
    Overruns,   \* the UART may overrun (UART_FIFO_OVF, UART_BUFFER_FULL)
    RxCap,      \* bound: lines the receive ring buffer holds; no smaller than
                \* any Cap, because a task inside uart_read_bytes drains it
    MaxUrc,     \* bound: unsolicited lines in the receive path at a time
    MaxLag      \* bound: commands the modem may have yet to read

Codes == {"OK", "ERR", "UNEXPECTED", "TIMEOUT", "OVERFLOW"}

NoCmd == "none"

\* A call returns no later than it fills its buffer, so a Cap of 0 would never
\* read; every caller passes at least 10 bytes and waits at least 600 ms.
ASSUME TaskAssumption == NoTask \notin Tasks
ASSUME LineAssumption == {"OK", "ERROR", "URC"} \subseteq Lines
ASSUME CommandAssumption ==
    /\ NoCmd \notin Commands
    /\ Expect \in [Commands -> Lines]
    /\ Cap \in [Commands -> Nat \ {0}]
    /\ Reads \in [Commands -> Nat \ {0}]
    /\ Answers \in [Commands -> SUBSET Seq(Lines)]
ASSUME BoundAssumption ==
    /\ InTime \in BOOLEAN
    /\ Overruns \in BOOLEAN
    /\ RxCap \in Nat
    /\ MaxUrc \in Nat
    /\ MaxLag \in Nat

VARIABLES
    mutex,      \* owner of uart_mutex, or NoTask
    pm,         \* how often s_uart_pm_lock is held
    pc,         \* where each task is in modem_send_command_and_expect
    cmd,        \* the command of its call
    buf,        \* res: the lines read so far
    left,       \* one-second reads left before timeout_ms
    ret,        \* the code it is going to return
    rx,         \* the driver's receive ring buffer
    overrun,    \* an overrun event is in uart_queue
    inbox,      \* modem: commands written and not executed yet
    out,        \* modem: lines of the current answer still to be sent
    reply       \* modem: <<r>> once it answered the last command with r

callVars == <<cmd, buf, left, ret>>
modemVars == <<inbox, out, reply>>
vars == <<mutex, pm, pc, callVars, rx, overrun, modemVars>>

Token == [line : Lines, own : BOOLEAN]
Request == [cmd : Commands, own : BOOLEAN]
Places == {"idle", "take", "acquire", "write", "loop", "read", "release", "give"}
Locked == {"acquire", "write", "loop", "read", "release", "give"}

Init ==
    /\ mutex = NoTask
    /\ pm = 0
    /\ pc = [t \in Tasks |-> "idle"]
    /\ cmd = [t \in Tasks |-> NoCmd]
    /\ buf = [t \in Tasks |-> <<>>]
    /\ left = [t \in Tasks |-> 0]
    /\ ret = [t \in Tasks |-> "none"]
    /\ rx = <<>>
    /\ overrun = FALSE
    /\ inbox = <<>>
    /\ out = <<>>
    /\ reply = <<>>

-----------------------------------------------------------------------------
(* modem_send_command_and_expect *)

\* A task calls with command c (any of the callers under at/).
Call(t, c) ==
    /\ pc[t] = "idle"
    /\ Len(inbox) < MaxLag
    /\ pc' = [pc EXCEPT ![t] = "take"]
    /\ cmd' = [cmd EXCEPT ![t] = c]
    /\ UNCHANGED <<mutex, pm, buf, left, ret, rx, overrun, modemVars>>

\* Mutant: a task goes on without waiting for uart_mutex.
TakeAnyway(t) ==
    /\ pc[t] = "take"
    /\ mutex' = t
    /\ pc' = [pc EXCEPT ![t] = "acquire"]
    /\ UNCHANGED <<pm, callVars, rx, overrun, modemVars>>

Take(t) ==
    /\ pc[t] = "take"
    /\ mutex = NoTask
    /\ mutex' = t
    /\ pc' = [pc EXCEPT ![t] = "acquire"]
    /\ UNCHANGED <<pm, callVars, rx, overrun, modemVars>>

\* Mutant: the power management lock is released but never acquired.
AcquireForgotten(t) ==
    /\ pc[t] = "acquire"
    /\ pc' = [pc EXCEPT ![t] = "write"]
    /\ UNCHANGED <<mutex, pm, callVars, rx, overrun, modemVars>>

Acquire(t) ==
    /\ pc[t] = "acquire"
    /\ pm' = pm + 1
    /\ pc' = [pc EXCEPT ![t] = "write"]
    /\ UNCHANGED <<mutex, callVars, rx, overrun, modemVars>>

Stale(s) == [i \in DOMAIN s |-> [s[i] EXCEPT !.own = FALSE]]

\* Mutant: the unread bytes stay in the receive buffer.
FlushNothing(ring) == ring

Flush(ring) == <<>>

\* uart_flush, then the command line, then the set-up of the read loop.
Write(t) ==
    /\ pc[t] = "write"
    /\ rx' = Flush(rx)
    /\ out' = Stale(out)
    /\ inbox' = Append(Stale(inbox), [cmd |-> cmd[t], own |-> TRUE])
    /\ reply' = <<>>
    /\ buf' = [buf EXCEPT ![t] = <<>>]
    /\ left' = [left EXCEPT ![t] = Reads[cmd[t]]]
    /\ pc' = [pc EXCEPT ![t] = "loop"]
    /\ UNCHANGED <<mutex, pm, cmd, ret, overrun>>

\* The task enters uart_read_bytes, which keeps the driver's rx_mux until it
\* returns: to_read is what is left of the caller's buffer.
ReadStart(t) ==
    /\ pc[t] = "loop"
    /\ left[t] > 0
    /\ pc' = [pc EXCEPT ![t] = "read"]
    /\ UNCHANGED <<mutex, pm, callVars, rx, overrun, modemVars>>

ToRead(t) == Cap[cmd[t]] - Len(buf[t])

Has(s, line) == \E i \in DOMAIN s : s[i].line = line

\* Mutant: OK alone ends the exchange, whatever the caller expects.
ClassifyOkAlone(c, s) ==
    IF Len(s) >= Cap[c] THEN "OVERFLOW"
    ELSE IF Has(s, "ERROR") THEN "ERR"
    ELSE IF Has(s, "OK") THEN "OK"
    ELSE "none"

\* Mutant: the expected line or OK ends the exchange.
ClassifyEither(c, s) ==
    IF Len(s) >= Cap[c] THEN "OVERFLOW"
    ELSE IF Has(s, "ERROR") THEN "ERR"
    ELSE IF Has(s, Expect[c]) \/ Has(s, "OK") THEN "OK"
    ELSE "none"

\* Mutant: the overflow test is off by one.
ClassifyOffByOne(c, s) ==
    IF Len(s) > Cap[c] THEN "OVERFLOW"
    ELSE IF Has(s, "ERROR") THEN "ERR"
    ELSE IF Has(s, Expect[c]) /\ Has(s, "OK") THEN "OK"
    ELSE "none"

\* What the lines s decide for a call of c, "none" to read on.
Classify(c, s) ==
    IF Len(s) >= Cap[c] THEN "OVERFLOW"
    ELSE IF Has(s, "ERROR") THEN "ERR"
    ELSE IF Has(s, Expect[c]) /\ Has(s, "OK") THEN "OK"
    ELSE "none"

ModemQuiet == inbox = <<>> /\ out = <<>>

\* uart_read_bytes returns when the buffer is full or after a second without
\* a byte.  A read that finds the loop's time up, the last one, sees the end
\* of the answer if the modem answers in time.
ReadDone(t) ==
    LET k    == IF Len(rx) < ToRead(t) THEN Len(rx) ELSE ToRead(t)
        got  == buf[t] \o SubSeq(rx, 1, k)
        code == IF k > 0 THEN Classify(cmd[t], got) ELSE "none"
    IN  /\ pc[t] = "read"
        /\ buf' = [buf EXCEPT ![t] = got]
        /\ rx' = SubSeq(rx, k + 1, Len(rx))
        /\ IF code # "none"
           THEN /\ ret' = [ret EXCEPT ![t] = code]
                /\ pc' = [pc EXCEPT ![t] = "release"]
                /\ left' = [left EXCEPT ![t] = 0]
           ELSE /\ \E n \in 0..(left[t] - 1) :
                      /\ InTime /\ n = 0 => ModemQuiet
                      /\ left' = [left EXCEPT ![t] = n]
                /\ pc' = [pc EXCEPT ![t] = "loop"]
                /\ UNCHANGED ret
        /\ UNCHANGED <<mutex, pm, cmd, overrun, modemVars>>

\* Mutant: the final test for the expected line is dropped.
TimeUpAlways(t) ==
    /\ pc[t] = "loop"
    /\ left[t] = 0
    /\ ret' = [ret EXCEPT ![t] = "TIMEOUT"]
    /\ pc' = [pc EXCEPT ![t] = "release"]
    /\ UNCHANGED <<mutex, pm, cmd, buf, left, rx, overrun, modemVars>>

TimeUp(t) ==
    /\ pc[t] = "loop"
    /\ left[t] = 0
    /\ ret' = [ret EXCEPT ![t] = IF Has(buf[t], Expect[cmd[t]])
                                 THEN "TIMEOUT" ELSE "UNEXPECTED"]
    /\ pc' = [pc EXCEPT ![t] = "release"]
    /\ UNCHANGED <<mutex, pm, cmd, buf, left, rx, overrun, modemVars>>

Release(t) ==
    /\ pc[t] = "release"
    /\ pm' = pm - 1
    /\ pc' = [pc EXCEPT ![t] = "give"]
    /\ UNCHANGED <<mutex, callVars, rx, overrun, modemVars>>

\* Mutant: an early return on overflow that leaves the mutex taken.
GiveUnlessOverflow(t) ==
    /\ pc[t] = "give"
    /\ mutex' = IF ret[t] = "OVERFLOW" THEN mutex ELSE NoTask
    /\ pc' = [pc EXCEPT ![t] = "idle"]
    /\ cmd' = [cmd EXCEPT ![t] = NoCmd]
    /\ buf' = [buf EXCEPT ![t] = <<>>]
    /\ ret' = [ret EXCEPT ![t] = "none"]
    /\ UNCHANGED <<pm, left, rx, overrun, modemVars>>

\* xSemaphoreGive and the return: the result is the caller's from here on.
Give(t) ==
    /\ pc[t] = "give"
    /\ mutex' = NoTask
    /\ pc' = [pc EXCEPT ![t] = "idle"]
    /\ cmd' = [cmd EXCEPT ![t] = NoCmd]
    /\ buf' = [buf EXCEPT ![t] = <<>>]
    /\ ret' = [ret EXCEPT ![t] = "none"]
    /\ UNCHANGED <<pm, left, rx, overrun, modemVars>>

-----------------------------------------------------------------------------
(* The modem and the UART *)

\* The modem takes its next command and decides what to answer.
ModemExec ==
    /\ out = <<>>
    /\ inbox # <<>>
    /\ \E r \in Answers[Head(inbox).cmd] :
         /\ out' = [i \in DOMAIN r |-> [line |-> r[i], own |-> Head(inbox).own]]
         /\ reply' = IF Head(inbox).own THEN <<r>> ELSE reply
    /\ inbox' = Tail(inbox)
    /\ UNCHANGED <<mutex, pm, pc, callVars, rx, overrun>>

\* The next line of the answer reaches the receive buffer.
ModemSend ==
    /\ out # <<>>
    /\ Len(rx) < RxCap
    /\ rx' = Append(rx, Head(out))
    /\ out' = Tail(out)
    /\ UNCHANGED <<mutex, pm, pc, callVars, overrun, inbox, reply>>

UrcCount(s) == Cardinality({i \in DOMAIN s : s[i].line = "URC"})

\* An unsolicited line (+CMTI, RDY, NETWORK ...), between two lines.
ModemUrc ==
    /\ Len(rx) < RxCap
    /\ UrcCount(rx) < MaxUrc
    /\ \A t \in Tasks : UrcCount(buf[t]) = 0
    /\ rx' = Append(rx, [line |-> "URC", own |-> FALSE])
    /\ UNCHANGED <<mutex, pm, pc, callVars, overrun, modemVars>>

\* The hardware FIFO overflows: its bytes are gone and UART_FIFO_OVF is queued.
FifoOverflow ==
    /\ Overruns
    /\ out # <<>>
    /\ out' = Tail(out)
    /\ overrun' = TRUE
    /\ UNCHANGED <<mutex, pm, pc, callVars, rx, inbox, reply>>

\* The ring buffer is full: UART_BUFFER_FULL is queued, nothing is lost yet.
BufferFull ==
    /\ Overruns
    /\ out # <<>>
    /\ Len(rx) = RxCap
    /\ overrun' = TRUE
    /\ UNCHANGED <<mutex, pm, pc, callVars, rx, modemVars>>

\* uart_event_task answers either event with uart_flush_input and xQueueReset.
\* The flush waits for rx_mux, which a task inside uart_read_bytes keeps;
\* between two reads of a call it takes what has come of the answer.
EventFlush ==
    /\ overrun
    /\ \A t \in Tasks : pc[t] # "read"
    /\ rx' = Flush(rx)
    /\ overrun' = FALSE
    /\ UNCHANGED <<mutex, pm, pc, callVars, modemVars>>

-----------------------------------------------------------------------------
Inside(t) ==
    \/ Acquire(t) \/ Write(t) \/ ReadStart(t) \/ ReadDone(t)
    \/ TimeUp(t) \/ Release(t) \/ Give(t)

Modem == ModemExec \/ ModemSend

Next ==
    \/ \E t \in Tasks : \/ \E c \in Commands : Call(t, c)
                        \/ Take(t)
                        \/ Inside(t)
    \/ Modem
    \/ ModemUrc
    \/ FifoOverflow
    \/ BufferFull
    \/ EventFlush

Spec == Init /\ [][Next]_vars

\* A task that holds the mutex is scheduled, and the modem is never stuck for
\* ever.  Nothing is assumed of Take: the mutex is not a fair queue.
FairSpec ==
    /\ Spec
    /\ \A t \in Tasks : WF_vars(Inside(t))
    /\ WF_vars(Modem)

-----------------------------------------------------------------------------
(* Properties *)

TypeOK ==
    /\ mutex \in Tasks \cup {NoTask}
    /\ pm \in Nat
    /\ pc \in [Tasks -> Places]
    /\ cmd \in [Tasks -> Commands \cup {NoCmd}]
    /\ \A t \in Tasks : pc[t] # "idle" => cmd[t] \in Commands
    /\ buf \in [Tasks -> Seq(Token)]
    /\ left \in [Tasks -> Nat]
    /\ ret \in [Tasks -> Codes \cup {"none"}]
    /\ rx \in Seq(Token)
    /\ overrun \in BOOLEAN
    /\ inbox \in Seq(Request)
    /\ out \in Seq(Token)
    /\ reply \in Seq(Seq(Lines))

\* One exchange at a time: the owner of uart_mutex is the only task between
\* the take and the give of modem_send_command_and_expect, and the power
\* management lock is held, once, exactly while it writes or reads.
LockDiscipline ==
    /\ \A t \in Tasks : pc[t] \in Locked <=> mutex = t
    /\ pm = IF \E t \in Tasks : pc[t] \in {"write", "loop", "read", "release"}
            THEN 1 ELSE 0

\* The caller's buffer has room for another line whenever the loop reads, so
\* to_read = res_size - total - 1 is positive and never wraps around.
ReadRoom ==
    \A t \in Tasks : pc[t] \in {"loop", "read"} => Len(buf[t]) < Cap[cmd[t]]

Foreign(tok) == ~tok.own /\ tok.line # "URC"
AnyForeign(s) == \E i \in DOMAIN s : Foreign(s[i])

\* Answers as the callers expect them: they fit the caller's buffer together
\* with what may come unasked, and no line before the last ends the call.
AnswersFit ==
    \A c \in Commands :
      /\ Expect[c] # "URC"
      /\ MaxUrc < Cap[c]
      /\ \A r \in Answers[c] :
           /\ Len(r) + MaxUrc <= Cap[c]
           /\ \A i \in DOMAIN r : r[i] # "URC"
           /\ \A i \in DOMAIN r : r[i] = "ERROR" => i = Len(r)
           /\ \A i, j \in DOMAIN r : r[i] = Expect[c] /\ r[j] = "OK" => Len(r) \in {i, j}

\* No call of modem_send_command_and_expect ever reads a line the modem sent
\* in answer to an earlier command.
OwnAnswer == \A t \in Tasks : ~AnyForeign(buf[t])

\* When no task holds uart_mutex the modem owes nothing and the receive
\* buffer holds no line of an answer: the next exchange starts clean.
QuietHandover ==
    mutex = NoTask => ModemQuiet /\ \A i \in DOMAIN rx : rx[i].line = "URC"

\* What a task that holds the mutex has read and is still going to be sent.
Path(t) == buf[t] \o rx \o out

\* A line of an earlier answer is on its way to task t, or will be.
Behind(t) == AnyForeign(Path(t)) \/ \E i \in DOMAIN inbox : ~inbox[i].own

\* The lines of earlier answers all come before the first line of a task's
\* own: once it has read a line of its own answer it reads no foreign one,
\* and the modem has nothing left to execute.
AnswerOrder ==
    \A t \in Tasks : pc[t] \in {"loop", "read"} =>
        LET path == Path(t) IN
        \A i \in DOMAIN path : path[i].own =>
            /\ \A j \in DOMAIN path : Foreign(path[j]) => j < i
            /\ inbox = <<>>

\* An exchange begun while the modem owes nothing sees no line of an earlier
\* answer from its first read to its last, whatever earlier time-outs and
\* overflows left unread: the program falls back into step by itself.
Resync ==
    [][\A t \in Tasks :
         /\ pc[t] = "write" /\ pc'[t] # "write" /\ ModemQuiet => ~Behind(t)'
         /\ pc[t] \in {"loop", "read"} /\ Behind(t)' => Behind(t)]_vars

\* While a task is inside uart_read_bytes nothing is taken out of the receive
\* buffer behind its back: neither another exchange's uart_flush nor the
\* flush of uart_event_task.
NoTheft ==
    [][\A t \in Tasks : pc[t] = "read" /\ pc'[t] = "read" =>
         Len(rx') >= Len(rx) /\ SubSeq(rx', 1, Len(rx)) = rx]_vars

\* Every exchange ends: a modem that says nothing, too late, too much or
\* something unexpected never keeps uart_mutex from the other tasks.
LockReleased == \A t \in Tasks : mutex = t ~> mutex # t

-----------------------------------------------------------------------------
(* The channel the callers see: an exchange begins with the write. *)

Exchange == {t \in Tasks : pc[t] \in {"loop", "read", "release", "give"}}
Current == CHOOSE t \in Exchange : TRUE

Holder == IF Exchange = {} THEN NoTask ELSE Current
Asked == IF Exchange = {} THEN NoCmd ELSE cmd[Current]
Given == IF Exchange = {} THEN <<>> ELSE reply
Result == IF Exchange = {} THEN "none" ELSE ret[Current]

Channel == INSTANCE AtChannel WITH
    Lossy   <- Overruns,
    Noise   <- MaxUrc,
    holder  <- Holder,
    request <- Asked,
    answer  <- Given,
    code    <- Result

\* modem.c over this UART and modem implements the abstract channel, when the
\* modem answers in time.
ImplementsChannel == Channel!Spec

=============================================================================
