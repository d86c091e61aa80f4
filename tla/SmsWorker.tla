------------------------------ MODULE SmsWorker ------------------------------
(****************************************************************************)
(* The SMS path: the modem's message storage and ring line, the interrupt   *)
(* handler that notifies the worker, the steps of app_main that start the   *)
(* two, and sms_worker_task with the calls it makes (sms_list_messages,     *)
(* sms_process_cmti, sms_send_message).                                     *)
(*                                                                          *)
(* An exchange with the modem is one step: ModemLink shows that exchanges   *)
(* do not overlap.  sms_send_message is two exchanges, and uart_mutex is    *)
(* free between them, so another task's command may come in between.  The   *)
(* program may restart at any moment; the modem's storage outlives that.    *)
(****************************************************************************)
EXTENDS Naturals, Sequences, FiniteSets

CONSTANTS
    Msgs,       \* the messages that may arrive, each at most once
    NoMsg,      \* an empty slot, and no message in hand
    Slots,      \* the indexes of the modem's message storage
    Valid,      \* messages that hold the password and a known command
    Long,       \* messages whose text overflows the 128 bytes CMGRD is read to
    Waiting,    \* messages already stored when the program starts
    BatchSize,  \* entries of the messages array (3 in the code)
    ListCap,    \* stored messages whose listing fits in 4096 bytes
    Stuck,      \* slots whose message AT+CMGRD never takes out
    Failing,    \* exchanges may fail, or do their work and lose the answer
    Restarts,   \* the program may restart
    Others,     \* other tasks use the modem too
    MaxTyped    \* bound: lines of other tasks that end up in one SMS text

ASSUME MsgAssumption ==
    /\ NoMsg \notin Msgs
    /\ Valid \subseteq Msgs
    /\ Long \subseteq Msgs
    /\ Waiting \subseteq Msgs
ASSUME StorageAssumption ==
    /\ IsFiniteSet(Slots)
    /\ Slots \subseteq Nat
    /\ Stuck \subseteq Slots
    /\ Cardinality(Waiting) <= Cardinality(Slots)
    /\ BatchSize \in Nat \ {0}
    /\ ListCap \in Nat
    /\ Failing \in BOOLEAN
    /\ Restarts \in BOOLEAN
    /\ Others \in BOOLEAN
    /\ MaxTyped \in Nat

VARIABLES
    store,      \* modem: the message in each slot
    fate,       \* what has become of each message
    boot,       \* the next step of app_main, "up" when it has done them all
    handle,     \* the interrupt handler's s_sms_task_handle is the worker
    ri,         \* modem: the ring line is low, or was and the interrupt is due
    notified,   \* the worker's task notification is pending
    pc,         \* where sms_worker_task is
    batch,      \* the indexes in its messages array, 0 where cleared
    at,         \* i, the entry of the array it looks at
    hand,       \* the message it is answering
    typing,     \* modem: reading the text of an SMS (after the '>' prompt)
    typed,      \* modem: the lines it has taken as that text
    sent,       \* the SMS that went out: whom for, and their lines
    missed      \* storage was, or may have been, left unread: messages stored
                \* before the interrupt was set up, or a listing that failed

bootVars == <<boot, handle>>
working == <<pc, batch, at, hand>>
modemVars == <<typing, typed, sent>>
vars == <<store, fate, bootVars, ri, notified, working, modemVars, missed>>

Fates == {"unsent", "stored", "taken", "answered", "unanswered", "ignored", "lost"}
Final == {"answered", "unanswered", "ignored", "lost"}

Empty == [i \in 1..BatchSize |-> 0]
Occupied == {s \in Slots : store[s] # NoMsg}

\* The program starts waiting, with no interrupt for what is stored already.
Init ==
    /\ \E f \in [Waiting -> Slots] :
         /\ \A m, n \in Waiting : f[m] = f[n] => m = n
         /\ store = [s \in Slots |-> IF \E m \in Waiting : f[m] = s
                                     THEN CHOOSE m \in Waiting : f[m] = s
                                     ELSE NoMsg]
    /\ fate = [m \in Msgs |-> IF m \in Waiting THEN "stored" ELSE "unsent"]
    /\ boot = "create"
    /\ handle = FALSE
    /\ ri = FALSE
    /\ notified = FALSE
    /\ pc = "wait"
    /\ batch = Empty
    /\ at = 1
    /\ hand = NoMsg
    /\ typing = FALSE
    /\ typed = <<>>
    /\ sent = {}
    /\ missed = (Waiting # {})

-----------------------------------------------------------------------------
(* app_main starts the worker and the interrupt *)

\* xTaskCreate; the worker waits, of the higher priority.
CreateWorker ==
    /\ boot = "create"
    /\ boot' = "handle"
    /\ UNCHANGED <<handle, store, fate, ri, notified, working, modemVars, missed>>

\* Mutant: app_main hands over its handle before xTaskCreate has set it.
SetHandleEarly ==
    /\ boot = "handle"
    /\ boot' = "arm"
    /\ UNCHANGED <<handle, store, fate, ri, notified, working, modemVars, missed>>

\* modem_board_set_s_sms_task_handle
SetHandle ==
    /\ boot = "handle"
    /\ boot' = "arm"
    /\ handle' = TRUE
    /\ UNCHANGED <<store, fate, ri, notified, working, modemVars, missed>>

\* modem_board_setup_ri_wakeup
Arm ==
    /\ boot = "arm"
    /\ boot' = "up"
    /\ UNCHANGED <<handle, store, fate, ri, notified, working, modemVars, missed>>

\* The program starts anew and resets the modem, which keeps its storage.  A
\* message in hand is in no storage any more.
Restart ==
    /\ Restarts
    /\ boot' = "create"
    /\ handle' = FALSE
    /\ ri' = FALSE
    /\ notified' = FALSE
    /\ pc' = "wait"
    /\ batch' = Empty
    /\ at' = 1
    /\ hand' = NoMsg
    /\ fate' = [m \in Msgs |-> IF m = hand THEN "lost" ELSE fate[m]]
    /\ typing' = FALSE
    /\ typed' = <<>>
    /\ missed' = (Occupied # {})
    /\ UNCHANGED <<store, sent>>

-----------------------------------------------------------------------------
(* The modem and the interrupt *)

\* A message arrives: it is stored and the ring line goes low, which nothing
\* notices before the interrupt is set up.
Arrive(m, s) ==
    /\ fate[m] = "unsent"
    /\ store[s] = NoMsg
    /\ store' = [store EXCEPT ![s] = m]
    /\ fate' = [fate EXCEPT ![m] = "stored"]
    /\ ri' = (ri \/ boot = "up")
    /\ missed' = (missed \/ boot # "up")
    /\ UNCHANGED <<bootVars, notified, working, modemVars>>

\* gpio_isr_handler, on the falling edge or, as gpio_wakeup_enable has it,
\* again and again as long as the line is low.
Isr ==
    /\ ri
    /\ ri' \in BOOLEAN
    /\ notified' = TRUE
    /\ UNCHANGED <<bootVars, store, fate, working, modemVars, missed>>

\* Another task's command reaches the modem while it reads an SMS text, and
\* becomes part of that text.  (In command mode it is answered as usual and
\* leaves nothing behind here.)
OtherCommand ==
    /\ Others
    /\ typing
    /\ Len(typed) < MaxTyped
    /\ typed' = Append(typed, "command")
    /\ UNCHANGED <<bootVars, store, fate, ri, notified, pc, batch, at, hand, typing, sent, missed>>

-----------------------------------------------------------------------------
(* sms_worker_task *)

\* xTaskNotifyWait returns, clearing the notification; messages starts as {0}.
Wake ==
    /\ pc = "wait"
    /\ notified
    /\ notified' = FALSE
    /\ batch' = Empty
    /\ pc' = "list"
    /\ UNCHANGED <<bootVars, store, fate, ri, at, hand, modemVars, missed>>

\* uint8_t index = atoi(token)
Index(s) == s % 256

\* The slot of the i-th header of the listing, which is in the order of the
\* indexes: that with i - 1 stored messages before it.
Listed(i) == {s \in Occupied : Cardinality({r \in Occupied : r < s}) = i - 1}

Entry(i) == IF Listed(i) = {} THEN batch[i] ELSE Index(CHOOSE s \in Listed(i) : TRUE)

\* Mutant: the headers are written past the end of the array.
HeadersUnbounded == [i \in 1..BatchSize \cup 1..Cardinality(Occupied) |-> Entry(i)]

\* The first BatchSize headers of the listing overwrite the array's first
\* entries and leave the others as they are.
Headers == [i \in 1..BatchSize |-> Entry(i)]

\* sms_list_messages succeeds: there is something stored and it fits.  No stored
\* text holds "ERROR", which would end the exchange, or "+CMGL:", which would be
\* one more header.
List ==
    /\ pc = "list"
    /\ Occupied # {}
    /\ Cardinality(Occupied) <= ListCap
    /\ batch' = Headers
    /\ at' = 1
    /\ pc' = "scan"
    /\ UNCHANGED <<bootVars, store, fate, ri, notified, hand, modemVars, missed>>

\* It returns anything but MODEM_OK: nothing is stored (no +CMGL line), the
\* listing overflows its buffer, or the exchange fails.  The loop ends; what
\* the array holds is cleared at the next wake-up.
ListEnds ==
    /\ pc = "list"
    /\ \/ Occupied = {} /\ missed' = FALSE
       \/ Cardinality(Occupied) > ListCap /\ missed' = TRUE
       \/ Failing /\ missed' = TRUE
    /\ pc' = "pause"
    /\ UNCHANGED <<bootVars, store, fate, ri, notified, batch, at, hand, modemVars>>

\* Mutant: the notification is cleared after the round instead of before it.
PauseClearing ==
    /\ pc = "pause"
    /\ pc' = "wait"
    /\ notified' = FALSE
    /\ UNCHANGED <<bootVars, store, fate, ri, batch, at, hand, modemVars, missed>>

\* vTaskDelay, then back to xTaskNotifyWait.
Pause ==
    /\ pc = "pause"
    /\ pc' = "wait"
    /\ UNCHANGED <<bootVars, store, fate, ri, notified, batch, at, hand, modemVars, missed>>

\* The end of the for loop: list again.
ScanEnds ==
    /\ pc = "scan"
    /\ at > BatchSize
    /\ pc' = "list"
    /\ UNCHANGED <<bootVars, store, fate, ri, notified, batch, at, hand, modemVars, missed>>

SkipEntry ==
    /\ pc = "scan"
    /\ at <= BatchSize
    /\ batch[at] = 0
    /\ at' = at + 1
    /\ UNCHANGED <<bootVars, store, fate, ri, notified, pc, batch, hand, modemVars, missed>>

\* Mutant: the entry is not cleared after use.
NextEntryKeeping ==
    /\ batch' = batch
    /\ at' = at + 1
    /\ pc' = "scan"

\* memset(&messages[i]), i++
NextEntry ==
    /\ batch' = [batch EXCEPT ![at] = 0]
    /\ at' = at + 1
    /\ pc' = "scan"

\* Mutant: AT+CMGR, which reads the message and leaves it stored.
ReadOnly(s) == store

\* The message AT+CMGRD takes out of the storage.
Deleted(s) == [store EXCEPT ![s] = NoMsg]

\* sms_read_and_delete_message returns the message at the listed index.
Take(s) ==
    /\ pc = "scan"
    /\ at <= BatchSize
    /\ batch[at] > 0
    /\ batch[at] = s
    /\ s \notin Stuck
    /\ store[s] # NoMsg
    /\ store[s] \notin Long
    /\ store' = Deleted(s)
    /\ fate' = [fate EXCEPT ![store[s]] = "taken"]
    /\ hand' = store[s]
    /\ pc' = "command"
    /\ UNCHANGED <<bootVars, ri, notified, batch, at, modemVars, missed>>

\* The modem has deleted the message but its answer does not fit the buffer
\* or never arrives: sms_process_cmti returns -1, which the worker ignores.
TakeLost(s) ==
    /\ pc = "scan"
    /\ at <= BatchSize
    /\ batch[at] > 0
    /\ batch[at] = s
    /\ s \notin Stuck
    /\ store[s] # NoMsg
    /\ store[s] \in Long \/ Failing
    /\ store' = Deleted(s)
    /\ fate' = [fate EXCEPT ![store[s]] = "lost"]
    /\ NextEntry
    /\ UNCHANGED <<bootVars, ri, notified, hand, modemVars, missed>>

\* Mutant: a message that cannot be read ends the scan of the listing.
TakeRefusedBreaking ==
    /\ pc = "scan"
    /\ at <= BatchSize
    /\ batch[at] > 0
    /\ batch[at] \notin Occupied \/ batch[at] \in Stuck \/ Failing
    /\ pc' = "list"
    /\ UNCHANGED <<bootVars, store, fate, ri, notified, batch, at, hand, modemVars, missed>>

\* The modem refuses: the slot is empty or unknown, its message cannot be taken
\* out, or the exchange fails.
TakeRefused ==
    /\ pc = "scan"
    /\ at <= BatchSize
    /\ batch[at] > 0
    /\ batch[at] \notin Occupied \/ batch[at] \in Stuck \/ Failing
    /\ NextEntry
    /\ UNCHANGED <<bootVars, store, fate, ri, notified, hand, modemVars, missed>>

\* Mutant: the password is not asked for.
AcceptAny ==
    /\ pc = "command"
    /\ pc' = "prompt"
    /\ UNCHANGED <<bootVars, store, fate, ri, notified, batch, at, hand, modemVars, missed>>

\* sms_utils_process_sms_command makes the answer (SmsCommand has it in detail)
Accept ==
    /\ pc = "command"
    /\ hand \in Valid
    /\ pc' = "prompt"
    /\ UNCHANGED <<bootVars, store, fate, ri, notified, batch, at, hand, modemVars, missed>>

\* ... or returns false: no password, unknown command, or a failed query.
Refuse ==
    /\ pc = "command"
    /\ hand \notin Valid \/ Failing
    /\ fate' = [fate EXCEPT ![hand] = "ignored"]
    /\ hand' = NoMsg
    /\ NextEntry
    /\ UNCHANGED <<bootVars, store, ri, notified, modemVars, missed>>

\* sms_send_message, first exchange: AT+CMGS, whose result is not looked at.
\* The modem prompts for the text, or refuses.
Prompt ==
    /\ pc = "prompt"
    /\ \/ typing' = TRUE
       \/ Failing /\ typing' = FALSE
    /\ typed' = <<>>
    /\ pc' = "text"
    /\ UNCHANGED <<bootVars, store, fate, ri, notified, batch, at, hand, sent, missed>>

\* Second exchange: the text and Ctrl-Z.  In text mode the modem sends what it
\* was given since the prompt; in command mode the line is an unknown command.
Text ==
    /\ pc = "text"
    /\ \/ /\ typing
          /\ sent' = sent \cup {[to |-> hand, text |-> Append(typed, "reply")]}
          /\ fate' = [fate EXCEPT ![hand] = "answered"]
       \/ /\ ~typing \/ Failing
          /\ sent' = sent
          /\ fate' = [fate EXCEPT ![hand] = "unanswered"]
    /\ typing' = FALSE
    /\ typed' = <<>>
    /\ hand' = NoMsg
    /\ NextEntry
    /\ UNCHANGED <<bootVars, store, ri, notified, missed>>

-----------------------------------------------------------------------------
Worker ==
    \/ Wake \/ List \/ ListEnds \/ Pause \/ ScanEnds \/ SkipEntry
    \/ \E s \in Slots : Take(s) \/ TakeLost(s)
    \/ TakeRefused \/ Accept \/ Refuse \/ Prompt \/ Text

Next ==
    \/ CreateWorker \/ SetHandle \/ Arm \/ Restart
    \/ \E m \in Msgs, s \in Slots : Arrive(m, s)
    \/ Isr
    \/ OtherCommand
    \/ Worker

Spec == Init /\ [][Next]_vars

\* The worker is the program's highest-priority task, every call it makes ends
\* (ModemLink!LockReleased), and an interrupt is taken.
FairSpec == Spec /\ WF_vars(Worker) /\ WF_vars(Isr)

-----------------------------------------------------------------------------
(* Properties *)

TypeOK ==
    /\ store \in [Slots -> Msgs \cup {NoMsg}]
    /\ fate \in [Msgs -> Fates]
    /\ boot \in {"create", "handle", "arm", "up"}
    /\ handle \in BOOLEAN
    /\ ri \in BOOLEAN
    /\ notified \in BOOLEAN
    /\ pc \in {"wait", "list", "scan", "command", "prompt", "text", "pause"}
    /\ batch \in [1..BatchSize -> Nat]
    /\ at \in 1..(BatchSize + 1)
    /\ hand \in Msgs \cup {NoMsg}
    /\ typing \in BOOLEAN
    /\ typed \in Seq({"command"})
    /\ sent \subseteq [to : Msgs, text : Seq({"command", "reply"})]
    /\ missed \in BOOLEAN

\* Whenever the ring line can raise the interrupt, gpio_isr_handler has a task
\* to notify.
NotifyHasTarget == ri => handle

\* No message waits for ever unnoticed: when the worker sleeps with neither a
\* notification nor an interrupt pending, nothing is stored, unless the last
\* look at the storage failed or messages were there before the interrupt was,
\* be it the first time or after a restart.
NoLostWakeup ==
    pc = "wait" /\ ~notified /\ ~ri /\ Occupied # {} => missed

\* The entries of the array the worker has still to look at name slots that
\* hold a message: it never takes an index left over from an earlier listing.
BatchFresh ==
    pc = "scan" => \A i \in at..BatchSize : batch[i] # 0 => batch[i] \in Occupied

\* A message that has been answered, ignored or lost is never handled again.
HandledOnce ==
    [][\A m \in Msgs : fate[m] \in Final => fate'[m] = fate[m]]_vars

\* Slots whose message the worker cannot take out.
Unreadable == Stuck \cup {s \in Slots : Index(s) = 0}

\* Once the ring line or the notification says so, every message stored is
\* handled in the end, those that came before the interrupt was set up too,
\* unless it is in a slot that cannot be read.  Messages in such slots, fewer
\* than a batch, keep the worker busy for ever but do not starve the others.
AllHandled ==
    \A m \in Msgs, s \in Slots \ Unreadable :
        store[s] = m /\ (ri \/ notified) ~> fate[m] \in Final

\* An SMS that goes out holds the answer to the command and nothing else.
ReplyIntact == \A s \in sent : s.text = <<"reply">>

\* Seen through what becomes of the messages and who gets an answer, the worker
\* is SmsService, restarts and failures included.
Service == INSTANCE SmsService WITH replies <- {s.to : s \in sent}
ImplementsService == Service!Spec

=============================================================================
