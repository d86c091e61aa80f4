# simple_gps_tracker: TLA+ models and proofs

simple_gps_tracker is the firmware of an ESP32 board with a SIM7670 modem. It
reports its position to a tracking server over HTTP and answers commands sent
by SMS. Everything the modem does for it (GNSS, HTTP, SMS, status) goes through
one UART and one function, `modem_send_command_and_expect`. This directory
holds TLA+ models of that program, TLC configurations that check them, and
theorems checked by TLAPS. Paths below are relative to the repository (`src/`).

    tlc -config link_intime.cfg MCModemLink.tla     # any run of the table below
    tlapm ModemLinkProofs.tla                       # any *Proofs module

## 1. Inventory

| Component | State | Operations | Modelled by |
|---|---|---|---|
| AT channel, `main/at/modem.c` | `uart_mutex`, `s_uart_pm_lock`, the caller's buffer | `modem_send_command(_and_expect)` | `ModemLink`, promise: `AtChannel` |
| UART driver and `uart_event_task`, `main/simple_gps_tracker_main.c:61` | receive ring buffer, `uart_queue` | flush on an overrun | `ModemLink` |
| Ring line, `main/modem_board.c:16` | GPIO level, task notification | `gpio_isr_handler` | `SmsWorker` |
| SMS worker, `simple_gps_tracker_main.c:124`, `main/at/sms.c` | `messages[3]`, loop index | list, read-and-delete, command, send | `SmsWorker`, promise: `SmsService` |
| SMS commands, `main/sms_utils.c` | `sms_command`, the answer being made | recognise a command, make the queries, make the answer | `SmsCommand`; one step of `SmsWorker` |
| GNSS reporter, `simple_gps_tracker_main.c:174`, `main/at/gnss.c` | last position sent, counter of fixes left out | power on, assist, locate, filter, report | `GnssReporter` |
| HTTP client, `main/at/http.c` | none; the modem keeps the HTTP service | INIT, PARA, ACTION, READ, TERM | `GnssReporter` |
| Report URL, distance: `main/utils.c`, `main/geodesic.c` | none | build the URL, distance of two fixes | in part, in `GnssReporter` |
| Position query, `main/at/gnss.c` | the caller's `gnss_info_t` | query until there is a fix or the time is up | `FixQuery` |
| Response parser, `main/parse_at.c` | none | split a response into fields | `FixQuery`, for the position; the fields of the other responses are left out |
| String helpers, `main/string_utils.c` | none | trim, remove digits, lower case, cut out | `SmsCommand`; `extract_between` in `GnssReporter` |
| Queries: `at/status_control.c`, `network.c`, `sim_card.c`, `packet_domain.c`, `serial_interface.c` | none | one exchange and a parse each | as commands of `ModemLink`, as queries of `SmsCommand` |
| Board, `main/modem_board.c` | GPIO, ADC | power pulse, sleep, battery voltage | the battery in `SmsCommand`; that the pulse resets the modem in `GnssReporter` and `SmsWorker` |
| Start-up, `app_main` | `s_sms_task_handle` | waits for the modem, creates driver, mutex, tasks, interrupt | each step with the component it starts: `GnssReporter`, `SmsWorker`, `SmsCommand` |
| Event handlers, test task | | never posted to, never created | no |

How they interact. `gnss_task` (priority 10) and `sms_worker_task` (12)
call the functions under `main/at/`, which all end in
`modem_send_command_and_expect`. That function takes `uart_mutex`, keeps the
chip awake with the power management lock, flushes the receive buffer, writes
the command and reads until the answer is decided, the buffer is full or the
time is up. `uart_event_task` flushes the same receive buffer without taking
the mutex. The modem pulls the ring line low when an SMS arrives; the interrupt
handler notifies the worker.

What is hard here:

* *The channel.* An answer may come late, never, in pieces, or be longer than
  the buffer. Whatever one exchange leaves unread is found by the next. The
  receive buffer has two readers and two flushers. An exchange must give the
  mutex on every path.
* *The SMS worker.* A message may arrive at any point of its loop. The array
  of indexes is reused from one listing to the next. `AT+CMGRD` deletes a
  message before the answer is known to have been read. Sending an SMS takes
  two exchanges with the mutex free between them.
* *Commands.* The text of an SMS is trimmed, stripped of its digits and cut to
  16 bytes before it is compared with the names of the commands. An answer is
  put together from queries of which any may fail, from a voltage that may not
  have been read, and from a clock that is converted.
* *Starting and restarting.* The worker, its handle and the interrupt are set up
  one after the other while messages already arrive; the modem may not have
  started. After a crash all of it happens again, with the modem's storage, and
  what the server was told, as they were.
* *The reporter.* A report is five exchanges and any of them may fail, be
  refused, or be carried out while its answer is lost. The filter of near fixes
  must not silence a tracker that stands still, nor compare with a position the
  server does not have.

`PROJECT.json` lists each such hazard at its line, with the properties aimed at
it, or the reason none is yet.

## 2. Modules

### ModemLink: the AT channel

Two or more `Tasks` run `modem_send_command_and_expect` (modem.c:42-63) and
the functions it inlines (93-146). `pc[t]` is the place in that function:

| `pc` / action | Code |
|---|---|
| `idle`, `Call` | a caller under `at/` with its `cmd`, `expect`, `res_size`, `timeout_ms` |
| `take`, `Take` | `xSemaphoreTake` (50) |
| `acquire`, `Acquire` | `esp_pm_lock_acquire` (51) |
| `write`, `Write` | `uart_flush`, `uart_write_bytes`, and the set-up of the loop (93-113) |
| `loop`, `ReadStart`, `TimeUp` | the loop condition, the last test for `expect` (114, 138-145) |
| `read`, `ReadDone` | `uart_read_bytes` and the classification of what is read (115-136) |
| `release`, `give` | `esp_pm_lock_release`, `xSemaphoreGive` and the return (58-62) |

The remaining actions are the modem (`ModemExec`, `ModemSend`, `ModemUrc`), the
UART (`FifoOverflow`, `BufferFull`) and `uart_event_task` (`EventFlush`).

Abstractions. A line is one unit of data, not a byte: `Cap[c]` is how many
lines fill the buffer the callers of `c` pass. A line is a record of what it is
and whether it answers the command that was written last (`own`), so that
writing a command makes all that is on its way *foreign*. Time is the number
of one-second reads a call has left. `uart_read_bytes` waits for up to one
second for the bytes it asked for, so a call makes between one read and
`Reads[c]` of them. While it waits it holds the driver's receive mutex, for
which `uart_flush_input` has to wait; this is why `EventFlush` requires that no
task be at `read`. That lock belongs to the ESP-IDF driver and is marked external.

Left out: `modem_write_uart` and `modem_read_uart`, which nothing calls, and
the tests for NULL and zero sizes, which no caller reaches.

### AtChannel: what the channel promises

Exchanges of one command, one at a time; each ends with a code that the modem's
answer to *that* command supports. How an answer is cut into reads is not the
caller's to choose, so `Outcomes` allows the verdict of every part of the answer
that a read may leave in the buffer, given as a set of indices: what came first
(`Parts`), any lines at all if the UART may lose some, and everything once the
time is up (`Wholes`). `ModemLink!Channel`
instantiates it: the exchange begins with the write and ends when the mutex is
given. `ImplementsChannel` is the refinement, checked by `link_intime`.

### MCModemLink: profiles

Three commands stand for the callers: `AT` waits for `OK` alone; `INFO` has its
marker before `OK` (CSQ, CGNSSINFO, CMGL, CMGRD ...); `ACTION` has it after
(HTTPACTION). `LONG` is an answer that overflows its buffer, such as a long
listing. `READ` is HTTPREAD, whose data follow the `OK` its caller waits for;
no run uses it, because an answer that goes on after the line that ends the
call is outside what `OwnAnswer` and `QuietHandover` can promise. `AnswersFit`
of `ModemLink` is that condition, and `ProfileAssumption` has TLC confirm that
a profile without `LONG` and `READ` meets it.

### SmsWorker: the SMS path

The modem's storage (`store`), the ring line (`ri`), the pending notification
and `sms_worker_task` with what it calls. An exchange is one step, since
`ModemLink` shows that exchanges do not overlap; `sms_send_message` is two
(`Prompt`, `Text`), with `OtherCommand` possibly between. `fate` and `missed`
are history variables: what became of each message, and whether storage was
left unread for a reason the worker did not notice. `Headers` models
`extract_sms_header`: indexes truncated to 8 bits, at most `BatchSize` of them in
the order of the slots, the other entries of the array left as they are. `TakeLost` is a message that
the modem deleted but whose answer the worker did not get: more than 127 bytes,
or lost. The message in a slot of `Stuck` is listed but never taken out.

`boot` is how far `app_main` is: `CreateWorker`, `SetHandle` and `Arm` are its
last steps, in its order. A message that arrives before `Arm` is stored and
raises no interrupt. `Isr` may leave `ri` as it is, because `gpio_wakeup_enable`
makes the interrupt level-triggered: it fires for as long as the line is low.
`Restart` may happen between any two steps. The RAM is as at first, the modem is
reset, its storage is kept, and a message in hand is lost.

### SmsService: what the sender of a message may count on

A message is dealt with at most once, one at a time, gets at most one answer,
and only if it holds the password and a command. `SmsWorker!Service`
instantiates it; the messages answered are those whose SMS went out.

### Selection: part of a sequence

`Selected(s, K)` has the entries of `s` at the indices `K`, in their order: what
`SelectSeq` computes by recursion, said without it, so that theorems can speak of
single entries. `SmsCommand` and `FixQuery` use it for characters taken out of a
text and fields missing from an answer. It models no code of its own.

### SmsCommand and MCSmsCommand: the commands

`sms_utils_process_sms_command` with the string helpers it uses (`Trim`,
`RemoveDigits`, `ToLower`), the names of the commands, the queries each command
makes in their order (`Queries`), and for the status command the battery
(`AdcInit`, `Percent`, `BatteryMv`) and the uptime (`Hours`, `Minutes`). A text is
a sequence of characters of a small alphabet with letters of either case, digits
and a blank. A query is one exchange that succeeds (`Query`) or fails
(`QueryFails`); the function stops at the first that fails. An uninitialised
`bat_level_mv` is any value of `Garbage`. Numbers keep their width: hours are
taken modulo 256. In the answer, `pin` and `at` are what the battery and the
clock said then; they are there for the properties. `SMS_COMMAND_INTERVAL`,
`RESET`, `SLEEP`, `WAKE` and `HELP` are answered alike, without a query, and are
one command here.

`MCSmsCommand` gives the alphabet and the names: one and two letters, one of them
the beginning of another, so that a shortened or mangled name could be taken for
a different command.

### GnssReporter: start-up and reports

`check_respond`, `gnss_task` and `http_perform_action`, each exchange one step. Positions are
metres along a road, of which only "within five metres" matters;
floating-point trigonometry is not modelled. An exchange in `Faulty` may fail,
either before or after the modem carried it out; the program cannot tell which.
`session` is the modem's HTTP service; `server` is the position the server was
last told. The repeated queries inside `gnss_get_fixed_pos_info` are one step
here (`Skip`, `Report` or `ReportNoFix`); `FixQuery` has them in detail.

`Restart` may happen at any step and resets the modem, as `app_main` does
(`Reboot`); what the server was told outlives it. `TornAnswer` is a restart the
program brings about: when the answer to HTTPREAD lacks its end marker
`extract_between` returns NULL and `trim_string` dereferences it.

`streak` and `adrift` are history variables: the fixes left out since the last
report, and whether the last report of a position ended without the program
knowing if it got through (it was refused, or its answer was lost).

### FixQuery and MCFixQuery: the position query

`gnss_get_fixed_pos_info` (`Call`, `Query`, `QueryFails`, `GiveUp`) with
`parse_at_command_response` and `gnss_info_field_handler` (`Delivered`, `Files`,
`Parsed`). An answer is the sequence of its fields, and a field is what the
handler reads of it: a number and a first character. `strtok_r` delivers the
fields that are not missing, in their order (`Selected`); a field of spaces is
delivered and ignored. One structure is cleared at the call and all answers are
filed in it. `MCFixQuery` enumerates answers with a missing or blank mode, a
missing count or latitude, in each hemisphere, followed by date, time and
altitude, which take the place of earlier fields when some are missing.

## 3. Runs

| Run | Module | Properties | States | Shows |
|---|---|---|---|---|
| `link_intime` | MCModemLink | TypeOK, LockDiscipline, OwnAnswer, QuietHandover, ImplementsChannel | 7,580 | with answers in time, unsolicited lines and overruns, every exchange reads its own answer and `modem.c` implements `AtChannel` |
| `link_late` | MCModemLink | ReadRoom, AnswerOrder, Resync, NoTheft, LockReleased | 70,309 | what remains when answers come late, never, or do not fit |
| `sms_ideal` | SmsWorker | TypeOK, BatchFresh, AllHandled | 146,312 | four messages that arrive at any moment from start-up on, batches of three, an index 0 and a message that cannot be taken out: all others the worker is told of are handled, and no stale index is used |
| `sms_faulty` | SmsWorker | NoLostWakeup, NotifyHasTarget, HandledOnce, ImplementsService | 8,629 | failing exchanges, lost answers, a backlog, listings too long, restarts at any moment: the interrupt always has a task to notify, and `SmsWorker` implements `SmsService` |
| `sms_command` | MCSmsCommand | TypeOK, RightCommand, ReplyComplete, BatteryShown | 207,902 | every text of up to five characters, every failure, every voltage: the right command, a complete answer, the right charge |
| `gnss_report` | GnssReporter | TypeOK, Heartbeat, SessionClosed, ServerAgrees, KeepsReporting | 219,825 | a modem slow to start, failing PARA, ACTION and READ, refused requests, torn answers, restarts: the filter agrees with the server, silence is bounded, reports go on |
| `fix_query` | MCFixQuery | TypeOK, FreshFix, PositionOfLast | 56,365 | a fix and its position are those of the last answer, whatever earlier ones filed, and a call ends in time |
| `link_tail` | MCModemLink | OwnAnswer | violated | finding 1 |
| `sms_prompt` | SmsWorker | ReplyIntact | violated | finding 2 |
| `http_wedge` | GnssReporter | KeepsReporting | violated | finding 3 |
| `uptime` | MCSmsCommand | UptimeShown | violated | finding 5 |
| `fix_shift` | MCFixQuery | FieldsInPlace | violated | finding 4 |

**Limits of what the passing runs say.** `OwnAnswer` and `QuietHandover` hold
for answers that come in time, fit their buffer and end with the line that
decides them. `NoTheft` is about a task inside `uart_read_bytes`, where the
UART driver's receive lock keeps `uart_event_task` out; its flush between two
reads takes part of an answer, and the call may then end without `MODEM_OK`, which
`AtChannel` admits as loss (`Lossy`). `ServerAgrees` excepts the time after a report whose end the program could not
know (`adrift`). The code does not look at the status code of HTTPACTION, and
until the next report that goes through the filter may compare with a position
the server does not have. `KeepsReporting` and `SessionClosed` are checked without
failures of HTTPINIT and HTTPTERM (finding 3). `AllHandled` is checked without
failing exchanges and without restarts, and is about messages that the worker is
told of (`ri` or `notified`): one that arrived before the interrupt was set up
waits for the next to arrive. It is also about fewer unreadable slots than a
batch has entries: as many as that fill every listing, and later messages are
never reached. The SMS runs have listings with one header for each
stored message: a text with "ERROR" in it would make every listing fail
(modem.c:123), and one with "+CMGL:" would count as a header of its own
(sms.c:119). With any unreadable slot the worker lists again and again
without a pause; that `gnss_task` and the lower-priority tasks still run is not
claimed by any property. `RightCommand` says what the code does with texts in
the format of the repository's `README.md`, command and password side by side;
`check 1234`, with a blank between them, is not recognised, since only the ends
are trimmed. The time in `FixQuery` is that of the exchanges themselves, so
`TypeOK` and `CallBounded` bound a call apart from its waits for `uart_mutex`.
`PositionOfLast` speaks of answers without an empty field (finding 4).

**Bounds.** Two tasks are what the program has (`gnss_task`,
`sms_worker_task`); they are symmetric in `ModemLink`, so symmetry is used in
`link_intime`, which has no liveness property, and not in `link_late`.
`RxCap` is not below any `Cap`: a task inside `uart_read_bytes` drains the ring
as it fills, so the ring never limits one read. `Cap` and `Reads` are 2 to 4:
enough for an answer to be cut at each place, for the buffer to fill in the
middle of one, and for a call with and without a spare read. `MaxUrc` = 1
unsolicited line at a time is enough to come before, inside or after an answer;
`MaxLag` = 1 lets one late command meet a new one, and the new one makes two in
the modem's queue. In `sms_ideal`
`BatchSize` is the code's 3, with four messages and four slots, so that there are more
messages than a listing takes, entries that a shorter listing leaves alone, a
slot whose index is 0 for the worker and one it cannot empty, which together
stay below a batch. `sms_faulty` has three of each and batches of two;
`ListCap` = 2 of its three slots makes a listing overflow. `sms_prompt` would
do with one message. Each message arrives once, and nothing in the worker depends on
earlier ones beyond its array. `MaxTyped` = 1 line of another task in an SMS is
enough to spoil it. In `sms_command`, `MaxLen` = 5 characters hold the longest
name, the password and blanks around and between; `BufSize` = 4 takes
one letter more than the longest name has, as 16 bytes do for `smslink` with
room to spare, and longer texts are cut to it. `Uptimes` of 0 and 100,000 minutes
give an answer without and with both hours and minutes; `PinMv` has the voltages next
to the ends of the scale and between; `Garbage` has one below it, one on it and one above it.
`MaxFaults` = 3 in `gnss_report` counts the failures of a report and the
restarts, enough for one report to fail after another and to restart in between. The ten
attempts of `check_respond` and of assisted GNSS are bounded by the program, and
all ten may fail. Three points at 100, 104 and 108 metres have neighbours in
range and a pair that is not.
`Timeout` = 3 and `Longest` = 2 seconds let up to three answers be filed in one
call, and the last exchange begin just before the time is up.

**Fairness.** `ModemLink!FairSpec`: a task that holds the mutex is scheduled,
and the modem does not stop for ever between two lines. Nothing is assumed of
`Take`: no task is promised the mutex, only that it is released.
`SmsWorker!FairSpec`: the worker runs at the highest priority, each of its calls
ends (`LockReleased`), and an interrupt is taken. Nothing is assumed of arrivals,
nor of `app_main`: a start-up that stops satisfies `AllHandled` because no
interrupt is raised. `GnssReporter!FairSpec`: the
task takes steps, as each exchange and each delay ends. Which step it takes, a
fix left out or one reported, is not assumed, and failures are bounded by
`MaxFaults`, not by fairness; the fixes left out in a row are bounded by the code
(`Heartbeat`), which is what `KeepsReporting` rests on.

**Deadlock** is not checked in the SMS runs: every message arrives once, and
when all have been handled the worker sleeps. All others check it.

## 4. Findings

1. `link_tail`, modem.c:96. `uart_flush` "remove unread bytes" removes those that
   have arrived. `MODEM_OVERFLOW` (119) is returned as soon as the buffer is
   full; the rest of that answer arrives after the next exchange's flush and is
   read, with its `OK`, as that exchange's answer. `Resync` bounds the harm: an
   exchange begun when the modem owes nothing sees nothing foreign.
2. `sms_prompt`, sms.c:251. `README.md` describes `AT+CMGS` and the text as one
   transaction; they are two exchanges and another task's command may come
   between them and go out inside the SMS.
3. `http_wedge`, http.c:17. When only the answer to `AT+HTTPINIT` is lost,
   `http_perform_action` returns without `AT+HTTPTERM`, and every later
   `AT+HTTPINIT` is refused.
4. `fix_shift`, parse_at.c:21. The comments in gnss.c name the field of each
   index and the handler tests for an empty token, but `strtok_r` never delivers
   an empty field: one that is missing moves all that follow, so that a
   coordinate is added to the satellites and another field becomes the latitude.
5. `uptime`, sms_utils.c:103. The comment that shows the answer (124) has
   `Uptime: 3h 24m`. The microseconds since boot are divided by 60000000000, a
   thousand minutes, so after 3 h 24 min the answer says 0h 0m.

## 5. Proofs

| Theorem | Module | States |
|---|---|---|
| `TypeCorrect` | ModemLinkProofs | `Spec => []TypeOK` |
| `LocksHeld` | ModemLinkProofs | `Spec => []LockDiscipline` |
| `BufferNeverOverrun` | ModemLinkProofs | `Spec => []ReadRoom` |
| `ReaderUndisturbed` | ModemLinkProofs | `Spec => NoTheft` |
| `AnswersInOrder` | AnswerOrderProofs | `Spec => []AnswerOrder` |
| `BackInStep` | AnswerOrderProofs | `Spec => Resync` |
| `ReadsOwnAnswer` | ChannelProofs | `Spec => []OwnAnswer`, if `AnswersFit` and `InTime` |
| `CleanHandover` | ChannelProofs | `Spec => []QuietHandover`, if `AnswersFit` and `InTime` |
| `ImplementsAtChannel` | ChannelProofs | `Spec => ImplementsChannel`, the refinement of `AtChannel`, if `AnswersFit` and `InTime` |
| `TypeCorrect` | SmsWorkerProofs | `Spec => []TypeOK` |
| `ListingIsFresh` | SmsWorkerProofs | `Spec => []BatchFresh`, if no index is cut down to another's |
| `WakeupNotLost` | SmsWorkerProofs | `Spec => []NoLostWakeup` |
| `NeverHandledTwice` | SmsWorkerProofs | `Spec => HandledOnce` |
| `InterruptHasTask` | SmsWorkerProofs | `Spec => []NotifyHasTarget` |
| `WorkerIsService` | SmsWorkerProofs | `Spec => ImplementsService`, the refinement of `SmsService` |
| `TypeCorrect` | SmsCommandProofs | `Spec => []TypeOK` |
| `FormattedIsAsked` | SmsCommandProofs | a text in the documented format asks for the command it names |
| `NothingElseIsAsked` | SmsCommandProofs | a text that asks for a command holds the password and spells the command |
| `CommandIsRight` | SmsCommandProofs | `Spec => []RightCommand` |
| `AnswerHasAll` | SmsCommandProofs | `Spec => []ReplyComplete` |
| `PercentRight` | SmsCommandProofs | what `Percent` returns, for every voltage |
| `ChargeShown` | SmsCommandProofs | `Spec => []BatteryShown` |
| `TypeCorrect` | GnssReporterProofs | `Spec => []TypeOK` |
| `FilterAgrees` | GnssReporterProofs | `Spec => []ServerAgrees` |
| `SilenceBounded` | GnssReporterProofs | `Spec => []Heartbeat` |
| `ServiceClosed` | GnssReporterProofs | `Spec => []SessionClosed`, if HTTPINIT and HTTPTERM are not in `Faulty` |
| `TypeCorrect` | FixQueryProofs | `Spec => []TypeOK` |
| `PositionFromLast` | FixQueryProofs | `Spec => []PositionOfLast` |
| `FixIsFresh` | FixQueryProofs | `Spec => []FreshFix` |
| `CallBounded` | FixQueryProofs | `Spec => []EndsInTime` |

They hold for every value of the constants that the modules' ASSUMEs admit: any
number of tasks, any commands with their buffers, times and answers, in time or
late, with or without overruns; any messages, slots, failures and restarts; any
texts, names, voltages and clocks; any positions and faults; answers of any length to a position query. Hypotheses
beyond those are in the table. Three theorems need `InTime` and
`AnswersFit`: an answer is complete before its caller stops reading, has room in
the caller's buffer besides `MaxUrc` unsolicited lines, and does not go on after
the line that ends the call. Without them the three are false of the code:
`link_tail` is a counterexample (finding 1), and `AnswersInOrder` and
`BackInStep`, which assume neither, say what is left then. `ListingIsFresh`
supposes that indexes are at most 255, or are read as 0; an index above that,
cut to 8 bits, can name another slot.

*ModemLink.* `LInv` is `TypeOK /\ LockDiscipline /\ ReadRoom` and is inductive.
The parts need each other: that the power management lock is held *once* rests
on there being one task inside; the room in the buffer must hold at `loop` as
well as at `read`, and is kept because `Classify` ends the call when the buffer
is full. `NoTheft` follows from `LInv`: a flush needs `write`, so the mutex, and
the reader has it; `EventFlush` waits for the reader.

*The order of answers.* Two pieces of state decide which answer a line belongs to:
the modem's queue and the lines on their way to the reader (what it has read,
the ring buffer and what the modem still sends, `Path`). `OrderInv` says that the
newest command is the last in the queue, and that for a task that reads the
foreign lines on its path come before its own, with nothing left in the queue
once there is one of its own. `Joined` reduces this to the three pieces,
between which every step moves lines without changing their order. `BackInStep`
is then a matter of single steps: from a silent modem, `Write` leaves a path without
foreign lines, and no other step can put one there.

*Own answers.* With `InTime` and `AnswersFit`, `ExchangeInv` describes the line
at each stage of an exchange. Outside of one the modem is silent and the ring
buffer has unsolicited lines only (`Between`). Inside, the command has either
not been executed and all that has come is unsolicited (`Awaited`), or there is
an answer `r` of which the lines still to be sent are the end, and what has been
received is a *trace*: each line is unsolicited or a line of `r`, in
`r`'s order, with none missing unless the UART lost some (`AnsweredWith`,
`IsTrace`). This is what makes the two theorems inductive: a call ends early
only at the last line of its answer, when by the trace nothing more is to come,
or when its buffer is full, which
by counting lines needs the whole answer as well; and it ends late only after
the modem is done.

*The refinement.* `Write` is `Begin`, `ModemExec` is `Answer`, the read or the
time-out that decides is `Conclude` and `Give` is `End`; all else stutters. The
work is in `Conclude`: the code `ModemLink` computes from the lines in the buffer,
unsolicited ones and gaps included, has to be among the `Outcomes` of
the modem's answer. The trace gives the set of indices that is a witness for it
(`LinesHeld`, `VerdictGiven`, `VerdictExpired`).

*SmsWorker.* `TypeOK` is inductive. `BatchInv` says that the entries the worker
has passed are cleared, and that those ahead are 0 or name different slots that
hold a message. The first part is what `BatchFresh` needs of the next
listing, which may be shorter than the last; the second is kept because a message
leaves the storage only through the entry in hand, which is then passed, and no
entry ahead names the same slot.
`NoLostWakeup` is not inductive: nothing in it says that the worker
is still to look at what was stored. `WakeInv` adds that from the pause on,
what is stored and was not missed has a notification or an interrupt pending,
and not only when the worker sleeps. `FateInv` ties `fate` to the slots and to
the message in hand, from which a message that is done with is in no slot; it
also has that a message in hand is being worked on and, from the prompt on, is
valid. With it every step of the worker is a step of `SmsService` or a stutter
(`StepImplements`, one step per action): taking a message needs that no other is
taken, and a restart loses at most the one in hand. `HInv`, inside the proof of
`InterruptHasTask`, is the order of `app_main`: the line can raise the interrupt
only once it is set up, and by then the handle is.

*Selections.* What is taken out of a sequence is usually reasoned about by
induction on it, which the prover cannot do. `SelectionProofs` uses ranks
instead: the rank of an index is how many of the chosen ones are not above it.
Ranks rise along the chosen indices, so they are an injection into as many
numbers as there are indices, and between finite sets of one size an injection is
a bijection (`RankOfEach`). So each chosen entry stands in the selection at its
rank and nothing else does (`SelectedEntries`); where nothing is left out, entries keep
their places (`SelectedUnbroken`), and a common beginning moves ranks by its length
(`RankMoved`).

*SmsCommand.* `CommandIsRight` rests on two theorems about strings.
`FormattedIsAsked`: neither the letters of a name nor the digits of the password
are blanks, so trimming cuts the text exactly before the name and after the
password (`CutIsOne`), the letters are the first that are left and no digit
is among them, and the buffer holds them. `NothingElseIsAsked` goes the other way: the
name that was compared is everything `remove_digits` left (it was not cut, since the
names are shorter than the buffer), and trimming before taking out digits takes
off blanks that would have been kept (`WordOfCut`, by `RankMoved`). `TextInv`
carries both along the steps. `TextAssumption` asks of the constants what the
code's have: a password of digits, names of lower-case letters that are different from
each other and shorter than the buffer, and `tolower` leaving digits and blanks alone.

`AskedInv`: in the middle of the queries, those that succeeded and
those still to make are together those of the command; before and after them
there are none left to make. `ChargeShown` follows from `PercentRight`, which is
about every natural number and so covers a voltage that was never read.

*GnssReporter.* `StreakInv` relates `streak` to `retry`: the position is forgotten
at a count of ten and, with no point within five metres of the origin
(`PointAssumption`), the next fix is reported. `AgreeInv` is why `FilterAgrees` holds: while the program
knows how the last report ended, the position to compare with is the server's,
except between HTTPACTION and the end of the report, when the server has the new
one and the task is about to remember it. A restart makes it compare with
nothing. `SInv`, inside the proof of
`ServiceClosed`, adds that the service is closed during start-up too.

*FixQuery.* `FreshFix` needs that in the loop the filed mode is never that of a
fix (`LoopInv`): then a valid mode can only come from a token of the answer
being parsed. Nothing about `Selected` is used, so that argument holds for any
way of splitting an answer. `PositionFromLast` does use it: an answer whose
first eight fields are there delivers them at their own indices
(`SelectedUnbroken`), so that each overwrites what an earlier answer filed.

Only model-checked: the liveness properties `LockReleased`, `AllHandled` and
`KeepsReporting`, since liveness under fairness and ENABLED are out of the
prover's reach. Every other property of a passing run is a theorem. The properties of
the runs that expect a violation are false, and there is nothing to prove.

## 6. Not modelled

* `last_fixed_position` (gnss.c), written but never read by the running program.
* Event handlers of `SMS_EVENTS` (never posted) and `test_task` (never created),
  with the queries and the calls of sms.c that only `test_task` makes.
* Bytes: the text of URLs, answers and most commands, and what the fields of the
  status, network and SIM responses say, except where a length or a field
  decides (the buffers of CMGRD, CMGL and the command; the fields of a position).
* GPIO pulses, their timing, `modem_board_sleep` and `_wakeup` (never called), and the
  trigonometry of geodesic.c, which TLC cannot evaluate.
* Whether the battery is charging, which a comment in the code says does not work.
* Creating the drivers, the event loop and the tasks is taken to succeed:
  `app_main` stops when most of them fail.
* Priorities: that a busy worker keeps the others from running.
* The byte before an empty SMS text, which trimming reads: it is the end of the
  field before it in the structure, so that the text stays empty.

## 7. What could follow

1. Proofs: the safety half of the liveness properties, such as that a call of
   `ModemLink` has at most `Reads` reads left and that each uses one up; and
   `ServiceClosed` with the failures of HTTPINIT that do not open the service.
2. The handlers of the status and network responses, and `strip_string`, over
   bounded inputs, should the program come to depend on their fields.
3. The echo of commands before `ATE0`, with the ten-byte buffer of `check_respond`, as
   commands of `ModemLink`.
