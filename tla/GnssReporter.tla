---------------------------- MODULE GnssReporter ----------------------------
(****************************************************************************)
(* The start-up of the program and gnss_task: it powers the receiver, looks *)
(* for a fix, leaves out those within five metres of the last position      *)
(* sent, and reports the others to the tracking server with                 *)
(* http_perform_action; and the modem's HTTP service, which that function   *)
(* opens, uses and closes.                                                  *)
(*                                                                          *)
(* Positions are metres along a road.  An exchange with the modem is one    *)
(* step.  An exchange that fails either never reaches the modem or is       *)
(* carried out while its answer is lost; the program cannot tell.  The      *)
(* program may restart at any moment, and then resets the modem.            *)
(****************************************************************************)
EXTENDS Integers

CONSTANTS
    Points,     \* the positions the tracker may be at
    Faulty,     \* the exchanges that may fail, and "restart"
    MaxFaults,  \* bound: how many failures there are, those not counted
                \* that the program itself bounds by ten attempts
    Refusing    \* the network or the server may refuse a report, which the
                \* modem answers with a status code and OK all the same

Origin == 0     \* latitude and longitude of a gnss_info_t of {0}
NoFix == -1     \* the gnss_info argument is NULL

Range5(p, q) == p - q <= 5 /\ q - p <= 5

ASSUME PointAssumption ==
    /\ Points \subseteq Nat
    /\ \A p \in Points : ~Range5(p, Origin)
ASSUME FaultAssumption ==
    /\ Faulty \subseteq {"check", "poweron", "assist", "init", "para", "action",
                       "read", "term", "restart"}
    /\ MaxFaults \in Nat
    /\ Refusing \in BOOLEAN

VARIABLES
    pc,         \* where the program is; the exchange it is about to make
    tries,      \* attempts made so far at the exchange, where they are counted
    fix,        \* new_gnss_info, or NoFix
    last,       \* last_sent_gnss_info
    retry,      \* the counter of fixes left out
    ok,         \* the result of http_perform_action so far
    session,    \* modem: the HTTP service is open
    server,     \* the position the server was last told, Origin for none
    faults,     \* failures so far
    \* auxiliary:
    streak,     \* fixes left out since the last report was begun
    adrift      \* the last report of a position went through, or not, without
                \* the program knowing

auxVars == <<streak, adrift>>
vars == <<pc, tries, fix, last, retry, ok, session, server, faults, auxVars>>

Places == {"check", "poweron", "assist", "locate", "init", "para", "action", "read",
           "term", "delay"}

Init ==
    /\ pc = "check"
    /\ tries = 0
    /\ fix = NoFix
    /\ last = Origin
    /\ retry = 0
    /\ ok = FALSE
    /\ session = FALSE
    /\ server = Origin
    /\ faults = 0
    /\ streak = 0
    /\ adrift = FALSE

Spend ==
    /\ faults < MaxFaults
    /\ faults' = faults + 1

\* The exchange of this step fails.
Fault == pc \in Faulty /\ Spend

NoFault == faults' = faults

-----------------------------------------------------------------------------
(* Start-up *)

\* The program starts anew: app_main resets the modem and the variables of
\* both are as at first.
Reboot ==
    /\ pc' = "check"
    /\ tries' = 0
    /\ fix' = NoFix
    /\ last' = Origin
    /\ retry' = 0
    /\ ok' = FALSE
    /\ session' = FALSE

Restart ==
    /\ "restart" \in Faulty
    /\ Spend
    /\ Reboot
    /\ UNCHANGED <<server, auxVars>>

\* check_respond: AT, ten attempts at most.
Check ==
    /\ pc = "check"
    /\ \/ pc' = "poweron" /\ tries' = 0
       \/ pc \in Faulty /\ tries < 9 /\ tries' = tries + 1 /\ UNCHANGED pc
    /\ UNCHANGED <<fix, last, retry, ok, session, server, faults, auxVars>>

\* When the tenth fails too, app_main waits for the modem to finish booting and
\* goes on all the same.
NotStarted ==
    /\ pc = "check"
    /\ pc \in Faulty
    /\ tries = 9
    /\ tries' = 0
    /\ pc' = "poweron"
    /\ UNCHANGED <<fix, last, retry, ok, session, server, faults, auxVars>>

\* AT+CGNSSPWR=1 until it is READY (in between: gnss_sleep, two seconds), then
\* the hot start.
PowerOn ==
    /\ pc = "poweron"
    /\ \/ NoFault /\ pc' = "assist"
       \/ Fault /\ UNCHANGED pc
    /\ UNCHANGED <<tries, fix, last, retry, ok, session, server, auxVars>>

\* AT+CAGPS, ten attempts at most.
Assist ==
    /\ pc = "assist"
    /\ tries' = tries + 1
    /\ \/ pc' = "locate"
       \/ pc \in Faulty /\ pc' = IF tries + 1 < 10 THEN "assist" ELSE "locate"
    /\ UNCHANGED <<fix, last, retry, ok, session, server, faults, auxVars>>

-----------------------------------------------------------------------------
(* The acquisition loop *)

\* Mutant: the last position is forgotten at ten but the counter goes on.
LeaveOutCounting ==
    /\ retry' = retry + 1
    /\ last' = IF retry + 1 = 10 THEN Origin ELSE last

\* Mutant: the counter is reset at ten but the last position is kept.
LeaveOutForEver ==
    /\ retry' = IF retry + 1 = 10 THEN 0 ELSE retry + 1
    /\ UNCHANGED last

\* The tenth fix left out makes the task forget the last position, so that
\* the next one is reported.
LeaveOut ==
    /\ retry' = IF retry + 1 = 10 THEN 0 ELSE retry + 1
    /\ last' = IF retry + 1 = 10 THEN Origin ELSE last

\* A fix near the last one sent is left out; the loop continues at once.
Skip(p) ==
    /\ pc = "locate"
    /\ Range5(p, last)
    /\ LeaveOut
    /\ fix' = p
    /\ streak' = streak + 1
    /\ UNCHANGED <<pc, tries, ok, session, server, faults, adrift>>

\* Any other fix is reported.
Report(p) ==
    /\ pc = "locate"
    /\ ~Range5(p, last)
    /\ fix' = p
    /\ streak' = 0
    /\ pc' = "init"
    /\ UNCHANGED <<tries, last, retry, ok, session, server, faults, adrift>>

\* No fix in thirty seconds: the report carries no position.
ReportNoFix ==
    /\ pc = "locate"
    /\ fix' = NoFix
    /\ streak' = 0
    /\ pc' = "init"
    /\ UNCHANGED <<tries, last, retry, ok, session, server, faults, adrift>>

Delay ==
    /\ pc = "delay"
    /\ pc' = "locate"
    /\ UNCHANGED <<tries, fix, last, retry, ok, session, server, faults, auxVars>>

-----------------------------------------------------------------------------
(* http_perform_action *)

\* AT+HTTPINIT, which the modem refuses while the service is open.  When it
\* does not succeed the function returns at once, without AT+HTTPTERM.
HttpInit ==
    /\ pc = "init"
    /\ \/ /\ NoFault
          /\ session' = TRUE
          /\ IF session THEN ok' = FALSE /\ pc' = "delay"
                        ELSE ok' = TRUE /\ pc' = "para"
       \/ /\ Fault
          /\ session' \in {session, TRUE}
          /\ ok' = FALSE
          /\ pc' = "delay"
    /\ UNCHANGED <<tries, fix, last, retry, server, auxVars>>

\* Mutant: the early return forgets to close the service.
ParaFails == "delay"

AfterBadPara == "term"

\* AT+HTTPPARA
HttpPara ==
    /\ pc = "para"
    /\ \/ NoFault /\ ok' = TRUE /\ pc' = "action"
       \/ Fault /\ ok' = FALSE /\ pc' = AfterBadPara
    /\ UNCHANGED <<tries, fix, last, retry, session, server, auxVars>>

\* What the server knows once the request is through.
Told == IF fix = NoFix THEN server ELSE fix

\* AT+HTTPACTION.  The status code is not looked at; the answer is read when
\* it has any data.
HttpAction ==
    /\ pc = "action"
    /\ \/ /\ NoFault
          /\ server' \in IF Refusing THEN {server, Told} ELSE {Told}
          /\ adrift' = IF fix = NoFix THEN adrift ELSE server' # fix
          /\ ok' = TRUE
          /\ pc' \in {"read", "term"}
       \/ /\ Fault
          /\ server' \in {server, Told}
          /\ adrift' = (adrift \/ fix # NoFix)
          /\ ok' = FALSE
          /\ pc' = "term"
    /\ UNCHANGED <<tries, fix, last, retry, session, streak>>

\* An answer torn off before its end marker brings the program down:
\* extract_between returns NULL and trim_string uses it.
TornAnswer ==
    /\ Reboot
    /\ UNCHANGED adrift

\* AT+HTTPREAD
HttpRead ==
    /\ pc = "read"
    /\ \/ /\ NoFault
          /\ ok' = TRUE
          /\ pc' = "term"
          /\ UNCHANGED <<tries, fix, last, retry, session, adrift>>
       \/ /\ Fault
          /\ ok' = FALSE
          /\ pc' = "term"
          /\ adrift' = (adrift \/ fix # NoFix)
          /\ UNCHANGED <<tries, fix, last, retry, session>>
       \/ /\ Fault
          /\ TornAnswer
    /\ UNCHANGED <<server, streak>>

\* Mutant: the position is remembered whether or not the report succeeded.
RememberAlways == IF fix # NoFix THEN fix ELSE last

\* gnss_task remembers the position of a report that succeeded.
Remembered == IF ok /\ fix # NoFix THEN fix ELSE last

\* AT+HTTPTERM, whose result is ignored, and the return to gnss_task.
HttpTerm ==
    /\ pc = "term"
    /\ \/ NoFault /\ session' = FALSE
       \/ Fault /\ session' \in {session, FALSE}
    /\ last' = Remembered
    /\ pc' = "delay"
    /\ UNCHANGED <<tries, fix, retry, ok, server, auxVars>>

-----------------------------------------------------------------------------
Next ==
    \/ Restart
    \/ Check \/ NotStarted
    \/ PowerOn
    \/ Assist
    \/ \E p \in Points : Skip(p) \/ Report(p)
    \/ ReportNoFix
    \/ Delay
    \/ HttpInit \/ HttpPara \/ HttpAction \/ HttpRead \/ HttpTerm

Spec == Init /\ [][Next]_vars

\* The task runs: every exchange and every delay ends.
FairSpec == Spec /\ WF_vars(Next)

-----------------------------------------------------------------------------
(* Properties *)

TypeOK ==
    /\ pc \in Places
    /\ tries \in 0..10
    /\ fix \in Points \cup {NoFix}
    /\ last \in Points \cup {Origin}
    /\ retry \in 0..9
    /\ ok \in BOOLEAN
    /\ session \in BOOLEAN
    /\ server \in Points \cup {Origin}
    /\ faults \in 0..MaxFaults
    /\ streak \in Nat
    /\ adrift \in BOOLEAN

\* A tracker that stands still reports at least every eleventh fix.
Heartbeat == streak <= 10

\* The HTTP service is closed whenever gnss_task is not inside
\* http_perform_action.
SessionClosed == pc \in {"locate", "init", "delay"} => ~session

\* A fix is left out only while the server has a position within five metres,
\* unless the last report of a position ended without the program knowing
\* whether it got through: an earlier report, however it failed, and a restart
\* leave no trace in the filter.
ServerAgrees ==
    streak > 0 /\ fix # NoFix /\ ~adrift => Range5(fix, server)

\* The tracker goes on reporting: failures that stop, restarts in the middle of
\* a report among them, do not silence it.
KeepsReporting == []<>(pc = "term" /\ ok)

=============================================================================
