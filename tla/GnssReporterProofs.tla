-------------------------- MODULE GnssReporterProofs --------------------------
(****************************************************************************)
(* Proofs about GnssReporter for every set of positions, every set of       *)
(* exchanges that fail and every number of failures and restarts: type      *)
(* correctness, how long a tracker that stands still may be silent, what    *)
(* the filter may take the server to know and, when opening and closing the *)
(* HTTP service do not fail, that it is not left open.                      *)
(****************************************************************************)
EXTENDS GnssReporter, TLAPS

\* The types in two parts, Boolean and other, for the provers' sake.
Flags == ok \in BOOLEAN /\ session \in BOOLEAN /\ adrift \in BOOLEAN

Rest ==
    /\ pc \in Places
    /\ tries \in 0..10
    /\ fix \in Points \cup {NoFix}
    /\ last \in Points \cup {Origin}
    /\ retry \in 0..9
    /\ server \in Points \cup {Origin}
    /\ streak \in Nat
    /\ faults \in 0..MaxFaults

\* An eleventh attempt, of AT or at assisted GNSS, is never made; the one count
\* starts where the other ended at 0.
TriesInv ==
    /\ pc \in {"check", "assist"} => tries <= 9
    /\ pc = "poweron" => tries = 0

\* The counter bounds the fixes left out: as long as there is a position to be
\* near to, no more were left out than the counter says, and none while a
\* report is going on.  Without a position nothing is left out.
StreakInv ==
    /\ last # Origin => streak <= retry
    /\ streak <= 10
    /\ pc \in {"init", "para", "action", "read", "term"} => streak = 0

GInv == Rest /\ TriesInv /\ StreakInv

\* A step spends at most one of the failures.
LEMMA FaultsBounded ==
    ASSUME Rest, NoFault \/ Spend
    PROVE  faults' \in 0..MaxFaults
  BY FaultAssumption DEF Rest, NoFault, Spend

\* Starting anew establishes the invariant, whatever was going on.
LEMMA RebootGInv ==
    ASSUME GInv, Reboot, faults' \in 0..MaxFaults, UNCHANGED <<server, streak>>
    PROVE  GInv'
  BY DEF GInv, Rest, TriesInv, StreakInv, Places, Reboot

LEMMA InitGInv == Init => GInv /\ Flags
  <1> SUFFICES ASSUME Init PROVE GInv /\ Flags
    OBVIOUS
  <1>1. Flags
    BY DEF Init, Flags
  <1>2. Rest
    BY FaultAssumption DEF Init, Rest, Places
  <1>3. TriesInv /\ StreakInv
    BY DEF Init, TriesInv, StreakInv
  <1> QED
    BY <1>1, <1>2, <1>3 DEF GInv

\* The results stay Boolean.
LEMMA NextFlags == Flags /\ [Next]_vars => Flags'
  BY DEF Flags, Next, vars, auxVars, Restart, Reboot, Check, NotStarted, PowerOn, Assist, Skip, Report, ReportNoFix, Delay,
         HttpInit, HttpPara, HttpAction, HttpRead, TornAnswer, HttpTerm

\* Every step keeps the other types and the bounds on the counters.
LEMMA NextGInv == GInv /\ [Next]_vars => GInv'
  <1> SUFFICES ASSUME GInv, [Next]_vars PROVE GInv'
    OBVIOUS
  <1>0. Rest /\ TriesInv /\ StreakInv
    BY DEF GInv
  <1> USE PointAssumption DEF Rest, TriesInv, StreakInv, Places, auxVars
  <1>1. CASE PowerOn
    <2>1. faults' \in 0..MaxFaults
      BY <1>0, <1>1, FaultsBounded DEF PowerOn, Fault
    <2> QED
      BY <1>0, <1>1, <2>1 DEF PowerOn, GInv
  <1>2. CASE Assist
    BY <1>0, <1>2 DEF Assist, GInv
  <1>3. ASSUME NEW p \in Points, Skip(p) PROVE GInv'
    <2>1. last # Origin
      BY <1>0, <1>3 DEF Skip
    <2>2. retry' \in 0..9 /\ last' \in Points \cup {Origin}
      BY <1>0, <1>3 DEF Skip, LeaveOut
    <2>3. StreakInv'
      BY <1>0, <1>3, <2>1 DEF Skip, LeaveOut, Origin
    <2> QED
      BY <1>0, <1>3, <2>2, <2>3 DEF Skip, GInv
  <1>4. ASSUME NEW p \in Points, Report(p) PROVE GInv'
    BY <1>0, <1>4 DEF Report, GInv
  <1>5. CASE ReportNoFix
    BY <1>0, <1>5 DEF ReportNoFix, GInv
  <1>6. CASE Delay
    BY <1>0, <1>6 DEF Delay, GInv
  <1>7. CASE HttpInit
    <2>1. faults' \in 0..MaxFaults
      BY <1>0, <1>7, FaultsBounded DEF HttpInit, Fault
    <2> QED
      BY <1>0, <1>7, <2>1 DEF HttpInit, GInv
  <1>8. CASE HttpPara
    <2>1. faults' \in 0..MaxFaults
      BY <1>0, <1>8, FaultsBounded DEF HttpPara, Fault
    <2> QED
      BY <1>0, <1>8, <2>1 DEF HttpPara, AfterBadPara, GInv
  <1>9. CASE HttpAction
    <2>1. faults' \in 0..MaxFaults
      BY <1>0, <1>9, FaultsBounded DEF HttpAction, Fault
    <2>2. server' \in Points \cup {Origin}
      BY <1>0, <1>9 DEF HttpAction, Told
    <2>3. pc' \in {"read", "term"} /\ UNCHANGED <<tries, fix, last, retry, streak>>
      BY <1>9 DEF HttpAction
    <2>4. streak = 0
      BY <1>0, <1>9 DEF HttpAction
    <2> QED
      BY <1>0, <2>1, <2>2, <2>3, <2>4 DEF GInv
  <1>10. CASE HttpRead
    <2>1. faults' \in 0..MaxFaults
      BY <1>0, <1>10, FaultsBounded DEF HttpRead, Fault
    <2>2. CASE TornAnswer
      BY <1>10, <2>1, <2>2, RebootGInv DEF HttpRead, TornAnswer
    <2>3. CASE pc' = "term" /\ UNCHANGED <<tries, fix, last, retry, server, streak>>
      BY <1>0, <1>10, <2>1, <2>3 DEF HttpRead, GInv
    <2> QED
      BY <1>10, <2>2, <2>3 DEF HttpRead
  <1>11. CASE HttpTerm
    <2>1. faults' \in 0..MaxFaults
      BY <1>0, <1>11, FaultsBounded DEF HttpTerm, Fault
    <2>2. last' \in Points \cup {Origin}
      BY <1>0, <1>11 DEF HttpTerm, Remembered
    <2>3. streak = 0 /\ pc' = "delay" /\ UNCHANGED <<tries, fix, retry, server, streak>>
      BY <1>0, <1>11 DEF HttpTerm, auxVars
    <2> QED
      BY <1>0, <2>1, <2>2, <2>3 DEF GInv
  <1>12. CASE Restart
    <2>1. faults' \in 0..MaxFaults
      BY <1>0, <1>12, FaultsBounded DEF Restart
    <2> QED
      BY <1>12, <2>1, RebootGInv DEF Restart, auxVars
  <1>13. CASE Check \/ NotStarted
    BY <1>0, <1>13 DEF Check, NotStarted, auxVars, GInv
  <1>14. CASE UNCHANGED vars
    BY <1>0, <1>14 DEF vars, GInv
  <1> QED
    BY <1>1, <1>2, <1>3, <1>4, <1>5, <1>6, <1>7, <1>8, <1>9, <1>10, <1>11, <1>12,
       <1>13, <1>14 DEF Next

-----------------------------------------------------------------------------
\* Every variable keeps its type: the counters never leave their uint8_t and
\* int ranges, whatever fails.
THEOREM TypeCorrect == Spec => []TypeOK
  <1>1. GInv /\ Flags => TypeOK
    BY DEF GInv, Rest, Flags, TypeOK
  <1> QED
    BY <1>1, InitGInv, NextFlags, NextGInv, PTL DEF Spec

\* A tracker that stands still is silent for at most ten fixes in a row.
THEOREM SilenceBounded == Spec => []Heartbeat
  <1>1. GInv => Heartbeat
    BY DEF GInv, StreakInv, Heartbeat
  <1> QED
    BY <1>1, InitGInv, NextGInv, PTL DEF Spec

-----------------------------------------------------------------------------
\* While it is known what the server was told, the position the filter compares
\* with is the server's, except at the end of a report: there the server
\* already has the new position, which the task is about to remember.
AgreeInv ==
    /\ ~adrift /\ last # Origin /\ ~(pc \in {"read", "term"} /\ ok = TRUE /\ fix # NoFix)
         => last = server
    /\ ~adrift /\ pc \in {"read", "term"} /\ ok = TRUE /\ fix # NoFix => server = fix
    /\ pc = "read" => ok = TRUE
    /\ ServerAgrees

LEMMA NextAgreeInv == GInv /\ AgreeInv /\ [Next]_vars => AgreeInv'
  <1> SUFFICES ASSUME GInv, AgreeInv, [Next]_vars PROVE AgreeInv'
    OBVIOUS
  <1> USE DEF AgreeInv, ServerAgrees
  <1>1. ASSUME NEW p \in Points, Skip(p) PROVE AgreeInv'
    <2>1. last # Origin
      BY <1>1, PointAssumption DEF Skip
    <2>2. ~adrift => Range5(p, server)
      BY <1>1, <2>1 DEF Skip
    <2> QED
      BY <1>1, <2>1, <2>2 DEF Skip, LeaveOut, Range5
  <1>2. ASSUME NEW p \in Points, Report(p) PROVE AgreeInv'
    BY <1>2 DEF Report
  <1>3. CASE ReportNoFix
    BY <1>3 DEF ReportNoFix
  <1>4. CASE HttpAction
    <2>1. streak = 0
      BY <1>4 DEF HttpAction, GInv, StreakInv
    <2>2. CASE fix = NoFix
      <3>1. (adrift' <=> adrift) /\ server' = server /\ UNCHANGED <<fix, last, streak>>
        BY <1>4, <2>2 DEF HttpAction, Told
      <3>2. pc = "action" /\ pc' \in {"read", "term"} /\ (pc' = "read" => ok' = TRUE)
        BY <1>4 DEF HttpAction
      <3> QED
        BY <2>1, <2>2, <3>1, <3>2
    <2>3. CASE fix # NoFix
      <3>1. ~adrift' => server' = fix /\ ok' = TRUE
        BY <1>4, <2>3 DEF HttpAction
      <3>2. pc' \in {"read", "term"} /\ (pc' = "read" => ok' = TRUE)
        BY <1>4 DEF HttpAction
      <3>3. UNCHANGED <<fix, last, streak>>
        BY <1>4 DEF HttpAction
      <3> QED
        BY <2>1, <2>3, <3>1, <3>2, <3>3
    <2> QED
      BY <2>2, <2>3
  <1>5. CASE HttpRead
    <2>1. streak = 0 /\ ok = TRUE
      BY <1>5 DEF HttpRead, GInv, StreakInv
    <2>2. CASE ok' = TRUE /\ pc' = "term" /\ UNCHANGED <<fix, last, adrift>>
      BY <1>5, <2>1, <2>2 DEF HttpRead
    <2>3. CASE ok' = FALSE /\ pc' = "term" /\ adrift' = (adrift \/ fix # NoFix)
               /\ UNCHANGED <<fix, last>>
      BY <1>5, <2>1, <2>3 DEF HttpRead
    <2>4. CASE TornAnswer
      BY <1>5, <2>1, <2>4 DEF HttpRead, TornAnswer, Reboot
    <2> QED
      BY <1>5, <2>2, <2>3, <2>4 DEF HttpRead
  <1>6. CASE HttpTerm
    <2>1. streak = 0
      BY <1>6 DEF HttpTerm, GInv, StreakInv
    <2> QED
      BY <1>6, <2>1 DEF HttpTerm, Remembered, auxVars
  <1>7. CASE Restart
    BY <1>7 DEF Restart, Reboot, auxVars
  <1>8. CASE HttpInit \/ HttpPara
    BY <1>8 DEF HttpInit, HttpPara, AfterBadPara, auxVars
  <1>9. CASE Check \/ NotStarted \/ PowerOn \/ Assist \/ Delay \/ UNCHANGED vars
    BY <1>9 DEF Check, NotStarted, PowerOn, Assist, Delay, vars, auxVars
  <1> QED
    BY <1>1, <1>2, <1>3, <1>4, <1>5, <1>6, <1>7, <1>8, <1>9 DEF Next

\* A fix is left out only while the server has a position within five metres,
\* whatever failed before, unless the last report of a position ended without
\* the program knowing whether it got through.
THEOREM FilterAgrees == Spec => []ServerAgrees
  <1>1. Init => AgreeInv
    BY DEF Init, AgreeInv, ServerAgrees
  <1>2. AgreeInv => ServerAgrees
    BY DEF AgreeInv
  <1> QED
    BY <1>1, <1>2, InitGInv, NextGInv, NextAgreeInv, PTL DEF Spec

-----------------------------------------------------------------------------
\* When AT+HTTPINIT and AT+HTTPTERM never fail, http_perform_action leaves the
\* service closed however the exchanges between them end.
THEOREM ServiceClosed ==
    ASSUME "init" \notin Faulty, "term" \notin Faulty
    PROVE  Spec => []SessionClosed
  <1> DEFINE SInv == pc \in {"check", "poweron", "assist", "locate", "init", "delay"} => ~session
  <1>1. Init => SInv
    BY DEF Init
  <1>2. SInv /\ [Next]_vars => SInv'
    <2> SUFFICES ASSUME SInv, [Next]_vars PROVE SInv'
      OBVIOUS
    <2>1. CASE HttpInit
      BY <2>1 DEF HttpInit, Fault
    <2>2. CASE HttpTerm
      BY <2>2 DEF HttpTerm, Fault
    <2>3. CASE HttpPara \/ HttpAction
      BY <2>3 DEF HttpPara, AfterBadPara, HttpAction
    <2>4. CASE Check \/ NotStarted \/ PowerOn \/ Assist \/ ReportNoFix \/ Delay
      BY <2>4 DEF Check, NotStarted, PowerOn, Assist, ReportNoFix, Delay
    <2>7. CASE Restart \/ HttpRead
      BY <2>7 DEF Restart, HttpRead, TornAnswer, Reboot
    <2>5. ASSUME NEW p \in Points, Skip(p) \/ Report(p) PROVE SInv'
      BY <2>5 DEF Skip, Report
    <2>6. CASE UNCHANGED vars
      BY <2>6 DEF vars
    <2> QED
      BY <2>1, <2>2, <2>3, <2>4, <2>5, <2>6, <2>7 DEF Next
  <1>3. SInv => SessionClosed
    BY DEF SessionClosed
  <1> QED
    BY <1>1, <1>2, <1>3, PTL DEF Spec

=============================================================================
