------------------------------ MODULE FixQuery ------------------------------
(****************************************************************************)
(* gnss_get_fixed_pos_info with the parser it relies on: it asks the        *)
(* receiver for a position until an answer has a fix or the time is up, and *)
(* files the fields of each answer in one gnss_info_t that it clears once.  *)
(*                                                                          *)
(* An answer is its sequence of fields, in the order gnss_info_field_handler*)
(* names them: mode, satellites of three systems, latitude, N/S, longitude, *)
(* E/W.  A field is what the handler reads of it: the number atoi or atof   *)
(* finds (n) and its first character (c).  Date, time, altitude, speed and  *)
(* course follow; filing them is left out.                                  *)
(****************************************************************************)
EXTENDS Integers, Sequences, Selection

CONSTANTS
    Missing,    \* a field without a character between its commas
    Blank,      \* a field of spaces only
    Answers,    \* the answers the modem may give to AT+CGNSSINFO
    Timeout,    \* timeout_ms, in seconds
    Longest     \* seconds an exchange takes at most once it has uart_mutex

Token == [n : Int, c : {"N", "S", "E", "W", "digit"}]

ASSUME FieldAssumption ==
    /\ Missing \notin Token
    /\ Blank \notin Token
    /\ Missing # Blank
    /\ Answers \subseteq Seq(Token \cup {Missing, Blank})
ASSUME TimeAssumption == Timeout \in Nat \ {0} /\ Longest \in Nat \ {0}

VARIABLES
    pc,         \* in the loop, or how the last call ended
    info,       \* the caller's gnss_info_t
    spent,      \* seconds since the call
    last        \* the last answer that was parsed

vars == <<pc, info, spent, last>>

Cleared == [fix_mode |-> 0, num_satellites |-> 0, latitude |-> 0, longitude |-> 0]

Init ==
    /\ pc = "idle"
    /\ info = Cleared
    /\ spent = 0
    /\ last = <<>>

-----------------------------------------------------------------------------
(* parse_at_command_response with gnss_info_field_handler *)

\* strtok_r takes adjacent commas for one: a missing field is not delivered,
\* and those that follow it are counted one lower.
Delivered(answer) == Selected(answer, {i \in DOMAIN answer : answer[i] # Missing})

\* The handler is called for index i (from 0) with something in the token.
Files(tokens, i) == i < Len(tokens) /\ tokens[i + 1] # Blank

Number(tokens, i, other) == IF Files(tokens, i) THEN tokens[i + 1].n ELSE other

\* Mutant: the degrees are added to, as the satellites are.
DegreesAdded(tokens, i, negative, old) ==
    LET d == old + Number(tokens, i, 0)
    IN  IF Files(tokens, i + 1) /\ tokens[i + 2].c = negative THEN -d ELSE d

\* The number at index i, which the letter after it turns negative.
Degrees(tokens, i, negative, old) ==
    LET d == Number(tokens, i, old)
    IN  IF Files(tokens, i + 1) /\ tokens[i + 2].c = negative THEN -d ELSE d

Parsed(answer) ==
    LET t == Delivered(answer)
    IN  [fix_mode       |-> Number(t, 0, info.fix_mode),
         num_satellites |-> info.num_satellites + Number(t, 1, 0)
                              + Number(t, 2, 0) + Number(t, 3, 0),
         latitude       |-> Degrees(t, 4, "S", info.latitude),
         longitude      |-> Degrees(t, 6, "W", info.longitude)]

\* gnss_is_valid
Valid(i) == i.fix_mode \in 1..3

-----------------------------------------------------------------------------
(* gnss_get_fixed_pos_info *)

\* Mutant: the caller's gnss_info_t is not cleared.
CallKeeping ==
    /\ pc # "loop"
    /\ pc' = "loop"
    /\ spent' = 0
    /\ UNCHANGED <<info, last>>

Call ==
    /\ pc # "loop"
    /\ pc' = "loop"
    /\ info' = Cleared
    /\ spent' = 0
    /\ UNCHANGED last

\* Mutant: one more exchange once the time is up.
TimeLeftOver == spent <= Timeout

TimeLeft == spent < Timeout

\* An exchange: a read of it waits a second, unless the answer fills the buffer.
Exchange ==
    /\ pc = "loop"
    /\ TimeLeft
    /\ \E s \in 1..Longest : spent' = spent + s

Query(answer) ==
    /\ Exchange
    /\ info' = Parsed(answer)
    /\ last' = answer
    /\ pc' = IF Valid(info') THEN "fixed" ELSE "loop"

\* modem_send_command_and_expect returns anything but MODEM_OK.
QueryFails ==
    /\ Exchange
    /\ UNCHANGED <<pc, info, last>>

GiveUp ==
    /\ pc = "loop"
    /\ ~TimeLeft
    /\ pc' = "timeout"
    /\ UNCHANGED <<info, spent, last>>

Next ==
    \/ Call
    \/ \E answer \in Answers : Query(answer)
    \/ QueryFails
    \/ GiveUp

Spec == Init /\ [][Next]_vars

-----------------------------------------------------------------------------
(* Properties *)

\* gnss_get_fixed_pos_info never begins an exchange after its time is up: it
\* lasts less than timeout_ms and one exchange, apart from waits for uart_mutex.
EndsInTime == spent \in 0..(Timeout + Longest - 1)

\* The types of gnss_get_fixed_pos_info's state, with the bound on its time.
TypeOK ==
    /\ pc \in {"idle", "loop", "fixed", "timeout"}
    /\ info \in [fix_mode : Int, num_satellites : Int, latitude : Int, longitude : Int]
    /\ EndsInTime
    /\ last \in Seq(Token \cup {Missing, Blank})

\* A call that reports a fix has it from its last answer: what an earlier
\* answer, or an earlier call, left in the structure never passes for one.
FreshFix ==
    pc = "fixed" =>
        LET t == Delivered(last)
        IN  t # <<>> /\ t[1] # Blank /\ t[1].n \in 1..3

Full(answer) == Len(answer) >= 8 /\ \A i \in 1..8 : answer[i] \notin {Missing, Blank}

South(answer) == IF answer[6].c = "S" THEN -1 ELSE 1
West(answer) == IF answer[8].c = "W" THEN -1 ELSE 1

\* The position of a fix is that of the answer with the fix, when no field of
\* it is empty, whatever the answers before it had filed.
PositionOfLast ==
    pc = "fixed" /\ Full(last) =>
        /\ info.latitude = South(last) * last[5].n
        /\ info.longitude = West(last) * last[7].n

\* Each field is filed under its own name, whichever others are empty: the
\* latitude that is returned is the latitude field of the answer.
FieldsInPlace ==
    pc = "fixed" /\ last[5] \notin {Missing, Blank} =>
        info.latitude \in {last[5].n, -last[5].n}

=============================================================================
