------------------------------ MODULE SmsCommand ------------------------------
(****************************************************************************)
(* sms_utils_process_sms_command: what the text of an SMS asks for, the     *)
(* queries made to answer it, and the battery charge and uptime the answer  *)
(* shows; with the string helpers it uses and the battery part of           *)
(* modem_board.c.                                                           *)
(*                                                                          *)
(* A text is a sequence of characters over a small alphabet, a query one    *)
(* exchange with the modem that succeeds or fails.  What the answers of the *)
(* modem say is left out, what the battery and the clock say is not.        *)
(****************************************************************************)
EXTENDS Integers, Sequences, FiniteSets, FiniteSetsExt, Selection

CONSTANTS
    Chars,      \* the alphabet
    Digits,     \* its digits
    Blanks,     \* its blanks
    Lower,      \* tolower
    Password,   \* "1234"
    Spelling,   \* the name of each command, as sms_utils.c spells it
    BufSize,    \* of command_without_password (16)
    MaxLen,     \* bound: characters in a text
    Uptimes,    \* bound: the minutes since boot looked at
    PinMv,      \* voltages at the pin of the ADC, half that of the battery
    Garbage     \* what an uninitialized uint32_t may hold

\* SMS_COMMAND_INTERVAL, RESET, SLEEP, WAKE and HELP are one: "help".
Commands == {"check", "imei", "smslink", "gps", "signal", "status", "help"}

ASSUME TextAssumption ==
    /\ Digits \subseteq Chars
    /\ Blanks \subseteq Chars \ Digits
    /\ Lower \in [Chars -> Chars]
    /\ \A x \in Digits \cup Blanks : Lower[x] = x
    /\ Password \in Seq(Digits) \ {<<>>}
    /\ Spelling \in [Commands -> Seq(Chars \ (Digits \cup Blanks))]
    /\ \A c, d \in Commands : Spelling[c] = Spelling[d] => c = d
    /\ BufSize \in Nat
    /\ \A c \in Commands : Len(Spelling[c]) < BufSize - 1
    /\ MaxLen \in Nat
ASSUME BoardAssumption ==
    /\ Uptimes \subseteq Nat
    /\ 0 \in Uptimes
    /\ PinMv \subseteq Nat
    /\ Garbage \subseteq Nat

VARIABLES
    pc,         \* what has become of the text
    text,       \* the text of the message, as it came
    cmd,        \* sms_command
    todo,       \* the queries still to make
    reply,      \* new_message
    adc,        \* of the battery: to be set up, "ready", or "failed"
    up,         \* minutes since boot
    asked       \* auxiliary: the queries that succeeded for this text

vars == <<pc, text, cmd, todo, reply, adc, up, asked>>

NoReply == [cmd |-> "none"]
Texts == UNION {[1..n -> Chars] : n \in 0..MaxLen}

Init ==
    /\ pc = "idle"
    /\ text = <<>>
    /\ cmd = "none"
    /\ todo = <<>>
    /\ reply = NoReply
    /\ adc = "none"
    /\ up = 0
    /\ asked = {}

-----------------------------------------------------------------------------
(* Strings *)

\* trim_string: blanks are taken off both ends.
Trim(t) ==
    LET solid == {i \in DOMAIN t : t[i] \notin Blanks}
    IN  IF solid = {} THEN <<>> ELSE SubSeq(t, Min(solid), Max(solid))

\* strstr
Contains(t, s) == \E i \in 0..Len(t) - Len(s) : SubSeq(t, i + 1, i + Len(s)) = s

\* The characters of t that are no digits.
WithoutDigits(t) == Selected(t, {i \in DOMAIN t : t[i] \notin Digits})

\* Mutant: the result is cut to what the longest command needs.
RemoveDigitsShort(t) ==
    LET word == WithoutDigits(t) IN SubSeq(word, 1, Min({Len(word), 2}))

\* remove_digits, into BufSize bytes, the last of which is the NUL.
RemoveDigits(t) ==
    LET word == WithoutDigits(t) IN SubSeq(word, 1, Min({Len(word), BufSize - 1}))

\* to_lowercase
ToLower(t) == [i \in DOMAIN t |-> Lower[t[i]]]

\* sms_utils_string_to_sms_command
Named(t) == {c \in Commands : Spelling[c] = t}

-----------------------------------------------------------------------------
(* The battery *)

\* Mutant: a voltage above 4200 mV is not taken for a full battery.
PercentUnclamped(mv) == IF mv <= 3000 THEN 0 ELSE ((mv - 3000) \div 12) % 256

\* modem_board_battery_voltage_to_percent
Percent(mv) ==
    IF mv <= 3000 THEN 0
    ELSE IF mv >= 4200 THEN 100
    ELSE ((mv - 3000) * 100) \div 1200

\* modem_board_read_battery_voltage_mv: the divider halves the voltage.
BatteryMv(pin) == pin * 2

\* modem_board_battery_adc_init, which app_main calls once; it gives up at the
\* first step that fails, and app_main goes on.
AdcInit ==
    /\ adc = "none"
    /\ adc' \in {"ready", "failed"}
    /\ UNCHANGED <<pc, text, cmd, todo, reply, up, asked>>

-----------------------------------------------------------------------------
(* sms_utils_process_sms_command *)

Tick ==
    /\ \E u \in Uptimes : u > up /\ up' = u
    /\ UNCHANGED <<pc, text, cmd, todo, reply, adc, asked>>

\* sms_read_and_delete_message hands over the text of the next message.
Receive ==
    /\ pc = "idle"
    /\ adc # "none"
    /\ pc' = "text"
    /\ text' \in Texts
    /\ UNCHANGED <<cmd, todo, reply, adc, up, asked>>

Asked(t) == IF Contains(Trim(t), Password)
            THEN Named(ToLower(RemoveDigits(Trim(t))))
            ELSE {}

\* No password, or no command of that name.
Reject ==
    /\ pc = "text"
    /\ Asked(text) = {}
    /\ pc' = "ignored"
    /\ UNCHANGED <<text, cmd, todo, reply, adc, up, asked>>

Queries(c) ==
    CASE c = "imei" -> <<"AT+SIMEI?">>
      [] c \in {"smslink", "gps"} -> <<"fix">>
      [] c = "signal" -> <<"AT+CPSI?", "AT+CSQ">>
      [] c = "status" -> <<"fix", "AT+CPSI?", "AT+CSQ">>
      [] OTHER -> <<>>

Interpret ==
    /\ pc = "text"
    /\ cmd' \in Asked(text)
    /\ todo' = Queries(cmd')
    /\ pc' = "query"
    /\ UNCHANGED <<text, reply, adc, up, asked>>

\* Mutant: the result of a query is not looked at.
QueryAnyway ==
    /\ pc = "query"
    /\ todo # <<>>
    /\ todo' = Tail(todo)
    /\ asked' \in {asked, asked \cup {Head(todo)}}
    /\ UNCHANGED <<pc, text, cmd, reply, adc, up>>

Query ==
    /\ pc = "query"
    /\ todo # <<>>
    /\ todo' = Tail(todo)
    /\ asked' = asked \cup {Head(todo)}
    /\ UNCHANGED <<pc, text, cmd, reply, adc, up>>

\* The function returns false at the first query that fails.
QueryFails ==
    /\ pc = "query"
    /\ todo # <<>>
    /\ todo' = <<>>
    /\ pc' = "failed"
    /\ UNCHANGED <<text, cmd, reply, adc, up, asked>>

\* total_minutes, from microseconds.
TotalMinutes == up \div 1000

\* uint8_t h and m
Hours == (TotalMinutes \div 60) % 256

\* Mutant: the full hours are left in.
MinutesWhole == TotalMinutes % 256

Minutes == TotalMinutes % 60

\* The answer; "pin" and "at", which are not in it, are what the battery and
\* the clock said then.  When the battery cannot be read, bat_level_mv is
\* whatever it was.
Answer ==
    /\ pc = "query"
    /\ todo = <<>>
    /\ \/ /\ cmd # "status"
          /\ reply' = [cmd |-> cmd]
       \/ /\ cmd = "status"
          /\ \E pin \in PinMv, mv \in Garbage, read \in BOOLEAN :
               /\ read => adc = "ready"
               /\ reply' = [cmd |-> cmd,
                            battery |-> Percent(IF read THEN BatteryMv(pin) ELSE mv),
                            hours |-> Hours, minutes |-> Minutes,
                            read |-> read, pin |-> pin, at |-> up]
    /\ pc' = "replied"
    /\ UNCHANGED <<text, cmd, todo, adc, up, asked>>

\* sms_process_cmti returns: what it knew of the message is gone.
Return ==
    /\ pc \in {"ignored", "failed", "replied"}
    /\ pc' = "idle"
    /\ text' = <<>>
    /\ cmd' = "none"
    /\ reply' = NoReply
    /\ asked' = {}
    /\ UNCHANGED <<todo, adc, up>>

Next ==
    \/ AdcInit
    \/ Tick
    \/ Receive
    \/ Reject \/ Interpret
    \/ Query \/ QueryFails \/ Answer \/ Return

Spec == Init /\ [][Next]_vars

-----------------------------------------------------------------------------
(* Properties *)

TypeOK ==
    /\ pc \in {"idle", "text", "ignored", "query", "failed", "replied"}
    /\ text \in Seq(Chars)
    /\ cmd \in Commands \cup {"none"}
    /\ todo \in Seq({"AT+SIMEI?", "fix", "AT+CPSI?", "AT+CSQ"})
    /\ \/ reply = NoReply
       \/ reply \in [cmd : Commands \ {"status"}]
       \/ reply \in [cmd : {"status"}, battery : 0..255, hours : 0..255, minutes : 0..59,
                    read : BOOLEAN, pin : PinMv, at : Uptimes]
    /\ adc \in {"none", "ready", "failed"}
    /\ up \in Uptimes
    /\ asked \subseteq {"AT+SIMEI?", "fix", "AT+CPSI?", "AT+CSQ"}

\* The format of README.md: [command][password], in any case, between blanks.
Formatted(t, c) ==
    \E i \in 0..Len(t) :
        LET n == Len(Spelling[c])
            j == i + n + Len(Password)
        IN  /\ j <= Len(t)
            /\ \A k \in 1..i : t[k] \in Blanks
            /\ \A k \in 1..n : Lower[t[i + k]] = Spelling[c][k]
            /\ SubSeq(t, i + n + 1, j) = Password
            /\ \A k \in (j + 1)..Len(t) : t[k] \in Blanks

\* A text that spells out the command and nothing else but digits and the
\* blanks around it.
Spells(t, c) ==
    LET word == WithoutDigits(t)
    IN  \E i \in 0..Len(word) :
            LET n == Len(Spelling[c])
            IN  /\ i + n <= Len(word)
                /\ \A k \in 1..Len(word) :
                     IF k \in (i + 1)..(i + n) THEN Lower[word[k]] = Spelling[c][k - i]
                                               ELSE word[k] \in Blanks

\* Every text in the documented format is carried out as the command it names,
\* and nothing is carried out that does not spell the command in full and hold
\* the password: neither the 16 bytes that hold the command nor the digits
\* taken out of it turn another text into one.
RightCommand ==
    /\ \A c \in Commands : Formatted(text, c) => pc # "ignored" /\ cmd \in {"none", c}
    /\ cmd # "none" => Contains(text, Password) /\ Spells(text, cmd)

\* An answer was made from all the queries its command calls for, each of them
\* made for this message.
ReplyComplete ==
    reply # NoReply => reply.cmd = cmd /\ asked = {Queries(cmd)[i] : i \in DOMAIN Queries(cmd)}

\* The charge shown is a percentage, even when the voltage was never read, and
\* when it was read it is that of the voltage, rounded down.
BatteryShown ==
    reply # NoReply /\ reply.cmd = "status" =>
        /\ reply.battery \in 0..100
        /\ reply.read =>
             LET mv == 2 * reply.pin
             IN  /\ mv > 3000 /\ mv < 4200 =>
                      reply.battery * 12 <= mv - 3000 /\ mv - 3000 < reply.battery * 12 + 12
                 /\ mv <= 3000 => reply.battery = 0
                 /\ mv >= 4200 => reply.battery = 100

\* The uptime shown is the uptime.
UptimeShown ==
    reply # NoReply /\ reply.cmd = "status" => reply.hours * 60 + reply.minutes = reply.at

=============================================================================
