----------------------------- MODULE MCModemLink -----------------------------
(****************************************************************************)
(* Command profiles and bounds under which TLC checks ModemLink.            *)
(*                                                                          *)
(* Three commands stand for the callers under at/: AT for those that wait   *)
(* for OK only, INFO for a query whose marker comes before OK (CGNSSINFO,   *)
(* CSQ, CMGL, CMGRD ...), ACTION for HTTPACTION, whose marker follows OK.   *)
(* READ stands for HTTPREAD, whose data follow the OK its caller waits for, *)
(* and LONG for a CMGL that does not fit its 4096 bytes.                    *)
(****************************************************************************)
EXTENDS ModemLink, TLC

MCLines == {"OK", "ERROR", "URC", "INFO", "ACTION", "DATA"}

Symmetry == Permutations(Tasks)

MCExpect == [c \in Commands |->
    CASE c = "INFO"   -> "INFO"
      [] c = "LONG"   -> "INFO"
      [] c = "ACTION" -> "ACTION"
      [] OTHER        -> "OK"]

MCCap == [c \in Commands |-> IF c = "LONG" THEN 2 ELSE IF c = "AT" THEN 3 ELSE 4]

\* A time-out under two seconds and the longer ones.
MCReads == [c \in Commands |-> IF c = "ACTION" THEN 3 ELSE 2]

MCAnswers == [c \in Commands |->
    CASE c = "INFO"   -> {<<"INFO", "OK">>, <<"OK">>, <<"ERROR">>, <<>>}
      [] c = "LONG"   -> {<<"INFO", "INFO", "OK">>}
      [] c = "ACTION" -> {<<"OK", "ACTION">>, <<"OK">>, <<"ERROR">>}
      [] c = "READ"   -> {<<"OK", "DATA">>, <<"ERROR">>}
      [] OTHER        -> {<<"OK">>, <<"ERROR">>, <<>>}]

\* The profiles of link_intime are those callers expect; READ and LONG are not.
ASSUME ProfileAssumption == "READ" \notin Commands /\ "LONG" \notin Commands => AnswersFit

=============================================================================
