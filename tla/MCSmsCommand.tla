----------------------------- MODULE MCSmsCommand -----------------------------
(****************************************************************************)
(* The alphabet and the commands with which TLC checks SmsCommand: commands *)
(* of one and two letters, a buffer that holds one letter more, and texts   *)
(* long enough to be cut to it.                                             *)
(****************************************************************************)
EXTENDS SmsCommand

MCLower == [x \in Chars |-> IF x = "A" THEN "a" ELSE x]
MCPassword == <<"1">>
MCSpelling ==
    [c \in Commands |->
        CASE c = "check" -> <<"a">>
          [] c = "imei" -> <<"b">>
          [] c = "smslink" -> <<"a", "b">>
          [] c = "gps" -> <<"b", "a">>
          [] c = "signal" -> <<"a", "a">>
          [] c = "status" -> <<"b", "b">>
          [] c = "help" -> <<"c">>]

=============================================================================
