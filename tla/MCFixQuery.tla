----------------------------- MODULE MCFixQuery -----------------------------
(****************************************************************************)
(* The answers to AT+CGNSSINFO with which TLC checks FixQuery: with and     *)
(* without a fix, with a mode, a count or a latitude that is missing or     *)
(* blank, in each hemisphere; and the answer that has nothing but commas.   *)
(****************************************************************************)
EXTENDS FixQuery

Num(k) == [n |-> k, c |-> "digit"]
Letter(l) == [n |-> 0, c |-> l]

Positions == {<<lat, ns, Num(70), ew>> :
                lat \in {Num(40), Num(5), Missing},
                ns \in {Letter("N"), Letter("S")},
                ew \in {Letter("E"), Letter("W")}}

Skies == {<<mode, gps, glonass, Num(1)>> :
            mode \in {Num(0), Num(3), Missing, Blank},
            gps \in {Num(2), Num(9)},
            glonass \in {Num(4), Missing}}

\* Date, time and altitude, which take the place of a field when others miss.
Rest == <<Num(6), Num(8), Num(12)>>

MCAnswers == {sky \o pos \o Rest : sky \in Skies, pos \in Positions}
               \cup {[i \in 1..11 |-> Missing]}

=============================================================================
