------------------------------ MODULE AtChannel ------------------------------
(****************************************************************************)
(* What at/modem.c promises to the tasks that share the modem: exchanges of *)
(* one command and its answer, one at a time, each ending with a result     *)
(* code that is justified by the answer the modem gave to that very command.*)
(*                                                                          *)
(* The codes are those of at/modem.h.  A caller cannot control how the      *)
(* answer is cut into reads, so the code is one of the verdicts some prefix *)
(* of the answer supports; with Lossy the UART may have dropped lines of    *)
(* it, and Noise unsolicited lines may have used up the caller's buffer.    *)
(****************************************************************************)
EXTENDS Naturals, Sequences, FiniteSets

CONSTANTS
    Tasks,      \* the tasks that talk to the modem
    NoTask,     \* "the channel is free"
    Lines,      \* the kinds of line a modem sends
    Commands,   \* the commands the tasks use
    Expect,     \* Expect[c]: the line the caller of c waits for besides OK
    Cap,        \* Cap[c]: lines that fill the caller's buffer (res_size - 1)
    Answers,    \* Answers[c]: the answers the modem may give to c
    Lossy,      \* whether the UART may drop received lines
    Noise       \* unsolicited lines that may arrive during one exchange

VARIABLES
    holder,     \* the task whose exchange is going on, or NoTask
    request,    \* the command of that exchange
    answer,     \* <<>> until the modem answers it with r, then <<r>>
    code        \* the result code, "none" until it is decided

vars == <<holder, request, answer, code>>

Has(s, K, line) == \E i \in K : s[i] = line

\* What a buffer decides that holds the lines of s at the indices K, in the
\* order the code tests.
Decide(c, s, K) ==
    CASE Cardinality(K) >= Cap[c]                        -> "OVERFLOW"
      [] Cardinality(K) < Cap[c] /\ Has(s, K, "ERROR")   -> "ERR"
      [] Cardinality(K) < Cap[c] /\ ~Has(s, K, "ERROR")
         /\ Has(s, K, Expect[c]) /\ Has(s, K, "OK")      -> "OK"
      [] OTHER                                           -> "none"

\* What is reported when the time is up with those lines in the buffer.
Expired(c, s, K) == IF Has(s, K, Expect[c]) THEN "TIMEOUT" ELSE "UNEXPECTED"

\* The indices of s the buffer may hold after some of the reads: all up to the
\* last, or any of them if lines may be lost ...
Parts(s) == {K \in SUBSET DOMAIN s : Lossy \/ \A i \in K : 1..i \subseteq K}

\* ... and after the last of the reads.
Wholes(s) == {K \in Parts(s) : Lossy \/ K = DOMAIN s}

\* The verdicts some way of cutting s into reads leads to.
Outcomes(c, s) ==
    ({Decide(c, s, K) : K \in Parts(s)} \ {"none"})
      \cup {Expired(c, s, K) : K \in {W \in Wholes(s) : Decide(c, s, W) = "none"}}
      \cup (IF Len(s) + Noise >= Cap[c] THEN {"OVERFLOW"} ELSE {})

-----------------------------------------------------------------------------
Init ==
    /\ holder = NoTask
    /\ request = "none"
    /\ answer = <<>>
    /\ code = "none"

Begin(t, c) ==
    /\ holder = NoTask
    /\ holder' = t
    /\ request' = c
    /\ UNCHANGED <<answer, code>>

Answer ==
    /\ holder # NoTask
    /\ answer = <<>>
    /\ code = "none"
    /\ \E r \in Answers[request] : answer' = <<r>>
    /\ UNCHANGED <<holder, request, code>>

Conclude ==
    /\ answer # <<>>
    /\ code = "none"
    /\ code' \in Outcomes(request, answer[1])
    /\ UNCHANGED <<holder, request, answer>>

End ==
    /\ code # "none"
    /\ holder' = NoTask
    /\ request' = "none"
    /\ answer' = <<>>
    /\ code' = "none"

Next ==
    \/ \E t \in Tasks, c \in Commands : Begin(t, c)
    \/ Answer
    \/ Conclude
    \/ End

Spec == Init /\ [][Next]_vars

=============================================================================
