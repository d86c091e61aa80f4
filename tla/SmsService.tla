------------------------------ MODULE SmsService ------------------------------
(****************************************************************************)
(* What the tracker promises of the messages sent to it, whatever fails and *)
(* however often it restarts: one message is worked on at a time; a message *)
(* is dealt with at most once and gets at most one answer; and only one     *)
(* that holds the password and a known command gets any.                    *)
(****************************************************************************)
EXTENDS Naturals

CONSTANTS
    Msgs,       \* the messages that may be sent
    Valid       \* those that hold the password and a known command

VARIABLES
    fate,       \* what has become of each message
    replies     \* the messages that were answered

vars == <<fate, replies>>

Init ==
    /\ fate \in [Msgs -> {"unsent", "stored"}]
    /\ replies = {}

Becomes(m, f) == fate' = [fate EXCEPT ![m] = f]

Arrive(m) ==
    /\ fate[m] = "unsent"
    /\ Becomes(m, "stored")
    /\ UNCHANGED replies

Take(m) ==
    /\ fate[m] = "stored"
    /\ \A n \in Msgs : fate[n] # "taken"
    /\ Becomes(m, "taken")
    /\ UNCHANGED replies

Answer(m) ==
    /\ fate[m] = "taken"
    /\ m \in Valid
    /\ Becomes(m, "answered")
    /\ replies' = replies \cup {m}

\* The answer does not go out.
Fail(m) ==
    /\ fate[m] = "taken"
    /\ Becomes(m, "unanswered")
    /\ UNCHANGED replies

Ignore(m) ==
    /\ fate[m] = "taken"
    /\ Becomes(m, "ignored")
    /\ UNCHANGED replies

\* The message was deleted and is not worked on any more.
Lose(m) ==
    /\ fate[m] \in {"stored", "taken"}
    /\ Becomes(m, "lost")
    /\ UNCHANGED replies

Next == \E m \in Msgs :
    Arrive(m) \/ Take(m) \/ Answer(m) \/ Fail(m) \/ Ignore(m) \/ Lose(m)

Spec == Init /\ [][Next]_vars

=============================================================================
