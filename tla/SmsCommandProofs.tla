-------------------------- MODULE SmsCommandProofs --------------------------
(****************************************************************************)
(* Proofs about SmsCommand for every alphabet, password, spelling of the    *)
(* commands, buffer size, length of the texts and voltage: a text is        *)
(* carried out as the command that it spells, with its password, or not at  *)
(* all, and always when it has the documented format; an answer comes from  *)
(* all the queries of its command; and the charge it shows is a percentage, *)
(* and the true one when the voltage was read.                              *)
(****************************************************************************)
EXTENDS SmsCommand, SelectionProofs, TLAPS

AllQueries == {"AT+SIMEI?", "fix", "AT+CPSI?", "AT+CSQ"}
Elements(s) == {s[i] : i \in DOMAIN s}

\* The queries of every command are a sequence of queries.
LEMMA QueriesType == ASSUME NEW c PROVE Queries(c) \in Seq(AllQueries)
  <1>1. \A x, y, z \in AllQueries : <<x>> \in Seq(AllQueries) /\ <<x, y>> \in Seq(AllQueries)
                                    /\ <<x, y, z>> \in Seq(AllQueries)
    OBVIOUS
  <1>2. <<>> \in Seq(AllQueries)
    OBVIOUS
  <1>3. \/ Queries(c) = <<>>
        \/ Queries(c) = <<"AT+SIMEI?">>
        \/ Queries(c) = <<"fix">>
        \/ Queries(c) = <<"AT+CPSI?", "AT+CSQ">>
        \/ Queries(c) = <<"fix", "AT+CPSI?", "AT+CSQ">>
    BY DEF Queries
  <1>4. {"AT+SIMEI?", "fix", "AT+CPSI?", "AT+CSQ"} \subseteq AllQueries
    BY DEF AllQueries
  <1> QED
    BY <1>1, <1>2, <1>3, <1>4

\* What is in a sequence is its head and what is in its tail.
LEMMA HeadAndTail ==
    ASSUME NEW S, NEW s \in Seq(S), s # <<>>
    PROVE  /\ Tail(s) \in Seq(S)
           /\ Elements(s) = {Head(s)} \cup Elements(Tail(s))
  <1>1. Tail(s) \in Seq(S) /\ Len(s) \in Nat \ {0} /\ DOMAIN s = 1..Len(s)
    OBVIOUS
  <1>2. DOMAIN Tail(s) = 1..(Len(s) - 1)
    BY <1>1
  <1>3. \A i \in 1..(Len(s) - 1) : Tail(s)[i] = s[i + 1]
    BY <1>1
  <1>4. \A x \in Elements(s) : x = Head(s) \/ x \in Elements(Tail(s))
    <2> SUFFICES ASSUME NEW i \in 1..Len(s), s[i] # Head(s)
                 PROVE  s[i] \in Elements(Tail(s))
      BY <1>1 DEF Elements
    <2>1. i # 1
      BY <1>1
    <2>2. i - 1 \in 1..(Len(s) - 1) /\ s[i] = Tail(s)[i - 1]
      BY <1>1, <1>3, <2>1
    <2> QED
      BY <1>2, <2>2 DEF Elements
  <1>5. \A x \in Elements(Tail(s)) : x \in Elements(s)
    <2> SUFFICES ASSUME NEW i \in 1..(Len(s) - 1) PROVE Tail(s)[i] \in Elements(s)
      BY <1>2 DEF Elements
    <2>1. i + 1 \in 1..Len(s)
      BY <1>1
    <2> QED
      BY <1>1, <1>3, <2>1 DEF Elements
  <1>6. Head(s) \in Elements(s)
    BY <1>1 DEF Elements
  <1> QED
    BY <1>1, <1>4, <1>5, <1>6

-----------------------------------------------------------------------------
\* The queries that succeeded and those still to make are those of the command.
AskedInv ==
    /\ todo \in Seq(AllQueries)
    /\ pc # "query" => todo = <<>>
    /\ pc \in {"idle", "text"} => cmd = "none" /\ asked = {}
    /\ pc = "query" => asked \cup Elements(todo) = Elements(Queries(cmd))
    /\ pc # "replied" => reply = NoReply
    /\ pc = "replied" => asked = Elements(Queries(cmd)) /\ reply.cmd = cmd

LEMMA NextAskedInv == AskedInv /\ [Next]_vars => AskedInv'
  <1> SUFFICES ASSUME AskedInv, [Next]_vars PROVE AskedInv'
    OBVIOUS
  <1>e. Elements(<<>>) = {}
    BY DEF Elements
  <1>1. CASE AdcInit \/ Tick \/ UNCHANGED vars
    BY <1>1 DEF AdcInit, Tick, vars, AskedInv
  <1>2. CASE Receive
    BY <1>2 DEF Receive, AskedInv
  <1>3. CASE Reject
    BY <1>3 DEF Reject, AskedInv
  <1>4. CASE Interpret
    <2>1. todo' \in Seq(AllQueries)
      BY <1>4, QueriesType DEF Interpret
    <2>2. asked = {} /\ asked' = asked /\ todo' = Queries(cmd') /\ pc' = "query"
      BY <1>4 DEF Interpret, AskedInv
    <2>3. reply' = NoReply
      BY <1>4 DEF Interpret, AskedInv
    <2> QED
      BY <2>1, <2>2, <2>3 DEF AskedInv
  <1>5. CASE Query
    <2>1. /\ Tail(todo) \in Seq(AllQueries)
          /\ Elements(todo) = {Head(todo)} \cup Elements(Tail(todo))
      BY <1>5, HeadAndTail DEF Query, AskedInv
    <2>2. todo' = Tail(todo) /\ asked' = asked \cup {Head(todo)}
          /\ UNCHANGED <<pc, cmd, reply>> /\ pc = "query"
      BY <1>5 DEF Query
    <2>3. asked' \cup Elements(todo') = Elements(Queries(cmd'))
      BY <2>1, <2>2 DEF AskedInv
    <2> QED
      BY <2>1, <2>2, <2>3 DEF AskedInv
  <1>6. CASE QueryFails
    BY <1>6 DEF QueryFails, AskedInv
  <1>7. CASE Answer
    <2>1. reply'.cmd = cmd
      BY <1>7 DEF Answer
    <2>2. asked = Elements(Queries(cmd))
      BY <1>7, <1>e DEF Answer, AskedInv
    <2> QED
      BY <1>7, <2>1, <2>2 DEF Answer, AskedInv
  <1>8. CASE Return
    BY <1>8 DEF Return, AskedInv
  <1> QED
    BY <1>1, <1>2, <1>3, <1>4, <1>5, <1>6, <1>7, <1>8 DEF Next

\* No answer goes out that lacks the result of one of its queries.
THEOREM AnswerHasAll == Spec => []ReplyComplete
  <1>1. Init => AskedInv
    BY DEF Init, AskedInv
  <1>2. AskedInv => ReplyComplete
    BY DEF AskedInv, ReplyComplete, Elements
  <1> QED
    BY <1>1, <1>2, NextAskedInv, PTL DEF Spec

-----------------------------------------------------------------------------
\* The percentage of any voltage that a uint32_t can hold, rounded down.
THEOREM PercentRight ==
    ASSUME NEW mv \in Nat
    PROVE  /\ Percent(mv) \in 0..100
           /\ mv > 3000 /\ mv < 4200 =>
                Percent(mv) * 12 <= mv - 3000 /\ mv - 3000 < Percent(mv) * 12 + 12
           /\ mv <= 3000 => Percent(mv) = 0
           /\ mv >= 4200 => Percent(mv) = 100
  <1>1. CASE mv > 3000 /\ mv < 4200
    <2>1. Percent(mv) = ((mv - 3000) * 100) \div 1200
      BY <1>1 DEF Percent
    <2>2. \A n \in 0..1199 : /\ (n * 100) \div 1200 \in 0..100
                             /\ ((n * 100) \div 1200) * 12 <= n
                             /\ n < ((n * 100) \div 1200) * 12 + 12
      OBVIOUS
    <2> QED
      BY <1>1, <2>1, <2>2
  <1>2. CASE mv <= 3000 \/ mv >= 4200
    BY <1>2 DEF Percent
  <1> QED
    BY <1>1, <1>2

\* The charge shown is that of the voltage read, and a percentage in any case.
THEOREM ChargeShown == Spec => []BatteryShown
  <1>1. Init => BatteryShown
    BY DEF Init, BatteryShown
  <1>2. BatteryShown /\ [Next]_vars => BatteryShown'
    <2> SUFFICES ASSUME BatteryShown, [Next]_vars PROVE BatteryShown'
      OBVIOUS
    <2>1. CASE UNCHANGED reply
      BY <2>1 DEF BatteryShown
    <2>2. CASE reply' = NoReply
      BY <2>2 DEF BatteryShown
    <2>3. CASE Answer /\ cmd # "status"
      BY <2>3 DEF Answer, BatteryShown
    <2>4. CASE Answer /\ cmd = "status"
      <3>1. PICK pin \in PinMv, mv \in Garbage, read \in BOOLEAN :
                reply' = [cmd |-> cmd,
                          battery |-> Percent(IF read THEN BatteryMv(pin) ELSE mv),
                          hours |-> Hours, minutes |-> Minutes,
                          read |-> read, pin |-> pin, at |-> up]
        BY <2>4 DEF Answer
      <3>2. /\ reply'.battery = Percent(IF read THEN BatteryMv(pin) ELSE mv)
            /\ reply'.read = read
            /\ reply'.pin = pin
        BY <3>1
      <3>3. pin \in Nat /\ mv \in Nat
        BY BoardAssumption
      <3>4. CASE read
        BY <3>2, <3>3, <3>4, PercentRight DEF BatteryMv, BatteryShown
      <3>5. CASE ~read
        BY <3>2, <3>3, <3>5, PercentRight DEF BatteryShown
      <3> QED
        BY <3>4, <3>5
    <2> QED
      BY <2>1, <2>2, <2>3, <2>4 DEF Next, vars, AdcInit, Tick, Receive, Reject, Interpret,
         Query, QueryFails, Return
  <1> QED
    BY <1>1, <1>2, PTL DEF Spec

-----------------------------------------------------------------------------
\* A text is one of characters, and whatever it asks for is a command.
LEMMA TextsAreTexts == ASSUME NEW t \in Texts PROVE t \in Seq(Chars)
  <1>1. PICK n \in 0..MaxLen : t \in [1..n -> Chars]
    BY DEF Texts
  <1>2. n \in Nat
    BY <1>1, TextAssumption
  <1> QED
    BY <1>1, <1>2, SeqDef

LEMMA AskedType == ASSUME NEW t PROVE Asked(t) \subseteq Commands
  BY DEF Asked, Named

\* What the interpreter holds, with the command it answers being one.
TypeInv == TypeOK /\ (pc = "query" => cmd \in Commands)

\* An answer about the battery and the clock has a percentage and two counts
\* that fit their formats.
LEMMA AnswerType == TypeInv /\ Answer => TypeInv'
  <1> SUFFICES ASSUME TypeInv, Answer PROVE TypeInv'
    OBVIOUS
  <1>1. /\ pc = "query" /\ pc' = "replied" /\ cmd \in Commands
        /\ UNCHANGED <<text, cmd, todo, adc, up, asked>>
    BY DEF Answer, TypeInv
  <1>2. \/ reply' \in [cmd : Commands \ {"status"}]
        \/ reply' \in [cmd : {"status"}, battery : 0..255, hours : 0..255, minutes : 0..59,
                       read : BOOLEAN, pin : PinMv, at : Uptimes]
    <2>1. CASE cmd # "status"
      <3>1. reply' = [cmd |-> cmd]
        BY <2>1 DEF Answer
      <3> QED
        BY <1>1, <2>1, <3>1
    <2>2. CASE cmd = "status"
      <3>1. PICK pin \in PinMv, mv \in Garbage, read \in BOOLEAN :
                reply' = [cmd |-> cmd,
                          battery |-> Percent(IF read THEN BatteryMv(pin) ELSE mv),
                          hours |-> Hours, minutes |-> Minutes,
                          read |-> read, pin |-> pin, at |-> up]
        BY <2>2 DEF Answer
      <3>2. pin \in Nat /\ mv \in Nat /\ up \in Nat /\ up \in Uptimes
        BY BoardAssumption DEF TypeInv, TypeOK
      <3>3. Percent(IF read THEN BatteryMv(pin) ELSE mv) \in 0..255
        <4>1. (IF read THEN BatteryMv(pin) ELSE mv) \in Nat
          BY <3>2 DEF BatteryMv
        <4>2. Percent(IF read THEN BatteryMv(pin) ELSE mv) \in 0..100
          BY <4>1, PercentRight
        <4> QED
          BY <4>2
      <3>4. Hours \in 0..255 /\ Minutes \in 0..59
        <4>1. TotalMinutes \in Nat
          BY <3>2 DEF TotalMinutes
        <4>2. TotalMinutes \div 60 \in Nat
          BY <4>1
        <4> QED
          BY <4>1, <4>2 DEF Hours, Minutes
      <3> HIDE DEF Percent
      <3> QED
        BY <2>2, <3>1, <3>2, <3>3, <3>4
    <2> QED
      BY <2>1, <2>2
  <1> QED
    BY <1>1, <1>2 DEF TypeInv, TypeOK

\* The types hold.
THEOREM TypeCorrect == Spec => []TypeOK
  <1>1. Init => TypeInv
    BY BoardAssumption DEF Init, TypeInv, TypeOK, NoReply
  <1>2. TypeInv /\ [Next]_vars => TypeInv'
    <2> SUFFICES ASSUME TypeInv, [Next]_vars PROVE TypeInv'
      OBVIOUS
    <2> USE DEF TypeInv, TypeOK
    <2>0. CASE UNCHANGED vars
      BY <2>0 DEF vars
    <2>1. CASE AdcInit
      BY <2>1 DEF AdcInit
    <2>9. CASE Tick
      BY <2>9 DEF Tick
    <2>2. CASE Receive
      BY <2>2, TextsAreTexts DEF Receive
    <2>3. CASE Reject
      BY <2>3 DEF Reject
    <2>4. CASE Interpret
      <3>1. cmd' \in Commands /\ todo' \in Seq(AllQueries)
        BY <2>4, AskedType, QueriesType DEF Interpret
      <3> QED
        BY <2>4, <3>1 DEF Interpret, AllQueries
    <2>5. CASE Query
      <3>1. Head(todo) \in AllQueries /\ Tail(todo) \in Seq(AllQueries)
        <4>1. todo \in Seq(AllQueries) /\ todo # <<>>
          BY <2>5 DEF Query, AllQueries
        <4> QED
          BY <4>1
      <3> QED
        BY <2>5, <3>1 DEF Query, AllQueries
    <2>6. CASE QueryFails
      BY <2>6 DEF QueryFails
    <2>7. CASE Answer
      <3> HIDE DEF TypeInv, TypeOK
      <3> QED
        BY <2>7, AnswerType
    <2>8. CASE Return
      BY <2>8 DEF Return
    <2> QED
      BY <2>0, <2>1, <2>2, <2>3, <2>4, <2>5, <2>6, <2>7, <2>8, <2>9 DEF Next
  <1> QED
    BY <1>1, <1>2, PTL DEF Spec, TypeInv

-----------------------------------------------------------------------------
(* The strings of the interpreter *)

\* The least and the greatest of some indices are among them.
LEMMA Ends ==
    ASSUME NEW N \in Nat, NEW K \in SUBSET (1..N), K # {}
    PROVE  /\ Min(K) \in K /\ Max(K) \in K
           /\ \A k \in K : Min(K) <= k /\ k <= Max(K)
  <1> DEFINE C == Cardinality(K)
  <1>1. /\ C \in Nat
        /\ \A k \in K : Rank(K, k) \in 1..C
        /\ \A n \in 1..C : \E k \in K : Rank(K, k) = n
    BY RankOfEach
  <1>2. ASSUME NEW j \in K, NEW k \in K, j < k PROVE Rank(K, j) < Rank(K, k)
    <2>1. j \in Nat
      OBVIOUS
    <2> QED
      BY <1>2, <2>1, RankRises
  <1> HIDE DEF C
  <1>3. 1 \in 1..C /\ C \in 1..C
    <2>1. PICK k \in K : TRUE
      OBVIOUS
    <2>2. Rank(K, k) \in 1..C
      BY <1>1, <2>1
    <2> QED
      BY <1>1, <2>2
  <1>4. PICK a \in K : Rank(K, a) = 1
    BY <1>1, <1>3
  <1>5. PICK b \in K : Rank(K, b) = C
    BY <1>1, <1>3
  <1>6. \A k \in K : a <= k /\ k <= b
    <2> SUFFICES ASSUME NEW k \in K PROVE a <= k /\ k <= b
      OBVIOUS
    <2>1. Rank(K, k) \in 1..C
      BY <1>1
    <2>2. ~(k < a)
      BY <1>2, <1>4, <2>1
    <2>3. ~(b < k)
      BY <1>1, <1>2, <1>5, <2>1
    <2> QED
      BY <2>2, <2>3
  <1>7. Min(K) \in K /\ \A k \in K : Min(K) <= k
    BY <1>4, <1>6 DEF Min
  <1>8. Max(K) \in K /\ \A k \in K : Max(K) >= k
    BY <1>5, <1>6 DEF Max
  <1> QED
    BY <1>7, <1>8

\* What stands behind the first d characters, m of them.
LEMMA Window ==
    ASSUME NEW S, NEW t \in Seq(S), NEW d \in Nat, NEW m \in Nat, d + m <= Len(t)
    PROVE  /\ SubSeq(t, d + 1, d + m) \in Seq(S)
           /\ Len(SubSeq(t, d + 1, d + m)) = m
           /\ \A k \in 1..m : SubSeq(t, d + 1, d + m)[k] = t[d + k]
  <1>1. Len(t) \in Nat /\ \A i \in 1..Len(t) : t[i] \in S
    BY LenProperties, ElementOfSeq
  <1>2. d + 1 \in Int /\ d + m \in Int /\ \A i \in (d + 1)..(d + m) : t[i] \in S
    BY <1>1
  <1>3. /\ SubSeq(t, d + 1, d + m) \in Seq(S)
        /\ Len(SubSeq(t, d + 1, d + m)) = IF d + 1 <= d + m THEN (d + m) - (d + 1) + 1 ELSE 0
        /\ \A i \in 1..((d + m) - (d + 1) + 1) : SubSeq(t, d + 1, d + m)[i] = t[(d + 1) + i - 1]
    BY <1>2, SubSeqProperties
  <1>4. Len(SubSeq(t, d + 1, d + m)) = m
    BY <1>3
  <1>5. ASSUME NEW k \in 1..m PROVE SubSeq(t, d + 1, d + m)[k] = t[d + k]
    <2>1. k \in 1..((d + m) - (d + 1) + 1) /\ (d + 1) + k - 1 = d + k
      OBVIOUS
    <2> QED
      BY <1>3, <2>1
  <1> QED
    BY <1>3, <1>4, <1>5

\* u is t without the d blanks before it and those behind it.
Cut(t, u, d) ==
    /\ u \in Seq(Chars)
    /\ Len(u) \in Nat /\ d + Len(u) <= Len(t)
    /\ \A k \in 1..Len(u) : u[k] = t[d + k]
    /\ \A k \in 1..d : t[k] \in Blanks
    /\ \A k \in 1..Len(t) : k > d + Len(u) => t[k] \in Blanks
    /\ Len(u) # 0 => t[d + 1] \notin Blanks /\ t[d + Len(u)] \notin Blanks

LEMMA TrimCuts == ASSUME NEW t \in Seq(Chars) PROVE \E d \in Nat : Cut(t, Trim(t), d)
  <1> DEFINE solid == {i \in DOMAIN t : t[i] \notin Blanks}
  <1>1. Len(t) \in Nat /\ DOMAIN t = 1..Len(t)
    BY LenProperties
  <1>2. CASE solid = {}
    <2>1. Trim(t) = <<>>
      BY <1>2 DEF Trim
    <2>2. <<>> \in Seq(Chars) /\ Len(<<>>) = 0
      OBVIOUS
    <2>3. \A k \in 1..Len(t) : t[k] \in Blanks
      BY <1>1, <1>2
    <2>4. Cut(t, Trim(t), Len(t))
      BY <1>1, <2>1, <2>2, <2>3 DEF Cut
    <2> QED
      BY <1>1, <2>4
  <1>3. CASE solid # {}
    <2>1. solid \in SUBSET (1..Len(t))
      BY <1>1
    <2>2. Trim(t) = SubSeq(t, Min(solid), Max(solid))
      BY <1>3 DEF Trim
    <2>3. /\ Min(solid) \in solid /\ Max(solid) \in solid
          /\ \A k \in solid : Min(solid) <= k /\ k <= Max(solid)
      <3> HIDE DEF solid
      <3> QED
        BY <1>1, <1>3, <2>1, Ends
    <2>4. PICK a \in 1..Len(t), b \in 1..Len(t) :
            /\ a = Min(solid) /\ b = Max(solid) /\ a <= b
            /\ t[a] \notin Blanks /\ t[b] \notin Blanks
            /\ \A k \in 1..Len(t) : k < a \/ k > b => t[k] \in Blanks
      <3>1. Min(solid) \in 1..Len(t) /\ Max(solid) \in 1..Len(t) /\ Min(solid) <= Max(solid)
        BY <2>1, <2>3
      <3>2. \A k \in 1..Len(t) : k \in solid \/ t[k] \in Blanks
        BY <1>1
      <3>3. t[Min(solid)] \notin Blanks /\ t[Max(solid)] \notin Blanks
        BY <2>3
      <3> HIDE DEF solid
      <3>4. \A k \in 1..Len(t) : k < Min(solid) \/ k > Max(solid) => t[k] \in Blanks
        BY <2>3, <3>1, <3>2
      <3> QED
        BY <3>1, <3>3, <3>4
    <2>5. a - 1 \in Nat /\ b - a + 1 \in Nat /\ (a - 1) + (b - a + 1) = b /\ (a - 1) + 1 = a
      BY <2>4
    <2>6. /\ SubSeq(t, a, b) \in Seq(Chars)
          /\ Len(SubSeq(t, a, b)) = b - a + 1
          /\ \A k \in 1..(b - a + 1) : SubSeq(t, a, b)[k] = t[(a - 1) + k]
      <3> DEFINE d == a - 1
                 m == b - a + 1
      <3>1. d \in Nat /\ m \in Nat /\ d + m <= Len(t) /\ d + 1 = a /\ d + m = b
        BY <1>1, <2>5
      <3> HIDE DEF d, m
      <3>2. /\ SubSeq(t, d + 1, d + m) \in Seq(Chars)
            /\ Len(SubSeq(t, d + 1, d + m)) = m
            /\ \A k \in 1..m : SubSeq(t, d + 1, d + m)[k] = t[d + k]
        BY <3>1, Window
      <3> QED
        BY <3>1, <3>2 DEF d, m
    <2>7. Trim(t) = SubSeq(t, a, b)
      BY <2>2, <2>4
    <2>8. \A k \in 1..(a - 1) : t[k] \in Blanks
      BY <1>1, <2>4
    <2>9. Cut(t, Trim(t), a - 1)
      <3>1. /\ Trim(t) \in Seq(Chars) /\ Len(Trim(t)) = b - a + 1 /\ Len(Trim(t)) \in Nat
            /\ (a - 1) + Len(Trim(t)) = b
            /\ \A k \in 1..Len(Trim(t)) : Trim(t)[k] = t[(a - 1) + k]
        BY <2>5, <2>6, <2>7
      <3>2. (a - 1) + Len(Trim(t)) <= Len(t)
        BY <1>1, <2>4, <3>1
      <3>3. \A k \in 1..Len(t) : k > (a - 1) + Len(Trim(t)) => t[k] \in Blanks
        BY <2>4, <3>1
      <3>4. t[(a - 1) + 1] \notin Blanks /\ t[(a - 1) + Len(Trim(t))] \notin Blanks
        BY <2>4, <2>5, <3>1
      <3> QED
        BY <2>8, <3>1, <3>2, <3>3, <3>4 DEF Cut
    <2> QED
      BY <2>5, <2>9
  <1> QED
    BY <1>2, <1>3

LEMMA MinOfTwo ==
    ASSUME NEW a \in Nat, NEW b \in Nat
    PROVE  Min({a, b}) = IF a <= b THEN a ELSE b
  <1>1. \E x \in {a, b} : \A y \in {a, b} : x <= y
    OBVIOUS
  <1>2. Min({a, b}) \in {a, b} /\ \A y \in {a, b} : Min({a, b}) <= y
    BY <1>1 DEF Min
  <1> QED
    BY <1>2

\* The indices of the characters that remove_digits keeps.
Letters(t) == {i \in DOMAIN t : t[i] \notin Digits}

LEMMA LettersOf ==
    ASSUME NEW t \in Seq(Chars)
    PROVE  /\ Len(t) \in Nat
           /\ Letters(t) \in SUBSET (1..Len(t))
           /\ \A i \in 1..Len(t) : i \in Letters(t) <=> t[i] \notin Digits
           /\ WithoutDigits(t) = Selected(t, Letters(t))
           /\ WithoutDigits(t) \in Seq(Chars)
           /\ Len(WithoutDigits(t)) = Cardinality(Letters(t))
           /\ Cardinality(Letters(t)) \in Nat
  <1>1. Len(t) \in Nat /\ DOMAIN t = 1..Len(t)
    BY LenProperties
  <1>2. /\ Letters(t) \in SUBSET (1..Len(t))
        /\ \A i \in 1..Len(t) : i \in Letters(t) <=> t[i] \notin Digits
    BY <1>1 DEF Letters
  <1>3. WithoutDigits(t) = Selected(t, Letters(t))
    BY DEF WithoutDigits, Letters
  <1>4. /\ Selected(t, Letters(t)) \in Seq(Chars)
        /\ Len(Selected(t, Letters(t))) = Cardinality(Letters(t))
        /\ Cardinality(Letters(t)) \in Nat
    BY <1>2, SelectedEntries
  <1> QED
    BY <1>1, <1>2, <1>3, <1>4

\* Trimming a text takes the same blanks off what is left of it without digits.
LEMMA WordOfCut ==
    ASSUME NEW t \in Seq(Chars), NEW u, NEW d \in Nat, Cut(t, u, d)
    PROVE  LET w == WithoutDigits(t)
               v == WithoutDigits(u)
           IN  /\ d + Len(v) <= Len(w)
               /\ \A k \in 1..d : w[k] \in Blanks
               /\ \A k \in 1..Len(v) : w[d + k] = v[k]
               /\ \A k \in 1..Len(w) : k > d + Len(v) => w[k] \in Blanks
  <1> DEFINE K == Letters(t)
             H == Letters(u)
             w == WithoutDigits(t)
             v == WithoutDigits(u)
  <1>1. /\ u \in Seq(Chars) /\ Len(u) \in Nat /\ d + Len(u) <= Len(t)
        /\ \A k \in 1..Len(u) : u[k] = t[d + k]
        /\ \A k \in 1..d : t[k] \in Blanks
        /\ \A k \in 1..Len(t) : k > d + Len(u) => t[k] \in Blanks
    BY DEF Cut
  <1>2. /\ Len(t) \in Nat /\ K \in SUBSET (1..Len(t))
        /\ \A i \in 1..Len(t) : i \in K <=> t[i] \notin Digits
        /\ w = Selected(t, K) /\ Len(w) = Cardinality(K) /\ Cardinality(K) \in Nat
    BY LettersOf
  <1>3. /\ H \in SUBSET (1..Len(u))
        /\ \A i \in 1..Len(u) : i \in H <=> u[i] \notin Digits
        /\ v = Selected(u, H) /\ Len(v) = Cardinality(H) /\ Cardinality(H) \in Nat
    BY <1>1, LettersOf
  <1> HIDE DEF K, H, w, v
  <1>4. 1..d \subseteq K
    <2> SUFFICES ASSUME NEW k \in 1..d PROVE k \in K
      OBVIOUS
    <2>1. k \in 1..Len(t) /\ t[k] \in Blanks
      BY <1>1, <1>2
    <2>2. t[k] \notin Digits
      BY <2>1, TextAssumption
    <2> QED
      BY <1>2, <2>1, <2>2
  <1>5. \A h \in 1..Len(u) : h \in H <=> d + h \in K
    <2> SUFFICES ASSUME NEW h \in 1..Len(u) PROVE h \in H <=> d + h \in K
      OBVIOUS
    <2>1. d + h \in 1..Len(t) /\ u[h] = t[d + h]
      BY <1>1, <1>2
    <2> QED
      BY <1>2, <1>3, <2>1
  <1>6. \A m \in 0..Len(u) : Rank(K, d + m) = d + Rank(H, m)
    <2> SUFFICES ASSUME NEW m \in 0..Len(u) PROVE Rank(K, d + m) = d + Rank(H, m)
      OBVIOUS
    <2>1. Len(t) \in Nat /\ K \in SUBSET (1..Len(t)) /\ Len(u) \in Nat /\ H \in SUBSET (1..Len(u))
      BY <1>1, <1>2, <1>3
    <2> QED
      BY <2>1, <1>4, <1>5, RankMoved, Zenon
  <1>7. /\ d <= Len(w)
        /\ \A k \in 1..d : w[k] = t[k]
    BY <1>2, <1>4, SelectedUnbroken
  <1>8. /\ \A i \in K : Rank(K, i) \in 1..Cardinality(K) /\ w[Rank(K, i)] = t[i]
        /\ \A n \in 1..Cardinality(K) : \E i \in K : Rank(K, i) = n /\ w[n] = t[i]
    BY <1>2, SelectedEntries
  <1>9. /\ \A i \in H : Rank(H, i) \in 1..Cardinality(H)
        /\ \A n \in 1..Cardinality(H) : \E i \in H : Rank(H, i) = n /\ v[n] = u[i]
    BY <1>1, <1>3, SelectedEntries
  <1>10. ASSUME NEW k \in 1..Len(v) PROVE d + k \in 1..Len(w) /\ w[d + k] = v[k]
    <2>1. PICK h \in H : Rank(H, h) = k /\ v[k] = u[h]
      BY <1>3, <1>9
    <2>2. h \in 1..Len(u) /\ h \in 0..Len(u) /\ d + h \in K /\ u[h] = t[d + h]
      BY <1>1, <1>3, <1>5
    <2>3. Rank(K, d + h) = d + k
      BY <1>6, <2>1, <2>2
    <2> QED
      BY <1>2, <1>8, <2>1, <2>2, <2>3
  <1>11. d + Len(v) <= Len(w)
    <2>1. CASE Len(v) = 0
      BY <1>7, <2>1
    <2>2. CASE Len(v) # 0
      <3>1. Len(v) \in 1..Len(v)
        BY <1>3, <2>2
      <3> QED
        BY <1>2, <1>10, <3>1
    <2> QED
      BY <2>1, <2>2
  <1>12. ASSUME NEW k \in 1..Len(w), k > d + Len(v) PROVE w[k] \in Blanks
    <2>1. PICK i \in K : Rank(K, i) = k /\ w[k] = t[i]
      BY <1>2, <1>8
    <2>2. i \in 1..Len(t) /\ i \in Nat
      BY <1>2
    <2>3. CASE i <= d
      BY <1>1, <2>1, <2>2, <2>3
    <2>4. CASE i > d + Len(u)
      BY <1>1, <2>1, <2>2, <2>4
    <2>5. CASE i > d /\ i <= d + Len(u)
      <3>1. i - d \in 1..Len(u) /\ i - d \in 0..Len(u) /\ d + (i - d) = i
        BY <1>1, <2>2, <2>5
      <3>2. i - d \in H
        BY <1>5, <2>1, <3>1
      <3>3. Rank(H, i - d) \in 1..Len(v)
        BY <1>3, <1>9, <3>2
      <3>4. k = d + Rank(H, i - d)
        BY <1>6, <2>1, <3>1
      <3> QED
        BY <1>3, <1>12, <3>3, <3>4
    <2> QED
      BY <1>1, <2>2, <2>3, <2>4, <2>5
  <1>13. \A k \in 1..d : w[k] \in Blanks
    BY <1>1, <1>7
  <1> QED
    BY <1>10, <1>11, <1>12, <1>13 DEF w, v

\* A command read out of the buffer is all that the text has but digits.
LEMMA NameRead ==
    ASSUME NEW u \in Seq(Chars), NEW c \in Named(ToLower(RemoveDigits(u)))
    PROVE  /\ c \in Commands
           /\ Len(WithoutDigits(u)) = Len(Spelling[c])
           /\ \A k \in 1..Len(Spelling[c]) : Lower[WithoutDigits(u)[k]] = Spelling[c][k]
  <1> DEFINE v == WithoutDigits(u)
             m == Min({Len(v), BufSize - 1})
             r == SubSeq(v, 1, m)
             n == Len(Spelling[c])
  <1>1. c \in Commands /\ Spelling[c] = ToLower(r)
    BY DEF Named, RemoveDigits
  <1>2. v \in Seq(Chars) /\ Len(v) \in Nat
    BY LettersOf
  <1>3. n \in Nat /\ BufSize \in Nat /\ n < BufSize - 1 /\ BufSize - 1 \in Nat
    <2>1. n < BufSize - 1 /\ BufSize \in Nat
      BY <1>1, TextAssumption
    <2>2. Spelling[c] \in Seq(Chars \ (Digits \cup Blanks))
      BY <1>1, TextAssumption
    <2>3. n \in Nat
      BY <2>2, LenProperties
    <2> QED
      BY <2>1, <2>3
  <1>4. m = IF Len(v) <= BufSize - 1 THEN Len(v) ELSE BufSize - 1
    BY <1>2, <1>3, MinOfTwo
  <1> HIDE DEF v, m, n
  <1>5. m \in Nat /\ m <= Len(v)
    BY <1>2, <1>3, <1>4
  <1>6. r \in Seq(Chars) /\ Len(r) = m /\ \A k \in 1..m : r[k] = v[k]
    <2>1. /\ SubSeq(v, 0 + 1, 0 + m) \in Seq(Chars)
          /\ Len(SubSeq(v, 0 + 1, 0 + m)) = m
          /\ \A k \in 1..m : SubSeq(v, 0 + 1, 0 + m)[k] = v[0 + k]
      <3>1. 0 \in Nat /\ 0 + m <= Len(v)
        BY <1>5
      <3> QED
        BY <1>2, <1>5, <3>1, Window
    <2>2. 0 + 1 = 1 /\ 0 + m = m
      BY <1>5
    <2> QED
      BY <2>1, <2>2
  <1> HIDE DEF r
  <1>7. ToLower(r) = [i \in 1..m |-> Lower[r[i]]]
    <2>1. DOMAIN r = 1..m
      BY <1>6, LenProperties
    <2> QED
      BY <2>1 DEF ToLower
  <1>8. n = m
    <2>1. DOMAIN Spelling[c] = 1..n
      <3>1. Spelling[c] \in Seq(Chars \ (Digits \cup Blanks))
        BY <1>1, TextAssumption
      <3> QED
        BY <3>1, LenProperties DEF n
    <2>2. 1..n = 1..m
      BY <1>1, <1>7, <2>1
    <2>3. (n # 0 => n \in 1..m) /\ (m # 0 => m \in 1..n)
      BY <1>3, <1>5, <2>2
    <2> QED
      BY <1>3, <1>5, <2>3
  <1>9. m = Len(v)
    BY <1>2, <1>3, <1>4, <1>8
  <1>10. \A k \in 1..n : Lower[v[k]] = Spelling[c][k]
    BY <1>1, <1>6, <1>7, <1>8
  <1> QED
    BY <1>1, <1>8, <1>9, <1>10 DEF v, n

-----------------------------------------------------------------------------
(* What a text asks for *)

PasswordType == Password \in Seq(Digits) /\ Password \in Seq(Chars) /\ Len(Password) \in Nat \ {0}

LEMMA PasswordIsType == PasswordType
  <1>1. Password \in Seq(Digits) /\ Password # <<>> /\ Digits \subseteq Chars
    BY TextAssumption
  <1>2. Len(Password) \in Nat \ {0}
    BY <1>1
  <1>3. Password \in Seq(Chars)
    BY <1>1
  <1> QED
    BY <1>1, <1>2, <1>3 DEF PasswordType

\* A password in what trimming leaves of a text is one in the text.
LEMMA PasswordInText ==
    ASSUME NEW t \in Seq(Chars), NEW u, NEW d \in Nat, Cut(t, u, d), Contains(u, Password)
    PROVE  Contains(t, Password)
  <1> DEFINE p == Len(Password)
  <1>1. p \in Nat
    BY PasswordIsType DEF PasswordType
  <1>2. /\ u \in Seq(Chars) /\ Len(u) \in Nat /\ Len(t) \in Nat /\ d + Len(u) <= Len(t)
        /\ \A k \in 1..Len(u) : u[k] = t[d + k]
    BY LenProperties DEF Cut
  <1>3. PICK i \in 0..Len(u) - p : SubSeq(u, i + 1, i + p) = Password
    BY DEF Contains
  <1> HIDE DEF p
  <1>4. i \in Nat /\ i + p <= Len(u) /\ d + i \in Nat /\ (d + i) + p <= Len(t)
    BY <1>1, <1>2, <1>3
  <1>5. /\ SubSeq(u, i + 1, i + p) \in Seq(Chars)
        /\ Len(SubSeq(u, i + 1, i + p)) = p
        /\ \A k \in 1..p : SubSeq(u, i + 1, i + p)[k] = u[i + k]
    <2>1. u \in Seq(Chars) /\ i \in Nat /\ p \in Nat /\ i + p <= Len(u)
      BY <1>1, <1>2, <1>4
    <2> QED
      BY <2>1, Window
  <1>6. /\ SubSeq(t, (d + i) + 1, (d + i) + p) \in Seq(Chars)
        /\ Len(SubSeq(t, (d + i) + 1, (d + i) + p)) = p
        /\ \A k \in 1..p : SubSeq(t, (d + i) + 1, (d + i) + p)[k] = t[(d + i) + k]
    <2> DEFINE e == d + i
    <2>1. e \in Nat /\ p \in Nat /\ e + p <= Len(t)
      BY <1>1, <1>4
    <2> HIDE DEF e
    <2>2. /\ SubSeq(t, e + 1, e + p) \in Seq(Chars)
          /\ Len(SubSeq(t, e + 1, e + p)) = p
          /\ \A k \in 1..p : SubSeq(t, e + 1, e + p)[k] = t[e + k]
      BY <2>1, Window
    <2> QED
      BY <2>2 DEF e
  <1>7. ASSUME NEW k \in 1..p PROVE u[i + k] = t[(d + i) + k]
    <2>1. i + k \in 1..Len(u) /\ d + (i + k) = (d + i) + k
      BY <1>1, <1>2, <1>4
    <2> QED
      BY <1>2, <2>1
  <1>8. SubSeq(t, (d + i) + 1, (d + i) + p) = SubSeq(u, i + 1, i + p)
    <2> DEFINE x == SubSeq(t, (d + i) + 1, (d + i) + p)
               y == SubSeq(u, i + 1, i + p)
    <2>1. x \in Seq(Chars) /\ y \in Seq(Chars) /\ Len(x) = Len(y) /\ Len(x) = p
      BY <1>5, <1>6
    <2>2. \A k \in 1..p : x[k] = y[k]
      BY <1>5, <1>6, <1>7
    <2> HIDE DEF x, y
    <2>3. x = y
      BY <2>1, <2>2, SeqEqual
    <2> QED
      BY <2>3 DEF x, y
  <1>9. d + i \in 0..Len(t) - p
    BY <1>1, <1>2, <1>4
  <1> QED
    BY <1>3, <1>8, <1>9 DEF Contains, p

\* Only a text that has the password and spells the command, and nothing else
\* but digits and the blanks around it, asks for a command.
THEOREM NothingElseIsAsked ==
    ASSUME NEW t \in Seq(Chars), NEW c \in Asked(t)
    PROVE  Contains(t, Password) /\ Spells(t, c)
  <1> DEFINE u == Trim(t)
             w == WithoutDigits(t)
             v == WithoutDigits(u)
             n == Len(Spelling[c])
  <1>1. Contains(u, Password) /\ c \in Named(ToLower(RemoveDigits(u)))
    BY DEF Asked
  <1>2. PICK d \in Nat : Cut(t, u, d)
    BY TrimCuts
  <1>3. u \in Seq(Chars)
    BY <1>2 DEF Cut
  <1>4. /\ d + Len(v) <= Len(w)
        /\ \A k \in 1..d : w[k] \in Blanks
        /\ \A k \in 1..Len(v) : w[d + k] = v[k]
        /\ \A k \in 1..Len(w) : k > d + Len(v) => w[k] \in Blanks
    <2> HIDE DEF u
    <2> QED
      BY <1>2, WordOfCut
  <1> HIDE DEF u
  <1>5. Len(v) = n /\ \A k \in 1..n : Lower[v[k]] = Spelling[c][k]
    BY <1>1, <1>3, NameRead
  <1>6. Len(w) \in Nat /\ Len(v) \in Nat
    BY <1>3, LettersOf
  <1> HIDE DEF v, w, n
  <1>7. ASSUME NEW k \in 1..Len(w)
        PROVE  IF k \in (d + 1)..(d + n) THEN Lower[w[k]] = Spelling[c][k - d] ELSE w[k] \in Blanks
    <2>1. CASE k \in (d + 1)..(d + n)
      <3>1. k - d \in 1..n /\ d + (k - d) = k
        BY <1>5, <1>6, <2>1
      <3> QED
        BY <1>4, <1>5, <2>1, <3>1
    <2>2. CASE k \notin (d + 1)..(d + n)
      <3>1. k \in 1..d \/ k > d + n
        BY <1>5, <1>6, <2>2
      <3> QED
        BY <1>4, <1>5, <2>2, <3>1
    <2> QED
      BY <2>1, <2>2
  <1>8. d \in 0..Len(w) /\ d + n <= Len(w)
    BY <1>4, <1>5, <1>6
  <1>9. Spells(t, c)
    BY <1>7, <1>8 DEF Spells, w, n
  <1> QED
    BY <1>1, <1>2, <1>9, PasswordInText

\* A text is cut in one way only: where its first and its last character stand
\* that are no blanks.
LEMMA CutIsOne ==
    ASSUME NEW t \in Seq(Chars), NEW u, NEW d \in Nat, Cut(t, u, d),
           NEW e \in Nat, NEW m \in Nat \ {0}, e + m <= Len(t),
           \A k \in 1..e : t[k] \in Blanks,
           \A k \in 1..Len(t) : k > e + m => t[k] \in Blanks,
           t[e + 1] \notin Blanks, t[e + m] \notin Blanks
    PROVE  d = e /\ Len(u) = m
  <1>1. /\ Len(u) \in Nat /\ Len(t) \in Nat /\ d + Len(u) <= Len(t)
        /\ \A k \in 1..d : t[k] \in Blanks
        /\ \A k \in 1..Len(t) : k > d + Len(u) => t[k] \in Blanks
        /\ Len(u) # 0 => t[d + 1] \notin Blanks /\ t[d + Len(u)] \notin Blanks
    BY LenProperties DEF Cut
  <1>2. e + 1 \in 1..Len(t) /\ e + m \in 1..Len(t)
    BY <1>1
  <1>3. e + 1 > d /\ e + m <= d + Len(u)
    <2>1. ~(e + 1 \in 1..d)
      BY <1>1
    <2>2. ~(e + m > d + Len(u))
      BY <1>1, <1>2
    <2> QED
      BY <1>1, <1>2, <2>1, <2>2
  <1>4. Len(u) # 0
    BY <1>1, <1>3
  <1>5. d + 1 \in 1..Len(t) /\ d + Len(u) \in 1..Len(t)
    BY <1>1, <1>4
  <1>6. d + 1 > e /\ d + Len(u) <= e + m
    <2>1. ~(d + 1 \in 1..e)
      BY <1>1, <1>4
    <2>2. ~(d + Len(u) > e + m)
      BY <1>1, <1>4, <1>5
    <2> QED
      BY <1>1, <1>5, <2>1, <2>2
  <1> QED
    BY <1>1, <1>3, <1>6

\* A text in the format of README.md asks for the command it names.
THEOREM FormattedIsAsked ==
    ASSUME NEW t \in Seq(Chars), NEW c \in Commands, Formatted(t, c)
    PROVE  Asked(t) = {c}
  <1> DEFINE n == Len(Spelling[c])
             p == Len(Password)
             u == Trim(t)
             v == WithoutDigits(u)
             K == Letters(u)
  <1>1. /\ n \in Nat /\ n < BufSize - 1 /\ BufSize - 1 \in Nat
        /\ Spelling[c] \in Seq(Chars \ (Digits \cup Blanks))
        /\ DOMAIN Spelling[c] = 1..n
        /\ \A k \in 1..n : Spelling[c][k] \notin Digits \cup Blanks
    <2>1. Spelling[c] \in Seq(Chars \ (Digits \cup Blanks)) /\ n < BufSize - 1 /\ BufSize \in Nat
      BY TextAssumption
    <2>2. n \in Nat /\ DOMAIN Spelling[c] = 1..n
      BY <2>1, LenProperties
    <2>3. \A k \in 1..n : Spelling[c][k] \in Chars \ (Digits \cup Blanks)
      BY <2>1, ElementOfSeq
    <2>4. BufSize - 1 \in Nat
      BY <2>1, <2>2
    <2> QED
      BY <2>1, <2>2, <2>3, <2>4
  <1>2. /\ p \in Nat \ {0} /\ Password \in Seq(Chars)
        /\ \A k \in 1..p : Password[k] \in Digits
    BY PasswordIsType, ElementOfSeq DEF PasswordType
  <1>3. PICK e \in 0..Len(t) :
          /\ e + n + p <= Len(t)
          /\ \A k \in 1..e : t[k] \in Blanks
          /\ \A k \in 1..n : Lower[t[e + k]] = Spelling[c][k]
          /\ SubSeq(t, e + n + 1, e + n + p) = Password
          /\ \A k \in (e + n + p + 1)..Len(t) : t[k] \in Blanks
    BY DEF Formatted
  <1>4. Len(t) \in Nat /\ e \in Nat
    BY <1>3, LenProperties
  <1>5. PICK d \in Nat : Cut(t, u, d)
    BY TrimCuts
  <1>6. /\ u \in Seq(Chars) /\ Len(u) \in Nat /\ DOMAIN u = 1..Len(u)
        /\ \A k \in 1..Len(u) : u[k] = t[d + k]
    BY <1>5, LenProperties DEF Cut
  <1> HIDE DEF n, p, u
  \* The characters of the command and of the password.
  <1>7. ASSUME NEW k \in 1..n PROVE t[e + k] \notin Digits \cup Blanks
    BY <1>1, <1>3, TextAssumption
  <1>8. ASSUME NEW k \in 1..p PROVE t[e + n + k] = Password[k]
    <2>1. (e + n) + p <= Len(t) /\ e + n \in Nat /\ p \in Nat
      BY <1>1, <1>2, <1>3, <1>4
    <2> DEFINE f == e + n
    <2>2. f \in Nat /\ f + p <= Len(t)
      BY <2>1
    <2> HIDE DEF f
    <2>3. \A h \in 1..p : SubSeq(t, f + 1, f + p)[h] = t[f + h]
      BY <2>1, <2>2, Window
    <2> QED
      BY <1>3, <2>3 DEF f
  <1>9. \A k \in 1..p : t[e + n + k] \in Digits /\ t[e + n + k] \notin Blanks
    BY <1>2, <1>8, TextAssumption
  <1>10. d = e /\ Len(u) = n + p
    <2>1. n + p \in Nat \ {0} /\ e + (n + p) <= Len(t)
      BY <1>1, <1>2, <1>3, <1>4
    <2>2. \A k \in 1..Len(t) : k > e + (n + p) => t[k] \in Blanks
      BY <1>1, <1>2, <1>3, <1>4
    <2>3. t[e + 1] \notin Blanks
      <3>1. CASE n = 0
        <4>1. 1 \in 1..p /\ e + n + 1 = e + 1
          BY <1>2, <1>4, <3>1
        <4> QED
          BY <1>9, <4>1
      <3>2. CASE n # 0
        <4>1. 1 \in 1..n
          BY <1>1, <3>2
        <4> QED
          BY <1>7, <4>1
      <3> QED
        BY <3>1, <3>2
    <2>4. t[e + (n + p)] \notin Blanks
      <3>1. p \in 1..p /\ e + n + p = e + (n + p)
        BY <1>1, <1>2, <1>4
      <3> QED
        BY <1>9, <3>1
    <2> QED
      BY <1>3, <1>4, <1>5, <2>1, <2>2, <2>3, <2>4, CutIsOne
  <1>11. \A k \in 1..n : u[k] = t[e + k] /\ k \in 1..Len(u)
    BY <1>1, <1>2, <1>6, <1>10
  <1>12. \A k \in 1..p : u[n + k] = Password[k] /\ n + k \in 1..Len(u)
    <2> SUFFICES ASSUME NEW k \in 1..p PROVE u[n + k] = Password[k] /\ n + k \in 1..Len(u)
      OBVIOUS
    <2>1. n + k \in 1..Len(u) /\ d + (n + k) = e + n + k
      BY <1>1, <1>2, <1>4, <1>10
    <2> QED
      BY <1>6, <1>8, <2>1
  \* The password is found.
  <1>13. Contains(u, Password)
    <2>1. n + p <= Len(u) /\ p \in Nat /\ n \in Nat /\ u \in Seq(Chars)
      BY <1>1, <1>2, <1>6, <1>10
    <2>2. /\ SubSeq(u, n + 1, n + p) \in Seq(Chars)
          /\ Len(SubSeq(u, n + 1, n + p)) = p
          /\ \A k \in 1..p : SubSeq(u, n + 1, n + p)[k] = u[n + k]
      BY <2>1, Window
    <2>3. SubSeq(u, n + 1, n + p) = Password
      <3> DEFINE x == SubSeq(u, n + 1, n + p)
      <3>1. x \in Seq(Chars) /\ Len(x) = Len(Password) /\ \A k \in 1..Len(x) : x[k] = Password[k]
        BY <1>12, <2>2 DEF p
      <3> HIDE DEF x
      <3>2. x = Password
        BY <1>2, <3>1, SeqEqual
      <3> QED
        BY <3>2 DEF x
    <2>4. n \in 0..Len(u) - p
      BY <1>1, <1>2, <1>6, <1>10
    <2> QED
      BY <2>3, <2>4 DEF Contains, p
  \* The command is what is no digit.
  <1>14. /\ K \in SUBSET (1..Len(u))
         /\ \A i \in 1..Len(u) : i \in K <=> u[i] \notin Digits
         /\ v = Selected(u, K) /\ v \in Seq(Chars) /\ Len(v) = Cardinality(K)
    BY <1>6, LettersOf
  <1> HIDE DEF K, v
  <1>15. K = 1..n
    <2>1. \A i \in 1..n : i \in K
      BY <1>7, <1>11, <1>14
    <2>2. ASSUME NEW i \in K PROVE i \in 1..n
      <3>1. i \in 1..Len(u) /\ u[i] \notin Digits
        BY <1>14
      <3>2. CASE i > n
        <4>1. i - n \in 1..p /\ n + (i - n) = i
          BY <1>1, <1>2, <1>10, <3>1, <3>2
        <4> QED
          BY <1>2, <1>12, <3>1, <4>1
      <3> QED
        BY <1>1, <3>1, <3>2
    <2> QED
      BY <2>1, <2>2
  <1>16. Len(v) = n
    <2>1. 1 \in Int /\ n \in Int
      BY <1>1
    <2>2. Cardinality(1..n) = IF 1 > n THEN 0 ELSE n - 1 + 1
      BY <2>1, FS_Interval
    <2> QED
      BY <1>1, <1>14, <1>15, <2>2
  <1>17. \A k \in 1..n : v[k] = t[e + k]
    <2>1. \A k \in 1..n : Selected(u, K)[k] = u[k]
      <3>1. n \in Nat /\ 1..n \subseteq K
        BY <1>1, <1>15
      <3> QED
        BY <1>6, <1>14, <3>1, SelectedUnbroken
    <2> QED
      BY <1>11, <1>14, <2>1
  <1>18. RemoveDigits(u) = v
    <2>1. Min({Len(v), BufSize - 1}) = n
      <3>1. Min({n, BufSize - 1}) = n
        BY <1>1, MinOfTwo
      <3> QED
        BY <1>16, <3>1
    <2>2. RemoveDigits(u) = SubSeq(v, 1, Len(v))
      BY <1>16, <2>1 DEF RemoveDigits, v
    <2> QED
      BY <1>14, <2>2, SubSeqFull
  <1>19. ToLower(v) = Spelling[c]
    <2>1. DOMAIN v = 1..n
      BY <1>14, <1>16, LenProperties
    <2>2. ToLower(v) = [k \in 1..n |-> Lower[v[k]]]
      BY <2>1 DEF ToLower
    <2>3. \A k \in 1..n : Lower[v[k]] = Spelling[c][k]
      BY <1>3, <1>17
    <2>4. Spelling[c] = [k \in 1..n |-> Spelling[c][k]]
      <3>1. Spelling[c] \in [1..n -> Chars \ (Digits \cup Blanks)]
        BY <1>1, LenProperties DEF n
      <3> QED
        BY <3>1
    <2> QED
      BY <2>2, <2>3, <2>4
  <1>20. Named(Spelling[c]) = {c}
    BY TextAssumption DEF Named
  <1> QED
    BY <1>13, <1>18, <1>19, <1>20 DEF Asked, u

-----------------------------------------------------------------------------
\* The command under way is the one the text asks for, and a text is ignored
\* only when it asks for none.
TextInv ==
    /\ text \in Seq(Chars)
    /\ cmd \in Commands \cup {"none"}
    /\ pc \in {"idle", "text", "ignored"} => cmd = "none"
    /\ pc = "ignored" => Asked(text) = {}
    /\ cmd # "none" => cmd \in Asked(text)

LEMMA NextTextInv == TextInv /\ [Next]_vars => TextInv'
  <1> SUFFICES ASSUME TextInv, [Next]_vars PROVE TextInv'
    OBVIOUS
  <1> USE DEF TextInv
  <1>1. CASE Receive
    BY <1>1, TextsAreTexts DEF Receive
  <1>2. CASE Reject
    BY <1>2 DEF Reject
  <1>3. CASE Interpret
    <2>1. cmd' \in Asked(text) /\ cmd' \in Commands /\ text' = text /\ pc' = "query"
      BY <1>3, AskedType DEF Interpret
    <2>2. Asked(text)' = Asked(text)
      BY <2>1 DEF Asked
    <2> QED
      BY <2>1, <2>2
  <1>4. CASE Return
    BY <1>4 DEF Return
  <1>5. CASE AdcInit \/ Tick \/ UNCHANGED vars
    BY <1>5 DEF AdcInit, Tick, vars, Asked
  <1>6. CASE Query \/ QueryFails \/ Answer
    BY <1>6 DEF Query, QueryFails, Answer, Asked
  <1> QED
    BY <1>1, <1>2, <1>3, <1>4, <1>5, <1>6 DEF Next

\* What is carried out is what the text says in the documented format, and
\* every text in that format is carried out.
THEOREM CommandIsRight == Spec => []RightCommand
  <1>1. Init => TextInv
    BY DEF Init, TextInv
  <1>2. TextInv => RightCommand
    <2> SUFFICES ASSUME TextInv PROVE RightCommand
      OBVIOUS
    <2>1. ASSUME NEW c \in Commands, Formatted(text, c)
          PROVE  pc # "ignored" /\ cmd \in {"none", c}
      <3>1. Asked(text) = {c}
        BY <2>1, FormattedIsAsked DEF TextInv
      <3> QED
        BY <3>1 DEF TextInv
    <2>2. ASSUME cmd # "none" PROVE Contains(text, Password) /\ Spells(text, cmd)
      BY <2>2, NothingElseIsAsked DEF TextInv
    <2> QED
      BY <2>1, <2>2 DEF RightCommand
  <1> QED
    BY <1>1, <1>2, NextTextInv, PTL DEF Spec

=============================================================================
