--------------------------- MODULE FixQueryProofs ---------------------------
(****************************************************************************)
(* Proofs about FixQuery for every set of answers, whatever is missing in   *)
(* them, every timeout and every length of an exchange.                     *)
(****************************************************************************)
EXTENDS FixQuery, SelectionProofs

\* While the call is in its loop no answer has filed the mode of a fix, so
\* that a valid mode can only come from the answer being parsed.
LoopInv == pc = "loop" => ~Valid(info)

\* The mode is that of the answer just parsed, or the one before.
LEMMA ModeFiled ==
    ASSUME NEW answer, Valid(Parsed(answer)), ~Valid(info)
    PROVE  LET t == Delivered(answer)
           IN  t # <<>> /\ t[1] # Blank /\ t[1].n \in 1..3
  <1> DEFINE t == Delivered(answer)
  <1> HIDE DEF t
  <1>1. Number(t, 0, info.fix_mode) \in 1..3
    BY DEF Valid, Parsed, t
  <1>2. info.fix_mode \notin 1..3
    BY DEF Valid
  <1>3. Files(t, 0) /\ t[1].n \in 1..3
    BY <1>1, <1>2 DEF Number
  <1>4. t # <<>>
    <2> SUFFICES ASSUME t = <<>> PROVE FALSE
      OBVIOUS
    <2>1. Len(t) = 0
      OBVIOUS
    <2> QED
      BY <1>3, <2>1 DEF Files
  <1> QED
    BY <1>3, <1>4 DEF Files, t

LEMMA NextLoopInv == LoopInv /\ FreshFix /\ [Next]_vars => LoopInv' /\ FreshFix'
  <1> SUFFICES ASSUME LoopInv, FreshFix, [Next]_vars PROVE LoopInv' /\ FreshFix'
    OBVIOUS
  <1>1. CASE Call
    BY <1>1 DEF Call, Cleared, LoopInv, FreshFix, Valid
  <1>2. ASSUME NEW answer \in Answers, Query(answer) PROVE LoopInv' /\ FreshFix'
    <2>1. info' = Parsed(answer) /\ last' = answer
      BY <1>2 DEF Query
    <2>2. ~Valid(info)
      BY <1>2 DEF Query, Exchange, LoopInv
    <2>3. CASE Valid(Parsed(answer))
      <3>1. pc' = "fixed"
        BY <1>2, <2>1, <2>3 DEF Query
      <3>2. FreshFix'
        BY <2>1, <2>2, <2>3, ModeFiled DEF FreshFix
      <3> QED
        BY <3>1, <3>2 DEF LoopInv
    <2>4. CASE ~Valid(Parsed(answer))
      <3>1. pc' = "loop"
        BY <1>2, <2>1, <2>4 DEF Query
      <3>2. ~Valid(info')
        BY <2>1, <2>4
      <3> QED
        BY <3>1, <3>2 DEF LoopInv, FreshFix, Valid
    <2> QED
      BY <2>3, <2>4
  <1>3. CASE QueryFails
    BY <1>3 DEF QueryFails, Exchange, LoopInv, FreshFix
  <1>4. CASE GiveUp
    BY <1>4 DEF GiveUp, LoopInv, FreshFix
  <1>5. CASE UNCHANGED vars
    BY <1>5 DEF vars, LoopInv, FreshFix
  <1> QED
    BY <1>1, <1>2, <1>3, <1>4, <1>5 DEF Next

\* A fix that gnss_get_fixed_pos_info returns was in the last answer it
\* parsed: neither an earlier answer nor an earlier call can supply its mode.
THEOREM FixIsFresh == Spec => []FreshFix
  <1>1. Init => LoopInv /\ FreshFix
    BY DEF Init, LoopInv, FreshFix
  <1> QED
    BY <1>1, NextLoopInv, PTL DEF Spec

\* gnss_get_fixed_pos_info lasts less than timeout_ms and one exchange,
\* however many answers come without a fix and however many exchanges fail.
THEOREM CallBounded == Spec => []EndsInTime
  <1>1. Init => EndsInTime
    BY TimeAssumption DEF Init, EndsInTime
  <1>2. EndsInTime /\ [Next]_vars => EndsInTime'
    <2> SUFFICES ASSUME EndsInTime, [Next]_vars PROVE EndsInTime'
      OBVIOUS
    <2>1. CASE Call
      BY <2>1, TimeAssumption DEF Call, EndsInTime
    <2>2. CASE Exchange
      BY <2>2, TimeAssumption DEF Exchange, TimeLeft, EndsInTime
    <2>3. CASE UNCHANGED spent
      BY <2>3 DEF EndsInTime
    <2> QED
      BY <2>1, <2>2, <2>3 DEF Next, Query, QueryFails, GiveUp, vars
  <1> QED
    BY <1>1, <1>2, PTL DEF Spec

-----------------------------------------------------------------------------
(* What is delivered of an answer *)

\* The handler gets tokens and blanks, and while no field is missing it gets
\* each at its own index.
LEMMA DeliveredFields ==
    ASSUME NEW answer \in Seq(Token \cup {Missing, Blank})
    PROVE  /\ Delivered(answer) \in Seq(Token \cup {Blank})
           /\ \A m \in Nat :
                m <= Len(answer) /\ (\A i \in 1..m : answer[i] # Missing) =>
                  /\ m <= Len(Delivered(answer))
                  /\ \A i \in 1..m : Delivered(answer)[i] = answer[i]
  <1> DEFINE K == {i \in DOMAIN answer : answer[i] # Missing}
             t == Delivered(answer)
  <1>1. /\ DOMAIN answer = 1..Len(answer) /\ Len(answer) \in Nat
        /\ \A i \in 1..Len(answer) : answer[i] \in Token \cup {Missing, Blank}
    BY LenProperties, ElementOfSeq
  <1>2. /\ K \in SUBSET (1..Len(answer)) /\ t = Selected(answer, K)
        /\ \A i \in K : answer[i] \in Token \cup {Blank}
    BY <1>1 DEF Delivered
  <1> HIDE DEF K, t
  <1>3. t \in Seq(Token \cup {Blank})
    <2>1. /\ t \in Seq(Token \cup {Missing, Blank}) /\ Len(t) = Cardinality(K)
          /\ \A n \in 1..Cardinality(K) : \E i \in K : Rank(K, i) = n /\ t[n] = answer[i]
      BY <1>2, SelectedEntries
    <2>2. \A n \in 1..Len(t) : t[n] \in Token \cup {Blank}
      BY <1>2, <2>1
    <2>3. DOMAIN t = 1..Len(t) /\ Len(t) \in Nat /\ t \in [1..Len(t) -> Token \cup {Missing, Blank}]
      BY <2>1, LenProperties
    <2>4. t \in [1..Len(t) -> Token \cup {Blank}]
      BY <2>2, <2>3
    <2> QED
      BY <2>3, <2>4, SeqDef
  <1>4. ASSUME NEW m \in Nat, m <= Len(answer), \A i \in 1..m : answer[i] # Missing
        PROVE  m <= Len(t) /\ \A i \in 1..m : t[i] = answer[i]
    <2>1. 1..m \subseteq K
      BY <1>1, <1>4 DEF K
    <2> QED
      BY <1>2, <2>1, SelectedUnbroken
  <1> QED
    BY <1>3, <1>4 DEF t

\* What is filed of a field is an integer.
LEMMA FiledInt ==
    ASSUME NEW t \in Seq(Token \cup {Blank}), NEW i \in Nat, NEW other \in Int, NEW negative
    PROVE  Number(t, i, other) \in Int /\ Degrees(t, i, negative, other) \in Int
  <1>1. Len(t) \in Nat /\ \A k \in 1..Len(t) : t[k] \in Token \cup {Blank}
    BY LenProperties, ElementOfSeq
  <1>2. Number(t, i, other) \in Int
    <2>1. CASE Files(t, i)
      <3>1. i + 1 \in 1..Len(t) /\ t[i + 1] # Blank
        BY <1>1, <2>1 DEF Files
      <3>2. t[i + 1] \in Token
        BY <1>1, <3>1
      <3>3. t[i + 1].n \in Int
        BY <3>2 DEF Token
      <3> QED
        BY <2>1, <3>3 DEF Number
    <2>2. CASE ~Files(t, i)
      BY <2>2 DEF Number
    <2> QED
      BY <2>1, <2>2
  <1> QED
    BY <1>2 DEF Degrees

Infos == [fix_mode : Int, num_satellites : Int, latitude : Int, longitude : Int]

\* gnss_get_fixed_pos_info's state keeps its types, and its time its bound.
THEOREM TypeCorrect == Spec => []TypeOK
  <1>1. Init => TypeOK
    BY TimeAssumption DEF Init, TypeOK, EndsInTime, Cleared
  <1>2. TypeOK /\ [Next]_vars => TypeOK'
    <2> SUFFICES ASSUME TypeOK, [Next]_vars PROVE TypeOK'
      OBVIOUS
    <2>0. /\ pc \in {"idle", "loop", "fixed", "timeout"} /\ info \in Infos
          /\ spent \in 0..(Timeout + Longest - 1)
          /\ last \in Seq(Token \cup {Missing, Blank})
      BY DEF TypeOK, Infos, EndsInTime
    <2>1. CASE Call
      BY <2>0, <2>1, TimeAssumption DEF Call, Cleared, TypeOK, EndsInTime
    <2>2. ASSUME Exchange PROVE spent' \in 0..(Timeout + Longest - 1)
      BY <2>0, <2>2, TimeAssumption DEF Exchange, TimeLeft
    <2>3. ASSUME NEW answer \in Answers, Query(answer) PROVE TypeOK'
      <3> DEFINE t == Delivered(answer)
      <3>1. answer \in Seq(Token \cup {Missing, Blank})
        BY FieldAssumption
      <3>2. t \in Seq(Token \cup {Blank})
        BY <3>1, DeliveredFields
      <3>3. info' = [fix_mode       |-> Number(t, 0, info.fix_mode),
                     num_satellites |-> info.num_satellites + Number(t, 1, 0)
                                          + Number(t, 2, 0) + Number(t, 3, 0),
                     latitude       |-> Degrees(t, 4, "S", info.latitude),
                     longitude      |-> Degrees(t, 6, "W", info.longitude)]
        BY <2>3 DEF Query, Parsed
      <3> HIDE DEF t
      <3>4. /\ info.fix_mode \in Int /\ info.num_satellites \in Int
            /\ info.latitude \in Int /\ info.longitude \in Int
        BY <2>0 DEF Infos
      <3>5. /\ Number(t, 0, info.fix_mode) \in Int
            /\ Number(t, 1, 0) \in Int /\ Number(t, 2, 0) \in Int /\ Number(t, 3, 0) \in Int
            /\ Degrees(t, 4, "S", info.latitude) \in Int
            /\ Degrees(t, 6, "W", info.longitude) \in Int
        <4>1. 0 \in Nat /\ 1 \in Nat /\ 2 \in Nat /\ 3 \in Nat /\ 4 \in Nat /\ 6 \in Nat
              /\ 0 \in Int
          OBVIOUS
        <4>2. /\ Number(t, 0, info.fix_mode) \in Int
              /\ Number(t, 1, 0) \in Int /\ Number(t, 2, 0) \in Int /\ Number(t, 3, 0) \in Int
          BY <3>2, <3>4, <4>1, FiledInt, Zenon
        <4>3. /\ Degrees(t, 4, "S", info.latitude) \in Int
              /\ Degrees(t, 6, "W", info.longitude) \in Int
          BY <3>2, <3>4, <4>1, FiledInt, Zenon
        <4> QED
          BY <4>2, <4>3
      <3>6. info' \in Infos
        BY <3>3, <3>4, <3>5 DEF Infos
      <3>7. pc' \in {"fixed", "loop"} /\ last' = answer /\ spent' \in 0..(Timeout + Longest - 1)
        BY <2>2, <2>3 DEF Query
      <3> QED
        BY <3>1, <3>6, <3>7 DEF TypeOK, Infos, EndsInTime
    <2>4. CASE QueryFails
      BY <2>0, <2>2, <2>4 DEF QueryFails, TypeOK, Infos, EndsInTime
    <2>5. CASE GiveUp
      BY <2>0, <2>5 DEF GiveUp, TypeOK, Infos, EndsInTime
    <2>6. CASE UNCHANGED vars
      BY <2>0, <2>6 DEF vars, TypeOK, Infos, EndsInTime
    <2> QED
      BY <2>1, <2>3, <2>4, <2>5, <2>6 DEF Next
  <1> QED
    BY <1>1, <1>2, PTL DEF Spec

\* The handler files the position of an answer without an empty field as it is
\* in the answer, over whatever was filed before.
LEMMA PositionFiled ==
    ASSUME NEW answer \in Seq(Token \cup {Missing, Blank}), Full(answer)
    PROVE  /\ Parsed(answer).latitude = South(answer) * answer[5].n
           /\ Parsed(answer).longitude = West(answer) * answer[7].n
  <1> DEFINE t == Delivered(answer)
  <1>1. /\ Len(answer) \in Nat /\ Len(answer) >= 8
        /\ \A i \in 1..8 : answer[i] # Missing /\ answer[i] # Blank
        /\ \A i \in 1..8 : answer[i] \in Token \cup {Missing, Blank}
    BY LenProperties, ElementOfSeq DEF Full
  <1>2. t \in Seq(Token \cup {Blank}) /\ 8 <= Len(t) /\ \A i \in 1..8 : t[i] = answer[i]
    BY <1>1, DeliveredFields
  <1>3. /\ Parsed(answer).latitude = Degrees(t, 4, "S", info.latitude)
        /\ Parsed(answer).longitude = Degrees(t, 6, "W", info.longitude)
    BY DEF Parsed
  <1> HIDE DEF t
  <1>4. ASSUME NEW i \in 0..7 PROVE Files(t, i) /\ t[i + 1] = answer[i + 1]
    <2>1. i + 1 \in 1..8 /\ Len(t) \in Nat /\ i < Len(t)
      BY <1>2, LenProperties
    <2> QED
      BY <1>1, <1>2, <2>1 DEF Files
  <1>5. /\ Files(t, 4) /\ t[5] = answer[5] /\ Files(t, 5) /\ t[6] = answer[6]
        /\ Files(t, 6) /\ t[7] = answer[7] /\ Files(t, 7) /\ t[8] = answer[8]
    <2>1. Files(t, 4) /\ t[4 + 1] = answer[4 + 1] /\ Files(t, 5) /\ t[5 + 1] = answer[5 + 1]
      BY <1>4
    <2>2. Files(t, 6) /\ t[6 + 1] = answer[6 + 1] /\ Files(t, 7) /\ t[7 + 1] = answer[7 + 1]
      BY <1>4
    <2> QED
      BY <2>1, <2>2
  <1>6. answer[5].n \in Int /\ answer[7].n \in Int
    <2>1. answer[5] \in Token /\ answer[7] \in Token
      BY <1>1
    <2> QED
      BY <2>1 DEF Token
  <1>7. Degrees(t, 4, "S", info.latitude) = South(answer) * answer[5].n
    BY <1>5, <1>6 DEF Degrees, Number, South
  <1>8. Degrees(t, 6, "W", info.longitude) = West(answer) * answer[7].n
    BY <1>5, <1>6 DEF Degrees, Number, West
  <1> QED
    BY <1>3, <1>7, <1>8

\* The position gnss_get_fixed_pos_info returns is that of the last answer it
\* parsed, hemisphere included, when no field of that answer is empty: nothing
\* the retries before it filed shows through.
THEOREM PositionFromLast == Spec => []PositionOfLast
  <1>1. Init => PositionOfLast
    BY DEF Init, PositionOfLast
  <1>2. PositionOfLast /\ [Next]_vars => PositionOfLast'
    <2> SUFFICES ASSUME PositionOfLast, [Next]_vars PROVE PositionOfLast'
      OBVIOUS
    <2>1. ASSUME NEW answer \in Answers, Query(answer) PROVE PositionOfLast'
      <3>1. /\ answer \in Seq(Token \cup {Missing, Blank})
            /\ info' = Parsed(answer) /\ last' = answer
        BY <2>1, FieldAssumption DEF Query
      <3> QED
        BY <3>1, PositionFiled DEF PositionOfLast
    <2>2. CASE Call \/ QueryFails \/ GiveUp
      BY <2>2 DEF Call, QueryFails, Exchange, GiveUp, PositionOfLast
    <2>3. CASE UNCHANGED vars
      BY <2>3 DEF vars, PositionOfLast
    <2> QED
      BY <2>1, <2>2, <2>3 DEF Next
  <1> QED
    BY <1>1, <1>2, PTL DEF Spec

=============================================================================
