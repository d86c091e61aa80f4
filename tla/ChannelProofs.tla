----------------------------- MODULE ChannelProofs -----------------------------
(****************************************************************************)
(* Proofs about the AT channel when the modem answers in time (InTime) and  *)
(* as its callers expect (AnswersFit): every call reads lines of its own    *)
(* answer only, the next one starts clean, and ModemLink implements         *)
(* AtChannel.  Its runs link_late and link_tail show what happens when      *)
(* either assumption fails.                                                 *)
(****************************************************************************)
EXTENDS AnswerOrderProofs, FiniteSetTheorems

-----------------------------------------------------------------------------
(* The inductive invariant *)

Urc == [line |-> "URC", own |-> FALSE]
Own(line) == [line |-> line, own |-> TRUE]

\* Neither the modem nor the ring buffer holds a line of an answer.
Settled == ModemQuiet /\ \A i \in DOMAIN rx : rx[i].line = "URC"

\* f tells of each line of p which of the first m lines of r it is, 0 if it came
\* unasked: they are in r's order, and all there unless the UART lost some.
IsTrace(f, p, r, m) ==
    /\ f \in [1..Len(p) -> 0..m]
    /\ \A i \in 1..Len(p) : p[i] = IF f[i] = 0 THEN Urc ELSE Own(r[f[i]])
    /\ \A i, j \in 1..Len(p) : i < j /\ f[j] # 0 => f[i] < f[j]
    /\ Overruns \/ \A n \in 1..m : \E i \in 1..Len(p) : f[i] = n

Traced(p, r, m) == \E f \in [1..Len(p) -> 0..m] : IsTrace(f, p, r, m)

\* What the UART has received of the answer to t's command.
Taken(t) == buf[t] \o rx

\* The modem has yet to execute t's command.
Awaited(t) ==
    /\ inbox = <<[cmd |-> cmd[t], own |-> TRUE]>>
    /\ out = <<>>
    /\ reply = <<>>
    /\ \A i \in 1..Len(Taken(t)) : Taken(t)[i] = Urc

\* It has decided on r and still has the last Len(out) lines of it to send.
AnsweredWith(t, r) ==
    /\ inbox = <<>>
    /\ reply = <<r>>
    /\ Len(out) <= Len(r)
    /\ \A i \in 1..Len(out) : out[i] = Own(r[Len(r) - Len(out) + i])
    /\ Traced(Taken(t), r, Len(r) - Len(out))

Underway(t) ==
    /\ Awaited(t) \/ \E r \in Answers[cmd[t]] : AnsweredWith(t, r)
    /\ UrcCount(Taken(t)) <= MaxUrc
    /\ left[t] = 0 => Settled
    /\ Classify(cmd[t], buf[t]) = "none"

\* Where a call has no result yet, and where it has read nothing.
Codeless(t) == pc[t] \notin {"release", "give"}
Empty(t) == pc[t] \in {"idle", "take", "acquire", "write"}

\* Lines are lost only where the UART may overrun.
Lossless == overrun => Overruns

\* Between two exchanges there is nothing left of an answer.
Between == (\A t \in Tasks : ~Reading(t)) => Settled

Calls == \A t \in Tasks : Reading(t) => Underway(t)

Results == \A t \in Tasks : ret[t] = "none" <=> Codeless(t)

Buffers ==
    \A t \in Tasks : /\ Empty(t) => buf[t] = <<>>
                     /\ ~AnyForeign(buf[t])

ExchangeInv == Lossless /\ Between /\ Calls /\ Results /\ Buffers

-----------------------------------------------------------------------------
(* Counting unsolicited lines *)

UrcAt(s) == {i \in DOMAIN s : s[i].line = "URC"}

LEMMA CountType ==
    ASSUME NEW s \in Seq(Token)
    PROVE  /\ IsFiniteSet(UrcAt(s)) /\ UrcAt(s) \subseteq 1..Len(s)
           /\ UrcCount(s) = Cardinality(UrcAt(s)) /\ UrcCount(s) \in Nat
  <1>1. DOMAIN s = 1..Len(s) /\ Len(s) \in Nat
    BY LenProperties
  <1>2. IsFiniteSet(1..Len(s)) /\ UrcAt(s) \in SUBSET (1..Len(s))
    BY <1>1, FS_Interval DEF UrcAt
  <1>3. IsFiniteSet(UrcAt(s))
    BY <1>2, FS_Subset
  <1> QED
    BY <1>2, <1>3, FS_CardinalityType DEF UrcCount, UrcAt

\* A part of the lines holds no more unsolicited ones than the whole, and the
\* parts no fewer.
LEMMA CountParts ==
    ASSUME NEW p \in Seq(Token), NEW q \in Seq(Token)
    PROVE  /\ UrcCount(p) <= UrcCount(p \o q)
           /\ UrcCount(p \o q) <= UrcCount(p) + UrcCount(q)
  <1> DEFINE w == p \o q
             Shift == {i \in 1..Len(w) : i - Len(p) \in UrcAt(q)}
             back == [i \in UrcAt(q) |-> i + Len(p)]
  <1>1. /\ w \in Seq(Token) /\ Len(w) = Len(p) + Len(q)
        /\ Len(p) \in Nat /\ Len(q) \in Nat
        /\ DOMAIN p = 1..Len(p) /\ DOMAIN q = 1..Len(q) /\ DOMAIN w = 1..Len(w)
        /\ \A i \in 1..Len(w) : w[i] = IF i <= Len(p) THEN p[i] ELSE q[i - Len(p)]
    BY ConcatProperties, LenProperties
  <1> HIDE DEF w
  <1>2. UrcAt(p) \in SUBSET UrcAt(w)
    BY <1>1 DEF UrcAt
  <1>3. UrcAt(w) = UrcAt(p) \cup Shift
    BY <1>1 DEF UrcAt
  <1>4. /\ IsFiniteSet(UrcAt(p)) /\ IsFiniteSet(UrcAt(q)) /\ IsFiniteSet(UrcAt(w))
        /\ UrcCount(p) = Cardinality(UrcAt(p)) /\ UrcCount(p) \in Nat
        /\ UrcCount(q) = Cardinality(UrcAt(q)) /\ UrcCount(q) \in Nat
        /\ UrcCount(w) = Cardinality(UrcAt(w)) /\ UrcCount(w) \in Nat
    BY <1>1, CountType
  <1>5. back \in Surjection(UrcAt(q), Shift)
    <2>1. \A i \in UrcAt(q) : i \in 1..Len(q)
      BY <1>1 DEF UrcAt
    <2>2. \A i \in UrcAt(q) : i + Len(p) \in Shift
      BY <1>1, <2>1
    <2>3. \A j \in Shift : j - Len(p) \in UrcAt(q) /\ (j - Len(p)) + Len(p) = j
      BY <1>1
    <2>4. \A j \in Shift : \E i \in UrcAt(q) : back[i] = j
      BY <2>3
    <2> QED
      BY <2>2, <2>4 DEF Surjection
  <1>6. IsFiniteSet(Shift) /\ Cardinality(Shift) <= Cardinality(UrcAt(q))
    BY <1>4, <1>5, FS_Surjection
  <1>7. Cardinality(Shift) \in Nat
    BY <1>6, FS_CardinalityType
  <1>8. Cardinality(UrcAt(w)) <= Cardinality(UrcAt(p)) + Cardinality(Shift)
    <2>1. IsFiniteSet(UrcAt(p) \cap Shift)
      BY <1>4, FS_Subset
    <2>2. Cardinality(UrcAt(p) \cap Shift) \in Nat
      BY <2>1, FS_CardinalityType
    <2>3. Cardinality(UrcAt(p) \cup Shift) =
            Cardinality(UrcAt(p)) + Cardinality(Shift) - Cardinality(UrcAt(p) \cap Shift)
      BY <1>4, <1>6, FS_Union
    <2> QED
      BY <1>3, <1>4, <1>7, <2>2, <2>3
  <1>9. Cardinality(UrcAt(p)) <= Cardinality(UrcAt(w))
    BY <1>2, <1>4, FS_Subset
  <1> QED
    BY <1>4, <1>6, <1>7, <1>8, <1>9 DEF w

LEMMA CountOne ==
    ASSUME NEW x \in Token
    PROVE  /\ <<x>> \in Seq(Token)
           /\ x.line = "URC" => UrcCount(<<x>>) = 1
           /\ x.line # "URC" => UrcCount(<<x>>) = 0
  <1>1. <<x>> \in Seq(Token)
    OBVIOUS
  <1>2. ASSUME x.line = "URC" PROVE UrcCount(<<x>>) = 1
    <2>1. {i \in DOMAIN <<x>> : <<x>>[i].line = "URC"} = {1}
      BY <1>2
    <2> QED
      BY <2>1, FS_Singleton DEF UrcCount
  <1>3. ASSUME x.line # "URC" PROVE UrcCount(<<x>>) = 0
    <2>1. {i \in DOMAIN <<x>> : <<x>>[i].line = "URC"} = {}
      BY <1>3
    <2> QED
      BY <2>1, FS_EmptySet DEF UrcCount
  <1> QED
    BY <1>1, <1>2, <1>3

LEMMA CountNone == UrcCount(<<>>) = 0
  <1>1. {i \in DOMAIN <<>> : <<>>[i].line = "URC"} = {}
    OBVIOUS
  <1> QED
    BY <1>1, FS_EmptySet DEF UrcCount

\* Nothing but unsolicited lines: as many as there are lines.
LEMMA CountAll ==
    ASSUME NEW p \in Seq(Token), \A i \in 1..Len(p) : p[i] = Urc
    PROVE  UrcCount(p) = Len(p)
  <1>1. DOMAIN p = 1..Len(p) /\ Len(p) \in Nat
    BY LenProperties
  <1>2. {i \in DOMAIN p : p[i].line = "URC"} = 1..Len(p)
    BY <1>1 DEF Urc
  <1>3. Cardinality(1..Len(p)) = Len(p)
    BY <1>1, FS_Interval
  <1> QED
    BY <1>2, <1>3 DEF UrcCount

-----------------------------------------------------------------------------
(* Traces *)

\* A trace leaves room: the lines that are not unsolicited are lines of r.
LEMMA TraceLength ==
    ASSUME NEW p \in Seq(Token), NEW r, NEW m \in Nat, Traced(p, r, m)
    PROVE  Len(p) <= m + UrcCount(p)
  <1>1. PICK f \in [1..Len(p) -> 0..m] : IsTrace(f, p, r, m)
    BY DEF Traced
  <1> DEFINE N == {i \in 1..Len(p) : f[i] # 0}
             g == [i \in N |-> f[i]]
  <1>2. DOMAIN p = 1..Len(p) /\ Len(p) \in Nat
    BY LenProperties
  <1>3. \A i \in 1..Len(p) : f[i] = 0 => i \in UrcAt(p)
    BY <1>1, <1>2 DEF IsTrace, Urc, UrcAt
  <1>4. /\ IsFiniteSet(UrcAt(p)) /\ UrcAt(p) \subseteq 1..Len(p)
        /\ UrcCount(p) = Cardinality(UrcAt(p)) /\ UrcCount(p) \in Nat
    BY CountType
  <1>5. 1..Len(p) = N \cup UrcAt(p)
    <2>1. \A i \in 1..Len(p) : i \in N \/ i \in UrcAt(p)
      BY <1>3
    <2> QED
      BY <1>4, <2>1
  <1>6. IsFiniteSet(1..m) /\ Cardinality(1..m) = m /\ Cardinality(1..Len(p)) = Len(p)
    <2>1. 1 \in Int /\ m \in Int /\ Len(p) \in Int
      BY <1>2
    <2>2. IsFiniteSet(1..m) /\ Cardinality(1..m) = IF 1 > m THEN 0 ELSE m - 1 + 1
      BY <2>1, FS_Interval
    <2>3. Cardinality(1..Len(p)) = IF 1 > Len(p) THEN 0 ELSE Len(p) - 1 + 1
      BY <2>1, FS_Interval
    <2> QED
      BY <1>2, <2>2, <2>3
  <1>7. g \in Injection(N, 1..m)
    <2>1. \A i \in N : f[i] \in 1..m
      <3>1. \A i \in 1..Len(p) : f[i] \in 0..m
        OBVIOUS
      <3> QED
        BY <3>1
    <2>2. \A i, j \in N : g[i] = g[j] => i = j
      <3>1. \A i, j \in N : i < j => g[i] < g[j] /\ g[i] # g[j]
        BY <1>1 DEF IsTrace
      <3> QED
        BY <1>2, <3>1
    <2>3. g \in [N -> 1..m]
      BY <2>1
    <2> HIDE DEF g, N
    <2> QED
      BY <2>2, <2>3 DEF Injection, IsInjective
  <1> HIDE DEF g, N
  <1>8. IsFiniteSet(N) /\ Cardinality(N) <= m
    BY <1>6, <1>7, FS_Injection
  <1>9. Cardinality(N) \in Nat
    BY <1>8, FS_CardinalityType
  <1>10. Len(p) <= Cardinality(N) + Cardinality(UrcAt(p))
    <2>1. IsFiniteSet(N \cap UrcAt(p))
      BY <1>4, FS_Subset
    <2>2. Cardinality(N \cap UrcAt(p)) \in Nat
      BY <2>1, FS_CardinalityType
    <2>3. Cardinality(N \cup UrcAt(p)) =
            Cardinality(N) + Cardinality(UrcAt(p)) - Cardinality(N \cap UrcAt(p))
      BY <1>4, <1>8, FS_Union
    <2>4. Cardinality(N \cup UrcAt(p)) = Len(p)
      BY <1>5, <1>6
    <2>5. Cardinality(UrcAt(p)) \in Nat
      BY <1>4
    <2> QED
      BY <1>9, <2>2, <2>3, <2>4, <2>5
  <1> QED
    BY <1>2, <1>4, <1>8, <1>9, <1>10

\* A trace goes on with a line that came unasked, or with the next one of r.
LEMMA TraceGrows ==
    ASSUME NEW p \in Seq(Token), NEW r, NEW m \in Nat, Traced(p, r, m),
           NEW x \in Token, NEW n \in {m, m + 1},
           x = IF n = m THEN Urc ELSE Own(r[n])
    PROVE  Traced(p \o <<x>>, r, n)
  <1>1. PICK f \in [1..Len(p) -> 0..m] : IsTrace(f, p, r, m)
    BY DEF Traced
  <1> DEFINE w == p \o <<x>>
             v == IF n = m THEN 0 ELSE n
             g == [i \in 1..(Len(p) + 1) |-> IF i <= Len(p) THEN f[i] ELSE v]
  <1>2. /\ Len(p) \in Nat /\ w \in Seq(Token) /\ Len(w) = Len(p) + 1
        /\ \A i \in 1..Len(p) : w[i] = p[i]
        /\ w[Len(p) + 1] = x
    <2>1. <<x>> \in Seq(Token) /\ Len(<<x>>) = 1 /\ <<x>>[1] = x
      OBVIOUS
    <2>2. /\ Len(p) \in Nat /\ w \in Seq(Token) /\ Len(w) = Len(p) + 1
          /\ \A i \in 1..(Len(p) + 1) : w[i] = IF i <= Len(p) THEN p[i] ELSE <<x>>[i - Len(p)]
      BY <2>1, ConcatProperties, LenProperties
    <2> QED
      BY <2>1, <2>2
  <1> HIDE DEF w
  <1>3. /\ \A i \in 1..Len(p) : f[i] \in 0..m
        /\ \A i \in 1..Len(p) : p[i] = IF f[i] = 0 THEN Urc ELSE Own(r[f[i]])
        /\ \A i, j \in 1..Len(p) : i < j /\ f[j] # 0 => f[i] < f[j]
        /\ Overruns \/ \A k \in 1..m : \E i \in 1..Len(p) : f[i] = k
    BY <1>1 DEF IsTrace
  <1>4. /\ \A i \in 1..Len(p) : g[i] = f[i]
        /\ g[Len(p) + 1] = v
        /\ \A i \in 1..Len(w) : i \in 1..Len(p) \/ i = Len(p) + 1
    BY <1>2
  <1>5. g \in [1..Len(w) -> 0..n]
    <2>1. \A i \in 1..(Len(p) + 1) : (IF i <= Len(p) THEN f[i] ELSE v) \in 0..n
      BY <1>2, <1>3
    <2> QED
      BY <1>2, <2>1
  <1>0. n \in Nat /\ v \in Nat /\ x = IF v = 0 THEN Urc ELSE Own(r[v])
    OBVIOUS
  <1> HIDE DEF g
  <1>6. ASSUME NEW i \in 1..Len(w)
        PROVE  w[i] = IF g[i] = 0 THEN Urc ELSE Own(r[g[i]])
    <2>1. CASE i \in 1..Len(p)
      <3>1. w[i] = p[i] /\ g[i] = f[i]
        BY <1>2, <1>4, <2>1
      <3> QED
        BY <1>3, <2>1, <3>1
    <2>2. CASE i = Len(p) + 1
      <3>1. w[i] = x /\ g[i] = v
        BY <1>2, <1>4, <2>2
      <3> QED
        BY <1>0, <3>1
    <2> QED
      BY <1>4, <2>1, <2>2
  <1>7. ASSUME NEW i \in 1..Len(w), NEW j \in 1..Len(w), i < j, g[j] # 0
        PROVE  g[i] < g[j]
    <2>1. i \in 1..Len(p)
      BY <1>2, <1>7
    <2>2. CASE j \in 1..Len(p)
      BY <1>3, <1>4, <1>7, <2>1, <2>2
    <2>3. CASE j = Len(p) + 1
      BY <1>3, <1>4, <1>7, <2>1, <2>3
    <2> QED
      BY <1>4, <2>2, <2>3
  <1>8. ASSUME ~Overruns, NEW k \in 1..n PROVE \E i \in 1..Len(w) : g[i] = k
    <2>1. CASE k \in 1..m
      <3>1. PICK i \in 1..Len(p) : f[i] = k
        BY <1>3, <1>8, <2>1
      <3> QED
        BY <1>2, <1>4, <3>1
    <2>2. CASE k \notin 1..m
      <3>1. k = v /\ Len(p) + 1 \in 1..Len(w)
        BY <1>2, <2>2
      <3> QED
        BY <1>4, <3>1
    <2> QED
      BY <2>1, <2>2
  <1>9. IsTrace(g, w, r, n)
    BY <1>5, <1>6, <1>7, <1>8 DEF IsTrace
  <1> QED
    BY <1>5, <1>9 DEF Traced, w

\* An UART that loses lines: those it loses have no place in the trace.
LEMMA TraceSkips ==
    ASSUME NEW p \in Seq(Token), NEW r, NEW m \in Nat, Traced(p, r, m), Overruns
    PROVE  Traced(p, r, m + 1)
  <1>1. PICK f \in [1..Len(p) -> 0..m] : IsTrace(f, p, r, m)
    BY DEF Traced
  <1>2. f \in [1..Len(p) -> 0..(m + 1)]
    OBVIOUS
  <1>3. IsTrace(f, p, r, m + 1)
    BY <1>1, <1>2 DEF IsTrace
  <1> QED
    BY <1>2, <1>3 DEF Traced

\* The first lines have a trace of their own; it is as long if the rest came
\* unasked.
LEMMA TracePrefix ==
    ASSUME NEW p \in Seq(Token), NEW q \in Seq(Token), NEW r, NEW m \in Nat,
           Traced(p \o q, r, m), m <= Len(r), Len(r) \in Nat, \A n \in 1..Len(r) : r[n] # "URC",
           Overruns \/ \A i \in 1..Len(q) : q[i].line = "URC"
    PROVE  Traced(p, r, m)
  <1> DEFINE w == p \o q
  <1>1. PICK f \in [1..Len(w) -> 0..m] : IsTrace(f, w, r, m)
    BY DEF Traced
  <1>2. /\ Len(p) \in Nat /\ Len(q) \in Nat /\ Len(w) = Len(p) + Len(q)
        /\ \A i \in 1..Len(w) : w[i] = IF i <= Len(p) THEN p[i] ELSE q[i - Len(p)]
    BY ConcatProperties, LenProperties
  <1> HIDE DEF w
  <1> DEFINE g == [i \in 1..Len(p) |-> f[i]]
  <1>3. /\ \A i \in 1..Len(w) : f[i] \in 0..m
        /\ \A i \in 1..Len(w) : w[i] = IF f[i] = 0 THEN Urc ELSE Own(r[f[i]])
        /\ \A i, j \in 1..Len(w) : i < j /\ f[j] # 0 => f[i] < f[j]
        /\ Overruns \/ \A n \in 1..m : \E i \in 1..Len(w) : f[i] = n
    BY <1>1 DEF IsTrace
  <1>4. g \in [1..Len(p) -> 0..m]
    BY <1>2, <1>3
  <1>5. \A i \in 1..Len(p) : g[i] = f[i] /\ i \in 1..Len(w) /\ w[i] = p[i]
    BY <1>2
  <1>6. ASSUME ~Overruns, NEW n \in 1..m PROVE \E i \in 1..Len(p) : g[i] = n
    <2>1. PICK i \in 1..Len(w) : f[i] = n
      BY <1>3, <1>6
    <2>2. n # 0 /\ n \in 1..Len(r) /\ w[i] = Own(r[n])
      BY <1>3, <2>1
    <2>3. w[i].line # "URC"
      BY <2>2 DEF Own
    <2>4. i <= Len(p)
      <3>1. ASSUME i > Len(p) PROVE FALSE
        <4>1. i - Len(p) \in 1..Len(q) /\ w[i] = q[i - Len(p)]
          BY <1>2, <3>1
        <4> QED
          BY <1>6, <2>3, <4>1
      <3> QED
        BY <1>2, <3>1
    <2> QED
      BY <1>2, <2>1, <2>4
  <1> HIDE DEF g
  <1>7. IsTrace(g, p, r, m)
    BY <1>3, <1>4, <1>5, <1>6 DEF IsTrace
  <1> QED
    BY <1>4, <1>7 DEF Traced

-----------------------------------------------------------------------------
(* What a call decides *)

\* An answer its caller expects.
Fitting(c, r) ==
    /\ Len(r) \in Nat
    /\ DOMAIN r = 1..Len(r)
    /\ \A i \in 1..Len(r) : r[i] \in Lines
    /\ Expect[c] # "URC"
    /\ Len(r) + MaxUrc <= Cap[c]
    /\ \A i \in 1..Len(r) : r[i] # "URC"
    /\ \A i \in 1..Len(r) : r[i] = "ERROR" => i = Len(r)
    /\ \A i, j \in 1..Len(r) : r[i] = Expect[c] /\ r[j] = "OK" => Len(r) \in {i, j}

LEMMA AnswerFacts ==
    ASSUME AnswersFit, NEW c \in Commands, NEW r \in Answers[c]
    PROVE  Fitting(c, r)
  <1>1. r \in Seq(Lines)
    BY CommandAssumption
  <1>2. Len(r) \in Nat /\ DOMAIN r = 1..Len(r) /\ \A i \in 1..Len(r) : r[i] \in Lines
    BY <1>1, LenProperties, ElementOfSeq
  <1> QED
    BY <1>2 DEF AnswersFit, Fitting

\* The lines of a trace, apart from the unsolicited ones, are lines of r.
LEMMA TraceLines ==
    ASSUME NEW p \in Seq(Token), NEW r, NEW m \in Nat, NEW f, IsTrace(f, p, r, m)
    PROVE  \A line : line # "URC" =>
             (Has(p, line) <=> \E i \in 1..Len(p) : f[i] # 0 /\ r[f[i]] = line)
  <1>1. DOMAIN p = 1..Len(p)
    BY LenProperties
  <1>2. ASSUME NEW i \in 1..Len(p)
        PROVE  p[i].line = IF f[i] = 0 THEN "URC" ELSE r[f[i]]
    <2>1. p[i] = IF f[i] = 0 THEN Urc ELSE Own(r[f[i]])
      BY DEF IsTrace
    <2>2. Urc.line = "URC" /\ Own(r[f[i]]).line = r[f[i]]
      BY DEF Urc, Own
    <2> QED
      BY <2>1, <2>2
  <1> QED
    BY <1>1, <1>2 DEF Has

\* Until the last line of the answer is there, a call reads on.
LEMMA PartUndecided ==
    ASSUME NEW c \in Commands, NEW r, Fitting(c, r),
           NEW p \in Seq(Token), NEW m \in Nat, m < Len(r), Traced(p, r, m),
           UrcCount(p) <= MaxUrc
    PROVE  Len(p) < Cap[c] /\ Classify(c, p) = "none"
  <1>1. PICK f \in [1..Len(p) -> 0..m] : IsTrace(f, p, r, m)
    BY DEF Traced
  <1>0. /\ Len(r) \in Nat
        /\ Len(r) + MaxUrc <= Cap[c]
        /\ Expect[c] # "URC"
        /\ \A i \in 1..Len(r) : r[i] = "ERROR" => i = Len(r)
    BY DEF Fitting
  <1>2. Len(p) < Cap[c]
    <2>1. /\ Len(p) \in Nat /\ Cap[c] \in Nat /\ MaxUrc \in Nat /\ UrcCount(p) \in Nat
      BY LenProperties, CountType, CommandAssumption, BoundAssumption
    <2>2. Len(p) <= m + UrcCount(p)
      BY TraceLength
    <2> QED
      BY <1>0, <2>1, <2>2
  <1>3. \A i \in 1..Len(p) : f[i] # 0 => f[i] \in 1..Len(r) /\ f[i] < Len(r)
    <2>1. \A i \in 1..Len(p) : f[i] \in 0..m
      OBVIOUS
    <2> QED
      BY <1>0, <2>1
  <1>4. ~Has(p, "ERROR")
    <2>1. ~\E i \in 1..Len(p) : f[i] # 0 /\ r[f[i]] = "ERROR"
      <3>1. ASSUME NEW i \in 1..Len(p), f[i] # 0, r[f[i]] = "ERROR" PROVE FALSE
        <4>1. f[i] \in 1..Len(r) /\ f[i] < Len(r)
          BY <1>3, <3>1
        <4>2. f[i] = Len(r)
          BY <1>0, <3>1, <4>1
        <4> QED
          BY <1>0, <4>1, <4>2
      <3> QED
        BY <3>1
    <2> QED
      BY <1>1, <2>1, TraceLines
  <1>5. ~(Has(p, Expect[c]) /\ Has(p, "OK"))
    <2>1. ASSUME NEW i \in 1..Len(p), NEW j \in 1..Len(p), f[i] # 0, f[j] # 0,
                 r[f[i]] = Expect[c], r[f[j]] = "OK"
          PROVE  FALSE
      <3>1. /\ f[i] \in 1..Len(r) /\ f[i] < Len(r)
            /\ f[j] \in 1..Len(r) /\ f[j] < Len(r)
        BY <1>3, <2>1
      <3>2. Len(r) \in {f[i], f[j]}
        BY <2>1, <3>1 DEF Fitting
      <3> QED
        BY <1>0, <3>1, <3>2
    <2> QED
      BY <1>0, <1>1, <2>1, TraceLines
  <1> QED
    BY <1>2, <1>4, <1>5, CommandAssumption, LenProperties DEF Classify

\* Unsolicited lines alone decide nothing either.
LEMMA UrcUndecided ==
    ASSUME AnswersFit, NEW c \in Commands, NEW p \in Seq(Token),
           \A i \in 1..Len(p) : p[i] = Urc, UrcCount(p) <= MaxUrc
    PROVE  Len(p) < Cap[c] /\ Classify(c, p) = "none"
  <1>1. UrcCount(p) = Len(p) /\ Len(p) \in Nat /\ DOMAIN p = 1..Len(p)
    BY CountAll, LenProperties
  <1>2. MaxUrc < Cap[c] /\ MaxUrc \in Nat /\ Cap[c] \in Nat
    BY BoundAssumption, CommandAssumption DEF AnswersFit
  <1>3. Len(p) < Cap[c]
    BY <1>1, <1>2
  <1>4. ~Has(p, "ERROR") /\ ~Has(p, "OK")
    BY <1>1 DEF Has, Urc
  <1> QED
    BY <1>1, <1>2, <1>3, <1>4 DEF Classify

\* What an underway exchange has received decides nothing while the modem owes
\* it a line, and never overruns the caller's buffer.
LEMMA Received ==
    ASSUME AnswersFit, LInv, NEW t \in Tasks, Reading(t), Underway(t)
    PROVE  /\ Taken(t) \in Seq(Token)
           /\ Len(Taken(t)) <= Cap[cmd[t]]
           /\ cmd[t] \in Commands
           /\ ~ModemQuiet => Classify(cmd[t], Taken(t)) = "none"
  <1>1. /\ cmd[t] \in Commands /\ Cap[cmd[t]] \in Nat /\ MaxUrc \in Nat
        /\ out \in Seq(Token) /\ Len(out) \in Nat
    BY CommandAssumption, BoundAssumption, LenProperties DEF LInv, TypeOK, Reading
  <1>2. /\ Taken(t) \in Seq(Token) /\ Len(Taken(t)) \in Nat
        /\ UrcCount(Taken(t)) \in Nat /\ UrcCount(Taken(t)) <= MaxUrc
    <2>1. Taken(t) \in Seq(Token)
      BY PathTypes, ConcatProperties DEF Taken
    <2> QED
      BY <2>1, LenProperties, CountType DEF Underway
  <1>3. CASE Awaited(t)
    <2>1. \A i \in 1..Len(Taken(t)) : Taken(t)[i] = Urc
      BY <1>3 DEF Awaited
    <2> QED
      BY <1>1, <1>2, <2>1, UrcUndecided
  <1>4. ASSUME NEW r \in Answers[cmd[t]], AnsweredWith(t, r)
        PROVE  /\ Len(Taken(t)) <= Cap[cmd[t]]
               /\ ~ModemQuiet => Classify(cmd[t], Taken(t)) = "none"
    <2> DEFINE m == Len(r) - Len(out)
    <2>1. Fitting(cmd[t], r)
      BY <1>1, <1>4, AnswerFacts
    <2>2. Len(r) \in Nat /\ Len(r) + MaxUrc <= Cap[cmd[t]]
      BY <2>1 DEF Fitting
    <2>3. inbox = <<>> /\ Len(out) <= Len(r) /\ Traced(Taken(t), r, m)
      BY <1>4 DEF AnsweredWith
    <2>4. m \in Nat /\ m <= Len(r)
      BY <1>1, <2>2, <2>3
    <2> HIDE DEF m
    <2>5. Len(Taken(t)) <= m + UrcCount(Taken(t))
      BY <1>2, <2>3, <2>4, TraceLength
    <2>6. Len(Taken(t)) <= Cap[cmd[t]]
      BY <1>1, <1>2, <2>2, <2>4, <2>5
    <2>7. ASSUME out # <<>> PROVE Classify(cmd[t], Taken(t)) = "none"
      <3>1. m < Len(r)
        BY <1>1, <2>2, <2>7, EmptySeq DEF m
      <3> QED
        BY <1>1, <1>2, <2>1, <2>3, <2>4, <3>1, PartUndecided
    <2> QED
      BY <2>3, <2>6, <2>7 DEF ModemQuiet
  <1> QED
    BY <1>1, <1>2, <1>3, <1>4 DEF Underway

\* A read takes everything there is, and one that ends the call or finds its
\* time up has seen the last line of the answer.
LEMMA ReadsAll ==
    ASSUME AnswersFit, InTime, LInv, ExchangeInv, NEW t \in Tasks, ReadDone(t)
    PROVE  /\ buf' = [buf EXCEPT ![t] = Taken(t)]
           /\ rx' = <<>>
           /\ UNCHANGED <<cmd, inbox, out, reply, overrun>>
           /\ \/ /\ Classify(cmd[t], Taken(t)) # "none"
                 /\ ModemQuiet
                 /\ pc' = [pc EXCEPT ![t] = "release"]
                 /\ ret' = [ret EXCEPT ![t] = Classify(cmd[t], Taken(t))]
              \/ /\ Classify(cmd[t], Taken(t)) = "none"
                 /\ pc' = [pc EXCEPT ![t] = "loop"]
                 /\ ret' = ret
                 /\ \E n \in Nat : left' = [left EXCEPT ![t] = n] /\ (n = 0 => ModemQuiet)
  <1> DEFINE k    == IF Len(rx) < ToRead(t) THEN Len(rx) ELSE ToRead(t)
             got  == buf[t] \o SubSeq(rx, 1, k)
             code == IF k > 0 THEN Classify(cmd[t], got) ELSE "none"
  <1>1. Reading(t) /\ Underway(t) /\ left[t] \in Nat
    BY DEF ReadDone, Reading, ExchangeInv, Calls, LInv, TypeOK
  <1>2. /\ Taken(t) \in Seq(Token) /\ Len(Taken(t)) <= Cap[cmd[t]]
        /\ cmd[t] \in Commands
        /\ ~ModemQuiet => Classify(cmd[t], Taken(t)) = "none"
    BY <1>1, Received
  <1>3. /\ buf[t] \in Seq(Token) /\ rx \in Seq(Token)
        /\ Len(buf[t]) \in Nat /\ Len(rx) \in Nat /\ Cap[cmd[t]] \in Nat
        /\ Len(Taken(t)) = Len(buf[t]) + Len(rx)
    BY <1>2, PathTypes, LenProperties, ConcatProperties, CommandAssumption DEF Taken
  <1>4. k = Len(rx)
    BY <1>2, <1>3 DEF ToRead
  <1>5. /\ buf' = [buf EXCEPT ![t] = got]
        /\ rx' = SubSeq(rx, k + 1, Len(rx))
        /\ UNCHANGED <<cmd, inbox, out, reply, overrun>>
        /\ IF code # "none"
           THEN /\ ret' = [ret EXCEPT ![t] = code]
                /\ pc' = [pc EXCEPT ![t] = "release"]
                /\ left' = [left EXCEPT ![t] = 0]
           ELSE /\ \E n \in 0..(left[t] - 1) :
                      /\ InTime /\ n = 0 => ModemQuiet
                      /\ left' = [left EXCEPT ![t] = n]
                /\ pc' = [pc EXCEPT ![t] = "loop"]
                /\ UNCHANGED ret
    BY DEF ReadDone, modemVars
  <1> HIDE DEF k
  <1>6. got = Taken(t)
    BY <1>3, <1>4, SubSeqFull DEF Taken
  <1>7. rx' = <<>>
    BY <1>3, <1>4, <1>5, SubSeqEmpty
  <1>8. code = Classify(cmd[t], Taken(t))
    <2>1. CASE k > 0
      BY <1>6, <2>1
    <2>2. CASE ~(k > 0)
      <3>1. rx = <<>>
        BY <1>3, <1>4, <2>2, EmptySeq
      <3>2. Taken(t) = buf[t]
        BY <1>3, <3>1, ConcatEmptySeq DEF Taken
      <3> QED
        BY <1>1, <2>2, <3>2 DEF Underway
    <2> QED
      BY <2>1, <2>2
  <1> HIDE DEF got, code
  <1>9. CASE code # "none"
    BY <1>2, <1>5, <1>6, <1>7, <1>8, <1>9
  <1>10. CASE code = "none"
    <2>1. PICK n \in 0..(left[t] - 1) : /\ InTime /\ n = 0 => ModemQuiet
                                       /\ left' = [left EXCEPT ![t] = n]
      BY <1>5, <1>10
    <2>2. n \in Nat /\ (n = 0 => ModemQuiet)
      BY <1>1, <2>1
    <2> QED
      BY <1>5, <1>6, <1>7, <1>8, <1>10, <2>1, <2>2
  <1> QED
    BY <1>9, <1>10

-----------------------------------------------------------------------------
(* The modem and the UART during an exchange *)

\* A line that reaches the ring buffer ends what the task is going to read.
LEMMA TakenGrows ==
    ASSUME LInv, NEW t \in Tasks, NEW x \in Token, rx' = Append(rx, x), buf' = buf
    PROVE  /\ Taken(t) \in Seq(Token)
           /\ Taken(t)' = Taken(t) \o <<x>>
           /\ <<x>> \in Seq(Token)
  <1>1. buf[t] \in Seq(Token) /\ rx \in Seq(Token) /\ <<x>> \in Seq(Token)
    BY PathTypes
  <1>2. rx' = rx \o <<x>>
    BY <1>1, AppendIsConcat
  <1>3. (buf[t] \o rx) \o <<x>> = buf[t] \o (rx \o <<x>>)
    BY <1>1, Regroup
  <1>4. buf[t] \o rx \in Seq(Token)
    BY <1>1, ConcatProperties
  <1> QED
    BY <1>1, <1>2, <1>3, <1>4 DEF Taken

\* Nothing asked for, nothing traced.
LEMMA UrcTraced ==
    ASSUME NEW p \in Seq(Token), \A i \in 1..Len(p) : p[i] = Urc, NEW r
    PROVE  Traced(p, r, 0)
  <1> DEFINE f == [i \in 1..Len(p) |-> 0]
  <1>1. Len(p) \in Nat
    BY LenProperties
  <1>2. f \in [1..Len(p) -> 0..0]
    OBVIOUS
  <1>3. IsTrace(f, p, r, 0)
    BY <1>1, <1>2 DEF IsTrace
  <1> QED
    BY <1>2, <1>3 DEF Traced

LEMMA ExecUnderway ==
    ASSUME AnswersFit, LInv, NEW t \in Tasks, Reading(t), Underway(t), ModemExec
    PROVE  \E r \in Answers[cmd[t]] : reply' = <<r>> /\ AnsweredWith(t, r)'
  <1>1. Awaited(t)
    BY DEF Underway, AnsweredWith, ModemExec
  <1>2. /\ cmd[t] \in Commands
        /\ inbox = <<[cmd |-> cmd[t], own |-> TRUE]>>
        /\ Taken(t) \in Seq(Token)
        /\ \A i \in 1..Len(Taken(t)) : Taken(t)[i] = Urc
    BY <1>1, Received DEF Awaited
  <1>3. Head(inbox) = [cmd |-> cmd[t], own |-> TRUE] /\ Tail(inbox) = <<>>
    BY <1>2
  <1>4. PICK r \in Answers[cmd[t]] :
              /\ out' = [i \in DOMAIN r |-> Own(r[i])]
              /\ reply' = <<r>>
    <2>1. PICK r \in Answers[Head(inbox).cmd] :
              /\ out' = [i \in DOMAIN r |-> [line |-> r[i], own |-> Head(inbox).own]]
              /\ reply' = IF Head(inbox).own THEN <<r>> ELSE reply
      BY DEF ModemExec
    <2>2. Head(inbox).cmd = cmd[t] /\ Head(inbox).own = TRUE
      BY <1>3
    <2>3. r \in Answers[cmd[t]] /\ reply' = <<r>>
      BY <2>1, <2>2
    <2>4. out' = [i \in DOMAIN r |-> Own(r[i])]
      BY <2>1, <2>2 DEF Own
    <2> QED
      BY <2>3, <2>4
  <1>5. Len(r) \in Nat /\ DOMAIN r = 1..Len(r) /\ \A i \in 1..Len(r) : r[i] \in Lines
    BY <1>2, AnswerFacts DEF Fitting
  <1>6. out' \in Seq(Token) /\ Len(out') = Len(r)
    <2>1. out' \in [1..Len(r) -> Token]
      BY <1>4, <1>5 DEF Own, Token
    <2>2. out' \in Seq(Token)
      BY <1>5, <2>1, FunctionIsSeq
    <2> QED
      BY <1>4, <1>5, <2>2, LenProperties
  <1>7. inbox' = <<>> /\ Taken(t)' = Taken(t)
    BY <1>3 DEF ModemExec, callVars, Taken
  <1>8. Len(r) - Len(out') = 0
    BY <1>5, <1>6
  <1>9. Traced(Taken(t)', r, Len(r) - Len(out'))
    <2>1. Traced(Taken(t), r, 0)
      BY <1>2, UrcTraced
    <2> QED
      BY <1>7, <1>8, <2>1
  <1>10. \A i \in 1..Len(out') : out'[i] = Own(r[Len(r) - Len(out') + i])
    BY <1>4, <1>5, <1>6, <1>8
  <1> QED
    BY <1>4, <1>5, <1>6, <1>7, <1>9, <1>10 DEF AnsweredWith

\* The lines of the answer still to come, and the next of them.
LEMMA AnswerParts ==
    ASSUME AnswersFit, LInv, NEW t \in Tasks, Reading(t), Underway(t),
           NEW r \in Answers[cmd[t]], AnsweredWith(t, r)
    PROVE  /\ Fitting(cmd[t], r)
           /\ Taken(t) \in Seq(Token) /\ out \in Seq(Token)
           /\ Len(r) \in Nat /\ Len(out) \in Nat /\ Len(r) - Len(out) \in Nat
           /\ Traced(Taken(t), r, Len(r) - Len(out))
           /\ out # <<>> => /\ Head(out) = Own(r[Len(r) - Len(out) + 1])
                            /\ Head(out) \in Token /\ Head(out).line # "URC"
                            /\ Tail(out) \in Seq(Token)
                            /\ Len(Tail(out)) = Len(out) - 1
                            /\ Len(r) - Len(Tail(out)) = (Len(r) - Len(out)) + 1
                            /\ \A i \in 1..Len(Tail(out)) :
                                 Tail(out)[i] = Own(r[Len(r) - Len(Tail(out)) + i])
  <1>1. /\ Taken(t) \in Seq(Token) /\ out \in Seq(Token) /\ Len(out) \in Nat
        /\ cmd[t] \in Commands
    BY Received, PathTypes, LenProperties
  <1>2. Fitting(cmd[t], r)
    BY <1>1, AnswerFacts
  <1>3. /\ Len(out) <= Len(r)
        /\ \A i \in 1..Len(out) : out[i] = Own(r[Len(r) - Len(out) + i])
        /\ Traced(Taken(t), r, Len(r) - Len(out))
    BY DEF AnsweredWith
  <1>4. Len(r) \in Nat /\ Len(r) - Len(out) \in Nat
    <2>1. Len(r) \in Nat
      BY <1>2 DEF Fitting
    <2> QED
      BY <1>1, <1>3, <2>1
  <1>5. ASSUME out # <<>>
        PROVE  /\ Head(out) = Own(r[Len(r) - Len(out) + 1])
               /\ Head(out) \in Token /\ Head(out).line # "URC"
               /\ Tail(out) \in Seq(Token)
               /\ Len(Tail(out)) = Len(out) - 1
               /\ Len(r) - Len(Tail(out)) = (Len(r) - Len(out)) + 1
               /\ \A i \in 1..Len(Tail(out)) :
                     Tail(out)[i] = Own(r[Len(r) - Len(Tail(out)) + i])
    <2>1. /\ Head(out) \in Token /\ Tail(out) \in Seq(Token)
          /\ Len(Tail(out)) = Len(out) - 1
          /\ \A i \in 1..Len(Tail(out)) : Tail(out)[i] = out[i + 1]
          /\ Head(out) = out[1]
      BY <1>1, <1>5, HeadTailProperties
    <2>2. Len(out) \in Nat \ {0} /\ 1 \in 1..Len(out)
      BY <1>1, <1>5, EmptySeq
    <2>3. Head(out) = Own(r[Len(r) - Len(out) + 1])
      BY <1>3, <2>1, <2>2
    <2>4. Head(out).line # "URC"
      <3>1. Len(r) - Len(out) + 1 \in 1..Len(r)
        BY <1>4, <2>2
      <3>2. r[Len(r) - Len(out) + 1] # "URC"
        BY <1>2, <3>1 DEF Fitting
      <3> QED
        BY <2>3, <3>2 DEF Own
    <2>5. Len(r) - Len(Tail(out)) = (Len(r) - Len(out)) + 1
      BY <1>4, <2>1, <2>2
    <2>6. ASSUME NEW i \in 1..Len(Tail(out))
          PROVE  Tail(out)[i] = Own(r[Len(r) - Len(Tail(out)) + i])
      <3>1. i + 1 \in 1..Len(out) /\ Len(r) - Len(out) + (i + 1) = Len(r) - Len(Tail(out)) + i
        BY <1>4, <2>1, <2>2
      <3>2. out[i + 1] = Own(r[Len(r) - Len(out) + (i + 1)])
        BY <1>3, <3>1
      <3> QED
        BY <2>1, <3>1, <3>2
    <2> QED
      BY <2>1, <2>3, <2>4, <2>5, <2>6
  <1> QED
    BY <1>1, <1>2, <1>3, <1>4, <1>5

\* What a step of the modem or the UART leaves as it was.
LineStep == ModemExec \/ ModemSend \/ ModemUrc \/ FifoOverflow \/ EventFlush

LEMMA LineSteps ==
    ASSUME LInv, LineStep
    PROVE  /\ UNCHANGED <<mutex, pm, pc, cmd, buf, left, ret>>
           /\ Settled => Settled'
  <1>1. UNCHANGED <<mutex, pm, pc, cmd, buf, left, ret>>
    BY DEF LineStep, ModemExec, ModemSend, ModemUrc, FifoOverflow, EventFlush, callVars
  <1>2. rx \in Seq(Token) /\ DOMAIN rx = 1..Len(rx) /\ Len(rx) \in Nat
    BY LenProperties DEF LInv, TypeOK
  <1>3. ASSUME Settled PROVE Settled'
    <2>1. CASE ModemUrc
      <3>1. Urc \in Token /\ rx' = Append(rx, Urc)
        BY <2>1, LineAssumption DEF ModemUrc, Urc, Token
      <3>2. /\ rx' \in Seq(Token) /\ Len(rx') = Len(rx) + 1
            /\ \A i \in 1..Len(rx) : rx'[i] = rx[i]
            /\ rx'[Len(rx) + 1] = Urc
        BY <1>2, <3>1, AppendProperties
      <3>3. DOMAIN rx' = 1..(Len(rx) + 1)
        BY <3>2, LenProperties
      <3>4. ASSUME NEW i \in DOMAIN rx' PROVE rx'[i].line = "URC"
        <4>1. CASE i \in 1..Len(rx)
          BY <1>2, <1>3, <3>2, <4>1 DEF Settled
        <4>2. CASE i = Len(rx) + 1
          BY <3>2, <4>2 DEF Urc
        <4> QED
          BY <1>2, <3>3, <4>1, <4>2
      <3> QED
        BY <1>3, <2>1, <3>4 DEF ModemUrc, modemVars, Settled, ModemQuiet
    <2>2. CASE EventFlush
      BY <1>3, <2>2 DEF EventFlush, Flush, modemVars, Settled, ModemQuiet
    <2>3. CASE ModemExec \/ ModemSend \/ FifoOverflow
      BY <1>3, <2>3 DEF ModemExec, ModemSend, FifoOverflow, Settled, ModemQuiet
    <2> QED
      BY <2>1, <2>2, <2>3 DEF LineStep
  <1> QED
    BY <1>1, <1>3

\* A step of the modem or the UART leaves an exchange underway.
LEMMA LineUnderway ==
    ASSUME AnswersFit, LInv, Lossless, NEW t \in Tasks, Reading(t), Underway(t), LineStep
    PROVE  Underway(t)'
  <1>1. /\ UNCHANGED <<cmd, buf, left>>
        /\ Settled => Settled'
    BY LineSteps
  <1>2. /\ Taken(t) \in Seq(Token) /\ out \in Seq(Token) /\ cmd[t] \in Commands
        /\ buf[t] \in Seq(Token) /\ rx \in Seq(Token)
        /\ UrcCount(Taken(t)) \in Nat /\ UrcCount(Taken(t)) <= MaxUrc /\ MaxUrc \in Nat
        /\ UrcCount(buf[t]) \in Nat /\ UrcCount(rx) \in Nat
    BY Received, PathTypes, CountType, BoundAssumption DEF Underway
  <1>3. SUFFICES /\ Awaited(t)' \/ \E r \in Answers[cmd[t]] : AnsweredWith(t, r)'
                 /\ UrcCount(Taken(t)') <= MaxUrc
    BY <1>1 DEF Underway
  <1>4. CASE ModemExec
    <2>1. \E r \in Answers[cmd[t]] : AnsweredWith(t, r)'
      BY <1>4, ExecUnderway
    <2>2. Taken(t)' = Taken(t)
      BY <1>4 DEF ModemExec, callVars, Taken
    <2> QED
      BY <1>2, <2>1, <2>2
  <1>5. CASE ModemSend
    <2>1. out # <<>> /\ rx' = Append(rx, Head(out)) /\ out' = Tail(out) /\ buf' = buf
          /\ UNCHANGED <<inbox, reply>>
      BY <1>5 DEF ModemSend, callVars
    <2>2. PICK r \in Answers[cmd[t]] : AnsweredWith(t, r)
      BY <2>1 DEF Underway, Awaited
    <2> DEFINE m == Len(r) - Len(out)
    <2>3. /\ Len(r) \in Nat /\ Len(out) \in Nat /\ m \in Nat
          /\ Traced(Taken(t), r, m)
          /\ Head(out) = Own(r[m + 1])
          /\ Head(out) \in Token /\ Head(out).line # "URC"
          /\ Len(Tail(out)) = Len(out) - 1
          /\ Len(r) - Len(out') = m + 1
          /\ \A i \in 1..Len(out') : out'[i] = Own(r[Len(r) - Len(out') + i])
      BY <2>1, <2>2, AnswerParts
    <2>4. Taken(t)' = Taken(t) \o <<Head(out)>> /\ <<Head(out)>> \in Seq(Token)
      BY <2>1, <2>3, TakenGrows
    <2>5. Len(out') <= Len(r)
      BY <2>1, <2>3
    <2> HIDE DEF m
    <2>6. Traced(Taken(t) \o <<Head(out)>>, r, m + 1)
      <3>1. m + 1 \in {m, m + 1} /\ m + 1 # m
        BY <2>3
      <3> QED
        BY <1>2, <2>3, <3>1, TraceGrows
    <2>7. AnsweredWith(t, r)'
      BY <2>1, <2>2, <2>3, <2>4, <2>5, <2>6 DEF AnsweredWith
    <2>8. UrcCount(Taken(t)') <= MaxUrc
      <3>1. UrcCount(<<Head(out)>>) = 0
        BY <2>3, CountOne
      <3> DEFINE w == Taken(t) \o <<Head(out)>>
      <3>2. w \in Seq(Token) /\ UrcCount(w) <= UrcCount(Taken(t)) + UrcCount(<<Head(out)>>)
        BY <1>2, <2>4, CountParts, ConcatProperties
      <3>3. UrcCount(w) \in Nat
        BY <3>2, CountType
      <3> HIDE DEF w
      <3>4. UrcCount(w) <= MaxUrc
        BY <1>2, <3>1, <3>2, <3>3
      <3> QED
        BY <2>4, <3>4 DEF w
    <2> QED
      BY <2>7, <2>8
  <1>6. CASE ModemUrc
    <2>1. /\ rx' = Append(rx, Urc) /\ buf' = buf
          /\ UNCHANGED <<out, inbox, reply>>
          /\ UrcCount(rx) < MaxUrc
          /\ UrcCount(buf[t]) = 0
      BY <1>6 DEF ModemUrc, callVars, modemVars, Urc
    <2>2. Urc \in Token /\ Urc.line = "URC"
      BY LineAssumption DEF Urc, Token
    <2>3. Taken(t)' = Taken(t) \o <<Urc>> /\ <<Urc>> \in Seq(Token)
      BY <2>1, <2>2, TakenGrows
    <2>4. UrcCount(Taken(t)') <= MaxUrc
      <3> DEFINE w == Taken(t) \o <<Urc>>
      <3>1. UrcCount(<<Urc>>) = 1
        BY <2>2, CountOne
      <3>2. UrcCount(Taken(t)) <= UrcCount(buf[t]) + UrcCount(rx)
        BY <1>2, CountParts DEF Taken
      <3>3. w \in Seq(Token) /\ UrcCount(w) <= UrcCount(Taken(t)) + UrcCount(<<Urc>>)
        BY <1>2, <2>3, CountParts, ConcatProperties
      <3>4. UrcCount(w) \in Nat
        BY <3>3, CountType
      <3> HIDE DEF w
      <3>5. UrcCount(w) <= MaxUrc
        BY <1>2, <2>1, <3>1, <3>2, <3>3, <3>4
      <3> QED
        BY <2>3, <3>5 DEF w
    <2>5. ASSUME Awaited(t) PROVE Awaited(t)'
      <3>1. \A i \in 1..Len(Taken(t) \o <<Urc>>) : (Taken(t) \o <<Urc>>)[i] = Urc
        <4>1. /\ Len(Taken(t) \o <<Urc>>) = Len(Taken(t)) + 1 /\ Len(Taken(t)) \in Nat
              /\ \A i \in 1..(Len(Taken(t)) + 1) : (Taken(t) \o <<Urc>>)[i] =
                    IF i <= Len(Taken(t)) THEN Taken(t)[i] ELSE <<Urc>>[i - Len(Taken(t))]
          <5>1. Len(<<Urc>>) = 1
            OBVIOUS
          <5> QED
            BY <1>2, <2>3, <5>1, ConcatProperties, LenProperties
        <4>2. <<Urc>>[1] = Urc
          OBVIOUS
        <4> QED
          BY <2>5, <4>1, <4>2 DEF Awaited
      <3> QED
        BY <1>1, <2>1, <2>3, <2>5, <3>1 DEF Awaited
    <2>6. ASSUME NEW r \in Answers[cmd[t]], AnsweredWith(t, r) PROVE AnsweredWith(t, r)'
      <3> DEFINE m == Len(r) - Len(out)
      <3>1. m \in Nat /\ Traced(Taken(t), r, m)
        BY <2>6, AnswerParts
      <3>2. m \in {m, m + 1}
        OBVIOUS
      <3> HIDE DEF m
      <3>3. Traced(Taken(t) \o <<Urc>>, r, m)
        BY <1>2, <2>2, <3>1, <3>2, TraceGrows
      <3> QED
        BY <2>1, <2>3, <2>6, <3>3 DEF AnsweredWith, m
    <2> QED
      BY <2>4, <2>5, <2>6 DEF Underway
  <1>7. CASE FifoOverflow
    <2>1. out # <<>> /\ out' = Tail(out) /\ Overruns /\ UNCHANGED <<rx, buf, inbox, reply>>
      BY <1>7 DEF FifoOverflow, callVars
    <2>2. PICK r \in Answers[cmd[t]] : AnsweredWith(t, r)
      BY <2>1 DEF Underway, Awaited
    <2> DEFINE m == Len(r) - Len(out)
    <2>3. /\ Len(r) \in Nat /\ Len(out) \in Nat /\ m \in Nat
          /\ Traced(Taken(t), r, m)
          /\ Len(Tail(out)) = Len(out) - 1
          /\ Len(r) - Len(out') = m + 1
          /\ \A i \in 1..Len(out') : out'[i] = Own(r[Len(r) - Len(out') + i])
      BY <2>1, <2>2, AnswerParts
    <2>4. Len(out') <= Len(r)
      BY <2>1, <2>3
    <2> HIDE DEF m
    <2>5. Traced(Taken(t), r, m + 1)
      BY <1>2, <2>1, <2>3, TraceSkips
    <2>6. Taken(t)' = Taken(t)
      BY <2>1 DEF Taken
    <2>7. AnsweredWith(t, r)'
      BY <2>1, <2>2, <2>3, <2>4, <2>5, <2>6 DEF AnsweredWith
    <2> QED
      BY <1>2, <2>6, <2>7
  <1>8. CASE EventFlush
    <2>1. Overruns /\ rx' = <<>> /\ UNCHANGED <<buf, out, inbox, reply>>
      BY <1>8 DEF EventFlush, Flush, callVars, modemVars, Lossless
    <2>2. Taken(t)' = buf[t]
      BY <1>2, <2>1, ConcatEmptySeq DEF Taken
    <2>3. /\ Taken(t) = buf[t] \o rx
          /\ Len(buf[t]) \in Nat /\ Len(rx) \in Nat
          /\ Len(Taken(t)) = Len(buf[t]) + Len(rx)
          /\ \A i \in 1..Len(buf[t]) : Taken(t)[i] = buf[t][i]
      BY <1>2, ConcatProperties, LenProperties DEF Taken
    <2>4. UrcCount(buf[t]) <= MaxUrc
      <3>1. UrcCount(buf[t]) <= UrcCount(Taken(t))
        BY <1>2, CountParts DEF Taken
      <3> QED
        BY <1>2, <3>1
    <2>5. ASSUME Awaited(t) PROVE Awaited(t)'
      BY <1>1, <2>1, <2>2, <2>3, <2>5 DEF Awaited
    <2>6. ASSUME NEW r \in Answers[cmd[t]], AnsweredWith(t, r) PROVE AnsweredWith(t, r)'
      <3> DEFINE m == Len(r) - Len(out)
      <3>1. /\ m \in Nat /\ m <= Len(r) /\ Len(r) \in Nat
            /\ Traced(Taken(t), r, m)
            /\ \A n \in 1..Len(r) : r[n] # "URC"
        <4>1. Fitting(cmd[t], r) /\ m \in Nat /\ Len(r) \in Nat /\ Len(out) \in Nat
              /\ Traced(Taken(t), r, m)
          BY <2>6, AnswerParts
        <4>2. m <= Len(r)
          BY <4>1
        <4>3. \A n \in 1..Len(r) : r[n] # "URC"
          BY <4>1 DEF Fitting
        <4> HIDE DEF m
        <4> QED
          BY <4>1, <4>2, <4>3
      <3> HIDE DEF m
      <3>2. Traced(buf[t], r, m)
        BY <1>2, <2>1, <2>3, <3>1, TracePrefix
      <3> QED
        BY <2>1, <2>2, <2>6, <3>2 DEF AnsweredWith, m
    <2> QED
      BY <2>2, <2>4, <2>5, <2>6 DEF Underway
  <1> QED
    BY <1>4, <1>5, <1>6, <1>7, <1>8 DEF LineStep

-----------------------------------------------------------------------------
(* The invariant is inductive *)

LEMMA InitExchangeInv == Init => ExchangeInv
  <1> SUFFICES ASSUME Init PROVE ExchangeInv
    OBVIOUS
  <1>1. Lossless /\ Results
    BY DEF Init, Lossless, Results, Codeless
  <1>2. Between /\ Calls
    BY DEF Init, Between, Calls, Settled, ModemQuiet, Reading
  <1>3. Buffers
    BY DEF Init, Buffers, AnyForeign
  <1> QED
    BY <1>1, <1>2, <1>3 DEF ExchangeInv

LEMMA NextLossless == Lossless /\ [Next]_vars => Lossless'
  BY DEF Lossless, Next, Inside, Modem, Call, Take, Acquire, Write, ReadStart, ReadDone,
         TimeUp, Release, Give, ModemExec, ModemSend, ModemUrc, FifoOverflow, BufferFull,
         EventFlush, vars

\* A call gets its result where its loop ends, and hands it over with the lock.
LEMMA NextResults == LInv /\ Results /\ [Next]_vars => Results'
  <1> SUFFICES ASSUME LInv, Results, [Next]_vars PROVE Results'
    OBVIOUS
  <1>0. /\ pc \in [Tasks -> Places]
        /\ ret \in [Tasks -> Codes \cup {"none"}]
    BY DEF LInv, TypeOK
  <1>1. ASSUME NEW t \in Tasks, NEW c \in Commands, Call(t, c) PROVE Results'
    BY <1>0, <1>1 DEF Call, Results, Codeless
  <1>2. ASSUME NEW t \in Tasks,
               \/ Take(t) \/ Acquire(t) \/ Write(t) \/ ReadStart(t)
               \/ TimeUp(t) \/ Release(t) \/ Give(t)
        PROVE  Results'
    BY <1>0, <1>2 DEF Take, Acquire, Write, ReadStart, TimeUp, Release, Give, Results,
                      Codeless, callVars
  <1>3. ASSUME NEW t \in Tasks, ReadDone(t) PROVE Results'
    <2>1. pc[t] = "read"
      BY <1>3 DEF ReadDone
    <2>2. CASE \E code \in Codes : /\ pc' = [pc EXCEPT ![t] = "release"]
                                   /\ ret' = [ret EXCEPT ![t] = code]
      BY <1>0, <2>2 DEF Results, Codeless, Codes
    <2>3. CASE pc' = [pc EXCEPT ![t] = "loop"] /\ ret' = ret
      BY <1>0, <2>1, <2>3 DEF Results, Codeless
    <2> QED
      BY <1>3, <2>2, <2>3, ReadDoneEffect
  <1>4. CASE LineStep \/ BufferFull \/ UNCHANGED vars
    <2>1. pc' = pc /\ ret' = ret
      BY <1>4, LineSteps DEF BufferFull, vars, callVars
    <2> QED
      BY <2>1 DEF Results, Codeless
  <1> QED
    BY <1>1, <1>2, <1>3, <1>4 DEF Next, Inside, Modem, LineStep

\* An exchange is underway as it was where nothing it depends on changes.
LEMMA SameUnderway ==
    ASSUME NEW t \in Tasks, Underway(t),
           buf'[t] = buf[t], cmd'[t] = cmd[t], left'[t] = left[t],
           UNCHANGED <<rx, inbox, out, reply>>
    PROVE  Underway(t)'
  <1>1. Taken(t)' = Taken(t)
    BY DEF Taken
  <1>2. Awaited(t) => Awaited(t)'
    BY <1>1 DEF Awaited
  <1>3. \A r : AnsweredWith(t, r) => AnsweredWith(t, r)'
    BY <1>1 DEF AnsweredWith
  <1>4. Settled => Settled'
    BY DEF Settled, ModemQuiet
  <1> QED
    BY <1>1, <1>2, <1>3, <1>4 DEF Underway

\* Nobody reads while a task is about to write.
LEMMA Alone ==
    ASSUME LInv, NEW t \in Tasks, pc[t] \in Locked, NEW u \in Tasks, pc[u] \in Locked
    PROVE  u = t
  BY DEF LInv, LockDiscipline

LEMMA WriteUnderway ==
    ASSUME AnswersFit, LInv, ExchangeInv, NEW t \in Tasks, Write(t)
    PROVE  Underway(t)'
  <1>1. \A u \in Tasks : ~Reading(u)
    <2>1. pc[t] = "write"
      BY DEF Write
    <2> QED
      BY <2>1, Alone DEF Reading, Locked
  <1>2. inbox = <<>> /\ out = <<>>
    BY <1>1 DEF ExchangeInv, Between, Settled, ModemQuiet
  <1>3. cmd[t] \in Commands /\ cmd' = cmd
    BY DEF Write, LInv, TypeOK
  <1>4. Stale(<<>>) = <<>>
    <2>1. <<>> \in Seq(Token)
      OBVIOUS
    <2> QED
      BY <2>1, StaleNotOwned
  <1>5. inbox' = <<[cmd |-> cmd[t], own |-> TRUE]>> /\ out' = <<>> /\ reply' = <<>>
    <2>1. /\ inbox' = Append(Stale(inbox), [cmd |-> cmd[t], own |-> TRUE])
          /\ out' = Stale(out) /\ reply' = <<>>
      BY DEF Write
    <2>2. \A x : Append(<<>>, x) = <<x>>
      OBVIOUS
    <2> QED
      BY <1>2, <1>4, <2>1, <2>2
  <1>6. buf'[t] = <<>> /\ rx' = <<>> /\ left'[t] # 0
    <2>1. /\ buf \in [Tasks -> Seq(Token)] /\ left \in [Tasks -> Nat]
          /\ Reads[cmd[t]] \in Nat \ {0}
      BY <1>3, CommandAssumption DEF LInv, TypeOK
    <2>2. /\ buf' = [buf EXCEPT ![t] = <<>>]
          /\ left' = [left EXCEPT ![t] = Reads[cmd[t]]]
          /\ rx' = <<>>
      BY DEF Write, Flush
    <2> QED
      BY <2>1, <2>2
  <1>7. Taken(t)' = <<>>
    BY <1>6 DEF Taken
  <1>8. Awaited(t)'
    <2>1. \A i \in 1..Len(<<>>) : <<>>[i] = Urc
      OBVIOUS
    <2> QED
      BY <1>3, <1>5, <1>7, <2>1 DEF Awaited
  <1>9. UrcCount(Taken(t)') <= MaxUrc
    BY <1>7, CountNone, BoundAssumption
  <1>10. Classify(cmd[t], <<>>) = "none"
    <2>1. Cap[cmd[t]] \in Nat \ {0} /\ Len(<<>>) = 0
      BY <1>3, CommandAssumption
    <2>2. ~Has(<<>>, "ERROR") /\ ~Has(<<>>, "OK")
      BY DEF Has
    <2> QED
      BY <2>1, <2>2 DEF Classify
  <1> QED
    BY <1>3, <1>6, <1>8, <1>9, <1>10 DEF Underway

LEMMA NextCalls ==
    ASSUME AnswersFit, InTime, LInv, ExchangeInv, [Next]_vars
    PROVE  Calls'
  <1> SUFFICES ASSUME NEW t \in Tasks, Reading(t)' PROVE Underway(t)'
    BY DEF Calls
  <1>1. CASE Write(t)
    BY <1>1, WriteUnderway
  <1>2. CASE ReadDone(t)
    <2>1. Underway(t) /\ Taken(t) \in Seq(Token)
      BY <1>2, Received DEF ReadDone, Reading, ExchangeInv, Calls
    <2>2. /\ buf' = [buf EXCEPT ![t] = Taken(t)]
          /\ rx' = <<>>
          /\ UNCHANGED <<cmd, inbox, out, reply>>
          /\ \/ pc' = [pc EXCEPT ![t] = "release"]
             \/ /\ Classify(cmd[t], Taken(t)) = "none"
                /\ \E n \in Nat : left' = [left EXCEPT ![t] = n] /\ (n = 0 => ModemQuiet)
      BY <1>2, ReadsAll
    <2>3. /\ pc' # [pc EXCEPT ![t] = "release"]
          /\ buf'[t] = Taken(t)
      BY <2>2 DEF Reading, LInv, TypeOK
    <2>4. Taken(t)' = Taken(t)
      BY <2>1, <2>2, <2>3, ConcatEmptySeq DEF Taken
    <2>5. Classify(cmd'[t], buf'[t]) = "none"
      BY <2>2, <2>3
    <2>6. left'[t] = 0 => Settled'
      <3>1. PICK n \in Nat : left' = [left EXCEPT ![t] = n] /\ (n = 0 => ModemQuiet)
        BY <2>2, <2>3
      <3>2. left'[t] = n
        BY <3>1 DEF LInv, TypeOK
      <3> QED
        BY <2>2, <3>1, <3>2 DEF Settled, ModemQuiet
    <2>7. Awaited(t) => Awaited(t)'
      BY <2>2, <2>4 DEF Awaited
    <2>8. \A r : AnsweredWith(t, r) => AnsweredWith(t, r)'
      BY <2>2, <2>4 DEF AnsweredWith
    <2> QED
      BY <2>1, <2>2, <2>4, <2>5, <2>6, <2>7, <2>8 DEF Underway
  <1>3. CASE ~Write(t) /\ ~ReadDone(t)
    <2>1. Reading(t) /\ buf'[t] = buf[t] /\ Underway(t)
      BY <1>3, ReadingBefore DEF ExchangeInv, Calls
    <2>2. CASE LineStep
      BY <2>1, <2>2, LineUnderway DEF ExchangeInv
    <2>3. CASE Elsewhere(t)
      <3>1. UNCHANGED <<rx, inbox, out, reply>>
        BY <2>3, ElsewhereKeeps
      <3>2. cmd'[t] = cmd[t] /\ left'[t] = left[t]
        BY <2>1, <2>3 DEF Elsewhere, Call, Take, Acquire, ReadStart, TimeUp, Release, Give,
                          BufferFull, vars, callVars, Reading, LInv, TypeOK
      <3> QED
        BY <2>1, <3>1, <3>2, SameUnderway
    <2> QED
      BY <1>3, <2>1, <2>2, <2>3, ReadingSteps DEF LineStep
  <1> QED
    BY <1>1, <1>2, <1>3

\* A call stops reading when it has seen the last line of its answer, and what
\* arrives between two exchanges came unasked.
LEMMA NextBetween ==
    ASSUME AnswersFit, InTime, LInv, ExchangeInv, [Next]_vars
    PROVE  Between'
  <1> SUFFICES ASSUME \A t \in Tasks : ~Reading(t)' PROVE Settled'
    BY DEF Between
  <1>0. pc \in [Tasks -> Places]
    BY DEF LInv, TypeOK
  <1>1. ASSUME NEW t \in Tasks, Write(t) PROVE FALSE
    BY <1>0, <1>1 DEF Write, Reading
  <1>2. ASSUME NEW t \in Tasks, ReadDone(t) PROVE Settled'
    <2>1. pc' # [pc EXCEPT ![t] = "loop"]
      BY <1>0 DEF Reading
    <2>2. ModemQuiet /\ rx' = <<>> /\ UNCHANGED <<inbox, out>>
      BY <1>2, <2>1, ReadsAll
    <2> QED
      BY <2>2 DEF Settled, ModemQuiet
  <1>3. ASSUME NEW t \in Tasks, TimeUp(t) PROVE Settled'
    <2>1. Reading(t) /\ left[t] = 0 /\ UNCHANGED <<rx, inbox, out>>
      BY <1>3 DEF TimeUp, Reading, modemVars
    <2>2. Settled
      BY <2>1 DEF ExchangeInv, Calls, Underway
    <2> QED
      BY <2>1, <2>2 DEF Settled, ModemQuiet
  <1>4. ASSUME \A t \in Tasks : ~Write(t) /\ ~ReadDone(t) /\ ~TimeUp(t) PROVE Settled'
    <2>1. CASE \A t \in Tasks : ~Reading(t)
      <3>1. Settled
        BY <2>1 DEF ExchangeInv, Between
      <3>2. CASE LineStep
        BY <3>1, <3>2, LineSteps
      <3>3. CASE ~LineStep
        <4>1. UNCHANGED <<rx, inbox, out>>
          BY <1>4, <3>3 DEF LineStep, Next, Inside, Modem, Call, Take, Acquire, ReadStart,
                            Release, Give, BufferFull, vars, modemVars
        <4> QED
          BY <3>1, <4>1 DEF Settled, ModemQuiet
      <3> QED
        BY <3>2, <3>3
    <2>2. ASSUME NEW t \in Tasks, Reading(t) PROVE FALSE
      <3>1. CASE LineStep
        BY <2>2, <3>1, LineSteps DEF Reading
      <3>2. CASE Elsewhere(t)
        BY <1>0, <1>4, <2>2, <3>2 DEF Elsewhere, Call, Take, Acquire, ReadStart, Release,
                                      Give, BufferFull, vars, callVars, Reading
      <3> QED
        BY <1>4, <2>2, <3>1, <3>2, ReadingSteps DEF LineStep
    <2> QED
      BY <2>1, <2>2
  <1> QED
    BY <1>1, <1>2, <1>3, <1>4

\* The lines a call has received of its answer, and those that came unasked, are
\* no line of another answer.
LEMMA TakenOwn ==
    ASSUME LInv, NEW t \in Tasks, Underway(t)
    PROVE  ~AnyForeign(Taken(t))
  <1>1. Taken(t) \in Seq(Token) /\ DOMAIN Taken(t) = 1..Len(Taken(t))
    BY PathTypes, ConcatProperties, LenProperties DEF Taken
  <1>2. ~Foreign(Urc) /\ \A line : ~Foreign(Own(line))
    BY DEF Foreign, Urc, Own
  <1>3. CASE Awaited(t)
    BY <1>1, <1>2, <1>3 DEF Awaited, AnyForeign
  <1>4. ASSUME NEW r, AnsweredWith(t, r) PROVE ~AnyForeign(Taken(t))
    <2> DEFINE m == Len(r) - Len(out)
    <2>1. Traced(Taken(t), r, m)
      BY <1>4 DEF AnsweredWith
    <2> HIDE DEF m
    <2>2. PICK f \in [1..Len(Taken(t)) -> 0..m] : IsTrace(f, Taken(t), r, m)
      BY <2>1 DEF Traced
    <2>3. \A i \in 1..Len(Taken(t)) :
             Taken(t)[i] = IF f[i] = 0 THEN Urc ELSE Own(r[f[i]])
      BY <2>2 DEF IsTrace
    <2> QED
      BY <1>1, <1>2, <2>3 DEF AnyForeign
  <1> QED
    BY <1>3, <1>4 DEF Underway

LEMMA NextBuffers ==
    ASSUME AnswersFit, InTime, LInv, ExchangeInv, [Next]_vars
    PROVE  Buffers'
  <1> SUFFICES ASSUME NEW t \in Tasks
               PROVE  (Empty(t)' => buf'[t] = <<>>) /\ ~AnyForeign(buf'[t])
    BY DEF Buffers
  <1>0. /\ pc \in [Tasks -> Places] /\ buf \in [Tasks -> Seq(Token)]
        /\ Empty(t) => buf[t] = <<>>
        /\ ~AnyForeign(buf[t])
        /\ ~AnyForeign(<<>>)
    BY Pieces DEF LInv, TypeOK, ExchangeInv, Buffers
  <1>1. ASSUME NEW u \in Tasks, ReadDone(u)
        PROVE  (Empty(t)' => buf'[t] = <<>>) /\ ~AnyForeign(buf'[t])
    <2>1. /\ buf' = [buf EXCEPT ![u] = Taken(u)]
          /\ \E p \in {"release", "loop"} : pc' = [pc EXCEPT ![u] = p]
      BY <1>1, ReadsAll
    <2>2. ~AnyForeign(Taken(u))
      BY <1>1, TakenOwn DEF ExchangeInv, Calls, ReadDone, Reading
    <2>3. CASE t = u
      BY <1>0, <2>1, <2>2, <2>3 DEF Empty
    <2>4. CASE t # u
      BY <1>0, <2>1, <2>4 DEF Empty
    <2> QED
      BY <2>3, <2>4
  <1>2. ASSUME NEW u \in Tasks, Write(u) \/ Give(u)
        PROVE  (Empty(t)' => buf'[t] = <<>>) /\ ~AnyForeign(buf'[t])
    <2>1. /\ buf' = [buf EXCEPT ![u] = <<>>]
          /\ \E p \in {"idle", "loop"} : pc' = [pc EXCEPT ![u] = p]
      BY <1>2 DEF Write, Give
    <2>2. CASE t = u
      BY <1>0, <2>1, <2>2
    <2>3. CASE t # u
      BY <1>0, <2>1, <2>3 DEF Empty
    <2> QED
      BY <2>2, <2>3
  <1>3. ASSUME NEW u \in Tasks,
               \/ \E c \in Commands : Call(u, c)
               \/ Take(u) \/ Acquire(u) \/ ReadStart(u) \/ TimeUp(u) \/ Release(u)
        PROVE  (Empty(t)' => buf'[t] = <<>>) /\ ~AnyForeign(buf'[t])
    <2>1. buf' = buf /\ (Empty(t)' => Empty(t))
      BY <1>0, <1>3 DEF Call, Take, Acquire, ReadStart, TimeUp, Release, Empty, callVars
    <2> QED
      BY <1>0, <2>1
  <1>4. CASE LineStep \/ BufferFull \/ UNCHANGED vars
    <2>1. pc' = pc /\ buf' = buf
      BY <1>4, LineSteps DEF BufferFull, vars, callVars
    <2> QED
      BY <1>0, <2>1 DEF Empty
  <1> QED
    BY <1>1, <1>2, <1>3, <1>4 DEF Next, Inside, Modem, LineStep

LEMMA ExchangeInvariance ==
    ASSUME AnswersFit, InTime
    PROVE  Spec => []ExchangeInv
  <1>1. LInv /\ ExchangeInv /\ [Next]_vars => ExchangeInv'
    BY NextLossless, NextBetween, NextCalls, NextResults, NextBuffers DEF ExchangeInv
  <1> QED
    BY InitExchangeInv, Invariance, <1>1, PTL DEF Spec

-----------------------------------------------------------------------------
(* The theorems *)

\* When the modem answers in time, and as its callers expect, no call of
\* modem_send_command_and_expect reads a line of an answer to an earlier command.
THEOREM ReadsOwnAnswer ==
    ASSUME AnswersFit, InTime
    PROVE  Spec => []OwnAnswer
  <1>1. ExchangeInv => OwnAnswer
    BY DEF ExchangeInv, Buffers, OwnAnswer
  <1> QED
    BY ExchangeInvariance, <1>1, PTL

\* Under the same assumptions uart_mutex is given with the modem quiet and no
\* line of an answer in the ring buffer.
THEOREM CleanHandover ==
    ASSUME AnswersFit, InTime
    PROVE  Spec => []QuietHandover
  <1>1. LInv /\ ExchangeInv => QuietHandover
    <2> SUFFICES ASSUME LInv, ExchangeInv, mutex = NoTask PROVE Settled
      BY DEF QuietHandover, Settled
    <2>1. \A t \in Tasks : ~Reading(t)
      BY TaskAssumption DEF LInv, LockDiscipline, Locked, Reading
    <2> QED
      BY <2>1 DEF ExchangeInv, Between
  <1> QED
    BY Invariance, ExchangeInvariance, <1>1, PTL

-----------------------------------------------------------------------------
(* The verdicts of a call, as AtChannel gives them *)

\* The instance of AtChannel brings its own copy of the standard definition.
LEMMA SameCardinality == \A K : Channel!Cardinality(K) = Cardinality(K)
  BY DEF Channel!Cardinality, Cardinality, Channel!IsFiniteSet, IsFiniteSet

\* The lines of the whole answer that reached the caller, as the indices the
\* abstract channel speaks of.
LEMMA LinesHeld ==
    ASSUME NEW c \in Commands, NEW r, Fitting(c, r),
           NEW p \in Seq(Token), Traced(p, r, Len(r))
    PROVE  \E K \in Channel!Wholes(r) :
              /\ K \in Channel!Parts(r)
              /\ Cardinality(K) \in Nat /\ Cardinality(K) <= Len(p)
              /\ \A line : line # "URC" => (Channel!Has(r, K, line) <=> Has(p, line))
  <1>0. Len(r) \in Nat /\ DOMAIN r = 1..Len(r) /\ Len(p) \in Nat
    BY LenProperties DEF Fitting
  <1>1. PICK f \in [1..Len(p) -> 0..Len(r)] : IsTrace(f, p, r, Len(r))
    BY DEF Traced
  <1> DEFINE N == {i \in 1..Len(p) : f[i] # 0}
             K == {n \in 1..Len(r) : \E i \in 1..Len(p) : f[i] = n}
             g == [i \in N |-> f[i]]
  <1>2. K \subseteq 1..Len(r) /\ (Overruns \/ K = 1..Len(r))
    BY <1>1 DEF IsTrace
  <1>3. \A i \in 1..Len(p) : f[i] # 0 => f[i] \in K
    <2>1. \A i \in 1..Len(p) : f[i] \in 0..Len(r)
      OBVIOUS
    <2> QED
      BY <1>0, <2>1
  <1>4. g \in Surjection(N, K)
    <2>1. g \in [N -> K]
      BY <1>3
    <2>2. \A n \in K : \E i \in N : g[i] = n
      BY <1>0
    <2> HIDE DEF g, N, K
    <2> QED
      BY <2>1, <2>2 DEF Surjection
  <1>5. IsFiniteSet(N) /\ Cardinality(N) \in Nat /\ Cardinality(N) <= Len(p)
    <2>1. 1 \in Int /\ Len(p) \in Int
      BY <1>0
    <2>2. /\ IsFiniteSet(1..Len(p))
          /\ Cardinality(1..Len(p)) = IF 1 > Len(p) THEN 0 ELSE Len(p) - 1 + 1
      BY <2>1, FS_Interval
    <2>3. Cardinality(1..Len(p)) = Len(p)
      BY <1>0, <2>2
    <2>4. N \in SUBSET (1..Len(p))
      OBVIOUS
    <2> HIDE DEF N
    <2>5. IsFiniteSet(N) /\ Cardinality(N) <= Cardinality(1..Len(p))
      BY <2>2, <2>4, FS_Subset
    <2>6. Cardinality(N) \in Nat
      BY <2>5, FS_CardinalityType
    <2> QED
      BY <2>3, <2>5, <2>6
  <1>6. Cardinality(K) \in Nat /\ Cardinality(K) <= Len(p)
    <2> HIDE DEF g, N, K
    <2>1. IsFiniteSet(K) /\ Cardinality(K) <= Cardinality(N)
      BY <1>4, <1>5, FS_Surjection
    <2>2. Cardinality(K) \in Nat
      BY <2>1, FS_CardinalityType
    <2> QED
      BY <1>0, <1>5, <2>1, <2>2
  <1>7. ASSUME NEW line, line # "URC"
        PROVE  Channel!Has(r, K, line) <=> Has(p, line)
    <2>1. Has(p, line) <=> \E i \in 1..Len(p) : f[i] # 0 /\ r[f[i]] = line
      BY <1>1, <1>7, TraceLines
    <2>2. Channel!Has(r, K, line) <=> \E n \in K : r[n] = line
      BY DEF Channel!Has
    <2>3. (\E n \in K : r[n] = line) <=> \E i \in 1..Len(p) : f[i] # 0 /\ r[f[i]] = line
      BY <1>0, <1>3
    <2> QED
      BY <2>1, <2>2, <2>3
  <1>8. K \in Channel!Parts(r) /\ K \in Channel!Wholes(r)
    <2> HIDE DEF g, N, K
    <2>1. K \in SUBSET DOMAIN r /\ (Overruns \/ K = DOMAIN r)
      BY <1>0, <1>2
    <2>2. K = DOMAIN r => \A i \in K : 1..i \subseteq K
      BY <1>0
    <2> QED
      BY <2>1, <2>2 DEF Channel!Parts, Channel!Wholes
  <1> QED
    BY <1>6, <1>7, <1>8

\* A call that ends on what it has read returns a verdict of its answer.
LEMMA VerdictGiven ==
    ASSUME NEW c \in Commands, NEW r, Fitting(c, r),
           NEW p \in Seq(Token), Traced(p, r, Len(r)), UrcCount(p) <= MaxUrc,
           Classify(c, p) # "none"
    PROVE  Classify(c, p) \in Channel!Outcomes(c, r)
  <1>1. PICK K \in Channel!Wholes(r) :
              /\ K \in Channel!Parts(r)
              /\ Cardinality(K) \in Nat /\ Cardinality(K) <= Len(p)
              /\ \A line : line # "URC" => (Channel!Has(r, K, line) <=> Has(p, line))
    BY LinesHeld
  <1>2. /\ Len(p) \in Nat /\ Cap[c] \in Nat /\ Len(r) \in Nat /\ MaxUrc \in Nat
        /\ UrcCount(p) \in Nat
        /\ Expect[c] # "URC"
    BY CountType, LenProperties, CommandAssumption, BoundAssumption DEF Fitting
  <1>3. CASE Len(p) >= Cap[c]
    <2>1. Len(p) <= Len(r) + UrcCount(p)
      BY <1>2, TraceLength
    <2>2. Len(r) + MaxUrc >= Cap[c]
      BY <1>2, <1>3, <2>1
    <2>3. Classify(c, p) = "OVERFLOW"
      BY <1>3 DEF Classify
    <2> QED
      BY <2>2, <2>3 DEF Channel!Outcomes
  <1>4. CASE ~(Len(p) >= Cap[c])
    <2>1. Cardinality(K) < Cap[c] /\ ~(Cardinality(K) >= Cap[c])
      BY <1>1, <1>2, <1>4
    <2>2. /\ Channel!Has(r, K, "ERROR") <=> Has(p, "ERROR")
          /\ Channel!Has(r, K, "OK") <=> Has(p, "OK")
          /\ Channel!Has(r, K, Expect[c]) <=> Has(p, Expect[c])
      BY <1>1, <1>2
    <2>3. Classify(c, p) = Channel!Decide(c, r, K)
      BY <1>4, <2>1, <2>2, SameCardinality DEF Classify, Channel!Decide
    <2> QED
      BY <1>1, <2>3 DEF Channel!Outcomes
  <1> QED
    BY <1>3, <1>4

\* So does one whose time is up.
LEMMA VerdictExpired ==
    ASSUME NEW c \in Commands, NEW r, Fitting(c, r),
           NEW p \in Seq(Token), Traced(p, r, Len(r)), Classify(c, p) = "none"
    PROVE  (IF Has(p, Expect[c]) THEN "TIMEOUT" ELSE "UNEXPECTED") \in Channel!Outcomes(c, r)
  <1>1. PICK K \in Channel!Wholes(r) :
              /\ K \in Channel!Parts(r)
              /\ Cardinality(K) \in Nat /\ Cardinality(K) <= Len(p)
              /\ \A line : line # "URC" => (Channel!Has(r, K, line) <=> Has(p, line))
    BY LinesHeld
  <1>2. Len(p) \in Nat /\ Cap[c] \in Nat /\ Expect[c] # "URC"
    BY LenProperties, CommandAssumption DEF Fitting
  <1>3. ~(Len(p) >= Cap[c])
    BY DEF Classify
  <1>4. Cardinality(K) < Cap[c] /\ ~(Cardinality(K) >= Cap[c])
    BY <1>1, <1>2, <1>3
  <1>5. /\ Channel!Has(r, K, "ERROR") <=> Has(p, "ERROR")
        /\ Channel!Has(r, K, "OK") <=> Has(p, "OK")
        /\ Channel!Has(r, K, Expect[c]) <=> Has(p, Expect[c])
    BY <1>1, <1>2
  <1>6. Channel!Decide(c, r, K) = "none"
    BY <1>3, <1>4, <1>5, SameCardinality DEF Classify, Channel!Decide
  <1>7. (IF Has(p, Expect[c]) THEN "TIMEOUT" ELSE "UNEXPECTED") = Channel!Expired(c, r, K)
    BY <1>5 DEF Channel!Expired
  <1> QED
    BY <1>1, <1>6, <1>7 DEF Channel!Outcomes

-----------------------------------------------------------------------------
(* The refinement of AtChannel *)

\* A call the modem owes nothing more has been given its whole answer.
LEMMA WholeAnswer ==
    ASSUME AnswersFit, LInv, NEW t \in Tasks, Reading(t), Underway(t), ModemQuiet
    PROVE  \E r \in Answers[cmd[t]] :
              reply = <<r>> /\ Fitting(cmd[t], r) /\ Traced(Taken(t), r, Len(r))
  <1>1. PICK r \in Answers[cmd[t]] : AnsweredWith(t, r)
    BY DEF Underway, Awaited, ModemQuiet
  <1>2. /\ Fitting(cmd[t], r) /\ Len(r) \in Nat
        /\ Traced(Taken(t), r, Len(r) - Len(out))
    BY <1>1, AnswerParts
  <1>3. Len(r) - Len(out) = Len(r)
    BY <1>2 DEF ModemQuiet
  <1>4. Traced(Taken(t), r, Len(r))
    BY <1>2, <1>3
  <1> QED
    BY <1>1, <1>2, <1>4 DEF AnsweredWith

\* The exchange is the task's inside the lock, past the write.
LEMMA OneExchange ==
    ASSUME LInv
    PROVE  /\ Exchange = {} \/ \E t \in Tasks : Exchange = {t}
           /\ \A t \in Exchange : t \in Tasks /\ Exchange = {t}
  <1>1. \A t \in Exchange : t \in Tasks /\ pc[t] \in Locked
    BY DEF Exchange, Locked
  <1>2. \A t, u \in Exchange : u = t
    BY <1>1, Alone
  <1> QED
    BY <1>1, <1>2

LEMMA Free ==
    /\ Exchange = {} => Holder = NoTask /\ Asked = NoCmd /\ Given = <<>> /\ Result = "none"
    /\ Exchange' = {} => /\ Holder' = NoTask /\ Asked' = NoCmd
                         /\ Given' = <<>> /\ Result' = "none"
  BY DEF Holder, Asked, Given, Result

LEMMA Busy ==
    ASSUME NEW t
    PROVE  /\ Exchange = {t} => /\ Holder = t /\ Asked = cmd[t]
                                /\ Given = reply /\ Result = ret[t]
           /\ Exchange' = {t} => /\ Holder' = t /\ Asked' = cmd'[t]
                                 /\ Given' = reply' /\ Result' = ret'[t]
  <1>1. {t} # {} /\ (CHOOSE u \in {t} : TRUE) = t
    OBVIOUS
  <1>2. Exchange = {t} => Current = t
    BY <1>1 DEF Current
  <1>3. Exchange' = {t} => Current' = t
    BY <1>1 DEF Current
  <1> QED
    BY <1>1, <1>2, <1>3 DEF Holder, Asked, Given, Result

\* A step that changes neither the exchange nor its command, answer and result
\* is not seen.
LEMMA NotSeen ==
    ASSUME LInv, Exchange' = Exchange,
           \A t \in Exchange : cmd'[t] = cmd[t] /\ ret'[t] = ret[t] /\ reply' = reply
    PROVE  UNCHANGED Channel!vars
  <1>1. CASE Exchange = {}
    BY <1>1, Free DEF Channel!vars
  <1>2. ASSUME NEW t \in Tasks, Exchange = {t} PROVE UNCHANGED Channel!vars
    BY <1>2, Busy DEF Channel!vars
  <1> QED
    BY <1>1, <1>2, OneExchange

LEMMA InitChannel == Init => Channel!Init
  <1> SUFFICES ASSUME Init PROVE Channel!Init
    OBVIOUS
  <1>1. Exchange = {}
    BY DEF Init, Exchange
  <1> QED
    BY <1>1, Free DEF Channel!Init, NoCmd

\* The command is written: the exchange begins.
LEMMA WriteBegins ==
    ASSUME LInv, ExchangeInv, NEW t \in Tasks, Write(t)
    PROVE  Channel!Begin(t, cmd[t]) /\ cmd[t] \in Commands
  <1>1. pc \in [Tasks -> Places] /\ cmd[t] \in Commands
    BY DEF Write, LInv, TypeOK
  <1>2. Exchange = {}
    <2>1. pc[t] = "write" /\ \A u \in Tasks : pc[u] \in Locked => u = t
      BY Alone DEF Write, Locked
    <2> QED
      BY <2>1 DEF Exchange, Locked
  <1>3. Exchange' = {t}
    <2>1. pc' = [pc EXCEPT ![t] = "loop"]
      BY DEF Write
    <2>2. \A u \in Tasks : pc'[u] = IF u = t THEN "loop" ELSE pc[u]
      BY <1>1, <2>1
    <2> QED
      BY <1>2, <2>2 DEF Exchange
  <1>4. ret[t] = "none"
    BY DEF ExchangeInv, Results, Codeless, Write
  <1> QED
    BY <1>1, <1>2, <1>3, <1>4, Free, Busy DEF Channel!Begin, Write

\* The modem decides on its answer to the exchange's command.
LEMMA ExecAnswers ==
    ASSUME AnswersFit, LInv, ExchangeInv, ModemExec
    PROVE  Channel!Answer \/ UNCHANGED Channel!vars
  <1>1. UNCHANGED <<pc, cmd, ret>> /\ Exchange' = Exchange
    BY DEF ModemExec, callVars, Exchange
  <1>2. CASE Exchange = {}
    BY <1>1, <1>2, NotSeen
  <1>3. ASSUME NEW t \in Tasks, Exchange = {t} PROVE Channel!Answer
    <2>1. Reading(t)
      <3>1. SUFFICES ASSUME ~Reading(t) PROVE FALSE
        OBVIOUS
      <3>2. \A u \in Tasks : ~Reading(u)
        BY <1>3, <3>1 DEF Exchange, Reading
      <3>3. inbox = <<>>
        BY <3>2 DEF ExchangeInv, Between, Settled, ModemQuiet
      <3> QED
        BY <3>3 DEF ModemExec
    <2>2. Underway(t) /\ ret[t] = "none"
      BY <2>1 DEF ExchangeInv, Calls, Results, Codeless, Reading
    <2>3. reply = <<>>
      BY <2>2 DEF Underway, Awaited, AnsweredWith, ModemExec
    <2>4. \E r \in Answers[cmd[t]] : reply' = <<r>>
      BY <2>1, <2>2, ExecUnderway
    <2>5. t # NoTask
      BY TaskAssumption
    <2>6. /\ Holder = t /\ Asked = cmd[t] /\ Given = reply /\ Result = ret[t]
          /\ Holder' = t /\ Asked' = cmd[t] /\ Given' = reply' /\ Result' = ret[t]
      BY <1>1, <1>3, Busy
    <2> QED
      BY <2>2, <2>3, <2>4, <2>5, <2>6 DEF Channel!Answer
  <1> QED
    BY <1>2, <1>3, OneExchange

\* A task that stops reading has its result, one its answer supports.
LEMMA ReadingConcludes ==
    ASSUME LInv, NEW t \in Tasks, Reading(t), ret[t] = "none",
           NEW r, reply = <<r>>, NEW code \in Channel!Outcomes(cmd[t], r),
           pc' = [pc EXCEPT ![t] = "release"], ret' = [ret EXCEPT ![t] = code],
           UNCHANGED <<cmd, reply>>
    PROVE  Channel!Conclude
  <1>1. pc \in [Tasks -> Places] /\ ret \in [Tasks -> Codes \cup {"none"}]
    BY DEF LInv, TypeOK
  <1>2. Exchange = {t}
    BY OneExchange DEF Exchange, Reading
  <1>3. Exchange' = Exchange
    <2>1. \A u \in Tasks : pc'[u] = IF u = t THEN "release" ELSE pc[u]
      BY <1>1
    <2> QED
      BY <2>1 DEF Exchange, Reading
  <1>4. ret'[t] = code
    BY <1>1
  <1>5. /\ Holder = t /\ Asked = cmd[t] /\ Given = <<r>> /\ Result = "none"
        /\ Holder' = t /\ Asked' = cmd[t] /\ Given' = <<r>> /\ Result' = code
    BY <1>2, <1>3, <1>4, Busy
  <1>6. <<r>> # <<>> /\ <<r>>[1] = r
    OBVIOUS
  <1> QED
    BY <1>5, <1>6 DEF Channel!Conclude

LEMMA ReadConcludes ==
    ASSUME AnswersFit, InTime, LInv, ExchangeInv, NEW t \in Tasks, ReadDone(t)
    PROVE  Channel!Conclude \/ UNCHANGED Channel!vars
  <1>1. Reading(t) /\ Underway(t) /\ ret[t] = "none" /\ pc \in [Tasks -> Places]
    BY DEF ReadDone, Reading, ExchangeInv, Calls, Results, Codeless, LInv, TypeOK
  <1>2. /\ Taken(t) \in Seq(Token) /\ cmd[t] \in Commands
        /\ UrcCount(Taken(t)) <= MaxUrc
    BY <1>1, Received DEF Underway
  <1>3. CASE pc' = [pc EXCEPT ![t] = "release"]
    <2>1. /\ Classify(cmd[t], Taken(t)) # "none" /\ ModemQuiet
          /\ ret' = [ret EXCEPT ![t] = Classify(cmd[t], Taken(t))]
          /\ UNCHANGED <<cmd, reply>>
      <3>1. pc' # [pc EXCEPT ![t] = "loop"]
        BY <1>1, <1>3
      <3> QED
        BY <3>1, ReadsAll
    <2>2. PICK r \in Answers[cmd[t]] :
              reply = <<r>> /\ Fitting(cmd[t], r) /\ Traced(Taken(t), r, Len(r))
      BY <1>1, <2>1, WholeAnswer
    <2>3. Classify(cmd[t], Taken(t)) \in Channel!Outcomes(cmd[t], r)
      BY <1>2, <2>1, <2>2, VerdictGiven
    <2> QED
      BY <1>1, <1>3, <2>1, <2>2, <2>3, ReadingConcludes
  <1>4. CASE pc' = [pc EXCEPT ![t] = "loop"]
    <2>1. UNCHANGED <<cmd, ret, reply>>
      <3>1. pc' # [pc EXCEPT ![t] = "release"]
        BY <1>1, <1>4
      <3> QED
        BY <3>1, ReadsAll
    <2>2. Exchange' = Exchange
      <3>1. \A u \in Tasks : pc'[u] = IF u = t THEN "loop" ELSE pc[u]
        BY <1>1, <1>4
      <3> QED
        BY <1>1, <3>1 DEF Exchange, Reading
    <2> QED
      BY <2>1, <2>2, NotSeen
  <1> QED
    BY <1>3, <1>4, ReadsAll

\* The last read before the time was up had seen the whole answer.
LEMMA TimeUpConcludes ==
    ASSUME AnswersFit, LInv, ExchangeInv, NEW t \in Tasks, TimeUp(t)
    PROVE  Channel!Conclude
  <1> DEFINE code == IF Has(buf[t], Expect[cmd[t]]) THEN "TIMEOUT" ELSE "UNEXPECTED"
  <1>1. /\ Reading(t) /\ Underway(t) /\ ret[t] = "none" /\ left[t] = 0
        /\ cmd[t] \in Commands
    BY DEF TimeUp, Reading, ExchangeInv, Calls, Results, Codeless, LInv, TypeOK
  <1>2. Settled /\ ModemQuiet /\ Classify(cmd[t], buf[t]) = "none"
    BY <1>1 DEF Underway, Settled
  <1>3. PICK r \in Answers[cmd[t]] :
            reply = <<r>> /\ Fitting(cmd[t], r) /\ Traced(Taken(t), r, Len(r))
    BY <1>1, <1>2, WholeAnswer
  <1>4. Traced(buf[t], r, Len(r))
    <2>1. /\ buf[t] \in Seq(Token) /\ rx \in Seq(Token) /\ DOMAIN rx = 1..Len(rx)
      BY PathTypes, LenProperties
    <2>2. Len(r) \in Nat /\ \A n \in 1..Len(r) : r[n] # "URC"
      BY <1>3 DEF Fitting
    <2>3. \A i \in 1..Len(rx) : rx[i].line = "URC"
      BY <1>2, <2>1 DEF Settled
    <2>4. Traced(buf[t] \o rx, r, Len(r)) /\ Len(r) <= Len(r)
      BY <1>3, <2>2 DEF Taken
    <2> QED
      BY <2>1, <2>2, <2>3, <2>4, TracePrefix
  <1>5. code \in Channel!Outcomes(cmd[t], r)
    <2>1. buf[t] \in Seq(Token)
      BY PathTypes
    <2> QED
      BY <1>1, <1>2, <1>3, <1>4, <2>1, VerdictExpired
  <1>6. /\ pc' = [pc EXCEPT ![t] = "release"] /\ ret' = [ret EXCEPT ![t] = code]
        /\ UNCHANGED <<cmd, reply>>
    BY DEF TimeUp, modemVars
  <1> HIDE DEF code
  <1> QED
    BY <1>1, <1>3, <1>5, <1>6, ReadingConcludes

\* The lock is given back: the exchange ends, with a result.
LEMMA GiveEnds ==
    ASSUME LInv, ExchangeInv, NEW t \in Tasks, Give(t)
    PROVE  Channel!End
  <1>1. pc \in [Tasks -> Places] /\ pc[t] = "give" /\ ret[t] # "none"
    BY DEF Give, ExchangeInv, Results, Codeless, LInv, TypeOK
  <1>2. Exchange = {t}
    BY <1>1, OneExchange DEF Exchange
  <1>3. Exchange' = {}
    <2>1. \A u \in Tasks : pc'[u] = IF u = t THEN "idle" ELSE pc[u]
      BY <1>1 DEF Give
    <2> QED
      BY <1>2, <2>1 DEF Exchange
  <1> QED
    BY <1>1, <1>2, <1>3, Free, Busy DEF Channel!End, NoCmd

\* Nothing else is seen from outside the channel.
LEMMA OtherSteps ==
    ASSUME LInv,
           \/ \E t \in Tasks : \/ \E c \in Commands : Call(t, c)
                               \/ Take(t) \/ Acquire(t) \/ ReadStart(t) \/ Release(t)
           \/ ModemSend \/ ModemUrc \/ FifoOverflow \/ BufferFull \/ EventFlush
           \/ UNCHANGED vars
    PROVE  UNCHANGED Channel!vars
  <1>1. pc \in [Tasks -> Places] /\ cmd \in [Tasks -> Commands \cup {NoCmd}]
    BY DEF LInv, TypeOK
  <1>2. ASSUME NEW t \in Tasks,
               \/ \E c \in Commands : Call(t, c)
               \/ Take(t) \/ Acquire(t) \/ ReadStart(t) \/ Release(t)
        PROVE  UNCHANGED Channel!vars
    <2>1. UNCHANGED <<ret, reply>> /\ \A u \in Tasks : pc[u] # "idle" => cmd'[u] = cmd[u]
      BY <1>1, <1>2 DEF Call, Take, Acquire, ReadStart, Release, callVars, modemVars
    <2>2. Exchange' = Exchange
      BY <1>1, <1>2 DEF Call, Take, Acquire, ReadStart, Release, Exchange
    <2>3. \A u \in Exchange : u \in Tasks /\ pc[u] # "idle"
      BY DEF Exchange
    <2> QED
      BY <2>1, <2>2, <2>3, NotSeen
  <1>3. ASSUME \/ ModemSend \/ ModemUrc \/ FifoOverflow \/ BufferFull \/ EventFlush
               \/ UNCHANGED vars
        PROVE  UNCHANGED Channel!vars
    <2>1. UNCHANGED <<pc, cmd, ret, reply>>
      BY <1>3 DEF ModemSend, ModemUrc, FifoOverflow, BufferFull, EventFlush, vars,
                  callVars, modemVars
    <2> QED
      BY <2>1, NotSeen DEF Exchange
  <1> QED
    BY <1>2, <1>3

\* ModemLink implements AtChannel when the modem answers in time: to the tasks
\* the UART, its event task and the cutting of answers into reads are one
\* exchange at a time, of a command and the answer to it, each with a result
\* code that this answer supports.
THEOREM ImplementsAtChannel ==
    ASSUME AnswersFit, InTime
    PROVE  Spec => ImplementsChannel
  <1>1. LInv /\ ExchangeInv /\ [Next]_vars => [Channel!Next]_Channel!vars
    <2> SUFFICES ASSUME LInv, ExchangeInv, [Next]_vars
                 PROVE  Channel!Next \/ UNCHANGED Channel!vars
      BY DEF Channel!vars
    <2>1. ASSUME NEW t \in Tasks, Write(t) PROVE Channel!Next
      BY <2>1, WriteBegins DEF Channel!Next
    <2>2. CASE ModemExec
      BY <2>2, ExecAnswers DEF Channel!Next
    <2>3. ASSUME NEW t \in Tasks, ReadDone(t)
          PROVE  Channel!Next \/ UNCHANGED Channel!vars
      BY <2>3, ReadConcludes DEF Channel!Next
    <2>4. ASSUME NEW t \in Tasks, TimeUp(t) PROVE Channel!Next
      BY <2>4, TimeUpConcludes DEF Channel!Next
    <2>5. ASSUME NEW t \in Tasks, Give(t) PROVE Channel!Next
      BY <2>5, GiveEnds DEF Channel!Next
    <2> QED
      BY <2>1, <2>2, <2>3, <2>4, <2>5, OtherSteps DEF Next, Inside, Modem
  <1> QED
    BY InitChannel, Invariance, ExchangeInvariance, <1>1, PTL
       DEF Spec, ImplementsChannel, Channel!Spec

=============================================================================
