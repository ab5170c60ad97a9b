----------------------------- MODULE TextProofs -----------------------------
(***************************************************************************)
(* What is read is what was written, whatever its size: ReleaseNotes for   *)
(* subjects of any length and in any number, ExecutionReport for reports   *)
(* of any counts.                                                          *)
(***************************************************************************)
EXTENDS ReleaseNotes, ExecutionReport, SequenceTheorems, WellFoundedInduction, TLAPS

-----------------------------------------------------------------------------
(* Positions, concatenations and readings *)

\* A set of numbers has a least one: what stands for induction here.
LEMMA LeastNumber ==
    ASSUME NEW S \in SUBSET Nat, S # {}
    PROVE  \E n \in S : \A k \in S : n <= k
<1>1. IsWellFoundedOn(OpToRel(<, Nat), Nat)
  BY NatLessThanWellFounded, Zenon
<1>2. PICK n \in S : \A k \in S : ~(<<k, n>> \in OpToRel(<, Nat))
  BY <1>1, WFMin, Zenon
<1>3. \A k \in S : ~(k < n)
  BY <1>2 DEF OpToRel
<1> QED BY <1>3

\* The least of some positions.
LEMMA FirstIs ==
    ASSUME NEW I \in SUBSET Nat, I # {}
    PROVE  Min(I) \in I /\ \A i \in I : Min(I) <= i
<1>1. PICK n \in I : \A i \in I : n <= i
  BY LeastNumber
<1> QED BY <1>1 DEF Min

\* The last of some positions.
LEMMA LastIs ==
    ASSUME NEW I \in SUBSET Nat, NEW m \in I, \A i \in I : i <= m
    PROVE  I # {} /\ Max(I) = m
<1>1. m \in I /\ \A i \in I : m >= i
  OBVIOUS
<1>2. \A n \in I : (\A i \in I : n >= i) => n = m
  OBVIOUS
<1> QED BY <1>1, <1>2 DEF Max

\* A concatenation, part by part.
IsJoin(s, t, st) ==
    /\ Len(s) \in Nat /\ Len(t) \in Nat /\ Len(st) = Len(s) + Len(t)
    /\ \A i \in 1..Len(s) : st[i] = s[i]
    /\ \A i \in 1..Len(t) : st[Len(s) + i] = t[i]

\* The library's facts about a concatenation, in that form.
LEMMA Joined ==
    ASSUME NEW S, NEW s \in Seq(S), NEW t \in Seq(S)
    PROVE  s \o t \in Seq(S) /\ IsJoin(s, t, s \o t)
<1>1. Len(s) \in Nat /\ Len(t) \in Nat
  BY LenProperties
<1>2. /\ s \o t \in Seq(S) /\ Len(s \o t) = Len(s) + Len(t)
      /\ \A i \in 1..Len(s) + Len(t) : (s \o t)[i] = IF i <= Len(s) THEN s[i] ELSE t[i - Len(s)]
  BY ConcatProperties
<1>3. \A i \in 1..Len(s) : i \in 1..Len(s) + Len(t) /\ i <= Len(s)
  BY <1>1
<1>4. \A i \in 1..Len(t) :
          Len(s) + i \in 1..Len(s) + Len(t) /\ ~(Len(s) + i <= Len(s)) /\ (Len(s) + i) - Len(s) = i
  BY <1>1
<1> QED BY <1>1, <1>2, <1>3, <1>4 DEF IsJoin

\* The parts of a reading, one before the others.
LEMMA Parts2 == ASSUME NEW a, NEW b PROVE <<a>> \o <<b>> = <<a, b>>
<1>1. PICK S : S = {a, b}
  OBVIOUS
<1>2. PICK p, q, r, st : p = <<a>> /\ q = <<b>> /\ r = <<a, b>> /\ st = p \o q
  OBVIOUS
<1>3. p \in Seq(S) /\ Len(p) = 1 /\ p[1] = a
  BY <1>1, <1>2
<1>4. q \in Seq(S) /\ Len(q) = 1 /\ q[1] = b
  BY <1>1, <1>2
<1>5. r \in Seq(S) /\ Len(r) = 2 /\ r[1] = a /\ r[2] = b
  BY <1>1, <1>2
<1>6. st \in Seq(S) /\ IsJoin(p, q, st)
  BY <1>2, <1>3, <1>4, Joined
<1>7. Len(st) = 2 /\ st[1] = a /\ st[2] = b
  BY <1>3, <1>4, <1>6 DEF IsJoin
<1>8. \A i \in 1..2 : i = 1 \/ i = 2
  OBVIOUS
<1>9. \A i \in 1..2 : st[i] = r[i]
  BY <1>5, <1>7, <1>8, Zenon
<1>10. st = r
  BY <1>5, <1>6, <1>7, <1>9, SeqEqual
<1> QED BY <1>2, <1>10, Zenon

\* Two parts after the first.
LEMMA Parts3 == ASSUME NEW a, NEW b, NEW c PROVE <<a>> \o <<b, c>> = <<a, b, c>>
<1>1. PICK S : S = {a, b, c}
  OBVIOUS
<1>2. PICK p, q, r, st : p = <<a>> /\ q = <<b, c>> /\ r = <<a, b, c>> /\ st = p \o q
  OBVIOUS
<1>3. p \in Seq(S) /\ Len(p) = 1 /\ p[1] = a
  BY <1>1, <1>2
<1>4. q \in Seq(S) /\ Len(q) = 2 /\ q[1] = b /\ q[2] = c
  BY <1>1, <1>2
<1>5. r \in Seq(S) /\ Len(r) = 3 /\ r[1] = a /\ r[2] = b /\ r[3] = c
  BY <1>1, <1>2
<1>6. st \in Seq(S) /\ IsJoin(p, q, st)
  BY <1>2, <1>3, <1>4, Joined
<1>7. Len(st) = 3 /\ st[1] = a /\ st[2] = b /\ st[3] = c
  BY <1>3, <1>4, <1>6 DEF IsJoin
<1>8. \A i \in 1..3 : i = 1 \/ i = 2 \/ i = 3
  OBVIOUS
<1>9. \A i \in 1..3 : st[i] = r[i]
  BY <1>5, <1>7, <1>8, Zenon
<1>10. st = r
  BY <1>5, <1>6, <1>7, <1>9, SeqEqual
<1> QED BY <1>2, <1>10, Zenon

\* Three parts after the first.
LEMMA Parts4 == ASSUME NEW a, NEW b, NEW c, NEW d PROVE <<a>> \o <<b, c, d>> = <<a, b, c, d>>
<1>1. PICK S : S = {a, b, c, d}
  OBVIOUS
<1>2. PICK p, q, r, st : p = <<a>> /\ q = <<b, c, d>> /\ r = <<a, b, c, d>> /\ st = p \o q
  OBVIOUS
<1>3. p \in Seq(S) /\ Len(p) = 1 /\ p[1] = a
  BY <1>1, <1>2
<1>4. q \in Seq(S) /\ Len(q) = 3 /\ q[1] = b /\ q[2] = c /\ q[3] = d
  BY <1>1, <1>2
<1>5. r \in Seq(S) /\ Len(r) = 4 /\ r[1] = a /\ r[2] = b /\ r[3] = c /\ r[4] = d
  BY <1>1, <1>2
<1>6. st \in Seq(S) /\ IsJoin(p, q, st)
  BY <1>2, <1>3, <1>4, Joined
<1>7. Len(st) = 4 /\ st[1] = a /\ st[2] = b /\ st[3] = c /\ st[4] = d
  BY <1>3, <1>4, <1>6 DEF IsJoin
<1>8. \A i \in 1..4 : i = 1 \/ i = 2 \/ i = 3 \/ i = 4
  OBVIOUS
<1>9. \A i \in 1..4 : st[i] = r[i]
  BY <1>5, <1>7, <1>8, Zenon
<1>10. st = r
  BY <1>5, <1>6, <1>7, <1>9, SeqEqual
<1> QED BY <1>2, <1>10, Zenon

\* Four parts of a text in their order.
LEMMA FlattenOfFour ==
    ASSUME NEW seqs, Len(seqs) = 4
    PROVE  FlattenSeq(seqs) = seqs[1] \o seqs[2] \o seqs[3] \o seqs[4]
<1> DEFINE Step(f) == [i \in 1..4 |-> IF i = 1 THEN seqs[i] ELSE f[i - 1] \o seqs[i]]
<1>1. PICK two, three, four : /\ two = seqs[1] \o seqs[2] /\ three = two \o seqs[3]
                              /\ four = three \o seqs[4]
  OBVIOUS
<1>2. PICK g : g = [i \in 1..4 |-> IF i = 1 THEN seqs[1] ELSE IF i = 2 THEN two
                                    ELSE IF i = 3 THEN three ELSE four]
  OBVIOUS
<1>3. \A f : /\ Step(f)[1] = seqs[1] /\ Step(f)[2] = f[1] \o seqs[2]
             /\ Step(f)[3] = f[2] \o seqs[3] /\ Step(f)[4] = f[3] \o seqs[4]
             /\ Step(f) = [i \in 1..4 |-> Step(f)[i]]
  OBVIOUS
<1>4. g[1] = seqs[1] /\ g[2] = two /\ g[3] = three /\ g[4] = four /\ g = [i \in 1..4 |-> g[i]]
  BY <1>2
<1>5. \A i \in 1..4 : i = 1 \/ i = 2 \/ i = 3 \/ i = 4
  OBVIOUS
<1>6. g = Step(g)
  <2> HIDE DEF Step
  <2>1. \A i \in 1..4 : g[i] = Step(g)[i]
    BY <1>1, <1>3, <1>4, <1>5, Zenon
  <2>2. [i \in 1..4 |-> g[i]] = [i \in 1..4 |-> Step(g)[i]]
    BY <2>1
  <2> QED BY <1>3, <1>4, <2>2, Zenon
<1>7. PICK f : f = CHOOSE h : h = Step(h)
  OBVIOUS
<1>8. FlattenSeq(seqs) = f[4]
  BY <1>7 DEF FlattenSeq
<1>9. f = Step(f)
  <2> HIDE DEF Step
  <2> QED BY <1>6, <1>7
<1>10. f[1] = seqs[1] /\ f[2] = two /\ f[3] = three /\ f[4] = four
  <2> HIDE DEF Step
  <2>1. f[1] = seqs[1]
    BY <1>3, <1>9, Zenon
  <2>2. f[2] = two
    BY <1>1, <1>3, <1>9, <2>1, Zenon
  <2>3. f[3] = three
    BY <1>1, <1>3, <1>9, <2>2, Zenon
  <2>4. f[4] = four
    BY <1>1, <1>3, <1>9, <2>3, Zenon
  <2> QED BY <2>1, <2>2, <2>3, <2>4
<1> QED BY <1>1, <1>8, <1>10, Zenon

\* A reading from position i on, when rest says what is read from later positions.
Reading(head, next, rest, i) == IF next[i] = 0 THEN head[i] ELSE head[i] \o rest[next[i]]

\* What is read from later positions first exists: a reading is well defined.
LEMMA ReadingExists ==
    ASSUME NEW L \in Nat, NEW head, NEW next, \A i \in 1..L : next[i] = 0 \/ next[i] \in i + 1..L
    PROVE  \E p : p = [i \in 1..L |-> Reading(head, next, p, i)]
<1> DEFINE From(f, i) == Reading(head, next, f, i)
           Solves(f, k) == \A i \in k..L : f[i] = From(f, i)
           Unsolved == {n \in Nat : n <= L /\ ~\E f : Solves(f, L + 1 - n)}
<1>1. ASSUME NEW i \in 1..L, NEW f, NEW g, \A j \in i + 1..L : f[j] = g[j]
      PROVE  From(f, i) = From(g, i)
  <2>1. CASE next[i] = 0
    BY <2>1 DEF Reading
  <2>2. CASE next[i] \in i + 1..L
    <3>1. f[next[i]] = g[next[i]]
      BY <1>1, <2>2, Zenon
    <3> QED BY <3>1, Zenon DEF Reading
  <2> QED BY <2>1, <2>2
<1>2. ASSUME NEW k \in 1..L, NEW f, Solves(f, k + 1)
      PROVE  \E g : Solves(g, k)
  <2> DEFINE g == [i \in 1..L |-> IF i = k THEN From(f, k) ELSE f[i]]
  <2> HIDE DEF From
  <2>1. \A i \in k + 1..L : g[i] = f[i] /\ i \in 1..L
    OBVIOUS
  <2>2. g[k] = From(f, k)
    OBVIOUS
  <2> HIDE DEF g
  <2>3. \A i \in k..L : From(g, i) = From(f, i)
    <3> TAKE i \in k..L
    <3>1. i \in 1..L /\ \A j \in i + 1..L : j \in k + 1..L
      OBVIOUS
    <3>2. \A j \in i + 1..L : g[j] = f[j]
      BY <2>1, <3>1, Zenon
    <3> QED BY <1>1, <3>1, <3>2
  <2>4. ASSUME NEW i \in k..L PROVE g[i] = From(g, i)
    <3>1. CASE i = k
      BY <2>2, <2>3, <3>1
    <3>2. CASE i # k
      <4>1. i \in k + 1..L
        BY <3>2
      <4>2. f[i] = From(f, i)
        BY <1>2, <4>1
      <4> QED BY <2>1, <2>3, <4>1, <4>2
    <3> QED BY <3>1, <3>2
  <2> QED BY <2>4
<1>3. Unsolved = {}
  <2> HIDE DEF Solves
  <2> SUFFICES ASSUME Unsolved # {} PROVE FALSE
    OBVIOUS
  <2>1. PICK n \in Unsolved : \A k \in Unsolved : n <= k
    <3>1. Unsolved \in SUBSET Nat
      OBVIOUS
    <3> HIDE DEF Unsolved
    <3> QED BY <3>1, LeastNumber
  <2>2. n \in Nat /\ n <= L
    OBVIOUS
  <2>3. n # 0
    <3>1. Solves([i \in {} |-> {}], L + 1)
      BY DEF Solves
    <3>2. L + 1 - 0 = L + 1
      OBVIOUS
    <3> QED BY <3>1, <3>2
  <2>4. n - 1 \in Nat /\ n - 1 <= L /\ n - 1 \notin Unsolved
    <3>1. n - 1 \in Nat /\ n - 1 <= L /\ ~(n <= n - 1)
      BY <2>2, <2>3
    <3> HIDE DEF Unsolved
    <3> QED BY <2>1, <3>1
  <2>5. PICK f : Solves(f, L + 1 - (n - 1))
    BY <2>4
  <2>6. L + 1 - n \in 1..L /\ (L + 1 - n) + 1 = L + 1 - (n - 1)
    BY <2>2, <2>3
  <2>7. \E g : Solves(g, L + 1 - n)
    BY <1>2, <2>5, <2>6
  <2> QED BY <2>7
<1>4. PICK f : Solves(f, 1)
  <2> HIDE DEF Solves
  <2>1. L <= L /\ L \notin Unsolved /\ L + 1 - L = 1
    BY <1>3
  <2> QED BY <2>1
<1> DEFINE p == [i \in 1..L |-> f[i]]
<1> HIDE DEF From
<1>5. \A i \in 1..L : p[i] = From(p, i)
  <2> TAKE i \in 1..L
  <2>1. \A j \in i + 1..L : j \in 1..L /\ p[j] = f[j]
    OBVIOUS
  <2>2. p[i] = f[i]
    OBVIOUS
  <2> HIDE DEF p
  <2>3. From(p, i) = From(f, i)
    BY <1>1, <2>1
  <2> QED BY <1>4, <2>2, <2>3
<1>6. p = [i \in 1..L |-> p[i]]
  OBVIOUS
<1> HIDE DEF p
<1>7. p = [i \in 1..L |-> From(p, i)]
  BY <1>5, <1>6, Zenon
<1> QED BY <1>7, Zenon DEF From

-----------------------------------------------------------------------------
(* The text of the notes: the longest run and the fence *)

\* A fence is all backticks.
LEMMA TicksAre ==
    ASSUME NEW n \in Nat
    PROVE  Ticks(n) \in Seq({"tick"}) /\ Len(Ticks(n)) = n /\ \A i \in 1..n : Ticks(n)[i] = "tick"
BY DEF Ticks

\* No run of backticks in a subject is longer than its longest.
LEMMA LongestRunIs ==
    ASSUME NEW s \in Seq(Symbols)
    PROVE  /\ LongestRun(s) \in 0..Len(s)
           /\ \A i \in 1..Len(s) - LongestRun(s) : \E j \in i..i + LongestRun(s) : s[j] # "tick"
<1> DEFINE Runs(n) == {i \in 0..Len(s) - n : SubSeq(s, i + 1, i + n) = Ticks(n)}
           Bound == {n \in Nat : Runs(n + 1) = {}}
           Longest(n) == Runs(n) # {} /\ Runs(n + 1) = {}
<1>1. Len(s) \in Nat
  OBVIOUS
<1>2. 0 \in Runs(0)
  <2>1. SubSeq(s, 1, 0) = <<>> /\ Ticks(0) = <<>>
    BY SubSeqEmpty, TicksAre DEF Ticks
  <2>2. 0 + 1 = 1 /\ 0 + 0 = 0 /\ 0 \in 0..Len(s) - 0
    BY <1>1
  <2>3. SubSeq(s, 0 + 1, 0 + 0) = Ticks(0)
    BY <2>1, <2>2, Zenon
  <2> QED BY <2>2, <2>3, Zenon
<1>3. Len(s) \in Bound
  BY <1>1
<1>4. PICK n \in Bound : \A k \in Bound : n <= k
  <2>1. Bound \in SUBSET Nat
    OBVIOUS
  <2> HIDE DEF Bound
  <2> QED BY <1>3, <2>1, LeastNumber
<1>5. n \in 0..Len(s)
  <2>1. n \in Nat /\ n <= Len(s)
    <3> HIDE DEF Runs
    <3> QED BY <1>3, <1>4
  <2> QED BY <1>1, <2>1
<1>6. Longest(n)
  <2>1. CASE n = 0
    BY <1>2, <2>1
  <2>2. CASE n # 0
    <3>1. n - 1 \in Nat /\ n - 1 \notin Bound
      <4> HIDE DEF Bound
      <4> QED BY <1>4, <1>5, <2>2
    <3>2. Runs((n - 1) + 1) # {}
      <4> HIDE DEF Runs
      <4> QED BY <3>1
    <3>3. (n - 1) + 1 = n
      BY <1>5
    <3> QED BY <3>2, <3>3, <1>4
  <2> QED BY <2>1, <2>2
<1>7. LongestRun(s) = CHOOSE m \in 0..Len(s) : Longest(m)
  BY DEF LongestRun
<1> DEFINE m == LongestRun(s)
<1>8. m \in 0..Len(s) /\ Longest(m)
  <2> HIDE DEF Longest
  <2> QED BY <1>5, <1>6, <1>7
<1> HIDE DEF m
<1>9. ASSUME NEW i \in 1..Len(s) - m, \A j \in i..i + m : s[j] = "tick"
      PROVE  FALSE
  <2>1. i - 1 \in 0..Len(s) - (m + 1) /\ i + m \in Int /\ (i - 1) + 1 = i
        /\ (i - 1) + (m + 1) = i + m
    BY <1>1, <1>8, <1>9
  <2> DEFINE run == SubSeq(s, i, i + m)
  <2>2. /\ run \in Seq({"tick"}) /\ Len(run) = m + 1
        /\ \A j \in 1..m + 1 : run[j] = "tick"
    <3>1. \A j \in i..i + m : s[j] \in {"tick"}
      BY <1>9
    <3>2. /\ run \in Seq({"tick"})
          /\ Len(run) = IF i <= i + m THEN (i + m) - i + 1 ELSE 0
          /\ \A j \in 1..(i + m) - i + 1 : run[j] = s[i + j - 1]
      BY <2>1, <3>1, SubSeqProperties
    <3> QED BY <3>1, <3>2, <1>1, <1>8, <2>1
  <2>3. run = Ticks(m + 1)
    <3>1. m + 1 \in Nat BY <1>8
    <3> HIDE DEF run
    <3> QED BY <2>2, <3>1, TicksAre, SeqEqual
  <2>4. i - 1 \in Runs(m + 1)
    BY <2>1, <2>3
  <2> QED BY <2>4, <1>8
<1> QED BY <1>8, <1>9 DEF m

\* The line of a commit, symbol by symbol.
Chars == Symbols \cup {"- ", "sha"}

Layout(line, a, k, n, s, tick, space) ==
    /\ Len(line) = 7 + 2 * k + n
    /\ \A i \in 1..5 : line[i] = a[i]
    /\ \A i \in 6..5 + k : line[i] = tick
    /\ line[6 + k] = space
    /\ \A i \in 1..n : line[6 + k + i] = s[i]
    /\ line[7 + k + n] = space
    /\ \A i \in 8 + k + n..7 + 2 * k + n : line[i] = tick

\* No symbol matters to that but as a constant.
LEMMA LineIsLaid ==
    ASSUME NEW S, NEW tick, NEW space,
           NEW a \in Seq(S), Len(a) = 5, NEW b \in Seq(S), Len(b) = 1, b[1] = space,
           NEW k \in Nat, NEW f \in Seq(S), Len(f) = k, \A i \in 1..k : f[i] = tick,
           NEW s \in Seq(S), NEW n, Len(s) = n
    PROVE  /\ a \o (f \o b \o s \o b \o f) \in Seq(S)
           /\ Layout(a \o (f \o b \o s \o b \o f), a, k, n, s, tick, space)
<1>1. n \in Nat
  OBVIOUS
<1>2. PICK c1 : c1 = f \o b
  OBVIOUS
<1>3. PICK c2 : c2 = c1 \o s
  OBVIOUS
<1>4. PICK c3 : c3 = c2 \o b
  OBVIOUS
<1>5. PICK c4 : c4 = c3 \o f
  OBVIOUS
<1>6. PICK line : line = a \o c4
  OBVIOUS
<1>7. c1 \in Seq(S) /\ IsJoin(f, b, c1)
  BY <1>2, Joined
<1>8. c2 \in Seq(S) /\ IsJoin(c1, s, c2)
  BY <1>3, <1>7, Joined
<1>9. c3 \in Seq(S) /\ IsJoin(c2, b, c3)
  BY <1>4, <1>8, Joined
<1>10. c4 \in Seq(S) /\ IsJoin(c3, f, c4)
  BY <1>5, <1>9, Joined
<1>11. line \in Seq(S) /\ IsJoin(a, c4, line)
  BY <1>6, <1>10, Joined
<1>12. Len(c1) = k + 1 /\ (\A i \in 1..k : c1[i] = f[i]) /\ c1[k + 1] = space
  BY <1>7 DEF IsJoin
<1>13. Len(c2) = k + 1 + n /\ (\A i \in 1..k + 1 : c2[i] = c1[i])
       /\ \A i \in 1..n : c2[k + 1 + i] = s[i]
  BY <1>8, <1>12 DEF IsJoin
<1>14. /\ Len(c3) = k + 1 + n + 1
       /\ (\A i \in 1..k + 1 + n : c3[i] = c2[i]) /\ c3[k + 1 + n + 1] = space
  BY <1>9, <1>13 DEF IsJoin
<1>15. /\ Len(c4) = k + 1 + n + 1 + k
       /\ (\A i \in 1..k + 1 + n + 1 : c4[i] = c3[i])
       /\ \A i \in 1..k : c4[k + 1 + n + 1 + i] = f[i]
  BY <1>10, <1>14 DEF IsJoin
<1>16. /\ Len(line) = 5 + (k + 1 + n + 1 + k)
       /\ (\A i \in 1..5 : line[i] = a[i])
       /\ \A i \in 1..k + 1 + n + 1 + k : line[5 + i] = c4[i]
  BY <1>11, <1>15 DEF IsJoin
<1>17. \A i \in 6..5 + k : line[i] = tick
  <2> TAKE i \in 6..5 + k
  <2>1. PICK j \in 1..k : i = 5 + j
    <3>1. i - 5 \in 1..k /\ i = 5 + (i - 5) BY <1>1
    <3> QED BY <3>1
  <2>2. /\ j \in 1..k + 1 /\ j \in 1..k + 1 + n /\ j \in 1..k + 1 + n + 1
        /\ j \in 1..k + 1 + n + 1 + k
    BY <1>1
  <2>3. line[i] = c4[j] BY <1>16, <2>1, <2>2, Zenon
  <2>4. c4[j] = c2[j] BY <1>14, <1>15, <2>2, Zenon
  <2>5. c2[j] = f[j] BY <1>12, <1>13, <2>1, <2>2, Zenon
  <2> QED BY <2>1, <2>3, <2>4, <2>5, Zenon
<1>18. line[6 + k] = space
  <2>1. /\ k + 1 \in 1..k + 1 /\ k + 1 \in 1..k + 1 + n /\ k + 1 \in 1..k + 1 + n + 1
        /\ k + 1 \in 1..k + 1 + n + 1 + k /\ 5 + (k + 1) = 6 + k
    BY <1>1
  <2>2. line[6 + k] = c4[k + 1] BY <1>16, <2>1, Zenon
  <2>3. c4[k + 1] = c2[k + 1] BY <1>14, <1>15, <2>1, Zenon
  <2>4. c2[k + 1] = space BY <1>12, <1>13, <2>1, Zenon
  <2> QED BY <2>2, <2>3, <2>4, Zenon
<1>19. \A i \in 1..n : line[6 + k + i] = s[i]
  <2> TAKE i \in 1..n
  <2>1. /\ k + 1 + i \in 1..k + 1 + n /\ k + 1 + i \in 1..k + 1 + n + 1
        /\ k + 1 + i \in 1..k + 1 + n + 1 + k /\ 5 + (k + 1 + i) = 6 + k + i
    BY <1>1
  <2>2. line[6 + k + i] = c4[k + 1 + i] BY <1>16, <2>1, Zenon
  <2>3. c4[k + 1 + i] = c2[k + 1 + i] BY <1>14, <1>15, <2>1, Zenon
  <2> QED BY <1>13, <2>2, <2>3, Zenon
<1>20. line[7 + k + n] = space
  <2>1. /\ k + 1 + n + 1 \in 1..k + 1 + n + 1
        /\ k + 1 + n + 1 \in 1..k + 1 + n + 1 + k /\ 5 + (k + 1 + n + 1) = 7 + k + n
    BY <1>1
  <2> QED BY <1>14, <1>15, <1>16, <2>1, Zenon
<1>21. \A i \in 8 + k + n..7 + 2 * k + n : line[i] = tick
  <2> TAKE i \in 8 + k + n..7 + 2 * k + n
  <2>1. PICK j \in 1..k : i = 5 + (k + 1 + n + 1 + j)
    <3>1. /\ i - (7 + k + n) \in 1..k
          /\ i = 5 + (k + 1 + n + 1 + (i - (7 + k + n)))
      BY <1>1
    <3> QED BY <3>1
  <2>2. k + 1 + n + 1 + j \in 1..k + 1 + n + 1 + k
    BY <1>1
  <2> QED BY <1>15, <1>16, <2>1, <2>2, Zenon
<1>22. Len(line) = 7 + 2 * k + n
  BY <1>1, <1>16
<1>23. a \o (f \o b \o s \o b \o f) = line
  BY <1>2, <1>3, <1>4, <1>5, <1>6, Zenon
<1> QED BY <1>11, <1>16, <1>17, <1>18, <1>19, <1>20, <1>21, <1>22, <1>23, Zenon DEF Layout

\* A commit's line: the hash, then the subject within fences longer than its longest run.
LEMMA CommitLineIs ==
    ASSUME NEW s \in Seq(Symbols), NEW k, k = LongestRun(s) + 1, NEW n, Len(s) = n
    PROVE  /\ k \in Nat /\ k > 0 /\ n \in Nat
           /\ CommitLine(s) \in Seq(Chars)
           /\ Layout(CommitLine(s), <<"- ", "tick", "sha", "tick", " ">>, k, n, s, "tick", " ")
<1>1. n \in Nat /\ k \in Nat /\ k > 0
  BY LongestRunIs
<1>2. PICK dash, tick, sha, space :
          dash = "- " /\ tick = "tick" /\ sha = "sha" /\ space = " "
  OBVIOUS
<1>3. dash \in Chars /\ tick \in Chars /\ sha \in Chars /\ space \in Chars
  BY <1>2, Zenon DEF Chars, Symbols
<1>4. PICK f : f = Ticks(k)
  OBVIOUS
<1>5. f \in Seq(Chars) /\ Len(f) = k /\ \A i \in 1..k : f[i] = tick
  <2>1. f \in Seq({"tick"}) BY <1>1, <1>4, TicksAre
  <2>2. {"tick"} \subseteq Chars BY <1>2, <1>3, Zenon
  <2>3. f \in Seq(Chars) BY <2>1, <2>2, SeqMonotonic
  <2>4. Len(f) = k /\ \A i \in 1..k : f[i] = "tick" BY <1>1, <1>4, TicksAre
  <2> QED BY <1>2, <2>3, <2>4, Zenon
<1>6. s \in Seq(Chars)
  BY SeqMonotonic DEF Chars
<1>7. PICK a, b : a = <<dash, tick, sha, tick, space>> /\ b = <<space>>
  OBVIOUS
<1>8. a \in Seq(Chars) /\ Len(a) = 5 /\ b \in Seq(Chars) /\ Len(b) = 1 /\ b[1] = space
  BY <1>3, <1>7
<1>9. PICK line : line = a \o (f \o b \o s \o b \o f)
  OBVIOUS
<1>10. line \in Seq(Chars) /\ Layout(line, a, k, n, s, tick, space)
  BY <1>1, <1>5, <1>6, <1>8, <1>9, LineIsLaid
<1>11. line = CommitLine(s) /\ a = <<"- ", "tick", "sha", "tick", " ">>
  BY <1>2, <1>4, <1>7, <1>9, Zenon DEF CommitLine, InlineCode
<1> QED BY <1>1, <1>2, <1>10, <1>11, Zenon

\* A run of backticks has one length.
LEMMA RunIs ==
    ASSUME NEW text, Len(text) \in Nat, NEW i \in 1..Len(text), NEW n \in 1..Len(text) + 1 - i,
           \A j \in i..i + n - 1 : text[j] = "tick",
           i + n > Len(text) \/ text[i + n] # "tick"
    PROVE  RunLength(text, i) = n
<1> DEFINE IsRun(m) == /\ \A j \in i..i + m - 1 : text[j] = "tick"
                       /\ i + m > Len(text) \/ text[i + m] # "tick"
<1>1. ASSUME NEW p \in 1..Len(text) + 1 - i, NEW q \in 1..Len(text) + 1 - i, p < q, IsRun(p), IsRun(q)
      PROVE  FALSE
  <2>1. i + p \in i..i + q - 1 /\ ~(i + p > Len(text))
    BY <1>1
  <2> QED BY <1>1, <2>1
<1>2. IsRun(n)
  OBVIOUS
<1>3. RunLength(text, i) = CHOOSE m \in 1..Len(text) + 1 - i : IsRun(m)
  BY DEF RunLength
<1> HIDE DEF IsRun
<1> DEFINE m == RunLength(text, i)
<1>4. m \in 1..Len(text) + 1 - i /\ IsRun(m)
  BY <1>2, <1>3
<1> HIDE DEF m
<1>5. ~(m < n) /\ ~(n < m)
  BY <1>1, <1>2, <1>4
<1> QED BY <1>4, <1>5 DEF m

\* And every backtick is in one.
LEMMA RunExists ==
    ASSUME NEW text, Len(text) \in Nat, NEW i \in 1..Len(text), text[i] = "tick"
    PROVE  /\ RunLength(text, i) \in 1..Len(text) + 1 - i
           /\ \A j \in i..i + RunLength(text, i) - 1 : text[j] = "tick"
<1> DEFINE Stops == {n \in Nat : n > 0 /\ (i + n > Len(text) \/ text[i + n] # "tick")}
<1>1. Len(text) + 1 - i \in Stops
  OBVIOUS
<1>2. PICK n \in Stops : \A k \in Stops : n <= k
  <2>1. Stops \in SUBSET Nat
    OBVIOUS
  <2> HIDE DEF Stops
  <2> QED BY <1>1, <2>1, LeastNumber
<1>3. n \in 1..Len(text) + 1 - i
  <2>1. n <= Len(text) + 1 - i
    <3> HIDE DEF Stops
    <3> QED BY <1>1, <1>2
  <2> QED BY <2>1
<1>4. ASSUME NEW j \in i..i + n - 1 PROVE text[j] = "tick"
  <2>1. CASE j = i
    BY <2>1
  <2>2. CASE j # i
    <3>1. j - i \in Nat /\ j - i > 0 /\ ~(n <= j - i) /\ i + (j - i) = j
      BY <1>3, <2>2
    <3>2. j - i \notin Stops
      <4> HIDE DEF Stops
      <4> QED BY <1>2, <3>1
    <3> QED BY <3>1, <3>2
  <2> QED BY <2>1, <2>2
<1>5. RunLength(text, i) = n
  BY <1>3, <1>4, RunIs
<1> QED BY <1>3, <1>4, <1>5

\* A span that can be closed is closed by the first run that can.
Closer(text, i) == CHOOSE j \in Closers(text, i) : \A k \in Closers(text, i) : j <= k

\* It lies after the opening run, and what follows it is still in the text.
LEMMA CloserIs ==
    ASSUME NEW text, Len(text) \in Nat, NEW i \in 1..Len(text), text[i] = "tick",
           Closers(text, i) # {}
    PROVE  /\ Closer(text, i) \in Closers(text, i)
           /\ Closer(text, i) \in i + RunLength(text, i) + 1..Len(text)
           /\ Closer(text, i) + RunLength(text, i) \in i + 1..Len(text) + 1
<1>1. RunLength(text, i) \in 1..Len(text) + 1 - i
  BY RunExists
<1>2. Closers(text, i) \in SUBSET Nat
  BY <1>1 DEF Closers
<1>3. \E j \in Closers(text, i) : \A k \in Closers(text, i) : j <= k
  BY <1>2, LeastNumber
<1>4. Closer(text, i) \in Closers(text, i)
  BY <1>3 DEF Closer
<1> DEFINE j == Closer(text, i)
<1>5. /\ j \in i + RunLength(text, i) + 1..Len(text) /\ text[j] = "tick"
      /\ RunLength(text, j) = RunLength(text, i)
  BY <1>4 DEF Closers
<1> HIDE DEF j
<1>6. j \in 1..Len(text)
  BY <1>1, <1>5
<1>7. RunLength(text, j) \in 1..Len(text) + 1 - j
  BY <1>5, <1>6, RunExists
<1> QED BY <1>1, <1>4, <1>5, <1>6, <1>7 DEF j

\* What Markdown makes of the text from i on, when rest says what it makes of later parts.
From(text, rest, i) ==
    IF i > Len(text) THEN <<>>
    ELSE IF text[i] # "tick" THEN <<<<"text", text[i]>>>> \o rest[i + 1]
    ELSE IF Closers(text, i) = {}
    THEN <<<<"text", "tick">>>> \o rest[i + RunLength(text, i)]
    ELSE LET j == CHOOSE j \in Closers(text, i) : \A k \in Closers(text, i) : j <= k
         IN <<<<"code">> \o Inner(SubSeq(text, i + RunLength(text, i), j - 1))>>
            \o rest[j + RunLength(text, i)]

\* So there is one reading of a text.
LEMMA MarkdownIs ==
    ASSUME NEW text, Len(text) \in Nat
    PROVE  \E parse : /\ Markdown(text) = parse[1]
                      /\ \A i \in 1..Len(text) + 1 : parse[i] = From(text, parse, i)
<1> DEFINE L == Len(text) + 1
           Over(i) == i > Len(text)
           Plain(i) == text[i] # "tick"
           Open(i) == Closers(text, i) = {}
           Span(i) == <<"code">> \o Inner(SubSeq(text, i + RunLength(text, i), Closer(text, i) - 1))
           Given(i) == IF Over(i) THEN <<>>
                       ELSE IF Plain(i) THEN <<<<"text", text[i]>>>>
                       ELSE IF Open(i) THEN <<<<"text", "tick">>>> ELSE <<Span(i)>>
           After(i) == IF Over(i) THEN 0 ELSE IF Plain(i) THEN i + 1
                       ELSE IF Open(i) THEN i + RunLength(text, i)
                       ELSE Closer(text, i) + RunLength(text, i)
           Parses(p) == p = [i \in 1..L |-> From(text, p, i)]
<1>1. PICK head, next : head = [i \in 1..L |-> Given(i)] /\ next = [i \in 1..L |-> After(i)]
  OBVIOUS
<1>2. \A i \in 1..L : head[i] = Given(i) /\ next[i] = After(i)
  <2> HIDE DEF Given, After
  <2> QED BY <1>1
<1>3. L \in Nat
  OBVIOUS
<1>4. ASSUME NEW i \in 1..L, ~Over(i)
      PROVE  After(i) \in i + 1..L
  <2>1. i \in 1..Len(text)
    BY <1>4
  <2>2. CASE Plain(i)
    BY <1>4, <2>1, <2>2
  <2>3. CASE ~Plain(i)
    <3>1. RunLength(text, i) \in 1..Len(text) + 1 - i
      BY <2>1, <2>3, RunExists
    <3>2. CASE Open(i)
      BY <1>4, <2>1, <2>3, <3>1, <3>2
    <3>3. CASE ~Open(i)
      <4>1. Closer(text, i) + RunLength(text, i) \in i + 1..L
        BY <2>1, <2>3, <3>3, CloserIs
      <4>2. After(i) = Closer(text, i) + RunLength(text, i)
        BY <1>4, <2>3, <3>3, Zenon
      <4> QED BY <4>1, <4>2, Zenon
    <3> QED BY <3>2, <3>3
  <2> QED BY <2>2, <2>3
<1>5. \A i \in 1..L : next[i] = 0 \/ next[i] \in i + 1..L
  BY <1>2, <1>4, Zenon
<1>6. ASSUME NEW p, NEW i \in 1..L
      PROVE  Reading(head, next, p, i) = From(text, p, i)
  <2>1. head[i] = Given(i) /\ next[i] = After(i)
    BY <1>2
  <2>2. CASE Over(i)
    BY <2>1, <2>2, Zenon DEF Reading, From
  <2>3. CASE ~Over(i)
    <3>1. next[i] # 0
      <4>1. next[i] \in i + 1..L
        BY <1>4, <2>1, <2>3
      <4> HIDE DEF After
      <4> QED BY <1>3, <4>1
    <3>2. Reading(head, next, p, i) = Given(i) \o p[After(i)]
      BY <2>1, <3>1, Zenon DEF Reading
    <3> QED BY <2>3, <3>2, Zenon DEF From, Closer
  <2> QED BY <2>2, <2>3
<1>7. PICK p : p = [i \in 1..L |-> Reading(head, next, p, i)]
  BY <1>3, <1>5, ReadingExists, Zenon
<1>8. Parses(p)
  <2> HIDE DEF L
  <2>1. [i \in 1..L |-> Reading(head, next, p, i)] = [i \in 1..L |-> From(text, p, i)]
    BY <1>6
  <2> QED BY <1>7, <2>1, Zenon
<1>9. Markdown(text) = (CHOOSE q : Parses(q))[1]
  BY Zenon DEF Markdown, From
<1>10. PICK parse : parse = CHOOSE q : Parses(q)
  OBVIOUS
<1>11. Parses(parse)
  <2> HIDE DEF Parses
  <2> QED BY <1>8, <1>10
<1>12. \A i \in 1..L : parse[i] = From(text, parse, i)
  <2> HIDE DEF L
  <2>1. PICK body : body = [i \in 1..L |-> From(text, parse, i)]
    OBVIOUS
  <2>2. \A i \in 1..L : body[i] = From(text, parse, i)
    BY <2>1
  <2> QED BY <1>11, <2>1, <2>2, Zenon
<1> QED BY <1>9, <1>10, <1>12, Zenon

\* Where the backticks of a commit's line are.
Fenced(line, s, k, n) ==
    /\ Len(line) = 7 + 2 * k + n
    /\ line[1] # "tick" /\ line[2] = "tick" /\ line[3] # "tick" /\ line[4] = "tick"
    /\ line[5] # "tick"
    /\ \A i \in 6..5 + k : line[i] = "tick"
    /\ line[6 + k] # "tick"
    /\ \A i \in 1..n : line[6 + k + i] = s[i]
    /\ line[7 + k + n] # "tick"
    /\ \A i \in 8 + k + n..7 + 2 * k + n : line[i] = "tick"

\* The positions before the first fence.
LEMMA OneToFive == 1 \in 1..5 /\ 2 \in 1..5 /\ 3 \in 1..5 /\ 4 \in 1..5 /\ 5 \in 1..5
OBVIOUS

\* Spaces and other text are no backticks.
LEMMA LineIsFenced ==
    ASSUME NEW line, NEW s, NEW k, NEW n,
           Layout(line, <<"- ", "tick", "sha", "tick", " ">>, k, n, s, "tick", " ")
    PROVE  /\ Fenced(line, s, k, n)
           /\ line[1] = "- " /\ line[3] = "sha" /\ line[5] = " "
           /\ line[6 + k] = " " /\ line[7 + k + n] = " "
<1>1. PICK dash, sha, space : dash = "- " /\ sha = "sha" /\ space = " "
  OBVIOUS
<1>2. PICK a : a = <<dash, "tick", sha, "tick", space>>
  OBVIOUS
<1>3. a[1] = dash /\ a[2] = "tick" /\ a[3] = sha /\ a[4] = "tick" /\ a[5] = space
  BY <1>2
<1>4. 1 \in 1..5 /\ 2 \in 1..5 /\ 3 \in 1..5 /\ 4 \in 1..5 /\ 5 \in 1..5
  BY OneToFive
<1>5. Layout(line, a, k, n, s, "tick", space)
  BY <1>1, <1>2, Zenon
<1>6. /\ line[1] = dash /\ line[2] = "tick" /\ line[3] = sha /\ line[4] = "tick"
      /\ line[5] = space /\ line[6 + k] = space /\ line[7 + k + n] = space
  BY <1>3, <1>4, <1>5, Zenon DEF Layout
<1>7. dash # "tick" /\ sha # "tick" /\ space # "tick"
  BY <1>1, Zenon
<1>8. Fenced(line, s, k, n)
  BY <1>5, <1>6, <1>7, Zenon DEF Layout, Fenced
<1> QED BY <1>1, <1>6, <1>8, Zenon

\* The hash is between runs of one backtick.
LEMMA HashSpan ==
    ASSUME NEW line, NEW s, NEW k \in Nat, k > 0, NEW n \in Nat, Fenced(line, s, k, n)
    PROVE  /\ RunLength(line, 2) = 1
           /\ Closers(line, 2) # {} /\ Closer(line, 2) = 4
<1>1. Len(line) = 7 + 2 * k + n /\ Len(line) \in Nat
  BY DEF Fenced
<1>2. RunLength(line, 2) = 1
  <2>1. 1 \in 1..Len(line) + 1 - 2 /\ 2 \in 1..Len(line) /\ \A j \in 2..2 + 1 - 1 : j = 2
    BY <1>1
  <2>2. (\A j \in 2..2 + 1 - 1 : line[j] = "tick") /\ line[2 + 1] # "tick"
    BY <2>1 DEF Fenced
  <2> QED BY <1>1, <2>1, <2>2, RunIs
<1>3. RunLength(line, 4) = 1
  <2>1. 1 \in 1..Len(line) + 1 - 4 /\ 4 \in 1..Len(line) /\ \A j \in 4..4 + 1 - 1 : j = 4
    BY <1>1
  <2> QED BY <1>1, <2>1, RunIs DEF Fenced
<1>4. 4 \in Closers(line, 2)
  BY <1>1, <1>2, <1>3 DEF Closers, Fenced
<1>5. \A j \in Closers(line, 2) : j \in Nat /\ 4 <= j
  BY <1>1, <1>2 DEF Closers
<1>6. Closer(line, 2) \in Closers(line, 2) /\ Closer(line, 2) <= 4
  BY <1>4, <1>5 DEF Closer
<1>7. Closer(line, 2) = 4
  BY <1>5, <1>6
<1> QED BY <1>2, <1>4, <1>7

\* The first fence is closed by the last one: a run of its length is not in the subject.
LEMMA SubjectSpan ==
    ASSUME NEW line, NEW s, NEW k \in Nat, k > 0, NEW n \in Nat, Fenced(line, s, k, n),
           \A i \in 1..n - (k - 1) : \E j \in i..i + (k - 1) : s[j] # "tick"
    PROVE  /\ RunLength(line, 6) = k
           /\ Closers(line, 6) # {} /\ Closer(line, 6) = 8 + k + n
<1>1. Len(line) = 7 + 2 * k + n /\ Len(line) \in Nat
  BY DEF Fenced
<1>2. RunLength(line, 6) = k
  <2>1. k \in 1..Len(line) + 1 - 6 /\ 6 \in 1..Len(line) /\ 6 + k - 1 = 5 + k
    BY <1>1
  <2>2. (\A j \in 6..6 + k - 1 : line[j] = "tick") /\ line[6 + k] # "tick"
    BY <2>1 DEF Fenced
  <2> QED BY <1>1, <2>1, <2>2, RunIs
<1>3. RunLength(line, 8 + k + n) = k
  <2>1. /\ k \in 1..Len(line) + 1 - (8 + k + n) /\ 8 + k + n \in 1..Len(line)
        /\ 8 + k + n + k - 1 = 7 + 2 * k + n /\ 8 + k + n + k > Len(line)
    BY <1>1
  <2>2. \A j \in 8 + k + n..8 + k + n + k - 1 : line[j] = "tick"
    BY <2>1 DEF Fenced
  <2> QED BY <1>1, <2>1, <2>2, RunIs
<1>4. 8 + k + n \in Closers(line, 6)
  <2>1. /\ 8 + k + n \in 6 + RunLength(line, 6) + 1..Len(line)
        /\ (8 + k + n) - 1 = 7 + k + n /\ 8 + k + n \in 8 + k + n..7 + 2 * k + n
    BY <1>1, <1>2
  <2>2. line[8 + k + n] = "tick" /\ line[(8 + k + n) - 1] # "tick"
    BY <2>1 DEF Fenced
  <2> QED BY <1>2, <1>3, <2>1, <2>2 DEF Closers
<1>5. ASSUME NEW j \in Closers(line, 6), j # 8 + k + n
      PROVE  FALSE
  <2>1. /\ j \in 7 + k..Len(line) /\ line[j] = "tick" /\ line[j - 1] # "tick"
        /\ RunLength(line, j) = k
    BY <1>2 DEF Closers
  <2>2. j # 7 + k + n
    BY <2>1 DEF Fenced
  <2>3. ~(j > 8 + k + n)
    <3>1. ASSUME j > 8 + k + n
          PROVE  j - 1 \in 8 + k + n..7 + 2 * k + n
      BY <1>1, <2>1, <3>1
    <3> QED BY <2>1, <3>1 DEF Fenced
  <2>4. j \in 1..Len(line)
    BY <1>1, <2>1
  <2>5. k \in 1..Len(line) + 1 - j /\ \A i \in j..j + k - 1 : line[i] = "tick"
    BY <1>1, <2>1, <2>4, RunExists
  <2>6. ~(7 + k + n \in j..j + k - 1)
    BY <2>5 DEF Fenced
  <2> DEFINE p == j - (6 + k)
  <2>7. p \in 1..n /\ p \in 1..n - (k - 1)
    BY <1>1, <1>5, <2>1, <2>2, <2>3, <2>6
  <2>8. PICK q \in p..p + (k - 1) : s[q] # "tick"
    BY <2>7
  <2>9. q \in 1..n /\ 6 + k + q \in j..j + k - 1
    BY <2>1, <2>7, <2>8
  <2>10. line[6 + k + q] = s[q]
    BY <2>9 DEF Fenced
  <2> QED BY <2>5, <2>8, <2>9, <2>10
<1>6. Closer(line, 6) = 8 + k + n
  <2>1. \A j \in Closers(line, 6) : j = 8 + k + n
    BY <1>5
  <2>2. Closer(line, 6) \in Closers(line, 6)
    <3>1. 6 \in 1..Len(line) /\ line[6] = "tick"
      BY <1>1 DEF Fenced
    <3> QED BY <1>1, <1>4, <3>1, CloserIs
  <2> QED BY <2>1, <2>2
<1> QED BY <1>2, <1>4, <1>6

\* The span shows the subject: what was added for the span is dropped again.
LEMMA InnerIsSubject ==
    ASSUME NEW S, NEW line \in Seq(S), NEW s \in Seq(S), NEW k \in Nat, NEW n \in Nat,
           Len(line) = 7 + 2 * k + n, Len(s) = n, n > 0, k > 0,
           NEW space, line[6 + k] = space, line[7 + k + n] = space,
           \A i \in 1..n : line[6 + k + i] = s[i]
    PROVE  LET text == SubSeq(line, 6 + k, 7 + k + n)
           IN  /\ text[1] = space /\ text[Len(text)] = space
               /\ 2 \in 1..Len(text) /\ text[2] = s[1]
               /\ SubSeq(text, 2, Len(text) - 1) = s
<1>1. \A i \in 6 + k..7 + k + n : line[i] \in S
  <2>1. \A i \in 6 + k..7 + k + n : i \in 1..Len(line)
    OBVIOUS
  <2> QED BY <2>1, ElementOfSeq
<1>2. PICK text : text = SubSeq(line, 6 + k, 7 + k + n)
  OBVIOUS
<1>3. /\ text \in Seq(S)
      /\ Len(text) = IF 6 + k <= 7 + k + n THEN (7 + k + n) - (6 + k) + 1 ELSE 0
      /\ \A i \in 1..(7 + k + n) - (6 + k) + 1 : text[i] = line[(6 + k) + i - 1]
  <2>1. 6 + k \in Int /\ 7 + k + n \in Int
    OBVIOUS
  <2> QED BY <1>1, <1>2, <2>1, SubSeqProperties
<1>4. Len(text) = n + 2 /\ \A i \in 1..n + 2 : text[i] = line[5 + k + i]
  <2>1. (7 + k + n) - (6 + k) + 1 = n + 2 /\ 6 + k <= 7 + k + n
    OBVIOUS
  <2>2. \A i \in 1..n + 2 : (6 + k) + i - 1 = 5 + k + i
    OBVIOUS
  <2> QED BY <1>3, <2>1, <2>2
<1>5. text[1] = space /\ text[n + 2] = space
  <2>1. 1 \in 1..n + 2 /\ n + 2 \in 1..n + 2 /\ 5 + k + 1 = 6 + k /\ 5 + k + (n + 2) = 7 + k + n
    OBVIOUS
  <2>2. text[1] = line[6 + k] /\ text[n + 2] = line[7 + k + n]
    BY <1>4, <2>1
  <2> QED BY <2>2
<1>6. \A i \in 1..n : text[1 + i] = s[i]
  <2> TAKE i \in 1..n
  <2>1. 1 + i \in 1..n + 2 /\ 5 + k + (1 + i) = 6 + k + i
    OBVIOUS
  <2>2. text[1 + i] = line[6 + k + i]
    BY <1>4, <2>1
  <2> QED BY <2>2
<1>7. PICK inner : inner = SubSeq(text, 2, n + 1)
  OBVIOUS
<1>8. /\ inner \in Seq(S)
      /\ Len(inner) = IF 2 <= n + 1 THEN (n + 1) - 2 + 1 ELSE 0
      /\ \A i \in 1..(n + 1) - 2 + 1 : inner[i] = text[2 + i - 1]
  <2>1. \A i \in 2..n + 1 : i \in 1..Len(text)
    BY <1>4
  <2>2. \A i \in 2..n + 1 : text[i] \in S
    BY <1>3, <2>1, ElementOfSeq
  <2>3. 2 \in Int /\ n + 1 \in Int
    OBVIOUS
  <2> QED BY <1>7, <2>2, <2>3, SubSeqProperties
<1>9. Len(inner) = n /\ \A i \in 1..n : inner[i] = s[i]
  <2>1. (n + 1) - 2 + 1 = n /\ 2 <= n + 1 /\ \A i \in 1..n : 2 + i - 1 = 1 + i
    OBVIOUS
  <2> QED BY <1>6, <1>8, <2>1
<1>10. inner = s
  BY <1>8, <1>9, SeqEqual
<1>11. 2 \in 1..n + 2 /\ 1 \in 1..n /\ 1 + 1 = 2 /\ (n + 2) - 1 = n + 1
  OBVIOUS
<1>12. text[2] = s[1]
  BY <1>6, <1>11
<1> QED BY <1>2, <1>4, <1>5, <1>7, <1>10, <1>11, <1>12, Zenon

\* SubjectsAreLiteral for one commit with any subject: three readings, then the subject.
LEMMA LineIsLiteral ==
    ASSUME NEW s \in Seq(Symbols), s # <<>>, Trimmed(s)
    PROVE  Markdown(CommitLine(s)) =
               <<<<"text", "- ">>, <<"code", "sha">>, <<"text", " ">>, <<"code">> \o s>>
<1>1. PICK k, n : k = LongestRun(s) + 1 /\ Len(s) = n
  OBVIOUS
<1>2. PICK line : line = CommitLine(s)
  OBVIOUS
<1>3. k \in Nat /\ k > 0 /\ n \in Nat /\ line \in Seq(Chars)
  BY <1>1, <1>2, CommitLineIs, Zenon
<1>4. Layout(line, <<"- ", "tick", "sha", "tick", " ">>, k, n, s, "tick", " ")
  BY <1>1, <1>2, CommitLineIs, Zenon
<1>5. Fenced(line, s, k, n)
  BY <1>3, <1>4, LineIsFenced, Zenon
<1>6. /\ line[1] = "- " /\ line[3] = "sha" /\ line[5] = " "
       /\ line[6 + k] = " " /\ line[7 + k + n] = " "
  BY <1>3, <1>4, LineIsFenced, Zenon
<1>7. Len(line) = 7 + 2 * k + n /\ Len(line) \in Nat /\ n > 0
  <2>1. n > 0
    BY <1>1, <1>3
  <2>2. Len(line) = 7 + 2 * k + n
    BY <1>5, Zenon DEF Fenced
  <2> QED BY <1>3, <2>1, <2>2
<1>8. /\ RunLength(line, 2) = 1 /\ Closers(line, 2) # {} /\ Closer(line, 2) = 4
  BY <1>3, <1>5, HashSpan
<1>9. /\ RunLength(line, 6) = k /\ Closers(line, 6) # {} /\ Closer(line, 6) = 8 + k + n
  <2>1. \A i \in 1..n - (k - 1) : \E j \in i..i + (k - 1) : s[j] # "tick"
    <3>1. k - 1 = LongestRun(s)
      BY <1>1, LongestRunIs
    <3> QED BY <1>1, <3>1, LongestRunIs
  <2> QED BY <1>3, <1>5, <2>1, SubjectSpan
<1>10. PICK parse : /\ Markdown(line) = parse[1]
                   /\ \A i \in 1..Len(line) + 1 : parse[i] = From(line, parse, i)
  BY <1>7, MarkdownIs
<1>11. /\ 1 \in 1..Len(line) + 1 /\ ~(1 > Len(line)) /\ 2 \in 1..Len(line) + 1 /\ ~(2 > Len(line))
      /\ 5 \in 1..Len(line) + 1 /\ ~(5 > Len(line)) /\ 6 \in 1..Len(line) + 1 /\ ~(6 > Len(line))
      /\ 8 + 2 * k + n \in 1..Len(line) + 1 /\ 8 + 2 * k + n > Len(line)
  BY <1>3, <1>7
<1>12. /\ 1 + 1 = 2 /\ 5 + 1 = 6 /\ 2 + 1 = 3 /\ 4 - 1 = 3 /\ 4 + 1 = 5
       /\ (8 + k + n) - 1 = 7 + k + n /\ (8 + k + n) + k = 8 + 2 * k + n
  BY <1>3
<1>13. parse[1] = <<<<"text", "- ">>>> \o parse[2]
  <2>1. line[1] # "tick"
    BY <1>5, Zenon DEF Fenced
  <2>2. From(line, parse, 1) = <<<<"text", line[1]>>>> \o parse[1 + 1]
    BY <1>11, <2>1, Zenon DEF From
  <2> QED BY <1>6, <1>10, <1>11, <1>12, <2>2, Zenon
<1>14. parse[2] = <<<<"code">> \o Inner(SubSeq(line, 3, 3))>> \o parse[5]
  <2>1. line[2] = "tick"
    BY <1>5, Zenon DEF Fenced
  <2>2. From(line, parse, 2) =
          <<<<"code">> \o Inner(SubSeq(line, 2 + RunLength(line, 2), Closer(line, 2) - 1))>>
          \o parse[Closer(line, 2) + RunLength(line, 2)]
    BY <1>8, <1>11, <2>1, Zenon DEF From, Closer
  <2> QED BY <1>8, <1>10, <1>11, <1>12, <2>2, Zenon
<1>15. parse[5] = <<<<"text", " ">>>> \o parse[6]
  <2>1. line[5] # "tick"
    BY <1>5, Zenon DEF Fenced
  <2>2. From(line, parse, 5) = <<<<"text", line[5]>>>> \o parse[5 + 1]
    BY <1>11, <2>1, Zenon DEF From
  <2> QED BY <1>6, <1>10, <1>11, <1>12, <2>2, Zenon
<1>16. parse[6] = <<<<"code">> \o Inner(SubSeq(line, 6 + k, 7 + k + n))>> \o parse[8 + 2 * k + n]
  <2>1. line[6] = "tick"
    <3>1. 6 \in 6..5 + k
      BY <1>3
    <3> QED BY <1>5, <3>1, Zenon DEF Fenced
  <2>2. From(line, parse, 6) =
          <<<<"code">> \o Inner(SubSeq(line, 6 + RunLength(line, 6), Closer(line, 6) - 1))>>
          \o parse[Closer(line, 6) + RunLength(line, 6)]
    BY <1>9, <1>11, <2>1, Zenon DEF From, Closer
  <2> QED BY <1>9, <1>10, <1>11, <1>12, <2>2, Zenon
<1>17. parse[8 + 2 * k + n] = <<>>
  <2>1. From(line, parse, 8 + 2 * k + n) = <<>>
    BY <1>11, Zenon DEF From
  <2> QED BY <1>10, <1>11, <2>1, Zenon
<1>18. Inner(SubSeq(line, 3, 3)) = <<"sha">>
  <2>1. PICK text : text = SubSeq(line, 3, 3)
    OBVIOUS
  <2>2. text = <<line[3]>>
    <3>1. \A i \in 3..3 : i = 3 /\ i \in 1..Len(line)
      BY <1>3, <1>7
    <3>2. \A i \in 3..3 : line[i] \in Chars
      BY <1>3, <3>1, ElementOfSeq, Zenon
    <3>3. /\ text \in Seq(Chars) /\ Len(text) = IF 3 <= 3 THEN 3 - 3 + 1 ELSE 0
          /\ \A i \in 1..3 - 3 + 1 : text[i] = line[3 + i - 1]
      BY <2>1, <3>2, SubSeqProperties
    <3>4. Len(text) = 1 /\ text[1] = line[3]
      BY <3>3
    <3>5. 3 \in 1..Len(line) /\ line[3] \in Chars
      BY <1>3, <1>7, ElementOfSeq
    <3>6. PICK sha : sha = <<line[3]>>
      OBVIOUS
    <3>7. sha \in Seq(Chars) /\ Len(sha) = 1 /\ sha[1] = line[3]
      BY <3>5, <3>6
    <3> QED BY <3>3, <3>4, <3>6, <3>7, SeqEqual
  <2>3. text[1] = line[3]
    BY <2>2
  <2>4. text[1] # " "
    BY <1>6, <2>3, Zenon
  <2> QED BY <1>6, <2>1, <2>2, <2>4, Zenon DEF Inner
<1>19. Inner(SubSeq(line, 6 + k, 7 + k + n)) = s
  <2>1. PICK text : text = SubSeq(line, 6 + k, 7 + k + n)
    OBVIOUS
  <2>2. PICK space : space = " "
    OBVIOUS
  <2>3. s \in Seq(Chars)
    BY SeqMonotonic DEF Chars
  <2>4. line[6 + k] = space /\ line[7 + k + n] = space
    BY <1>6, <2>2, Zenon
  <2>5. \A i \in 1..n : line[6 + k + i] = s[i]
    BY <1>5, Zenon DEF Fenced
  <2>6. s \in Seq(Chars) /\ Len(s) = n /\ n > 0 /\ k > 0 /\ k \in Nat /\ n \in Nat
    BY <1>1, <1>3, <1>7, <2>3, Zenon
  <2>7. LET seen == SubSeq(line, 6 + k, 7 + k + n)
        IN  /\ seen[1] = space /\ seen[Len(seen)] = space
            /\ 2 \in 1..Len(seen) /\ seen[2] = s[1]
            /\ SubSeq(seen, 2, Len(seen) - 1) = s
    BY <1>3, <1>7, <2>4, <2>5, <2>6, InnerIsSubject
  <2>8. /\ text[1] = space /\ text[Len(text)] = space
        /\ 2 \in 1..Len(text) /\ text[2] = s[1]
        /\ SubSeq(text, 2, Len(text) - 1) = s
    BY <2>1, <2>7, Zenon
  <2>9. s[1] # " "
    BY Zenon DEF Trimmed
  <2> QED BY <2>1, <2>2, <2>8, <2>9, Zenon DEF Inner
<1>20. PICK t1, t2, t3, t4 : /\ t1 = <<"text", "- ">> /\ t2 = <<"code">> \o <<"sha">>
                             /\ t3 = <<"text", " ">> /\ t4 = <<"code">> \o s
  OBVIOUS
<1>21. parse[6] = <<t4>>
  <2>1. parse[6] = <<t4>> \o <<>>
    BY <1>16, <1>17, <1>19, <1>20, Zenon
  <2>2. <<t4>> \in Seq({t4})
    OBVIOUS
  <2> QED BY <2>1, <2>2, ConcatEmptySeq
<1>22. parse[5] = <<t3>> \o <<t4>> /\ parse[2] = <<t2>> \o parse[5] /\ parse[1] = <<t1>> \o parse[2]
  BY <1>13, <1>14, <1>15, <1>18, <1>20, <1>21, Zenon
<1>23. parse[5] = <<t3, t4>>
  BY <1>22, Parts2, Zenon
<1>24. parse[2] = <<t2, t3, t4>>
  BY <1>22, <1>23, Parts3, Zenon
<1>25. parse[1] = <<t1, t2, t3, t4>>
  BY <1>22, <1>24, Parts4, Zenon
<1>26. t2 = <<"code", "sha">>
  BY <1>20, Parts2, Zenon
<1> QED BY <1>2, <1>10, <1>20, <1>25, <1>26, Zenon

-----------------------------------------------------------------------------
(* The parser's block *)

\* A line of one symbol quotes the start of the block only if it is that.
LEMMA OneSymbol ==
    ASSUME NEW x
    PROVE  Contains(<<x>>, "START") <=> x = "START"
BY DEF Contains

\* The parser's block begins at the last line that has its start, here a line of its own.
LEMMA BlockIs ==
    ASSUME NEW S, NEW body \in Seq(S), NEW m \in 1..Len(body), body[m] = <<"START">>,
           \A i \in m + 1..Len(body) : ~Contains(body[i], "START")
    PROVE  Block(body)[1] = <<"START">> /\ Len(Block(body)) = Len(body) - m + 1
<1>1. SelectLastInSeq(body, LAMBDA line : Contains(line, "START")) = m
  <2> DEFINE I == {i \in 1..Len(body) : Contains(body[i], "START")}
  <2>1. Contains(body[m], "START")
    BY OneSymbol, Zenon
  <2>2. I \in SUBSET Nat /\ \A i \in 1..Len(body) : i <= m \/ i \in m + 1..Len(body)
    OBVIOUS
  <2>3. \A i \in I : i <= m
    BY <2>2, Zenon
  <2>4. I \in SUBSET Nat /\ m \in I /\ \A i \in I : i <= m
    BY <2>1, <2>2, <2>3, Zenon
  <2>5. I # {} /\ Max(I) = m
    BY <2>4, LastIs
  <2> QED BY <2>5 DEF SelectLastInSeq
<1>2. SelectLastInSeq(body[m], LAMBDA s : s = "START") = 1
  <2> DEFINE I == {i \in 1..Len(body[m]) : body[m][i] = "START"}
  <2>1. I \in SUBSET Nat /\ 1 \in I /\ \A i \in I : i <= 1
    OBVIOUS
  <2>2. I # {} /\ Max(I) = 1
    BY <2>1, LastIs
  <2> QED BY <2>2 DEF SelectLastInSeq
<1>3. Block(body) = <<SubSeq(body[m], 1, Len(body[m]))>> \o SubSeq(body, m + 1, Len(body))
  BY <1>1, <1>2, Zenon DEF Block
<1>4. SubSeq(body[m], 1, Len(body[m])) = <<"START">>
  <2>1. <<"START">> \in Seq({"START"})
    OBVIOUS
  <2> QED BY <2>1, SubSeqFull
<1>5. PICK rest : rest = SubSeq(body, m + 1, Len(body))
  OBVIOUS
<1>6. rest \in Seq(S) /\ Len(rest) = Len(body) - m
  <2>1. m + 1 \in Int /\ Len(body) \in Int /\ \A i \in m + 1..Len(body) : i \in 1..Len(body)
    OBVIOUS
  <2>2. \A i \in m + 1..Len(body) : body[i] \in S
    BY <2>1, ElementOfSeq
  <2>3. /\ rest \in Seq(S)
        /\ Len(rest) = IF m + 1 <= Len(body) THEN Len(body) - (m + 1) + 1 ELSE 0
    BY <1>5, <2>1, <2>2, SubSeqProperties
  <2> QED BY <2>3
<1>7. PICK first, block : first = <<<<"START">>>> /\ block = first \o rest
  OBVIOUS
<1>8. first \in Seq(S \cup {<<"START">>}) /\ rest \in Seq(S \cup {<<"START">>}) /\ Len(first) = 1
  BY <1>6, <1>7, SeqMonotonic
<1>9. IsJoin(first, rest, block)
  BY <1>7, <1>8, Joined
<1>10. block[1] = <<"START">> /\ Len(block) = Len(body) - m + 1
  BY <1>6, <1>7, <1>8, <1>9 DEF IsJoin
<1> QED BY <1>3, <1>4, <1>5, <1>7, <1>10, Zenon

\* The machine-readable block has five lines after its start, and none quotes the start.
LEMMA MetadataIs ==
    /\ Len(Metadata) = 5
    /\ \A i \in 1..5 : Metadata[i] # "START"
<1>1. ASSUME NEW a, NEW b, NEW c, NEW d, NEW e
      PROVE  LET five == <<a, b, c, d, e>>
             IN  /\ Len(five) = 5
                 /\ \A i \in 1..5 : five[i] \in {a, b, c, d, e}
  OBVIOUS
<1>2. PICK a, b, c, d, e :
        /\ a = "tag=v1.0.0" /\ b = "commit=sha" /\ c = "notes_format=1"
        /\ d = "compatibility_sha256=sha" /\ e = "-->"
  OBVIOUS
<1>3. PICK five : five = <<a, b, c, d, e>>
  OBVIOUS
<1>4. Metadata = five
  BY <1>2, <1>3, Zenon DEF Metadata
<1>5. Len(five) = 5 /\ \A i \in 1..5 : five[i] \in {a, b, c, d, e}
  BY <1>1, <1>3, Zenon
<1>6. \A x \in {a, b, c, d, e} : x # "START"
  BY <1>2, Zenon
<1> QED BY <1>4, <1>5, <1>6, Zenon

\* The parser accepts the notes of any commits.
LEMMA NotesOfAnyCommits ==
    ASSUME NEW texts, Len(texts) \in Nat
    PROVE  ParsesBack(RenderedNotes(texts))
<1>1. PICK h, e, no, t, st, meta :
        /\ h = <<"## Changes">> /\ e = <<>> /\ no = <<"No commits">>
        /\ t = <<"## Tested compatibility">> /\ st = <<"START">> /\ meta = Metadata
  OBVIOUS
<1>2. PICK V : V = {h, e, no, t, st} \cup {CommitLine(texts[i]) : i \in 1..Len(texts)}
                       \cup {<<meta[i]>> : i \in 1..5}
  OBVIOUS
<1>3. PICK a, b, c, d :
        /\ a = <<h, e>> /\ c = <<e, t, e, st>>
        /\ b = (IF texts = <<>> THEN <<no>> ELSE [i \in 1..Len(texts) |-> CommitLine(texts[i])])
        /\ d = [i \in 1..5 |-> <<meta[i]>>]
  OBVIOUS
<1>4. RenderedNotes(texts) = a \o b \o c \o d
  BY <1>1, <1>3, MetadataIs, Zenon DEF RenderedNotes
<1>5. a \in Seq(V) /\ c \in Seq(V) /\ Len(c) = 4 /\ c[4] = st
  BY <1>2, <1>3
<1>6. b \in Seq(V)
  <2>1. CASE texts = <<>>
    BY <1>2, <1>3, <2>1
  <2>2. CASE texts # <<>>
    <3>1. b = [i \in 1..Len(texts) |-> CommitLine(texts[i])]
      BY <1>3, <2>2
    <3>2. \A i \in 1..Len(texts) : CommitLine(texts[i]) \in V
      BY <1>2
    <3> QED BY <3>1, <3>2
  <2> QED BY <2>1, <2>2
<1>7. d \in Seq(V) /\ Len(d) = 5 /\ \A i \in 1..5 : d[i] = <<meta[i]>>
  BY <1>2, <1>3
<1>8. PICK ab, abc, body : ab = a \o b /\ abc = ab \o c /\ body = abc \o d
  OBVIOUS
<1>9. body \in Seq(V) /\ IsJoin(abc, d, body) /\ IsJoin(ab, c, abc)
  <2>1. ab \in Seq(V)
    BY <1>5, <1>6, <1>8, Joined
  <2>2. abc \in Seq(V) /\ IsJoin(ab, c, abc)
    BY <1>5, <1>8, <2>1, Joined
  <2> QED BY <1>7, <1>8, <2>2, Joined
<1>10. PICK m \in 1..Len(body) :
        Len(body) = m + 5 /\ body[m] = c[4] /\ \A i \in 1..5 : body[m + i] = d[i]
  <2>1. /\ Len(abc) \in 1..Len(body) /\ Len(body) = Len(abc) + 5
        /\ 4 \in 1..Len(c) /\ Len(ab) + 4 = Len(abc) /\ Len(abc) \in 1..Len(abc)
    BY <1>5, <1>7, <1>9 DEF IsJoin
  <2>2. \A i \in 1..5 : body[Len(abc) + i] = d[i]
    BY <1>7, <1>9 DEF IsJoin
  <2>3. abc[Len(abc)] = c[4] /\ body[Len(abc)] = abc[Len(abc)]
    BY <1>9, <2>1, Zenon DEF IsJoin
  <2> QED BY <2>1, <2>2, <2>3, Zenon
<1>11. body[m] = <<"START">>
  BY <1>1, <1>5, <1>10, Zenon
<1>12. \A i \in m + 1..Len(body) : ~Contains(body[i], "START")
  <2> TAKE i \in m + 1..Len(body)
  <2>1. i - m \in 1..5 /\ m + (i - m) = i
    BY <1>10
  <2>2. body[i] = <<meta[i - m]>>
    <3>1. body[m + (i - m)] = d[i - m]
      BY <1>10, <2>1, Zenon
    <3> QED BY <1>7, <2>1, <3>1, Zenon
  <2>3. meta[i - m] # "START"
    BY <1>1, <2>1, MetadataIs, Zenon
  <2> QED BY <2>2, <2>3, OneSymbol, Zenon
<1>13. Block(body)[1] = <<"START">> /\ Len(Block(body)) = Len(body) - m + 1
  BY <1>9, <1>11, <1>12, BlockIs, Zenon
<1>14. Len(body) - m + 1 = 5 + 1
  BY <1>10
<1> QED BY <1>4, <1>8, <1>13, <1>14, MetadataIs, Zenon DEF ParsesBack

-----------------------------------------------------------------------------
(* The subjects authors write *)

SubjectsTypeOK == subjects \in Seq(Seq(Symbols))

\* Writing leaves sequences of symbols.
LEMMA SubjectsTyped == SubjectsSpec => []SubjectsTypeOK
<1>1. SubjectsInit => SubjectsTypeOK
  BY DEF SubjectsInit, SubjectsTypeOK
<1>2. SubjectsTypeOK /\ [SubjectsNext]_subjects => SubjectsTypeOK'
  <2> SUFFICES ASSUME SubjectsTypeOK, [SubjectsNext]_subjects
               PROVE  SubjectsTypeOK'
    OBVIOUS
  <2>1. CASE NextCommit
    BY <2>1 DEF NextCommit, SubjectsTypeOK
  <2>2. ASSUME NEW symbol \in Symbols, WriteSymbol(symbol)
        PROVE  SubjectsTypeOK'
    <3>1. PICK S : S = Symbols
      OBVIOUS
    <3>2. symbol \in S /\ subjects \in Seq(Seq(S)) /\ subjects # <<>>
      BY <2>2, <3>1, Zenon DEF WriteSymbol, SubjectsTypeOK
    <3>3. subjects' = [subjects EXCEPT ![Len(subjects)] = Append(@, symbol)]
      BY <2>2, Zenon DEF WriteSymbol
    <3>4. Len(subjects) \in 1..Len(subjects)
      BY <3>2, EmptySeq
    <3>5. Append(subjects[Len(subjects)], symbol) \in Seq(S)
      BY <3>2, <3>4
    <3>6. subjects' \in Seq(Seq(S))
      BY <3>2, <3>3, <3>4, <3>5
    <3> QED BY <3>1, <3>6, Zenon DEF SubjectsTypeOK
  <2>3. CASE UNCHANGED subjects
    BY <2>3 DEF SubjectsTypeOK
  <2> QED BY <2>1, <2>2, <2>3 DEF SubjectsNext
<1> QED BY <1>1, <1>2, PTL DEF SubjectsSpec

\* SubjectsAreData for subjects of any length in any number.
THEOREM SubjectsStayData == SubjectsSpec => []SubjectsAreData
<1>1. SubjectsTypeOK => SubjectsAreLiteral
  <2> SUFFICES ASSUME SubjectsTypeOK, Committed, NEW i \in 1..Len(subjects), subjects[i] # <<>>
               PROVE  Markdown(CommitLine(subjects[i])) =
                   <<<<"text", "- ">>, <<"code", "sha">>, <<"text", " ">>,
                     <<"code">> \o subjects[i]>>
    BY Zenon DEF SubjectsAreLiteral
  <2>1. PICK S, s : S = Symbols /\ s = subjects[i]
    OBVIOUS
  <2>2. s \in Seq(S)
    <3>1. subjects \in Seq(Seq(S))
      BY <2>1, Zenon DEF SubjectsTypeOK
    <3> QED BY <2>1, <3>1, ElementOfSeq, Zenon
  <2>3. s \in Seq(Symbols) /\ s # <<>> /\ Trimmed(s)
    BY <2>1, <2>2, Zenon DEF Committed
  <2> QED BY <2>1, <2>3, LineIsLiteral, Zenon
<1>2. SubjectsTypeOK => NotesParseBack
  <2>1. SubjectsTypeOK => Len(subjects) \in Nat
    BY DEF SubjectsTypeOK
  <2> QED BY <2>1, NotesOfAnyCommits, Zenon DEF NotesParseBack
<1>3. SubjectsTypeOK => SubjectsAreData
  BY <1>1, <1>2, Zenon DEF SubjectsAreData
<1> QED BY <1>3, SubjectsTyped, PTL

-----------------------------------------------------------------------------
(* The counts of a report *)

\* The member that the community modules' fold takes first.
Pick(s) == CHOOSE x \in s : TRUE

\* One step of a fold that sums.
SumStep(w, f) ==
    [s \in SUBSET DOMAIN w |->
        IF s = {} THEN 0 ELSE w[Pick(s)] + f[s \ {Pick(s)}]]

\* A sum over a function is read off any solution of its recursive equation.
LEMMA SumSolves ==
    ASSUME NEW w, NEW g, g = SumStep(w, g)
    PROVE  \E f : f = SumStep(w, f) /\ SumFunction(w) = f[DOMAIN w]
<1>1. PICK f : f = CHOOSE h : h = SumStep(w, h)
  OBVIOUS
<1>2. f = SumStep(w, f)
  BY <1>1
<1>3. SumFunction(w) = f[DOMAIN w]
  BY <1>1 DEF SumFunction, SumFunctionOnSet, FoldFunctionOnSet, MapThenFoldSet, SumStep, Pick
<1> QED BY <1>2, <1>3

\* Nothing sums to zero.
LEMMA SumOfNone ==
    ASSUME NEW w, DOMAIN w = {}
    PROVE  SumFunction(w) = 0
<1>1. PICK g : g = [s \in SUBSET {} |-> 0]
  OBVIOUS
<1>2. g = SumStep(w, g)
  BY <1>1 DEF SumStep
<1>3. PICK f : f = SumStep(w, f) /\ SumFunction(w) = f[DOMAIN w]
  BY <1>2, SumSolves
<1> QED BY <1>3 DEF SumStep

\* One number sums to itself.
LEMMA SumOfOne ==
    ASSUME NEW w, NEW a, DOMAIN w = {a}, w[a] \in Int
    PROVE  SumFunction(w) = w[a]
<1>1. PICK g : g = [s \in SUBSET {a} |-> IF s = {} THEN 0 ELSE w[a]]
  OBVIOUS
<1>2. g = SumStep(w, g)
  <2>1. \A s \in SUBSET {a} : s = {} \/ s = {a}
    OBVIOUS
  <2>2. Pick({a}) = a /\ {a} \ {a} = {}
    BY DEF Pick
  <2>3. g[{}] = 0 /\ g[{a}] = w[a] /\ {a} # {}
    BY <1>1
  <2>4. \A s \in SUBSET {a} :
           g[s] = IF s = {} THEN 0 ELSE w[Pick(s)] + g[s \ {Pick(s)}]
    <3> TAKE s \in SUBSET {a}
    <3>1. CASE s = {}
      BY <2>3, <3>1
    <3>2. CASE s = {a}
      <4>1. w[a] + g[{}] = w[a]
        BY <2>3
      <4>2. w[Pick(s)] + g[s \ {Pick(s)}] = w[a] + g[{}]
        BY <2>2, <3>2, Zenon
      <4> QED BY <2>3, <3>2, <4>1, <4>2, Zenon
    <3> QED BY <2>1, <3>1, <3>2
  <2> QED BY <1>1, <2>4 DEF SumStep
<1>3. PICK f : f = SumStep(w, f) /\ SumFunction(w) = f[DOMAIN w]
  BY <1>2, SumSolves
<1>4. f[{}] = 0
  BY <1>3 DEF SumStep
<1>5. Pick({a}) = a /\ {a} \ {a} = {} /\ {a} # {} /\ {a} \in SUBSET {a}
  BY DEF Pick
<1>6. f[{a}] = w[a] + f[{}]
  BY <1>3, <1>5 DEF SumStep
<1> QED BY <1>3, <1>4, <1>6

\* Two numbers sum to their sum, whichever is taken first.
LEMMA SumOfTwo ==
    ASSUME NEW w, NEW a, NEW b, a # b, DOMAIN w = {a, b}, w[a] \in Int, w[b] \in Int
    PROVE  SumFunction(w) = w[a] + w[b]
<1> DEFINE Of(s, x) == IF x \in s THEN w[x] ELSE 0
<1>1. PICK g : g = [s \in SUBSET {a, b} |-> Of(s, a) + Of(s, b)]
  OBVIOUS
<1>2. \A s : s # {} => Pick(s) \in s
  BY DEF Pick
<1>3. g = SumStep(w, g)
  <2>1. ASSUME NEW s \in SUBSET {a, b}, s # {}
        PROVE  g[s] = w[Pick(s)] + g[s \ {Pick(s)}]
    <3>1. Pick(s) \in s /\ Pick(s) \in {a, b}
      BY <1>2, <2>1
    <3>2. g[s] = Of(s, a) + Of(s, b)
      BY <1>1
    <3>3. g[s \ {Pick(s)}] = Of(s \ {Pick(s)}, a) + Of(s \ {Pick(s)}, b)
      BY <1>1
    <3>4. CASE Pick(s) = a
      BY <3>1, <3>2, <3>3, <3>4
    <3>5. CASE Pick(s) = b
      BY <3>1, <3>2, <3>3, <3>5
    <3> QED BY <3>1, <3>4, <3>5
  <2>2. g[{}] = 0
    BY <1>1
  <2>3. \A s \in SUBSET {a, b} :
           g[s] = IF s = {} THEN 0 ELSE w[Pick(s)] + g[s \ {Pick(s)}]
    BY <2>1, <2>2, Zenon
  <2>4. g = [s \in SUBSET {a, b} |-> g[s]]
    BY <1>1
  <2> HIDE DEF Of
  <2> QED BY <2>3, <2>4 DEF SumStep
<1>4. PICK f : f = SumStep(w, f) /\ SumFunction(w) = f[DOMAIN w]
  BY <1>3, SumSolves
<1>5. \A s \in SUBSET {a, b} :
         f[s] = IF s = {} THEN 0 ELSE w[Pick(s)] + f[s \ {Pick(s)}]
  BY <1>4 DEF SumStep
<1>6. f[{}] = 0
  BY <1>5
<1>7. ASSUME NEW x \in {a, b}
      PROVE  f[{x}] = w[x]
  <2>1. {x} \in SUBSET {a, b} /\ {x} # {} /\ Pick({x}) = x /\ {x} \ {x} = {}
    BY <1>2
  <2>2. f[{x}] = w[x] + f[{}]
    BY <1>5, <2>1
  <2> QED BY <1>6, <1>7, <2>2
<1>8. f[{a, b}] = w[a] + w[b]
  <2>1. {a, b} \in SUBSET {a, b} /\ {a, b} # {} /\ Pick({a, b}) \in {a, b}
    BY <1>2
  <2>2. f[{a, b}] = w[Pick({a, b})] + f[{a, b} \ {Pick({a, b})}]
    BY <1>5, <2>1
  <2>3. {a, b} \ {a} = {b} /\ {a, b} \ {b} = {a}
    OBVIOUS
  <2>4. f[{a}] = w[a] /\ f[{b}] = w[b]
    BY <1>7
  <2>5. CASE Pick({a, b}) = a
    BY <2>2, <2>3, <2>4, <2>5
  <2>6. CASE Pick({a, b}) = b
    <3>1. f[{a, b}] = w[b] + w[a]
      BY <2>2, <2>3, <2>4, <2>6, Zenon
    <3> QED BY <3>1
  <2> QED BY <2>1, <2>5, <2>6
<1> QED BY <1>4, <1>8

\* Appending writes the next item.
LEMMA Appended ==
    ASSUME NEW a, NEW b
    PROVE  Append(<<>>, a) = <<a>> /\ Append(<<a>>, b) = <<a, b>>
<1>1. PICK S : S = {a, b}
  OBVIOUS
<1>2. PICK one, two, p, q :
        one = <<a>> /\ two = <<a, b>> /\ p = Append(<<>>, a) /\ q = Append(one, b)
  OBVIOUS
<1>3. one \in Seq(S) /\ Len(one) = 1 /\ one[1] = a
  BY <1>1, <1>2
<1>4. two \in Seq(S) /\ Len(two) = 2 /\ two[1] = a /\ two[2] = b
  BY <1>1, <1>2
<1>5. a \in S /\ b \in S
  BY <1>1
<1>6. p \in Seq(S) /\ Len(p) = 1 /\ p[1] = a
  <2>1. <<>> \in Seq(S) /\ Len(<<>>) = 0
    OBVIOUS
  <2> QED BY <1>2, <1>5, <2>1, AppendProperties
<1>7. q \in Seq(S) /\ Len(q) = 2 /\ q[1] = a /\ q[2] = b
  BY <1>2, <1>3, <1>5, AppendProperties
<1>8. p = one
  BY <1>3, <1>6, SeqEqual
<1>9. q = two
  <2>1. \A i \in 1..2 : i = 1 \/ i = 2
    OBVIOUS
  <2>2. \A i \in 1..2 : q[i] = two[i]
    BY <1>4, <1>7, <2>1, Zenon
  <2> QED BY <1>4, <1>7, <2>2, SeqEqual
<1> QED BY <1>2, <1>8, <1>9, Zenon

\* Two items in their order, as far as they are in a set.
LEMMA OrderOfTwo ==
    ASSUME NEW a, NEW b, NEW set
    PROVE  InOrder(<<a, b>>, set) =
               IF a \in set THEN IF b \in set THEN <<a, b>> ELSE <<a>>
               ELSE IF b \in set THEN <<b>> ELSE <<>>
<1> DEFINE Step(f) == [n \in 0..2 |->
               IF n = 0 THEN <<>>
               ELSE IF <<a, b>>[n] \in set THEN Append(f[n - 1], <<a, b>>[n]) ELSE f[n - 1]]
<1>1. PICK first : first = IF a \in set THEN <<a>> ELSE <<>>
  OBVIOUS
<1>2. PICK both : both = IF b \in set THEN Append(first, b) ELSE first
  OBVIOUS
<1>3. PICK g : g = [n \in 0..2 |-> IF n = 0 THEN <<>> ELSE IF n = 1 THEN first ELSE both]
  OBVIOUS
<1>4. \A n \in 0..2 : n = 0 \/ n = 1 \/ n = 2
  OBVIOUS
<1>5. g = Step(g)
  <2>1. g[0] = <<>> /\ g[1] = first /\ g[2] = both
    BY <1>3
  <2>2. Step(g)[0] = <<>>
    OBVIOUS
  <2>3. Step(g)[1] = first
    <3>1. Step(g)[1] = IF a \in set THEN Append(g[0], a) ELSE g[0]
      OBVIOUS
    <3> QED BY <1>1, <2>1, <3>1, Appended, Zenon
  <2>4. Step(g)[2] = both
    BY <1>2, <2>1
  <2>5. \A n \in 0..2 : g[n] = Step(g)[n]
    BY <1>4, <2>1, <2>2, <2>3, <2>4, Zenon
  <2>6. g = [n \in 0..2 |-> g[n]] /\ Step(g) = [n \in 0..2 |-> Step(g)[n]]
    BY <1>3
  <2> HIDE DEF Step
  <2> QED BY <2>5, <2>6
<1>6. PICK f : f = CHOOSE h : h = Step(h)
  OBVIOUS
<1>7. f = Step(f)
  BY <1>5, <1>6
<1>8. InOrder(<<a, b>>, set) = f[2]
  BY <1>6 DEF InOrder
<1>9. f[0] = <<>>
  BY <1>7
<1>10. f[1] = first
  <2>1. f[1] = IF a \in set THEN Append(f[0], a) ELSE f[0]
    BY <1>7
  <2> QED BY <1>1, <1>9, <2>1, Appended, Zenon
<1>11. f[2] = both
  BY <1>2, <1>7, <1>10
<1>12. both = IF a \in set THEN IF b \in set THEN <<a, b>> ELSE <<a>>
              ELSE IF b \in set THEN <<b>> ELSE <<>>
  BY <1>1, <1>2, Appended, Zenon
<1> QED BY <1>8, <1>11, <1>12

\* Integers for the members of a set.
Numbers(w, set) == DOMAIN w = set /\ \A x \in set : w[x] \in Int

\* The same numbers in an order of those members.
Along(v, w, order) == DOMAIN v = 1..Len(order) /\ \A i \in DOMAIN v : v[i] = w[order[i]]

\* A sum along the order is the sum over the set.
LEMMA SumsAgree ==
    ASSUME NEW a, NEW b, a # b, NEW set, NEW order, order = InOrder(<<a, b>>, set),
           NEW w, Numbers(w, {a, b} \cap set), NEW v, Along(v, w, order)
    PROVE  SumFunction(v) = SumFunction(w)
<1>1. CASE a \in set /\ b \in set
  <2>1. order = <<a, b>> /\ {a, b} \cap set = {a, b}
    BY <1>1, OrderOfTwo
  <2>2. Len(order) = 2 /\ order[1] = a /\ order[2] = b /\ 1..2 = {1, 2} /\ 1 # 2
    BY <2>1
  <2>3. DOMAIN v = {1, 2} /\ v[1] = w[a] /\ v[2] = w[b]
    BY <2>2, Zenon DEF Along
  <2>4. DOMAIN w = {a, b} /\ w[a] \in Int /\ w[b] \in Int
    BY <2>1, Zenon DEF Numbers
  <2>5. SumFunction(v) = v[1] + v[2]
    BY <2>2, <2>3, <2>4, SumOfTwo
  <2>6. SumFunction(w) = w[a] + w[b]
    BY <2>4, SumOfTwo
  <2> QED BY <2>3, <2>5, <2>6, Zenon
<1>2. CASE a \in set /\ b \notin set
  <2>1. order = <<a>> /\ {a, b} \cap set = {a}
    BY <1>2, OrderOfTwo
  <2>2. Len(order) = 1 /\ order[1] = a /\ 1..1 = {1}
    BY <2>1
  <2>3. DOMAIN v = {1} /\ v[1] = w[a]
    BY <2>2, Zenon DEF Along
  <2>4. DOMAIN w = {a} /\ w[a] \in Int
    BY <2>1, Zenon DEF Numbers
  <2> QED BY <2>3, <2>4, SumOfOne, Zenon
<1>3. CASE a \notin set /\ b \in set
  <2>1. order = <<b>> /\ {a, b} \cap set = {b}
    BY <1>3, OrderOfTwo
  <2>2. Len(order) = 1 /\ order[1] = b /\ 1..1 = {1}
    BY <2>1
  <2>3. DOMAIN v = {1} /\ v[1] = w[b]
    BY <2>2, Zenon DEF Along
  <2>4. DOMAIN w = {b} /\ w[b] \in Int
    BY <2>1, Zenon DEF Numbers
  <2> QED BY <2>3, <2>4, SumOfOne, Zenon
<1>4. CASE a \notin set /\ b \notin set
  <2>1. order = <<>> /\ {a, b} \cap set = {}
    BY <1>4, OrderOfTwo
  <2>2. 1..Len(order) = {}
    BY <2>1
  <2>3. DOMAIN v = {} /\ DOMAIN w = {}
    BY <2>1, <2>2, Zenon DEF Along, Numbers
  <2> QED BY <2>3, SumOfNone, Zenon
<1> QED BY <1>1, <1>2, <1>3, <1>4

\* Acceptance is about the integers, and says what the outputs may be used for.
LEMMA AcceptedAddsUp == CountsAddUp
<1> SUFFICES ASSUME Accepted
             PROVE  LET outputs == ReportOutputs(Parsed(members), <<>>)
                        counts == outputs[4].value[1][2]
                    IN /\ outputs[3].value[1][1] = "int"
                       /\ \A i \in 1..Len(counts) : counts[i][2].type = "int" /\ counts[i][2].number > 0
                       /\ outputs[3].value[1][2] = SumFunction([i \in 1..Len(counts) |-> counts[i][2].number])
  BY DEF CountsAddUp
<1>1. PICK report : report = Parsed(members)
  OBVIOUS
<1>2. /\ Bounded(report["finding_count"])
      /\ \A state \in Counted(report) : Positive(report[state])
      /\ StateTotal(report) = report["finding_count"].number
  BY <1>1 DEF Accepted, Valid
<1>3. PICK a, b : a = "resolved" /\ b = "exploitable"
  OBVIOUS
<1>4. a # b /\ AnalysisStates = <<a, b>>
  BY <1>3 DEF AnalysisStates
<1>5. Counted(report) = {a, b} \cap DOMAIN report
  <2>1. States = {a, b}
    <3>1. Len(<<a, b>>) = 2 /\ 1..2 = {1, 2} /\ <<a, b>>[1] = a /\ <<a, b>>[2] = b
      OBVIOUS
    <3>2. States = {<<a, b>>[i] : i \in {1, 2}}
      BY <1>4, <3>1, Zenon DEF States
    <3> QED BY <3>1, <3>2
  <2> QED BY <2>1 DEF Counted
<1>6. PICK present : present = InOrder(<<a, b>>, DOMAIN report)
  OBVIOUS
<1>7. PICK counts : counts = [i \in 1..Len(present) |-> <<present[i], report[present[i]]>>]
  OBVIOUS
<1>8. StateCounts(report) = counts
  BY <1>4, <1>6, <1>7, Zenon DEF StateCounts
<1>9. Len(present) \in Nat /\ \A i \in 1..Len(present) : present[i] \in Counted(report)
  <2>1. /\ Len(<<a, b>>) = 2 /\ Len(<<a>>) = 1 /\ Len(<<b>>) = 1 /\ Len(<<>>) = 0
        /\ <<a, b>>[1] = a /\ <<a, b>>[2] = b /\ <<a>>[1] = a /\ <<b>>[1] = b
    OBVIOUS
  <2>2. \A i \in 1..2 : i = 1 \/ i = 2
    OBVIOUS
  <2>3. 1..0 = {} /\ 1..1 = {1}
    OBVIOUS
  <2>4. present = IF a \in DOMAIN report THEN IF b \in DOMAIN report THEN <<a, b>> ELSE <<a>>
                  ELSE IF b \in DOMAIN report THEN <<b>> ELSE <<>>
    BY <1>6, OrderOfTwo, Zenon
  <2>5. 0 \in Nat /\ 1 \in Nat /\ 2 \in Nat
    OBVIOUS
  <2>6. \A x : x \in Counted(report) <=> x \in DOMAIN report /\ (x = a \/ x = b)
    BY <1>5
  <2>7. CASE a \in DOMAIN report /\ b \in DOMAIN report
    BY <2>1, <2>2, <2>4, <2>5, <2>6, <2>7, Zenon
  <2>8. CASE a \in DOMAIN report /\ b \notin DOMAIN report
    BY <2>1, <2>3, <2>4, <2>5, <2>6, <2>8, Zenon
  <2>9. CASE a \notin DOMAIN report /\ b \in DOMAIN report
    BY <2>1, <2>3, <2>4, <2>5, <2>6, <2>9, Zenon
  <2>10. CASE a \notin DOMAIN report /\ b \notin DOMAIN report
    BY <2>1, <2>3, <2>4, <2>5, <2>6, <2>10, Zenon
  <2> QED BY <2>7, <2>8, <2>9, <2>10
<1>10. Len(counts) = Len(present)
       /\ \A i \in 1..Len(present) : counts[i][2] = report[present[i]]
  BY <1>7, <1>9
<1>11. \A state \in Counted(report) : /\ report[state].type = "int" /\ report[state].number \in Int
                                      /\ report[state].number > 0
  BY <1>2, ReportAssumption DEF Positive, Bounded
<1>12. \A i \in 1..Len(counts) : counts[i][2].type = "int" /\ counts[i][2].number > 0
  <2> TAKE i \in 1..Len(counts)
  <2>1. i \in 1..Len(present)
    BY <1>10, Zenon
  <2>2. counts[i][2] = report[present[i]] /\ present[i] \in Counted(report)
    BY <1>9, <1>10, <2>1, Zenon
  <2> QED BY <1>11, <2>2, Zenon
<1>13. SumFunction([i \in 1..Len(counts) |-> counts[i][2].number]) = StateTotal(report)
  <2>1. PICK set, v, w :
            /\ set = DOMAIN report
            /\ w = [state \in Counted(report) |-> report[state].number]
            /\ v = [i \in 1..Len(counts) |-> counts[i][2].number]
    OBVIOUS
  <2>2. Numbers(w, {a, b} \cap set)
    BY <1>5, <1>11, <2>1 DEF Numbers
  <2>3. Along(v, w, present)
    BY <1>9, <1>10, <2>1 DEF Along
  <2>4. SumFunction(v) = SumFunction(w)
    <3>1. a # b /\ present = InOrder(<<a, b>>, set)
      BY <1>4, <1>6, <2>1
    <3> QED BY <2>2, <2>3, <3>1, SumsAgree
  <2> QED BY <2>1, <2>4, Zenon DEF StateTotal
<1>14. PICK outputs : outputs = ReportOutputs(report, <<>>)
  OBVIOUS
<1>15. outputs[3].value[1] = Str(report["finding_count"])
       /\ outputs[4].value[1] = <<"json", counts>>
  <2>1. ASSUME NEW p, NEW q, NEW r, NEW t
        PROVE  <<p, q, r, t>>[3] = r /\ <<p, q, r, t>>[4] = t
    OBVIOUS
  <2>2. ASSUME NEW x, NEW y
        PROVE  [name |-> x, value |-> <<y>>].value[1] = y
    OBVIOUS
  <2> QED BY <1>8, <1>14, <2>1, <2>2, Zenon DEF ReportOutputs
<1>16. outputs[4].value[1][2] = counts
  BY <1>15
<1>17. /\ outputs[3].value[1][1] = "int"
       /\ outputs[3].value[1][2] = report["finding_count"].number
  BY <1>2, <1>15 DEF Str, Bounded
<1> QED BY <1>1, <1>2, <1>12, <1>13, <1>14, <1>16, <1>17, Zenon

\* OutputsAreTheReport for reports of any number of members and any counts: what validate_report
\* accepts has one reading, and the counts that are published add up.
THEOREM OutputsStayTheReport == ReportSpec => []OutputsAreTheReport
<1>1. FileIsTheOutput
  <2> SUFFICES ASSUME Accepted
               PROVE  compact /\ ReportOutputs(Parsed(members), <<>>)[1].value = <<<<"json", members>>>>
    BY DEF FileIsTheOutput
  <2>1. compact /\ members = CanonicalMembers(Parsed(members))
    BY DEF Accepted, Valid, Canonical
  <2>2. ASSUME NEW p, NEW q, NEW r, NEW t
        PROVE  <<p, q, r, t>>[1] = p
    OBVIOUS
  <2>3. ASSUME NEW x, NEW y
        PROVE  [name |-> x, value |-> y].value = y
    OBVIOUS
  <2>4. ReportOutputs(Parsed(members), <<>>)[1].value = <<<<"json", CanonicalMembers(Parsed(members))>>>>
    BY <2>2, <2>3, Zenon DEF ReportOutputs
  <2> QED BY <2>1, <2>4, Zenon
<1>2. OutputsAreTheReport
  BY <1>1, AcceptedAddsUp DEF OutputsAreTheReport
<1> QED BY <1>2, PTL

-----------------------------------------------------------------------------
(* The runner's reading *)

\* What the runner reads from line i on, when rest says what it reads from later lines.
ReadFrom(lines, rest, i) ==
    IF i > Len(lines) THEN <<>>
    ELSE IF lines[i][1] # "open" \/ Ending(lines, i) = 0
    THEN <<[name |-> "invalid", value |-> <<>>]>>
    ELSE <<[name |-> lines[i][2], value |-> SubSeq(lines, i + 1, Ending(lines, i) - 1)]>>
         \o rest[Ending(lines, i) + 1]

\* The end of a value is the first later line that is the delimiter.
LEMMA EndingIs ==
    ASSUME NEW lines, Len(lines) \in Nat, NEW i \in 1..Len(lines)
    PROVE  /\ Ending(lines, i) = 0 \/ Ending(lines, i) \in i + 1..Len(lines)
           /\ \A e \in i + 1..Len(lines) :
                  /\ lines[e] = lines[i][3]
                  /\ \A j \in i + 1..e - 1 : lines[j] # lines[i][3]
                  => Ending(lines, i) = e
<1> DEFINE I == {j \in i + 1..Len(lines) : lines[j] = lines[i][3]}
<1>1. Ending(lines, i) = IF I # {} THEN Min(I) ELSE 0
  BY DEF Ending, SelectInSubSeq
<1>2. I \in SUBSET Nat /\ \A j \in I : j \in i + 1..Len(lines) /\ lines[j] = lines[i][3]
  OBVIOUS
<1>3. ASSUME NEW e \in i + 1..Len(lines), lines[e] = lines[i][3],
             \A j \in i + 1..e - 1 : lines[j] # lines[i][3]
      PROVE  Ending(lines, i) = e
  <2>1. e \in I
    BY <1>3
  <2> HIDE DEF I
  <2>2. Min(I) \in I /\ Min(I) <= e
    BY <1>2, <2>1, FirstIs
  <2>3. ~(Min(I) \in i + 1..e - 1) /\ Min(I) \in i + 1..Len(lines)
    BY <1>2, <1>3, <2>2, Zenon
  <2>4. Min(I) = e
    BY <2>2, <2>3
  <2> QED BY <1>1, <2>1, <2>4
<1>4. Ending(lines, i) = 0 \/ Ending(lines, i) \in i + 1..Len(lines)
  <2> HIDE DEF I
  <2>1. I # {} => Min(I) \in I
    BY <1>2, FirstIs
  <2> QED BY <1>1, <1>2, <2>1
<1> QED BY <1>3, <1>4

\* So the runner has one reading of the lines.
LEMMA OutputsAreRead ==
    ASSUME NEW lines, Len(lines) \in Nat
    PROVE  \E read : /\ Outputs(lines) = read[1]
                     /\ \A i \in 1..Len(lines) + 1 : read[i] = ReadFrom(lines, read, i)
<1> DEFINE L == Len(lines) + 1
           Over(i) == i > Len(lines)
           Stops(i) == Over(i) \/ lines[i][1] # "open" \/ Ending(lines, i) = 0
           Given(i) == IF Over(i) THEN <<>>
                       ELSE IF lines[i][1] # "open" \/ Ending(lines, i) = 0
                       THEN <<[name |-> "invalid", value |-> <<>>]>>
                       ELSE <<[name |-> lines[i][2], value |-> SubSeq(lines, i + 1, Ending(lines, i) - 1)]>>
           Reads(p) == p = [i \in 1..L |-> ReadFrom(lines, p, i)]
<1>1. PICK head, next : /\ head = [i \in 1..L |-> Given(i)]
                        /\ next = [i \in 1..L |-> IF Stops(i) THEN 0 ELSE Ending(lines, i) + 1]
  OBVIOUS
<1>2. \A i \in 1..L : next[i] = 0 \/ next[i] \in i + 1..L
  <2> TAKE i \in 1..L
  <2>1. CASE Stops(i)
    BY <1>1, <2>1
  <2>2. CASE ~Stops(i)
    <3>1. i \in 1..Len(lines)
      BY <2>2
    <3>2. Ending(lines, i) \in i + 1..Len(lines)
      BY <2>2, <3>1, EndingIs
    <3>3. next[i] = Ending(lines, i) + 1
      BY <1>1, <2>2
    <3> QED BY <3>1, <3>2, <3>3
  <2> QED BY <2>1, <2>2
<1>3. ASSUME NEW p, NEW i \in 1..L
      PROVE  Reading(head, next, p, i) = ReadFrom(lines, p, i)
  <2>1. head[i] = Given(i)
    BY <1>1
  <2>2. CASE Stops(i)
    <3>1. next[i] = 0
      BY <1>1, <2>2
    <3> QED BY <2>1, <2>2, <3>1, Zenon DEF Reading, ReadFrom
  <2>3. CASE ~Stops(i)
    <3>1. next[i] = Ending(lines, i) + 1
      BY <1>1, <2>3
    <3>2. i \in 1..Len(lines)
      BY <2>3
    <3>3. Ending(lines, i) \in i + 1..Len(lines)
      BY <2>3, <3>2, EndingIs
    <3>4. next[i] # 0
      BY <3>1, <3>2, <3>3
    <3> QED BY <2>1, <2>3, <3>1, <3>4, Zenon DEF Reading, ReadFrom
  <2> QED BY <2>2, <2>3
<1>4. L \in Nat
  OBVIOUS
<1>5. PICK p : p = [i \in 1..L |-> Reading(head, next, p, i)]
  BY <1>2, <1>4, ReadingExists, Zenon
<1>6. Reads(p)
  <2> HIDE DEF L
  <2>1. [i \in 1..L |-> Reading(head, next, p, i)] = [i \in 1..L |-> ReadFrom(lines, p, i)]
    BY <1>3
  <2> QED BY <1>5, <2>1, Zenon
<1>7. Outputs(lines) = (CHOOSE q : Reads(q))[1]
  BY Zenon DEF Outputs, ReadFrom
<1>8. PICK read : read = CHOOSE q : Reads(q)
  OBVIOUS
<1>9. Reads(read)
  <2> HIDE DEF Reads
  <2> QED BY <1>6, <1>8
<1>10. \A i \in 1..L : read[i] = ReadFrom(lines, read, i)
  <2> HIDE DEF L
  <2>1. PICK body : body = [i \in 1..L |-> ReadFrom(lines, read, i)]
    OBVIOUS
  <2>2. \A i \in 1..L : body[i] = ReadFrom(lines, read, i)
    BY <2>1
  <2> QED BY <1>9, <2>1, <2>2, Zenon
<1> QED BY <1>7, <1>8, <1>10, Zenon

\* A part of a text, after its first q lines.
Placed(lines, q, part) ==
    q + Len(part) <= Len(lines) /\ \A j \in 1..Len(part) : lines[q + j] = part[j]

\* Where the parts of a concatenation are.
LEMMA PartsPlaced ==
    ASSUME NEW S, NEW s \in Seq(S), NEW t \in Seq(S)
    PROVE  /\ Placed(s \o t, 0, s) /\ Placed(s \o t, Len(s), t)
           /\ \A q \in Nat, part \in Seq(S) : Placed(s, q, part) => Placed(s \o t, q, part)
<1>1. PICK st : st = s \o t
  OBVIOUS
<1>2. IsJoin(s, t, st)
  BY <1>1, Joined
<1>3. Placed(st, 0, s)
  BY <1>2 DEF IsJoin, Placed
<1>4. Placed(st, Len(s), t)
  BY <1>2 DEF IsJoin, Placed
<1>5. ASSUME NEW q \in Nat, NEW part \in Seq(S), Placed(s, q, part)
      PROVE  Placed(st, q, part)
  <2>1. Len(part) \in Nat /\ Len(s) \in Nat /\ q + Len(part) <= Len(s)
    BY <1>5 DEF Placed
  <2>2. \A j \in 1..Len(part) : q + j \in 1..Len(s)
    BY <2>1
  <2>3. \A j \in 1..Len(part) : st[q + j] = part[j]
    BY <1>2, <1>5, <2>2, Zenon DEF IsJoin, Placed
  <2>4. q + Len(part) <= Len(st)
    BY <1>2, <2>1 DEF IsJoin
  <2> QED BY <2>3, <2>4 DEF Placed
<1> QED BY <1>1, <1>3, <1>4, <1>5, Zenon

\* The lines of a record are in S.
LinesIn(S, output, d) ==
    output.value \in Seq(S) /\ d \in S /\ <<"open", output.name, d>> \in S

\* A record: the opening line, the value, the delimiter.
LEMMA RecordIs ==
    ASSUME NEW S, NEW output, NEW d, LinesIn(S, output, d)
    PROVE  /\ Record(output, d) \in Seq(S)
           /\ Len(Record(output, d)) = Len(output.value) + 2
           /\ Record(output, d)[1] = <<"open", output.name, d>>
           /\ \A j \in 1..Len(output.value) : Record(output, d)[1 + j] = output.value[j]
           /\ Record(output, d)[Len(output.value) + 2] = d
<1>1. PICK v, line, open, ov, close, r :
        /\ v = output.value /\ line = <<"open", output.name, d>> /\ open = <<line>>
        /\ ov = open \o v /\ close = <<d>> /\ r = ov \o close
  OBVIOUS
<1>2. Record(output, d) = r
  BY <1>1, Zenon DEF Record
<1>3. v \in Seq(S) /\ d \in S /\ line \in S
  BY <1>1, Zenon DEF LinesIn
<1>4. open \in Seq(S) /\ Len(open) = 1 /\ open[1] = line
  BY <1>1, <1>3
<1>5. close \in Seq(S) /\ Len(close) = 1 /\ close[1] = d
  BY <1>1, <1>3
<1>6. ov \in Seq(S) /\ IsJoin(open, v, ov)
  BY <1>1, <1>4, <1>3, Joined
<1>7. r \in Seq(S) /\ IsJoin(ov, close, r)
  BY <1>1, <1>5, <1>6, Joined
<1>8. Len(v) \in Nat /\ Len(ov) = 1 + Len(v) /\ Len(r) = Len(v) + 2
  BY <1>4, <1>5, <1>6, <1>7 DEF IsJoin
<1>9. ov[1] = line /\ \A j \in 1..Len(v) : ov[1 + j] = v[j]
  BY <1>4, <1>6 DEF IsJoin
<1>10. r[1] = line /\ \A j \in 1..Len(v) : r[1 + j] = v[j]
  <2>1. 1 \in 1..Len(ov) /\ \A j \in 1..Len(v) : 1 + j \in 1..Len(ov)
    BY <1>8
  <2> QED BY <1>7, <1>9, <2>1, Zenon DEF IsJoin
<1>11. r[Len(v) + 2] = d
  <2>1. 1 \in 1..Len(close) /\ Len(ov) + 1 = Len(v) + 2
    BY <1>5, <1>8
  <2> QED BY <1>5, <1>7, <2>1, Zenon DEF IsJoin
<1> QED BY <1>1, <1>2, <1>7, <1>8, <1>10, <1>11, Zenon

\* After the first q lines there is a record of the output, with a delimiter d that may
\* delimit it.
HasRecord(S, lines, q, output, d) ==
    /\ lines \in Seq(S) /\ q \in Nat /\ LinesIn(S, output, d)
    /\ MayDelimit(d, output.value) /\ Placed(lines, q, Record(output, d))

\* What is read after the first q lines is the output of such a record, and what follows.
TakesRecord(lines, rest, q, output, d) ==
    /\ q + 1 \in 1..Len(lines) + 1
    /\ ReadFrom(lines, rest, q + 1) =
           <<[name |-> output.name, value |-> output.value]>>
           \o rest[q + Len(Record(output, d)) + 1]

\* A record is read back, wherever it is, if its delimiter is not in its value.
LEMMA RecordIsRead ==
    ASSUME NEW S, NEW lines, NEW output, NEW d, NEW q, NEW rest,
           HasRecord(S, lines, q, output, d)
    PROVE  TakesRecord(lines, rest, q, output, d)
<1>1. /\ lines \in Seq(S) /\ q \in Nat /\ LinesIn(S, output, d)
      /\ MayDelimit(d, output.value) /\ Placed(lines, q, Record(output, d))
  BY Zenon DEF HasRecord
<1>2. PICK v, n, r, line :
        /\ v = output.value /\ n = Len(v) /\ r = Record(output, d)
        /\ line = <<"open", output.name, d>>
  OBVIOUS
<1>3. v \in Seq(S) /\ n \in Nat /\ Len(lines) \in Nat
  <2>1. v \in Seq(S)
    BY <1>1, <1>2, Zenon DEF LinesIn
  <2> QED BY <1>1, <1>2, <2>1
<1>4. /\ Len(r) = n + 2 /\ r[1] = line /\ r[n + 2] = d
      /\ \A j \in 1..n : r[1 + j] = v[j]
  <2>1. /\ Len(Record(output, d)) = Len(output.value) + 2
        /\ Record(output, d)[1] = <<"open", output.name, d>>
        /\ \A j \in 1..Len(output.value) : Record(output, d)[1 + j] = output.value[j]
        /\ Record(output, d)[Len(output.value) + 2] = d
    BY <1>1, RecordIs
  <2> QED BY <1>2, <2>1, Zenon
<1>5. q + (n + 2) <= Len(lines) /\ \A j \in 1..n + 2 : lines[q + j] = r[j]
  BY <1>1, <1>2, <1>4, Zenon DEF Placed
<1>6. lines[q + 1] = line
  <2>1. 1 \in 1..n + 2
    BY <1>1, <1>3
  <2> QED BY <1>4, <1>5, <2>1, Zenon
<1>7. lines[q + (n + 2)] = d
  <2>1. n + 2 \in 1..n + 2
    BY <1>1, <1>3
  <2> QED BY <1>4, <1>5, <2>1, Zenon
<1>8. \A j \in 1..n : lines[q + (1 + j)] = v[j]
  <2>1. \A j \in 1..n : 1 + j \in 1..n + 2
    BY <1>1, <1>3
  <2> QED BY <1>4, <1>5, <2>1, Zenon
<1>9. line[1] = "open" /\ line[2] = output.name /\ line[3] = d
  BY <1>2
<1>10. q + 1 \in 1..Len(lines) /\ q + (n + 2) \in q + 1 + 1..Len(lines)
  BY <1>1, <1>3, <1>5
<1>11. \A j \in q + 1 + 1..(q + (n + 2)) - 1 : lines[j] # d
  <2> TAKE j \in q + 1 + 1..(q + (n + 2)) - 1
  <2>1. j - (q + 1) \in 1..n /\ q + (1 + (j - (q + 1))) = j
    BY <1>1, <1>3
  <2>2. lines[j] = v[j - (q + 1)]
    BY <1>8, <2>1, Zenon
  <2>3. v[j - (q + 1)] # d
    <3>1. ~Contains(v, d)
      BY <1>1, <1>2, Zenon DEF MayDelimit
    <3> QED BY <1>2, <2>1, <3>1, Zenon DEF Contains
  <2> QED BY <2>2, <2>3
<1>12. Ending(lines, q + 1) = q + (n + 2)
  <2>1. \A e \in q + 1 + 1..Len(lines) :
            /\ lines[e] = lines[q + 1][3]
            /\ \A j \in q + 1 + 1..e - 1 : lines[j] # lines[q + 1][3]
            => Ending(lines, q + 1) = e
    BY <1>1, <1>3, <1>10, EndingIs
  <2>2. lines[q + 1][3] = d
    BY <1>6, <1>9, Zenon
  <2>3. lines[q + (n + 2)] = lines[q + 1][3]
    BY <1>7, <2>2, Zenon
  <2>4. \A j \in q + 1 + 1..(q + (n + 2)) - 1 : lines[j] # lines[q + 1][3]
    BY <1>11, <2>2, Zenon
  <2> QED BY <1>10, <2>1, <2>3, <2>4, Zenon
<1>13. PICK from, to, value : from = q + 2 /\ to = q + (n + 1) /\ value = SubSeq(lines, from, to)
  OBVIOUS
<1>14. value = v
  <2>1. from \in Int /\ to \in Int /\ \A i \in from..to : i \in 1..Len(lines)
    BY <1>1, <1>3, <1>5, <1>13
  <2>2. \A i \in from..to : lines[i] \in S
    BY <1>1, <2>1, ElementOfSeq
  <2>3. /\ value \in Seq(S)
        /\ Len(value) = IF from <= to THEN to - from + 1 ELSE 0
        /\ \A i \in 1..to - from + 1 : value[i] = lines[from + i - 1]
    BY <1>1, <1>13, <2>1, <2>2, SubSeqProperties
  <2>4. to - from + 1 = n /\ \A i \in 1..n : from + i - 1 = q + (1 + i)
    BY <1>1, <1>3, <1>13
  <2>5. Len(value) = n
    BY <1>1, <1>3, <2>1, <2>3, <2>4
  <2>6. \A i \in 1..n : value[i] = v[i]
    BY <1>8, <2>3, <2>4, Zenon
  <2>7. Len(v) = n
    BY <1>2
  <2> QED BY <1>1, <1>3, <2>3, <2>5, <2>6, <2>7, SeqEqual
<1>15. /\ ~(q + 1 > Len(lines)) /\ q + (n + 2) # 0 /\ q + 1 + 1 = q + 2
       /\ (q + (n + 2)) - 1 = q + (n + 1) /\ q + 1 \in 1..Len(lines) + 1
  BY <1>1, <1>3, <1>10
<1>16. ReadFrom(lines, rest, q + 1) =
          <<[name |-> output.name, value |-> v]>> \o rest[q + (n + 2) + 1]
  <2>1. lines[q + 1][1] = "open" /\ lines[q + 1][2] = output.name
    BY <1>6, <1>9, Zenon
  <2>2. SubSeq(lines, q + 1 + 1, Ending(lines, q + 1) - 1) = v
    <3>1. Ending(lines, q + 1) - 1 = q + (n + 1)
      BY <1>12, <1>15, Zenon
    <3> QED BY <1>13, <1>14, <1>15, <3>1, Zenon
  <2>3. Ending(lines, q + 1) # 0
    BY <1>12, <1>15, Zenon
  <2>4. ReadFrom(lines, rest, q + 1) =
            <<[name |-> lines[q + 1][2],
               value |-> SubSeq(lines, q + 1 + 1, Ending(lines, q + 1) - 1)]>>
            \o rest[Ending(lines, q + 1) + 1]
    BY <1>15, <2>1, <2>3, Zenon DEF ReadFrom
  <2> QED BY <1>12, <2>1, <2>2, <2>4, Zenon
<1> QED BY <1>2, <1>4, <1>15, <1>16, Zenon DEF TakesRecord

\* The runner's reading of the lines, from each of them.
IsReading(lines, read) == \A i \in 1..Len(lines) + 1 : read[i] = ReadFrom(lines, read, i)

\* After the first q lines the reading has one output, and what it has after the record.
Takes(read, q, output, d) ==
    read[q + 1] = <<[name |-> output.name, value |-> output.value]>>
                  \o read[q + Len(Record(output, d)) + 1]

\* The reading takes one output from a record and goes on after it.
LEMMA NextRecord ==
    ASSUME NEW S, NEW lines, NEW output, NEW d, NEW q, NEW read,
           HasRecord(S, lines, q, output, d), IsReading(lines, read)
    PROVE  Takes(read, q, output, d)
<1>1. TakesRecord(lines, read, q, output, d)
  BY RecordIsRead, Zenon
<1>2. read[q + 1] = ReadFrom(lines, read, q + 1)
  BY <1>1, Zenon DEF IsReading, TakesRecord
<1> QED BY <1>1, <1>2, Zenon DEF Takes, TakesRecord

\* Each of four outputs has a delimiter that may delimit it.
Readable(S, outputs, drawn) ==
    \A i \in 1..4 : LinesIn(S, outputs[i], drawn[i]) /\ MayDelimit(drawn[i], outputs[i].value)

\* One record after the other is read back, up to the end of the file.
LEMMA RecordsAreRead ==
    ASSUME NEW S, NEW outputs, Len(outputs) = 4, NEW drawn, Readable(S, outputs, drawn)
    PROVE  Outputs(FlattenSeq([i \in 1..Len(outputs) |-> Record(outputs[i], drawn[i])])) =
               <<[name |-> outputs[1].name, value |-> outputs[1].value],
                 [name |-> outputs[2].name, value |-> outputs[2].value],
                 [name |-> outputs[3].name, value |-> outputs[3].value],
                 [name |-> outputs[4].name, value |-> outputs[4].value]>>
<1>1. PICK seqs : seqs = [i \in 1..Len(outputs) |-> Record(outputs[i], drawn[i])]
  OBVIOUS
<1>2. 1 \in 1..4 /\ 2 \in 1..4 /\ 3 \in 1..4 /\ 4 \in 1..4
  OBVIOUS
<1>3. PICK a, b, c, d, ab, abc, lines :
        /\ a = seqs[1] /\ b = seqs[2] /\ c = seqs[3] /\ d = seqs[4]
        /\ ab = a \o b /\ abc = ab \o c /\ lines = abc \o d
  OBVIOUS
<1>4. Len(seqs) = 4 /\ \A i \in 1..4 : seqs[i] = Record(outputs[i], drawn[i])
  BY <1>1
<1>5. /\ a = Record(outputs[1], drawn[1]) /\ b = Record(outputs[2], drawn[2])
      /\ c = Record(outputs[3], drawn[3]) /\ d = Record(outputs[4], drawn[4])
  BY <1>2, <1>3, <1>4, Zenon
<1>6. FlattenSeq(seqs) = lines
  BY <1>3, <1>4, FlattenOfFour, Zenon
<1>7. /\ LinesIn(S, outputs[1], drawn[1]) /\ LinesIn(S, outputs[2], drawn[2])
      /\ LinesIn(S, outputs[3], drawn[3]) /\ LinesIn(S, outputs[4], drawn[4])
  BY <1>2, Zenon DEF Readable
<1>8. /\ MayDelimit(drawn[1], outputs[1].value) /\ MayDelimit(drawn[2], outputs[2].value)
      /\ MayDelimit(drawn[3], outputs[3].value) /\ MayDelimit(drawn[4], outputs[4].value)
  BY <1>2, Zenon DEF Readable
<1>9. a \in Seq(S) /\ b \in Seq(S) /\ c \in Seq(S) /\ d \in Seq(S)
  BY <1>5, <1>7, RecordIs
<1>10. ab \in Seq(S) /\ IsJoin(a, b, ab)
  BY <1>3, <1>9, Joined
<1>11. abc \in Seq(S) /\ IsJoin(ab, c, abc)
  BY <1>3, <1>9, <1>10, Joined
<1>12. lines \in Seq(S) /\ IsJoin(abc, d, lines)
  BY <1>3, <1>9, <1>11, Joined
<1>13. /\ Len(a) \in Nat /\ Len(ab) \in Nat /\ Len(abc) \in Nat /\ Len(lines) \in Nat
       /\ 0 \in Nat /\ 0 + Len(a) = Len(a)
       /\ Len(a) + Len(b) = Len(ab) /\ Len(ab) + Len(c) = Len(abc) /\ Len(abc) + Len(d) = Len(lines)
  BY <1>10, <1>11, <1>12 DEF IsJoin
<1>14. Placed(ab, 0, a) /\ Placed(ab, Len(a), b)
  BY <1>3, <1>9, PartsPlaced
<1>15. Placed(abc, 0, a) /\ Placed(abc, Len(a), b) /\ Placed(abc, Len(ab), c)
  BY <1>3, <1>9, <1>10, <1>13, <1>14, PartsPlaced
<1>16. /\ Placed(lines, 0, a) /\ Placed(lines, Len(a), b) /\ Placed(lines, Len(ab), c)
       /\ Placed(lines, Len(abc), d)
  BY <1>3, <1>9, <1>11, <1>13, <1>15, PartsPlaced
<1>17. PICK read : Outputs(lines) = read[1] /\ IsReading(lines, read)
  BY <1>13, OutputsAreRead DEF IsReading
<1>18. PICK p, q, r, t : /\ p = [name |-> outputs[1].name, value |-> outputs[1].value]
                         /\ q = [name |-> outputs[2].name, value |-> outputs[2].value]
                         /\ r = [name |-> outputs[3].name, value |-> outputs[3].value]
                         /\ t = [name |-> outputs[4].name, value |-> outputs[4].value]
  OBVIOUS
<1>19. read[1] = <<p>> \o read[Len(a) + 1]
  <2>1. HasRecord(S, lines, 0, outputs[1], drawn[1])
    BY <1>5, <1>7, <1>8, <1>12, <1>13, <1>16, Zenon DEF HasRecord
  <2>2. Takes(read, 0, outputs[1], drawn[1])
    BY <1>17, <2>1, NextRecord, Zenon
  <2>3. 0 + 1 = 1
    OBVIOUS
  <2> QED BY <1>5, <1>13, <1>18, <2>2, <2>3, Zenon DEF Takes
<1>20. read[Len(a) + 1] = <<q>> \o read[Len(ab) + 1]
  <2>1. HasRecord(S, lines, Len(a), outputs[2], drawn[2])
    BY <1>5, <1>7, <1>8, <1>12, <1>13, <1>16, Zenon DEF HasRecord
  <2>2. Takes(read, Len(a), outputs[2], drawn[2])
    BY <1>17, <2>1, NextRecord, Zenon
  <2> QED BY <1>5, <1>13, <1>18, <2>2, Zenon DEF Takes
<1>21. read[Len(ab) + 1] = <<r>> \o read[Len(abc) + 1]
  <2>1. HasRecord(S, lines, Len(ab), outputs[3], drawn[3])
    BY <1>5, <1>7, <1>8, <1>12, <1>13, <1>16, Zenon DEF HasRecord
  <2>2. Takes(read, Len(ab), outputs[3], drawn[3])
    BY <1>17, <2>1, NextRecord, Zenon
  <2> QED BY <1>5, <1>13, <1>18, <2>2, Zenon DEF Takes
<1>22. read[Len(abc) + 1] = <<t>> \o read[Len(lines) + 1]
  <2>1. HasRecord(S, lines, Len(abc), outputs[4], drawn[4])
    BY <1>5, <1>7, <1>8, <1>12, <1>13, <1>16, Zenon DEF HasRecord
  <2>2. Takes(read, Len(abc), outputs[4], drawn[4])
    BY <1>17, <2>1, NextRecord, Zenon
  <2> QED BY <1>5, <1>13, <1>18, <2>2, Zenon DEF Takes
<1>23. read[Len(lines) + 1] = <<>>
  <2>1. Len(lines) + 1 \in 1..Len(lines) + 1 /\ Len(lines) + 1 > Len(lines)
    BY <1>13
  <2>2. ReadFrom(lines, read, Len(lines) + 1) = <<>>
    BY <2>1, Zenon DEF ReadFrom
  <2> QED BY <1>17, <2>1, <2>2, Zenon DEF IsReading
<1>24. read[Len(abc) + 1] = <<t>>
  <2>1. read[Len(abc) + 1] = <<t>> \o <<>>
    BY <1>22, <1>23, Zenon
  <2>2. <<t>> \in Seq({t})
    OBVIOUS
  <2> QED BY <2>1, <2>2, ConcatEmptySeq
<1>25. read[Len(ab) + 1] = <<r, t>>
  BY <1>21, <1>24, Parts2, Zenon
<1>26. read[Len(a) + 1] = <<q, r, t>>
  BY <1>20, <1>25, Parts3, Zenon
<1>27. read[1] = <<p, q, r, t>>
  BY <1>19, <1>26, Parts4, Zenon
<1> QED BY <1>1, <1>6, <1>17, <1>18, <1>27, Zenon

\* Whatever was published, the runner reads it back.
LEMMA PublishedIsRead == RunnerReadsOutputs
<1> SUFFICES ASSUME NEW path \in {<<<<"dir">>>>} \cup {<<d, <<"dir">>>> : d \in Delimiters},
                    NEW outputs, outputs = ReportOutputs(Parsed(members), path),
                    NEW drawn \in [1..Len(outputs) -> Delimiters],
                    \A i \in 1..Len(outputs) : MayDelimit(drawn[i], outputs[i].value)
             PROVE  Outputs(FlattenSeq([i \in 1..Len(outputs) |-> Record(outputs[i], drawn[i])]))
                        = outputs
  BY Zenon DEF RunnerReadsOutputs
<1>1. PICK json, count, counts :
        /\ json = <<"json", CanonicalMembers(Parsed(members))>>
        /\ count = Str(Parsed(members)["finding_count"])
        /\ counts = <<"json", StateCounts(Parsed(members))>>
  OBVIOUS
<1>2. outputs = <<[name |-> "execution-report", value |-> <<json>>],
                  [name |-> "execution-report-path", value |-> path],
                  [name |-> "finding-count", value |-> <<count>>],
                  [name |-> "analysis-state-counts", value |-> <<counts>>]>>
  BY <1>1, Zenon DEF ReportOutputs
<1>3. PICK T : T = Delimiters \cup {<<"dir">>, json, count, counts}
  OBVIOUS
<1>4. PICK S : /\ T \subseteq S
               /\ \A name \in {"execution-report", "execution-report-path", "finding-count",
                               "analysis-state-counts"}, d \in Delimiters :
                      <<"open", name, d>> \in S
  <2> DEFINE Names == {"execution-report", "execution-report-path", "finding-count",
                       "analysis-state-counts"}
             Opening == {"open"} \X Names \X Delimiters
  <2>1. \A name \in Names, d \in Delimiters : <<"open", name, d>> \in Opening
    OBVIOUS
  <2> HIDE DEF Opening
  <2>2. T \subseteq T \cup Opening /\ Opening \subseteq T \cup Opening
    OBVIOUS
  <2> QED BY <2>1, <2>2, Zenon
<1>5. path \in Seq(S)
  <2>1. CASE path = <<<<"dir">>>>
    <3>1. <<"dir">> \in S
      BY <1>3, <1>4
    <3> QED BY <2>1, <3>1
  <2>2. ASSUME NEW d \in Delimiters, path = <<d, <<"dir">>>>
        PROVE  path \in Seq(S)
    <3>1. <<"dir">> \in S /\ d \in S
      BY <1>3, <1>4
    <3> QED BY <2>2, <3>1
  <2> QED BY <2>1, <2>2
<1>6. <<json>> \in Seq(S) /\ <<count>> \in Seq(S) /\ <<counts>> \in Seq(S)
  <2>1. json \in S /\ count \in S /\ counts \in S
    BY <1>3, <1>4
  <2> QED BY <2>1
<1>7. Len(outputs) = 4
  BY <1>2
<1>8. /\ outputs[1].value = <<json>> /\ outputs[2].value = path
      /\ outputs[3].value = <<count>> /\ outputs[4].value = <<counts>>
  BY <1>2
<1>9. /\ outputs[1].name = "execution-report" /\ outputs[2].name = "execution-report-path"
      /\ outputs[3].name = "finding-count" /\ outputs[4].name = "analysis-state-counts"
  BY <1>2
<1>10. ASSUME NEW i \in 1..4
       PROVE  LinesIn(S, outputs[i], drawn[i]) /\ MayDelimit(drawn[i], outputs[i].value)
  <2>1. drawn[i] \in Delimiters /\ MayDelimit(drawn[i], outputs[i].value)
    BY <1>7
  <2>2. i = 1 \/ i = 2 \/ i = 3 \/ i = 4
    OBVIOUS
  <2>3. outputs[i].value \in Seq(S)
    BY <1>5, <1>6, <1>8, <2>2, Zenon
  <2>4. outputs[i].name \in {"execution-report", "execution-report-path", "finding-count",
                             "analysis-state-counts"}
    BY <1>9, <2>2, Zenon
  <2>5. drawn[i] \in S
    BY <1>3, <1>4, <2>1
  <2>6. <<"open", outputs[i].name, drawn[i]>> \in S
    BY <1>4, <2>1, <2>4, Zenon
  <2> QED BY <2>1, <2>3, <2>5, <2>6, Zenon DEF LinesIn
<1>11. Readable(S, outputs, drawn)
  BY <1>10, Zenon DEF Readable
<1>12. Outputs(FlattenSeq([i \in 1..Len(outputs) |-> Record(outputs[i], drawn[i])])) =
               <<[name |-> outputs[1].name, value |-> outputs[1].value],
                 [name |-> outputs[2].name, value |-> outputs[2].value],
                 [name |-> outputs[3].name, value |-> outputs[3].value],
                 [name |-> outputs[4].name, value |-> outputs[4].value]>>
  BY <1>7, <1>11, RecordsAreRead
<1> QED BY <1>2, <1>8, <1>9, <1>12, Zenon

\* RunnerReadsOutputs: whatever report is accepted, whatever its path looks like and whichever
\* delimiters publish_outputs draws, the runner reads back from the output file exactly the
\* four outputs, none of them cut short, merged or forged.
THEOREM OutputsReachTheRunner == ReportSpec => []RunnerReadsOutputs
BY PublishedIsRead, PTL
=============================================================================
