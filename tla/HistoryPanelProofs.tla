------------------------- MODULE HistoryPanelProofs -------------------------
(***************************************************************************)
(* HistoryPanel for any limit of the history, entries of any length and    *)
(* windows of any height: what the content is made of, line by line, and   *)
(* that the viewport shows the selected entry.                             *)
(*                                                                         *)
(* The content joins a list of blocks, so a fact about all its lines takes *)
(* induction over the list.  The induction rules of the library have an    *)
(* operator as a parameter; SetInduction is one for a set of numbers, from *)
(* the least number that is not in it.                                     *)
(***************************************************************************)
EXTENDS HistoryPanel, FiniteSetTheorems, SequenceTheorems, WellFoundedInduction, TLAPS

\* A set of natural numbers that is not empty has a least one.
LEMMA LeastOf ==
  ASSUME NEW T, T \subseteq Nat, T # {}
  PROVE  \E n \in T : \A m \in T : n <= m
  <1> DEFINE R == OpToRel(<, Nat)
  <1>1. IsWellFoundedOn(R, Nat)
    BY NatLessThanWellFounded
  <1>2. \A m, n \in Nat : m < n => <<m, n>> \in R
    BY DEF OpToRel
  <1> HIDE DEF R
  <1>3. PICK n \in T : \A m \in T : <<m, n>> \notin R
    BY <1>1, WFMin
  <1>4. \A m \in T : ~ (m < n)
    BY <1>2, <1>3
  <1> QED  BY <1>3, <1>4

\* Induction up to N, for what holds of the numbers in T.
LEMMA SetInduction ==
  ASSUME NEW N \in Nat, NEW T, 0 \in T, \A n \in 0..(N - 1) : n \in T => n + 1 \in T
  PROVE  \A n \in 0..N : n \in T
  <1> SUFFICES ASSUME NEW x \in 0..N, x \notin T PROVE FALSE
      OBVIOUS
  <1>1. PICK n \in {m \in 0..N : m \notin T} : \A m \in {m \in 0..N : m \notin T} : n <= m
    <2>1. {m \in 0..N : m \notin T} \subseteq Nat /\ {m \in 0..N : m \notin T} # {}
      OBVIOUS
    <2> QED  BY <2>1, LeastOf
  <1>2. n # 0 /\ n - 1 \in 0..(N - 1) /\ n - 1 \notin {m \in 0..N : m \notin T}
    BY <1>1
  <1>3. n - 1 \in T
    BY <1>2
  <1> QED  BY <1>1, <1>2, <1>3

-----------------------------------------------------------------------------
(***************************************************************************)
(* Lists of blocks.                                                        *)
(***************************************************************************)

\* Lines counts as its definition says: from 0, block by block.
LEMMA LinesFacts ==
  ASSUME NEW S, NEW b \in Seq(Seq(S))
  PROVE  LET line == Lines(b)
         IN /\ line[0] = 0
            /\ \A n \in 1..Len(b) : line[n] = line[n - 1] + Len(b[n])
            /\ \A n \in 0..Len(b) : line[n] \in Nat
  <1> DEFINE N == Len(b)
             Counts(g, n) ==
               g = [i \in 0..n |-> IF i = 0 THEN 0 ELSE g[i - 1] + Len(b[i])]
             line == Lines(b)
             T == {n \in Nat : \E g : Counts(g, n)}
  <1>1. N \in Nat /\ \A i \in 1..N : Len(b[i]) \in Nat
    OBVIOUS
  <1>2. \E g : Counts(g, N)
    <2>1. 0 \in T
      <3>1. Counts([i \in 0..0 |-> 0], 0)
        OBVIOUS
      <3> QED  BY <3>1
    <2>2. \A n \in 0..(N - 1) : n \in T => n + 1 \in T
      <3> SUFFICES ASSUME NEW n \in 0..(N - 1), n \in T PROVE n + 1 \in T
          OBVIOUS
      <3>1. PICK g : Counts(g, n)
        OBVIOUS
      <3> DEFINE h == [i \in 0..(n + 1) |->
                         IF i = n + 1 THEN g[n] + Len(b[n + 1]) ELSE g[i]]
      <3>2. \A i \in 0..n : h[i] = g[i]
        OBVIOUS
      <3>3. \A i \in 0..(n + 1) : h[i] = IF i = 0 THEN 0 ELSE h[i - 1] + Len(b[i])
        <4> SUFFICES ASSUME NEW i \in 0..(n + 1)
                     PROVE  h[i] = IF i = 0 THEN 0 ELSE h[i - 1] + Len(b[i])
            OBVIOUS
        <4>1. CASE i = n + 1
          BY <4>1, <3>2
        <4>2. CASE i \in 0..n
          <5>1. g[i] = IF i = 0 THEN 0 ELSE g[i - 1] + Len(b[i])
            BY <3>1, <4>2
          <5>2. i # 0 => i - 1 \in 0..n
            BY <4>2
          <5> QED  BY <4>2, <3>2, <5>1, <5>2
        <4> QED  BY <4>1, <4>2
      <3>4. Counts(h, n + 1)
        BY <3>3
      <3> HIDE DEF h, Counts
      <3>5. \E f : Counts(f, n + 1)
        BY <3>4
      <3> QED  BY <3>5
    <2> HIDE DEF T
    <2>3. \A n \in 0..N : n \in T
      BY <1>1, <2>1, <2>2, SetInduction
    <2>4. N \in T
      BY <1>1, <2>3
    <2> QED  BY <2>4 DEF T
  <1>3. Counts(line, N)
    BY <1>2, Zenon DEF Lines
  <1>4. line[0] = 0 /\ \A n \in 1..N : line[n] = line[n - 1] + Len(b[n])
    <2> HIDE DEF line
    <2>1. \A n \in 0..N : line[n] = IF n = 0 THEN 0 ELSE line[n - 1] + Len(b[n])
      BY <1>3
    <2> QED  BY <1>1, <2>1
  <1>5. \A n \in 0..N : line[n] \in Nat
    <2> DEFINE U == {n \in 0..N : line[n] \in Nat}
    <2>1. 0 \in U
      BY <1>1, <1>4
    <2>2. ASSUME NEW n \in 0..(N - 1), n \in U
          PROVE  n + 1 \in U
      <3>1. n + 1 \in 1..N /\ n + 1 \in 0..N /\ (n + 1) - 1 = n
        BY <1>1
      <3>2. line[n] \in Nat /\ Len(b[n + 1]) \in Nat
        BY <1>1, <2>2, <3>1
      <3> HIDE DEF line
      <3>3. line[n + 1] = line[n] + Len(b[n + 1])
        BY <1>4, <3>1
      <3> QED  BY <3>1, <3>2, <3>3
    <2> HIDE DEF U
    <2>3. \A n \in 0..N : n \in U
      BY <1>1, <2>1, <2>2, SetInduction
    <2> QED  BY <2>3 DEF U
  <1> QED  BY <1>4, <1>5

\* A place j among b elements that follow a others.
LEMMA InSpan ==
  ASSUME NEW a \in Nat, NEW b \in Nat, NEW j \in 1..b
  PROVE  a + j \in 1..(a + b) /\ ~ (a + j <= a) /\ (a + j) - a = j
  OBVIOUS

\* A place k among the a elements that b others follow.
LEMMA InFront ==
  ASSUME NEW a \in Nat, NEW b \in Nat, NEW k \in 1..a
  PROVE  k \in 1..(a + b) /\ k <= a
  OBVIOUS

\* FlattenSeq joins the blocks one by one.
LEMMA FlattenFacts ==
  ASSUME NEW S, NEW b \in Seq(Seq(S)), Len(b) # 0
  PROVE  \E f : /\ f[1] = b[1]
                /\ \A n \in 2..Len(b) : f[n] = f[n - 1] \o b[n]
                /\ FlattenSeq(b) = f[Len(b)]
  <1> DEFINE N == Len(b)
             Joins(g, n) ==
               g = [i \in 1..n |-> IF i = 1 THEN b[i] ELSE g[i - 1] \o b[i]]
             T == {n \in Nat : \E g : Joins(g, n)}
  <1>1. N \in Nat
    OBVIOUS
  <1>2. \E g : Joins(g, N)
    <2>1. 0 \in T
      <3>1. Joins([i \in 1..0 |-> <<>>], 0)
        OBVIOUS
      <3> QED  BY <3>1
    <2>2. \A n \in 0..(N - 1) : n \in T => n + 1 \in T
      <3> SUFFICES ASSUME NEW n \in 0..(N - 1), n \in T PROVE n + 1 \in T
          OBVIOUS
      <3>1. PICK g : Joins(g, n)
        OBVIOUS
      <3> DEFINE h == [i \in 1..(n + 1) |->
                         IF i = n + 1 THEN IF i = 1 THEN b[1] ELSE g[n] \o b[n + 1]
                                      ELSE g[i]]
      <3>2. \A i \in 1..n : h[i] = g[i]
        OBVIOUS
      <3>3. \A i \in 1..(n + 1) : h[i] = IF i = 1 THEN b[i] ELSE h[i - 1] \o b[i]
        <4> SUFFICES ASSUME NEW i \in 1..(n + 1)
                     PROVE  h[i] = IF i = 1 THEN b[i] ELSE h[i - 1] \o b[i]
            OBVIOUS
        <4>1. CASE i = n + 1
          BY <4>1, <3>2
        <4>2. CASE i \in 1..n
          <5>1. g[i] = IF i = 1 THEN b[i] ELSE g[i - 1] \o b[i]
            BY <3>1, <4>2
          <5>2. i # 1 => i - 1 \in 1..n
            BY <4>2
          <5> QED  BY <4>2, <3>2, <5>1, <5>2
        <4> QED  BY <4>1, <4>2
      <3>4. Joins(h, n + 1)
        BY <3>3
      <3> HIDE DEF h, Joins
      <3>5. \E f : Joins(f, n + 1)
        BY <3>4
      <3> QED  BY <3>5
    <2> HIDE DEF T
    <2>3. \A n \in 0..N : n \in T
      BY <1>1, <2>1, <2>2, SetInduction
    <2>4. N \in T
      BY <1>1, <2>3
    <2> QED  BY <2>4 DEF T
  <1>3. \E f : Joins(f, N) /\ FlattenSeq(b) = f[N]
    <2> DEFINE flatten == CHOOSE f : Joins(f, N)
    <2>1. Joins(flatten, N)
      BY <1>2, Zenon
    <2>2. FlattenSeq(b) = flatten[N]
      BY Zenon DEF FlattenSeq
    <2> QED  BY <2>1, <2>2
  <1>4. PICK f : Joins(f, N) /\ FlattenSeq(b) = f[N]
    BY <1>3
  <1>5. \A n \in 1..N : f[n] = IF n = 1 THEN b[n] ELSE f[n - 1] \o b[n]
    BY <1>4
  <1>6. f[1] = b[1]
    <2>1. 1 \in 1..N
      BY <1>1
    <2> QED  BY <1>5, <2>1
  <1>7. ASSUME NEW n \in 2..N
        PROVE  f[n] = f[n - 1] \o b[n]
    <2>1. n \in 1..N /\ n # 1
      BY <1>1
    <2> QED  BY <1>5, <2>1
  <1> QED  BY <1>4, <1>6, <1>7

\* Where the lines of the joined blocks come from: line j of block i is at
\* Lines(b)[i - 1] + j, and there are no others.
THEOREM FlattenLines ==
  ASSUME NEW S, NEW b \in Seq(Seq(S)), Len(b) # 0
  PROVE  LET all  == FlattenSeq(b)
             line == Lines(b)
         IN /\ all \in Seq(S) /\ Len(all) = line[Len(b)]
            /\ \A i \in 1..Len(b) : \A j \in 1..Len(b[i]) :
                 line[i - 1] + j \in 1..Len(all) /\ all[line[i - 1] + j] = b[i][j]
            /\ \A k \in 1..Len(all) :
                 \E i \in 1..Len(b) : \E j \in 1..Len(b[i]) : k = line[i - 1] + j
  <1> DEFINE N == Len(b)
             line == Lines(b)
             Placed(s, n) ==
               /\ s \in Seq(S) /\ Len(s) = line[n]
               /\ \A i \in 1..n : \A j \in 1..Len(b[i]) :
                    line[i - 1] + j \in 1..Len(s) /\ s[line[i - 1] + j] = b[i][j]
               /\ \A k \in 1..Len(s) :
                    \E i \in 1..n : \E j \in 1..Len(b[i]) : k = line[i - 1] + j
  <1>1. /\ N \in Nat /\ N # 0
        /\ \A i \in 1..N : b[i] \in Seq(S) /\ Len(b[i]) \in Nat
    OBVIOUS
  <1>2. /\ line[0] = 0 /\ \A n \in 0..N : line[n] \in Nat
        /\ \A n \in 1..N : line[n] = line[n - 1] + Len(b[n])
    BY LinesFacts
  <1> HIDE DEF line
  <1>3. PICK f : /\ f[1] = b[1]
                 /\ \A n \in 2..N : f[n] = f[n - 1] \o b[n]
                 /\ FlattenSeq(b) = f[N]
    BY FlattenFacts
  <1>4. Placed(b[1], 1)
    <2>1. 1 \in 1..N /\ line[1] = Len(b[1])
      BY <1>1, <1>2
    <2>2. \A i \in 1..1 : i = 1 /\ line[i - 1] = 0
      BY <1>2
    <2> QED  BY <1>1, <2>1, <2>2
  <1>5. ASSUME NEW n \in 1..(N - 1), NEW s, Placed(s, n)
        PROVE  Placed(s \o b[n + 1], n + 1)
    <2> DEFINE e == b[n + 1]
               t == s \o e
    <2>1. /\ n \in 0..N /\ n + 1 \in 1..N /\ e \in Seq(S) /\ Len(e) \in Nat
          /\ line[n] \in Nat /\ line[n + 1] = line[n] + Len(e)
      BY <1>1, <1>2
    <2>2. /\ s \in Seq(S) /\ Len(s) = line[n]
      BY <1>5
    <2>3. /\ t \in Seq(S) /\ Len(t) = line[n + 1]
          /\ \A k \in 1..line[n] : t[k] = s[k]
          /\ \A j \in 1..Len(e) : t[line[n] + j] = e[j]
      <3>1. /\ t \in Seq(S) /\ Len(t) = Len(s) + Len(e)
            /\ \A k \in 1..(Len(s) + Len(e)) :
                 t[k] = IF k <= Len(s) THEN s[k] ELSE e[k - Len(s)]
        BY <2>1, <2>2, ConcatProperties
      <3> HIDE DEF t, e
      <3>2. \A k \in 1..line[n] : t[k] = s[k]
        <4>1. Len(s) = line[n] /\ line[n] \in Nat /\ Len(e) \in Nat
          BY <2>1, <2>2
        <4>2. \A k \in 1..line[n] : k \in 1..(Len(s) + Len(e)) /\ k <= Len(s)
          BY <4>1, InFront, Zenon
        <4> QED  BY <3>1, <4>2
      <3>3. ASSUME NEW j \in 1..Len(e)
            PROVE  t[line[n] + j] = e[j]
        <4>1. Len(s) = line[n] /\ line[n] \in Nat /\ Len(e) \in Nat
          BY <2>1, <2>2
        <4>2. /\ line[n] + j \in 1..(Len(s) + Len(e)) /\ ~ (line[n] + j <= Len(s))
              /\ (line[n] + j) - Len(s) = j
          BY <4>1, InSpan, Zenon
        <4> QED  BY <3>1, <4>2
      <3> QED  BY <2>1, <2>2, <3>1, <3>2, <3>3
    <2>4. ASSUME NEW i \in 1..(n + 1), NEW j \in 1..Len(b[i])
          PROVE  line[i - 1] + j \in 1..Len(t) /\ t[line[i - 1] + j] = b[i][j]
      <3>1. CASE i = n + 1
        <4>1. line[i - 1] = line[n] /\ b[i] = e /\ j \in 1..Len(e)
          BY <3>1, <2>1
        <4> HIDE DEF t, e
        <4>2. line[n] + j \in 1..Len(t)
          <5>1. Len(t) = line[n] + Len(e) /\ line[n] \in Nat /\ Len(e) \in Nat
            BY <2>1, <2>3
          <5>2. line[n] + j \in 1..(line[n] + Len(e))
            BY <4>1, <5>1, InSpan, Zenon
          <5> QED  BY <5>1, <5>2
        <4>3. t[line[n] + j] = e[j]
          BY <4>1, <2>3
        <4> QED  BY <4>1, <4>2, <4>3
      <3>2. CASE i \in 1..n
        <4> HIDE DEF t, e
        <4>1. line[i - 1] + j \in 1..Len(s) /\ s[line[i - 1] + j] = b[i][j]
          BY <1>5, <3>2
        <4>2. line[i - 1] + j \in 1..line[n]
          BY <4>1, <2>2
        <4>3. t[line[i - 1] + j] = s[line[i - 1] + j]
          BY <4>2, <2>3
        <4>4. line[i - 1] + j \in 1..Len(t)
          <5>1. Len(t) = line[n] + Len(e) /\ line[n] \in Nat /\ Len(e) \in Nat
            BY <2>1, <2>3
          <5>2. line[i - 1] + j \in 1..(line[n] + Len(e))
            BY <4>2, <5>1, InFront, Zenon
          <5> QED  BY <5>1, <5>2
        <4> QED  BY <4>1, <4>3, <4>4
      <3>3. i = n + 1 \/ i \in 1..n
        OBVIOUS
      <3> QED  BY <3>1, <3>2, <3>3
    <2>5. ASSUME NEW k \in 1..Len(t)
          PROVE  \E i \in 1..(n + 1) : \E j \in 1..Len(b[i]) : k = line[i - 1] + j
      <3>1. CASE k <= line[n]
        <4>1. k \in 1..Len(s)
          <5> HIDE DEF t, e
          <5> QED  BY <3>1, <2>1, <2>2, <2>3
        <4>2. PICK i \in 1..n : \E j \in 1..Len(b[i]) : k = line[i - 1] + j
          BY <1>5, <4>1
        <4>3. n \in Nat /\ i \in 1..(n + 1)
          <5>1. n \in Nat
            OBVIOUS
          <5> QED  BY <5>1, InFront, Zenon
        <4> QED  BY <4>2, <4>3, Zenon
      <3>2. CASE k > line[n]
        <4> DEFINE j == k - line[n]
                   m == n + 1
        <4>1. k \in 1..(line[n] + Len(e))
          <5> HIDE DEF t, e
          <5> QED  BY <2>1, <2>3
        <4>2. j \in 1..Len(b[m]) /\ m \in 1..(n + 1) /\ line[m - 1] = line[n]
          BY <3>2, <2>1, <4>1
        <4>3. k = line[m - 1] + j
          BY <2>1, <4>1, <4>2
        <4> HIDE DEF j, m
        <4> QED  BY <4>2, <4>3
      <3>3. k \in Int /\ line[n] \in Int
        BY <2>1
      <3> QED  BY <3>1, <3>2, <3>3
    <2> HIDE DEF t
    <2>6. Placed(t, n + 1)
      BY <2>3, <2>4, <2>5
    <2> QED  BY <2>6 DEF t
  <1>6. Placed(f[N], N)
    <2> DEFINE T == {n \in 0..N : n = 0 \/ Placed(f[n], n)}
    <2>1. 0 \in T
      BY <1>1
    <2>2. \A n \in 0..(N - 1) : n \in T => n + 1 \in T
      <3> SUFFICES ASSUME NEW n \in 0..(N - 1), n \in T PROVE n + 1 \in T
          OBVIOUS
      <3> HIDE DEF Placed
      <3>1. CASE n = 0
        BY <1>1, <1>3, <1>4, <3>1
      <3>2. CASE n # 0
        <4>1. n \in 1..(N - 1) /\ n + 1 \in 2..N /\ Placed(f[n], n)
          BY <1>1, <3>2
        <4>2. \A m \in 2..N : m - 1 = n => f[m] = f[n] \o b[m]
          BY <1>3
        <4>3. (n + 1) - 1 = n
          BY <4>1
        <4>4. f[n + 1] = f[n] \o b[n + 1]
          BY <4>1, <4>2, <4>3
        <4>5. Placed(f[n] \o b[n + 1], n + 1)
          BY <1>5, <4>1
        <4>6. Placed(f[n + 1], n + 1)
          BY <4>4, <4>5
        <4> QED  BY <1>1, <4>1, <4>6
      <3> QED  BY <3>1, <3>2
    <2> HIDE DEF T
    <2>3. \A n \in 0..N : n \in T
      BY <1>1, <2>1, <2>2, SetInduction
    <2>4. N \in T
      BY <1>1, <2>3
    <2> QED  BY <1>1, <2>4 DEF T
  <1>7. Placed(FlattenSeq(b), N)
    BY <1>3, <1>6
  <1> QED  BY <1>7 DEF line

-----------------------------------------------------------------------------
(***************************************************************************)
(* The content of the panel.                                               *)
(***************************************************************************)
\* What historyContent makes its lines from.
Made == [entries : Seq(Entry), selected : Nat, busy : BOOLEAN]

\* What a line can be, and what the button of an entry says.
Parts == {"summary", "sending", "replay", "text"}

Button(sending) == IF sending THEN "sending" ELSE "replay"

\* An entry has its button, if selected, in the second line, and nowhere else.
LEMMA BlockFacts ==
  ASSUME NEW e \in Entry, NEW selected \in BOOLEAN, NEW sending \in BOOLEAN
  PROVE  LET lines == Block(e, selected, sending)
         IN /\ lines \in Seq(Parts) /\ Len(lines) \in Nat /\ Len(lines) >= 2
            /\ \A j \in 1..Len(lines) :
                 IF selected /\ j = 2 THEN lines[j] = Button(sending)
                                     ELSE lines[j] \in {"summary", "text"}
  <1> DEFINE n    == 2 + e.request + e.response
             text == [k \in 1..n |-> "text"]
             head == <<"summary">>
             mid  == IF selected THEN <<Button(sending)>> ELSE <<>>
             lines == (head \o mid) \o text
  <1>1. n \in Nat /\ n >= 2
    BY EntryAssumption
  <1> HIDE DEF n
  <1>2. text \in Seq(Parts) /\ Len(text) = n /\ \A k \in 1..n : text[k] = "text"
    BY <1>1 DEF Parts
  <1>3. Block(e, selected, sending) = lines
    BY DEF Block, Button, n
  <1>4. head \in Seq(Parts) /\ Len(head) = 1 /\ head[1] = "summary"
    BY DEF Parts
  <1> HIDE DEF text
  <1>5. CASE selected
    <2>1. mid = <<Button(sending)>>
      BY <1>5
    <2>8. Button(sending) \in Parts
      BY DEF Button, Parts
    <2> HIDE DEF head, mid
    <2>2. mid \in Seq(Parts) /\ Len(mid) = 1 /\ mid[1] = Button(sending)
      BY <2>8, <2>1
    <2>3. /\ head \o mid \in Seq(Parts) /\ Len(head \o mid) = 2
          /\ (head \o mid)[1] = "summary" /\ (head \o mid)[2] = Button(sending)
      <3>1. /\ head \o mid \in Seq(Parts) /\ Len(head \o mid) = 2
            /\ \A j \in 1..2 : (head \o mid)[j] = IF j <= 1 THEN head[j] ELSE mid[j - 1]
        <4>1. /\ head \o mid \in Seq(Parts) /\ Len(head \o mid) = Len(head) + Len(mid)
              /\ \A j \in 1..(Len(head) + Len(mid)) :
                   (head \o mid)[j] = IF j <= Len(head) THEN head[j] ELSE mid[j - Len(head)]
          BY <1>4, <2>2, ConcatProperties
        <4>2. Len(head) = 1 /\ Len(mid) = 1 /\ Len(head) + Len(mid) = 2
          BY <1>4, <2>2
        <4> QED  BY <4>1, <4>2
      <3> QED  BY <1>4, <2>2, <3>1
    <2>4. /\ lines \in Seq(Parts) /\ Len(lines) = 2 + n
          /\ \A j \in 1..(2 + n) :
               lines[j] = IF j <= 2 THEN (head \o mid)[j] ELSE text[j - 2]
      BY <2>3, <1>2, ConcatProperties
    <2>5. \A j \in 1..(2 + n) : j = 1 \/ j = 2 \/ (~ (j <= 2) /\ j # 2 /\ j - 2 \in 1..n)
      BY <1>1
    <2> HIDE DEF lines
    <2>6. lines \in Seq(Parts) /\ Len(lines) \in Nat /\ Len(lines) >= 2
      BY <1>1, <2>4
    <2>7. \A j \in 1..Len(lines) :
            IF j = 2 THEN lines[j] = Button(sending) ELSE lines[j] \in {"summary", "text"}
      <3>1. lines[1] = "summary" /\ lines[2] = Button(sending)
        BY <1>1, <2>3, <2>4
      <3>2. ASSUME NEW j \in 1..(2 + n), ~ (j <= 2), j - 2 \in 1..n
            PROVE  lines[j] = "text"
        BY <1>2, <2>4, <3>2
      <3>3. Len(lines) = 2 + n
        BY <2>4
      <3> QED  BY <2>5, <3>1, <3>2, <3>3
    <2> QED  BY <1>3, <1>5, <2>6, <2>7
  <1>6. CASE ~ selected
    <2>1. head \o mid = <<"summary">>
      BY <1>6
    <2>2. /\ head \o mid \in Seq(Parts) /\ Len(head \o mid) = 1
          /\ (head \o mid)[1] = "summary"
      BY <2>1 DEF Parts
    <2> HIDE DEF head, mid
    <2>3. /\ lines \in Seq(Parts) /\ Len(lines) = 1 + n
          /\ \A j \in 1..(1 + n) :
               lines[j] = IF j <= 1 THEN (head \o mid)[j] ELSE text[j - 1]
      BY <2>2, <1>2, ConcatProperties
    <2>4. \A j \in 1..(1 + n) : j = 1 \/ (~ (j <= 1) /\ j - 1 \in 1..n)
      BY <1>1
    <2> HIDE DEF lines
    <2> QED  BY <1>1, <1>2, <1>3, <1>6, <2>2, <2>3, <2>4
  <1> QED  BY <1>5, <1>6

\* One block for each entry, or the one that says that there is none.
LEMMA BlocksFacts ==
  ASSUME NEW c \in Made
  PROVE  /\ Blocks(c) \in Seq(Seq(Parts)) /\ Len(Blocks(c)) # 0
         /\ c.entries # <<>> =>
              /\ Len(Blocks(c)) = Len(c.entries)
              /\ \A i \in 1..Len(c.entries) :
                   LET lines == Blocks(c)[i]
                   IN /\ lines = Block(c.entries[i], i = c.selected, c.busy)
                      /\ Len(lines) \in Nat /\ Len(lines) >= 2
                      /\ \A j \in 1..Len(lines) :
                           IF i = c.selected /\ j = 2
                           THEN lines[j] = Button(c.busy)
                           ELSE lines[j] \in {"summary", "text"}
  <1>1. c.entries \in Seq(Entry) /\ c.busy \in BOOLEAN
    BY DEF Made
  <1>2. CASE c.entries = <<>>
    <2>1. Blocks(c) = << <<"text">> >>
      BY <1>2 DEF Blocks
    <2> QED  BY <1>2, <2>1 DEF Parts
  <1>3. CASE c.entries # <<>>
    <2> DEFINE n == Len(c.entries)
               B(i) == Block(c.entries[i], i = c.selected, c.busy)
    <2>1. n \in Nat /\ n # 0 /\ DOMAIN c.entries = 1..n
      BY <1>1, <1>3, EmptySeq
    <2>2. Blocks(c) = [i \in 1..n |-> B(i)]
      BY <1>3, <2>1 DEF Blocks
    <2>3. \A i \in 1..n : c.entries[i] \in Entry
      BY <1>1
    <2>4. \A i \in 1..n :
            /\ B(i) \in Seq(Parts) /\ Len(B(i)) \in Nat /\ Len(B(i)) >= 2
            /\ \A j \in 1..Len(B(i)) :
                 IF i = c.selected /\ j = 2 THEN B(i)[j] = Button(c.busy)
                                           ELSE B(i)[j] \in {"summary", "text"}
      <3> SUFFICES ASSUME NEW i \in 1..n
                   PROVE  /\ B(i) \in Seq(Parts) /\ Len(B(i)) \in Nat /\ Len(B(i)) >= 2
                          /\ \A j \in 1..Len(B(i)) :
                               IF i = c.selected /\ j = 2
                               THEN B(i)[j] = Button(c.busy)
                               ELSE B(i)[j] \in {"summary", "text"}
          OBVIOUS
      <3>1. c.entries[i] \in Entry /\ c.busy \in BOOLEAN /\ (i = c.selected) \in BOOLEAN
        BY <1>1, <2>3
      <3> QED  BY <3>1, BlockFacts, Zenon
    <2> HIDE DEF B
    <2>5. /\ Blocks(c) \in Seq(Seq(Parts)) /\ Len(Blocks(c)) = n
          /\ \A i \in 1..n : Blocks(c)[i] = B(i)
      BY <2>1, <2>2, <2>4
    <2>6. \A i \in 1..n : Blocks(c)[i] = Block(c.entries[i], i = c.selected, c.busy)
      BY <2>5 DEF B
    <2> QED  BY <2>1, <2>4, <2>5, <2>6
  <1> QED  BY <1>2, <1>3

\* The content has lines.
LEMMA ContentFacts ==
  ASSUME NEW c \in Made
  PROVE  Content(c) \in Seq(Parts) /\ Len(Content(c)) \in Nat
  BY BlocksFacts, FlattenLines DEF Content

\* The button of the selected entry is where historyContent says, below the
\* first of the lines it gives, and nowhere else.
THEOREM ButtonLine ==
  ASSUME NEW c \in Made, c.selected \in DOMAIN c.entries
  PROVE  LET lines == Content(c)
             sel   == SelectedLines(c)
             size  == Len(Block(c.entries[c.selected], TRUE, c.busy))
         IN /\ sel.start \in Nat /\ size \in Nat /\ size >= 2
            /\ sel.end = sel.start + size - 1 /\ sel.end < Len(lines)
            /\ \A k \in 1..Len(lines) :
                 IF k = sel.start + 2 THEN lines[k] = Button(c.busy)
                                      ELSE lines[k] \in {"summary", "text"}
  <1> DEFINE b     == Blocks(c)
             n     == Len(c.entries)
             i     == c.selected
             line  == Lines(b)
             lines == Content(c)
             size  == Len(Block(c.entries[i], TRUE, c.busy))
  <1>1. /\ c.entries \in Seq(Entry) /\ n \in Nat /\ i \in 1..n /\ c.busy \in BOOLEAN
        /\ c.entries # <<>>
    BY EmptySeq DEF Made
  <1>2. /\ b \in Seq(Seq(Parts)) /\ Len(b) = n /\ n # 0
        /\ b[i] = Block(c.entries[i], i = i, c.busy)
        /\ \A m \in 1..n :
             /\ Len(b[m]) \in Nat /\ Len(b[m]) >= 2
             /\ \A j \in 1..Len(b[m]) :
                  IF m = i /\ j = 2 THEN b[m][j] = Button(c.busy)
                                   ELSE b[m][j] \in {"summary", "text"}
    BY <1>1, BlocksFacts
  <1>3. /\ \A m \in 0..n : line[m] \in Nat
        /\ \A m \in 1..n : line[m] = line[m - 1] + Len(b[m])
    <2> HIDE DEF n
    <2>1. /\ \A m \in 0..Len(b) : line[m] \in Nat
          /\ \A m \in 1..Len(b) : line[m] = line[m - 1] + Len(b[m])
      BY <1>2, LinesFacts
    <2> QED  BY <1>2, <2>1
  <1>4. /\ lines \in Seq(Parts) /\ Len(lines) = line[n]
        /\ \A m \in 1..n : \A j \in 1..Len(b[m]) :
             line[m - 1] + j \in 1..Len(lines) /\ lines[line[m - 1] + j] = b[m][j]
        /\ \A k \in 1..Len(lines) :
             \E m \in 1..n : \E j \in 1..Len(b[m]) : k = line[m - 1] + j
    <2> HIDE DEF n
    <2>1. lines = FlattenSeq(b)
      BY DEF Content
    <2>2. b \in Seq(Seq(Parts)) /\ Len(b) # 0
      BY <1>2
    <2> HIDE DEF b
    <2>3. /\ FlattenSeq(b) \in Seq(Parts) /\ Len(FlattenSeq(b)) = line[Len(b)]
          /\ \A m \in 1..Len(b) : \A j \in 1..Len(b[m]) :
               /\ line[m - 1] + j \in 1..Len(FlattenSeq(b))
               /\ FlattenSeq(b)[line[m - 1] + j] = b[m][j]
          /\ \A k \in 1..Len(FlattenSeq(b)) :
               \E m \in 1..Len(b) : \E j \in 1..Len(b[m]) : k = line[m - 1] + j
      BY <2>2, FlattenLines
    <2> HIDE DEF line, lines
    <2> QED  BY <1>2, <2>1, <2>3
  <1>5. size = Len(b[i])
    BY <1>2
  <1>6. SelectedLines(c) = [start |-> line[i - 1], end |-> line[i] - 1]
    BY DEF SelectedLines
  <1> HIDE DEF b, line, lines, n, size, i
  <1>7. /\ size \in Nat /\ size >= 2
        /\ \A m \in 1..n : \A j \in 1..Len(b[m]) :
             IF m = i /\ j = 2 THEN b[m][j] = Button(c.busy)
                              ELSE b[m][j] \in {"summary", "text"}
    BY <1>1, <1>2, <1>5
  <1> DEFINE start == line[i - 1]
  <1>8. start \in Nat /\ line[i] = start + size
    BY <1>1, <1>3, <1>5
  <1>9. start + size \in 1..Len(lines)
    <2>1. size \in 1..Len(b[i])
      BY <1>5, <1>7
    <2> QED  BY <1>1, <1>4, <2>1
  <1>10. lines[start + 2] = Button(c.busy)
    <2>1. 2 \in 1..Len(b[i])
      BY <1>5, <1>7
    <2> QED  BY <1>1, <1>4, <1>7, <2>1
  <1>11. ASSUME NEW k \in 1..Len(lines), k # start + 2
         PROVE  lines[k] \in {"summary", "text"}
    <2>1. PICK m \in 1..n : \E j \in 1..Len(b[m]) : k = line[m - 1] + j
      BY <1>4
    <2>2. PICK j \in 1..Len(b[m]) : k = line[m - 1] + j
      BY <2>1
    <2>3. ~ (m = i /\ j = 2) /\ lines[k] = b[m][j]
      BY <1>4, <1>11, <2>2
    <2> QED  BY <1>7, <2>3
  <1> HIDE DEF start
  <1>12. /\ SelectedLines(c).start = start /\ SelectedLines(c).end = start + size - 1
    <2>1. SelectedLines(c).start = line[i - 1] /\ SelectedLines(c).end = line[i] - 1
      BY <1>6
    <2> QED  BY <1>7, <1>8, <2>1 DEF start
  <1>13. Len(lines) \in Nat /\ start + size - 1 < Len(lines)
    <2>1. Len(lines) \in Nat
      BY <1>4
    <2> QED  BY <1>7, <1>8, <1>9, <2>1
  <1>14. \A k \in 1..Len(lines) :
           IF k = SelectedLines(c).start + 2 THEN lines[k] = Button(c.busy)
                                             ELSE lines[k] \in {"summary", "text"}
    BY <1>10, <1>11, <1>12
  <1> QED  BY <1>7, <1>8, <1>12, <1>13, <1>14 DEF lines, size, i

-----------------------------------------------------------------------------
(***************************************************************************)
(* The history, and what the panel makes of it.                            *)
(***************************************************************************)

\* One more round trip: the history has entries only, never fewer than it had
\* and never more than its limit.
LEMMA RecordedFacts ==
  ASSUME NEW h \in Seq(Entry), NEW e \in Entry, Len(h) <= MaxHistory
  PROVE  /\ Recorded(h, e) \in Seq(Entry)
         /\ Len(h) <= Len(Recorded(h, e)) /\ Len(Recorded(h, e)) <= MaxHistory
  <1> DEFINE a == Append(h, e)
             g == SubSeq(a, Len(a) - MaxHistory + 1, Len(a))
  <1>1. MaxHistory \in Nat /\ MaxHistory # 0
    BY MaxHistoryAssumption
  <1>2. /\ a \in Seq(Entry) /\ Len(a) = Len(h) + 1 /\ Len(h) \in Nat
        /\ \A i \in 1..Len(a) : a[i] \in Entry
    BY AppendProperties, LenProperties
  <1>3. Recorded(h, e) = IF Len(a) > MaxHistory THEN g ELSE a
    BY DEF Recorded
  <1>4. CASE Len(a) > MaxHistory
    <2>1. Len(a) - MaxHistory + 1 = 2 /\ 2 \in Int /\ Len(a) \in Int /\ Len(h) = MaxHistory
      BY <1>1, <1>2, <1>4
    <2>2. g = SubSeq(a, 2, Len(a))
      BY <2>1
    <2>3. \A i \in 2..Len(a) : a[i] \in Entry
      BY <1>2
    <2> HIDE DEF a, g
    <2>4. g \in Seq(Entry) /\ Len(g) = (IF 2 <= Len(a) THEN Len(a) - 2 + 1 ELSE 0)
      BY <2>1, <2>2, <2>3, SubSeqProperties
    <2> QED  BY <1>1, <1>2, <1>3, <1>4, <2>1, <2>4
  <1>5. CASE ~ (Len(a) > MaxHistory)
    <2> HIDE DEF a, g
    <2> QED  BY <1>1, <1>2, <1>3, <1>5
  <1> QED  BY <1>4, <1>5

\* The panel's order has as many entries.
LEMMA NewestFirstFacts ==
  ASSUME NEW h \in Seq(Entry)
  PROVE  /\ EntriesNewestFirst(h) \in Seq(Entry)
         /\ Len(EntriesNewestFirst(h)) = Len(h)
         /\ DOMAIN EntriesNewestFirst(h) = 1..Len(h)
  <1>1. Len(h) \in Nat /\ \A i \in 1..Len(h) : h[i] \in Entry
    BY LenProperties
  <1>2. \A i \in 1..Len(h) : Len(h) - i + 1 \in 1..Len(h)
    BY <1>1
  <1>3. EntriesNewestFirst(h) = [i \in 1..Len(h) |-> h[(Len(h) - i) + 1]]
    BY DEF EntriesNewestFirst, Reverse
  <1>4. EntriesNewestFirst(h) \in [1..Len(h) -> Entry]
    BY <1>1, <1>2, <1>3
  <1>5. EntriesNewestFirst(h) \in Seq(Entry)
    BY <1>4, <1>1
  <1> QED  BY <1>1, <1>4, <1>5, LenProperties

\* Where syncHistoryViewport leaves a viewport of height h that was at y: the
\* lines of the selected entry are in view if there is room for two lines.
LEMMA OffsetFacts ==
  ASSUME NEW c \in Made, NEW y \in Nat, NEW h \in Nat
  PROVE  LET lines  == Content(c)
             sel    == SelectedLines(c)
             top    == KeptOffset(y, lines, h)
             bottom == top + h - 1
             offset == IF sel.start <= sel.end /\ (sel.start < top \/ sel.end > bottom)
                       THEN Clamped(sel.start, lines, h)
                       ELSE top
         IN /\ offset \in Nat
            /\ c.selected \in DOMAIN c.entries /\ h >= 2 => InView(sel, offset, h)
  <1> DEFINE lines == Content(c)
             L     == Len(lines)
             sel   == SelectedLines(c)
             top   == KeptOffset(y, lines, h)
             offset == IF sel.start <= sel.end
                            /\ (sel.start < top \/ sel.end > top + h - 1)
                       THEN Clamped(sel.start, lines, h)
                       ELSE top
  <1>1. L \in Nat
    BY ContentFacts
  <1>2. MaxYOffset(lines, h) = IF L - h < 0 THEN 0 ELSE L - h
    BY DEF MaxYOffset, AtLeast
  <1>3. /\ top = IF y > L - 1 THEN MaxYOffset(lines, h) ELSE y
        /\ Clamped(sel.start, lines, h)
             = IF sel.start > MaxYOffset(lines, h) THEN MaxYOffset(lines, h)
               ELSE IF sel.start < 0 THEN 0 ELSE sel.start
    BY DEF KeptOffset, Clamped, AtLeast
  <1>4. CASE c.selected \in DOMAIN c.entries
    <2> DEFINE size == Len(Block(c.entries[c.selected], TRUE, c.busy))
    <2>1. /\ sel.start \in Nat /\ size \in Nat /\ size >= 2
          /\ sel.end = sel.start + size - 1 /\ sel.end < L
      BY <1>4, ButtonLine
    <2> HIDE DEF size, L, lines, sel, top
    <2>2. offset \in Nat
      BY <1>1, <1>2, <1>3, <2>1
    <2>3. ASSUME h >= 2 PROVE InView(sel, offset, h)
      BY <1>1, <1>2, <1>3, <2>1, <2>3 DEF InView
    <2> QED  BY <2>2, <2>3 DEF lines, sel, top
  <1>5. CASE c.selected \notin DOMAIN c.entries
    <2>1. sel.start = 0
      BY <1>5 DEF SelectedLines
    <2> HIDE DEF L, lines, sel, top
    <2>2. offset \in Nat
      BY <1>1, <1>2, <1>3, <2>1
    <2> QED  BY <1>5, <2>2 DEF lines, sel, top
  <1> QED  BY <1>4, <1>5

\* syncHistoryViewport makes the content for the selection, and has it in view.
LEMMA SyncFacts ==
  ASSUME NEW y \in Nat, SyncFrom(y),
         history' \in Seq(Entry), focus' \in {"menu", "history"},
         historyIdx' \in Nat \ {0}, busy' \in BOOLEAN, height' \in Nat,
         ready' => height' >= 2,
         focus' = "history" => historyIdx' \in 1..Len(history')
  PROVE  /\ shown' \in Made /\ yOffset' \in Nat /\ scrolled' \in BOOLEAN
         /\ ContentIsOfSelection' /\ SelectedInView'
  <1> DEFINE c == [entries  |-> EntriesNewestFirst(history'),
                   selected |-> IF focus' = "history" THEN historyIdx' ELSE 0,
                   busy     |-> busy']
             lines == Content(c)
             sel   == SelectedLines(c)
             top   == KeptOffset(y, lines, height')
  <1>1. /\ shown' = c /\ scrolled' = FALSE
        /\ yOffset' = IF sel.start <= sel.end
                           /\ (sel.start < top \/ sel.end > top + height' - 1)
                      THEN Clamped(sel.start, lines, height')
                      ELSE top
    BY DEF SyncFrom
  <1>2. /\ EntriesNewestFirst(history') \in Seq(Entry)
        /\ Len(EntriesNewestFirst(history')) = Len(history')
        /\ DOMAIN EntriesNewestFirst(history') = 1..Len(history')
    BY NewestFirstFacts
  <1>3. c \in Made
    BY <1>2 DEF Made
  <1>4. /\ c.entries = EntriesNewestFirst(history') /\ c.busy = busy'
        /\ c.selected = IF focus' = "history" THEN historyIdx' ELSE 0
    OBVIOUS
  <1>5. Len(history') \in Nat
    BY LenProperties
  <1> HIDE DEF c
  <1>6. /\ yOffset' \in Nat
        /\ c.selected \in DOMAIN c.entries /\ height' >= 2
             => InView(sel, yOffset', height')
    BY <1>1, <1>3, OffsetFacts
  <1>7. ContentIsOfSelection'
    BY <1>1, <1>2, <1>4, <1>5 DEF ContentIsOfSelection
  <1>8. SelectedInView'
    <2>1. ASSUME focus' = "history", ready' PROVE InView(sel, yOffset', height')
      <3>1. c.selected \in DOMAIN c.entries
        BY <1>2, <1>4, <2>1
      <3> QED  BY <1>6, <2>1, <3>1
    <2> QED  BY <1>1, <2>1 DEF SelectedInView
  <1> QED  BY <1>1, <1>3, <1>6, <1>7, <1>8
-----------------------------------------------------------------------------
(***************************************************************************)
(* The inductive invariant, one lemma per kind of step.                    *)
(***************************************************************************)

\* At the start nothing is selected and there is no viewport.
LEMMA IndInit == Init => IndInv
  <1> SUFFICES ASSUME Init PROVE IndInv
      OBVIOUS
  <1>1. history \in Seq(Entry) /\ Len(history) = 0 /\ MaxHistory \in Nat
    BY MaxHistoryAssumption DEF Init
  <1>2. /\ shown.entries = <<>> /\ Len(shown.entries) = 0
        /\ shown \in [entries : Seq(Entry), selected : Nat, busy : BOOLEAN]
    BY DEF Init
  <1>3. /\ underWay \subseteq {"health", "call"} /\ focus \in {"menu", "history"}
        /\ historyIdx \in Nat \ {0} /\ height \in Nat /\ yOffset \in Nat
    BY DEF Init
  <1>4. busy \in BOOLEAN /\ ready \in BOOLEAN /\ scrolled \in BOOLEAN
    BY Zenon DEF Init
  <1>5. TypeOK
    BY <1>1, <1>2, <1>3, <1>4 DEF TypeOK
  <1>6. ContentIsOfSelection /\ RoomForButton /\ SelectedInView
    BY <1>1, <1>2 DEF Init, ContentIsOfSelection, RoomForButton, SelectedInView
  <1> QED  BY <1>5, <1>6 DEF IndInv

\* A window of any height gives the panel five lines or more.
LEMMA HistoryHeightFacts ==
  ASSUME NEW h \in Nat
  PROVE  HistoryHeight(h) \in Nat /\ HistoryHeight(h) >= 5
  <1>1. (h * 2) \div 5 \in Nat
    <2>1. h * 2 \in Nat
      OBVIOUS
    <2> QED  BY <2>1
  <1>2. TopRowHeight(h) \in Nat /\ TopRowHeight(h) >= 8
    BY <1>1 DEF TopRowHeight, AtLeast
  <1> QED  BY <1>2 DEF HistoryHeight, AtLeast

\* The steps that make the content again: what they must leave in order for it.
LEMMA SyncStep ==
  ASSUME IndInv, NEW y \in Nat, SyncFrom(y), history' = history,
         underWay' \subseteq {"health", "call"},
         focus' \in {"menu", "history"}, historyIdx' \in Nat \ {0},
         busy' \in BOOLEAN, ready' \in BOOLEAN, height' \in Nat,
         ready' => height' >= 2,
         focus' = "history" => historyIdx' \in 1..Len(history)
  PROVE  IndInv'
  <1>1. history' \in Seq(Entry) /\ Len(history') <= MaxHistory
    BY DEF IndInv, TypeOK
  <1>2. /\ shown' \in Made /\ yOffset' \in Nat /\ scrolled' \in BOOLEAN
        /\ ContentIsOfSelection' /\ SelectedInView'
    BY <1>1, SyncFacts
  <1>3. TypeOK'
    BY <1>1, <1>2 DEF TypeOK, Made
  <1> QED  BY <1>2, <1>3 DEF IndInv, RoomForButton

\* The steps that leave the panel alone: the history may have grown, and the
\* focus gone to the menu.
LEMMA PanelUnchangedStep ==
  ASSUME IndInv, PanelUnchanged, underWay' \subseteq {"health", "call"},
         history' \in Seq(Entry), Len(history') <= MaxHistory,
         Len(history) <= Len(history'),
         historyIdx' = historyIdx, busy' \in BOOLEAN,
         focus' = "menu" \/ (focus' = focus /\ busy' = busy)
  PROVE  IndInv'
  <1>1. TypeOK'
    BY DEF IndInv, TypeOK, PanelUnchanged
  <1>2. ContentIsOfSelection'
    <2>1. Len(shown.entries) \in Nat /\ Len(history) \in Nat /\ Len(history') \in Nat
      BY LenProperties DEF IndInv, TypeOK
    <2> QED  BY <2>1 DEF IndInv, ContentIsOfSelection, PanelUnchanged
  <1>3. RoomForButton' /\ SelectedInView'
    BY DEF IndInv, RoomForButton, SelectedInView, PanelUnchanged
  <1> QED  BY <1>1, <1>2, <1>3 DEF IndInv

\* The user scrolls: by design the selected entry may leave the view.
LEMMA ScrollStep ==
  ASSUME IndInv, Scroll
  PROVE  IndInv'
  <1> DEFINE lines == Content(shown)
  <1>1. shown \in Made /\ height \in Nat /\ yOffset \in Nat
    BY DEF IndInv, TypeOK, Made
  <1>2. lines \in Seq(Parts) /\ Len(lines) \in Nat
    BY <1>1, ContentFacts
  <1>3. PICK y \in {yOffset - height, yOffset + height, 0, Len(lines)} :
          yOffset' = Clamped(y, lines, height)
    BY DEF Scroll
  <1> HIDE DEF lines
  <1>4. y \in Int
    BY <1>1, <1>2
  <1>5. yOffset' \in Nat
    BY <1>1, <1>2, <1>3, <1>4 DEF Clamped, MaxYOffset, AtLeast
  <1>6. TypeOK'
    BY <1>5 DEF IndInv, TypeOK, Scroll
  <1>7. ContentIsOfSelection'
    BY DEF IndInv, ContentIsOfSelection, Scroll
  <1>8. RoomForButton' /\ SelectedInView'
    BY DEF IndInv, RoomForButton, SelectedInView, Scroll
  <1> QED  BY <1>6, <1>7, <1>8 DEF IndInv

\* One step of the panel.
LEMMA IndStep == IndInv /\ [Next]_vars => IndInv'
  <1> SUFFICES ASSUME IndInv, [Next]_vars PROVE IndInv'
      OBVIOUS
  <1>1. /\ history \in Seq(Entry) /\ Len(history) \in Nat /\ Len(history) <= MaxHistory
        /\ underWay \subseteq {"health", "call"} /\ focus \in {"menu", "history"}
        /\ historyIdx \in Nat \ {0} /\ busy \in BOOLEAN /\ ready \in BOOLEAN
        /\ height \in Nat /\ yOffset \in Nat
    BY LenProperties DEF IndInv, TypeOK
  <1>2. ready => height >= 2
    BY DEF IndInv, RoomForButton
  <1>3. focus = "history" => historyIdx \in 1..Len(history)
    <2>1. shown.entries \in Seq(Entry)
      BY DEF IndInv, TypeOK
    <2>2. DOMAIN shown.entries = 1..Len(shown.entries) /\ Len(shown.entries) \in Nat
      BY <2>1, LenProperties
    <2> QED  BY <1>1, <2>2 DEF IndInv, ContentIsOfSelection
  <1>4. CASE MenuTab
    <2>1. Len(history) # 0
      BY <1>1, <1>4, EmptySeq DEF MenuTab
    <2>2. 1 \in 1..Len(history)
      BY <1>1, <2>1
    <2> QED  BY <1>1, <1>2, <1>4, <2>2, SyncStep DEF MenuTab, Sync
  <1>5. CASE Send
    BY <1>1, <1>5, PanelUnchangedStep DEF Send, Key
  <1>6. CASE RunHere
    BY <1>1, <1>2, <1>3, <1>6, SyncStep DEF RunHere, Sync
  <1>7. CASE HistoryLeave
    BY <1>1, <1>7, PanelUnchangedStep DEF HistoryLeave
  <1>8. ASSUME NEW i \in 1..Len(history), HistorySelect(i) PROVE IndInv'
    <2>1. i \in Nat \ {0}
      BY <1>1
    <2> QED  BY <1>1, <1>2, <1>8, <2>1, SyncStep DEF HistorySelect, Key, Sync
  <1>9. CASE HistoryUp
    <2>1. (IF historyIdx > 1 THEN historyIdx - 1 ELSE historyIdx) \in 1..Len(history)
      BY <1>1, <1>3, <1>9 DEF HistoryUp, HistorySelect, Key
    <2> QED  BY <1>8, <1>9, <2>1 DEF HistoryUp
  <1>10. CASE HistoryDown
    <2>1. (IF historyIdx < Len(history) THEN historyIdx + 1 ELSE historyIdx)
            \in 1..Len(history)
      BY <1>1, <1>3, <1>10 DEF HistoryDown, HistorySelect, Key
    <2> QED  BY <1>8, <1>10, <2>1 DEF HistoryDown
  <1>11. CASE HistoryReplay
    BY <1>1, <1>2, <1>3, <1>11, SyncStep DEF HistoryReplay, Sync
  <1>12. CASE Scroll
    BY <1>12, ScrollStep
  <1>13. CASE Resize
    <2>1. PICK h \in Heights : height' = HistoryHeight(h)
      BY <1>13 DEF Resize
    <2>2. height' \in Nat /\ height' >= 2
      BY <2>1, HeightsAssumption, HistoryHeightFacts
    <2> DEFINE y == IF ready THEN yOffset ELSE 0
    <2>3. y \in Nat /\ SyncFrom(y)
      BY <1>1, <1>13 DEF Resize
    <2> HIDE DEF y
    <2>4. /\ history' = history /\ underWay' = underWay /\ focus' = focus
          /\ historyIdx' = historyIdx /\ busy' = busy /\ ready' = TRUE
      BY <1>13 DEF Resize
    <2> QED  BY <1>1, <1>3, <2>2, <2>3, <2>4, SyncStep
  <1>14. ASSUME NEW t \in underWay, RoundTripEnds(t) PROVE IndInv'
    <2>1. PICK e \in Entry : history' = Recorded(history, e)
      BY <1>14 DEF RoundTripEnds
    <2>2. /\ history' \in Seq(Entry) /\ Len(history) <= Len(history')
          /\ Len(history') <= MaxHistory
      BY <1>1, <2>1, RecordedFacts
    <2>3. /\ PanelUnchanged /\ focus' = focus /\ historyIdx' = historyIdx
          /\ busy' = busy /\ underWay' \subseteq {"health", "call"}
      BY <1>1, <1>14 DEF RoundTripEnds
    <2> QED  BY <1>1, <2>2, <2>3, PanelUnchangedStep
  <1>15. CASE PhotoUnreadable
    BY <1>1, <1>15, PanelUnchangedStep DEF PhotoUnreadable
  <1>16. CASE DeliverResult
    BY <1>1, <1>2, <1>3, <1>16, SyncStep DEF DeliverResult, Sync
  <1>17. CASE UNCHANGED vars
    BY <1>17 DEF vars, IndInv, TypeOK, ContentIsOfSelection, RoomForButton, SelectedInView
  <1> QED  BY <1>4, <1>5, <1>6, <1>7, <1>9, <1>10, <1>11, <1>12, <1>13, <1>14,
              <1>15, <1>16, <1>17 DEF Next

\* The invariant holds for every limit, every set of entries and of heights.
THEOREM Invariance == Spec => []IndInv
  BY IndInit, IndStep, PTL DEF Spec

-----------------------------------------------------------------------------
(***************************************************************************)
(* What the panel promises.                                                *)
(***************************************************************************)

\* The button of the content, while the panel has the focus, is where the entry
\* of the selection has its second line.
LEMMA ShownButton ==
  ASSUME IndInv, focus = "history"
  PROVE  LET lines == Content(shown)
             start == SelectedLines(shown).start
             size  == Len(Block(shown.entries[historyIdx], TRUE, busy))
         IN /\ start \in Nat /\ size \in Nat /\ size >= 2
            /\ Len(lines) \in Nat /\ start + size - 1 < Len(lines)
            /\ SelectedLines(shown).end = start + size - 1
            /\ \A n \in 0..(Len(lines) - 1) :
                 IF n = start + 1 THEN lines[n + 1] = Button(busy)
                                  ELSE lines[n + 1] \in {"summary", "text"}
  <1>1. shown \in Made /\ busy \in BOOLEAN
    BY DEF IndInv, TypeOK, Made
  <1>2. /\ historyIdx \in DOMAIN shown.entries
        /\ shown.selected = historyIdx /\ shown.busy = busy
    BY DEF IndInv, ContentIsOfSelection
  <1> DEFINE lines == Content(shown)
             start == SelectedLines(shown).start
             size  == Len(Block(shown.entries[shown.selected], TRUE, shown.busy))
  <1>3. /\ start \in Nat /\ size \in Nat /\ size >= 2
        /\ SelectedLines(shown).end = start + size - 1
        /\ SelectedLines(shown).end < Len(lines)
        /\ \A k \in 1..Len(lines) :
             IF k = start + 2 THEN lines[k] = Button(shown.busy)
                              ELSE lines[k] \in {"summary", "text"}
    BY <1>1, <1>2, ButtonLine
  <1>4. Len(lines) \in Nat
    BY <1>1, ContentFacts
  <1>5. size = Len(Block(shown.entries[historyIdx], TRUE, busy))
    BY <1>2
  <1> HIDE DEF lines, start, size
  <1>6. ASSUME NEW n \in 0..(Len(lines) - 1)
        PROVE  IF n = start + 1 THEN lines[n + 1] = Button(busy)
                                ELSE lines[n + 1] \in {"summary", "text"}
    <2>1. n + 1 \in 1..Len(lines) /\ (n + 1 = start + 2 <=> n = start + 1)
      BY <1>3, <1>4
    <2> QED  BY <1>2, <1>3, <2>1
  <1> QED  BY <1>3, <1>4, <1>5, <1>6 DEF lines, start

\* Of the two texts a button may have, the content has the one of the moment,
\* once, and not the other.
LEMMA ButtonIsOnce ==
  ASSUME IndInv, focus = "history"
  PROVE  LET at == SelectedLines(shown).start + 1
         IN /\ LinesOf(Button(busy)) = {at}
            /\ LinesOf(Button(~busy)) = {}
  <1> DEFINE lines == Content(shown)
             start == SelectedLines(shown).start
  <1>1. /\ start \in Nat /\ Len(lines) \in Nat /\ start + 1 < Len(lines)
        /\ \A n \in 0..(Len(lines) - 1) :
             IF n = start + 1 THEN lines[n + 1] = Button(busy)
                              ELSE lines[n + 1] \in {"summary", "text"}
    <2> DEFINE size == Len(Block(shown.entries[historyIdx], TRUE, busy))
    <2>1. /\ start \in Nat /\ size \in Nat /\ size >= 2
          /\ Len(lines) \in Nat /\ start + size - 1 < Len(lines)
          /\ \A n \in 0..(Len(lines) - 1) :
               IF n = start + 1 THEN lines[n + 1] = Button(busy)
                                ELSE lines[n + 1] \in {"summary", "text"}
      BY ShownButton
    <2> HIDE DEF size, lines, start
    <2> QED  BY <2>1
  <1>2. /\ Button(busy) # Button(~busy)
        /\ Button(busy) \notin {"summary", "text"}
        /\ Button(~busy) \notin {"summary", "text"}
    BY DEF Button
  <1>3. \A part : LinesOf(part) = {n \in 0..(Len(lines) - 1) : lines[n + 1] = part}
    BY DEF LinesOf
  <1> HIDE DEF lines, start
  <1>4. start + 1 \in 0..(Len(lines) - 1)
    BY <1>1
  <1>5. LinesOf(Button(busy)) = {start + 1}
    BY <1>1, <1>2, <1>3, <1>4
  <1>6. LinesOf(Button(~busy)) = {}
    BY <1>1, <1>2, <1>3, <1>4
  <1> QED  BY <1>5, <1>6 DEF start

\* What update.go says of syncHistoryViewport: the button of the selected entry
\* and the summary above it stay in view, and the whole entry if it fits,
\* whatever enters the history and however the window changes.
THEOREM SelectedIsShown == Spec => []SelectedOnScreen
  <1>1. IndInv => SelectedOnScreen
    <2> SUFFICES ASSUME IndInv, focus = "history", ready, ~scrolled
                 PROVE  SelectedOnScreen
        BY DEF SelectedOnScreen
    <2> DEFINE start == SelectedLines(shown).start
               size  == Len(Block(shown.entries[historyIdx], TRUE, busy))
               L     == Len(Content(shown))
    <2>1. /\ start \in Nat /\ size \in Nat /\ size >= 2 /\ L \in Nat
          /\ start + size - 1 < L /\ SelectedLines(shown).end = start + size - 1
      BY ShownButton
    <2>2. /\ yOffset <= start /\ start + 1 <= yOffset + height - 1
          /\ SelectedLines(shown).end - start + 1 <= height
               => SelectedLines(shown).end <= yOffset + height - 1
      BY DEF IndInv, SelectedInView, InView
    <2>3. historyIdx \in DOMAIN shown.entries /\ yOffset \in Nat /\ height \in Nat
      BY DEF IndInv, ContentIsOfSelection, TypeOK
    <2>4. \A n \in LinesOf("replay") \cup LinesOf("sending") : n = start + 1
      BY ButtonIsOnce DEF IndInv, TypeOK, Button
    <2>5. \A n : n \in Visible <=> n \in yOffset..(yOffset + height - 1) /\ n < L
      BY DEF Visible
    <2> HIDE DEF start, size, L
    <2>6. {start, start + 1} \subseteq Visible
      BY <2>1, <2>2, <2>3, <2>5
    <2>7. size <= height => start..(start + size - 1) \subseteq Visible
      BY <2>1, <2>2, <2>3, <2>5
    <2>8. ASSUME NEW n \in LinesOf("replay") \cup LinesOf("sending")
          PROVE  /\ {n - 1, n} \subseteq Visible
                 /\ size <= height => (n - 1)..(n + size - 2) \subseteq Visible
      <3>1. n - 1 = start /\ n = start + 1 /\ n + size - 2 = start + size - 1
        BY <2>1, <2>4
      <3> QED  BY <2>6, <2>7, <3>1
    <2> QED  BY <2>3, <2>8 DEF SelectedOnScreen, size
  <1> QED  BY <1>1, Invariance, PTL

\* A user on the panel finds one Replay button or one sending message, of the
\* entry the heading counts, and it says whether a replay is under way.
THEOREM OneButton == Spec => []ButtonTellsBusy
  <1>1. IndInv => ButtonTellsBusy
    <2> SUFFICES ASSUME IndInv, focus = "history" PROVE ButtonTellsBusy
        BY DEF ButtonTellsBusy
    <2>1. PICK at : LinesOf(Button(busy)) = {at} /\ LinesOf(Button(~busy)) = {}
      BY ButtonIsOnce
    <2>2. Cardinality({at}) = 1 /\ Cardinality({}) = 0
      BY FS_Singleton, FS_EmptySet
    <2>3. shown.selected = historyIdx /\ busy \in BOOLEAN
      BY DEF IndInv, ContentIsOfSelection, TypeOK
    <2>4. CASE busy
      <3>1. LinesOf("sending") = {at} /\ LinesOf("replay") = {}
        BY <2>1, <2>4 DEF Button
      <3> QED  BY <2>2, <2>3, <2>4, <3>1 DEF ButtonTellsBusy
    <2>5. CASE ~ busy
      <3>1. LinesOf("replay") = {at} /\ LinesOf("sending") = {}
        BY <2>1, <2>5 DEF Button
      <3> QED  BY <2>2, <2>3, <2>5, <3>1 DEF ButtonTellsBusy
    <2> QED  BY <2>4, <2>5
  <1> QED  BY <1>1, Invariance, PTL
=============================================================================
