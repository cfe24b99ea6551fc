------------------------------ MODULE Board_proofs ------------------------------
(***************************************************************************)
(* Why no client of the Board misses a message, why a last page is one,    *)
(* why a pass of the Doctor validates its prefix, and why the Board keeps  *)
(* what BoardLog promises, for any number of posters, readers, messages    *)
(* and page sizes.  The first half says what a query selects: an answer is *)
(* an interval of what is followed, its pages are intervals of it, and     *)
(* intervals that meet are an interval again.                              *)
(***************************************************************************)
EXTENDS Board, SequenceTheorems, WellFoundedInduction, TLAPS

\* Sequences of row numbers.
Ascends(s) == \A i, j \in 1..Len(s) : i < j => s[i] < s[j]
Members(s) == {s[i] : i \in 1..Len(s)}
AscendingSeq(s) == s \in Seq(Nat) /\ Ascends(s)

\* What induction over the naturals comes to here.
LEMMA LeastNatural ==
  ASSUME NEW T, T \subseteq Nat, T # {}
  PROVE  \E k \in T : \A j \in T : k <= j
  <1> DEFINE R == OpToRel(<, Nat)
  <1>1. IsWellFoundedOn(R, Nat) BY NatLessThanWellFounded
  <1>2. PICK k \in T : \A j \in T : <<j, k>> \notin R BY <1>1, WFMin
  <1>3. ASSUME NEW j \in T PROVE k <= j
    <2>1. ~(j < k) BY <1>2 DEF OpToRel
    <2> QED BY <2>1
  <1> QED BY <1>2, <1>3

\* An ascending sequence is determined by its members.
LEMMA AscendingUnique ==
  ASSUME NEW s, NEW t, AscendingSeq(s), AscendingSeq(t), Members(s) = Members(t)
  PROVE  s = t
  <1> DEFINE T == {k \in Nat : /\ k \in 1..Len(s) \/ k \in 1..Len(t)
                               /\ ~(k \in 1..Len(s) /\ k \in 1..Len(t) /\ s[k] = t[k])}
  <1>1. Len(s) \in Nat /\ Len(t) \in Nat BY DEF AscendingSeq
  <1>2. CASE T = {}
    <2>1. \A k \in 1..Len(s) : k \in 1..Len(t) /\ s[k] = t[k] BY <1>1, <1>2
    <2>2. \A k \in 1..Len(t) : k \in 1..Len(s) BY <1>1, <1>2
    <2>3. Len(s) = Len(t) BY <1>1, <2>1, <2>2
    <2> QED BY <2>1, <2>3, SeqEqual DEF AscendingSeq
  <1>3. CASE T # {}
    <2>1. PICK k \in T : \A j \in T : k <= j BY <1>3, LeastNatural
    <2>2. ASSUME NEW j \in 1..k-1
          PROVE  (j \in 1..Len(s) \/ j \in 1..Len(t)) => /\ j \in 1..Len(s)
                                                         /\ j \in 1..Len(t)
                                                         /\ s[j] = t[j]
      <3>1. j \in Nat /\ j < k BY <1>1, <2>1
      <3>2. j \notin T BY <2>1, <3>1
      <3> QED BY <3>1, <3>2
    <2>3. ASSUME NEW a, NEW b, AscendingSeq(a), AscendingSeq(b), Members(a) = Members(b),
                 k \in 1..Len(a), k \in 1..Len(b) => a[k] < b[k],
                 \A j \in 1..k-1 : j \in 1..Len(b) => /\ j \in 1..Len(a)
                                                      /\ a[j] = b[j]
          PROVE  FALSE
      <3>1. /\ Len(a) \in Nat /\ Len(b) \in Nat
            /\ \A i \in 1..Len(a) : a[i] \in Nat
            /\ \A i \in 1..Len(b) : b[i] \in Nat
        <4>1. a \in Seq(Nat) /\ b \in Seq(Nat) BY <2>3 DEF AscendingSeq
        <4> HIDE <2>3
        <4> QED BY <4>1
      <3>2. a[k] \in Members(b) BY <2>3 DEF Members
      <3>3. PICK j \in 1..Len(b) : a[k] = b[j] BY <3>2 DEF Members
      <3>4. CASE j < k
        <4>1. j \in 1..k-1 BY <3>1, <3>4, <2>3
        <4>2. j \in 1..Len(a) /\ a[j] = b[j] BY <2>3, <4>1
        <4>3. a[j] < a[k] BY <2>3, <3>4, <4>2 DEF AscendingSeq, Ascends
        <4> QED BY <3>1, <3>3, <4>2, <4>3, <2>3
      <3>5. CASE ~(j < k)
        <4>1. k \in 1..Len(b) BY <3>1, <3>5, <2>3
        <4>2. a[k] < b[k] BY <2>3, <4>1
        <4>3. k = j \/ b[k] < b[j] BY <2>3, <3>1, <3>5, <4>1 DEF AscendingSeq, Ascends
        <4> QED BY <3>1, <3>3, <4>1, <4>2, <4>3, <2>3
      <3> QED BY <3>4, <3>5
    <2>4. /\ k \in 1..Len(s) => s[k] \in Nat
          /\ k \in 1..Len(t) => t[k] \in Nat
      BY DEF AscendingSeq
    <2>5. CASE k \in 1..Len(s) /\ (k \in 1..Len(t) => s[k] < t[k])
      BY <2>5, <2>2, <2>3
    <2>6. CASE k \in 1..Len(t) /\ (k \in 1..Len(s) => t[k] < s[k])
      BY <2>6, <2>2, <2>3
    <2> QED BY <2>1, <2>4, <2>5, <2>6
  <1> QED BY <1>2, <1>3

----
\* What InOrder computes.

OrderStep(S, n, before) ==
  IF n = 0 THEN <<>> ELSE IF n \in S THEN Append(before[n - 1], n) ELSE before[n - 1]
OrderUpTo(S, last, f) == f = [n \in 0..last |-> OrderStep(S, n, f)]

\* The recursive function that InOrder chooses exists.
LEMMA OrderUpToExists ==
  ASSUME NEW S, NEW last \in Nat
  PROVE  \E f : OrderUpTo(S, last, f)
  <1> DEFINE T == {n \in Nat : ~ \E f : OrderUpTo(S, n, f)}
  <1>1. CASE T = {} BY <1>1
  <1>2. CASE T # {}
    <2>1. PICK k \in T : \A j \in T : k <= j BY <1>2, LeastNatural
    <2>2. CASE k = 0
      <3> DEFINE f == [n \in 0..0 |-> <<>>]
      <3>1. \A n \in 0..0 : OrderStep(S, n, f) = <<>> BY DEF OrderStep
      <3>2. f = [n \in 0..0 |-> OrderStep(S, n, f)] BY <3>1
      <3>3. OrderUpTo(S, 0, f) BY <3>2 DEF OrderUpTo
      <3> QED BY <2>1, <2>2, <3>3
    <2>3. CASE k # 0
      <3>1. k - 1 \in Nat /\ k \in Nat /\ ~(k <= k - 1) BY <2>1, <2>3
      <3>2. k - 1 \notin T BY <2>1, <3>1
      <3>3. PICK g : OrderUpTo(S, k - 1, g) BY <3>1, <3>2
      <3> DEFINE f == [n \in 0..k |-> OrderStep(S, n, g)]
      <3>4. g = [n \in 0..k-1 |-> OrderStep(S, n, g)] BY <3>3 DEF OrderUpTo
      <3>5. \A n \in 0..k-1 : f[n] = g[n]
        <4>1. \A n \in 0..k-1 : n \in 0..k BY <3>1
        <4>2. \A n \in 0..k-1 : g[n] = OrderStep(S, n, g) BY <3>4
        <4> QED BY <4>1, <4>2
      <3>6. \A n \in 0..k : OrderStep(S, n, f) = OrderStep(S, n, g)
        <4> TAKE n \in 0..k
        <4>1. n = 0 \/ n - 1 \in 0..k-1 BY <3>1
        <4>2. n = 0 \/ f[n-1] = g[n-1] BY <3>5, <4>1
        <4> HIDE DEF f
        <4> QED BY <4>2 DEF OrderStep
      <3>7. f = [n \in 0..k |-> OrderStep(S, n, f)]
        <4>1. f = [n \in 0..k |-> OrderStep(S, n, g)] OBVIOUS
        <4> HIDE DEF f
        <4> QED BY <4>1, <3>6
      <3> HIDE DEF f
      <3>8. OrderUpTo(S, k, f) BY <3>7 DEF OrderUpTo
      <3> QED BY <2>1, <3>8
    <2> QED BY <2>2, <2>3
  <1> QED BY <1>1, <1>2

\* InOrder(S, last) has the members of S up to last, in ascending order.
LEMMA InOrderAscends ==
  ASSUME NEW S, NEW last \in Nat
  PROVE  AscendingSeq(InOrder(S, last)) /\ Members(InOrder(S, last)) = S \cap 1..last
  <1> DEFINE f == CHOOSE g : OrderUpTo(S, last, g)
  <1>2. OrderUpTo(S, last, f) BY OrderUpToExists
  <1>3. InOrder(S, last) = f[last] BY DEF InOrder, OrderUpTo, OrderStep
  <1> HIDE DEF f
  <1> DEFINE Good(n) == AscendingSeq(f[n]) /\ Members(f[n]) = S \cap 1..n
             T == {n \in Nat : n \in 0..last /\ ~Good(n)}
  <1>4. ASSUME NEW n \in 0..last PROVE f[n] = OrderStep(S, n, f) BY <1>2 DEF OrderUpTo
  <1>5. Good(0)
    <2>1. f[0] = <<>> BY <1>4 DEF OrderStep
    <2> QED BY <2>1 DEF AscendingSeq, Ascends, Members
  <1>6. ASSUME NEW n \in 1..last, Good(n - 1) PROVE Good(n)
    <2> DEFINE e == f[n - 1]
    <2>1. AscendingSeq(e) /\ Members(e) = S \cap 1..n-1 BY <1>6
    <2>2. f[n] = IF n \in S THEN Append(e, n) ELSE e
      <3>1. n \in 0..last /\ n # 0 OBVIOUS
      <3> QED BY <1>4, <3>1 DEF OrderStep
    <2> HIDE DEF e
    <2>3. 1..n = 1..n-1 \cup {n} OBVIOUS
    <2>4. CASE n \notin S
      <3>1. S \cap 1..n = S \cap 1..n-1 BY <2>3, <2>4
      <3> QED BY <2>1, <2>2, <2>4, <3>1
    <2>5. CASE n \in S
      <3>1. f[n] = Append(e, n) BY <2>2, <2>5
      <3>2. e \in Seq(Nat) /\ n \in Nat BY <2>1 DEF AscendingSeq
      <3> DEFINE g == Append(e, n)
      <3>3. /\ g \in Seq(Nat) /\ Len(e) \in Nat /\ Len(g) = Len(e) + 1
            /\ g[Len(e) + 1] = n
            /\ \A i \in 1..Len(e) : g[i] = e[i]
        BY <3>2
      <3> HIDE DEF g
      <3>4. \A i \in 1..Len(e) : e[i] < n
        <4> TAKE i \in 1..Len(e)
        <4>1. e[i] \in Members(e) BY DEF Members
        <4> QED BY <2>1, <4>1
      <3>5. Ascends(g)
        <4> SUFFICES ASSUME NEW i \in 1..Len(g), NEW j \in 1..Len(g), i < j
                     PROVE  g[i] < g[j]
          BY DEF Ascends
        <4>1. i \in 1..Len(e) BY <3>3
        <4>2. CASE j = Len(e) + 1 BY <3>3, <3>4, <4>1, <4>2
        <4>3. CASE j # Len(e) + 1
          <5>1. j \in 1..Len(e)
            <6>1. Len(e) \in Nat /\ Len(g) = Len(e) + 1 BY <3>3
            <6> QED BY <6>1, <4>3
          <5>2. e[i] < e[j] BY <2>1, <4>1, <5>1 DEF AscendingSeq, Ascends
          <5> QED BY <3>3, <4>1, <5>1, <5>2
        <4> QED BY <4>2, <4>3
      <3>6. Members(g) = Members(e) \cup {n}
        <4>1. \A i \in 1..Len(g) : i \in 1..Len(e) \/ i = Len(e) + 1 BY <3>3
        <4>2. Len(e) + 1 \in 1..Len(g) /\ \A i \in 1..Len(e) : i \in 1..Len(g) BY <3>3
        <4> QED BY <3>3, <4>1, <4>2 DEF Members
      <3>7. f[n] = g BY <3>1 DEF g
      <3>8. S \cap 1..n = (S \cap 1..n-1) \cup {n} BY <2>3, <2>5
      <3> QED BY <2>1, <3>3, <3>5, <3>6, <3>7, <3>8 DEF AscendingSeq
    <2> QED BY <2>4, <2>5
  <1>7. T = {}
    <2> SUFFICES ASSUME T # {} PROVE FALSE OBVIOUS
    <2>1. PICK k \in T : \A j \in T : k <= j BY LeastNatural
    <2>2. k \in 1..last BY <1>5, <2>1
    <2>3. k - 1 \in Nat /\ k - 1 \in 0..last /\ ~(k <= k - 1) BY <2>2
    <2>4. k - 1 \notin T BY <2>1, <2>3
    <2>5. Good(k - 1) BY <2>3, <2>4
    <2>6. Good(k) BY <1>6, <2>2, <2>5
    <2> QED BY <2>1, <2>6
  <1>8. Good(last) BY <1>7
  <1> QED BY <1>3, <1>8

----
\* What a query selects, as a function of the log.

Wanted(l, q, a, b) == {i \in a + 1..b : Matches(q, l[i])}
Sel(l, q, a, b) == InOrder(Wanted(l, q, a, b), b)

LEMMA SelFacts ==
  ASSUME NEW l, NEW q, NEW a \in Nat, NEW b \in Nat
  PROVE  /\ AscendingSeq(Sel(l, q, a, b))
         /\ Members(Sel(l, q, a, b)) = Wanted(l, q, a, b)
  <1> DEFINE S == Wanted(l, q, a, b)
  <1>1. S \cap 1..b = S BY DEF Wanted
  <1> HIDE DEF S
  <1>2. AscendingSeq(InOrder(S, b)) /\ Members(InOrder(S, b)) = S BY <1>1, InOrderAscends
  <1> QED BY <1>2 DEF Sel, S

\* An ascending sequence whose members are those a query selects is its answer.
LEMMA SelUnique ==
  ASSUME NEW l, NEW q, NEW a \in Nat, NEW b \in Nat, NEW s, AscendingSeq(s),
         Members(s) = Wanted(l, q, a, b)
  PROVE  s = Sel(l, q, a, b)
  <1> DEFINE t == Sel(l, q, a, b)
  <1>1. AscendingSeq(t) /\ Members(t) = Wanted(l, q, a, b) BY SelFacts
  <1> HIDE DEF t
  <1>2. Members(s) = Members(t) BY <1>1
  <1>3. s = t BY <1>1, <1>2, AscendingUnique
  <1> QED BY <1>3 DEF t

LEMMA SelEmpty ==
  ASSUME NEW l, NEW q, NEW a \in Nat, NEW b \in Nat, b <= a
  PROVE  Sel(l, q, a, b) = <<>>
  <1> DEFINE t == Sel(l, q, a, b)
  <1>1. AscendingSeq(t) /\ Members(t) = Wanted(l, q, a, b) BY SelFacts
  <1> HIDE DEF t
  <1>2. Members(t) = {} BY <1>1 DEF Wanted
  <1>3. t \in Seq(Nat) /\ Len(t) \in Nat BY <1>1 DEF AscendingSeq
  <1>4. Len(t) = 0
    <2> SUFFICES ASSUME Len(t) # 0 PROVE FALSE OBVIOUS
    <2>1. t[1] \in Members(t) BY <1>3 DEF Members
    <2> QED BY <2>1, <1>2
  <1> QED BY <1>3, <1>4 DEF t

LEMMA SelElements ==
  ASSUME NEW l, NEW q, NEW a \in Nat, NEW b \in Nat
  PROVE  /\ Sel(l, q, a, b) \in Seq(Nat)
         /\ Len(Sel(l, q, a, b)) \in Nat
         /\ \A k \in 1..Len(Sel(l, q, a, b)) :
              Sel(l, q, a, b)[k] \in a + 1..b /\ Matches(q, l[Sel(l, q, a, b)[k]])
  <1> DEFINE s == Sel(l, q, a, b)
  <1>1. AscendingSeq(s) /\ Members(s) = Wanted(l, q, a, b) BY SelFacts
  <1> HIDE DEF s
  <1>2. s \in Seq(Nat) /\ Len(s) \in Nat BY <1>1 DEF AscendingSeq
  <1>3. \A k \in 1..Len(s) : s[k] \in Members(s) BY DEF Members
  <1>4. \A k \in 1..Len(s) : s[k] \in a + 1..b /\ Matches(q, l[s[k]])
    BY <1>1, <1>3 DEF Wanted
  <1> QED BY <1>2, <1>4 DEF s

\* Two answers that meet are one.
LEMMA SelJoin ==
  ASSUME NEW l, NEW q, NEW a \in Nat, NEW b \in Nat, NEW c \in Nat, a <= b, b <= c
  PROVE  Sel(l, q, a, b) \o Sel(l, q, b, c) = Sel(l, q, a, c)
  <1> DEFINE s == Sel(l, q, a, b)
             t == Sel(l, q, b, c)
             u == s \o t
  <1>1. /\ AscendingSeq(s) /\ Members(s) = Wanted(l, q, a, b)
        /\ AscendingSeq(t) /\ Members(t) = Wanted(l, q, b, c)
    <2>1. AscendingSeq(s) /\ Members(s) = Wanted(l, q, a, b) BY SelFacts
    <2>2. AscendingSeq(t) /\ Members(t) = Wanted(l, q, b, c) BY SelFacts
    <2> QED BY <2>1, <2>2
  <1>2. /\ \A k \in 1..Len(s) : s[k] \in a + 1..b
        /\ \A k \in 1..Len(t) : t[k] \in b + 1..c
    BY SelElements
  <1>3. s \in Seq(Nat) /\ t \in Seq(Nat) BY <1>1 DEF AscendingSeq
  <1> HIDE DEF s, t
  <1>4. /\ u \in Seq(Nat) /\ Len(u) = Len(s) + Len(t) /\ Len(s) \in Nat /\ Len(t) \in Nat
        /\ \A k \in 1..Len(s) : u[k] = s[k]
        /\ \A k \in Len(s) + 1..Len(u) : u[k] = t[k - Len(s)]
    BY <1>3
  <1> HIDE DEF u
  <1>5. Ascends(u)
    <2> SUFFICES ASSUME NEW i \in 1..Len(u), NEW j \in 1..Len(u), i < j PROVE u[i] < u[j]
      BY DEF Ascends
    <2>1. CASE j <= Len(s)
      <3>1. i \in 1..Len(s) /\ j \in 1..Len(s) BY <1>4, <2>1
      <3>2. s[i] < s[j] BY <3>1, <1>1 DEF AscendingSeq, Ascends
      <3> QED BY <3>1, <3>2, <1>4
    <2>2. CASE i > Len(s)
      <3>1. i - Len(s) \in 1..Len(t) /\ j - Len(s) \in 1..Len(t) /\ i - Len(s) < j - Len(s)
        BY <1>4, <2>2
      <3>2. t[i - Len(s)] < t[j - Len(s)] BY <3>1, <1>1 DEF AscendingSeq, Ascends
      <3>3. i \in Len(s) + 1..Len(u) /\ j \in Len(s) + 1..Len(u) BY <1>4, <2>2
      <3> QED BY <3>2, <3>3, <1>4
    <2>3. CASE i <= Len(s) /\ j > Len(s)
      <3>1. i \in 1..Len(s) /\ j \in Len(s) + 1..Len(u) /\ j - Len(s) \in 1..Len(t)
        BY <1>4, <2>3
      <3>2. u[i] \in a + 1..b /\ u[j] \in b + 1..c BY <3>1, <1>2, <1>4
      <3> QED BY <3>2
    <2> QED BY <1>4, <2>1, <2>2, <2>3
  <1>6. Members(u) = Members(s) \cup Members(t)
    <2>1. ASSUME NEW i \in 1..Len(u) PROVE u[i] \in Members(s) \cup Members(t)
      <3>1. i \in 1..Len(s) \/ (i \in Len(s) + 1..Len(u) /\ i - Len(s) \in 1..Len(t)) BY <1>4
      <3> QED BY <3>1, <1>4 DEF Members
    <2>2. ASSUME NEW i \in 1..Len(s) PROVE s[i] \in Members(u)
      <3>1. i \in 1..Len(u) /\ u[i] = s[i] BY <1>4
      <3> QED BY <3>1 DEF Members
    <2>3. ASSUME NEW i \in 1..Len(t) PROVE t[i] \in Members(u)
      <3>1. /\ i + Len(s) \in 1..Len(u) /\ i + Len(s) \in Len(s) + 1..Len(u)
            /\ (i + Len(s)) - Len(s) = i
        BY <1>4
      <3>2. u[i + Len(s)] = t[i] BY <3>1, <1>4
      <3> QED BY <3>1, <3>2 DEF Members
    <2> QED BY <2>1, <2>2, <2>3 DEF Members
  <1>7. Members(u) = Wanted(l, q, a, c)
    <2>1. \A i : i \in a + 1..c <=> i \in a + 1..b \/ i \in b + 1..c OBVIOUS
    <2> QED BY <1>1, <1>6, <2>1 DEF Wanted
  <1>8. AscendingSeq(u) BY <1>4, <1>5 DEF AscendingSeq
  <1>9. u = Sel(l, q, a, c) BY <1>7, <1>8, SelUnique
  <1> QED BY <1>9 DEF u, s, t

\* The first rows of an answer are the answer up to the last of them, and the
\* last rows the answer from the first of them on.
Slice(l, q, a, b, rows, i, j, s) ==
  /\ rows[i] \in a + 1..b /\ rows[j] \in rows[i]..b
  /\ s \in Seq(Nat) /\ Len(s) = j - i + 1
  /\ \A k \in 1..j - i + 1 : s[k] = rows[i + k - 1]
  /\ \A lo, hi \in Nat :
       (lo = rows[i] - 1 \/ (i = 1 /\ lo = a)) /\ (hi = rows[j] \/ (j = Len(rows) /\ hi = b))
         => s = Sel(l, q, lo, hi)

\* A run of an answer is what the query selects between its ends.
LEMMA SelSlice ==
  ASSUME NEW l, NEW q, NEW a \in Nat, NEW b \in Nat, NEW rows, rows = Sel(l, q, a, b),
         NEW i, NEW j, i \in 1..Len(rows), j \in i..Len(rows)
  PROVE  Slice(l, q, a, b, rows, i, j, SubSeq(rows, i, j))
  <1> DEFINE s == SubSeq(rows, i, j)
  <1>1. /\ AscendingSeq(rows) /\ Members(rows) = Wanted(l, q, a, b)
        /\ \A k \in 1..Len(rows) : rows[k] \in a + 1..b
    <2>1. AscendingSeq(rows) /\ Members(rows) = Wanted(l, q, a, b) BY SelFacts
    <2>2. \A k \in 1..Len(rows) : rows[k] \in Members(rows) BY DEF Members
    <2> QED BY <2>1, <2>2 DEF Wanted
  <1>2. rows \in Seq(Nat) /\ Len(rows) \in Nat BY <1>1 DEF AscendingSeq
  <1>3. /\ s \in Seq(Nat) /\ Len(s) = j - i + 1
        /\ \A k \in 1..j - i + 1 : s[k] = rows[i + k - 1]
    <2>1. i \in Int /\ j \in Int /\ 1 <= i /\ i <= j /\ j <= Len(rows) BY <1>2
    <2>2. \A k \in i..j : rows[k] \in Nat BY <1>2, <2>1
    <2> QED BY <2>1, <2>2, SubSeqProperties
  <1> HIDE DEF s
  <1>4. AscendingSeq(s)
    <2>1. ASSUME NEW m \in 1..Len(s), NEW n \in 1..Len(s), m < n PROVE s[m] < s[n]
      <3>1. /\ m \in 1..j - i + 1 /\ n \in 1..j - i + 1
            /\ i + m - 1 \in 1..Len(rows) /\ i + n - 1 \in 1..Len(rows)
            /\ i + m - 1 < i + n - 1
        <4>1. m \in 1..j - i + 1 /\ n \in 1..j - i + 1 BY <1>3
        <4>2. i \in Nat /\ j \in Nat /\ 1 <= i /\ i <= j /\ j <= Len(rows) BY <1>2
        <4> QED BY <4>1, <4>2, <1>2, <2>1
      <3>2. rows[i + m - 1] < rows[i + n - 1] BY <3>1, <1>1 DEF AscendingSeq, Ascends
      <3> QED BY <3>1, <3>2, <1>3
    <2> QED BY <2>1, <1>3 DEF AscendingSeq, Ascends
  <1>5. \A m, n \in 1..Len(rows) : m <= n <=> rows[m] <= rows[n]
    <2> SUFFICES ASSUME NEW m \in 1..Len(rows), NEW n \in 1..Len(rows)
                 PROVE  m <= n <=> rows[m] <= rows[n]
      OBVIOUS
    <2>1. rows[m] \in Nat /\ rows[n] \in Nat BY <1>2
    <2>2. m < n => rows[m] < rows[n] BY <1>1 DEF AscendingSeq, Ascends
    <2>3. n < m => rows[n] < rows[m] BY <1>1 DEF AscendingSeq, Ascends
    <2> QED BY <1>2, <2>1, <2>2, <2>3
  <1>6. i \in 1..Len(rows) /\ j \in 1..Len(rows) BY <1>2
  <1>7. rows[i] \in a + 1..b /\ rows[j] \in a + 1..b /\ rows[i] <= rows[j] BY <1>1, <1>5, <1>6
  <1>8. \A x : x \in Members(s) <=> x \in Members(rows) /\ rows[i] <= x /\ x <= rows[j]
    <2>1. ASSUME NEW x \in Members(s)
          PROVE  x \in Members(rows) /\ rows[i] <= x /\ x <= rows[j]
      <3>1. PICK k \in 1..j - i + 1 : x = s[k] BY <1>3, <2>1 DEF Members
      <3>2. i + k - 1 \in 1..Len(rows) /\ i <= i + k - 1 /\ i + k - 1 <= j BY <1>2
      <3>3. x = rows[i + k - 1] BY <3>1, <1>3
      <3> QED BY <3>2, <3>3, <1>5, <1>6 DEF Members
    <2>2. ASSUME NEW x \in Members(rows), rows[i] <= x, x <= rows[j]
          PROVE  x \in Members(s)
      <3>1. PICK k \in 1..Len(rows) : x = rows[k] BY DEF Members
      <3>2. i <= k /\ k <= j BY <1>5, <1>6, <2>2, <3>1
      <3>3. k - i + 1 \in 1..j - i + 1 /\ i + (k - i + 1) - 1 = k BY <3>2, <1>2
      <3>4. s[k - i + 1] = rows[k] BY <3>3, <1>3
      <3> QED BY <3>1, <3>3, <3>4, <1>3 DEF Members
    <2> QED BY <2>1, <2>2
  <1>9. ASSUME NEW x \in Members(rows)
        PROVE  (i = 1 => rows[i] <= x) /\ (j = Len(rows) => x <= rows[j]) /\ x \in a + 1..b
    <2>1. PICK k \in 1..Len(rows) : x = rows[k] BY DEF Members
    <2>2. 1 <= k /\ k <= Len(rows) BY <1>2
    <2> QED BY <2>1, <2>2, <1>1, <1>5, <1>6
  <1>10. ASSUME NEW lo \in Nat, NEW hi \in Nat,
                lo = rows[i] - 1 \/ (i = 1 /\ lo = a),
                hi = rows[j] \/ (j = Len(rows) /\ hi = b)
         PROVE  s = Sel(l, q, lo, hi)
    <2>1. ASSUME NEW x
          PROVE  x \in Members(s) <=> x \in Wanted(l, q, lo, hi)
      <3>1. x \in Members(rows) <=> x \in a + 1..b /\ Matches(q, l[x]) BY <1>1 DEF Wanted
      <3>2. x \in lo + 1..hi => x \in a + 1..b BY <1>7, <1>10
      <3>3. x \in Members(s) => x \in lo + 1..hi BY <1>7, <1>8, <1>9, <1>10
      <3>4. x \in Members(rows) /\ x \in lo + 1..hi => rows[i] <= x /\ x <= rows[j]
        BY <1>7, <1>9, <1>10
      <3> QED BY <3>1, <3>2, <3>3, <3>4, <1>8 DEF Wanted
    <2>2. Members(s) = Wanted(l, q, lo, hi) BY <2>1
    <2> QED BY <2>2, <1>4, SelUnique
  <1>11. rows[j] \in rows[i]..b BY <1>7
  <1>12. Slice(l, q, a, b, rows, i, j, s) BY <1>3, <1>7, <1>10, <1>11 DEF Slice
  <1> QED BY <1>12 DEF s

\* An answer up to b does not change when the log grows after b.
LEMMA SelGrown ==
  ASSUME NEW l, NEW k, \A i \in 1..Len(l) : k[i] = l[i], Len(l) \in Nat,
         NEW q, NEW a \in Nat, NEW b \in 0..Len(l)
  PROVE  Sel(k, q, a, b) = Sel(l, q, a, b)
  <1>1. \A i \in a + 1..b : k[i] = l[i] OBVIOUS
  <1>2. Wanted(k, q, a, b) = Wanted(l, q, a, b) BY <1>1 DEF Wanted
  <1> QED BY <1>2 DEF Sel

\* Without a filter the first row is the next one.
LEMMA SelEverything ==
  ASSUME NEW l, NEW a \in Nat, NEW b \in Nat, a < b
  PROVE  /\ Sel(l, Everything, a, b) # <<>>
         /\ Sel(l, Everything, a, b)[1] = a + 1
  <1> DEFINE s == Sel(l, Everything, a, b)
  <1>1. AscendingSeq(s) /\ Members(s) = Wanted(l, Everything, a, b) BY SelFacts
  <1>2. a + 1 \in Wanted(l, Everything, a, b) BY DEF Wanted, Matches, Everything
  <1>3. \A k \in 1..Len(s) : s[k] \in a + 1..b BY SelElements
  <1>4. s \in Seq(Nat) BY <1>1 DEF AscendingSeq
  <1> HIDE DEF s
  <1>5. PICK k \in 1..Len(s) : s[k] = a + 1 BY <1>1, <1>2 DEF Members
  <1>6. Len(s) \in Nat /\ 1 \in 1..Len(s) BY <1>4
  <1>7. s[1] \in a + 1..b BY <1>3, <1>6
  <1>8. k = 1 \/ s[1] < s[k] BY <1>1, <1>5, <1>6 DEF AscendingSeq, Ascends
  <1>9. s[1] = a + 1 BY <1>5, <1>7, <1>8
  <1>10. s # <<>> BY <1>6
  <1> QED BY <1>9, <1>10 DEF s

\* The first page of an answer.
FirstRows(rows, k) == SubSeq(rows, 1, Least(k, Len(rows)))

FirstPage(l, q, a, b, rows, k, page) ==
  /\ page \in Seq(Nat) /\ Len(page) = Least(k, Len(rows)) /\ Len(rows) \in Nat
  /\ page # <<>> => /\ Len(page) \in 1..Len(rows)
                    /\ page[Len(page)] \in a + 1..b
                    /\ page = Sel(l, q, a, page[Len(page)])
  /\ Len(rows) <= k => page = rows

LEMMA FirstRowsOf ==
  ASSUME NEW l, NEW q, NEW a \in Nat, NEW b \in Nat, NEW rows, rows = Sel(l, q, a, b),
         NEW k \in Nat
  PROVE  FirstPage(l, q, a, b, rows, k, FirstRows(rows, k))
  <1> DEFINE page == FirstRows(rows, k)
  <1>0. page = FirstRows(rows, k) OBVIOUS
  <1> HIDE DEF page
  <1> SUFFICES FirstPage(l, q, a, b, rows, k, page) BY <1>0
  <1>1. rows \in Seq(Nat) /\ Len(rows) \in Nat BY SelElements
  <1>2. CASE Least(k, Len(rows)) = 0
    <2>1. page = <<>> BY <1>0, <1>2, SubSeqEmpty DEF FirstRows
    <2>2. Len(rows) <= k => Len(rows) = 0 BY <1>1, <1>2 DEF Least
    <2>3. Len(rows) <= k => rows = <<>> BY <1>1, <2>2
    <2>4. page \in Seq(Nat) /\ Len(page) = 0 BY <2>1
    <2> QED BY <1>1, <1>2, <2>1, <2>3, <2>4 DEF FirstPage
  <1>3. CASE Least(k, Len(rows)) # 0
    <2> DEFINE j == Least(k, Len(rows))
               i == 1
    <2>1. /\ i \in 1..Len(rows) /\ j \in i..Len(rows) /\ j \in 1..Len(rows) /\ j \in Nat
          /\ Len(rows) <= k => j = Len(rows)
      BY <1>1, <1>3 DEF Least
    <2>2. page = SubSeq(rows, i, j) /\ i = 1 BY <1>0 DEF FirstRows
    <2> HIDE DEF i, j
    <2>s. Slice(l, q, a, b, rows, i, j, page) BY <2>1, <2>2, SelSlice
    <2>3. /\ rows[i] \in a + 1..b /\ rows[j] \in rows[i]..b
          /\ page \in Seq(Nat) /\ Len(page) = j - i + 1
          /\ \A m \in 1..j - i + 1 : page[m] = rows[i + m - 1]
      BY <2>s DEF Slice
    <2>l. \A lo, hi \in Nat :
            (lo = rows[i] - 1 \/ (i = 1 /\ lo = a)) /\ (hi = rows[j] \/ (j = Len(rows) /\ hi = b))
              => page = Sel(l, q, lo, hi)
      BY <2>s DEF Slice
    <2>4. Len(page) = j /\ page[j] = rows[j]
      <3>1. j - i + 1 = j /\ i + j - 1 = j /\ j \in 1..j BY <2>1, <2>2
      <3> QED BY <2>3, <3>1
    <2>5. rows[j] \in Nat /\ rows[j] \in a + 1..b BY <2>3
    <2>6. page = Sel(l, q, a, rows[j]) BY <2>2, <2>l, <2>5
    <2>7. j = Len(rows) => page = Sel(l, q, a, b) BY <2>2, <2>l
    <2> QED BY <1>1, <2>1, <2>3, <2>4, <2>5, <2>6, <2>7 DEF j, FirstPage
  <1> QED BY <1>2, <1>3

\* The newest window of an answer.
LastRows(rows, k) == SubSeq(rows, Greatest(1, Len(rows) - k + 1), Len(rows))

Window(l, q, b, page) ==
  /\ page \in Seq(Nat)
  /\ \E from \in 0..b : page = Sel(l, q, from, b)
  /\ page # <<>> => /\ page[Len(page)] \in 1..b
                    /\ \E from \in 0..page[Len(page)] :
                         page = Sel(l, q, from, page[Len(page)])

LEMMA LastRowsOf ==
  ASSUME NEW l, NEW q, NEW b \in Nat, NEW rows, rows = Sel(l, q, 0, b), NEW k \in Nat \ {0}
  PROVE  Window(l, q, b, LastRows(rows, k))
  <1> DEFINE page == LastRows(rows, k)
  <1>0. page = LastRows(rows, k) OBVIOUS
  <1> HIDE DEF page
  <1> SUFFICES Window(l, q, b, page) BY <1>0
  <1>1. rows \in Seq(Nat) /\ Len(rows) \in Nat BY SelElements
  <1>2. CASE Len(rows) = 0
    <2> DEFINE first == Greatest(1, Len(rows) - k + 1)
    <2>1. first \in Int /\ 0 < first BY <1>2 DEF Greatest
    <2>2. page = SubSeq(rows, first, 0) BY <1>0, <1>2 DEF LastRows
    <2> HIDE DEF first
    <2>3. page = <<>> BY <2>1, <2>2, SubSeqEmpty
    <2>4. rows = <<>> BY <1>1, <1>2
    <2>5. 0 \in 0..b /\ page = Sel(l, q, 0, b) BY <2>3, <2>4
    <2>6. <<>> \in Seq(Nat) OBVIOUS
    <2>7. page \in Seq(Nat) BY <2>3, <2>6
    <2> QED BY <2>3, <2>5, <2>7 DEF Window
  <1>3. CASE Len(rows) # 0
    <2> DEFINE i == Greatest(1, Len(rows) - k + 1)
               n == Len(rows)
               a == 0
    <2>1. /\ i \in 1..Len(rows) /\ n \in i..Len(rows) /\ i \in 1..n
          /\ i \in Nat /\ n \in Nat /\ a \in Nat
      BY <1>1, <1>3 DEF Greatest
    <2>2. page = SubSeq(rows, i, n) /\ rows = Sel(l, q, a, b) BY <1>0 DEF LastRows
    <2>n. n = Len(rows) /\ a = 0 OBVIOUS
    <2> HIDE DEF i, n, a
    <2>s. Slice(l, q, a, b, rows, i, n, page) BY <2>1, <2>2, SelSlice
    <2>3. /\ rows[i] \in a + 1..b /\ rows[n] \in rows[i]..b
          /\ page \in Seq(Nat) /\ Len(page) = n - i + 1
          /\ \A m \in 1..n - i + 1 : page[m] = rows[i + m - 1]
      BY <2>s DEF Slice
    <2>l. \A lo, hi \in Nat :
            (lo = rows[i] - 1 \/ (i = 1 /\ lo = a)) /\ (hi = rows[n] \/ (n = Len(rows) /\ hi = b))
              => page = Sel(l, q, lo, hi)
      BY <2>s DEF Slice
    <2>4. page[Len(page)] = rows[n]
      <3>1. n - i + 1 \in 1..n - i + 1 /\ i + (n - i + 1) - 1 = n BY <2>1
      <3> QED BY <2>3, <3>1
    <2> DEFINE lo == rows[i] - 1
    <2>5. lo \in 0..b /\ lo \in 0..rows[n] /\ lo \in Nat /\ rows[n] \in 1..b /\ rows[n] \in Nat
      BY <2>3, <2>n
    <2>6. page = Sel(l, q, lo, b) /\ page = Sel(l, q, lo, rows[n]) BY <2>l, <2>5, <2>n
    <2> HIDE DEF lo
    <2> QED BY <2>3, <2>4, <2>5, <2>6 DEF Window
  <1> QED BY <1>2, <1>3

RowsOf(page) == {page[i] : i \in DOMAIN page}
Kept(l, a, cut, kept) ==
  /\ kept \in Seq(Nat)
  /\ kept = <<>> => cut <= a
  /\ kept # <<>> => /\ kept[Len(kept)] \in a + 1..cut
                    /\ kept = Sel(l, Everything, a, kept[Len(kept)])

\* What the Doctor keeps of a page of the whole Board is the Board up to the last
\* message it keeps; it keeps none only when its cursor is at the boundary.
LEMMA KeptOfPage ==
  ASSUME NEW l, NEW a \in Nat, NEW b \in Nat, NEW cut \in 0..b, NEW k \in Nat \ {0},
         NEW page, page = FirstRows(Sel(l, Everything, a, b), k),
         NEW kept, kept = InOrder(RowsOf(page), cut)
  PROVE  Kept(l, a, cut, kept)
  <1> USE DEF Kept
  <1> DEFINE rows == Sel(l, Everything, a, b)
             S == RowsOf(page)
  <1>1. page = FirstRows(rows, k) /\ rows = Sel(l, Everything, a, b) OBVIOUS
  <1>2. a < b => rows # <<>> /\ rows[1] = a + 1 BY SelEverything
  <1>3. cut \in Nat /\ cut <= b OBVIOUS
  <1> HIDE DEF rows
  <1>4. /\ page \in Seq(Nat) /\ Len(page) = Least(k, Len(rows)) /\ Len(rows) \in Nat
        /\ page # <<>> => /\ Len(page) \in 1..Len(rows)
                          /\ page[Len(page)] \in a + 1..b
                          /\ page = Sel(l, Everything, a, page[Len(page)])
    <2>1. k \in Nat OBVIOUS
    <2>2. FirstPage(l, Everything, a, b, rows, k, page) BY <1>1, <2>1, FirstRowsOf
    <2> QED BY <2>2 DEF FirstPage
  <1>5. S = Members(page)
    <2>1. DOMAIN page = 1..Len(page) BY <1>4
    <2> QED BY <2>1 DEF Members, RowsOf
  <1> HIDE DEF S
  <1>6. kept = InOrder(S, cut) BY DEF S
  <1>7. AscendingSeq(kept) /\ Members(kept) = S \cap 1..cut
    <2>1. AscendingSeq(InOrder(S, cut)) /\ Members(InOrder(S, cut)) = S \cap 1..cut
      BY <1>3, InOrderAscends
    <2> QED BY <1>6, <2>1
  <1>8. kept \in Seq(Nat) /\ Len(kept) \in Nat BY <1>7 DEF AscendingSeq
  <1>9. CASE page = <<>>
    <2>1. Len(page) = 0 BY <1>9
    <2>2. Len(rows) = 0 BY <1>4, <2>1 DEF Least
    <2>3. ~(a < b) BY <1>1, <1>2, <2>2, <1>4, SelElements
    <2>4. Members(kept) = {}
      <3>1. Members(page) = {} BY <2>1 DEF Members
      <3> QED BY <1>5, <1>7, <3>1
    <2>5. kept = <<>>
      <3> SUFFICES ASSUME Len(kept) # 0 PROVE FALSE BY <1>8
      <3>1. 1 \in 1..Len(kept) BY <1>8
      <3>2. kept[1] \in Members(kept) BY <3>1 DEF Members
      <3> QED BY <2>4, <3>2
    <2>6. cut <= a BY <1>3, <2>3
    <2> QED BY <1>8, <2>5, <2>6
  <1>10. CASE page # <<>>
    <2> DEFINE last == page[Len(page)]
    <2>1. last \in a + 1..b /\ last \in Nat /\ page = Sel(l, Everything, a, last) BY <1>4, <1>10
    <2> HIDE DEF last
    <2>2. Members(page) = Wanted(l, Everything, a, last) BY <2>1, SelFacts
    <2>3. \A x : x \in Members(kept) <=> x \in a + 1..last /\ x <= cut
      <3>1. \A x : x \in Wanted(l, Everything, a, last) <=> x \in a + 1..last
        BY DEF Wanted, Matches, Everything
      <3> QED BY <1>3, <1>5, <1>7, <2>1, <2>2, <3>1
    <2>4. CASE kept = <<>>
      <3>1. Len(kept) = 0 BY <2>4
      <3>2. a + 1 \notin Members(kept) BY <3>1 DEF Members
      <3>3. ~(a + 1 <= cut) BY <2>1, <2>3, <3>2
      <3>4. cut <= a BY <1>3, <3>3
      <3> QED BY <1>8, <2>4, <3>4
    <2>5. CASE kept # <<>>
      <3> DEFINE top == kept[Len(kept)]
      <3>1. Len(kept) \in 1..Len(kept) BY <1>8, <2>5
      <3>2. top \in Members(kept) BY <3>1 DEF Members
      <3>3. top \in a + 1..last /\ top <= cut /\ top \in Nat BY <2>1, <2>3, <3>2
      <3>4. \A x \in Members(kept) : x <= top
        <4> TAKE x \in Members(kept)
        <4>1. PICK i \in 1..Len(kept) : x = kept[i] BY DEF Members
        <4>2. i = Len(kept) \/ i < Len(kept) BY <1>8
        <4>3. i = Len(kept) \/ x < top BY <1>7, <3>1, <4>1, <4>2 DEF AscendingSeq, Ascends
        <4>4. x \in Nat BY <2>1, <2>3
        <4> QED BY <3>3, <4>1, <4>3, <4>4
      <3> HIDE DEF top
      <3>5. \A x : x \in Members(kept) <=> x \in a + 1..top
        <4> TAKE x
        <4>1. x \in Members(kept) => x \in a + 1..top BY <2>3, <3>3, <3>4
        <4>2. x \in a + 1..top => x \in a + 1..last /\ x <= cut BY <1>3, <2>1, <3>3
        <4> QED BY <2>3, <4>1, <4>2
      <3>6. \A x : x \in Wanted(l, Everything, a, top) <=> x \in a + 1..top
        BY DEF Wanted, Matches, Everything
      <3>7. Members(kept) = Wanted(l, Everything, a, top) BY <3>5, <3>6
      <3>8. kept = Sel(l, Everything, a, top) BY <1>7, <3>3, <3>7, SelUnique
      <3>9. top \in a + 1..cut BY <1>3, <3>3
      <3> QED BY <1>8, <2>5, <3>8, <3>9 DEF top
    <2> QED BY <2>4, <2>5
  <1> QED BY <1>9, <1>10
----
\* The inductive invariant.

\* Every call and every reader has its fields, and the log and the objects hold
\* messages that were posted.
CallRecord ==
  [pc: {"idle", "exists", "target", "put", "append", "confirm", "replied"},
   message: Message \cup {NoMessage},
   verdict: {"none", "asked", "created", "existing", "conflict", "no target", "invalid",
             "failed"}]
ReaderRecord ==
  [pc: {"idle", "last", "page", "answered", "boundary", "validate", "done"},
   audit: BOOLEAN, query: Query, started: BOOLEAN, cursor: Nat, heard: Seq(Nat),
   cut: Nat, rows: Seq(Nat), next: Nat, more: BOOLEAN]
TypeOK ==
  /\ log \in Seq(Message)
  /\ objects \subseteq Message
  /\ post \in [Poster -> CallRecord]
  /\ reader \in [Reader -> ReaderRecord]

\* An identity is in the log once (append_board_message() looks for it in its own
\* transaction), and every reply follows its target.
Distinct(l) == \A i, j \in 1..Len(l) : l[i].id = l[j].id => i = j
Founded(l) == \A i \in 1..Len(l) : \A id \in l[i].reply :
                id # l[i].id /\ \E j \in 1..Len(l) : l[j].id = id

Stored(l, o) == \A i \in 1..Len(l) : l[i] \in o

\* What a call of board.post knows between two of its steps.
Called(c, l, o) ==
  /\ c.pc = "idle" => c = NoCall
  /\ c.pc \in {"exists", "target", "put", "append"} => c.verdict = "asked" /\ c.message \in Message
  /\ c.pc = "confirm" => /\ c.verdict \in {"created", "existing"}
                         /\ \E i \in 1..Len(l) : l[i] = c.message
  /\ c.pc = "replied" => /\ c.message = NoMessage
                         /\ c.verdict \notin {"none", "asked"}
  /\ c.pc \in {"append", "confirm"} => c.message \in o

\* The rows a list call holds are what its client follows up to a sequence; a
\* client with a cursor gets all of it from there on.
Holds(s, to, l) ==
  /\ to \in s.cursor..Len(l)
  /\ \E from \in 0..to : /\ s.started => from = s.cursor
                         /\ s.rows = Sel(l, s.query, from, to)

\* What a client or a pass of the Doctor has heard, and what its call holds.
Heard(s, l) ==
  \E from \in 0..s.cursor : /\ s.audit => from = 0
                            /\ s.heard = Sel(l, s.query, from, s.cursor)
LastRow(s) == IF s.rows # <<>> THEN s.rows[Len(s.rows)] ELSE s.cursor
Reading(s, l) ==
  /\ s.cursor <= Len(l) /\ s.cut <= Len(l)
  /\ ~s.started => s.cursor = 0 /\ s.heard = <<>>
  /\ s.audit => s.started /\ s.query = Everything
  /\ Heard(s, l)
  /\ s.pc \in {"last", "page", "answered"} => ~s.audit
  /\ s.pc \in {"boundary", "validate", "done"} => s.audit
  /\ s.pc = "last" /\ ~Filtered(s.query) => Holds(s, LastRow(s), l)
  /\ s.pc \in {"page", "validate"} /\ (s.audit \/ Filtered(s.query)) => s.cursor <= s.cut
  /\ s.pc = "answered" => Holds(s, s.next, l)
  /\ s.pc = "answered" /\ s.started /\ ~s.more => s.rows = Sel(l, s.query, s.cursor, s.cut)
  /\ s.pc = "done" => s.cursor = s.cut

IInv ==
  /\ TypeOK
  /\ Distinct(log) /\ Founded(log) /\ Stored(log, objects)
  /\ \A p \in Poster : Called(post[p], log, objects)
  /\ \A r \in Reader : Reading(reader[r], log)

----
\* Growing the log disturbs nothing.

Grown(l, k) == /\ l \in Seq(Message) /\ k \in Seq(Message)
               /\ Len(l) <= Len(k)
               /\ \A i \in 1..Len(l) : k[i] = l[i]

LEMMA GrownFacts ==
  ASSUME NEW l \in Seq(Message)
  PROVE  /\ Grown(l, l)
         /\ \A m \in Message : /\ Grown(l, Append(l, m))
                               /\ Len(Append(l, m)) = Len(l) + 1
                               /\ Append(l, m)[Len(l) + 1] = m
  <1>1. Len(l) \in Nat OBVIOUS
  <1>2. Grown(l, l) BY <1>1 DEF Grown
  <1>3. ASSUME NEW m \in Message
        PROVE  /\ Grown(l, Append(l, m))
               /\ Len(Append(l, m)) = Len(l) + 1
               /\ Append(l, m)[Len(l) + 1] = m
    <2> DEFINE k == Append(l, m)
    <2>1. /\ k \in Seq(Message) /\ Len(k) = Len(l) + 1 /\ k[Len(l) + 1] = m
          /\ \A i \in 1..Len(l) : k[i] = l[i]
      OBVIOUS
    <2> HIDE DEF k
    <2>2. Grown(l, k) BY <1>1, <2>1 DEF Grown
    <2> QED BY <2>1, <2>2 DEF k
  <1> QED BY <1>2, <1>3

LEMMA SelOfGrown ==
  ASSUME NEW l, NEW k, Grown(l, k), NEW q, NEW a \in Nat, NEW b \in Nat, b <= Len(l)
  PROVE  Sel(k, q, a, b) = Sel(l, q, a, b)
  <1>1. Len(l) \in Nat /\ \A i \in 1..Len(l) : k[i] = l[i] BY DEF Grown
  <1>2. b \in 0..Len(l) BY <1>1
  <1> QED BY <1>1, <1>2, SelGrown

LEMMA CalledGrown ==
  ASSUME NEW l, NEW k, Grown(l, k), NEW o, NEW n, o \subseteq n, NEW c, Called(c, l, o)
  PROVE  Called(c, k, n)
  <1>1. Len(l) \in Nat /\ Len(k) \in Nat /\ Len(l) <= Len(k) BY DEF Grown
  <1>2. \A i \in 1..Len(l) : i \in 1..Len(k) /\ k[i] = l[i] BY <1>1 DEF Grown
  <1>3. (\E i \in 1..Len(l) : l[i] = c.message) => (\E i \in 1..Len(k) : k[i] = c.message)
    BY <1>2
  <1> QED BY <1>3 DEF Called

LEMMA HoldsGrown ==
  ASSUME NEW l, NEW k, Grown(l, k), NEW s \in ReaderRecord, NEW to \in Nat, Holds(s, to, l)
  PROVE  Holds(s, to, k)
  <1>1. Len(l) \in Nat /\ Len(k) \in Nat /\ Len(l) <= Len(k) BY DEF Grown
  <1>2. s.cursor \in Nat BY DEF ReaderRecord
  <1>3. to \in s.cursor..Len(l) BY DEF Holds
  <1>4. PICK from \in 0..to : /\ s.started => from = s.cursor
                              /\ s.rows = Sel(l, s.query, from, to)
    BY DEF Holds
  <1>5. Sel(k, s.query, from, to) = Sel(l, s.query, from, to)
    <2>1. from \in Nat /\ to <= Len(l) BY <1>1, <1>2, <1>3
    <2> QED BY <2>1, SelOfGrown
  <1>6. to \in s.cursor..Len(k) BY <1>1, <1>2, <1>3
  <1> QED BY <1>4, <1>5, <1>6 DEF Holds

LEMMA LastRowType ==
  ASSUME NEW s \in ReaderRecord
  PROVE  LastRow(s) \in Nat
  <1>1. s.rows \in Seq(Nat) /\ s.cursor \in Nat BY DEF ReaderRecord
  <1>2. s.rows # <<>> => Len(s.rows) \in 1..Len(s.rows) BY <1>1
  <1>3. s.rows # <<>> => s.rows[Len(s.rows)] \in Nat BY <1>1, <1>2
  <1> QED BY <1>1, <1>3 DEF LastRow

LEMMA ReadingGrown ==
  ASSUME NEW l, NEW k, Grown(l, k), NEW s \in ReaderRecord, Reading(s, l)
  PROVE  Reading(s, k)
  <1>1. Len(l) \in Nat /\ Len(k) \in Nat /\ Len(l) <= Len(k) BY DEF Grown
  <1>2. s.cursor \in Nat /\ s.cut \in Nat /\ s.next \in Nat BY DEF ReaderRecord
  <1>3. s.cursor <= Len(l) /\ s.cut <= Len(l) BY DEF Reading
  <1>4. s.cursor <= Len(k) /\ s.cut <= Len(k) BY <1>1, <1>2, <1>3
  <1>5. Heard(s, k)
    <2>1. PICK from \in 0..s.cursor : /\ s.audit => from = 0
                                      /\ s.heard = Sel(l, s.query, from, s.cursor)
      BY DEF Reading, Heard
    <2>2. from \in Nat BY <1>2
    <2>3. Sel(k, s.query, from, s.cursor) = Sel(l, s.query, from, s.cursor)
      BY <1>2, <1>3, <2>2, SelOfGrown
    <2> QED BY <2>1, <2>3 DEF Heard
  <1>6. Holds(s, LastRow(s), l) => Holds(s, LastRow(s), k) BY LastRowType, HoldsGrown
  <1>7. Holds(s, s.next, l) => Holds(s, s.next, k) BY <1>2, HoldsGrown
  <1>8. Sel(k, s.query, s.cursor, s.cut) = Sel(l, s.query, s.cursor, s.cut)
    BY <1>2, <1>3, SelOfGrown
  <1> HIDE DEF Grown
  <1> QED BY <1>4, <1>5, <1>6, <1>7, <1>8 DEF Reading

----
\* The initial states.

LEMMA ClientFacts ==
  ASSUME NEW s \in Client, NEW l, l = <<>>
  PROVE  /\ s \in ReaderRecord /\ Reading(s, l)
         /\ s.cursor = 0 /\ s.heard = <<>> /\ s.query \in Query
  <1>1. /\ s \in [pc: {"idle"}, audit: BOOLEAN, query: Query, started: BOOLEAN,
                  cursor: {0}, heard: {<<>>}, cut: {0}, rows: {<<>>}, next: {0},
                  more: {FALSE}]
        /\ s.audit => s.started /\ s.query = Everything
    BY DEF Client
  <1>2. <<>> \in Seq(Nat) /\ Len(l) = 0 OBVIOUS
  <1>3. s \in ReaderRecord
    <2>1. s = [pc |-> s.pc, audit |-> s.audit, query |-> s.query, started |-> s.started,
               cursor |-> s.cursor, heard |-> s.heard, cut |-> s.cut, rows |-> s.rows,
               next |-> s.next, more |-> s.more]
      BY <1>1
    <2>2. /\ s.pc = "idle" /\ s.query \in Query /\ s.more = FALSE
          /\ s.cursor = 0 /\ s.cut = 0 /\ s.next = 0 /\ s.heard = <<>> /\ s.rows = <<>>
          /\ s.audit \in BOOLEAN /\ s.started \in BOOLEAN
      BY <1>1
    <2>3. s.pc \in {"idle", "last", "page", "answered", "boundary", "validate", "done"} BY <2>2
    <2>4. /\ s.heard \in Seq(Nat) /\ s.rows \in Seq(Nat)
          /\ s.cursor \in Nat /\ s.cut \in Nat /\ s.next \in Nat
      BY <1>2, <2>2
    <2>5. s.more \in BOOLEAN BY <2>2
    <2> QED BY <2>1, <2>2, <2>3, <2>4, <2>5 DEF ReaderRecord
  <1>4. s.pc = "idle" /\ s.cursor = 0 /\ s.cut = 0 /\ s.heard = <<>> /\ s.query \in Query
    BY <1>1
  <1>5. Sel(l, s.query, 0, 0) = <<>> BY SelEmpty
  <1>6. 0 \in 0..s.cursor /\ s.heard = Sel(l, s.query, 0, s.cursor) BY <1>4, <1>5
  <1>7. Heard(s, l) BY <1>6 DEF Heard
  <1>8. Reading(s, l) BY <1>1, <1>2, <1>4, <1>7 DEF Reading
  <1> QED BY <1>3, <1>4, <1>8

LEMMA NoCallFacts ==
  ASSUME NEW l, NEW o
  PROVE  NoCall \in CallRecord /\ Called(NoCall, l, o)
  BY DEF NoCall, CallRecord, Called

LEMMA InitInv == Init => IInv
  <1> SUFFICES ASSUME Init PROVE IInv OBVIOUS
  <1>1. log = <<>> /\ objects = {} /\ Len(log) = 0 BY DEF Init
  <1>2. post \in [Poster -> CallRecord] BY NoCallFacts DEF Init
  <1>3. \A p \in Poster : Called(post[p], log, objects) BY NoCallFacts DEF Init
  <1>4. \A r \in Reader : reader[r] \in Client BY DEF Init
  <1>5. \A r \in Reader : reader[r] \in ReaderRecord /\ Reading(reader[r], log)
    BY <1>1, <1>4, ClientFacts
  <1>6. reader \in [Reader -> ReaderRecord] BY <1>5 DEF Init
  <1>7. TypeOK BY <1>1, <1>2, <1>6 DEF TypeOK
  <1>8. Distinct(log) /\ Founded(log) /\ Stored(log, objects)
    BY <1>1 DEF Distinct, Founded, Stored
  <1> QED BY <1>3, <1>5, <1>7, <1>8 DEF IInv

----
\* The steps of board.post.

\* An identity that is in the log is looked up as the message that has it.
LEMMA Found ==
  ASSUME log \in Seq(Message), Distinct(log), NEW i \in 1..Len(log), NEW id, log[i].id = id
  PROVE  Bound(id) /\ SequenceOf(id) = i /\ Lookup(id) = log[i]
  <1>1. Len(log) \in Nat /\ DOMAIN log = 1..Len(log) OBVIOUS
  <1>2. Bound(id) BY <1>1 DEF Bound
  <1>3. \A j \in DOMAIN log : log[j].id = id => j = i BY <1>1 DEF Distinct
  <1>4. SequenceOf(id) = i BY <1>1, <1>3 DEF SequenceOf
  <1> DEFINE a == i - 1
             rows == Sel(log, Everything, a, Len(log))
             one == 1
  <1>5. a \in Nat /\ a < Len(log) /\ one \in Nat /\ a + 1 = i BY <1>1
  <1>6. a = SequenceOf(id) - 1 BY <1>4
  <1> HIDE DEF a
  <1>7. rows # <<>> /\ rows[1] = a + 1 BY <1>1, <1>5, SelEverything
  <1>8. FirstPage(log, Everything, a, Len(log), rows, one, FirstRows(rows, one))
    BY <1>1, <1>5, FirstRowsOf
  <1>9. rows \in Seq(Nat) /\ Len(rows) \in Nat BY <1>1, <1>5, SelElements
  <1>10. Ascending(Everything, SequenceOf(id) - 1, Len(log), 1) = FirstRows(rows, one)
    BY <1>6 DEF Ascending, FirstRows, Selected, Sel, Wanted
  <1> HIDE DEF rows
  <1>11. FirstRows(rows, one)[1] = rows[1]
    <2>1. Len(rows) >= 1 BY <1>7, <1>9
    <2>2. Least(one, Len(rows)) = 1 BY <1>9, <2>1 DEF Least
    <2>3. FirstRows(rows, one) = SubSeq(rows, 1, 1) BY <2>2 DEF FirstRows
    <2>4. 1 \in 1..1 /\ 1 + 1 - 1 = 1 /\ \A k \in 1..1 : rows[k] \in Nat BY <1>9, <2>1
    <2>5. SubSeq(rows, 1, 1)[1] = rows[1] BY <2>1, <1>9
    <2> QED BY <2>3, <2>5
  <1>12. Lookup(id) = log[i] BY <1>5, <1>7, <1>10, <1>11 DEF Lookup
  <1> QED BY <1>2, <1>4, <1>12

LEMMA BoundFacts ==
  ASSUME log \in Seq(Message), NEW id
  PROVE  Bound(id) <=> \E i \in 1..Len(log) : log[i].id = id
  BY DEF Bound

\* A call that takes a step, with or without a row or an object of its own.
LEMMA PosterKeeps ==
  ASSUME IInv, NEW p \in Poster, NEW c \in CallRecord, Called(c, log', objects'),
         post' = [post EXCEPT ![p] = c], reader' = reader,
         objects \subseteq objects', objects' \subseteq Message,
         Grown(log, log'), Distinct(log'), Founded(log'), Stored(log', objects')
  PROVE  IInv'
  <1>1. TypeOK'
    <2>1. log' \in Seq(Message) BY DEF Grown
    <2>2. post' \in [Poster -> CallRecord] BY DEF IInv, TypeOK
    <2>3. reader' \in [Reader -> ReaderRecord] BY DEF IInv, TypeOK
    <2> QED BY <2>1, <2>2, <2>3 DEF TypeOK
  <1>2. ASSUME NEW x \in Poster PROVE Called(post'[x], log', objects')
    <2>1. Called(post[x], log, objects) BY DEF IInv
    <2>2. post'[x] = IF x = p THEN c ELSE post[x] BY DEF IInv, TypeOK
    <2>3. Called(post[x], log', objects') BY <2>1, CalledGrown
    <2> QED BY <2>2, <2>3
  <1>3. ASSUME NEW r \in Reader PROVE Reading(reader'[r], log')
    <2>1. Reading(reader[r], log) /\ reader[r] \in ReaderRecord BY DEF IInv, TypeOK
    <2>2. Reading(reader[r], log') BY <2>1, ReadingGrown
    <2> QED BY <2>2
  <1> QED BY <1>1, <1>2, <1>3 DEF IInv

LEMMA PosterSame ==
  ASSUME IInv, NEW p \in Poster, NEW c \in CallRecord, Called(c, log, objects),
         post' = [post EXCEPT ![p] = c], UNCHANGED <<log, objects, reader>>
  PROVE  IInv'
  <1>1. log \in Seq(Message) /\ objects \subseteq Message BY DEF IInv, TypeOK
  <1>2. Grown(log, log) BY <1>1, GrownFacts
  <1> QED BY <1>1, <1>2, PosterKeeps DEF IInv

Verdicts == {"created", "existing", "conflict", "no target", "invalid", "failed"}

Concluded(v) == [NoCall EXCEPT !.pc = "replied", !.verdict = v]

LEMMA ConcludeFacts ==
  ASSUME NEW v \in Verdicts, NEW l, NEW o
  PROVE  /\ Concluded(v) \in CallRecord /\ Called(Concluded(v), l, o)
         /\ Concluded(v).message = NoMessage /\ Concluded(v).verdict = v
  <1> DEFINE c == Concluded(v)
  <1>1. c.pc = "replied" /\ c.message = NoMessage /\ c.verdict = v BY DEF NoCall, Concluded
  <1>2. c \in CallRecord BY DEF NoCall, Concluded, CallRecord, Verdicts
  <1> HIDE DEF c
  <1>3. Called(c, l, o) BY <1>1 DEF Called, Verdicts
  <1> QED BY <1>1, <1>2, <1>3 DEF c

\* What the promise sees of the calls of board.post.

View(c) == [message |-> IF c.verdict = "asked" THEN c.message ELSE NoMessage,
            verdict |-> c.verdict]

\* A step of the Board is one of the promise, or none, and keeps the invariant.
Good == IInv' /\ [BoardPromise!Next]_BoardPromise!boardLogVars

LEMMA ViewFacts ==
  ASSUME IInv, NEW p \in Poster, NEW c \in CallRecord, post' = [post EXCEPT ![p] = c]
  PROVE  /\ posts[p] = View(post[p])
         /\ posts' = [posts EXCEPT ![p] = View(c)]
         /\ View(c) = View(post[p]) => posts' = posts
  <1>1. posts = [x \in Poster |-> View(post[x])] BY DEF posts, View
  <1>2. posts' = [x \in Poster |-> View(post'[x])] BY DEF posts, View
  <1>3. \A x \in Poster : post'[x] = IF x = p THEN c ELSE post[x] BY DEF IInv, TypeOK
  <1>4. \A x \in Poster : View(post'[x]) = IF x = p THEN View(c) ELSE View(post[x]) BY <1>3
  <1> HIDE DEF View
  <1>5. posts' = [posts EXCEPT ![p] = View(c)] BY <1>1, <1>2, <1>4
  <1>6. posts[p] = View(post[p]) BY <1>1
  <1>7. View(c) = View(post[p]) => posts' = posts BY <1>1, <1>2, <1>4
  <1> QED BY <1>5, <1>6, <1>7

LEMMA FollowsSame ==
  ASSUME reader' = reader
  PROVE  follows' = follows
  BY DEF follows

LEMMA BlankPost ==
  ASSUME NEW v
  PROVE  /\ BoardPromise!NoPost = [message |-> NoMessage, verdict |-> "none"]
         /\ [BoardPromise!NoPost EXCEPT !.verdict = v] = [message |-> NoMessage, verdict |-> v]
  <1> DEFINE e == [BoardPromise!NoPost EXCEPT !.verdict = v]
  <1>1. e \in [message: {NoMessage}, verdict: {v}] BY DEF BoardPromise!NoPost
  <1> HIDE DEF e
  <1>2. e = [message |-> e.message, verdict |-> e.verdict] BY <1>1
  <1>3. e.message = NoMessage /\ e.verdict = v BY <1>1
  <1>4. e = [message |-> NoMessage, verdict |-> v] BY <1>2, <1>3
  <1> QED BY <1>4 DEF e, BoardPromise!NoPost

\* A call is judged: the verdict is the promise's to explain.
LEMMA Judged ==
  ASSUME IInv, NEW p \in Poster, NEW c \in CallRecord, post' = [post EXCEPT ![p] = c],
         reader' = reader, post[p].verdict = "asked", c.verdict # "asked"
  PROVE  /\ BoardPromise!Judge(p, c.verdict)
         /\ BoardPromise!Asked(p) = post[p].message
  <1>1. posts[p] = View(post[p]) /\ posts' = [posts EXCEPT ![p] = View(c)] BY ViewFacts
  <1>2. View(c) = [message |-> NoMessage, verdict |-> c.verdict] BY DEF View
  <1>3. View(c) = [BoardPromise!NoPost EXCEPT !.verdict = c.verdict] BY <1>2, BlankPost
  <1>4. posts[p].verdict = "asked" /\ posts[p].message = post[p].message BY <1>1 DEF View
  <1>5. BoardPromise!Verdict(p) = "asked" /\ BoardPromise!Asked(p) = post[p].message
    BY <1>4 DEF BoardPromise!Verdict, BoardPromise!Asked
  <1>6. posts' = [posts EXCEPT ![p] = [BoardPromise!NoPost EXCEPT !.verdict = c.verdict]]
    BY <1>1, <1>3
  <1>7. follows' = follows BY FollowsSame
  <1> QED BY <1>5, <1>6, <1>7 DEF BoardPromise!Judge

LEMMA CallFacts ==
  ASSUME IInv, NEW p \in Poster
  PROVE  /\ post[p] \in CallRecord /\ Called(post[p], log, objects)
         /\ log \in Seq(Message) /\ objects \subseteq Message
         /\ Distinct(log) /\ Founded(log) /\ Stored(log, objects)
  BY DEF IInv, TypeOK

LEMMA PromiseBound ==
  /\ \A id : BoardPromise!Bound(id) <=> Bound(id)
  /\ \A m : BoardPromise!Held(m) <=> \E i \in DOMAIN log : log[i] = m
  BY DEF BoardPromise!Bound, Bound, BoardPromise!Held

\* A call that ends without a row: Find, Refuse.
LEMMA Answers ==
  ASSUME IInv, NEW p \in Poster, NEW v, Conclude(p, v), UNCHANGED <<log, objects, reader>>,
         post[p].verdict = "asked",
         \/ v = "existing" /\ \E i \in DOMAIN log : log[i] = post[p].message
         \/ /\ v = "conflict" /\ Bound(post[p].message.id)
            /\ ~ \E i \in DOMAIN log : log[i] = post[p].message
         \/ v = "no target" /\ \E id \in post[p].message.reply : ~Bound(id)
         \/ v = "invalid" /\ post[p].message.id \in post[p].message.reply
         \/ v = "failed"
  PROVE  Good
  <1>0. v \in Verdicts BY DEF Verdicts
  <1> DEFINE c == Concluded(v)
  <1>1. /\ c \in CallRecord /\ c.message = NoMessage /\ c.verdict = v
        /\ Called(c, log, objects)
    BY <1>0, ConcludeFacts
  <1>p. post' = [post EXCEPT ![p] = c] BY DEF Conclude, Concluded
  <1> HIDE DEF c
  <1>2. IInv' BY <1>1, <1>p, PosterSame
  <1>3. v # "asked" BY <1>0 DEF Verdicts
  <1>4. BoardPromise!Judge(p, v) /\ BoardPromise!Asked(p) = post[p].message
    BY <1>1, <1>p, <1>3, Judged
  <1>5. log' = log OBVIOUS
  <1>6. BoardPromise!Find(p) \/ BoardPromise!Refuse(p)
    BY <1>4, <1>5, PromiseBound DEF BoardPromise!Find, BoardPromise!Refuse
  <1>7. BoardPromise!Next BY <1>6 DEF BoardPromise!Next
  <1> QED BY <1>2, <1>7 DEF Good

\* A step inside a call that the promise does not see.
LEMMA Unseen ==
  ASSUME IInv, IInv', NEW p \in Poster, NEW c \in CallRecord, post' = [post EXCEPT ![p] = c],
         log' = log, reader' = reader, View(c) = View(post[p])
  PROVE  Good
  <1>1. posts' = posts /\ follows' = follows BY ViewFacts, FollowsSame
  <1> QED BY <1>1 DEF Good, BoardPromise!boardLogVars

LEMMA ContinueFacts ==
  ASSUME IInv, NEW p \in Poster, NEW pc \in {"target", "put", "append"}, Continue(p, pc),
         post[p].verdict = "asked", post[p].message \in Message, NEW o,
         pc = "append" => post[p].message \in o
  PROVE  \E c \in CallRecord : /\ post' = [post EXCEPT ![p] = c]
                               /\ View(c) = View(post[p])
                               /\ Called(c, log, o)
  <1> DEFINE c == [post[p] EXCEPT !.pc = pc]
  <1>1. post[p] \in CallRecord BY CallFacts
  <1>2. c \in CallRecord BY <1>1 DEF CallRecord
  <1>3. c.pc = pc /\ c.message = post[p].message /\ c.verdict = post[p].verdict
    BY <1>1 DEF CallRecord
  <1>4. post' = [post EXCEPT ![p] = c] BY DEF Continue
  <1> HIDE DEF c
  <1>5. View(c) = View(post[p]) BY <1>3 DEF View
  <1>6. Called(c, log, o) BY <1>3 DEF Called
  <1> QED BY <1>2, <1>4, <1>5, <1>6

LEMMA PostStep ==
  ASSUME IInv, NEW p \in Poster, Post(p)
  PROVE  Good
  <1>1. PICK m \in Message :
          post' = [post EXCEPT ![p] = [pc |-> "exists", message |-> m, verdict |-> "asked"]]
    BY DEF Post
  <1> DEFINE c == [pc |-> "exists", message |-> m, verdict |-> "asked"]
  <1>2. c \in CallRecord BY DEF CallRecord
  <1>3. Called(c, log, objects) BY DEF Called
  <1>4. View(c) = [message |-> m, verdict |-> "asked"] BY DEF View
  <1>5. post' = [post EXCEPT ![p] = c] /\ UNCHANGED <<log, objects, reader>> BY <1>1 DEF Post
  <1> HIDE DEF c
  <1>6. IInv' BY <1>2, <1>3, <1>5, PosterSame
  <1>7. posts[p] = BoardPromise!NoPost
    <2>1. post[p] = NoCall BY CallFacts DEF Post, Posting, Called
    <2>2. posts[p] = View(NoCall) BY <1>2, <1>5, <2>1, ViewFacts
    <2>3. View(NoCall) = [message |-> NoMessage, verdict |-> "none"] BY DEF View, NoCall
    <2> QED BY <2>2, <2>3, BlankPost
  <1>8. posts' = [posts EXCEPT ![p] = [message |-> m, verdict |-> "asked"]]
    BY <1>2, <1>4, <1>5, ViewFacts
  <1>9. log' = log /\ follows' = follows BY <1>5, FollowsSame
  <1>10. BoardPromise!Ask(p) BY <1>7, <1>8, <1>9 DEF BoardPromise!Ask
  <1>11. BoardPromise!Next BY <1>10 DEF BoardPromise!Next
  <1> QED BY <1>6, <1>11 DEF Good

LEMMA ExistsStep ==
  ASSUME IInv, NEW p \in Poster, Exists(p)
  PROVE  Good
  <1> DEFINE m == post[p].message
  <1>1. /\ post[p].pc = "exists" /\ UNCHANGED <<log, objects, reader>>
        /\ log \in Seq(Message) /\ Distinct(log)
    BY CallFacts DEF Exists, Posting
  <1>2. post[p].verdict = "asked" /\ m \in Message BY <1>1, CallFacts DEF Called
  <1>3. CASE Bound(m.id)
    <2>1. PICK i \in 1..Len(log) : log[i].id = m.id BY <1>1, <1>3, BoundFacts
    <2>2. Lookup(m.id) = log[i] BY <1>1, <2>1, Found
    <2>3. Conclude(p, IF log[i] = m THEN "existing" ELSE "conflict")
      BY <1>3, <2>2 DEF Exists, Recognise
    <2>4. DOMAIN log = 1..Len(log) BY <1>1
    <2>5. CASE log[i] = m
      <3>1. Conclude(p, "existing") BY <2>3, <2>5
      <3>2. \E j \in DOMAIN log : log[j] = m BY <2>1, <2>4, <2>5
      <3> QED BY <1>1, <1>2, <3>1, <3>2, Answers
    <2>6. CASE log[i] # m
      <3>1. Conclude(p, "conflict") BY <2>3, <2>6
      <3>2. ~ \E j \in DOMAIN log : log[j] = m BY <1>1, <2>1, <2>4, <2>6 DEF Distinct
      <3> QED BY <1>1, <1>2, <1>3, <3>1, <3>2, Answers
    <2> QED BY <2>5, <2>6
  <1>4. CASE ~Bound(m.id)
    <2> DEFINE pc == IF m.reply = {} THEN "put" ELSE "target"
    <2>1. Continue(p, pc) BY <1>4 DEF Exists
    <2>2. pc \in {"target", "put", "append"} /\ pc # "append" OBVIOUS
    <2> HIDE DEF pc
    <2>3. PICK c \in CallRecord : /\ post' = [post EXCEPT ![p] = c]
                                  /\ View(c) = View(post[p])
                                  /\ Called(c, log, objects)
      BY <1>2, <2>1, <2>2, ContinueFacts
    <2>4. IInv' BY <1>1, <2>3, PosterSame
    <2> QED BY <1>1, <2>3, <2>4, Unseen
  <1> QED BY <1>3, <1>4

LEMMA FindTargetStep ==
  ASSUME IInv, NEW p \in Poster, FindTarget(p)
  PROVE  Good
  <1> DEFINE m == post[p].message
  <1>1. post[p].pc = "target" /\ UNCHANGED <<log, objects, reader>> BY DEF FindTarget, Posting
  <1>2. post[p].verdict = "asked" /\ m \in Message BY <1>1, CallFacts DEF Called
  <1>3. CASE \A id \in m.reply : Bound(id)
    <2> DEFINE pc == "put"
    <2>1. Continue(p, pc) BY <1>3 DEF FindTarget
    <2>2. pc \in {"target", "put", "append"} /\ pc # "append" OBVIOUS
    <2> HIDE DEF pc
    <2>3. PICK c \in CallRecord : /\ post' = [post EXCEPT ![p] = c]
                                  /\ View(c) = View(post[p])
                                  /\ Called(c, log, objects)
      BY <1>2, <2>1, <2>2, ContinueFacts
    <2>4. IInv' BY <1>1, <2>3, PosterSame
    <2> QED BY <1>1, <2>3, <2>4, Unseen
  <1>4. CASE ~(\A id \in m.reply : Bound(id))
    <2>1. Conclude(p, "no target") BY <1>4 DEF FindTarget
    <2> QED BY <1>1, <1>2, <1>4, <2>1, Answers
  <1> QED BY <1>3, <1>4

LEMMA PutMessageStep ==
  ASSUME IInv, NEW p \in Poster, PutMessage(p)
  PROVE  Good
  <1> DEFINE m == post[p].message
             pc == "append"
  <1>1. /\ post[p].pc = "put" /\ log' = log /\ reader' = reader
        /\ objects' = objects \cup {m} /\ Continue(p, pc)
    BY DEF PutMessage, Posting
  <1>2. post[p].verdict = "asked" /\ m \in Message BY <1>1, CallFacts DEF Called
  <1>3. pc \in {"target", "put", "append"} /\ m \in objects' BY <1>1
  <1> HIDE DEF pc
  <1>4. PICK c \in CallRecord : /\ post' = [post EXCEPT ![p] = c]
                                /\ View(c) = View(post[p])
                                /\ Called(c, log, objects')
    BY <1>1, <1>2, <1>3, ContinueFacts
  <1>5. log \in Seq(Message) /\ Distinct(log) /\ Founded(log) /\ Stored(log, objects)
    BY CallFacts
  <1>6. Grown(log, log') BY <1>1, <1>5, GrownFacts
  <1>7. objects \subseteq objects' /\ objects' \subseteq Message BY <1>1, <1>2, CallFacts
  <1>8. Stored(log', objects') BY <1>1, <1>5, <1>7 DEF Stored
  <1>9. IInv' BY <1>1, <1>4, <1>5, <1>6, <1>7, <1>8, PosterKeeps
  <1> QED BY <1>1, <1>4, <1>9, Unseen

LEMMA WrittenFacts ==
  ASSUME IInv, NEW p \in Poster, NEW v \in {"created", "existing"}, Written(p, v),
         post[p].message \in objects, NEW l, \E i \in 1..Len(l) : l[i] = post[p].message
  PROVE  \E c \in CallRecord : /\ post' = [post EXCEPT ![p] = c]
                               /\ c.verdict = v
                               /\ Called(c, l, objects)
  <1> DEFINE c == [post[p] EXCEPT !.pc = "confirm", !.verdict = v]
  <1>1. post[p] \in CallRecord BY CallFacts
  <1>2. c \in CallRecord BY <1>1 DEF CallRecord
  <1>3. c.pc = "confirm" /\ c.message = post[p].message /\ c.verdict = v
    BY <1>1 DEF CallRecord
  <1>4. post' = [post EXCEPT ![p] = c] BY DEF Written, IInv, TypeOK
  <1> HIDE DEF c
  <1>5. Called(c, l, objects) BY <1>3 DEF Called
  <1> QED BY <1>2, <1>3, <1>4, <1>5

\* A row is written: Create.
LEMMA CreateStep ==
  ASSUME IInv, NEW p \in Poster, NEW m, m = post[p].message,
         post[p].pc = "append", m.id \notin m.reply, ~Bound(m.id),
         \A id \in m.reply : Bound(id),
         log' = Append(log, m), Written(p, "created"), UNCHANGED <<objects, reader>>
  PROVE  Good
  <1>1. post[p].verdict = "asked" /\ m \in Message /\ m \in objects
    BY CallFacts DEF Called
  <1>2. /\ log \in Seq(Message) /\ objects \subseteq Message
        /\ Distinct(log) /\ Founded(log) /\ Stored(log, objects)
    BY CallFacts
  <1>3. /\ Grown(log, log') /\ Len(log') = Len(log) + 1 /\ log'[Len(log) + 1] = m
    BY <1>1, <1>2, GrownFacts
  <1>4. Len(log) \in Nat BY <1>2
  <1>5. /\ \A i \in 1..Len(log') : i \in 1..Len(log) \/ i = Len(log) + 1
        /\ \A i \in 1..Len(log) : i \in 1..Len(log') /\ log'[i] = log[i]
        /\ Len(log) + 1 \in 1..Len(log')
    BY <1>3, <1>4 DEF Grown
  <1>6. \A i \in 1..Len(log) : log[i].id # m.id BY <1>2, BoundFacts
  <1>7. Distinct(log') BY <1>2, <1>3, <1>5, <1>6 DEF Distinct
  <1>8. Founded(log')
    <2>1. ASSUME NEW i \in 1..Len(log'), NEW id \in log'[i].reply
          PROVE  id # log'[i].id /\ \E j \in 1..Len(log) : log[j].id = id
      <3>1. CASE i \in 1..Len(log)
        <4>1. log'[i] = log[i] BY <1>5, <3>1
        <4> QED BY <4>1, <3>1, <1>2, <2>1 DEF Founded
      <3>2. CASE i = Len(log) + 1
        <4>1. log'[i] = m BY <1>3, <3>2
        <4>2. id \in m.reply BY <4>1, <2>1
        <4>3. \E j \in 1..Len(log) : log[j].id = id BY <4>2, <1>2, BoundFacts
        <4> QED BY <4>1, <4>2, <4>3
      <3> QED BY <1>5, <3>1, <3>2
    <2>2. ASSUME NEW i \in 1..Len(log'), NEW id \in log'[i].reply
          PROVE  \E j \in 1..Len(log') : log'[j].id = id
      <3>1. PICK j \in 1..Len(log) : log[j].id = id BY <2>1
      <3>2. j \in 1..Len(log') /\ log'[j].id = id BY <1>5, <3>1
      <3> QED BY <3>2
    <2> QED BY <2>1, <2>2 DEF Founded
  <1>9. Stored(log', objects') BY <1>1, <1>2, <1>3, <1>5 DEF Stored
  <1>10. \E i \in 1..Len(log') : log'[i] = m BY <1>3, <1>5
  <1> DEFINE v == "created"
  <1>11. v \in {"created", "existing"} /\ v # "asked" /\ Written(p, v) OBVIOUS
  <1> HIDE DEF v
  <1>12. PICK c \in CallRecord : /\ post' = [post EXCEPT ![p] = c]
                                 /\ c.verdict = v
                                 /\ Called(c, log', objects)
    BY <1>1, <1>10, <1>11, WrittenFacts
  <1>13. objects' = objects /\ reader' = reader OBVIOUS
  <1>14. Called(c, log', objects') BY <1>12, <1>13
  <1>15. objects \subseteq objects' /\ objects' \subseteq Message BY <1>2, <1>13
  <1>16. IInv' BY <1>3, <1>7, <1>8, <1>9, <1>12, <1>13, <1>14, <1>15, PosterKeeps
  <1>17. BoardPromise!Judge(p, v) /\ BoardPromise!Asked(p) = m
    BY <1>1, <1>11, <1>12, <1>13, Judged
  <1>18. BoardPromise!Create(p)
    <2>1. BoardPromise!Judge(p, "created") BY <1>17 DEF v
    <2>2. \A target \in m.reply : target # m.id OBVIOUS
    <2> QED BY <1>17, <2>1, <2>2, PromiseBound DEF BoardPromise!Create
  <1>19. BoardPromise!Next BY <1>18 DEF BoardPromise!Next
  <1> QED BY <1>16, <1>19 DEF Good

LEMMA AppendMessageStep ==
  ASSUME IInv, NEW p \in Poster, AppendMessage(p)
  PROVE  Good
  <1> DEFINE m == post[p].message
  <1>1. post[p].pc = "append" /\ UNCHANGED <<objects, reader>> BY DEF AppendMessage, Posting
  <1>2. post[p].verdict = "asked" /\ m \in Message /\ m \in objects
    BY <1>1, CallFacts DEF Called
  <1>3. log \in Seq(Message) /\ DOMAIN log = 1..Len(log) /\ Distinct(log) BY CallFacts
  <1>4. CASE m.id \in m.reply
    <2>1. Conclude(p, "invalid") /\ log' = log BY <1>4 DEF AppendMessage
    <2> QED BY <1>1, <1>2, <1>4, <2>1, Answers
  <1>5. CASE m.id \notin m.reply /\ Bound(m.id)
    <2>1. PICK i \in 1..Len(log) : log[i].id = m.id BY <1>3, <1>5, BoundFacts
    <2>2. SequenceOf(m.id) = i BY <1>3, <2>1, Found
    <2>3. /\ IF log[i] = m THEN Written(p, "existing") ELSE Conclude(p, "conflict")
          /\ log' = log
      BY <1>5, <2>2 DEF AppendMessage
    <2>4. CASE log[i] = m
      <3> DEFINE v == "existing"
      <3>1. Written(p, v) /\ v \in {"created", "existing"} /\ v # "asked" BY <2>3, <2>4
      <3> HIDE DEF v
      <3>2. \E j \in 1..Len(log) : log[j] = m BY <2>1, <2>4
      <3>3. PICK c \in CallRecord : /\ post' = [post EXCEPT ![p] = c]
                                    /\ c.verdict = v
                                    /\ Called(c, log, objects)
        BY <1>2, <3>1, <3>2, WrittenFacts
      <3>4. UNCHANGED <<log, objects, reader>> BY <1>1, <2>3
      <3>5. IInv' BY <3>3, <3>4, PosterSame
      <3>6. BoardPromise!Judge(p, v) /\ BoardPromise!Asked(p) = m
        BY <1>2, <3>1, <3>3, <3>4, Judged
      <3>7. BoardPromise!Find(p)
        <4>1. BoardPromise!Judge(p, "existing") BY <3>6 DEF v
        <4>2. BoardPromise!Held(m) BY <1>3, <3>2, PromiseBound
        <4> QED BY <3>4, <3>6, <4>1, <4>2 DEF BoardPromise!Find
      <3>8. BoardPromise!Next BY <3>7 DEF BoardPromise!Next
      <3> QED BY <3>5, <3>8 DEF Good
    <2>5. CASE log[i] # m
      <3>1. Conclude(p, "conflict") BY <2>3, <2>5
      <3>2. ~ \E j \in DOMAIN log : log[j] = m BY <1>3, <2>1, <2>5 DEF Distinct
      <3>3. UNCHANGED <<log, objects, reader>> BY <1>1, <2>3
      <3> QED BY <1>2, <1>5, <3>1, <3>2, <3>3, Answers
    <2> QED BY <2>4, <2>5
  <1>6. CASE m.id \notin m.reply /\ ~Bound(m.id) /\ ~(\A id \in m.reply : Bound(id))
    <2>1. Conclude(p, "no target") /\ log' = log BY <1>6 DEF AppendMessage
    <2> QED BY <1>1, <1>2, <1>6, <2>1, Answers
  <1>7. CASE m.id \notin m.reply /\ ~Bound(m.id) /\ \A id \in m.reply : Bound(id)
    <2>1. log' = Append(log, m) /\ Written(p, "created") BY <1>7 DEF AppendMessage
    <2> QED BY <1>1, <1>7, <2>1, CreateStep
  <1> QED BY <1>4, <1>5, <1>6, <1>7

LEMMA AppendFailsStep ==
  ASSUME IInv, NEW p \in Poster, AppendFails(p)
  PROVE  Good
  <1>1. /\ post[p].pc = "append" /\ Conclude(p, "failed")
        /\ UNCHANGED <<log, objects, reader>>
    BY DEF AppendFails, Posting
  <1>2. post[p].verdict = "asked" BY <1>1, CallFacts DEF Called
  <1> QED BY <1>1, <1>2, Answers

\* The message is always read back: the confirmation never fails.
LEMMA ConfirmStep ==
  ASSUME IInv, NEW p \in Poster, Confirm(p)
  PROVE  Good
  <1> DEFINE m == post[p].message
             v == post[p].verdict
             c == Concluded(v)
  <1>1. post[p].pc = "confirm" /\ UNCHANGED <<log, objects, reader>> BY DEF Confirm, Posting
  <1>2. /\ v \in {"created", "existing"} /\ m \in objects
        /\ \E i \in 1..Len(log) : log[i] = m
    BY <1>1, CallFacts DEF Called
  <1>3. log \in Seq(Message) /\ Distinct(log) BY CallFacts
  <1>4. PICK i \in 1..Len(log) : log[i] = m BY <1>2
  <1>5. Bound(m.id) /\ Lookup(m.id) = m BY <1>3, <1>4, Found
  <1>6. Conclude(p, v) BY <1>2, <1>5 DEF Confirm
  <1>7. post' = [post EXCEPT ![p] = c] BY <1>6 DEF Conclude, Concluded
  <1>8. v \in Verdicts BY <1>2 DEF Verdicts
  <1>9. v # "asked" BY <1>2
  <1> HIDE DEF v
  <1>10. /\ c \in CallRecord /\ Called(c, log, objects)
         /\ c.message = NoMessage /\ c.verdict = v
    BY <1>8, ConcludeFacts
  <1> HIDE DEF c
  <1>11. IInv' BY <1>1, <1>7, <1>10, PosterSame
  <1>12. View(c) = View(post[p]) BY <1>9, <1>10 DEF View, v
  <1> QED BY <1>1, <1>7, <1>10, <1>11, <1>12, Unseen

LEMMA EndPostStep ==
  ASSUME IInv, NEW p \in Poster, EndPost(p)
  PROVE  Good
  <1>1. /\ post[p].pc \in {"append", "confirm", "replied"}
        /\ post' = [post EXCEPT ![p] = NoCall]
        /\ UNCHANGED <<log, objects, reader>>
    BY DEF EndPost
  <1>2. NoCall \in CallRecord /\ Called(NoCall, log, objects) BY NoCallFacts
  <1>3. IInv' BY <1>1, <1>2, PosterSame
  <1>4. post[p].verdict # "none" BY <1>1, CallFacts DEF Called
  <1>5. posts[p] = View(post[p]) /\ posts' = [posts EXCEPT ![p] = View(NoCall)]
    BY <1>1, <1>2, ViewFacts
  <1>6. View(NoCall) = BoardPromise!NoPost
    <2>1. View(NoCall) = [message |-> NoMessage, verdict |-> "none"] BY DEF View, NoCall
    <2> QED BY <2>1, BlankPost
  <1>7. BoardPromise!Verdict(p) # "none" BY <1>4, <1>5 DEF BoardPromise!Verdict, View
  <1>8. log' = log /\ follows' = follows BY <1>1, FollowsSame
  <1>9. posts' = [posts EXCEPT ![p] = BoardPromise!NoPost] BY <1>5, <1>6
  <1>10. BoardPromise!Take(p) BY <1>7, <1>8, <1>9 DEF BoardPromise!Take
  <1>11. BoardPromise!Next BY <1>10 DEF BoardPromise!Next
  <1> QED BY <1>3, <1>11 DEF Good

LEMMA PosterSteps ==
  ASSUME IInv, NEW p \in Poster, PosterStep(p)
  PROVE  Good
  BY PostStep, ExistsStep, FindTargetStep, PutMessageStep, AppendMessageStep, AppendFailsStep,
     ConfirmStep, EndPostStep DEF PosterStep

----
\* The steps of board.list and of the Doctor.

\* What the promise sees of a reader.
Trace(s) == [query |-> s.query, to |-> s.cursor, heard |-> s.heard]

LEMMA ReaderFacts ==
  ASSUME IInv, NEW r \in Reader
  PROVE  /\ reader[r] \in ReaderRecord /\ Reading(reader[r], log)
         /\ log \in Seq(Message) /\ Len(log) \in Nat
  <1>1. reader[r] \in ReaderRecord /\ log \in Seq(Message) BY DEF IInv, TypeOK
  <1>2. Reading(reader[r], log) BY DEF IInv
  <1> QED BY <1>1, <1>2

LEMMA Fields ==
  ASSUME NEW s \in ReaderRecord
  PROVE  /\ s.audit \in BOOLEAN /\ s.query \in Query /\ s.started \in BOOLEAN
         /\ s.cursor \in Nat /\ s.cut \in Nat /\ s.next \in Nat
         /\ s.heard \in Seq(Nat) /\ s.rows \in Seq(Nat)
  BY DEF ReaderRecord

LEMMA HeardSame ==
  ASSUME NEW s, NEW t, NEW l, t.audit = s.audit, t.query = s.query, t.cursor = s.cursor,
         t.heard = s.heard
  PROVE  Heard(t, l) <=> Heard(s, l)
  BY DEF Heard

LEMMA ReaderKeeps ==
  ASSUME IInv, NEW r \in Reader, NEW t \in ReaderRecord, Reading(t, log),
         reader' = [reader EXCEPT ![r] = t], UNCHANGED <<log, objects, post>>
  PROVE  IInv'
  <1>1. TypeOK' BY DEF IInv, TypeOK
  <1>2. ASSUME NEW x \in Reader PROVE Reading(reader'[x], log')
    <2>1. Reading(reader[x], log) BY DEF IInv
    <2>2. reader'[x] = IF x = r THEN t ELSE reader[x] BY DEF IInv, TypeOK
    <2> QED BY <2>1, <2>2
  <1>3. ASSUME NEW p \in Poster PROVE Called(post'[p], log', objects')
    <2>1. Called(post[p], log, objects) BY DEF IInv
    <2> QED BY <2>1
  <1>4. Distinct(log') /\ Founded(log') /\ Stored(log', objects') BY DEF IInv
  <1> QED BY <1>1, <1>2, <1>3, <1>4 DEF IInv

LEMMA TraceFacts ==
  ASSUME IInv, NEW r \in Reader, NEW t \in ReaderRecord, reader' = [reader EXCEPT ![r] = t]
  PROVE  /\ follows[r] = Trace(reader[r])
         /\ follows' = [follows EXCEPT ![r] = Trace(t)]
         /\ Trace(t) = Trace(reader[r]) => follows' = follows
  <1>1. follows = [x \in Reader |-> Trace(reader[x])] BY DEF follows, Trace
  <1>2. follows' = [x \in Reader |-> Trace(reader'[x])] BY DEF follows, Trace
  <1>3. \A x \in Reader : reader'[x] = IF x = r THEN t ELSE reader[x] BY DEF IInv, TypeOK
  <1>4. \A x \in Reader : Trace(reader'[x]) = IF x = r THEN Trace(t) ELSE Trace(reader[x])
    BY <1>3
  <1> HIDE DEF Trace
  <1>5. follows' = [follows EXCEPT ![r] = Trace(t)] BY <1>1, <1>2, <1>4
  <1>6. follows[r] = Trace(reader[r]) BY <1>1
  <1>7. Trace(t) = Trace(reader[r]) => follows' = follows BY <1>1, <1>2, <1>4
  <1> QED BY <1>5, <1>6, <1>7

\* A step inside a call or a pass: the client has not heard anything yet.
LEMMA ReaderUnseen ==
  ASSUME IInv, NEW r \in Reader, NEW t \in ReaderRecord, Reading(t, log),
         reader' = [reader EXCEPT ![r] = t], UNCHANGED <<log, objects, post>>,
         t.query = reader[r].query, t.cursor = reader[r].cursor, t.heard = reader[r].heard
  PROVE  Good
  <1>1. IInv' BY ReaderKeeps
  <1>2. Trace(t) = Trace(reader[r]) BY DEF Trace
  <1>3. follows' = follows BY <1>2, TraceFacts
  <1>4. posts' = posts BY DEF posts
  <1> QED BY <1>1, <1>3, <1>4 DEF Good, BoardPromise!boardLogVars

LEMMA PollStep ==
  ASSUME IInv, NEW r \in Reader, Poll(r)
  PROVE  Good
  <1> DEFINE s == reader[r]
             pc == IF Filtered(s.query) THEN "last" ELSE "page"
             t == [s EXCEPT !.pc = pc]
  <1>1. /\ s.pc = "idle" /\ ~s.audit /\ reader' = [reader EXCEPT ![r] = t]
        /\ UNCHANGED <<log, objects, post>>
    BY DEF Poll, Listing, Update
  <1>2. s \in ReaderRecord /\ Reading(s, log) BY ReaderFacts
  <1>3. /\ pc \in {"last", "page"}
        /\ pc = "last" <=> Filtered(s.query)
    OBVIOUS
  <1> HIDE DEF s, pc
  <1>4. /\ t \in ReaderRecord
        /\ t.pc = pc /\ t.audit = s.audit /\ t.query = s.query /\ t.started = s.started
        /\ t.cursor = s.cursor /\ t.heard = s.heard /\ t.cut = s.cut
    BY <1>2, <1>3 DEF ReaderRecord
  <1> HIDE DEF t
  <1>5. Heard(t, log) BY <1>2, <1>4, HeardSame DEF Reading
  <1>6. Reading(t, log) BY <1>1, <1>2, <1>3, <1>4, <1>5 DEF Reading
  <1> QED BY <1>1, <1>4, <1>6, ReaderUnseen DEF s

\* What makes an answer exact.
LEMMA AnswerReads ==
  ASSUME NEW l, Len(l) \in Nat, NEW s \in ReaderRecord, Reading(s, l), ~s.audit,
         NEW rows \in Seq(Nat), NEW next \in Nat, NEW more \in BOOLEAN,
         next \in s.cursor..Len(l),
         \E from \in 0..next : /\ s.started => from = s.cursor
                               /\ rows = Sel(l, s.query, from, next),
         s.started /\ ~more => rows = Sel(l, s.query, s.cursor, s.cut)
  PROVE  /\ Answered(s, rows, next, more) \in ReaderRecord
         /\ Reading(Answered(s, rows, next, more), l)
         /\ Answered(s, rows, next, more).query = s.query
         /\ Answered(s, rows, next, more).cursor = s.cursor
         /\ Answered(s, rows, next, more).heard = s.heard
         /\ Answered(s, rows, next, more).rows = rows
  <1> DEFINE t == Answered(s, rows, next, more)
  <1>1. /\ t \in ReaderRecord
        /\ t.pc = "answered" /\ t.audit = s.audit /\ t.query = s.query
        /\ t.started = s.started /\ t.cursor = s.cursor /\ t.heard = s.heard
        /\ t.cut = s.cut /\ t.rows = rows /\ t.next = next /\ t.more = more
    BY DEF ReaderRecord, Answered
  <1> HIDE DEF t
  <1>2. Heard(t, l) BY <1>1, HeardSame DEF Reading
  <1>3. Holds(t, t.next, l) BY <1>1 DEF Holds
  <1>4. Reading(t, l) BY <1>1, <1>2, <1>3 DEF Reading
  <1> QED BY <1>1, <1>4 DEF t

LEMMA ReadLastStep ==
  ASSUME IInv, NEW r \in Reader, ReadLast(r)
  PROVE  Good
  <1> DEFINE s == reader[r]
  <1>1. /\ s.pc = "last" /\ UNCHANGED <<log, objects, post>>
        /\ Update(r, IF Filtered(s.query)
                     THEN [s EXCEPT !.pc = "page", !.cut = Len(log)]
                     ELSE Answered([s EXCEPT !.cut = Len(log)], s.rows, LastRow(s),
                                   LastRow(s) < Len(log)))
    BY DEF ReadLast, Listing, LastRow
  <1>2. s \in ReaderRecord /\ Reading(s, log) /\ Len(log) \in Nat BY ReaderFacts
  <1>3. ~s.audit /\ s.cursor <= Len(log) BY <1>1, <1>2 DEF Reading
  <1>4. CASE Filtered(s.query)
    <2> DEFINE t == [s EXCEPT !.pc = "page", !.cut = Len(log)]
    <2>1. reader' = [reader EXCEPT ![r] = t] BY <1>1, <1>4 DEF Update
    <2> HIDE DEF s
    <2>2. /\ t \in ReaderRecord
          /\ t.pc = "page" /\ t.audit = s.audit /\ t.query = s.query /\ t.started = s.started
          /\ t.cursor = s.cursor /\ t.heard = s.heard /\ t.cut = Len(log)
      BY <1>2 DEF ReaderRecord
    <2> HIDE DEF t
    <2>3. Heard(t, log) BY <1>2, <2>2, HeardSame DEF Reading
    <2>4. Reading(t, log) BY <1>2, <1>3, <2>2, <2>3 DEF Reading
    <2> QED BY <1>1, <2>1, <2>2, <2>4, ReaderUnseen DEF s
  <1>5. CASE ~Filtered(s.query)
    <2> DEFINE u == [s EXCEPT !.cut = Len(log)]
               next == LastRow(s)
               more == next < Len(log)
               t == Answered(u, s.rows, next, more)
    <2>1. reader' = [reader EXCEPT ![r] = t] BY <1>1, <1>5 DEF Update
    <2>2. Holds(s, next, log) BY <1>1, <1>2, <1>5 DEF Reading
    <2>3. next \in Nat BY <1>2, LastRowType
    <2>4. next \in s.cursor..Len(log) /\ s.rows \in Seq(Nat) /\ s.cursor \in Nat
      BY <1>2, <2>2, Fields DEF Holds
    <2>5. ~more => next = Len(log) BY <1>2, <2>3, <2>4, Fields
    <2>6. more \in BOOLEAN OBVIOUS
    <2>7. \E from \in 0..next : /\ s.started => from = s.cursor
                                /\ s.rows = Sel(log, s.query, from, next)
      BY <2>2 DEF Holds
    <2> HIDE DEF s, next, more
    <2>8. /\ u \in ReaderRecord
          /\ u.pc = s.pc /\ u.audit = s.audit /\ u.query = s.query /\ u.started = s.started
          /\ u.cursor = s.cursor /\ u.heard = s.heard /\ u.cut = Len(log) /\ u.rows = s.rows
      BY <1>2 DEF ReaderRecord
    <2> HIDE DEF u
    <2>9. Heard(u, log) BY <1>2, <2>8, HeardSame DEF Reading
    <2>10. Holds(u, LastRow(u), log)
      <3>1. LastRow(u) = next BY <2>8 DEF LastRow, next
      <3> QED BY <2>2, <2>8, <3>1 DEF Holds
    <2>11. Reading(u, log) BY <1>1, <1>2, <1>3, <2>8, <2>9, <2>10 DEF Reading
    <2>12. u.started /\ ~more => s.rows = Sel(log, u.query, u.cursor, u.cut)
      BY <2>5, <2>7, <2>8
    <2>13. \E from \in 0..next : /\ u.started => from = u.cursor
                                 /\ s.rows = Sel(log, u.query, from, next)
      BY <2>7, <2>8
    <2>14. ~u.audit /\ next \in u.cursor..Len(log) BY <1>3, <2>4, <2>8
    <2>15. /\ t \in ReaderRecord /\ Reading(t, log)
           /\ t.query = u.query /\ t.cursor = u.cursor /\ t.heard = u.heard
      BY <1>2, <2>3, <2>4, <2>6, <2>8, <2>11, <2>12, <2>13, <2>14, AnswerReads
    <2> HIDE DEF t
    <2> QED BY <1>1, <2>1, <2>8, <2>15, ReaderUnseen DEF s
  <1> QED BY <1>4, <1>5

LEMMA QuietReads ==
  ASSUME NEW l, Len(l) \in Nat, NEW s \in ReaderRecord, Reading(s, l)
  PROVE  /\ Quiet(s) \in ReaderRecord /\ Reading(Quiet(s), l)
         /\ Quiet(s).query = s.query /\ Quiet(s).cursor = s.cursor /\ Quiet(s).heard = s.heard
         /\ Quiet(s).audit = s.audit
  <1> DEFINE t == Quiet(s)
  <1>1. <<>> \in Seq(Nat) OBVIOUS
  <1>2. /\ t \in ReaderRecord
        /\ t.pc = "idle" /\ t.audit = s.audit /\ t.query = s.query /\ t.started = s.started
        /\ t.cursor = s.cursor /\ t.heard = s.heard /\ t.cut = 0
    BY <1>1 DEF ReaderRecord, Quiet
  <1> HIDE DEF t
  <1>3. Heard(t, l) BY <1>2, HeardSame DEF Reading
  <1>4. Reading(t, l) BY <1>2, <1>3 DEF Reading
  <1> QED BY <1>2, <1>4 DEF t

LEMMA LoseAnswerStep ==
  ASSUME IInv, NEW r \in Reader, LoseAnswer(r)
  PROVE  Good
  <1> DEFINE s == reader[r]
             t == Quiet(s)
  <1>1. reader' = [reader EXCEPT ![r] = t] /\ UNCHANGED <<log, objects, post>>
    BY DEF LoseAnswer, Update
  <1>2. s \in ReaderRecord /\ Reading(s, log) /\ Len(log) \in Nat BY ReaderFacts
  <1> HIDE DEF s
  <1>3. /\ t \in ReaderRecord /\ Reading(t, log)
        /\ t.query = s.query /\ t.cursor = s.cursor /\ t.heard = s.heard
    BY <1>2, QuietReads
  <1> HIDE DEF t
  <1> QED BY <1>1, <1>3, ReaderUnseen DEF s

\* The module's queries, as answers of the log.
LEMMA Pages ==
  ASSUME NEW q, NEW a, NEW b, NEW k
  PROVE  /\ Selected(q, a, b) = Sel(log, q, a, b)
         /\ Ascending(q, a, b, k) = FirstRows(Sel(log, q, a, b), k)
         /\ Newest(q, b, k) = LastRows(Sel(log, q, 0, b), k)
  BY DEF Selected, Ascending, Newest, Sel, Wanted, FirstRows, LastRows

\* A page that says there is more ends with its last row; one that does not is
\* all there was at the cut.
LEMMA CutPageReads ==
  ASSUME NEW s \in ReaderRecord, Len(log) \in Nat, Reading(s, log), s.pc = "page",
         Filtered(s.query)
  PROVE  /\ CutPage(s) \in ReaderRecord /\ Reading(CutPage(s), log)
         /\ CutPage(s).query = s.query /\ CutPage(s).cursor = s.cursor
         /\ CutPage(s).heard = s.heard
  <1>1. /\ s.cursor \in Nat /\ s.cut \in Nat /\ s.started \in BOOLEAN
        /\ Limit \in Nat /\ Limit + 1 \in Nat /\ Limit # 0 /\ Limit \in Nat \ {0}
    BY Fields, BoardAssumption
  <1>2. ~s.audit /\ s.cursor <= s.cut /\ s.cut <= Len(log) BY DEF Reading
  <1>3. CASE ~s.started
    <2> DEFINE page == LastRows(Sel(log, s.query, 0, s.cut), Limit)
               next == s.cut
               more == FALSE
    <2>1. CutPage(s) = Answered(s, page, next, more)
      BY <1>3, Pages DEF CutPage, FilteredPage
    <2>2. Window(log, s.query, s.cut, page) BY <1>1, LastRowsOf
    <2>3. next \in s.cursor..Len(log) /\ next \in Nat /\ next = s.cut BY <1>1, <1>2
    <2>4. more \in BOOLEAN OBVIOUS
    <2> HIDE DEF page, next, more
    <2>5. page \in Seq(Nat) /\ \E from \in 0..next : page = Sel(log, s.query, from, next)
      BY <2>2, <2>3 DEF Window
    <2>6. \E from \in 0..next : /\ s.started => from = s.cursor
                                /\ page = Sel(log, s.query, from, next)
      BY <1>3, <2>5
    <2>7. s.started /\ ~more => page = Sel(log, s.query, s.cursor, s.cut) BY <1>3
    <2> QED BY <1>2, <2>1, <2>3, <2>4, <2>5, <2>6, <2>7, AnswerReads
  <1>4. CASE s.started
    <2> DEFINE all == Sel(log, s.query, s.cursor, s.cut)
               limit == Limit + 1
               rows == FirstRows(all, limit)
               page == FirstRows(rows, Limit)
               more == Len(rows) > Limit
               next == IF more THEN page[Len(page)] ELSE Greatest(s.cursor, s.cut)
    <2>1. CutPage(s) = Answered(s, page, next, more)
      <3>1. Ascending(s.query, s.cursor, s.cut, Limit + 1) = rows BY Pages
      <3>2. page = SubSeq(rows, 1, Least(Limit, Len(rows))) BY DEF FirstRows
      <3> HIDE DEF rows, page
      <3> QED BY <1>4, <3>1, <3>2 DEF CutPage, FilteredPage
    <2>2. all = Sel(log, s.query, s.cursor, s.cut) /\ limit \in Nat /\ limit = Limit + 1
      BY <1>1
    <2> HIDE DEF all, limit
    <2>3. FirstPage(log, s.query, s.cursor, s.cut, all, limit, rows)
      BY <1>1, <2>2, FirstRowsOf
    <2> HIDE DEF rows
    <2>4. rows \in Seq(Nat) /\ Len(rows) \in Nat BY <2>3 DEF FirstPage
    <2>5. more \in BOOLEAN OBVIOUS
    <2>6. CASE more
      <3> DEFINE last == rows[Len(rows)]
      <3>1. Len(rows) > Limit BY <2>6
      <3>2. rows # <<>> BY <1>1, <2>4, <3>1
      <3>3. last \in s.cursor + 1..s.cut /\ rows = Sel(log, s.query, s.cursor, last)
        BY <2>3, <3>2 DEF FirstPage
      <3>4. last \in Nat BY <1>1, <3>3
      <3> HIDE DEF last
      <3>5. FirstPage(log, s.query, s.cursor, last, rows, Limit, page)
        BY <1>1, <3>3, <3>4, FirstRowsOf
      <3>6. next = page[Len(page)] BY <2>6
      <3> HIDE DEF page, next, more
      <3>7. page \in Seq(Nat) /\ Len(page) = Limit
        BY <1>1, <2>4, <3>1, <3>5 DEF FirstPage, Least
      <3>8. page # <<>> BY <1>1, <3>7
      <3>9. next \in s.cursor + 1..last /\ page = Sel(log, s.query, s.cursor, next)
        BY <3>5, <3>6, <3>8 DEF FirstPage
      <3>10. next \in Nat /\ next \in s.cursor..Len(log) /\ s.cursor \in 0..next
        BY <1>1, <1>2, <3>3, <3>4, <3>9
      <3>11. \E from \in 0..next : /\ s.started => from = s.cursor
                                   /\ page = Sel(log, s.query, from, next)
        BY <3>9, <3>10
      <3>12. s.started /\ ~more => page = Sel(log, s.query, s.cursor, s.cut) BY <2>6
      <3> QED BY <1>2, <2>1, <2>5, <3>7, <3>10, <3>11, <3>12, AnswerReads
    <2>7. CASE ~more
      <3>1. Len(rows) <= Limit BY <1>1, <2>4, <2>7
      <3>2. Len(all) \in Nat /\ Len(rows) = Least(limit, Len(all)) BY <2>3 DEF FirstPage
      <3>3. Len(all) <= limit BY <1>1, <2>2, <3>1, <3>2 DEF Least
      <3>4. rows = all BY <2>3, <3>3 DEF FirstPage
      <3>5. FirstPage(log, s.query, s.cursor, s.cut, rows, Limit, page)
        BY <1>1, <2>2, <3>4, FirstRowsOf
      <3>6. next = s.cut BY <1>1, <1>2, <2>7 DEF Greatest
      <3> HIDE DEF page, next, more
      <3>7. page \in Seq(Nat) /\ page = all BY <3>1, <3>4, <3>5 DEF FirstPage
      <3>8. next \in Nat /\ next \in s.cursor..Len(log) /\ s.cursor \in 0..next
        BY <1>1, <1>2, <3>6
      <3>9. page = Sel(log, s.query, s.cursor, next) BY <2>2, <3>6, <3>7
      <3>10. \E from \in 0..next : /\ s.started => from = s.cursor
                                   /\ page = Sel(log, s.query, from, next)
        BY <3>8, <3>9
      <3>11. s.started /\ ~more => page = Sel(log, s.query, s.cursor, s.cut) BY <3>6, <3>9
      <3> QED BY <1>2, <2>1, <2>5, <3>7, <3>8, <3>10, <3>11, AnswerReads
    <2> QED BY <2>6, <2>7
  <1> QED BY <1>1, <1>3, <1>4

\* An unfiltered page is exact up to its last row.
LEMMA PlainPageReads ==
  ASSUME NEW s \in ReaderRecord, Len(log) \in Nat, Reading(s, log), s.pc = "page",
         ~Filtered(s.query)
  PROVE  /\ PlainPage(s) \in ReaderRecord /\ Reading(PlainPage(s), log)
         /\ PlainPage(s).query = s.query /\ PlainPage(s).cursor = s.cursor
         /\ PlainPage(s).heard = s.heard
  <1>1. /\ s.cursor \in Nat /\ s.cut \in Nat /\ s.started \in BOOLEAN
        /\ Limit \in Nat /\ Limit # 0 /\ Limit \in Nat \ {0}
    BY Fields, BoardAssumption
  <1>2. /\ ~s.audit /\ s.cursor <= Len(log) /\ s.cut <= Len(log)
        /\ ~s.started => s.cursor = 0
    BY DEF Reading
  <1> DEFINE page == IF s.started THEN Ascending(s.query, s.cursor, Len(log), Limit)
                     ELSE Newest(s.query, Len(log), Limit)
             t == [s EXCEPT !.pc = "last", !.rows = page]
             to == IF page # <<>> THEN page[Len(page)] ELSE s.cursor
  <1>3. PlainPage(s) = t BY DEF PlainPage
  <1>4. /\ page \in Seq(Nat) /\ to \in s.cursor..Len(log) /\ to \in Nat
        /\ \E from \in 0..to : /\ s.started => from = s.cursor
                               /\ page = Sel(log, s.query, from, to)
    <2>1. CASE s.started
      <3> DEFINE rows == Sel(log, s.query, s.cursor, Len(log))
      <3>1. page = FirstRows(rows, Limit) /\ rows = Sel(log, s.query, s.cursor, Len(log))
        BY <2>1, Pages
      <3> HIDE DEF rows, page
      <3>2. FirstPage(log, s.query, s.cursor, Len(log), rows, Limit, page)
        BY <1>1, <3>1, FirstRowsOf
      <3>3. CASE page = <<>>
        <4>1. to = s.cursor BY <3>3
        <4>2. page = Sel(log, s.query, s.cursor, s.cursor) BY <1>1, <3>3, SelEmpty
        <4>3. page \in Seq(Nat) BY <3>2 DEF FirstPage
        <4>4. s.cursor \in 0..s.cursor /\ s.cursor \in s.cursor..Len(log) BY <1>1, <1>2
        <4> HIDE DEF to
        <4> QED BY <1>1, <4>1, <4>2, <4>3, <4>4
      <3>4. CASE page # <<>>
        <4>1. to = page[Len(page)] BY <3>4
        <4> HIDE DEF to
        <4>2. /\ page \in Seq(Nat) /\ to \in s.cursor + 1..Len(log)
              /\ page = Sel(log, s.query, s.cursor, to)
          BY <3>2, <3>4, <4>1 DEF FirstPage
        <4>3. to \in Nat /\ to \in s.cursor..Len(log) /\ s.cursor \in 0..to BY <1>1, <4>2
        <4> QED BY <4>2, <4>3
      <3> QED BY <3>3, <3>4
    <2>2. CASE ~s.started
      <3>1. page = LastRows(Sel(log, s.query, 0, Len(log)), Limit) BY <2>2, Pages
      <3> HIDE DEF page
      <3>2. Window(log, s.query, Len(log), page) BY <1>1, <3>1, LastRowsOf
      <3>3. CASE page = <<>>
        <4>1. to = 0 BY <1>2, <2>2, <3>3
        <4>2. page = Sel(log, s.query, 0, 0) BY <3>3, SelEmpty
        <4>3. page \in Seq(Nat) BY <3>2 DEF Window
        <4>4. 0 \in 0..0 /\ 0 \in s.cursor..Len(log) BY <1>2, <2>2
        <4> HIDE DEF to
        <4> QED BY <2>2, <4>1, <4>2, <4>3, <4>4
      <3>4. CASE page # <<>>
        <4>1. to = page[Len(page)] BY <3>4
        <4> HIDE DEF to
        <4>2. /\ page \in Seq(Nat) /\ to \in 1..Len(log)
              /\ \E from \in 0..to : page = Sel(log, s.query, from, to)
          BY <3>2, <3>4, <4>1 DEF Window
        <4>3. to \in Nat /\ to \in s.cursor..Len(log) BY <1>2, <2>2, <4>2
        <4> QED BY <2>2, <4>2, <4>3
      <3> QED BY <3>3, <3>4
    <2> QED BY <1>1, <2>1, <2>2
  <1> HIDE DEF page
  <1>5. /\ t \in ReaderRecord
        /\ t.pc = "last" /\ t.audit = s.audit /\ t.query = s.query /\ t.started = s.started
        /\ t.cursor = s.cursor /\ t.heard = s.heard /\ t.cut = s.cut /\ t.rows = page
    BY <1>4 DEF ReaderRecord
  <1> HIDE DEF t
  <1>6. LastRow(t) = to BY <1>5 DEF LastRow
  <1> HIDE DEF to
  <1>7. Holds(t, LastRow(t), log) BY <1>4, <1>5, <1>6 DEF Holds
  <1>8. Heard(t, log) BY <1>5, HeardSame DEF Reading
  <1>9. Reading(t, log) BY <1>2, <1>5, <1>7, <1>8 DEF Reading
  <1> QED BY <1>3, <1>5, <1>9

LEMMA ReadPageStep ==
  ASSUME IInv, NEW r \in Reader, ReadPage(r)
  PROVE  Good
  <1> DEFINE s == reader[r]
             page == IF Filtered(s.query) THEN CutPage(s) ELSE PlainPage(s)
             t == IF Readable(page.rows) THEN page ELSE Quiet(s)
  <1>1. s.pc = "page" /\ reader' = [reader EXCEPT ![r] = t] /\ UNCHANGED <<log, objects, post>>
    BY DEF ReadPage, Listing, Update
  <1>2. s \in ReaderRecord /\ Reading(s, log) /\ Len(log) \in Nat BY ReaderFacts
  <1> HIDE DEF s
  <1>3. /\ page \in ReaderRecord /\ Reading(page, log)
        /\ page.query = s.query /\ page.cursor = s.cursor /\ page.heard = s.heard
    BY <1>1, <1>2, CutPageReads, PlainPageReads
  <1>4. /\ Quiet(s) \in ReaderRecord /\ Reading(Quiet(s), log)
        /\ Quiet(s).query = s.query /\ Quiet(s).cursor = s.cursor /\ Quiet(s).heard = s.heard
    BY <1>2, QuietReads
  <1> HIDE DEF page
  <1>5. /\ t \in ReaderRecord /\ Reading(t, log)
        /\ t.query = s.query /\ t.cursor = s.cursor /\ t.heard = s.heard
    BY <1>3, <1>4
  <1> HIDE DEF t
  <1> QED BY <1>1, <1>5, ReaderUnseen DEF s

\* What a follower hears of an interval is the answer to its query.
LEMMA Intervals ==
  ASSUME NEW q, NEW a, NEW b
  PROVE  BoardPromise!Interval(q, a, b) = Sel(log, q, a, b)
  <1> DEFINE S == Wanted(log, q, a, b)
  <1>1. BoardPromise!Interval(q, a, b) = BoardPromise!InOrder(S, b)
    BY DEF BoardPromise!Interval, Wanted, Matches
  <1>2. BoardPromise!InOrder(S, b) = InOrder(S, b)
    <2> HIDE DEF S
    <2> QED BY DEF InOrder, BoardPromise!InOrder
  <1> QED BY <1>1, <1>2 DEF Sel

\* SelJoin, for sequences that are given names.
Joined(l, q, a, c, x, y) == x \o y = Sel(l, q, a, c)
LEMMA SelExtend ==
  ASSUME NEW l, NEW q, NEW a \in Nat, NEW b \in Nat, NEW c \in Nat, a <= b, b <= c,
         NEW x, NEW y, x = Sel(l, q, a, b), y = Sel(l, q, b, c)
  PROVE  Joined(l, q, a, c, x, y)
  BY SelJoin DEF Joined

LEMMA TraceUpdate ==
  ASSUME NEW s, NEW to, NEW h
  PROVE  [Trace(s) EXCEPT !.to = to, !.heard = h] = [query |-> s.query, to |-> to, heard |-> h]
  <1> DEFINE e == [Trace(s) EXCEPT !.to = to, !.heard = h]
  <1>1. e \in [query: {s.query}, to: {to}, heard: {h}] BY DEF Trace
  <1> HIDE DEF e
  <1>2. e = [query |-> e.query, to |-> e.to, heard |-> e.heard] BY <1>1
  <1>3. e.query = s.query /\ e.to = to /\ e.heard = h BY <1>1
  <1>4. e = [query |-> s.query, to |-> to, heard |-> h] BY <1>2, <1>3
  <1> QED BY <1>4 DEF e

\* A reader hears the next interval of what it follows, or starts with a window.
LEMMA Hears ==
  ASSUME IInv, NEW r \in Reader, NEW t \in ReaderRecord, Reading(t, log),
         reader' = [reader EXCEPT ![r] = t], UNCHANGED <<log, objects, post>>,
         t.query = reader[r].query,
         \/ /\ t.cursor \in reader[r].cursor..Len(log)
            /\ t.heard = reader[r].heard
                         \o Sel(log, t.query, reader[r].cursor, t.cursor)
         \/ /\ reader[r].cursor = 0 /\ reader[r].heard = <<>>
            /\ \E from \in 0..t.cursor : t.heard = Sel(log, t.query, from, t.cursor)
  PROVE  Good
  <1> DEFINE s == reader[r]
             f == follows[r]
  <1>1. IInv' BY ReaderKeeps
  <1>2. /\ f = Trace(s) /\ follows' = [follows EXCEPT ![r] = Trace(t)]
    BY TraceFacts
  <1>3. posts' = posts /\ log' = log BY DEF posts
  <1>4. f.query = t.query /\ f.to = s.cursor /\ f.heard = s.heard BY <1>2 DEF Trace
  <1>6. Trace(t) = [f EXCEPT !.to = t.cursor, !.heard = t.heard]
    <2> DEFINE to == t.cursor
               h == t.heard
    <2>1. [Trace(s) EXCEPT !.to = to, !.heard = h] = [query |-> s.query, to |-> to, heard |-> h]
      <3> HIDE DEF to, h, s
      <3> QED BY TraceUpdate
    <2>2. Trace(t) = [query |-> s.query, to |-> to, heard |-> h] BY DEF Trace
    <2> HIDE DEF to, h, s
    <2>3. [f EXCEPT !.to = to, !.heard = h] = [Trace(s) EXCEPT !.to = to, !.heard = h]
      BY <1>2
    <2> QED BY <2>1, <2>2, <2>3 DEF to, h
  <1>7. t.cursor \in Nat /\ t.cursor <= Len(log) /\ Len(log) \in Nat
    BY ReaderFacts, Fields DEF Reading
  <1>8. CASE /\ t.cursor \in s.cursor..Len(log)
             /\ t.heard = s.heard \o Sel(log, t.query, s.cursor, t.cursor)
    <2>1. t.heard = f.heard \o BoardPromise!Interval(f.query, f.to, t.cursor)
      BY <1>4, <1>8, Intervals
    <2>2. t.cursor \in f.to..Len(log) BY <1>4, <1>8
    <2> HIDE DEF s, f
    <2>3. follows' = [follows EXCEPT ![r] =
            [f EXCEPT !.to = t.cursor,
                      !.heard = f.heard \o BoardPromise!Interval(f.query, f.to, t.cursor)]]
      BY <1>2, <1>6, <2>1
    <2>4. BoardPromise!Hear(r) BY <1>3, <2>2, <2>3 DEF BoardPromise!Hear, f
    <2>5. BoardPromise!Next BY <2>4 DEF BoardPromise!Next
    <2> QED BY <1>1, <2>5 DEF Good
  <1>9. CASE /\ s.cursor = 0 /\ s.heard = <<>>
             /\ \E from \in 0..t.cursor : t.heard = Sel(log, t.query, from, t.cursor)
    <2>1. PICK from \in 0..t.cursor : t.heard = Sel(log, t.query, from, t.cursor) BY <1>9
    <2>2. t.heard = BoardPromise!Interval(f.query, from, t.cursor)
      BY <1>4, <2>1, Intervals
    <2>3. f.to = 0 /\ f.heard = <<>> BY <1>4, <1>9
    <2>4. from \in 0..Len(log) /\ t.cursor \in 0..Len(log) /\ from <= t.cursor BY <1>7
    <2> HIDE DEF s, f
    <2>5. follows' = [follows EXCEPT ![r] =
            [f EXCEPT !.to = t.cursor,
                      !.heard = BoardPromise!Interval(f.query, from, t.cursor)]]
      BY <1>2, <1>6, <2>2
    <2>6. BoardPromise!Follow(r) BY <1>3, <2>3, <2>4, <2>5 DEF BoardPromise!Follow, f
    <2>7. BoardPromise!Next BY <2>6 DEF BoardPromise!Next
    <2> QED BY <1>1, <2>7 DEF Good
  <1> QED BY <1>8, <1>9

\* Only this step and the next page of a pass move a cursor.
LEMMA ReceiveStep ==
  ASSUME IInv, NEW r \in Reader, Receive(r)
  PROVE  Good
  <1> DEFINE s == reader[r]
             t == [Quiet(s) EXCEPT !.cursor = s.next, !.started = TRUE,
                                   !.heard = @ \o s.rows]
  <1>1. /\ s.pc = "answered" /\ reader' = [reader EXCEPT ![r] = t]
        /\ UNCHANGED <<log, objects, post>>
    BY DEF Receive, Listing, Update
  <1>2. s \in ReaderRecord /\ Reading(s, log) /\ Len(log) \in Nat BY ReaderFacts
  <1> HIDE DEF s
  <1>3. /\ s.cursor \in Nat /\ s.next \in Nat /\ s.started \in BOOLEAN
        /\ s.heard \in Seq(Nat) /\ s.rows \in Seq(Nat)
    BY <1>2, Fields
  <1>4. /\ s.next \in s.cursor..Len(log) /\ ~s.audit
        /\ ~s.started => s.cursor = 0 /\ s.heard = <<>>
    BY <1>1, <1>2 DEF Reading, Holds
  <1>5. PICK from \in 0..s.next : /\ s.started => from = s.cursor
                                  /\ s.rows = Sel(log, s.query, from, s.next)
    BY <1>1, <1>2 DEF Reading, Holds
  <1>6. Quiet(s) \in ReaderRecord /\ Quiet(s).heard = s.heard BY <1>2, QuietReads
  <1>7. s.heard \o s.rows \in Seq(Nat) BY <1>3
  <1>8. /\ t \in ReaderRecord
        /\ t.pc = "idle" /\ t.audit = s.audit /\ t.query = s.query /\ t.started
        /\ t.cursor = s.next /\ t.heard = s.heard \o s.rows /\ t.cut = 0
    <2> DEFINE h == s.heard \o s.rows
    <2>1. t = [Quiet(s) EXCEPT !.cursor = s.next, !.started = TRUE, !.heard = h] BY <1>6
    <2>2. h \in Seq(Nat) BY <1>7
    <2> HIDE DEF h, t
    <2>3. /\ Quiet(s).pc = "idle" /\ Quiet(s).audit = s.audit /\ Quiet(s).query = s.query
          /\ Quiet(s).cut = 0
      BY <1>2 DEF Quiet, ReaderRecord
    <2>4. /\ t \in ReaderRecord
          /\ t.pc = Quiet(s).pc /\ t.audit = Quiet(s).audit /\ t.query = Quiet(s).query
          /\ t.started = TRUE /\ t.cursor = s.next /\ t.heard = h /\ t.cut = Quiet(s).cut
      BY <1>3, <1>6, <2>1, <2>2 DEF ReaderRecord
    <2> QED BY <2>3, <2>4 DEF h
  <1> HIDE DEF t
  <1>9. CASE s.started
    <2>1. PICK first \in 0..s.cursor : s.heard = Sel(log, s.query, first, s.cursor)
      BY <1>2 DEF Reading, Heard
    <2>2. first \in Nat /\ first <= s.cursor /\ s.cursor <= s.next /\ first \in 0..s.next
      BY <1>3, <1>4
    <2>3. s.rows = Sel(log, s.query, s.cursor, s.next) BY <1>5, <1>9
    <2>4. s.heard \o s.rows = Sel(log, s.query, first, s.next)
      <3> DEFINE q == s.query
                 b == s.cursor
                 c == s.next
                 x == s.heard
                 y == s.rows
      <3>1. /\ first \in Nat /\ b \in Nat /\ c \in Nat /\ first <= b /\ b <= c
            /\ x = Sel(log, q, first, b) /\ y = Sel(log, q, b, c)
        BY <1>3, <2>1, <2>2, <2>3
      <3> HIDE DEF q, b, c, x, y
      <3>2. Joined(log, q, first, c, x, y) BY <3>1, SelExtend
      <3> QED BY <3>2 DEF q, c, x, y, Joined
    <2>5. Heard(t, log) BY <1>4, <1>8, <2>2, <2>4 DEF Heard
    <2>6. t.cursor <= Len(log) /\ t.cut <= Len(log) BY <1>2, <1>3, <1>4, <1>8
    <2>7. Reading(t, log) BY <1>4, <1>8, <2>5, <2>6 DEF Reading
    <2>8. /\ t.cursor \in s.cursor..Len(log)
          /\ t.heard = s.heard \o Sel(log, t.query, s.cursor, t.cursor)
      BY <1>4, <1>8, <2>3
    <2> QED BY <1>1, <1>8, <2>7, <2>8, Hears DEF s
  <1>10. CASE ~s.started
    <2>1. s.cursor = 0 /\ s.heard = <<>> BY <1>4, <1>10
    <2>2. s.heard \o s.rows = s.rows BY <1>3, <2>1
    <2>3. from \in 0..t.cursor /\ t.heard = Sel(log, t.query, from, t.cursor)
      BY <1>5, <1>8, <2>2
    <2>4. Heard(t, log) BY <1>4, <1>8, <2>3 DEF Heard
    <2>5. t.cursor <= Len(log) /\ t.cut <= Len(log) BY <1>2, <1>3, <1>4, <1>8
    <2>6. Reading(t, log) BY <1>4, <1>8, <2>4, <2>5 DEF Reading
    <2> QED BY <1>1, <1>8, <2>1, <2>3, <2>6, Hears DEF s
  <1> QED BY <1>3, <1>9, <1>10

LEMMA BeginPassStep ==
  ASSUME IInv, NEW r \in Reader, BeginPass(r)
  PROVE  Good
  <1> DEFINE s == reader[r]
             t == [s EXCEPT !.pc = "boundary"]
  <1>1. s.pc = "idle" /\ s.audit /\ UNCHANGED <<log, objects, post>> BY DEF BeginPass, Listing
  <1>2. s \in ReaderRecord /\ Reading(s, log) /\ log \in Seq(Message) BY ReaderFacts
  <1>3. ~Dangling
    <2>1. Founded(log) /\ DOMAIN log = 1..Len(log) BY <1>2 DEF IInv
    <2> QED BY <2>1 DEF Founded, Dangling, Bound
  <1>4. reader' = [reader EXCEPT ![r] = t] BY <1>3 DEF BeginPass, Update
  <1> HIDE DEF s
  <1>5. /\ t \in ReaderRecord
        /\ t.pc = "boundary" /\ t.audit = s.audit /\ t.query = s.query /\ t.started = s.started
        /\ t.cursor = s.cursor /\ t.heard = s.heard /\ t.cut = s.cut
    BY <1>2 DEF ReaderRecord
  <1> HIDE DEF t
  <1>6. Heard(t, log) BY <1>2, <1>5, HeardSame DEF Reading
  <1>7. Reading(t, log) BY <1>1, <1>2, <1>5, <1>6 DEF Reading
  <1> QED BY <1>1, <1>4, <1>5, <1>7, ReaderUnseen DEF s

LEMMA ReadBoundaryStep ==
  ASSUME IInv, NEW r \in Reader, ReadBoundary(r)
  PROVE  Good
  <1> DEFINE s == reader[r]
             t == [s EXCEPT !.pc = "validate", !.cut = Len(log)]
  <1>1. /\ s.pc = "boundary" /\ reader' = [reader EXCEPT ![r] = t]
        /\ UNCHANGED <<log, objects, post>>
    BY DEF ReadBoundary, Listing, Update
  <1>2. s \in ReaderRecord /\ Reading(s, log) /\ Len(log) \in Nat BY ReaderFacts
  <1> HIDE DEF s
  <1>3. /\ t \in ReaderRecord
        /\ t.pc = "validate" /\ t.audit = s.audit /\ t.query = s.query /\ t.started = s.started
        /\ t.cursor = s.cursor /\ t.heard = s.heard /\ t.cut = Len(log)
    BY <1>2 DEF ReaderRecord
  <1> HIDE DEF t
  <1>4. Heard(t, log) BY <1>2, <1>3, HeardSame DEF Reading
  <1>5. Reading(t, log) BY <1>1, <1>2, <1>3, <1>4 DEF Reading
  <1> QED BY <1>1, <1>3, <1>5, ReaderUnseen DEF s

\* A page of the Doctor's pass continues what it has validated.
LEMMA ValidatePageStep ==
  ASSUME IInv, NEW r \in Reader, ValidatePage(r)
  PROVE  Good
  <1> DEFINE s == reader[r]
             page == FirstRows(Sel(log, Everything, s.cursor, Len(log)), DoctorLimit)
             kept == InOrder({page[i] : i \in DOMAIN page}, s.cut)
  <1>1. s.pc = "validate" /\ UNCHANGED <<log, objects, post>> BY DEF ValidatePage, Listing
  <1>2. s \in ReaderRecord /\ Reading(s, log) /\ log \in Seq(Message) /\ Len(log) \in Nat
    BY ReaderFacts
  <1>3. Validate(r, kept)
    <2>1. Ascending(Everything, s.cursor, Len(log), DoctorLimit) = page BY Pages
    <2> HIDE DEF page
    <2> QED BY <2>1 DEF ValidatePage
  <1>4. reader' = [reader EXCEPT ![r] =
          IF s.cursor >= s.cut \/ kept = <<>> THEN [s EXCEPT !.pc = "done"]
          ELSE IF ~Readable(kept) THEN [s EXCEPT !.pc = "alarm"]
          ELSE [s EXCEPT !.cursor = kept[Len(kept)], !.heard = @ \o kept]]
    BY <1>3 DEF Validate, Update
  <1>5. /\ s.cursor \in Nat /\ s.cut \in Nat /\ s.cut \in 0..Len(log)
        /\ s.heard \in Seq(Nat) /\ DoctorLimit \in Nat \ {0}
        /\ s.cursor <= s.cut /\ s.cursor <= Len(log) /\ s.audit /\ s.query = Everything
        /\ s.started
    BY <1>1, <1>2, Fields, BoardAssumption DEF Reading
  <1>k. Kept(log, s.cursor, s.cut, kept)
    <2> DEFINE a == s.cursor
               b == Len(log)
               cut == s.cut
    <2>1. /\ page = FirstRows(Sel(log, Everything, a, b), DoctorLimit)
          /\ kept = InOrder(RowsOf(page), cut)
      BY DEF RowsOf
    <2>2. a \in Nat /\ b \in Nat /\ cut \in 0..b /\ DoctorLimit \in Nat \ {0}
      BY <1>2, <1>5
    <2> HIDE DEF page, kept, s, a, b, cut
    <2>3. Kept(log, a, cut, kept) BY <2>1, <2>2, KeptOfPage
    <2> QED BY <2>3 DEF a, cut
  <1> HIDE DEF kept
  <1>6. /\ kept \in Seq(Nat)
        /\ kept = <<>> => s.cut <= s.cursor
        /\ kept # <<>> => /\ kept[Len(kept)] \in s.cursor + 1..s.cut
                          /\ kept = Sel(log, Everything, s.cursor, kept[Len(kept)])
    BY <1>k DEF Kept
  <1>7. CASE s.cursor >= s.cut \/ kept = <<>>
    <2> DEFINE t == [s EXCEPT !.pc = "done"]
    <2>1. reader' = [reader EXCEPT ![r] = t] BY <1>4, <1>7
    <2> HIDE DEF s
    <2>2. s.cursor = s.cut BY <1>5, <1>6, <1>7
    <2>3. /\ t \in ReaderRecord
          /\ t.pc = "done" /\ t.audit = s.audit /\ t.query = s.query /\ t.started = s.started
          /\ t.cursor = s.cursor /\ t.heard = s.heard /\ t.cut = s.cut
      BY <1>2 DEF ReaderRecord
    <2> HIDE DEF t
    <2>4. Heard(t, log) BY <1>2, <2>3, HeardSame DEF Reading
    <2>5. Reading(t, log) BY <1>1, <1>2, <2>2, <2>3, <2>4 DEF Reading
    <2> QED BY <1>1, <2>1, <2>3, <2>5, ReaderUnseen DEF s
  <1>8. CASE ~(s.cursor >= s.cut \/ kept = <<>>)
    <2> DEFINE last == kept[Len(kept)]
               h == s.heard \o kept
               t == [s EXCEPT !.cursor = last, !.heard = h]
    <2>1. /\ last \in s.cursor + 1..s.cut /\ last \in Nat
          /\ kept = Sel(log, Everything, s.cursor, last)
      BY <1>5, <1>6, <1>8
    <2>2. Readable(kept)
      <3>1. \A k \in 1..Len(kept) : kept[k] \in 1..Len(log)
        <4> HIDE DEF last
        <4>1. \A k \in 1..Len(Sel(log, Everything, s.cursor, last)) :
                Sel(log, Everything, s.cursor, last)[k] \in s.cursor + 1..last
          BY <1>5, <2>1, SelElements
        <4>2. \A k \in 1..Len(kept) : kept[k] \in s.cursor + 1..last BY <2>1, <4>1
        <4> QED BY <1>2, <1>5, <2>1, <4>2
      <3>2. Stored(log, objects) BY DEF IInv
      <3>3. DOMAIN kept = 1..Len(kept) BY <1>6
      <3> QED BY <3>1, <3>2, <3>3 DEF Readable, Stored
    <2>3. reader' = [reader EXCEPT ![r] = t] BY <1>4, <1>8, <2>2
    <2>4. h \in Seq(Nat) BY <1>5, <1>6
    <2> HIDE DEF s, last
    <2>5. PICK from \in 0..s.cursor : /\ s.audit => from = 0
                                      /\ s.heard = Sel(log, s.query, from, s.cursor)
      BY <1>2 DEF Reading, Heard
    <2>6. h = Sel(log, Everything, 0, last)
      <3>1. s.heard = Sel(log, Everything, 0, s.cursor) BY <1>5, <2>5
      <3>2. 0 \in Nat /\ 0 <= s.cursor /\ s.cursor <= last BY <1>5, <2>1
      <3>3. kept = Sel(log, Everything, s.cursor, last) BY <2>1
      <3> DEFINE q == Everything
                 a == 0
                 b == s.cursor
                 x == s.heard
      <3>4. /\ a \in Nat /\ b \in Nat /\ last \in Nat /\ a <= b /\ b <= last
            /\ x = Sel(log, q, a, b) /\ kept = Sel(log, q, b, last)
        BY <1>5, <2>1, <3>1, <3>2, <3>3
      <3> HIDE DEF q, a, b, x
      <3>5. Joined(log, q, a, last, x, kept) BY <3>4, SelExtend
      <3> QED BY <3>5 DEF q, a, x, h, Joined
    <2> HIDE DEF h
    <2>7. /\ t \in ReaderRecord
          /\ t.pc = s.pc /\ t.audit = s.audit /\ t.query = s.query /\ t.started = s.started
          /\ t.cursor = last /\ t.heard = h /\ t.cut = s.cut
      BY <1>2, <2>1, <2>4 DEF ReaderRecord
    <2> HIDE DEF t
    <2>8. 0 \in 0..t.cursor /\ t.heard = Sel(log, t.query, 0, t.cursor)
      BY <1>5, <2>1, <2>6, <2>7
    <2>9. Heard(t, log) BY <2>8 DEF Heard
    <2>10. last <= s.cut /\ last <= Len(log) BY <1>2, <1>5, <2>1
    <2>11. Reading(t, log) BY <1>1, <1>2, <1>5, <2>7, <2>9, <2>10 DEF Reading
    <2>12. t.cursor \in s.cursor..Len(log) BY <1>5, <2>1, <2>7, <2>10
    <2>13. t.heard = s.heard \o Sel(log, t.query, s.cursor, t.cursor)
      BY <1>5, <2>1, <2>7 DEF h
    <2> QED BY <1>1, <2>3, <2>7, <2>11, <2>12, <2>13, Hears DEF s
  <1> QED BY <1>7, <1>8

LEMMA ReaderSteps ==
  ASSUME IInv, NEW r \in Reader, ReaderStep(r)
  PROVE  Good
  BY PollStep, ReadLastStep, ReadPageStep, ReceiveStep, LoseAnswerStep, BeginPassStep,
     ReadBoundaryStep, ValidatePageStep DEF ReaderStep

----
\* The theorems.

\* The invariant is inductive, and a step keeps the promise.
THEOREM StepInv == IInv /\ [Next]_vars => Good
  <1> SUFFICES ASSUME IInv, [Next]_vars PROVE Good OBVIOUS
  <1>1. ASSUME NEW p \in Poster, PosterStep(p) PROVE Good BY <1>1, PosterSteps
  <1>2. ASSUME NEW r \in Reader, ReaderStep(r) PROVE Good BY <1>2, ReaderSteps
  <1>3. CASE UNCHANGED vars
    <2>1. log' = log /\ objects' = objects /\ post' = post /\ reader' = reader
      BY <1>3 DEF vars
    <2>2. posts' = posts /\ follows' = follows BY <2>1 DEF posts, follows
    <2>3. IInv' BY <2>1 DEF IInv, TypeOK
    <2> QED BY <2>1, <2>2, <2>3 DEF Good, BoardPromise!boardLogVars
  <1> QED BY <1>1, <1>2, <1>3 DEF Next

\* The inductive invariant holds in every state.
THEOREM BoardInv == Spec => []IInv
  <1>1. IInv /\ [Next]_vars => IInv' BY StepInv DEF Good
  <1> QED BY <1>1, InitInv, PTL DEF Spec

\* The rows, the objects and the locals of every call keep their types; a pass of
\* the Doctor is never in alarm (board.py validate_integrity).
THEOREM BoardTypeCorrect == Spec => []TypeOK
  <1>1. IInv => TypeOK BY DEF IInv
  <1> QED BY <1>1, BoardInv, PTL

\* No identity is in board_messages twice, and every reply there answers another
\* message that is there (append_board_message).
THEOREM IdentitiesAreUnique == Spec => [](Distinct(log) /\ Founded(log))
  <1>1. IInv => Distinct(log) /\ Founded(log) BY DEF IInv
  <1> QED BY <1>1, BoardInv, PTL

\* The CAS holds every message of the log (board.py post).
THEOREM MessagesStored == Spec => []MessagesAreStored
  <1>1. IInv => MessagesAreStored
    <2> SUFFICES ASSUME IInv PROVE MessagesAreStored OBVIOUS
    <2>1. log \in Seq(Message) /\ Stored(log, objects) BY DEF IInv, TypeOK
    <2>2. DOMAIN log = 1..Len(log) BY <2>1
    <2> QED BY <2>1, <2>2 DEF MessagesAreStored, Stored
  <1> QED BY <1>1, BoardInv, PTL

\* What a client heard is all it follows from the first message it heard on.
LEMMA HeardFromFirst ==
  ASSUME NEW l, NEW q, NEW a \in Nat, NEW b \in Nat, NEW h, h = Sel(l, q, a, b), h # <<>>
  PROVE  h = Sel(l, q, h[1] - 1, b)
  <1>1. h \in Seq(Nat) /\ Len(h) \in Nat
        /\ \A k \in 1..Len(h) : h[k] \in a + 1..b
    BY SelElements
  <1>2. Len(h) # 0 BY <1>1
  <1> DEFINE i == 1
             j == Len(h)
             s == SubSeq(h, i, j)
  <1>3. /\ i \in 1..Len(h) /\ j \in i..Len(h) /\ i = 1 /\ j = Len(h) /\ j \in Nat
        /\ h[1] - 1 \in Nat
    BY <1>1, <1>2
  <1>4. s = SubSeq(h, i, j) OBVIOUS
  <1> HIDE DEF i, j, s
  <1>5. Slice(l, q, a, b, h, i, j, s) BY <1>3, <1>4, SelSlice
  <1>6. s \in Seq(Nat) /\ Len(s) = Len(h) /\ \A k \in 1..Len(h) : s[k] = h[k]
    <2>1. /\ s \in Seq(Nat) /\ Len(s) = j - i + 1
          /\ \A k \in 1..j - i + 1 : s[k] = h[i + k - 1]
      BY <1>5 DEF Slice
    <2>2. j - i + 1 = Len(h) /\ \A k \in 1..Len(h) : i + k - 1 = k BY <1>1, <1>3
    <2> QED BY <2>1, <2>2
  <1>7. s = h BY <1>1, <1>6, SeqEqual
  <1>8. s = Sel(l, q, h[1] - 1, b) BY <1>3, <1>5 DEF Slice
  <1> QED BY <1>7, <1>8

\* A client that polls with the cursor of its last answer misses no message and
\* hears none twice (board.py list).
THEOREM NothingSkipped == Spec => []NothingIsSkipped
  <1>1. IInv => NothingIsSkipped
    <2> SUFFICES ASSUME IInv, NEW r \in Reader
                 PROVE  LET s == reader[r]
                            first == IF s.heard = <<>> THEN s.cursor ELSE s.heard[1] - 1
                        IN  /\ s.cursor <= Len(log)
                            /\ s.heard # <<>> => s.heard = Selected(s.query, first, s.cursor)
      BY DEF NothingIsSkipped
    <2> DEFINE s == reader[r]
               h == s.heard
               q == s.query
               b == s.cursor
    <2>1. s \in ReaderRecord /\ Reading(s, log) BY ReaderFacts
    <2> HIDE DEF s
    <2>2. b \in Nat BY <2>1, Fields
    <2>3. b <= Len(log) BY <2>1 DEF Reading
    <2>4. PICK from \in 0..b : h = Sel(log, q, from, b) BY <2>1 DEF Reading, Heard
    <2>5. ASSUME h # <<>> PROVE h = Selected(q, h[1] - 1, b)
      <3>1. from \in Nat /\ h = Sel(log, q, from, b) BY <2>2, <2>4
      <3> HIDE DEF h, q, b
      <3>2. h = Sel(log, q, h[1] - 1, b) BY <2>2, <2>5, <3>1, HeardFromFirst
      <3> DEFINE a == h[1] - 1
      <3>3. h = Sel(log, q, a, b) BY <3>2
      <3> HIDE DEF a
      <3>4. Selected(q, a, b) = Sel(log, q, a, b) BY Pages
      <3> QED BY <3>3, <3>4 DEF a
    <2> QED BY <2>3, <2>5 DEF s
  <1> QED BY <1>1, BoardInv, PTL

\* An answer without hasMore leaves out nothing that was there at its last
\* sequence (board.py list).
THEOREM LastPagesLast == Spec => []LastPagesAreLast
  <1>1. IInv => LastPagesAreLast
    <2> SUFFICES ASSUME IInv, NEW r \in Reader,
                        reader[r].pc = "answered", ~reader[r].more, reader[r].started
                 PROVE  reader[r].rows
                          = Selected(reader[r].query, reader[r].cursor, reader[r].cut)
      BY DEF LastPagesAreLast
    <2>1. reader[r].rows = Sel(log, reader[r].query, reader[r].cursor, reader[r].cut)
      BY ReaderFacts DEF Reading
    <2> QED BY <2>1, Pages
  <1> QED BY <1>1, BoardInv, PTL

\* The Doctor validates exactly the messages up to its boundary, and raises no
\* alarm, whatever is posted meanwhile (board.py validate_integrity).
THEOREM DoctorValidates == Spec => []DoctorValidatesThePrefix
  <1>1. IInv => DoctorValidatesThePrefix
    <2> SUFFICES ASSUME IInv, NEW r \in Reader
                 PROVE  /\ reader[r].pc # "alarm"
                        /\ reader[r].pc = "done" =>
                             reader[r].heard = Selected(Everything, 0, reader[r].cut)
      BY DEF DoctorValidatesThePrefix
    <2>1. reader[r] \in ReaderRecord /\ Reading(reader[r], log) BY ReaderFacts
    <2>2. reader[r].pc # "alarm" BY <2>1 DEF ReaderRecord
    <2>3. ASSUME reader[r].pc = "done"
          PROVE  reader[r].heard = Selected(Everything, 0, reader[r].cut)
      <3>1. /\ reader[r].audit /\ reader[r].query = Everything
            /\ reader[r].cursor = reader[r].cut
        BY <2>1, <2>3 DEF Reading
      <3>2. reader[r].heard = Sel(log, Everything, 0, reader[r].cut)
        BY <2>1, <3>1 DEF Reading, Heard
      <3> QED BY <3>2, Pages
    <2> QED BY <2>2, <2>3
  <1> QED BY <1>1, BoardInv, PTL

\* The Board keeps what BoardLog promises: each message once, true verdicts,
\* replies after their targets, and followers that hear interval after interval
\* (board.py, append_board_message).
THEOREM BoardImplements == Spec => ImplementsBoardLog
  <1>1. Init => BoardPromise!Init
    <2> SUFFICES ASSUME Init PROVE BoardPromise!Init OBVIOUS
    <2>1. log = <<>> BY DEF Init
    <2>2. posts = [p \in Poster |-> BoardPromise!NoPost]
      <3>1. \A p \in Poster : post[p] = NoCall BY DEF Init
      <3>2. \A p \in Poster : post[p].message = NoMessage /\ post[p].verdict = "none"
        BY <3>1 DEF NoCall
      <3> QED BY <3>2 DEF posts, BoardPromise!NoPost
    <2>3. follows \in [Reader -> [query: Query, to: {0}, heard: {<<>>}]]
      <3>1. \A r \in Reader : /\ reader[r].query \in Query
                              /\ reader[r].cursor = 0 /\ reader[r].heard = <<>>
        <4> TAKE r \in Reader
        <4>1. reader[r] \in Client BY DEF Init
        <4> QED BY <2>1, <4>1, ClientFacts
      <3> QED BY <3>1 DEF follows
    <2> QED BY <2>1, <2>2, <2>3 DEF BoardPromise!Init
  <1>2. IInv /\ [Next]_vars => [BoardPromise!Next]_BoardPromise!boardLogVars
    BY StepInv DEF Good
  <1> QED BY <1>1, <1>2, BoardInv, PTL DEF Spec, ImplementsBoardLog, BoardPromise!Spec
=============================================================================
