----------------------------- MODULE PageProofs -----------------------------
(***************************************************************************)
(* What the views of a page keep true for every value of their constants:  *)
(* its terminals, the text reader, the mobile view and the grid; and what  *)
(* a filter leaves of a list, which several of them rest on.               *)
(***************************************************************************)
EXTENDS Terminal, PaneReader, MobileView, Grid, NaturalsInduction,
        WellFoundedInduction, FiniteSetTheorems, TLAPS

-----------------------------------------------------------------------------
(* Filtering *)

\* A least counterexample takes the place of induction.
LEMMA LeastOf ==
  ASSUME NEW S \in SUBSET Nat, S # {}
  PROVE  \E i \in S : \A j \in S : i <= j
<1> DEFINE R == {p \in Nat \X Nat : p[1] < p[2]}
<1>1. R = OpToRel(<, Nat)
  BY Zenon DEF OpToRel
<1>2. IsWellFoundedOn(R, Nat)
  BY Zenon, <1>1, NatLessThanWellFounded
<1>3. \A j, k \in Nat : j < k => <<j, k>> \in R
  OBVIOUS
<1> HIDE DEF R
<1>4. PICK i \in S : \A j \in S : ~(<<j, i>> \in R)
  BY <1>2, WFMin
<1>5. ASSUME NEW j \in S PROVE i <= j
  <2>1. i \in Nat /\ j \in Nat
    OBVIOUS
  <2>2. ~(j < i)
    BY <1>3, <1>4, <2>1
  <2> QED
    BY <2>1, <2>2
<1> QED
  BY <1>5

\* The prefixes a filter builds: s up to i, without what is not in S.
Prefix(s, S, f, i) == IF i = 0 THEN <<>> ELSE IF s[i] \in S THEN Append(f[i - 1], s[i]) ELSE f[i - 1]

LEMMA PrefixesExist ==
  ASSUME NEW s, NEW S, NEW n \in Nat
  PROVE  \E f : f = [i \in 0 .. n |-> Prefix(s, S, f, i)]
<1> DEFINE Bad == {m \in Nat : ~\E f : f = [i \in 0 .. m |-> Prefix(s, S, f, i)]}
<1>1. SUFFICES ASSUME Bad # {} PROVE FALSE
  OBVIOUS
<1>2. PICK m \in Bad : \A k \in Bad : m <= k
  <2> HIDE DEF Bad
  <2>1. Bad \in SUBSET Nat
    BY DEF Bad
  <2> QED
    BY <1>1, <2>1, LeastOf
<1>3. CASE m = 0
  <2> DEFINE f == [i \in 0 .. 0 |-> <<>>]
  <2>1. f = [i \in 0 .. m |-> Prefix(s, S, f, i)]
    BY <1>3 DEF Prefix
  <2> HIDE DEF f
  <2> QED
    BY <2>1
<1>4. CASE m # 0
  <2>1. m - 1 \in Nat /\ ~(m - 1 \in Bad)
    <3> HIDE DEF Bad
    <3>1. m \in Nat
      BY DEF Bad
    <3> QED
      BY <1>2, <1>4, <3>1
  <2>2. PICK f : f = [i \in 0 .. m - 1 |-> Prefix(s, S, f, i)]
    BY <2>1
  <2> DEFINE g == [i \in 0 .. m |-> IF i = m THEN Prefix(s, S, f, m) ELSE f[i]]
  <2>3. ASSUME NEW i \in 0 .. m PROVE g[i] = Prefix(s, S, g, i)
    <3>1. CASE i = m
      <4>1. g[m - 1] = f[m - 1]
        BY <1>4, <2>1
      <4> QED
        BY <1>4, <3>1, <4>1 DEF Prefix
    <3>2. CASE i # m /\ i # 0
      <4>1. g[i - 1] = f[i - 1] /\ i \in 0 .. m - 1
        BY <2>1, <3>2
      <4>2. f[i] = Prefix(s, S, f, i)
        BY <2>2, <4>1
      <4> QED
        BY <3>2, <4>1, <4>2 DEF Prefix
    <3>3. CASE i # m /\ i = 0
      <4>1. f[i] = Prefix(s, S, f, i)
        BY <2>1, <2>2, <3>3
      <4> QED
        BY <3>3, <4>1 DEF Prefix
    <3> QED
      BY <3>1, <3>2, <3>3
  <2>4. g = [i \in 0 .. m |-> Prefix(s, S, g, i)]
    BY <2>3
  <2> HIDE DEF g
  <2> QED
    BY <2>4
<1> QED
  BY <1>3, <1>4

LEMMA FilterUnfolds ==
  ASSUME NEW s, NEW S, Len(s) \in Nat
  PROVE  \E f : /\ f = [i \in 0 .. Len(s) |-> Prefix(s, S, f, i)]
                /\ Filter(s, S) = f[Len(s)]
<1>1. \E f : f = [i \in 0 .. Len(s) |-> Prefix(s, S, f, i)]
  BY PrefixesExist
<1> QED
  BY <1>1 DEF Filter, Prefix

\* Where the elements of a filtered list come from: positions that rise, and that
\* leave out no position of an element of S.
Picks(t, s, S, n, h) ==
  /\ h \in [1 .. Len(t) -> 1 .. n]
  /\ \A a, b \in 1 .. Len(t) : a < b => h[a] < h[b]
  /\ \A k \in 1 .. Len(t) : t[k] = s[h[k]] /\ s[h[k]] \in S
  /\ \A i \in 1 .. n : s[i] \in S => \E k \in 1 .. Len(t) : h[k] = i

LEMMA FilterPicks ==
  ASSUME NEW T, NEW s \in Seq(T), NEW S
  PROVE  Filter(s, S) \in Seq(T) /\ \E h : Picks(Filter(s, S), s, S, Len(s), h)
<1>1. PICK f : /\ f = [i \in 0 .. Len(s) |-> Prefix(s, S, f, i)]
               /\ Filter(s, S) = f[Len(s)]
  BY FilterUnfolds
<1> DEFINE Good(i) == f[i] \in Seq(T) /\ \E h : Picks(f[i], s, S, i, h)
           Bad == {i \in 0 .. Len(s) : ~Good(i)}
<1> HIDE DEF Good
<1>2. SUFFICES Bad = {}
  BY <1>1 DEF Good
<1>3. SUFFICES ASSUME Bad # {} PROVE FALSE
  OBVIOUS
<1>4. PICK m \in Bad : \A k \in Bad : m <= k
  <2> HIDE DEF Bad
  <2>1. Bad \in SUBSET Nat
    BY DEF Bad
  <2> QED
    BY <1>3, <2>1, LeastOf
<1>5. Good(0)
  <2>1. f[0] = <<>>
    BY <1>1 DEF Prefix
  <2>2. Picks(<<>>, s, S, 0, [i \in 1 .. 0 |-> 0])
    BY DEF Picks
  <2> QED
    BY <2>1, <2>2 DEF Good
<1>6. m \in 1 .. Len(s)
  BY <1>4, <1>5
<1>7. m - 1 \in 0 .. Len(s) /\ Good(m - 1)
  <2>1. m - 1 \in 0 .. Len(s) /\ m - 1 < m
    BY <1>6
  <2> QED
    BY <1>4, <2>1
<1>8. PICK h : Picks(f[m - 1], s, S, m - 1, h) /\ f[m - 1] \in Seq(T)
  BY <1>7 DEF Good
<1>9. f[m] = IF s[m] \in S THEN Append(f[m - 1], s[m]) ELSE f[m - 1]
  <2>1. m \in 0 .. Len(s) /\ m # 0
    BY <1>6
  <2>2. f[m] = Prefix(s, S, f, m)
    BY <1>1, <2>1
  <2> QED
    BY <2>1, <2>2 DEF Prefix
<1> DEFINE t == f[m - 1]
           n == Len(f[m - 1])
<1>10. t \in Seq(T) /\ n \in Nat /\ s[m] \in T /\ m \in Nat
  BY <1>6, <1>8
<1>11. CASE s[m] \in S
  <2> DEFINE g == [k \in 1 .. n + 1 |-> IF k = n + 1 THEN m ELSE h[k]]
             u == Append(t, s[m])
  <2>1. u \in Seq(T) /\ Len(u) = n + 1 /\ u[n + 1] = s[m] /\ \A k \in 1 .. n : u[k] = t[k]
    BY <1>10
  <2> HIDE DEF u, t, n
  <2>2. g \in [1 .. n + 1 -> 1 .. m]
    BY <1>6, <1>8, <1>10 DEF Picks, t, n
  <2>3. \A a, b \in 1 .. n + 1 : a < b => g[a] < g[b]
    <3>1. \A a, b \in 1 .. n : h[a] \in 1 .. m - 1 /\ (a < b => h[a] < h[b])
      BY <1>8 DEF Picks, t, n
    <3> TAKE a, b \in 1 .. n + 1
    <3>2. CASE b = n + 1
      <4>1. a < b => a \in 1 .. n /\ a # n + 1
        BY <1>10, <3>2
      <4> QED
        BY <1>10, <3>1, <3>2, <4>1
    <3>3. CASE b # n + 1
      <4>1. b \in 1 .. n /\ (a < b => a \in 1 .. n /\ a # n + 1)
        BY <1>10, <3>3
      <4> QED
        BY <3>1, <3>3, <4>1
    <3> QED
      BY <3>2, <3>3
  <2>4. \A k \in 1 .. n + 1 : u[k] = s[g[k]] /\ s[g[k]] \in S
    <3> TAKE k \in 1 .. n + 1
    <3>1. CASE k = n + 1
      BY <1>11, <2>1, <3>1
    <3>2. CASE k # n + 1
      <4>1. k \in 1 .. n
        BY <1>10, <3>2
      <4>2. t[k] = s[h[k]] /\ s[h[k]] \in S
        BY <1>8, <4>1 DEF Picks, t, n
      <4> QED
        BY <2>1, <3>2, <4>1, <4>2
    <3> QED
      BY <3>1, <3>2
  <2>5. \A i \in 1 .. m : s[i] \in S => \E k \in 1 .. n + 1 : g[k] = i
    <3> TAKE i \in 1 .. m
    <3>1. CASE i = m
      <4>1. n + 1 \in 1 .. n + 1 /\ g[n + 1] = m
        BY <1>10
      <4> QED
        BY <3>1, <4>1
    <3>2. ASSUME i # m, s[i] \in S PROVE \E k \in 1 .. n + 1 : g[k] = i
      <4>1. i \in 1 .. m - 1
        BY <3>2
      <4>2. PICK k \in 1 .. n : h[k] = i
        BY <1>8, <3>2, <4>1 DEF Picks, t, n
      <4>3. k \in 1 .. n + 1 /\ k # n + 1 /\ g[k] = h[k]
        BY <1>10, <4>2
      <4> QED
        BY <4>2, <4>3
    <3> QED
      BY <3>1, <3>2
  <2> HIDE DEF g
  <2>6. Picks(u, s, S, m, g)
    BY <2>1, <2>2, <2>3, <2>4, <2>5 DEF Picks
  <2>7. f[m] = u
    BY <1>9, <1>11 DEF u, t
  <2> QED
    BY <1>4, <2>1, <2>6, <2>7 DEF Good
<1>12. CASE s[m] \notin S
  <2>1. f[m] = t
    BY <1>9, <1>12
  <2> HIDE DEF t
  <2>2. h \in [1 .. Len(t) -> 1 .. m]
    BY <1>8, <1>10 DEF Picks, t
  <2>3. \A i \in 1 .. m : s[i] \in S => i \in 1 .. m - 1
    BY <1>10, <1>12
  <2>4. Picks(t, s, S, m, h)
    BY <1>8, <2>2, <2>3 DEF Picks, t
  <2> QED
    BY <1>4, <1>10, <2>1, <2>4 DEF Good
<1> QED
  BY <1>11, <1>12

\* A filter leaves the elements that are in S, and no other.
LEMMA FilterElements ==
  ASSUME NEW T, NEW s \in Seq(T), NEW S
  PROVE  ToSet(Filter(s, S)) = ToSet(s) \cap S
<1>1. Filter(s, S) \in Seq(T)
  BY FilterPicks
<1>2. PICK h : Picks(Filter(s, S), s, S, Len(s), h)
  BY FilterPicks
<1>3. DOMAIN Filter(s, S) = 1 .. Len(Filter(s, S)) /\ DOMAIN s = 1 .. Len(s)
  BY <1>1
<1> QED
  BY <1>2, <1>3 DEF Picks, ToSet

\* A bounded set of numbers that is not empty has a greatest element.
LEMMA GreatestOf ==
  ASSUME NEW S \in SUBSET Nat, S # {}, NEW b \in Nat, \A x \in S : x <= b, NEW m, m = Max(S)
  PROVE  m \in S /\ \A x \in S : x <= m
<1> DEFINE U == {n \in Nat : \A x \in S : x <= n}
<1>1. U \in SUBSET Nat /\ U # {}
  OBVIOUS
<1>2. PICK u \in U : \A n \in U : u <= n
  <2> HIDE DEF U
  <2> QED
    BY <1>1, LeastOf
<1>3. u \in S
  <2>1. SUFFICES ASSUME u \notin S PROVE FALSE
    OBVIOUS
  <2>2. \A x \in S : x <= u - 1
    BY <1>2, <2>1
  <2>3. PICK x \in S : TRUE
    OBVIOUS
  <2>4. u - 1 \in U
    BY <1>2, <2>2, <2>3
  <2> QED
    BY <1>2, <2>4
<1>4. \E x \in S : \A y \in S : x >= y
  BY <1>2, <1>3
<1>5. m \in S /\ \A y \in S : m >= y
  BY <1>4 DEF Max
<1> QED
  BY <1>5

\* Where exactly the first elements of a list are in S, the filter leaves those.
LEMMA FilterPrefix ==
  ASSUME NEW T, NEW s \in Seq(T), NEW S, NEW k \in Nat, k <= Len(s),
         \A i \in 1 .. Len(s) : s[i] \in S <=> i <= k
  PROVE  Len(Filter(s, S)) = k /\ \A i \in 1 .. k : Filter(s, S)[i] = s[i]
<1>1. PICK t : t = Filter(s, S)
  OBVIOUS
<1>2. t \in Seq(T)
  BY <1>1, FilterPicks
<1>3. PICK h : Picks(t, s, S, Len(s), h)
  BY <1>1, FilterPicks
<1>4. PICK n \in Nat : n = Len(t)
  BY <1>2
<1>5. /\ h \in [1 .. n -> 1 .. Len(s)] /\ Len(s) \in Nat
      /\ \A a, b \in 1 .. n : a < b => h[a] < h[b]
      /\ \A a \in 1 .. n : t[a] = s[h[a]] /\ h[a] <= k
      /\ \A i \in 1 .. k : \E a \in 1 .. n : h[a] = i
  <2>1. /\ h \in [1 .. n -> 1 .. Len(s)] /\ Len(s) \in Nat
        /\ \A a, b \in 1 .. n : a < b => h[a] < h[b]
        /\ \A a \in 1 .. n : t[a] = s[h[a]] /\ s[h[a]] \in S
        /\ \A i \in 1 .. Len(s) : s[i] \in S => \E a \in 1 .. n : h[a] = i
    <3>1. h \in [1 .. n -> 1 .. Len(s)] /\ Len(s) \in Nat
      BY <1>3, <1>4 DEF Picks
    <3>2. \A a, b \in 1 .. n : a < b => h[a] < h[b]
      BY <1>3, <1>4 DEF Picks
    <3>3. \A a \in 1 .. n : t[a] = s[h[a]] /\ s[h[a]] \in S
      BY <1>3, <1>4 DEF Picks
    <3>4. \A i \in 1 .. Len(s) : s[i] \in S => \E a \in 1 .. n : h[a] = i
      BY <1>3, <1>4 DEF Picks
    <3> QED
      BY <3>1, <3>2, <3>3, <3>4
  <2>2. \A a \in 1 .. n : h[a] <= k
    BY <2>1
  <2>3. \A i \in 1 .. k : i \in 1 .. Len(s) /\ s[i] \in S
    BY <2>1
  <2> QED
    BY <2>1, <2>2, <2>3
<1> DEFINE Bad == {a \in 1 .. n : h[a] # a}
<1>6. Bad = {}
  <2>1. SUFFICES ASSUME Bad # {} PROVE FALSE
    OBVIOUS
  <2>2. PICK a \in Bad : \A b \in Bad : a <= b
    <3> HIDE DEF Bad
    <3>1. Bad \in SUBSET Nat
      BY DEF Bad
    <3> QED
      BY <2>1, <3>1, LeastOf
  <2>3. a \in 1 .. n /\ h[a] # a /\ h[a] \in 1 .. Len(s) /\ h[a] <= k
    BY <1>5, <2>2
  <2>4. \A b \in 1 .. n : b < a => h[b] = b
    BY <2>2, <2>3
  <2>5. h[a] > a
    <3>1. CASE a = 1
      BY <2>3, <3>1
    <3>2. CASE a # 1
      <4>1. a - 1 \in 1 .. n /\ a - 1 < a
        BY <2>3, <3>2
      <4>2. h[a - 1] = a - 1 /\ h[a - 1] < h[a]
        BY <1>5, <2>3, <2>4, <4>1
      <4> QED
        BY <2>3, <4>2
    <3> QED
      BY <3>1, <3>2
  <2>6. a \in 1 .. k
    BY <2>3, <2>5
  <2>7. PICK c \in 1 .. n : h[c] = a
    BY <1>5, <2>6
  <2>8. c < a \/ c = a \/ a < c
    BY <2>3
  <2>9. a < c => h[a] < h[c]
    BY <1>5, <2>3
  <2> QED
    BY <2>3, <2>4, <2>5, <2>7, <2>8, <2>9
<1>7. \A a \in 1 .. n : h[a] = a
  BY <1>6
<1>8. n <= k
  <2>1. n = 0 \/ n \in 1 .. n
    OBVIOUS
  <2> QED
    BY <1>5, <1>7, <2>1
<1>9. k <= n
  <2>1. k = 0 \/ k \in 1 .. k
    OBVIOUS
  <2> QED
    BY <1>5, <1>7, <2>1
<1>10. n = k
  BY <1>8, <1>9
<1> QED
  BY <1>1, <1>4, <1>5, <1>7, <1>10

LEMMA Joined ==
  ASSUME NEW T, NEW a \in Seq(T), NEW b \in Seq(T)
  PROVE  a \o b \in Seq(T) /\ Len(a \o b) = Len(a) + Len(b)
OBVIOUS

LEMMA JoinedAt ==
  ASSUME NEW T, NEW a \in Seq(T), NEW b \in Seq(T)
  PROVE  /\ \A i \in 1 .. Len(a) : (a \o b)[i] = a[i]
         /\ \A i \in 1 .. Len(b) : (a \o b)[Len(a) + i] = b[i]
OBVIOUS

\* The lists a flatMap builds: those up to i, one after the other.
Run(ss, f, i) == IF i = 0 THEN <<>> ELSE f[i - 1] \o ss[i]

LEMMA RunsExist ==
  ASSUME NEW ss, NEW n \in Nat
  PROVE  \E f : f = [i \in 0 .. n |-> Run(ss, f, i)]
<1> DEFINE Bad == {m \in Nat : ~\E f : f = [i \in 0 .. m |-> Run(ss, f, i)]}
<1>1. SUFFICES ASSUME Bad # {} PROVE FALSE
  OBVIOUS
<1>2. PICK m \in Bad : \A k \in Bad : m <= k
  BY <1>1, LeastOf
<1>3. CASE m = 0
  <2>1. PICK f : f = [i \in 0 .. 0 |-> <<>>]
    OBVIOUS
  <2>2. \A i \in 0 .. 0 : Run(ss, f, i) = <<>>
    BY DEF Run
  <2>3. f = [i \in 0 .. 0 |-> Run(ss, f, i)]
    BY <2>1, <2>2
  <2> QED
    BY <1>2, <1>3, <2>3
<1>4. CASE m # 0
  <2>1. m - 1 \in Nat /\ m - 1 \notin Bad
    BY <1>2, <1>4
  <2>2. PICK f : f = [i \in 0 .. m - 1 |-> Run(ss, f, i)]
    BY <2>1
  <2>3. PICK g : g = [i \in 0 .. m |-> IF i = m THEN f[m - 1] \o ss[m] ELSE f[i]]
    OBVIOUS
  <2>4. \A i \in 0 .. m - 1 : g[i] = f[i] /\ f[i] = Run(ss, f, i)
    <3>1. \A i \in 0 .. m - 1 : f[i] = Run(ss, f, i)
      BY ONLY <2>2
    <3>2. \A i \in 0 .. m - 1 : i \in 0 .. m /\ i # m
      BY <2>1
    <3> QED
      BY <2>3, <3>1, <3>2
  <2>5. g[m] = f[m - 1] \o ss[m] /\ g[m - 1] = f[m - 1]
    BY <1>4, <2>1, <2>3
  <2>6. ASSUME NEW i \in 0 .. m PROVE g[i] = Run(ss, g, i)
    <3>1. CASE i = m
      BY <1>4, <2>5, <3>1 DEF Run
    <3>2. CASE i # m /\ i # 0
      <4>1. i \in 0 .. m - 1 /\ i - 1 \in 0 .. m - 1
        BY <2>1, <3>2
      <4> QED
        BY <2>4, <3>2, <4>1 DEF Run
    <3>3. CASE i # m /\ i = 0
      <4>1. i \in 0 .. m - 1
        BY <2>1, <3>3
      <4> QED
        BY <2>4, <3>3, <4>1 DEF Run
    <3> QED
      BY <3>1, <3>2, <3>3
  <2>7. g = [i \in 0 .. m |-> Run(ss, g, i)]
    BY <2>3, <2>6
  <2> QED
    BY <1>2, <2>7
<1> QED
  BY <1>3, <1>4

\* A flatMap's list is one of the elements of its lists.
LEMMA FlattenedFits ==
  ASSUME NEW T, NEW ss \in Seq(Seq(T))
  PROVE  Flattened(ss) \in Seq(T)
<1>1. Len(ss) \in Nat
  OBVIOUS
<1>2. \E f : f = [i \in 0 .. Len(ss) |-> Run(ss, f, i)]
  BY <1>1, RunsExist
<1>3. \E f : f = [i \in 0 .. Len(ss) |-> Run(ss, f, i)] /\ Flattened(ss) = f[Len(ss)]
  BY <1>2 DEF Flattened, Run
<1>4. PICK f : f = [i \in 0 .. Len(ss) |-> Run(ss, f, i)] /\ Flattened(ss) = f[Len(ss)]
  BY <1>3
<1> DEFINE Bad == {i \in 0 .. Len(ss) : f[i] \notin Seq(T)}
<1>5. SUFFICES ASSUME Bad # {} PROVE FALSE
  BY <1>1, <1>4
<1>6. Bad \in SUBSET Nat
  OBVIOUS
<1>7. PICK m \in Bad : \A k \in Bad : m <= k
  BY <1>5, <1>6, LeastOf
<1>8. m \in 0 .. Len(ss) /\ f[m] \notin Seq(T)
  BY <1>7
<1>9. f[m] = Run(ss, f, m)
  BY <1>4, <1>8
<1>10. CASE m = 0
  BY <1>8, <1>9, <1>10 DEF Run
<1>11. CASE m # 0
  <2>1. m - 1 \in 0 .. Len(ss) /\ m \in 1 .. Len(ss)
    BY <1>1, <1>8, <1>11
  <2>2. m - 1 \notin Bad
    BY <1>1, <1>7, <1>8, <2>1
  <2>3. f[m - 1] \in Seq(T) /\ ss[m] \in Seq(T)
    BY <2>1, <2>2
  <2>4. f[m] = f[m - 1] \o ss[m]
    BY <1>9, <1>11 DEF Run
  <2> QED
    BY <1>8, <2>3, <2>4, Joined
<1> QED
  BY <1>10, <1>11

-----------------------------------------------------------------------------
(* Terminal *)

TileShape ==
  /\ life \in [SessionId -> Life] /\ reachable \in BOOLEAN /\ authed \in BOOLEAN
  /\ handler \in [Tile -> {"none", "upgraded", "attached", "detached", "silent"}]
  /\ coming \in [Tile -> SUBSET {"open", "exit", "close"}]
  /\ state \in [Tile -> {"connecting", "open", "offline"} \cup Final]
  /\ waits \in [Tile -> {"none", "upgrade", "socket", "lookup", "timer", "stopped"}]
  /\ backoff \in [Tile -> FirstBackoff .. MaxBackoff]
  /\ misled \subseteq Tile /\ late \subseteq Tile

LookupShape ==
  lookup \in [stage : {"none", "asked", "answered"}, kind : {"none", "ok", "auth", "retry"},
              rows : [SessionId -> SessionRow]]

\* A tile that stopped says why; frames and the daemon's end belong to the socket it
\* waits for, and after a close there is no daemon's end.
Link(t) ==
  /\ waits[t] = "stopped" <=> state[t] \in Final
  /\ coming[t] # {} => waits[t] = "socket"
  /\ handler[t] # "none" => waits[t] = "socket"
  /\ "exit" \in coming[t] => "close" \in coming[t]
  /\ "close" \in coming[t] => handler[t] = "none"

\* A tile is mounted for a session that has a row, and what is on its way to it, or on
\* its screen, is true of that session.
Over(l) == l.tmux = "gone" \/ l.astray
Born(t) == waits[t] # "none" => LifeOf(t).row # "none"
ExitIsTrue(t) == "exit" \in coming[t] /\ t \notin misled => Over(LifeOf(t))
ScreenIsTrue(t) ==
  /\ state[t] = "exited" /\ t \notin misled => Over(LifeOf(t))
  /\ state[t] = "missing" /\ t \notin late => LifeOf(t).row = "deleted" /\ Over(LifeOf(t))

\* A row that went, or is about to be marked, is of a session that is over, or went astray.
ToldOf(l) ==
  /\ l.doubted \/ l.row \in {"dead", "deleted"} => Over(l)
  /\ l.row = "none" => l.tmux = "later"

\* A list is of the past, and sessions only get older; one that a tile asked for has
\* its session's row, unless that was dismissed.
ListIsPast ==
  /\ lookup.stage = "answered" => lookup.kind # "none"
  /\ lookup.kind = "ok" =>
       \A s \in SessionId : /\ lookup.rows[s] = "dead" => life[s].row \in {"dead", "deleted"}
                            /\ lookup.rows[s] = "deleted" => life[s].row = "deleted"
ListHas(t) ==
  waits[t] = "lookup" /\ t \notin late /\ lookup.stage = "answered" /\ lookup.kind = "ok"
    => lookup.rows[SessionOf[t]] # "none"

Right(t) == Link(t) /\ Born(t) /\ ExitIsTrue(t) /\ ScreenIsTrue(t) /\ ListHas(t)

TerminalInv ==
  /\ TileShape /\ LookupShape /\ ListIsPast
  /\ \A s \in SessionId : ToldOf(life[s])
  /\ \A t \in Tile : Right(t)

----------------------------------------------------------------------------
(* Steps *)

LEMMA TileHasSession == \A t \in Tile : SessionOf[t] \in SessionId
BY TerminalAssumption

\* What a tile's neighbours do leaves it right.
LEMMA Untouched ==
  ASSUME NEW u \in Tile, Right(u), UNCHANGED <<life, lookup>>,
         handler'[u] = handler[u], coming'[u] = coming[u], state'[u] = state[u],
         waits'[u] = waits[u], u \in misled' <=> u \in misled, u \in late' <=> u \in late
  PROVE  Right(u)'
BY DEF Right, Link, Born, ExitIsTrue, ScreenIsTrue, ListHas, LifeOf

LEMMA ConnectedInv ==
  ASSUME TerminalInv, NEW t \in Tile, Connected(t), LifeOf(t).row # "none",
         backoff' \in [Tile -> FirstBackoff .. MaxBackoff]
  PROVE  TerminalInv'
<1> USE DEF Connected, world
<1>1. TileShape'
  BY TerminalAssumption DEF TerminalInv, TileShape, Final
<1>2. LookupShape' /\ ListIsPast'
  BY DEF TerminalInv, LookupShape, ListIsPast
<1>3. ASSUME NEW u \in Tile PROVE Right(u)'
  <2>1. CASE u # t
    BY <2>1, Untouched DEF TerminalInv, TileShape
  <2>2. CASE u = t
    BY <2>2, TileHasSession DEF TerminalInv, TileShape, Right, Link, Born, ExitIsTrue, ScreenIsTrue, ListHas, LifeOf, Final
  <2>3. QED BY <2>1, <2>2
<1>4. QED BY <1>1, <1>2, <1>3 DEF TerminalInv

LEMMA UnmountInv ==
  ASSUME TerminalInv, NEW t \in Tile, Unmount(t)
  PROVE  TerminalInv'
<1> USE DEF Unmount, world
<1>1. TileShape'
  BY TerminalAssumption DEF TerminalInv, TileShape, Final
<1>2. LookupShape' /\ ListIsPast'
  BY DEF TerminalInv, LookupShape, ListIsPast
<1>3. ASSUME NEW u \in Tile PROVE Right(u)'
  <2>1. CASE u # t
    BY <2>1, Untouched DEF TerminalInv, TileShape
  <2>2. CASE u = t
    BY <2>2, TileHasSession DEF TerminalInv, TileShape, Right, Link, Born, ExitIsTrue, ScreenIsTrue, ListHas, LifeOf, Final
  <2>3. QED BY <2>1, <2>2
<1>4. QED BY <1>1, <1>2, <1>3 DEF TerminalInv

LEMMA OpenInv ==
  ASSUME TerminalInv, NEW t \in Tile, onopen(t)
  PROVE  TerminalInv'
<1> USE DEF onopen, Hears, world, ghosts
<1>1. TileShape'
  BY TerminalAssumption DEF TerminalInv, TileShape, Final
<1>2. LookupShape' /\ ListIsPast'
  BY DEF TerminalInv, LookupShape, ListIsPast
<1>3. ASSUME NEW u \in Tile PROVE Right(u)'
  <2>1. CASE u # t
    BY <2>1, Untouched DEF TerminalInv, TileShape
  <2>2. CASE u = t
    BY <2>2, TileHasSession DEF TerminalInv, TileShape, Right, Link, Born, ExitIsTrue, ScreenIsTrue, ListHas, LifeOf, Final
  <2>3. QED BY <2>1, <2>2
<1>4. QED BY <1>1, <1>2, <1>3 DEF TerminalInv

LEMMA MessageInv ==
  ASSUME TerminalInv, NEW t \in Tile, onmessage(t)
  PROVE  TerminalInv'
<1> USE DEF onmessage, Hears, world, ghosts
<1>1. TileShape'
  BY TerminalAssumption DEF TerminalInv, TileShape, Final
<1>2. LookupShape' /\ ListIsPast'
  BY DEF TerminalInv, LookupShape, ListIsPast
<1>3. ASSUME NEW u \in Tile PROVE Right(u)'
  <2>1. CASE u # t
    BY <2>1, Untouched DEF TerminalInv, TileShape
  <2>2. CASE u = t
    BY <2>2, TileHasSession DEF TerminalInv, TileShape, Right, Link, Born, ExitIsTrue, ScreenIsTrue, ListHas, LifeOf, Final
  <2>3. QED BY <2>1, <2>2
<1>4. QED BY <1>1, <1>2, <1>3 DEF TerminalInv

LEMMA UpgradeInv ==
  ASSUME TerminalInv, NEW t \in Tile, Upgrade(t)
  PROVE  TerminalInv'
<1> USE DEF Upgrade, world, ghosts
<1>1. TileShape'
  BY TerminalAssumption DEF TerminalInv, TileShape, Final
<1>2. LookupShape' /\ ListIsPast'
  BY DEF TerminalInv, LookupShape, ListIsPast
<1>3. ASSUME NEW u \in Tile PROVE Right(u)'
  <2>1. CASE u # t
    BY <2>1, Untouched DEF TerminalInv, TileShape
  <2>2. CASE u = t
    BY <2>2, TileHasSession DEF TerminalInv, TileShape, Right, Link, Born, ExitIsTrue, ScreenIsTrue, ListHas, LifeOf, Final
  <2>3. QED BY <2>1, <2>2
<1>4. QED BY <1>1, <1>2, <1>3 DEF TerminalInv

LEMMA AttachInv ==
  ASSUME TerminalInv, NEW t \in Tile, Attach(t)
  PROVE  TerminalInv'
<1> USE DEF Attach, world, ghosts
<1>1. TileShape'
  BY TerminalAssumption DEF TerminalInv, TileShape, Final
<1>2. LookupShape' /\ ListIsPast'
  BY DEF TerminalInv, LookupShape, ListIsPast
<1>3. ASSUME NEW u \in Tile PROVE Right(u)'
  <2>1. CASE u # t
    BY <2>1, Untouched DEF TerminalInv, TileShape
  <2>2. CASE u = t
    BY <2>2, TileHasSession DEF TerminalInv, TileShape, Right, Link, Born, ExitIsTrue, ScreenIsTrue, ListHas, LifeOf, Final
  <2>3. QED BY <2>1, <2>2
<1>4. QED BY <1>1, <1>2, <1>3 DEF TerminalInv

LEMMA PTYEndsInv ==
  ASSUME TerminalInv, NEW t \in Tile, PTYEnds(t)
  PROVE  TerminalInv'
<1> USE DEF PTYEnds, world, ghosts
<1>1. TileShape'
  BY TerminalAssumption DEF TerminalInv, TileShape, Final
<1>2. LookupShape' /\ ListIsPast'
  BY DEF TerminalInv, LookupShape, ListIsPast
<1>3. ASSUME NEW u \in Tile PROVE Right(u)'
  <2>1. CASE u # t
    BY <2>1, Untouched DEF TerminalInv, TileShape
  <2>2. CASE u = t
    BY <2>2, TileHasSession DEF TerminalInv, TileShape, Right, Link, Born, ExitIsTrue, ScreenIsTrue, ListHas, LifeOf, Final
  <2>3. QED BY <2>1, <2>2
<1>4. QED BY <1>1, <1>2, <1>3 DEF TerminalInv

LEMMA DetachInv ==
  ASSUME TerminalInv, NEW t \in Tile, Detach(t)
  PROVE  TerminalInv'
<1> USE DEF Detach, world, ghosts
<1>1. TileShape'
  BY TerminalAssumption DEF TerminalInv, TileShape, Final
<1>2. LookupShape' /\ ListIsPast'
  BY DEF TerminalInv, LookupShape, ListIsPast
<1>3. ASSUME NEW u \in Tile PROVE Right(u)'
  <2>1. CASE u # t
    BY <2>1, Untouched DEF TerminalInv, TileShape
  <2>2. CASE u = t
    BY <2>2, TileHasSession DEF TerminalInv, TileShape, Right, Link, Born, ExitIsTrue, ScreenIsTrue, ListHas, LifeOf, Final
  <2>3. QED BY <2>1, <2>2
<1>4. QED BY <1>1, <1>2, <1>3 DEF TerminalInv

LEMMA ExitInv ==
  ASSUME TerminalInv, NEW t \in Tile, NEW fails \in BOOLEAN, sendExitIfGone(t, fails)
  PROVE  TerminalInv'
<1> USE DEF sendExitIfGone, ExitFrames, world
<1>1. TileShape'
  BY TerminalAssumption DEF TerminalInv, TileShape, Final
<1>2. LookupShape' /\ ListIsPast'
  BY DEF TerminalInv, LookupShape, ListIsPast
<1>3. /\ waits[t] = "socket" /\ LifeOf(t).row # "none" /\ LifeOf(t) \in Life
      /\ state[t] \notin Final /\ coming[t] \subseteq {"open", "exit", "close"}
  BY TileHasSession DEF TerminalInv, TileShape, Right, Link, Born, LifeOf, Final
<1>4. "exit" \in coming'[t] /\ t \notin misled' => Over(LifeOf(t))
  <2>1. CASE fails \/ LifeOf(t).tmux \in {"later", "on"}
    BY <1>3, <2>1 DEF TerminalInv, Right, ExitIsTrue, TileShape
  <2>2. CASE ~fails /\ LifeOf(t).tmux = "gone"
    BY <2>2 DEF Over
  <2>3. QED BY <1>3, <2>1, <2>2 DEF Life
<1>5. Link(t)'
  BY <1>3 DEF TerminalInv, TileShape, Link
<1>6. Right(t)'
  BY <1>3, <1>4, <1>5 DEF TerminalInv, Right, Born, ExitIsTrue, ScreenIsTrue, ListHas, LifeOf, Final
<1>7. ASSUME NEW u \in Tile PROVE Right(u)'
  <2>1. CASE u # t
    BY <2>1, Untouched DEF TerminalInv, TileShape
  <2>2. QED BY <1>6, <2>1
<1>8. QED BY <1>1, <1>2, <1>7 DEF TerminalInv

LEMMA UpgradeFailsInv ==
  ASSUME TerminalInv, NEW t \in Tile, UpgradeFails(t)
  PROVE  TerminalInv'
<1> USE DEF UpgradeFails, world, ghosts
<1>1. TileShape'
  BY TerminalAssumption DEF TerminalInv, TileShape, Final
<1>2. LookupShape' /\ ListIsPast'
  BY DEF TerminalInv, LookupShape, ListIsPast
<1>3. ASSUME NEW u \in Tile PROVE Right(u)'
  <2>1. CASE u # t
    BY <2>1, Untouched DEF TerminalInv, TileShape
  <2>2. CASE u = t
    BY <2>2, TileHasSession DEF TerminalInv, TileShape, Right, Link, Born, ExitIsTrue, ScreenIsTrue, ListHas, LifeOf, Final
  <2>3. QED BY <2>1, <2>2
<1>4. QED BY <1>1, <1>2, <1>3 DEF TerminalInv

LEMMA LoseInv ==
  ASSUME TerminalInv, NEW t \in Tile, Lose(t)
  PROVE  TerminalInv'
<1> USE DEF Lose, world, ghosts
<1>1. TileShape'
  BY TerminalAssumption DEF TerminalInv, TileShape, Final
<1>2. LookupShape' /\ ListIsPast'
  BY DEF TerminalInv, LookupShape, ListIsPast
<1>3. ASSUME NEW u \in Tile PROVE Right(u)'
  <2>1. CASE u # t
    BY <2>1, Untouched DEF TerminalInv, TileShape
  <2>2. CASE u = t
    BY <2>2, TileHasSession DEF TerminalInv, TileShape, Right, Link, Born, ExitIsTrue, ScreenIsTrue, ListHas, LifeOf, Final
  <2>3. QED BY <2>1, <2>2
<1>4. QED BY <1>1, <1>2, <1>3 DEF TerminalInv

LEMMA SilentInv ==
  ASSUME TerminalInv, NEW t \in Tile, FallSilent(t)
  PROVE  TerminalInv'
<1> USE DEF FallSilent, world, ghosts
<1>1. TileShape'
  BY TerminalAssumption DEF TerminalInv, TileShape, Final
<1>2. LookupShape' /\ ListIsPast'
  BY DEF TerminalInv, LookupShape, ListIsPast
<1>3. ASSUME NEW u \in Tile PROVE Right(u)'
  <2>1. CASE u # t
    BY <2>1, Untouched DEF TerminalInv, TileShape
  <2>2. CASE u = t
    BY <2>2, TileHasSession DEF TerminalInv, TileShape, Right, Link, Born, ExitIsTrue, ScreenIsTrue, ListHas, LifeOf, Final
  <2>3. QED BY <2>1, <2>2
<1>4. QED BY <1>1, <1>2, <1>3 DEF TerminalInv

LEMMA MountInv ==
  ASSUME TerminalInv, NEW t \in Tile, Mount(t) \/ Reconnect(t) \/ Timer(t)
  PROVE  TerminalInv'
<1>1. Connected(t)
  BY DEF Mount, Reconnect, Timer
<1>2. LifeOf(t).row # "none"
  <2>1. CASE waits[t] = "none"
    BY <2>1 DEF Mount, Reconnect, Timer
  <2>2. CASE waits[t] # "none"
    BY <2>2 DEF TerminalInv, Right, Born
  <2>3. QED BY <2>1, <2>2
<1>3. backoff' \in [Tile -> FirstBackoff .. MaxBackoff]
  BY TerminalAssumption DEF Mount, Reconnect, Timer, TerminalInv, TileShape
<1>4. QED BY <1>1, <1>2, <1>3, ConnectedInv

\* A tile whose list was answered before it asked joins late.
LEMMA CloseInv ==
  ASSUME TerminalInv, NEW t \in Tile, onclose(t)
  PROVE  TerminalInv'
<1> USE DEF onclose, Hears, world
<1>1. TileShape'
  BY TerminalAssumption DEF TerminalInv, TileShape, Final
<1>2. LookupShape'
  BY DEF TerminalInv, LookupShape
<1>3. /\ lookup'.kind = lookup.kind /\ lookup'.rows = lookup.rows
      /\ lookup'.stage = "answered" => lookup.stage = "answered"
      /\ lookup'.stage = "answered" => t \in late'
  BY DEF TerminalInv, LookupShape, TileShape
<1>4. ListIsPast'
  BY <1>3 DEF TerminalInv, ListIsPast
<1>5. ASSUME NEW u \in Tile PROVE Right(u)'
  <2>1. CASE u # t
    BY <1>3, <2>1 DEF TerminalInv, TileShape, Right, Link, Born, ExitIsTrue, ScreenIsTrue, ListHas, LifeOf
  <2>2. CASE u = t
    <3>1. Link(t)'
      BY DEF TerminalInv, TileShape, Right, Link, Final
    <3>2. QED
      BY <1>3, <2>2, <3>1 DEF TerminalInv, TileShape, Right, Link, Born, ExitIsTrue, ScreenIsTrue, ListHas, LifeOf
  <2>3. QED BY <2>1, <2>2
<1>6. QED BY <1>1, <1>2, <1>4, <1>5 DEF TerminalInv

\* What only asks or answers touches no tile.
LEMMA AskInv ==
  ASSUME TerminalInv, OthersAsk \/ HandleList \/ ListFails
  PROVE  TerminalInv'
<1> USE DEF OthersAsk, HandleList, ListFails, NoLookup, world, ghosts
<1>1. TileShape'
  BY DEF TerminalInv, TileShape
<1>2. /\ [s \in SessionId |-> "none"] \in [SessionId -> SessionRow]
      /\ [s \in SessionId |-> life[s].row] \in [SessionId -> SessionRow]
  BY DEF TerminalInv, TileShape, Life, SessionRow
<1>3. LookupShape'
  <2>1. CASE OthersAsk
    BY <2>1 DEF TerminalInv, LookupShape
  <2>2. CASE HandleList
    <3>1. lookup'.stage = "answered" /\ lookup'.kind \in {"ok", "auth"} /\ lookup'.rows \in [SessionId -> SessionRow]
      BY <1>2, <2>2 DEF TerminalInv, TileShape
    <3>2. lookup' = [stage |-> lookup'.stage, kind |-> lookup'.kind, rows |-> lookup'.rows]
      BY <2>2
    <3>3. QED BY <3>1, <3>2 DEF LookupShape
  <2>3. CASE ListFails
    BY <1>2, <2>3 DEF LookupShape
  <2>4. QED BY <2>1, <2>2, <2>3
<1>4. ListIsPast'
  <2>1. CASE OthersAsk
    BY <2>1 DEF TerminalInv, ListIsPast, LookupShape
  <2>2. CASE HandleList
    BY <2>2 DEF TerminalInv, ListIsPast, LookupShape
  <2>3. CASE ListFails
    BY <2>3 DEF TerminalInv, ListIsPast, LookupShape
  <2>4. QED BY <2>1, <2>2, <2>3
<1>5. \A t \in Tile : Born(t) BY DEF TerminalInv, Right
<1>6. ASSUME NEW t \in Tile PROVE ListHas(t)'
  <2>1. CASE OthersAsk
    BY <2>1 DEF ListHas, TerminalInv, LookupShape
  <2>2. CASE HandleList
    BY <2>2, <1>5, TileHasSession DEF ListHas, Born, LifeOf
  <2>3. CASE ListFails
    BY <2>3 DEF ListHas
  <2>4. QED BY <2>1, <2>2, <2>3
<1>7. ASSUME NEW t \in Tile PROVE Right(t)'
  BY <1>6 DEF TerminalInv, Right, Link, Born, ExitIsTrue, ScreenIsTrue, LifeOf
<1>8. QED BY <1>1, <1>3, <1>4, <1>7 DEF TerminalInv

\* An answer ends the wait of a tile: what it then says is true by what the list was.
LEMMA LookupLandsInv ==
  ASSUME TerminalInv, LookupLands
  PROVE  TerminalInv'
<1> USE DEF LookupLands, NoLookup, world, ghosts
<1>1. ASSUME NEW t \in Tile
      PROVE  Verdict(SessionOf[t]) \in {"retry", "auth", "exited", "missing"}
  BY TileHasSession DEF Verdict, TerminalInv, LookupShape, ListIsPast
<1>2. TileShape'
  <2>1. backoff' \in [Tile -> FirstBackoff .. MaxBackoff]
    <3> SUFFICES ASSUME NEW t \in Tile
                 PROVE  /\ backoff[t] \in FirstBackoff .. MaxBackoff
                        /\ 2 * backoff[t] < MaxBackoff => 2 * backoff[t] \in FirstBackoff .. MaxBackoff
                        /\ MaxBackoff \in FirstBackoff .. MaxBackoff
      OBVIOUS
    <3>1. backoff[t] \in FirstBackoff .. MaxBackoff BY DEF TerminalInv, TileShape
    <3>2. QED BY <3>1, TerminalAssumption
  <2>2. waits' \in [Tile -> {"none", "upgrade", "socket", "lookup", "timer", "stopped"}]
    BY DEF TerminalInv, TileShape, Retrying
  <2>3. state' \in [Tile -> {"connecting", "open", "offline"} \cup Final]
    BY <1>1 DEF TerminalInv, TileShape, Final
  <2>4. QED BY <2>1, <2>2, <2>3 DEF TerminalInv, TileShape
<1>3. LookupShape' /\ ListIsPast' /\ \A t \in Tile : ListHas(t)'
  BY DEF LookupShape, ListIsPast, ListHas, SessionRow
<1>4. ASSUME NEW t \in Tile PROVE Right(t)'
  <2> DEFINE v == Verdict(SessionOf[t])
  <2>0. Right(t) BY DEF TerminalInv
  <2>1. CASE waits[t] # "lookup"
    <3>1. waits'[t] = waits[t] /\ state'[t] = state[t] BY <2>1
    <3>2. QED
      BY <2>0, <3>1, <1>3 DEF Right, Link, Born, ExitIsTrue, ScreenIsTrue, LifeOf
  <2>2. CASE waits[t] = "lookup" /\ v = "retry"
    <3>1. waits'[t] = "timer" /\ state'[t] = state[t] BY <2>2 DEF Retrying
    <3>2. QED
      BY <2>0, <2>2, <3>1, <1>3 DEF Right, Link, Born, ExitIsTrue, ScreenIsTrue, LifeOf
  <2>3. CASE waits[t] = "lookup" /\ v # "retry"
    <3>1. waits'[t] = "stopped" /\ state'[t] = v BY <2>3 DEF Retrying
    <3>2. Link(t)' /\ Born(t)' /\ ExitIsTrue(t)'
      BY <2>0, <2>3, <3>1, <1>1 DEF Right, Link, Born, ExitIsTrue, LifeOf, Final
    <3>3. v = "exited" => Over(LifeOf(t))
      <4>1. v = "exited" => LifeOf(t).row \in {"dead", "deleted"}
        BY TileHasSession DEF Verdict, TerminalInv, LookupShape, ListIsPast, LifeOf
      <4>2. QED BY <4>1, TileHasSession DEF TerminalInv, ToldOf, LifeOf
    <3>4. v = "missing" /\ t \notin late => LifeOf(t).row = "deleted" /\ Over(LifeOf(t))
      <4> SUFFICES ASSUME v = "missing", t \notin late PROVE LifeOf(t).row = "deleted" /\ Over(LifeOf(t))
        OBVIOUS
      <4>1. lookup.kind = "ok" /\ lookup.stage = "answered"
        BY DEF Verdict, TerminalInv, LookupShape
      <4>2. lookup.rows[SessionOf[t]] \in SessionRow \ {"running", "dead"}
        BY <4>1, TileHasSession DEF Verdict, TerminalInv, LookupShape
      <4>3. lookup.rows[SessionOf[t]] # "none"
        BY <2>0, <2>3, <4>1 DEF Right, ListHas
      <4>4. LifeOf(t).row = "deleted"
        BY <4>1, <4>2, <4>3, TileHasSession DEF TerminalInv, ListIsPast, LifeOf, SessionRow
      <4>5. QED BY <4>4, TileHasSession DEF TerminalInv, ToldOf, LifeOf
    <3>5. ScreenIsTrue(t)'
      BY <3>1, <3>3, <3>4 DEF ScreenIsTrue, LifeOf
    <3>6. QED BY <3>2, <3>5, <1>3 DEF Right
  <2>4. QED BY <2>1, <2>2, <2>3
<1>5. QED BY <1>2, <1>3, <1>4 DEF TerminalInv

\* What a session may become: its row and tmux only go forward, and it stays over.
Older(l, k) ==
  /\ k \in Life /\ ToldOf(k)
  /\ l.row # "none" => k.row # "none"
  /\ Over(l) => Over(k)
  /\ l.row \in {"dead", "deleted"} => k.row \in {"dead", "deleted"}
  /\ l.row = "deleted" => k.row = "deleted"

LEMMA Ages ==
  ASSUME NEW l \in Life, ToldOf(l)
  PROVE  /\ l.row = "none" => Older(l, [l EXCEPT !.row = "running"])
         /\ l.row # "none" /\ l.tmux = "later" => Older(l, [l EXCEPT !.tmux = "on"])
         /\ l.row # "none" /\ l.tmux = "later" => \A r \in {l.row, "deleted"} : Older(l, [l EXCEPT !.tmux = "gone", !.row = r])
         /\ l.row # "none" /\ l.tmux # "later" => Older(l, [l EXCEPT !.row = "deleted", !.astray = @ \/ l.tmux = "on"])
         /\ l.tmux = "on" => Older(l, [l EXCEPT !.tmux = "gone"])
         /\ l.row = "running" /\ l.tmux # "on" => Older(l, [l EXCEPT !.doubted = TRUE, !.astray = @ \/ l.tmux = "later"])
         /\ l.doubted => Older(l, [l EXCEPT !.doubted = FALSE, !.row = IF @ = "running" THEN "dead" ELSE @])
         /\ l.row = "dead" => Older(l, [l EXCEPT !.row = "deleted"])
<1> USE DEF Older, Over, ToldOf, Life, SessionRow
<1>1. l.row = "none" => Older(l, [l EXCEPT !.row = "running"])
  OBVIOUS
<1>2. l.row # "none" /\ l.tmux = "later" => Older(l, [l EXCEPT !.tmux = "on"])
  OBVIOUS
<1>3. l.row # "none" /\ l.tmux = "later" => \A r \in {l.row, "deleted"} : Older(l, [l EXCEPT !.tmux = "gone", !.row = r])
  OBVIOUS
<1>4. l.row # "none" /\ l.tmux # "later" => Older(l, [l EXCEPT !.row = "deleted", !.astray = @ \/ l.tmux = "on"])
  OBVIOUS
<1>5. l.tmux = "on" => Older(l, [l EXCEPT !.tmux = "gone"])
  OBVIOUS
<1>6. l.row = "running" /\ l.tmux # "on" => Older(l, [l EXCEPT !.doubted = TRUE, !.astray = @ \/ l.tmux = "later"])
  OBVIOUS
<1>7. l.doubted => Older(l, [l EXCEPT !.doubted = FALSE, !.row = IF @ = "running" THEN "dead" ELSE @])
  OBVIOUS
<1>8. l.row = "dead" => Older(l, [l EXCEPT !.row = "deleted"])
  OBVIOUS
<1> QED BY <1>1, <1>2, <1>3, <1>4, <1>5, <1>6, <1>7, <1>8

\* Sessions get older, and what was true of an old one stays true.
LEMMA LiveInv ==
  ASSUME TerminalInv, NEW s \in SessionId, Live(s)
  PROVE  TerminalInv'
<1>1. life \in [SessionId -> Life] /\ life[s] \in Life /\ ToldOf(life[s])
  BY DEF TerminalInv, TileShape
<1>2. PICK k : Older(life[s], k) /\ Becomes(s, k)
  BY <1>1, Ages DEF Live, InsertRow, NewSession, NewSessionFails, RollBack, Ends, FindGone,
                    MarkDead, DismissRow
<1>3. life' = [life EXCEPT ![s] = k]
      /\ UNCHANGED <<reachable, authed, handler, coming, state, waits, backoff, lookup, ghosts>>
  BY <1>2 DEF Becomes
<1>4. \A r \in SessionId : ToldOf(life[r]) /\ life[r] \in Life
  BY DEF TerminalInv, TileShape
<1>5. \A r \in SessionId : /\ life'[r] \in Life /\ ToldOf(life'[r])
                           /\ life[r].row # "none" => life'[r].row # "none"
                           /\ Over(life[r]) => Over(life'[r])
                           /\ life[r].row \in {"dead", "deleted"} => life'[r].row \in {"dead", "deleted"}
                           /\ life[r].row = "deleted" => life'[r].row = "deleted"
  BY <1>1, <1>2, <1>3, <1>4 DEF Older
<1>6. TileShape'
  BY <1>1, <1>3, <1>5 DEF TerminalInv, TileShape, ghosts
<1>7. LookupShape' /\ ListIsPast'
  BY <1>3, <1>5 DEF TerminalInv, LookupShape, ListIsPast
<1>8. ASSUME NEW t \in Tile PROVE Right(t)'
  BY <1>3, <1>5, TileHasSession DEF TerminalInv, Right, Link, Born, ExitIsTrue, ScreenIsTrue, ListHas, LifeOf, ghosts
<1>9. QED BY <1>5, <1>6, <1>7, <1>8 DEF TerminalInv

\* The daemon and the sign-in come and go.
LEMMA WorldInv ==
  ASSUME TerminalInv, SetReachable \/ SetAuthed
  PROVE  TerminalInv'
<1> USE DEF SetReachable, SetAuthed, ghosts
<1>1. TileShape' BY DEF TerminalInv, TileShape
<1>2. LookupShape' /\ ListIsPast' BY DEF TerminalInv, LookupShape, ListIsPast
<1>3. ASSUME NEW t \in Tile PROVE Right(t)'
  BY DEF TerminalInv, Right, Link, Born, ExitIsTrue, ScreenIsTrue, ListHas, LifeOf
<1>4. QED BY <1>1, <1>2, <1>3 DEF TerminalInv

----------------------------------------------------------------------------
(* The theorems *)

\* The page opens with no tile mounted and no question out.
THEOREM TerminalStarts == TerminalInit => TerminalInv
<1> SUFFICES ASSUME TerminalInit PROVE TerminalInv OBVIOUS
<1> USE DEF TerminalInit, NoLookup
<1>0. \A l \in {Unborn, [Unborn EXCEPT !.row = "running", !.tmux = "on"]} : l \in Life /\ ToldOf(l)
  <2>1. Unborn \in Life /\ ToldOf(Unborn)
    BY DEF Unborn, Life, SessionRow, ToldOf, Over
  <2>2. LET l == [Unborn EXCEPT !.row = "running", !.tmux = "on"] IN l \in Life /\ ToldOf(l)
    BY DEF Unborn, Life, SessionRow, ToldOf, Over
  <2>3. QED BY <2>1, <2>2
<1>1. TileShape
  BY <1>0, TerminalAssumption DEF TileShape
<1>2. LookupShape /\ ListIsPast
  BY DEF LookupShape, ListIsPast, SessionRow
<1>5. \A s \in SessionId : ToldOf(life[s])
  BY <1>0
<1>3. ASSUME NEW t \in Tile PROVE Right(t)
  BY DEF Right, Link, Born, ExitIsTrue, ScreenIsTrue, ListHas, Final
<1>4. QED BY <1>1, <1>2, <1>3, <1>5 DEF TerminalInv

\* Whatever a tile, the daemon, the network or a session does next keeps it.
THEOREM TerminalSteps == TerminalInv /\ [TerminalNext]_terminalVars => TerminalInv'
<1> SUFFICES ASSUME TerminalInv, [TerminalNext]_terminalVars PROVE TerminalInv' OBVIOUS
<1>1. ASSUME NEW t \in Tile, Mount(t) \/ Reconnect(t) \/ Unmount(t) PROVE TerminalInv'
  BY <1>1, MountInv, UnmountInv
<1>2. ASSUME NEW t \in Tile, Serve(t) PROVE TerminalInv'
  <2>1. CASE onopen(t) BY <2>1, OpenInv
  <2>2. CASE onmessage(t) BY <2>2, MessageInv
  <2>3. CASE onclose(t) BY <2>3, CloseInv
  <2>4. CASE Timer(t) BY <2>4, MountInv
  <2>5. CASE Upgrade(t) \/ UpgradeFails(t) BY <2>5, UpgradeInv, UpgradeFailsInv
  <2>6. CASE Attach(t) \/ PTYEnds(t) BY <2>6, AttachInv, PTYEndsInv
  <2>7. CASE \E fails \in BOOLEAN : sendExitIfGone(t, fails) BY <2>7, ExitInv
  <2>8. QED BY <1>2, <2>1, <2>2, <2>3, <2>4, <2>5, <2>6, <2>7 DEF Serve
<1>3. ASSUME NEW t \in Tile, Detach(t) \/ Lose(t) \/ FallSilent(t) PROVE TerminalInv'
  BY <1>3, DetachInv, LoseInv, SilentInv
<1>4. CASE Answer \/ OthersAsk
  BY <1>4, AskInv, LookupLandsInv DEF Answer
<1>5. CASE SetReachable \/ SetAuthed
  BY <1>5, WorldInv
<1>6. ASSUME NEW s \in SessionId, Live(s) PROVE TerminalInv'
  BY <1>6, LiveInv
<1>7. CASE UNCHANGED terminalVars
  <2> USE <1>7 DEF terminalVars, world, ghosts
  <2>1. TileShape' BY DEF TerminalInv, TileShape
  <2>2. LookupShape' /\ ListIsPast' BY DEF TerminalInv, LookupShape, ListIsPast
  <2>3. ASSUME NEW t \in Tile PROVE Right(t)'
    BY Untouched DEF TerminalInv
  <2>4. QED BY <2>1, <2>2, <2>3 DEF TerminalInv
<1>8. QED BY <1>1, <1>2, <1>3, <1>4, <1>5, <1>6, <1>7 DEF TerminalNext

\* What makes the two properties hold, in every state that can be reached.
THEOREM TerminalInvariance == TerminalSpec => []TerminalInv
BY TerminalStarts, TerminalSteps, PTL DEF TerminalSpec

\* Whatever fails, the state of tiles, sockets and the shared question keeps its shape:
\* a tile has stopped exactly when it says why, and frames belong to an open socket.
THEOREM TerminalTypeCorrect == TerminalSpec => []TerminalTypeOK
<1>1. TerminalInv => TerminalTypeOK
  <2> SUFFICES ASSUME TerminalInv PROVE TerminalTypeOK OBVIOUS
  <2>1. ASSUME NEW t \in Tile
        PROVE  /\ coming[t] \subseteq {"open", "exit", "close"}
               /\ "exit" \in coming[t] => "close" \in coming[t]
               /\ coming[t] # {} => waits[t] = "socket"
               /\ waits[t] = "stopped" <=> state[t] \in Final
               /\ backoff[t] \in FirstBackoff .. MaxBackoff
    BY DEF TerminalInv, TileShape, Right, Link
  <2>2. lookup.stage \in {"none", "asked", "answered"} /\ lookup.kind \in {"none", "ok", "auth", "retry"}
        /\ lookup.rows \in [SessionId -> SessionRow]
    BY DEF TerminalInv, LookupShape
  <2>3. QED BY <2>1, <2>2 DEF TerminalTypeOK, TerminalInv, TileShape
<1>2. QED BY <1>1, TerminalInvariance, PTL

\* "Exit" is final to the browser: with the exceptions EndIsTrue names, a tile that says
\* its session has ended or is not there is right, and stays right (ws.go's sendExitIfGone,
\* TerminalTile's classifyClose).
THEOREM SaysTheEndTruly == TerminalSpec => []EndIsTrue
<1>1. TerminalInv => EndIsTrue
  BY DEF TerminalInv, Right, ScreenIsTrue, EndIsTrue, Over
<1>2. QED BY <1>1, TerminalInvariance, PTL

-----------------------------------------------------------------------------
(* PaneReader *)

\* A load that is neither aborted nor overtaken is the last one, and the dialog's.
LiveLoad(l) == ~l.aborted

\* What makes the properties inductive: at most one load is live, it is of the present
\* generation, and what it brings is no older than what is on screen.
OneLive == \A l, m \in loads : LiveLoad(l) /\ LiveLoad(m) => l = m
LiveIsPresent == \A l \in loads : LiveLoad(l) => open /\ l.generation = generation
NoOlder == \A l \in loads : /\ l.text <= output
                            /\ LiveLoad(l) /\ l.text # None => snapshot <= l.text
ScreenIsPast == snapshot <= output
ClosedIsEmpty == ~open => snapshot = None /\ ~refreshing

LoadShape ==
  /\ output \in Text /\ generation \in 0 .. MaxLoads
  /\ loads \in SUBSET Load
  /\ snapshot \in Text \cup {None} /\ copying \in SUBSET Text
  /\ open \in BOOLEAN /\ failed \in BOOLEAN /\ refreshing \in BOOLEAN /\ raw \in BOOLEAN
CopyStatus == copyStatus \in {"", "copied", "unavailable"}

ReaderInv == /\ LoadShape /\ OneLive /\ LiveIsPresent /\ NoOlder /\ ScreenIsPast /\ ClosedIsEmpty
        /\ LoadingEnds

----------------------------------------------------------------------------
(* Loads *)

LEMMA LoadFields ==
  ASSUME NEW l \in Load
  PROVE  /\ l.generation \in 1 .. MaxLoads /\ l.aborted \in BOOLEAN /\ l.text \in Text \cup {None}
         /\ l = [generation |-> l.generation, aborted |-> l.aborted, text |-> l.text]
BY DEF Load

LEMMA AbortedLoad ==
  ASSUME NEW l \in Load
  PROVE  /\ [l EXCEPT !.aborted = TRUE] \in Load
         /\ ~LiveLoad([l EXCEPT !.aborted = TRUE])
         /\ [l EXCEPT !.aborted = TRUE].text = l.text
BY DEF Load, LiveLoad

LEMMA CapturedLoad ==
  ASSUME NEW l \in Load, NEW t \in Text
  PROVE  /\ [l EXCEPT !.text = t] \in Load
         /\ LiveLoad([l EXCEPT !.text = t]) <=> LiveLoad(l)
         /\ [l EXCEPT !.text = t].text = t
         /\ [l EXCEPT !.text = t].generation = l.generation
BY DEF Load, LiveLoad

\* What a start or an end aborts keeps its text and is live no more.
LEMMA AbortedLoads ==
  ASSUME loads \in SUBSET Load
  PROVE  /\ Aborted \in SUBSET Load
         /\ \A a \in Aborted : ~LiveLoad(a) /\ \E l \in loads : a.text = l.text
<1>1. \A a \in Aborted : \E l \in loads : a = [l EXCEPT !.aborted = TRUE]
  BY DEF Aborted
<1>2. \A a \in Aborted : a \in Load /\ ~LiveLoad(a) /\ \E l \in loads : a.text = l.text
  <2> SUFFICES ASSUME NEW a \in Aborted
               PROVE  a \in Load /\ ~LiveLoad(a) /\ \E l \in loads : a.text = l.text
    OBVIOUS
  <2>1. PICK l \in loads : a = [l EXCEPT !.aborted = TRUE] BY <1>1
  <2>2. l \in Load OBVIOUS
  <2>3. a \in Load /\ ~LiveLoad(a) /\ a.text = l.text BY <2>1, <2>2, AbortedLoad
  <2>4. QED BY <2>3
<1>3. QED BY <1>2

LEMMA LoadNumbers ==
  /\ \A t \in Text \cup {None} : t \in Int /\ None <= t
  /\ None \notin Text /\ None = -1
BY PaneReaderAssumption DEF Text, None

----------------------------------------------------------------------------
(* The invariant *)

\* A reader opens with nothing loading and nothing shown.
THEOREM ReaderStarts == ReaderInit => ReaderInv /\ CopyStatus
<1> SUFFICES ASSUME ReaderInit PROVE ReaderInv /\ CopyStatus OBVIOUS
<1>1. LoadShape
  <2>1. 0 \in Text /\ 0 \in 0 .. MaxLoads BY PaneReaderAssumption DEF Text
  <2>2. output = 0 /\ generation = 0 /\ loads = {} /\ snapshot = None /\ copying = {}
    BY DEF ReaderInit
  <2>3. open = FALSE /\ failed = FALSE /\ refreshing = FALSE /\ raw = FALSE
    BY DEF ReaderInit
  <2>4. QED BY <2>1, <2>2, <2>3 DEF LoadShape
<1>2. CopyStatus
  BY DEF ReaderInit, CopyStatus
<1>3. OneLive /\ LiveIsPresent /\ NoOlder /\ ClosedIsEmpty /\ LoadingEnds
  BY DEF ReaderInit, OneLive, LiveIsPresent, NoOlder, ClosedIsEmpty, LoadingEnds
<1>4. ScreenIsPast
  <2>1. output = 0 /\ snapshot = None BY DEF ReaderInit
  <2>2. QED BY <2>1, LoadNumbers DEF ScreenIsPast
<1>5. QED BY <1>1, <1>2, <1>3, <1>4 DEF ReaderInv

\* A start: the new load is the live one, and has brought nothing yet.
LEMMA StartInv ==
  ASSUME ReaderInv, Start, open' = TRUE, UNCHANGED <<output, snapshot, raw, copying>>
  PROVE  ReaderInv'
<1> DEFINE new == [generation |-> generation + 1, aborted |-> FALSE, text |-> None]
<1>0. /\ generation' = generation + 1 /\ generation < MaxLoads
      /\ loads' = Aborted \cup {new} /\ refreshing' = (snapshot # None) /\ failed' = FALSE
  BY DEF Start
<1>1. LoadShape BY DEF ReaderInv
<1>2. /\ new \in Load /\ LiveLoad(new) /\ new.generation = generation + 1 /\ new.text = None
  BY <1>0, <1>1, PaneReaderAssumption DEF LoadShape, Load, LiveLoad
<1>3. /\ Aborted \in SUBSET Load
      /\ \A a \in Aborted : ~LiveLoad(a) /\ \E l \in loads : a.text = l.text
  BY <1>1, AbortedLoads DEF LoadShape
<1> HIDE DEF new
<1>4. LoadShape'
  <2>1. generation' \in 0 .. MaxLoads
    BY <1>0, <1>1, PaneReaderAssumption DEF LoadShape
  <2>2. loads' \in SUBSET Load
    BY <1>0, <1>2, <1>3
  <2>3. refreshing' \in BOOLEAN /\ failed' \in BOOLEAN /\ open' \in BOOLEAN
    BY <1>0
  <2>4. QED BY <1>1, <2>1, <2>2, <2>3 DEF LoadShape
<1>5. \A l \in loads' : LiveLoad(l) => l = new
  BY <1>0, <1>3
<1>6. OneLive'
  BY <1>5 DEF OneLive, LiveLoad
<1>7. LiveIsPresent'
  BY <1>0, <1>2, <1>5 DEF LiveIsPresent, LiveLoad
<1>8. NoOlder'
  <2> SUFFICES ASSUME NEW l \in loads' PROVE l.text <= output /\ (LiveLoad(l) /\ l.text # None => snapshot <= l.text)
    BY DEF NoOlder, LiveLoad
  <2>1. CASE l = new
    BY <1>2, <1>1, <2>1, LoadNumbers DEF LoadShape
  <2>2. CASE l \in Aborted
    BY <1>3, <2>2 DEF ReaderInv, NoOlder
  <2>3. QED BY <1>0, <2>1, <2>2
<1>9. ScreenIsPast'
  BY DEF ReaderInv, ScreenIsPast
<1>10. ClosedIsEmpty'
  BY DEF ClosedIsEmpty
<1>11. LoadingEnds'
  <2>1. new \in loads' /\ LiveLoad(new) /\ new.generation = generation'
    BY <1>0, <1>2
  <2>2. QED BY <2>1 DEF LoadingEnds, LiveLoad
<1>12. QED BY <1>4, <1>6, <1>7, <1>8, <1>9, <1>10, <1>11 DEF ReaderInv

LEMMA CaptureInv ==
  ASSUME ReaderInv, NEW l \in loads, Capture(l)
  PROVE  ReaderInv'
<1> DEFINE k == [l EXCEPT !.text = output]
<1>0. /\ loads' = (loads \ {l}) \cup {k} /\ l.text = None
      /\ UNCHANGED <<output, open, generation, snapshot, failed, refreshing, raw, copying>>
  BY DEF Capture
<1>1. LoadShape BY DEF ReaderInv
<1>2. l \in Load /\ k \in Load /\ (LiveLoad(k) <=> LiveLoad(l)) /\ k.text = output /\ k.generation = l.generation
  BY <1>1, CapturedLoad DEF LoadShape
<1> HIDE DEF k
<1>4. LoadShape' BY <1>0, <1>1, <1>2 DEF LoadShape
<1>5. \A m \in loads' : m = k \/ (m \in loads /\ m # l) BY <1>0
<1>6. OneLive'
  BY <1>2, <1>5 DEF ReaderInv, OneLive, LiveLoad
<1>7. LiveIsPresent'
  BY <1>0, <1>2, <1>5 DEF ReaderInv, LiveIsPresent, LiveLoad
<1>8. NoOlder'
  BY <1>0, <1>1, <1>2, <1>5, LoadNumbers DEF ReaderInv, NoOlder, LiveLoad, LoadShape, ScreenIsPast
<1>9. ScreenIsPast' /\ ClosedIsEmpty'
  BY <1>0 DEF ReaderInv, ScreenIsPast, ClosedIsEmpty
<1>10. LoadingEnds'
  BY <1>0, <1>2, <1>5 DEF ReaderInv, LoadingEnds, LiveLoad
<1>11. QED BY <1>4, <1>6, <1>7, <1>8, <1>9, <1>10 DEF ReaderInv

\* A load that lands or fails is gone; if it was live, so is the wait for it.
LEMMA LoadLandsInv ==
  ASSUME ReaderInv, NEW l \in loads, TextLands(l) \/ LoadFails(l)
  PROVE  ReaderInv'
<1>0. loads' = loads \ {l} /\ UNCHANGED <<output, open, generation, raw, copying>>
  BY DEF TextLands, LoadFails
<1>1. LoadShape BY DEF ReaderInv
<1>2. l \in Load /\ l.text \in Text \cup {None} /\ l.text \in Int
  BY <1>1, LoadFields, LoadNumbers DEF LoadShape
<1>3. CASE Outdated(l)
  <2>1. UNCHANGED <<snapshot, failed, refreshing>>
    BY <1>3 DEF TextLands, LoadFails
  <2>2. LiveLoad(l) => FALSE
    BY <1>3 DEF Outdated, LiveLoad, ReaderInv, LiveIsPresent
  <2>3. LoadShape' BY <1>0, <1>1, <2>1 DEF LoadShape
  <2>4. OneLive' /\ LiveIsPresent' /\ NoOlder' /\ ScreenIsPast' /\ ClosedIsEmpty'
    BY <1>0, <2>1 DEF ReaderInv, OneLive, LiveIsPresent, NoOlder, ScreenIsPast, ClosedIsEmpty, LiveLoad
  <2>5. LoadingEnds'
    BY <1>0, <2>1, <2>2 DEF ReaderInv, LoadingEnds, LiveLoad
  <2>6. QED BY <2>3, <2>4, <2>5 DEF ReaderInv
<1>4. CASE ~Outdated(l)
  <2>1. LiveLoad(l) /\ l.generation = generation /\ open
    BY <1>4 DEF Outdated, LiveLoad, ReaderInv, LiveIsPresent
  <2>2. \A m \in loads' : m \in loads /\ ~LiveLoad(m)
    BY <1>0, <2>1 DEF ReaderInv, OneLive
  <2>3. /\ refreshing' = FALSE
        /\ \/ snapshot' = l.text /\ l.text # None /\ failed' = failed
           \/ snapshot' = snapshot /\ failed' = TRUE
    BY <1>4 DEF TextLands, LoadFails
  <2>4. LoadShape' BY <1>0, <1>1, <1>2, <2>3 DEF LoadShape
  <2>5. OneLive' /\ LiveIsPresent'
    BY <2>2 DEF OneLive, LiveIsPresent, LiveLoad
  <2>6. NoOlder'
    BY <1>0, <2>2 DEF ReaderInv, NoOlder, LiveLoad
  <2>7. ScreenIsPast'
    BY <1>0, <2>3 DEF ReaderInv, ScreenIsPast, NoOlder
  <2>8. ClosedIsEmpty' /\ LoadingEnds'
    BY <1>0, <2>1, <2>3 DEF ClosedIsEmpty, LoadingEnds
  <2>9. QED BY <2>4, <2>5, <2>6, <2>7, <2>8 DEF ReaderInv
<1>5. QED BY <1>3, <1>4

LEMMA ReaderClosesInv ==
  ASSUME ReaderInv, Close
  PROVE  ReaderInv'
<1>0. /\ open' = FALSE /\ generation < MaxLoads /\ generation' = generation + 1 /\ loads' = Aborted
      /\ snapshot' = None /\ failed' = FALSE /\ raw' = FALSE /\ refreshing' = FALSE
      /\ UNCHANGED <<output, copying>>
  BY DEF Close
<1>1. LoadShape BY DEF ReaderInv
<1>2. /\ Aborted \in SUBSET Load
      /\ \A a \in Aborted : ~LiveLoad(a) /\ \E l \in loads : a.text = l.text
  BY <1>1, AbortedLoads DEF LoadShape
<1>3. LoadShape'
  <2>1. generation' \in 0 .. MaxLoads
    BY <1>0, <1>1, PaneReaderAssumption DEF LoadShape
  <2>2. QED BY <1>0, <1>1, <1>2, <2>1 DEF LoadShape
<1>4. OneLive' /\ LiveIsPresent'
  BY <1>0, <1>2 DEF OneLive, LiveIsPresent, LiveLoad
<1>5. NoOlder'
  BY <1>0, <1>2 DEF ReaderInv, NoOlder, LiveLoad
<1>6. ScreenIsPast'
  BY <1>0, <1>1, LoadNumbers DEF LoadShape, ScreenIsPast
<1>7. ClosedIsEmpty' /\ LoadingEnds'
  BY <1>0 DEF ClosedIsEmpty, LoadingEnds
<1>8. QED BY <1>3, <1>4, <1>5, <1>6, <1>7 DEF ReaderInv

LEMMA OutputInv ==
  ASSUME ReaderInv, Output
  PROVE  ReaderInv'
<1>0. /\ output < MaxOutput /\ output' = output + 1
      /\ UNCHANGED <<open, generation, loads, snapshot, failed, refreshing, raw, copying>>
  BY DEF Output
<1>1. LoadShape BY DEF ReaderInv
<1>2. output \in Int /\ snapshot \in Int /\ \A l \in loads : l.text \in Int
  BY <1>1, LoadFields, LoadNumbers DEF LoadShape
<1>3. LoadShape' BY <1>0, <1>1, PaneReaderAssumption DEF LoadShape, Text
<1>4. NoOlder' BY <1>0, <1>2 DEF ReaderInv, NoOlder, LiveLoad
<1>5. ScreenIsPast' BY <1>0, <1>2 DEF ReaderInv, ScreenIsPast
<1>6. OneLive' /\ LiveIsPresent' /\ ClosedIsEmpty' /\ LoadingEnds'
  BY <1>0 DEF ReaderInv, OneLive, LiveIsPresent, ClosedIsEmpty, LoadingEnds, LiveLoad
<1>7. QED BY <1>3, <1>4, <1>5, <1>6 DEF ReaderInv

\* The raw view and the clipboard change nothing the invariant speaks of.
LEMMA ScreenInv ==
  ASSUME ReaderInv, LoadShape',
         UNCHANGED <<output, open, generation, loads, snapshot, failed, refreshing>>
  PROVE  ReaderInv'
BY DEF ReaderInv, OneLive, LiveIsPresent, NoOlder, ScreenIsPast, ClosedIsEmpty, LoadingEnds, LiveLoad

\* Every load, answer, failure and close keeps it, in whatever order they come.
THEOREM ReaderSteps == ReaderInv /\ [ReaderNext]_readerVars => ReaderInv'
<1> SUFFICES ASSUME ReaderInv, [ReaderNext]_readerVars PROVE ReaderInv' OBVIOUS
<1>0. LoadShape BY DEF ReaderInv
<1>1. CASE Open BY <1>1, StartInv DEF Open
<1>2. CASE Refresh
  <2>1. Start /\ open' = TRUE /\ UNCHANGED <<output, snapshot, raw, copying>>
    BY <1>2 DEF Refresh
  <2>2. QED BY <2>1, StartInv
<1>3. CASE ToggleRaw
  BY <1>0, <1>3, ScreenInv DEF ToggleRaw, LoadShape
<1>4. CASE Copy
  BY <1>0, <1>4, ScreenInv, LoadNumbers DEF Copy, LoadShape
<1>5. CASE Close BY <1>5, ReaderClosesInv
<1>6. CASE Output BY <1>6, OutputInv
<1>7. ASSUME NEW l \in loads, Capture(l) \/ TextLands(l) \/ LoadFails(l) PROVE ReaderInv'
  BY <1>7, CaptureInv, LoadLandsInv
<1>8. ASSUME NEW t \in copying, NEW ok \in BOOLEAN, Copied(t, ok) PROVE ReaderInv'
  BY <1>0, <1>8, ScreenInv DEF Copied, LoadShape
<1>9. CASE UNCHANGED readerVars
  BY <1>0, <1>9, ScreenInv DEF readerVars, LoadShape
<1>10. QED
  BY <1>1, <1>2, <1>3, <1>4, <1>5, <1>6, <1>7, <1>8, <1>9 DEF ReaderNext

LEMMA CopyStatusSteps == CopyStatus /\ [ReaderNext]_readerVars => CopyStatus'
<1> SUFFICES ASSUME CopyStatus, [ReaderNext]_readerVars PROVE CopyStatus' OBVIOUS
<1>1. copyStatus' \in {copyStatus, "", "copied", "unavailable"}
  BY DEF ReaderNext, Open, Start, Refresh, Capture, TextLands, LoadFails, ToggleRaw, Copy, Copied,
         Close, Output, readerVars
<1>2. QED BY <1>1 DEF CopyStatus

----------------------------------------------------------------------------
(* Theorems *)

\* What makes the three properties below hold, in every state that can be reached.
THEOREM ReaderInvariance == ReaderSpec => [](ReaderInv /\ CopyStatus)
<1>1. ReaderInv /\ CopyStatus /\ [ReaderNext]_readerVars => (ReaderInv /\ CopyStatus)'
  BY ReaderSteps, CopyStatusSteps
<1>2. QED BY ReaderStarts, <1>1, PTL DEF ReaderSpec

\* The reader's state keeps its shape.
THEOREM ReaderTypeCorrect == ReaderSpec => []ReaderTypeOK
<1>1. ReaderInv /\ CopyStatus => ReaderTypeOK
  <2> SUFFICES ASSUME ReaderInv, CopyStatus PROVE ReaderTypeOK OBVIOUS
  <2>1. {open, failed, refreshing, raw} \subseteq BOOLEAN
    BY DEF ReaderInv, LoadShape
  <2>2. QED BY <2>1 DEF ReaderTypeOK, ReaderInv, LoadShape, CopyStatus
<1>2. QED BY ReaderInvariance, <1>1, PTL

\* A reader that says it loads has a load under way whose end it will take.
THEOREM WaitsForALoad == ReaderSpec => []LoadingEnds
<1>1. ReaderInv /\ CopyStatus => LoadingEnds BY DEF ReaderInv
<1>2. QED BY ReaderInvariance, <1>1, PTL

\* Whatever order answers come in, no text is replaced by one captured before it.
THEOREM NeverGoesBack == ReaderSpec => TextNeverGoesBack
<1>1. ReaderInv /\ [ReaderNext]_readerVars => [snapshot' # None => snapshot' >= snapshot]_readerVars
  <2> SUFFICES ASSUME ReaderInv, [ReaderNext]_readerVars, snapshot' # None
               PROVE  snapshot' >= snapshot \/ UNCHANGED readerVars
    OBVIOUS
  <2>0. snapshot \in Int BY LoadNumbers DEF ReaderInv, LoadShape
  <2>1. CASE snapshot' = snapshot BY <2>0, <2>1
  <2>2. CASE \E l \in loads : TextLands(l)
    <3>1. PICK l \in loads : TextLands(l) BY <2>2
    <3>2. CASE Outdated(l) BY <2>0, <3>1, <3>2 DEF TextLands
    <3>3. CASE ~Outdated(l)
      <4>1. snapshot' = l.text /\ l.text # None /\ LiveLoad(l)
        BY <3>1, <3>3 DEF TextLands, Outdated, LiveLoad
      <4>2. l.text \in Int BY LoadFields, LoadNumbers DEF ReaderInv, LoadShape
      <4>3. QED BY <2>0, <4>1, <4>2 DEF ReaderInv, NoOlder
    <3>4. QED BY <3>2, <3>3
  <2>3. snapshot' = snapshot \/ snapshot' = None \/ \E l \in loads : TextLands(l)
    BY DEF ReaderNext, Open, Start, Refresh, Capture, LoadFails, ToggleRaw, Copy, Copied, Close,
           Output, readerVars
  <2>4. QED BY <2>1, <2>2, <2>3
<1>2. QED BY ReaderInvariance, <1>1, PTL DEF ReaderSpec, TextNeverGoesBack

-----------------------------------------------------------------------------
(* MobileView *)

LEMMA LesserOf ==
  ASSUME NEW a \in Int, NEW b \in Int, NEW m, m = Min({a, b})
  PROVE  m \in Int /\ (m = a \/ m = b) /\ m <= a /\ m <= b
<1>1. \E x \in {a, b} : \A y \in {a, b} : x <= y
  <2>1. CASE a <= b
    BY <2>1
  <2>2. CASE ~(a <= b)
    BY <2>2
  <2> QED
    BY <2>1, <2>2
<1>2. m \in {a, b} /\ \A y \in {a, b} : m <= y
  BY <1>1 DEF Min
<1> QED
  BY <1>2

LEMMA GreaterOf ==
  ASSUME NEW a \in Int, NEW b \in Int, NEW m, m = Max({a, b})
  PROVE  m \in Int /\ (m = a \/ m = b) /\ a <= m /\ b <= m
<1>1. \E x \in {a, b} : \A y \in {a, b} : x >= y
  <2>1. CASE a <= b
    BY <2>1
  <2>2. CASE ~(a <= b)
    BY <2>2
  <2> QED
    BY <2>1, <2>2
<1>2. m \in {a, b} /\ \A y \in {a, b} : m >= y
  BY <1>1 DEF Max
<1> QED
  BY <1>2

\* The view lists every session that runs, and no other.
LEMMA ListsRunning ==
  ASSUME NEW t \in PhoneTiles, NEW r \in SUBSET PhoneSessions
  PROVE  /\ orderMobileSessions(t, r) \in Seq(PhoneSessions)
         /\ ToSet(orderMobileSessions(t, r)) = r
<1> DEFINE first == Filter(t, r)
           rest == Filter(Phone, r \ ToSet(first))
<1>1. t \in Seq(PhoneSessions) /\ Phone \in Seq(PhoneSessions)
  BY MobileViewAssumption
<1>2. first \in Seq(PhoneSessions) /\ ToSet(first) = ToSet(t) \cap r
  BY <1>1, FilterPicks, FilterElements
<1>3. rest \in Seq(PhoneSessions) /\ ToSet(rest) = PhoneSessions \cap (r \ ToSet(first))
  BY <1>1, FilterPicks, FilterElements DEF PhoneSessions
<1>4. orderMobileSessions(t, r) = first \o rest
  BY DEF orderMobileSessions
<1> HIDE DEF first, rest
<1>5. first \o rest \in Seq(PhoneSessions) /\ ToSet(first \o rest) = ToSet(first) \cup ToSet(rest)
  <2>1. /\ first \o rest \in Seq(PhoneSessions)
        /\ Len(first \o rest) = Len(first) + Len(rest)
        /\ \A i \in 1 .. Len(first) : (first \o rest)[i] = first[i]
        /\ \A i \in 1 .. Len(rest) : (first \o rest)[Len(first) + i] = rest[i]
        /\ Len(first) \in Nat /\ Len(rest) \in Nat
        /\ DOMAIN first = 1 .. Len(first) /\ DOMAIN rest = 1 .. Len(rest)
        /\ DOMAIN (first \o rest) = 1 .. Len(first) + Len(rest)
    BY <1>2, <1>3
  <2>2. \A i \in DOMAIN (first \o rest) : i \in DOMAIN first \/ i - Len(first) \in DOMAIN rest
    BY <2>1
  <2>3. \A i \in DOMAIN first : i \in DOMAIN (first \o rest)
    BY <2>1
  <2>4. \A i \in DOMAIN rest : Len(first) + i \in DOMAIN (first \o rest)
    BY <2>1
  <2>5. ToSet(first \o rest) \subseteq ToSet(first) \cup ToSet(rest)
    <3> SUFFICES ASSUME NEW i \in DOMAIN (first \o rest)
                 PROVE  (first \o rest)[i] \in ToSet(first) \cup ToSet(rest)
      BY DEF ToSet
    <3>1. CASE i \in DOMAIN first
      BY <2>1, <3>1 DEF ToSet
    <3>2. CASE i - Len(first) \in DOMAIN rest
      <4>1. i = Len(first) + (i - Len(first))
        BY <2>1
      <4>2. (first \o rest)[i] = rest[i - Len(first)]
        BY <2>1, <3>2, <4>1
      <4> QED
        BY <3>2, <4>2 DEF ToSet
    <3> QED
      BY <2>2, <3>1, <3>2
  <2>6. ToSet(first) \subseteq ToSet(first \o rest) /\ ToSet(rest) \subseteq ToSet(first \o rest)
    BY <2>1, <2>3, <2>4 DEF ToSet
  <2> QED
    BY <2>1, <2>5, <2>6
<1> QED
  BY <1>2, <1>3, <1>4, <1>5

\* A selection in a list keeps its key while the list has it, and is in the list.
Selections == [key : PhoneSessions \cup {""}, index : Nat \ {0}]

LEMMA PairFits ==
  ASSUME NEW K, NEW k \in K, NEW I, NEW i \in I
  PROVE  [key |-> k, index |-> i] \in [key : K, index : I] /\ [key |-> k, index |-> i].key = k
OBVIOUS

LEMMA AtFits ==
  ASSUME NEW list \in Seq(PhoneSessions), NEW i \in Nat, i > 0, list = <<>> \/ i <= Len(list)
  PROVE  /\ At(i, list) \in Selections
         /\ list = <<>> => At(i, list).key = ""
         /\ list # <<>> => At(i, list).key = list[i] /\ At(i, list).key \in ToSet(list)
<1>1. CASE list = <<>>
  BY <1>1 DEF At, Selections
<1>2. CASE list # <<>>
  <2>1. i \in DOMAIN list /\ list[i] \in PhoneSessions
    BY <1>2
  <2>2. At(i, list) = [key |-> list[i], index |-> i]
    BY <1>2 DEF At
  <2> QED
    <3>1. At(i, list).key = list[i] /\ At(i, list) \in Selections
      <4>1. i \in Nat \ {0}
        OBVIOUS
      <4>2. list[i] \in PhoneSessions \cup {""}
        BY <2>1
      <4>3. PICK x : x = list[i]
        OBVIOUS
      <4>4. At(i, list) = [key |-> x, index |-> i] /\ x \in PhoneSessions \cup {""}
        BY <2>2, <4>2, <4>3
      <4>5. At(i, list).key = x /\ At(i, list) \in [key : PhoneSessions \cup {""}, index : Nat \ {0}]
        <5>1. PICK N : N = Nat \ {0}
          OBVIOUS
        <5>2. i \in N
          BY <4>1, <5>1
        <5>3. PICK K : K = PhoneSessions \cup {""}
          OBVIOUS
        <5>4. x \in K
          BY <4>4, <5>3
        <5>5. [key |-> x, index |-> i] \in [key : K, index : N] /\ [key |-> x, index |-> i].key = x
          BY <5>2, <5>4, PairFits
        <5>6. PICK sel : sel = At(i, list)
          OBVIOUS
        <5>7. sel \in [key : K, index : N] /\ sel.key = x
          BY <4>4, <5>5, <5>6
        <5> QED
          BY <5>1, <5>3, <5>6, <5>7
      <4> QED
        BY <4>3, <4>5 DEF Selections
    <3>2. list[i] \in ToSet(list)
      BY <2>1 DEF ToSet
    <3> QED
      BY <1>2, <3>1, <3>2
<1> QED
  BY <1>1, <1>2

LEMMA IndexFits ==
  ASSUME NEW list \in Seq(PhoneSessions), NEW s \in ToSet(list)
  PROVE  /\ list # <<>>
         /\ At(IndexOf(s, list), list).key = s /\ At(IndexOf(s, list), list) \in Selections
<1>1. \E i \in DOMAIN list : list[i] = s
  BY DEF ToSet
<1>2. IndexOf(s, list) \in 1 .. Len(list) /\ list[IndexOf(s, list)] = s /\ list # <<>>
  BY <1>1 DEF IndexOf
<1> QED
  <2>1. PICK i : i = IndexOf(s, list)
    OBVIOUS
  <2>2. i \in Nat /\ i > 0 /\ i <= Len(list) /\ list[i] = s
    BY <1>2, <2>1
  <2>3. At(i, list) \in Selections /\ At(i, list).key = s
    BY <1>2, <2>2, AtFits
  <2> QED
    BY <1>2, <2>1, <2>3

LEMMA ReconciledFits ==
  ASSUME NEW list \in Seq(PhoneSessions), NEW sel \in Selections
  PROVE  /\ Reconciled(sel, list) \in Selections
         /\ list = <<>> => Reconciled(sel, list).key = ""
         /\ list # <<>> => Reconciled(sel, list).key \in ToSet(list)
         /\ sel.key \in ToSet(list) => Reconciled(sel, list).key = sel.key
<1>1. CASE list = <<>>
  <2>1. ToSet(list) = {}
    BY <1>1 DEF ToSet
  <2>2. Reconciled(sel, list) = At(1, list)
    BY <1>1 DEF Reconciled
  <2>3. At(1, list) \in Selections /\ At(1, list).key = ""
    <3>1. 1 \in Nat /\ 1 > 0
      OBVIOUS
    <3> QED
      BY <1>1, <3>1, AtFits
  <2> QED
    BY <1>1, <2>1, <2>2, <2>3
<1>2. CASE list # <<>> /\ sel.key \in ToSet(list)
  BY <1>2, IndexFits DEF Reconciled
<1>3. CASE list # <<>> /\ sel.key \notin ToSet(list)
  <2>1. Len(list) \in Int /\ Len(list) > 0 /\ sel.index \in Int /\ sel.index > 0
    <3>1. Len(list) \in Int /\ Len(list) > 0
      BY <1>3
    <3>2. sel.index \in Nat \ {0}
      BY DEF Selections
    <3> QED
      BY <3>1, <3>2
  <2>2. PICK i : i = sel.index
    OBVIOUS
  <2>3. PICK n : n = Len(list)
    OBVIOUS
  <2>4. PICK m : m = Min({i, n})
    OBVIOUS
  <2>5. i \in Int /\ n \in Int
    BY <2>1, <2>2, <2>3
  <2>6. m \in Int /\ (m = i \/ m = n) /\ m <= n
    BY <2>4, <2>5, LesserOf
  <2>7. m \in Nat /\ m > 0 /\ m <= Len(list)
    BY <2>1, <2>2, <2>3, <2>6
  <2>8. Reconciled(sel, list) = At(m, list)
    BY <1>3, <2>2, <2>3, <2>4 DEF Reconciled
  <2> QED
    BY <1>3, <2>7, <2>8, AtFits
<1> QED
  BY <1>1, <1>2, <1>3

\* moveSelection stays in the list.
LEMMA MovedFits ==
  ASSUME NEW offset \in Int, sessions \in Seq(PhoneSessions), sessions # <<>>, selection \in Selections
  PROVE  Moved(offset) \in Selections /\ Moved(offset).key \in ToSet(sessions)
<1>1. PICK i : i = Reconciled(selection, sessions).index + offset
  OBVIOUS
<1>2. Reconciled(selection, sessions) \in Selections
  BY ReconciledFits
<1>3. i \in Int /\ Len(sessions) \in Int /\ Len(sessions) > 0
  <2>1. Reconciled(selection, sessions).index \in Nat \ {0}
    BY <1>2 DEF Selections
  <2>2. Len(sessions) \in Int /\ Len(sessions) > 0
    OBVIOUS
  <2> QED
    BY <1>1, <2>1, <2>2
<1>4. PICK m : m = Min({Len(sessions), i})
  OBVIOUS
<1>5. m \in Int /\ m <= Len(sessions)
  BY <1>3, <1>4, LesserOf
<1>6. PICK n : n = Max({1, m})
  OBVIOUS
<1>7. n \in Int /\ n \in Nat /\ n > 0 /\ n <= Len(sessions)
  <2>1. n \in Int /\ (n = 1 \/ n = m) /\ 1 <= n
    <3>1. PICK one : one = 1
      OBVIOUS
    <3>2. one \in Int /\ n = Max({one, m})
      BY <1>6, <3>1
    <3>3. n \in Int /\ (n = one \/ n = m) /\ one <= n
      BY <1>5, <3>2, GreaterOf
    <3> QED
      BY <3>1, <3>3
  <2> QED
    BY <1>3, <1>5, <2>1
<1>8. Moved(offset) = At(n, sessions)
  BY <1>1, <1>4, <1>6 DEF Moved
<1> QED
  BY <1>7, <1>8, AtFits

----------------------------------------------------------------------------

\* What keeps a session on screen: the selection is always in the list, a created
\* session waits only while it is not listed, and one that was wanted and is not
\* listed is over, or waits to be.
MobileInv ==
  /\ tiles \in PhoneTiles /\ running \in SUBSET PhoneSessions
  /\ selection \in Selections
  /\ OnPhone = selection.key /\ (sessions # <<>> => selection.key \in running)
  /\ sessions = <<>> => selection.key = ""
  /\ \A s, u \in pending : s = u
  /\ pending \cap running = {} /\ pending \in SUBSET PhoneSessions
  /\ \A s, u \in wanted : s = u
  /\ wanted \subseteq running \cup over \cup pending
  /\ wanted \cap running \subseteq {OnPhone}

LEMMA SessionsFit ==
  ASSUME tiles \in PhoneTiles, running \in SUBSET PhoneSessions
  PROVE  sessions \in Seq(PhoneSessions) /\ ToSet(sessions) = running
BY ListsRunning DEF sessions

\* After an effect the selection is in the list: it is what was awaited, if that is
\* listed, and otherwise what it was, if that still is.
LEMMA FollowFits ==
  ASSUME NEW sel \in Selections, NEW awaited, \A s, u \in awaited : s = u,
         NEW list \in Seq(PhoneSessions), Follow(sel, awaited, list)
  PROVE  /\ selection' \in Selections
         /\ list = <<>> => selection'.key = ""
         /\ list # <<>> => selection'.key \in ToSet(list)
         /\ IF awaited # {} /\ awaited \subseteq ToSet(list)
            THEN {selection'.key} = awaited /\ pending' = {}
            ELSE pending' = awaited /\ (sel.key \in ToSet(list) => selection'.key = sel.key)
<1>1. CASE awaited # {} /\ awaited \subseteq ToSet(list)
  <2>1. PICK s : s = CHOOSE u \in awaited : TRUE
    OBVIOUS
  <2>2. s \in ToSet(list) /\ awaited = {s}
    BY <1>1, <2>1
  <2>3. selection' = At(IndexOf(s, list), list) /\ pending' = {}
    BY <1>1, <2>1 DEF Follow
  <2> QED
    BY <1>1, <2>2, <2>3, IndexFits
<1>2. CASE ~(awaited # {} /\ awaited \subseteq ToSet(list))
  <2>1. selection' = Reconciled(sel, list) /\ pending' = awaited
    BY <1>2 DEF Follow
  <2> QED
    BY <1>2, <2>1, ReconciledFits
<1> QED
  BY <1>1, <1>2

LEMMA OnPhoneAfter ==
  ASSUME tiles' \in PhoneTiles, running' \in SUBSET PhoneSessions, selection' \in Selections,
         sessions' = <<>> => selection'.key = "", sessions' # <<>> => selection'.key \in running'
  PROVE  OnPhone' = selection'.key
<1>1. sessions' \in Seq(PhoneSessions) /\ ToSet(sessions') = running'
  BY ListsRunning DEF sessions
<1>2. PICK list : list = sessions'
  OBVIOUS
<1>3. PICK sel : sel = selection'
  OBVIOUS
<1>4. Reconciled(sel, list).key = sel.key
  BY <1>1, <1>2, <1>3, ReconciledFits
<1> QED
  BY <1>2, <1>3, <1>4 DEF OnPhone, Reconciled, At, IndexOf

Stays == OnPhone \notin running' \/ OnPhone' \in {OnPhone} \cup wanted'

\* A step of the user among the listed sessions.
LEMMA PutInv ==
  ASSUME MobileInv, NEW sel \in Selections, sessions # <<>>, sel.key \in running, Put(sel)
  PROVE  MobileInv' /\ Stays
<1>1. sessions \in Seq(PhoneSessions) /\ ToSet(sessions) = running
  BY SessionsFit DEF MobileInv
<1>2. /\ Follow(sel, pending, sessions) /\ wanted' = {selection'.key}
      /\ UNCHANGED <<tiles, running, over>>
  BY DEF Put, phone
<1>3. ~(pending # {} /\ pending \subseteq ToSet(sessions))
  BY <1>1 DEF MobileInv
<1>4. selection' \in Selections /\ selection'.key = sel.key /\ pending' = pending
  BY <1>1, <1>2, <1>3, FollowFits DEF MobileInv
<1>5. sessions' = sessions
  BY <1>2 DEF sessions, orderMobileSessions
<1>6. OnPhone' = selection'.key
  BY <1>2, <1>4, <1>5, OnPhoneAfter DEF MobileInv
<1> QED
  BY <1>2, <1>4, <1>5, <1>6 DEF MobileInv, Stays

LEMMA CreatedInv ==
  ASSUME MobileInv, NEW s \in PhoneSessions, Created(s)
  PROVE  MobileInv' /\ Stays
<1>1. sessions \in Seq(PhoneSessions) /\ ToSet(sessions) = running
  BY SessionsFit DEF MobileInv
<1>2. /\ Follow(selection, {s}, sessions) /\ wanted' = {s}
      /\ UNCHANGED <<tiles, running, over>>
  BY DEF Created, phone
<1>3. selection \in Selections
  BY DEF MobileInv
<1>4. /\ selection' \in Selections
      /\ sessions = <<>> => selection'.key = ""
      /\ sessions # <<>> => selection'.key \in running
      /\ IF s \in running THEN selection'.key = s /\ pending' = {}
         ELSE pending' = {s} /\ (selection.key \in running => selection'.key = selection.key)
  <2>1. \A a, b \in {s} : a = b
    OBVIOUS
  <2>2. {s} # {} /\ ({s} \subseteq ToSet(sessions) <=> s \in running)
    BY <1>1
  <2>3. /\ selection' \in Selections
        /\ sessions = <<>> => selection'.key = ""
        /\ sessions # <<>> => selection'.key \in ToSet(sessions)
        /\ IF {s} # {} /\ {s} \subseteq ToSet(sessions)
           THEN {selection'.key} = {s} /\ pending' = {}
           ELSE pending' = {s} /\ (selection.key \in ToSet(sessions) => selection'.key = selection.key)
    BY <1>1, <1>2, <1>3, <2>1, FollowFits
  <2>4. CASE s \in running
    BY <1>1, <2>2, <2>3, <2>4
  <2>5. CASE s \notin running
    BY <1>1, <2>2, <2>3, <2>5
  <2> QED
    BY <2>4, <2>5
<1>5. sessions' = sessions
  BY <1>2 DEF sessions, orderMobileSessions
<1>6. OnPhone' = selection'.key
  BY <1>2, <1>4, <1>5, OnPhoneAfter DEF MobileInv
<1> QED
  BY <1>2, <1>4, <1>5, <1>6 DEF MobileInv, Stays

LEMMA ListsInv ==
  ASSUME MobileInv, NEW t \in PhoneTiles, NEW r \in SUBSET PhoneSessions, ListsLand(t, r)
  PROVE  MobileInv' /\ Stays
<1>1. PICK list : list = orderMobileSessions(t, r)
  OBVIOUS
<1>2. list \in Seq(PhoneSessions) /\ ToSet(list) = r
  BY <1>1, ListsRunning
<1>3. /\ tiles' = t /\ running' = r /\ over' = over \cup (running \ r) /\ r \cap over = {}
      /\ Follow(selection, pending, list)
      /\ wanted' = IF pending # {} /\ pending \subseteq r THEN pending ELSE wanted
  BY <1>1 DEF ListsLand
<1>4. sessions' = list
  BY <1>1, <1>3 DEF sessions, orderMobileSessions
<1>5. selection \in Selections /\ \A s, u \in pending : s = u
  BY DEF MobileInv
<1>6. /\ selection' \in Selections
      /\ list = <<>> => selection'.key = ""
      /\ list # <<>> => selection'.key \in r
      /\ IF pending # {} /\ pending \subseteq r THEN {selection'.key} = pending /\ pending' = {}
         ELSE pending' = pending /\ (selection.key \in r => selection'.key = selection.key)
  BY <1>2, <1>3, <1>5, FollowFits
<1>7. OnPhone' = selection'.key
  BY <1>3, <1>4, <1>6, OnPhoneAfter
<1>8. CASE pending # {} /\ pending \subseteq r
  BY <1>3, <1>4, <1>6, <1>7, <1>8 DEF MobileInv, Stays
<1>9. CASE ~(pending # {} /\ pending \subseteq r)
  <2>1. pending' = pending /\ wanted' = wanted /\ pending \cap r = {}
    BY <1>3, <1>5, <1>6, <1>9
  <2>2. \A w \in wanted \cap r : w = selection.key /\ w = selection'.key
    BY <1>3, <1>6, <1>9, <2>1 DEF MobileInv
  <2> QED
    BY <1>3, <1>4, <1>6, <1>7, <1>9, <2>1, <2>2 DEF MobileInv, Stays
<1> QED
  BY <1>8, <1>9

LEMMA OthersStay ==
  ASSUME MobileInv, UNCHANGED <<tiles, running, over, selection, pending, wanted>>
  PROVE  MobileInv' /\ Stays
<1>1. sessions' = sessions /\ OnPhone' = OnPhone
  BY DEF sessions, orderMobileSessions, OnPhone, Reconciled, At, IndexOf
<1> QED
  BY <1>1 DEF MobileInv, Stays

LEMMA MobileSteps ==
  ASSUME MobileInv, [MobileNext]_mobileVars
  PROVE  MobileInv' /\ Stays
<1> DEFINE Rest == UNCHANGED <<tiles, running, over, selection, pending, wanted>>
<1>1. sessions \in Seq(PhoneSessions) /\ ToSet(sessions) = running /\ selection \in Selections
  BY SessionsFit DEF MobileInv
<1>2. ASSUME NEW offset \in Int, sessions # <<>>, Put(Moved(offset)) PROVE MobileInv' /\ Stays
  BY <1>1, <1>2, MovedFits, PutInv
<1>3. ASSUME NEW dx \in {-60, -48, 0, 60}, NEW dy \in {-60, -48, 0, 60}, Swipe(dx, dy) PROVE MobileInv' /\ Stays
  BY <1>2, <1>3 DEF Swipe
<1>4. ASSUME NEW offset \in {-Len(sessions), -1, 1, Len(sessions)}, SliderKey(offset) PROVE MobileInv' /\ Stays
  <2>1. Len(sessions) \in Nat
    BY <1>1
  <2>2. offset \in Int
    BY <2>1
  <2> QED
    BY <1>2, <1>4, <2>2 DEF SliderKey
<1>5. ASSUME NEW opens \in BOOLEAN, SetCreator(opens) \/ Connect(opens) PROVE Rest
  BY <1>5 DEF SetCreator, Connect, phone
<1>6. ASSUME NEW s, Create(s) \/ CreateFails(s) \/ Terminated(s) PROVE Rest
  BY <1>6 DEF Create, CreateFails, Terminated, phone
<1>7. ASSUME terminateSelected \/ ToggleCompose \/ TypeDraft PROVE Rest
  BY <1>7 DEF terminateSelected, ToggleCompose, TypeDraft, Draft, phone
<1>8. ASSUME NEW size, changeFontSize(size) PROVE Rest
  BY <1>8 DEF changeFontSize, phone
<1>9. ASSUME NEW a, NEW b, Insert(a, b) PROVE Rest
  BY <1>9 DEF Insert, Draft, phone
<1>10. UNCHANGED mobileVars => Rest
  BY DEF mobileVars, phone
<1>11. Rest => MobileInv' /\ Stays
  BY OthersStay
<1> HIDE DEF Rest
<1> QED
  BY <1>3, <1>4, <1>5, <1>6, <1>7, <1>8, <1>9, <1>10, <1>11, CreatedInv, ListsInv DEF MobileNext

LEMMA MobileStarts == MobileInit => MobileInv
<1> SUFFICES ASSUME MobileInit PROVE MobileInv
  OBVIOUS
<1>1. tiles \in PhoneTiles /\ running \in SUBSET PhoneSessions
  BY DEF MobileInit
<1>2. sessions \in Seq(PhoneSessions) /\ ToSet(sessions) = running
  BY <1>1, SessionsFit
<1>3. selection = At(1, sessions) /\ pending = {} /\ wanted = {}
  BY DEF MobileInit, sessions
<1>4. sessions = <<>> \/ 1 <= Len(sessions)
  BY <1>2
<1>5. /\ selection \in Selections
      /\ sessions = <<>> => selection.key = ""
      /\ sessions # <<>> => selection.key \in running
  <2>1. At(1, sessions) \in Selections /\ (sessions = <<>> => At(1, sessions).key = "")
        /\ (sessions # <<>> => At(1, sessions).key \in ToSet(sessions))
    <3>1. 1 \in Nat /\ 1 > 0
      OBVIOUS
    <3> QED
      BY <1>2, <1>4, <3>1, AtFits
  <2> QED
    BY <1>2, <1>3, <2>1
<1>6. OnPhone = selection.key
  BY <1>2, <1>5, ReconciledFits DEF OnPhone
<1> QED
  BY <1>1, <1>3, <1>5, <1>6 DEF MobileInv

\* The phone shows a session of its list, or none when the list is empty, and a created
\* session waits only while it is not listed (MobileSessionView.tsx): the invariant the
\* property of its steps rests on.
THEOREM MobileInvariance == MobileSpec => []MobileInv
BY MobileStarts, MobileSteps, PTL DEF MobileSpec

\* A phone stays on its session while it runs, whatever lists and layouts land
\* (MobileSessionView.tsx): it moves only to a session it asked for.
THEOREM KeepsTheSession == MobileSpec => StaysOnSession
<1>1. MobileInv => wanted \cap running \subseteq {OnPhone}
  BY DEF MobileInv
<1>2. MobileInv /\ [MobileNext]_mobileVars => [OnPhone \notin running' \/ OnPhone' \in {OnPhone} \cup wanted']_mobileVars
  BY MobileSteps DEF Stays
<1> QED
  BY <1>1, <1>2, MobileInvariance, PTL DEF MobileSpec, StaysOnSession

\* A list that names nothing twice is no longer than one that names all it does.
LEMMA Shorter ==
  ASSUME NEW T, NEW a \in Seq(T), NEW b \in Seq(T), IsInjective(a), ToSet(a) \subseteq ToSet(b)
  PROVE  Len(a) <= Len(b)
<1>1. SUFFICES ASSUME Len(b) < Len(a) PROVE FALSE
  BY <1>1
<1>2. Len(a) \in Nat /\ Len(b) \in Nat /\ DOMAIN a = 1 .. Len(a) /\ DOMAIN b = 1 .. Len(b)
  OBVIOUS
<1>3. PICK n \in Nat : n = Len(a)
  BY <1>2
<1>4. PICK m \in Nat : m = Len(b)
  BY <1>2
<1>5. PICK S : S = 1 .. n
  OBVIOUS
<1>6. PICK D : D = 1 .. m
  OBVIOUS
<1>7. IsFiniteSet(S) /\ Cardinality(S) = n /\ IsFiniteSet(D) /\ Cardinality(D) = m
  BY <1>5, <1>6, FS_Interval
<1>8. \A i \in S : \E j \in D : b[j] = a[i]
  BY <1>2, <1>3, <1>4, <1>5, <1>6 DEF ToSet
<1>9. PICK f : f = [i \in S |-> CHOOSE j \in D : b[j] = a[i]]
  OBVIOUS
<1>10. f \in [S -> D] /\ \A i \in S : b[f[i]] = a[i]
  BY <1>8, <1>9
<1>11. Cardinality(D) < Cardinality(S)
  BY <1>1, <1>3, <1>4, <1>7
<1>12. \E x, y \in S : x # y /\ f[x] = f[y]
  BY <1>7, <1>10, <1>11, FS_PigeonHole
<1> QED
  BY <1>2, <1>3, <1>5, <1>10, <1>12 DEF IsInjective

\* A filter names nothing twice that was not named twice.
LEMMA FilterInjective ==
  ASSUME NEW T, NEW s \in Seq(T), NEW S, IsInjective(s)
  PROVE  IsInjective(Filter(s, S))
<1>1. PICK t \in Seq(T) : t = Filter(s, S)
  BY FilterPicks
<1>2. PICK h : Picks(t, s, S, Len(s), h)
  BY <1>1, FilterPicks
<1>3. DOMAIN t = 1 .. Len(t) /\ DOMAIN s = 1 .. Len(s) /\ Len(t) \in Nat
  OBVIOUS
<1>4. /\ h \in [1 .. Len(t) -> 1 .. Len(s)]
      /\ \A a, b \in 1 .. Len(t) : a < b => h[a] < h[b]
      /\ \A k \in 1 .. Len(t) : t[k] = s[h[k]]
  BY <1>2 DEF Picks
<1>5. ASSUME NEW a \in 1 .. Len(t), NEW b \in 1 .. Len(t), t[a] = t[b] PROVE a = b
  <2>1. h[a] = h[b]
    BY <1>3, <1>4, <1>5 DEF IsInjective
  <2>2. h[a] \in Int /\ h[b] \in Int
    BY <1>4
  <2>3. ~(a < b) /\ ~(b < a)
    BY <1>4, <2>1, <2>2
  <2> QED
    BY <2>3
<1> QED
  BY <1>1, <1>3, <1>5 DEF IsInjective

LEMMA JoinedInjective ==
  ASSUME NEW T, NEW a \in Seq(T), NEW b \in Seq(T), IsInjective(a), IsInjective(b),
         ToSet(a) \cap ToSet(b) = {}
  PROVE  IsInjective(a \o b)
<1>1. PICK c \in Seq(T) : c = a \o b /\ Len(c) = Len(a) + Len(b)
  BY Joined
<1>2. /\ \A i \in 1 .. Len(a) : c[i] = a[i] /\ a[i] \in ToSet(a)
      /\ \A i \in 1 .. Len(b) : c[Len(a) + i] = b[i] /\ b[i] \in ToSet(b)
  BY <1>1, JoinedAt DEF ToSet
<1>3. DOMAIN c = 1 .. Len(a) + Len(b) /\ Len(a) \in Nat /\ Len(b) \in Nat
      /\ DOMAIN a = 1 .. Len(a) /\ DOMAIN b = 1 .. Len(b)
  BY <1>1
<1>4. ASSUME NEW i \in DOMAIN c, i \notin DOMAIN a
      PROVE  i - Len(a) \in DOMAIN b /\ c[i] = b[i - Len(a)] /\ c[i] \in ToSet(b)
  <2>1. i - Len(a) \in 1 .. Len(b) /\ i = Len(a) + (i - Len(a))
    BY <1>3, <1>4
  <2> QED
    BY <1>2, <1>3, <2>1
<1>5. ASSUME NEW i \in DOMAIN c, NEW j \in DOMAIN c, c[i] = c[j] PROVE i = j
  <2>1. CASE i \in DOMAIN a /\ j \in DOMAIN a
    BY <1>2, <1>3, <1>5, <2>1 DEF IsInjective
  <2>2. CASE i \notin DOMAIN a /\ j \notin DOMAIN a
    <3>1. i - Len(a) = j - Len(a)
      BY <1>4, <1>5, <2>2 DEF IsInjective
    <3> QED
      BY <1>3, <3>1
  <2>3. (i \in DOMAIN a) = (j \in DOMAIN a)
    BY <1>2, <1>3, <1>4, <1>5
  <2> QED
    BY <2>1, <2>2, <2>3
<1> QED
  BY <1>1, <1>5 DEF IsInjective

\* The view lists no more sessions than there are.
LEMMA ListIsShort ==
  ASSUME NEW t \in PhoneTiles, NEW r \in SUBSET PhoneSessions
  PROVE  Len(orderMobileSessions(t, r)) <= Len(Phone)
<1>1. t \in Seq(PhoneSessions) /\ Phone \in Seq(PhoneSessions) /\ IsInjective(t) /\ IsInjective(Phone)
  BY MobileViewAssumption
<1>2. PICK first : first = Filter(t, r)
  OBVIOUS
<1>3. PICK rest : rest = Filter(Phone, r \ ToSet(first))
  OBVIOUS
<1>4. first \in Seq(PhoneSessions) /\ IsInjective(first)
  BY <1>1, <1>2, FilterPicks, FilterInjective
<1>5. rest \in Seq(PhoneSessions) /\ IsInjective(rest)
  BY <1>1, <1>3, FilterPicks, FilterInjective
<1>6. ToSet(rest) = ToSet(Phone) \cap (r \ ToSet(first))
  BY <1>1, <1>3, FilterElements
<1>7. IsInjective(first \o rest)
  BY <1>4, <1>5, <1>6, JoinedInjective
<1>8. orderMobileSessions(t, r) = first \o rest
  BY <1>2, <1>3 DEF orderMobileSessions
<1>9. PICK list : list = orderMobileSessions(t, r)
  OBVIOUS
<1>10. list \in Seq(PhoneSessions) /\ ToSet(list) \subseteq ToSet(Phone) /\ IsInjective(list)
  BY <1>7, <1>8, <1>9, ListsRunning DEF PhoneSessions
<1> QED
  BY <1>1, <1>9, <1>10, Shorter

\* A selection stays within its list, or at 1 when that is empty.
Within(sel, list) == sel.index = 1 \/ sel.index <= Len(list)

LEMMA AtWithin ==
  ASSUME NEW list, NEW i, i = 1 \/ i <= Len(list)
  PROVE  Within(At(i, list), list)
BY DEF At, Within

LEMMA ReconciledWithin ==
  ASSUME NEW list \in Seq(PhoneSessions), NEW sel \in Selections
  PROVE  Within(Reconciled(sel, list), list)
<1>1. CASE list = <<>>
  BY <1>1, AtWithin DEF Reconciled
<1>2. CASE list # <<>> /\ sel.key \in ToSet(list)
  <2>1. \E i \in DOMAIN list : list[i] = sel.key
    BY <1>2 DEF ToSet
  <2>2. IndexOf(sel.key, list) \in 1 .. Len(list)
    BY <1>2, <2>1 DEF IndexOf
  <2>3. PICK i : i = IndexOf(sel.key, list)
    OBVIOUS
  <2>4. i <= Len(list)
    BY <2>2, <2>3
  <2>5. Within(At(i, list), list)
    BY <2>4, AtWithin
  <2> QED
    BY <1>2, <2>3, <2>5 DEF Reconciled
<1>3. CASE list # <<>> /\ sel.key \notin ToSet(list)
  <2>1. PICK i : i = sel.index
    OBVIOUS
  <2>2. PICK n : n = Len(list)
    OBVIOUS
  <2>3. i \in Int /\ n \in Int
    <3>1. sel.index \in Nat \ {0}
      BY DEF Selections
    <3> QED
      BY <2>1, <2>2, <3>1
  <2>4. PICK m : m = Min({i, n})
    OBVIOUS
  <2>5. m <= n
    BY <2>3, <2>4, LesserOf
  <2>6. Reconciled(sel, list) = At(m, list)
    BY <1>3, <2>1, <2>2, <2>4 DEF Reconciled
  <2> QED
    BY <2>2, <2>5, <2>6, AtWithin
<1> QED
  BY <1>1, <1>2, <1>3

LEMMA FollowWithin ==
  ASSUME NEW sel \in Selections, NEW awaited, NEW list \in Seq(PhoneSessions),
         Follow(sel, awaited, list)
  PROVE  Within(selection', list)
<1>1. CASE awaited # {} /\ awaited \subseteq ToSet(list)
  <2>1. PICK s : s = CHOOSE u \in awaited : TRUE
    OBVIOUS
  <2>2. \E i \in DOMAIN list : list[i] = s
    BY <1>1, <2>1 DEF ToSet
  <2>3. IndexOf(s, list) \in 1 .. Len(list)
    BY <2>2 DEF IndexOf, ToSet
  <2>4. PICK i : i = IndexOf(s, list)
    OBVIOUS
  <2>5. i <= Len(list)
    BY <2>3, <2>4
  <2>6. Within(At(i, list), list)
    BY <2>5, AtWithin
  <2> QED
    BY <1>1, <2>1, <2>4, <2>6 DEF Follow
<1>2. CASE ~(awaited # {} /\ awaited \subseteq ToSet(list))
  BY <1>2, ReconciledWithin DEF Follow
<1> QED
  BY <1>1, <1>2

Statuses == {"", "Draft not sent.", "Enter was not sent."}
Drafts == [open : BOOLEAN, draft : BOOLEAN, status : Statuses]

\* The invariant of the view's own controls: one DELETE is out while the button is
\* disabled, and none otherwise.
ControlsFit ==
  /\ over \subseteq PhoneSessions /\ Within(selection, Phone)
  /\ creating \subseteq PhoneSessions /\ terminating \subseteq PhoneSessions
  /\ \A s, u \in terminating : s = u
  /\ deleting = (terminating # {})
  /\ fontSize \in FontSizes /\ creatorOpen \in BOOLEAN /\ connected \in BOOLEAN
  /\ compose \in Drafts
  /\ taps \in 0 .. MaxTaps /\ pasted \in 0 .. taps

LEMMA PhoneIs == MaxTaps \in Nat /\ Len(Phone) \in Nat
<1>1. MaxTaps \in Nat /\ Phone \in Seq(PhoneSessions)
  BY Zenon, MobileViewAssumption
<1> QED
  BY <1>1

LEMMA TapIs ==
  ASSUME Tap, taps \in 0 .. MaxTaps, pasted \in 0 .. taps
  PROVE  taps' \in 0 .. MaxTaps /\ pasted \in 0 .. taps' /\ pasted + 1 \in 0 .. taps'
<1>1. taps \in Int /\ pasted \in Int /\ 0 <= pasted /\ pasted <= taps /\ taps < MaxTaps /\ taps' = taps + 1
  BY PhoneIs DEF Tap
<1>2. taps' \in 0 .. MaxTaps
  BY <1>1, PhoneIs
<1>3. pasted \in 0 .. taps + 1 /\ pasted + 1 \in 0 .. taps + 1
  BY <1>1
<1> QED
  BY <1>1, <1>2, <1>3

\* What an effect leaves of the controls.
LEMMA FollowKeeps ==
  ASSUME NEW sel \in Selections, NEW awaited, NEW t \in PhoneTiles, NEW r \in SUBSET PhoneSessions,
         Follow(sel, awaited, orderMobileSessions(t, r)), compose \in Drafts, connected \in BOOLEAN
  PROVE  Within(selection', Phone) /\ compose' \in Drafts /\ connected' \in BOOLEAN
<1>1. PICK list : list = orderMobileSessions(t, r)
  OBVIOUS
<1>2. list \in Seq(PhoneSessions) /\ Len(list) <= Len(Phone)
  BY <1>1, ListsRunning, ListIsShort
<1>3. Within(selection', list)
  BY <1>1, <1>2, FollowWithin
<1>4. PICK i : i = selection'.index
  OBVIOUS
<1>5. selection' \in Selections
  <2>1. CASE awaited # {} /\ awaited \subseteq ToSet(list)
    <3>1. PICK s : s = CHOOSE u \in awaited : TRUE
      OBVIOUS
    <3>2. s \in ToSet(list)
      BY <2>1, <3>1
    <3> QED
      BY <1>1, <1>2, <2>1, <3>1, <3>2, IndexFits DEF Follow
  <2>2. CASE ~(awaited # {} /\ awaited \subseteq ToSet(list))
    BY <1>1, <1>2, <2>2, ReconciledFits DEF Follow
  <2> QED
    BY <2>1, <2>2
<1>6. i \in Nat
  BY <1>4, <1>5 DEF Selections
<1>7. Len(list) \in Nat /\ Len(Phone) \in Nat
  BY <1>2, PhoneIs
<1>8. Within(selection', Phone)
  BY <1>2, <1>3, <1>4, <1>6, <1>7 DEF Within
<1>9. compose' \in Drafts /\ connected' \in BOOLEAN
  <2>1. NoDraft \in Drafts /\ FALSE \in BOOLEAN
    BY DEF NoDraft, Drafts, Statuses
  <2>2. (compose' = compose /\ connected' = connected) \/ (compose' = NoDraft /\ connected' = FALSE)
    BY DEF Follow
  <2> QED
    BY <2>1, <2>2
<1> QED
  BY <1>8, <1>9

LEMMA ControlsKeep ==
  ASSUME MobileInv, ControlsFit, [MobileNext]_mobileVars
  PROVE  ControlsFit'
<1> USE DEF ControlsFit
<1>0. selection \in Selections /\ tiles \in PhoneTiles /\ running \in SUBSET PhoneSessions
  BY DEF MobileInv
<1>1. ASSUME NEW sel \in Selections, Tap, Put(sel) PROVE ControlsFit'
  <2>1. Follow(sel, pending, orderMobileSessions(tiles, running))
    BY <1>1 DEF Put, sessions
  <2>2. Within(selection', Phone) /\ compose' \in Drafts /\ connected' \in BOOLEAN
    BY <1>0, <2>1, FollowKeeps
  <2>3. UNCHANGED <<over, creatorOpen, creating, terminating, deleting, fontSize, pasted>>
    BY <1>1 DEF Put, phone
  <2>4. taps' \in 0 .. MaxTaps /\ pasted' \in 0 .. taps'
    BY <1>1, <2>3, TapIs
  <2> QED
    BY <2>2, <2>3, <2>4
<1>2. ASSUME NEW offset \in Int, sessions # <<>>, Tap, Put(Moved(offset)) PROVE ControlsFit'
  <2>1. sessions \in Seq(PhoneSessions)
    BY <1>0, SessionsFit
  <2>2. Moved(offset) \in Selections
    BY <1>0, <1>2, <2>1, MovedFits
  <2> QED
    BY <1>1, <1>2, <2>2
<1>3. ASSUME NEW dx \in {-60, -48, 0, 60}, NEW dy \in {-60, -48, 0, 60}, Swipe(dx, dy) PROVE ControlsFit'
  BY <1>2, <1>3 DEF Swipe
<1>4. ASSUME NEW offset \in {-Len(sessions), -1, 1, Len(sessions)}, SliderKey(offset) PROVE ControlsFit'
  <2>1. sessions \in Seq(PhoneSessions)
    BY <1>0, SessionsFit
  <2>2. offset \in Int
    BY <2>1
  <2> QED
    BY <1>2, <1>4, <2>2 DEF SliderKey
<1>5. ASSUME NEW opens \in BOOLEAN, SetCreator(opens) \/ Connect(opens) PROVE ControlsFit'
  <2>1. Tap /\ UNCHANGED pasted
    BY <1>5 DEF SetCreator, Connect
  <2>2. taps' \in 0 .. MaxTaps /\ pasted' \in 0 .. taps'
    BY <2>1, TapIs
  <2> QED
    BY <1>5, <2>2 DEF SetCreator, Connect, phone
<1>6. ASSUME NEW s \in PhoneSessions, Create(s) PROVE ControlsFit'
  <2>1. taps' \in 0 .. MaxTaps /\ pasted' \in 0 .. taps'
    BY <1>6, TapIs DEF Create
  <2> QED
    BY <1>6, <2>1 DEF Create, phone
<1>7. ASSUME NEW s \in PhoneSessions, Created(s) PROVE ControlsFit'
  <2>1. Follow(selection, {s}, orderMobileSessions(tiles, running))
    BY <1>7 DEF Created, sessions
  <2>2. Within(selection', Phone) /\ compose' \in Drafts /\ connected' \in BOOLEAN
    BY <1>0, <2>1, FollowKeeps
  <2>3. UNCHANGED <<over, terminating, deleting, fontSize, pasted>> /\ creatorOpen' = FALSE
        /\ creating' = creating \ {s}
    BY <1>7 DEF Created, phone
  <2>4. taps' \in 0 .. MaxTaps /\ pasted' \in 0 .. taps'
    BY <1>7, <2>3, TapIs DEF Created
  <2> QED
    BY <2>2, <2>3, <2>4
<1>8. ASSUME NEW s \in PhoneSessions, CreateFails(s) \/ Terminated(s) PROVE ControlsFit'
  <2>1. taps' \in 0 .. MaxTaps /\ pasted' \in 0 .. taps'
    BY <1>8, TapIs DEF CreateFails, Terminated
  <2> QED
    BY <1>8, <2>1 DEF CreateFails, Terminated, phone
<1>9. ASSUME terminateSelected PROVE ControlsFit'
  <2>1. taps' \in 0 .. MaxTaps /\ pasted' \in 0 .. taps'
    BY <1>9, TapIs DEF terminateSelected
  <2>2. OnPhone \in PhoneSessions
    BY <1>0, <1>9 DEF MobileInv, terminateSelected
  <2> QED
    BY <1>9, <2>1, <2>2 DEF terminateSelected, phone
<1>10. ASSUME NEW c \in Drafts, Tap, Draft(c), pasted' \in {pasted, pasted + 1} PROVE ControlsFit'
  <2>1. taps' \in 0 .. MaxTaps /\ pasted' \in 0 .. taps'
    BY <1>10, TapIs
  <2> QED
    BY <1>10, <2>1 DEF Draft, phone
<1>11. ASSUME ToggleCompose \/ TypeDraft PROVE ControlsFit'
  <2>1. [compose EXCEPT !.open = ~@, !.status = ""] \in Drafts
        /\ [compose EXCEPT !.draft = TRUE, !.status = ""] \in Drafts
    BY DEF Drafts, Statuses
  <2> QED
    BY <1>10, <1>11, <2>1 DEF ToggleCompose, TypeDraft
<1>12. ASSUME NEW size \in FontSizes, changeFontSize(size) PROVE ControlsFit'
  <2>1. taps' \in 0 .. MaxTaps /\ pasted' \in 0 .. taps'
    BY <1>12, TapIs DEF changeFontSize
  <2> QED
    BY <1>12, <2>1 DEF changeFontSize, phone
<1>13. ASSUME NEW t \in PhoneTiles, NEW r \in SUBSET PhoneSessions, ListsLand(t, r) PROVE ControlsFit'
  <2>1. Follow(selection, pending, orderMobileSessions(t, r))
    BY <1>13 DEF ListsLand
  <2>2. Within(selection', Phone) /\ compose' \in Drafts /\ connected' \in BOOLEAN
    BY <1>0, <2>1, FollowKeeps
  <2>3. /\ UNCHANGED <<creatorOpen, creating, terminating, deleting, fontSize, pasted>>
        /\ over' = over \cup (running \ r)
    BY <1>13 DEF ListsLand
  <2>4. taps' \in 0 .. MaxTaps /\ pasted' \in 0 .. taps'
    BY <1>13, <2>3, TapIs DEF ListsLand
  <2> QED
    BY <1>0, <2>2, <2>3, <2>4
<1>14. ASSUME NEW a \in BOOLEAN, NEW b \in BOOLEAN, Insert(a, b) PROVE ControlsFit'
  <2>1. /\ [compose EXCEPT !.status = "Draft not sent."] \in Drafts
        /\ [compose EXCEPT !.draft = FALSE, !.status = "Enter was not sent."] \in Drafts
        /\ [compose EXCEPT !.draft = FALSE, !.open = FALSE, !.status = ""] \in Drafts
    BY DEF Drafts, Statuses
  <2> QED
    BY <1>10, <1>14, <2>1 DEF Insert
<1>15. UNCHANGED mobileVars => ControlsFit'
  BY DEF mobileVars, phone
<1> HIDE DEF ControlsFit
<1> QED
  BY <1>3, <1>4, <1>5, <1>6, <1>7, <1>8, <1>9, <1>11, <1>12, <1>13, <1>14, <1>15 DEF MobileNext

LEMMA ControlsStart == MobileInit => ControlsFit
<1> SUFFICES ASSUME MobileInit PROVE ControlsFit
  OBVIOUS
<1>1. Within(selection, Phone)
  BY DEF MobileInit, Within, At
<1>2. compose \in Drafts
  BY DEF MobileInit, Drafts, Statuses, NoDraft
<1>3. taps \in 0 .. MaxTaps /\ pasted \in 0 .. taps
  BY PhoneIs DEF MobileInit
<1> QED
  BY <1>1, <1>2, <1>3 DEF MobileInit, ControlsFit

LEMMA OneOrNone ==
  ASSUME NEW S, \A s, u \in S : s = u
  PROVE  Cardinality(S) <= 1
<1>1. CASE S = {}
  BY <1>1, FS_EmptySet
<1>2. CASE S # {}
  <2>1. PICK s : s \in S
    BY <1>2
  <2>2. S = {s}
    BY <2>1
  <2>3. Cardinality({s}) = 1
    BY FS_Singleton
  <2> QED
    BY <2>2, <2>3
<1> QED
  BY <1>1, <1>2

\* The view has the shape its type invariant says: the index is one of the list, one
\* created session at most waits to be listed, and the button is disabled exactly while
\* a DELETE is out (MobileSessionView.tsx).
THEOREM MobileTypeCorrect == MobileSpec => []MobileTypeOK
<1>1. MobileInv /\ ControlsFit => MobileTypeOK
  <2> SUFFICES ASSUME MobileInv, ControlsFit PROVE MobileTypeOK
    OBVIOUS
  <2>1. pending \subseteq PhoneSessions \ running /\ Cardinality(pending) <= 1
    BY OneOrNone DEF MobileInv
  <2>2. PICK n : n = Len(Phone)
    OBVIOUS
  <2>3. n \in Int
    BY <2>2, PhoneIs
  <2>4. PICK one : one = 1
    OBVIOUS
  <2>5. PICK m : m = Max({one, n})
    OBVIOUS
  <2>6. m \in Int /\ one <= m /\ n <= m
    <3>1. one \in Int
      BY <2>4
    <3> QED
      BY ONLY <2>3, <2>5, <3>1, GreaterOf
  <2>7. PICK i : i = selection.index
    OBVIOUS
  <2>8. PICK k : k = selection.key
    OBVIOUS
  <2>9. /\ selection = [key |-> k, index |-> i] /\ k \in PhoneSessions \cup {""}
        /\ i \in Nat \ {0}
    BY <2>7, <2>8 DEF MobileInv, Selections
  <2>10. i = 1 \/ i <= n
    BY <2>2, <2>7 DEF ControlsFit, Within
  <2>11. i \in 1 .. m
    <3>0. i \in Nat \ {0}
      BY Zenon, <2>9
    <3>1. i \in Int /\ i >= 1
      BY ONLY <3>0
    <3> QED
      BY ONLY <2>3, <2>4, <2>6, <2>10, <3>1
  <2>12. PICK I : I = 1 .. m
    OBVIOUS
  <2>13. selection \in [key : PhoneSessions \cup {""}, index : I]
    BY <2>9, <2>11, <2>12
  <2>14. taps \in 0 .. MaxTaps /\ pasted \in 0 .. MaxTaps
    BY PhoneIs DEF ControlsFit
  <2>15. I = 1 .. Max({1, Len(Phone)})
    BY <2>2, <2>4, <2>5, <2>12
  <2> QED
    BY <2>1, <2>13, <2>14, <2>15 DEF MobileTypeOK, MobileInv, ControlsFit, Drafts, Statuses
<1> QED
  BY <1>1, MobileStarts, MobileSteps, ControlsStart, ControlsKeep, PTL DEF MobileSpec

-----------------------------------------------------------------------------
(* Grid *)

Cell == Session \cup {NoTile}

\* The first k tiles of a list are sessions, and the others empty.
Packed(t, k) ==
  /\ t \in Seq(Cell) /\ k \in Nat /\ k <= Len(t)
  /\ \A i \in 1 .. Len(t) : t[i] \in Session <=> i <= k

\* The cells a grid of so many columns has for so many tiles.
Cells(k, cols) == Most(k, Most(1, (k + cols - 1) \div cols) * cols)

LayoutFits(l) ==
  /\ l.cols \in 1 .. MAX_COLS
  /\ \E k \in Nat : Packed(l.tiles, k) /\ Len(l.tiles) = Cells(k, l.cols)

Padded(o, m) == o \o [i \in 1 .. m |-> NoTile]

LEMMA NoTileIs == NoTile \notin Session
BY GridAssumption

LEMMA OccupiedIs ==
  ASSUME NEW t \in Seq(Cell)
  PROVE  /\ Occupied(t) = Filter(t, ToSet(t) \ {NoTile}) /\ Occupied(t) \in Seq(Cell)
         /\ ToSet(Occupied(t)) = ToSet(t) \ {NoTile}
         /\ Len(Occupied(t)) \in Nat /\ \A i \in 1 .. Len(Occupied(t)) : Occupied(t)[i] \in Session
         /\ ToSet(t) \subseteq Cell /\ \A i \in 1 .. Len(t) : t[i] \in ToSet(t) /\ t[i] \in Cell
<1>1. PICK S : S = ToSet(t) \ {NoTile}
  OBVIOUS
<1>2. PICK o : o = Occupied(t)
  OBVIOUS
<1>3. o = Filter(t, S)
  BY <1>1, <1>2 DEF Occupied
<1>4. o \in Seq(Cell)
  BY <1>3, FilterPicks
<1>5. ToSet(o) = ToSet(t) \cap S
  BY <1>3, FilterElements
<1>6. ToSet(t) \subseteq Cell /\ \A i \in 1 .. Len(t) : t[i] \in ToSet(t) /\ t[i] \in Cell
  <2>1. DOMAIN t = 1 .. Len(t) /\ \A i \in 1 .. Len(t) : t[i] \in Cell
    OBVIOUS
  <2> QED
    BY <2>1 DEF ToSet
<1>7. \A i \in 1 .. Len(o) : o[i] \in ToSet(o)
  <2>1. DOMAIN o = 1 .. Len(o)
    BY <1>4
  <2> QED
    BY <2>1 DEF ToSet
<1>8. \A i \in 1 .. Len(o) : o[i] \in Session
  BY <1>1, <1>5, <1>6, <1>7 DEF Cell
<1>9. ToSet(o) = ToSet(t) \ {NoTile}
  BY <1>1, <1>5
<1>10. Len(o) \in Nat
  BY <1>4
<1> QED
  BY <1>1, <1>2, <1>3, <1>4, <1>6, <1>8, <1>9, <1>10

\* Of a packed list the filter for sessions leaves the first tiles.
LEMMA OccupiedPrefix ==
  ASSUME NEW t, NEW k, Packed(t, k)
  PROVE  Len(Occupied(t)) = k /\ \A i \in 1 .. k : Occupied(t)[i] = t[i]
<1>1. PICK S : S = ToSet(t) \ {NoTile}
  OBVIOUS
<1>2. t \in Seq(Cell) /\ k \in Nat /\ k <= Len(t) /\ \A i \in 1 .. Len(t) : t[i] \in Session <=> i <= k
  BY DEF Packed
<1>3. Occupied(t) = Filter(t, S)
  BY <1>1 DEF Occupied
<1>4. \A i \in 1 .. Len(t) : t[i] \in ToSet(t) /\ t[i] \in Cell
  BY <1>2, OccupiedIs
<1>5. \A i \in 1 .. Len(t) : t[i] \in S <=> i <= k
  BY <1>1, <1>2, <1>4, NoTileIs DEF Cell
<1> QED
  BY <1>2, <1>3, <1>5, FilterPrefix

LEMMA Beyond ==
  ASSUME NEW k \in Nat, NEW n \in Nat, NEW i \in 1 .. k + n, i > k
  PROVE  \E j \in 1 .. n : i = k + j
OBVIOUS

LEMMA PaddedIs ==
  ASSUME NEW o \in Seq(Cell), NEW k \in Nat, k = Len(o), NEW m \in Int,
         NEW t, t = Padded(o, m)
  PROVE  /\ t \in Seq(Cell) /\ Len(t) = Most(k, k + m)
         /\ \A i \in 1 .. k : t[i] = o[i]
         /\ \A i \in 1 .. Len(t) : i > k => t[i] = NoTile
<1>1. PICK n \in Nat : n = Most(0, m) /\ 1 .. m = 1 .. n
  <2>1. Most(0, m) \in Nat /\ 1 .. m = 1 .. Most(0, m)
    BY DEF Most
  <2> QED
    BY <2>1
<1>2. PICK e : e = [i \in 1 .. n |-> NoTile]
  OBVIOUS
<1>3. e \in Seq(Cell) /\ Len(e) = n /\ \A i \in 1 .. n : e[i] = NoTile
  BY <1>2 DEF Cell
<1>4. t = o \o e
  BY <1>1, <1>2 DEF Padded
<1>5. t \in Seq(Cell) /\ Len(t) = k + n
  BY <1>3, <1>4, Joined
<1>6. \A i \in 1 .. Len(o) : (o \o e)[i] = o[i]
  BY <1>3, JoinedAt
<1>7. \A i \in 1 .. Len(e) : (o \o e)[Len(o) + i] = e[i]
  BY <1>3, JoinedAt
<1>8. \A i \in 1 .. k : t[i] = o[i]
  BY <1>4, <1>6
<1>9. \A i \in 1 .. n : t[k + i] = NoTile
  BY <1>3, <1>4, <1>7
<1>10. Len(t) = Most(k, k + m)
  <2>1. n = IF 0 < m THEN m ELSE 0
    BY <1>1 DEF Most
  <2>2. Most(k, k + m) = IF k < k + m THEN k + m ELSE k
    BY DEF Most
  <2>3. k + n = Most(k, k + m)
    BY <2>1, <2>2
  <2> QED
    BY <1>5, <2>3
<1>11. ASSUME NEW i \in 1 .. Len(t), i > k PROVE t[i] = NoTile
  <2>1. i \in 1 .. k + n
    BY <1>5
  <2>2. PICK j \in 1 .. n : i = k + j
    BY <1>11, <2>1, Beyond
  <2> QED
    BY <1>9, <2>2
<1> QED
  BY <1>5, <1>8, <1>10, <1>11

\* What normalize makes of any tiles: the sessions first, in their order.
LEMMA NormalizeTiles ==
  ASSUME NEW t \in Seq(Cell), NEW n \in Int, NEW rs, NEW cs, NEW l, l = normalize(t, n, rs, cs)
  PROVE  /\ LayoutFits(l) /\ l.cols = clampCols(n) /\ Placed(l) = ToSet(t) \ {NoTile}
         /\ Packed(l.tiles, Len(Occupied(t))) /\ Len(l.tiles) = Cells(Len(Occupied(t)), l.cols)
         /\ \A i \in 1 .. Len(Occupied(t)) : l.tiles[i] = Occupied(t)[i]
<1>1. PICK o : o = Occupied(t)
  OBVIOUS
<1>2. PICK k \in Nat : k = Len(o)
  BY <1>1, OccupiedIs
<1>3. o \in Seq(Cell) /\ ToSet(o) = ToSet(t) \ {NoTile} /\ \A i \in 1 .. k : o[i] \in Session
  BY <1>1, <1>2, OccupiedIs
<1>4. PICK c : c = clampCols(n)
  OBVIOUS
<1>5. c \in 1 .. MAX_COLS
  BY <1>4, LayoutAssumption DEF clampCols, Least, Most
<1>6. PICK rows : rows = Most(1, (k + c - 1) \div c)
  OBVIOUS
<1>7. rows \in Int /\ c \in Int
  BY <1>5, <1>6, LayoutAssumption DEF Most
<1>8. PICK m \in Int : m = rows * c - k
  BY <1>7
<1>9. l.cols = c /\ l.tiles = Padded(o, m)
  BY <1>1, <1>2, <1>4, <1>6, <1>8 DEF normalize, Padded
<1>10. PICK u : u = l.tiles
  OBVIOUS
<1>18. u = Padded(o, m)
  BY <1>9, <1>10
<1>11. /\ u \in Seq(Cell) /\ Len(u) = Most(k, k + m)
       /\ \A i \in 1 .. k : u[i] = o[i]
       /\ \A i \in 1 .. Len(u) : i > k => u[i] = NoTile
  <2>1. o \in Seq(Cell)
    BY <1>3
  <2>2. k = Len(o) /\ u = Padded(o, m)
    BY <1>2, <1>18
  <2>3. u \in Seq(Cell)
    BY ONLY <2>1, <2>2, PaddedIs, k \in Nat, m \in Int
  <2>4. Len(u) = Most(k, k + m)
    BY ONLY <2>1, <2>2, PaddedIs, k \in Nat, m \in Int
  <2>5. \A i \in 1 .. k : u[i] = o[i]
    BY ONLY <2>1, <2>2, PaddedIs, k \in Nat, m \in Int
  <2>6. \A i \in 1 .. Len(u) : i > k => u[i] = NoTile
    BY ONLY <2>1, <2>2, PaddedIs, k \in Nat, m \in Int
  <2> QED
    BY <2>3, <2>4, <2>5, <2>6
<1>12. PICK rc \in Int : rc = rows * c
  BY <1>7
<1>13. Len(u) = Cells(k, c)
  BY <1>6, <1>8, <1>11, <1>12 DEF Cells, Most
<1>14. Packed(u, k)
  <2>1. k <= Len(u) /\ Len(u) \in Nat
    BY <1>8, <1>11 DEF Most
  <2>2. \A i \in 1 .. Len(u) : u[i] \in Session <=> i <= k
    BY <1>2, <1>3, <1>11, <2>1, NoTileIs
  <2> QED
    BY <1>11, <2>1, <2>2 DEF Packed
<1>15. LayoutFits(l)
  BY <1>5, <1>9, <1>10, <1>13, <1>14 DEF LayoutFits
<1>16. Placed(l) = ToSet(t) \ {NoTile}
  <2>1. Placed(l) = ToSet(u) \ {NoTile}
    BY <1>10, <1>11, OccupiedIs DEF Placed
  <2>2. DOMAIN u = 1 .. Len(u) /\ DOMAIN o = 1 .. k /\ k <= Len(u)
    BY <1>2, <1>3, <1>11, <1>14 DEF Packed
  <2>3. ASSUME NEW x \in ToSet(u), x # NoTile PROVE x \in ToSet(o)
    <3>1. PICK i \in 1 .. Len(u) : x = u[i]
      BY <2>2 DEF ToSet
    <3>2. i \in 1 .. k
      BY <1>11, <2>2, <2>3, <3>1
    <3> QED
      BY <1>11, <2>2, <3>1, <3>2 DEF ToSet
  <2>4. ASSUME NEW x \in ToSet(o) PROVE x \in ToSet(u)
    <3>1. PICK i \in 1 .. k : x = o[i]
      BY <2>2 DEF ToSet
    <3>2. i \in 1 .. Len(u) /\ u[i] = x
      BY <1>11, <2>2, <3>1
    <3> QED
      BY <2>2, <3>2 DEF ToSet
  <2> QED
    BY <1>3, <2>1, <2>3, <2>4
<1> QED
  BY <1>1, <1>2, <1>4, <1>9, <1>10, <1>11, <1>13, <1>14, <1>15, <1>16

LEMMA LayoutFitsIs ==
  ASSUME NEW l, LayoutFits(l)
  PROVE  /\ l.tiles \in Seq(Cell) /\ l.cols \in 1 .. MAX_COLS /\ l.cols \in Int /\ Placed(l) = ToSet(l.tiles) \ {NoTile}
         /\ Packed(l.tiles, Count(l.tiles)) /\ Len(l.tiles) = Cells(Count(l.tiles), l.cols)
<1>1. PICK k \in Nat : Packed(l.tiles, k) /\ Len(l.tiles) = Cells(k, l.cols)
  BY DEF LayoutFits
<1>2. Count(l.tiles) = k /\ l.tiles \in Seq(Cell)
  BY <1>1, OccupiedPrefix DEF Count, Packed
<1>3. l.cols \in 1 .. MAX_COLS /\ l.cols \in Int
  BY LayoutAssumption DEF LayoutFits
<1> QED
  BY <1>1, <1>2, <1>3, OccupiedIs DEF Placed

LEMMA FirstFits ==
  ASSUME NEW l, WellFormed(l), l.tiles \in Seq(Cell)
  PROVE  LayoutFits(l)
<1>1. PICK t : t = l.tiles
  OBVIOUS
<1>2. PICK k \in Nat : k = Count(t)
  BY <1>1, OccupiedIs DEF Count
<1>3. t \in Seq(Cell) /\ Len(t) \in Nat /\ DOMAIN t = 1 .. Len(t)
  BY <1>1
<1>4. /\ l.cols \in 1 .. MAX_COLS
      /\ Len(t) = Most(1, (k + l.cols - 1) \div l.cols) * l.cols
      /\ \A i \in 1 .. Len(t) : t[i] # NoTile <=> i <= k
  BY <1>1, <1>2, <1>3 DEF WellFormed
<1>5. \A i \in 1 .. Len(t) : t[i] \in Session <=> i <= k
  <2>1. \A i \in 1 .. Len(t) : t[i] \in Cell
    BY <1>3
  <2> QED
    BY <1>4, <2>1, NoTileIs DEF Cell
<1>6. k <= Len(t)
  <2> SUFFICES ASSUME k > Len(t) PROVE FALSE
    BY <1>3
  <2>1. \A i \in 1 .. Len(t) : t[i] \in Session <=> i <= Len(t)
    BY <1>3, <1>5
  <2>2. Packed(t, Len(t))
    BY <1>3, <2>1 DEF Packed
  <2>3. Count(t) = Len(t)
    BY <2>2, OccupiedPrefix DEF Count
  <2> QED
    BY <1>2, <1>3, <2>3
<1>7. Packed(t, k)
  BY <1>3, <1>5, <1>6 DEF Packed
<1>8. Len(t) = Cells(k, l.cols)
  <2>1. Most(k, Len(t)) = Len(t)
    <3>1. PICK n \in Nat : n = Len(t)
      BY <1>3
    <3>2. k <= n
      BY <1>6, <3>1
    <3> QED
      BY <3>1, <3>2 DEF Most
  <2> QED
    BY <1>4, <2>1 DEF Cells
<1> QED
  BY <1>1, <1>4, <1>7, <1>8 DEF LayoutFits

\* The stored indices of the tiles that show, in rising order.
LEMMA AscendingIs ==
  ASSUME NEW n \in Nat, NEW P \in SUBSET (1 .. n), NEW map, map = Ascending(P)
  PROVE  /\ map \in Seq(Nat) /\ ToSet(map) = P
         /\ P = 1 .. n => Len(map) = n
<1>1. PICK Q : Q = P \cup {0}
  OBVIOUS
<1>12. Q \in SUBSET Nat
  BY <1>1
<1>2. PICK m : m = Max(Q)
  OBVIOUS
<1>3. m \in Q /\ \A x \in Q : x <= m
  BY <1>1, <1>2, <1>12, \A x \in Q : x <= n, GreatestOf
<1>4. m \in 0 .. n
  BY <1>1, <1>3
<1>5. PICK q : q = [i \in 1 .. m |-> i]
  OBVIOUS
<1>6. q \in Seq(Nat) /\ Len(q) = m /\ DOMAIN q = 1 .. m /\ \A i \in 1 .. m : q[i] = i
  BY <1>4, <1>5
<1>7. map = Filter(q, P)
  BY <1>1, <1>2, <1>5 DEF Ascending
<1>8. ToSet(q) = 1 .. m
  BY <1>6 DEF ToSet
<1>9. map \in Seq(Nat)
  BY <1>6, <1>7, FilterPicks
<1>10. ToSet(map) = P
  <2>1. P \subseteq 1 .. m
    BY <1>1, <1>3, <1>4
  <2>2. ToSet(map) = ToSet(q) \cap P
    BY <1>6, <1>7, FilterElements
  <2> QED
    BY <1>8, <2>1, <2>2
<1>11. ASSUME P = 1 .. n PROVE Len(map) = n
  <2>1. m = n
    BY <1>1, <1>3, <1>4, <1>11
  <2>2. \A i \in 1 .. Len(q) : q[i] \in P <=> i <= n
    BY <1>6, <1>11, <2>1
  <2> QED
    BY <1>6, <1>7, <2>1, <2>2, FilterPrefix
<1> QED
  BY <1>9, <1>10, <1>11

\* What a filter leaves on screen: each tile on screen stands for a stored one.
Filtered(f, l, shows, m, P) ==
  /\ f.map = Ascending(P) /\ f.map \in Seq(Nat) /\ m \in Nat /\ ToSet(f.map) = P
  /\ f.view.cols = l.cols /\ Packed(f.view.tiles, m) /\ Len(f.view.tiles) = Cells(m, l.cols)
  /\ \A j \in 1 .. m : /\ f.map[j] \in DOMAIN l.tiles /\ l.tiles[f.map[j]] \in shows
                      /\ f.view.tiles[j] = l.tiles[f.map[j]]

LEMMA FilteredTiles ==
  ASSUME NEW l, LayoutFits(l), NEW shows \in SUBSET Session, NEW f, f = filterLayout(l, shows),
         NEW m, m = Len(f.map), NEW P, P = {i \in DOMAIN l.tiles : l.tiles[i] \in shows}
  PROVE  Filtered(f, l, shows, m, P)
<1>1. PICK t : t = l.tiles
  OBVIOUS
<1>2. t \in Seq(Cell) /\ Len(t) \in Nat /\ DOMAIN t = 1 .. Len(t) /\ l.cols \in 1 .. MAX_COLS
      /\ l.cols \in Int
  BY <1>1, LayoutFitsIs
<1>3. P = {i \in DOMAIN t : t[i] \in shows}
  BY <1>1
<1>4. P \in SUBSET (1 .. Len(t)) /\ \A i \in P : t[i] \in shows
  BY <1>2, <1>3
<1>5. PICK map : map = Ascending(P)
  OBVIOUS
<1>6. map \in Seq(Nat) /\ ToSet(map) = P
  BY <1>2, <1>4, <1>5, AscendingIs
<1>9. PICK u : u = [i \in DOMAIN map |-> t[map[i]]]
  OBVIOUS
<1>13. f.map = map /\ f.view = normalize(u, l.cols, l.rowSizes, l.colSizes)
  BY <1>1, <1>3, <1>5, <1>9 DEF filterLayout, Repacked
<1>7. m \in Nat /\ m = Len(map)
  BY <1>6, <1>13
<1>8. DOMAIN map = 1 .. m /\ \A j \in 1 .. m : map[j] \in P
  <2>1. DOMAIN map = 1 .. m
    BY <1>6, <1>7
  <2> QED
    BY <1>6, <2>1 DEF ToSet
<1>10. u \in Seq(Cell) /\ Len(u) = m /\ \A i \in 1 .. m : u[i] \in Session /\ u[i] = t[map[i]]
  <2>1. \A i \in 1 .. m : t[map[i]] \in Session
    BY <1>4, <1>8
  <2>2. u \in [1 .. m -> Session] /\ \A i \in 1 .. m : u[i] = t[map[i]]
    BY <1>8, <1>9, <2>1
  <2>3. u \in Seq(Session) /\ Len(u) = m
    BY <1>7, <2>2
  <2> QED
    BY <2>2, <2>3 DEF Cell
<1>11. Packed(u, m)
  BY <1>7, <1>10 DEF Packed
<1>12. Len(Occupied(u)) = m /\ \A i \in 1 .. m : Occupied(u)[i] = u[i]
  BY <1>11, OccupiedPrefix
<1>14. PICK v : v = f.view
  OBVIOUS
<1>15. v.cols = clampCols(l.cols) /\ Packed(v.tiles, m) /\ Len(v.tiles) = Cells(m, v.cols)
       /\ \A i \in 1 .. m : v.tiles[i] = u[i]
  <2>1. v = normalize(u, l.cols, l.rowSizes, l.colSizes)
    BY <1>13, <1>14
  <2>2. PICK k : k = Len(Occupied(u))
    OBVIOUS
  <2>3. /\ v.cols = clampCols(l.cols) /\ Packed(v.tiles, k) /\ Len(v.tiles) = Cells(k, v.cols)
        /\ \A i \in 1 .. k : v.tiles[i] = Occupied(u)[i]
    BY <1>2, <1>10, <2>1, <2>2, NormalizeTiles
  <2> QED
    BY <1>12, <2>2, <2>3
<1>16. v.cols = l.cols
  BY <1>2, <1>15, LayoutAssumption DEF clampCols, Least, Most
<1>17. \A j \in 1 .. m : map[j] \in DOMAIN t /\ t[map[j]] \in shows /\ v.tiles[j] = t[map[j]]
  BY <1>2, <1>4, <1>8, <1>10, <1>15
<1> QED
  BY <1>1, <1>3, <1>5, <1>6, <1>7, <1>13, <1>14, <1>15, <1>16, <1>17 DEF Filtered

LEMMA FilteredView ==
  ASSUME NEW l, LayoutFits(l), NEW shows \in SUBSET Session, NEW f, f = filterLayout(l, shows)
  PROVE  /\ f.map \in Seq(Nat)
         /\ ToSet(f.map) = {i \in DOMAIN l.tiles : l.tiles[i] \in shows}
         /\ f.view.tiles \in Seq(Cell) /\ f.view.cols \in 1 .. MAX_COLS
         /\ Count(f.view.tiles) = Len(f.map)
         /\ shows = Session => Len(f.view.tiles) = Len(l.tiles)
<1>1. PICK m : m = Len(f.map)
  OBVIOUS
<1>2. PICK P : P = {i \in DOMAIN l.tiles : l.tiles[i] \in shows}
  OBVIOUS
<1>3. PICK v : v = f.view.tiles
  OBVIOUS
<1>9. Filtered(f, l, shows, m, P)
  BY <1>1, <1>2, FilteredTiles
<1>4. f.map = Ascending(P) /\ f.map \in Seq(Nat) /\ ToSet(f.map) = P /\ f.view.cols = l.cols
  BY <1>9 DEF Filtered
<1>5. Packed(v, m) /\ Len(v) = Cells(m, l.cols)
  BY <1>3, <1>9 DEF Filtered
<1>6. v \in Seq(Cell) /\ Count(v) = m
  BY <1>5, OccupiedPrefix DEF Packed, Count
<1>7. l.cols \in 1 .. MAX_COLS /\ l.tiles \in Seq(Cell)
  BY LayoutFitsIs
<1>8. ASSUME shows = Session PROVE Len(v) = Len(l.tiles)
  <2>1. PICK k \in Nat : Packed(l.tiles, k) /\ Len(l.tiles) = Cells(k, l.cols)
    BY DEF LayoutFits
  <2>2. P = 1 .. k
    BY <1>2, <1>7, <1>8, <2>1 DEF Packed
  <2>3. m = k
    BY <1>1, <1>4, <2>1, <2>2, AscendingIs
  <2> QED
    BY <1>5, <2>1, <2>3
<1> QED
  BY <1>1, <1>2, <1>3, <1>4, <1>6, <1>7, <1>8

\* What a repacking of other tiles keeps, and what it lets go.
LEMMA RepackedIs ==
  ASSUME NEW l, LayoutFits(l), NEW t \in Seq(Cell), NEW n \in Int, NEW rs, NEW cs, NEW D,
         \A x \in ToSet(l.tiles) : x \in ToSet(t) \/ x \in D,
         NEW u, u = normalize(t, n, rs, cs)
  PROVE  LayoutFits(u) /\ Placed(l) \ Placed(u) \subseteq D
<1>1. Placed(l) = ToSet(l.tiles) \ {NoTile}
  BY LayoutFitsIs
<1>2. LayoutFits(u) /\ Placed(u) = ToSet(t) \ {NoTile}
  BY NormalizeTiles
<1> QED
  BY <1>1, <1>2

LEMMA CountIs ==
  ASSUME NEW t \in Seq(Cell)
  PROVE  Count(t) \in Nat
BY OccupiedIs DEF Count

LEMMA RemovedIs ==
  ASSUME NEW l, LayoutFits(l), NEW D, NEW t, DOMAIN t = DOMAIN l.tiles, t \in Seq(Cell),
         \A j \in DOMAIN l.tiles : t[j] = l.tiles[j] \/ l.tiles[j] \in D,
         NEW u, u = packAfterRemoval(l, t)
  PROVE  LayoutFits(u) /\ Placed(l) \ Placed(u) \subseteq D
<1>1. \A x \in ToSet(l.tiles) : x \in ToSet(t) \/ x \in D
  BY DEF ToSet
<1>2. PICK n : n = Least(l.cols, Most(1, Count(t)))
  OBVIOUS
<1>3. n \in Int
  <2>1. PICK k \in Nat : k = Count(t)
    BY CountIs
  <2>2. l.cols \in Int
    BY LayoutFitsIs
  <2> QED
    BY <1>2, <2>1, <2>2 DEF Least, Most
<1>4. u = normalize(t, n, l.rowSizes, l.colSizes)
  BY <1>2 DEF packAfterRemoval, Repacked
<1> QED
  BY <1>1, <1>3, <1>4, RepackedIs

LEMMA RemovedByIndex ==
  ASSUME NEW l, LayoutFits(l), NEW i, NEW u, u = removeTile(l, i)
  PROVE  LayoutFits(u) /\ Placed(l) \ Placed(u) \subseteq {l.tiles[i]}
<1>1. PICK t : t = [j \in DOMAIN l.tiles |-> IF j = i THEN NoTile ELSE l.tiles[j]]
  OBVIOUS
<1>2. l.tiles \in Seq(Cell)
  BY LayoutFitsIs
<1>3. PICK s \in Seq(Cell) : s = l.tiles
  BY <1>2
<1>4. t \in Seq(Cell) /\ DOMAIN t = DOMAIN s
  <2>1. DOMAIN s = 1 .. Len(s) /\ Len(s) \in Nat /\ \A j \in 1 .. Len(s) : s[j] \in Cell
    OBVIOUS
  <2>2. t \in [1 .. Len(s) -> Cell]
    BY <1>1, <1>3, <2>1 DEF Cell
  <2> QED
    BY <2>1, <2>2
<1>5. \A j \in DOMAIN l.tiles : t[j] = l.tiles[j] \/ l.tiles[j] \in {l.tiles[i]}
  BY <1>1
<1>6. u = packAfterRemoval(l, t)
  BY <1>1 DEF removeTile
<1> QED
  BY <1>3, <1>4, <1>5, <1>6, RemovedIs

LEMMA RemovedByName ==
  ASSUME NEW l, LayoutFits(l), NEW D, NEW u, u = removeTilesWhere(l, D)
  PROVE  LayoutFits(u) /\ Placed(l) \ Placed(u) \subseteq D
<1>1. CASE D \cap Placed(l) = {}
  BY <1>1 DEF removeTilesWhere
<1>2. CASE D \cap Placed(l) # {}
  <2>1. PICK t : t = [j \in DOMAIN l.tiles |-> IF l.tiles[j] \in D THEN NoTile ELSE l.tiles[j]]
    OBVIOUS
  <2>2. PICK s \in Seq(Cell) : s = l.tiles
    BY LayoutFitsIs
  <2>3. t \in Seq(Cell) /\ DOMAIN t = DOMAIN s
    <3>1. DOMAIN s = 1 .. Len(s) /\ Len(s) \in Nat /\ \A j \in 1 .. Len(s) : s[j] \in Cell
      OBVIOUS
    <3>2. t \in [1 .. Len(s) -> Cell]
      BY <2>1, <2>2, <3>1 DEF Cell
    <3> QED
      BY <3>1, <3>2
  <2>4. \A j \in DOMAIN l.tiles : t[j] = l.tiles[j] \/ l.tiles[j] \in D
    BY <2>1
  <2>5. u = packAfterRemoval(l, t)
    BY <1>2, <2>1 DEF removeTilesWhere
  <2> QED
    BY <2>2, <2>3, <2>4, <2>5, RemovedIs
<1> QED
  BY <1>1, <1>2

LEMMA AddedIs ==
  ASSUME NEW l, LayoutFits(l), NEW s \in Session, NEW u, u = addTile(l, s)
  PROVE  LayoutFits(u) /\ Placed(l) \ Placed(u) \subseteq {}
<1>1. PICK t \in Seq(Cell) : t = l.tiles
  BY LayoutFitsIs
<1>2. PICK v : v = Append(t, s)
  OBVIOUS
<1>3. v \in Seq(Cell) /\ DOMAIN t \subseteq DOMAIN v /\ \A i \in DOMAIN t : v[i] = t[i]
  BY <1>2 DEF Cell
<1>4. \A x \in ToSet(l.tiles) : x \in ToSet(v) \/ x \in {}
  BY <1>1, <1>3 DEF ToSet
<1>5. PICK n : n = IF Count(t) = 1 /\ l.cols = 1 THEN 2 ELSE l.cols
  OBVIOUS
<1>6. n \in Int
  BY <1>5, LayoutFitsIs
<1>7. u = normalize(v, n, l.rowSizes, l.colSizes)
  BY <1>1, <1>2, <1>5 DEF addTile, Repacked
<1> QED
  BY <1>3, <1>4, <1>6, <1>7, RepackedIs

LEMMA SwappedIs ==
  ASSUME NEW l, LayoutFits(l), NEW a \in DOMAIN l.tiles, NEW b \in DOMAIN l.tiles, NEW u, u = swapTiles(l, a, b)
  PROVE  LayoutFits(u) /\ Placed(u) = Placed(l)
<1>1. PICK t \in Seq(Cell) : t = l.tiles
  BY LayoutFitsIs
<1>2. PICK v : v = Swapped(t, a, b)
  OBVIOUS
<1>3. v \in Seq(Cell) /\ DOMAIN v = DOMAIN t
  BY <1>1, <1>2 DEF Swapped
<1>4. ToSet(v) = ToSet(t)
  <2>1. \A i \in DOMAIN t : v[i] = IF i = b THEN t[a] ELSE IF i = a THEN t[b] ELSE t[i]
    BY <1>1, <1>2 DEF Swapped
  <2> QED
    BY <1>1, <1>3, <2>1 DEF ToSet
<1>5. l.cols \in Int /\ Placed(l) = ToSet(t) \ {NoTile}
  BY <1>1, LayoutFitsIs
<1>6. u = normalize(v, l.cols, l.rowSizes, l.colSizes)
  BY <1>1, <1>2 DEF swapTiles, Repacked
<1> QED
  BY <1>3, <1>4, <1>5, <1>6, NormalizeTiles

\* What the handlers keep: the layout in normal form, an arrangement only while one
\* directory shows, and a request to close one tile that names it.
Closes == \A c \in closing : c.dir = 0 => c.doomed = {c.of.tiles[c.at]}
OverlayFits == activeSolo = 0 => overlay = {}
GridInv == LayoutFits(layout) /\ OverlayFits /\ Closes

\* A tile that goes was asked to, or its index was used after the layout changed.
Goes ==
  \/ Placed(layout) \ Placed(layout') \subseteq asked' \cup UNION {c.doomed : c \in closing \ closing'}
  \/ \E c \in closing \ closing' : c.dir = 0 /\ c.of # layout

LEMMA SoloKept ==
  ASSUME known' = known, servers' = servers, selected' = selected
  PROVE  activeSolo' = activeSolo /\ Shown' = Shown
<1>1. activeDirs' = activeDirs
  BY DEF activeDirs, dirs, Running, On
<1> QED
  BY <1>1 DEF activeSolo, Shown, Running, Ended

LEMMA ShownOfSessions == Shown \subseteq Session
BY DEF Shown, Running, Ended

LEMMA OverlayLoads ==
  ASSUME OverlayFits, loadOverlay
  PROVE  OverlayFits'
BY DEF OverlayFits, loadOverlay

\* Steps that leave the layout, and what is on screen, alone.
LEMMA StaysFits ==
  ASSUME GridInv, layout' = layout, overlay' = overlay, known' = known, servers' = servers,
         selected' = selected, Closes'
  PROVE  GridInv' /\ Goes
<1>1. OverlayFits'
  BY SoloKept DEF GridInv, OverlayFits
<1> QED
  BY <1>1 DEF GridInv, Goes

LEMMA AdoptFits ==
  ASSUME GridInv, NEW l, layout' = l, LayoutFits(l), Placed(layout) \ Placed(l) \subseteq asked',
         OverlayFits', closing' \subseteq closing
  PROVE  GridInv' /\ Goes
<1>1. Closes'
  BY DEF GridInv, Closes
<1> QED
  BY <1>1 DEF GridInv, Goes

LEMMA ArrangedFits ==
  ASSUME GridInv, NEW o, NEW l, Arranged(o, l), activeSolo = 0 => LayoutFits(l) /\ Placed(l) = Placed(layout)
  PROVE  GridInv' /\ Goes /\ (activeSolo # 0 => layout' = layout) /\ (activeSolo = 0 => layout' = l)
<1>1. known' = known /\ servers' = servers /\ selected' = selected /\ closing' = closing
  BY DEF Arranged, lists
<1>2. activeSolo' = activeSolo
  BY <1>1, SoloKept
<1>3. CASE activeSolo # 0
  <2>1. layout' = layout /\ OverlayFits'
    BY <1>2, <1>3 DEF Arranged, editOverlay, OverlayFits
  <2> QED
    BY <1>1, <1>3, <2>1 DEF GridInv, Goes, Closes
<1>4. CASE activeSolo = 0
  <2>1. layout' = l /\ overlay' = overlay
    BY <1>4 DEF Arranged, adoptLayout
  <2>2. OverlayFits'
    BY <1>2, <2>1 DEF GridInv, OverlayFits
  <2> QED
    BY <1>1, <1>4, <2>1, <2>2, AdoptFits
<1> QED
  BY <1>3, <1>4

\* A drop exchanges two tiles of the layout, of those that show when some do not.
LEMMA DropIs ==
  ASSUME GridInv, activeSolo = 0, NEW a \in DOMAIN View.tiles, NEW b \in DOMAIN View.tiles, Drop(a, b)
  PROVE  \E i, j \in DOMAIN layout.tiles :
           /\ swapTiles(layout, realIndex(a), realIndex(b)) = swapTiles(layout, i, j)
           /\ Shown # Session => layout.tiles[i] \in Shown /\ layout.tiles[j] \in Shown
<1>1. PICK S \in SUBSET Session : S = Shown
  BY ShownOfSessions
<1>2. PICK f : f = filterLayout(layout, S)
  OBVIOUS
<1>3. /\ f.map \in Seq(Nat)
      /\ ToSet(f.map) = {i \in DOMAIN layout.tiles : layout.tiles[i] \in S}
      /\ f.view.tiles \in Seq(Cell)
      /\ Count(f.view.tiles) = Len(f.map)
      /\ S = Session => Len(f.view.tiles) = Len(layout.tiles)
  BY <1>2, FilteredView DEF GridInv
<1>4. OnScreen = f /\ View = f.view
  BY <1>1, <1>2 DEF GridInv, OverlayFits, OnScreen, View, Screen
<1>5. CASE activeDirs = {}
  <2>1. S = Session
    BY <1>1, <1>5 DEF Shown
  <2>2. layout.tiles \in Seq(Cell)
    BY LayoutFitsIs DEF GridInv
  <2>3. DOMAIN View.tiles = DOMAIN layout.tiles
    BY <1>3, <1>4, <2>1, <2>2
  <2>4. realIndex(a) = a /\ realIndex(b) = b
    BY <1>5 DEF realIndex
  <2> QED
    BY <1>1, <2>1, <2>3, <2>4
<1>6. CASE activeDirs # {}
  <2>1. PICK map \in Seq(Nat) : map = f.map
    BY <1>3
  <2>2. a \in Nat /\ b \in Nat /\ a > 0 /\ b > 0
    BY <1>3, <1>4
  <2>3. Most(a, b) <= Len(map)
    BY <1>3, <1>4, <1>6, <2>1 DEF Drop
  <2>4. a \in DOMAIN map /\ b \in DOMAIN map
    BY <2>2, <2>3 DEF Most
  <2>5. realIndex(a) = map[a] /\ realIndex(b) = map[b]
    BY <1>4, <1>6, <2>1, <2>4 DEF realIndex
  <2>6. map[a] \in ToSet(map) /\ map[b] \in ToSet(map)
    BY <2>4 DEF ToSet
  <2> QED
    BY <1>1, <1>3, <2>1, <2>5, <2>6
<1> QED
  BY <1>5, <1>6

\* What taking over sizes makes of the layout: the tiles stay as they are.
LEMMA SizesFit ==
  ASSUME NEW l, LayoutFits(l), NEW from, NEW u, u = adoptSizes(l, from)
  PROVE  LayoutFits(u) /\ Placed(u) = Placed(l)
<1>1. l.tiles \in Seq(Cell) /\ l.cols \in Int /\ Placed(l) = ToSet(l.tiles) \ {NoTile}
  BY LayoutFitsIs
<1>2. \E rs, cs : u = normalize(l.tiles, l.cols, rs, cs)
  BY DEF adoptSizes
<1> QED
  BY <1>1, <1>2, NormalizeTiles

LEMMA ColumnsFit ==
  ASSUME NEW l, LayoutFits(l), NEW n \in Int, NEW u, u = setCols(l, n)
  PROVE  LayoutFits(u) /\ Placed(u) = Placed(l)
<1>1. l.tiles \in Seq(Cell) /\ Placed(l) = ToSet(l.tiles) \ {NoTile}
  BY LayoutFitsIs
<1>2. u = normalize(l.tiles, n, l.rowSizes, l.colSizes)
  BY DEF setCols, Repacked
<1> QED
  BY <1>1, <1>2, NormalizeTiles

LEMMA SetColumnsInv ==
  ASSUME GridInv, NEW n \in 1 .. MAX_COLS, SetColumns(n)
  PROVE  GridInv' /\ Goes
<1>1. PICK o, l : Arranged(o, l) /\ l = setCols(layout, n)
  BY DEF SetColumns
<1>2. n \in Int
  BY LayoutAssumption
<1>3. LayoutFits(l) /\ Placed(l) = Placed(layout)
  BY <1>1, <1>2, ColumnsFit DEF GridInv
<1> QED
  BY <1>1, <1>3, ArrangedFits

LEMMA DropInv ==
  ASSUME GridInv, NEW a \in DOMAIN View.tiles, NEW b \in DOMAIN View.tiles, Drop(a, b)
  PROVE  GridInv' /\ Goes
<1>1. PICK o, l : Arranged(o, l) /\ l = swapTiles(layout, realIndex(a), realIndex(b))
  BY DEF Drop
<1>2. ASSUME activeSolo = 0 PROVE LayoutFits(l) /\ Placed(l) = Placed(layout)
  <2>1. PICK i \in DOMAIN layout.tiles, j \in DOMAIN layout.tiles : l = swapTiles(layout, i, j)
    BY <1>1, <1>2, DropIs
  <2> QED
    BY <2>1, SwappedIs DEF GridInv
<1> QED
  BY <1>1, <1>2, ArrangedFits

LEMMA ResizedInv ==
  ASSUME GridInv, NEW l, Resized(l)
  PROVE  GridInv' /\ Goes
<1>1. PICK o, u : Arranged(o, u) /\ u = adoptSizes(layout, l)
  BY DEF Resized
<1>2. LayoutFits(u) /\ Placed(u) = Placed(layout)
  BY <1>1, SizesFit DEF GridInv
<1> QED
  BY <1>1, <1>2, ArrangedFits

LEMMA MoveDragInv ==
  ASSUME GridInv, NEW d, NEW delta, MoveDrag(d, delta)
  PROVE  GridInv' /\ Goes
<1>1. known' = known /\ servers' = servers /\ selected' = selected /\ closing' = closing
  BY DEF MoveDrag, lists
<1>2. activeSolo' = activeSolo
  BY <1>1, SoloKept
<1>3. CASE activeSolo # 0
  <2>1. layout' = layout
    BY <1>3 DEF MoveDrag
  <2>2. OverlayFits'
    BY <1>2, <1>3 DEF OverlayFits
  <2> QED
    BY <1>1, <2>1, <2>2 DEF GridInv, Goes, Closes
<1>4. CASE activeSolo = 0
  <2>1. PICK l : layout' = adoptSizes(layout, l) /\ overlay' = overlay
    BY <1>4 DEF MoveDrag, adoptLayout
  <2>2. PICK u : u = layout'
    OBVIOUS
  <2>3. LayoutFits(u) /\ Placed(u) = Placed(layout)
    BY <2>1, <2>2, SizesFit DEF GridInv
  <2>4. OverlayFits'
    BY <1>2, <2>1 DEF GridInv, OverlayFits
  <2> QED
    BY <1>1, <2>2, <2>3, <2>4, AdoptFits
<1> QED
  BY <1>3, <1>4

LEMMA EndDragInv ==
  ASSUME GridInv, NEW d, NEW delta, EndDrag(d, delta)
  PROVE  GridInv' /\ Goes
<1>1. CASE d.moved
  <2>1. \E l : Resized(l)
    BY <1>1 DEF EndDrag
  <2> QED
    BY <2>1, ResizedInv
<1>2. CASE ~d.moved
  <2>1. UNCHANGED <<layout, lists, choice, closing>>
    BY <1>2 DEF EndDrag
  <2> QED
    BY <2>1, StaysFits DEF lists, choice, Closes, GridInv
<1> QED
  BY <1>1, <1>2

LEMMA ResetTracksInv ==
  ASSUME GridInv, NEW h, ResetTracks(h)
  PROVE  GridInv' /\ Goes
<1>1. \E l : Resized(l)
  BY DEF ResetTracks
<1> QED
  BY <1>1, ResizedInv

\* Steps that touch neither the layout nor what is on screen nor a request.
LEMMA GridQuietInv ==
  ASSUME GridInv,
         \/ \E h \in Handles : StartDrag(h)
         \/ SetNarrow \/ Escape \/ StopRename \/ CloseReader
         \/ \E s \in Session : Launch(s) \/ ToggleMaximized(s) \/ StartRename(s) \/ OpenReader(s)
         \/ \E v \in Server, st \in {"open", "auth-expired"} : Status(v, st)
  PROVE  GridInv' /\ Goes
<1>1. UNCHANGED <<layout, known, servers, selected, overlay, closing>>
  <2>1. CASE \E h \in Handles : StartDrag(h)
    BY <2>1 DEF StartDrag, lists, choice
  <2>2. CASE SetNarrow
    BY <2>2 DEF SetNarrow, lists, choice
  <2>3. CASE Escape
    BY <2>3 DEF Escape, lists, choice
  <2>4. CASE StopRename
    BY <2>4 DEF StopRename, lists, choice
  <2>5. CASE CloseReader
    BY <2>5 DEF CloseReader, lists, choice
  <2>6. ASSUME NEW s \in Session, Launch(s) PROVE UNCHANGED <<layout, known, servers, selected, overlay, closing>>
    BY <2>6 DEF Launch, lists, choice
  <2>7. ASSUME NEW s \in Session, ToggleMaximized(s) PROVE UNCHANGED <<layout, known, servers, selected, overlay, closing>>
    BY <2>7 DEF ToggleMaximized, lists, choice
  <2>8. ASSUME NEW s \in Session, StartRename(s) PROVE UNCHANGED <<layout, known, servers, selected, overlay, closing>>
    BY <2>8 DEF StartRename, lists, choice
  <2>9. ASSUME NEW s \in Session, OpenReader(s) PROVE UNCHANGED <<layout, known, servers, selected, overlay, closing>>
    BY <2>9 DEF OpenReader, lists, choice
  <2>10. ASSUME NEW v, NEW st, Status(v, st) PROVE UNCHANGED <<layout, known, servers, selected, overlay, closing>>
    BY <2>10 DEF Status, lists, choice
  <2> QED
    BY <2>1, <2>2, <2>3, <2>4, <2>5, <2>6, <2>7, <2>8, <2>9, <2>10
<1>2. Closes'
  BY <1>1 DEF GridInv, Closes
<1> QED
  BY <1>1, <1>2, StaysFits

\* A DELETE leaves.
LEMMA TerminateInv ==
  ASSUME GridInv, NEW i, Terminate(i)
  PROVE  GridInv' /\ Goes
<1>1. UNCHANGED <<layout, known, servers, selected, overlay>>
  BY DEF Terminate, lists, choice
<1>2. PICK r : r = [at |-> i, doomed |-> {layout.tiles[i]}, dir |-> 0, of |-> layout]
  OBVIOUS
<1>3. closing' = closing \cup {r}
  BY <1>2 DEF Terminate
<1>4. Closes'
  BY <1>2, <1>3 DEF GridInv, Closes
<1> QED
  BY <1>1, <1>4, StaysFits

LEMMA DirsOfSessions == Dir = {DirOf[s] : s \in Session} /\ 0 \notin Dir
BY GridAssumption DEF Dir, Range

LEMMA CloseDirInv ==
  ASSUME GridInv, NEW d \in Dir, CloseDir(d)
  PROVE  GridInv' /\ Goes
<1>1. UNCHANGED <<layout, known, servers, selected, overlay>>
  BY DEF CloseDir, lists, choice
<1>2. PICK doomed : closing' = closing \cup {[at |-> 0, doomed |-> doomed, dir |-> d, of |-> layout]}
  BY DEF CloseDir
<1>3. PICK r : r = [at |-> 0, doomed |-> doomed, dir |-> d, of |-> layout]
  OBVIOUS
<1>4. r.dir # 0
  BY <1>3, DirsOfSessions
<1>5. Closes'
  BY <1>2, <1>3, <1>4 DEF GridInv, Closes
<1> QED
  BY <1>1, <1>5, StaysFits

\* Steps that may load another arrangement.
LEMMA LoadsInv ==
  ASSUME GridInv, layout' = layout, closing' = closing, loadOverlay
  PROVE  GridInv' /\ Goes
<1>1. OverlayFits'
  BY OverlayLoads DEF GridInv
<1> QED
  BY <1>1 DEF GridInv, Goes, Closes

LEMMA ChooseInv ==
  ASSUME GridInv,
         \/ \E d \in Dir : toggleDir(d) \/ addDir(d)
         \/ \E by \in {-1, 0, 1} : RotateDirs(by)
         \/ \E v \in Server : RemoveServer(v)
         \/ \E s \in Session : LandSessions(ServerOf[s], s)
  PROVE  GridInv' /\ Goes
<1>1. layout' = layout /\ closing' = closing /\ loadOverlay
  <2>1. ASSUME NEW chosen, Select(chosen) PROVE layout' = layout /\ closing' = closing /\ loadOverlay
    BY <2>1 DEF Select
  <2>2. CASE \E d \in Dir : toggleDir(d) \/ addDir(d)
    BY <2>1, <2>2 DEF toggleDir, addDir
  <2>3. CASE \E by \in {-1, 0, 1} : RotateDirs(by)
    BY <2>1, <2>3 DEF RotateDirs
  <2>4. CASE \E v \in Server : RemoveServer(v)
    BY <2>4 DEF RemoveServer
  <2>5. CASE \E s \in Session : LandSessions(ServerOf[s], s)
    BY <2>5 DEF LandSessions
  <2> QED
    BY <2>2, <2>3, <2>4, <2>5
<1> QED
  BY <1>1, LoadsInv

\* A tile is placed.
LEMMA AddInv ==
  ASSUME GridInv, NEW s \in Session, layout' = addTile(layout, s), loadOverlay, closing' = closing
  PROVE  GridInv' /\ Goes
<1>1. PICK u : u = addTile(layout, s)
  OBVIOUS
<1>2. LayoutFits(u) /\ Placed(layout) \ Placed(u) \subseteq {}
  BY <1>1, AddedIs DEF GridInv
<1>3. OverlayFits'
  BY OverlayLoads DEF GridInv
<1> QED
  BY <1>1, <1>2, <1>3, AdoptFits

LEMMA PlaceInv ==
  ASSUME GridInv, NEW s \in Session, attachSession(s) \/ placeSession(s)
  PROVE  GridInv' /\ Goes
<1>1. layout' = addTile(layout, s) /\ loadOverlay /\ closing' = closing
  BY DEF attachSession, placeSession, adoptLayout
<1> QED
  BY <1>1, AddInv

\* Tiles are dismissed, or another page's layout lands: the lists stay as they are.
LEMMA SameSoloInv ==
  ASSUME GridInv, UNCHANGED <<lists, choice, closing>>, NEW l, layout' = l, LayoutFits(l),
         Placed(layout) \ Placed(l) \subseteq asked'
  PROVE  GridInv' /\ Goes
<1>1. known' = known /\ servers' = servers /\ selected' = selected /\ overlay' = overlay
  BY DEF lists, choice
<1>2. OverlayFits'
  BY <1>1, SoloKept DEF GridInv, OverlayFits
<1> QED
  BY <1>2, AdoptFits

LEMMA DismissInv ==
  ASSUME GridInv, NEW i, Dismiss(i)
  PROVE  GridInv' /\ Goes
<1>1. PICK l : l = removeTile(layout, i)
  OBVIOUS
<1>2. LayoutFits(l) /\ Placed(layout) \ Placed(l) \subseteq {layout.tiles[i]}
  BY <1>1, RemovedByIndex DEF GridInv
<1>3. layout' = l /\ layout.tiles[i] \in asked' /\ UNCHANGED <<lists, choice, closing>>
  BY <1>1 DEF Dismiss, adoptLayout
<1> QED
  BY <1>2, <1>3, SameSoloInv

LEMMA DismissAllInv ==
  ASSUME GridInv, NEW v, DismissAll(v)
  PROVE  GridInv' /\ Goes
<1>1. PICK l : l = removeTilesWhere(layout, EndedOn(v))
  OBVIOUS
<1>2. LayoutFits(l) /\ Placed(layout) \ Placed(l) \subseteq EndedOn(v)
  BY <1>1, RemovedByName DEF GridInv
<1>3. layout' = l /\ EndedOn(v) \subseteq asked' /\ UNCHANGED <<lists, choice, closing>>
  BY <1>1 DEF DismissAll, adoptLayout
<1> QED
  BY <1>2, <1>3, SameSoloInv

LEMMA LandLayoutInv ==
  ASSUME GridInv, NEW f \in FirstLayouts, LandLayout(f)
  PROVE  GridInv' /\ Goes
<1>1. PICK l : l = normalize(f.tiles, f.cols, f.rowSizes, f.colSizes)
  OBVIOUS
<1>2. WellFormed(f) /\ f.tiles \in Seq(Cell)
  BY GridAssumption DEF Cell
<1>3. LayoutFits(f)
  BY <1>2, FirstFits
<1>4. f.cols \in Int /\ Placed(f) = ToSet(f.tiles) \ {NoTile}
  BY <1>3, LayoutFitsIs
<1>5. LayoutFits(l) /\ Placed(l) = Placed(f)
  BY <1>1, <1>2, <1>4, NormalizeTiles
<1>6. layout' = l /\ asked' = asked \cup (Placed(layout) \ Placed(f)) /\ UNCHANGED <<lists, choice, closing>>
  BY <1>1 DEF LandLayout, adoptLayout
<1> QED
  BY <1>5, <1>6, SameSoloInv

\* A DELETE is answered.
LEMMA ClosedInv ==
  ASSUME GridInv, NEW c \in closing, Closed(c)
  PROVE  GridInv' /\ Goes
<1>1. PICK l : l = Without(c)
  OBVIOUS
<1>2. layout' = l /\ closing' = closing \ {c} /\ loadOverlay
  BY <1>1 DEF Closed, adoptLayout
<1>3. OverlayFits' /\ Closes'
  BY <1>2, OverlayLoads DEF GridInv, Closes
<1>4. c \in closing \ closing'
  BY <1>2
<1>5. CASE c.dir = 0
  <2>1. LayoutFits(l) /\ Placed(layout) \ Placed(l) \subseteq {layout.tiles[c.at]}
    BY <1>1, <1>5, RemovedByIndex DEF GridInv, Without
  <2>2. c.doomed = {c.of.tiles[c.at]}
    BY <1>5 DEF GridInv, Closes
  <2>3. CASE c.of = layout
    <3>1. Placed(layout) \ Placed(l) \subseteq c.doomed
      BY <2>1, <2>2, <2>3
    <3> QED
      BY <1>2, <1>3, <1>4, <2>1, <3>1 DEF GridInv, Goes
  <2>4. CASE c.of # layout
    BY <1>2, <1>3, <1>4, <1>5, <2>1, <2>4 DEF GridInv, Goes
  <2> QED
    BY <2>3, <2>4
<1>6. CASE c.dir # 0
  <2>1. LayoutFits(l) /\ Placed(layout) \ Placed(l) \subseteq c.doomed
    BY <1>1, <1>6, RemovedByName DEF GridInv, Without
  <2> QED
    BY <1>2, <1>3, <1>4, <2>1 DEF GridInv, Goes
<1> QED
  BY <1>5, <1>6

LEMMA GridSteps ==
  ASSUME GridInv, [GridNext]_gridVars
  PROVE  GridInv' /\ Goes
<1>1. CASE UNCHANGED gridVars
  <2>1. UNCHANGED <<layout, known, servers, selected, overlay, closing>>
    BY <1>1 DEF gridVars, lists, choice
  <2>2. Closes'
    BY <2>1 DEF GridInv, Closes
  <2> QED
    BY <2>1, <2>2, StaysFits
<1>2. CASE \E n \in 1 .. MAX_COLS : SetColumns(n)
  BY <1>2, SetColumnsInv
<1>3. CASE \E a, b \in DOMAIN View.tiles : Drop(a, b)
  BY <1>3, DropInv
<1>4. CASE \E h \in Handles : StartDrag(h) \/ ResetTracks(h)
  BY <1>4, GridQuietInv, ResetTracksInv
<1>5. CASE \E d \in drag, delta \in Delta : MoveDrag(d, delta) \/ EndDrag(d, delta)
  BY <1>5, MoveDragInv, EndDragInv
<1>6. CASE SetNarrow \/ Escape \/ StopRename \/ CloseReader
  BY <1>6, GridQuietInv
<1>7. CASE \E d \in Dir : toggleDir(d) \/ addDir(d) \/ CloseDir(d)
  BY <1>7, ChooseInv, CloseDirInv
<1>8. CASE \E by \in {-1, 0, 1} : RotateDirs(by)
  BY <1>8, ChooseInv
<1>9. CASE \E s \in Session : \/ attachSession(s) \/ Launch(s) \/ placeSession(s)
                              \/ ToggleMaximized(s) \/ StartRename(s) \/ OpenReader(s)
  BY <1>9, PlaceInv, GridQuietInv
<1>10. CASE \E i \in DOMAIN layout.tiles : Dismiss(i) \/ Terminate(i)
  BY <1>10, DismissInv, TerminateInv
<1>11. CASE \E c \in closing : Closed(c)
  BY <1>11, ClosedInv
<1>12. CASE \E v \in Server : DismissAll(v) \/ RemoveServer(v)
  BY <1>12, DismissAllInv, ChooseInv
<1>13. CASE \E v \in Server, st \in {"open", "auth-expired"} : Status(v, st)
  BY <1>13, GridQuietInv
<1>14. CASE \E s \in Session : LandSessions(ServerOf[s], s)
  BY <1>14, ChooseInv
<1>15. CASE \E l \in FirstLayouts : LandLayout(l)
  BY <1>15, LandLayoutInv
<1> QED
  BY <1>1, <1>2, <1>3, <1>4, <1>5, <1>6, <1>7, <1>8, <1>9, <1>10, <1>11, <1>12, <1>13, <1>14,
     <1>15 DEF GridNext

LEMMA GridStarts == GridInit => GridInv
<1> SUFFICES ASSUME GridInit PROVE GridInv
  OBVIOUS
<1>1. WellFormed(layout) /\ layout.tiles \in Seq(Cell)
  BY GridAssumption DEF GridInit, Cell
<1>2. LayoutFits(layout)
  BY <1>1, FirstFits
<1> QED
  BY <1>2 DEF GridInit, GridInv, OverlayFits, Closes

\* The layout a page shows is in normal form, an arrangement is in effect only while
\* one directory shows, and a DELETE for one tile names the session it had.
THEOREM GridInvariance == GridSpec => []GridInv
BY GridStarts, GridSteps, PTL DEF GridSpec

\* A tile leaves the grid only because its session was asked to, or because its index
\* was used after the layout had changed (terminateSession, GridPage.tsx).
THEOREM GoByIntent == GridSpec => TilesGoByIntent
<1>1. GridInv /\ [GridNext]_gridVars =>
        [\/ Placed(layout) \ Placed(layout') \subseteq asked' \cup UNION {c.doomed : c \in closing \ closing'}
         \/ \E c \in closing \ closing' : c.dir = 0 /\ c.of # layout]_gridVars
  BY GridSteps DEF Goes
<1> QED
  BY <1>1, GridInvariance, PTL DEF GridSpec, TilesGoByIntent

\* The indices of the copies of a tile.
IndicesOf(t, s) == {i \in DOMAIN t : t[i] = s}

LEMMA IndicesFinite ==
  ASSUME NEW T, NEW t \in Seq(T), NEW s
  PROVE  IsFiniteSet(IndicesOf(t, s)) /\ IndicesOf(t, s) = {i \in 1 .. Len(t) : t[i] = s}
<1>1. IndicesOf(t, s) = {i \in 1 .. Len(t) : t[i] = s} /\ Len(t) \in Nat
  BY DEF IndicesOf
<1>2. IsFiniteSet(1 .. Len(t))
  BY <1>1, FS_Interval
<1>3. IndicesOf(t, s) \subseteq 1 .. Len(t)
  BY <1>1
<1> QED
  BY <1>1, <1>2, <1>3, FS_Subset

LEMMA SameNumber ==
  ASSUME NEW A, NEW B, IsFiniteSet(A), NEW f \in [A -> B],
         \A a, b \in A : f[a] = f[b] => a = b, \A b \in B : \E a \in A : f[a] = b
  PROVE  Cardinality(A) = Cardinality(B)
<1>1. f \in Bijection(A, B)
  BY DEF Bijection, Injection, Surjection, IsInjective
<1>2. ExistsBijection(A, B)
  BY <1>1 DEF ExistsBijection
<1> QED
  BY <1>2, FS_Bijection

\* A filter keeps every copy of what it lets through.
LEMMA FilterCopies ==
  ASSUME NEW T, NEW t \in Seq(T), NEW S, NEW x \in S, NEW u, u = Filter(t, S)
  PROVE  Cardinality(IndicesOf(u, x)) = Cardinality(IndicesOf(t, x))
<1>1. u \in Seq(T)
  BY FilterPicks
<1>2. PICK h : Picks(u, t, S, Len(t), h)
  BY FilterPicks
<1>3. PICK A : A = IndicesOf(u, x)
  OBVIOUS
<1>4. PICK B : B = IndicesOf(t, x)
  OBVIOUS
<1>5. IsFiniteSet(A) /\ A = {i \in 1 .. Len(u) : u[i] = x}
  BY <1>1, <1>3, IndicesFinite
<1>6. B = {i \in 1 .. Len(t) : t[i] = x}
  BY <1>4, IndicesFinite
<1>7. h \in [1 .. Len(u) -> 1 .. Len(t)]
  BY <1>2 DEF Picks
<1>8. \A a, b \in 1 .. Len(u) : a < b => h[a] < h[b]
  BY <1>2 DEF Picks
<1>9. \A k \in 1 .. Len(u) : u[k] = t[h[k]]
  BY <1>2 DEF Picks
<1>10. \A i \in 1 .. Len(t) : t[i] \in S => \E k \in 1 .. Len(u) : h[k] = i
  BY <1>2 DEF Picks
<1>11. PICK f : f = [a \in A |-> h[a]]
  OBVIOUS
<1>12. f \in [A -> B]
  <2>1. \A a \in A : h[a] \in B
    BY <1>5, <1>6, <1>7, <1>9
  <2> QED
    BY <1>11, <2>1
<1>13. \A a, b \in A : f[a] = f[b] => a = b
  <2> SUFFICES ASSUME NEW a \in A, NEW b \in A, h[a] = h[b] PROVE a = b
    BY <1>11
  <2>1. a \in 1 .. Len(u) /\ b \in 1 .. Len(u) /\ h[a] \in Int /\ h[b] \in Int
    BY <1>5, <1>7
  <2>2. ~(h[a] < h[b]) /\ ~(h[b] < h[a])
    BY <2>1
  <2>3. ~(a < b) /\ ~(b < a)
    BY <1>8, <2>1, <2>2
  <2> QED
    BY <2>1, <2>3
<1>14. \A b \in B : \E a \in A : f[a] = b
  <2> SUFFICES ASSUME NEW b \in B PROVE \E a \in A : f[a] = b
    OBVIOUS
  <2>1. b \in 1 .. Len(t) /\ t[b] = x
    BY <1>6
  <2>2. PICK k \in 1 .. Len(u) : h[k] = b
    BY <1>10, <2>1
  <2>3. k \in A
    BY <1>5, <1>9, <2>1, <2>2
  <2> QED
    BY <1>11, <2>2, <2>3
<1>15. Cardinality(A) = Cardinality(B)
  BY <1>5, <1>12, <1>13, <1>14, SameNumber
<1> QED
  BY <1>3, <1>4, <1>15

LEMMA NormalizeCopies ==
  ASSUME NEW t \in Seq(Cell), NEW n \in Int, NEW rs, NEW cs, NEW u, u = normalize(t, n, rs, cs),
         NEW s \in Session
  PROVE  Copies(u, s) = Cardinality(IndicesOf(t, s))
<1>1. PICK o : o = Occupied(t)
  OBVIOUS
<1>2. PICK S : S = ToSet(t) \ {NoTile}
  OBVIOUS
<1>3. PICK v : v = u.tiles
  OBVIOUS
<1>4. o = Filter(t, S) /\ o \in Seq(Cell)
  BY <1>1, <1>2, OccupiedIs
<1>5. Packed(v, Len(o)) /\ \A i \in 1 .. Len(o) : v[i] = o[i]
  BY <1>1, <1>3, NormalizeTiles
<1>6. IndicesOf(v, s) = IndicesOf(o, s)
  <2>1. v \in Seq(Cell) /\ Len(o) <= Len(v) /\ Len(o) \in Nat /\ \A i \in 1 .. Len(v) : v[i] \in Session <=> i <= Len(o)
    BY <1>5 DEF Packed
  <2>2. IndicesOf(v, s) = {i \in 1 .. Len(v) : v[i] = s}
    BY <2>1, IndicesFinite
  <2>3. IndicesOf(o, s) = {i \in 1 .. Len(o) : o[i] = s}
    BY <1>4, IndicesFinite
  <2>4. IndicesOf(v, s) \subseteq IndicesOf(o, s)
    BY <1>5, <2>1, <2>2, <2>3
  <2>5. IndicesOf(o, s) \subseteq IndicesOf(v, s)
    BY <1>5, <2>1, <2>2, <2>3
  <2> QED
    BY <2>4, <2>5
<1>7. Copies(u, s) = Cardinality(IndicesOf(v, s))
  BY <1>3 DEF Copies, IndicesOf
<1>8. CASE s \in S
  <2>1. Cardinality(IndicesOf(o, s)) = Cardinality(IndicesOf(t, s))
    BY <1>4, <1>8, FilterCopies
  <2> QED
    BY <1>6, <1>7, <2>1
<1>9. CASE s \notin S
  <2>1. s \notin ToSet(t) /\ s \notin ToSet(o)
    BY <1>1, <1>2, <1>9, NoTileIs, OccupiedIs
  <2>2. IndicesOf(o, s) = {} /\ IndicesOf(t, s) = {}
    BY <2>1 DEF IndicesOf, ToSet
  <2> QED
    BY <1>6, <1>7, <2>2
<1> QED
  BY <1>8, <1>9

LEMMA SwapCopies ==
  ASSUME NEW t \in Seq(Cell), NEW a \in DOMAIN t, NEW b \in DOMAIN t, NEW s, NEW v, v = Swapped(t, a, b)
  PROVE  Cardinality(IndicesOf(v, s)) = Cardinality(IndicesOf(t, s))
<1>1. v \in Seq(Cell) /\ DOMAIN v = DOMAIN t
  BY DEF Swapped
<1>2. \A i \in DOMAIN t : v[i] = IF i = b THEN t[a] ELSE IF i = a THEN t[b] ELSE t[i]
  BY DEF Swapped
<1>3. PICK A : A = IndicesOf(v, s)
  OBVIOUS
<1>4. PICK B : B = IndicesOf(t, s)
  OBVIOUS
<1>5. IsFiniteSet(A)
  BY <1>1, <1>3, IndicesFinite
<1>6. A = {i \in DOMAIN t : v[i] = s} /\ B = {i \in DOMAIN t : t[i] = s}
  BY <1>1, <1>3, <1>4 DEF IndicesOf
<1>7. PICK f : f = [i \in A |-> IF i = b THEN a ELSE IF i = a THEN b ELSE i]
  OBVIOUS
<1>8. f \in [A -> B]
  BY <1>2, <1>6, <1>7
<1>9. \A i, j \in A : f[i] = f[j] => i = j
  BY <1>7
<1>10. ASSUME NEW j \in B PROVE \E i \in A : f[i] = j
  <2>1. PICK i : i = IF j = b THEN a ELSE IF j = a THEN b ELSE j
    OBVIOUS
  <2>2. i \in A
    BY <1>2, <1>6, <2>1
  <2>3. f[i] = j
    BY <1>7, <2>1, <2>2
  <2> QED
    BY <2>2, <2>3
<1> QED
  BY <1>3, <1>4, <1>5, <1>8, <1>9, <1>10, SameNumber

\* Arranging l into u loses no tile, and moves none that does not show.
Arranges(l, u, S) ==
  /\ \A s \in Session : Copies(u, s) = Copies(l, s)
  /\ \A i \in DOMAIN l.tiles : l.tiles[i] \in Session \ S => u.tiles[i] = l.tiles[i]

\* Repacking the same tiles, or tiles of which two changed places.
LEMMA RepackArranges ==
  ASSUME NEW l, LayoutFits(l), NEW S, NEW t \in Seq(Cell), DOMAIN t = DOMAIN l.tiles,
         NEW n \in Int, NEW rs, NEW cs, NEW u, u = normalize(t, n, rs, cs),
         \A s \in Session : Cardinality(IndicesOf(t, s)) = Cardinality(IndicesOf(l.tiles, s)),
         \/ Session \ S = {}
         \/ \A i \in DOMAIN t : /\ t[i] \in Session <=> l.tiles[i] \in Session
                                /\ l.tiles[i] \in Session \ S => t[i] = l.tiles[i]
  PROVE  Arranges(l, u, S)
<1>1. ASSUME NEW s \in Session PROVE Copies(u, s) = Copies(l, s)
  <2>1. Copies(u, s) = Cardinality(IndicesOf(t, s))
    BY NormalizeCopies
  <2>2. Copies(l, s) = Cardinality(IndicesOf(l.tiles, s))
    BY DEF Copies, IndicesOf
  <2> QED
    BY <2>1, <2>2
<1>2. ASSUME NEW i \in DOMAIN l.tiles, l.tiles[i] \in Session \ S PROVE u.tiles[i] = l.tiles[i]
  <2>1. PICK k : k = Count(l.tiles)
    OBVIOUS
  <2>2. Packed(l.tiles, k) /\ l.tiles \in Seq(Cell)
    BY <2>1, LayoutFitsIs
  <2>3. \A j \in DOMAIN t : t[j] \in Session <=> l.tiles[j] \in Session
    BY <1>2
  <2>4. t[i] = l.tiles[i]
    BY <1>2
  <2>5. k \in Nat /\ k <= Len(t) /\ \A j \in 1 .. Len(t) : t[j] \in Session <=> j <= k
    <3>1. k \in Nat /\ k <= Len(l.tiles) /\ \A j \in 1 .. Len(l.tiles) : l.tiles[j] \in Session <=> j <= k
      BY <2>2 DEF Packed
    <3>2. DOMAIN t = 1 .. Len(t) /\ DOMAIN l.tiles = 1 .. Len(l.tiles) /\ Len(t) = Len(l.tiles)
      BY <2>2
    <3> QED
      BY <2>3, <3>1, <3>2
  <2>6. Packed(t, k)
    BY <2>5 DEF Packed
  <2>7. Len(Occupied(t)) = k /\ \A j \in 1 .. k : Occupied(t)[j] = t[j]
    BY <2>6, OccupiedPrefix
  <2>8. \A j \in 1 .. Len(Occupied(t)) : u.tiles[j] = Occupied(t)[j]
    BY NormalizeTiles
  <2>9. i \in 1 .. k
    <3>1. i \in 1 .. Len(l.tiles)
      BY <2>2
    <3>2. i <= k
      BY <1>2, <2>2, <3>1 DEF Packed
    <3> QED
      BY <2>5, <3>1, <3>2
  <2> QED
    BY <2>4, <2>7, <2>8, <2>9
<1> QED
  BY <1>1, <1>2 DEF Arranges

LEMMA SameTilesArrange ==
  ASSUME NEW l, LayoutFits(l), NEW S, NEW n \in Int, NEW rs, NEW cs, NEW u, u = normalize(l.tiles, n, rs, cs)
  PROVE  Arranges(l, u, S)
<1>1. PICK t \in Seq(Cell) : t = l.tiles
  BY LayoutFitsIs
<1> QED
  BY <1>1, RepackArranges

LEMMA SwapArranges ==
  ASSUME NEW l, LayoutFits(l), NEW S, NEW a \in DOMAIN l.tiles, NEW b \in DOMAIN l.tiles,
         NEW u, u = swapTiles(l, a, b),
         Session \ S = {} \/ (l.tiles[a] \in S \cap Session /\ l.tiles[b] \in S \cap Session)
  PROVE  Arranges(l, u, S)
<1>1. PICK t \in Seq(Cell) : t = l.tiles
  BY LayoutFitsIs
<1>2. PICK v : v = Swapped(t, a, b)
  OBVIOUS
<1>3. v \in Seq(Cell) /\ DOMAIN v = DOMAIN t
  BY <1>1, <1>2 DEF Swapped
<1>4. \A i \in DOMAIN t : v[i] = IF i = b THEN t[a] ELSE IF i = a THEN t[b] ELSE t[i]
  BY <1>1, <1>2 DEF Swapped
<1>5. \A s \in Session : Cardinality(IndicesOf(v, s)) = Cardinality(IndicesOf(t, s))
  BY <1>1, <1>2, SwapCopies
<1>6. u = normalize(v, l.cols, l.rowSizes, l.colSizes) /\ l.cols \in Int
  BY <1>1, <1>2, LayoutFitsIs DEF swapTiles, Repacked
<1>7. \/ Session \ S = {}
      \/ \A i \in DOMAIN v : /\ v[i] \in Session <=> l.tiles[i] \in Session
                             /\ l.tiles[i] \in Session \ S => v[i] = l.tiles[i]
  BY <1>1, <1>3, <1>4
<1> QED
  BY <1>1, <1>3, <1>5, <1>6, <1>7, RepackArranges

LEMMA SameArranges ==
  ASSUME NEW l, NEW S
  PROVE  Arranges(l, l, S)
BY DEF Arranges

LEMMA SizesArrange ==
  ASSUME NEW l, LayoutFits(l), NEW S, NEW from, NEW u, u = adoptSizes(l, from)
  PROVE  Arranges(l, u, S)
<1>1. \E rs, cs : u = normalize(l.tiles, l.cols, rs, cs)
  BY DEF adoptSizes
<1>2. l.cols \in Int
  BY LayoutFitsIs
<1> QED
  BY <1>1, <1>2, SameTilesArrange

\* Under a solo the stored layout stays; otherwise it is arranged.
ArrangesIt == (activeSolo # 0 => layout' = layout) /\ Arranges(layout, layout', Shown)

LEMMA ArrangedArranges ==
  ASSUME NEW o, NEW l, Arranged(o, l), activeSolo = 0 => Arranges(layout, l, Shown)
  PROVE  ArrangesIt
<1>1. CASE activeSolo # 0
  <2>1. layout' = layout
    BY <1>1 DEF Arranged, editOverlay
  <2> QED
    BY <1>1, <2>1, SameArranges DEF ArrangesIt
<1>2. CASE activeSolo = 0
  <2>1. layout' = l
    BY <1>2 DEF Arranged, adoptLayout
  <2> QED
    BY <1>2, <2>1 DEF ArrangesIt
<1> QED
  BY <1>1, <1>2

LEMMA ResizedArranges ==
  ASSUME GridInv, NEW l, Resized(l)
  PROVE  ArrangesIt
<1>1. PICK o, u : Arranged(o, u) /\ u = adoptSizes(layout, l)
  BY DEF Resized
<1>2. Arranges(layout, u, Shown)
  BY <1>1, SizesArrange DEF GridInv
<1> QED
  BY <1>1, <1>2, ArrangedArranges

LEMMA ArrangeSteps ==
  ASSUME GridInv, Arrange
  PROVE  ArrangesIt
<1>1. ASSUME NEW n \in 1 .. MAX_COLS, SetColumns(n) PROVE ArrangesIt
  <2>1. PICK o, l : Arranged(o, l) /\ l = setCols(layout, n)
    BY <1>1 DEF SetColumns
  <2>2. n \in Int /\ l = normalize(layout.tiles, n, layout.rowSizes, layout.colSizes)
    BY <2>1, LayoutAssumption DEF setCols, Repacked
  <2>3. Arranges(layout, l, Shown)
    BY <2>2, SameTilesArrange DEF GridInv
  <2> QED
    BY <2>1, <2>3, ArrangedArranges
<1>2. ASSUME NEW a \in DOMAIN View.tiles, NEW b \in DOMAIN View.tiles, Drop(a, b) PROVE ArrangesIt
  <2>1. PICK o, l : Arranged(o, l) /\ l = swapTiles(layout, realIndex(a), realIndex(b))
    BY <1>2 DEF Drop
  <2>2. ASSUME activeSolo = 0 PROVE Arranges(layout, l, Shown)
    <3>1. PICK i \in DOMAIN layout.tiles, j \in DOMAIN layout.tiles :
            /\ l = swapTiles(layout, i, j)
            /\ Shown # Session => layout.tiles[i] \in Shown /\ layout.tiles[j] \in Shown
      BY <1>2, <2>1, <2>2, DropIs
    <3>2. Session \ Shown = {} \/ (layout.tiles[i] \in Shown \cap Session /\ layout.tiles[j] \in Shown \cap Session)
      BY <3>1, ShownOfSessions
    <3> QED
      BY <3>1, <3>2, SwapArranges DEF GridInv
  <2> QED
    BY <2>1, <2>2, ArrangedArranges
<1>3. ASSUME NEW h, ResetTracks(h) PROVE ArrangesIt
  <2>1. \E l : Resized(l)
    BY <1>3 DEF ResetTracks
  <2> QED
    BY <2>1, ResizedArranges
<1>4. ASSUME NEW d, NEW delta, MoveDrag(d, delta) PROVE ArrangesIt
  <2>1. CASE activeSolo # 0
    <3>1. layout' = layout
      BY <1>4, <2>1 DEF MoveDrag
    <3> QED
      BY <3>1, SameArranges DEF ArrangesIt
  <2>2. CASE activeSolo = 0
    <3>1. PICK l : layout' = adoptSizes(layout, l)
      BY <1>4, <2>2 DEF MoveDrag, adoptLayout
    <3>2. Arranges(layout, layout', Shown)
      BY <3>1, SizesArrange DEF GridInv
    <3> QED
      BY <2>2, <3>2 DEF ArrangesIt
  <2> QED
    BY <2>1, <2>2
<1>5. ASSUME NEW d, NEW delta, EndDrag(d, delta) PROVE ArrangesIt
  <2>1. CASE d.moved
    <3>1. \E l : Resized(l)
      BY <1>5, <2>1 DEF EndDrag
    <3> QED
      BY <3>1, ResizedArranges
  <2>2. CASE ~d.moved
    <3>1. layout' = layout
      BY <1>5, <2>2 DEF EndDrag
    <3> QED
      BY <3>1, SameArranges DEF ArrangesIt
  <2> QED
    BY <2>1, <2>2
<1> QED
  BY <1>1, <1>2, <1>3, <1>4, <1>5 DEF Arrange

\* Arranging a filtered grid is "a view, not state the daemon knows about" (dirFilter.ts):
\* it loses no tile, leaves the hidden ones where they are stored, and under a solo does
\* not touch the stored layout.
THEOREM HiddenStay == GridSpec => HiddenTilesStay
<1>1. ASSUME GridInv, [GridNext]_gridVars
      PROVE  [Rearranged /\ ~LeavesHidden => ~Arrange]_gridVars
  BY <1>1, ArrangeSteps DEF ArrangesIt, Arranges, LeavesHidden
<1> QED
  BY <1>1, GridInvariance, PTL DEF GridSpec, HiddenTilesStay

-----------------------------------------------------------------------------
(* A drop *)

\* Sorting: the k-th comes after k - 1 others, and every position is taken once.
Earlier(r, n, i) == {j \in 1 .. n : sortsBefore(r, j, i)}

LEMMA EarlierCounts ==
  ASSUME NEW n \in Nat, NEW r \in [1 .. n -> Int], NEW i \in 1 .. n
  PROVE  /\ IsFiniteSet(Earlier(r, n, i))
         /\ Cardinality(Earlier(r, n, i)) \in 0 .. n - 1
         /\ \A j \in 1 .. n : i # j /\ Cardinality(Earlier(r, n, i)) = Cardinality(Earlier(r, n, j)) => FALSE
<1>1. IsFiniteSet(1 .. n) /\ Cardinality(1 .. n) = n
  BY FS_Interval
<1>2. \A j \in 1 .. n : Earlier(r, n, j) \in SUBSET (1 .. n) /\ j \notin Earlier(r, n, j)
  BY DEF Earlier, sortsBefore
<1>3. \A j \in 1 .. n : IsFiniteSet(Earlier(r, n, j)) /\ Cardinality(Earlier(r, n, j)) \in Nat
  BY <1>1, <1>2, FS_Subset, FS_CardinalityType
<1>4. Cardinality(Earlier(r, n, i)) <= n /\ Cardinality(Earlier(r, n, i)) # n
  BY <1>1, <1>2, FS_Subset
<1>5. ASSUME NEW a \in 1 .. n, NEW b \in 1 .. n, sortsBefore(r, a, b)
      PROVE  Cardinality(Earlier(r, n, a)) < Cardinality(Earlier(r, n, b))
  <2>1. Earlier(r, n, a) \subseteq Earlier(r, n, b)
    BY <1>5 DEF Earlier, sortsBefore
  <2>2. a \in Earlier(r, n, b) /\ a \notin Earlier(r, n, a)
    BY <1>2, <1>5 DEF Earlier
  <2>3. /\ Cardinality(Earlier(r, n, a)) <= Cardinality(Earlier(r, n, b))
        /\ Cardinality(Earlier(r, n, a)) # Cardinality(Earlier(r, n, b))
    BY <1>3, <2>1, <2>2, FS_Subset
  <2> QED
    BY <1>3, <2>3
<1>6. \A j \in 1 .. n : i # j => sortsBefore(r, i, j) \/ sortsBefore(r, j, i)
  BY DEF sortsBefore
<1>7. ASSUME NEW j \in 1 .. n, i # j, Cardinality(Earlier(r, n, i)) = Cardinality(Earlier(r, n, j)) PROVE FALSE
  <2>1. CASE sortsBefore(r, i, j)
    BY <1>3, <1>5, <1>7, <2>1
  <2>2. CASE sortsBefore(r, j, i)
    BY <1>3, <1>5, <1>7, <2>2
  <2> QED
    BY <1>6, <1>7, <2>1, <2>2
<1> QED
  BY <1>3, <1>4, <1>7

LEMMA SortedIs ==
  ASSUME NEW n \in Nat, NEW r \in [1 .. n -> Int], NEW at, at = sorted(r)
  PROVE  /\ at \in [1 .. n -> 1 .. n]
         /\ \A k, l \in 1 .. n : at[k] = at[l] => k = l
         /\ \A k \in 1 .. n, i \in 1 .. n : Cardinality(Earlier(r, n, i)) = k - 1 => at[k] = i
<1>1. PICK c : c = [i \in 1 .. n |-> Cardinality(Earlier(r, n, i))]
  OBVIOUS
<1>2. c \in [1 .. n -> 0 .. n - 1] /\ \A i, j \in 1 .. n : c[i] = c[j] => i = j
  BY <1>1, EarlierCounts
<1>3. c \in Surjection(1 .. n, 0 .. n - 1)
  <2>1. c \in Injection(1 .. n, 0 .. n - 1)
    BY <1>2 DEF Injection, IsInjective
  <2>2. IsFiniteSet(0 .. n - 1) /\ Cardinality(0 .. n - 1) = n
    BY FS_Interval
  <2>3. Cardinality(1 .. n) = n
    BY FS_Interval
  <2> QED
    BY <2>1, <2>2, <2>3, FS_Injection
<1>4. \A x \in 0 .. n - 1 : \E i \in 1 .. n : c[i] = x
  BY <1>3 DEF Surjection
<1>5. at = [k \in 1 .. n |-> CHOOSE i \in 1 .. n : Cardinality(Earlier(r, n, i)) = k - 1]
  <2>1. DOMAIN r = 1 .. n
    OBVIOUS
  <2> QED
    BY <2>1 DEF sorted, Earlier
<1>6. ASSUME NEW k \in 1 .. n PROVE at[k] \in 1 .. n /\ c[at[k]] = k - 1
  <2>1. k - 1 \in 0 .. n - 1
    OBVIOUS
  <2>2. PICK i \in 1 .. n : c[i] = k - 1
    BY <1>4, <2>1
  <2>3. Cardinality(Earlier(r, n, i)) = k - 1
    BY <1>1, <2>2
  <2>4. at[k] = CHOOSE j \in 1 .. n : Cardinality(Earlier(r, n, j)) = k - 1
    BY <1>5
  <2>5. at[k] \in 1 .. n /\ Cardinality(Earlier(r, n, at[k])) = k - 1
    BY <2>3, <2>4
  <2> QED
    BY <1>1, <2>5
<1>7. at \in [1 .. n -> 1 .. n]
  BY <1>5, <1>6
<1>8. \A k, l \in 1 .. n : at[k] = at[l] => k = l
  <2> SUFFICES ASSUME NEW k \in 1 .. n, NEW l \in 1 .. n, at[k] = at[l] PROVE k = l
    OBVIOUS
  <2>1. k - 1 = l - 1
    BY <1>6
  <2> QED
    BY <2>1
<1>9. \A k \in 1 .. n, i \in 1 .. n : Cardinality(Earlier(r, n, i)) = k - 1 => at[k] = i
  BY <1>1, <1>2, <1>6
<1> QED
  BY <1>7, <1>8, <1>9

LEMMA SortedAt ==
  ASSUME NEW n \in Nat, NEW r \in [1 .. n -> Int], NEW at, at = sorted(r),
         NEW k \in 1 .. n, NEW i \in 1 .. n, Cardinality(Earlier(r, n, i)) = k - 1
  PROVE  at[k] = i
<1>1. \A j \in 1 .. n, l \in 1 .. n : Cardinality(Earlier(r, n, l)) = j - 1 => at[j] = l
  BY ONLY SortedIs, n \in Nat, r \in [1 .. n -> Int], at = sorted(r)
<1> QED
  BY <1>1

Once(s, n) == \A i, j \in 1 .. n : s[i] = s[j] => i = j
Permutes(p, n) == p \in [1 .. n -> 1 .. n] /\ Once(p, n)

Follows(w, t, p, n) == \A k \in 1 .. n : w[k] = t[p[k]]

\* A list without repetitions, sorted by an order of all its elements, is that order.
LEMMA SortsBack ==
  ASSUME NEW n \in Nat, NEW t \in [1 .. n -> Session], Once(t, n),
         NEW p, Permutes(p, n),
         NEW w \in [1 .. n -> Session], Follows(w, t, p, n),
         NEW r, r = ranks(t, w)
  PROVE  sorted(r) = p
<1>0. p \in [1 .. n -> 1 .. n] /\ (\A i, j \in 1 .. n : p[i] = p[j] => i = j)
      /\ (\A i, j \in 1 .. n : t[i] = t[j] => i = j) /\ \A k \in 1 .. n : w[k] = t[p[k]]
  BY DEF Permutes, Once, Follows
<1>1. \A i \in 1 .. n : \E k \in 1 .. n : p[k] = i
  <2>1. p \in Injection(1 .. n, 1 .. n)
    BY <1>0 DEF Injection, IsInjective
  <2>2. IsFiniteSet(1 .. n)
    BY FS_Interval
  <2>3. p \in Surjection(1 .. n, 1 .. n)
    BY <2>1, <2>2, FS_Injection
  <2> QED
    BY <2>3 DEF Surjection
<1>2. ASSUME NEW k \in 1 .. n PROVE rank(w, t[p[k]]) = k
  <2>1. PICK Q : Q = {i \in DOMAIN w : w[i] = t[p[k]]}
    OBVIOUS
  <2>2. Q = {k}
    <3>1. k \in Q
      BY <1>0, <2>1
    <3>2. ASSUME NEW i \in Q PROVE i = k
      <4>1. i \in 1 .. n /\ t[p[i]] = t[p[k]]
        BY <1>0, <2>1
      <4>2. p[i] = p[k]
        BY <1>0, <4>1
      <4> QED
        BY <1>0, <4>1, <4>2
    <3> QED
      BY <3>1, <3>2
  <2>3. t[p[k]] \in ToSet(w)
    BY <2>1, <2>2 DEF ToSet
  <2>4. Max(Q) = k
    <3>1. Q \in SUBSET Nat /\ Q # {} /\ \A x \in Q : x <= n
      BY <2>2
    <3>2. PICK m : m = Max(Q)
      OBVIOUS
    <3>3. m \in Q
      BY <3>1, <3>2, GreatestOf
    <3> QED
      BY <2>2, <3>2, <3>3
  <2> QED
    BY <2>1, <2>3, <2>4 DEF rank
<1>3. r = [i \in 1 .. n |-> rank(w, t[i])]
  BY DEF ranks
<1>4. \A i \in 1 .. n : r[i] \in 1 .. n
  BY <1>0, <1>1, <1>2, <1>3
<1>5. r \in [1 .. n -> Int]
  BY <1>3, <1>4
<1>6. \A k \in 1 .. n : r[p[k]] = k
  BY <1>0, <1>2, <1>3
<1>7. ASSUME NEW k \in 1 .. n PROVE Cardinality(Earlier(r, n, p[k])) = k - 1
  <2>1. PICK E : E = Earlier(r, n, p[k])
    OBVIOUS
  <2>2. \A x \in 1 .. k - 1 : x \in 1 .. n /\ p[x] \in E
    BY <1>0, <1>6, <2>1 DEF Earlier, sortsBefore
  <2>3. \A j \in E : \E x \in 1 .. k - 1 : p[x] = j
    <3> SUFFICES ASSUME NEW j \in E PROVE \E x \in 1 .. k - 1 : p[x] = j
      OBVIOUS
    <3>1. j \in 1 .. n /\ sortsBefore(r, j, p[k])
      BY <2>1 DEF Earlier
    <3>2. PICK x \in 1 .. n : p[x] = j
      BY <1>1, <3>1
    <3>3. r[j] = x /\ r[p[k]] = k
      BY <1>0, <1>6, <3>2
    <3>4. x < k
      <4>1. ~(x = k /\ j < p[k])
        BY <3>1, <3>2
      <4> QED
        BY <3>1, <3>3, <4>1 DEF sortsBefore
    <3>5. x \in 1 .. k - 1
      BY <3>4
    <3> QED
      BY <3>2, <3>5
  <2>4. PICK f : f = [x \in 1 .. k - 1 |-> p[x]]
    OBVIOUS
  <2>5. f \in [1 .. k - 1 -> E]
    BY <1>0, <2>2, <2>4
  <2>6. \A x, y \in 1 .. k - 1 : f[x] = f[y] => x = y
    BY <1>0, <2>2, <2>4
  <2>7. \A j \in E : \E x \in 1 .. k - 1 : f[x] = j
    BY <2>3, <2>4
  <2>8. IsFiniteSet(1 .. k - 1) /\ Cardinality(1 .. k - 1) = k - 1
    BY FS_Interval
  <2>9. Cardinality(1 .. k - 1) = Cardinality(E)
    <3>1. PICK A : A = 1 .. k - 1
      OBVIOUS
    <3>2. IsFiniteSet(A) /\ f \in [A -> E]
      BY <2>5, <2>8, <3>1
    <3>3. /\ \A x, y \in A : f[x] = f[y] => x = y
          /\ \A j \in E : \E x \in A : f[x] = j
      BY <2>6, <2>7, <3>1
    <3>4. Cardinality(A) = Cardinality(E)
      BY <3>2, <3>3, SameNumber
    <3> QED
      BY <3>1, <3>4
  <2> QED
    BY <2>1, <2>8, <2>9
<1>8. PICK at : at = sorted(r)
  OBVIOUS
<1>9. at \in [1 .. n -> 1 .. n] /\ \A k \in 1 .. n : at[k] = p[k]
  <2>1. at \in [1 .. n -> 1 .. n]
    BY <1>5, <1>8, SortedIs
  <2>2. ASSUME NEW k \in 1 .. n PROVE at[k] = p[k]
    <3>1. PICK i \in 1 .. n : i = p[k]
      BY <1>0
    <3>2. Cardinality(Earlier(r, n, i)) = k - 1
      BY <1>7, <3>1
    <3>3. at[k] = i
      BY ONLY <1>5, <1>8, <3>2, SortedAt, n \in Nat, k \in 1 .. n, i \in 1 .. n
    <3> QED
      BY <3>1, <3>3
  <2> QED
    BY <2>1, <2>2
<1>10. at = p
  BY <1>0, <1>9
<1> QED
  BY <1>8, <1>10

\* The stored indices on screen are all different, and all of them when all tiles show.
LEMMA AscendsOnce ==
  ASSUME NEW n \in Nat, NEW P \in SUBSET (1 .. n), NEW map, map = Ascending(P), NEW m, m = Len(map)
  PROVE  Once(map, m) /\ (P = 1 .. n => m = n /\ \A i \in 1 .. m : map[i] = i)
<1>1. PICK Q : Q = P \cup {0}
  OBVIOUS
<1>2. Q \in SUBSET Nat
  BY <1>1
<1>3. PICK top : top = Max(Q)
  OBVIOUS
<1>4. top \in Q /\ \A x \in Q : x <= top
  <2>1. Q # {} /\ \A x \in Q : x <= n
    BY <1>1
  <2> QED
    BY ONLY <1>2, <1>3, <2>1, GreatestOf, n \in Nat
<1>5. top \in 0 .. n
  BY <1>1, <1>4
<1>6. PICK q : q = [i \in 1 .. top |-> i]
  OBVIOUS
<1>7. q \in Seq(Nat) /\ Len(q) = top /\ \A i \in 1 .. top : q[i] = i
  BY <1>5, <1>6
<1>8. map = Filter(q, P)
  BY <1>1, <1>3, <1>6 DEF Ascending
<1>9. map \in Seq(Nat) /\ \E h : Picks(map, q, P, top, h)
  BY <1>7, <1>8, FilterPicks
<1>10. m \in Nat
  BY <1>9
<1>11. PICK h : Picks(map, q, P, top, h)
  BY <1>9
<1>12. /\ h \in [1 .. m -> 1 .. top] /\ \A i, j \in 1 .. m : i < j => h[i] < h[j]
       /\ \A i \in 1 .. m : map[i] = q[h[i]]
  BY <1>11 DEF Picks
<1>13. \A i \in 1 .. m : map[i] = h[i] /\ h[i] \in Nat
  BY <1>5, <1>7, <1>12
<1>14. ASSUME NEW i \in 1 .. m, NEW j \in 1 .. m, map[i] = map[j] PROVE i = j
  <2>1. i \in Int /\ j \in Int /\ h[i] = h[j]
    BY <1>10, <1>13, <1>14
  <2>2. ~(i < j) /\ ~(j < i)
    BY <1>12, <1>13, <2>1
  <2> QED
    BY <2>1, <2>2
<1>15. ASSUME P = 1 .. n PROVE m = n /\ \A i \in 1 .. m : map[i] = i
  <2>1. top = n
    BY <1>1, <1>4, <1>5, <1>15
  <2>2. \A i \in 1 .. Len(q) : q[i] \in P <=> i <= n
    BY <1>7, <1>15, <2>1
  <2>3. Len(map) = n /\ \A i \in 1 .. n : map[i] = q[i]
    BY <1>7, <1>8, <2>1, <2>2, FilterPrefix
  <2> QED
    BY <1>7, <2>1, <2>3
<1> QED
  BY <1>14, <1>15 DEF Once

\* Packed lists with the same sessions in front are the same.
LEMMA PackedSame ==
  ASSUME NEW k, NEW s, Packed(s, k), NEW t, Packed(t, k), Len(s) = Len(t),
         \A i \in 1 .. k : s[i] = t[i]
  PROVE  s = t
<1>1. s \in Seq(Cell) /\ t \in Seq(Cell) /\ k \in Nat
  BY DEF Packed
<1>2. PICK n \in Nat : n = Len(s) /\ n = Len(t)
  BY <1>1
<1>3. s \in [1 .. n -> Cell] /\ t \in [1 .. n -> Cell]
  BY <1>1, <1>2
<1>4. ASSUME NEW i \in 1 .. n PROVE s[i] = t[i]
  <2>1. CASE i <= k
    BY <1>1, <2>1
  <2>2. CASE ~(i <= k)
    <3>1. s[i] \notin Session /\ t[i] \notin Session
      BY <1>2, <2>2 DEF Packed
    <3> QED
      BY <1>3, <3>1 DEF Cell
  <2> QED
    BY <2>1, <2>2
<1> QED
  BY <1>3, <1>4

\* v is t with two of its first k tiles exchanged.
Exchanged(v, t, k, a, b) ==
  /\ Packed(v, k) /\ Len(v) = Len(t)
  /\ \A i \in 1 .. k : v[i] = IF i = b THEN t[a] ELSE IF i = a THEN t[b] ELSE t[i]

LEMMA SwappedPacked ==
  ASSUME NEW k, NEW t, Packed(t, k), NEW a \in 1 .. k, NEW b \in 1 .. k, NEW v, v = Swapped(t, a, b)
  PROVE  Exchanged(v, t, k, a, b)
<1>1. t \in Seq(Cell) /\ k \in Nat /\ k <= Len(t) /\ \A i \in 1 .. Len(t) : t[i] \in Session <=> i <= k
  BY DEF Packed
<1>2. PICK n \in Nat : n = Len(t)
  BY <1>1
<1>3. t \in [1 .. n -> Cell] /\ a \in 1 .. n /\ b \in 1 .. n
  BY <1>1, <1>2
<1>4. v \in [1 .. n -> Cell] /\ \A i \in 1 .. n : v[i] = IF i = b THEN t[a] ELSE IF i = a THEN t[b] ELSE t[i]
  BY <1>3 DEF Swapped
<1>5. v \in Seq(Cell) /\ Len(v) = n
  BY <1>4
<1>6. t[a] \in Session /\ t[b] \in Session
  BY <1>1, <1>2, <1>3
<1>7. \A i \in 1 .. n : v[i] \in Session <=> i <= k
  BY <1>1, <1>2, <1>3, <1>4, <1>6
<1>8. Packed(v, k)
  BY <1>1, <1>2, <1>5, <1>7 DEF Packed
<1>9. \A i \in 1 .. k : i \in 1 .. n
  BY <1>1, <1>2
<1> QED
  BY <1>2, <1>4, <1>5, <1>8, <1>9 DEF Exchanged

\* An exchange of two tiles of a layout changes nothing else in it.
LEMMA SwapIsSwapped ==
  ASSUME NEW l, LayoutFits(l), NEW k, k = Count(l.tiles), NEW a \in 1 .. k, NEW b \in 1 .. k,
         NEW u, u = swapTiles(l, a, b)
  PROVE  u.tiles = Swapped(l.tiles, a, b) /\ u.cols = l.cols /\ LayoutFits(u)
<1>1. PICK t : t = l.tiles
  OBVIOUS
<1>2. Packed(t, k) /\ Len(t) = Cells(k, l.cols) /\ l.cols \in 1 .. MAX_COLS /\ l.cols \in Int
  BY <1>1, LayoutFitsIs
<1>3. PICK v : v = Swapped(t, a, b)
  OBVIOUS
<1>4. Packed(v, k) /\ Len(v) = Len(t)
  BY <1>2, <1>3, SwappedPacked DEF Exchanged
<1>5. v \in Seq(Cell) /\ Len(Occupied(v)) = k /\ \A i \in 1 .. k : Occupied(v)[i] = v[i]
  BY <1>4, OccupiedPrefix DEF Packed
<1>6. u = normalize(v, l.cols, l.rowSizes, l.colSizes)
  BY <1>1, <1>3 DEF swapTiles, Repacked
<1>7. u.cols = clampCols(l.cols) /\ LayoutFits(u)
  BY <1>2, <1>5, <1>6, NormalizeTiles
<1>8. u.cols = l.cols
  BY <1>2, <1>7, LayoutAssumption DEF clampCols, Least, Most
<1>9. PICK w : w = u.tiles
  OBVIOUS
<1>10. Packed(w, Len(Occupied(v))) /\ Len(w) = Cells(Len(Occupied(v)), u.cols)
       /\ \A i \in 1 .. Len(Occupied(v)) : w[i] = Occupied(v)[i]
  BY <1>2, <1>5, <1>6, <1>9, NormalizeTiles
<1>11. Packed(w, k) /\ Len(w) = Len(v) /\ \A i \in 1 .. k : w[i] = v[i]
  BY <1>2, <1>4, <1>5, <1>8, <1>10
<1>12. w = v
  BY <1>4, <1>11, PackedSame
<1> QED
  BY <1>1, <1>3, <1>7, <1>8, <1>9, <1>12

\* A drop that is translated to the layout exchanges the tiles on screen.
LEMMA DropOnLayout ==
  ASSUME NEW l, LayoutFits(l), NEW shows \in SUBSET Session, NEW f, f = filterLayout(l, shows),
         NEW m, m = Len(f.map), NEW a \in 1 .. m, NEW b \in 1 .. m,
         NEW u, u = swapTiles(l, f.map[a], f.map[b]), NEW g, g = filterLayout(u, shows)
  PROVE  g.view.tiles = Swapped(f.view.tiles, a, b)
<1>1. PICK P : P = {i \in DOMAIN l.tiles : l.tiles[i] \in shows}
  OBVIOUS
<1>2. Filtered(f, l, shows, m, P)
  BY <1>1, FilteredTiles
<1>3. PICK map : map = f.map
  OBVIOUS
<1>4. PICK t : t = l.tiles
  OBVIOUS
<1>5. /\ map = Ascending(P) /\ m \in Nat /\ ToSet(map) = P
      /\ Packed(f.view.tiles, m) /\ Len(f.view.tiles) = Cells(m, l.cols)
      /\ \A j \in 1 .. m : map[j] \in DOMAIN t /\ t[map[j]] \in shows /\ f.view.tiles[j] = t[map[j]]
  BY <1>2, <1>3, <1>4 DEF Filtered
<1>6. PICK k \in Nat : k = Count(t) /\ Packed(t, k) /\ Len(t) = Cells(k, l.cols)
  BY <1>4, LayoutFitsIs DEF Packed
<1>7. t \in Seq(Cell) /\ DOMAIN t = 1 .. Len(t) /\ Len(t) \in Nat /\ k <= Len(t)
  BY <1>6 DEF Packed
<1>8. \A j \in 1 .. m : map[j] \in 1 .. k
  BY <1>5, <1>6, <1>7 DEF Packed
<1>9. PICK x, y : x = map[a] /\ y = map[b]
  OBVIOUS
<1>10. x \in 1 .. k /\ y \in 1 .. k
  BY <1>8, <1>9
<1>11. u.tiles = Swapped(t, x, y) /\ u.cols = l.cols /\ LayoutFits(u)
  <2>1. u = swapTiles(l, x, y) /\ k = Count(l.tiles)
    BY <1>3, <1>4, <1>6, <1>9
  <2>2. u.tiles = Swapped(l.tiles, x, y) /\ u.cols = l.cols /\ LayoutFits(u)
    BY ONLY <1>10, <2>1, SwapIsSwapped, LayoutFits(l)
  <2> QED
    BY <1>4, <2>2
<1>12. PICK v : v = u.tiles
  OBVIOUS
<1>13. /\ Packed(v, k) /\ Len(v) = Len(t)
       /\ \A i \in 1 .. k : v[i] = IF i = y THEN t[x] ELSE IF i = x THEN t[y] ELSE t[i]
  <2>1. v = Swapped(t, x, y) /\ Packed(t, k)
    BY <1>6, <1>11, <1>12
  <2>2. Exchanged(v, t, k, x, y)
    BY ONLY <1>10, <2>1, SwappedPacked
  <2> QED
    BY <2>2 DEF Exchanged
<1>14. DOMAIN v = DOMAIN t
  BY <1>7, <1>13 DEF Packed
<1>15. t[x] \in shows /\ t[y] \in shows
  BY <1>5, <1>9
<1>16. \A i \in DOMAIN t : v[i] \in shows <=> t[i] \in shows
  <2> SUFFICES ASSUME NEW i \in DOMAIN t PROVE v[i] \in shows <=> t[i] \in shows
    OBVIOUS
  <2>1. CASE i <= k
    <3>1. i \in 1 .. k
      BY <1>7, <2>1
    <3> QED
      BY <1>13, <1>15, <3>1
  <2>2. CASE ~(i <= k)
    <3>1. i \in 1 .. Len(t) /\ i \in 1 .. Len(v)
      BY <1>7, <1>13
    <3>2. t[i] \notin Session /\ v[i] \notin Session
      BY <1>6, <1>13, <2>2, <3>1 DEF Packed
    <3> QED
      BY <3>2
  <2> QED
    BY <2>1, <2>2
<1>17. P = {i \in DOMAIN u.tiles : u.tiles[i] \in shows}
  BY <1>1, <1>4, <1>12, <1>14, <1>16
<1>18. PICK n : n = Len(g.map)
  OBVIOUS
<1>19. Filtered(g, u, shows, n, P)
  BY <1>11, <1>17, <1>18, FilteredTiles
<1>20. g.map = map /\ n = m
  BY <1>3, <1>5, <1>18, <1>19 DEF Filtered
<1>21. PICK w : w = g.view.tiles
  OBVIOUS
<1>22. /\ Packed(w, m) /\ Len(w) = Cells(m, l.cols)
       /\ \A j \in 1 .. m : w[j] = v[map[j]]
  BY <1>11, <1>12, <1>19, <1>20, <1>21 DEF Filtered
<1>23. \A i, j \in 1 .. m : map[i] = map[j] => i = j
  <2>1. PICK n0 \in Nat : n0 = Len(t)
    BY <1>7
  <2>2. P \in SUBSET (1 .. n0)
    BY <1>1, <1>4, <1>7, <2>1
  <2>3. m = Len(map) /\ map = Ascending(P)
    BY <1>3, <1>5
  <2>4. Once(map, m)
    BY ONLY <2>2, <2>3, AscendsOnce, n0 \in Nat
  <2> QED
    BY <2>4 DEF Once
<1>24. PICK s : s = f.view.tiles
  OBVIOUS
<1>25. PICK z : z = Swapped(s, a, b)
  OBVIOUS
<1>26. /\ Packed(z, m) /\ Len(z) = Len(s)
       /\ \A i \in 1 .. m : z[i] = IF i = b THEN s[a] ELSE IF i = a THEN s[b] ELSE s[i]
  <2>1. Packed(s, m)
    BY <1>5, <1>24
  <2> QED
    <3>1. Exchanged(z, s, m, a, b)
      BY ONLY <1>25, <2>1, SwappedPacked, a \in 1 .. m, b \in 1 .. m
    <3> QED
      BY <3>1 DEF Exchanged
<1>27. ASSUME NEW j \in 1 .. m PROVE w[j] = z[j]
  <2>1. w[j] = IF map[j] = y THEN t[x] ELSE IF map[j] = x THEN t[y] ELSE t[map[j]]
    BY <1>8, <1>13, <1>22
  <2>2. (map[j] = y <=> j = b) /\ (map[j] = x <=> j = a)
    BY <1>9, <1>23
  <2>3. s[a] = t[x] /\ s[b] = t[y] /\ s[j] = t[map[j]]
    BY <1>5, <1>9, <1>24
  <2> QED
    BY <1>26, <2>1, <2>2, <2>3
<1>28. w = z
  BY <1>5, <1>22, <1>24, <1>26, <1>27, PackedSame
<1> QED
  BY <1>21, <1>24, <1>25, <1>28

\* What an arrangement makes of a filtered view: its tiles in another order.
RankedIn(t, n, o) == ranks(t, o) \in [1 .. n -> Int]

LEMMA RanksAreNumbers ==
  ASSUME NEW n \in Nat, NEW t \in [1 .. n -> Session], NEW o \in Seq(Session)
  PROVE  RankedIn(t, n, o)
<1>1. PICK k \in Nat : k = Len(o) /\ DOMAIN o = 1 .. k
  OBVIOUS
<1>2. ASSUME NEW x PROVE rank(o, x) \in Int
  <2>1. CASE x \in ToSet(o)
    <3>1. PICK Q : Q = {i \in DOMAIN o : o[i] = x}
      OBVIOUS
    <3>2. Q \in SUBSET Nat /\ Q # {} /\ \A i \in Q : i <= k
      BY <1>1, <2>1, <3>1 DEF ToSet
    <3>3. PICK g : g = Max(Q)
      OBVIOUS
    <3>4. g \in Q
      BY ONLY <3>2, <3>3, GreatestOf, k \in Nat
    <3>5. rank(o, x) = g
      BY <2>1, <3>1, <3>3 DEF rank
    <3> QED
      BY <3>2, <3>4, <3>5
  <2>2. CASE x \notin ToSet(o)
    BY <1>1, <2>2 DEF rank
  <2> QED
    BY <2>1, <2>2
<1>3. ranks(t, o) = [i \in 1 .. n |-> rank(o, t[i])]
  BY DEF ranks
<1> QED
  BY <1>2, <1>3 DEF RankedIn

\* What a view shows of its first n tiles in the order p.
ShownAs(v, t, n, p) == Packed(v, n) /\ \A i \in 1 .. n : v[i] = t[p[i]]

LEMMA AppliedIs ==
  ASSUME NEW n \in Nat, NEW f, Packed(f.view.tiles, n), NEW o, o.order \in Seq(Session), o.cols \in Int,
         NEW p, p = sorted(ranks(Occupied(f.view.tiles), o.order)),
         NEW v, v = applyOverlay(f, o).view
  PROVE  /\ Permutes(p, n) /\ ShownAs(v.tiles, f.view.tiles, n, p)
         /\ v.cols = clampCols(o.cols) /\ Len(v.tiles) = Cells(n, clampCols(o.cols))
<1>1. PICK s : s = f.view.tiles
  OBVIOUS
<1>2. PICK t : t = Occupied(s)
  OBVIOUS
<1>3. s \in Seq(Cell) /\ Len(t) = n /\ \A i \in 1 .. n : t[i] = s[i] /\ t[i] \in Session
  <2>1. s \in Seq(Cell)
    BY <1>1 DEF Packed
  <2>2. Len(t) = n /\ \A i \in 1 .. n : t[i] = s[i]
    BY <1>1, <1>2, OccupiedPrefix
  <2>3. \A i \in 1 .. n : t[i] \in Session
    BY <1>2, <2>1, <2>2, OccupiedIs
  <2> QED
    BY <2>1, <2>2, <2>3
<1>4. t \in [1 .. n -> Session]
  <2>1. t \in Seq(Cell)
    BY <1>2, <1>3, OccupiedIs
  <2> QED
    BY <1>3, <2>1
<1>5. PICK w : w = o.order
  OBVIOUS
<1>6. PICK r : r = ranks(t, w)
  OBVIOUS
<1>7. r \in [1 .. n -> Int]
  <2>1. w \in Seq(Session)
    BY <1>5
  <2>2. RankedIn(t, n, w)
    BY ONLY <1>4, <2>1, RanksAreNumbers, n \in Nat
  <2> QED
    BY <1>6, <2>2 DEF RankedIn
<1>8. p = sorted(r)
  BY <1>1, <1>2, <1>5, <1>6
<1>9. p \in [1 .. n -> 1 .. n] /\ \A k, l \in 1 .. n : p[k] = p[l] => k = l
  BY ONLY <1>7, <1>8, SortedIs, n \in Nat
<1>10. PICK u : u = [i \in DOMAIN p |-> t[p[i]]]
  OBVIOUS
<1>11. u \in Seq(Cell) /\ Len(u) = n /\ \A i \in 1 .. n : u[i] = s[p[i]] /\ u[i] \in Session
  <2>1. u \in [1 .. n -> Session] /\ \A i \in 1 .. n : u[i] = t[p[i]]
    BY <1>4, <1>9, <1>10
  <2>2. u \in [1 .. n -> Cell]
    BY <2>1 DEF Cell
  <2>3. u \in Seq(Cell) /\ Len(u) = n
    BY <2>2
  <2>4. \A i \in 1 .. n : p[i] \in 1 .. n
    BY <1>9
  <2>5. \A i \in 1 .. n : t[p[i]] = s[p[i]]
    BY <1>3, <2>4
  <2> QED
    BY <2>1, <2>3, <2>5
<1>12. Packed(u, n)
  BY <1>11 DEF Packed
<1>13. Len(Occupied(u)) = n /\ \A i \in 1 .. n : Occupied(u)[i] = u[i]
  BY <1>12, OccupiedPrefix
<1>14. v = normalize(u, o.cols, o.rowSizes, o.colSizes)
  BY <1>1, <1>2, <1>5, <1>6, <1>8, <1>10 DEF applyOverlay
<1>15. PICK k : k = Len(Occupied(u))
  OBVIOUS
<1>16. PICK z : z = v.tiles
  OBVIOUS
<1>17. v.cols = clampCols(o.cols) /\ Packed(z, k) /\ Len(z) = Cells(k, v.cols)
  BY <1>11, <1>14, <1>15, <1>16, NormalizeTiles
<1>18. \A i \in 1 .. k : z[i] = Occupied(u)[i]
  BY <1>11, <1>14, <1>15, <1>16, NormalizeTiles
<1>19. ShownAs(z, s, n, p)
  BY <1>11, <1>13, <1>15, <1>17, <1>18 DEF ShownAs
<1> QED
  BY <1>1, <1>9, <1>13, <1>15, <1>16, <1>17, <1>19 DEF Permutes, Once

LEMMA SwapPermutes ==
  ASSUME NEW n \in Nat, NEW p, Permutes(p, n), NEW a \in 1 .. n, NEW b \in 1 .. n, NEW q, q = Swapped(p, a, b)
  PROVE  Permutes(q, n)
<1>1. p \in [1 .. n -> 1 .. n] /\ \A i, j \in 1 .. n : p[i] = p[j] => i = j
  BY DEF Permutes, Once
<1>2. /\ q \in [1 .. n -> 1 .. n]
      /\ \A i \in 1 .. n : q[i] = IF i = b THEN p[a] ELSE IF i = a THEN p[b] ELSE p[i]
  BY <1>1 DEF Swapped
<1>3. \A i, j \in 1 .. n : q[i] = q[j] => i = j
  BY <1>1, <1>2
<1> QED
  BY <1>2, <1>3 DEF Permutes, Once

\* Under a solo a drop exchanges two names of the order, and so the two tiles.
LEMMA DropOnArrangement ==
  ASSUME NEW n \in Nat, NEW f, NEW s, s = f.view.tiles, Packed(s, n), Once(s, n),
         NEW x, NEW p, Permutes(p, n), ShownAs(x.tiles, s, n, p),
         NEW c \in Int, Len(x.tiles) = Cells(n, clampCols(c)),
         NEW a \in 1 .. n, NEW b \in 1 .. n,
         NEW o, o.order = Swapped(orderOf(x), a, b), o.cols = c,
         NEW v, v = applyOverlay(f, o).view
  PROVE  v.tiles = Swapped(x.tiles, a, b)
<1>1. PICK t : t = Occupied(s)
  OBVIOUS
<1>2. t \in [1 .. n -> Session] /\ \A i \in 1 .. n : t[i] = s[i]
  <2>1. Len(t) = n /\ \A i \in 1 .. n : t[i] = s[i]
    BY <1>1, OccupiedPrefix
  <2>2. s \in Seq(Cell)
    BY DEF Packed
  <2>3. t \in Seq(Cell) /\ \A i \in 1 .. n : t[i] \in Session
    BY <1>1, <2>1, <2>2, OccupiedIs
  <2> QED
    BY <2>1, <2>3
<1>3. PICK y : y = x.tiles
  OBVIOUS
<1>4. Packed(y, n) /\ \A i \in 1 .. n : y[i] = s[p[i]]
  BY <1>3 DEF ShownAs
<1>5. PICK w0 : w0 = Occupied(y)
  OBVIOUS
<1>6. Len(w0) = n /\ \A i \in 1 .. n : w0[i] = y[i]
  BY <1>4, <1>5, OccupiedPrefix
<1>7. p \in [1 .. n -> 1 .. n] /\ \A i, j \in 1 .. n : p[i] = p[j] => i = j
  BY DEF Permutes, Once
<1>8. \A i \in 1 .. n : p[i] \in 1 .. n
  BY <1>7
<1>9. w0 \in [1 .. n -> Session] /\ \A i \in 1 .. n : w0[i] = t[p[i]]
  <2>1. y \in Seq(Cell)
    BY <1>4 DEF Packed
  <2>2. w0 \in Seq(Cell)
    BY <1>5, <2>1, OccupiedIs
  <2>3. \A i \in 1 .. n : w0[i] = t[p[i]] /\ t[p[i]] \in Session
    BY <1>2, <1>4, <1>6, <1>8
  <2> QED
    BY <1>6, <2>2, <2>3
<1>10. PICK w : w = Swapped(w0, a, b)
  OBVIOUS
<1>11. w = o.order
  BY <1>3, <1>5, <1>10 DEF orderOf
<1>12. PICK q : q = Swapped(p, a, b)
  OBVIOUS
<1>13. Permutes(q, n)
  BY <1>12, SwapPermutes
<1>14. \A i \in 1 .. n : q[i] = IF i = b THEN p[a] ELSE IF i = a THEN p[b] ELSE p[i]
  BY <1>7, <1>12 DEF Swapped
<1>15. /\ w \in [1 .. n -> Session]
       /\ \A i \in 1 .. n : w[i] = IF i = b THEN w0[a] ELSE IF i = a THEN w0[b] ELSE w0[i]
  BY <1>9, <1>10 DEF Swapped
<1>16. \A k \in 1 .. n : w[k] = t[q[k]]
  BY <1>9, <1>14, <1>15
<1>18. Once(t, n)
  BY <1>2 DEF Once
<1>19. PICK r : r = ranks(t, w)
  OBVIOUS
<1>17. t \in [1 .. n -> Session] /\ w \in [1 .. n -> Session] /\ Follows(w, t, q, n)
  BY <1>2, <1>15, <1>16 DEF Follows
<1>20. sorted(r) = q
  BY ONLY <1>13, <1>17, <1>18, <1>19, SortsBack, n \in Nat
<1>21. w \in Seq(Session)
  BY <1>15
<1>22. q = sorted(ranks(Occupied(f.view.tiles), o.order))
  BY <1>1, <1>11, <1>19, <1>20
<1>23. o.order \in Seq(Session) /\ o.cols \in Int /\ Packed(f.view.tiles, n)
  BY <1>11, <1>21
<1>24. ShownAs(v.tiles, f.view.tiles, n, q) /\ Len(v.tiles) = Cells(n, clampCols(o.cols))
  BY ONLY <1>22, <1>23, AppliedIs, n \in Nat, v = applyOverlay(f, o).view
<1>25. PICK g : g = v.tiles
  OBVIOUS
<1>26. Packed(g, n) /\ Len(g) = Len(y) /\ \A i \in 1 .. n : g[i] = s[q[i]]
  BY <1>3, <1>24, <1>25 DEF ShownAs
<1>27. PICK z : z = Swapped(y, a, b)
  OBVIOUS
<1>28. Exchanged(z, y, n, a, b)
  BY ONLY <1>4, <1>27, SwappedPacked, a \in 1 .. n, b \in 1 .. n
<1>29. /\ Packed(z, n) /\ Len(z) = Len(y)
       /\ \A i \in 1 .. n : z[i] = IF i = b THEN y[a] ELSE IF i = a THEN y[b] ELSE y[i]
  BY <1>28 DEF Exchanged
<1>30. \A i \in 1 .. n : g[i] = z[i]
  BY <1>4, <1>14, <1>26, <1>29
<1>31. g = z
  BY <1>26, <1>29, <1>30, PackedSame
<1> QED
  BY <1>3, <1>25, <1>27, <1>31

LEMMA AtMostOneOf ==
  ASSUME NEW S, IsFiniteSet(S), Cardinality(S) <= 1, NEW x \in S, NEW y \in S
  PROVE  x = y
<1>1. SUFFICES ASSUME x # y PROVE FALSE
  OBVIOUS
<1>2. PICK T : T = {x} \cup {y}
  OBVIOUS
<1>3. IsFiniteSet({x}) /\ Cardinality({x}) = 1
  BY FS_Singleton
<1>4. Cardinality(T) = 2
  BY <1>1, <1>2, <1>3, FS_AddElement
<1>5. T \subseteq S
  BY <1>2
<1>6. Cardinality(T) <= Cardinality(S) /\ Cardinality(S) \in Nat
  BY <1>5, FS_Subset, FS_CardinalityType
<1> QED
  BY <1>4, <1>6

\* Where no session that shows has two tiles, the tiles on screen are all different.
LEMMA ShownOnce ==
  ASSUME NEW l, LayoutFits(l), NEW shows \in SUBSET Session, NEW f, f = filterLayout(l, shows),
         NEW n, n = Len(f.map), \A s \in shows : Copies(l, s) <= 1
  PROVE  Once(f.view.tiles, n)
<1>1. PICK P : P = {i \in DOMAIN l.tiles : l.tiles[i] \in shows}
  OBVIOUS
<1>2. Filtered(f, l, shows, n, P)
  BY <1>1, FilteredTiles
<1>3. PICK map : map = f.map
  OBVIOUS
<1>4. PICK t \in Seq(Cell) : t = l.tiles
  BY LayoutFitsIs
<1>5. PICK k \in Nat : k = Len(t) /\ DOMAIN t = 1 .. k
  BY <1>4
<1>6. /\ map = Ascending(P) /\ n \in Nat /\ n = Len(map)
      /\ \A j \in 1 .. n : map[j] \in DOMAIN t /\ t[map[j]] \in shows /\ f.view.tiles[j] = t[map[j]]
  BY <1>2, <1>3, <1>4 DEF Filtered
<1>7. Once(map, n)
  <2>1. P \in SUBSET (1 .. k)
    BY <1>1, <1>4, <1>5
  <2> QED
    BY ONLY <1>6, <2>1, AscendsOnce, k \in Nat
<1>8. ASSUME NEW i \in 1 .. n, NEW j \in 1 .. n, t[map[i]] = t[map[j]] PROVE i = j
  <2>1. PICK s : s = t[map[i]]
    OBVIOUS
  <2>2. PICK S : S = IndicesOf(t, s)
    OBVIOUS
  <2>6. map[i] \in S /\ map[j] \in S
    BY <1>6, <1>8, <2>1, <2>2 DEF IndicesOf
  <2>7. IsFiniteSet(S)
    BY <1>4, <2>2, IndicesFinite
  <2>3. IsFiniteSet(S) /\ map[i] \in S /\ map[j] \in S
    BY <2>6, <2>7
  <2>4. Cardinality(S) <= 1
    <3>1. s \in shows
      BY <1>6, <2>1
    <3> QED
      BY <1>4, <2>2, <3>1 DEF Copies, IndicesOf
  <2>5. map[i] = map[j]
    BY <2>3, <2>4, AtMostOneOf
  <2> QED
    BY <1>7, <2>5 DEF Once
<1> QED
  BY <1>6, <1>8 DEF Once

\* An arrangement, and one kept for each directory.
Arrangement(o) ==
  /\ o = [cols |-> o.cols, order |-> o.order, rowSizes |-> o.rowSizes, colSizes |-> o.colSizes]
  /\ o.cols \in Int /\ o.order \in Seq(Session)
Arrangements(S) == \A o \in S : Arrangement(o)
ArrangementsFit ==
  /\ Arrangements(overlay)
  /\ DOMAIN stored = Dir /\ \A d \in Dir : Arrangements(stored[d])

LEMMA SoloIsDir == activeSolo # 0 => activeSolo \in Dir /\ activeDirs # {}
<1>1. dirs \subseteq Dir
  BY DirsOfSessions DEF dirs, Running, On
<1>2. activeDirs \subseteq Dir
  BY <1>1 DEF activeDirs, effectiveDirs
<1>3. Cardinality({}) = 0
  BY FS_EmptySet
<1>4. ASSUME activeSolo # 0 PROVE activeSolo \in activeDirs
  <2>1. Cardinality(activeDirs) = 1 /\ activeSolo = CHOOSE d \in activeDirs : TRUE
    BY <1>4 DEF activeSolo
  <2>2. activeDirs # {}
    BY <1>3, <2>1
  <2> QED
    BY <2>1, <2>2
<1> QED
  BY <1>2, <1>4

LEMMA ClampTwice ==
  ASSUME NEW c \in 1 .. MAX_COLS
  PROVE  c \in Int /\ clampCols(c) = c
BY LayoutAssumption DEF clampCols, Least, Most

\* What is on screen under a solo: the tiles that show, in the order of the arrangement.
OnScreenIn(f, n, p) ==
  /\ Permutes(p, n) /\ ShownAs(View.tiles, f.view.tiles, n, p)
  /\ Len(View.tiles) = Cells(n, clampCols(Overlay.cols))

LEMMA ViewIs ==
  ASSUME LayoutFits(layout), Arrangements(overlay), NEW f, f = filterLayout(layout, Shown), NEW n, n = Len(f.map)
  PROVE  (\E p : OnScreenIn(f, n, p)) /\ Arrangement(Overlay) /\ n \in Nat /\ Packed(f.view.tiles, n)
<1>1. PICK shows \in SUBSET Session : shows = Shown
  BY ShownOfSessions
<1>2. PICK P : P = {i \in DOMAIN layout.tiles : layout.tiles[i] \in shows}
  OBVIOUS
<1>3. Filtered(f, layout, shows, n, P)
  BY <1>1, <1>2, FilteredTiles
<1>4. /\ n \in Nat /\ f.view.cols = layout.cols
      /\ Packed(f.view.tiles, n) /\ Len(f.view.tiles) = Cells(n, layout.cols)
  BY <1>3 DEF Filtered
<1>5. layout.cols \in Int /\ clampCols(layout.cols) = layout.cols
  BY LayoutFitsIs, ClampTwice
<1>6. CASE overlay = {}
  <2>1. View = f.view
    BY <1>6 DEF View, OnScreen, Screen
  <2>2. PICK o : o = seedOverlay(View)
    OBVIOUS
  <2>3. Overlay = o
    BY <1>6, <2>2 DEF Overlay
  <2>4. o.cols = layout.cols /\ o.order = Occupied(f.view.tiles)
        /\ o = [cols |-> o.cols, order |-> o.order, rowSizes |-> o.rowSizes, colSizes |-> o.colSizes]
    BY <1>4, <2>1, <2>2 DEF seedOverlay, orderOf
  <2>5. o.order \in Seq(Session)
    <3>1. PICK t : t = Occupied(f.view.tiles)
      OBVIOUS
    <3>2. f.view.tiles \in Seq(Cell)
      BY <1>4 DEF Packed
    <3>3. t \in Seq(Cell) /\ \A i \in 1 .. Len(t) : t[i] \in Session
      BY <3>1, <3>2, OccupiedIs
    <3>4. t \in Seq(Session)
      BY <3>3
    <3> QED
      BY <2>4, <3>1, <3>4
  <2>6. PICK p : p = [i \in 1 .. n |-> i]
    OBVIOUS
  <2>7. Permutes(p, n) /\ ShownAs(f.view.tiles, f.view.tiles, n, p)
    BY <1>4, <2>6 DEF Permutes, Once, ShownAs
  <2>8. OnScreenIn(f, n, p)
    BY <1>4, <1>5, <2>1, <2>3, <2>4, <2>7 DEF OnScreenIn
  <2> QED
    BY <1>4, <1>5, <2>3, <2>4, <2>5, <2>8 DEF Arrangement
<1>7. CASE overlay # {}
  <2>1. PICK o : o = CHOOSE x \in overlay : TRUE
    OBVIOUS
  <2>2. o \in overlay /\ Overlay = o
    BY <1>7, <2>1 DEF Overlay
  <2>3. Arrangement(o)
    BY <2>2 DEF Arrangements
  <2>4. View = applyOverlay(f, o).view
    BY <1>1, <1>7, <2>1 DEF View, OnScreen, Screen
  <2>5. PICK p : p = sorted(ranks(Occupied(f.view.tiles), o.order))
    OBVIOUS
  <2>6. o.order \in Seq(Session) /\ o.cols \in Int
    BY <2>3 DEF Arrangement
  <2>7. PICK v : v = applyOverlay(f, o).view
    OBVIOUS
  <2>8. Permutes(p, n) /\ ShownAs(v.tiles, f.view.tiles, n, p) /\ Len(v.tiles) = Cells(n, clampCols(o.cols))
    <3>1. n \in Nat /\ Packed(f.view.tiles, n)
      BY <1>4
    <3>2. Permutes(p, n)
      BY ONLY <2>5, <2>6, <2>7, <3>1, AppliedIs
    <3>3. ShownAs(v.tiles, f.view.tiles, n, p)
      BY ONLY <2>5, <2>6, <2>7, <3>1, AppliedIs
    <3>4. Len(v.tiles) = Cells(n, clampCols(o.cols))
      BY ONLY <2>5, <2>6, <2>7, <3>1, AppliedIs
    <3> QED
      BY <3>2, <3>3, <3>4
  <2>9. OnScreenIn(f, n, p)
    BY <2>2, <2>4, <2>7, <2>8 DEF OnScreenIn
  <2> QED
    BY <1>4, <2>2, <2>3, <2>9
<1> QED
  BY <1>6, <1>7

LEMMA CountOnScreen ==
  ASSUME NEW f, NEW n \in Nat, NEW p, OnScreenIn(f, n, p)
  PROVE  /\ Count(View.tiles) = n /\ orderOf(View) \in [1 .. n -> Session]
<1>1. PICK y : y = View.tiles
  OBVIOUS
<1>2. Packed(y, n)
  BY <1>1 DEF OnScreenIn, ShownAs
<1>3. PICK w : w = Occupied(y)
  OBVIOUS
<1>4. Len(w) = n
  BY <1>2, <1>3, OccupiedPrefix
<1>5. y \in Seq(Cell)
  BY <1>2 DEF Packed
<1>6. w \in Seq(Cell) /\ \A i \in 1 .. Len(w) : w[i] \in Session
  BY <1>3, <1>5, OccupiedIs
<1>7. w \in [1 .. n -> Session]
  BY <1>4, <1>6
<1> QED
  BY <1>1, <1>3, <1>4, <1>7 DEF Count, orderOf

LEMMA DropStep ==
  ASSUME GridInv, ArrangementsFit, NEW a \in 1 .. Count(View.tiles), NEW b \in 1 .. Count(View.tiles),
         Drop(a, b), activeSolo # 0 => \A s \in Shown : Copies(layout, s) <= 1
  PROVE  Screen(layout', overlay').view.tiles = Swapped(View.tiles, a, b)
<1>1. PICK shows \in SUBSET Session : shows = Shown
  BY ShownOfSessions
<1>2. PICK f : f = filterLayout(layout, shows)
  OBVIOUS
<1>3. PICK n : n = Len(f.map)
  OBVIOUS
<1>4. LayoutFits(layout)
  BY DEF GridInv
<1>5. PICK P : P = {i \in DOMAIN layout.tiles : layout.tiles[i] \in shows}
  OBVIOUS
<1>6. Filtered(f, layout, shows, n, P)
  BY <1>2, <1>3, <1>4, <1>5, FilteredTiles
<1>7. n \in Nat /\ Packed(f.view.tiles, n) /\ f.map \in Seq(Nat) /\ f.map = Ascending(P)
  BY <1>6 DEF Filtered
<1>8. CASE activeSolo = 0
  <2>1. overlay = {}
    BY <1>8 DEF GridInv, OverlayFits
  <2>2. OnScreen = f /\ View = f.view
    BY <1>1, <1>2, <2>1 DEF OnScreen, View, Screen
  <2>3. Count(View.tiles) = n
    BY <1>7, <2>2, OccupiedPrefix DEF Count
  <2>4. overlay' = {} /\ layout' = swapTiles(layout, realIndex(a), realIndex(b))
    BY <1>8, <2>1 DEF Drop, Arranged, adoptLayout
  <2>5. ASSUME NEW i \in 1 .. n PROVE realIndex(i) = f.map[i]
    <3>1. CASE activeDirs # {}
      <4>1. i \in DOMAIN f.map
        BY <1>3, <1>7
      <4> QED
        BY <2>2, <3>1, <4>1 DEF realIndex
    <3>2. CASE activeDirs = {}
      <4>1. shows = Session
        BY <1>1, <3>2 DEF Shown
      <4>2. PICK k \in Nat : Packed(layout.tiles, k)
        BY <1>4 DEF LayoutFits
      <4>3. P = 1 .. k
        BY <1>5, <4>1, <4>2 DEF Packed
      <4>4. PICK map : map = f.map
        OBVIOUS
      <4>5. n = Len(map) /\ map = Ascending(P) /\ P \in SUBSET (1 .. k)
        BY <1>3, <1>7, <4>3, <4>4
      <4>6. \A j \in 1 .. n : map[j] = j
        BY ONLY <4>3, <4>5, AscendsOnce, k \in Nat
      <4> QED
        BY <3>2, <4>4, <4>6 DEF realIndex
    <3> QED
      BY <3>1, <3>2
  <2>6. a \in 1 .. n /\ b \in 1 .. n
    BY <2>3
  <2>7. PICK u : u = layout'
    OBVIOUS
  <2>8. u = swapTiles(layout, f.map[a], f.map[b])
    BY <2>4, <2>5, <2>6, <2>7
  <2>9. PICK g : g = filterLayout(u, shows)
    OBVIOUS
  <2>10. g.view.tiles = Swapped(f.view.tiles, a, b)
    BY ONLY <1>2, <1>3, <1>4, <2>6, <2>8, <2>9, DropOnLayout, shows \in SUBSET Session
  <2>11. Screen(layout', overlay') = g
    BY <1>1, <2>4, <2>7, <2>9 DEF Screen
  <2> QED
    BY <2>2, <2>10, <2>11
<1>9. CASE activeSolo # 0
  <2>1. /\ \E p : OnScreenIn(f, n, p)
        /\ Arrangement(Overlay)
    BY <1>1, <1>2, <1>3, <1>4, ViewIs DEF ArrangementsFit
  <2>2. PICK p : OnScreenIn(f, n, p)
    BY <2>1
  <2>3. Count(View.tiles) = n
    BY <1>7, <2>2, CountOnScreen
  <2>4. a \in 1 .. n /\ b \in 1 .. n
    BY <2>3
  <2>5. PICK o : o = [Overlay EXCEPT !.order = Swapped(orderOf(View), a, b)]
    OBVIOUS
  <2>6. layout' = layout /\ overlay' = {o}
    BY <1>9, <2>5 DEF Drop, Arranged, editOverlay
  <2>7. PICK c \in Int : c = Overlay.cols
    BY <2>1 DEF Arrangement
  <2>8. o.order = Swapped(orderOf(View), a, b) /\ o.cols = c
    BY <2>1, <2>5, <2>7 DEF Arrangement
  <2>9. PICK v : v = applyOverlay(f, o).view
    OBVIOUS
  <2>10. (CHOOSE x \in overlay' : TRUE) = o /\ overlay' # {}
    BY <2>6
  <2>11. Screen(layout', overlay').view = v
    BY <1>1, <1>2, <2>6, <2>9, <2>10 DEF Screen
  <2>12. PICK s : s = f.view.tiles
    OBVIOUS
  <2>13. Once(s, n)
    <3>1. \A x \in shows : Copies(layout, x) <= 1
      BY <1>1, <1>9
    <3> QED
      BY ONLY <1>2, <1>3, <1>4, <2>12, <3>1, ShownOnce, shows \in SUBSET Session
  <2>14. PICK x : x = View
    OBVIOUS
  <2>15. Permutes(p, n) /\ ShownAs(x.tiles, s, n, p) /\ Len(x.tiles) = Cells(n, clampCols(c))
    BY <2>2, <2>7, <2>12, <2>14 DEF OnScreenIn
  <2>16. o.order = Swapped(orderOf(x), a, b) /\ Packed(s, n)
    BY <1>7, <2>8, <2>12, <2>14
  <2>17. v.tiles = Swapped(x.tiles, a, b)
    BY ONLY <1>7, <2>4, <2>8, <2>9, <2>12, <2>13, <2>15, <2>16, DropOnArrangement, c \in Int
  <2> QED
    BY <2>11, <2>14, <2>17
<1> QED
  BY <1>8, <1>9

LEMMA SoloKnown == activeSolo = 0 \/ activeSolo \in Dir
BY SoloIsDir

\* What the steps do to the arrangements.
LoadsOne == stored' = stored /\ (loadOverlay \/ overlay' = overlay)
Edits ==
  /\ activeSolo # 0
  /\ \E o : /\ Arrangement(o) /\ overlay' = {o}
            /\ stored' \in {stored, [stored EXCEPT ![activeSolo] = {o}]}

LEMMA KeptLoads ==
  ASSUME ArrangementsFit, LoadsOne
  PROVE  ArrangementsFit'
<1>1. (activeSolo = 0 \/ activeSolo \in Dir)'
  BY SoloKnown, PTL
<1>2. PICK d : d = activeSolo'
  OBVIOUS
<1>3. PICK kept : kept = stored /\ kept = stored'
  BY DEF LoadsOne
<1>4. d # 0 => Arrangements(kept[d])
  BY <1>1, <1>2, <1>3 DEF ArrangementsFit
<1>5. overlay' \in {overlay, {}} \/ (d # 0 /\ overlay' = kept[d])
  BY <1>2, <1>3 DEF LoadsOne, loadOverlay
<1>6. PICK now : now = overlay'
  OBVIOUS
<1>7. Arrangements(now)
  <2>1. Arrangements({}) /\ Arrangements(overlay)
    BY DEF Arrangements, ArrangementsFit
  <2> QED
    BY <1>4, <1>5, <1>6, <2>1
<1>8. DOMAIN kept = Dir /\ \A e \in Dir : Arrangements(kept[e])
  BY <1>3 DEF ArrangementsFit
<1> QED
  BY <1>3, <1>6, <1>7, <1>8 DEF ArrangementsFit, Arrangements

LEMMA KeptEdits ==
  ASSUME ArrangementsFit, Edits
  PROVE  ArrangementsFit'
<1>1. PICK o : /\ Arrangement(o) /\ overlay' = {o}
               /\ stored' \in {stored, [stored EXCEPT ![activeSolo] = {o}]}
  BY DEF Edits
<1>2. Arrangements({o})
  BY <1>1 DEF Arrangements
<1>3. PICK kept : kept = stored'
  OBVIOUS
<1>4. DOMAIN kept = Dir /\ \A e \in Dir : Arrangements(kept[e])
  BY <1>1, <1>2, <1>3 DEF ArrangementsFit
<1> QED
  BY <1>1, <1>2, <1>3, <1>4 DEF ArrangementsFit, Arrangements

LEMMA KeptArranged ==
  ASSUME ArrangementsFit, NEW o, NEW l, Arranged(o, l), activeSolo # 0 => Arrangement(o)
  PROVE  ArrangementsFit'
<1>1. CASE activeSolo # 0
  <2>1. Edits
    BY <1>1 DEF Edits, Arranged, editOverlay
  <2> QED
    BY <2>1, KeptEdits
<1>2. CASE activeSolo = 0
  <2>1. LoadsOne
    BY <1>2 DEF LoadsOne, Arranged
  <2> QED
    BY <2>1, KeptLoads
<1> QED
  BY <1>1, <1>2

\* What is edited is an arrangement.
LEMMA SeedFits ==
  ASSUME GridInv, ArrangementsFit
  PROVE  Arrangement(Overlay)
<1>1. PICK f : f = filterLayout(layout, Shown)
  OBVIOUS
<1>2. PICK n : n = Len(f.map)
  OBVIOUS
<1> QED
  BY <1>1, <1>2, ViewIs DEF GridInv, ArrangementsFit

LEMMA DropFits ==
  ASSUME GridInv, ArrangementsFit, activeSolo # 0,
         NEW a \in DOMAIN View.tiles, NEW b \in DOMAIN View.tiles, Drop(a, b),
         NEW o, o = [Overlay EXCEPT !.order = Swapped(orderOf(View), a, b)]
  PROVE  Arrangement(o)
<1>1. PICK f : f = filterLayout(layout, Shown)
  OBVIOUS
<1>2. PICK n : n = Len(f.map)
  OBVIOUS
<1>3. (\E p : OnScreenIn(f, n, p)) /\ Arrangement(Overlay) /\ n \in Nat
  BY <1>1, <1>2, ViewIs DEF GridInv, ArrangementsFit
<1>4. PICK p : OnScreenIn(f, n, p)
  BY <1>3
<1>5. PICK w : w = orderOf(View)
  OBVIOUS
<1>6. Count(View.tiles) = n /\ w \in [1 .. n -> Session]
  BY <1>3, <1>4, <1>5, CountOnScreen
<1>7. View.tiles \in Seq(Cell)
  BY <1>4 DEF OnScreenIn, ShownAs, Packed
<1>8. a \in Nat \ {0} /\ b \in Nat \ {0}
  BY <1>7
<1>9. a \in 1 .. n /\ b \in 1 .. n
  <2>1. activeDirs # {}
    BY SoloIsDir
  <2>2. Most(a, b) <= n
    BY <1>6, <2>1 DEF Drop
  <2> QED
    BY <1>3, <1>8, <2>2 DEF Most
<1>10. PICK x : x = Swapped(w, a, b)
  OBVIOUS
<1>11. x \in Seq(Session)
  <2>1. x \in [1 .. n -> Session]
    BY <1>6, <1>9, <1>10 DEF Swapped
  <2> QED
    BY <1>3, <2>1
<1> QED
  BY <1>3, <1>5, <1>10, <1>11 DEF Arrangement

\* Other sizes, or another number of columns.
LEMMA SizesKeep ==
  ASSUME NEW x, Arrangement(x), NEW r, NEW c, NEW y, y = [x EXCEPT !.rowSizes = r, !.colSizes = c]
  PROVE  Arrangement(y)
<1>1. x = [cols |-> x.cols, order |-> x.order, rowSizes |-> x.rowSizes, colSizes |-> x.colSizes]
  BY DEF Arrangement
<1>2. y = [cols |-> x.cols, order |-> x.order, rowSizes |-> r, colSizes |-> c]
  BY <1>1
<1>3. y.cols = x.cols /\ y.order = x.order /\ y.rowSizes = r /\ y.colSizes = c
  BY <1>2
<1> QED
  BY <1>2, <1>3 DEF Arrangement

LEMMA ColumnsKeep ==
  ASSUME NEW x, Arrangement(x), NEW n \in Int, NEW y, y = [x EXCEPT !.cols = n]
  PROVE  Arrangement(y)
BY DEF Arrangement

LEMMA ResizedKeeps ==
  ASSUME GridInv, ArrangementsFit, NEW l, Resized(l)
  PROVE  ArrangementsFit'
<1>1. PICK o : o = [Overlay EXCEPT !.rowSizes = l.rowSizes, !.colSizes = l.colSizes]
  OBVIOUS
<1>2. Arrangement(o)
  BY <1>1, SeedFits, SizesKeep
<1>3. Arranged(o, adoptSizes(layout, l))
  BY <1>1 DEF Resized
<1> QED
  BY <1>2, <1>3, KeptArranged

LEMMA MoveDragKeeps ==
  ASSUME GridInv, ArrangementsFit, NEW d, NEW delta, MoveDrag(d, delta)
  PROVE  ArrangementsFit'
<1>1. CASE activeSolo # 0
  <2>1. PICK l : overlay' = {[Overlay EXCEPT !.rowSizes = l.rowSizes, !.colSizes = l.colSizes]} /\ stored' = stored
    BY <1>1 DEF MoveDrag
  <2>2. PICK o : o = [Overlay EXCEPT !.rowSizes = l.rowSizes, !.colSizes = l.colSizes]
    OBVIOUS
  <2>3. Arrangement(o)
    BY <2>2, SeedFits, SizesKeep
  <2>4. Edits
    BY <1>1, <2>1, <2>2, <2>3 DEF Edits
  <2> QED
    BY <2>4, KeptEdits
<1>2. CASE activeSolo = 0
  <2>1. LoadsOne
    BY <1>2 DEF LoadsOne, MoveDrag
  <2> QED
    BY <2>1, KeptLoads
<1> QED
  BY <1>1, <1>2

\* Steps that leave the arrangements alone, or load one.
LEMMA StepsKeep ==
  ASSUME GridInv, ArrangementsFit, [GridNext]_gridVars
  PROVE  ArrangementsFit'
<1> DEFINE Quiet == UNCHANGED choice
<1>a. ASSUME Quiet PROVE ArrangementsFit'
  BY <1>a, KeptLoads DEF LoadsOne, choice
<1>b. ASSUME stored' = stored, loadOverlay PROVE ArrangementsFit'
  BY <1>b, KeptLoads DEF LoadsOne
<1> HIDE DEF Quiet
<1>1. CASE UNCHANGED gridVars
  BY <1>1, <1>a DEF Quiet, gridVars
<1>2. ASSUME NEW n \in 1 .. MAX_COLS, SetColumns(n) PROVE ArrangementsFit'
  <2>1. PICK o : o = [Overlay EXCEPT !.cols = n]
    OBVIOUS
  <2>2. n \in Int
    BY LayoutAssumption
  <2>3. Arrangement(o)
    BY <2>1, <2>2, SeedFits, ColumnsKeep
  <2>4. Arranged(o, setCols(layout, n))
    BY <1>2, <2>1 DEF SetColumns
  <2> QED
    BY <2>3, <2>4, KeptArranged
<1>3. ASSUME NEW a \in DOMAIN View.tiles, NEW b \in DOMAIN View.tiles, Drop(a, b) PROVE ArrangementsFit'
  <2>1. PICK o : o = IF activeSolo = 0 THEN {} ELSE [Overlay EXCEPT !.order = Swapped(orderOf(View), a, b)]
    OBVIOUS
  <2>2. Arranged(o, swapTiles(layout, realIndex(a), realIndex(b)))
    BY <1>3, <2>1 DEF Drop
  <2>3. activeSolo # 0 => Arrangement(o)
    BY <1>3, <2>1, DropFits
  <2> QED
    BY <2>2, <2>3, KeptArranged
<1>4. ASSUME NEW h, StartDrag(h) PROVE ArrangementsFit'
  BY <1>4, <1>a DEF Quiet, StartDrag
<1>5. ASSUME NEW h, ResetTracks(h) PROVE ArrangementsFit'
  <2>1. \E l : Resized(l)
    BY <1>5 DEF ResetTracks
  <2> QED
    BY <2>1, ResizedKeeps
<1>6. ASSUME NEW d, NEW delta, EndDrag(d, delta) PROVE ArrangementsFit'
  <2>1. (\E l : Resized(l)) \/ Quiet
    BY <1>6 DEF EndDrag, Quiet
  <2> QED
    BY <1>a, <2>1, ResizedKeeps
<1>7. CASE SetNarrow \/ Escape \/ StopRename \/ CloseReader
  BY <1>7, <1>a DEF Quiet, SetNarrow, Escape, StopRename, CloseReader
<1>8. ASSUME NEW d \in Dir, toggleDir(d) \/ addDir(d) PROVE ArrangementsFit'
  BY <1>8, <1>b DEF toggleDir, addDir, Select
<1>9. ASSUME NEW d \in Dir, CloseDir(d) PROVE ArrangementsFit'
  BY <1>9, <1>a DEF Quiet, CloseDir
<1>10. ASSUME NEW by, RotateDirs(by) PROVE ArrangementsFit'
  BY <1>10, <1>b DEF RotateDirs, Select
<1>11. ASSUME NEW s, attachSession(s) \/ placeSession(s) PROVE ArrangementsFit'
  BY <1>11, <1>b DEF attachSession, placeSession
<1>12. ASSUME NEW s, Launch(s) \/ ToggleMaximized(s) \/ StartRename(s) \/ OpenReader(s) PROVE ArrangementsFit'
  BY <1>12, <1>a DEF Quiet, Launch, ToggleMaximized, StartRename, OpenReader
<1>13. ASSUME NEW i, Dismiss(i) \/ Terminate(i) PROVE ArrangementsFit'
  BY <1>13, <1>a DEF Quiet, Dismiss, Terminate
<1>14. ASSUME NEW c, Closed(c) PROVE ArrangementsFit'
  BY <1>14, <1>b DEF Closed
<1>15. ASSUME NEW v, DismissAll(v) PROVE ArrangementsFit'
  BY <1>15, <1>a DEF Quiet, DismissAll
<1>16. ASSUME NEW v, RemoveServer(v) PROVE ArrangementsFit'
  BY <1>16, <1>b DEF RemoveServer
<1>17. ASSUME NEW v, NEW st, Status(v, st) PROVE ArrangementsFit'
  BY <1>17, <1>a DEF Quiet, Status
<1>18. ASSUME NEW v, NEW s, LandSessions(v, s) PROVE ArrangementsFit'
  BY <1>18, <1>b DEF LandSessions
<1>19. ASSUME NEW l, LandLayout(l) PROVE ArrangementsFit'
  BY <1>19, <1>a DEF Quiet, LandLayout
<1> QED
  BY <1>1, <1>2, <1>3, <1>4, <1>5, <1>6, <1>7, <1>8, <1>9, <1>10, <1>11, <1>12, <1>13, <1>14,
     <1>15, <1>16, <1>17, <1>18, <1>19, MoveDragKeeps DEF GridNext

\* The arrangement in effect, and each the browser stores, names sessions only and a
\* number of columns (GridPage.tsx, editOverlay and the effect of a new solo).
THEOREM ArrangementsInvariance == GridSpec => []ArrangementsFit
<1>1. GridInit => ArrangementsFit
  BY DEF GridInit, ArrangementsFit, Arrangements
<1>2. GridInv /\ ArrangementsFit /\ [GridNext]_gridVars => ArrangementsFit'
  BY StepsKeep
<1> QED
  BY <1>1, <1>2, GridInvariance, PTL DEF GridSpec

\* A drop on the grid exchanges the two tiles it names on the screen of the next
\* render, and moves no other: through the stored layout, through the part of it that
\* shows, and through the arrangement of a soloed directory (GridPage.tsx, onDrop).
THEOREM DropSwaps == GridSpec => DropSwapsTheTwo
<1>1. GridInv /\ ArrangementsFit =>
        [Rearranged /\ (activeSolo # 0 => \A s \in Shown : Copies(layout, s) <= 1) =>
           \A a, b \in 1 .. Count(View.tiles) :
             Drop(a, b) => Screen(layout', overlay').view.tiles = Swapped(View.tiles, a, b)]_gridVars
  BY DropStep
<1> QED
  BY <1>1, GridInvariance, ArrangementsInvariance, PTL DEF GridSpec, DropSwapsTheTwo

-----------------------------------------------------------------------------
(* The types of the grid *)

LEMMA UnitIs == Unit \in Nat /\ Unit > 0 /\ MAX_COLS \in Nat /\ MAX_COLS > 0 /\ MAX_COLS <= Unit
BY LayoutAssumption DEF LayoutAssumption

\* The sum of sizes exists, and is what its recursive equation says.
Sums(s, f, i) == IF i = 0 THEN 0 ELSE f[i - 1] + s[i]

LEMMA SumsExist ==
  ASSUME NEW s, NEW n \in Nat
  PROVE  \E f : f = [i \in 0 .. n |-> Sums(s, f, i)]
<1> DEFINE Fits(m) == \E f : f = [i \in 0 .. m |-> Sums(s, f, i)]
<1>1. Fits(0)
  <2>1. LET f == [i \in 0 .. 0 |-> 0] IN f = [i \in 0 .. 0 |-> Sums(s, f, i)]
    BY DEF Sums
  <2> QED
    BY <2>1
<1>2. ASSUME NEW m \in Nat, Fits(m) PROVE Fits(m + 1)
  <2>1. PICK f : f = [i \in 0 .. m |-> Sums(s, f, i)]
    BY <1>2
  <2>2. PICK g : g = [i \in 0 .. m + 1 |-> IF i <= m THEN f[i] ELSE f[m] + s[m + 1]]
    OBVIOUS
  <2>3. ASSUME NEW i \in 0 .. m + 1 PROVE g[i] = Sums(s, g, i)
    <3>1. CASE i = 0
      <4>1. g[0] = f[0] /\ f[0] = Sums(s, f, 0)
        BY <2>1, <2>2
      <4> QED
        BY <3>1, <4>1 DEF Sums
    <3>2. CASE i # 0 /\ i <= m
      <4>1. g[i] = f[i] /\ f[i] = Sums(s, f, i)
        BY <2>1, <2>2, <3>2
      <4>2. g[i - 1] = f[i - 1]
        BY <2>2, <3>2
      <4> QED
        BY <3>2, <4>1, <4>2 DEF Sums
    <3>3. CASE i = m + 1
      <4>1. g[m + 1] = f[m] + s[m + 1] /\ g[m] = f[m]
        BY <2>2
      <4> QED
        BY <3>3, <4>1 DEF Sums
    <3> QED
      BY <3>1, <3>2, <3>3
  <2>4. g = [i \in 0 .. m + 1 |-> Sums(s, g, i)]
    BY <2>2, <2>3
  <2> QED
    BY <2>4
<1> HIDE DEF Fits
<1>3. Fits(n)
  <2>1. SUFFICES ASSUME ~ Fits(n) PROVE FALSE
    OBVIOUS
  <2>2. PICK S \in SUBSET Nat : S = {m \in Nat : ~ Fits(m)}
    OBVIOUS
  <2>3. PICK i \in S : \A j \in S : i <= j
    BY <2>1, <2>2, LeastOf
  <2>4. i \in Nat /\ i # 0 /\ ~ Fits(i)
    BY <1>1, <2>2, <2>3
  <2>5. i - 1 \in Nat /\ i - 1 \notin S /\ (i - 1) + 1 = i
    BY <2>3, <2>4
  <2>6. Fits(i - 1)
    BY <2>2, <2>5
  <2> QED
    BY <1>2, <2>4, <2>5, <2>6
<1> QED
  BY <1>3 DEF Fits

LEMMA TotalUnfolds ==
  ASSUME NEW s, Len(s) \in Nat
  PROVE  \E f : f = [i \in 0 .. Len(s) |-> Sums(s, f, i)] /\ Total(s) = f[Len(s)]
<1>1. PICK n \in Nat : n = Len(s)
  OBVIOUS
<1> DEFINE upTo == CHOOSE f : f = [i \in 0 .. Len(s) |-> IF i = 0 THEN 0 ELSE f[i - 1] + s[i]]
<1>2. Total(s) = upTo[Len(s)]
  BY Zenon DEF Total
<1>3. \E f : f = [i \in 0 .. Len(s) |-> IF i = 0 THEN 0 ELSE f[i - 1] + s[i]]
  BY <1>1, SumsExist DEF Sums
<1>4. upTo = [i \in 0 .. Len(s) |-> IF i = 0 THEN 0 ELSE upTo[i - 1] + s[i]]
  BY <1>3
<1> HIDE DEF upTo
<1>5. upTo = [i \in 0 .. Len(s) |-> Sums(s, upTo, i)]
  BY <1>4 DEF Sums
<1> QED
  BY <1>2, <1>5

\* What holds of 0, and of a number whose predecessor it holds of, holds of all.
LEMMA Rises ==
  ASSUME NEW n \in Nat, NEW H \in SUBSET Nat, 0 \in H,
         \A i \in 1 .. n : i - 1 \in H => i \in H
  PROVE  n \in H
<1>1. SUFFICES ASSUME n \notin H PROVE FALSE
  OBVIOUS
<1>2. PICK S \in SUBSET Nat : S = {i \in Nat : i \in 0 .. n /\ i \notin H}
  OBVIOUS
<1>3. PICK i \in S : \A j \in S : i <= j
  <2>1. n \in S
    BY <1>1, <1>2
  <2>2. S \in SUBSET Nat /\ S # {}
    BY <2>1
  <2> QED
    BY ONLY <2>2, LeastOf
<1>4. i \in 1 .. n /\ i - 1 \in 0 .. n /\ i - 1 \notin S
  BY <1>2, <1>3
<1> QED
  BY <1>2, <1>3, <1>4

\* A sum of positive sizes is a number no smaller than each of them.
LEMMA TotalIs ==
  ASSUME NEW s \in Seq(Int), \A i \in 1 .. Len(s) : s[i] > 0
  PROVE  Total(s) \in Nat /\ \A i \in 1 .. Len(s) : s[i] <= Total(s)
<1>1. PICK n \in Nat : n = Len(s)
  OBVIOUS
<1>2. \A i \in 1 .. n : s[i] \in Int /\ s[i] > 0
  BY <1>1
<1>3. PICK f : f = [i \in 0 .. n |-> Sums(s, f, i)] /\ Total(s) = f[n]
  BY <1>1, TotalUnfolds
<1>4. f[0] = 0 /\ \A i \in 1 .. n : f[i] = f[i - 1] + s[i]
  <2>1. f[0] = Sums(s, f, 0)
    <3>1. 0 \in 0 .. n
      OBVIOUS
    <3>2. \A i \in 0 .. n : f[i] = Sums(s, f, i)
      BY Zenon, <1>3
    <3> QED
      BY Zenon, <3>1, <3>2
  <2>2. ASSUME NEW i \in 1 .. n PROVE f[i] = Sums(s, f, i) /\ i # 0
    <3>1. i \in 0 .. n /\ i # 0
      OBVIOUS
    <3> QED
      BY <1>3, <3>1
  <2> QED
    BY <2>1, <2>2 DEF Sums
<1>5. PICK H \in SUBSET Nat : H = {i \in Nat : f[i] \in Nat /\ \A j \in 1 .. i : s[j] <= f[i]}
  OBVIOUS
<1>6. 0 \in H
  BY <1>4, <1>5
<1>7. ASSUME NEW i \in 1 .. n, i - 1 \in H PROVE i \in H
  <2>1. f[i - 1] \in Nat /\ \A j \in 1 .. i - 1 : s[j] <= f[i - 1]
    BY <1>5, <1>7
  <2>2. f[i] = f[i - 1] + s[i] /\ s[i] \in Int /\ s[i] > 0
    BY <1>2, <1>4
  <2>3. ASSUME NEW j \in 1 .. i PROVE s[j] <= f[i]
    <3>1. CASE j = i
      BY <2>1, <2>2, <3>1
    <3>2. CASE j # i
      <4>1. j \in 1 .. i - 1 /\ j \in 1 .. n
        BY <3>2
      <4>2. s[j] <= f[i - 1] /\ s[j] \in Int
        BY <1>2, <2>1, <4>1
      <4> QED
        BY <2>1, <2>2, <4>2
    <3> QED
      BY <3>1, <3>2
  <2>4. f[i] \in Nat /\ i \in Nat
    BY <2>1, <2>2
  <2> QED
    BY <1>5, <2>3, <2>4
<1>8. n \in H
  <2>1. n \in Nat /\ H \in SUBSET Nat /\ \A i \in 1 .. n : i - 1 \in H => i \in H
    BY <1>1, <1>5, <1>7
  <2> QED
    BY ONLY <1>6, <2>1, Rises
<1> QED
  BY <1>1, <1>3, <1>5, <1>8

\* A set of sizes that is usable is of parts of the Unit.
LEMMA UsableIs ==
  ASSUME NEW s \in Seq(Int), NEW n, usable(s, n)
  PROVE  s \in Seq(1 .. Unit) /\ Len(s) = n
<1>1. Len(s) = n /\ DOMAIN s = 1 .. Len(s) /\ Len(s) \in Nat /\ Total(s) = Unit /\ \A i \in 1 .. Len(s) : s[i] > 0 /\ s[i] \in Int
  BY DEF usable
<1>2. \A i \in 1 .. Len(s) : s[i] <= Total(s)
  BY <1>1, TotalIs
<1>3. \A i \in 1 .. Len(s) : s[i] \in 1 .. Unit
  BY <1>1, <1>2, UnitIs
<1>4. PICK k \in Nat : k = Len(s)
  BY <1>1
<1>5. s = [i \in 1 .. k |-> s[i]] /\ \A i \in 1 .. k : s[i] \in 1 .. Unit
  BY <1>1, <1>3, <1>4
<1>6. s \in [1 .. k -> 1 .. Unit]
  BY ONLY <1>5
<1>7. s \in Seq(1 .. Unit)
  <2>1. PICK T : T = 1 .. Unit
    OBVIOUS
  <2>2. k \in Nat /\ s \in [1 .. k -> T]
    BY <1>4, <1>6, <2>1
  <2>3. s \in Seq(T)
    BY ONLY <2>2
  <2> QED
    BY <2>1, <2>3
<1> QED
  BY <1>1, <1>7

\* The boundary after track i of n equal ones.
Boundary(n, i) == (Unit * i) \div n

LEMMA BoundaryIs ==
  ASSUME NEW n \in Nat, n > 0, NEW i \in Nat
  PROVE  /\ Boundary(n, i) \in Int /\ n * Boundary(n, i) <= Unit * i
         /\ Unit * i < n * Boundary(n, i) + n
<1>1. PICK a \in Int : a = Unit * i
  BY UnitIs
<1>2. a \div n \in Int /\ n * (a \div n) <= a /\ a < n * (a \div n) + n
  OBVIOUS
<1> QED
  BY <1>1, <1>2 DEF Boundary

LEMMA BoundariesRise ==
  ASSUME NEW n \in Nat, n > 0, n <= Unit, NEW i \in Nat, i > 0
  PROVE  Boundary(n, i) > Boundary(n, i - 1)
<1>1. PICK u \in Nat : u = Unit
  BY UnitIs
<1>2. i - 1 \in Nat
  OBVIOUS
<1>3. PICK p \in Int : p = Boundary(n, i - 1) /\ n * p <= u * (i - 1)
  BY <1>1, <1>2, BoundaryIs
<1>4. PICK q \in Int : q = Boundary(n, i) /\ u * i < n * q + n
  BY <1>1, BoundaryIs
<1>5. n * p + n < n * q + n
  <2>1. u * (i - 1) = u * i - u
    BY <1>1
  <2>2. n * p \in Int /\ n * q \in Int /\ u * i \in Int
    BY <1>1
  <2> QED
    BY ONLY <1>1, <1>3, <1>4, <2>1, <2>2, n <= Unit, n \in Nat
<1>6. n * p < n * q
  BY ONLY <1>5, n \in Nat, p \in Int, q \in Int
<1>7. p < q
  BY ONLY <1>6, n \in Nat, n > 0, p \in Int, q \in Int
<1> QED
  BY <1>3, <1>4, <1>7

LEMMA BoundaryEnds ==
  ASSUME NEW n \in Nat, n > 0
  PROVE  Boundary(n, 0) = 0 /\ Boundary(n, n) = Unit
<1>1. PICK u \in Nat : u = Unit
  BY UnitIs
<1>2. (u * n) \div n = u /\ 0 \div n = 0 /\ u * 0 = 0
  OBVIOUS
<1> QED
  BY <1>1, <1>2 DEF Boundary

\* Equal sizes fill the axis, whatever their number, while it has a part for each.
LEMMA EqualFits ==
  ASSUME NEW n \in Nat, n > 0, n <= Unit
  PROVE  equalSizes(n) \in Seq(Int) /\ usable(equalSizes(n), n)
<1>1. PICK s : s = equalSizes(n)
  OBVIOUS
<1>2. PICK b : b = [i \in 0 .. n |-> Boundary(n, i)]
  OBVIOUS
<1>3. \A i \in 0 .. n : b[i] \in Int
  BY <1>2, BoundaryIs
<1>4. s = [i \in 1 .. n |-> b[i] - b[i - 1]]
  <2>1. s = [i \in 1 .. n |-> Boundary(n, i) - Boundary(n, i - 1)]
    BY <1>1 DEF equalSizes, Boundary
  <2>2. ASSUME NEW i \in 1 .. n PROVE b[i] = Boundary(n, i) /\ b[i - 1] = Boundary(n, i - 1)
    BY <1>2
  <2> QED
    BY <2>1, <2>2
<1>5. \A i \in 1 .. n : b[i] - b[i - 1] \in Int /\ b[i] - b[i - 1] > 0
  <2> SUFFICES ASSUME NEW i \in 1 .. n PROVE b[i] - b[i - 1] \in Int /\ b[i] - b[i - 1] > 0
    OBVIOUS
  <2>1. i \in Nat /\ i > 0 /\ i \in 0 .. n /\ i - 1 \in 0 .. n
    OBVIOUS
  <2>2. Boundary(n, i) > Boundary(n, i - 1)
    BY <2>1, BoundariesRise
  <2>3. b[i] = Boundary(n, i) /\ b[i - 1] = Boundary(n, i - 1)
    BY <1>2, <2>1
  <2> QED
    BY <1>3, <2>1, <2>2, <2>3
<1>6. s \in [1 .. n -> Int]
  BY <1>4, <1>5
<1>7. s \in Seq(Int) /\ Len(s) = n /\ DOMAIN s = 1 .. n /\ \A i \in 1 .. n : s[i] > 0 /\ s[i] = b[i] - b[i - 1]
  BY <1>4, <1>5, <1>6
<1>8. PICK f : f = [i \in 0 .. n |-> Sums(s, f, i)] /\ Total(s) = f[n]
  BY <1>7, TotalUnfolds
<1>9. PICK H \in SUBSET Nat : H = {i \in Nat : f[i] = b[i]}
  OBVIOUS
<1>10. 0 \in H
  <2>1. f[0] = 0
    BY <1>8 DEF Sums
  <2>2. b[0] = 0
    BY <1>2, BoundaryEnds
  <2> QED
    BY <1>9, <2>1, <2>2
<1>11. ASSUME NEW i \in 1 .. n, i - 1 \in H PROVE i \in H
  <2>1. f[i] = f[i - 1] + s[i]
    BY <1>8 DEF Sums
  <2>2. f[i - 1] = b[i - 1] /\ s[i] = b[i] - b[i - 1]
    BY <1>7, <1>9, <1>11
  <2>3. b[i] \in Int /\ b[i - 1] \in Int
    BY <1>3
  <2> QED
    BY <1>9, <2>1, <2>2, <2>3
<1>12. n \in H
  <2>1. n \in Nat /\ H \in SUBSET Nat /\ \A i \in 1 .. n : i - 1 \in H => i \in H
    BY <1>9, <1>11
  <2> QED
    BY ONLY <1>10, <2>1, Rises
<1>13. Total(s) = Unit
  BY <1>2, <1>8, <1>9, <1>12, BoundaryEnds
<1> QED
  BY <1>1, <1>7, <1>13 DEF usable

\* Just enough rows have a cell for every tile.
LEMMA RowsCover ==
  ASSUME NEW k \in Nat, NEW c \in Nat, c > 0, NEW r, r = Most(1, (k + c - 1) \div c)
  PROVE  r \in Nat /\ r > 0 /\ k <= r * c /\ r <= Most(1, k)
<1>1. PICK a \in Int : a = k + c - 1
  OBVIOUS
<1>2. PICK q \in Int : q = a \div c /\ c * q <= a /\ a < c * q + c
  OBVIOUS
<1>3. r = Most(1, q) /\ r \in Nat /\ r > 0 /\ q <= r
  BY <1>1, <1>2 DEF Most
<1>4. k <= q * c
  <2>1. c * q = q * c /\ q * c \in Int
    BY <1>2
  <2> QED
    BY ONLY <1>1, <1>2, <2>1, k \in Nat, c \in Nat, a \in Int
<1>5. k <= r * c
  <2>1. r = q \/ r = 1
    BY <1>2, <1>3 DEF Most
  <2>2. CASE r = q
    BY <1>4, <2>2
  <2>3. CASE r = 1
    <3>1. q <= 1 /\ r * c = c
      BY <1>3, <2>3
    <3>2. q * c <= c
      BY <3>1
    <3>3. q * c \in Int
      OBVIOUS
    <3> QED
      BY ONLY <1>4, <3>1, <3>2, <3>3, k \in Nat, c \in Nat
  <2> QED
    BY <2>1, <2>2, <2>3
<1>6. q <= Most(1, k)
  <2>1. CASE k = 0
    <3>1. c * q < c
      BY <1>1, <1>2, <2>1
    <3>2. q < 1
      BY ONLY <3>1, c \in Nat, c > 0, q \in Int
    <3> QED
      BY <2>1, <3>2 DEF Most
  <2>2. CASE k # 0
    <3>1. ~ (q >= k + 1)
      <4> SUFFICES ASSUME q >= k + 1 PROVE FALSE
        OBVIOUS
      <4>1. c * q >= c * (k + 1)
        OBVIOUS
      <4>2. c * (k + 1) = c * k + c /\ c * k \in Int /\ c * q \in Int
        OBVIOUS
      <4>3. c * k >= k
        OBVIOUS
      <4> QED
        BY ONLY <1>1, <1>2, <4>1, <4>2, <4>3, k \in Nat, c \in Nat, a \in Int
    <3> QED
      BY <2>2, <3>1 DEF Most
  <2> QED
    BY <2>1, <2>2
<1> QED
  BY <1>2, <1>3, <1>5, <1>6 DEF Most

LEMMA UsableFits ==
  ASSUME NEW s \in Seq(Int), NEW n \in Nat, n > 0, n <= Unit, NEW u, u = Usable(s, n)
  PROVE  u \in Seq(1 .. Unit) /\ usable(u, n)
<1>1. u \in Seq(Int) /\ usable(u, n)
  BY EqualFits DEF Usable
<1> QED
  BY <1>1, UsableIs

LEMMA SeqOfFun ==
  ASSUME NEW T, NEW n \in Nat, NEW f \in [1 .. n -> T]
  PROVE  f \in Seq(T) /\ Len(f) = n
OBVIOUS

LEMMA SeqsGrow ==
  ASSUME NEW S, NEW T, S \subseteq T
  PROVE  Seq(S) \subseteq Seq(T)
OBVIOUS

\* A layout in normal form, of sessions, with whole sizes.
WholeLayout(l) ==
  /\ WellFormed(l) /\ l.tiles \in Seq(Cell)
  /\ l.rowSizes \in Seq(1 .. Unit) /\ l.colSizes \in Seq(Seq(1 .. Unit))

\* What normalize makes of any tiles and sizes, while the axis has a part for each row.
LEMMA NormalWhole ==
  ASSUME NEW t \in Seq(Cell), NEW n \in Int, NEW rs \in Seq(Int), NEW cs \in Seq(Seq(Int)),
         Count(t) <= Unit, NEW l, l = normalize(t, n, rs, cs)
  PROVE  WholeLayout(l) /\ Count(l.tiles) = Count(t)
<1>1. PICK k \in Nat : k = Count(t) /\ k = Len(Occupied(t))
  BY CountIs DEF Count
<1>2. PICK c \in Nat : c = clampCols(n) /\ c > 0 /\ c <= MAX_COLS /\ c <= Unit
  BY UnitIs DEF clampCols, Least, Most
<1>3. PICK rows : rows = Most(1, (k + c - 1) \div c)
  OBVIOUS
<1>4. rows \in Nat /\ rows > 0 /\ k <= rows * c /\ rows <= Most(1, k)
  BY <1>3, <1>2, RowsCover
<1>5. rows <= Unit
  BY <1>1, <1>4, UnitIs DEF Most
<1>6. /\ l.cols = c /\ l.rows = rows /\ l.rowSizes = Usable(rs, rows)
      /\ l.colSizes = [r \in 1 .. rows |->
                        IF r \in DOMAIN cs THEN Usable(cs[r], c) ELSE equalSizes(c)]
  BY <1>1, <1>2, <1>3 DEF normalize
<1>7. PICK u : u = l.tiles
  OBVIOUS
<1>8. Packed(u, k) /\ Len(u) = Cells(k, c)
  BY <1>1, <1>6, <1>7, NormalizeTiles
<1>9. Len(u) = rows * c
  <2>1. PICK m \in Int : m = rows * c
    BY <1>4
  <2>2. Len(u) = Most(k, m) /\ k <= m
    BY <1>3, <1>4, <1>8, <2>1 DEF Cells
  <2> QED
    BY <2>1, <2>2 DEF Most
<1>10. u \in Seq(Cell) /\ Count(u) = k /\ DOMAIN u = 1 .. Len(u)
  <2>1. u \in Seq(Cell)
    BY <1>8 DEF Packed
  <2>2. Len(Occupied(u)) = k
    BY <1>8, OccupiedPrefix
  <2> QED
    BY <2>1, <2>2 DEF Count
<1>11. \A i \in DOMAIN u : u[i] # NoTile <=> i <= k
  <2>1. \A i \in 1 .. Len(u) : u[i] \in Cell /\ (u[i] \in Session <=> i <= k)
    BY <1>8, <1>10 DEF Packed
  <2> QED
    BY <1>10, <2>1, NoTileIs DEF Cell
<1>12. l.rowSizes \in Seq(1 .. Unit) /\ usable(l.rowSizes, rows)
  BY <1>4, <1>5, <1>6, UsableFits
<1>13. PICK w : w = l.colSizes
  OBVIOUS
<1>14. ASSUME NEW r \in 1 .. rows PROVE w[r] \in Seq(1 .. Unit) /\ usable(w[r], c)
  <2>1. CASE r \in DOMAIN cs
    <3>1. cs[r] \in Seq(Int)
      BY <2>1
    <3>2. w[r] = Usable(cs[r], c)
      BY <1>6, <1>13, <2>1
    <3> QED
      BY <1>2, <3>1, <3>2, UsableFits
  <2>2. CASE r \notin DOMAIN cs
    <3>1. w[r] = equalSizes(c)
      BY <1>6, <1>13, <2>2
    <3>2. w[r] \in Seq(Int) /\ usable(w[r], c)
      BY <1>2, <3>1, EqualFits
    <3> QED
      BY <3>2, UsableIs
  <2> QED
    BY <2>1, <2>2
<1>15. w \in Seq(Seq(1 .. Unit)) /\ Len(w) = rows
  <2>1. PICK T : T = Seq(1 .. Unit)
    OBVIOUS
  <2>2. w = [r \in 1 .. rows |-> w[r]]
    BY <1>6, <1>13
  <2>3. \A r \in 1 .. rows : w[r] \in T
    BY <1>14, <2>1
  <2>4. w \in [1 .. rows -> T]
    BY ONLY <2>2, <2>3
  <2>5. w \in Seq(T) /\ Len(w) = rows
    BY <1>4, <2>4, SeqOfFun
  <2> QED
    BY <2>1, <2>5
<1>16. WellFormed(l)
  <2>1. l.cols \in 1 .. MAX_COLS
    BY <1>2, <1>6, UnitIs
  <2>2. l.rows = Most(1, (Count(l.tiles) + l.cols - 1) \div l.cols)
    BY <1>3, <1>6, <1>7, <1>10
  <2>3. Len(l.tiles) = l.rows * l.cols /\ \A i \in DOMAIN l.tiles : l.tiles[i] # NoTile <=> i <= Count(l.tiles)
    BY <1>6, <1>7, <1>9, <1>10, <1>11
  <2>4. \A r \in 1 .. l.rows : usable(l.colSizes[r], l.cols)
    BY <1>6, <1>13, <1>14
  <2> QED
    BY <1>6, <1>12, <1>13, <1>15, <2>1, <2>2, <2>3, <2>4 DEF WellFormed
<1> QED
  BY <1>1, <1>7, <1>10, <1>12, <1>13, <1>15, <1>16 DEF WholeLayout

\* The number of tiles is that of the cells that are not empty.
Full(t) == {i \in 1 .. Len(t) : t[i] # NoTile}

LEMMA CountIsFull ==
  ASSUME NEW t \in Seq(Cell)
  PROVE  IsFiniteSet(Full(t)) /\ Cardinality(Full(t)) = Count(t)
<1>1. PICK S : S = ToSet(t) \ {NoTile}
  OBVIOUS
<1>2. PICK u : u = Filter(t, S)
  OBVIOUS
<1>3. u \in Seq(Cell) /\ Count(t) = Len(u)
  BY <1>1, <1>2, OccupiedIs DEF Count
<1>4. PICK h : Picks(u, t, S, Len(t), h)
  BY <1>2, FilterPicks
<1>5. PICK n \in Nat : n = Len(u)
  BY <1>3
<1>6. PICK m \in Nat : m = Len(t)
  OBVIOUS
<1>7. /\ h \in [1 .. n -> 1 .. m]
      /\ \A a, b \in 1 .. n : a < b => h[a] < h[b]
      /\ \A k \in 1 .. n : t[h[k]] \in S
      /\ \A i \in 1 .. m : t[i] \in S => \E k \in 1 .. n : h[k] = i
  BY <1>4, <1>5, <1>6 DEF Picks
<1>8. PICK A : A = 1 .. n
  OBVIOUS
<1>9. IsFiniteSet(A) /\ Cardinality(A) = n
  BY <1>8, FS_Interval
<1>10. PICK B : B = Full(t)
  OBVIOUS
<1>11. B = {i \in 1 .. m : t[i] \in S}
  <2>1. \A i \in 1 .. m : t[i] \in ToSet(t)
    BY <1>6, OccupiedIs
  <2> QED
    BY <1>1, <1>6, <1>10, <2>1 DEF Full
<1>12. h \in [A -> B]
  BY <1>7, <1>8, <1>11
<1>13. \A a, b \in A : h[a] = h[b] => a = b
  <2> SUFFICES ASSUME NEW a \in A, NEW b \in A, h[a] = h[b] PROVE a = b
    OBVIOUS
  <2>1. a \in 1 .. n /\ b \in 1 .. n /\ h[a] \in Int /\ h[b] \in Int
    BY <1>7, <1>8
  <2>2. ~(h[a] < h[b]) /\ ~(h[b] < h[a])
    BY <2>1
  <2>3. ~(a < b) /\ ~(b < a)
    BY <1>7, <2>1, <2>2
  <2> QED
    BY <2>1, <2>3
<1>14. \A b \in B : \E a \in A : h[a] = b
  BY <1>7, <1>8, <1>11
<1>15. Cardinality(A) = Cardinality(B)
  BY <1>9, <1>12, <1>13, <1>14, SameNumber
<1>16. IsFiniteSet(B)
  <2>1. IsFiniteSet(1 .. m)
    BY FS_Interval
  <2>2. B \subseteq 1 .. m
    BY <1>11
  <2> QED
    BY <2>1, <2>2, FS_Subset
<1> QED
  BY <1>3, <1>5, <1>9, <1>10, <1>15, <1>16

\* Where all but one of the full cells were full before, one tile at most is new.
Fills(t, u, x) ==
  \A i \in 1 .. Len(u) : u[i] # NoTile => i = x \/ (i \in 1 .. Len(t) /\ t[i] # NoTile)

LEMMA OneMore ==
  ASSUME NEW t \in Seq(Cell), NEW u \in Seq(Cell), NEW x, Fills(t, u, x)
  PROVE  Count(u) <= Count(t) + 1
<1>1. PICK A : A = Full(t)
  OBVIOUS
<1>2. PICK B : B = Full(u)
  OBVIOUS
<1>3. IsFiniteSet(A) /\ Cardinality(A) = Count(t) /\ IsFiniteSet(B) /\ Cardinality(B) = Count(u)
  BY <1>1, <1>2, CountIsFull
<1>4. B \subseteq A \cup {x}
  BY <1>1, <1>2 DEF Full, Fills
<1>5. IsFiniteSet(A \cup {x}) /\ Cardinality(A \cup {x}) <= Cardinality(A) + 1 /\ Cardinality(A) \in Nat
  <2>1. IsFiniteSet(A)
    BY <1>3
  <2>2. IsFiniteSet(A \cup {x})
    BY ONLY <2>1, FS_AddElement
  <2>3. Cardinality(A \cup {x}) = IF x \in A THEN Cardinality(A) ELSE Cardinality(A) + 1
    BY ONLY <2>1, FS_AddElement
  <2>4. Cardinality(A) \in Nat
    BY ONLY <2>1, FS_CardinalityType
  <2> QED
    BY ONLY <2>2, <2>3, <2>4
<1>6. Cardinality(B) <= Cardinality(A \cup {x})
  BY <1>4, <1>5, FS_Subset
<1>7. Cardinality(B) \in Nat /\ Cardinality(A \cup {x}) \in Nat
  BY <1>3, <1>5, FS_CardinalityType
<1> QED
  BY <1>3, <1>5, <1>6, <1>7

LEMMA WholeIs ==
  ASSUME NEW l, WholeLayout(l)
  PROVE  /\ LayoutFits(l) /\ l.tiles \in Seq(Cell) /\ Count(l.tiles) \in Nat
         /\ l.rowSizes \in Seq(1 .. Unit) /\ l.rowSizes \in Seq(Int)
         /\ l.colSizes \in Seq(Seq(1 .. Unit)) /\ l.colSizes \in Seq(Seq(Int))
         /\ l.cols \in 1 .. MAX_COLS /\ l.cols \in Nat /\ l.rows \in Nat
         /\ Len(l.colSizes) = l.rows /\ \A r \in 1 .. l.rows : l.colSizes[r] \in Seq(1 .. Unit)
<1>1. WellFormed(l) /\ l.tiles \in Seq(Cell) /\ l.rowSizes \in Seq(1 .. Unit) /\ l.colSizes \in Seq(Seq(1 .. Unit))
  BY DEF WholeLayout
<1>2. LayoutFits(l)
  BY <1>1, FirstFits
<1>3. Count(l.tiles) \in Nat
  BY <1>1, CountIs
<1>4. PICK T : T = 1 .. Unit
  OBVIOUS
<1>5. T \subseteq Int
  BY <1>4
<1>6. Seq(T) \subseteq Seq(Int)
  BY <1>5, SeqsGrow
<1>7. Seq(Seq(T)) \subseteq Seq(Seq(Int))
  BY <1>6, SeqsGrow
<1>8. l.rowSizes \in Seq(Int) /\ l.colSizes \in Seq(Seq(Int))
  BY <1>1, <1>4, <1>6, <1>7
<1>9. l.cols \in 1 .. MAX_COLS /\ Len(l.colSizes) = l.rows
  BY <1>1 DEF WellFormed
<1>10. l.cols \in Nat
  BY <1>9, UnitIs
<1>11. PICK w \in Seq(Seq(T)) : w = l.colSizes
  BY <1>1, <1>4
<1>12. l.rows \in Nat /\ \A r \in 1 .. l.rows : l.colSizes[r] \in Seq(T)
  <2>1. Len(w) \in Nat /\ \A r \in 1 .. Len(w) : w[r] \in Seq(T)
    OBVIOUS
  <2> QED
    BY <1>9, <1>11, <2>1
<1> QED
  BY <1>1, <1>2, <1>3, <1>4, <1>8, <1>9, <1>10, <1>12

\* A step of a layout: whole again, with one tile more at most.
Grows(l, u) == WholeLayout(u) /\ Count(u.tiles) <= Count(l.tiles) + 1

LEMMA RepackGrows ==
  ASSUME NEW l, WholeLayout(l), Count(l.tiles) < Unit, NEW t \in Seq(Cell), NEW x, Fills(l.tiles, t, x),
         NEW n \in Int, NEW rs \in Seq(Int), NEW cs \in Seq(Seq(Int)), NEW u, u = normalize(t, n, rs, cs)
  PROVE  Grows(l, u)
<1>1. l.tiles \in Seq(Cell) /\ Count(l.tiles) \in Nat
  BY WholeIs
<1>2. Count(t) <= Count(l.tiles) + 1 /\ Count(t) \in Nat
  BY <1>1, OneMore, CountIs
<1>3. Count(t) <= Unit
  BY <1>1, <1>2, UnitIs
<1>4. WholeLayout(u) /\ Count(u.tiles) = Count(t)
  BY <1>3, NormalWhole
<1> QED
  BY <1>2, <1>4 DEF Grows

LEMMA SameFills ==
  ASSUME NEW t \in Seq(Cell)
  PROVE  Fills(t, t, 0)
BY DEF Fills

LEMMA ColumnsGrow ==
  ASSUME NEW l, WholeLayout(l), Count(l.tiles) < Unit, NEW n \in Int, NEW u, u = setCols(l, n)
  PROVE  Grows(l, u)
<1>1. u = normalize(l.tiles, n, l.rowSizes, l.colSizes)
  BY DEF setCols, Repacked
<1>2. l.tiles \in Seq(Cell) /\ l.rowSizes \in Seq(Int) /\ l.colSizes \in Seq(Seq(Int))
  BY WholeIs
<1> QED
  BY <1>1, <1>2, SameFills, RepackGrows

LEMMA SizesGrow ==
  ASSUME NEW l, WholeLayout(l), Count(l.tiles) < Unit, NEW from, from.rowSizes \in Seq(Int),
         from.colSizes \in Seq(Seq(Int)), NEW u, u = adoptSizes(l, from)
  PROVE  Grows(l, u)
<1>1. PICK rs : rs = IF Len(from.rowSizes) = l.rows THEN from.rowSizes ELSE l.rowSizes
  OBVIOUS
<1>2. PICK cs : cs = IF Len(from.colSizes) = l.rows THEN from.colSizes ELSE l.colSizes
  OBVIOUS
<1>3. u = normalize(l.tiles, l.cols, rs, cs)
  BY <1>1, <1>2 DEF adoptSizes
<1>4. l.tiles \in Seq(Cell) /\ l.rowSizes \in Seq(Int) /\ l.colSizes \in Seq(Seq(Int)) /\ l.cols \in Int
  BY WholeIs
<1>5. rs \in Seq(Int) /\ cs \in Seq(Seq(Int))
  BY <1>1, <1>2, <1>4
<1> QED
  BY <1>3, <1>4, <1>5, SameFills, RepackGrows

LEMMA RemovedGrows ==
  ASSUME NEW l, WholeLayout(l), Count(l.tiles) < Unit, NEW t, DOMAIN t = DOMAIN l.tiles,
         \A j \in DOMAIN l.tiles : t[j] = l.tiles[j] \/ t[j] = NoTile,
         t = [j \in DOMAIN l.tiles |-> t[j]], NEW u, u = packAfterRemoval(l, t)
  PROVE  Grows(l, u)
<1>1. PICK s \in Seq(Cell) : s = l.tiles
  BY WholeIs
<1>2. PICK m \in Nat : m = Len(s)
  OBVIOUS
<1>3. \A j \in 1 .. m : s[j] \in Cell
  BY <1>2
<1>12. DOMAIN l.tiles = 1 .. m
  BY <1>1, <1>2
<1>4. t = [j \in 1 .. m |-> t[j]] /\ \A j \in 1 .. m : t[j] \in Cell /\ (t[j] = s[j] \/ t[j] = NoTile)
  <2>1. t = [j \in 1 .. m |-> t[j]]
    BY ONLY <1>12, t = [j \in DOMAIN l.tiles |-> t[j]]
  <2>2. \A j \in 1 .. m : t[j] = s[j] \/ t[j] = NoTile
    BY <1>1, <1>12
  <2> QED
    BY <1>3, <2>1, <2>2 DEF Cell
<1>5. t \in [1 .. m -> Cell]
  BY ONLY <1>4
<1>6. t \in Seq(Cell) /\ Len(t) = m
  BY <1>5, SeqOfFun
<1>7. Fills(s, t, 0)
  BY <1>2, <1>4, <1>6 DEF Fills
<1>8. PICK n : n = Least(l.cols, Most(1, Count(t)))
  OBVIOUS
<1>9. n \in Int
  <2>1. l.cols \in Nat /\ Count(t) \in Nat
    BY <1>6, WholeIs, CountIs
  <2> QED
    BY <1>8, <2>1 DEF Least, Most
<1>10. u = normalize(t, n, l.rowSizes, l.colSizes)
  BY <1>8 DEF packAfterRemoval, Repacked
<1>11. l.rowSizes \in Seq(Int) /\ l.colSizes \in Seq(Seq(Int))
  BY WholeIs
<1> QED
  BY <1>1, <1>6, <1>7, <1>9, <1>10, <1>11, RepackGrows

LEMMA RemovedByIndexGrows ==
  ASSUME NEW l, WholeLayout(l), Count(l.tiles) < Unit, NEW i, NEW u, u = removeTile(l, i)
  PROVE  Grows(l, u)
<1>1. PICK t : t = [j \in DOMAIN l.tiles |-> IF j = i THEN NoTile ELSE l.tiles[j]]
  OBVIOUS
<1>2. u = packAfterRemoval(l, t)
  BY <1>1 DEF removeTile
<1>3. /\ DOMAIN t = DOMAIN l.tiles /\ t = [j \in DOMAIN l.tiles |-> t[j]]
      /\ \A j \in DOMAIN l.tiles : t[j] = l.tiles[j] \/ t[j] = NoTile
  BY <1>1
<1> QED
  BY <1>2, <1>3, RemovedGrows

LEMMA RemovedByNameGrows ==
  ASSUME NEW l, WholeLayout(l), Count(l.tiles) < Unit, NEW D, NEW u, u = removeTilesWhere(l, D)
  PROVE  Grows(l, u)
<1>1. CASE D \cap Placed(l) = {}
  <2>1. u = l /\ Count(l.tiles) \in Nat
    BY <1>1, WholeIs DEF removeTilesWhere
  <2> QED
    BY <2>1 DEF Grows
<1>2. CASE D \cap Placed(l) # {}
  <2>1. PICK t : t = [j \in DOMAIN l.tiles |-> IF l.tiles[j] \in D THEN NoTile ELSE l.tiles[j]]
    OBVIOUS
  <2>2. u = packAfterRemoval(l, t)
    BY <1>2, <2>1 DEF removeTilesWhere
  <2>3. /\ DOMAIN t = DOMAIN l.tiles /\ t = [j \in DOMAIN l.tiles |-> t[j]]
        /\ \A j \in DOMAIN l.tiles : t[j] = l.tiles[j] \/ t[j] = NoTile
    BY <2>1
  <2> QED
    BY <2>2, <2>3, RemovedGrows
<1> QED
  BY <1>1, <1>2

LEMMA AddedGrows ==
  ASSUME NEW l, WholeLayout(l), Count(l.tiles) < Unit, NEW s \in Session, NEW u, u = addTile(l, s)
  PROVE  Grows(l, u)
<1>1. PICK t \in Seq(Cell) : t = l.tiles
  BY WholeIs
<1>2. PICK v : v = Append(t, s)
  OBVIOUS
<1>3. s \in Cell
  BY DEF Cell
<1>4. v \in Seq(Cell) /\ Len(v) = Len(t) + 1 /\ \A i \in 1 .. Len(t) : v[i] = t[i]
  BY <1>2, <1>3
<1>5. Fills(t, v, Len(t) + 1)
  BY <1>4 DEF Fills
<1>6. PICK n : n = IF Count(l.tiles) = 1 /\ l.cols = 1 THEN 2 ELSE l.cols
  OBVIOUS
<1>7. l.rowSizes \in Seq(Int) /\ l.colSizes \in Seq(Seq(Int)) /\ l.cols \in Nat
  BY WholeIs
<1>8. n \in Int
  BY <1>6, <1>7
<1>9. u = normalize(v, n, l.rowSizes, l.colSizes)
  BY <1>1, <1>2, <1>6 DEF addTile, Repacked
<1> QED
  BY <1>1, <1>4, <1>5, <1>7, <1>8, <1>9, RepackGrows

LEMMA SwappedGrows ==
  ASSUME NEW l, WholeLayout(l), Count(l.tiles) < Unit, NEW a \in DOMAIN l.tiles, NEW b \in DOMAIN l.tiles,
         NEW u, u = swapTiles(l, a, b)
  PROVE  Grows(l, u)
<1>1. PICK t \in Seq(Cell) : t = l.tiles
  BY WholeIs
<1>2. PICK m \in Nat : m = Len(t)
  OBVIOUS
<1>3. a \in 1 .. m /\ b \in 1 .. m /\ \A i \in 1 .. m : t[i] \in Cell
  BY <1>1, <1>2
<1>4. PICK v : v = Swapped(t, a, b)
  OBVIOUS
<1>5. v \in Seq(Cell) /\ DOMAIN v = DOMAIN t
  BY <1>1, <1>4 DEF Swapped
<1>6. \A i \in DOMAIN t : v[i] = IF i = b THEN t[a] ELSE IF i = a THEN t[b] ELSE t[i]
  BY <1>1, <1>4 DEF Swapped
<1>7. v \in Seq(Cell) /\ Len(v) = m /\ DOMAIN t = 1 .. m
  BY <1>2, <1>5
<1>8. PICK x : x = IF t[a] # NoTile THEN b ELSE a
  OBVIOUS
<1>9. Fills(t, v, x)
  <2> SUFFICES ASSUME NEW i \in 1 .. m, v[i] # NoTile, i # x PROVE t[i] # NoTile
    BY <1>2, <1>7 DEF Fills
  <2>1. v[i] = IF i = b THEN t[a] ELSE IF i = a THEN t[b] ELSE t[i]
    BY <1>6, <1>7
  <2>2. CASE t[a] # NoTile
    BY <1>8, <2>1, <2>2
  <2>3. CASE t[a] = NoTile
    BY <1>8, <2>1, <2>3
  <2> QED
    BY <2>2, <2>3
<1>10. l.rowSizes \in Seq(Int) /\ l.colSizes \in Seq(Seq(Int)) /\ l.cols \in Int
  BY WholeIs
<1>11. u = normalize(v, l.cols, l.rowSizes, l.colSizes)
  BY <1>1, <1>4 DEF swapTiles, Repacked
<1> QED
  BY <1>1, <1>7, <1>9, <1>10, <1>11, RepackGrows

\* What is on screen with other sizes of its tracks.
LEMMA SizedWhole ==
  ASSUME NEW l, WholeLayout(l), Count(l.tiles) <= Unit, NEW s \in Seq(Int), NEW u,
         \/ u = setRowSizes(l, s)
         \/ \E r \in 1 .. l.rows : u = setColSizes(l, r, s)
  PROVE  WholeLayout(u)
<1>1. l.tiles \in Seq(Cell) /\ l.rowSizes \in Seq(Int) /\ l.colSizes \in Seq(Seq(Int)) /\ l.cols \in Int
  BY WholeIs
<1>2. CASE u = setRowSizes(l, s)
  BY <1>1, <1>2, NormalWhole DEF setRowSizes
<1>3. ASSUME NEW r \in 1 .. l.rows, u = setColSizes(l, r, s) PROVE WholeLayout(u)
  <2>1. PICK w \in Seq(Seq(Int)) : w = l.colSizes
    BY <1>1
  <2>2. r \in DOMAIN w
    BY <2>1, WholeIs
  <2>3. PICK v : v = [w EXCEPT ![r] = s]
    OBVIOUS
  <2>4. v \in Seq(Seq(Int))
    BY <2>2, <2>3
  <2>5. u = normalize(l.tiles, l.cols, l.rowSizes, v)
    BY <1>3, <2>1, <2>3 DEF setColSizes
  <2> QED
    BY <1>1, <2>4, <2>5, NormalWhole
<1> QED
  BY <1>2, <1>3

\* A drag leaves whole sizes.
LEMMA ResizedTracks ==
  ASSUME NEW s \in Seq(Int), NEW b, NEW delta \in Int
  PROVE  resizeTracks(s, b, delta) \in Seq(Int)
<1>1. CASE b \notin 1 .. Len(s) - 1
  BY <1>1 DEF resizeTracks
<1>2. CASE b \in 1 .. Len(s) - 1
  <2>1. b \in 1 .. Len(s) /\ b + 1 \in 1 .. Len(s) /\ s[b] \in Int /\ s[b + 1] \in Int
    BY <1>2
  <2>2. PICK pair \in Int : pair = s[b] + s[b + 1]
    BY <2>1
  <2>3. PICK half \in Int : half = pair \div 2
    OBVIOUS
  <2>4. PICK lo \in Int : lo = Least(MinTile, half)
    BY <2>3, LayoutAssumption DEF Least, LayoutAssumption
  <2>5. PICK at \in Int : at = Least(pair - lo, Most(lo, s[b] + delta))
    BY <2>1 DEF Least, Most
  <2>6. PICK next \in Int : next = IF at \in half - Snap .. half + Snap THEN half ELSE at
    OBVIOUS
  <2>7. resizeTracks(s, b, delta) = [s EXCEPT ![b] = next, ![b + 1] = pair - next]
    BY <1>2, <2>2, <2>3, <2>4, <2>5, <2>6 DEF resizeTracks
  <2>8. pair - next \in Int
    OBVIOUS
  <2>9. [s EXCEPT ![b] = next] \in Seq(Int)
    BY <2>1
  <2> QED
    BY <2>1, <2>7, <2>8, <2>9
<1> QED
  BY <1>1, <1>2

LEMMA SessionList ==
  ASSUME NEW n \in Nat, NEW u \in [1 .. n -> Session]
  PROVE  u \in Seq(Cell) /\ Len(u) = n /\ Count(u) = n
<1>1. u \in [1 .. n -> Cell] /\ \A i \in 1 .. n : u[i] \in Session
  BY DEF Cell
<1>2. u \in Seq(Cell) /\ Len(u) = n
  BY <1>1, SeqOfFun
<1>3. Packed(u, n)
  BY <1>1, <1>2 DEF Packed
<1> QED
  BY <1>2, <1>3, OccupiedPrefix DEF Count

\* As many tiles show as the layout has, at most.
LEMMA FewerShow ==
  ASSUME NEW l, LayoutFits(l), NEW shows \in SUBSET Session, NEW f, f = filterLayout(l, shows),
         NEW n, n = Len(f.map)
  PROVE  n \in Nat /\ n <= Count(l.tiles)
<1>1. PICK P : P = {i \in DOMAIN l.tiles : l.tiles[i] \in shows}
  OBVIOUS
<1>2. Filtered(f, l, shows, n, P)
  BY <1>1, FilteredTiles
<1>3. PICK map : map = f.map
  OBVIOUS
<1>4. PICK t \in Seq(Cell) : t = l.tiles
  BY LayoutFitsIs
<1>5. PICK m \in Nat : m = Len(t) /\ DOMAIN t = 1 .. m
  OBVIOUS
<1>6. n \in Nat /\ map = Ascending(P) /\ \A j \in 1 .. n : map[j] \in 1 .. m /\ t[map[j]] \in shows
  BY <1>2, <1>3, <1>4, <1>5 DEF Filtered
<1>7. P \in SUBSET (1 .. m)
  BY <1>1, <1>4, <1>5
<1>8. Once(map, n)
  BY <1>3, <1>6, <1>7, AscendsOnce
<1>9. PICK A : A = 1 .. n
  OBVIOUS
<1>10. PICK B : B = Full(t)
  OBVIOUS
<1>11. \A j \in A : map[j] \in B
  BY <1>5, <1>6, <1>9, <1>10, NoTileIs DEF Full
<1>12. PICK h : h = [j \in A |-> map[j]]
  OBVIOUS
<1>13. h \in [A -> B] /\ \A a, b \in A : h[a] = h[b] => a = b
  BY <1>8, <1>9, <1>11, <1>12 DEF Once
<1>14. h \in Injection(A, B)
  BY <1>13 DEF Injection, IsInjective
<1>15. IsFiniteSet(B) /\ Cardinality(B) = Count(t)
  BY <1>10, CountIsFull
<1>16. Cardinality(A) <= Cardinality(B)
  BY <1>14, <1>15, FS_Injection
<1>17. Cardinality(A) = n
  BY <1>6, <1>9, FS_Interval
<1> QED
  BY <1>4, <1>6, <1>15, <1>16, <1>17

LEMMA FilteredWhole ==
  ASSUME NEW l, WholeLayout(l), Count(l.tiles) <= Unit, NEW shows \in SUBSET Session,
         NEW f, f = filterLayout(l, shows)
  PROVE  WholeLayout(f.view) /\ Count(f.view.tiles) <= Unit
<1>1. PICK P : P = {i \in DOMAIN l.tiles : l.tiles[i] \in shows}
  OBVIOUS
<1>2. PICK n : n = Len(f.map)
  OBVIOUS
<1>3. LayoutFits(l) /\ Count(l.tiles) \in Nat
  BY WholeIs
<1>4. Filtered(f, l, shows, n, P)
  BY <1>1, <1>2, <1>3, FilteredTiles
<1>5. n \in Nat /\ n <= Count(l.tiles)
  BY <1>2, <1>3, FewerShow
<1>6. PICK map : map = f.map
  OBVIOUS
<1>7. map \in Seq(Nat) /\ map = Ascending(P) /\ \A j \in 1 .. n : l.tiles[map[j]] \in Session
  BY <1>4, <1>6 DEF Filtered
<1>8. PICK u : u = [i \in DOMAIN map |-> l.tiles[map[i]]]
  OBVIOUS
<1>9. f.view = normalize(u, l.cols, l.rowSizes, l.colSizes)
  BY <1>1, <1>7, <1>8 DEF filterLayout, Repacked
<1>10. DOMAIN map = 1 .. n
  BY <1>2, <1>6, <1>7
<1>11. u \in [1 .. n -> Session]
  BY <1>7, <1>8, <1>10
<1>12. u \in Seq(Cell) /\ Count(u) = n
  BY <1>5, <1>11, SessionList
<1>13. Count(u) <= Unit
  BY <1>3, <1>5, <1>12, UnitIs
<1>14. l.rowSizes \in Seq(Int) /\ l.colSizes \in Seq(Seq(Int)) /\ l.cols \in Int
  BY WholeIs
<1> QED
  BY <1>9, <1>12, <1>13, <1>14, NormalWhole

LEMMA OverlayIs ==
  ASSUME NEW o \in Overlays
  PROVE  /\ Arrangement(o) /\ o.cols \in 1 .. MAX_COLS /\ o.cols \in Int /\ o.order \in Seq(Session)
         /\ o.rowSizes \in Seq(1 .. Unit) /\ o.rowSizes \in Seq(Int)
         /\ o.colSizes \in Seq(Seq(1 .. Unit)) /\ o.colSizes \in Seq(Seq(Int))
<1>1. /\ o = [cols |-> o.cols, order |-> o.order, rowSizes |-> o.rowSizes, colSizes |-> o.colSizes]
      /\ o.cols \in 1 .. MAX_COLS /\ o.order \in Seq(Session)
      /\ o.rowSizes \in Seq(1 .. Unit) /\ o.colSizes \in Seq(Seq(1 .. Unit))
  BY Zenon DEF Overlays
<1>2. o.cols \in Int
  BY <1>1, UnitIs
<1>6. 1 .. Unit \subseteq Int
  OBVIOUS
<1>3. PICK T : T = 1 .. Unit /\ T \subseteq Int
  BY <1>6
<1>4. Seq(T) \subseteq Seq(Int)
  BY <1>3, SeqsGrow
<1>5. Seq(Seq(T)) \subseteq Seq(Seq(Int))
  BY <1>4, SeqsGrow
<1> QED
  BY <1>1, <1>2, <1>3, <1>4, <1>5 DEF Arrangement

LEMMA AppliedWhole ==
  ASSUME NEW n \in Nat, n <= Unit, NEW f, Packed(f.view.tiles, n), NEW o \in Overlays,
         NEW v, v = applyOverlay(f, o).view
  PROVE  WholeLayout(v) /\ Count(v.tiles) <= Unit
<1>1. PICK s : s = f.view.tiles
  OBVIOUS
<1>2. PICK t : t = Occupied(s)
  OBVIOUS
<1>3. s \in Seq(Cell)
  BY <1>1 DEF Packed
<1>4. Len(t) = n /\ t \in Seq(Cell) /\ \A i \in 1 .. n : t[i] \in Session
  BY <1>1, <1>2, <1>3, OccupiedPrefix, OccupiedIs
<1>5. PICK p : p = sorted(ranks(t, o.order))
  OBVIOUS
<1>6. Permutes(p, n)
  <2>1. o.order \in Seq(Session) /\ o.cols \in Int
    BY OverlayIs
  <2>2. p = sorted(ranks(Occupied(f.view.tiles), o.order)) /\ n \in Nat /\ Packed(f.view.tiles, n)
    BY <1>1, <1>2, <1>5
  <2> QED
    BY ONLY <2>1, <2>2, AppliedIs
<1>7. p \in [1 .. n -> 1 .. n]
  BY <1>6 DEF Permutes
<1>8. PICK u : u = [i \in DOMAIN p |-> t[p[i]]]
  OBVIOUS
<1>9. u \in [1 .. n -> Session]
  BY <1>4, <1>7, <1>8
<1>10. v = normalize(u, o.cols, o.rowSizes, o.colSizes)
  BY <1>1, <1>2, <1>5, <1>8 DEF applyOverlay
<1>11. u \in Seq(Cell) /\ Count(u) = n
  BY <1>9, SessionList
<1>12. o.cols \in Int /\ o.rowSizes \in Seq(Int) /\ o.colSizes \in Seq(Seq(Int))
  BY OverlayIs
<1> QED
  BY <1>10, <1>11, <1>12, NormalWhole

LEMMA OverlaysArrange ==
  ASSUME NEW S \in SUBSET Overlays
  PROVE  Arrangements(S)
BY OverlayIs DEF Arrangements

\* What is on screen is whole.
LEMMA ViewWhole ==
  ASSUME WholeLayout(layout), Count(layout.tiles) <= Unit, overlay \subseteq Overlays
  PROVE  WholeLayout(View) /\ Count(View.tiles) <= Unit
<1>1. PICK shows \in SUBSET Session : shows = Shown
  BY ShownOfSessions
<1>2. PICK f : f = filterLayout(layout, shows)
  OBVIOUS
<1>3. WholeLayout(f.view) /\ Count(f.view.tiles) <= Unit
  BY <1>2, FilteredWhole
<1>4. CASE overlay = {}
  BY <1>1, <1>2, <1>3, <1>4 DEF View, OnScreen, Screen
<1>5. CASE overlay # {}
  <2>1. PICK o : o = CHOOSE x \in overlay : TRUE
    OBVIOUS
  <2>2. o \in Overlays
    BY <1>5, <2>1
  <2>3. View = applyOverlay(f, o).view
    BY <1>1, <1>2, <1>5, <2>1 DEF View, OnScreen, Screen
  <2>4. PICK n : n = Len(f.map)
    OBVIOUS
  <2>5. LayoutFits(layout) /\ Count(layout.tiles) \in Nat
    BY WholeIs
  <2>6. n \in Nat /\ n <= Unit
    BY <1>2, <2>4, <2>5, FewerShow, UnitIs
  <2>7. Packed(f.view.tiles, n)
    BY <1>1, <1>2, <2>4, <2>5, OverlaysArrange, ViewIs
  <2> QED
    BY <2>2, <2>3, <2>6, <2>7, AppliedWhole
<1> QED
  BY <1>4, <1>5

\* Of a tile on screen there is one in the layout.
LEMMA ViewPlaced ==
  ASSUME WholeLayout(layout), overlay \subseteq Overlays
  PROVE  Placed(View) \subseteq Placed(layout) /\ Placed(View) \subseteq Session
<1>1. PICK f : f = filterLayout(layout, Shown)
  OBVIOUS
<1>2. PICK n : n = Len(f.map)
  OBVIOUS
<1>3. LayoutFits(layout)
  BY WholeIs
<1>4. PICK p : OnScreenIn(f, n, p)
  BY <1>1, <1>2, <1>3, OverlaysArrange, ViewIs
<1>5. PICK shows \in SUBSET Session : shows = Shown
  BY ShownOfSessions
<1>6. PICK P : P = {i \in DOMAIN layout.tiles : layout.tiles[i] \in shows}
  OBVIOUS
<1>7. Filtered(f, layout, shows, n, P)
  BY <1>1, <1>2, <1>3, <1>5, <1>6, FilteredTiles
<1>8. PICK v : v = View.tiles
  OBVIOUS
<1>9. PICK t \in Seq(Cell) : t = layout.tiles
  BY WholeIs
<1>10. Packed(v, n) /\ p \in [1 .. n -> 1 .. n] /\ \A i \in 1 .. n : v[i] = f.view.tiles[p[i]]
  BY <1>4, <1>8 DEF OnScreenIn, ShownAs, Permutes
<1>11. n \in Nat /\ \A j \in 1 .. n : f.map[j] \in DOMAIN t /\ t[f.map[j]] \in Session /\ f.view.tiles[j] = t[f.map[j]]
  BY <1>5, <1>7, <1>9 DEF Filtered
<1>12. ASSUME NEW x \in Placed(View) PROVE x \in Placed(layout) /\ x \in Session
  <2>1. v \in Seq(Cell) /\ n <= Len(v) /\ \A i \in 1 .. Len(v) : v[i] \in Session <=> i <= n
    BY <1>10 DEF Packed
  <2>2. x \in ToSet(v) /\ x # NoTile
    BY <1>8, <1>12, <2>1, OccupiedIs DEF Placed
  <2>3. PICK i \in DOMAIN v : x = v[i]
    BY <2>2 DEF ToSet
  <2>4. i \in 1 .. Len(v) /\ v[i] \in Cell
    BY <2>1, <2>3
  <2>5. i \in 1 .. n /\ x \in Session
    BY <1>11, <2>1, <2>2, <2>3, <2>4 DEF Cell
  <2>6. PICK j \in 1 .. n : j = p[i]
    BY <1>10, <2>5
  <2>7. x = t[f.map[j]] /\ f.map[j] \in DOMAIN t
    BY <1>10, <1>11, <2>3, <2>5, <2>6
  <2>8. x \in ToSet(t)
    BY <2>7 DEF ToSet
  <2>9. Placed(layout) = ToSet(t) \ {NoTile}
    BY <1>3, <1>9, LayoutFitsIs
  <2> QED
    BY <2>2, <2>5, <2>8, <2>9
<1> QED
  BY <1>12

\* A tile that can be clicked is a session's.
LEMMA ClickableIs ==
  ASSUME WholeLayout(layout), overlay \subseteq Overlays, NEW i \in Clickable
  PROVE  layout.tiles[i] \in Session
<1>1. PICK f : f = filterLayout(layout, Shown)
  OBVIOUS
<1>2. PICK n : n = Len(f.map)
  OBVIOUS
<1>3. LayoutFits(layout)
  BY WholeIs
<1>4. PICK shows \in SUBSET Session : shows = Shown
  BY ShownOfSessions
<1>5. PICK P : P = {j \in DOMAIN layout.tiles : layout.tiles[j] \in shows}
  OBVIOUS
<1>6. Filtered(f, layout, shows, n, P)
  BY <1>1, <1>2, <1>3, <1>4, <1>5, FilteredTiles
<1>7. f.map \in Seq(Nat) /\ ToSet(f.map) = P /\ DOMAIN f.map = 1 .. n /\ n \in Nat /\ \A j \in 1 .. n : f.map[j] \in P
  <2>1. f.map \in Seq(Nat) /\ ToSet(f.map) = P
    BY <1>6 DEF Filtered
  <2>2. DOMAIN f.map = 1 .. n /\ n \in Nat
    BY <1>2, <2>1
  <2>3. \A j \in 1 .. n : f.map[j] \in P
    BY <2>1, <2>2 DEF ToSet
  <2> QED
    BY <2>1, <2>2, <2>3
<1>8. i \in P
  <2>1. CASE overlay = {}
    BY <1>1, <1>7, <2>1 DEF Clickable, OnScreen, Screen
  <2>2. CASE overlay # {}
    <3>1. PICK o : o = CHOOSE x \in overlay : TRUE
      OBVIOUS
    <3>2. o \in Overlays
      BY <2>2, <3>1
    <3>3. PICK p : p = sorted(ranks(Occupied(f.view.tiles), o.order))
      OBVIOUS
    <3>4. OnScreen.map = [k \in DOMAIN p |-> f.map[p[k]]]
      BY <1>1, <2>2, <3>1, <3>3 DEF OnScreen, Screen, applyOverlay
    <3>5. p \in [1 .. n -> 1 .. n]
      <4>1. o.order \in Seq(Session) /\ o.cols \in Int
        BY <3>2, OverlayIs
      <4>2. Packed(f.view.tiles, n) /\ n \in Nat
        BY <1>6, <1>7 DEF Filtered
      <4>3. Permutes(p, n)
        BY ONLY <3>3, <4>1, <4>2, AppliedIs
      <4> QED
        BY <4>3 DEF Permutes
    <3>6. PICK m : m = OnScreen.map
      OBVIOUS
    <3>7. i \in ToSet(m)
      BY <3>6 DEF Clickable
    <3>8. PICK k \in DOMAIN m : i = m[k]
      BY <3>7 DEF ToSet
    <3>9. k \in 1 .. n /\ i = f.map[p[k]] /\ p[k] \in 1 .. n
      BY <3>4, <3>5, <3>6, <3>8
    <3> QED
      BY <1>7, <3>9
  <2> QED
    BY <2>1, <2>2
<1> QED
  BY <1>4, <1>5, <1>8

Single(S) == \A x, y \in S : x = y

\* The layout is whole, and no step can add more tiles than the axes have parts.
LayoutShape ==
  /\ WholeLayout(layout) /\ steps \in 0 .. MaxSteps /\ Count(layout.tiles) + MaxSteps <= Unit + steps
  /\ maximized \subseteq Placed(layout) /\ Single(maximized)
ChoiceShape == selected \subseteq Dir /\ stored \in [Dir -> SUBSET Overlays] /\ overlay \subseteq Overlays
ListShape ==
  /\ known \in [Session -> {"absent", "running", "ended"}]
  /\ loaded \subseteq Server /\ servers \subseteq Server
  /\ status \in [Server -> {"", "open", "auth-expired", "unreachable"}]
  /\ launching \subseteq Session /\ asked \subseteq Session
KeyShape == editing \subseteq Session /\ reader \subseteq Session /\ Single(editing) /\ Single(reader)
DragShape == drag \subseteq Drag /\ Single(drag) /\ hold \in BOOLEAN /\ narrow \in BOOLEAN

GridShape == LayoutShape /\ ChoiceShape /\ ListShape /\ KeyShape /\ DragShape

LEMMA GridConstants ==
  /\ MaxSteps \in Nat /\ Delta \subseteq Int /\ FirstDirs \subseteq SUBSET Dir
  /\ ServerOf \in [Session -> Server] /\ DirOf \in [Session -> Dir] /\ IsFiniteSet(Session)
<1>1. MaxSteps \in Nat /\ Delta \subseteq Int
  BY Zenon, GridAssumption DEF GridAssumption
<1>2. FirstDirs \subseteq SUBSET Range(DirOf) /\ ServerOf \in [Session -> Server] /\ IsFiniteSet(Session)
  BY Zenon, GridAssumption DEF GridAssumption
<1>3. DirOf \in [Session -> Nat \ {0}]
  BY Zenon, GridAssumption DEF GridAssumption
<1>4. DirOf \in [Session -> Dir]
  BY <1>3, DirsOfSessions
<1> QED
  BY <1>1, <1>2, <1>4 DEF Dir

LEMMA Room ==
  ASSUME LayoutShape
  PROVE  /\ Count(layout.tiles) \in Nat /\ Count(layout.tiles) <= Unit
         /\ steps < MaxSteps => Count(layout.tiles) < Unit
<1>1. PICK k \in Nat : k = Count(layout.tiles)
  BY WholeIs DEF LayoutShape
<1>2. steps \in 0 .. MaxSteps /\ k + MaxSteps <= Unit + steps
  BY <1>1 DEF LayoutShape
<1> QED
  BY <1>1, <1>2, UnitIs, GridConstants

\* An adopted layout keeps the shape, and so does a step that leaves the layout.
LEMMA ShapeAdopts ==
  ASSUME LayoutShape, Step, NEW u, Grows(layout, u), adoptLayout(u)
  PROVE  LayoutShape'
<1>1. layout' = u /\ maximized' = maximized \cap Placed(u) /\ steps' = steps + 1 /\ steps < MaxSteps
  BY DEF adoptLayout, Step
<1>2. PICK k \in Nat : k = Count(layout.tiles)
  BY WholeIs DEF LayoutShape
<1>3. WholeLayout(u) /\ Count(u.tiles) <= k + 1
  BY <1>2 DEF Grows
<1>4. PICK m \in Nat : m = Count(u.tiles)
  BY <1>3, WholeIs
<1>5. steps \in 0 .. MaxSteps /\ k + MaxSteps <= Unit + steps
  BY <1>2 DEF LayoutShape
<1>6. steps' \in 0 .. MaxSteps /\ m + MaxSteps <= Unit + steps'
  BY <1>1, <1>3, <1>4, <1>5, UnitIs, GridConstants
<1>7. maximized' \subseteq Placed(u) /\ Single(maximized')
  BY <1>1 DEF LayoutShape, Single
<1> QED
  BY <1>1, <1>3, <1>4, <1>6, <1>7 DEF LayoutShape, Single

LEMMA ShapeRests ==
  ASSUME LayoutShape, layout' = layout, NEW S, maximized' = S, S \subseteq Placed(layout), Single(S),
         Step \/ steps' = steps
  PROVE  LayoutShape'
<1>1. PICK k \in Nat : k = Count(layout.tiles)
  BY WholeIs DEF LayoutShape
<1>2. steps \in 0 .. MaxSteps /\ k + MaxSteps <= Unit + steps
  BY <1>1 DEF LayoutShape
<1>3. steps' \in 0 .. MaxSteps /\ k + MaxSteps <= Unit + steps'
  BY <1>1, <1>2, UnitIs, GridConstants DEF Step
<1> QED
  BY <1>1, <1>3 DEF LayoutShape, Single

\* The arrangements keep their shape when one is loaded, and when one is edited.
LEMMA ChoiceLoads ==
  ASSUME ChoiceShape, selected' \subseteq Dir, LoadsOne
  PROVE  ChoiceShape'
<1>1. (activeSolo = 0 \/ activeSolo \in Dir)'
  BY SoloKnown, PTL
<1>2. PICK d : d = activeSolo'
  OBVIOUS
<1>3. PICK kept : kept = stored /\ kept = stored'
  BY DEF LoadsOne
<1>4. kept \in [Dir -> SUBSET Overlays] /\ overlay \subseteq Overlays
  BY <1>3 DEF ChoiceShape
<1>5. overlay' \in {overlay, {}} \/ (d # 0 /\ overlay' = kept[d])
  BY <1>2, <1>3 DEF LoadsOne, loadOverlay
<1>6. overlay' \subseteq Overlays
  BY <1>1, <1>2, <1>4, <1>5
<1> QED
  BY <1>3, <1>4, <1>6 DEF ChoiceShape

LEMMA ChoiceEdits ==
  ASSUME ChoiceShape, selected' = selected, activeSolo # 0, NEW o \in Overlays, overlay' = {o},
         stored' \in {stored, [stored EXCEPT ![activeSolo] = {o}]}
  PROVE  ChoiceShape'
<1>1. stored' \in [Dir -> SUBSET Overlays]
  BY DEF ChoiceShape
<1> QED
  BY <1>1 DEF ChoiceShape

LEMMA ChoiceArranged ==
  ASSUME ChoiceShape, NEW o, NEW l, Arranged(o, l), activeSolo # 0 => o \in Overlays
  PROVE  ChoiceShape'
<1>1. selected' = selected
  BY DEF Arranged
<1>2. CASE activeSolo # 0
  <2>1. overlay' = {o} /\ stored' = [stored EXCEPT ![activeSolo] = {o}]
    BY <1>2 DEF Arranged, editOverlay
  <2> QED
    BY <1>1, <1>2, <2>1, ChoiceEdits
<1>3. CASE activeSolo = 0
  <2>1. LoadsOne
    BY <1>3 DEF LoadsOne, Arranged
  <2> QED
    BY <1>1, <2>1, ChoiceLoads DEF ChoiceShape
<1> QED
  BY <1>2, <1>3

LEMMA LayoutArranged ==
  ASSUME LayoutShape, Step, NEW o, NEW l, Arranged(o, l), activeSolo = 0 => Grows(layout, l)
  PROVE  LayoutShape'
<1>1. CASE activeSolo # 0
  <2>1. layout' = layout /\ maximized' = maximized
    BY <1>1 DEF Arranged, editOverlay
  <2>2. maximized \subseteq Placed(layout) /\ Single(maximized)
    BY DEF LayoutShape
  <2> QED
    BY <2>1, <2>2, ShapeRests
<1>2. CASE activeSolo = 0
  <2>1. adoptLayout(l)
    BY <1>2 DEF Arranged
  <2> QED
    BY <1>2, <2>1, ShapeAdopts
<1> QED
  BY <1>1, <1>2

LEMMA ShapeView ==
  ASSUME LayoutShape, ChoiceShape
  PROVE  /\ WholeLayout(View) /\ Count(View.tiles) <= Unit
         /\ Placed(View) \subseteq Placed(layout) /\ Placed(View) \subseteq Session
<1>1. WholeLayout(layout) /\ Count(layout.tiles) <= Unit /\ overlay \subseteq Overlays
  BY Room DEF LayoutShape, ChoiceShape
<1> QED
  BY <1>1, ViewWhole, ViewPlaced

\* What is edited is an arrangement with whole sizes.
LEMMA OverlayTyped ==
  ASSUME GridInv, LayoutShape, ChoiceShape
  PROVE  Overlay \in Overlays
<1>1. WholeLayout(layout) /\ overlay \subseteq Overlays
  BY DEF LayoutShape, ChoiceShape
<1>2. CASE overlay # {}
  BY <1>1, <1>2 DEF Overlay
<1>3. CASE overlay = {}
  <2>1. PICK v : v = View
    OBVIOUS
  <2>2. WholeLayout(v)
    BY <2>1, ShapeView
  <2>3. PICK o : o = seedOverlay(v)
    OBVIOUS
  <2>4. Overlay = o
    BY <1>3, <2>1, <2>3 DEF Overlay
  <2>5. o = [cols |-> v.cols, order |-> orderOf(v), rowSizes |-> v.rowSizes, colSizes |-> v.colSizes]
    BY <2>3 DEF seedOverlay
  <2>6. v.cols \in 1 .. MAX_COLS /\ v.rowSizes \in Seq(1 .. Unit) /\ v.colSizes \in Seq(Seq(1 .. Unit))
    BY <2>2, WholeIs
  <2>7. orderOf(v) \in Seq(Session)
    <3>1. v.tiles \in Seq(Cell)
      BY <2>2, WholeIs
    <3>2. PICK w : w = Occupied(v.tiles)
      OBVIOUS
    <3>3. w \in Seq(Cell) /\ \A i \in 1 .. Len(w) : w[i] \in Session
      BY <3>1, <3>2, OccupiedIs
    <3>4. w \in Seq(Session)
      BY <3>3
    <3> QED
      BY <3>2, <3>4 DEF orderOf
  <2> QED
    BY <2>4, <2>5, <2>6, <2>7 DEF Overlays
<1> QED
  BY <1>2, <1>3

LEMMA OverlaySizes ==
  ASSUME NEW x \in Overlays, NEW r \in Seq(1 .. Unit), NEW c \in Seq(Seq(1 .. Unit)),
         NEW y, y = [x EXCEPT !.rowSizes = r, !.colSizes = c]
  PROVE  y \in Overlays
<1>1. /\ x = [cols |-> x.cols, order |-> x.order, rowSizes |-> x.rowSizes, colSizes |-> x.colSizes]
      /\ x.cols \in 1 .. MAX_COLS /\ x.order \in Seq(Session)
  BY Zenon DEF Overlays
<1>2. y = [cols |-> x.cols, order |-> x.order, rowSizes |-> r, colSizes |-> c]
  BY <1>1
<1> QED
  BY Zenon, <1>1, <1>2 DEF Overlays

LEMMA OverlayColumns ==
  ASSUME NEW x \in Overlays, NEW n \in 1 .. MAX_COLS, NEW y, y = [x EXCEPT !.cols = n]
  PROVE  y \in Overlays
<1>1. /\ x = [cols |-> x.cols, order |-> x.order, rowSizes |-> x.rowSizes, colSizes |-> x.colSizes]
      /\ x.order \in Seq(Session)
      /\ x.rowSizes \in Seq(1 .. Unit) /\ x.colSizes \in Seq(Seq(1 .. Unit))
  BY Zenon DEF Overlays
<1>2. y = [cols |-> n, order |-> x.order, rowSizes |-> x.rowSizes, colSizes |-> x.colSizes]
  BY <1>1
<1> QED
  BY Zenon, <1>1, <1>2 DEF Overlays

LEMMA OverlayOrder ==
  ASSUME NEW x \in Overlays, NEW w, NEW y, y = [x EXCEPT !.order = w], Arrangement(y)
  PROVE  y \in Overlays
<1>1. /\ x = [cols |-> x.cols, order |-> x.order, rowSizes |-> x.rowSizes, colSizes |-> x.colSizes]
      /\ x.cols \in 1 .. MAX_COLS
      /\ x.rowSizes \in Seq(1 .. Unit) /\ x.colSizes \in Seq(Seq(1 .. Unit))
  BY Zenon DEF Overlays
<1>2. y = [cols |-> x.cols, order |-> w, rowSizes |-> x.rowSizes, colSizes |-> x.colSizes]
  BY <1>1
<1>3. w \in Seq(Session)
  BY <1>2 DEF Arrangement
<1> QED
  BY Zenon, <1>1, <1>2, <1>3 DEF Overlays

LEMMA ShapeArranges ==
  ASSUME ChoiceShape
  PROVE  ArrangementsFit
BY OverlaysArrange DEF ChoiceShape, ArrangementsFit

\* Other sizes are adopted.
LEMMA ResizedShape ==
  ASSUME GridInv, LayoutShape, ChoiceShape, Step, NEW l, WholeLayout(l), Resized(l)
  PROVE  LayoutShape' /\ ChoiceShape'
<1>1. PICK o : o = [Overlay EXCEPT !.rowSizes = l.rowSizes, !.colSizes = l.colSizes]
  OBVIOUS
<1>2. PICK u : u = adoptSizes(layout, l)
  OBVIOUS
<1>3. Arranged(o, u)
  BY <1>1, <1>2 DEF Resized
<1>4. /\ l.rowSizes \in Seq(1 .. Unit) /\ l.colSizes \in Seq(Seq(1 .. Unit))
      /\ l.rowSizes \in Seq(Int) /\ l.colSizes \in Seq(Seq(Int))
  BY WholeIs
<1>5. o \in Overlays
  BY <1>1, <1>4, OverlayTyped, OverlaySizes
<1>6. Grows(layout, u)
  BY <1>2, <1>4, Room, SizesGrow DEF Step, LayoutShape
<1> QED
  BY <1>3, <1>5, <1>6, ChoiceArranged, LayoutArranged

\* A divider's sizes on what is on screen.
LEMMA HandleIs ==
  ASSUME LayoutShape, ChoiceShape, NEW h \in Handles
  PROVE  /\ h \in [axis : {"row", "col"}, row : Nat, boundary : Nat]
         /\ h.axis # "row" => h.row \in 1 .. View.rows
<1>1. PICK v : v = View
  OBVIOUS
<1>2. v.rows \in Nat /\ v.cols \in Nat
  BY <1>1, ShapeView, WholeIs
<1>3. CASE \E b \in 1 .. v.rows - 1 : h = [axis |-> "row", row |-> 1, boundary |-> b]
  BY <1>1, <1>2, <1>3
<1>4. CASE \E r \in 1 .. v.rows, b \in 1 .. v.cols - 1 : h = [axis |-> "col", row |-> r, boundary |-> b]
  BY <1>1, <1>2, <1>4
<1> QED
  BY <1>1, <1>3, <1>4 DEF Handles

LEMMA SizedIs ==
  ASSUME LayoutShape, ChoiceShape, NEW h \in Handles, NEW s \in Seq(Int), NEW l, l = Sized(h, s)
  PROVE  WholeLayout(l)
<1>1. PICK v : v = View
  OBVIOUS
<1>2. WholeLayout(v) /\ Count(v.tiles) <= Unit
  BY <1>1, ShapeView
<1>3. l = setRowSizes(v, s) \/ \E r \in 1 .. v.rows : l = setColSizes(v, r, s)
  BY <1>1, HandleIs DEF Sized
<1> QED
  BY <1>2, <1>3, SizedWhole

LEMMA DraggedIs ==
  ASSUME LayoutShape, ChoiceShape, DragShape, NEW d \in drag, NEW delta \in Delta, d.handle \in Handles,
         NEW l, l = Sized(d.handle, resizeTracks(d.start, d.handle.boundary, delta))
  PROVE  WholeLayout(l)
<1>1. d.start \in Seq(Int)
  <2>1. PICK T : T = 1 .. Unit
    OBVIOUS
  <2>2. T \subseteq Int
    BY <2>1
  <2>3. d.start \in Seq(T)
    BY <2>1 DEF DragShape, Drag
  <2> QED
    BY <2>2, <2>3, SeqsGrow
<1>2. delta \in Int
  BY GridConstants
<1>3. PICK s : s = resizeTracks(d.start, d.handle.boundary, delta)
  OBVIOUS
<1>4. s \in Seq(Int)
  BY <1>1, <1>2, <1>3, ResizedTracks
<1> QED
  BY <1>3, <1>4, SizedIs

\* The directories are bounded, so their ring can be walked.
LEMMA BoundOf ==
  ASSUME NEW S, IsFiniteSet(S), S \subseteq Nat
  PROVE  \E b \in Nat : \A x \in S : x <= b
<1>1. PICK n \in Nat : n = Cardinality(S)
  BY FS_CardinalityType
<1>2. PICK f : f \in Bijection(1 .. n, S)
  BY <1>1, FS_CardinalityType DEF ExistsBijection
<1>3. f \in [1 .. n -> S] /\ \A x \in S : \E i \in 1 .. n : f[i] = x
  BY <1>2 DEF Bijection, Surjection, Injection
<1>4. PICK H \in SUBSET Nat : H = {i \in Nat : \E b \in Nat : \A j \in 1 .. i : f[j] <= b}
  OBVIOUS
<1>5. 0 \in H
  <2>1. \A j \in 1 .. 0 : f[j] <= 0
    OBVIOUS
  <2> QED
    BY <1>4, <2>1
<1>6. ASSUME NEW i \in 1 .. n, i - 1 \in H PROVE i \in H
  <2>1. PICK b \in Nat : \A j \in 1 .. i - 1 : f[j] <= b
    BY <1>4, <1>6
  <2>2. PICK x \in Nat : x = f[i]
    BY <1>3
  <2>3. PICK c \in Nat : b <= c /\ x <= c
    OBVIOUS
  <2>4. ASSUME NEW j \in 1 .. i PROVE f[j] <= c
    <3>1. CASE j = i
      BY <2>2, <2>3, <3>1
    <3>2. CASE j # i
      <4>1. j \in 1 .. i - 1 /\ j \in 1 .. n
        BY <3>2
      <4>2. f[j] \in Nat /\ f[j] <= b
        BY <1>3, <2>1, <4>1
      <4> QED
        BY <2>3, <4>2
    <3> QED
      BY <3>1, <3>2
  <2> QED
    BY <1>4, <2>4
<1>7. n \in H
  <2>1. n \in Nat /\ H \in SUBSET Nat /\ \A i \in 1 .. n : i - 1 \in H => i \in H
    BY <1>4, <1>6
  <2> QED
    BY ONLY <1>5, <2>1, Rises
<1> QED
  BY <1>3, <1>4, <1>7

LEMMA DirsBounded ==
  \E n \in Nat : Dir \subseteq 1 .. n
<1>1. DirOf \in Surjection(Session, Dir)
  BY GridConstants, DirsOfSessions DEF Surjection
<1>2. IsFiniteSet(Dir)
  BY <1>1, GridConstants, FS_Surjection
<1>3. Dir \subseteq Nat /\ 0 \notin Dir
  <2>1. DirOf \in [Session -> Nat \ {0}]
    BY Zenon, GridAssumption DEF GridAssumption
  <2> QED
    BY <2>1, DirsOfSessions
<1>4. PICK n \in Nat : \A x \in Dir : x <= n
  BY <1>2, <1>3, BoundOf
<1>5. Dir \subseteq 1 .. n
  BY <1>3, <1>4
<1> QED
  BY <1>5

LEMMA DirsIn == dirs \subseteq Dir /\ activeDirs \subseteq Dir
BY GridConstants DEF dirs, activeDirs, effectiveDirs, Running, On

LEMMA TurnIn ==
  ASSUME NEW L \in Nat, L > 0, NEW x \in Int
  PROVE  (x % L) + 1 \in 1 .. L
OBVIOUS

\* The solo's neighbour in the ring is a directory, or all of them.
LEMMA CycleIn ==
  ASSUME NEW solo, NEW B \in SUBSET Dir, NEW by \in Int, NEW next, next = cycleSolo(solo, B, by)
  PROVE  next = 0 \/ next \in Dir
<1>1. CASE B = {}
  BY <1>1 DEF cycleSolo
<1>2. CASE B # {}
  <2>1. PICK n \in Nat : Dir \subseteq 1 .. n
    BY DirsBounded
  <2>2. PICK A : A = Ascending(B)
    OBVIOUS
  <2>3. B \in SUBSET (1 .. n)
    BY <2>1
  <2>4. A \in Seq(Nat) /\ ToSet(A) = B
    BY <2>2, <2>3, AscendingIs
  <2>5. PICK ring : ring = <<0>> \o A
    OBVIOUS
  <2>6. PICK m \in Nat : m = Len(A)
    BY <2>4
  <2>7. <<0>> \in Seq(Nat) /\ Len(<<0>>) = 1 /\ <<0>>[1] = 0
    OBVIOUS
  <2>8. ring \in Seq(Nat) /\ Len(ring) = m + 1
    BY <2>4, <2>5, <2>6, <2>7, Joined
  <2>9. ring[1] = 0 /\ \A i \in 1 .. m : ring[1 + i] = A[i]
    <3>1. \A i \in 1 .. Len(<<0>>) : ring[i] = <<0>>[i]
      BY <2>4, <2>5, <2>7, JoinedAt
    <3>2. \A i \in 1 .. Len(A) : ring[Len(<<0>>) + i] = A[i]
      BY <2>4, <2>5, <2>7, JoinedAt
    <3> QED
      BY <2>6, <2>7, <3>1, <3>2
  <2>10. \A i \in 1 .. m : A[i] \in B
    BY <2>4, <2>6 DEF ToSet
  <2>11. PICK x : x = IF solo \in B THEN solo ELSE 0
    OBVIOUS
  <2>12. \E i \in DOMAIN ring : ring[i] = x
    <3>1. DOMAIN ring = 1 .. m + 1
      BY <2>8
    <3>2. CASE solo \in B
      <4>1. PICK i \in 1 .. m : A[i] = solo
        BY <2>4, <2>6, <3>2 DEF ToSet
      <4>2. 1 + i \in 1 .. m + 1 /\ ring[1 + i] = solo
        BY <2>9, <4>1
      <4> QED
        BY <2>11, <3>1, <3>2, <4>2
    <3>3. CASE solo \notin B
      BY <2>9, <2>11, <3>1, <3>3
    <3> QED
      BY <3>2, <3>3
  <2>13. PICK at : at = CHOOSE i \in DOMAIN ring : ring[i] = x
    OBVIOUS
  <2>14. at \in Int
    BY <2>8, <2>12, <2>13
  <2>15. next = ring[((at - 1 + by + Len(ring)) % Len(ring)) + 1]
    BY <1>2, <2>2, <2>5, <2>11, <2>13 DEF cycleSolo
  <2>16. PICK y \in Int : y = at - 1 + by + (m + 1)
    BY <2>14
  <2>17. PICK k : k = (y % (m + 1)) + 1
    OBVIOUS
  <2>18. k \in 1 .. m + 1
    BY <2>17, TurnIn
  <2>19. next = ring[k]
    BY <2>8, <2>15, <2>16, <2>17
  <2>20. k = 1 \/ \E i \in 1 .. m : k = 1 + i
    <3>1. k # 1 => k - 1 \in 1 .. m /\ k = 1 + (k - 1)
      BY <2>18
    <3> QED
      BY <3>1
  <2> QED
    BY <2>9, <2>10, <2>19, <2>20
<1> QED
  BY <1>1, <1>2

----------------------------------------------------------------------------
\* The layout, and who is maximized in it.

LEMMA ColumnsShape ==
  ASSUME GridInv, LayoutShape, ChoiceShape, NEW n \in 1 .. MAX_COLS, SetColumns(n)
  PROVE  LayoutShape' /\ ChoiceShape'
<1>1. PICK o : o = [Overlay EXCEPT !.cols = n]
  OBVIOUS
<1>2. PICK u : u = setCols(layout, n)
  OBVIOUS
<1>3. Arranged(o, u) /\ Step
  BY <1>1, <1>2 DEF SetColumns
<1>4. o \in Overlays
  BY <1>1, OverlayTyped, OverlayColumns
<1>5. n \in Int
  OBVIOUS
<1>6. Grows(layout, u)
  BY <1>2, <1>3, <1>5, Room, ColumnsGrow DEF Step, LayoutShape
<1> QED
  BY <1>3, <1>4, <1>6, ChoiceArranged, LayoutArranged

LEMMA DropShape ==
  ASSUME GridInv, LayoutShape, ChoiceShape, NEW a \in DOMAIN View.tiles, NEW b \in DOMAIN View.tiles, Drop(a, b)
  PROVE  LayoutShape' /\ ChoiceShape'
<1>1. PICK w : w = Swapped(orderOf(View), a, b)
  OBVIOUS
<1>2. PICK o : o = IF activeSolo = 0 THEN {} ELSE [Overlay EXCEPT !.order = w]
  OBVIOUS
<1>3. PICK u : u = swapTiles(layout, realIndex(a), realIndex(b))
  OBVIOUS
<1>4. Arranged(o, u) /\ Step
  BY <1>1, <1>2, <1>3 DEF Drop
<1>5. ASSUME activeSolo # 0 PROVE o \in Overlays
  <2>1. o = [Overlay EXCEPT !.order = w]
    BY <1>2, <1>5
  <2>2. Arrangement(o)
    BY <1>1, <1>5, <2>1, ShapeArranges, DropFits
  <2> QED
    BY <2>1, <2>2, OverlayTyped, OverlayOrder
<1>6. ASSUME activeSolo = 0 PROVE Grows(layout, u)
  <2>1. PICK i \in DOMAIN layout.tiles, j \in DOMAIN layout.tiles : u = swapTiles(layout, i, j)
    BY <1>3, <1>6, DropIs
  <2> QED
    BY <1>4, <2>1, Room, SwappedGrows DEF Step, LayoutShape
<1> QED
  BY <1>4, <1>5, <1>6, ChoiceArranged, LayoutArranged

LEMMA MoveDragShape ==
  ASSUME GridInv, LayoutShape, ChoiceShape, DragShape, NEW d \in drag, NEW delta \in Delta, MoveDrag(d, delta)
  PROVE  LayoutShape' /\ ChoiceShape'
<1>1. PICK l : l = Sized(d.handle, resizeTracks(d.start, d.handle.boundary, delta))
  OBVIOUS
<1>2. d.handle \in Handles /\ Step /\ selected' = selected /\ stored' = stored
  BY DEF MoveDrag
<1>3. WholeLayout(l)
  BY <1>1, <1>2, DraggedIs
<1>4. /\ l.rowSizes \in Seq(1 .. Unit) /\ l.colSizes \in Seq(Seq(1 .. Unit))
      /\ l.rowSizes \in Seq(Int) /\ l.colSizes \in Seq(Seq(Int))
  BY <1>3, WholeIs
<1>5. PICK o : o = [Overlay EXCEPT !.rowSizes = l.rowSizes, !.colSizes = l.colSizes]
  OBVIOUS
<1>6. PICK u : u = adoptSizes(layout, l)
  OBVIOUS
<1>7. IF activeSolo # 0 THEN overlay' = {o} /\ UNCHANGED <<layout, maximized>>
      ELSE adoptLayout(u) /\ UNCHANGED overlay
  BY <1>1, <1>5, <1>6 DEF MoveDrag
<1>8. o \in Overlays
  BY <1>4, <1>5, OverlayTyped, OverlaySizes
<1>9. Grows(layout, u)
  BY <1>2, <1>4, <1>6, Room, SizesGrow DEF Step, LayoutShape
<1>10. CASE activeSolo # 0
  <2>1. overlay' = {o} /\ layout' = layout /\ maximized' = maximized
    BY <1>7, <1>10
  <2>2. ChoiceShape'
    BY <1>2, <1>8, <1>10, <2>1, ChoiceEdits
  <2>3. maximized \subseteq Placed(layout) /\ Single(maximized)
    BY DEF LayoutShape
  <2>4. LayoutShape'
    BY <1>2, <2>1, <2>3, ShapeRests
  <2> QED
    BY <2>2, <2>4
<1>11. CASE activeSolo = 0
  <2>1. adoptLayout(u) /\ overlay' = overlay
    BY <1>7, <1>11
  <2>2. LayoutShape'
    BY <1>2, <1>9, <2>1, ShapeAdopts
  <2>3. ChoiceShape'
    BY <1>2, <2>1 DEF ChoiceShape
  <2> QED
    BY <2>2, <2>3
<1> QED
  BY <1>10, <1>11

LEMMA MaximizedStays ==
  ASSUME LayoutShape, layout' = layout, maximized' = maximized, Step \/ steps' = steps
  PROVE  LayoutShape'
<1>1. maximized \subseteq Placed(layout) /\ Single(maximized)
  BY DEF LayoutShape
<1> QED
  BY <1>1, ShapeRests

LEMMA EndDragShape ==
  ASSUME GridInv, LayoutShape, ChoiceShape, DragShape, NEW d \in drag, NEW delta \in Delta, EndDrag(d, delta)
  PROVE  LayoutShape' /\ ChoiceShape'
<1>1. PICK l : l = Sized(d.handle, resizeTracks(d.start, d.handle.boundary, delta))
  OBVIOUS
<1>2. d.handle \in Handles /\ Step
  BY DEF EndDrag
<1>3. WholeLayout(l)
  BY <1>1, <1>2, DraggedIs
<1>4. CASE d.moved
  <2>1. Resized(l)
    BY <1>1, <1>4 DEF EndDrag
  <2> QED
    BY <1>2, <1>3, <2>1, ResizedShape
<1>5. CASE ~d.moved
  <2>1. layout' = layout /\ maximized' = maximized /\ UNCHANGED choice
    BY <1>5 DEF EndDrag
  <2>2. LayoutShape'
    BY <1>2, <2>1, MaximizedStays
  <2>3. ChoiceShape'
    BY <2>1 DEF ChoiceShape, choice
  <2> QED
    BY <2>2, <2>3
<1> QED
  BY <1>4, <1>5

LEMMA ResetTracksShape ==
  ASSUME GridInv, LayoutShape, ChoiceShape, NEW h \in Handles, ResetTracks(h)
  PROVE  LayoutShape' /\ ChoiceShape'
<1>1. PICK n : n = IF h.axis = "row" THEN View.rows ELSE View.cols
  OBVIOUS
<1>2. PICK s : s = equalSizes(n)
  OBVIOUS
<1>3. PICK l : l = Sized(h, s)
  OBVIOUS
<1>4. Resized(l) /\ Step
  BY <1>1, <1>2, <1>3 DEF ResetTracks
<1>5. PICK v : v = View
  OBVIOUS
<1>6. v.rows \in Nat /\ v.cols \in Nat
  BY <1>5, ShapeView, WholeIs
<1>7. n \in Nat
  BY <1>1, <1>5, <1>6
<1>8. \A i \in 1 .. n : (Unit * i) \div n - (Unit * (i - 1)) \div n \in Int
  <2> SUFFICES ASSUME NEW i \in 1 .. n PROVE (Unit * i) \div n - (Unit * (i - 1)) \div n \in Int
    OBVIOUS
  <2>1. n > 0 /\ i \in Nat /\ i - 1 \in Nat
    BY <1>7
  <2>2. Boundary(n, i) \in Int /\ Boundary(n, i - 1) \in Int
    BY <1>7, <2>1, BoundaryIs
  <2> QED
    BY <2>2 DEF Boundary
<1>9. s \in [1 .. n -> Int]
  BY <1>2, <1>8 DEF equalSizes
<1>10. s \in Seq(Int)
  BY <1>7, <1>9, SeqOfFun
<1>11. WholeLayout(l)
  BY <1>3, <1>10, SizedIs
<1> QED
  BY <1>4, <1>11, ResizedShape

\* A tile is placed, removed or dismissed, or another page's layout lands.
LEMMA AddShape ==
  ASSUME LayoutShape, Step, NEW s \in Session, adoptLayout(addTile(layout, s))
  PROVE  LayoutShape'
<1>1. PICK u : u = addTile(layout, s)
  OBVIOUS
<1>2. Grows(layout, u)
  BY <1>1, Room, AddedGrows DEF Step, LayoutShape
<1> QED
  BY <1>1, <1>2, ShapeAdopts

LEMMA RemoveShape ==
  ASSUME LayoutShape, Step, NEW i, adoptLayout(removeTile(layout, i))
  PROVE  LayoutShape'
<1>1. PICK u : u = removeTile(layout, i)
  OBVIOUS
<1>2. Grows(layout, u)
  BY <1>1, Room, RemovedByIndexGrows DEF Step, LayoutShape
<1> QED
  BY <1>1, <1>2, ShapeAdopts

LEMMA RemoveWhereShape ==
  ASSUME LayoutShape, Step, NEW D, adoptLayout(removeTilesWhere(layout, D))
  PROVE  LayoutShape'
<1>1. PICK u : u = removeTilesWhere(layout, D)
  OBVIOUS
<1>2. Grows(layout, u)
  BY <1>1, Room, RemovedByNameGrows DEF Step, LayoutShape
<1> QED
  BY <1>1, <1>2, ShapeAdopts

LEMMA FirstIs ==
  ASSUME NEW f \in FirstLayouts
  PROVE  /\ WellFormed(f) /\ f.tiles \in Seq(Cell) /\ f.rowSizes \in Seq(Int) /\ f.colSizes \in Seq(Seq(Int))
         /\ Count(f.tiles) + MaxSteps <= Unit
<1>1. \A l \in FirstLayouts :
        /\ WellFormed(l)
        /\ l.tiles \in Seq(Session \cup {NoTile})
        /\ l.rowSizes \in Seq(Int) /\ l.colSizes \in Seq(Seq(Int))
        /\ Count(l.tiles) + MaxSteps <= Unit
  BY Zenon, GridAssumption DEF GridAssumption
<1> QED
  BY Zenon, <1>1 DEF Cell

LEMMA FirstWhole ==
  ASSUME NEW f \in FirstLayouts
  PROVE  WholeLayout(f)
<1>1. usable(f.rowSizes, f.rows) /\ Len(f.colSizes) = f.rows /\ \A r \in 1 .. f.rows : usable(f.colSizes[r], f.cols)
  BY FirstIs DEF WellFormed
<1>2. f.rowSizes \in Seq(1 .. Unit)
  BY <1>1, FirstIs, UsableIs
<1>3. PICK w \in Seq(Seq(Int)) : w = f.colSizes
  BY FirstIs
<1>4. PICK n \in Nat : n = Len(w)
  OBVIOUS
<1>5. PICK T : T = Seq(1 .. Unit)
  OBVIOUS
<1>6. ASSUME NEW r \in 1 .. n PROVE w[r] \in T
  <2>1. w[r] \in Seq(Int) /\ usable(w[r], f.cols)
    BY <1>1, <1>3, <1>4
  <2> QED
    BY <1>5, <2>1, UsableIs
<1>7. w = [r \in 1 .. n |-> w[r]]
  BY <1>4
<1>8. w \in [1 .. n -> T]
  BY ONLY <1>6, <1>7
<1>9. w \in Seq(T)
  BY <1>8, SeqOfFun
<1> QED
  BY <1>2, <1>3, <1>5, <1>9, FirstIs DEF WholeLayout

LEMMA LandShape ==
  ASSUME LayoutShape, Step, NEW f \in FirstLayouts,
         adoptLayout(normalize(f.tiles, f.cols, f.rowSizes, f.colSizes))
  PROVE  LayoutShape'
<1>1. PICK u : u = normalize(f.tiles, f.cols, f.rowSizes, f.colSizes)
  OBVIOUS
<1>2. WholeLayout(f)
  BY FirstWhole
<1>3. PICK k \in Nat : k = Count(f.tiles)
  BY <1>2, WholeIs
<1>4. k + MaxSteps <= Unit
  BY <1>3, FirstIs
<1>5. Count(f.tiles) <= Unit
  BY <1>3, <1>4, UnitIs, GridConstants
<1>6. /\ f.tiles \in Seq(Cell) /\ f.cols \in Int /\ f.rowSizes \in Seq(Int) /\ f.colSizes \in Seq(Seq(Int))
  BY <1>2, WholeIs
<1>7. WholeLayout(u) /\ Count(u.tiles) = k
  BY <1>1, <1>3, <1>5, <1>6, NormalWhole
<1>8. layout' = u /\ maximized' = maximized \cap Placed(u) /\ steps' = steps + 1 /\ steps < MaxSteps
  BY <1>1 DEF adoptLayout, Step
<1>9. steps \in 0 .. MaxSteps
  BY DEF LayoutShape
<1>10. steps' \in 0 .. MaxSteps /\ k + MaxSteps <= Unit + steps'
  BY <1>4, <1>8, <1>9, UnitIs, GridConstants
<1>11. maximized' \subseteq Placed(u) /\ Single(maximized')
  BY <1>8 DEF LayoutShape, Single
<1> QED
  BY <1>7, <1>8, <1>10, <1>11 DEF LayoutShape, Single

LEMMA ClosedShape ==
  ASSUME LayoutShape, NEW c, Closed(c)
  PROVE  LayoutShape'
<1>1. Step /\ adoptLayout(Without(c))
  BY DEF Closed
<1>2. adoptLayout(removeTile(layout, c.at)) \/ adoptLayout(removeTilesWhere(layout, c.doomed))
  BY <1>1 DEF Without
<1> QED
  BY <1>1, <1>2, RemoveShape, RemoveWhereShape

LEMMA MaximizedShape ==
  ASSUME LayoutShape, ChoiceShape, NEW s \in Session, ToggleMaximized(s)
  PROVE  LayoutShape'
<1>1. Step /\ layout' = layout /\ s \in Placed(View) /\ maximized' \in {{}, {s}}
  BY DEF ToggleMaximized
<1>2. s \in Placed(layout)
  BY <1>1, ShapeView
<1>3. PICK S : S = maximized'
  OBVIOUS
<1>4. S \subseteq Placed(layout) /\ Single(S)
  BY <1>1, <1>2, <1>3 DEF Single
<1> QED
  BY <1>1, <1>3, <1>4, ShapeRests

LEMMA EscapeShape ==
  ASSUME LayoutShape, Escape
  PROVE  LayoutShape'
<1>1. layout' = layout /\ steps' = steps /\ maximized' = {}
  BY DEF Escape
<1>2. Single({})
  BY DEF Single
<1> QED
  BY <1>1, <1>2, ShapeRests

----------------------------------------------------------------------------
\* Which steps select directories.

LEMMA SelectedDirs ==
  ASSUME ChoiceShape, NEW d, toggleDir(d) \/ addDir(d) \/ (\E by \in {-1, 0, 1} : RotateDirs(by))
  PROVE  selected' \subseteq Dir
<1>1. CASE toggleDir(d)
  BY <1>1, DirsIn DEF toggleDir, Select
<1>2. CASE addDir(d)
  BY <1>2, DirsIn DEF addDir, Select, ChoiceShape
<1>3. CASE \E by \in {-1, 0, 1} : RotateDirs(by)
  <2>1. PICK by \in {-1, 0, 1} : RotateDirs(by)
    BY <1>3
  <2>2. PICK next : next = IF by = 0 THEN 0 ELSE cycleSolo(activeSolo, dirs, by)
    OBVIOUS
  <2>3. selected' = {next} \ {0}
    BY <2>1, <2>2 DEF RotateDirs, Select
  <2>4. next = 0 \/ next \in Dir
    BY <2>2, DirsIn, CycleIn
  <2> QED
    BY <2>3, <2>4
<1> QED
  BY <1>1, <1>2, <1>3

LEMMA ShownDirs ==
  ASSUME ChoiceShape, NEW d, showDir(d)
  PROVE  selected' \subseteq Dir
BY DEF showDir, ChoiceShape

\* Every step keeps the layout whole and the arrangements typed.
LEMMA GridLayoutSteps ==
  ASSUME GridInv, GridShape, [GridNext]_gridVars
  PROVE  LayoutShape' /\ ChoiceShape'
<1> DEFINE Quiet == UNCHANGED choice
           Kept == layout' = layout /\ maximized' = maximized /\ (Step \/ steps' = steps)
           Done == LayoutShape' /\ ChoiceShape'
<1>s. LayoutShape /\ ChoiceShape /\ DragShape
  BY DEF GridShape
<1>a. ASSUME Quiet PROVE ChoiceShape'
  BY <1>a, <1>s DEF ChoiceShape, choice
<1>b. ASSUME stored' = stored, loadOverlay, selected' \subseteq Dir PROVE ChoiceShape'
  BY <1>b, <1>s, ChoiceLoads DEF LoadsOne
<1>c. ASSUME Kept PROVE LayoutShape'
  BY <1>c, <1>s, MaximizedStays
<1> HIDE DEF Quiet, Kept, Done
<1> SUFFICES Done
  BY DEF Done
<1>d. ASSUME Quiet, Kept PROVE Done
  BY <1>a, <1>c, <1>d DEF Done
<1>1. CASE UNCHANGED gridVars
  BY <1>1, <1>d DEF Quiet, Kept, gridVars
<1>2. ASSUME NEW n \in 1 .. MAX_COLS, SetColumns(n) PROVE Done
  BY <1>2, <1>s, ColumnsShape DEF Done
<1>3. ASSUME NEW a \in DOMAIN View.tiles, NEW b \in DOMAIN View.tiles, Drop(a, b) PROVE Done
  BY <1>3, <1>s, DropShape DEF Done
<1>4. ASSUME NEW h \in Handles, StartDrag(h) PROVE Done
  BY <1>4, <1>d DEF Quiet, Kept, StartDrag
<1>5. ASSUME NEW h \in Handles, ResetTracks(h) PROVE Done
  BY <1>5, <1>s, ResetTracksShape DEF Done
<1>6. ASSUME NEW d \in drag, NEW delta \in Delta, MoveDrag(d, delta) PROVE Done
  BY <1>6, <1>s, MoveDragShape DEF Done
<1>7. ASSUME NEW d \in drag, NEW delta \in Delta, EndDrag(d, delta) PROVE Done
  BY <1>7, <1>s, EndDragShape DEF Done
<1>8. CASE SetNarrow
  BY <1>8, <1>d DEF Quiet, Kept, SetNarrow
<1>9. CASE Escape
  <2>1. ChoiceShape'
    BY <1>9, <1>a DEF Escape, Quiet
  <2> QED
    BY <1>9, <1>s, <2>1, EscapeShape DEF Done
<1>10. CASE StopRename
  BY <1>10, <1>d DEF Quiet, Kept, StopRename
<1>11. CASE CloseReader
  BY <1>11, <1>d DEF Quiet, Kept, CloseReader
<1>12. ASSUME NEW d \in Dir, toggleDir(d) \/ addDir(d) \/ (\E by \in {-1, 0, 1} : RotateDirs(by)) PROVE Done
  <2>1. selected' \subseteq Dir
    BY <1>s, <1>12, SelectedDirs
  <2>2. stored' = stored /\ loadOverlay /\ Kept
    BY <1>12 DEF toggleDir, addDir, RotateDirs, Select, Kept
  <2> QED
    BY <1>b, <1>c, <2>1, <2>2 DEF Done
<1>13. ASSUME NEW d \in Dir, CloseDir(d) PROVE Done
  BY <1>13, <1>d DEF Quiet, Kept, CloseDir
<1>14. ASSUME NEW by \in {-1, 0, 1}, RotateDirs(by) PROVE Done
  <2>1. selected' \subseteq Dir
    BY <1>s, <1>14, SelectedDirs
  <2>2. stored' = stored /\ loadOverlay /\ Kept
    BY <1>14 DEF RotateDirs, Select, Kept
  <2> QED
    BY <1>b, <1>c, <2>1, <2>2 DEF Done
<1>15. ASSUME NEW s \in Session, attachSession(s) \/ placeSession(s) PROVE Done
  <2>1. /\ Step /\ adoptLayout(addTile(layout, s)) /\ showDir(DirOf[s])
        /\ stored' = stored /\ loadOverlay
    BY <1>15 DEF attachSession, placeSession
  <2>2. LayoutShape'
    BY <1>s, <2>1, AddShape
  <2>3. selected' \subseteq Dir
    BY <1>s, <2>1, ShownDirs
  <2> QED
    BY <1>b, <2>1, <2>2, <2>3 DEF Done
<1>16. ASSUME NEW s \in Session, Launch(s) \/ StartRename(s) \/ OpenReader(s) PROVE Done
  BY <1>16, <1>d DEF Quiet, Kept, Launch, StartRename, OpenReader
<1>17. ASSUME NEW s \in Session, ToggleMaximized(s) PROVE Done
  <2>1. ChoiceShape'
    BY <1>17, <1>a DEF ToggleMaximized, Quiet
  <2> QED
    BY <1>17, <1>s, <2>1, MaximizedShape DEF Done
<1>18. ASSUME NEW i, Dismiss(i) PROVE Done
  <2>1. Step /\ adoptLayout(removeTile(layout, i)) /\ Quiet
    BY <1>18 DEF Dismiss, Quiet
  <2> QED
    BY <1>a, <1>s, <2>1, RemoveShape DEF Done
<1>19. ASSUME NEW i, Terminate(i) PROVE Done
  BY <1>19, <1>d DEF Quiet, Kept, Terminate
<1>20. ASSUME NEW c, Closed(c) PROVE Done
  <2>1. stored' = stored /\ loadOverlay /\ selected' \subseteq Dir
    BY <1>20, <1>s DEF Closed, ChoiceShape
  <2> QED
    BY <1>20, <1>b, <1>s, <2>1, ClosedShape DEF Done
<1>21. ASSUME NEW v, DismissAll(v) PROVE Done
  <2>1. Step /\ adoptLayout(removeTilesWhere(layout, EndedOn(v))) /\ Quiet
    BY <1>21 DEF DismissAll, Quiet
  <2> QED
    BY <1>a, <1>s, <2>1, RemoveWhereShape DEF Done
<1>22. ASSUME NEW v, RemoveServer(v) PROVE Done
  <2>1. stored' = stored /\ loadOverlay /\ selected' = selected /\ Kept
    BY <1>22 DEF RemoveServer, Kept
  <2>2. selected' \subseteq Dir
    BY <1>s, <2>1 DEF ChoiceShape
  <2> QED
    BY <1>b, <1>c, <2>1, <2>2 DEF Done
<1>23. ASSUME NEW v, NEW st, Status(v, st) PROVE Done
  BY <1>23, <1>d DEF Quiet, Kept, Status
<1>24. ASSUME NEW v, NEW s, LandSessions(v, s) PROVE Done
  <2>1. stored' = stored /\ loadOverlay /\ selected' = selected /\ Kept
    BY <1>24 DEF LandSessions, Kept
  <2>2. selected' \subseteq Dir
    BY <1>s, <2>1 DEF ChoiceShape
  <2> QED
    BY <1>b, <1>c, <2>1, <2>2 DEF Done
<1>25. ASSUME NEW l \in FirstLayouts, LandLayout(l) PROVE Done
  <2>1. Step /\ adoptLayout(normalize(l.tiles, l.cols, l.rowSizes, l.colSizes)) /\ Quiet
    BY <1>25 DEF LandLayout, Quiet
  <2> QED
    BY <1>a, <1>s, <2>1, LandShape DEF Done
<1> QED
  BY <1>1, <1>2, <1>3, <1>4, <1>5, <1>6, <1>7, <1>8, <1>9, <1>10, <1>11, <1>12, <1>13, <1>14,
     <1>15, <1>16, <1>17, <1>18, <1>19, <1>20, <1>21, <1>22, <1>23, <1>24, <1>25 DEF GridNext

----------------------------------------------------------------------------
\* The lists of the servers, and what was asked to go.

LEMMA EndedAreSessions == \A v : EndedOn(v) \subseteq Session
BY DEF EndedOn, endedTiles, On

LEMMA PlacedSessions ==
  ASSUME LayoutShape
  PROVE  Placed(layout) \subseteq Session
<1>1. layout.tiles \in Seq(Cell)
  BY WholeIs DEF LayoutShape
<1>2. ToSet(layout.tiles) \subseteq Cell /\ Placed(layout) = ToSet(layout.tiles) \ {NoTile}
  BY <1>1, OccupiedIs DEF Placed
<1> QED
  BY <1>2 DEF Cell

LEMMA GridListSteps ==
  ASSUME GridShape, [GridNext]_gridVars
  PROVE  ListShape'
<1> DEFINE Lists == UNCHANGED lists
           Asked == asked' \subseteq Session
           Done == ListShape'
<1>s. LayoutShape /\ ChoiceShape /\ ListShape
  BY DEF GridShape
<1>a. ASSUME Lists, Asked PROVE ListShape'
  BY <1>a, <1>s DEF ListShape, lists
<1>b. asked \subseteq Session
  BY <1>s DEF ListShape
<1>c. ASSUME UNCHANGED <<known, loaded, status, servers>>, launching' \subseteq Session, Asked PROVE ListShape'
  BY <1>c, <1>s DEF ListShape
<1> HIDE DEF Lists, Asked, Done
<1> SUFFICES Done
  BY DEF Done
<1>d. ASSUME Lists, asked' = asked PROVE Done
  BY <1>a, <1>b, <1>d DEF Asked, Done
<1>1. CASE UNCHANGED gridVars
  BY <1>1, <1>d DEF Lists, gridVars
<1>2. ASSUME NEW o, NEW l, Arranged(o, l) PROVE Done
  BY <1>2, <1>d DEF Arranged, Lists
<1>3. ASSUME NEW n, SetColumns(n) PROVE Done
  BY <1>3, <1>2 DEF SetColumns
<1>4. ASSUME NEW a, NEW b, Drop(a, b) PROVE Done
  BY <1>4, <1>2 DEF Drop
<1>5. ASSUME NEW h, StartDrag(h) PROVE Done
  BY <1>5, <1>d DEF Lists, StartDrag
<1>6. ASSUME NEW h, ResetTracks(h) PROVE Done
  BY <1>6, <1>2 DEF ResetTracks, Resized
<1>7. ASSUME NEW d, NEW delta, MoveDrag(d, delta) PROVE Done
  BY <1>7, <1>d DEF Lists, MoveDrag
<1>8. ASSUME NEW d, NEW delta, EndDrag(d, delta) PROVE Done
  <2>1. (\E o, l : Arranged(o, l)) \/ (Lists /\ asked' = asked)
    BY <1>8 DEF EndDrag, Resized, Lists
  <2> QED
    BY <2>1, <1>2, <1>d
<1>9. CASE SetNarrow \/ Escape \/ StopRename \/ CloseReader
  BY <1>9, <1>d DEF Lists, SetNarrow, Escape, StopRename, CloseReader
<1>10. ASSUME NEW d, toggleDir(d) \/ addDir(d) PROVE Done
  BY <1>10, <1>d DEF Lists, toggleDir, addDir, Select
<1>11. ASSUME NEW d, CloseDir(d) PROVE Done
  <2>1. PICK doomed : doomed = {s \in Running \cap On(servers) : DirOf[s] = d} /\ asked' = asked \cup doomed
    BY <1>11 DEF CloseDir
  <2>2. doomed \subseteq Session
    BY <2>1 DEF Running
  <2>3. Asked
    BY <1>b, <2>1, <2>2 DEF Asked
  <2>4. Lists
    BY <1>11 DEF CloseDir, Lists
  <2> QED
    BY <1>a, <2>3, <2>4 DEF Done
<1>12. ASSUME NEW by, RotateDirs(by) PROVE Done
  BY <1>12, <1>d DEF Lists, RotateDirs, Select
<1>13. ASSUME NEW s \in Session, attachSession(s) PROVE Done
  <2>1. Asked /\ Lists
    BY <1>13, <1>b DEF attachSession, Asked, Lists
  <2> QED
    BY <1>a, <2>1 DEF Done
<1>14. ASSUME NEW s \in Session, Launch(s) \/ placeSession(s) PROVE Done
  <2>1. launching \subseteq Session
    BY <1>s DEF ListShape
  <2>2. UNCHANGED <<known, loaded, status, servers>> /\ launching' \subseteq Session
    BY <1>14, <2>1 DEF Launch, placeSession
  <2>3. asked' \subseteq Session
    BY <1>14, <1>b DEF Launch, placeSession
  <2> QED
    BY <1>c, <2>2, <2>3 DEF Asked, Done
<1>15. ASSUME NEW s, ToggleMaximized(s) \/ StartRename(s) \/ OpenReader(s) PROVE Done
  BY <1>15, <1>d DEF Lists, ToggleMaximized, StartRename, OpenReader
<1>16. ASSUME NEW i, Dismiss(i) \/ Terminate(i) PROVE Done
  <2>1. i \in Clickable /\ asked' = asked \cup {layout.tiles[i]} /\ Lists
    BY <1>16 DEF Dismiss, Terminate, Lists
  <2>2. layout.tiles[i] \in Session
    BY <1>s, <2>1, ClickableIs DEF LayoutShape, ChoiceShape
  <2>3. Asked
    BY <1>b, <2>1, <2>2 DEF Asked
  <2> QED
    BY <1>a, <2>1, <2>3 DEF Done
<1>17. ASSUME NEW c, Closed(c) PROVE Done
  BY <1>17, <1>d DEF Lists, Closed
<1>18. ASSUME NEW v, DismissAll(v) PROVE Done
  <2>1. Lists /\ asked' = asked \cup EndedOn(v)
    BY <1>18 DEF DismissAll, Lists
  <2>2. Asked
    BY <1>b, <2>1, EndedAreSessions DEF Asked
  <2> QED
    BY <1>a, <2>1, <2>2 DEF Done
<1>19. ASSUME NEW v, RemoveServer(v) PROVE Done
  BY <1>19, <1>s DEF RemoveServer, ListShape, Done
<1>20. ASSUME NEW v \in Server, NEW st \in {"open", "auth-expired"}, Status(v, st) PROVE Done
  <2>1. status' \in [Server -> {"", "open", "auth-expired", "unreachable"}]
    BY <1>20, <1>s DEF Status, ListShape
  <2> QED
    BY <1>20, <1>s, <2>1 DEF Status, ListShape, Done
<1>21. ASSUME NEW s \in Session, LandSessions(ServerOf[s], s) PROVE Done
  <2>1. PICK k : k \in {"absent", "running", "ended"} /\ known' = [known EXCEPT ![s] = k]
    BY <1>21 DEF LandSessions
  <2>2. known' \in [Session -> {"absent", "running", "ended"}]
    BY <1>s, <2>1 DEF ListShape
  <2>3. ServerOf[s] \in Server
    BY GridConstants
  <2>4. /\ loaded' = loaded \cup {ServerOf[s]} /\ UNCHANGED <<status, servers, launching, asked>>
    BY <1>21 DEF LandSessions
  <2> QED
    BY <1>s, <2>2, <2>3, <2>4 DEF ListShape, Done
<1>22. ASSUME NEW l, LandLayout(l) PROVE Done
  <2>1. Lists /\ asked' = asked \cup (Placed(layout) \ Placed(l))
    BY <1>22 DEF LandLayout, Lists
  <2>2. Asked
    BY <1>b, <1>s, <2>1, PlacedSessions DEF Asked
  <2> QED
    BY <1>a, <2>1, <2>2 DEF Done
<1> QED
  BY <1>1, <1>3, <1>4, <1>5, <1>6, <1>7, <1>8, <1>9, <1>10, <1>11, <1>12, <1>13, <1>14,
     <1>15, <1>16, <1>17, <1>18, <1>19, <1>20, <1>21, <1>22 DEF GridNext

----------------------------------------------------------------------------
\* The keys of a tile, and the dividers.

LEMMA KeySteps ==
  ASSUME GridShape, [GridNext]_gridVars
  PROVE  KeyShape'
<1> DEFINE Quiet == UNCHANGED keys
           Done == KeyShape'
<1>s. LayoutShape /\ ChoiceShape /\ KeyShape
  BY DEF GridShape
<1>a. ASSUME Quiet PROVE KeyShape'
  BY <1>a, <1>s DEF KeyShape, keys, Single
<1> HIDE DEF Quiet, Done
<1> SUFFICES Done
  BY DEF Done
<1>b. ASSUME Quiet PROVE Done
  BY <1>a, <1>b DEF Done
<1>c. ASSUME NEW s, s \in Placed(View), \/ editing' = {s} /\ reader' = reader
                                        \/ reader' = {s} /\ editing' = editing
      PROVE  Done
  <2>1. s \in Session
    BY <1>c, <1>s, ShapeView
  <2>2. editing' \in {editing, {s}} /\ reader' \in {reader, {s}}
    BY <1>c
  <2> QED
    BY <1>s, <2>1, <2>2 DEF KeyShape, Single, Done
<1>1. CASE UNCHANGED gridVars
  BY <1>1, <1>b DEF Quiet, gridVars
<1>2. ASSUME NEW o, NEW l, Arranged(o, l) PROVE Done
  BY <1>2, <1>b DEF Arranged, Quiet
<1>3. ASSUME NEW n, SetColumns(n) PROVE Done
  BY <1>3, <1>2 DEF SetColumns
<1>4. ASSUME NEW a, NEW b, Drop(a, b) PROVE Done
  BY <1>4, <1>2 DEF Drop
<1>5. ASSUME NEW h, StartDrag(h) PROVE Done
  BY <1>5, <1>b DEF Quiet, StartDrag
<1>6. ASSUME NEW h, ResetTracks(h) PROVE Done
  BY <1>6, <1>2 DEF ResetTracks, Resized
<1>7. ASSUME NEW d, NEW delta, MoveDrag(d, delta) PROVE Done
  BY <1>7, <1>b DEF Quiet, MoveDrag
<1>8. ASSUME NEW d, NEW delta, EndDrag(d, delta) PROVE Done
  <2>1. (\E o, l : Arranged(o, l)) \/ Quiet
    BY <1>8 DEF EndDrag, Resized, Quiet
  <2> QED
    BY <2>1, <1>2, <1>b
<1>9. CASE SetNarrow \/ Escape
  BY <1>9, <1>b DEF Quiet, SetNarrow, Escape
<1>10. CASE StopRename \/ CloseReader
  BY <1>10, <1>s DEF StopRename, CloseReader, KeyShape, Single, Done
<1>11. ASSUME NEW d, toggleDir(d) \/ addDir(d) \/ CloseDir(d) PROVE Done
  BY <1>11, <1>b DEF Quiet, toggleDir, addDir, Select, CloseDir
<1>12. ASSUME NEW by, RotateDirs(by) PROVE Done
  BY <1>12, <1>b DEF Quiet, RotateDirs, Select
<1>13. ASSUME NEW s, attachSession(s) \/ Launch(s) \/ placeSession(s) \/ ToggleMaximized(s) PROVE Done
  BY <1>13, <1>b DEF Quiet, attachSession, Launch, placeSession, ToggleMaximized
<1>14. ASSUME NEW s, StartRename(s) \/ OpenReader(s) PROVE Done
  BY <1>14, <1>c DEF StartRename, OpenReader
<1>15. ASSUME NEW i, Dismiss(i) \/ Terminate(i) PROVE Done
  BY <1>15, <1>b DEF Quiet, Dismiss, Terminate
<1>16. ASSUME NEW c, Closed(c) PROVE Done
  BY <1>16, <1>b DEF Quiet, Closed
<1>17. ASSUME NEW v, DismissAll(v) \/ RemoveServer(v) PROVE Done
  BY <1>17, <1>b DEF Quiet, DismissAll, RemoveServer
<1>18. ASSUME NEW v, NEW st, Status(v, st) PROVE Done
  BY <1>18, <1>b DEF Quiet, Status
<1>19. ASSUME NEW v, NEW s, LandSessions(v, s) PROVE Done
  BY <1>19, <1>b DEF Quiet, LandSessions
<1>20. ASSUME NEW l, LandLayout(l) PROVE Done
  BY <1>20, <1>b DEF Quiet, LandLayout
<1> QED
  BY <1>1, <1>3, <1>4, <1>5, <1>6, <1>7, <1>8, <1>9, <1>10, <1>11, <1>12, <1>13, <1>14,
     <1>15, <1>16, <1>17, <1>18, <1>19, <1>20 DEF GridNext

\* A handle's drag begins with the sizes on screen.
LEMMA DragStarts ==
  ASSUME LayoutShape, ChoiceShape, NEW h, StartDrag(h)
  PROVE  drag' \subseteq Drag /\ Single(drag') /\ hold' = TRUE /\ narrow' = narrow
<1>1. PICK v : v = View
  OBVIOUS
<1>2. PICK s : s = IF h.axis = "row" THEN v.rowSizes ELSE v.colSizes[h.row]
  OBVIOUS
<1>3. h \in Handles /\ drag' = {[handle |-> h, moved |-> FALSE, start |-> s]} /\ hold' = TRUE /\ narrow' = narrow
  BY <1>1, <1>2 DEF StartDrag
<1>4. PICK H : H = [axis : {"row", "col"}, row : Nat, boundary : Nat]
  OBVIOUS
<1>5. h \in H /\ (h.axis # "row" => h.row \in 1 .. v.rows)
  BY <1>1, <1>3, <1>4, HandleIs
<1>6. v.rowSizes \in Seq(1 .. Unit) /\ \A r \in 1 .. v.rows : v.colSizes[r] \in Seq(1 .. Unit)
  BY <1>1, ShapeView, WholeIs
<1>7. s \in Seq(1 .. Unit)
  BY <1>2, <1>5, <1>6
<1>8. PICK x : x = [handle |-> h, moved |-> FALSE, start |-> s]
  OBVIOUS
<1>9. x \in Drag
  BY <1>4, <1>5, <1>7, <1>8 DEF Drag
<1> QED
  BY <1>3, <1>8, <1>9 DEF Single

LEMMA DragMoves ==
  ASSUME DragShape, NEW d \in drag, NEW delta, MoveDrag(d, delta)
  PROVE  drag' \subseteq Drag /\ Single(drag') /\ hold' = hold
<1>1. PICK x : x = [d EXCEPT !.moved = TRUE]
  OBVIOUS
<1>2. d \in Drag
  BY DEF DragShape
<1>3. x \in Drag
  BY <1>1, <1>2 DEF Drag
<1> QED
  BY <1>1, <1>3 DEF MoveDrag, Single

LEMMA DragSteps ==
  ASSUME GridShape, [GridNext]_gridVars
  PROVE  DragShape'
<1> DEFINE Quiet == UNCHANGED dividers /\ UNCHANGED narrow
           Done == DragShape'
<1>s. LayoutShape /\ ChoiceShape /\ DragShape
  BY DEF GridShape
<1>a. ASSUME Quiet PROVE DragShape'
  BY <1>a, <1>s DEF DragShape, dividers, Single
<1> HIDE DEF Quiet, Done
<1> SUFFICES Done
  BY DEF Done
<1>b. ASSUME Quiet PROVE Done
  BY <1>a, <1>b DEF Done
<1>c. hold \in BOOLEAN /\ narrow \in BOOLEAN
  BY <1>s DEF DragShape
<1>d. ASSUME drag' \subseteq Drag, Single(drag'), hold' \in BOOLEAN, narrow' \in BOOLEAN PROVE Done
  <2>1. Single(drag)'
    BY <1>d DEF Single
  <2> QED
    BY <1>d, <2>1 DEF DragShape, Done
<1>e. Single({})
  BY DEF Single
<1>1. CASE UNCHANGED gridVars
  BY <1>1, <1>b DEF Quiet, gridVars
<1>2. ASSUME NEW o, NEW l, Arranged(o, l) PROVE UNCHANGED narrow
  BY <1>2 DEF Arranged
<1>3. ASSUME NEW n, SetColumns(n) PROVE Done
  BY <1>3, <1>2, <1>b DEF SetColumns, Quiet
<1>4. ASSUME NEW a, NEW b, Drop(a, b) PROVE Done
  BY <1>4, <1>2, <1>b DEF Drop, Quiet
<1>5. ASSUME NEW h, StartDrag(h) PROVE Done
  BY <1>5, <1>c, <1>d, <1>s, DragStarts
<1>6. ASSUME NEW h, ResetTracks(h) PROVE Done
  BY <1>6, <1>2, <1>b DEF ResetTracks, Resized, Quiet
<1>7. ASSUME NEW d \in drag, NEW delta, MoveDrag(d, delta) PROVE Done
  <2>1. narrow' = narrow
    BY <1>7 DEF MoveDrag
  <2> QED
    BY <1>7, <1>c, <1>d, <1>s, <2>1, DragMoves
<1>8. ASSUME NEW d, NEW delta, EndDrag(d, delta) PROVE Done
  <2>1. drag' = {} /\ hold' = FALSE
    BY <1>8 DEF EndDrag
  <2>2. (\E o, l : Arranged(o, l)) \/ narrow' = narrow
    BY <1>8 DEF EndDrag, Resized
  <2>3. narrow' = narrow
    BY <1>2, <2>2
  <2> QED
    BY <1>c, <1>d, <1>e, <2>1, <2>3
<1>9. CASE SetNarrow
  <2>1. drag' = {} /\ hold' \in BOOLEAN /\ narrow' \in BOOLEAN
    BY <1>9 DEF SetNarrow
  <2> QED
    BY <1>d, <1>e, <2>1
<1>10. CASE Escape \/ StopRename \/ CloseReader
  BY <1>10, <1>b DEF Quiet, Escape, StopRename, CloseReader
<1>11. ASSUME NEW d, toggleDir(d) \/ addDir(d) \/ CloseDir(d) PROVE Done
  BY <1>11, <1>b DEF Quiet, toggleDir, addDir, Select, CloseDir
<1>12. ASSUME NEW by, RotateDirs(by) PROVE Done
  BY <1>12, <1>b DEF Quiet, RotateDirs, Select
<1>13. ASSUME NEW s, attachSession(s) \/ Launch(s) \/ placeSession(s) \/ ToggleMaximized(s) PROVE Done
  BY <1>13, <1>b DEF Quiet, attachSession, Launch, placeSession, ToggleMaximized
<1>14. ASSUME NEW s, StartRename(s) \/ OpenReader(s) PROVE Done
  BY <1>14, <1>b DEF Quiet, StartRename, OpenReader
<1>15. ASSUME NEW i, Dismiss(i) \/ Terminate(i) PROVE Done
  BY <1>15, <1>b DEF Quiet, Dismiss, Terminate
<1>16. ASSUME NEW c, Closed(c) PROVE Done
  BY <1>16, <1>b DEF Quiet, Closed
<1>17. ASSUME NEW v, DismissAll(v) \/ RemoveServer(v) PROVE Done
  BY <1>17, <1>b DEF Quiet, DismissAll, RemoveServer
<1>18. ASSUME NEW v, NEW st, Status(v, st) PROVE Done
  BY <1>18, <1>b DEF Quiet, Status
<1>19. ASSUME NEW v, NEW s, LandSessions(v, s) PROVE Done
  BY <1>19, <1>b DEF Quiet, LandSessions
<1>20. ASSUME NEW l, LandLayout(l) PROVE Done
  BY <1>20, <1>b DEF Quiet, LandLayout
<1> QED
  BY <1>1, <1>3, <1>4, <1>5, <1>6, <1>7, <1>8, <1>9, <1>10, <1>11, <1>12, <1>13, <1>14,
     <1>15, <1>16, <1>17, <1>18, <1>19, <1>20 DEF GridNext

----------------------------------------------------------------------------

LEMMA GridShapeStarts == GridInit => GridShape
<1> SUFFICES ASSUME GridInit PROVE GridShape
  OBVIOUS
<1>s. Single({})
  BY DEF Single
<1>1. LayoutShape
  <2>1. layout \in FirstLayouts /\ steps = 0 /\ maximized = {}
    BY DEF GridInit
  <2>2. WholeLayout(layout) /\ Count(layout.tiles) + MaxSteps <= Unit
    BY <2>1, FirstWhole, FirstIs
  <2>3. PICK k \in Nat : k = Count(layout.tiles)
    BY <2>2, WholeIs
  <2>4. steps \in 0 .. MaxSteps /\ k + MaxSteps <= Unit + steps
    BY <2>1, <2>2, <2>3, UnitIs, GridConstants
  <2> QED
    BY <1>s, <2>1, <2>2, <2>3, <2>4 DEF LayoutShape
<1>2. ChoiceShape
  <2>1. selected \in FirstDirs /\ stored = [d \in Dir |-> {}] /\ overlay = {}
    BY DEF GridInit
  <2> QED
    BY <2>1, GridConstants DEF ChoiceShape
<1>3. ListShape
  BY DEF GridInit, ListShape
<1>4. KeyShape
  BY <1>s DEF GridInit, KeyShape
<1>5. DragShape
  BY <1>s DEF GridInit, DragShape
<1> QED
  BY <1>1, <1>2, <1>3, <1>4, <1>5 DEF GridShape

\* What has the shape has the types.
LEMMA ShapeTypes == GridShape => GridTypeOK
<1> SUFFICES ASSUME GridShape PROVE GridTypeOK
  OBVIOUS
<1>s. LayoutShape /\ ChoiceShape /\ ListShape /\ KeyShape /\ DragShape
  BY DEF GridShape
<1>1. WellFormed(layout) /\ layout.tiles \in Seq(Cell)
  BY <1>s DEF LayoutShape, WholeLayout
<1>2. WellFormed(View)
  BY <1>s, ShapeView DEF WholeLayout
<1>3. ToSet(layout.tiles) \subseteq Session \cup {NoTile}
  BY <1>1, OccupiedIs DEF Cell
<1>4. maximized \subseteq Placed(layout) /\ maximized \subseteq Session /\ steps \in 0 .. MaxSteps
  BY <1>s, PlacedSessions DEF LayoutShape
<1>5. \A one \in {maximized, editing, reader} : one \subseteq Session /\ Single(one)
  BY <1>s, <1>4 DEF LayoutShape, KeyShape
<1>6. ASSUME NEW S, Single(S) PROVE Cardinality(S) <= 1
  BY <1>6, OneOrNone DEF Single
<1>7. \A one \in {maximized, editing, reader} : one \subseteq Session /\ Cardinality(one) <= 1
  BY <1>5, <1>6
<1>8. /\ selected \subseteq Dir
      /\ stored \in [Dir -> SUBSET Overlays] /\ overlay \in SUBSET Overlays
  BY <1>s DEF ChoiceShape
<1>9. /\ known \in [Session -> {"absent", "running", "ended"}]
      /\ loaded \subseteq Server /\ servers \subseteq Server
      /\ status \in [Server -> {"", "open", "auth-expired", "unreachable"}]
      /\ launching \subseteq Session /\ asked \subseteq Session
  BY <1>s DEF ListShape
<1>10. /\ drag \in SUBSET Drag /\ Cardinality(drag) <= 1
       /\ hold \in BOOLEAN /\ narrow \in BOOLEAN
  BY <1>s, <1>6 DEF DragShape
<1> QED
  BY <1>1, <1>2, <1>3, <1>4, <1>7, <1>8, <1>9, <1>10 DEF GridTypeOK

THEOREM GridShapeInvariance == GridSpec => []GridShape
<1>1. GridInv /\ GridShape /\ [GridNext]_gridVars => GridShape'
  <2> SUFFICES ASSUME GridInv, GridShape, [GridNext]_gridVars PROVE GridShape'
    OBVIOUS
  <2>1. LayoutShape' /\ ChoiceShape'
    BY GridLayoutSteps
  <2>2. ListShape' /\ KeyShape' /\ DragShape'
    BY GridListSteps, KeySteps, DragSteps
  <2> QED
    BY <2>1, <2>2 DEF GridShape
<1> QED
  BY <1>1, GridShapeStarts, GridInvariance, PTL DEF GridSpec

\* The layout a page shows, and what is left of it on screen, is in normal form at every
\* step: a size for every track, each positive and together the whole axis, and just
\* enough rows (model.ts, normalize); at most one tile is maximized, and it is on the grid
\* (GridPage.tsx, adoptLayout); and every arrangement kept names sessions only.
THEOREM GridTypeCorrect == GridSpec => []GridTypeOK
<1>1. GridShape => GridTypeOK
  BY ShapeTypes
<1> QED
  BY <1>1, GridShapeInvariance, PTL
=============================================================================
