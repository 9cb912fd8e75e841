--------------------------- MODULE SettingsProofs ---------------------------
(***************************************************************************)
(* The settings page and its daemon handlers, for every value of the       *)
(* constants: the order of the saved commands, and a screen that shows     *)
(* what the daemon stores.                                                 *)
(***************************************************************************)
EXTENDS Settings, PageProofs

-----------------------------------------------------------------------------
(* Settings *)

\* The elements of a list of numbers are bounded.
LEMMA ListBounded ==
  ASSUME NEW len \in Nat, NEW s \in [1 .. len -> Nat]
  PROVE  \E b \in Nat : \A i \in 1 .. len : s[i] <= b
<1> DEFINE Bad == {n \in 0 .. len : ~\E b \in Nat : \A i \in 1 .. n : s[i] <= b}
<1>1. SUFFICES Bad = {}
  <2>1. len \in 0 .. len
    OBVIOUS
  <2> QED
    BY <2>1
<1>2. SUFFICES ASSUME Bad # {} PROVE FALSE
  OBVIOUS
<1>3. PICK n \in Bad : \A k \in Bad : n <= k
  <2> HIDE DEF Bad
  <2>1. Bad \in SUBSET Nat
    BY DEF Bad
  <2> QED
    BY <1>2, <2>1, LeastOf
<1>4. n # 0
  <2>1. 0 \in Nat /\ \A i \in 1 .. 0 : s[i] <= 0
    OBVIOUS
  <2> QED
    BY <1>3, <2>1
<1>5. n - 1 \in 0 .. len /\ n - 1 \notin Bad /\ n \in 1 .. len
  <2>1. n \in 0 .. len
    OBVIOUS
  <2>2. n - 1 \in 0 .. len /\ n \in 1 .. len
    BY <1>4, <2>1
  <2>3. ~(n <= n - 1)
    BY <2>1
  <2> HIDE DEF Bad
  <2> QED
    BY <1>3, <2>2, <2>3
<1>6. PICK b \in Nat : \A i \in 1 .. n - 1 : s[i] <= b
  BY <1>5
<1>7. s[n] \in Nat
  BY <1>5
<1>8. \A i \in 1 .. n : i = n \/ i \in 1 .. n - 1
  BY <1>5
<1>9. CASE s[n] <= b
  <2>1. \A i \in 1 .. n : s[i] <= b
    BY <1>6, <1>8, <1>9
  <2> QED
    BY <2>1
<1>10. CASE ~(s[n] <= b)
  <2>1. \A i \in 1 .. n : s[i] <= s[n]
    <3> TAKE i \in 1 .. n
    <3>1. CASE i = n
      BY <1>7, <3>1
    <3>2. CASE i \in 1 .. n - 1
      <4>1. i \in 1 .. len
        BY <1>5, <3>2
      <4>2. s[i] \in Nat
        BY <4>1
      <4> QED
        BY <1>6, <1>7, <1>10, <3>2, <4>2
    <3> QED
      BY <1>8, <3>1, <3>2
  <2> QED
    BY <1>7, <2>1
<1> QED
  BY <1>9, <1>10

----------------------------------------------------------------------------

ListRow == [id : Nat \ {0}, name : Name]

\* A list of rows as the daemon had it once: no row twice, none it has not given an id.
RowsFit(list, next) ==
  /\ list \in Seq(ListRow)
  /\ \A i, j \in DOMAIN list : list[i].id = list[j].id => i = j
  /\ \A i \in DOMAIN list : list[i].id < next

\* The rows both lists have come in the same order.
Agree(a, b) ==
  \A i, j \in DOMAIN a : \A k, l \in DOMAIN b :
    a[i].id = b[k].id /\ a[j].id = b[l].id /\ i < j => k < l

\* A list is a part of another, in its order; the rows may have other names.
PartOf(a, b) ==
  \E h \in [DOMAIN a -> DOMAIN b] :
    /\ \A i, j \in DOMAIN a : i < j => h[i] < h[j]
    /\ \A i \in DOMAIN a : a[i].id = b[h[i]].id

LEMMA PartAgrees ==
  ASSUME NEW next \in Nat, NEW d, NEW b, NEW c, RowsFit(d, next), RowsFit(b, next), RowsFit(c, next),
         Agree(d, b), PartOf(c, b)
  PROVE  Agree(d, c)
<1>1. PICK h \in [DOMAIN c -> DOMAIN b] :
        /\ \A i, j \in DOMAIN c : i < j => h[i] < h[j]
        /\ \A i \in DOMAIN c : c[i].id = b[h[i]].id
  BY DEF PartOf
<1> SUFFICES ASSUME NEW i \in DOMAIN d, NEW j \in DOMAIN d, NEW k \in DOMAIN c, NEW l \in DOMAIN c,
                    d[i].id = c[k].id, d[j].id = c[l].id, i < j
             PROVE  k < l
  BY DEF Agree
<1>2. DOMAIN c = 1 .. Len(c) /\ DOMAIN b = 1 .. Len(b) /\ Len(c) \in Nat /\ Len(b) \in Nat
  BY DEF RowsFit
<1>3. h[k] < h[l]
  BY <1>1 DEF Agree
<1>4. h[k] \in Int /\ h[l] \in Int /\ k \in Int /\ l \in Int
  BY <1>1, <1>2
<1>5. k # l
  BY <1>3, <1>4
<1>6. l < k => h[l] < h[k]
  BY <1>1
<1> QED
  BY <1>3, <1>4, <1>5, <1>6

\* Two lists of the same rows that agree are the same list of ids.
LEMMA AgreeingEqual ==
  ASSUME NEW next \in Nat, NEW a, NEW b, RowsFit(a, next), RowsFit(b, next), Agree(a, b),
         ToSet(ids(a)) = ToSet(ids(b))
  PROVE  ids(a) = ids(b)
<1>1. /\ DOMAIN a = 1 .. Len(a) /\ DOMAIN b = 1 .. Len(b) /\ Len(a) \in Nat /\ Len(b) \in Nat
      /\ DOMAIN ids(a) = DOMAIN a /\ DOMAIN ids(b) = DOMAIN b
      /\ \A i \in DOMAIN a : ids(a)[i] = a[i].id
      /\ \A i \in DOMAIN b : ids(b)[i] = b[i].id
  BY DEF RowsFit, ids
<1>2. /\ \A i \in DOMAIN a : \E k \in DOMAIN b : a[i].id = b[k].id
      /\ \A k \in DOMAIN b : \E i \in DOMAIN a : a[i].id = b[k].id
  <2>1. /\ \A i \in DOMAIN a : ids(a)[i] \in ToSet(ids(a))
        /\ \A i \in DOMAIN b : ids(b)[i] \in ToSet(ids(b))
    BY <1>1 DEF ToSet
  <2>2. /\ \A x \in ToSet(ids(a)) : \E i \in DOMAIN a : ids(a)[i] = x
        /\ \A x \in ToSet(ids(b)) : \E i \in DOMAIN b : ids(b)[i] = x
    BY <1>1 DEF ToSet
  <2> QED
    BY <1>1, <2>1, <2>2
<1>3. /\ \A i, j \in DOMAIN a : a[i].id = a[j].id => i = j
      /\ \A i, j \in DOMAIN b : b[i].id = b[j].id => i = j
  BY DEF RowsFit
<1> DEFINE Bad == {n \in Nat : (n \in DOMAIN a \/ n \in DOMAIN b)
                                 /\ ~(n \in DOMAIN a /\ n \in DOMAIN b /\ a[n].id = b[n].id)}
<1>4. Bad = {}
  <2>1. SUFFICES ASSUME Bad # {} PROVE FALSE
    OBVIOUS
  <2>2. PICK n \in Bad : \A k \in Bad : n <= k
    <3> HIDE DEF Bad
    <3>1. Bad \in SUBSET Nat
      BY DEF Bad
    <3> QED
      BY <2>1, <3>1, LeastOf
  <2>3. n \in Nat /\ (n \in DOMAIN a \/ n \in DOMAIN b) /\ n > 0
    BY <1>1, <2>2
  <2>4. \A k \in 1 .. n - 1 : k \in DOMAIN a /\ k \in DOMAIN b /\ a[k].id = b[k].id
    <3> TAKE k \in 1 .. n - 1
    <3>1. k \in Nat /\ k < n /\ (k \in DOMAIN a \/ k \in DOMAIN b)
      BY <1>1, <2>3
    <3>2. k \notin Bad
      BY <2>2, <2>3, <3>1
    <3> QED
      BY <3>1, <3>2
  <2>5. CASE n \in DOMAIN a
    <3>1. PICK k \in DOMAIN b : a[n].id = b[k].id
      BY <1>2, <2>5
    <3>2. k \in Nat /\ k >= n
      <4>1. k \in Nat /\ k > 0
        BY <1>1
      <4>2. k < n => FALSE
        <5> SUFFICES ASSUME k < n PROVE FALSE
          OBVIOUS
        <5>1. k \in 1 .. n - 1
          BY <2>3, <4>1
        <5>2. a[k].id = a[n].id /\ k \in DOMAIN a
          BY <2>4, <3>1, <5>1
        <5> QED
          BY <1>3, <2>5, <5>1, <5>2, <2>3
      <4> QED
        BY <2>3, <4>1, <4>2
    <3>3. n \in DOMAIN b
      BY <1>1, <2>3, <3>1, <3>2
    <3>4. PICK i \in DOMAIN a : a[i].id = b[n].id
      BY <1>2, <3>3
    <3>5. i \in Nat /\ i >= n
      <4>1. i \in Nat /\ i > 0
        BY <1>1
      <4>2. i < n => FALSE
        <5> SUFFICES ASSUME i < n PROVE FALSE
          OBVIOUS
        <5>1. i \in 1 .. n - 1
          BY <2>3, <4>1
        <5>2. b[i].id = b[n].id /\ i \in DOMAIN b
          BY <2>4, <3>4, <5>1
        <5> QED
          BY <1>3, <3>3, <5>1, <5>2, <2>3
      <4> QED
        BY <2>3, <4>1, <4>2
    <3>6. CASE i = n
      BY <2>2, <2>5, <3>3, <3>4, <3>6
    <3>7. CASE i > n
      \* n comes before i in a, so k before n in b.
      <4>1. k < n
        BY <2>3, <2>5, <3>1, <3>3, <3>4, <3>5, <3>7 DEF Agree
      <4> QED
        BY <2>3, <3>2, <4>1
    <3> QED
      BY <2>3, <3>5, <3>6, <3>7
  <2>6. CASE n \in DOMAIN b /\ n \notin DOMAIN a
    <3>1. PICK i \in DOMAIN a : a[i].id = b[n].id
      BY <1>2, <2>6
    <3>2. i \in 1 .. n - 1
      BY <1>1, <2>3, <2>6
    <3>3. b[i].id = b[n].id /\ i \in DOMAIN b
      BY <2>4, <3>1, <3>2
    <3> QED
      BY <1>3, <2>3, <2>6, <3>2, <3>3
  <2> QED
    BY <2>3, <2>5, <2>6
<1>5. \A n \in Nat : (n \in DOMAIN a <=> n \in DOMAIN b) /\ (n \in DOMAIN a => a[n].id = b[n].id)
  BY <1>4
<1>6. DOMAIN a = DOMAIN b
  <2>1. DOMAIN a \subseteq Nat /\ DOMAIN b \subseteq Nat
    BY <1>1
  <2> HIDE DEF Bad
  <2> QED
    BY <1>5, <2>1
<1>7. \A i \in DOMAIN a : a[i].id = b[i].id
  BY <1>1, <1>5
<1> QED
  BY <1>6, <1>7 DEF ids

\* As many different numbers as there are, of 1 to n, are all of them.
LEMMA AllTaken ==
  ASSUME NEW n \in Nat, NEW f \in [1 .. n -> 1 .. n], \A i, j \in 1 .. n : f[i] = f[j] => i = j
  PROVE  \A k \in 1 .. n : \E i \in 1 .. n : f[i] = k
<1>1. f \in Injection(1 .. n, 1 .. n)
  BY DEF Injection, IsInjective
<1>2. IsFiniteSet(1 .. n)
  <2>1. 1 \in Int /\ n \in Int
    OBVIOUS
  <2> QED
    BY <2>1, FS_Interval
<1>3. f \in Surjection(1 .. n, 1 .. n)
  BY <1>1, <1>2, FS_Injection
<1> QED
  BY <1>3 DEF Surjection

\* As many rows as another list has, and none that it has not: the same rows.
LEMMA SameRows ==
  ASSUME NEW next \in Nat, NEW p, NEW d, RowsFit(p, next), RowsFit(d, next), Len(p) = Len(d),
         ToSet(ids(p)) \subseteq ToSet(ids(d))
  PROVE  ToSet(ids(p)) = ToSet(ids(d))
<1>1. PICK n : n = Len(p)
  OBVIOUS
<1>2. /\ n \in Nat /\ DOMAIN p = 1 .. n /\ DOMAIN d = 1 .. n
      /\ DOMAIN ids(p) = 1 .. n /\ DOMAIN ids(d) = 1 .. n
      /\ \A i \in 1 .. n : ids(p)[i] = p[i].id /\ ids(d)[i] = d[i].id
  BY <1>1 DEF RowsFit, ids
<1>3. \A i \in 1 .. n : \E k \in 1 .. n : ids(p)[i] = ids(d)[k]
  <2> TAKE i \in 1 .. n
  <2>1. ids(p)[i] \in ToSet(ids(d))
    BY <1>2 DEF ToSet
  <2> QED
    BY <1>2, <2>1 DEF ToSet
<1>4. PICK f : f = [i \in 1 .. n |-> CHOOSE k \in 1 .. n : ids(p)[i] = ids(d)[k]]
  OBVIOUS
<1>5. f \in [1 .. n -> 1 .. n] /\ \A i \in 1 .. n : ids(p)[i] = ids(d)[f[i]]
  BY <1>3, <1>4
<1>6. \A i, j \in 1 .. n : f[i] = f[j] => i = j
  <2>1. \A i, j \in 1 .. n : p[i].id = p[j].id => i = j
    BY <1>2 DEF RowsFit
  <2> TAKE i, j \in 1 .. n
  <2>2. f[i] = f[j] => ids(p)[i] = ids(p)[j]
    BY <1>5
  <2> QED
    BY <1>2, <2>1, <2>2
<1>7. \A k \in 1 .. n : \E i \in 1 .. n : f[i] = k
  BY <1>2, <1>5, <1>6, AllTaken
<1>8. ASSUME NEW k \in 1 .. n PROVE ids(d)[k] \in ToSet(ids(p))
  <2>1. PICK i \in 1 .. n : f[i] = k
    BY <1>7
  <2>2. ids(p)[i] = ids(d)[k] /\ i \in DOMAIN ids(p)
    BY <1>2, <1>5, <2>1
  <2> QED
    BY <2>2 DEF ToSet
<1>9. ToSet(ids(d)) \subseteq ToSet(ids(p))
  BY <1>2, <1>8 DEF ToSet
<1> QED
  BY <1>9

\* Where a row of a moved list was before.
Source(from, to, k) ==
  IF k = to THEN from
  ELSE IF k < to THEN IF k < from THEN k ELSE k + 1
  ELSE IF k - 1 < from THEN k - 1 ELSE k

LEMMA MovedRows ==
  ASSUME NEW T, NEW list \in Seq(T), NEW from \in DOMAIN list, NEW to \in DOMAIN list
  PROVE  /\ moved(list, from, to) \in Seq(T)
         /\ DOMAIN moved(list, from, to) = DOMAIN list
         /\ \A k \in DOMAIN list : /\ Source(from, to, k) \in DOMAIN list
                                   /\ moved(list, from, to)[k] = list[Source(from, to, k)]
<1>1. PICK n : n = Len(list)
  OBVIOUS
<1>2. n \in Nat /\ DOMAIN list = 1 .. n /\ from \in 1 .. n /\ to \in 1 .. n /\ list[from] \in T
  BY <1>1
<1>3. PICK a : a = SubSeq(list, 1, from - 1)
  OBVIOUS
<1>4. PICK b : b = SubSeq(list, from + 1, n)
  OBVIOUS
<1>5. PICK r : r = a \o b
  OBVIOUS
<1>6. a \in Seq(T) /\ Len(a) = from - 1 /\ \A k \in 1 .. from - 1 : a[k] = list[k]
  BY <1>1, <1>2, <1>3
<1>7. b \in Seq(T) /\ Len(b) = n - from /\ \A k \in 1 .. n - from : b[k] = list[from + k]
  BY <1>1, <1>2, <1>4
<1>8. r \in Seq(T) /\ Len(r) = n - 1
  <2>1. a \in Seq(T) /\ b \in Seq(T)
    BY <1>6, <1>7
  <2>2. r \in Seq(T) /\ Len(r) = Len(a) + Len(b)
    BY <1>5, <2>1, Joined
  <2> QED
    BY <1>2, <1>6, <1>7, <2>1, <2>2
<1>9. \A k \in 1 .. n - 1 : r[k] = IF k < from THEN list[k] ELSE list[k + 1]
  <2> TAKE k \in 1 .. n - 1
  <2>1. CASE k < from
    BY <1>2, <1>5, <1>6, <1>7, <2>1
  <2>2. CASE ~(k < from)
    <3>1. k - Len(a) \in 1 .. n - from /\ r[k] = b[k - Len(a)]
      BY <1>2, <1>5, <1>6, <1>7, <2>2
    <3>2. from + (k - Len(a)) = k + 1
      BY <1>2, <1>6
    <3> QED
      BY <1>7, <2>2, <3>1, <3>2
  <2> QED
    BY <2>1, <2>2
<1>10. PICK c : c = SubSeq(r, 1, to - 1)
  OBVIOUS
<1>11. PICK e : e = SubSeq(r, to, n - 1)
  OBVIOUS
<1>12. c \in Seq(T) /\ Len(c) = to - 1 /\ \A k \in 1 .. to - 1 : c[k] = r[k]
  BY <1>2, <1>8, <1>10
<1>13. e \in Seq(T) /\ Len(e) = n - to /\ \A k \in 1 .. n - to : e[k] = r[to + k - 1]
  BY <1>2, <1>8, <1>11
<1>14. PICK m : m = c \o <<list[from]>> \o e
  OBVIOUS
<1>15. PICK x : x = c \o <<list[from]>>
  OBVIOUS
<1>16. x \in Seq(T) /\ Len(x) = to /\ x[to] = list[from] /\ \A k \in 1 .. to - 1 : x[k] = c[k]
  BY <1>2, <1>12, <1>15
<1>17. m \in Seq(T) /\ Len(m) = n
  <2>1. m = x \o e
    BY <1>14, <1>15
  <2>2. m \in Seq(T) /\ Len(m) = Len(x) + Len(e)
    <3>1. x \in Seq(T) /\ e \in Seq(T)
      BY <1>13, <1>16
    <3> QED
      BY <2>1, <3>1, Joined
  <2> QED
    BY <1>2, <1>13, <1>16, <2>2
<1>18. \A k \in 1 .. n : m[k] = IF k <= to THEN x[k] ELSE e[k - to]
  BY <1>2, <1>13, <1>14, <1>15, <1>16
<1>19. moved(list, from, to) = m
  BY <1>1, <1>3, <1>4, <1>5, <1>8, <1>10, <1>11, <1>14 DEF moved, InsertAt, RemoveAt
<1>20. \A k \in 1 .. n : Source(from, to, k) \in 1 .. n /\ m[k] = list[Source(from, to, k)]
  <2> TAKE k \in 1 .. n
  <2>1. CASE k = to
    BY <1>2, <1>16, <1>18, <2>1 DEF Source
  <2>2. CASE k < to
    <3>1. k \in 1 .. to - 1 /\ k \in 1 .. n - 1
      BY <1>2, <2>2
    <3>2. m[k] = r[k]
      BY <1>2, <1>12, <1>16, <1>18, <3>1
    <3> QED
      BY <1>2, <1>9, <2>2, <3>1, <3>2 DEF Source
  <2>3. CASE k > to
    <3>1. k - to \in 1 .. n - to /\ k - 1 \in 1 .. n - 1 /\ to + (k - to) - 1 = k - 1
      BY <1>2, <2>3
    <3>2. m[k] = r[k - 1]
      BY <1>2, <1>13, <1>18, <2>3, <3>1
    <3> QED
      BY <1>2, <1>9, <2>3, <3>1, <3>2 DEF Source
  <2> QED
    BY <1>2, <2>1, <2>2, <2>3
<1> QED
  BY <1>2, <1>17, <1>19, <1>20

LEMMA MovedFitsRows ==
  ASSUME NEW next \in Nat, NEW list, RowsFit(list, next), NEW from \in DOMAIN list, NEW to \in DOMAIN list
  PROVE  RowsFit(moved(list, from, to), next)
<1>1. list \in Seq(ListRow)
  BY DEF RowsFit
<1>2. PICK m : m = moved(list, from, to)
  OBVIOUS
<1>3. /\ m \in Seq(ListRow) /\ DOMAIN m = DOMAIN list
      /\ \A k \in DOMAIN list : Source(from, to, k) \in DOMAIN list /\ m[k] = list[Source(from, to, k)]
  BY <1>1, <1>2, MovedRows
<1>4. \A k, l \in DOMAIN list : Source(from, to, k) = Source(from, to, l) => k = l
  <2>1. DOMAIN list = 1 .. Len(list) /\ Len(list) \in Nat
    BY <1>1
  <2> QED
    BY <2>1 DEF Source
<1> QED
  BY <1>2, <1>3, <1>4 DEF RowsFit

----------------------------------------------------------------------------

ReqKinds == {"load", "startup", "order", "edit", "delete", "add", "begin", "save"}
ReqShape(r) ==
  r \in [kind : ReqKinds, body : {r.body}, confirm : BOOLEAN, live : BOOLEAN, handled : BOOLEAN,
         ok : BOOLEAN, answer : {r.answer}]

DataFits(D) == IF tab \in Lists THEN \A d \in D : RowsFit(d, nextId) ELSE D \subseteq Value

ReqFits(r) ==
  /\ ReqShape(r)
  /\ ~r.handled => ~r.ok /\ r.answer = {}
  /\ r.kind = "edit" => r.body[1] \in Nat \ {0} /\ r.body[2] \in Name
  /\ r.kind = "save" => r.body[1] \in Value
  /\ r.kind = "order" => r.body \in Seq(Nat)
  /\ r.kind \in {"save", "startup"} => tab \in Forms
  /\ DataFits(r.answer)

TablesFit ==
  /\ tab \in Lists \cup Forms
  /\ nextId \in Nat /\ nextId > 0 /\ RowsFit(rows, nextId) /\ setting \in Value
  /\ fetched \in [data : {fetched.data}, error : BOOLEAN, loading : BOOLEAN] /\ DataFits(fetched.data)
  /\ \A p \in pendingOrder : RowsFit(p, nextId)
  /\ edit \subseteq ListRow
  /\ \A r \in requests : ReqFits(r)

\* Nothing on screen, or on its way there, has the rows in another order than the daemon.
OrderSettled ==
  /\ ~fetched.loading => \A d \in fetched.data : Agree(d, rows)
  /\ \A r \in requests : r.kind = "load" /\ r.live => \A d \in r.answer : Agree(d, rows)
  /\ \A p \in pendingOrder : Agree(p, rows)

\* One order is out at a time, and it is the one that is shown.
OrdersFit ==
  tab \in Lists /\ ~overtaken =>
    /\ \A p, q \in pendingOrder : p = q
    /\ \A r, q \in requests : Orders(r) /\ Orders(q) => r = q
    /\ \A r \in requests : Orders(r) =>
         r.live /\ \E p \in pendingOrder : r.body = ids(p) /\ (r.ok => Agree(p, rows))
    /\ (\A r \in requests : ~Orders(r)) => OrderSettled

Tells(r) == r.kind \in {"startup", "save"}

\* At most one request is out that App's copy depends on; without one it is right.
FormsFit ==
  tab \in Forms \ {"daemon"} /\ ~overtaken =>
    /\ \A r, q \in requests : Tells(r) /\ Tells(q) => r = q
    /\ (\A r \in requests : ~Tells(r)) => app = setting
    /\ \A r \in requests : r.kind = "save" =>
         IF r.handled THEN r.ok /\ setting = r.body[1] ELSE app = setting
    /\ \A r \in requests : r.kind = "startup" /\ r.handled => r.ok /\ r.answer = {setting}

SettingsInv == TablesFit /\ OrdersFit /\ FormsFit

LoadsList(r) == r.kind = "load" /\ r.live

\* One list is being loaded at a time, and one order is kept.
OneOfEach ==
  /\ \A p, q \in pendingOrder : p = q
  /\ \A r, q \in requests : LoadsList(r) /\ LoadsList(q) => r = q
  /\ \A r \in requests : LoadsList(r) => fetched.loading

----------------------------------------------------------------------------

\* The same request, if it still reaches the panel.
Heir(q, r) ==
  /\ ReqShape(q) /\ q.kind = r.kind /\ q.body = r.body
  /\ q.handled = r.handled /\ q.ok = r.ok /\ q.answer = r.answer
  /\ q.live => r.live

LEMMA HeirFits ==
  ASSUME NEW r, ReqFits(r), NEW q, Heir(q, r)
  PROVE  ReqFits(q)
BY DEF ReqFits, Heir

LEMMA HeirItself ==
  ASSUME NEW r, ReqFits(r)
  PROVE  Heir(r, r)
BY DEF ReqFits, Heir

LEMMA ReqIs ==
  ASSUME NEW kind \in ReqKinds, NEW body, NEW q, q = Request(kind, body)
  PROVE  /\ ReqShape(q) /\ q.kind = kind /\ q.body = body
         /\ q.live /\ ~q.handled /\ ~q.ok /\ q.answer = {}
<1>1. q = [kind |-> kind, body |-> body, confirm |-> FALSE, live |-> TRUE, handled |-> FALSE, ok |-> FALSE, answer |-> {}]
  BY DEF Request
<1>2. q.live = TRUE /\ q.handled = FALSE /\ q.ok = FALSE /\ q.kind = kind /\ q.body = body /\ q.answer = {}
  BY <1>1
<1> QED
  BY <1>1, <1>2 DEF ReqShape

LEMMA NothingFits == DataFits({})
BY DEF DataFits

\* A request nobody took up yet.
NewReq(q) == ReqFits(q) /\ ~q.handled

LEMMA LoadIsNew ==
  ASSUME NEW q, q = Request("load", <<>>)
  PROVE  NewReq(q) /\ q.kind = "load"
<1>1. PICK kind : kind = "load"
  OBVIOUS
<1>2. kind \in ReqKinds /\ q = Request(kind, <<>>)
  BY <1>1 DEF ReqKinds
<1>3. ReqShape(q) /\ q.kind = kind /\ ~q.handled /\ ~q.ok /\ q.answer = {}
  BY <1>2, ReqIs
<1> QED
  BY <1>1, <1>3, NothingFits DEF NewReq, ReqFits

LEMMA SilentHeir ==
  ASSUME NEW r, ReqFits(r), NEW q, q = [r EXCEPT !.live = FALSE]
  PROVE  Heir(q, r) /\ ~q.live
<1>1. ReqShape(r)
  BY DEF ReqFits
<1>2. /\ q.kind = r.kind /\ q.body = r.body /\ q.handled = r.handled /\ q.ok = r.ok
      /\ q.answer = r.answer /\ q.live = FALSE /\ ReqShape(q)
  BY <1>1 DEF ReqShape
<1> QED
  BY <1>2 DEF Heir

LEMMA LoadingHeirs ==
  ASSUME NEW rs, \A r \in rs : ReqFits(r)
  PROVE  /\ \A q \in Loading(rs) : \/ NewReq(q) /\ q.kind = "load"
                                   \/ \E r \in rs : Heir(q, r) /\ (r.kind # "load" => q = r) /\ (q.kind = "load" => ~q.live)
         /\ \A r \in rs : r.kind # "load" => r \in Loading(rs)
<1>1. ASSUME NEW q \in Loading(rs)
      PROVE  \/ NewReq(q) /\ q.kind = "load"
             \/ \E r \in rs : Heir(q, r) /\ (r.kind # "load" => q = r) /\ (q.kind = "load" => ~q.live)
  <2>1. CASE q = Request("load", <<>>)
    BY <2>1, LoadIsNew
  <2>2. ASSUME NEW r \in rs, q = IF r.kind = "load" THEN [r EXCEPT !.live = FALSE] ELSE r
        PROVE  Heir(q, r) /\ (r.kind # "load" => q = r) /\ (q.kind = "load" => ~q.live)
    <3>1. CASE r.kind = "load"
      BY <2>2, <3>1, SilentHeir
    <3>2. CASE r.kind # "load"
      BY <2>2, <3>2, HeirItself
    <3> QED
      BY <3>1, <3>2
  <2> QED
    BY <2>1, <2>2 DEF Loading
<1>2. ASSUME NEW r \in rs, r.kind # "load" PROVE r \in Loading(rs)
  BY <1>2 DEF Loading
<1> QED
  BY <1>1, <1>2

LEMMA OrderedFits ==
  ASSUME TablesFit
  PROVE  tab \in Lists => RowsFit(items, nextId) /\ RowsFit(ordered, nextId)
<1> SUFFICES ASSUME tab \in Lists PROVE RowsFit(items, nextId) /\ RowsFit(ordered, nextId)
  OBVIOUS
<1>1. RowsFit(<<>>, nextId)
  BY DEF RowsFit
<1>2. tab \notin Forms
  BY DEF Lists, Forms
<1>3. RowsFit(items, nextId)
  BY <1>1, <1>2 DEF items, TablesFit, DataFits
<1> QED
  BY <1>3 DEF ordered, TablesFit

LEMMA IdsFit ==
  ASSUME NEW list, RowsFit(list, nextId)
  PROVE  ids(list) \in Seq(Nat)
<1>1. DOMAIN list = 1 .. Len(list) /\ Len(list) \in Nat /\ \A i \in DOMAIN list : list[i] \in ListRow
  BY DEF RowsFit
<1>2. \A i \in DOMAIN list : list[i].id \in Nat
  <2> TAKE i \in DOMAIN list
  <2>1. list[i].id \in Nat \ {0}
    BY <1>1 DEF ListRow
  <2> QED
    BY <2>1
<1> QED
  BY <1>1, <1>2 DEF ids

\* A list fits whatever ids are given later.
LEMMA FitsLater ==
  ASSUME TablesFit, tab' = tab, nextId' \in Nat, nextId' >= nextId
  PROVE  /\ \A d : RowsFit(d, nextId) => RowsFit(d, nextId')
         /\ \A D : DataFits(D) => DataFits(D)'
         /\ \A r : ReqFits(r) => ReqFits(r)'
<1>1. ASSUME NEW d, RowsFit(d, nextId) PROVE RowsFit(d, nextId')
  <2>1. nextId \in Nat
    BY DEF TablesFit
  <2>2. d \in Seq(ListRow) /\ \A i \in DOMAIN d : d[i].id < nextId
    BY <1>1 DEF RowsFit
  <2>3. \A i \in DOMAIN d : d[i].id < nextId'
    <3> TAKE i \in DOMAIN d
    <3>1. d[i] \in ListRow
      BY <2>2
    <3>2. d[i].id \in Nat \ {0}
      BY <3>1 DEF ListRow
    <3> QED
      BY <2>1, <2>2, <3>2
  <2> QED
    BY <1>1, <2>2, <2>3 DEF RowsFit
<1>2. ASSUME NEW D, DataFits(D) PROVE DataFits(D)'
  BY <1>1, <1>2 DEF DataFits
<1>3. ASSUME NEW r, ReqFits(r) PROVE ReqFits(r)'
  BY <1>2, <1>3 DEF ReqFits, ReqShape
<1> QED
  BY <1>1, <1>2, <1>3

\* Requests of a by that leaves the tables alone: those there were, and new ones.
Heirs == \A q \in requests' : NewReq(q) \/ \E r \in requests : Heir(q, r)

LEMMA TablesStay ==
  ASSUME TablesFit, UNCHANGED <<tab, daemon>>, Heirs,
         fetched' \in [data : {fetched'.data}, error : BOOLEAN, loading : BOOLEAN],
         DataFits(fetched'.data), \A p \in pendingOrder' : RowsFit(p, nextId), edit' \subseteq ListRow
  PROVE  TablesFit'
<1>1. tab' = tab /\ nextId' = nextId /\ rows' = rows /\ setting' = setting /\ nextId \in Nat
  BY DEF daemon, TablesFit
<1>2. ASSUME NEW q \in requests' PROVE ReqFits(q)'
  <2>1. ReqFits(q)
    BY <1>2, HeirFits DEF Heirs, NewReq, TablesFit
  <2> QED
    BY <1>1, <2>1 DEF ReqFits, ReqShape, DataFits
<1>3. DataFits(fetched.data)'
  BY <1>1 DEF DataFits
<1> QED
  BY <1>1, <1>2, <1>3 DEF TablesFit

\* A by that neither makes nor answers an order, nor shows what a live load did not bring.
Shows ==
  \/ fetched' = fetched
  \/ fetched'.loading = TRUE
  \/ \E r \in requests : r.kind = "load" /\ r.live /\ fetched'.data \subseteq r.answer

LEMMA OrdersStay ==
  ASSUME TablesFit, OrdersFit, UNCHANGED <<tab, daemon, pendingOrder, overtaken>>, Shows,
         \A q \in requests' : \/ NewReq(q) /\ ~Orders(q)
                              \/ \E r \in requests : Heir(q, r) /\ (Orders(r) => q = r),
         \A r \in requests : Orders(r) => r \in requests'
  PROVE  OrdersFit'
<1> SUFFICES ASSUME tab \in Lists, ~overtaken
             PROVE  /\ \A r, q \in requests' : Orders(r) /\ Orders(q) => r = q
                    /\ \A r \in requests' : Orders(r) =>
                         r.live /\ \E p \in pendingOrder : r.body = ids(p) /\ (r.ok => Agree(p, rows))
                    /\ (\A r \in requests' : ~Orders(r)) => OrderSettled'
  BY DEF OrdersFit, Orders, daemon
<1>1. \A q \in requests' : Orders(q) => q \in requests
  BY DEF Heir, Orders
<1>2. \A r, q \in requests' : Orders(r) /\ Orders(q) => r = q
  BY <1>1 DEF OrdersFit
<1>3. \A r \in requests' : Orders(r) =>
        r.live /\ \E p \in pendingOrder : r.body = ids(p) /\ (r.ok => Agree(p, rows))
  BY <1>1 DEF OrdersFit
<1>4. ASSUME \A r \in requests' : ~Orders(r) PROVE OrderSettled'
  <2>1. OrderSettled
    BY <1>4 DEF OrdersFit
  <2>2. ~fetched'.loading => \A d \in fetched'.data : Agree(d, rows)
    BY <2>1 DEF Shows, OrderSettled
  <2>3. ASSUME NEW q \in requests', q.kind = "load", q.live, NEW d \in q.answer PROVE Agree(d, rows)
    <3>1. CASE NewReq(q)
      BY <2>3, <3>1 DEF NewReq, ReqFits
    <3>2. CASE \E r \in requests : Heir(q, r)
      BY <2>1, <2>3, <3>2 DEF OrderSettled, Heir
    <3> QED
      BY <3>1, <3>2
  <2> QED
    BY <2>1, <2>2, <2>3 DEF OrderSettled, daemon
<1> QED
  BY <1>2, <1>3, <1>4

LEMMA FormsStay ==
  ASSUME FormsFit, UNCHANGED <<tab, daemon, app, overtaken>>,
         \A q \in requests' : Tells(q) => q \in requests,
         \A r \in requests : Tells(r) => r \in requests'
  PROVE  FormsFit'
BY DEF FormsFit, Tells, daemon

\* Of a page that is not a form there is nothing to keep, and of one that is not a list.
LEMMA NotAForm == ASSUME tab' = tab, tab \in Lists \cup {"daemon"} PROVE FormsFit'
BY DEF FormsFit, Lists, Forms
LEMMA NotAList == ASSUME tab' = tab, tab \in Forms PROVE OrdersFit'
BY DEF OrdersFit, Lists, Forms

\* Steps of the user that ask for nothing.
LEMMA QuietInv ==
  ASSUME SettingsInv, UNCHANGED <<tab, daemon, fetched, requests, pendingOrder, app, overtaken>>, edit' \subseteq ListRow
  PROVE  SettingsInv'
<1>1. \A r \in requests : Heir(r, r)
  BY HeirItself DEF SettingsInv, TablesFit
<1>2. TablesFit'
  BY <1>1, TablesStay DEF SettingsInv, TablesFit, Heirs
<1>3. OrdersFit'
  BY <1>1, OrdersStay DEF SettingsInv, Shows
<1>4. FormsFit'
  BY FormsStay DEF SettingsInv
<1> QED
  BY <1>2, <1>3, <1>4 DEF SettingsInv

\* A request of a list leaves that is no order.
LEMMA SendsInv ==
  ASSUME SettingsInv, UNCHANGED <<tab, daemon, fetched, pendingOrder, app, overtaken>>, edit' \subseteq ListRow,
         tab \in Lists, NEW q, NewReq(q), ~Orders(q), Sends(q)
  PROVE  SettingsInv'
<1>1. \A r \in requests : Heir(r, r)
  BY HeirItself DEF SettingsInv, TablesFit
<1>2. TablesFit'
  BY <1>1, TablesStay DEF SettingsInv, TablesFit, Heirs, Sends
<1>3. OrdersFit'
  BY <1>1, OrdersStay DEF SettingsInv, Shows, Sends
<1>4. FormsFit'
  BY NotAForm
<1> QED
  BY <1>2, <1>3, <1>4 DEF SettingsInv

\* save of useReorder.
LEMMA SaveOrderInv ==
  ASSUME SettingsInv, UNCHANGED <<tab, daemon, fetched, app>>, edit' \subseteq ListRow, tab \in Lists,
         NEW next, RowsFit(next, nextId), save(next)
  PROVE  SettingsInv'
<1>1. PICK q : q = Request("order", ids(next))
  OBVIOUS
<1>2. q.kind = "order" /\ q.body = ids(next) /\ NewReq(q) /\ q.live
  <2>1. PICK kind : kind = "order"
    OBVIOUS
  <2>2. PICK body : body = ids(next)
    OBVIOUS
  <2>3. kind \in ReqKinds /\ q = Request(kind, body)
    BY <1>1, <2>1, <2>2 DEF ReqKinds
  <2>4. ReqShape(q) /\ q.kind = kind /\ q.body = body /\ ~q.handled /\ ~q.ok /\ q.answer = {} /\ q.live
    BY <2>3, ReqIs
  <2> QED
    BY <2>1, <2>2, <2>4, NothingFits, IdsFit DEF NewReq, ReqFits
<1>3. /\ pendingOrder' = {next} /\ requests' = requests \cup {q}
      /\ overtaken' = (overtaken \/ \E r \in requests : Orders(r))
  BY <1>1 DEF save
<1>4. \A r \in requests : Heir(r, r)
  BY HeirItself DEF SettingsInv, TablesFit
<1>5. TablesFit'
  BY <1>2, <1>3, <1>4, TablesStay DEF SettingsInv, TablesFit, Heirs
<1>6. OrdersFit'
  <2> SUFFICES ASSUME ~overtaken, \A r \in requests : ~Orders(r)
               PROVE  /\ \A r, s \in requests' : Orders(r) /\ Orders(s) => r = s
                      /\ \A r \in requests' : Orders(r) => r.live /\ r.body = ids(next) /\ ~r.ok
                      /\ Orders(q)
    BY <1>3 DEF OrdersFit, daemon, Orders
  <2> QED
    BY <1>2, <1>3 DEF Orders, NewReq, ReqFits
<1>7. FormsFit'
  BY NotAForm
<1> QED
  BY <1>5, <1>6, <1>7 DEF SettingsInv

\* save of a form.
LEMMA SaveFormInv ==
  ASSUME SettingsInv, tab \in Forms, NEW confirm \in BOOLEAN, field \in Value, Save(confirm)
  PROVE  SettingsInv'
<1>1. PICK b : b = <<field>>
  OBVIOUS
<1>2. PICK p : p = Request("save", b)
  OBVIOUS
<1>3. PICK q : q = [p EXCEPT !.confirm = confirm]
  OBVIOUS
<1>4. p.kind = "save" /\ p.body = b /\ ReqShape(p) /\ ~p.handled /\ ~p.ok /\ p.answer = {}
  <2>1. PICK kind : kind = "save"
    OBVIOUS
  <2>2. kind \in ReqKinds /\ p = Request(kind, b)
    BY <1>2, <2>1 DEF ReqKinds
  <2> QED
    BY <2>1, <2>2, ReqIs
<1>5. q.kind = "save" /\ q.body = b /\ ReqShape(q) /\ ~q.handled /\ ~q.ok /\ q.answer = {}
  BY <1>3, <1>4 DEF ReqShape
<1>6. NewReq(q)
  BY <1>1, <1>5, NothingFits DEF NewReq, ReqFits
<1>7. /\ UNCHANGED <<tab, daemon, fetched, listState, app>> /\ requests' = requests \cup {q}
      /\ overtaken' = (overtaken \/ \E r \in requests : r.kind \in {"startup", "save"})
  BY <1>1, <1>2, <1>3 DEF Save, OnForm, Sends
<1>8. \A r \in requests : Heir(r, r)
  BY HeirItself DEF SettingsInv, TablesFit
<1>9. TablesFit'
  BY <1>6, <1>7, <1>8, TablesStay DEF SettingsInv, TablesFit, Heirs, listState
<1>10. FormsFit'
  <2> SUFFICES ASSUME tab \in Forms \ {"daemon"}, ~overtaken, \A r \in requests : ~Tells(r)
               PROVE  /\ \A r, s \in requests' : Tells(r) /\ Tells(s) => r = s
                      /\ Tells(q) /\ app = setting
                      /\ \A r \in requests' : Tells(r) => ~r.handled /\ r.kind = "save"
    BY <1>5, <1>7 DEF FormsFit, Tells, daemon
  <2> QED
    BY <1>5, <1>7 DEF Tells, FormsFit, SettingsInv
<1> QED
  BY <1>7, <1>9, <1>10, NotAList DEF SettingsInv

LEMMA ReloadingIs ==
  ASSUME TablesFit
  PROVE  /\ Reloading \in [data : {fetched.data}, error : BOOLEAN, loading : BOOLEAN]
         /\ Reloading.data = fetched.data /\ Reloading.loading = TRUE
<1>1. fetched \in [data : {fetched.data}, error : BOOLEAN, loading : BOOLEAN]
  BY DEF TablesFit
<1> QED
  BY <1>1 DEF Reloading

LEMMA RetryInv ==
  ASSUME SettingsInv, Retry
  PROVE  SettingsInv'
<1>1. /\ fetched' = Reloading /\ requests' = Loading(requests)
      /\ UNCHANGED <<tab, daemon, listState, app, overtaken>>
  BY DEF Retry
<1>2. \A r \in requests : ReqFits(r)
  BY DEF SettingsInv, TablesFit
<1>3. /\ \A q \in requests' : \/ NewReq(q) /\ q.kind = "load"
                              \/ \E r \in requests : Heir(q, r) /\ (r.kind # "load" => q = r)
      /\ \A r \in requests : r.kind # "load" => r \in requests'
  BY <1>1, <1>2, LoadingHeirs
<1>4. TablesFit'
  BY <1>1, <1>3, ReloadingIs, TablesStay DEF SettingsInv, TablesFit, Heirs, listState
<1>5. OrdersFit'
  BY <1>1, <1>3, ReloadingIs, OrdersStay DEF SettingsInv, Shows, listState, Orders, Heir
<1>6. FormsFit'
  BY <1>1, <1>3, FormsStay DEF SettingsInv, Tells, Heir
<1> QED
  BY <1>4, <1>5, <1>6 DEF SettingsInv

LEMMA ReopenInv ==
  ASSUME SettingsInv, Reopen
  PROVE  SettingsInv'
<1>1. /\ fetched' = Fresh /\ pendingOrder' = {} /\ edit' = {}
      /\ requests' = {[r EXCEPT !.live = FALSE] : r \in requests} \cup {Request("load", <<>>)}
      /\ overtaken' = ((tab \in Forms /\ overtaken) \/ \E r \in requests : Orders(r))
      /\ UNCHANGED <<tab, daemon, app>>
  BY DEF Reopen
<1>2. \A r \in requests : ReqFits(r)
  BY DEF SettingsInv, TablesFit
<1>3. ASSUME NEW q \in requests'
      PROVE  \/ NewReq(q) /\ q.kind = "load"
             \/ \E r \in requests : Heir(q, r) /\ ~q.live /\ q = [r EXCEPT !.live = FALSE]
  BY <1>1, <1>2, LoadIsNew, SilentHeir
<1>4. fetched' \in [data : {fetched'.data}, error : BOOLEAN, loading : BOOLEAN] /\ fetched'.data = {} /\ fetched'.loading = TRUE
  BY <1>1 DEF Fresh
<1>5. TablesFit'
  BY <1>1, <1>3, <1>4, TablesStay, NothingFits DEF SettingsInv, Heirs
<1>6. OrdersFit'
  <2> SUFFICES ASSUME tab \in Lists, \A r \in requests : ~Orders(r)
               PROVE  (\A q \in requests' : ~Orders(q)) /\ OrderSettled'
    BY <1>1 DEF OrdersFit, Orders
  <2>1. ASSUME NEW q \in requests' PROVE ~Orders(q) /\ (q.kind = "load" /\ q.live => q.answer = {})
    BY <1>3, <2>1 DEF Orders, Heir, NewReq, ReqFits
  <2> QED
    BY <1>1, <1>4, <2>1 DEF OrderSettled
<1>7. FormsFit'
  <2> SUFFICES ASSUME tab \in Forms \ {"daemon"}, ~overtaken
               PROVE  /\ \A r, q \in requests' : Tells(r) /\ Tells(q) => r = q
                      /\ (\A r \in requests' : ~Tells(r)) => app = setting
                      /\ \A r \in requests' : r.kind = "save" =>
                           IF r.handled THEN r.ok /\ setting = r.body[1] ELSE app = setting
                      /\ \A r \in requests' : r.kind = "startup" /\ r.handled => r.ok /\ r.answer = {setting}
    BY <1>1 DEF FormsFit, Tells, daemon
  <2>1. ASSUME NEW q \in requests', Tells(q)
        PROVE  \E r \in requests : Tells(r) /\ Heir(q, r) /\ q = [r EXCEPT !.live = FALSE]
    BY <1>3, <2>1 DEF Tells, Heir
  <2>2. \A r, q \in requests' : Tells(r) /\ Tells(q) => r = q
    BY <2>1 DEF FormsFit, SettingsInv
  <2>3. ASSUME NEW r \in requests, Tells(r) PROVE \E q \in requests' : Tells(q)
    <3>1. PICK q : q = [r EXCEPT !.live = FALSE]
      OBVIOUS
    <3>2. q \in requests' /\ Heir(q, r)
      BY <1>1, <1>2, <3>1, SilentHeir
    <3> QED
      BY <2>3, <3>2 DEF Heir, Tells
  <2>4. (\A r \in requests' : ~Tells(r)) => app = setting
    BY <2>3 DEF FormsFit, SettingsInv
  <2>5. \A q \in requests' : q.kind = "save" =>
          IF q.handled THEN q.ok /\ setting = q.body[1] ELSE app = setting
    <3> SUFFICES ASSUME NEW q \in requests', q.kind = "save"
                 PROVE  IF q.handled THEN q.ok /\ setting = q.body[1] ELSE app = setting
      OBVIOUS
    <3>1. PICK r \in requests : Heir(q, r)
      BY <2>1 DEF Tells
    <3> QED
      BY <3>1 DEF Heir, FormsFit, SettingsInv
  <2>6. \A q \in requests' : q.kind = "startup" /\ q.handled => q.ok /\ q.answer = {setting}
    <3> SUFFICES ASSUME NEW q \in requests', q.kind = "startup", q.handled
                 PROVE  q.ok /\ q.answer = {setting}
      OBVIOUS
    <3>1. PICK r \in requests : Heir(q, r)
      BY <2>1 DEF Tells
    <3> QED
      BY <3>1 DEF Heir, FormsFit, SettingsInv
  <2> QED
    BY <2>2, <2>4, <2>5, <2>6
<1> QED
  BY <1>5, <1>6, <1>7 DEF SettingsInv

----------------------------------------------------------------------------

\* What keeps the rows that stay in their order, and numbers new ones.
Keeps(list, next) ==
  /\ next \in Nat /\ next >= nextId /\ RowsFit(list, next)
  /\ \A d : RowsFit(d, nextId) /\ Agree(d, rows) => Agree(d, list)

LEMMA AgreesItself ==
  ASSUME NEW next, NEW d, RowsFit(d, next)
  PROVE  Agree(d, d)
BY DEF RowsFit, Agree

LEMMA AppendKeeps ==
  ASSUME TablesFit
  PROVE  Keeps(Append(rows, NewRow), nextId + 1)
<1>1. PICK x : x = NewRow
  OBVIOUS
<1>2. nextId \in Nat /\ rows \in Seq(ListRow) /\ x.id = nextId /\ x.name = 0
  BY <1>1 DEF TablesFit, RowsFit, NewRow
<1>3. \A i \in DOMAIN rows : rows[i].id < nextId /\ rows[i].id \in Nat /\ rows[i].id > 0
  <2> TAKE i \in DOMAIN rows
  <2>1. rows[i] \in ListRow /\ rows[i].id < nextId
    BY <1>2 DEF TablesFit, RowsFit
  <2>2. rows[i].id \in Nat \ {0}
    BY <2>1 DEF ListRow
  <2> QED
    BY <2>1, <2>2
<1>4. nextId > 0
  BY DEF TablesFit
<1>5. x \in ListRow
  BY <1>1, <1>2, <1>4 DEF NewRow, ListRow, Name
<1>6. PICK n : n = Len(rows)
  OBVIOUS
<1>7. PICK b : b = Append(rows, x)
  OBVIOUS
<1>8. /\ n \in Nat /\ b \in Seq(ListRow) /\ DOMAIN rows = 1 .. n /\ DOMAIN b = 1 .. n + 1
      /\ b[n + 1] = x /\ \A i \in 1 .. n : b[i] = rows[i]
  BY <1>2, <1>5, <1>6, <1>7
<1>9. \A i \in 1 .. n + 1 : i = n + 1 \/ i \in 1 .. n
  BY <1>8
<1>10. RowsFit(b, nextId + 1)
  <2>1. \A i \in 1 .. n + 1 : b[i].id < nextId + 1
    BY <1>2, <1>3, <1>8, <1>9
  <2>2. \A i, j \in 1 .. n : rows[i].id = rows[j].id => i = j
    BY <1>8 DEF TablesFit, RowsFit
  <2>3. \A i, j \in 1 .. n + 1 : b[i].id = b[j].id => i = j
    <3> TAKE i, j \in 1 .. n + 1
    <3>1. CASE i \in 1 .. n /\ j \in 1 .. n
      BY <1>8, <2>2, <3>1
    <3>2. CASE i = n + 1 \/ j = n + 1
      BY <1>2, <1>3, <1>8, <1>9, <3>2
    <3> QED
      BY <1>9, <3>1, <3>2
  <2> QED
    BY <1>8, <2>1, <2>3 DEF RowsFit
<1>11. ASSUME NEW d, RowsFit(d, nextId), Agree(d, rows) PROVE Agree(d, b)
  <2> SUFFICES ASSUME NEW i \in DOMAIN d, NEW j \in DOMAIN d, NEW k \in 1 .. n + 1, NEW l \in 1 .. n + 1,
                      d[i].id = b[k].id, d[j].id = b[l].id, i < j
               PROVE  k < l
    BY <1>8 DEF Agree
  <2>1. d[i].id < nextId /\ d[j].id < nextId
    BY <1>11 DEF RowsFit
  <2>2. k # n + 1 /\ l # n + 1
    BY <1>2, <1>8, <2>1
  <2>3. k \in DOMAIN rows /\ l \in DOMAIN rows /\ b[k] = rows[k] /\ b[l] = rows[l]
    BY <1>8, <1>9, <2>2
  <2> QED
    BY <1>11, <2>3 DEF Agree
<1> QED
  BY <1>1, <1>2, <1>7, <1>10, <1>11 DEF Keeps

LEMMA PartKeeps ==
  ASSUME TablesFit, NEW b, b \in Seq(ListRow), PartOf(b, rows)
  PROVE  Keeps(b, nextId)
<1>1. nextId \in Nat /\ RowsFit(rows, nextId)
  BY DEF TablesFit
<1>2. PICK h \in [DOMAIN b -> DOMAIN rows] :
        /\ \A i, j \in DOMAIN b : i < j => h[i] < h[j]
        /\ \A i \in DOMAIN b : b[i].id = rows[h[i]].id
  BY DEF PartOf
<1>3. DOMAIN b = 1 .. Len(b) /\ DOMAIN rows = 1 .. Len(rows) /\ Len(b) \in Nat /\ Len(rows) \in Nat
  BY <1>1 DEF RowsFit
<1>4. \A i, j \in DOMAIN b : b[i].id = b[j].id => i = j
  <2> TAKE i, j \in DOMAIN b
  <2>1. b[i].id = b[j].id => h[i] = h[j]
    BY <1>1, <1>2 DEF RowsFit
  <2>2. h[i] \in Int /\ h[j] \in Int /\ i \in Int /\ j \in Int
    BY <1>2, <1>3
  <2> QED
    BY <1>2, <2>1, <2>2
<1>5. \A i \in DOMAIN b : b[i].id < nextId
  BY <1>1, <1>2 DEF RowsFit
<1>6. RowsFit(b, nextId)
  BY <1>4, <1>5 DEF RowsFit
<1> QED
  BY <1>1, <1>6, PartAgrees DEF Keeps

LEMMA TailKeeps ==
  ASSUME TablesFit, rows # <<>>
  PROVE  Keeps(Tail(rows), nextId)
<1>1. rows \in Seq(ListRow) /\ Len(rows) \in Nat /\ DOMAIN rows = 1 .. Len(rows) /\ Len(rows) > 0
  BY DEF TablesFit, RowsFit
<1>2. PICK b : b = Tail(rows)
  OBVIOUS
<1>3. b \in Seq(ListRow) /\ DOMAIN b = 1 .. Len(rows) - 1 /\ \A i \in 1 .. Len(rows) - 1 : b[i] = rows[i + 1]
  BY <1>1, <1>2
<1>4. PICK h : h = [i \in 1 .. Len(rows) - 1 |-> i + 1]
  OBVIOUS
<1>5. h \in [DOMAIN b -> DOMAIN rows] /\ \A i \in DOMAIN b : h[i] = i + 1 /\ b[i].id = rows[h[i]].id
  BY <1>1, <1>3, <1>4
<1>6. PartOf(b, rows)
  BY <1>3, <1>5 DEF PartOf
<1> QED
  BY <1>2, <1>3, <1>6, PartKeeps

LEMMA DeleteKeeps ==
  ASSUME TablesFit, NEW S
  PROVE  Keeps(Filter(rows, S), nextId)
<1>1. rows \in Seq(ListRow) /\ Len(rows) \in Nat /\ DOMAIN rows = 1 .. Len(rows)
  BY DEF TablesFit, RowsFit
<1>2. PICK b : b = Filter(rows, S)
  OBVIOUS
<1>3. b \in Seq(ListRow) /\ \E h : Picks(b, rows, S, Len(rows), h)
  BY <1>1, <1>2, FilterPicks
<1>4. DOMAIN b = 1 .. Len(b)
  BY <1>3
<1>5. PartOf(b, rows)
  BY <1>1, <1>3, <1>4 DEF PartOf, Picks
<1> QED
  BY <1>2, <1>3, <1>5, PartKeeps

LEMMA RenameKeeps ==
  ASSUME TablesFit, NEW id \in Nat \ {0}, NEW name \in Name,
         NEW b, b = [i \in DOMAIN rows |-> IF rows[i].id = id THEN [id |-> id, name |-> name] ELSE rows[i]]
  PROVE  Keeps(b, nextId)
<1>1. rows \in Seq(ListRow) /\ Len(rows) \in Nat /\ DOMAIN rows = 1 .. Len(rows)
  BY DEF TablesFit, RowsFit
<1>2. PICK x : x = [id |-> id, name |-> name]
  OBVIOUS
<1>3. x \in ListRow /\ x.id = id
  BY <1>2 DEF ListRow
<1>4. \A i \in DOMAIN rows : b[i] \in ListRow /\ b[i].id = rows[i].id
  <2> TAKE i \in DOMAIN rows
  <2>1. b[i] = IF rows[i].id = id THEN x ELSE rows[i]
    BY <1>2
  <2> QED
    BY <1>1, <1>3, <2>1
<1>5. b \in Seq(ListRow) /\ DOMAIN b = DOMAIN rows
  BY <1>1, <1>4
<1>6. PICK h : h = [i \in DOMAIN rows |-> i]
  OBVIOUS
<1>7. h \in [DOMAIN b -> DOMAIN rows] /\ \A i \in DOMAIN b : h[i] = i /\ b[i].id = rows[h[i]].id
  BY <1>4, <1>5, <1>6
<1>8. PartOf(b, rows)
  BY <1>7 DEF PartOf
<1> QED
  BY <1>5, <1>8, PartKeeps

LEMMA SameKeeps == ASSUME TablesFit PROVE Keeps(rows, nextId)
BY DEF Keeps, TablesFit

\* What checkIDSet lets through is an order of all the rows.
LEMMA OrderedRows ==
  ASSUME TablesFit, NEW body \in Seq(Nat), checkIDSet(body),
         NEW b, b = [i \in DOMAIN rows |-> CHOOSE row \in ToSet(rows) : row.id = body[i]]
  PROVE  /\ RowsFit(b, nextId)
         /\ \A p : RowsFit(p, nextId) /\ body = ids(p) => Agree(p, b)
<1>1. PICK n : n = Len(rows)
  OBVIOUS
<1>2. /\ n \in Nat /\ rows \in Seq(ListRow) /\ DOMAIN rows = 1 .. n /\ DOMAIN body = 1 .. n
      /\ DOMAIN ids(rows) = 1 .. n /\ \A i \in 1 .. n : ids(rows)[i] = rows[i].id /\ rows[i] \in ListRow
  BY <1>1 DEF TablesFit, RowsFit, checkIDSet, ids
<1>3. /\ \A i \in 1 .. n : \E k \in 1 .. n : body[i] = rows[k].id
      /\ \A k \in 1 .. n : \E i \in 1 .. n : body[i] = rows[k].id
  <2>1. ToSet(body) = ToSet(ids(rows))
    BY DEF checkIDSet
  <2>2. \A i \in 1 .. n : body[i] \in ToSet(body) /\ ids(rows)[i] \in ToSet(ids(rows))
    BY <1>2 DEF ToSet
  <2>3. /\ \A x \in ToSet(body) : \E i \in 1 .. n : body[i] = x
        /\ \A x \in ToSet(ids(rows)) : \E i \in 1 .. n : ids(rows)[i] = x
    BY <1>2 DEF ToSet
  <2>4. ASSUME NEW i \in 1 .. n PROVE \E k \in 1 .. n : body[i] = rows[k].id
    <3>1. body[i] \in ToSet(ids(rows))
      BY <2>1, <2>2
    <3> QED
      BY <1>2, <2>3, <3>1
  <2>5. ASSUME NEW k \in 1 .. n PROVE \E i \in 1 .. n : body[i] = rows[k].id
    <3>1. rows[k].id \in ToSet(body)
      BY <1>2, <2>1, <2>2
    <3> QED
      BY <2>3, <3>1
  <2> QED
    BY <2>4, <2>5
<1>4. \A i, j \in 1 .. n : rows[i].id = rows[j].id => i = j
  BY <1>2 DEF TablesFit, RowsFit
<1>5. \A i, j \in 1 .. n : body[i] = body[j] => i = j
  <2>1. PICK f : f = [k \in 1 .. n |-> CHOOSE i \in 1 .. n : body[i] = rows[k].id]
    OBVIOUS
  <2>2. f \in [1 .. n -> 1 .. n] /\ \A k \in 1 .. n : body[f[k]] = rows[k].id
    BY <1>3, <2>1
  <2>3. \A k, l \in 1 .. n : f[k] = f[l] => k = l
    <3> TAKE k, l \in 1 .. n
    <3>1. f[k] = f[l] => rows[k].id = rows[l].id
      BY <2>2
    <3> QED
      BY <1>4, <3>1
  <2>4. \A i \in 1 .. n : \E k \in 1 .. n : f[k] = i
    BY <1>2, <2>2, <2>3, AllTaken
  <2> TAKE i, j \in 1 .. n
  <2>5. PICK k \in 1 .. n : f[k] = i
    BY <2>4
  <2>6. PICK l \in 1 .. n : f[l] = j
    BY <2>4
  <2>7. body[i] = rows[k].id /\ body[j] = rows[l].id
    BY <2>2, <2>5, <2>6
  <2> QED
    BY <1>4, <2>5, <2>6, <2>7
<1>6. \A i \in 1 .. n : b[i] \in ToSet(rows) /\ b[i].id = body[i]
  <2> TAKE i \in 1 .. n
  <2>1. PICK k \in 1 .. n : body[i] = rows[k].id
    BY <1>3
  <2>2. rows[k] \in ToSet(rows)
    BY <1>2 DEF ToSet
  <2> QED
    BY <1>2, <2>1, <2>2
<1>7. \A i \in 1 .. n : \E k \in 1 .. n : b[i] = rows[k]
  BY <1>2, <1>6 DEF ToSet
<1>8. b \in Seq(ListRow) /\ DOMAIN b = 1 .. n
  <2>1. DOMAIN b = 1 .. n /\ \A i \in 1 .. n : b[i] \in ListRow
    BY <1>2, <1>7
  <2>2. b = [i \in 1 .. n |-> b[i]]
    BY <1>2
  <2> QED
    BY <1>2, <2>1, <2>2
<1>9. \A i \in 1 .. n : b[i].id < nextId
  <2>1. \A k \in 1 .. n : rows[k].id < nextId
    BY <1>2 DEF TablesFit, RowsFit
  <2> TAKE i \in 1 .. n
  <2>2. PICK k \in 1 .. n : b[i] = rows[k]
    BY <1>7
  <2> QED
    BY <2>1, <2>2
<1>10. RowsFit(b, nextId)
  BY <1>5, <1>6, <1>8, <1>9 DEF RowsFit
<1>11. ASSUME NEW p, RowsFit(p, nextId), body = ids(p) PROVE Agree(p, b)
  <2>1. DOMAIN p = 1 .. n /\ \A i \in 1 .. n : p[i].id = b[i].id
    BY <1>2, <1>6, <1>11 DEF ids
  <2> QED
    BY <1>5, <1>6, <1>8, <2>1 DEF Agree
<1> QED
  BY <1>10, <1>11

\* What the daemon does to its rows when it takes up a request.
LEMMA AppliedRows ==
  ASSUME TablesFit, NEW r, ReqFits(r), Applied(r)
  PROVE  /\ nextId' \in Nat /\ nextId' >= nextId /\ setting' \in Value
         /\ IF Orders(r) /\ checkIDSet(r.body)
            THEN /\ nextId' = nextId /\ RowsFit(rows', nextId)
                 /\ \A p : RowsFit(p, nextId) /\ r.body = ids(p) => Agree(p, rows')
            ELSE Keeps(rows', nextId')
         /\ ~(r.kind = "save") => setting' = setting
         /\ r.kind = "load" => rows' = rows
<1>1. nextId \in Nat /\ setting \in Value
  BY DEF TablesFit
<1>2. setting' \in Value /\ (~(r.kind = "save") => setting' = setting)
  BY <1>1 DEF Applied, ReqFits
<1>3. nextId' = IF r.kind = "add" THEN nextId + 1 ELSE nextId
  BY DEF Applied
<1>4. CASE r.kind = "order"
  <2>1. nextId' = nextId
    BY <1>3, <1>4
  <2>2. CASE checkIDSet(r.body)
    <3>1. rows' = [i \in DOMAIN rows |-> CHOOSE row \in ToSet(rows) : row.id = r.body[i]]
      BY <1>4, <2>2 DEF Applied
    <3>2. PICK b : b = rows'
      OBVIOUS
    <3>3. PICK body : body = r.body
      OBVIOUS
    <3>4. body \in Seq(Nat) /\ checkIDSet(body)
      BY <1>4, <2>2, <3>3 DEF ReqFits
    <3>5. b = [i \in DOMAIN rows |-> CHOOSE row \in ToSet(rows) : row.id = body[i]]
      BY <3>1, <3>2, <3>3
    <3>6. RowsFit(b, nextId) /\ \A p : RowsFit(p, nextId) /\ body = ids(p) => Agree(p, b)
      BY <3>4, <3>5, OrderedRows
    <3> QED
      BY <1>1, <1>2, <1>4, <2>1, <2>2, <3>2, <3>3, <3>6 DEF Orders
  <2>3. CASE ~checkIDSet(r.body)
    <3>1. rows' = rows
      BY <1>4, <2>3 DEF Applied
    <3> QED
      BY <1>1, <1>2, <1>4, <2>1, <2>3, <3>1, SameKeeps
  <2> QED
    BY <2>2, <2>3
<1>5. CASE r.kind = "edit"
  <2>1. rows' = [i \in DOMAIN rows |->
                  IF rows[i].id = r.body[1] THEN [id |-> r.body[1], name |-> r.body[2]] ELSE rows[i]]
    BY <1>5 DEF Applied
  <2>2. PICK id : id = r.body[1]
    OBVIOUS
  <2>3. PICK name : name = r.body[2]
    OBVIOUS
  <2>4. id \in Nat \ {0} /\ name \in Name
    BY <1>5, <2>2, <2>3 DEF ReqFits
  <2>5. PICK b : b = rows'
    OBVIOUS
  <2>6. b = [i \in DOMAIN rows |-> IF rows[i].id = id THEN [id |-> id, name |-> name] ELSE rows[i]]
    BY <2>1, <2>2, <2>3, <2>5
  <2>7. Keeps(b, nextId)
    BY <2>4, <2>6, RenameKeeps
  <2> QED
    BY <1>1, <1>2, <1>3, <1>5, <2>5, <2>7 DEF Orders
<1>6. CASE r.kind = "delete"
  <2>1. rows' = rows \/ rows' = Filter(rows, {row \in ToSet(rows) : row.id # r.body[1]})
    BY <1>6 DEF Applied
  <2>2. Keeps(rows', nextId)
    BY <2>1, SameKeeps, DeleteKeeps
  <2> QED
    BY <1>1, <1>2, <1>3, <1>6, <2>2 DEF Orders
<1>7. CASE r.kind = "add"
  <2>1. rows' = Append(rows, NewRow)
    BY <1>7 DEF Applied
  <2>2. Keeps(rows', nextId + 1)
    BY <2>1, AppendKeeps
  <2>3. nextId' = nextId + 1 /\ nextId' \in Nat /\ nextId' >= nextId
    BY <1>1, <1>3, <1>7
  <2> QED
    BY <1>2, <1>7, <2>2, <2>3 DEF Orders
<1>8. CASE r.kind \notin {"order", "edit", "delete", "add"}
  <2>1. rows' = rows
    BY <1>8 DEF Applied
  <2> QED
    BY <1>1, <1>2, <1>3, <1>8, <2>1, SameKeeps DEF Orders
<1> QED
  BY <1>4, <1>5, <1>6, <1>7, <1>8

LEMMA RearrangedFits ==
  ASSUME NEW next, NEW list, RowsFit(list, next), NEW order \in [DOMAIN list -> ToSet(list)], IsInjective(order)
  PROVE  RowsFit(order, next)
<1>1. /\ list \in Seq(ListRow) /\ \A i, j \in DOMAIN list : list[i].id = list[j].id => i = j
      /\ \A i \in DOMAIN list : list[i].id < next
  BY DEF RowsFit
<1>2. PICK n \in Nat : DOMAIN list = 1 .. n
  BY <1>1
<1>3. \A i \in 1 .. n : \E k \in 1 .. n : order[i] = list[k]
  BY <1>2 DEF ToSet
<1>4. order \in Seq(ListRow) /\ DOMAIN order = 1 .. n
  BY <1>1, <1>2, <1>3
<1>5. ASSUME NEW i \in 1 .. n, NEW j \in 1 .. n, order[i].id = order[j].id PROVE i = j
  <2>1. order[i] = order[j]
    BY <1>1, <1>2, <1>3, <1>5
  <2> QED
    BY <1>2, <2>1 DEF IsInjective
<1>6. \A i \in 1 .. n : order[i].id < next
  BY <1>1, <1>2, <1>3
<1> QED
  BY <1>4, <1>5, <1>6 DEF RowsFit

\* What the page keeps is doubted from then on.
LEMMA StoresOrderInv ==
  ASSUME SettingsInv, StoresOrder, UNCHANGED <<tab, fetched, requests, listState, app>>
  PROVE  SettingsInv'
<1>1. PICK order \in [DOMAIN rows -> ToSet(rows)] : IsInjective(order) /\ rows' = order
  BY DEF StoresOrder
<1>2. RowsFit(rows', nextId) /\ UNCHANGED <<setting, nextId>> /\ overtaken'
  BY <1>1, RearrangedFits DEF StoresOrder, SettingsInv, TablesFit
<1>3. TablesFit'
  BY <1>2 DEF SettingsInv, TablesFit, listState, ReqFits, ReqShape, DataFits
<1> QED
  BY <1>2, <1>3 DEF SettingsInv, OrdersFit, FormsFit

LEMMA SavesFormInv ==
  ASSUME SettingsInv, SavesForm, UNCHANGED <<tab, fetched, requests, listState, app>>
  PROVE  SettingsInv'
<1>1. UNCHANGED <<rows, nextId>> /\ setting' \in Value /\ overtaken'
  BY DEF SavesForm
<1>2. TablesFit'
  BY <1>1 DEF SettingsInv, TablesFit, listState, ReqFits, ReqShape, DataFits
<1> QED
  BY <1>1, <1>2 DEF SettingsInv, OrdersFit, FormsFit

LEMMA ElsewhereInv ==
  ASSUME SettingsInv, Elsewhere
  PROVE  SettingsInv'
<1>0. UNCHANGED <<tab, fetched, requests, listState, app>>
  BY DEF Elsewhere
<1>1. CASE StoresOrder \/ SavesForm
  BY <1>0, <1>1, StoresOrderInv, SavesFormInv
<1>2. CASE AddsOrDeletes
  <2>1. /\ tab \in Lists /\ Keeps(rows', nextId')
        /\ UNCHANGED <<tab, setting, fetched, requests, listState, app, overtaken>>
    BY <1>0, <1>2, AppendKeeps, TailKeeps DEF AddsOrDeletes, SettingsInv
  <2>2. nextId' \in Nat /\ nextId' >= nextId /\ nextId > 0 /\ nextId \in Nat /\ RowsFit(rows', nextId')
    BY <2>1 DEF Keeps, SettingsInv, TablesFit
  <2>3. nextId' > 0
    BY <2>2
  <2>4. TablesFit'
    BY <2>1, <2>2, <2>3, FitsLater DEF SettingsInv, TablesFit, listState
  <2>5. OrdersFit'
    <3> SUFFICES ASSUME ~overtaken
                 PROVE  /\ \A p \in pendingOrder : Agree(p, rows) => Agree(p, rows')
                        /\ OrderSettled => OrderSettled'
      BY <2>1 DEF OrdersFit, SettingsInv, Orders, listState
    <3>1. \A p \in pendingOrder : Agree(p, rows) => Agree(p, rows')
      BY <2>1 DEF Keeps, SettingsInv, TablesFit
    <3>2. \A d \in fetched.data : Agree(d, rows) => Agree(d, rows')
      BY <2>1 DEF Keeps, SettingsInv, TablesFit, DataFits
    <3>3. \A r \in requests : \A d \in r.answer : Agree(d, rows) => Agree(d, rows')
      BY <2>1 DEF Keeps, SettingsInv, TablesFit, ReqFits, DataFits
    <3> QED
      BY <2>1, <3>1, <3>2, <3>3 DEF OrderSettled, listState
  <2> QED
    BY <2>1, <2>4, <2>5, NotAForm DEF SettingsInv
<1> QED
  BY <1>1, <1>2 DEF Elsewhere

LEMMA DaemonInv ==
  ASSUME SettingsInv, OneOfEach, NEW r \in requests, DaemonHandles(r)
  PROVE  SettingsInv'
<1>1. ReqFits(r) /\ ReqShape(r) /\ TablesFit
  BY DEF SettingsInv, TablesFit, ReqFits
<1>2. PICK acc : acc = Accepts(r)
  OBVIOUS
<1>3. acc \in BOOLEAN
  BY <1>1, <1>2 DEF Accepts, checkIDSet, ReqFits, ReqShape, ReqKinds
<1>4. PICK ans : ans = IF r.kind \in {"load", "startup"} THEN {IF tab \in Lists THEN rows ELSE setting} ELSE {}
  OBVIOUS
<1>5. PICK q : q = [r EXCEPT !.handled = TRUE, !.ok = acc, !.answer = ans]
  OBVIOUS
<1>6. /\ ReqShape(q) /\ q.kind = r.kind /\ q.body = r.body /\ q.live = r.live
      /\ q.handled /\ q.ok = acc /\ q.answer = ans
  <2>1. /\ q.kind = r.kind /\ q.body = r.body /\ q.live = r.live
        /\ q.handled = TRUE /\ q.ok = acc /\ q.answer = ans
    BY <1>1, <1>5 DEF ReqShape
  <2> QED
    BY <1>1, <1>3, <1>5, <2>1 DEF ReqShape
<1>7. /\ ~r.handled /\ Applied(r) /\ requests' = (requests \ {r}) \cup {q}
      /\ UNCHANGED <<tab, fetched, listState, formState, busyState, app, clicks>>
      /\ overtaken' => overtaken
      /\ ~overtaken' => ~overtaken \/ CatchesUp(r)
  BY <1>2, <1>4, <1>5 DEF DaemonHandles
<1>8. /\ nextId' \in Nat /\ nextId' >= nextId /\ setting' \in Value
      /\ IF Orders(r) /\ checkIDSet(r.body)
         THEN /\ nextId' = nextId /\ RowsFit(rows', nextId)
              /\ \A p : RowsFit(p, nextId) /\ r.body = ids(p) => Agree(p, rows')
         ELSE Keeps(rows', nextId')
      /\ ~(r.kind = "save") => setting' = setting
      /\ r.kind = "load" => rows' = rows
  BY <1>1, <1>7, AppliedRows
<1>9. RowsFit(rows', nextId') /\ nextId' > 0
  BY <1>1, <1>8 DEF Keeps, TablesFit
<1>10. DataFits(ans)
  <2>1. CASE r.kind \in {"load", "startup"}
    BY <1>1, <1>4, <2>1 DEF DataFits, TablesFit
  <2>2. CASE r.kind \notin {"load", "startup"}
    BY <1>4, <2>2, NothingFits
  <2> QED
    BY <2>1, <2>2
<1>11. ReqFits(q)
  BY <1>1, <1>6, <1>10 DEF ReqFits
<1>12. TablesFit'
  <2>1. \A s \in requests' : ReqFits(s)'
    BY <1>1, <1>7, <1>8, <1>11, FitsLater DEF TablesFit
  <2>2. DataFits(fetched.data)'
    BY <1>1, <1>7, <1>8, FitsLater DEF TablesFit
  <2>3. \A p \in pendingOrder' : RowsFit(p, nextId')
    BY <1>1, <1>7, <1>8, FitsLater DEF TablesFit, listState
  <2> QED
    BY <1>1, <1>7, <1>8, <1>9, <2>1, <2>2, <2>3 DEF TablesFit, listState
<1>13. ASSUME ~overtaken PROVE OrdersFit'
  <2> SUFFICES ASSUME tab \in Lists
               PROVE  /\ \A s, u \in requests' : Orders(s) /\ Orders(u) => s = u
                      /\ \A s \in requests' : Orders(s) =>
                           s.live /\ \E p \in pendingOrder : s.body = ids(p) /\ (s.ok => Agree(p, rows'))
                      /\ (\A s \in requests' : ~Orders(s)) => OrderSettled'
    BY <1>7 DEF OrdersFit, Orders, listState, SettingsInv, OneOfEach
  <2>0. /\ \A s, u \in requests : Orders(s) /\ Orders(u) => s = u
        /\ \A s \in requests : Orders(s) =>
             s.live /\ \E p \in pendingOrder : s.body = ids(p) /\ (s.ok => Agree(p, rows))
        /\ (\A s \in requests : ~Orders(s)) => OrderSettled
        /\ \A p \in pendingOrder : RowsFit(p, nextId)
    BY <1>13 DEF OrdersFit, SettingsInv, TablesFit
  <2>1. CASE Orders(r)
    <3>1. Orders(q) /\ \A s \in requests' : Orders(s) => s = q
      BY <1>6, <1>7, <2>0, <2>1 DEF Orders
    <3>2. PICK p \in pendingOrder : r.body = ids(p)
      BY <2>0, <2>1
    <3>3. q.ok => Agree(p, rows')
      BY <1>2, <1>6, <1>8, <2>0, <2>1, <3>2 DEF Accepts, Orders
    <3> QED
      BY <1>6, <1>7, <2>0, <2>1, <3>1, <3>2, <3>3
  <2>2. CASE ~Orders(r)
    <3>1. Keeps(rows', nextId') /\ ~Orders(q)
      BY <1>6, <1>8, <2>2 DEF Orders
    <3>2. \A s \in requests' : Orders(s) => s \in requests
      BY <1>7, <3>1
    <3>3. \A s \in requests' : Orders(s) =>
            s.live /\ \E p \in pendingOrder : s.body = ids(p) /\ (s.ok => Agree(p, rows'))
      BY <2>0, <3>1, <3>2 DEF Keeps
    <3>4. ASSUME \A s \in requests' : ~Orders(s) PROVE OrderSettled'
      <4>1. OrderSettled
        BY <1>7, <2>0, <2>2, <3>4
      <4>2. ~fetched.loading => \A d \in fetched.data : Agree(d, rows')
        BY <1>1, <3>1, <4>1 DEF OrderSettled, Keeps, TablesFit, DataFits
      <4>3. \A p \in pendingOrder : Agree(p, rows')
        BY <2>0, <3>1, <4>1 DEF OrderSettled, Keeps
      <4>4. ASSUME NEW s \in requests', s.kind = "load", s.live, NEW d \in s.answer PROVE Agree(d, rows')
        <5>1. CASE s = q
          <6>1. d = rows /\ rows' = rows
            BY <1>4, <1>6, <1>8, <4>4, <5>1
          <6> QED
            BY <1>1, <6>1, AgreesItself DEF TablesFit
        <5>2. CASE s \in requests
          BY <1>1, <3>1, <4>1, <4>4, <5>2 DEF OrderSettled, Keeps, TablesFit, ReqFits, DataFits
        <5> QED
          BY <1>7, <5>1, <5>2
      <4> QED
        BY <1>7, <4>2, <4>3, <4>4 DEF OrderSettled, listState
    <3> QED
      BY <2>0, <3>2, <3>3, <3>4
  <2> QED
    BY <2>1, <2>2
<1>14. ASSUME ~overtaken PROVE FormsFit'
  <2> SUFFICES ASSUME tab \in Forms \ {"daemon"}
               PROVE  /\ \A s, u \in requests' : Tells(s) /\ Tells(u) => s = u
                      /\ (\A s \in requests' : ~Tells(s)) => app = setting'
                      /\ \A s \in requests' : s.kind = "save" =>
                           IF s.handled THEN s.ok /\ setting' = s.body[1] ELSE app = setting'
                      /\ \A s \in requests' : s.kind = "startup" /\ s.handled => s.ok /\ s.answer = {setting'}
    BY <1>7 DEF FormsFit, Tells
  <2>0. /\ \A s, u \in requests : Tells(s) /\ Tells(u) => s = u
        /\ (\A s \in requests : ~Tells(s)) => app = setting
        /\ \A s \in requests : s.kind = "save" =>
             IF s.handled THEN s.ok /\ setting = s.body[1] ELSE app = setting
        /\ \A s \in requests : s.kind = "startup" /\ s.handled => s.ok /\ s.answer = {setting}
    BY <1>14 DEF FormsFit, SettingsInv
  <2>1. CASE Tells(r)
    <3>1. Tells(q) /\ \A s \in requests' : Tells(s) => s = q
      BY <1>6, <1>7, <2>0, <2>1 DEF Tells
    <3>2. q.kind = "save" => q.ok /\ setting' = q.body[1]
      BY <1>2, <1>6, <1>7 DEF Accepts, Applied
    <3>3. q.kind = "startup" => q.ok /\ q.answer = {setting'}
      <4>1. tab \notin Lists
        BY DEF Lists, Forms
      <4> QED
        BY <1>2, <1>4, <1>6, <1>8, <4>1 DEF Accepts
    <3> QED
      BY <1>6, <1>7, <3>1, <3>2, <3>3 DEF Tells
  <2>2. CASE ~Tells(r)
    <3>1. setting' = setting /\ ~Tells(q) /\ \A s \in requests : Tells(s) => s \in requests'
      BY <1>6, <1>7, <1>8, <2>2 DEF Tells
    <3> QED
      BY <1>7, <2>0, <3>1 DEF Tells
  <2> QED
    BY <2>1, <2>2
<1>15. ASSUME CatchesUp(r) PROVE OrdersFit'
  <2> SUFFICES ASSUME tab \in Lists
               PROVE  /\ \A p, s \in pendingOrder : p = s
                      /\ \A s, u \in requests' : Orders(s) /\ Orders(u) => s = u
                      /\ \A s \in requests' : Orders(s) =>
                           s.live /\ \E p \in pendingOrder : s.body = ids(p) /\ (s.ok => Agree(p, rows'))
                      /\ (\A s \in requests' : ~Orders(s)) => OrderSettled'
    BY <1>7 DEF OrdersFit, Orders, listState
  <2>1. tab \notin Forms
    BY DEF Lists, Forms
  <2>2. CASE Orders(r)
    <3>1. r.live /\ acc /\ \A s \in requests : Orders(s) => s = r
      BY <1>2, <1>15, <2>1, <2>2 DEF CatchesUp, Alone, Orders
    <3>2. PICK p \in pendingOrder : r.body = ids(p)
      BY <1>15, <2>1, <2>2 DEF CatchesUp, Alone, Orders
    <3>3. RowsFit(p, nextId) /\ checkIDSet(r.body)
      BY <1>1, <1>2, <2>2, <3>1 DEF TablesFit, Accepts, Orders
    <3>4. Agree(p, rows')
      BY <1>8, <2>2, <3>2, <3>3
    <3>5. Orders(q) /\ \A s \in requests' : Orders(s) => s = q
      BY <1>6, <1>7, <2>2, <3>1 DEF Orders
    <3> QED
      BY <1>6, <1>7, <3>1, <3>2, <3>4, <3>5 DEF OneOfEach
  <2>3. CASE ~Orders(r)
    <3>1. r.kind = "load" /\ r.live /\ pendingOrder = {} /\ \A s \in requests : ~Orders(s)
      BY <1>15, <2>1, <2>3 DEF CatchesUp, Alone, Orders
    <3>2. \A s \in requests' : ~Orders(s)
      BY <1>6, <1>7, <2>3, <3>1 DEF Orders
    <3>3. q.answer = {rows} /\ rows' = rows /\ fetched.loading
      BY <1>4, <1>6, <1>8, <3>1 DEF OneOfEach, LoadsList
    <3>4. \A s \in requests' : s.kind = "load" /\ s.live => s = q
      BY <1>7, <3>1 DEF OneOfEach, LoadsList
    <3>5. Agree(rows, rows)
      BY <1>1, AgreesItself DEF TablesFit
    <3> QED
      BY <1>7, <3>1, <3>2, <3>3, <3>4, <3>5 DEF OrderSettled, listState
  <2> QED
    BY <2>2, <2>3
<1>16. ASSUME CatchesUp(r) PROVE FormsFit'
  <2> SUFFICES ASSUME tab \in Forms \ {"daemon"}
               PROVE  /\ \A s \in requests' : Tells(s) => s = q
                      /\ Tells(q) /\ q.handled /\ q.ok
                      /\ q.kind = "save" => setting' = q.body[1]
                      /\ q.kind = "startup" => q.answer = {setting'}
    BY <1>7 DEF FormsFit, Tells
  <2>1. tab \notin Lists
    BY DEF Lists, Forms
  <2>2. Tells(r) /\ acc /\ \A s \in requests : Tells(s) => s = r
    BY <1>2, <1>16, <2>1 DEF CatchesUp, Alone, Tells
  <2>3. Tells(q) /\ \A s \in requests' : Tells(s) => s = q
    BY <1>6, <1>7, <2>2 DEF Tells
  <2>4. q.kind = "save" => setting' = q.body[1]
    BY <1>2, <1>6, <1>7, <2>2 DEF Accepts, Applied
  <2>5. q.kind = "startup" => q.answer = {setting'}
    BY <1>4, <1>6, <1>8, <2>1
  <2> QED
    BY <1>6, <2>2, <2>3, <2>4, <2>5
<1> QED
  BY <1>7, <1>12, <1>13, <1>14, <1>15, <1>16 DEF SettingsInv, OrdersFit, FormsFit

----------------------------------------------------------------------------

\* An answer lands that is neither an order's nor one App depends on.
LEMMA LandsStay ==
  ASSUME SettingsInv, NEW r \in requests, UNCHANGED <<tab, daemon, pendingOrder, app, overtaken>>, Shows,
         fetched' \in [data : {fetched'.data}, error : BOOLEAN, loading : BOOLEAN],
         DataFits(fetched'.data), edit' \subseteq ListRow,
         ~Tells(r), Orders(r) => overtaken,
         \A q \in requests' : \/ NewReq(q) /\ ~Orders(q) /\ ~Tells(q)
                              \/ \E s \in Rest(r) : Heir(q, s) /\ (s.kind # "load" => q = s),
         \A s \in Rest(r) : s.kind # "load" => s \in requests'
  PROVE  SettingsInv'
<1>1. Rest(r) \subseteq requests /\ \A s \in requests : s = r \/ s \in Rest(r)
  BY DEF Rest
<1>2. TablesFit'
  BY <1>1, TablesStay DEF SettingsInv, TablesFit, Heirs
<1>3. OrdersFit'
  <2>1. CASE overtaken
    BY <2>1 DEF OrdersFit
  <2>2. CASE ~overtaken
    <3>1. \A q \in requests' : \/ NewReq(q) /\ ~Orders(q)
                               \/ \E s \in requests : Heir(q, s) /\ (Orders(s) => q = s)
      BY <1>1 DEF Orders
    <3>2. \A s \in requests : Orders(s) => s \in requests'
      BY <1>1, <2>2 DEF Orders
    <3> QED
      BY <3>1, <3>2, OrdersStay DEF SettingsInv
  <2> QED
    BY <2>1, <2>2
<1>4. FormsFit'
  <2>1. \A q \in requests' : Tells(q) => q \in requests
    BY <1>1 DEF Tells, Heir
  <2>2. \A s \in requests : Tells(s) => s \in requests'
    BY <1>1 DEF Tells
  <2> QED
    BY <2>1, <2>2, FormsStay DEF SettingsInv
<1> QED
  BY <1>2, <1>3, <1>4 DEF SettingsInv

\* The requests that are left, and those of a reload.
LEMMA RestHeirs ==
  ASSUME SettingsInv, NEW r \in requests
  PROVE  /\ \A q \in Rest(r) : ReqFits(q) /\ Heir(q, q)
         /\ \A q \in Loading(Rest(r)) : \/ NewReq(q) /\ ~Orders(q) /\ ~Tells(q) /\ q.kind = "load"
                                        \/ \E s \in Rest(r) : Heir(q, s) /\ (s.kind # "load" => q = s) /\ (q.kind = "load" => ~q.live)
         /\ \A s \in Rest(r) : s.kind # "load" => s \in Loading(Rest(r))
<1>1. \A q \in Rest(r) : ReqFits(q)
  BY DEF Rest, SettingsInv, TablesFit
<1>2. /\ \A q \in Loading(Rest(r)) : \/ NewReq(q) /\ q.kind = "load"
                                     \/ \E s \in Rest(r) : Heir(q, s) /\ (s.kind # "load" => q = s) /\ (q.kind = "load" => ~q.live)
      /\ \A s \in Rest(r) : s.kind # "load" => s \in Loading(Rest(r))
  BY <1>1, LoadingHeirs
<1> QED
  BY <1>1, <1>2, HeirItself DEF Orders, Tells

\* An answer after which the list is loaded again, or one that changes nothing else.
LEMMA ReloadInv ==
  ASSUME SettingsInv, NEW r \in requests, UNCHANGED <<tab, daemon, pendingOrder, app, overtaken>>,
         edit' \subseteq ListRow, ~Tells(r), Orders(r) => overtaken,
         Reload(r) \/ (requests' = Rest(r) /\ UNCHANGED fetched)
  PROVE  SettingsInv'
<1>1. TablesFit
  BY DEF SettingsInv
<1>2. /\ fetched' \in [data : {fetched'.data}, error : BOOLEAN, loading : BOOLEAN]
      /\ DataFits(fetched'.data) /\ Shows
  BY <1>1, ReloadingIs DEF Reload, TablesFit, Shows
<1>3. \A q \in requests' : \/ NewReq(q) /\ ~Orders(q) /\ ~Tells(q)
                           \/ \E s \in Rest(r) : Heir(q, s) /\ (s.kind # "load" => q = s)
  BY RestHeirs DEF Reload
<1>4. \A s \in Rest(r) : s.kind # "load" => s \in requests'
  BY RestHeirs DEF Reload
<1> QED
  BY <1>2, <1>3, <1>4, LandsStay

LEMMA LoadedInv ==
  ASSUME SettingsInv, NEW r \in requests, NEW ok \in BOOLEAN, Loaded(r, ok), UNCHANGED <<tab, daemon>>
  PROVE  SettingsInv'
<1>1. /\ r.kind = "load" /\ requests' = Rest(r) /\ UNCHANGED <<listState, app, overtaken>>
      /\ fetched' = IF ~r.live THEN fetched ELSE [data |-> IF ok THEN r.answer ELSE {}, error |-> ~ok, loading |-> FALSE]
  BY DEF Loaded
<1>2. PICK D : D = IF ok THEN r.answer ELSE {}
  OBVIOUS
<1>3. DataFits(D) /\ D \subseteq r.answer
  BY <1>2, NothingFits DEF SettingsInv, TablesFit, ReqFits
<1>4. /\ fetched' \in [data : {fetched'.data}, error : BOOLEAN, loading : BOOLEAN]
      /\ DataFits(fetched'.data) /\ Shows
  <2>1. CASE ~r.live
    BY <1>1, <2>1 DEF SettingsInv, TablesFit, Shows
  <2>2. CASE r.live
    <3>1. fetched' = [data |-> D, error |-> ~ok, loading |-> FALSE]
      BY <1>1, <1>2, <2>2
    <3>2. fetched'.data = D /\ fetched' \in [data : {D}, error : BOOLEAN, loading : BOOLEAN]
      BY <3>1
    <3> QED
      BY <1>1, <1>3, <2>2, <3>2 DEF Shows
  <2> QED
    BY <2>1, <2>2
<1>5. ~Tells(r) /\ ~Orders(r)
  BY <1>1 DEF Tells, Orders
<1>6. edit' \subseteq ListRow /\ pendingOrder' = pendingOrder
  BY <1>1 DEF listState, SettingsInv, TablesFit
<1> QED
  BY <1>1, <1>4, <1>5, <1>6, RestHeirs, LandsStay

LEMMA OrderSavedInv ==
  ASSUME SettingsInv, NEW r \in requests, NEW ok \in {FALSE} \cup {r.handled /\ r.ok}, OrderSaved(r, ok), UNCHANGED <<tab, daemon>>
  PROVE  SettingsInv'
<1>1. /\ Orders(r) /\ Reload(r) /\ UNCHANGED <<edit, app, overtaken>>
      /\ pendingOrder' = (IF ok THEN pendingOrder ELSE {})
  BY DEF OrderSaved
<1>2. TablesFit /\ requests' = Loading(Rest(r)) /\ fetched' = Reloading
  BY <1>1 DEF SettingsInv, Reload
<1>3. fetched' \in [data : {fetched'.data}, error : BOOLEAN, loading : BOOLEAN] /\ DataFits(fetched'.data) /\ fetched'.loading = TRUE
  BY <1>2, ReloadingIs DEF TablesFit
<1>4. \A q \in requests' : \/ NewReq(q) /\ ~Orders(q) /\ ~Tells(q) /\ q.kind = "load"
                           \/ \E s \in Rest(r) : Heir(q, s) /\ (s.kind # "load" => q = s) /\ (q.kind = "load" => ~q.live)
  BY <1>2, RestHeirs
<1>5. TablesFit'
  BY <1>1, <1>2, <1>3, <1>4, TablesStay DEF TablesFit, Heirs, Rest
<1>6. FormsFit'
  <2>1. \A q \in requests' : Tells(q) => q \in requests
    BY <1>4 DEF Tells, Heir, Rest
  <2>2. \A s \in requests : Tells(s) => s \in requests'
    BY <1>1, <1>2, RestHeirs DEF Tells, Orders, Rest
  <2> QED
    BY <1>1, <2>1, <2>2, FormsStay DEF SettingsInv
<1>7. OrdersFit'
  <2> SUFFICES ASSUME tab \in Lists, ~overtaken
               PROVE  /\ \A p, q \in pendingOrder' : p = q
                      /\ \A q \in requests' : ~Orders(q)
                      /\ OrderSettled'
    BY <1>1 DEF OrdersFit, Orders
  <2>1. /\ \A p, q \in pendingOrder : p = q
        /\ \A q \in Rest(r) : ~Orders(q)
        /\ r.ok => \A p \in pendingOrder : Agree(p, rows)
    BY <1>1 DEF OrdersFit, SettingsInv, Rest
  <2>2. \A q \in requests' : ~Orders(q)
    BY <1>4, <2>1 DEF Heir, Orders
  <2>3. \A q \in requests' : q.kind = "load" /\ q.live => q.answer = {}
    BY <1>4 DEF NewReq, ReqFits
  <2>4. ok => r.ok
    OBVIOUS
  <2>5. \A p \in pendingOrder' : Agree(p, rows)
    BY <1>1, <2>1, <2>4
  <2>6. OrderSettled'
    BY <1>3, <2>3, <2>5 DEF OrderSettled, daemon
  <2> QED
    BY <1>1, <2>1, <2>2, <2>6
<1> QED
  BY <1>5, <1>6, <1>7 DEF SettingsInv

LEMMA PasskeyBegunInv ==
  ASSUME SettingsInv, NEW r \in requests, NEW ok \in BOOLEAN, PasskeyBegun(r, ok), UNCHANGED <<tab, daemon>>
  PROVE  SettingsInv'
<1>1. PICK p : p = Request("add", r.body)
  OBVIOUS
<1>2. PICK q : q = [p EXCEPT !.live = r.live]
  OBVIOUS
<1>3. /\ r.kind = "begin" /\ UNCHANGED <<fetched, listState, app, overtaken>>
      /\ requests' = Rest(r) \/ requests' = Rest(r) \cup {q}
  BY <1>1, <1>2 DEF PasskeyBegun
<1>4. p.kind = "add" /\ ReqShape(p) /\ ~p.handled /\ ~p.ok /\ p.answer = {}
  <2>1. PICK kind : kind = "add"
    OBVIOUS
  <2>2. PICK body : body = r.body
    OBVIOUS
  <2>3. kind \in ReqKinds /\ p = Request(kind, body)
    BY <1>1, <2>1, <2>2 DEF ReqKinds
  <2> QED
    BY <2>1, <2>3, ReqIs
<1>5. r.live \in BOOLEAN
  BY DEF SettingsInv, TablesFit, ReqFits, ReqShape
<1>6. q.kind = "add" /\ ReqShape(q) /\ ~q.handled /\ ~q.ok /\ q.answer = {}
  BY <1>2, <1>4, <1>5 DEF ReqShape
<1>7. NewReq(q) /\ ~Orders(q) /\ ~Tells(q)
  BY <1>6, NothingFits DEF NewReq, ReqFits, Orders, Tells
<1>8. ~Tells(r) /\ ~Orders(r)
  BY <1>3 DEF Tells, Orders
<1>9. /\ edit' \subseteq ListRow /\ pendingOrder' = pendingOrder /\ Shows
      /\ fetched' \in [data : {fetched'.data}, error : BOOLEAN, loading : BOOLEAN] /\ DataFits(fetched'.data)
  BY <1>3 DEF listState, SettingsInv, TablesFit, Shows
<1>10. /\ \A s \in requests' : \/ NewReq(s) /\ ~Orders(s) /\ ~Tells(s)
                               \/ \E u \in Rest(r) : Heir(s, u) /\ (u.kind # "load" => s = u)
       /\ \A s \in Rest(r) : s.kind # "load" => s \in requests'
  BY <1>3, <1>7, RestHeirs
<1> QED
  BY <1>3, <1>8, <1>9, <1>10, LandsStay

\* The answers App's copy depends on.
LEMMA TellsInv ==
  ASSUME SettingsInv, NEW r \in requests, NEW ok \in {FALSE} \cup {r.handled /\ r.ok},
         Saved(r, ok) \/ StartupLands(r, ok), UNCHANGED <<tab, daemon>>
  PROVE  SettingsInv'
<1>1. /\ Tells(r) /\ UNCHANGED listState
      /\ Reload(r) \/ (requests' = Rest(r) /\ UNCHANGED fetched)
  BY DEF Saved, StartupLands, DropRequest, Tells, listState, Reload, Rest
<1>2. TablesFit /\ tab \in Forms
  BY <1>1 DEF SettingsInv, TablesFit, ReqFits, Tells
<1>3. fetched' \in [data : {fetched'.data}, error : BOOLEAN, loading : BOOLEAN] /\ DataFits(fetched'.data)
  BY <1>1, <1>2, ReloadingIs DEF TablesFit, Reload
<1>4. /\ \A q \in requests' : \/ NewReq(q) /\ ~Tells(q)
                              \/ \E s \in Rest(r) : Heir(q, s) /\ (s.kind # "load" => q = s)
      /\ \A s \in Rest(r) : s.kind # "load" => s \in requests'
  BY <1>1, RestHeirs DEF Reload
<1>5. TablesFit'
  BY <1>1, <1>2, <1>3, <1>4, TablesStay DEF TablesFit, Heirs, Rest, listState
<1>6. FormsFit'
  <2> SUFFICES ASSUME tab \in Forms \ {"daemon"}, ~overtaken'
               PROVE  (\A q \in requests' : ~Tells(q)) /\ app' = setting
    BY DEF FormsFit, Tells, daemon
  <2>1. ~overtaken
    BY DEF Saved, StartupLands
  <2>2. /\ \A s, u \in requests : Tells(s) /\ Tells(u) => s = u
        /\ r.kind = "save" => IF r.handled THEN r.ok /\ setting = r.body[1] ELSE app = setting
        /\ r.kind = "startup" /\ r.handled => r.ok /\ r.answer = {setting}
    BY <2>1 DEF FormsFit, SettingsInv
  <2>3. \A q \in Rest(r) : ~Tells(q)
    BY <1>1, <2>2 DEF Rest
  <2>4. \A q \in requests' : ~Tells(q)
    BY <1>4, <2>3 DEF Heir, Tells
  <2>5. ok => r.handled /\ r.ok
    OBVIOUS
  <2>6. ReqFits(r)
    BY <1>2 DEF TablesFit
  <2>7. CASE Saved(r, ok)
    <3>1. r.kind = "save" /\ app' = (IF ok /\ tab # "daemon" THEN r.body[1] ELSE app) /\ (~ok => ~r.ok)
      BY <2>7 DEF Saved
    <3>2. ok => app' = setting
      <4>1. SUFFICES ASSUME ok PROVE app' = setting
        OBVIOUS
      <4>2. r.handled
        BY <2>5, <4>1
      <4>3. setting = r.body[1]
        BY <2>2, <3>1, <4>2
      <4> QED
        BY <3>1, <4>1, <4>3
    <3>3. ~ok => app' = setting
      <4>1. SUFFICES ASSUME ~ok PROVE app' = setting
        OBVIOUS
      <4>2. ~r.handled
        BY <2>2, <3>1, <4>1
      <4>3. app = setting
        BY <2>2, <3>1, <4>2
      <4> QED
        BY <3>1, <4>1, <4>3
    <3> QED
      BY <2>4, <3>2, <3>3
  <2>8. CASE StartupLands(r, ok)
    <3>1. r.kind = "startup" /\ ok /\ app' = CHOOSE v \in r.answer : TRUE
      BY <2>8 DEF StartupLands
    <3>2. r.answer = {setting}
      BY <2>2, <2>5, <3>1
    <3> QED
      BY <2>4, <3>1, <3>2
  <2> QED
    BY <2>7, <2>8
<1> QED
  BY <1>2, <1>5, <1>6, NotAList DEF SettingsInv

----------------------------------------------------------------------------
(* Every by of the page, of the daemon and of another page. *)

LEMMA ListSteps ==
  ASSUME SettingsInv, NEW i \in DOMAIN ordered,
         \/ DragStart(i) \/ DropRow(i) \/ ArrowKey(i, 1) \/ ArrowKey(i, -1)
         \/ Delete(i) \/ StartEdit(i)
  PROVE  SettingsInv'
<1>1. tab \in Lists /\ UNCHANGED <<tab, daemon, fetched, app>>
  BY DEF DragStart, DropRow, ArrowKey, Delete, StartEdit, HandlesShown, OnList
<1>2. RowsFit(ordered, nextId) /\ edit \subseteq ListRow
  BY <1>1, OrderedFits DEF SettingsInv, TablesFit
<1>3. i \in Int /\ ordered[i] \in ListRow
  BY <1>2 DEF RowsFit
<1>4. ASSUME NEW from \in Int, NEW to \in Int, move(from, to), UNCHANGED edit
      PROVE  SettingsInv'
  <2>1. CASE from # to /\ {from, to} \subseteq DOMAIN ordered
    <3>1. PICK next : next = moved(ordered, from, to)
      OBVIOUS
    <3>2. save(next)
      BY <1>4, <2>1, <3>1 DEF move
    <3>3. from \in DOMAIN ordered /\ to \in DOMAIN ordered /\ from # to /\ nextId \in Nat
      BY <2>1 DEF SettingsInv, TablesFit
    <3>4. RowsFit(next, nextId)
      BY <1>2, <3>1, <3>3, MovedFitsRows
    <3> QED
      BY <1>1, <1>2, <1>4, <3>2, <3>4, SaveOrderInv
  <2>2. CASE ~(from # to /\ {from, to} \subseteq DOMAIN ordered)
    <3>1. UNCHANGED <<requests, pendingOrder, overtaken>>
      BY <1>4, <2>2 DEF move
    <3> QED
      BY <1>1, <1>2, <1>4, <3>1, QuietInv
  <2> QED
    BY <2>1, <2>2
<1>5. CASE DragStart(i) \/ StartEdit(i)
  <2>1. UNCHANGED <<requests, pendingOrder, overtaken>> /\ edit' \subseteq ListRow
    BY <1>2, <1>3, <1>5 DEF DragStart, StartEdit
  <2> QED
    BY <1>1, <2>1, QuietInv
<1>6. CASE DropRow(i)
  <2>1. dragIndex \in Int \/ dragIndex \notin DOMAIN ordered
    BY <1>2 DEF RowsFit
  <2>2. move(dragIndex, i) /\ UNCHANGED edit
    BY <1>6 DEF DropRow
  <2>3. CASE dragIndex \in Int
    <3>1. PICK from \in Int : from = dragIndex
      BY <2>3
    <3> QED
      BY <1>3, <1>4, <2>2, <3>1
  <2>4. CASE dragIndex \notin DOMAIN ordered
    <3>1. UNCHANGED <<requests, pendingOrder, overtaken>>
      BY <2>2, <2>4 DEF move
    <3> QED
      BY <1>1, <1>2, <2>2, <3>1, QuietInv
  <2> QED
    BY <2>1, <2>3, <2>4
<1>7. ASSUME NEW by \in {1, -1}, ArrowKey(i, by) PROVE SettingsInv'
  <2>1. PICK to \in Int : to = i + by
    BY <1>3
  <2>2. move(i, to) /\ UNCHANGED edit
    BY <1>7, <2>1 DEF ArrowKey
  <2> QED
    BY <1>3, <1>4, <2>2
<1>8. CASE Delete(i)
  <2>1. PICK b : b = <<ordered[i].id>>
    OBVIOUS
  <2>2. PICK q : q = Request("delete", b)
    OBVIOUS
  <2>3. Sends(q) /\ UNCHANGED <<listState, overtaken>>
    BY <1>8, <2>1, <2>2 DEF Delete
  <2>4. PICK kind : kind = "delete"
    OBVIOUS
  <2>5. kind \in ReqKinds /\ q = Request(kind, b)
    BY <2>2, <2>4 DEF ReqKinds
  <2>6. ReqShape(q) /\ q.kind = kind /\ ~q.handled /\ ~q.ok /\ q.answer = {}
    BY <2>5, ReqIs
  <2>7. NewReq(q) /\ ~Orders(q)
    BY <2>4, <2>6, NothingFits DEF NewReq, ReqFits, Orders
  <2> QED
    BY <1>1, <1>2, <2>3, <2>7, SendsInv DEF listState
<1> QED
  BY <1>5, <1>6, <1>7, <1>8

LEMMA UserSteps ==
  ASSUME SettingsInv, field \in Value,
         \/ DragEnd \/ Add \/ TypeEdit \/ CancelEdit \/ SaveEdit
         \/ \E v \in Value : TypeField(v)
         \/ \E confirm \in BOOLEAN : Save(confirm)
         \/ CancelConfirm
  PROVE  SettingsInv'
<1>1. edit \subseteq ListRow
  BY DEF SettingsInv, TablesFit
<1>2. CASE DragEnd \/ TypeEdit \/ CancelEdit
  <2>1. UNCHANGED <<tab, daemon, fetched, requests, pendingOrder, app, overtaken>>
    BY <1>2 DEF DragEnd, TypeEdit, CancelEdit, HandlesShown, OnList
  <2>2. ASSUME NEW e \in edit PROVE [e EXCEPT !.name = 1 - @] \in ListRow
    BY <1>1 DEF ListRow, Name
  <2>3. edit' \subseteq ListRow
    BY <1>1, <1>2, <2>2 DEF DragEnd, TypeEdit, CancelEdit
  <2> QED
    BY <2>1, <2>3, QuietInv
<1>3. CASE Add
  <2>1. PICK kind \in {"begin", "add"} : Sends(Request(kind, <<clicks>>))
    BY <1>3 DEF Add
  <2>2. PICK b : b = <<clicks>>
    OBVIOUS
  <2>3. PICK q : q = Request(kind, b)
    OBVIOUS
  <2>4. kind \in ReqKinds
    BY DEF ReqKinds
  <2>5. ReqShape(q) /\ q.kind = kind /\ ~q.handled /\ ~q.ok /\ q.answer = {}
    BY <2>3, <2>4, ReqIs
  <2>6. NewReq(q) /\ ~Orders(q)
    BY <2>5, NothingFits DEF NewReq, ReqFits, Orders
  <2>7. Sends(q) /\ tab \in Lists /\ UNCHANGED <<tab, daemon, fetched, app, listState, overtaken>>
    BY <1>3, <2>1, <2>2, <2>3 DEF Add, OnList
  <2> QED
    BY <1>1, <2>6, <2>7, SendsInv DEF listState
<1>4. CASE SaveEdit
  <2>1. PICK e \in edit : Sends(Request("edit", <<e.id, e.name>>))
    BY <1>4 DEF SaveEdit
  <2>2. PICK b : b = <<e.id, e.name>>
    OBVIOUS
  <2>3. PICK q : q = Request("edit", b)
    OBVIOUS
  <2>4. PICK kind : kind = "edit"
    OBVIOUS
  <2>5. kind \in ReqKinds /\ q = Request(kind, b)
    BY <2>3, <2>4 DEF ReqKinds
  <2>6. ReqShape(q) /\ q.kind = kind /\ q.body = b /\ ~q.handled /\ ~q.ok /\ q.answer = {}
    BY <2>5, ReqIs
  <2>7. b[1] \in Nat \ {0} /\ b[2] \in Name
    <3>1. e \in ListRow
      BY <1>1
    <3> QED
      BY <2>2, <3>1 DEF ListRow
  <2>8. NewReq(q) /\ ~Orders(q)
    BY <2>4, <2>6, <2>7, NothingFits DEF NewReq, ReqFits, Orders
  <2>9. Sends(q) /\ tab \in Lists /\ UNCHANGED <<tab, daemon, fetched, app, listState, overtaken>>
    BY <1>4, <2>1, <2>2, <2>3 DEF SaveEdit, OnList
  <2> QED
    BY <1>1, <2>8, <2>9, SendsInv DEF listState
<1>5. CASE (\E v \in Value : TypeField(v)) \/ CancelConfirm
  <2>1. UNCHANGED <<tab, daemon, fetched, requests, listState, app, overtaken>>
    BY <1>5 DEF TypeField, CancelConfirm, OnForm
  <2> QED
    BY <1>1, <2>1, QuietInv DEF listState
<1>6. CASE \E confirm \in BOOLEAN : Save(confirm)
  <2>1. PICK confirm \in BOOLEAN : Save(confirm)
    BY <1>6
  <2>2. tab \in Forms
    BY <2>1 DEF Save, OnForm
  <2> QED
    BY <2>1, <2>2, SaveFormInv
<1> QED
  BY <1>2, <1>3, <1>4, <1>5, <1>6

LEMMA LandsInv ==
  ASSUME SettingsInv, NEW r \in requests, RequestLands(r)
  PROVE  SettingsInv'
<1>1. UNCHANGED <<tab, daemon>>
  BY DEF RequestLands
<1>2. ReqShape(r) /\ edit \subseteq ListRow
  BY DEF SettingsInv, TablesFit, ReqFits
<1>3. r.handled \in BOOLEAN /\ r.ok \in BOOLEAN
  BY <1>2 DEF ReqShape
<1>4. ASSUME NEW ok \in {FALSE} \cup {r.handled /\ r.ok},
             Changed(r, ok) \/ Added(r, ok)
      PROVE  SettingsInv'
  <2>1. ~Tells(r) /\ ~Orders(r)
    BY <1>4 DEF Changed, Added, Tells, Orders
  <2>2. Reload(r) \/ (requests' = Rest(r) /\ UNCHANGED fetched)
    BY <1>4 DEF Changed, Added, DropRequest
  <2>3. UNCHANGED <<pendingOrder, app, overtaken>> /\ edit' \subseteq ListRow
    BY <1>2, <1>4 DEF Changed, Added, DropRequest, listState
  <2> QED
    BY <1>1, <2>1, <2>2, <2>3, ReloadInv
<1>5. CASE GoneLands(r)
  <2>1. ~Tells(r) /\ requests' = Rest(r) /\ UNCHANGED <<fetched, listState, app, overtaken>> /\ ~r.live
    BY <1>5 DEF GoneLands, DropRequest, Tells
  <2>2. CASE tab \in Lists
    <3>1. Orders(r) => overtaken
      BY <2>1, <2>2 DEF SettingsInv, OrdersFit
    <3> QED
      BY <1>1, <1>2, <2>1, <3>1, ReloadInv DEF listState
  <2>3. CASE tab \in Forms
    <3>1. TablesFit'
      BY <1>1, <1>2, <2>1, RestHeirs, TablesStay DEF SettingsInv, TablesFit, Heirs, Rest, listState
    <3>2. FormsFit'
      BY <1>1, <2>1, FormsStay DEF SettingsInv, Rest
    <3> QED
      BY <1>1, <2>3, <3>1, <3>2, NotAList DEF SettingsInv
  <2> QED
    BY <2>2, <2>3 DEF SettingsInv, TablesFit
<1>6. ASSUME NEW ok \in {FALSE} \cup {r.handled /\ r.ok},
             Loaded(r, ok) \/ OrderSaved(r, ok) \/ PasskeyBegun(r, ok) \/ Saved(r, ok) \/ StartupLands(r, ok)
      PROVE  SettingsInv'
  <2>1. ok \in BOOLEAN
    BY <1>3
  <2> QED
    BY <1>1, <1>6, <2>1, LoadedInv, OrderSavedInv, PasskeyBegunInv, TellsInv
<1> QED
  BY <1>4, <1>5, <1>6 DEF RequestLands

LEMMA SettingsStep ==
  ASSUME SettingsInv, OneOfEach, field \in Value, [SettingsNext]_settingsVars
  PROVE  SettingsInv'
<1>1. CASE UNCHANGED settingsVars
  <2>1. UNCHANGED <<tab, daemon, fetched, requests, listState, app, overtaken>>
    BY <1>1 DEF settingsVars
  <2> QED
    BY <2>1, QuietInv DEF SettingsInv, TablesFit, listState
<1>2. CASE SettingsNext
  <2>1. CASE \E i \in DOMAIN ordered :
               \/ DragStart(i) \/ DropRow(i) \/ ArrowKey(i, 1) \/ ArrowKey(i, -1)
               \/ Delete(i) \/ StartEdit(i)
    BY <2>1, ListSteps
  <2>2. CASE \/ DragEnd \/ Add \/ TypeEdit \/ CancelEdit \/ SaveEdit
             \/ \E v \in Value : TypeField(v)
             \/ \E confirm \in BOOLEAN : Save(confirm)
             \/ CancelConfirm
    BY <2>2, UserSteps
  <2>3. CASE Retry \/ Reopen \/ Elsewhere
    BY <2>3, RetryInv, ReopenInv, ElsewhereInv
  <2>4. CASE \E r \in requests : DaemonHandles(r) \/ RequestLands(r)
    BY <2>4, DaemonInv, LandsInv
  <2> QED
    BY <1>2, <2>1, <2>2, <2>3, <2>4 DEF SettingsNext
<1> QED
  BY <1>1, <1>2

----------------------------------------------------------------------------
(* One load, one order. *)

LEMMA LoadingIsOne ==
  ASSUME NEW rs, \A r \in rs : ReqFits(r)
  PROVE  \A q \in Loading(rs) : LoadsList(q) => q = Request("load", <<>>)
<1>1. ASSUME NEW r \in rs, NEW q, q = IF r.kind = "load" THEN [r EXCEPT !.live = FALSE] ELSE r
      PROVE  ~LoadsList(q)
  <2>1. CASE r.kind = "load"
    BY <1>1, <2>1, SilentHeir DEF LoadsList
  <2>2. CASE r.kind # "load"
    BY <1>1, <2>2 DEF LoadsList
  <2> QED
    BY <2>1, <2>2
<1> QED
  BY <1>1 DEF Loading

OrderKept == \A p, q \in pendingOrder' : p = q

LEMMA NoMoreLoads ==
  ASSUME OneOfEach, OrderKept, \A q \in requests' : LoadsList(q) => q \in requests, fetched' = fetched
  PROVE  OneOfEach'
BY DEF OneOfEach, OrderKept, LoadsList

LEMMA LoadsAnew ==
  ASSUME OneOfEach, OrderKept, \A q \in requests' : LoadsList(q) => q = Request("load", <<>>), fetched'.loading
  PROVE  OneOfEach'
BY DEF OneOfEach, OrderKept, LoadsList

LEMMA AsksNoLoad ==
  ASSUME NEW kind, kind # "load", NEW body
  PROVE  ~LoadsList(Request(kind, body)) /\ ~LoadsList([Request(kind, body) EXCEPT !.confirm = TRUE])
         /\ ~LoadsList([Request(kind, body) EXCEPT !.confirm = FALSE])
BY DEF LoadsList, Request

LEMMA OneUser ==
  ASSUME SettingsInv, OneOfEach,
         \/ \E i \in DOMAIN ordered :
              \/ DragStart(i) \/ DropRow(i) \/ ArrowKey(i, 1) \/ ArrowKey(i, -1)
              \/ Delete(i) \/ StartEdit(i)
         \/ DragEnd \/ Add \/ TypeEdit \/ CancelEdit \/ SaveEdit
         \/ \E v \in Value : TypeField(v)
         \/ \E confirm \in BOOLEAN : Save(confirm)
         \/ CancelConfirm \/ Elsewhere
  PROVE  OneOfEach'
<1>1. fetched' = fetched
  BY DEF DragStart, DropRow, ArrowKey, Delete, StartEdit, DragEnd, Add, TypeEdit, CancelEdit, SaveEdit,
         TypeField, Save, CancelConfirm, Elsewhere, HandlesShown, OnList, OnForm
<1>2. ASSUME NEW from, NEW to, move(from, to)
      PROVE  OrderKept /\ \A q \in requests' : LoadsList(q) => q \in requests
  <2>1. CASE UNCHANGED <<requests, pendingOrder>>
    BY <2>1 DEF OrderKept, OneOfEach
  <2>2. ASSUME NEW next, save(next) PROVE OrderKept /\ \A q \in requests' : LoadsList(q) => q \in requests
    <3>1. pendingOrder' = {next} /\ requests' = requests \cup {Request("order", ids(next))}
      BY <2>2 DEF save
    <3>2. ~LoadsList(Request("order", ids(next)))
      BY AsksNoLoad
    <3> QED
      BY <3>1, <3>2 DEF OrderKept
  <2> QED
    BY <1>2, <2>1, <2>2 DEF move
<1>3. CASE \E i \in DOMAIN ordered : DropRow(i) \/ ArrowKey(i, 1) \/ ArrowKey(i, -1)
  <2>1. \E from, to : move(from, to)
    BY <1>3 DEF DropRow, ArrowKey
  <2> QED
    BY <1>1, <1>2, <2>1, NoMoreLoads
<1>4. ASSUME NEW kind \in {"delete", "add", "begin", "edit"}, NEW body, Sends(Request(kind, body)), UNCHANGED pendingOrder
      PROVE  OneOfEach'
  <2>1. kind # "load"
    OBVIOUS
  <2>2. \A q \in requests' : LoadsList(q) => q \in requests
    BY <1>4, <2>1, AsksNoLoad DEF Sends
  <2> QED
    BY <1>1, <1>4, <2>2, NoMoreLoads DEF OrderKept, OneOfEach
<1>5. CASE \E i \in DOMAIN ordered : Delete(i)
  <2>1. UNCHANGED pendingOrder /\ \E body : Sends(Request("delete", body))
    BY <1>5 DEF Delete, listState
  <2> QED
    BY <1>4, <2>1
<1>6. CASE Add
  <2>1. UNCHANGED pendingOrder /\ \E kind \in {"add", "begin"} : \E body : Sends(Request(kind, body))
    BY <1>6 DEF Add, listState
  <2> QED
    BY <1>4, <2>1
<1>7. CASE SaveEdit
  <2>1. UNCHANGED pendingOrder /\ \E body : Sends(Request("edit", body))
    BY <1>7 DEF SaveEdit, listState
  <2> QED
    BY <1>4, <2>1
<1>8. ASSUME NEW confirm \in BOOLEAN, Save(confirm) PROVE OneOfEach'
  <2>1. UNCHANGED pendingOrder /\ requests' = requests \cup {[Request("save", <<field>>) EXCEPT !.confirm = confirm]}
    BY <1>8 DEF Save, OnForm, listState, Sends
  <2>2. confirm = TRUE \/ confirm = FALSE
    OBVIOUS
  <2>3. ~LoadsList([Request("save", <<field>>) EXCEPT !.confirm = confirm])
    BY <2>2, AsksNoLoad
  <2> QED
    BY <1>1, <2>1, <2>3, NoMoreLoads DEF OrderKept, OneOfEach
<1>9. CASE \/ \E i \in DOMAIN ordered : DragStart(i) \/ StartEdit(i)
           \/ DragEnd \/ TypeEdit \/ CancelEdit \/ (\E v \in Value : TypeField(v)) \/ CancelConfirm \/ Elsewhere
  <2>1. UNCHANGED <<requests, pendingOrder>>
    BY <1>9 DEF DragStart, StartEdit, DragEnd, TypeEdit, CancelEdit, TypeField, CancelConfirm, Elsewhere, OnForm, listState
  <2> QED
    BY <1>1, <2>1, NoMoreLoads DEF OrderKept, OneOfEach
<1> QED
  BY <1>3, <1>5, <1>6, <1>7, <1>8, <1>9

LEMMA OneHandled ==
  ASSUME SettingsInv, OneOfEach, NEW r \in requests, DaemonHandles(r)
  PROVE  OneOfEach'
<1>1. ReqShape(r)
  BY DEF SettingsInv, TablesFit, ReqFits
<1>2. PICK ans : ans = IF r.kind \in {"load", "startup"} THEN {IF tab \in Lists THEN rows ELSE setting} ELSE {}
  OBVIOUS
<1>3. PICK acc : acc = Accepts(r)
  OBVIOUS
<1>4. PICK q : q = [r EXCEPT !.handled = TRUE, !.ok = acc, !.answer = ans]
  OBVIOUS
<1>5. q.kind = r.kind /\ q.live = r.live
  BY <1>1, <1>4 DEF ReqShape
<1>6. requests' = (requests \ {r}) \cup {q} /\ UNCHANGED <<fetched, pendingOrder>>
  BY <1>2, <1>3, <1>4 DEF DaemonHandles, listState
<1> QED
  BY <1>5, <1>6 DEF OneOfEach, LoadsList

LEMMA OneLands ==
  ASSUME SettingsInv, OneOfEach, NEW r \in requests, RequestLands(r)
  PROVE  OneOfEach'
<1>1. TablesFit /\ \A q \in Rest(r) : ReqFits(q) /\ q \in requests
  BY DEF SettingsInv, TablesFit, Rest
<1>2. pendingOrder' = pendingOrder \/ pendingOrder' = {}
  BY DEF RequestLands, Loaded, OrderSaved, Changed, Added, PasskeyBegun, Saved, StartupLands, GoneLands, DropRequest, listState
<1>3. OrderKept
  BY <1>2 DEF OneOfEach, OrderKept
<1>4. CASE Reload(r)
  <2>1. requests' = Loading(Rest(r)) /\ fetched'.loading
    BY <1>1, <1>4, ReloadingIs DEF Reload
  <2>2. \A q \in Loading(Rest(r)) : LoadsList(q) => q = Request("load", <<>>)
    BY <1>1, LoadingIsOne
  <2> QED
    BY <1>3, <2>1, <2>2, LoadsAnew
<1>5. CASE requests' = Rest(r) /\ fetched' = fetched
  BY <1>3, <1>5, NoMoreLoads DEF Rest
<1>6. CASE \E ok \in {FALSE} \cup {r.handled /\ r.ok} : Loaded(r, ok)
  <2>1. PICK ok \in {FALSE} \cup {r.handled /\ r.ok} : Loaded(r, ok)
    BY <1>6
  <2>2. requests' = Rest(r) /\ r.kind = "load" /\ (~r.live => fetched' = fetched)
    BY <2>1 DEF Loaded
  <2>3. CASE r.live
    <3>1. \A q \in requests' : ~LoadsList(q)
      BY <2>2, <2>3 DEF OneOfEach, LoadsList, Rest
    <3> QED
      BY <1>3, <3>1 DEF OneOfEach, OrderKept, LoadsList
  <2>4. CASE ~r.live
    BY <1>5, <2>2, <2>4
  <2> QED
    BY <2>3, <2>4
<1>7. CASE \E ok \in {FALSE} \cup {r.handled /\ r.ok} : PasskeyBegun(r, ok)
  <2>1. fetched' = fetched
    BY <1>7 DEF PasskeyBegun
  <2>2. \A q \in requests' : q \in Rest(r) \/ q = [Request("add", r.body) EXCEPT !.live = r.live]
    BY <1>7 DEF PasskeyBegun
  <2>3. ~LoadsList([Request("add", r.body) EXCEPT !.live = r.live])
    BY DEF LoadsList, Request
  <2> QED
    BY <1>1, <1>3, <2>1, <2>2, <2>3, NoMoreLoads
<1> QED
  BY <1>4, <1>5, <1>6, <1>7
     DEF RequestLands, OrderSaved, Changed, Added, Saved, StartupLands, GoneLands, DropRequest

LEMMA OneStep ==
  ASSUME SettingsInv, OneOfEach, [SettingsNext]_settingsVars
  PROVE  OneOfEach'
<1>1. CASE UNCHANGED settingsVars
  BY <1>1 DEF settingsVars, listState, OneOfEach, LoadsList
<1>2. CASE Retry
  <2>1. requests' = Loading(requests) /\ fetched'.loading /\ pendingOrder' = pendingOrder
    BY <1>2, ReloadingIs DEF Retry, SettingsInv, listState
  <2>2. \A q \in Loading(requests) : LoadsList(q) => q = Request("load", <<>>)
    BY LoadingIsOne DEF SettingsInv, TablesFit
  <2> QED
    BY <2>1, <2>2, LoadsAnew DEF OrderKept, OneOfEach
<1>3. CASE Reopen
  <2>1. /\ requests' = {[r EXCEPT !.live = FALSE] : r \in requests} \cup {Request("load", <<>>)}
        /\ fetched' = Fresh /\ pendingOrder' = {}
    BY <1>3 DEF Reopen
  <2>2. \A r \in requests : ~LoadsList([r EXCEPT !.live = FALSE])
    BY SilentHeir DEF SettingsInv, TablesFit, LoadsList
  <2>3. fetched'.loading
    BY <2>1 DEF Fresh
  <2> QED
    BY <2>1, <2>2, <2>3, LoadsAnew DEF OrderKept
<1>4. CASE \E r \in requests : DaemonHandles(r) \/ RequestLands(r)
  BY <1>4, OneHandled, OneLands
<1> QED
  BY <1>1, <1>2, <1>3, <1>4, OneUser DEF SettingsNext

----------------------------------------------------------------------------
(* What is left of the type invariant. *)

\* What was loaded has come with something.
Brings(q) == q.kind \in {"load", "startup"} /\ q.handled => q.answer # {}

FieldsFit ==
  /\ field \in Value /\ app \in Value /\ dragIndex \in Nat
  /\ reorderError \in BOOLEAN /\ saving \in BOOLEAN /\ saveError \in BOOLEAN /\ confirming \in BOOLEAN
  /\ \A r \in requests : Brings(r)

LEMMA NewBrings ==
  ASSUME NEW q, ~q.handled
  PROVE  Brings(q)
BY DEF Brings

LEMMA HeirBrings ==
  ASSUME NEW r, Brings(r), NEW q, Heir(q, r)
  PROVE  Brings(q)
BY DEF Brings, Heir

LEMMA LoadingBrings ==
  ASSUME NEW rs, \A r \in rs : ReqFits(r) /\ Brings(r)
  PROVE  \A q \in Loading(rs) : Brings(q)
<1>1. \A q \in Loading(rs) : NewReq(q) \/ \E r \in rs : Heir(q, r)
  BY LoadingHeirs
<1> QED
  BY <1>1, NewBrings, HeirBrings DEF NewReq

LEMMA FieldsUser ==
  ASSUME SettingsInv, FieldsFit,
         \/ \E i \in DOMAIN ordered :
              \/ DragStart(i) \/ DropRow(i) \/ ArrowKey(i, 1) \/ ArrowKey(i, -1)
              \/ Delete(i) \/ StartEdit(i)
         \/ DragEnd \/ Add \/ TypeEdit \/ CancelEdit \/ SaveEdit
         \/ \E v \in Value : TypeField(v)
         \/ CancelConfirm
  PROVE  FieldsFit'
<1>1. app' = app /\ confirming' \in BOOLEAN
  BY DEF FieldsFit, DragStart, DropRow, ArrowKey, Delete, StartEdit, DragEnd, Add, TypeEdit, CancelEdit, SaveEdit,
         TypeField, CancelConfirm, HandlesShown, OnList, OnForm, formState
<1>2. field' \in Value
  BY DEF FieldsFit, DragStart, DropRow, ArrowKey, Delete, StartEdit, DragEnd, Add, TypeEdit, CancelEdit, SaveEdit,
         TypeField, CancelConfirm, HandlesShown, OnList, formState
<1>3. saving' \in BOOLEAN /\ saveError' \in BOOLEAN
  BY DEF FieldsFit, DragStart, DropRow, ArrowKey, Delete, StartEdit, DragEnd, Add, TypeEdit, CancelEdit, SaveEdit,
         TypeField, CancelConfirm, busyState
<1>4. reorderError' \in BOOLEAN
  BY DEF FieldsFit, DragStart, DropRow, ArrowKey, Delete, StartEdit, DragEnd, Add, TypeEdit, CancelEdit, SaveEdit,
         TypeField, CancelConfirm, OnForm, listState, move, save
<1>5. dragIndex' \in Nat
  <2>1. ASSUME NEW i \in DOMAIN ordered, DragStart(i) PROVE dragIndex' \in Nat
    <3>1. tab \in Lists /\ dragIndex' = i
      BY <2>1 DEF DragStart, HandlesShown, OnList
    <3>2. RowsFit(ordered, nextId)
      BY <3>1, OrderedFits DEF SettingsInv
    <3>3. DOMAIN ordered = 1 .. Len(ordered) /\ Len(ordered) \in Nat
      BY <3>2 DEF RowsFit
    <3> QED
      BY <3>1, <3>3
  <2>2. CASE \E i \in DOMAIN ordered : DropRow(i) \/ ArrowKey(i, 1) \/ ArrowKey(i, -1)
    BY <2>2 DEF FieldsFit, DropRow, ArrowKey
  <2>3. CASE \E i \in DOMAIN ordered : Delete(i) \/ StartEdit(i)
    BY <2>3 DEF FieldsFit, Delete, StartEdit, listState
  <2>4. CASE DragEnd \/ Add \/ TypeEdit \/ CancelEdit \/ SaveEdit
    BY <2>4 DEF FieldsFit, DragEnd, Add, TypeEdit, CancelEdit, SaveEdit, listState
  <2>5. CASE (\E v \in Value : TypeField(v)) \/ CancelConfirm
    BY <2>5 DEF FieldsFit, TypeField, CancelConfirm, OnForm, listState
  <2> QED
    BY <2>1, <2>2, <2>3, <2>4, <2>5
<1>6. \A r \in requests' : Brings(r)
  <2>1. \A q \in requests' : q \in requests \/ q.handled = FALSE
    <3>1. ASSUME NEW from, NEW to, move(from, to)
          PROVE  \A q \in requests' : q \in requests \/ q.handled = FALSE
      BY <3>1 DEF move, save, Request
    <3>2. CASE \E i \in DOMAIN ordered : DropRow(i) \/ ArrowKey(i, 1) \/ ArrowKey(i, -1)
      BY <3>1, <3>2 DEF DropRow, ArrowKey
    <3>3. CASE \E i \in DOMAIN ordered : Delete(i)
      BY <3>3 DEF Delete, Sends, Request
    <3>4. CASE Add
      BY <3>4 DEF Add, Sends, Request
    <3>5. CASE SaveEdit
      BY <3>5 DEF SaveEdit, Sends, Request
    <3>6. CASE \/ \E i \in DOMAIN ordered : DragStart(i) \/ StartEdit(i)
               \/ DragEnd \/ TypeEdit \/ CancelEdit \/ (\E v \in Value : TypeField(v)) \/ CancelConfirm
      BY <3>6 DEF DragStart, StartEdit, DragEnd, TypeEdit, CancelEdit, TypeField, CancelConfirm
    <3> QED
      BY <3>2, <3>3, <3>4, <3>5, <3>6
  <2> QED
    BY <2>1, NewBrings DEF FieldsFit
<1> QED
  BY <1>1, <1>2, <1>3, <1>4, <1>5, <1>6 DEF FieldsFit

LEMMA FieldsPage ==
  ASSUME SettingsInv, FieldsFit, (\E confirm \in BOOLEAN : Save(confirm)) \/ Retry \/ Reopen \/ Elsewhere
  PROVE  FieldsFit'
<1>1. \A r \in requests : ReqFits(r) /\ Brings(r)
  BY DEF SettingsInv, TablesFit, FieldsFit
<1>2. CASE Retry
  <2>1. requests' = Loading(requests) /\ UNCHANGED <<listState, formState, busyState, app>>
    BY <1>2 DEF Retry
  <2> QED
    BY <1>1, <2>1, LoadingBrings DEF FieldsFit, listState, formState, busyState
<1>3. CASE Elsewhere
  <2>1. UNCHANGED <<requests, listState, formState, busyState, app>>
    BY <1>3 DEF Elsewhere
  <2> QED
    BY <2>1 DEF FieldsFit, listState, formState, busyState, Brings
<1>4. CASE Reopen
  <2>1. \A q \in requests' : (\E r \in requests : q = [r EXCEPT !.live = FALSE]) \/ q.handled = FALSE
    BY <1>4 DEF Reopen, Request
  <2>2. \A q \in requests' : Brings(q)
    BY <1>1, <2>1, SilentHeir, HeirBrings, NewBrings
  <2>3. /\ dragIndex' = 0 /\ reorderError' = FALSE /\ saving' = FALSE /\ saveError' = FALSE
        /\ field' = 0 /\ confirming' = FALSE /\ app' = app
    BY <1>4 DEF Reopen
  <2>4. 0 \in Value /\ 0 \in Nat
    BY DEF Value
  <2> QED
    BY <2>2, <2>3, <2>4 DEF FieldsFit
<1>5. ASSUME NEW confirm \in BOOLEAN, Save(confirm) PROVE FieldsFit'
  <2>1. /\ requests' = requests \cup {[Request("save", <<field>>) EXCEPT !.confirm = confirm]}
        /\ UNCHANGED <<listState, app, field>> /\ saving' = TRUE /\ saveError' = FALSE /\ confirming' = FALSE
    BY <1>5 DEF Save, OnForm, Sends
  <2>2. \A q \in requests' : q \in requests \/ q.handled = FALSE
    BY <2>1 DEF Request
  <2>3. \A q \in requests' : Brings(q)
    BY <1>1, <2>2, NewBrings
  <2> QED
    BY <2>1, <2>3 DEF FieldsFit, listState
<1> QED
  BY <1>2, <1>3, <1>4, <1>5

LEMMA FieldsHandles ==
  ASSUME SettingsInv, FieldsFit, NEW r \in requests, DaemonHandles(r)
  PROVE  FieldsFit'
<1>1. ReqShape(r)
  BY DEF SettingsInv, TablesFit, ReqFits
<1>2. PICK ans : ans = IF r.kind \in {"load", "startup"} THEN {IF tab \in Lists THEN rows ELSE setting} ELSE {}
  OBVIOUS
<1>3. PICK acc : acc = Accepts(r)
  OBVIOUS
<1>4. PICK q : q = [r EXCEPT !.handled = TRUE, !.ok = acc, !.answer = ans]
  OBVIOUS
<1>5. q.kind = r.kind /\ q.answer = ans
  BY <1>1, <1>4 DEF ReqShape
<1>6. Brings(q)
  BY <1>2, <1>5 DEF Brings
<1>7. requests' = (requests \ {r}) \cup {q} /\ UNCHANGED <<listState, formState, busyState, app>>
  BY <1>2, <1>3, <1>4 DEF DaemonHandles
<1> QED
  BY <1>6, <1>7 DEF FieldsFit, listState, formState, busyState

LEMMA FieldsLands ==
  ASSUME SettingsInv, FieldsFit, NEW r \in requests, RequestLands(r)
  PROVE  FieldsFit'
<1>1. /\ ReqFits(r) /\ Brings(r) /\ r.handled \in BOOLEAN /\ r.ok \in BOOLEAN /\ r.live \in BOOLEAN
      /\ \A q \in Rest(r) : ReqFits(q) /\ Brings(q)
  BY DEF SettingsInv, TablesFit, FieldsFit, Rest, ReqFits, ReqShape
<1>2. Reload(r) => \A q \in requests' : Brings(q)
  BY <1>1, LoadingBrings DEF Reload
<1>3. requests' = Rest(r) => \A q \in requests' : Brings(q)
  BY <1>1
<1>4. CASE GoneLands(r)
  <2>1. requests' = Rest(r) /\ UNCHANGED <<listState, formState, busyState, app>>
    BY <1>4 DEF GoneLands, DropRequest
  <2> QED
    BY <1>3, <2>1 DEF FieldsFit, listState, formState, busyState
<1>5. ASSUME NEW ok \in {FALSE} \cup {r.handled /\ r.ok},
             \/ Loaded(r, ok) \/ OrderSaved(r, ok) \/ Changed(r, ok) \/ Added(r, ok)
             \/ PasskeyBegun(r, ok) \/ Saved(r, ok) \/ StartupLands(r, ok)
      PROVE  FieldsFit'
  <2>1. ok \in BOOLEAN /\ (ok => r.handled)
    BY <1>1
  <2>2. CASE Loaded(r, ok)
    <3>1. /\ requests' = Rest(r) /\ r.kind = "load" /\ UNCHANGED <<listState, confirming, busyState, app>>
          /\ field' = IF r.live /\ ok /\ tab \in Forms THEN CHOOSE v \in r.answer : TRUE ELSE field
      BY <2>2 DEF Loaded
    <3>2. field' \in Value
      <4>1. CASE r.live /\ ok /\ tab \in Forms
        <5>1. r.answer # {} /\ r.answer \subseteq Value
          BY <1>1, <2>1, <3>1, <4>1 DEF Brings, ReqFits, DataFits, Lists, Forms
        <5> QED
          BY <3>1, <4>1, <5>1
      <4>2. CASE ~(r.live /\ ok /\ tab \in Forms)
        BY <3>1, <4>2 DEF FieldsFit
      <4> QED
        BY <4>1, <4>2
    <3> QED
      BY <1>3, <3>1, <3>2 DEF FieldsFit, listState, busyState
  <2>3. CASE OrderSaved(r, ok)
    <3>1. Reload(r) /\ UNCHANGED <<dragIndex, formState, busyState, app>> /\ reorderError' = (reorderError \/ ~ok)
      BY <2>3 DEF OrderSaved
    <3> QED
      BY <1>2, <3>1 DEF FieldsFit, formState, busyState
  <2>4. CASE Changed(r, ok)
    <3>1. /\ Reload(r) \/ requests' = Rest(r)
          /\ UNCHANGED <<dragIndex, reorderError, formState, busyState, app>>
      BY <2>4 DEF Changed, DropRequest, listState
    <3> QED
      BY <1>2, <1>3, <3>1 DEF FieldsFit, formState, busyState
  <2>5. CASE Added(r, ok)
    <3>1. /\ Reload(r) \/ requests' = Rest(r)
          /\ UNCHANGED <<listState, formState, app>>
      BY <2>5 DEF Added
    <3>2. saving' \in BOOLEAN /\ saveError' \in BOOLEAN
      BY <2>1, <2>5 DEF Added, FieldsFit, busyState
    <3> QED
      BY <1>2, <1>3, <3>1, <3>2 DEF FieldsFit, listState, formState
  <2>6. CASE PasskeyBegun(r, ok)
    <3>1. /\ \/ requests' = Rest(r)
             \/ requests' = Rest(r) \cup {[Request("add", r.body) EXCEPT !.live = r.live]}
          /\ UNCHANGED <<listState, formState, app>>
      BY <2>6 DEF PasskeyBegun
    <3>2. saving' \in BOOLEAN /\ saveError' \in BOOLEAN
      BY <2>6 DEF PasskeyBegun, FieldsFit, busyState
    <3>3. \A q \in requests' : q \in Rest(r) \/ q.handled = FALSE
      BY <3>1 DEF Request
    <3>4. \A q \in requests' : Brings(q)
      BY <1>1, <3>3, NewBrings
    <3> QED
      BY <3>1, <3>2, <3>4 DEF FieldsFit, listState, formState
  <2>7. CASE Saved(r, ok)
    <3>1. r.kind = "save" /\ app' = (IF ok /\ tab # "daemon" THEN r.body[1] ELSE app)
      BY <2>7 DEF Saved
    <3>2. app' \in Value
      BY <1>1, <3>1 DEF ReqFits, FieldsFit
    <3>3. Reload(r) \/ requests' = Rest(r)
      BY <2>7 DEF Saved, DropRequest
    <3>4. /\ UNCHANGED <<listState, field>>
          /\ saving' \in BOOLEAN /\ confirming' \in BOOLEAN /\ saveError' \in BOOLEAN
      BY <1>1, <2>1, <2>7 DEF Saved, DropRequest, FieldsFit, busyState, formState
    <3> QED
      BY <1>2, <1>3, <3>2, <3>3, <3>4 DEF FieldsFit, listState
  <2>8. CASE StartupLands(r, ok)
    <3>1. /\ r.kind = "startup" /\ requests' = Rest(r) /\ UNCHANGED <<listState, formState, busyState>>
          /\ app' = (IF ok THEN CHOOSE v \in r.answer : TRUE ELSE app)
      BY <2>8 DEF StartupLands, DropRequest
    <3>2. app' \in Value
      <4>1. CASE ok
        <5>1. r.answer # {} /\ r.answer \subseteq Value
          BY <1>1, <2>1, <3>1, <4>1 DEF Brings, ReqFits, DataFits, Lists, Forms
        <5> QED
          BY <3>1, <4>1, <5>1
      <4>2. CASE ~ok
        BY <3>1, <4>2 DEF FieldsFit
      <4> QED
        BY <2>1, <4>1, <4>2
    <3> QED
      BY <1>3, <3>1, <3>2 DEF FieldsFit, listState, formState, busyState
  <2> QED
    BY <1>5, <2>2, <2>3, <2>4, <2>5, <2>6, <2>7, <2>8
<1> QED
  BY <1>4, <1>5 DEF RequestLands

LEMMA FieldsStep ==
  ASSUME SettingsInv, FieldsFit, [SettingsNext]_settingsVars
  PROVE  FieldsFit'
<1>1. CASE UNCHANGED settingsVars
  BY <1>1 DEF settingsVars, FieldsFit, listState, formState, busyState, Brings
<1>2. CASE SettingsNext
  BY <1>2, FieldsUser, FieldsPage, FieldsHandles, FieldsLands DEF SettingsNext
<1> QED
  BY <1>1, <1>2

----------------------------------------------------------------------------
(* The theorems. *)

LEMMA FirstRowsFit ==
  ASSUME SettingsInit
  PROVE  nextId \in Nat /\ nextId > 0 /\ RowsFit(rows, nextId)
<1>1. FirstRows \in Seq(Nat \ {0}) /\ IsInjective(FirstRows)
  BY SettingsAssumption
<1>2. PICK n \in Nat : n = Len(FirstRows) /\ DOMAIN FirstRows = 1 .. n
  BY <1>1
<1>3. \A i \in 1 .. n : FirstRows[i] \in Nat \ {0} /\ FirstRows[i] \in ToSet(FirstRows)
  BY <1>1, <1>2 DEF ToSet
<1>4. \A x \in ToSet(FirstRows) : \E i \in 1 .. n : x = FirstRows[i]
  BY <1>2 DEF ToSet
<1>5. FirstRows \in [1 .. n -> Nat]
  BY <1>1, <1>2, <1>3
<1>6. PICK b \in Nat : \A i \in 1 .. n : FirstRows[i] <= b
  BY <1>5, ListBounded
<1>7. PICK S : S = ToSet(FirstRows) \cup {0}
  OBVIOUS
<1>8. S \in SUBSET Nat /\ S # {} /\ \A x \in S : x <= b
  BY <1>3, <1>4, <1>6, <1>7
<1>9. PICK m : m = Max(S)
  OBVIOUS
<1>10. m \in S /\ \A x \in S : x <= m
  BY <1>8, <1>9, GreatestOf
<1>11. m \in Nat /\ nextId = 1 + m
  BY <1>7, <1>8, <1>9, <1>10 DEF SettingsInit
<1>12. DOMAIN rows = 1 .. n /\ rows = [i \in 1 .. n |-> [id |-> FirstRows[i], name |-> 0]]
  BY <1>2 DEF SettingsInit
<1>13. \A i \in 1 .. n : rows[i] \in ListRow /\ rows[i].id = FirstRows[i]
  BY <1>3, <1>12 DEF ListRow, Name
<1>14. rows \in Seq(ListRow)
  BY <1>12, <1>13
<1>15. \A i, j \in 1 .. n : FirstRows[i] = FirstRows[j] => i = j
  BY <1>1, <1>2 DEF IsInjective
<1>16. \A i \in 1 .. n : rows[i].id < nextId
  BY <1>3, <1>7, <1>8, <1>10, <1>11, <1>13
<1> QED
  BY <1>11, <1>12, <1>13, <1>14, <1>15, <1>16 DEF RowsFit

LEMMA SettingsStarts ==
  ASSUME SettingsInit
  PROVE  SettingsInv /\ FieldsFit /\ OneOfEach
<1>1. PICK load : load = Request("load", <<>>)
  OBVIOUS
<1>2. PICK first : first = Request("startup", <<>>)
  OBVIOUS
<1>3. first.kind = "startup" /\ ReqShape(first) /\ ~first.handled /\ ~first.ok /\ first.answer = {}
  <2>1. PICK kind : kind = "startup"
    OBVIOUS
  <2>2. kind \in ReqKinds /\ first = Request(kind, <<>>)
    BY <1>2, <2>1 DEF ReqKinds
  <2> QED
    BY <2>1, <2>2, ReqIs
<1>4. NewReq(load) /\ load.kind = "load"
  BY <1>1, LoadIsNew
<1>5. /\ requests = {load} \cup {first : t \in {tab} \cap (Forms \ {"daemon"})}
      /\ tab \in Lists \cup Forms /\ fetched = Fresh /\ pendingOrder = {} /\ edit = {}
  BY <1>1, <1>2, SettingsAssumption DEF SettingsInit
<1>6. \A r \in requests : r = load \/ (r = first /\ tab \in Forms \ {"daemon"})
  BY <1>5
<1>7. load \in requests /\ (tab \in Forms \ {"daemon"} => first \in requests)
  BY <1>5
<1>8. tab \in Forms => NewReq(first)
  BY <1>3, NothingFits DEF NewReq, ReqFits
<1>9. \A r \in requests : NewReq(r)
  BY <1>4, <1>6, <1>8
<1>10. /\ fetched \in [data : {fetched.data}, error : BOOLEAN, loading : BOOLEAN]
       /\ fetched.data = {} /\ fetched.loading = TRUE
  BY <1>5 DEF Fresh
<1>11. setting \in Value
  <2>1. setting \in {0, 1}
    BY DEF SettingsInit
  <2> QED
    BY <2>1 DEF Value
<1>12. TablesFit
  BY <1>5, <1>9, <1>10, <1>11, FirstRowsFit, NothingFits DEF TablesFit, NewReq
<1>13. OrdersFit
  <2> SUFFICES ASSUME tab \in Lists
               PROVE  (\A r \in requests : ~Orders(r)) /\ OrderSettled
    BY <1>5 DEF OrdersFit
  <2>1. \A r \in requests : r = load
    BY <1>6 DEF Lists, Forms
  <2> QED
    BY <1>4, <1>5, <1>10, <2>1 DEF Orders, OrderSettled, NewReq, ReqFits
<1>14. FormsFit
  <2> SUFFICES ASSUME tab \in Forms \ {"daemon"}
               PROVE  /\ \A r, q \in requests : Tells(r) /\ Tells(q) => r = q
                      /\ \E r \in requests : Tells(r)
                      /\ \A r \in requests : r.kind # "save" /\ ~r.handled
    BY DEF FormsFit
  <2> QED
    BY <1>3, <1>4, <1>6, <1>7, <1>9 DEF Tells, NewReq
<1>15. FieldsFit
  <2>1. /\ field = 0 /\ app = 0 /\ dragIndex = 0
        /\ reorderError = FALSE /\ saving = FALSE /\ saveError = FALSE /\ confirming = FALSE
    BY DEF SettingsInit
  <2>2. 0 \in Value /\ 0 \in Nat
    BY DEF Value
  <2> QED
    BY <1>9, <2>1, <2>2, NewBrings DEF FieldsFit, NewReq
<1>16. OneOfEach
  <2>1. \A r \in requests : LoadsList(r) => r = load
    BY <1>3, <1>6 DEF LoadsList
  <2> QED
    BY <1>5, <1>10, <2>1 DEF OneOfEach
<1> QED
  BY <1>12, <1>13, <1>14, <1>15, <1>16 DEF SettingsInv

\* The strengthening the theorems about the settings page rest on: while nothing has
\* overtaken what the page keeps, its order and App's copy are the daemon's or on
\* their way there (useReorder.ts, useFetch.ts, App.tsx).
THEOREM SettingsInvariance == SettingsSpec => [](SettingsInv /\ FieldsFit /\ OneOfEach)
<1>1. SettingsInit => SettingsInv /\ FieldsFit /\ OneOfEach
  BY SettingsStarts
<1>2. SettingsInv /\ FieldsFit /\ OneOfEach /\ [SettingsNext]_settingsVars => (SettingsInv /\ FieldsFit /\ OneOfEach)'
  <2> SUFFICES ASSUME SettingsInv, FieldsFit, OneOfEach, [SettingsNext]_settingsVars
               PROVE  SettingsInv' /\ FieldsFit' /\ OneOfEach'
    OBVIOUS
  <2>1. field \in Value
    BY DEF FieldsFit
  <2> QED
    BY <2>1, SettingsStep, FieldsStep, OneStep
<1> QED
  BY <1>1, <1>2, PTL DEF SettingsSpec

LEMMA RowsAreTyped ==
  ASSUME NEW next, NEW list, RowsFit(list, next)
  PROVE  list \in RowList /\ IsInjective(ids(list))
<1>1. list \in Seq(ListRow) /\ \A i, j \in DOMAIN list : list[i].id = list[j].id => i = j
  BY DEF RowsFit
<1> QED
  BY <1>1 DEF RowList, ListRow, IsInjective, ids

\* SettingsPage.tsx and its panels keep to their types, whatever order answers come in.
THEOREM SettingsTypeCorrect == SettingsSpec => []SettingsTypeOK
<1>1. ASSUME SettingsInv, FieldsFit PROVE SettingsTypeOK
  <2>1. TablesFit
    BY <1>1 DEF SettingsInv
  <2>2. rows \in RowList /\ IsInjective(ids(rows)) /\ setting \in Value
    BY <2>1, RowsAreTyped DEF TablesFit
  <2>3. fetched.data \subseteq IF tab \in Lists THEN RowList ELSE Value
    BY <2>1, RowsAreTyped DEF TablesFit, DataFits
  <2>4. \A p \in pendingOrder : p \in RowList /\ IsInjective(ids(p))
    BY <2>1, RowsAreTyped DEF TablesFit
  <2>5. edit \subseteq [id : Nat, name : Name]
    BY <2>1 DEF TablesFit, ListRow
  <2>6. \A r \in requests : r.handled \/ ~r.ok
    BY <2>1 DEF TablesFit, ReqFits
  <2>7. fetched.error \in BOOLEAN /\ fetched.loading \in BOOLEAN
    BY <2>1 DEF TablesFit
  <2>8. /\ field \in Value /\ app \in Value /\ dragIndex \in Nat
        /\ reorderError \in BOOLEAN /\ saving \in BOOLEAN /\ saveError \in BOOLEAN /\ confirming \in BOOLEAN
    BY <1>1 DEF FieldsFit
  <2> QED
    BY <2>2, <2>3, <2>4, <2>5, <2>6, <2>7, <2>8 DEF SettingsTypeOK
<1> QED
  BY <1>1, SettingsInvariance, PTL

\* Once every request is answered the page shows what the daemon stores.
LEMMA QuietPageAgrees ==
  ASSUME SettingsInv
  PROVE  ScreenFollowsDaemon
<1> SUFFICES ASSUME requests = {}, ~overtaken
             PROVE  /\ tab \in Forms \ {"daemon"} => app = setting
                    /\ tab \in Lists /\ Rendered /\ ToSet(ids(items)) = ToSet(ids(rows)) => ids(ordered) = ids(rows)
  BY DEF ScreenFollowsDaemon
<1>1. tab \in Forms \ {"daemon"} => app = setting
  BY DEF SettingsInv, FormsFit
<1>2. ASSUME tab \in Lists, Rendered, ToSet(ids(items)) = ToSet(ids(rows))
      PROVE  ids(ordered) = ids(rows)
  <2>1. OrderSettled
    BY <1>2 DEF SettingsInv, OrdersFit, Orders
  <2>2. TablesFit /\ RowsFit(items, nextId) /\ RowsFit(rows, nextId) /\ nextId \in Nat
    BY <1>2, OrderedFits DEF SettingsInv, TablesFit
  <2>3. Agree(items, rows)
    <3>1. CASE fetched.data = {}
      BY <1>2, <3>1 DEF items, Agree
    <3>2. CASE fetched.data # {}
      <4>1. items \in fetched.data
        BY <1>2, <3>2 DEF items, Lists, Forms
      <4> QED
        BY <1>2, <2>1, <4>1 DEF OrderSettled, Rendered
    <3> QED
      BY <3>1, <3>2
  <2>4. CASE ordered = items
    BY <1>2, <2>2, <2>3, <2>4, AgreeingEqual
  <2>5. CASE ordered # items
    <3>1. \E p \in pendingOrder : Len(p) = Len(items) /\ ToSet(ids(p)) \subseteq ToSet(ids(items))
      BY <2>5 DEF ordered
    <3>2. \A p, q \in pendingOrder : p = q
      BY <1>2 DEF SettingsInv, OrdersFit
    <3>3. PICK p \in pendingOrder : ordered = p /\ Len(p) = Len(items) /\ ToSet(ids(p)) \subseteq ToSet(ids(items))
      BY <3>1, <3>2 DEF ordered
    <3>4. RowsFit(p, nextId) /\ Agree(p, rows)
      BY <2>1, <2>2, <3>3 DEF TablesFit, OrderSettled
    <3>5. ToSet(ids(p)) = ToSet(ids(items))
      BY <2>2, <3>3, <3>4, SameRows
    <3> QED
      BY <1>2, <2>2, <3>3, <3>4, <3>5, AgreeingEqual
  <2> QED
    BY <2>4, <2>5
<1> QED
  BY <1>1, <1>2

\* An order that was refused or lost is not left on screen, nor is App with an old
\* setting, unless writes may have crossed, an answer was lost, or another page has
\* stored an order or a form this page has not caught up with (useReorder.ts:33-45).
THEOREM ScreenFollows == SettingsSpec => []ScreenFollowsDaemon
<1>1. SettingsInv => ScreenFollowsDaemon
  BY QuietPageAgrees
<1> QED
  BY <1>1, SettingsInvariance, PTL
=============================================================================
