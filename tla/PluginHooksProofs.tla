--------------------------- MODULE PluginHooksProofs ---------------------------
(***************************************************************************)
(* Proofs about PluginHooks for any plugins, hooks, requests and           *)
(* executions.                                                             *)
(*                                                                         *)
(* The array changes in three ways: a registration is put in, one is taken *)
(* out, and the filter keeps those of the other plugins.  The first part   *)
(* says what each makes of a list, by least counterexamples; the rest      *)
(* needs no more of the array than that.                                   *)
(***************************************************************************)
EXTENDS PluginHooks, WellFoundedInduction, TLAPS

-----------------------------------------------------------------------------
(* Lists of registrations.                                                 *)

LEMMA Least ==
  ASSUME NEW T \in SUBSET Nat, T # {} PROVE \E n \in T : \A m \in T : n <= m
<1>1. \A S \in SUBSET Nat : S # {} => \E x \in S : \A y \in S : ~(<<y, x>> \in OpToRel(<, Nat))
  BY NatLessThanWellFounded, WFMin
<1>2. PICK x \in T : \A y \in T : ~(<<y, x>> \in OpToRel(<, Nat))
  BY <1>1
<1>3. \A y \in T : ~(y < x)
  BY <1>2 DEF OpToRel
<1> QED
  BY <1>3

LEMMA Greatest ==
  ASSUME NEW n \in Nat, NEW S \in SUBSET (0..n), S # {}
  PROVE  Max(S) \in S /\ \A m \in S : m <= Max(S)
<1> DEFINE T == {n - m : m \in S}
<1>1. T \in SUBSET Nat /\ T # {}
  <2>1. \A m \in S : n - m \in Nat
    OBVIOUS
  <2> QED
    BY <2>1
<1>2. PICK d \in T : \A t \in T : d <= t
  BY <1>1, Least
<1>3. PICK top \in S : d = n - top
  BY <1>2
<1>4. ASSUME NEW m \in S PROVE top >= m
  <2>1. n - m \in T
    OBVIOUS
  <2> QED
    BY <1>2, <1>3, <2>1
<1>5. Max(S) \in S /\ \A m \in S : Max(S) >= m
  BY <1>4, Zenon DEF Max
<1> QED
  BY <1>5

\* Where Sorted puts a registration: after the last one of no greater priority.
Before(list, x) == SelectLastInSeq(list, LAMBDA y : y.priority <= x.priority)

LEMMA BeforeFacts ==
  ASSUME NEW list \in Seq(Registration), NEW x \in Registration
  PROVE  /\ Before(list, x) \in 0..Len(list)
         /\ Before(list, x) # 0 => list[Before(list, x)].priority <= x.priority
         /\ \A i \in Before(list, x) + 1..Len(list) : ~(list[i].priority <= x.priority)
<1> DEFINE I == {i \in 1..Len(list) : list[i].priority <= x.priority}
<1>1. Before(list, x) = IF I # {} THEN Max(I) ELSE 0
  BY DEF Before, SelectLastInSeq
<1>2. Len(list) \in Nat /\ I \in SUBSET (0..Len(list))
  OBVIOUS
<1>3. CASE I = {}
  BY <1>1, <1>2, <1>3
<1>4. CASE I # {}
  <2>1. Before(list, x) \in I /\ \A m \in I : m <= Before(list, x)
    BY <1>1, <1>2, <1>4, Greatest
  <2>2. \A i \in Before(list, x) + 1..Len(list) : i \notin I
    BY <1>2, <2>1
  <2> QED
    BY <1>2, <2>1, <2>2
<1> QED
  BY <1>3, <1>4

LEMMA InsertAtFacts ==
  ASSUME NEW S, NEW list \in Seq(S), NEW x \in S, NEW k \in 1..Len(list) + 1
  PROVE  /\ InsertAt(list, k, x) \in Seq(S)
         /\ Len(InsertAt(list, k, x)) = Len(list) + 1
         /\ \A i \in 1..k - 1 : InsertAt(list, k, x)[i] = list[i]
         /\ InsertAt(list, k, x)[k] = x
         /\ \A i \in k + 1..Len(list) + 1 : InsertAt(list, k, x)[i] = list[i - 1]
<1> DEFINE a == SubSeq(list, 1, k - 1)
           b == SubSeq(list, k, Len(list))
           c == a \o <<x>>
<1>0. Len(list) \in Nat
  OBVIOUS
<1>1. a \in Seq(S) /\ Len(a) = k - 1 /\ \A i \in 1..k - 1 : a[i] = list[i]
  BY <1>0
<1>2. b \in Seq(S) /\ Len(b) = Len(list) + 1 - k /\ \A i \in 1..Len(list) + 1 - k : b[i] = list[k + i - 1]
  BY <1>0
<1> HIDE DEF a, b
<1>3. c \in Seq(S) /\ Len(c) = k /\ c[k] = x /\ \A i \in 1..k - 1 : c[i] = a[i]
  BY <1>0, <1>1
<1>4. InsertAt(list, k, x) = c \o b
  BY DEF InsertAt, a, b
<1> HIDE DEF c
<1>5. c \o b \in Seq(S) /\ Len(c \o b) = Len(list) + 1
  BY <1>0, <1>2, <1>3
<1>6. /\ \A i \in 1..k : (c \o b)[i] = c[i]
      /\ \A i \in k + 1..Len(list) + 1 : (c \o b)[i] = b[i - k]
  BY <1>0, <1>2, <1>3
<1>7. ASSUME NEW i \in k + 1..Len(list) + 1 PROVE (c \o b)[i] = list[i - 1]
  <2>1. i - k \in 1..Len(list) + 1 - k /\ k + (i - k) - 1 = i - 1
    BY <1>0
  <2> QED
    BY <1>2, <1>6, <2>1
<1> QED
  BY <1>0, <1>1, <1>3, <1>4, <1>5, <1>6, <1>7

LEMMA RemoveAtFacts ==
  ASSUME NEW S, NEW list \in Seq(S), NEW k \in 1..Len(list)
  PROVE  /\ RemoveAt(list, k) \in Seq(S)
         /\ Len(RemoveAt(list, k)) = Len(list) - 1
         /\ \A i \in 1..k - 1 : RemoveAt(list, k)[i] = list[i]
         /\ \A i \in k..Len(list) - 1 : RemoveAt(list, k)[i] = list[i + 1]
<1> DEFINE a == SubSeq(list, 1, k - 1)
           b == SubSeq(list, k + 1, Len(list))
<1>0. Len(list) \in Nat
  OBVIOUS
<1>1. a \in Seq(S) /\ Len(a) = k - 1 /\ \A i \in 1..k - 1 : a[i] = list[i]
  BY <1>0
<1>2. b \in Seq(S) /\ Len(b) = Len(list) - k /\ \A i \in 1..Len(list) - k : b[i] = list[k + i]
  BY <1>0
<1>3. RemoveAt(list, k) = a \o b
  BY DEF RemoveAt
<1> HIDE DEF a, b
<1>4. a \o b \in Seq(S) /\ Len(a \o b) = Len(list) - 1
  <2>0. a \in Seq(S) /\ b \in Seq(S)
    BY <1>1, <1>2
  <2>1. a \o b \in Seq(S) /\ Len(a \o b) = Len(a) + Len(b)
    BY <2>0
  <2>2. (k - 1) + (Len(list) - k) = Len(list) - 1
    BY <1>0
  <2> QED
    BY <1>1, <1>2, <2>1, <2>2
<1>5. /\ \A i \in 1..k - 1 : (a \o b)[i] = a[i]
      /\ \A i \in k..Len(list) - 1 : (a \o b)[i] = b[i - (k - 1)]
  BY <1>0, <1>1, <1>2
<1>6. ASSUME NEW i \in k..Len(list) - 1 PROVE (a \o b)[i] = list[i + 1]
  <2>1. i - (k - 1) \in 1..Len(list) - k /\ k + (i - (k - 1)) = i + 1
    BY <1>0
  <2> QED
    BY <1>2, <1>5, <2>1
<1> QED
  BY <1>0, <1>1, <1>3, <1>4, <1>5, <1>6

\* What the filter makes of a list: registrations of it in their order, none of the
\* plugin, and every other one.
Thinned(new, old) ==
  /\ new \in Seq(Registration)
  /\ \A i \in 1..Len(new) : \E a \in 1..Len(old) : old[a] = new[i]
  /\ \A i, j \in 1..Len(new) : i < j =>
       \E a, b \in 1..Len(old) : a < b /\ old[a] = new[i] /\ old[b] = new[j]

\* The filter after n elements.
Filtered(s, list, n, p) ==
  /\ s \in Seq(Registration)
  /\ \A i \in 1..Len(s) : s[i].plugin # p /\ \E a \in 1..n : list[a] = s[i]
  /\ \A i, j \in 1..Len(s) : i < j => \E a, b \in 1..n : a < b /\ list[a] = s[i] /\ list[b] = s[j]
  /\ \A a \in 1..n : list[a].plugin # p => \E i \in 1..Len(s) : s[i] = list[a]

LEMMA FilterDrops ==
  ASSUME NEW s, NEW list, NEW n \in Nat \ {0}, NEW p, Filtered(s, list, n - 1, p), list[n].plugin = p
  PROVE  Filtered(s, list, n, p)
<1>1. 1..n - 1 \subseteq 1..n /\ \A a \in 1..n : a = n \/ a \in 1..n - 1
  OBVIOUS
<1>2. \A i \in 1..Len(s) : s[i].plugin # p /\ \E a \in 1..n : list[a] = s[i]
  BY <1>1 DEF Filtered
<1>3. ASSUME NEW i \in 1..Len(s), NEW j \in 1..Len(s), i < j
      PROVE  \E a, b \in 1..n : a < b /\ list[a] = s[i] /\ list[b] = s[j]
  <2>1. PICK a \in 1..n - 1, b \in 1..n - 1 : a < b /\ list[a] = s[i] /\ list[b] = s[j]
    BY <1>3 DEF Filtered
  <2> QED
    BY <1>1, <2>1
<1>4. \A a \in 1..n : list[a].plugin # p => \E i \in 1..Len(s) : s[i] = list[a]
  BY <1>1 DEF Filtered
<1> QED
  BY <1>2, <1>3, <1>4 DEF Filtered

LEMMA FilterKeeps ==
  ASSUME NEW s, NEW list, NEW n \in Nat \ {0}, NEW p, Filtered(s, list, n - 1, p),
         list[n].plugin # p, list[n] \in Registration
  PROVE  Filtered(Append(s, list[n]), list, n, p)
<1> DEFINE t == Append(s, list[n])
<1>0. s \in Seq(Registration) /\ Len(s) \in Nat
  BY DEF Filtered
<1>1. t \in Seq(Registration) /\ Len(t) = Len(s) + 1 /\ t[Len(s) + 1] = list[n]
      /\ \A i \in 1..Len(s) : t[i] = s[i]
  BY <1>0
<1> HIDE DEF t
<1>2. /\ n \in 1..n /\ \A a \in 1..n - 1 : a \in 1..n /\ a < n
      /\ \A a \in 1..n : a = n \/ a \in 1..n - 1
      /\ \A i \in 1..Len(t) : i = Len(s) + 1 \/ i \in 1..Len(s)
      /\ \A i \in 1..Len(s) : i \in 1..Len(t)
      /\ Len(s) + 1 \in 1..Len(t)
      /\ \A i, j \in 1..Len(t) : i < j => i \in 1..Len(s)
  BY <1>0, <1>1
<1>3. ASSUME NEW i \in 1..Len(t) PROVE t[i].plugin # p /\ \E a \in 1..n : list[a] = t[i]
  <2>1. CASE i = Len(s) + 1
    BY <1>1, <1>2, <2>1
  <2>2. CASE i \in 1..Len(s)
    <3>1. PICK a \in 1..n - 1 : list[a] = s[i]
      BY <2>2 DEF Filtered
    <3> QED
      BY <1>1, <1>2, <2>2, <3>1 DEF Filtered
  <2> QED
    BY <1>2, <2>1, <2>2
<1>4. ASSUME NEW i \in 1..Len(t), NEW j \in 1..Len(t), i < j
      PROVE  \E a, b \in 1..n : a < b /\ list[a] = t[i] /\ list[b] = t[j]
  <2>1. i \in 1..Len(s) /\ t[i] = s[i]
    BY <1>1, <1>2, <1>4
  <2>2. CASE j = Len(s) + 1
    <3>1. PICK a \in 1..n - 1 : list[a] = s[i]
      BY <2>1 DEF Filtered
    <3>2. a \in 1..n /\ n \in 1..n /\ a < n /\ list[a] = t[i] /\ list[n] = t[j]
      BY <1>1, <1>2, <2>1, <2>2, <3>1
    <3> QED
      BY <3>2
  <2>3. CASE j \in 1..Len(s)
    <3>1. PICK a \in 1..n - 1, b \in 1..n - 1 : a < b /\ list[a] = s[i] /\ list[b] = s[j]
      BY <1>4, <2>1, <2>3 DEF Filtered
    <3>2. a \in 1..n /\ b \in 1..n /\ a < b /\ list[a] = t[i] /\ list[b] = t[j]
      BY <1>1, <1>2, <2>1, <2>3, <3>1
    <3> QED
      BY <3>2
  <2> QED
    BY <1>2, <2>2, <2>3
<1>5. ASSUME NEW a \in 1..n, list[a].plugin # p PROVE \E i \in 1..Len(t) : t[i] = list[a]
  <2>1. CASE a = n
    BY <1>1, <1>2, <2>1
  <2>2. CASE a \in 1..n - 1
    <3>1. PICK i \in 1..Len(s) : s[i] = list[a]
      BY <1>5, <2>2 DEF Filtered
    <3> QED
      BY <1>1, <1>2, <3>1
  <2> QED
    BY <1>2, <2>1, <2>2
<1>6. Filtered(t, list, n, p)
  BY <1>1, <1>3, <1>4, <1>5, Zenon DEF Filtered
<1> QED
  BY <1>6 DEF t

LEMMA WithoutFacts ==
  ASSUME NEW list \in Seq(Registration), NEW p
  PROVE  Filtered(Without(list, p), list, Len(list), p)
<1> DEFINE Next1(s, n) == IF list[n].plugin = p THEN s ELSE Append(s, list[n])
           Value(f, n) == IF n = 0 THEN <<>> ELSE Next1(f[n - 1], n)
           Filter(f, n) == f = [i \in 0..n |-> Value(f, i)]
<1>0. Len(list) \in Nat /\ \A a \in 1..Len(list) : list[a] \in Registration
  OBVIOUS
\* The function the filter is exists, however long the list.
<1>1. \E f : Filter(f, Len(list))
  <2> DEFINE T == {n \in Nat : ~\E f : Filter(f, n)}
  <2>1. CASE T = {}
    BY <1>0, <2>1
  <2>2. CASE T # {}
    <3>1. PICK n \in T : \A m \in T : n <= m
      BY <2>2, Least
    <3>2. n # 0
      <4>1. Filter([i \in 0..0 |-> <<>>], 0)
        OBVIOUS
      <4> QED
        BY <3>1, <4>1
    <3>3. n - 1 \in Nat /\ n - 1 \notin T
      <4>1. n - 1 \in Nat /\ ~(n <= n - 1)
        BY <3>1, <3>2
      <4> QED
        BY <3>1, <4>1, Zenon
    <3>4. PICK f : Filter(f, n - 1)
      BY <3>3, Zenon
    <3> DEFINE g == [i \in 0..n |-> IF i = n THEN Next1(f[n - 1], n) ELSE f[i]]
    <3>5. ASSUME NEW i \in 0..n PROVE g[i] = Value(g, i)
      <4>1. CASE i = n
        <5>1. n - 1 \in 0..n /\ n - 1 # n
          BY <3>3
        <5> QED
          BY <3>2, <4>1, <5>1
      <4>2. CASE i # n
        <5>1. i \in 0..n - 1 /\ (i # 0 => i - 1 \in 0..n /\ i - 1 # n)
          BY <3>3, <4>2
        <5>2. f[i] = Value(f, i)
          BY <3>4, <5>1
        <5>3. g[i] = f[i] /\ (i # 0 => g[i - 1] = f[i - 1])
          BY <4>2, <5>1
        <5> QED
          BY <5>2, <5>3
      <4> QED
        BY <4>1, <4>2
    <3> HIDE DEF Value
    <3>6. Filter(g, n)
      BY <3>5
    <3> QED
      BY <3>1, <3>6
  <2> QED
    BY <2>1, <2>2
<1> DEFINE kept == CHOOSE f : Filter(f, Len(list))
<1>2. Without(list, p) = kept[Len(list)]
  BY DEF Without
<1>3. Filter(kept, Len(list))
  BY <1>1
<1> HIDE DEF kept
<1>4. kept[0] = <<>> /\ \A n \in 1..Len(list) : kept[n] = Next1(kept[n - 1], n)
  <2>1. \A n \in 0..Len(list) : kept[n] = Value(kept, n)
    BY <1>3, Zenon
  <2>2. 0 \in 0..Len(list) /\ \A n \in 1..Len(list) : n \in 0..Len(list) /\ n # 0
    BY <1>0
  <2> QED
    BY <2>1, <2>2, Zenon
\* There is no first element after which the claim fails.
<1>5. Filtered(kept[0], list, 0, p)
  BY <1>4 DEF Filtered
<1>6. ASSUME NEW n \in 1..Len(list), Filtered(kept[n - 1], list, n - 1, p)
      PROVE  Filtered(kept[n], list, n, p)
  BY <1>0, <1>4, <1>6, FilterDrops, FilterKeeps
<1>7. Filtered(kept[Len(list)], list, Len(list), p)
  <2> DEFINE T == {n \in 0..Len(list) : ~Filtered(kept[n], list, n, p)}
  <2>1. CASE T = {}
    BY <1>0, <2>1
  <2>2. CASE T # {}
    <3>0. T \in SUBSET Nat
      BY <1>0
    <3>1. PICK n \in T : \A m \in T : n <= m
      BY <2>2, <3>0, Least
    <3>2. n # 0
      BY <1>5, <3>1
    <3>3. n \in 1..Len(list) /\ n - 1 \in 0..Len(list) /\ n - 1 \notin T
      BY <1>0, <3>1, <3>2
    <3> QED
      BY <1>6, <3>1, <3>3
  <2> QED
    BY <2>1, <2>2
<1> QED
  BY <1>2, <1>7

LEMMA RemoveAtThins ==
  ASSUME NEW list \in Seq(Registration), NEW k \in 1..Len(list)
  PROVE  Thinned(RemoveAt(list, k), list)
<1> DEFINE new == RemoveAt(list, k)
           From(i) == IF i < k THEN i ELSE i + 1
<1>0. Len(list) \in Nat
  OBVIOUS
<1>a. /\ new \in Seq(Registration) /\ Len(new) = Len(list) - 1
      /\ \A i \in 1..k - 1 : new[i] = list[i]
      /\ \A i \in k..Len(list) - 1 : new[i] = list[i + 1]
  BY RemoveAtFacts
<1> HIDE DEF new
<1>1. ASSUME NEW i \in 1..Len(new) PROVE From(i) \in 1..Len(list) /\ list[From(i)] = new[i]
  <2>1. CASE i < k
    BY <1>0, <1>a, <2>1
  <2>2. CASE ~(i < k)
    <3>1. i \in k..Len(list) - 1 /\ i + 1 \in 1..Len(list)
      BY <1>0, <1>a, <2>2
    <3> QED
      BY <1>a, <2>2, <3>1
  <2> QED
    BY <2>1, <2>2
<1>2. \A i, j \in 1..Len(new) : i < j => From(i) < From(j)
  BY <1>0, <1>a
<1> HIDE DEF new, From
<1>3. Thinned(new, list)
  BY <1>a, <1>1, <1>2, Zenon DEF Thinned
<1> QED
  BY <1>3 DEF new

\* What putting x into a list makes of it.
Grown(new, old, x) ==
  /\ new \in Seq(Registration)
  /\ \A i \in 1..Len(new) : new[i] = x \/ \E a \in 1..Len(old) : old[a] = new[i]
  /\ \A i, j \in 1..Len(new) : i < j =>
       \/ \E a, b \in 1..Len(old) : a < b /\ old[a] = new[i] /\ old[b] = new[j]
       \/ new[i] = x /\ \E b \in 1..Len(old) : old[b] = new[j]
       \/ new[j] = x /\ \E a \in 1..Len(old) : old[a] = new[i]
  /\ \A a \in 1..Len(old) : \E i \in 1..Len(new) : a <= i /\ new[i] = old[a]

InOrder(list) == \A i, j \in 1..Len(list) : i < j => list[i].priority <= list[j].priority

LEMMA SortedGrows ==
  ASSUME NEW list \in Seq(Registration), NEW x \in Registration
  PROVE  Grown(Sorted(list, x), list, x) /\ (InOrder(list) => InOrder(Sorted(list, x)))
<1> DEFINE k == Before(list, x) + 1
           new == Sorted(list, x)
           From(i) == IF i < k THEN i ELSE i - 1
<1>0. Len(list) \in Nat /\ k \in 1..Len(list) + 1
  <2>1. Len(list) \in Nat
    OBVIOUS
  <2> QED
    BY <2>1, BeforeFacts
<1>1. new = InsertAt(list, k, x)
  BY DEF Sorted, Before
<1>2. /\ new \in Seq(Registration) /\ Len(new) = Len(list) + 1 /\ new[k] = x
      /\ \A i \in 1..k - 1 : new[i] = list[i]
      /\ \A i \in k + 1..Len(list) + 1 : new[i] = list[i - 1]
  <2> HIDE DEF new, k
  <2>1. /\ InsertAt(list, k, x) \in Seq(Registration)
        /\ Len(InsertAt(list, k, x)) = Len(list) + 1
        /\ \A i \in 1..k - 1 : InsertAt(list, k, x)[i] = list[i]
        /\ InsertAt(list, k, x)[k] = x
        /\ \A i \in k + 1..Len(list) + 1 : InsertAt(list, k, x)[i] = list[i - 1]
    BY <1>0, InsertAtFacts
  <2> QED
    BY <1>1, <2>1
<1>3. /\ k - 1 # 0 => list[k - 1].priority <= x.priority
      /\ \A i \in k..Len(list) : ~(list[i].priority <= x.priority)
  <2>1. k - 1 = Before(list, x)
    BY BeforeFacts
  <2> QED
    BY <2>1, BeforeFacts
<1>4. \A i \in 1..Len(list) : list[i].priority \in Nat
  <2>1. \A i \in 1..Len(list) : list[i] \in Registration
    OBVIOUS
  <2> QED
    BY <2>1 DEF Registration
<1> HIDE DEF new, k
<1>5. ASSUME NEW i \in 1..Len(new), i # k
      PROVE  From(i) \in 1..Len(list) /\ new[i] = list[From(i)]
  <2>1. CASE i < k
    BY <1>0, <1>2, <2>1
  <2>2. CASE ~(i < k)
    <3>1. i \in k + 1..Len(list) + 1 /\ i - 1 \in 1..Len(list)
      BY <1>0, <1>2, <1>5, <2>2
    <3> QED
      BY <1>2, <2>2, <3>1
  <2> QED
    BY <2>1, <2>2
<1>6. /\ \A i, j \in 1..Len(new) : i < j /\ i # k /\ j # k => From(i) < From(j)
      /\ \A i \in 1..Len(new) : i < k => From(i) = i /\ i <= k - 1
      /\ \A i \in 1..Len(new) : k < i => From(i) \in k..Len(list)
  BY <1>0, <1>2
<1>7. ASSUME NEW a \in 1..Len(list) PROVE \E i \in 1..Len(new) : a <= i /\ new[i] = list[a]
  <2>1. CASE a < k
    BY <1>0, <1>2, <2>1
  <2>2. CASE ~(a < k)
    <3>1. a + 1 \in k + 1..Len(list) + 1 /\ a + 1 \in 1..Len(new) /\ a + 1 - 1 = a /\ a <= a + 1
      BY <1>0, <1>2, <2>2
    <3> QED
      BY <1>2, <3>1
  <2> QED
    BY <2>1, <2>2
<1> HIDE DEF From
<1>8. \A i, j \in 1..Len(new) : i < j =>
        \/ \E a, b \in 1..Len(list) : a < b /\ list[a] = new[i] /\ list[b] = new[j]
        \/ new[i] = x /\ \E b \in 1..Len(list) : list[b] = new[j]
        \/ new[j] = x /\ \E a \in 1..Len(list) : list[a] = new[i]
  <2> SUFFICES ASSUME NEW i \in 1..Len(new), NEW j \in 1..Len(new), i < j
               PROVE  \/ \E a, b \in 1..Len(list) : a < b /\ list[a] = new[i] /\ list[b] = new[j]
                      \/ new[i] = x /\ \E b \in 1..Len(list) : list[b] = new[j]
                      \/ new[j] = x /\ \E a \in 1..Len(list) : list[a] = new[i]
    OBVIOUS
  <2>1. CASE i = k
    <3>1. j # k
      BY <1>0, <1>2, <2>1
    <3> QED
      BY <1>2, <1>5, <2>1, <3>1
  <2>2. CASE j = k
    <3>1. i # k
      BY <1>0, <1>2, <2>2
    <3> QED
      BY <1>2, <1>5, <2>2, <3>1
  <2>3. CASE i # k /\ j # k
    BY <1>5, <1>6, <2>3
  <2> QED
    BY <2>1, <2>2, <2>3
<1>9. Grown(new, list, x)
  BY <1>2, <1>5, <1>7, <1>8, Zenon DEF Grown
<1>10. ASSUME InOrder(list), NEW i \in 1..Len(new), NEW j \in 1..Len(new), i < j
       PROVE  new[i].priority <= new[j].priority
  <2>1. CASE i # k /\ j # k
    BY <1>5, <1>6, <1>10, <2>1 DEF InOrder
  <2>2. CASE j = k
    <3>1. i <= k - 1 /\ k - 1 # 0 /\ k - 1 \in 1..Len(list) /\ i \in 1..Len(list) /\ new[i] = list[i]
      BY <1>0, <1>2, <1>10, <2>2
    <3>2. list[i].priority <= list[k - 1].priority
      <4>1. CASE i = k - 1
        BY <1>4, <3>1, <4>1
      <4>2. CASE i # k - 1
        <5>1. i < k - 1
          BY <1>0, <3>1, <4>2
        <5> QED
          BY <1>10, <3>1, <5>1 DEF InOrder
      <4> QED
        BY <4>1, <4>2
    <3>3. list[i].priority \in Nat /\ list[k - 1].priority \in Nat /\ x.priority \in Nat
      BY <1>4, <3>1 DEF Registration
    <3> QED
      BY <1>2, <1>3, <2>2, <3>1, <3>2, <3>3
  <2>3. CASE i = k
    <3>1. j - 1 \in k..Len(list) /\ j - 1 \in 1..Len(list) /\ new[j] = list[j - 1]
      BY <1>0, <1>2, <1>10, <2>3
    <3>2. list[j - 1].priority \in Nat /\ x.priority \in Nat
      BY <1>4, <3>1 DEF Registration
    <3> QED
      BY <1>2, <1>3, <2>3, <3>1, <3>2
  <2> QED
    BY <2>1, <2>2, <2>3
<1>11. InOrder(list) => InOrder(new)
  BY <1>10 DEF InOrder
<1> QED
  BY <1>9, <1>11 DEF new

LEMMA WithoutThins ==
  ASSUME NEW list \in Seq(Registration), NEW p
  PROVE  /\ Thinned(Without(list, p), list)
         /\ \A i \in 1..Len(Without(list, p)) : Without(list, p)[i].plugin # p
  BY WithoutFacts DEF Filtered, Thinned

LEMMA SameThins == ASSUME NEW list \in Seq(Registration) PROVE Thinned(list, list)
  BY DEF Thinned

LEMMA ThinnedInOrder ==
  ASSUME NEW new, NEW old, Thinned(new, old), InOrder(old) PROVE InOrder(new)
<1> SUFFICES ASSUME NEW i \in 1..Len(new), NEW j \in 1..Len(new), i < j
             PROVE  new[i].priority <= new[j].priority
  BY DEF InOrder
<1>1. PICK a \in 1..Len(old), b \in 1..Len(old) : a < b /\ old[a] = new[i] /\ old[b] = new[j]
  BY DEF Thinned
<1> QED
  BY <1>1 DEF InOrder

-----------------------------------------------------------------------------
(* The invariant.                                                          *)

\* What a request waits for concerns a plugin and the hooks it offers, and an
\* execution that has not begun has no index or array of its own.
Shape ==
  /\ \A r \in Requests :
       /\ call[r].at \in Awaits => call[r].plugin \in Plugins
       /\ call[r].at = "onEnable" => call[r].done \in 0..Len(HooksOf[call[r].plugin])
  /\ \A e \in Executions :
       exec[e].at = "idle" => exec[e].live /\ exec[e].index = 0 /\ ~exec[e].cut

TypeInv == TypeOK /\ Shape

\* unregisterPlugin finds an entry for every plugin that has a hook.
Tracked == \A i \in 1..Len(hooks) : hooks[i].plugin \in pluginHooks

\* A plugin that was not enabled yet, or was disabled since, has no hook.
AtRest(p) == status[p] \in {"installed", "disabled"} /\ Enabling(p) = {}
NoneAtRest == \A p \in Plugins : AtRest(p) => \A i \in 1..Len(hooks) : hooks[i].plugin # p

Manager == Tracked /\ NoneAtRest /\ InOrder(hooks)

\* What is due lies ahead of the index, in an array out of which nothing was taken.
Ahead(e) ==
  \A x \in exec[e].due : \E j \in 1..Len(Array(e)) : exec[e].index < j /\ Array(e)[j] = x

DueAhead ==
  \A e \in Executions : ~exec[e].cut =>
    /\ exec[e].at \in {"walking", "calling"} => Ahead(e)
    /\ exec[e].at = "ended" => exec[e].due = {}

\* The offer of its plugin a registration comes from.
IsOffer(x, m) == m \in DOMAIN HooksOf[x.plugin] /\ HooksOf[x.plugin][m].handler = x.handler

OffersOnly == \A i \in 1..Len(hooks) : \E m \in DOMAIN HooksOf[hooks[i].plugin] : IsOffer(hooks[i], m)

Distinct ==
  \A i, j \in 1..Len(hooks) :
    i < j /\ hooks[i].plugin \notin untidy => hooks[i].handler # hooks[j].handler

\* One request enables a tidy plugin, and has registered no more than it has counted.
OneEnabler ==
  \A p \in Plugins : p \notin untidy => \A r, s \in Enabling(p) : r = s

CountedOnly ==
  \A p \in Plugins : p \notin untidy =>
    \A r \in Enabling(p), i \in 1..Len(hooks) :
      hooks[i].plugin = p => \E m \in 1..call[r].done : IsOffer(hooks[i], m)

Single == OffersOnly /\ Distinct /\ OneEnabler /\ CountedOnly

Inv == TypeInv /\ Manager /\ DueAhead /\ Single

-----------------------------------------------------------------------------
(* The steps in terms of what the invariant speaks of.                     *)

\* Requests that leave the hooks alone.
Quiet(r) ==
  \/ \E p \in Plugins : Enable(r, p) \/ Disable(r, p) \/ Unload(r, p)
  \/ EnableFails(r) \/ Enabled(r) \/ DisableFails(r) \/ Unloaded(r) \/ UnloadFails(r)

Parked(r, c) == call' = [call EXCEPT ![r] = c]
Free == [at |-> "over", plugin |-> NoPlugin, done |-> 0]
At(await, p) == [at |-> await, plugin |-> p, done |-> 0]

LEMMA GotoParks ==
  ASSUME NEW r \in Requests, NEW await, NEW p PROVE Goto(r, await, p) => Parked(r, At(await, p))
  BY DEF Goto, Parked, At

LEMMA OverParks == ASSUME NEW r \in Requests PROVE Over(r) => Parked(r, Free)
  BY DEF Over, Goto, Parked, Free

LEMMA StatusFacts ==
  ASSUME TypeInv, NEW p \in Plugins, NEW s \in PluginStatus, SetStatus(p, s)
  PROVE  /\ status' \in [Plugins -> PluginStatus] /\ status'[p] \in {"unloaded", s}
         /\ \A q \in Plugins \ {p} : status'[q] = status[q]
  BY DEF SetStatus, TypeInv, TypeOK

\* A registration made from an offer, and what registering it changes.
LEMMA RegisterFacts ==
  ASSUME TypeInv, NEW r \in Requests, RegisterHook(r)
  PROVE  \E p \in Plugins, x \in Registration : \E m \in DOMAIN HooksOf[p] :
           /\ r \in Enabling(p) /\ m = call[r].done + 1 /\ m \in 1..Len(HooksOf[p])
           /\ x.plugin = p /\ IsOffer(x, m)
           /\ Grown(hooks', hooks, x) /\ (InOrder(hooks) => InOrder(hooks'))
           /\ pluginHooks' = pluginHooks \cup {p}
           /\ call' = [call EXCEPT ![r].done = m]
           /\ UNCHANGED <<status, exec, untidy>>
<1> DEFINE p == call[r].plugin
           m == call[r].done + 1
           x == [handler |-> HooksOf[p][m].handler, plugin |-> p, priority |-> HooksOf[p][m].priority]
<1>1. p \in Plugins /\ r \in Enabling(p) /\ m \in DOMAIN HooksOf[p]
  BY DEF RegisterHook, TypeInv, Shape, Awaits, Enabling
<1>2. HooksOf[p] \in Seq(Offer)
  BY <1>1, PluginAssumption
<1>3. HooksOf[p][m] \in Offer /\ m \in 1..Len(HooksOf[p])
  <2> HIDE DEF p, m
  <2> QED
    BY <1>1, <1>2
<1>4. x \in Registration /\ x.plugin = p /\ IsOffer(x, m)
  <2> HIDE DEF p, m
  <2> QED
    BY <1>1, <1>3 DEF Offer, Registration, IsOffer
<1>5. hooks' = Sorted(hooks, x) /\ pluginHooks' = pluginHooks \cup {p}
      /\ call' = [call EXCEPT ![r].done = m] /\ UNCHANGED <<status, exec, untidy>>
  BY DEF RegisterHook, Register
<1> HIDE DEF p, m, x
<1>6. Grown(hooks', hooks, x) /\ (InOrder(hooks) => InOrder(hooks'))
  BY <1>4, <1>5, SortedGrows DEF TypeInv, TypeOK
<1>7. m = call[r].done + 1
  BY DEF m
<1> QED
  BY <1>1, <1>3, <1>4, <1>5, <1>6, <1>7

LEMMA UnregisterFacts ==
  ASSUME TypeInv, Tracked, NEW p \in Plugins, UnregisterPlugin(p)
  PROVE  /\ Thinned(hooks', hooks) /\ \A i \in 1..Len(hooks') : hooks'[i].plugin # p
         /\ pluginHooks' = pluginHooks \ {p}
         /\ \A e \in Executions :
              \/ exec'[e] = exec[e] /\ (OnHooks(e) => hooks' = hooks)
              \/ OnHooks(e) /\ exec'[e] = [exec[e] EXCEPT !.live = FALSE, !.seen = hooks]
         /\ exec' \in [Executions -> Walks]
<1>0. hooks \in Seq(Registration) /\ exec \in [Executions -> Walks]
  BY DEF TypeInv, TypeOK
<1>1. CASE p \in pluginHooks
  <2>1. /\ hooks' = Without(hooks, p) /\ pluginHooks' = pluginHooks \ {p}
        /\ exec' = [e \in Executions |-> IF OnHooks(e)
                     THEN [exec[e] EXCEPT !.live = FALSE, !.seen = hooks] ELSE exec[e]]
    BY <1>1 DEF UnregisterPlugin, Others
  <2>2. exec' \in [Executions -> Walks]
    BY <1>0, <2>1 DEF Walks
  <2>3. Thinned(hooks', hooks) /\ \A i \in 1..Len(hooks') : hooks'[i].plugin # p
    BY <1>0, <2>1, WithoutThins
  <2>4. ASSUME NEW e \in Executions
        PROVE  \/ exec'[e] = exec[e] /\ (OnHooks(e) => hooks' = hooks)
               \/ OnHooks(e) /\ exec'[e] = [exec[e] EXCEPT !.live = FALSE, !.seen = hooks]
    BY <2>1
  <2> QED
    BY <2>1, <2>2, <2>3, <2>4
<1>2. CASE p \notin pluginHooks
  <2>1. UNCHANGED <<hooks, pluginHooks, exec>>
    BY <1>2 DEF UnregisterPlugin
  <2>2. Thinned(hooks', hooks)
    BY <1>0, <2>1, SameThins
  <2>3. \A i \in 1..Len(hooks') : hooks'[i].plugin # p
    BY <1>2, <2>1 DEF Tracked
  <2>4. pluginHooks' = pluginHooks \ {p}
    BY <1>2, <2>1
  <2> QED
    BY <1>0, <2>1, <2>2, <2>3, <2>4
<1> QED
  BY <1>1, <1>2

LEMMA UnregisterOneFacts ==
  ASSUME TypeInv, NEW i \in DOMAIN hooks, Unregister(i)
  PROVE  /\ Thinned(hooks', hooks)
         /\ UNCHANGED <<pluginHooks, status, call, untidy>>
         /\ \A e \in Executions :
              exec'[e] = IF OnHooks(e) THEN [exec[e] EXCEPT !.cut = TRUE] ELSE exec[e]
         /\ exec' \in [Executions -> Walks]
<1>0. hooks \in Seq(Registration) /\ exec \in [Executions -> Walks]
  BY DEF TypeInv, TypeOK
<1>1. i \in 1..Len(hooks) /\ hooks' = RemoveAt(hooks, i)
  BY <1>0 DEF Unregister
<1>2. exec' \in [Executions -> Walks]
  BY <1>0 DEF Unregister, Cut, Walks
<1> QED
  BY <1>0, <1>1, <1>2, RemoveAtThins DEF Unregister, Cut

LEMMA QuietFacts ==
  ASSUME TypeInv, NEW r \in Requests, Quiet(r)
  PROVE  /\ UNCHANGED <<hooks, pluginHooks, exec>>
         /\ \/ Parked(r, Free)
            \/ \E a \in Awaits, p \in Plugins : Parked(r, At(a, p))
         /\ status' \in [Plugins -> PluginStatus]
         /\ untidy' \in SUBSET Plugins /\ untidy \subseteq untidy'
<1>0. status \in [Plugins -> PluginStatus] /\ untidy \in SUBSET Plugins
      /\ (call[r].at \in Awaits => call[r].plugin \in Plugins)
  BY DEF TypeInv, TypeOK, Shape
<1>1. ASSUME NEW p \in Plugins, Enable(r, p) \/ Disable(r, p) \/ Unload(r, p)
      PROVE  /\ UNCHANGED <<hooks, pluginHooks, exec>> /\ status' = status
             /\ Parked(r, Free) \/ \E a \in Awaits : Parked(r, At(a, p))
             /\ untidy' \in {untidy, untidy \cup {p}}
  <2>1. Over(r) \/ Goto(r, "onEnable", p) \/ Goto(r, "onDisable", p)
        \/ Goto(r, "onDisableFirst", p) \/ Goto(r, "onUnload", p)
    BY <1>1 DEF Enable, Disable, Unload
  <2>2. Parked(r, Free) \/ \E a \in Awaits : Parked(r, At(a, p))
    BY <2>1, GotoParks, OverParks DEF Awaits
  <2>3. UNCHANGED <<hooks, pluginHooks, exec>> /\ status' = status
    BY <1>1 DEF Enable, Disable, Unload, manager
  <2>4. untidy' \in {untidy, untidy \cup {p}}
    BY <1>1 DEF Enable, Disable, Unload
  <2> QED
    BY <2>2, <2>3, <2>4
<1>2. CASE EnableFails(r) \/ Enabled(r) \/ DisableFails(r) \/ Unloaded(r) \/ UnloadFails(r)
  <2>1. call[r].plugin \in Plugins
    BY <1>0, <1>2 DEF EnableFails, Enabled, DisableFails, Unloaded, UnloadFails, Awaits
  <2>2. \/ status' = status
        \/ \E s \in PluginStatus : SetStatus(call[r].plugin, s)
    BY <1>2 DEF EnableFails, Enabled, DisableFails, Unloaded, UnloadFails, PluginStatus
  <2>3. status' \in [Plugins -> PluginStatus]
    BY <1>0, <2>1, <2>2, StatusFacts
  <2>4. Parked(r, Free) /\ UNCHANGED <<hooks, pluginHooks, exec, untidy>>
    BY <1>2, OverParks DEF EnableFails, Enabled, DisableFails, Unloaded, UnloadFails, manager
  <2> QED
    BY <1>0, <2>3, <2>4
<1>3. CASE \E p \in Plugins : Enable(r, p) \/ Disable(r, p) \/ Unload(r, p)
  <2>1. PICK p \in Plugins : Enable(r, p) \/ Disable(r, p) \/ Unload(r, p)
    BY <1>3
  <2> QED
    BY <1>0, <1>1, <2>1
<1> QED
  BY <1>2, <1>3 DEF Quiet

LEMMA DisabledFacts ==
  ASSUME TypeInv, NEW r \in Requests, Disabled(r)
  PROVE  \E p \in Plugins :
           /\ UnregisterPlugin(p) /\ SetStatus(p, "disabled")
           /\ Parked(r, Free) \/ Parked(r, At("onUnload", p))
           /\ call[r].at \in {"onDisable", "onDisableFirst"}
           /\ untidy' = untidy
<1>1. call[r].plugin \in Plugins
  BY DEF Disabled, TypeInv, Shape, Awaits
<1> QED
  BY <1>1, GotoParks, OverParks DEF Disabled

LEMMA ParkedTypes ==
  ASSUME TypeInv, NEW r \in Requests,
         Parked(r, Free) \/ \E a \in Awaits, p \in Plugins : Parked(r, At(a, p))
  PROVE  /\ call' \in [Requests -> Calls]
         /\ \A s \in Requests :
              /\ call'[s].at \in Awaits => call'[s].plugin \in Plugins
              /\ call'[s].at = "onEnable" => call'[s].done \in 0..Len(HooksOf[call'[s].plugin])
<1>0. call \in [Requests -> Calls] /\ Shape
  BY DEF TypeInv, TypeOK
<1>1. PICK c \in Calls : /\ Parked(r, c)
                         /\ c = Free \/ \E a \in Awaits, p \in Plugins : c = At(a, p)
  <2>1. Free \in Calls /\ \A a \in Awaits, p \in Plugins : At(a, p) \in Calls
    BY DEF Free, At, Calls
  <2> QED
    BY <2>1
<1>2. /\ c.at \in Awaits => c.plugin \in Plugins
      /\ c.at = "onEnable" => c.done \in 0..Len(HooksOf[c.plugin])
  <2>1. CASE c = Free
    BY <2>1 DEF Free, Awaits
  <2>2. ASSUME NEW a \in Awaits, NEW p \in Plugins, c = At(a, p)
        PROVE  c.plugin \in Plugins /\ c.done \in 0..Len(HooksOf[c.plugin])
    <3>1. Len(HooksOf[p]) \in Nat
      BY PluginAssumption
    <3> QED
      BY <2>2, <3>1 DEF At
  <2> QED
    BY <1>1, <2>1, <2>2
<1>3. call' \in [Requests -> Calls] /\ call'[r] = c /\ \A s \in Requests \ {r} : call'[s] = call[s]
  BY <1>0, <1>1 DEF Parked
<1> QED
  BY <1>0, <1>2, <1>3 DEF Shape

LEMMA WalkTypes ==
  ASSUME TypeInv, NEW e \in Executions, Execute(e) \/ Step(e) \/ HandlerDone(e)
  PROVE  TypeInv'
<1>0. exec \in [Executions -> Walks] /\ hooks \in Seq(Registration) /\ Shape /\ exec[e] \in Walks
  BY DEF TypeInv, TypeOK
<1>1. UNCHANGED <<hooks, pluginHooks, status, call, untidy>>
  BY DEF Execute, Step, HandlerDone, manager
<1>2. \E w \in Walks : exec' = [exec EXCEPT ![e] = w] /\ w.at # "idle"
  <2>1. CASE Execute(e)
    <3>1. ToSet(hooks) \in SUBSET Registration
      BY <1>0 DEF ToSet
    <3> DEFINE w == [exec[e] EXCEPT !.at = IF hooks = <<>> THEN "ended" ELSE "walking",
                                    !.due = ToSet(hooks)]
    <3>2. w \in Walks /\ w.at # "idle"
      BY <1>0, <3>1 DEF Walks
    <3>3. exec' = [exec EXCEPT ![e] = w]
      BY <2>1 DEF Execute
    <3> QED
      BY <3>2, <3>3
  <2>2. CASE Step(e)
    <3> DEFINE next == exec[e].index + 1
               x == Array(e)[next]
               v == [exec[e] EXCEPT !.at = "calling", !.index = next, !.due = @ \ {x}]
               w == [exec[e] EXCEPT !.at = "ended", !.seen = <<>>, !.index = 0]
    <3>1. next \in Nat /\ exec[e].due \ {x} \in SUBSET Registration
      BY <1>0 DEF Walks
    <3>2. exec' = [exec EXCEPT ![e] = IF next <= Len(Array(e)) THEN v ELSE w]
      BY <2>2 DEF Step
    <3> HIDE DEF next, x
    <3>3. v \in Walks /\ v.at # "idle"
      BY <1>0, <3>1 DEF Walks
    <3>4. w \in Walks /\ w.at # "idle"
      <4>1. <<>> \in Seq(Registration)
        OBVIOUS
      <4> QED
        BY <1>0, <4>1 DEF Walks
    <3> HIDE DEF v, w
    <3> QED
      BY <3>2, <3>3, <3>4
  <2>3. CASE HandlerDone(e)
    <3>1. PICK next \in {"walking", "stopped"} : exec' = [exec EXCEPT ![e].at = next]
      BY <2>3 DEF HandlerDone
    <3>2. [exec[e] EXCEPT !.at = next] \in Walks /\ [exec[e] EXCEPT !.at = next].at # "idle"
      BY <1>0 DEF Walks
    <3> QED
      BY <3>1, <3>2
  <2> QED
    BY <2>1, <2>2, <2>3
<1>3. exec' \in [Executions -> Walks]
      /\ \A f \in Executions : exec'[f].at = "idle" => exec'[f] = exec[f]
  BY <1>0, <1>2
<1>4. TypeOK'
  BY <1>1, <1>3 DEF TypeInv, TypeOK
<1>5. Shape'
  BY <1>0, <1>1, <1>3 DEF Shape
<1> QED
  BY <1>4, <1>5 DEF TypeInv

LEMMA TypeStep == ASSUME TypeInv, Tracked, [Next]_vars PROVE TypeInv'
<1>0. Shape /\ TypeOK
  BY DEF TypeInv
<1>1. ASSUME NEW r \in Requests, Quiet(r) PROVE TypeInv'
  <2>1. TypeOK'
    BY <1>0, <1>1, QuietFacts, ParkedTypes DEF TypeOK
  <2>2. Shape'
    BY <1>0, <1>1, QuietFacts, ParkedTypes DEF Shape
  <2> QED
    BY <2>1, <2>2 DEF TypeInv
<1>2. ASSUME NEW r \in Requests, RegisterHook(r) PROVE TypeInv'
  <2>1. PICK p \in Plugins, x \in Registration : \E m \in DOMAIN HooksOf[p] :
           /\ r \in Enabling(p) /\ m = call[r].done + 1 /\ m \in 1..Len(HooksOf[p])
           /\ x.plugin = p /\ IsOffer(x, m)
           /\ Grown(hooks', hooks, x) /\ (InOrder(hooks) => InOrder(hooks'))
           /\ pluginHooks' = pluginHooks \cup {p}
           /\ call' = [call EXCEPT ![r].done = m]
           /\ UNCHANGED <<status, exec, untidy>>
    BY <1>2, RegisterFacts
  <2>2. PICK m \in 1..Len(HooksOf[p]) : call' = [call EXCEPT ![r].done = m]
    BY <2>1
  <2>3. m \in Nat /\ m \in 0..Len(HooksOf[p])
    BY <2>2
  <2>4. call' \in [Requests -> Calls]
    BY <1>0, <2>2, <2>3 DEF TypeOK, Calls
  <2>5. hooks' \in Seq(Registration)
    BY <2>1 DEF Grown
  <2>6. TypeOK'
    BY <1>0, <2>1, <2>4, <2>5 DEF TypeOK
  <2>7. call[r].plugin = p /\ call[r].at = "onEnable"
    BY <2>1 DEF Enabling
  <2>8. call'[r].plugin = p /\ call'[r].done = m /\ \A s \in Requests \ {r} : call'[s] = call[s]
    BY <1>0, <2>2, <2>7 DEF TypeOK, Calls
  <2>9. Shape'
    BY <1>0, <2>1, <2>3, <2>8 DEF Shape
  <2> QED
    BY <2>6, <2>9 DEF TypeInv
<1>3. ASSUME NEW r \in Requests, Disabled(r) PROVE TypeInv'
  <2>1. PICK p \in Plugins :
           /\ UnregisterPlugin(p) /\ SetStatus(p, "disabled")
           /\ Parked(r, Free) \/ Parked(r, At("onUnload", p))
           /\ untidy' = untidy
    BY <1>3, DisabledFacts
  <2>2. status' \in [Plugins -> PluginStatus]
    BY <2>1, StatusFacts DEF PluginStatus
  <2>3. "onUnload" \in Awaits
    BY DEF Awaits
  <2>4. hooks' \in Seq(Registration) /\ pluginHooks' \in SUBSET Plugins
        /\ exec' \in [Executions -> Walks]
    BY <1>0, <2>1, UnregisterFacts DEF Thinned, TypeOK
  <2>5. TypeOK'
    BY <1>0, <2>1, <2>2, <2>3, <2>4, ParkedTypes DEF TypeOK
  <2>6. \A e \in Executions : exec'[e].at = "idle" => exec'[e] = exec[e]
    <3>1. \A e \in Executions : OnHooks(e) => exec[e].at # "idle" /\ exec[e] \in Walks
      BY <1>0 DEF OnHooks, TypeOK
    <3>2. \A e \in Executions : OnHooks(e) =>
            [exec[e] EXCEPT !.live = FALSE, !.seen = hooks].at = exec[e].at
      BY <3>1 DEF Walks
    <3> SUFFICES ASSUME NEW e \in Executions, exec'[e].at = "idle" PROVE exec'[e] = exec[e]
      OBVIOUS
    <3>3. \/ exec'[e] = exec[e]
          \/ OnHooks(e) /\ exec'[e] = [exec[e] EXCEPT !.live = FALSE, !.seen = hooks]
      BY <2>1, UnregisterFacts
    <3> QED
      BY <3>1, <3>2, <3>3
  <2>7. Shape'
    BY <1>0, <2>1, <2>3, <2>6, ParkedTypes DEF Shape
  <2> QED
    BY <2>5, <2>7 DEF TypeInv
<1>4. ASSUME NEW i \in DOMAIN hooks, Unregister(i) PROVE TypeInv'
  <2>1. TypeOK'
    BY <1>0, <1>4, UnregisterOneFacts DEF Thinned, TypeOK
  <2>2. \A e \in Executions : exec'[e].at = "idle" => exec'[e] = exec[e]
    <3>1. \A e \in Executions : OnHooks(e) => exec[e].at # "idle" /\ exec[e] \in Walks
      BY <1>0 DEF OnHooks, TypeOK
    <3>2. \A e \in Executions : OnHooks(e) => [exec[e] EXCEPT !.cut = TRUE].at = exec[e].at
      BY <3>1 DEF Walks
    <3> QED
      BY <1>4, <3>1, <3>2, UnregisterOneFacts
  <2>3. Shape'
    BY <1>0, <1>4, <2>2, UnregisterOneFacts DEF Shape
  <2> QED
    BY <2>1, <2>3 DEF TypeInv
<1>5. CASE UNCHANGED vars
  BY <1>0, <1>5 DEF vars, manager, TypeInv, TypeOK, Shape
<1> QED
  BY <1>1, <1>2, <1>3, <1>4, <1>5, WalkTypes DEF Next, Request, Quiet

-----------------------------------------------------------------------------
(* The manager: entries, plugins at rest, the order of the array.          *)

LEMMA QuietRest ==
  ASSUME TypeInv, NEW r \in Requests, Quiet(r), NEW q \in Plugins, AtRest(q)' PROVE AtRest(q)
<1>0. call \in [Requests -> Calls] /\ status \in [Plugins -> PluginStatus]
      /\ (call[r].at \in Awaits => call[r].plugin \in Plugins)
  BY DEF TypeInv, TypeOK, Shape
<1>1. \A s \in Requests \ {r} : call'[s] = call[s]
  BY <1>0, QuietFacts DEF Parked
<1>2. CASE \E p \in Plugins : Enable(r, p) \/ Disable(r, p) \/ Unload(r, p)
  <2>1. status' = status /\ call[r].at # "onEnable"
    BY <1>2 DEF Enable, Disable, Unload
  <2> QED
    BY <1>1, <2>1 DEF AtRest, Enabling
<1>3. CASE EnableFails(r) \/ Enabled(r) \/ DisableFails(r) \/ Unloaded(r)
  <2> DEFINE p == call[r].plugin
  <2>1. p \in Plugins
    BY <1>0, <1>3 DEF EnableFails, Enabled, DisableFails, Unloaded, Awaits
  <2>2. PICK s \in {"error", "enabled", "unloaded"} : SetStatus(p, s)
    BY <1>3 DEF EnableFails, Enabled, DisableFails, Unloaded
  <2>3. status'[p] \in {"unloaded", s} /\ \A t \in Plugins \ {p} : status'[t] = status[t]
    BY <2>1, <2>2, StatusFacts DEF PluginStatus
  <2>4. q # p
    BY <2>2, <2>3 DEF AtRest
  <2> QED
    BY <1>1, <2>3, <2>4 DEF AtRest, Enabling
<1>4. CASE UnloadFails(r)
  <2>1. status' = status /\ call[r].at # "onEnable"
    BY <1>4 DEF UnloadFails
  <2> QED
    BY <1>1, <2>1 DEF AtRest, Enabling
<1> QED
  BY <1>2, <1>3, <1>4 DEF Quiet

\* A plugin that is being enabled stays so, and others with it, while hooks are registered.
LEMMA SameEnabling ==
  ASSUME TypeInv, NEW r \in Requests, NEW m, call' = [call EXCEPT ![r].done = m]
  PROVE  /\ \A q \in Plugins : Enabling(q)' = Enabling(q)
         /\ \A s \in Requests : s # r => call'[s].done = call[s].done
         /\ call'[r].done = m
<1>0. call \in [Requests -> Calls]
  BY DEF TypeInv, TypeOK
<1>1. \A s \in Requests : call'[s].at = call[s].at /\ call'[s].plugin = call[s].plugin
  BY <1>0 DEF Calls
<1>2. call'[r].done = m /\ \A s \in Requests : s # r => call'[s].done = call[s].done
  BY <1>0 DEF Calls
<1> QED
  BY <1>1, <1>2 DEF Enabling

LEMMA DisabledEnabling ==
  ASSUME TypeInv, NEW r \in Requests, NEW p \in Plugins,
         Parked(r, Free) \/ Parked(r, At("onUnload", p)), call[r].at \in {"onDisable", "onDisableFirst"}
  PROVE  /\ \A q \in Plugins : Enabling(q)' = Enabling(q)
         /\ \A q \in Plugins : \A s \in Enabling(q) : call'[s] = call[s]
<1>0. call \in [Requests -> Calls]
  BY DEF TypeInv, TypeOK
<1>1. call'[r].at # "onEnable" /\ call[r].at # "onEnable"
      /\ \A s \in Requests \ {r} : call'[s] = call[s]
  BY <1>0 DEF Parked, Free, At
<1> QED
  BY <1>1 DEF Enabling

LEMMA ManagerStep == ASSUME TypeInv, Manager, [Next]_vars PROVE Manager'
<1>0. Tracked /\ NoneAtRest /\ InOrder(hooks) /\ TypeOK
  BY DEF Manager, TypeInv
<1>1. ASSUME NEW r \in Requests, Quiet(r) PROVE Manager'
  <2>1. UNCHANGED <<hooks, pluginHooks>>
    BY <1>1, QuietFacts
  <2>2. NoneAtRest'
    BY <1>0, <1>1, <2>1, QuietRest DEF NoneAtRest
  <2>3. Tracked' /\ InOrder(hooks')
    BY <1>0, <2>1 DEF Tracked
  <2> QED
    BY <2>2, <2>3 DEF Manager
<1>2. ASSUME NEW r \in Requests, RegisterHook(r) PROVE Manager'
  <2>1. PICK p \in Plugins, x \in Registration : \E m \in DOMAIN HooksOf[p] :
           /\ r \in Enabling(p) /\ m = call[r].done + 1 /\ m \in 1..Len(HooksOf[p])
           /\ x.plugin = p /\ IsOffer(x, m)
           /\ Grown(hooks', hooks, x) /\ (InOrder(hooks) => InOrder(hooks'))
           /\ pluginHooks' = pluginHooks \cup {p}
           /\ call' = [call EXCEPT ![r].done = m]
           /\ UNCHANGED <<status, exec, untidy>>
    BY <1>2, RegisterFacts
  <2>2. \A q \in Plugins : Enabling(q)' = Enabling(q)
    BY <2>1, SameEnabling
  <2>3. \A i \in 1..Len(hooks') : hooks'[i] = x \/ \E a \in 1..Len(hooks) : hooks[a] = hooks'[i]
    BY <2>1 DEF Grown
  <2>4. Tracked'
    <3> SUFFICES ASSUME NEW i \in 1..Len(hooks') PROVE hooks'[i].plugin \in pluginHooks'
      BY DEF Tracked
    <3>1. CASE hooks'[i] = x
      BY <2>1, <3>1
    <3>2. CASE \E a \in 1..Len(hooks) : hooks[a] = hooks'[i]
      BY <1>0, <2>1, <3>2 DEF Tracked
    <3> QED
      BY <2>3, <3>1, <3>2
  <2>5. NoneAtRest'
    <3> SUFFICES ASSUME NEW q \in Plugins, AtRest(q)', NEW i \in 1..Len(hooks'), hooks'[i].plugin = q
                 PROVE  FALSE
      BY DEF NoneAtRest
    <3>1. AtRest(q) /\ q # p
      BY <2>1, <2>2 DEF AtRest
    <3>2. PICK a \in 1..Len(hooks) : hooks[a] = hooks'[i]
      BY <2>1, <2>3, <3>1
    <3> QED
      BY <1>0, <3>1, <3>2 DEF NoneAtRest
  <2> QED
    BY <1>0, <2>1, <2>4, <2>5 DEF Manager
<1>3. ASSUME NEW r \in Requests, Disabled(r) PROVE Manager'
  <2>1. PICK p \in Plugins :
           /\ UnregisterPlugin(p) /\ SetStatus(p, "disabled")
           /\ Parked(r, Free) \/ Parked(r, At("onUnload", p))
           /\ call[r].at \in {"onDisable", "onDisableFirst"}
           /\ untidy' = untidy
    BY <1>3, DisabledFacts
  <2>2. Thinned(hooks', hooks) /\ pluginHooks' = pluginHooks \ {p}
        /\ \A i \in 1..Len(hooks') : hooks'[i].plugin # p
    BY <1>0, <2>1, UnregisterFacts
  <2>3. \A i \in 1..Len(hooks') : \E a \in 1..Len(hooks) : hooks[a] = hooks'[i]
    BY <2>2 DEF Thinned
  <2>4. Tracked'
    BY <1>0, <2>2, <2>3 DEF Tracked
  <2>5. \A q \in Plugins \ {p} : status'[q] = status[q]
    BY <2>1, StatusFacts DEF PluginStatus
  <2>6. \A q \in Plugins : Enabling(q)' = Enabling(q)
    BY <2>1, DisabledEnabling
  <2>7. NoneAtRest'
    <3> SUFFICES ASSUME NEW q \in Plugins, AtRest(q)', NEW i \in 1..Len(hooks'), hooks'[i].plugin = q
                 PROVE  FALSE
      BY DEF NoneAtRest
    <3>1. AtRest(q) /\ q # p
      BY <2>2, <2>5, <2>6 DEF AtRest
    <3>2. PICK a \in 1..Len(hooks) : hooks[a] = hooks'[i]
      BY <2>3
    <3> QED
      BY <1>0, <3>1, <3>2 DEF NoneAtRest
  <2> QED
    BY <1>0, <2>2, <2>4, <2>7, ThinnedInOrder DEF Manager
<1>4. ASSUME NEW k \in DOMAIN hooks, Unregister(k) PROVE Manager'
  <2>1. Thinned(hooks', hooks) /\ UNCHANGED <<pluginHooks, status, call, untidy>>
    BY <1>4, UnregisterOneFacts
  <2>2. \A i \in 1..Len(hooks') : \E a \in 1..Len(hooks) : hooks[a] = hooks'[i]
    BY <2>1 DEF Thinned
  <2>3. Tracked'
    BY <1>0, <2>1, <2>2 DEF Tracked
  <2>4. NoneAtRest'
    BY <1>0, <2>1, <2>2 DEF NoneAtRest, AtRest, Enabling
  <2> QED
    BY <1>0, <2>1, <2>3, <2>4, ThinnedInOrder DEF Manager
<1>5. ASSUME UNCHANGED <<manager, status, call>> PROVE Manager'
  BY <1>0, <1>5 DEF manager, Manager, Tracked, NoneAtRest, AtRest, Enabling
<1> QED
  BY <1>1, <1>2, <1>3, <1>4, <1>5
     DEF Next, Request, Quiet, Execute, Step, HandlerDone, vars

-----------------------------------------------------------------------------
(* The executions.                                                         *)

\* Whoever waits on an execution, its index moves past what it has called only.
LEMMA WalkStep ==
  ASSUME TypeInv, DueAhead, NEW e \in Executions, Execute(e) \/ Step(e) \/ HandlerDone(e)
  PROVE  DueAhead'
<1>0. exec \in [Executions -> Walks] /\ hooks \in Seq(Registration) /\ Shape /\ exec[e] \in Walks
  BY DEF TypeInv, TypeOK
<1>1. hooks' = hooks /\ \A f \in Executions \ {e} : exec'[f] = exec[f]
  BY <1>0 DEF Execute, Step, HandlerDone, manager
<1>2. ASSUME NEW f \in Executions \ {e}, ~exec'[f].cut
      PROVE  /\ exec'[f].at \in {"walking", "calling"} => Ahead(f)'
             /\ exec'[f].at = "ended" => exec'[f].due = {}
  BY <1>1, <1>2 DEF DueAhead, Ahead, Array
<1>3. ASSUME ~exec'[e].cut
      PROVE  /\ exec'[e].at \in {"walking", "calling"} => Ahead(e)'
             /\ exec'[e].at = "ended" => exec'[e].due = {}
  <2>1. CASE Execute(e)
    <3>1. exec'[e].live /\ exec'[e].index = 0 /\ exec'[e].due = ToSet(hooks)
          /\ (exec'[e].at = "ended" => hooks = <<>>)
      BY <1>0, <2>1 DEF Execute, Shape, Walks
    <3>2. \A x \in ToSet(hooks) : \E j \in 1..Len(hooks) : 0 < j /\ hooks[j] = x
      <4>1. DOMAIN hooks = 1..Len(hooks) /\ \A j \in 1..Len(hooks) : 0 < j
        BY <1>0
      <4> QED
        BY <4>1 DEF ToSet
    <3>3. hooks = <<>> => ToSet(hooks) = {}
      BY DEF ToSet
    <3> QED
      BY <1>1, <3>1, <3>2, <3>3 DEF Ahead, Array
  <2>2. CASE Step(e)
    <3> DEFINE next == exec[e].index + 1
    <3>0. next \in Nat /\ Len(Array(e)) \in Nat /\ ~exec[e].cut /\ Ahead(e)
      <4>1. Array(e) \in Seq(Registration) /\ next \in Nat
        BY <1>0 DEF Array, Walks
      <4>2. exec'[e].cut = exec[e].cut /\ exec[e].at = "walking"
        BY <1>0, <2>2 DEF Step, Walks
      <4> QED
        BY <1>3, <4>1, <4>2 DEF DueAhead
    <3>1. CASE next <= Len(Array(e))
      <4>1. exec'[e] = [exec[e] EXCEPT !.at = "calling", !.index = next, !.due = @ \ {Array(e)[next]}]
        BY <1>0, <2>2, <3>1 DEF Step
      <4>2. exec'[e].at = "calling" /\ exec'[e].index = next /\ Array(e)' = Array(e)
            /\ exec'[e].due = exec[e].due \ {Array(e)[next]}
        BY <1>0, <1>1, <4>1 DEF Array, Walks
      <4>3. ASSUME NEW x \in exec[e].due \ {Array(e)[next]}
            PROVE  \E j \in 1..Len(Array(e)) : next < j /\ Array(e)[j] = x
        <5>1. PICK j \in 1..Len(Array(e)) : exec[e].index < j /\ Array(e)[j] = x
          BY <3>0 DEF Ahead
        <5>2. j # next
          BY <5>1
        <5>3. next < j
          <6>1. exec[e].index \in Nat /\ j \in Nat
            BY <1>0 DEF Walks
          <6> QED
            BY <5>1, <5>2, <6>1
        <5> QED
          BY <5>1, <5>3
      <4>4. Ahead(e)'
        <5> HIDE DEF next
        <5> QED
          BY <4>2, <4>3 DEF Ahead
      <4> QED
        BY <4>2, <4>4
    <3>2. CASE ~(next <= Len(Array(e)))
      <4>1. exec'[e] = [exec[e] EXCEPT !.at = "ended", !.seen = <<>>, !.index = 0]
        BY <1>0, <2>2, <3>2 DEF Step
      <4>2. exec'[e].at = "ended" /\ exec'[e].due = exec[e].due
        BY <1>0, <4>1 DEF Walks
      <4>3. exec[e].due = {}
        <5> SUFFICES ASSUME NEW x \in exec[e].due PROVE FALSE
          OBVIOUS
        <5>1. PICK j \in 1..Len(Array(e)) : exec[e].index < j
          BY <3>0 DEF Ahead
        <5>2. exec[e].index \in Nat /\ j \in Nat
          BY <1>0 DEF Walks
        <5> QED
          BY <3>0, <3>2, <5>1, <5>2
      <4> QED
        BY <4>2, <4>3
    <3> QED
      BY <3>1, <3>2
  <2>3. CASE HandlerDone(e)
    <3>1. /\ exec'[e].at \in {"walking", "stopped"} /\ exec[e].at = "calling"
          /\ exec'[e].due = exec[e].due /\ exec'[e].index = exec[e].index
          /\ exec'[e].live = exec[e].live /\ exec'[e].seen = exec[e].seen
          /\ exec'[e].cut = exec[e].cut
      BY <1>0, <2>3 DEF HandlerDone, Walks
    <3> QED
      BY <1>1, <1>3, <3>1 DEF DueAhead, Ahead, Array
  <2> QED
    BY <2>1, <2>2, <2>3
<1> QED
  BY <1>2, <1>3 DEF DueAhead

LEMMA DueStep == ASSUME TypeInv, Tracked, DueAhead, [Next]_vars PROVE DueAhead'
<1>0. exec \in [Executions -> Walks] /\ hooks \in Seq(Registration)
  BY DEF TypeInv, TypeOK
<1>1. ASSUME UNCHANGED <<hooks, exec>> PROVE DueAhead'
  BY <1>1 DEF DueAhead, Ahead, Array
<1>2. ASSUME NEW r \in Requests, RegisterHook(r) PROVE DueAhead'
  <2>1. exec' = exec /\ \E x \in Registration : Grown(hooks', hooks, x)
    BY <1>2, RegisterFacts
  <2>2. \A a \in 1..Len(hooks) : \E i \in 1..Len(hooks') : a <= i /\ hooks'[i] = hooks[a]
    BY <2>1 DEF Grown
  <2>3. ASSUME NEW e \in Executions, Ahead(e) PROVE Ahead(e)'
    <3>1. CASE ~exec[e].live
      BY <2>1, <2>3, <3>1 DEF Ahead, Array
    <3>2. CASE exec[e].live
      <4>1. Array(e) = hooks /\ Array(e)' = hooks'
        BY <2>1, <3>2 DEF Array
      <4> SUFFICES ASSUME NEW x \in exec[e].due
                   PROVE  \E i \in 1..Len(hooks') : exec[e].index < i /\ hooks'[i] = x
        BY <2>1, <4>1 DEF Ahead
      <4>2. PICK a \in 1..Len(hooks) : exec[e].index < a /\ hooks[a] = x
        BY <2>3, <4>1 DEF Ahead
      <4>3. PICK i \in 1..Len(hooks') : a <= i /\ hooks'[i] = hooks[a]
        BY <2>2
      <4>4. exec[e].index \in Nat /\ a \in Nat /\ i \in Nat
        BY <1>0 DEF Walks
      <4> QED
        BY <4>2, <4>3, <4>4
    <3> QED
      BY <3>1, <3>2
  <2> QED
    BY <2>1, <2>3 DEF DueAhead
<1>3. ASSUME NEW r \in Requests, Disabled(r) PROVE DueAhead'
  <2>1. PICK p \in Plugins : UnregisterPlugin(p)
    BY <1>3, DisabledFacts
  <2>2. ASSUME NEW e \in Executions
        PROVE  /\ exec'[e].at = exec[e].at /\ exec'[e].cut = exec[e].cut
               /\ exec'[e].due = exec[e].due /\ exec'[e].index = exec[e].index
               /\ exec[e].at \in {"walking", "calling"} => Array(e)' = Array(e)
    <3>1. \/ exec'[e] = exec[e] /\ (OnHooks(e) => hooks' = hooks)
          \/ OnHooks(e) /\ exec'[e] = [exec[e] EXCEPT !.live = FALSE, !.seen = hooks]
      BY <2>1, UnregisterFacts
    <3>2. exec[e] \in Walks
      BY <1>0
    <3>3. CASE exec'[e] = exec[e] /\ (OnHooks(e) => hooks' = hooks)
      BY <3>3 DEF OnHooks, Array
    <3>4. CASE OnHooks(e) /\ exec'[e] = [exec[e] EXCEPT !.live = FALSE, !.seen = hooks]
      BY <3>2, <3>4 DEF OnHooks, Array, Walks
    <3> QED
      BY <3>1, <3>3, <3>4
  <2> QED
    BY <2>2 DEF DueAhead, Ahead
<1>4. ASSUME NEW k \in DOMAIN hooks, Unregister(k) PROVE DueAhead'
  <2>1. ASSUME NEW e \in Executions, ~exec'[e].cut
        PROVE  exec'[e] = exec[e] /\ ~OnHooks(e)
    <3>1. exec'[e] = (IF OnHooks(e) THEN [exec[e] EXCEPT !.cut = TRUE] ELSE exec[e]) /\ exec[e] \in Walks
      BY <1>0, <1>4, UnregisterOneFacts
    <3> QED
      BY <2>1, <3>1 DEF Walks
  <2>2. ASSUME NEW e \in Executions, ~exec'[e].cut
        PROVE  /\ exec'[e].at \in {"walking", "calling"} => Ahead(e)'
               /\ exec'[e].at = "ended" => exec'[e].due = {}
    <3>1. exec'[e] = exec[e] /\ ~OnHooks(e)
      BY <2>1, <2>2
    <3> QED
      BY <2>2, <3>1 DEF DueAhead, Ahead, Array, OnHooks
  <2> QED
    BY <2>2 DEF DueAhead
<1>5. ASSUME NEW r \in Requests, Quiet(r) PROVE DueAhead'
  BY <1>1, <1>5, QuietFacts
<1> QED
  BY <1>1, <1>2, <1>3, <1>4, <1>5, WalkStep DEF Next, Request, Quiet, vars, manager

-----------------------------------------------------------------------------
(* Handlers registered once.                                               *)

LEMMA OfferOfOne ==
  ASSUME NEW x \in Registration, NEW y \in Registration, NEW m, NEW n,
         IsOffer(x, m), IsOffer(y, n), x.handler = y.handler
  PROVE  x.plugin = y.plugin /\ m = n
<1>1. x.plugin \in Plugins /\ y.plugin \in Plugins
  BY DEF Registration
<1> QED
  BY <1>1, PluginAssumption DEF IsOffer

LEMMA RegisterSingle ==
  ASSUME TypeInv, Single, NEW r \in Requests, RegisterHook(r) PROVE Single'
<1>0. hooks \in Seq(Registration) /\ OffersOnly /\ Distinct /\ OneEnabler /\ CountedOnly
  BY DEF TypeInv, TypeOK, Single
<1>1. PICK p \in Plugins, x \in Registration : \E m \in DOMAIN HooksOf[p] :
         /\ r \in Enabling(p) /\ m = call[r].done + 1 /\ m \in 1..Len(HooksOf[p])
         /\ x.plugin = p /\ IsOffer(x, m)
         /\ Grown(hooks', hooks, x) /\ (InOrder(hooks) => InOrder(hooks'))
         /\ pluginHooks' = pluginHooks \cup {p}
         /\ call' = [call EXCEPT ![r].done = m]
         /\ UNCHANGED <<status, exec, untidy>>
  BY RegisterFacts
<1>2. PICK m \in DOMAIN HooksOf[p] :
         m = call[r].done + 1 /\ m \in 1..Len(HooksOf[p]) /\ IsOffer(x, m)
         /\ call' = [call EXCEPT ![r].done = m]
  BY <1>1
<1>3. call[r].done \in Nat /\ m \in 1..m /\ 1..call[r].done \subseteq 1..m /\ m \notin 1..call[r].done
  <2>1. call[r].done \in Nat
    BY DEF TypeInv, TypeOK, Calls
  <2> QED
    BY <1>2, <2>1
<1>4. /\ \A i \in 1..Len(hooks') : hooks'[i] = x \/ \E a \in 1..Len(hooks) : hooks[a] = hooks'[i]
      /\ \A i, j \in 1..Len(hooks') : i < j =>
           \/ \E a, b \in 1..Len(hooks) : a < b /\ hooks[a] = hooks'[i] /\ hooks[b] = hooks'[j]
           \/ hooks'[i] = x /\ \E b \in 1..Len(hooks) : hooks[b] = hooks'[j]
           \/ hooks'[j] = x /\ \E a \in 1..Len(hooks) : hooks[a] = hooks'[i]
  BY <1>1 DEF Grown
<1>5. /\ \A q \in Plugins : Enabling(q)' = Enabling(q)
      /\ \A s \in Requests : s # r => call'[s].done = call[s].done
      /\ call'[r].done = m
  BY <1>2, SameEnabling
<1>6. OffersOnly'
  <2> SUFFICES ASSUME NEW i \in 1..Len(hooks')
               PROVE  \E n \in DOMAIN HooksOf[hooks'[i].plugin] : IsOffer(hooks'[i], n)
    BY DEF OffersOnly, IsOffer
  <2>1. CASE hooks'[i] = x
    BY <1>1, <1>2, <2>1
  <2>2. CASE \E a \in 1..Len(hooks) : hooks[a] = hooks'[i]
    BY <1>0, <2>2 DEF OffersOnly
  <2> QED
    BY <1>4, <2>1, <2>2
\* The next offer of a plugin is not in the array yet.
<1>7. ASSUME NEW a \in 1..Len(hooks), hooks[a].handler = x.handler
      PROVE  hooks[a].plugin = p /\ p \in untidy
  <2>1. PICK n \in DOMAIN HooksOf[hooks[a].plugin] : IsOffer(hooks[a], n)
    BY <1>0 DEF OffersOnly
  <2>2. hooks[a] \in Registration
    BY <1>0
  <2>3. hooks[a].plugin = p
    BY <1>1, <1>2, <1>7, <2>1, <2>2, OfferOfOne
  <2>4. ASSUME p \notin untidy PROVE FALSE
    <3>1. PICK k \in 1..call[r].done : IsOffer(hooks[a], k)
      BY <1>0, <1>1, <2>3, <2>4 DEF CountedOnly
    <3>2. k = m
      BY <1>2, <1>7, <2>2, <3>1, OfferOfOne
    <3> QED
      BY <1>3, <3>1, <3>2
  <2> QED
    BY <2>3, <2>4
<1>8. Distinct'
  <2> SUFFICES ASSUME NEW i \in 1..Len(hooks'), NEW j \in 1..Len(hooks'), i < j,
                      hooks'[i].plugin \notin untidy, hooks'[i].handler = hooks'[j].handler
               PROVE  FALSE
    BY <1>1 DEF Distinct
  <2>1. CASE \E a, b \in 1..Len(hooks) : a < b /\ hooks[a] = hooks'[i] /\ hooks[b] = hooks'[j]
    <3>1. PICK a \in 1..Len(hooks), b \in 1..Len(hooks) :
            a < b /\ hooks[a] = hooks'[i] /\ hooks[b] = hooks'[j]
      BY <2>1
    <3>2. hooks[a].plugin \notin untidy /\ hooks[a].handler = hooks[b].handler
      BY <3>1
    <3> QED
      BY <1>0, <3>1, <3>2 DEF Distinct
  <2>2. CASE hooks'[i] = x /\ \E b \in 1..Len(hooks) : hooks[b] = hooks'[j]
    <3>1. PICK b \in 1..Len(hooks) : hooks[b] = hooks'[j]
      BY <2>2
    <3>2. hooks[b].handler = x.handler /\ x.plugin \notin untidy
      BY <2>2, <3>1
    <3> QED
      BY <1>1, <1>7, <3>2
  <2>3. CASE hooks'[j] = x /\ \E a \in 1..Len(hooks) : hooks[a] = hooks'[i]
    <3>1. PICK a \in 1..Len(hooks) : hooks[a] = hooks'[i]
      BY <2>3
    <3>2. hooks[a].handler = x.handler /\ hooks[a].plugin \notin untidy
      BY <2>3, <3>1
    <3> QED
      BY <1>7, <3>2
  <2> QED
    BY <1>4, <2>1, <2>2, <2>3
<1>9. OneEnabler'
  BY <1>0, <1>1, <1>5 DEF OneEnabler
<1>10. CountedOnly'
  <2> SUFFICES ASSUME NEW q \in Plugins, q \notin untidy, NEW s \in Enabling(q),
                      NEW i \in 1..Len(hooks'), hooks'[i].plugin = q
               PROVE  \E n \in 1..call'[s].done : IsOffer(hooks'[i], n)
    BY <1>1, <1>5 DEF CountedOnly, IsOffer
  <2>1. s \in Requests
    BY DEF Enabling
  <2>2. CASE hooks'[i] = x
    <3>1. s = r
      BY <1>0, <1>1, <2>2 DEF OneEnabler
    <3> QED
      BY <1>2, <1>3, <1>5, <2>2, <3>1
  <2>3. CASE \E a \in 1..Len(hooks) : hooks[a] = hooks'[i]
    <3>1. PICK a \in 1..Len(hooks) : hooks[a] = hooks'[i]
      BY <2>3
    <3>2. PICK n \in 1..call[s].done : IsOffer(hooks[a], n)
      BY <1>0, <3>1 DEF CountedOnly
    <3>3. 1..call[s].done \subseteq 1..call'[s].done
      BY <1>3, <1>5, <2>1
    <3> QED
      BY <3>1, <3>2, <3>3
  <2> QED
    BY <1>4, <2>2, <2>3
<1> QED
  BY <1>6, <1>8, <1>9, <1>10 DEF Single

\* Taking hooks away, while whoever enables a plugin goes on.
LEMMA ThinnedSingle ==
  ASSUME Single, Thinned(hooks', hooks), untidy' = untidy,
         \A q \in Plugins : Enabling(q)' = Enabling(q),
         \A q \in Plugins : \A s \in Enabling(q) : call'[s] = call[s]
  PROVE  Single'
<1>0. OffersOnly /\ Distinct /\ OneEnabler /\ CountedOnly
  BY DEF Single
<1>1. \A i \in 1..Len(hooks') : \E a \in 1..Len(hooks) : hooks[a] = hooks'[i]
  BY DEF Thinned
<1>2. OffersOnly'
  <2> SUFFICES ASSUME NEW i \in 1..Len(hooks')
               PROVE  \E n \in DOMAIN HooksOf[hooks'[i].plugin] : IsOffer(hooks'[i], n)
    BY DEF OffersOnly, IsOffer
  <2> QED
    BY <1>0, <1>1 DEF OffersOnly
<1>3. Distinct'
  <2> SUFFICES ASSUME NEW i \in 1..Len(hooks'), NEW j \in 1..Len(hooks'), i < j,
                      hooks'[i].plugin \notin untidy, hooks'[i].handler = hooks'[j].handler
               PROVE  FALSE
    BY DEF Distinct
  <2>1. PICK a \in 1..Len(hooks), b \in 1..Len(hooks) :
          a < b /\ hooks[a] = hooks'[i] /\ hooks[b] = hooks'[j]
    BY DEF Thinned
  <2>2. hooks[a].plugin \notin untidy /\ hooks[a].handler = hooks[b].handler
    BY <2>1
  <2> QED
    BY <1>0, <2>1, <2>2 DEF Distinct
<1>4. OneEnabler'
  BY <1>0 DEF OneEnabler
<1>5. CountedOnly'
  <2> SUFFICES ASSUME NEW q \in Plugins, q \notin untidy, NEW s \in Enabling(q),
                      NEW i \in 1..Len(hooks'), hooks'[i].plugin = q
               PROVE  \E n \in 1..call'[s].done : IsOffer(hooks'[i], n)
    BY DEF CountedOnly, IsOffer
  <2>1. PICK a \in 1..Len(hooks) : hooks[a] = hooks'[i]
    BY <1>1
  <2>2. PICK n \in 1..call[s].done : IsOffer(hooks[a], n)
    BY <1>0, <2>1 DEF CountedOnly
  <2> QED
    BY <2>1, <2>2
<1> QED
  BY <1>2, <1>3, <1>4, <1>5 DEF Single

\* A request begins to enable a plugin: nobody else does and none of its hooks is there,
\* or the plugin is untidy from now on.
LEMMA EnableSingle ==
  ASSUME TypeInv, NoneAtRest, Single, NEW r \in Requests, NEW p \in Plugins, Enable(r, p)
  PROVE  Single'
<1>0. OffersOnly /\ Distinct /\ OneEnabler /\ CountedOnly /\ call \in [Requests -> Calls]
      /\ status[p] \in PluginStatus
  BY DEF Single, TypeInv, TypeOK
<1>1. hooks' = hooks /\ untidy \subseteq untidy'
  BY DEF Enable, manager
<1>2. OffersOnly' /\ Distinct'
  BY <1>0, <1>1 DEF OffersOnly, Distinct, IsOffer
<1>3. \A s \in Requests \ {r} : call'[s] = call[s]
  BY <1>0 DEF Enable, Over, Goto
<1>4. CASE status[p] = "enabled"
  <2>1. call'[r].at = "over" /\ call[r].at = "idle"
    BY <1>0, <1>4 DEF Enable, Over, Goto
  <2>2. \A q \in Plugins : Enabling(q)' = Enabling(q)
    BY <1>3, <2>1 DEF Enabling
  <2>3. \A q \in Plugins : \A s \in Enabling(q) : call'[s] = call[s]
    BY <1>3, <2>1 DEF Enabling
  <2>4. OneEnabler' /\ CountedOnly'
    BY <1>0, <1>1, <2>2, <2>3 DEF OneEnabler, CountedOnly, IsOffer
  <2> QED
    BY <1>2, <2>4 DEF Single
<1>5. CASE status[p] # "enabled"
  <2>1. call'[r].at = "onEnable" /\ call'[r].plugin = p /\ call[r].at = "idle"
    BY <1>0, <1>5 DEF Enable, Goto
  <2>2. /\ Enabling(p)' = Enabling(p) \cup {r}
        /\ \A q \in Plugins \ {p} : Enabling(q)' = Enabling(q)
    BY <1>3, <2>1 DEF Enabling
  <2>3. \A q \in Plugins : \A s \in Enabling(q) : call'[s] = call[s]
    BY <1>3, <2>1 DEF Enabling
  <2>4. p \notin untidy' => AtRest(p)
    BY <1>0, <1>5 DEF Enable, AtRest, PluginStatus
  <2>5. p \notin untidy' => Enabling(p) = {} /\ \A i \in 1..Len(hooks) : hooks[i].plugin # p
    BY <2>4 DEF NoneAtRest, AtRest
  <2>6. OneEnabler'
    <3> SUFFICES ASSUME NEW q \in Plugins, q \notin untidy', NEW s \in Enabling(q)', NEW t \in Enabling(q)'
                 PROVE  s = t
      BY DEF OneEnabler
    <3>1. CASE q = p
      BY <2>2, <2>5, <3>1
    <3>2. CASE q # p
      BY <1>0, <1>1, <2>2, <3>2 DEF OneEnabler
    <3> QED
      BY <3>1, <3>2
  <2>7. CountedOnly'
    <3> SUFFICES ASSUME NEW q \in Plugins, q \notin untidy', NEW s \in Enabling(q)',
                        NEW i \in 1..Len(hooks), hooks[i].plugin = q
                 PROVE  \E n \in 1..call'[s].done : IsOffer(hooks[i], n)
      BY <1>1 DEF CountedOnly, IsOffer
    <3>1. q # p /\ s \in Enabling(q)
      BY <2>2, <2>5
    <3> QED
      BY <1>0, <1>1, <2>3, <3>1 DEF CountedOnly
  <2> QED
    BY <1>2, <2>6, <2>7 DEF Single
<1> QED
  BY <1>4, <1>5

\* Every other step without a hook makes nobody enable a plugin.
LEMMA OtherSingle ==
  ASSUME Single, UNCHANGED <<hooks, untidy>>,
         \A q \in Plugins : Enabling(q)' \subseteq Enabling(q),
         \A q \in Plugins : \A s \in Enabling(q)' : call'[s] = call[s]
  PROVE  Single'
<1>1. OffersOnly' /\ Distinct' /\ OneEnabler'
  BY DEF Single, OffersOnly, Distinct, OneEnabler, IsOffer
<1>2. CountedOnly'
  BY DEF Single, CountedOnly, IsOffer
<1> QED
  BY <1>1, <1>2 DEF Single

LEMMA SingleStep ==
  ASSUME TypeInv, Tracked, NoneAtRest, Single, [Next]_vars PROVE Single'
<1>0. call \in [Requests -> Calls]
  BY DEF TypeInv, TypeOK
<1>1. ASSUME NEW r \in Requests, Quiet(r), \A p \in Plugins : ~Enable(r, p) PROVE Single'
  <2>1. UNCHANGED <<hooks, untidy>>
    BY <1>1 DEF Quiet, Disable, Unload, EnableFails, Enabled, DisableFails, Unloaded, UnloadFails, manager
  <2>2. call'[r].at # "onEnable" /\ \A s \in Requests \ {r} : call'[s] = call[s]
    BY <1>0, <1>1 DEF Quiet, Disable, Unload, EnableFails, Enabled, DisableFails, Unloaded, UnloadFails,
                      Over, Goto
  <2>3. \A q \in Plugins : Enabling(q)' \subseteq Enabling(q) /\ \A s \in Enabling(q)' : call'[s] = call[s]
    BY <2>2 DEF Enabling
  <2> QED
    BY <2>1, <2>3, OtherSingle
<1>2. ASSUME NEW r \in Requests, Disabled(r) PROVE Single'
  <2>1. PICK p \in Plugins :
           /\ UnregisterPlugin(p) /\ SetStatus(p, "disabled")
           /\ Parked(r, Free) \/ Parked(r, At("onUnload", p))
           /\ call[r].at \in {"onDisable", "onDisableFirst"}
           /\ untidy' = untidy
    BY <1>2, DisabledFacts
  <2>2. Thinned(hooks', hooks)
    BY <2>1, UnregisterFacts
  <2>3. /\ \A q \in Plugins : Enabling(q)' = Enabling(q)
        /\ \A q \in Plugins : \A s \in Enabling(q) : call'[s] = call[s]
    BY <2>1, DisabledEnabling
  <2> QED
    BY <2>1, <2>2, <2>3, ThinnedSingle
<1>3. ASSUME NEW i \in DOMAIN hooks, Unregister(i) PROVE Single'
  <2>1. Thinned(hooks', hooks) /\ UNCHANGED <<call, untidy>>
    BY <1>3, UnregisterOneFacts
  <2> QED
    BY <2>1, ThinnedSingle DEF Enabling
<1>4. ASSUME UNCHANGED <<hooks, call, untidy>> PROVE Single'
  BY <1>4, OtherSingle DEF Enabling
<1>5. ASSUME NEW r \in Requests, Quiet(r) PROVE Single'
  BY <1>1, <1>5, EnableSingle
<1> QED
  BY <1>2, <1>3, <1>4, <1>5, RegisterSingle
     DEF Next, Request, Quiet, Execute, Step, HandlerDone, vars, manager

-----------------------------------------------------------------------------
(* Theorems                                                                *)

LEMMA InitInv == Init => Inv
<1> SUFFICES ASSUME Init PROVE Inv
  OBVIOUS
<1>1. hooks = <<>> /\ hooks \in Seq(Registration) /\ Len(hooks) = 0
  BY DEF Init
<1>2. TypeOK
  <2>1. \A r \in Requests : call[r] \in Calls
    BY DEF Init, Calls
  <2>2. \A e \in Executions : exec[e] \in Walks
    <3>1. <<>> \in Seq(Registration)
      OBVIOUS
    <3> QED
      BY <3>1 DEF Init, Walks
  <2> QED
    BY <1>1, <2>1, <2>2 DEF Init, TypeOK, PluginStatus
<1>3. Shape
  BY DEF Init, Shape, Awaits
<1>4. Manager /\ OffersOnly /\ Distinct /\ CountedOnly
  BY <1>1 DEF Manager, Tracked, NoneAtRest, InOrder, OffersOnly, Distinct, CountedOnly
<1>5. OneEnabler
  BY DEF Init, OneEnabler, Enabling
<1>6. DueAhead
  BY DEF Init, DueAhead
<1> QED
  BY <1>2, <1>3, <1>4, <1>5, <1>6 DEF Inv, TypeInv, Single

LEMMA Invariant == Spec => []Inv
<1>1. Inv /\ [Next]_vars => Inv'
  BY TypeStep, ManagerStep, DueStep, SingleStep DEF Inv, Manager
<1> QED
  BY <1>1, InitInv, PTL DEF Spec

\* The array, the requests and the executions keep their types, however long it gets.
THEOREM PluginsTyped == Spec => []TypeOK
<1>1. Inv => TypeOK
  BY DEF Inv, TypeInv
<1> QED
  BY <1>1, Invariant, PTL

\* unregisterPlugin: a disabled plugin that nobody enables again has no handler left,
\* although unregister takes ids away that its other hooks may share.
THEOREM DisabledSilent == Spec => []DisabledIsSilent
<1>1. Inv => DisabledIsSilent
  <2> SUFFICES ASSUME Inv, NEW p \in Plugins, status[p] = "disabled", Enabling(p) = {},
                      NEW x \in ToSet(hooks)
               PROVE  x.plugin # p
    BY DEF DisabledIsSilent
  <2>1. hooks \in Seq(Registration) /\ NoneAtRest
    BY DEF Inv, TypeInv, TypeOK, Manager
  <2>2. PICK i \in 1..Len(hooks) : x = hooks[i]
    BY <2>1 DEF ToSet
  <2> QED
    BY <2>1, <2>2 DEF NoneAtRest, AtRest
<1> QED
  BY <1>1, Invariant, PTL

\* execute: an execution that runs to its end skips no handler of those it began with,
\* whatever is registered before its index or filtered out of the map meanwhile.
THEOREM WalkIsComplete == Spec => []NoneSkipped
<1>1. Inv => NoneSkipped
  BY DEF Inv, DueAhead, NoneSkipped
<1> QED
  BY <1>1, Invariant, PTL

\* enablePlugin: only a plugin enabled twice at a time, or again after an error, can have
\* a handler in the array twice.
THEOREM HandlersOnce == Spec => []RegisteredOnce
<1>1. Inv => RegisteredOnce
  <2> SUFFICES ASSUME Inv, NEW i \in 1..Len(hooks), NEW j \in 1..Len(hooks), i # j,
                      hooks[i].handler = hooks[j].handler
               PROVE  hooks[i].plugin \in untidy
    <3>1. Inv => DOMAIN hooks = 1..Len(hooks)
      BY DEF Inv, TypeInv, TypeOK
    <3> QED
      BY <3>1 DEF RegisteredOnce
  <2>1. hooks \in Seq(Registration) /\ OffersOnly /\ Distinct
    BY DEF Inv, TypeInv, TypeOK, Single
  <2>2. PICK m \in DOMAIN HooksOf[hooks[i].plugin], n \in DOMAIN HooksOf[hooks[j].plugin] :
          IsOffer(hooks[i], m) /\ IsOffer(hooks[j], n)
    BY <2>1 DEF OffersOnly
  <2>3. hooks[i] \in Registration /\ hooks[j] \in Registration
    BY <2>1
  <2>4. hooks[i].plugin = hooks[j].plugin
    BY <2>2, <2>3, OfferOfOne
  <2>5. i < j \/ j < i
    BY <2>1
  <2> QED
    BY <2>1, <2>4, <2>5 DEF Distinct
<1> QED
  BY <1>1, Invariant, PTL

\* register: putting a registration after its equals keeps the array sorted by priority,
\* and so do unregister and the filter; Sorted is the sort of the source.
THEOREM HooksInOrder == Spec => []InOrder(hooks)
<1>1. Inv => InOrder(hooks)
  BY DEF Inv, Manager
<1> QED
  BY <1>1, Invariant, PTL
=============================================================================
