----------------------------- MODULE AppTabsProofs -----------------------------
(***************************************************************************)
(* Proofs about AppTabs, for any users, pages and projects.                *)
(*                                                                         *)
(* What the shell reads back depends on what filter makes of a list, a     *)
(* recursive function (KeptOf): Places says of a list kept so far which    *)
(* entries it holds, and that determines it, so that no induction on the   *)
(* function is needed but that of KeptDefined.  The strengthening is       *)
(* TabInv: the open tabs are tidy, and those of each user are storable.    *)
(***************************************************************************)
EXTENDS AppTabs, SequenceTheorems, FiniteSetTheorems, WellFoundedInduction, TLAPS

\* A nonempty set of naturals has a least element: the form in which the proofs
\* below use induction.
LEMMA LeastNat ==
    ASSUME NEW T \in SUBSET Nat, T # {}
    PROVE  \E x \in T : \A y \in T : x <= y
  <1>1. PICK x \in T : \A y \in T : ~ (<<y, x>> \in OpToRel(<, Nat))
    BY NatLessThanWellFounded, WFMin
  <1>2. OpToRel(<, Nat) = {ss \in Nat \X Nat : ss[1] < ss[2]}
    BY Zenon DEF OpToRel
  <1>3. \A y \in T : ~ (<<y, x>> \in {ss \in Nat \X Nat : ss[1] < ss[2]})
    BY <1>1, <1>2, Zenon
  <1>4. ASSUME NEW y \in T, y < x PROVE FALSE
    <2>1. <<y, x>> \in Nat \X Nat /\ <<y, x>>[1] < <<y, x>>[2]
      BY <1>4
    <2> QED
      BY <1>3, <2>1
  <1> QED
    BY <1>4

\* The recursive function that filters a list is defined: there is one for every
\* length, or there is a least length without.
LEMMA KeptDefined ==
    ASSUME NEW s, NEW S, Len(s) \in Nat
    PROVE  KeptOf(s, S) =
             [k \in 0..Len(s) |->
                IF k = 0 THEN <<>>
                ELSE IF s[k] \in S THEN Append(KeptOf(s, S)[k - 1], s[k])
                                   ELSE KeptOf(s, S)[k - 1]]
<1> DEFINE Add(r, k) == IF s[k] \in S THEN Append(r, s[k]) ELSE r
           Run(f, m) == f = [k \in 0..m |-> IF k = 0 THEN <<>> ELSE Add(f[k - 1], k)]
           Without == {m \in Nat : ~ \E f : Run(f, m)}
<1>1. Without = {}
  <2> SUFFICES ASSUME Without # {} PROVE FALSE
    OBVIOUS
  <2>1. PICK m \in Without : \A n \in Without : m <= n
    <3>1. Without \in SUBSET Nat
      OBVIOUS
    <3> HIDE DEF Without
    <3> QED
      BY <3>1, LeastNat
  <2>2. m \in Nat /\ ~ \E f : Run(f, m)
    OBVIOUS
  <2>3. m # 0
    <3>1. Run([k \in 0..0 |-> <<>>], 0)
      OBVIOUS
    <3> QED
      BY <2>2, <3>1, Zenon
  <2>4. m - 1 \in Nat /\ m - 1 \notin Without
    <3>1. m \in Nat
      BY <2>2
    <3> HIDE DEF Without
    <3> QED
      BY <2>1, <2>3, <3>1
  <2>5. PICK g : Run(g, m - 1)
    BY <2>4
  <2> HIDE DEF Add
  <2> DEFINE f == [k \in 0..m |-> IF k < m THEN g[k] ELSE Add(g[m - 1], m)]
  <2>6. \A k \in 0..(m - 1) : f[k] = g[k]
    BY <2>2
  <2>7. \A k \in 0..m : f[k] = IF k = 0 THEN <<>> ELSE Add(f[k - 1], k)
    <3> SUFFICES ASSUME NEW k \in 0..m
                 PROVE  f[k] = IF k = 0 THEN <<>> ELSE Add(f[k - 1], k)
      OBVIOUS
    <3>1. CASE k < m
      <4>1. k \in 0..(m - 1) /\ (k # 0 => k - 1 \in 0..(m - 1))
        BY <2>2, <3>1
      <4>2. g[k] = IF k = 0 THEN <<>> ELSE Add(g[k - 1], k)
        BY <2>5, <4>1
      <4> QED
        BY <2>6, <4>1, <4>2
    <3>2. CASE k = m
      <4>1. f[m] = Add(g[m - 1], m) /\ f[m - 1] = g[m - 1]
        BY <2>2, <2>3, <2>6
      <4> QED
        BY <2>3, <3>2, <4>1
    <3> QED
      BY <2>2, <3>1, <3>2
  <2>8. Run(f, m)
    <3>1. f = [k \in 0..m |-> f[k]]
      OBVIOUS
    <3> HIDE DEF f
    <3> QED
      BY <2>7, <3>1, Zenon
  <2> QED
    BY <2>2, <2>8, Zenon
<1>2. \E f : Run(f, Len(s))
  BY <1>1
<1>3. KeptOf(s, S) = CHOOSE f : Run(f, Len(s))
  BY DEF KeptOf
<1>4. Run(KeptOf(s, S), Len(s))
  BY <1>2, <1>3, Zenon
<1> QED
  BY <1>4

\* Places, in their order, of the entries of s that are in S.
Places(f, m, k, s, S) ==
    /\ f \in [1..m -> 1..k]
    /\ \A a, b \in 1..m : a < b => f[a] < f[b]
    /\ \A i \in 1..k : s[i] \in S <=> \E a \in 1..m : f[a] = i

\* What filter keeps is what stands at those places.
LEMMA KeptPlaces ==
    ASSUME NEW T, NEW s \in Seq(T), NEW S
    PROVE  /\ Kept(s, S) \in Seq(T)
           /\ \E f : /\ Places(f, Len(Kept(s, S)), Len(s), s, S)
                     /\ \A a \in 1..Len(Kept(s, S)) : Kept(s, S)[a] = s[f[a]]
<1> DEFINE g == KeptOf(s, S)
           Good(k) == /\ g[k] \in Seq(T)
                      /\ \E f : /\ Places(f, Len(g[k]), k, s, S)
                                /\ \A a \in 1..Len(g[k]) : g[k][a] = s[f[a]]
           Bad == {k \in 0..Len(s) : ~Good(k)}
<1>1. /\ Len(s) \in Nat
      /\ g[0] = <<>>
      /\ \A k \in 1..Len(s) : g[k] = IF s[k] \in S THEN Append(g[k - 1], s[k]) ELSE g[k - 1]
  <2>1. Len(s) \in Nat
    OBVIOUS
  <2>2. g = [k \in 0..Len(s) |-> IF k = 0 THEN <<>>
                ELSE IF s[k] \in S THEN Append(g[k - 1], s[k]) ELSE g[k - 1]]
    BY <2>1, KeptDefined
  <2> HIDE DEF g
  <2>3. \A k \in 0..Len(s) :
          g[k] = IF k = 0 THEN <<>>
                 ELSE IF s[k] \in S THEN Append(g[k - 1], s[k]) ELSE g[k - 1]
    BY <2>2, Zenon
  <2>4. 0 \in 0..Len(s) /\ \A k \in 1..Len(s) : k \in 0..Len(s) /\ k # 0
    BY <2>1
  <2>5. g[0] = <<>>
    BY <2>3, <2>4, Zenon
  <2>6. \A k \in 1..Len(s) : g[k] = IF s[k] \in S THEN Append(g[k - 1], s[k]) ELSE g[k - 1]
    BY <2>3, <2>4, Zenon
  <2> QED
    BY <2>1, <2>5, <2>6
<1> HIDE DEF g
<1>2. Good(0)
  <2>1. Len(g[0]) = 0 /\ g[0] \in Seq(T)
    BY <1>1
  <2>2. Places(<<>>, 0, 0, s, S)
    <3>1. <<>> \in [1..0 -> 1..0]
      OBVIOUS
    <3> QED
      BY <3>1 DEF Places
  <2> QED
    BY <2>1, <2>2
<1>3. ASSUME NEW k \in 1..Len(s), Good(k - 1) PROVE Good(k)
  <2> DEFINE r == g[k - 1]
             n == Len(r)
  <2>1. r \in Seq(T) /\ n \in Nat
    BY <1>3
  <2>2. PICK f : Places(f, n, k - 1, s, S) /\ \A a \in 1..n : r[a] = s[f[a]]
    BY <1>3
  <2>3. k \in Nat /\ k - 1 \in Nat /\ s[k] \in T
    BY <1>1
  <2> HIDE DEF r, n
  <2>4. /\ \A a \in 1..n : f[a] \in 1..(k - 1)
        /\ \A a, b \in 1..n : a < b => f[a] < f[b]
        /\ \A i \in 1..(k - 1) : s[i] \in S <=> \E a \in 1..n : f[a] = i
    BY <2>2 DEF Places
  <2>5. CASE s[k] \in S
    <3> DEFINE h == [a \in 1..(n + 1) |-> IF a = n + 1 THEN k ELSE f[a]]
    <3>1. g[k] = Append(r, s[k])
      BY <1>1, <2>5 DEF r
    <3>2. /\ g[k] \in Seq(T) /\ Len(g[k]) = n + 1
          /\ g[k][n + 1] = s[k]
          /\ \A a \in 1..n : g[k][a] = r[a]
      BY <2>1, <2>3, <3>1, AppendProperties DEF n
    <3>3. \A a \in 1..n : a \in 1..(n + 1) /\ a # n + 1 /\ h[a] = f[a]
      BY <2>1
    <3>4. h[n + 1] = k /\ n + 1 \in 1..(n + 1)
      BY <2>1
    <3>5. \A a \in 1..(n + 1) : a = n + 1 \/ a \in 1..n
      BY <2>1
    <3>6. h \in [1..(n + 1) -> 1..k]
      BY <2>3, <2>4, <3>3, <3>4, <3>5
    <3> HIDE DEF h
    <3>7. ASSUME NEW a \in 1..(n + 1), NEW b \in 1..(n + 1), a < b PROVE h[a] < h[b]
      <4>1. a \in 1..n /\ h[a] = f[a] /\ f[a] \in 1..(k - 1)
        BY <2>1, <2>4, <3>3, <3>7
      <4>2. CASE b = n + 1
        BY <2>3, <3>4, <4>1, <4>2
      <4>3. CASE b \in 1..n
        BY <2>4, <3>3, <3>7, <4>1, <4>3
      <4> QED
        BY <3>5, <4>2, <4>3
    <3>8. ASSUME NEW i \in 1..k PROVE s[i] \in S <=> \E a \in 1..(n + 1) : h[a] = i
      <4>1. CASE i = k
        BY <2>5, <3>4, <4>1
      <4>2. CASE i # k
        <5>1. i \in 1..(k - 1)
          BY <2>3, <4>2
        <5>2. (\E a \in 1..(n + 1) : h[a] = i) <=> \E a \in 1..n : f[a] = i
          BY <3>3, <3>4, <3>5, <4>2
        <5> QED
          BY <2>4, <5>1, <5>2
      <4> QED
        BY <4>1, <4>2
    <3>9. Places(h, n + 1, k, s, S)
      BY <3>6, <3>7, <3>8 DEF Places
    <3>10. \A a \in 1..(n + 1) : g[k][a] = s[h[a]]
      BY <2>2, <3>2, <3>3, <3>4, <3>5
    <3> QED
      BY <3>2, <3>9, <3>10
  <2>6. CASE s[k] \notin S
    <3>1. g[k] = r
      BY <1>1, <2>6 DEF r
    <3>2. f \in [1..n -> 1..k]
      BY <2>2, <2>3 DEF Places
    <3>3. ASSUME NEW i \in 1..k PROVE s[i] \in S <=> \E a \in 1..n : f[a] = i
      <4>1. CASE i = k
        BY <2>3, <2>4, <2>6, <4>1
      <4>2. CASE i # k
        <5>1. i \in 1..(k - 1)
          BY <2>3, <4>2
        <5> QED
          BY <2>4, <5>1
      <4> QED
        BY <4>1, <4>2
    <3>4. Places(f, n, k, s, S)
      BY <2>4, <3>2, <3>3 DEF Places
    <3> QED
      BY <2>1, <2>2, <3>1, <3>4 DEF n
  <2> QED
    BY <2>5, <2>6
<1>4. Bad = {}
  <2> SUFFICES ASSUME Bad # {} PROVE FALSE
    OBVIOUS
  <2>1. PICK k \in Bad : \A n \in Bad : k <= n
    <3>1. Bad \in SUBSET Nat
      BY <1>1
    <3> HIDE DEF Bad
    <3> QED
      BY <3>1, LeastNat
  <2>2. k \in 0..Len(s) /\ ~Good(k)
    OBVIOUS
  <2> HIDE DEF Good
  <2>3. k # 0
    BY <1>2, <2>2
  <2>4. k \in 1..Len(s) /\ k - 1 \in 0..Len(s) /\ ~(k <= k - 1)
    BY <1>1, <2>2, <2>3
  <2>5. Good(k - 1)
    BY <2>1, <2>4
  <2> QED
    BY <1>3, <2>2, <2>4, <2>5
<1>5. Good(Len(s))
  <2>1. Len(s) \in 0..Len(s)
    BY <1>1
  <2> HIDE DEF Good
  <2> QED
    BY <1>4, <2>1
<1> QED
  BY <1>5 DEF Kept, g

\* Two lists of the same places agree as far as the first goes, or there is a least
\* entry at which they do not.
LEMMA PlacesWithin ==
    ASSUME NEW s, NEW S, NEW k \in Nat, NEW m \in Nat, NEW n \in Nat, NEW f, NEW g,
           Places(f, m, k, s, S), Places(g, n, k, s, S)
    PROVE  \A a \in 1..m : a \in 1..n /\ f[a] = g[a]
<1> DEFINE Off == {a \in 1..m : ~(a \in 1..n /\ f[a] = g[a])}
<1>1. /\ \A a \in 1..m : f[a] \in 1..k
      /\ \A a, b \in 1..m : a < b => f[a] < f[b]
      /\ \A a \in 1..m : \E b \in 1..n : g[b] = f[a]
  BY DEF Places
<1>2. /\ \A a \in 1..n : g[a] \in 1..k
      /\ \A a, b \in 1..n : a < b => g[a] < g[b]
      /\ \A a \in 1..n : \E b \in 1..m : f[b] = g[a]
  BY DEF Places
<1>3. SUFFICES ASSUME Off # {} PROVE FALSE
  OBVIOUS
<1>4. PICK a \in Off : \A b \in Off : a <= b
  <2>1. Off \in SUBSET Nat
    OBVIOUS
  <2> HIDE DEF Off
  <2> QED
    BY <1>3, <2>1, LeastNat
<1>5. a \in 1..m /\ ~(a \in 1..n /\ f[a] = g[a])
  OBVIOUS
<1>6. \A b \in 1..m : b < a => b \in 1..n /\ f[b] = g[b]
  <2> SUFFICES ASSUME NEW b \in 1..m, b < a PROVE b \notin Off
    OBVIOUS
  <2> HIDE DEF Off
  <2> QED
    BY <1>4, <1>5
<1> HIDE DEF Off
<1>7. PICK c \in 1..n : g[c] = f[a]
  BY <1>1, <1>5
<1>8. CASE c < a
  <2>1. c \in 1..m /\ f[c] = g[c] /\ f[c] < f[a] /\ f[a] \in 1..k
    BY <1>1, <1>5, <1>6, <1>8
  <2> QED
    BY <1>7, <2>1
<1>9. CASE a < c
  <2>1. a \in 1..n /\ g[a] < g[c] /\ g[a] \in 1..k /\ f[a] \in 1..k
    BY <1>1, <1>2, <1>5, <1>9
  <2>2. PICK d \in 1..m : f[d] = g[a]
    BY <1>2, <2>1
  <2>3. ~(a < d) /\ a # d
    BY <1>1, <1>5, <1>7, <2>1, <2>2
  <2>4. d < a
    BY <1>5, <2>3
  <2>5. d \in 1..n /\ f[d] = g[d] /\ g[d] < g[a]
    BY <1>2, <1>6, <2>1, <2>4
  <2> QED
    BY <2>1, <2>2, <2>5
<1>10. c # a
  BY <1>5, <1>7
<1> QED
  BY <1>5, <1>8, <1>9, <1>10

\* A list of the kept places, in their order, is what filter keeps.
LEMMA KeptIs ==
    ASSUME NEW T, NEW s \in Seq(T), NEW S, NEW t \in Seq(T), NEW f,
           Places(f, Len(t), Len(s), s, S), \A a \in 1..Len(t) : t[a] = s[f[a]]
    PROVE  Kept(s, S) = t
<1> DEFINE r == Kept(s, S)
<1>1. PICK g : Places(g, Len(r), Len(s), s, S) /\ \A a \in 1..Len(r) : r[a] = s[g[a]]
  BY KeptPlaces
<1>2. r \in Seq(T)
  BY KeptPlaces
<1> HIDE DEF r
<1>3. Len(r) \in Nat /\ Len(t) \in Nat /\ Len(s) \in Nat
  BY <1>2
<1>4. \A a \in 1..Len(t) : a \in 1..Len(r) /\ f[a] = g[a]
  BY <1>1, <1>3, PlacesWithin
<1>5. \A a \in 1..Len(r) : a \in 1..Len(t) /\ g[a] = f[a]
  BY <1>1, <1>3, PlacesWithin
<1>6. Len(r) = Len(t)
  <2>1. Len(t) # 0 => Len(t) \in 1..Len(r)
    <3>1. Len(t) # 0 => Len(t) \in 1..Len(t)
      BY <1>3
    <3> QED
      BY <1>4, <3>1
  <2>2. Len(r) # 0 => Len(r) \in 1..Len(t)
    <3>1. Len(r) # 0 => Len(r) \in 1..Len(r)
      BY <1>3
    <3> QED
      BY <1>5, <3>1
  <2> QED
    BY <1>3, <2>1, <2>2
<1>7. \A a \in 1..Len(r) : r[a] = t[a]
  BY <1>1, <1>5
<1> QED
  BY <1>2, <1>6, <1>7, SeqEqual DEF r

\* What filter keeps is the part of the list that is in S, once if it was, and
\* begins as the list did if that is kept.
LEMMA KeptFacts ==
    ASSUME NEW T, NEW s \in Seq(T), NEW S
    PROVE  /\ Kept(s, S) \in Seq(T)
           /\ Range(Kept(s, S)) = Range(s) \cap S
           /\ IsInjective(s) => IsInjective(Kept(s, S))
           /\ s # <<>> /\ s[1] \in S => Kept(s, S) # <<>> /\ Kept(s, S)[1] = s[1]
<1> DEFINE r == Kept(s, S)
           m == Len(r)
<1>1. PICK f : Places(f, m, Len(s), s, S) /\ \A a \in 1..m : r[a] = s[f[a]]
  BY KeptPlaces
<1>2. r \in Seq(T) /\ m \in Nat /\ DOMAIN r = 1..m /\ DOMAIN s = 1..Len(s) /\ Len(s) \in Nat
  BY KeptPlaces
<1> HIDE DEF r, m
<1>3. /\ \A a \in 1..m : f[a] \in 1..Len(s) /\ s[f[a]] \in S
      /\ \A a, b \in 1..m : a < b => f[a] < f[b]
      /\ \A i \in 1..Len(s) : s[i] \in S => \E a \in 1..m : f[a] = i
  BY <1>1 DEF Places
<1>4. Range(r) = Range(s) \cap S
  <2>1. \A a \in 1..m : f[a] \in 1..Len(s) /\ r[a] = s[f[a]] /\ s[f[a]] \in S
    BY <1>1, <1>3
  <2>2. \A i \in 1..Len(s) : s[i] \in S => \E a \in 1..m : f[a] = i
    BY <1>3
  <2>3. {r[a] : a \in 1..m} = {s[i] : i \in 1..Len(s)} \cap S
    BY <2>1, <2>2
  <2>4. Range(r) = {r[a] : a \in 1..m} /\ Range(s) = {s[i] : i \in 1..Len(s)}
    BY <1>2, Zenon DEF Range
  <2> QED
    BY <2>3, <2>4, Zenon
<1>5. ASSUME IsInjective(s) PROVE IsInjective(r)
  <2>1. ASSUME NEW a \in 1..m, NEW b \in 1..m, r[a] = r[b] PROVE a = b
    <3>1. f[a] = f[b] /\ f[a] \in 1..Len(s) /\ f[b] \in 1..Len(s)
      BY <1>1, <1>2, <1>3, <1>5, <2>1 DEF IsInjective
    <3>2. ~(a < b) /\ ~(b < a)
      BY <1>3, <3>1
    <3> QED
      BY <3>2
  <2> QED
    BY <1>2, <2>1 DEF IsInjective
<1>6. ASSUME s # <<>>, s[1] \in S PROVE r # <<>> /\ r[1] = s[1]
  <2>1. 1 \in 1..Len(s)
    BY <1>2, <1>6
  <2>2. PICK a \in 1..m : f[a] = 1
    BY <1>3, <1>6, <2>1
  <2>3. 1 \in 1..m /\ a = 1
    <3>1. 1 \in 1..m
      BY <1>2
    <3>2. f[1] \in 1..Len(s) /\ (1 < a => f[1] < f[a])
      BY <1>3, <3>1
    <3> QED
      BY <2>2, <3>1, <3>2
  <2>4. r[1] = s[1]
    BY <1>1, <2>2, <2>3
  <2>5. r # <<>>
    BY <1>2, <2>3 DEF m
  <2> QED
    BY <2>4, <2>5
<1> QED
  BY <1>2, <1>4, <1>5, <1>6 DEF r

\* The tabs a user can have: the dashboard first, no page twice.
Tidy(s) == /\ s \in Seq(Pages) /\ s # <<>>
           /\ s[1] = Dashboard
           /\ IsInjective(s)

\* The tabs that can be stored: none, or such tabs.
Storable(s) == s = <<>> \/ Tidy(s)

TabInv ==
    /\ inPlay \in InPlay
    /\ user \in Keys
    /\ location.path \in Pages \cup {Root}
    /\ Tidy(openTabs)
    /\ tabsOf \in [Keys -> Seq(Pages)]
    /\ \A k \in Keys : Storable(tabsOf[k])
    /\ activeOf \in [Keys -> Pages \cup {None}]
    /\ opened \in [Users -> SUBSET Pages]
    /\ Authenticated =>
        /\ location.path \in Range(openTabs)
        /\ Loaded(tabsOf[user]) = openTabs
        /\ activeOf[user] = location.path
        /\ location.path \in opened[user]
    /\ OnlyOwnTabs

\* TidyAt: what being tidy says entry by entry.
LEMMA TidyAt ==
    ASSUME NEW s, Tidy(s)
    PROVE  /\ Len(s) \in Nat /\ Len(s) >= 1
           /\ DOMAIN s = 1..Len(s)
           /\ \A i \in 1..Len(s) : s[i] \in Pages
           /\ \A i, j \in 1..Len(s) : s[i] = s[j] => i = j
           /\ Range(s) = {s[i] : i \in 1..Len(s)}
           /\ Range(s) \subseteq Pages
           /\ Dashboard \in Range(s)
  <1>1. s \in Seq(Pages) /\ s # <<>> /\ s[1] = Dashboard
    BY DEF Tidy
  <1>2. Len(s) \in Nat /\ Len(s) >= 1 /\ DOMAIN s = 1..Len(s)
    BY <1>1
  <1>3. \A i \in 1..Len(s) : s[i] \in Pages
    BY <1>1
  <1>4. \A i, j \in 1..Len(s) : s[i] = s[j] => i = j
    BY <1>2 DEF Tidy, IsInjective
  <1>5. Range(s) = {s[i] : i \in 1..Len(s)}
    BY <1>2 DEF Range
  <1>6. 1 \in 1..Len(s)
    BY <1>2
  <1> QED
    BY <1>1, <1>2, <1>3, <1>4, <1>5, <1>6

\* Stored tabs come back as they are, and the dashboard where there are none.
LEMMA LoadedIs ==
    ASSUME NEW s, Storable(s)
    PROVE  Loaded(s) = IF s = <<>> THEN <<Dashboard>> ELSE s
<1> DEFINE S == Pages \ {Dashboard}
<1>0. Dashboard \in Pages
  BY AppTabsAssumption
<1>1. CASE s = <<>>
  <2>1. s \in Seq(Pages) /\ Len(s) = 0
    BY <1>1
  <2>2. Kept(s, S) = <<>>
    <3>1. Kept(s, S) \in Seq(Pages) /\ Range(Kept(s, S)) = Range(s) \cap S
      BY <2>1, KeptFacts
    <3>2. Range(s) = {}
      BY <1>1 DEF Range
    <3> DEFINE r == Kept(s, S)
    <3>3. r \in Seq(Pages) /\ Range(r) = {}
      BY <3>1, <3>2
    <3> HIDE DEF r
    <3>4. Len(r) = 0
      <4>1. Len(r) \in Nat /\ DOMAIN r = 1..Len(r)
        BY <3>3
      <4>2. Len(r) # 0 => 1 \in DOMAIN r
        BY <4>1
      <4> QED
        BY <3>3, <4>2 DEF Range
    <3> QED
      BY <3>3, <3>4 DEF r
  <2>3. <<Dashboard>> \in Seq(Pages)
    BY <1>0
  <2>4. <<Dashboard>> \o <<>> = <<Dashboard>>
    BY <2>3, ConcatEmptySeq
  <2> QED
    BY <1>1, <2>2, <2>4, Zenon DEF Loaded
<1>2. CASE Tidy(s) /\ s # <<>>
  <2> DEFINE t == Tail(s)
             f == [a \in 1..Len(t) |-> a + 1]
  <2>1. s \in Seq(Pages) /\ s # <<>> /\ s[1] = Dashboard
    BY <1>2 DEF Tidy
  <2>2. /\ Len(s) \in Nat /\ Len(s) >= 1 /\ \A i \in 1..Len(s) : s[i] \in Pages
        /\ \A i, j \in 1..Len(s) : s[i] = s[j] => i = j
    BY <1>2, TidyAt
  <2>3. t \in Seq(Pages) /\ Len(t) = Len(s) - 1 /\ \A a \in 1..Len(t) : t[a] = s[a + 1]
    BY <2>1, HeadTailProperties
  <2> HIDE DEF t
  <2>4. \A a \in 1..Len(t) : f[a] = a + 1
    OBVIOUS
  <2>5. f \in [1..Len(t) -> 1..Len(s)]
    BY <2>2, <2>3
  <2> HIDE DEF f
  <2>6. \A a, b \in 1..Len(t) : a < b => f[a] < f[b]
    BY <2>2, <2>3, <2>4
  <2>7. ASSUME NEW i \in 1..Len(s) PROVE s[i] \in S <=> \E a \in 1..Len(t) : f[a] = i
    <3>1. CASE i = 1
      <4>1. s[i] \notin S
        BY <2>1, <3>1
      <4>2. \A a \in 1..Len(t) : f[a] # i
        BY <2>2, <2>3, <2>4, <3>1
      <4> QED
        BY <4>1, <4>2
    <3>2. CASE i # 1
      <4>1. 1 \in 1..Len(s)
        BY <2>2
      <4>2. s[i] \in S
        BY <2>1, <2>2, <3>2, <4>1
      <4>3. i - 1 \in 1..Len(t) /\ (i - 1) + 1 = i
        BY <2>2, <2>3, <3>2
      <4>4. f[i - 1] = i
        BY <2>4, <4>3
      <4> QED
        BY <4>2, <4>3, <4>4
    <3> QED
      BY <3>1, <3>2
  <2>8. Places(f, Len(t), Len(s), s, S)
    BY <2>5, <2>6, <2>7 DEF Places
  <2>9. Kept(s, S) = t
    <3>1. \A a \in 1..Len(t) : t[a] = s[f[a]]
      BY <2>3, <2>4
    <3>2. s \in Seq(Pages) /\ t \in Seq(Pages)
      BY <2>1, <2>3
    <3> HIDE DEF S
    <3> QED
      BY <2>8, <3>1, <3>2, KeptIs
  <2>10. <<Dashboard>> \o t = s
    <3>1. <<Dashboard>> \in Seq(Pages) /\ Len(<<Dashboard>>) = 1 /\ <<Dashboard>>[1] = Dashboard
      BY <1>0
    <3> DEFINE r == <<Dashboard>> \o t
    <3>2. /\ r \in Seq(Pages) /\ Len(r) = Len(s)
          /\ r[1] = Dashboard
          /\ \A i \in 2..Len(s) : r[i] = t[i - 1]
      BY <2>2, <2>3, <3>1
    <3> HIDE DEF r
    <3>3. \A i \in 1..Len(s) : r[i] = s[i]
      <4>1. \A i \in 2..Len(s) : i - 1 \in 1..Len(t) /\ (i - 1) + 1 = i
        BY <2>2, <2>3
      <4>2. \A i \in 2..Len(s) : r[i] = s[i]
        BY <2>3, <3>2, <4>1
      <4>3. \A i \in 1..Len(s) : i = 1 \/ i \in 2..Len(s)
        BY <2>2
      <4> QED
        BY <2>1, <3>2, <4>2, <4>3
    <3>4. r = s
      BY <2>1, <3>2, <3>3, SeqEqual
    <3> QED
      BY <3>4 DEF r
  <2> QED
    BY <1>2, <2>9, <2>10 DEF Loaded
<1> QED
  BY <1>1, <1>2 DEF Storable

\* They are tidy then.
LEMMA LoadedTidy ==
    ASSUME NEW s, Storable(s)
    PROVE  /\ Tidy(Loaded(s))
           /\ Loaded(Loaded(s)) = Loaded(s)
           /\ Range(Loaded(s)) = Range(s) \cup {Dashboard}
<1>1. Tidy(<<Dashboard>>)
  <2>1. Dashboard \in Pages
    BY AppTabsAssumption
  <2> QED
    BY <2>1 DEF Tidy, IsInjective
<1>2. Range(<<Dashboard>>) = {Dashboard} /\ Range(<<>>) = {}
  BY DEF Range
<1>3. Tidy(Loaded(s))
  BY <1>1, LoadedIs DEF Storable
<1>4. Loaded(Loaded(s)) = Loaded(s)
  BY <1>3, LoadedIs DEF Storable, Tidy
<1>5. Range(Loaded(s)) = Range(s) \cup {Dashboard}
  <2>1. CASE s = <<>>
    BY <1>2, <2>1, LoadedIs
  <2>2. CASE s # <<>>
    BY <2>2, LoadedIs, TidyAt DEF Storable
  <2> QED
    BY <2>1, <2>2
<1> QED
  BY <1>3, <1>4, <1>5

\* A tab added to tidy ones.
LEMMA WithTabTidy ==
    ASSUME NEW s, Tidy(s), NEW p \in Pages
    PROVE  /\ Tidy(WithTab(s, p))
           /\ p \in Range(WithTab(s, p))
           /\ Range(WithTab(s, p)) = Range(s) \cup {p}
<1>1. CASE p \in Range(s)
  BY <1>1 DEF WithTab
<1>2. CASE p \notin Range(s)
  <2> DEFINE t == Append(s, p)
             n == Len(s)
  <2>1. /\ n \in Nat /\ n >= 1 /\ DOMAIN s = 1..n
        /\ \A i, j \in 1..n : s[i] = s[j] => i = j
        /\ s \in Seq(Pages) /\ s[1] = Dashboard
    BY TidyAt DEF Tidy
  <2>2. /\ t \in Seq(Pages) /\ Len(t) = n + 1 /\ t[n + 1] = p
        /\ \A i \in 1..n : t[i] = s[i]
    BY <2>1, AppendProperties
  <2>3. \A i \in 1..n : s[i] # p
    BY <1>2, <2>1 DEF Range
  <2> HIDE DEF t, n
  <2>4. DOMAIN t = 1..(n + 1) /\ \A i \in 1..(n + 1) : i = n + 1 \/ i \in 1..n
    BY <2>1, <2>2
  <2>5. \A i, j \in 1..(n + 1) : t[i] = t[j] => i = j
    BY <2>1, <2>2, <2>3, <2>4
  <2>6. t[1] = Dashboard /\ t # <<>>
    BY <2>1, <2>2
  <2>7. Tidy(t)
    BY <2>2, <2>4, <2>5, <2>6 DEF Tidy, IsInjective
  <2>8. Range(t) = Range(s) \cup {p}
    <3>1. n + 1 \in 1..(n + 1) /\ \A i \in 1..n : i \in 1..(n + 1)
      BY <2>1
    <3> QED
      BY <2>1, <2>2, <2>4, <3>1 DEF Range
  <2>9. WithTab(s, p) = t
    BY <1>2 DEF WithTab, t
  <2> QED
    BY <2>7, <2>8, <2>9
<1> QED
  BY <1>1, <1>2

\* What stays of tidy tabs, the dashboard among them, is tidy.
LEMMA KeptTidy ==
    ASSUME NEW s, Tidy(s), NEW P, Dashboard \notin P
    PROVE  /\ Tidy(Kept(s, Pages \ P))
           /\ Range(Kept(s, Pages \ P)) = Range(s) \ P
<1>1. s \in Seq(Pages) /\ s # <<>> /\ s[1] = Dashboard /\ IsInjective(s) /\ Dashboard \in Pages
  BY AppTabsAssumption DEF Tidy
<1> DEFINE S == Pages \ P
           r == Kept(s, S)
<1>2. /\ r \in Seq(Pages) /\ Range(r) = Range(s) \cap S
      /\ IsInjective(r) /\ r # <<>> /\ r[1] = Dashboard
  <2>1. s[1] \in S
    BY <1>1
  <2> HIDE DEF S
  <2> QED
    BY <1>1, <2>1, KeptFacts
<1>3. Range(s) \subseteq Pages
  BY TidyAt
<1> HIDE DEF r
<1>4. Tidy(r) /\ Range(r) = Range(s) \ P
  BY <1>2, <1>3 DEF Tidy
<1> QED
  BY <1>4 DEF r

\* RemovedAt: the list without its entry at i.
LEMMA RemovedAt ==
    ASSUME NEW T, NEW s \in Seq(T), NEW i \in 1..Len(s)
    PROVE  /\ RemoveAt(s, i) \in Seq(T)
           /\ Len(RemoveAt(s, i)) = Len(s) - 1
           /\ \A a \in 1..(Len(s) - 1) : RemoveAt(s, i)[a] = s[IF a < i THEN a ELSE a + 1]
<1> DEFINE l == SubSeq(s, 1, i - 1)
           r == SubSeq(s, i + 1, Len(s))
<1>1. Len(s) \in Nat /\ i \in Nat /\ 1 <= i /\ i <= Len(s) /\ \A a \in 1..Len(s) : s[a] \in T
  OBVIOUS
<1>2. l \in Seq(T) /\ Len(l) = i - 1 /\ \A a \in 1..(i - 1) : l[a] = s[a]
  BY <1>1, SubSeqProperties
<1>3. /\ r \in Seq(T) /\ Len(r) = Len(s) - i
      /\ \A a \in 1..(Len(s) - i) : r[a] = s[i + a]
  BY <1>1, SubSeqProperties
<1> HIDE DEF l, r
<1>4. /\ l \o r \in Seq(T) /\ Len(l \o r) = Len(s) - 1
      /\ \A a \in 1..(Len(s) - 1) : (l \o r)[a] = IF a <= i - 1 THEN l[a] ELSE r[a - (i - 1)]
  <2>1. Len(l \o r) = Len(l) + Len(r) /\ l \o r \in Seq(T)
    BY <1>2, <1>3, ConcatProperties
  <2>2. \A a \in 1..(Len(l) + Len(r)) : (l \o r)[a] = IF a <= Len(l) THEN l[a] ELSE r[a - Len(l)]
    BY <1>2, <1>3, ConcatProperties
  <2>3. Len(l) + Len(r) = Len(s) - 1
    BY <1>1, <1>2, <1>3
  <2> QED
    BY <1>2, <2>1, <2>2, <2>3
<1>5. ASSUME NEW a \in 1..(Len(s) - 1) PROVE (l \o r)[a] = s[IF a < i THEN a ELSE a + 1]
  <2>1. CASE a < i
    BY <1>1, <1>2, <1>4, <2>1
  <2>2. CASE ~(a < i)
    <3>1. a - (i - 1) \in 1..(Len(s) - i) /\ i + (a - (i - 1)) = a + 1 /\ ~(a <= i - 1)
      BY <1>1, <2>2
    <3> QED
      BY <1>3, <1>4, <2>2, <3>1
  <2> QED
    BY <2>1, <2>2
<1>6. RemoveAt(s, i) = l \o r
  BY DEF RemoveAt, l, r
<1> QED
  BY <1>4, <1>5, <1>6

\* InsertedAt: the list with e before its entry at i.
LEMMA InsertedAt ==
    ASSUME NEW T, NEW s \in Seq(T), NEW i \in 1..Len(s), NEW e \in T
    PROVE  /\ InsertAt(s, i, e) \in Seq(T)
           /\ Len(InsertAt(s, i, e)) = Len(s) + 1
           /\ \A a \in 1..(Len(s) + 1) :
                InsertAt(s, i, e)[a] = IF a < i THEN s[a] ELSE IF a = i THEN e ELSE s[a - 1]
<1> DEFINE l == SubSeq(s, 1, i - 1)
           r == SubSeq(s, i, Len(s))
           x == l \o <<e>>
<1>1. Len(s) \in Nat /\ i \in Nat /\ 1 <= i /\ i <= Len(s) /\ \A a \in 1..Len(s) : s[a] \in T
  OBVIOUS
<1>2. l \in Seq(T) /\ Len(l) = i - 1 /\ \A a \in 1..(i - 1) : l[a] = s[a]
  BY <1>1, SubSeqProperties
<1>3. /\ r \in Seq(T) /\ Len(r) = Len(s) - i + 1
      /\ \A a \in 1..(Len(s) - i + 1) : r[a] = s[i + a - 1]
  BY <1>1, SubSeqProperties
<1> HIDE DEF l, r
<1>4. x \in Seq(T) /\ Len(x) = i /\ x[i] = e /\ \A a \in 1..(i - 1) : x[a] = s[a]
  <2>1. <<e>> \in Seq(T) /\ Len(<<e>>) = 1 /\ <<e>>[1] = e
    OBVIOUS
  <2>2. x \in Seq(T) /\ Len(x) = Len(l) + 1
    BY <1>2, <2>1, ConcatProperties
  <2>3. \A a \in 1..(Len(l) + 1) : x[a] = IF a <= Len(l) THEN l[a] ELSE <<e>>[a - Len(l)]
    BY <1>2, <2>1, ConcatProperties
  <2> HIDE DEF x
  <2>4. x[i] = <<e>>[i - (i - 1)]
    <3>1. i \in 1..(Len(l) + 1) /\ ~(i <= Len(l)) /\ i - Len(l) = i - (i - 1)
      BY <1>1, <1>2
    <3>2. x[i] = IF i <= Len(l) THEN l[i] ELSE <<e>>[i - Len(l)]
      BY <2>3, <3>1, Zenon
    <3> QED
      BY <3>1, <3>2, Zenon
  <2>5. i - (i - 1) = 1
    BY <1>1
  <2>6. x[i] = e
    BY <2>1, <2>4, <2>5
  <2> QED
    BY <1>1, <1>2, <2>2, <2>3, <2>6
<1> HIDE DEF x
<1>5. /\ x \o r \in Seq(T) /\ Len(x \o r) = Len(s) + 1
      /\ \A a \in 1..(Len(s) + 1) : (x \o r)[a] = IF a <= i THEN x[a] ELSE r[a - i]
  <2>1. Len(x \o r) = Len(x) + Len(r) /\ x \o r \in Seq(T)
    BY <1>3, <1>4, ConcatProperties
  <2>2. \A a \in 1..(Len(x) + Len(r)) : (x \o r)[a] = IF a <= Len(x) THEN x[a] ELSE r[a - Len(x)]
    BY <1>3, <1>4, ConcatProperties
  <2>3. Len(x) + Len(r) = Len(s) + 1
    BY <1>1, <1>3, <1>4
  <2> QED
    BY <1>4, <2>1, <2>2, <2>3
<1>6. ASSUME NEW a \in 1..(Len(s) + 1)
      PROVE  (x \o r)[a] = IF a < i THEN s[a] ELSE IF a = i THEN e ELSE s[a - 1]
  <2>1. CASE a <= i
    BY <1>1, <1>4, <1>5, <2>1
  <2>2. CASE ~(a <= i)
    <3>1. a - i \in 1..(Len(s) - i + 1) /\ i + (a - i) - 1 = a - 1 /\ ~(a < i) /\ a # i
      BY <1>1, <2>2
    <3> QED
      BY <1>3, <1>5, <2>2, <3>1
  <2> QED
    BY <2>1, <2>2
<1>7. InsertAt(s, i, e) = x \o r
  BY DEF InsertAt, l, r, x
<1> QED
  BY <1>5, <1>6, <1>7

\* A drop moves one tab among the others: no tab is lost, none comes twice, and
\* the dashboard stays first.
LEMMA ReorderedTidy ==
    ASSUME Tidy(openTabs),
           NEW from \in 2..Len(openTabs), NEW target \in 2..Len(openTabs), from # target
    PROVE  /\ Tidy(Reordered(from, target))
           /\ Range(Reordered(from, target)) = Range(openTabs)
<1> DEFINE s == openTabs
           n == Len(s)
           rest == RemoveAt(s, from)
           at == CHOOSE i \in 1..Len(rest) : rest[i] = s[target]
           t == InsertAt(rest, at, s[from])
<1>1. Reordered(from, target) = t
  BY DEF Reordered
<1>2. /\ s \in Seq(Pages) /\ s[1] = Dashboard /\ n \in Nat /\ n >= 1 /\ DOMAIN s = 1..n
      /\ \A i \in 1..n : s[i] \in Pages
      /\ \A i, j \in 1..n : s[i] = s[j] => i = j
  BY TidyAt DEF Tidy
<1> HIDE DEF s
<1>3. from \in Int /\ 2 <= from /\ from <= n /\ target \in Int /\ 2 <= target /\ target <= n
  BY <1>2 DEF s
<1>4. /\ rest \in Seq(Pages) /\ Len(rest) = n - 1
      /\ \A a \in 1..(n - 1) : rest[a] = s[IF a < from THEN a ELSE a + 1]
  <2>1. from \in 1..Len(s) /\ s \in Seq(Pages)
    BY <1>2, <1>3
  <2>2. /\ RemoveAt(s, from) \in Seq(Pages)
        /\ Len(RemoveAt(s, from)) = Len(s) - 1
        /\ \A a \in 1..(Len(s) - 1) :
             RemoveAt(s, from)[a] = s[IF a < from THEN a ELSE a + 1]
    BY <2>1, RemovedAt, Zenon
  <2> QED
    BY <2>2, Zenon
<1> HIDE DEF rest, n
<1>5. at \in 1..(n - 1) /\ rest[at] = s[target]
  <2> DEFINE c == IF target < from THEN target ELSE target - 1
  <2>1. c \in 1..(n - 1) /\ (IF c < from THEN c ELSE c + 1) = target
    BY <1>2, <1>3
  <2> HIDE DEF c
  <2>2. rest[c] = s[target]
    BY <1>4, <2>1
  <2> QED
    BY <1>4, <2>1, <2>2
<1> HIDE DEF at
<1>6. at # 1
  <2>1. 1 \in 1..(n - 1) /\ 1 < from
    BY <1>2, <1>3, <1>5
  <2>2. rest[1] = s[1]
    BY <1>4, <2>1
  <2>3. 1 \in 1..n /\ target \in 1..n /\ target # 1
    BY <1>2, <1>3
  <2> QED
    BY <1>2, <1>5, <2>2, <2>3
<1> DEFINE g(a) == IF a < at THEN (IF a < from THEN a ELSE a + 1)
                   ELSE IF a = at THEN from
                   ELSE (IF a - 1 < from THEN a - 1 ELSE a)
<1>7. /\ t \in Seq(Pages) /\ Len(t) = n
      /\ \A a \in 1..n : t[a] = IF a < at THEN rest[a] ELSE IF a = at THEN s[from] ELSE rest[a - 1]
  <2>1. at \in 1..Len(rest) /\ s[from] \in Pages /\ Len(rest) + 1 = n
    <3>1. from \in 1..n
      BY <1>2, <1>3
    <3>2. (n - 1) + 1 = n
      BY <1>2
    <3> QED
      BY <1>2, <1>4, <1>5, <3>1, <3>2
  <2>2. ASSUME NEW e \in Pages
        PROVE  /\ InsertAt(rest, at, e) \in Seq(Pages)
               /\ Len(InsertAt(rest, at, e)) = Len(rest) + 1
               /\ \A a \in 1..(Len(rest) + 1) :
                    InsertAt(rest, at, e)[a] =
                        IF a < at THEN rest[a] ELSE IF a = at THEN e ELSE rest[a - 1]
    <3>1. rest \in Seq(Pages) /\ at \in 1..Len(rest)
      BY <1>4, <2>1
    <3> HIDE DEF t, g
    <3> QED
      BY <3>1, InsertedAt, SMTT(30)
  <2>3. /\ t \in Seq(Pages)
        /\ Len(t) = Len(rest) + 1
        /\ \A a \in 1..(Len(rest) + 1) :
             t[a] = IF a < at THEN rest[a] ELSE IF a = at THEN s[from] ELSE rest[a - 1]
    BY <2>1, <2>2, Zenon
  <2> HIDE DEF t
  <2> QED
    BY <2>1, <2>3
<1> HIDE DEF t
<1>8. at \in Int /\ 2 <= at /\ at <= n - 1
  BY <1>2, <1>5, <1>6
<1>9. ASSUME NEW a \in 1..n PROVE g(a) \in 1..n /\ t[a] = s[g(a)]
  <2>1. CASE a < at
    <3>1. a \in 1..(n - 1)
      BY <1>2, <1>8, <2>1
    <3>2. t[a] = rest[a] /\ rest[a] = s[IF a < from THEN a ELSE a + 1]
      BY <1>4, <1>7, <2>1, <3>1
    <3>3. g(a) = IF a < from THEN a ELSE a + 1
      BY <2>1
    <3> QED
      BY <1>2, <1>3, <1>8, <2>1, <3>2, <3>3
  <2>2. CASE a = at
    BY <1>2, <1>3, <1>7, <1>8, <2>2
  <2>3. CASE ~(a < at) /\ a # at
    <3>1. a - 1 \in 1..(n - 1) /\ (a - 1) + 1 = a
      BY <1>2, <1>8, <2>3
    <3>2. t[a] = rest[a - 1] /\ rest[a - 1] = s[IF a - 1 < from THEN a - 1 ELSE a]
      BY <1>4, <1>7, <2>3, <3>1
    <3>3. g(a) = IF a - 1 < from THEN a - 1 ELSE a
      BY <2>3
    <3> QED
      BY <1>2, <1>3, <1>8, <2>3, <3>2, <3>3
  <2> QED
    BY <2>1, <2>2, <2>3
<1>10. ASSUME NEW a \in 1..n, NEW b \in 1..n, g(a) = g(b) PROVE a = b
  BY <1>2, <1>3, <1>8, <1>10
<1>11. ASSUME NEW c \in 1..n PROVE \E a \in 1..n : g(a) = c
  <2> DEFINE k == IF c < from THEN c ELSE c - 1
             d == IF c = from THEN at ELSE IF k < at THEN k ELSE k + 1
  <2>1. d \in 1..n /\ g(d) = c
    BY <1>2, <1>3, <1>8
  <2> HIDE DEF d, g
  <2> QED
    BY <2>1
<1>12. g(1) = 1 /\ 1 \in 1..n
  BY <1>2, <1>3, <1>8
<1> HIDE DEF g
<1>13. \A a, b \in 1..n : t[a] = t[b] => a = b
  BY <1>2, <1>9, <1>10
<1>14. DOMAIN t = 1..n
  BY <1>2, <1>7
<1>15. Tidy(t)
  <2>1. t[1] = Dashboard /\ t # <<>>
    BY <1>2, <1>7, <1>9, <1>12, <1>14
  <2> QED
    BY <1>7, <1>13, <1>14, <2>1 DEF Tidy, IsInjective
<1>16. Range(t) = Range(s)
  <2>1. \A a \in 1..n : t[a] \in {s[i] : i \in 1..n}
    BY <1>9
  <2>2. \A c \in 1..n : s[c] \in {t[i] : i \in 1..n}
    <3> SUFFICES ASSUME NEW c \in 1..n PROVE \E a \in 1..n : s[c] = t[a]
      OBVIOUS
    <3>1. PICK a \in 1..n : g(a) = c
      BY <1>11
    <3>2. t[a] = s[g(a)]
      BY <1>9
    <3> QED
      BY <3>1, <3>2, Zenon
  <2>3. {t[i] : i \in 1..n} = {s[i] : i \in 1..n}
    BY <2>1, <2>2
  <2> QED
    BY <1>2, <1>14, <2>3, Zenon DEF Range
<1> QED
  BY <1>1, <1>15, <1>16, Zenon DEF s

\* What is in play is of the constants.
LEMMA PathsInPlay ==
    ASSUME inPlay \in InPlay
    PROVE  inPlay.paths \subseteq Pages /\ inPlay.users \subseteq Users
  <1>1. inPlay \in [users : SUBSET Users, paths : SUBSET Pages, projects : SUBSET Projects]
    BY AppTabsAssumption
  <1> QED
    BY <1>1

\* A user's tabs are the stored ones with the dashboard, so of what the user opened.
LEMMA OwnTabs ==
    ASSUME TabInv, NEW u \in Users
    PROVE  Range(Loaded(tabsOf[u])) \subseteq opened[u] \cup {Dashboard}
  <1>1. u \in Keys /\ Storable(tabsOf[u])
    BY DEF TabInv, Keys
  <1>2. Range(tabsOf[u]) \subseteq opened[u] \cup {Dashboard}
    BY DEF TabInv, OnlyOwnTabs
  <1> QED
    BY <1>1, <1>2, LoadedTidy

\* A login brings the tabs of its user and adds the page in view.
LEMMA SwitchInvariance ==
    ASSUME TabInv, ~Authenticated, NEW u \in Users, NEW to,
           to.path \in Pages, SwitchKey(u, to), UNCHANGED inPlay
    PROVE  TabInv'
<1> DEFINE tabs == TabsFor(u, to.path)
<1>1. /\ user' = u /\ location' = to /\ openTabs' = tabs
      /\ tabsOf' = IF tabs # Loaded(tabsOf[u]) THEN [tabsOf EXCEPT ![u] = tabs] ELSE tabsOf
      /\ activeOf' = [activeOf EXCEPT ![u] = to.path]
      /\ opened' = [opened EXCEPT ![u] = @ \cup {to.path}]
      /\ inPlay' = inPlay
  BY AppTabsAssumption DEF SwitchKey
<1>2. u \in Keys /\ u # Anonymous /\ Storable(tabsOf[u])
  BY AppTabsAssumption DEF TabInv, Keys
<1>3. /\ Tidy(tabs) /\ to.path \in Range(tabs)
      /\ Range(tabs) = Range(Loaded(tabsOf[u])) \cup {to.path}
  BY <1>2, LoadedTidy, WithTabTidy DEF TabsFor
<1>4. Storable(tabs) /\ Loaded(tabs) = tabs /\ tabs \in Seq(Pages)
  BY <1>3, LoadedIs DEF Storable, Tidy
<1> HIDE DEF tabs
<1>5. /\ tabsOf \in [Keys -> Seq(Pages)]
      /\ activeOf \in [Keys -> Pages \cup {None}]
      /\ opened \in [Users -> SUBSET Pages]
      /\ inPlay \in InPlay
      /\ \A k \in Keys : Storable(tabsOf[k])
  BY DEF TabInv
<1>6. /\ tabsOf' \in [Keys -> Seq(Pages)]
      /\ \A k \in Keys : tabsOf'[k] = tabsOf[k] \/ (k = u /\ tabsOf'[k] = tabs)
  <2>1. CASE tabsOf' = tabsOf
    BY <1>5, <2>1
  <2>2. CASE tabsOf' = [tabsOf EXCEPT ![u] = tabs]
    BY <1>4, <1>5, <2>2
  <2> QED
    BY <1>1, <2>1, <2>2, Zenon
<1>7. /\ activeOf' \in [Keys -> Pages \cup {None}]
      /\ \A k \in Keys : activeOf'[k] = IF k = u THEN to.path ELSE activeOf[k]
  BY <1>1, <1>5
<1>8. /\ opened' \in [Users -> SUBSET Pages]
      /\ \A v \in Users : opened[v] \subseteq opened'[v]
      /\ to.path \in opened'[u]
  BY <1>1, <1>5
<1>9. Loaded(tabsOf'[u]) = tabs
  <2>1. CASE tabs = Loaded(tabsOf[u])
    BY <1>1, <2>1
  <2>2. CASE tabs # Loaded(tabsOf[u])
    <3>1. tabsOf'[u] = tabs
      BY <1>1, <1>2, <1>5, <2>2
    <3> QED
      BY <1>4, <3>1
  <2> QED
    BY <2>1, <2>2
<1>10. \A k \in Keys : Storable(tabsOf'[k])
  BY <1>4, <1>5, <1>6
<1>11. OnlyOwnTabs'
  <2> SUFFICES ASSUME NEW v \in Users
               PROVE  Range(tabsOf'[v]) \subseteq opened'[v] \cup {Dashboard}
    BY DEF OnlyOwnTabs
  <2>1. v \in Keys /\ Range(tabsOf[v]) \subseteq opened[v] \cup {Dashboard}
    BY DEF TabInv, OnlyOwnTabs, Keys
  <2>2. CASE tabsOf'[v] = tabsOf[v]
    BY <1>8, <2>1, <2>2
  <2>3. CASE v = u /\ tabsOf'[v] = tabs
    BY <1>3, <1>8, <2>3, OwnTabs
  <2> QED
    BY <1>6, <2>1, <2>2, <2>3
<1>13. activeOf'[u] = to.path /\ to.path \in opened'[u]
  BY <1>2, <1>7, <1>8
<1> QED
  BY <1>1, <1>2, <1>3, <1>5, <1>6, <1>7, <1>8, <1>9, <1>10, <1>11, <1>13
     DEF TabInv, Authenticated

\* Without a user only the anonymous key is written.
LEMMA UnmountedInvariance ==
    ASSUME TabInv, NEW to, to.path \in Pages \cup {Root}, Unmounted(to)
    PROVE  TabInv'
<1> DEFINE path == IF to.path \in Pages THEN to.path ELSE Dashboard
           tabs == TabsFor(Anonymous, path)
<1>1. /\ user' = Anonymous /\ location' = to /\ openTabs' = tabs
      /\ \/ tabsOf' = tabsOf
         \/ tabsOf' = [tabsOf EXCEPT ![Anonymous] = tabs]
      /\ \/ activeOf' = activeOf
         \/ to.path \in Pages /\ activeOf' = [activeOf EXCEPT ![Anonymous] = to.path]
      /\ opened' = opened /\ inPlay' = inPlay
  BY DEF Unmounted
<1>2. Anonymous \in Keys /\ Storable(tabsOf[Anonymous])
  BY DEF TabInv, Keys
<1>3. path \in Pages
  BY AppTabsAssumption
<1> HIDE DEF path
<1>4. Tidy(tabs) /\ tabs \in Seq(Pages)
  BY <1>2, <1>3, LoadedTidy, WithTabTidy DEF TabsFor, Tidy
<1> HIDE DEF tabs
<1>5. /\ tabsOf \in [Keys -> Seq(Pages)]
      /\ activeOf \in [Keys -> Pages \cup {None}]
      /\ opened \in [Users -> SUBSET Pages]
      /\ inPlay \in InPlay
      /\ \A k \in Keys : Storable(tabsOf[k])
  BY DEF TabInv
<1>6. /\ tabsOf' \in [Keys -> Seq(Pages)]
      /\ \A k \in Keys : tabsOf'[k] = tabsOf[k] \/ (k = Anonymous /\ tabsOf'[k] = tabs)
  <2>1. CASE tabsOf' = tabsOf
    BY <1>5, <2>1
  <2>2. CASE tabsOf' = [tabsOf EXCEPT ![Anonymous] = tabs]
    BY <1>4, <1>5, <2>2
  <2> QED
    BY <1>1, <2>1, <2>2, Zenon
<1>7. /\ activeOf' \in [Keys -> Pages \cup {None}]
  BY <1>1, <1>5
<1>8. \A k \in Keys : Storable(tabsOf'[k])
  BY <1>4, <1>5, <1>6 DEF Storable
<1>9. OnlyOwnTabs'
  <2> SUFFICES ASSUME NEW v \in Users
               PROVE  Range(tabsOf'[v]) \subseteq opened'[v] \cup {Dashboard}
    BY DEF OnlyOwnTabs
  <2>1. v \in Keys /\ v # Anonymous /\ Range(tabsOf[v]) \subseteq opened[v] \cup {Dashboard}
    BY AppTabsAssumption DEF TabInv, OnlyOwnTabs, Keys
  <2> QED
    BY <1>1, <1>6, <2>1
<1> QED
  BY <1>1, <1>2, <1>4, <1>5, <1>6, <1>7, <1>8, <1>9 DEF TabInv, Authenticated

\* Tabs that are stored for the user when they change, a page in view among them,
\* and no tab that the user has not opened.
LEMMA StoredInvariance ==
    ASSUME TabInv, Authenticated,
           UNCHANGED <<user, inPlay>>,
           Tidy(openTabs'), location'.path \in Range(openTabs'),
           Range(openTabs') \subseteq Range(openTabs) \cup {location'.path},
           \/ tabsOf' = [tabsOf EXCEPT ![user] = openTabs']
           \/ tabsOf' = tabsOf /\ openTabs' = openTabs,
           activeOf' = [activeOf EXCEPT ![user] = location'.path],
           opened' = [opened EXCEPT ![user] = @ \cup {location'.path}]
    PROVE  TabInv'
<1> DEFINE tabs == openTabs'
           path == location'.path
<1>1. /\ tabsOf \in [Keys -> Seq(Pages)]
      /\ activeOf \in [Keys -> Pages \cup {None}]
      /\ opened \in [Users -> SUBSET Pages]
      /\ inPlay \in InPlay /\ user \in Keys
      /\ \A k \in Keys : Storable(tabsOf[k])
      /\ Loaded(tabsOf[user]) = openTabs
  BY DEF TabInv
<1>2. user \in Users /\ user # Anonymous /\ user' = user /\ inPlay' = inPlay
  BY <1>1 DEF Authenticated, Keys
<1>3. path \in Pages
  BY TidyAt
<1>4. Storable(tabs) /\ Loaded(tabs) = tabs /\ tabs \in Seq(Pages)
  BY LoadedIs DEF Storable, Tidy
<1> HIDE DEF tabs, path
<1>5. /\ tabsOf' \in [Keys -> Seq(Pages)]
      /\ \A k \in Keys : tabsOf'[k] = tabsOf[k] \/ (k = user /\ tabsOf'[k] = tabs)
  <2>1. CASE tabsOf' = tabsOf
    BY <1>1, <2>1
  <2>2. CASE tabsOf' = [tabsOf EXCEPT ![user] = tabs]
    BY <1>1, <1>4, <2>2
  <2> QED
    BY <2>1, <2>2, Zenon DEF tabs
<1>6. /\ activeOf' \in [Keys -> Pages \cup {None}]
      /\ \A k \in Keys : activeOf'[k] = IF k = user THEN path ELSE activeOf[k]
  BY <1>1, <1>3 DEF path
<1>7. /\ opened' \in [Users -> SUBSET Pages]
      /\ \A v \in Users : opened[v] \subseteq opened'[v]
      /\ path \in opened'[user]
  BY <1>1, <1>2, <1>3 DEF path
<1>8. Loaded(tabsOf'[user]) = tabs
  <2>1. CASE tabsOf' = tabsOf /\ openTabs' = openTabs
    BY <1>1, <2>1 DEF tabs
  <2>2. CASE tabsOf' = [tabsOf EXCEPT ![user] = openTabs']
    <3>1. tabsOf'[user] = tabs
      BY <1>1, <2>2 DEF tabs
    <3> QED
      BY <1>4, <3>1
  <2> QED
    BY <2>1, <2>2
<1>9. \A k \in Keys : Storable(tabsOf'[k])
  BY <1>1, <1>3, <1>4, <1>5, <1>6
<1>10. OnlyOwnTabs'
  <2> SUFFICES ASSUME NEW v \in Users
               PROVE  Range(tabsOf'[v]) \subseteq opened'[v] \cup {Dashboard}
    BY DEF OnlyOwnTabs
  <2>1. v \in Keys /\ Range(tabsOf[v]) \subseteq opened[v] \cup {Dashboard}
    BY DEF TabInv, OnlyOwnTabs, Keys
  <2>2. CASE tabsOf'[v] = tabsOf[v]
    BY <1>7, <2>1, <2>2
  <2>3. CASE v = user /\ tabsOf'[v] = tabs
    <3>1. Range(openTabs) \subseteq opened[user] \cup {Dashboard}
      BY <1>1, <1>2, OwnTabs
    <3>2. Range(tabs) \subseteq Range(openTabs) \cup {path}
      BY DEF tabs, path
    <3> QED
      BY <1>2, <1>7, <2>3, <3>1, <3>2
  <2> QED
    BY <1>5, <2>1, <2>2, <2>3
<1>11. activeOf'[user] = path /\ path \in opened'[user]
  BY <1>1, <1>6, <1>7
<1> QED
  BY <1>1, <1>2, <1>3, <1>5, <1>6, <1>7, <1>8, <1>9, <1>10, <1>11
     DEF TabInv, Authenticated, tabs, path

\* The tab that comes into view is one of those that stay.
LEMMA InViewStays ==
    ASSUME NEW s, Tidy(s), location.path \in Range(s), NEW next, Tidy(next)
    PROVE  /\ InView(s, next) \in Range(next)
           /\ \E i \in 1..Len(s) :
                /\ s[i] = location.path
                /\ InView(s, next) = next[IF i <= Len(next) THEN i ELSE Len(next)]
<1> DEFINE index == CHOOSE i \in 1..Len(s) : s[i] = location.path
<1>1. index \in 1..Len(s) /\ s[index] = location.path
  <2>1. \E i \in 1..Len(s) : s[i] = location.path
    BY TidyAt
  <2> QED
    BY <2>1
<1>2. InView(s, next) = next[IF index <= Len(next) THEN index ELSE Len(next)]
  BY DEF InView
<1> HIDE DEF index
<1>3. Len(s) \in Nat /\ Len(next) \in Nat /\ Len(next) >= 1 /\ Range(next) = {next[i] : i \in 1..Len(next)}
  BY TidyAt
<1>4. (IF index <= Len(next) THEN index ELSE Len(next)) \in 1..Len(next)
  BY <1>1, <1>3
<1> QED
  BY <1>1, <1>2, <1>3, <1>4

\* Closing tabs.
LEMMA CloseInvariance ==
    ASSUME TabInv, NEW P, CloseTabSet(P)
    PROVE  TabInv'
<1> DEFINE C == Closes(P)
           next == Kept(openTabs, Pages \ C)
<1>1. Tidy(openTabs) /\ Authenticated /\ location.path \in Range(openTabs)
  BY DEF TabInv, CloseTabSet
<1>2. Tidy(next) /\ Range(next) = Range(openTabs) \ C
  <2>1. Dashboard \notin C
    BY DEF Closes
  <2> HIDE DEF C
  <2> QED
    BY <1>1, <2>1, KeptTidy
<1>3. CASE location.path \in C
  <2> DEFINE to == Place(InView(openTabs, next), None)
  <2>1. Show(to, next)
    BY <1>3, Zenon DEF CloseTabSet
  <2>2. to.path \in Range(next)
    BY <1>1, <1>2, InViewStays DEF Place
  <2> HIDE DEF next, to
  <2>3. WithTab(next, to.path) = next
    BY <2>2 DEF WithTab
  <2>4. /\ location' = to /\ openTabs' = next
        /\ tabsOf' = IF next # openTabs THEN [tabsOf EXCEPT ![user] = next] ELSE tabsOf
        /\ activeOf' = [activeOf EXCEPT ![user] = to.path]
        /\ opened' = [opened EXCEPT ![user] = @ \cup {to.path}]
        /\ UNCHANGED <<user, inPlay>>
    BY <2>1, <2>3 DEF Show
  <2> QED
    BY <1>1, <1>2, <2>2, <2>4, StoredInvariance
<1>4. CASE location.path \notin C
  <2>1. /\ openTabs' = next
        /\ tabsOf' = [tabsOf EXCEPT ![user] = next]
        /\ UNCHANGED <<user, location, activeOf, opened, inPlay>>
    BY <1>4, Zenon DEF CloseTabSet
  <2> HIDE DEF next
  <2>2. /\ activeOf' = [activeOf EXCEPT ![user] = location'.path]
        /\ opened' = [opened EXCEPT ![user] = @ \cup {location'.path}]
    <3>1. /\ activeOf \in [Keys -> Pages \cup {None}]
          /\ opened \in [Users -> SUBSET Pages]
          /\ activeOf[user] = location.path /\ location.path \in opened[user]
      BY <1>1 DEF TabInv
    <3> QED
      BY <2>1, <3>1
  <2> QED
    BY <1>1, <1>2, <1>4, <2>1, <2>2, StoredInvariance
<1> QED
  BY <1>3, <1>4

\* The application before its first login.
LEMMA TabsInitially ==
    ASSUME Init
    PROVE  TabInv
<1>1. /\ inPlay \in InPlay /\ user = Anonymous
      /\ location.path \in Pages \cup {Root}
  BY PathsInPlay DEF Init, Place
<1>2. Tidy(openTabs)
  <2> DEFINE p == IF location.path = Root THEN Dashboard ELSE location.path
  <2>1. p \in Pages
    BY <1>1, AppTabsAssumption
  <2>2. openTabs = WithTab(<<Dashboard>>, p)
    BY DEF Init
  <2> HIDE DEF p
  <2>3. Storable(<<>>) /\ Tidy(<<Dashboard>>)
    <3>1. Storable(<<>>)
      BY DEF Storable
    <3> QED
      BY <3>1, LoadedTidy, LoadedIs
  <2> QED
    BY <2>1, <2>2, <2>3, WithTabTidy
<1>3. /\ tabsOf \in [Keys -> Seq(Pages)]
      /\ \A k \in Keys : Storable(tabsOf[k])
      /\ \A u \in Users : u \in Keys /\ tabsOf[u] = <<>>
  <2>1. openTabs \in Seq(Pages) /\ Storable(openTabs) /\ Storable(<<>>) /\ <<>> \in Seq(Pages)
    BY <1>2 DEF Storable, Tidy
  <2>2. tabsOf = [k \in Keys |-> IF k = Anonymous /\ Len(openTabs) > 1
                                 THEN openTabs ELSE <<>>]
    BY DEF Init
  <2>3. \A k \in Keys : tabsOf[k] = openTabs \/ tabsOf[k] = <<>>
    BY <2>2
  <2>4. \A u \in Users : u \in Keys /\ u # Anonymous /\ tabsOf[u] = <<>>
    BY <2>2, AppTabsAssumption DEF Keys
  <2> QED
    BY <2>1, <2>2, <2>3, <2>4
<1>4. activeOf \in [Keys -> Pages \cup {None}]
  <2>1. activeOf = [k \in Keys |-> IF k = Anonymous /\ location.path # Root
                                   THEN location.path ELSE None]
    BY DEF Init
  <2> QED
    BY <1>1, <2>1
<1>5. opened \in [Users -> SUBSET Pages]
  BY DEF Init
<1>6. OnlyOwnTabs
  <2>1. Range(<<>>) = {}
    BY DEF Range
  <2> QED
    BY <1>3, <2>1 DEF OnlyOwnTabs
<1>7. user \in Keys
  BY <1>1 DEF Keys
<1> QED
  BY <1>1, <1>2, <1>3, <1>4, <1>5, <1>6, <1>7 DEF TabInv, Authenticated

\* Navigation of the shell.
LEMMA ShowInvariance ==
    ASSUME TabInv, Authenticated, NEW to, to.path \in Pages,
           Show(to, openTabs)
    PROVE  TabInv'
<1> DEFINE all == WithTab(openTabs, to.path)
<1>1. /\ location' = to /\ openTabs' = all
      /\ tabsOf' = IF all # openTabs THEN [tabsOf EXCEPT ![user] = all] ELSE tabsOf
      /\ activeOf' = [activeOf EXCEPT ![user] = to.path]
      /\ opened' = [opened EXCEPT ![user] = @ \cup {to.path}]
      /\ UNCHANGED <<user, inPlay>>
  BY DEF Show
<1>2. /\ Tidy(all) /\ to.path \in Range(all)
      /\ Range(all) = Range(openTabs) \cup {to.path}
  BY WithTabTidy DEF TabInv
<1> HIDE DEF all
<1> QED
  BY <1>1, <1>2, StoredInvariance

\* Moving a tab.
LEMMA ReorderInvariance ==
    ASSUME TabInv,
           NEW i \in 1..Len(openTabs), NEW j \in 1..Len(openTabs), Reorder(i, j)
    PROVE  TabInv'
<1>1. /\ Authenticated /\ i # j /\ i # 1 /\ j # 1
      /\ openTabs' = Reordered(i, j)
      /\ tabsOf' = [tabsOf EXCEPT ![user] = openTabs']
      /\ UNCHANGED <<user, location, activeOf, opened, inPlay>>
  BY DEF Reorder
<1>2. Tidy(openTabs) /\ location.path \in Range(openTabs)
  BY <1>1 DEF TabInv
<1>3. i \in 2..Len(openTabs) /\ j \in 2..Len(openTabs)
  BY <1>1, <1>2, TidyAt
<1>4. Tidy(openTabs') /\ Range(openTabs') = Range(openTabs)
  BY <1>1, <1>2, <1>3, ReorderedTidy
<1>5. /\ activeOf' = [activeOf EXCEPT ![user] = location'.path]
      /\ opened' = [opened EXCEPT ![user] = @ \cup {location'.path}]
  <2>1. /\ activeOf \in [Keys -> Pages \cup {None}]
        /\ opened \in [Users -> SUBSET Pages]
        /\ activeOf[user] = location.path /\ location.path \in opened[user]
    BY <1>1 DEF TabInv
  <2> QED
    BY <1>1, <2>1
<1> QED
  BY <1>1, <1>2, <1>4, <1>5, StoredInvariance

\* Every step.
LEMMA TabsStep ==
    ASSUME TabInv, [Next]_vars
    PROVE  TabInv'
<1>0. /\ inPlay \in InPlay
      /\ location.path \in Pages \cup {Root}
      /\ inPlay.paths \subseteq Pages
  BY PathsInPlay DEF TabInv
<1>1. ASSUME NEW u \in Users, Login(u) PROVE TabInv'
  <2>1. Landing(u).path \in Pages
    <3>1. u \in Keys /\ activeOf[u] \in Pages \cup {None} /\ Dashboard \in Pages
      BY AppTabsAssumption DEF TabInv, Keys
    <3> QED
      BY <1>0, <3>1 DEF Landing, Place
  <2> QED
    BY <1>1, <2>1, SwitchInvariance DEF Login
<1>2. CASE Logout
  BY <1>0, <1>2, UnmountedInvariance DEF Logout
<1>3. CASE Reload
  <2>1. PICK to \in {location, Place(Root, None)} : Unmounted(to)
    BY <1>3 DEF Reload
  <2>2. to.path \in Pages \cup {Root}
    BY <1>0 DEF Place
  <2> QED
    BY <2>1, <2>2, UnmountedInvariance
<1>4. ASSUME NEW p \in inPlay.paths, NEW id, Visit(Place(p, id)) PROVE TabInv'
  BY <1>0, <1>4, ShowInvariance DEF Visit, Place
<1>5. ASSUME NEW p \in Pages, ClickTab(p) PROVE TabInv'
  BY <1>5, ShowInvariance DEF ClickTab, Place
<1>6. ASSUME NEW id, ChooseProject(id) PROVE TabInv'
  BY <1>6 DEF ChooseProject, TabInv, Authenticated, OnlyOwnTabs
<1>7. ASSUME NEW p, CloseTab(p) PROVE TabInv'
  BY <1>7, CloseInvariance DEF CloseTab
<1>8. ASSUME NEW i \in 1..Len(openTabs), CloseLeft(i) \/ CloseRight(i) \/ CloseOthers(i)
      PROVE  TabInv'
  BY <1>8, CloseInvariance DEF CloseLeft, CloseRight, CloseOthers
<1>9. CASE CloseAll
  BY <1>9, CloseInvariance DEF CloseAll
<1>10. CASE UNCHANGED vars
  BY <1>10 DEF vars, TabInv, Authenticated, OnlyOwnTabs
<1> QED
  BY <1>1, <1>2, <1>3, <1>4, <1>5, <1>6, <1>7, <1>8, <1>9, <1>10, ReorderInvariance DEF Next

\* At every time the tabs are tidy, those of each user in localStorage are none or
\* tidy, and those in view are the ones that are stored.
THEOREM TabInvariance == Spec => []TabInv
<1>1. Init => TabInv
  BY TabsInitially
<1>2. TabInv /\ [Next]_vars => TabInv'
  BY TabsStep
<1> QED
  BY <1>1, <1>2, PTL DEF Spec

\* What localStorage holds for the user in view brings back the tabs, in their order,
\* and the page, whatever was opened, closed, moved, reloaded, and by whom.
THEOREM StoredTabsComeBack == Spec => []TabsAreRestored
<1>1. TabInv => TabsAreRestored
  BY DEF TabInv, TabsAreRestored, Tidy
<1> QED
  BY <1>1, TabInvariance, PTL

\* What is stored for a user are pages that user had in view, whoever used the browser
\* before: the page in view at a login is the only one to pass.
THEOREM TabsAreOwn == Spec => []OnlyOwnTabs
<1>1. TabInv => OnlyOwnTabs
  BY DEF TabInv
<1> QED
  BY <1>1, TabInvariance, PTL

\* All but one tab stay.
LEMMA KeptWithout ==
    ASSUME NEW s, Tidy(s), NEW i \in 1..Len(s)
    PROVE  /\ Kept(s, Pages \ {s[i]}) = RemoveAt(s, i)
           /\ Len(RemoveAt(s, i)) = Len(s) - 1
           /\ \A a \in 1..(Len(s) - 1) : RemoveAt(s, i)[a] = s[IF a < i THEN a ELSE a + 1]
<1> DEFINE t == RemoveAt(s, i)
           n == Len(s)
           S == Pages \ {s[i]}
           f == [a \in 1..(n - 1) |-> IF a < i THEN a ELSE a + 1]
<1>1. /\ s \in Seq(Pages) /\ n \in Nat /\ n >= 1 /\ \A a \in 1..n : s[a] \in Pages
      /\ \A a, b \in 1..n : s[a] = s[b] => a = b
  BY TidyAt DEF Tidy
<1>2. /\ t \in Seq(Pages) /\ Len(t) = n - 1
      /\ \A a \in 1..(n - 1) : t[a] = s[IF a < i THEN a ELSE a + 1]
  BY <1>1, RemovedAt
<1>3. i \in Int /\ 1 <= i /\ i <= n
  BY <1>1
<1> HIDE DEF t, n
<1>4. \A a \in 1..(n - 1) : f[a] = IF a < i THEN a ELSE a + 1
  OBVIOUS
<1>5. f \in [1..(n - 1) -> 1..n]
  BY <1>1, <1>3
<1> HIDE DEF f
<1>6. \A a, b \in 1..(n - 1) : a < b => f[a] < f[b]
  BY <1>1, <1>3, <1>4
<1>7. ASSUME NEW c \in 1..n PROVE s[c] \in S <=> \E a \in 1..(n - 1) : f[a] = c
  <2>1. CASE c = i
    <3>1. \A a \in 1..(n - 1) : f[a] # c
      BY <1>1, <1>3, <1>4, <2>1
    <3> QED
      BY <2>1, <3>1
  <2>2. CASE c # i
    <3> DEFINE a == IF c < i THEN c ELSE c - 1
    <3>1. a \in 1..(n - 1) /\ (IF a < i THEN a ELSE a + 1) = c
      BY <1>1, <1>3, <2>2
    <3> HIDE DEF a
    <3>2. f[a] = c
      BY <1>4, <3>1
    <3>3. s[c] \in S
      <4>1. i \in 1..n
        BY <1>1, <1>3
      <4> QED
        BY <1>1, <2>2, <4>1
    <3> QED
      BY <3>1, <3>2, <3>3
  <2> QED
    BY <2>1, <2>2
<1>8. Places(f, Len(t), Len(s), s, S)
  BY <1>2, <1>5, <1>6, <1>7 DEF Places, n
<1>9. \A a \in 1..Len(t) : t[a] = s[f[a]]
  BY <1>2, <1>4
<1>10. Kept(s, S) = t
  <2> HIDE DEF S
  <2> QED
    BY <1>1, <1>2, <1>8, <1>9, KeptIs
<1> QED
  BY <1>2, <1>10 DEF t, n

\* The tabs up to one stay.
LEMMA KeptUpTo ==
    ASSUME NEW s, Tidy(s), NEW i \in 1..Len(s)
    PROVE  /\ Kept(s, Pages \ {s[j] : j \in (i + 1)..Len(s)}) = SubSeq(s, 1, i)
           /\ Len(SubSeq(s, 1, i)) = i
           /\ \A a \in 1..i : SubSeq(s, 1, i)[a] = s[a]
<1> DEFINE t == SubSeq(s, 1, i)
           n == Len(s)
           S == Pages \ {s[j] : j \in (i + 1)..n}
           f == [a \in 1..i |-> a]
<1>1. /\ s \in Seq(Pages) /\ n \in Nat /\ n >= 1 /\ \A a \in 1..n : s[a] \in Pages
      /\ \A a, b \in 1..n : s[a] = s[b] => a = b
  BY TidyAt DEF Tidy
<1>2. /\ t \in Seq(Pages) /\ Len(t) = i
      /\ \A a \in 1..i : t[a] = s[a]
  BY <1>1, SubSeqProperties
<1>3. i \in Int /\ 1 <= i /\ i <= n
  BY <1>1
<1> HIDE DEF t, n
<1>4. f \in [1..i -> 1..n] /\ \A a \in 1..i : f[a] = a
  BY <1>1, <1>3
<1> HIDE DEF f
<1>5. \A a, b \in 1..i : a < b => f[a] < f[b]
  BY <1>4
<1>6. ASSUME NEW c \in 1..n PROVE s[c] \in S <=> \E a \in 1..i : f[a] = c
  <2>1. CASE c <= i
    <3>1. c \in 1..i /\ \A j \in (i + 1)..n : j \in 1..n /\ j # c
      BY <1>1, <1>3, <2>1
    <3>2. s[c] \in S
      BY <1>1, <3>1
    <3> QED
      BY <1>4, <3>1, <3>2
  <2>2. CASE ~(c <= i)
    <3>1. c \in (i + 1)..n /\ \A a \in 1..i : a # c
      BY <1>1, <1>3, <2>2
    <3> QED
      BY <1>4, <3>1
  <2> QED
    BY <2>1, <2>2
<1>7. Places(f, Len(t), Len(s), s, S)
  BY <1>2, <1>4, <1>5, <1>6 DEF Places, n
<1>8. Kept(s, S) = t
  <2>1. \A a \in 1..Len(t) : t[a] = s[f[a]]
    BY <1>2, <1>4
  <2> HIDE DEF S
  <2> QED
    BY <1>1, <1>2, <1>7, <2>1, KeptIs
<1> QED
  BY <1>2, <1>8 DEF t, n

\* The dashboard and one other tab stay.
LEMMA KeptAlone ==
    ASSUME NEW s, Tidy(s), NEW i \in 2..Len(s)
    PROVE  Kept(s, Pages \ Closes({s[j] : j \in (1..Len(s)) \ {i}})) = <<Dashboard, s[i]>>
<1> DEFINE t == <<Dashboard, s[i]>>
           n == Len(s)
           S == Pages \ Closes({s[j] : j \in (1..n) \ {i}})
           f == [a \in 1..2 |-> IF a = 1 THEN 1 ELSE i]
<1>1. /\ s \in Seq(Pages) /\ n \in Nat /\ n >= 1 /\ \A a \in 1..n : s[a] \in Pages
      /\ \A a, b \in 1..n : s[a] = s[b] => a = b
      /\ s[1] = Dashboard
  BY TidyAt DEF Tidy
<1>2. i \in Int /\ 2 <= i /\ i <= n /\ i \in 1..n /\ 1 \in 1..n
  BY <1>1
<1>3. t \in Seq(Pages) /\ Len(t) = 2 /\ t[1] = s[1] /\ t[2] = s[i]
  <2>1. Dashboard \in Pages /\ s[i] \in Pages
    BY <1>1, <1>2
  <2> QED
    BY <1>1, <2>1
<1> HIDE DEF t, n
<1>4. f \in [1..2 -> 1..n] /\ f[1] = 1 /\ f[2] = i
  BY <1>1, <1>2
<1> HIDE DEF f
<1>5. \A a, b \in 1..2 : a < b => f[a] < f[b]
  BY <1>2, <1>4
<1>6. ASSUME NEW c \in 1..n PROVE s[c] \in S <=> \E a \in 1..2 : f[a] = c
  <2>1. (\E a \in 1..2 : f[a] = c) <=> c \in {1, i}
    BY <1>4
  <2>2. s[c] \in S <=> c \in {1, i}
    <3>1. s[c] \in Pages /\ (s[c] = Dashboard <=> c = 1)
      BY <1>1, <1>2
    <3>2. s[c] \in {s[j] : j \in (1..n) \ {i}} <=> c # i
      BY <1>1, <1>2
    <3> QED
      BY <3>1, <3>2 DEF Closes
  <2> QED
    BY <2>1, <2>2
<1>7. Places(f, Len(t), Len(s), s, S)
  BY <1>3, <1>4, <1>5, <1>6 DEF Places, n
<1>8. Kept(s, S) = t
  <2>1. \A a \in 1..Len(t) : t[a] = s[f[a]]
    BY <1>3, <1>4
  <2>2. s \in Seq(Pages) /\ t \in Seq(Pages)
    BY <1>1, <1>3
  <2> HIDE DEF S
  <2> QED
    BY <1>7, <2>1, <2>2, KeptIs
<1> QED
  BY <1>8 DEF t, n

\* What a set of tabs that closes leaves, and what comes into view.
LEMMA Closing ==
    ASSUME TabInv, NEW P, CloseTabSet(P)
    PROVE  LET next == Kept(openTabs, Pages \ Closes(P))
           IN  /\ Authenticated /\ Tidy(openTabs) /\ Tidy(next)
               /\ location.path \in Range(openTabs)
               /\ Closes(P) # {}
               /\ openTabs' = next
               /\ location.path \notin Closes(P) => location' = location
               /\ location.path \in Closes(P) =>
                    \E k \in 1..Len(openTabs) :
                       /\ openTabs[k] = location.path
                       /\ location'.path = next[IF k <= Len(next) THEN k ELSE Len(next)]
<1> DEFINE C == Closes(P)
           next == Kept(openTabs, Pages \ C)
<1>1. Tidy(openTabs) /\ Authenticated /\ location.path \in Range(openTabs) /\ C # {}
  BY DEF TabInv, CloseTabSet
<1>2. Tidy(next)
  <2>1. Dashboard \notin C
    BY DEF Closes
  <2> HIDE DEF C
  <2> QED
    BY <1>1, <2>1, KeptTidy
<1>3. CASE location.path \in C
  <2> DEFINE to == Place(InView(openTabs, next), None)
  <2>1. Show(to, next)
    BY <1>3, Zenon DEF CloseTabSet
  <2>2. to.path = InView(openTabs, next)
    BY DEF Place
  <2>3. /\ to.path \in Range(next)
        /\ \E k \in 1..Len(openTabs) :
             /\ openTabs[k] = location.path
             /\ to.path = next[IF k <= Len(next) THEN k ELSE Len(next)]
    <3> HIDE DEF next
    <3> QED
      BY <1>1, <1>2, <2>2, InViewStays
  <2>4. WithTab(next, to.path) = next
    BY <2>3 DEF WithTab
  <2>5. location' = to /\ openTabs' = next
    BY <2>1, <2>4, Zenon DEF Show
  <2> HIDE DEF to, next, C
  <2>6. \E k \in 1..Len(openTabs) :
             /\ openTabs[k] = location.path
             /\ location'.path = next[IF k <= Len(next) THEN k ELSE Len(next)]
    BY <2>3, <2>5, Zenon
  <2> QED
    BY <1>1, <1>2, <1>3, <2>5, <2>6, Zenon DEF next, C
<1>4. CASE location.path \notin C
  <2>1. openTabs' = next /\ location' = location
    BY <1>4, Zenon DEF CloseTabSet
  <2> QED
    BY <1>1, <1>2, <1>4, <2>1, Zenon
<1> QED
  BY <1>3, <1>4, Zenon

\* The cross of a tab.
LEMMA CrossShows ==
    ASSUME TabInv, NEW i \in 1..Len(openTabs), CloseTab(openTabs[i])
    PROVE  /\ openTabs' = RemoveAt(openTabs, i)
           /\ location'.path = IF location.path # openTabs[i] THEN location.path
                               ELSE openTabs[IF i < Len(openTabs) THEN i + 1 ELSE i - 1]
<1> DEFINE s == openTabs
           n == Len(openTabs)
           P == {openTabs[i]}
           next == Kept(openTabs, Pages \ Closes(P))
<1>1. /\ Tidy(openTabs) /\ Closes(P) # {} /\ openTabs' = next
      /\ location.path \notin Closes(P) => location' = location
      /\ location.path \in Closes(P) =>
            \E k \in 1..n :
               /\ openTabs[k] = location.path
               /\ location'.path = next[IF k <= Len(next) THEN k ELSE Len(next)]
  <2>1. CloseTabSet(P)
    BY DEF CloseTab
  <2> HIDE DEF P
  <2> QED
    BY <2>1, Closing, Zenon
<1>2. openTabs[i] # Dashboard /\ Closes(P) = P
  BY <1>1 DEF Closes
<1>3. /\ next = RemoveAt(openTabs, i) /\ Len(next) = n - 1
      /\ \A a \in 1..(n - 1) : next[a] = openTabs[IF a < i THEN a ELSE a + 1]
  <2>1. next = Kept(openTabs, Pages \ P)
    BY <1>2
  <2> HIDE DEF next
  <2> QED
    BY <1>1, <2>1, KeptWithout
<1>4. /\ n \in Nat /\ n >= 1 /\ \A a, b \in 1..n : openTabs[a] = openTabs[b] => a = b
      /\ openTabs[1] = Dashboard
  BY <1>1, TidyAt DEF Tidy
<1> HIDE DEF next, n
<1>5. i \in 2..n /\ i \in 1..n
  BY <1>2, <1>4 DEF n
<1>6. CASE location.path = openTabs[i]
  <2>1. location.path \in Closes(P)
    BY <1>2, <1>6
  <2>2. PICK k \in 1..n : /\ openTabs[k] = location.path
                          /\ location'.path = next[IF k <= Len(next) THEN k ELSE Len(next)]
    BY <1>1, <2>1
  <2>3. k = i
    BY <1>4, <1>5, <1>6, <2>2
  <2>4. location'.path = next[IF i <= n - 1 THEN i ELSE n - 1]
    BY <1>3, <2>2, <2>3
  <2>5. CASE i < n
    <3>1. i \in 1..(n - 1) /\ i <= n - 1 /\ ~(i < i)
      BY <1>4, <1>5, <2>5
    <3>2. location'.path = openTabs[i + 1]
      BY <1>3, <2>4, <3>1
    <3> QED
      BY <1>1, <1>3, <1>6, <2>5, <3>2 DEF n
  <2>6. CASE ~(i < n)
    <3>1. i = n /\ n - 1 \in 1..(n - 1) /\ ~(i <= n - 1) /\ n - 1 < i
      BY <1>4, <1>5, <2>6
    <3>2. location'.path = openTabs[i - 1]
      BY <1>3, <2>4, <3>1
    <3> QED
      BY <1>1, <1>3, <1>6, <2>6, <3>2 DEF n
  <2> QED
    BY <2>5, <2>6
<1>7. CASE location.path # openTabs[i]
  BY <1>1, <1>2, <1>3, <1>7
<1> QED
  BY <1>6, <1>7

\* "Close right" of a tab's menu.
LEMMA CloseRightShows ==
    ASSUME TabInv, NEW i \in 1..Len(openTabs), CloseRight(i)
    PROVE  LET kept == SubSeq(openTabs, 1, i)
           IN  /\ openTabs' = kept
               /\ location'.path = IF location.path \in Range(kept) THEN location.path
                                   ELSE openTabs[i]
<1> DEFINE n == Len(openTabs)
           P == {openTabs[j] : j \in (i + 1)..n}
           next == Kept(openTabs, Pages \ Closes(P))
           kept == SubSeq(openTabs, 1, i)
<1>1. /\ Tidy(openTabs) /\ openTabs' = next
      /\ location.path \in Range(openTabs)
      /\ location.path \notin Closes(P) => location' = location
      /\ location.path \in Closes(P) =>
            \E k \in 1..n :
               /\ openTabs[k] = location.path
               /\ location'.path = next[IF k <= Len(next) THEN k ELSE Len(next)]
  <2>1. CloseTabSet(P)
    BY DEF CloseRight
  <2> HIDE DEF P
  <2> QED
    BY <2>1, Closing, Zenon
<1>2. /\ n \in Nat /\ n >= 1 /\ \A a, b \in 1..n : openTabs[a] = openTabs[b] => a = b
      /\ openTabs[1] = Dashboard
      /\ Range(openTabs) = {openTabs[a] : a \in 1..n}
  BY <1>1, TidyAt DEF Tidy
<1>3. i \in Int /\ 1 <= i /\ i <= n /\ i \in 1..n
  BY <1>2
<1>4. Closes(P) = P
  <2>1. \A j \in (i + 1)..n : j \in 1..n /\ j # 1
    BY <1>2, <1>3
  <2>2. 1 \in 1..n
    BY <1>2
  <2>3. Dashboard \notin P
    BY <1>2, <2>1, <2>2
  <2> QED
    BY <2>3 DEF Closes
<1>5. next = kept /\ Len(kept) = i /\ \A a \in 1..i : kept[a] = openTabs[a]
  BY <1>1, <1>4, KeptUpTo
<1>6. Range(kept) = {openTabs[a] : a \in 1..i}
  <2>1. kept \in Seq(Pages)
    <3>1. openTabs \in Seq(Pages)
      BY <1>1 DEF Tidy
    <3> QED
      BY <1>2, <1>3, <3>1, SubSeqProperties
  <2> HIDE DEF kept
  <2>2. DOMAIN kept = 1..i
    BY <1>5, <2>1
  <2> QED
    BY <1>5, <2>2 DEF Range
<1> HIDE DEF next, kept
<1>7. CASE location.path \in Closes(P)
  <2>1. PICK k \in 1..n : /\ openTabs[k] = location.path
                          /\ location'.path = next[IF k <= Len(next) THEN k ELSE Len(next)]
    BY <1>1, <1>7
  <2>2. PICK j \in (i + 1)..n : location.path = openTabs[j]
    BY <1>4, <1>7
  <2>3. j \in 1..n /\ k = j /\ k > i
    BY <1>2, <1>3, <2>1, <2>2
  <2>4. location'.path = openTabs[i]
    BY <1>3, <1>5, <2>1, <2>3
  <2>5. location.path \notin Range(kept)
    <3>1. \A a \in 1..i : a \in 1..n /\ a # k
      BY <1>2, <1>3, <2>3
    <3> QED
      BY <1>2, <1>6, <2>1, <3>1
  <2> QED
    BY <1>1, <1>5, <2>4, <2>5 DEF kept
<1>8. CASE location.path \notin Closes(P)
  <2>1. location.path \in Range(kept)
    <3>1. PICK a \in 1..n : location.path = openTabs[a]
      BY <1>1, <1>2
    <3>2. a \in 1..i
      <4>1. a \notin (i + 1)..n
        BY <1>4, <1>8, <3>1
      <4> QED
        BY <1>2, <1>3, <4>1
    <3> QED
      BY <1>6, <3>1, <3>2
  <2> QED
    BY <1>1, <1>5, <1>8, <2>1 DEF kept
<1> QED
  BY <1>7, <1>8

\* "Close others".
LEMMA CloseOthersShows ==
    ASSUME TabInv, NEW i \in 1..Len(openTabs), CloseOthers(i)
    PROVE  location'.path = IF location.path = Dashboard THEN Dashboard ELSE openTabs[i]
<1> DEFINE n == Len(openTabs)
           P == {openTabs[j] : j \in (1..n) \ {i}}
           next == Kept(openTabs, Pages \ Closes(P))
<1>1. /\ Tidy(openTabs) /\ openTabs' = next /\ Tidy(next)
      /\ location.path \in Range(openTabs)
      /\ location.path \notin Closes(P) => location' = location
      /\ location.path \in Closes(P) =>
            \E k \in 1..n :
               /\ openTabs[k] = location.path
               /\ location'.path = next[IF k <= Len(next) THEN k ELSE Len(next)]
  <2>1. CloseTabSet(P)
    BY DEF CloseOthers
  <2> HIDE DEF P
  <2> QED
    BY <2>1, Closing, Zenon
<1>2. /\ n \in Nat /\ n >= 1 /\ \A a, b \in 1..n : openTabs[a] = openTabs[b] => a = b
      /\ openTabs[1] = Dashboard
      /\ Range(openTabs) = {openTabs[a] : a \in 1..n}
  BY <1>1, TidyAt DEF Tidy
<1>3. CASE location.path \notin Closes(P)
  <2>1. location.path = Dashboard \/ location.path = openTabs[i]
    BY <1>1, <1>2, <1>3 DEF Closes
  <2> QED
    BY <1>1, <1>3, <2>1
<1>4. CASE location.path \in Closes(P)
  <2>1. PICK k \in 1..n : /\ openTabs[k] = location.path
                          /\ location'.path = next[IF k <= Len(next) THEN k ELSE Len(next)]
    BY <1>1, <1>4
  <2>2. k # 1 /\ location.path # Dashboard
    BY <1>2, <1>4, <2>1 DEF Closes
  <2>3. CASE i = 1
    <3>1. Range(next) = Range(openTabs) \ Closes(P)
      <4>1. Dashboard \notin Closes(P)
        BY DEF Closes
      <4> QED
        BY <1>1, <4>1, KeptTidy
    <3>2. Range(next) \subseteq {Dashboard}
      <4>1. \A a \in 1..n : a # 1 => openTabs[a] \in P /\ openTabs[a] # Dashboard
        <5>1. 1 \in 1..n
          BY <1>2
        <5> QED
          BY <1>2, <2>3, <5>1
      <4> QED
        BY <1>2, <3>1, <4>1 DEF Closes
    <3>3. location'.path \in Range(next)
      <4>1. Len(next) \in Nat /\ Len(next) >= 1 /\ Range(next) = {next[a] : a \in 1..Len(next)}
        BY <1>1, TidyAt
      <4> HIDE DEF next
      <4>2. (IF k <= Len(next) THEN k ELSE Len(next)) \in 1..Len(next)
        BY <1>2, <4>1
      <4> QED
        BY <2>1, <4>1, <4>2
    <3> QED
      BY <1>2, <2>2, <2>3, <3>2, <3>3
  <2>4. CASE i # 1
    <3>1. i \in 2..n
      BY <1>2, <2>4
    <3>2. next = <<Dashboard, openTabs[i]>>
      BY <1>1, <3>1, KeptAlone
    <3> HIDE DEF next
    <3>3. Len(next) = 2 /\ next[2] = openTabs[i]
      BY <3>2
    <3>4. k \in Int /\ k >= 2
      BY <1>2, <2>2
    <3>5. (IF k <= 2 THEN k ELSE 2) = 2
      BY <3>4
    <3>6. location'.path = next[2]
      BY <2>1, <3>3, <3>5
    <3> QED
      BY <2>2, <3>3, <3>6
  <2> QED
    BY <2>3, <2>4
<1> QED
  BY <1>3, <1>4

\* Whatever tab is closed, by its cross or by the menu of another, the page in view
\* stays unless its tab goes, and then the tab beside it, or that of the menu, comes
\* into view (closeTabSet).  It needs tabs that are each there once, with the page in
\* view among them.
THEOREM ClosingIsExpected == Spec => ClosingShowsTheNextTab
<1> DEFINE Expected ==
             /\ \A i \in 1..Len(openTabs) :
                 CloseTab(openTabs[i]) =>
                     /\ openTabs' = RemoveAt(openTabs, i)
                     /\ location'.path =
                         IF location.path # openTabs[i] THEN location.path
                         ELSE openTabs[IF i < Len(openTabs) THEN i + 1 ELSE i - 1]
             /\ \A i \in 1..Len(openTabs) :
                 LET kept == SubSeq(openTabs, 1, i)
                 IN  /\ CloseRight(i) =>
                         /\ openTabs' = kept
                         /\ location'.path =
                             IF location.path \in Range(kept) THEN location.path
                             ELSE openTabs[i]
                     /\ CloseOthers(i) =>
                         location'.path = IF location.path = Dashboard
                                          THEN Dashboard ELSE openTabs[i]
<1>1. TabInv => Expected
  BY CrossShows, CloseRightShows, CloseOthersShows
<1>2. TabInv /\ [Next]_vars => [Expected]_vars
  BY <1>1
<1>3. ClosingShowsTheNextTab <=> [][Expected]_vars
  BY DEF ClosingShowsTheNextTab
<1> HIDE DEF Expected
<1> QED
  BY <1>2, <1>3, TabInvariance, PTL DEF Spec

\* A click on a tab leaves every page its project, but for the pages of plans when the
\* query that is left had a project.
THEOREM SwitchingKeeps == Spec => SwitchKeepsProjects
<1> DEFINE Keeps ==
             \A p \in Pages : ClickTab(p) =>
                 \A q \in Pages : q \in Range(openTabs) =>
                     \/ project'[q] = project[q]
                     \/ q \in Plans /\ location.projectId # None
<1>1. ASSUME NEW p \in Pages, ClickTab(p), NEW q \in Pages, q \in Range(openTabs)
      PROVE  project'[q] = project[q] \/ (q \in Plans /\ location.projectId # None)
  <2>1. p \in Range(openTabs) /\ Show(Place(p, None), openTabs)
    BY <1>1 DEF ClickTab
  <2>2. Place(p, None).path = p /\ Place(p, None).projectId = None
    BY DEF Place
  <2>3. WithTab(openTabs, p) = openTabs
    BY <2>1 DEF WithTab
  <2> DEFINE was == [r \in Pages |->
                        IF r \in Range(openTabs) THEN project[r]
                        ELSE IF r \in Plans \cup {Local} THEN None ELSE None]
  <2>4. project' = Followed(Range(openTabs), was, location.projectId, None)
    BY <2>1, <2>2, <2>3 DEF Show
  <2>5. was[q] = project[q]
    BY <1>1
  <2> HIDE DEF was
  <2>6. project'[q] = IF q \in Plans /\ None # location.projectId THEN None ELSE was[q]
    BY <1>1, <2>4 DEF Followed
  <2> QED
    BY <2>5, <2>6
<1>2. [Next]_vars => [Keeps]_vars
  BY <1>1
<1>3. SwitchKeepsProjects <=> [][Keeps]_vars
  BY DEF SwitchKeepsProjects
<1> HIDE DEF Keeps
<1> QED
  BY <1>2, <1>3, PTL DEF Spec

===============================================================================
