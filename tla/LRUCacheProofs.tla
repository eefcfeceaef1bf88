---------------------------- MODULE LRUCacheProofs ----------------------------
(***************************************************************************)
(* What the operators of LRUCache keep, for the proofs of the two plugins *)
(* that have a copy of it, and the lemmas on sequences that this rests on: *)
(* what is left of a sequence of different elements when one is taken out  *)
(* of it, and what becomes of it when one is put in front.                 *)
(***************************************************************************)
EXTENDS LRUCache, FiniteSetsExt, SequenceTheorems, WellFoundedInduction, TLAPS

-----------------------------------------------------------------------------
(* Sequences. *)

\* What SelectInSeq takes.
LEMMA LeastOfNaturals ==
    ASSUME NEW S \in SUBSET Nat, S # {}
    PROVE  Min(S) \in S /\ \A m \in S : Min(S) <= m
<1> DEFINE R == {ss \in Nat \X Nat : ss[1] < ss[2]}
<1>1. IsWellFoundedOn(R, Nat)
  BY NatLessThanWellFounded DEF OpToRel
<1>2. PICK n \in S : \A m \in S : <<m, n>> \notin R
  <2> HIDE DEF R
  <2> QED
    BY <1>1, WFMin
<1>3. ASSUME NEW m \in S
      PROVE  n <= m
  <2>1. m \in Nat /\ n \in Nat
    OBVIOUS
  <2>2. <<m, n>> \in Nat \X Nat
    BY <2>1
  <2>3. <<m, n>>[1] = m /\ <<m, n>>[2] = n
    OBVIOUS
  <2>4. ~(m < n)
    BY <1>2, <2>2, <2>3, Zenon
  <2> QED
    BY <2>1, <2>4
<1> QED
  BY <1>3 DEF Min

\* And what Max takes, of versions.
LEMMA GreatestOfBounded ==
    ASSUME NEW n \in Nat, NEW S \in SUBSET (0 .. n), S # {}
    PROVE  Max(S) \in S /\ \A m \in S : m <= Max(S)
<1> DEFINE T == {n - m : m \in S}
<1>1. T \in SUBSET Nat /\ T # {}
  <2>1. ASSUME NEW m \in S
        PROVE  n - m \in Nat
    <3>1. m \in 0 .. n
      OBVIOUS
    <3> QED
      BY <3>1
  <2> QED
    BY <2>1
<1>2. Min(T) \in T /\ \A d \in T : Min(T) <= d
  <2> HIDE DEF T
  <2> QED
    BY <1>1, LeastOfNaturals
<1>3. PICK g \in S : Min(T) = n - g
  BY <1>2
<1>4. ASSUME NEW m \in S
      PROVE  g >= m
  <2>1. n - g <= n - m
    BY <1>2, <1>3
  <2>2. m \in Int /\ g \in Int
    OBVIOUS
  <2> QED
    BY <2>1, <2>2
<1>5. \E x \in S : \A y \in S : x >= y
  BY <1>4
<1>6. Max(S) \in S /\ \A y \in S : Max(S) >= y
  BY <1>5, Zenon DEF Max
<1> QED
  BY <1>6

LEMMA RemoveAtProperties ==
    ASSUME NEW S, NEW s \in Seq(S), NEW i \in 1 .. Len(s)
    PROVE  /\ RemoveAt(s, i) \in Seq(S) /\ Len(RemoveAt(s, i)) = Len(s) - 1
           /\ \A j \in 1 .. Len(s) - 1 :
                 RemoveAt(s, i)[j] = IF j < i THEN s[j] ELSE s[j + 1]
<1> DEFINE a == SubSeq(s, 1, i - 1)
           b == SubSeq(s, i + 1, Len(s))
<1>1. /\ a \in Seq(S) /\ Len(a) = i - 1
      /\ \A j \in 1 .. i - 1 : a[j] = s[j]
  BY SubSeqProperties
<1>2. /\ b \in Seq(S) /\ Len(b) = Len(s) - i
      /\ \A j \in 1 .. Len(s) - i : b[j] = s[i + j]
  BY SubSeqProperties
<1>3. RemoveAt(s, i) = a \o b
  BY DEF RemoveAt
<1> HIDE DEF a, b
<1>4. /\ a \o b \in Seq(S) /\ Len(a \o b) = Len(a) + Len(b)
      /\ \A j \in 1 .. Len(a) + Len(b) :
            (a \o b)[j] = IF j <= Len(a) THEN a[j] ELSE b[j - Len(a)]
  BY <1>1, <1>2, ConcatProperties
<1>5. ASSUME NEW j \in 1 .. Len(s) - 1
      PROVE  RemoveAt(s, i)[j] = IF j < i THEN s[j] ELSE s[j + 1]
  <2>1. CASE j < i
    BY <2>1, <1>1, <1>2, <1>3, <1>4
  <2>2. CASE j >= i
    <3>1. /\ j - (i - 1) \in 1 .. Len(s) - i /\ j - Len(a) = j - (i - 1)
          /\ i + (j - (i - 1)) = j + 1
      BY <2>2, <1>1
    <3>2. (a \o b)[j] = b[j - (i - 1)]
      <4>1. j \in 1 .. Len(a) + Len(b) /\ ~(j <= Len(a))
        BY <2>2, <1>1, <1>2
      <4> QED
        BY <1>4, <3>1, <4>1, Zenon
    <3>3. b[j - (i - 1)] = s[j + 1]
      BY <1>2, <3>1
    <3>4. ~(j < i)
      BY <2>2
    <3> QED
      BY <3>2, <3>3, <3>4, <1>3, Zenon
  <2> QED
    BY <2>1, <2>2
<1> QED
  BY <1>1, <1>2, <1>3, <1>4, <1>5

\* What is left when one element of several different ones is taken out.
LEMMA RemoveAtOfInjective ==
    ASSUME NEW S, NEW s \in Seq(S), IsInjective(s), NEW i \in 1 .. Len(s)
    PROVE  IsInjective(RemoveAt(s, i)) /\ ToSet(RemoveAt(s, i)) = ToSet(s) \ {s[i]}
<1> DEFINE t == RemoveAt(s, i)
<1>1. /\ Len(s) \in Nat /\ DOMAIN s = 1 .. Len(s)
      /\ t \in Seq(S) /\ Len(t) = Len(s) - 1 /\ DOMAIN t = 1 .. Len(s) - 1
      /\ \A j \in 1 .. Len(s) - 1 : t[j] = IF j < i THEN s[j] ELSE s[j + 1]
  <2>1. t \in Seq(S) /\ Len(t) = Len(s) - 1
    BY RemoveAtProperties
  <2>2. \A j \in 1 .. Len(s) - 1 : t[j] = IF j < i THEN s[j] ELSE s[j + 1]
    BY RemoveAtProperties
  <2> HIDE DEF t
  <2> QED
    BY <2>1, <2>2
<1> HIDE DEF t
<1>2. \A m, n \in 1 .. Len(s) : s[m] = s[n] => m = n
  BY <1>1 DEF IsInjective
<1>3. IsInjective(t)
  <2> SUFFICES ASSUME NEW m \in 1 .. Len(s) - 1, NEW n \in 1 .. Len(s) - 1, t[m] = t[n]
               PROVE  m = n
    BY <1>1 DEF IsInjective
  <2> DEFINE p == IF m < i THEN m ELSE m + 1
             q == IF n < i THEN n ELSE n + 1
  <2>1. p \in 1 .. Len(s) /\ q \in 1 .. Len(s) /\ t[m] = s[p] /\ t[n] = s[q]
    BY <1>1
  <2>2. p = q
    BY <1>2, <2>1
  <2> QED
    BY <2>2
<1>4. ToSet(t) \subseteq ToSet(s) \ {s[i]}
  <2> SUFFICES ASSUME NEW m \in 1 .. Len(s) - 1
               PROVE  t[m] \in ToSet(s) \ {s[i]}
    BY <1>1 DEF ToSet
  <2> DEFINE p == IF m < i THEN m ELSE m + 1
  <2>1. p \in 1 .. Len(s) /\ p # i /\ t[m] = s[p]
    BY <1>1
  <2> QED
    BY <1>1, <1>2, <2>1 DEF ToSet
<1>5. ToSet(s) \ {s[i]} \subseteq ToSet(t)
  <2> SUFFICES ASSUME NEW e \in ToSet(s) \ {s[i]}
               PROVE  \E m \in 1 .. Len(s) - 1 : t[m] = e
    BY <1>1 DEF ToSet
  <2>0. PICK p \in 1 .. Len(s) : e = s[p] /\ p # i
    BY <1>1 DEF ToSet
  <2>1. CASE p < i
    <3>1. p \in 1 .. Len(s) - 1 /\ t[p] = e
      BY <1>1, <2>0, <2>1
    <3> QED
      BY <3>1
  <2>2. CASE p > i
    <3>1. p - 1 \in 1 .. Len(s) - 1 /\ ~(p - 1 < i) /\ (p - 1) + 1 = p
      BY <1>1, <2>0, <2>2
    <3>2. t[p - 1] = e
      BY <1>1, <2>0, <3>1
    <3> QED
      BY <3>1, <3>2
  <2> QED
    BY <2>0, <2>1, <2>2
<1> QED
  BY <1>3, <1>4, <1>5 DEF t

LEMMA RemoveFirstProperties ==
    ASSUME NEW S, NEW s \in Seq(S), IsInjective(s), NEW k
    PROVE  /\ RemoveFirst(s, k) \in Seq(S) /\ IsInjective(RemoveFirst(s, k))
           /\ ToSet(RemoveFirst(s, k)) = ToSet(s) \ {k}
           /\ Len(RemoveFirst(s, k)) = IF k \in ToSet(s) THEN Len(s) - 1 ELSE Len(s)
<1>1. Len(s) \in Nat /\ DOMAIN s = 1 .. Len(s)
  OBVIOUS
<1>2. CASE k \notin ToSet(s)
  BY <1>1, <1>2 DEF RemoveFirst, ToSet
<1>3. CASE k \in ToSet(s)
  <2> DEFINE I == {i \in 1 .. Len(s) : s[i] = k}
             j == SelectInSeq(s, LAMBDA v : v = k)
  <2>1. I # {} /\ I \in SUBSET Nat
    BY <1>1, <1>3 DEF ToSet
  <2>2. j = Min(I)
    BY <2>1 DEF SelectInSeq
  <2>3. Min(I) \in I
    <3> HIDE DEF I
    <3> QED
      BY <2>1, LeastOfNaturals
  <2>4. j \in 1 .. Len(s) /\ s[j] = k
    BY <2>2, <2>3
  <2>5. RemoveFirst(s, k) = RemoveAt(s, j)
    BY <1>1, <2>4 DEF RemoveFirst
  <2> HIDE DEF j
  <2>6. /\ RemoveAt(s, j) \in Seq(S) /\ Len(RemoveAt(s, j)) = Len(s) - 1
    BY <2>4, RemoveAtProperties
  <2>7. IsInjective(RemoveAt(s, j)) /\ ToSet(RemoveAt(s, j)) = ToSet(s) \ {k}
    BY <2>4, RemoveAtOfInjective
  <2> QED
    BY <1>3, <2>5, <2>6, <2>7
<1> QED
  BY <1>2, <1>3

\* The last element taken out.
LEMMA FrontProperties ==
    ASSUME NEW S, NEW s \in Seq(S), IsInjective(s), Len(s) >= 1
    PROVE  /\ Front(s) \in Seq(S) /\ IsInjective(Front(s))
           /\ ToSet(Front(s)) = ToSet(s) \ {s[Len(s)]}
           /\ Len(Front(s)) = Len(s) - 1
<1>1. Len(s) \in 1 .. Len(s)
  OBVIOUS
<1>2. Front(s) = RemoveAt(s, Len(s))
  <2> DEFINE a == SubSeq(s, 1, Len(s) - 1)
             b == SubSeq(s, Len(s) + 1, Len(s))
  <2>1. b = <<>>
    BY SubSeqEmpty
  <2>2. a \in Seq(S)
    BY SubSeqProperties
  <2>3. a \o <<>> = a
    BY <2>2, ConcatEmptySeq
  <2> QED
    BY <2>1, <2>3 DEF Front, RemoveAt
<1> QED
  BY <1>1, <1>2, RemoveAtProperties, RemoveAtOfInjective

\* A new element in front.
LEMMA InFrontProperties ==
    ASSUME NEW S, NEW s \in Seq(S), IsInjective(s), NEW k \in S, k \notin ToSet(s)
    PROVE  /\ <<k>> \o s \in Seq(S) /\ IsInjective(<<k>> \o s)
           /\ ToSet(<<k>> \o s) = ToSet(s) \cup {k}
           /\ Len(<<k>> \o s) = Len(s) + 1
<1> DEFINE t == <<k>> \o s
<1>1. /\ t \in Seq(S) /\ Len(t) = Len(s) + 1
      /\ \A j \in 1 .. Len(s) + 1 : t[j] = IF j = 1 THEN k ELSE s[j - 1]
  <2> DEFINE a == <<k>>
  <2>1. a \in Seq(S) /\ Len(a) = 1 /\ a[1] = k
    OBVIOUS
  <2> HIDE DEF a
  <2>2. /\ a \o s \in Seq(S) /\ Len(a \o s) = Len(a) + Len(s)
        /\ \A j \in 1 .. Len(a) + Len(s) :
              (a \o s)[j] = IF j <= Len(a) THEN a[j] ELSE s[j - Len(a)]
    BY <2>1, ConcatProperties
  <2>3. Len(a) + Len(s) = Len(s) + 1
    BY <2>1
  <2>4. ASSUME NEW j \in 1 .. Len(s) + 1
        PROVE  (a \o s)[j] = IF j = 1 THEN k ELSE s[j - 1]
    BY <2>1, <2>2, <2>3
  <2> QED
    BY <2>1, <2>2, <2>3, <2>4 DEF a
<1> HIDE DEF t
<1>2. DOMAIN t = 1 .. Len(s) + 1 /\ DOMAIN s = 1 .. Len(s) /\ Len(s) \in Nat
  BY <1>1
<1>3. \A m \in 1 .. Len(s) : s[m] # k
  BY <1>2 DEF ToSet
<1>4. \A m, n \in 1 .. Len(s) : s[m] = s[n] => m = n
  BY <1>2 DEF IsInjective
<1>5. IsInjective(t)
  <2> SUFFICES ASSUME NEW m \in 1 .. Len(s) + 1, NEW n \in 1 .. Len(s) + 1, t[m] = t[n]
               PROVE  m = n
    BY <1>2 DEF IsInjective
  <2>1. CASE m = 1 /\ n # 1
    <3>1. n - 1 \in 1 .. Len(s) /\ t[m] = k /\ t[n] = s[n - 1]
      BY <1>1, <1>2, <2>1
    <3> QED
      BY <1>3, <3>1
  <2>2. CASE m # 1 /\ n = 1
    <3>1. m - 1 \in 1 .. Len(s) /\ t[n] = k /\ t[m] = s[m - 1]
      BY <1>1, <1>2, <2>2
    <3> QED
      BY <1>3, <3>1
  <2>3. CASE m # 1 /\ n # 1
    <3>1. /\ m - 1 \in 1 .. Len(s) /\ n - 1 \in 1 .. Len(s)
          /\ t[m] = s[m - 1] /\ t[n] = s[n - 1]
      BY <1>1, <1>2, <2>3
    <3>2. m - 1 = n - 1
      BY <1>4, <3>1
    <3> QED
      BY <3>2
  <2> QED
    BY <2>1, <2>2, <2>3
<1>6. ToSet(t) = ToSet(s) \cup {k}
  <2>1. ASSUME NEW e \in ToSet(t)
        PROVE  e \in ToSet(s) \cup {k}
    <3>1. PICK j \in 1 .. Len(s) + 1 : e = t[j]
      BY <1>2 DEF ToSet
    <3>2. CASE j = 1
      BY <1>1, <3>1, <3>2
    <3>3. CASE j # 1
      <4>1. j - 1 \in 1 .. Len(s) /\ e = s[j - 1]
        BY <1>1, <1>2, <3>1, <3>3
      <4> QED
        BY <4>1 DEF ToSet
    <3> QED
      BY <3>2, <3>3
  <2>2. ASSUME NEW e \in ToSet(s)
        PROVE  e \in ToSet(t)
    <3>1. PICK j \in 1 .. Len(s) : e = s[j]
      BY <1>2 DEF ToSet
    <3>2. j + 1 \in 1 .. Len(s) + 1 /\ j + 1 # 1 /\ (j + 1) - 1 = j
      BY <1>2
    <3>3. t[j + 1] = e
      BY <1>1, <3>1, <3>2
    <3> QED
      BY <1>2, <3>2, <3>3 DEF ToSet
  <2>3. k \in ToSet(t)
    <3>1. 1 \in 1 .. Len(s) + 1 /\ t[1] = k
      BY <1>1, <1>2
    <3> QED
      BY <1>2, <3>1 DEF ToSet
  <2> QED
    BY <2>1, <2>2, <2>3
<1> QED
  BY <1>1, <1>5, <1>6 DEF t

\* A history of [value, until] whose last value has ended, and which goes on.
GoneOn(s, n, e) == Append([s EXCEPT ![Len(s)].until = n], e)

IsSaying(Rec, V, U) == Rec = [value : V, until : U]

LEMMA HistoryGoesOn ==
    ASSUME NEW V, NEW U, NEW Rec, IsSaying(Rec, V, U),
           NEW s \in Seq(Rec), Len(s) >= 1, NEW n \in U, NEW e \in Rec
    PROVE  /\ GoneOn(s, n, e) \in Seq(Rec) /\ Len(GoneOn(s, n, e)) = Len(s) + 1
           /\ \A i \in 1 .. Len(s) :
                 /\ GoneOn(s, n, e)[i].value = s[i].value
                 /\ GoneOn(s, n, e)[i].until = IF i = Len(s) THEN n ELSE s[i].until
           /\ GoneOn(s, n, e)[Len(s) + 1] = e
<1> USE DEF IsSaying
<1> DEFINE m == [s EXCEPT ![Len(s)].until = n]
           t == GoneOn(s, n, e)
<1>1. Len(s) \in Nat /\ s \in [1 .. Len(s) -> Rec]
  BY LenProperties
<1>2. m = [i \in 1 .. Len(s) |-> IF i = Len(s) THEN [s[i] EXCEPT !.until = n] ELSE s[i]]
  BY <1>1
<1>3. \A i \in 1 .. Len(s) : /\ m[i] \in Rec /\ m[i].value = s[i].value
                             /\ m[i].until = IF i = Len(s) THEN n ELSE s[i].until
  <2> SUFFICES ASSUME NEW i \in 1 .. Len(s)
               PROVE  /\ m[i] \in Rec /\ m[i].value = s[i].value
                      /\ m[i].until = IF i = Len(s) THEN n ELSE s[i].until
    OBVIOUS
  <2>1. s[i] \in Rec
    BY <1>1
  <2>2. m[i] = IF i = Len(s) THEN [s[i] EXCEPT !.until = n] ELSE s[i]
    BY <1>2
  <2> HIDE DEF m
  <2> QED
    BY <2>1, <2>2
<1>4. m \in Seq(Rec) /\ Len(m) = Len(s)
  <2>1. m \in [1 .. Len(s) -> Rec]
    BY <1>2, <1>3
  <2> HIDE DEF m
  <2> QED
    BY <1>1, <2>1
<1> HIDE DEF m
<1>5. e \in Rec /\ t = Append(m, e)
  BY DEF m, GoneOn
<1> HIDE DEF t
<1>6. /\ t \in Seq(Rec) /\ Len(t) = Len(s) + 1 /\ t[Len(s) + 1] = e
      /\ \A i \in 1 .. Len(s) : t[i] = m[i]
  <2>1. /\ Append(m, e) \in Seq(Rec) /\ Len(Append(m, e)) = Len(m) + 1
        /\ Append(m, e)[Len(m) + 1] = e
        /\ \A i \in 1 .. Len(m) : Append(m, e)[i] = m[i]
    BY <1>4, <1>5, AppendProperties
  <2> QED
    BY <1>4, <1>5, <2>1
<1>7. \A i \in 1 .. Len(s) : t[i].value = s[i].value
                             /\ t[i].until = IF i = Len(s) THEN n ELSE s[i].until
  BY <1>3, <1>6
<1> QED
  BY <1>6, <1>7 DEF t

-----------------------------------------------------------------------------
(* The cache. *)

LEMMA ToFrontProperties ==
    ASSUME NEW K, NEW s \in Seq(K), IsInjective(s), NEW k \in K
    PROVE  /\ ToFront(s, k) \in Seq(K) /\ IsInjective(ToFront(s, k))
           /\ ToSet(ToFront(s, k)) = ToSet(s) \cup {k}
           /\ Len(ToFront(s, k)) = IF k \in ToSet(s) THEN Len(s) ELSE Len(s) + 1
<1> DEFINE t == RemoveFirst(s, k)
<1>1. /\ t \in Seq(K) /\ IsInjective(t) /\ ToSet(t) = ToSet(s) \ {k}
      /\ Len(t) = IF k \in ToSet(s) THEN Len(s) - 1 ELSE Len(s)
  BY RemoveFirstProperties
<1> HIDE DEF t
<1>2. /\ <<k>> \o t \in Seq(K) /\ IsInjective(<<k>> \o t)
      /\ ToSet(<<k>> \o t) = ToSet(t) \cup {k} /\ Len(<<k>> \o t) = Len(t) + 1
  BY <1>1, InFrontProperties
<1>3. Len(s) \in Nat
  OBVIOUS
<1>4. ToFront(s, k) = <<k>> \o t
  BY DEF ToFront, t
<1> QED
  BY <1>1, <1>2, <1>3, <1>4

\* A hit keeps every entry.
LEMMA HitProperties ==
    ASSUME NEW K, NEW max \in Nat, NEW c, c.order \in Seq(K), Coherent(c, max),
           c = [order |-> c.order, entry |-> c.entry], NEW k \in Held(c)
    PROVE  /\ Hit(c, k).order \in Seq(K) /\ Coherent(Hit(c, k), max)
           /\ Hit(c, k) = [order |-> Hit(c, k).order, entry |-> c.entry]
           /\ Held(Hit(c, k)) = Held(c) /\ Hit(c, k).entry = c.entry
<1>1. k \in ToSet(c.order) /\ k \in K
  BY DEF Coherent, ToSet
<1>2. Hit(c, k) = [order |-> ToFront(c.order, k), entry |-> c.entry]
  BY DEF Hit
<1>3. /\ ToFront(c.order, k) \in Seq(K) /\ IsInjective(ToFront(c.order, k))
      /\ ToSet(ToFront(c.order, k)) = ToSet(c.order)
      /\ Len(ToFront(c.order, k)) = Len(c.order)
  <2>1. IsInjective(c.order)
    BY DEF Coherent
  <2>2. /\ ToFront(c.order, k) \in Seq(K) /\ IsInjective(ToFront(c.order, k))
        /\ ToSet(ToFront(c.order, k)) = ToSet(c.order) \cup {k}
        /\ Len(ToFront(c.order, k))
             = IF k \in ToSet(c.order) THEN Len(c.order) ELSE Len(c.order) + 1
    BY <1>1, <2>1, ToFrontProperties
  <2> QED
    BY <1>1, <2>2
<1> QED
  BY <1>2, <1>3 DEF Coherent, Held

\* A miss takes at most its own entry away.
LEMMA ForgetProperties ==
    ASSUME NEW K, NEW max \in Nat, NEW c, c.order \in Seq(K), Coherent(c, max), NEW k
    PROVE  /\ Forget(c, k).order \in Seq(K) /\ Coherent(Forget(c, k), max)
           /\ Forget(c, k) = [order |-> Forget(c, k).order, entry |-> Forget(c, k).entry]
           /\ Held(Forget(c, k)) = Held(c) \ {k}
           /\ \A q \in Held(c) \ {k} : Forget(c, k).entry[q] = c.entry[q]
<1>1. /\ Forget(c, k).order = RemoveFirst(c.order, k)
      /\ Forget(c, k).entry = Without(c.entry, {k})
      /\ Forget(c, k) = [order |-> Forget(c, k).order, entry |-> Forget(c, k).entry]
  BY DEF Forget
<1>2. /\ DOMAIN Without(c.entry, {k}) = Held(c) \ {k}
      /\ \A q \in Held(c) \ {k} : Without(c.entry, {k})[q] = c.entry[q]
  BY DEF Without, Restrict, Held
<1>3. /\ RemoveFirst(c.order, k) \in Seq(K) /\ IsInjective(RemoveFirst(c.order, k))
      /\ ToSet(RemoveFirst(c.order, k)) = ToSet(c.order) \ {k}
      /\ Len(RemoveFirst(c.order, k))
           = IF k \in ToSet(c.order) THEN Len(c.order) - 1 ELSE Len(c.order)
  BY RemoveFirstProperties DEF Coherent
<1>4. Len(c.order) \in Nat /\ Len(c.order) <= max
  BY DEF Coherent
<1>5. Len(RemoveFirst(c.order, k)) <= max
  BY <1>3, <1>4
<1> QED
  BY <1>1, <1>2, <1>3, <1>5 DEF Coherent, Held

\* A new entry takes at most the last of the list away, and only when it must.
LEMMA PutProperties ==
    ASSUME NEW K, NEW max \in Nat \ {0}, NEW c, c.order \in Seq(K), Coherent(c, max),
           NEW k \in K, NEW e
    PROVE  /\ Put(c, k, e, max).order \in Seq(K) /\ Coherent(Put(c, k, e, max), max)
           /\ Put(c, k, e, max)
                = [order |-> Put(c, k, e, max).order, entry |-> Put(c, k, e, max).entry]
           /\ Held(Put(c, k, e, max)) \subseteq Held(c) \cup {k}
           /\ k \in Held(Put(c, k, e, max)) /\ Put(c, k, e, max).entry[k] = e
           /\ \A q \in Held(Put(c, k, e, max)) \ {k} :
                 Put(c, k, e, max).entry[q] = c.entry[q]
<1> DEFINE gone == Victims(c, k, max)
           kept == IF gone = {} THEN c.order ELSE Front(c.order)
           new == Updated(Without(c.entry, gone), k, e)
<1>1. Put(c, k, e, max) = [order |-> ToFront(kept, k), entry |-> new]
  BY DEF Put
<1>2. Len(c.order) \in Nat /\ Len(c.order) <= max /\ ToSet(c.order) = Held(c)
      /\ IsInjective(c.order)
  BY DEF Coherent
<1>3. /\ kept \in Seq(K) /\ IsInjective(kept) /\ ToSet(kept) = Held(c) \ gone
      /\ k \notin gone
      /\ (IF k \in ToSet(kept) THEN Len(kept) ELSE Len(kept) + 1) <= max
  <2>1. CASE k \notin Held(c) /\ Len(c.order) >= max
    <3>1. gone = {c.order[Len(c.order)]}
      BY <2>1 DEF Victims
    <3>2. /\ Front(c.order) \in Seq(K) /\ IsInjective(Front(c.order))
          /\ ToSet(Front(c.order)) = ToSet(c.order) \ {c.order[Len(c.order)]}
          /\ Len(Front(c.order)) = Len(c.order) - 1
      BY <1>2, <2>1, FrontProperties
    <3>3. c.order[Len(c.order)] \in ToSet(c.order)
      BY <1>2, <2>1 DEF ToSet
    <3>4. kept = Front(c.order) /\ ToSet(kept) = Held(c) \ gone /\ k \notin gone
      BY <1>2, <2>1, <3>1, <3>2, <3>3
    <3>5. k \notin ToSet(kept) /\ Len(kept) + 1 <= max
      <4> HIDE DEF kept, gone
      <4> QED
        BY <1>2, <2>1, <3>2, <3>4
    <3> QED
      BY <3>2, <3>4, <3>5
  <2>2. CASE ~(k \notin Held(c) /\ Len(c.order) >= max)
    <3>1. gone = {} /\ kept = c.order
      BY <2>2 DEF Victims
    <3> QED
      BY <1>2, <2>2, <3>1
  <2> QED
    BY <2>1, <2>2
<1>4. /\ DOMAIN new = (Held(c) \ gone) \cup {k} /\ new[k] = e
      /\ \A q \in Held(c) \ gone : q # k => new[q] = c.entry[q]
  <2> DEFINE w == Without(c.entry, gone)
  <2>1. DOMAIN w = Held(c) \ gone /\ \A q \in Held(c) \ gone : w[q] = c.entry[q]
    BY DEF Without, Restrict, Held
  <2>2. DOMAIN new = DOMAIN w \cup {k} /\ new[k] = e
        /\ \A q \in DOMAIN w : q # k => new[q] = w[q]
    BY DEF Updated
  <2> HIDE DEF w, new
  <2> QED
    BY <2>1, <2>2
<1> HIDE DEF gone, kept, new
<1>5. /\ ToFront(kept, k) \in Seq(K) /\ IsInjective(ToFront(kept, k))
      /\ ToSet(ToFront(kept, k)) = (Held(c) \ gone) \cup {k}
      /\ Len(ToFront(kept, k)) <= max
  BY <1>3, ToFrontProperties
<1> QED
  BY <1>1, <1>4, <1>5 DEF Coherent, Held

LEMMA EmptyProperties ==
    ASSUME NEW K, NEW max \in Nat
    PROVE  Empty.order \in Seq(K) /\ Coherent(Empty, max) /\ Held(Empty) = {}
           /\ Empty = [order |-> Empty.order, entry |-> Empty.entry]
<1>1. Empty.order = <<>> /\ DOMAIN Empty.entry = {}
  BY DEF Empty
<1>2. Len(<<>>) = 0 /\ <<>> \in Seq(K) /\ DOMAIN <<>> = {}
  OBVIOUS
<1> QED
  BY <1>1, <1>2 DEF Empty, Coherent, Held, IsInjective, ToSet
=============================================================================
