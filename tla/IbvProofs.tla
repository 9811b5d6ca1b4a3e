------------------------------ MODULE IbvProofs ------------------------------
(***************************************************************************)
(* Proofs about Ibv, for every number of queue pairs, packets, rules,      *)
(* devices and groups, any batch, and any number of failures.  First the   *)
(* lists of packets; then the context and its flow rules: what the orders  *)
(* of init and shutdown are, and one lemma for each kind of step; then the *)
(* packets of the context: received, sent, left by init, and one lemma for *)
(* each kind of call.                                                      *)
(***************************************************************************)
EXTENDS Ibv, WellFoundedInduction, FiniteSetTheorems, SequenceTheorems, TLAPS

-----------------------------------------------------------------------------
(* Packets: what a list is, how lists change, and what keeps them apart    *)

(* Every set of natural numbers has a least one.                           *)
LEMMA Least ==
    ASSUME NEW S \in SUBSET Nat, S # {}
    PROVE  \E x \in S : \A y \in S : x <= y
<1> DEFINE R == {ss \in Nat \X Nat : ss[1] < ss[2]}
<1>1. IsWellFoundedOn(R, Nat)
  BY NatLessThanWellFounded DEF OpToRel
<1>2. PICK x \in S : \A y \in S : ~ (<<y, x>> \in R)
  <2> HIDE DEF R
  <2> QED BY <1>1, WFMin
<1>3. \A y \in S : ~ (y < x)
  BY <1>2
<1> QED BY <1>3

Inj(s) == \A i, j \in 1 .. Len(s) : s[i] = s[j] => i = j

(* Links between the packets of P.                                         *)
Links(next, P) == IsFiniteSet(P) /\ NULL \notin P /\ next \in [P -> P \cup {NULL}]

(* What the links of a chain are walked along is the chain.                *)
LEMMA AlongChain ==
    ASSUME NEW P, NEW next, Links(next, P), NEW s \in Seq(P), s # << >>, Chained(next, s)
    PROVE  \A n \in Nat : Along(next, s[1])[n] = IF n < Len(s) THEN s[n + 1] ELSE NULL
<1> DEFINE p == s[1]
           w == [n \in Nat |-> IF n < Len(s) THEN s[n + 1] ELSE NULL]
           D(f) == [n \in Nat |-> IF n = 0 THEN p
                                  ELSE IF f[n - 1] = NULL THEN NULL ELSE next[f[n - 1]]]
<1>0. Len(s) \in Nat /\ Len(s) >= 1 /\ \A i \in 1 .. Len(s) : s[i] \in P /\ s[i] # NULL
  BY DEF Links
<1>1. w = D(w)
  <2>1. ASSUME NEW n \in Nat PROVE w[n] = D(w)[n]
    <3>1. CASE n = 0
      BY <1>0, <3>1
    <3>2. CASE n # 0 /\ n <= Len(s)
      <4>1. n \in 1 .. Len(s) /\ n - 1 \in Nat /\ n - 1 < Len(s) /\ w[n - 1] = s[n]
        BY <1>0, <3>2
      <4>2. D(w)[n] = next[s[n]]
        BY <1>0, <3>2, <4>1
      <4> QED BY <1>0, <3>2, <4>1, <4>2 DEF Chained
    <3>3. CASE n > Len(s)
      BY <1>0, <3>3
    <3> QED BY <1>0, <3>1, <3>2, <3>3
  <2> QED BY <2>1
<1>2. Along(next, p) = CHOOSE f : f = D(f)
  BY DEF Along
<1>3. Along(next, p) = D(Along(next, p))
  <2> HIDE DEF D, w, p
  <2> QED BY <1>1, <1>2
<1>4. ASSUME NEW n \in Nat, Along(next, p)[n] # w[n] PROVE FALSE
  <2> DEFINE B == {m \in Nat : Along(next, p)[m] # w[m]}
  <2>1. PICK m \in B : \A k \in B : m <= k
    BY <1>4, Least
  <2>2. m # 0
    BY <1>0, <1>3, <2>1
  <2>3. m - 1 \in Nat /\ Along(next, p)[m - 1] = w[m - 1]
    BY <2>1, <2>2
  <2>4. D(Along(next, p))[m] = D(w)[m]
    BY <2>3
  <2> QED BY <1>1, <1>3, <2>1, <2>4
<1> QED BY <1>4

(* Different packets, linked one to the next, the last to NULL, are the    *)
(* list of the first.                                                      *)
LEMMA ListOfChain ==
    ASSUME NEW P, NEW next, Links(next, P), NEW s \in Seq(P), s # << >>, Inj(s), Chained(next, s)
    PROVE  List(next, s[1]) = s
<1> DEFINE held == {n \in 0 .. Cardinality(DOMAIN next) - 1 : Along(next, s[1])[n] # NULL}
<1>0. Len(s) \in Nat /\ Len(s) >= 1 /\ \A i \in 1 .. Len(s) : s[i] \in P /\ s[i] # NULL
  BY DEF Links
<1>1. DOMAIN next = P /\ IsFiniteSet(P) /\ Cardinality(P) \in Nat
  BY FS_CardinalityType DEF Links
<1>2. Len(s) <= Cardinality(P)
  <2>1. s \in Injection(1 .. Len(s), P)
    BY <1>0 DEF Inj, Injection, IsInjective
  <2>2. Cardinality(1 .. Len(s)) <= Cardinality(P)
    BY <1>1, <2>1, FS_Injection
  <2>3. Cardinality(1 .. Len(s)) = Len(s)
    BY <1>0, FS_Interval
  <2> QED BY <2>2, <2>3
<1>3. held = 0 .. Len(s) - 1
  <2>1. \A n \in Nat : Along(next, s[1])[n] = IF n < Len(s) THEN s[n + 1] ELSE NULL
    BY AlongChain
  <2>2. \A n \in Nat : n < Len(s) => n + 1 \in 1 .. Len(s)
    BY ONLY <1>0
  <2>3. \A n \in Nat : Along(next, s[1])[n] # NULL <=> n < Len(s)
    BY ONLY <1>0, <2>1, <2>2
  <2>4. PICK c : c = Cardinality(DOMAIN next)
    OBVIOUS
  <2>5. c \in Nat /\ Len(s) <= c
    BY ONLY <1>1, <1>2, <2>4
  <2>6. \A n : n \in held <=> n \in 0 .. c - 1 /\ Along(next, s[1])[n] # NULL
    BY ONLY <2>4
  <2>7. \A n : n \in 0 .. c - 1 <=> n \in Nat /\ n < c
    BY ONLY <2>5
  <2>8. \A n : n \in held <=> n \in Nat /\ n < Len(s)
    <3> HIDE DEF held
    <3> QED BY ONLY <1>0, <2>3, <2>5, <2>6, <2>7
  <2>9. \A n : n \in 0 .. Len(s) - 1 <=> n \in Nat /\ n < Len(s)
    BY ONLY <1>0
  <2> QED BY ONLY <2>8, <2>9
<1>4. Cardinality(held) = Len(s)
  <2>1. 0 \in Int /\ Len(s) - 1 \in Int /\ ~(0 > Len(s) - 1) /\ Len(s) - 1 - 0 + 1 = Len(s)
    BY <1>0
  <2>2. Cardinality(0 .. Len(s) - 1) = Len(s)
    BY <2>1, FS_Interval
  <2> QED BY <1>3, <2>2
<1>5. \A k \in 1 .. Len(s) : Along(next, s[1])[k - 1] = s[k]
  BY <1>0, AlongChain
<1>6. s = [k \in 1 .. Len(s) |-> s[k]]
  OBVIOUS
<1> QED BY <1>4, <1>5, <1>6 DEF List

(* A list whose own links do not change.                                   *)
LEMMA SameList ==
    ASSUME NEW P, NEW next, Links(next, P), NEW next2, Links(next2, P), NEW p,
           IsListOf(next, List(next, p), p), Inj(List(next, p)),
           \A r \in ToSet(List(next, p)) : next2[r] = next[r]
    PROVE  List(next2, p) = List(next, p) /\ IsListOf(next2, List(next, p), p)
<1> DEFINE s == List(next, p)
<1> HIDE DEF s
<1>1. s \in Seq(P) /\ s # << >> /\ s[1] = p /\ Chained(next, s) /\ Inj(s) /\ DOMAIN next2 = P
  BY DEF s, IsListOf, Links
<1>2. \A i \in 1 .. Len(s) : next2[s[i]] = next[s[i]]
  BY <1>1 DEF s, ToSet
<1>3. Chained(next2, s)
  BY <1>1, <1>2 DEF Chained
<1>4. List(next2, p) = s
  BY <1>1, <1>3, ListOfChain
<1>5. IsListOf(next2, s, p)
  BY <1>1, <1>3 DEF IsListOf
<1> QED BY <1>4, <1>5 DEF s

-----------------------------------------------------------------------------
(* Sequences without repetition, cut, joined and reversed                  *)

(* What a sequence holds.                                                  *)
LEMMA Elements ==
    ASSUME NEW P, NEW s \in Seq(P)
    PROVE  /\ \A x : x \in ToSet(s) <=> \E i \in 1 .. Len(s) : x = s[i]
           /\ ToSet(s) \subseteq P
BY DEF ToSet

(* Sequences with the same elements in the same order are equal.           *)
LEMMA SameSeq ==
    ASSUME NEW P, NEW s \in Seq(P), NEW t \in Seq(P), Len(s) = Len(t),
           \A i \in 1 .. Len(s) : s[i] = t[i]
    PROVE  s = t
<1>1. s = [i \in 1 .. Len(s) |-> s[i]] /\ t = [i \in 1 .. Len(t) |-> t[i]]
  OBVIOUS
<1> QED BY <1>1

(* Moving the first element of one sequence behind another is a cut.       *)
LEMMA HeadAndTail ==
    ASSUME NEW P, NEW s \in Seq(P), s # << >>, NEW t \in Seq(P)
    PROVE  /\ 1 \in 0 .. Len(s) /\ Tail(s) \in Seq(P) /\ Append(t, Head(s)) \in Seq(P)
           /\ Tail(s) = SubSeq(s, 1 + 1, Len(s))
           /\ Append(t, Head(s)) = t \o SubSeq(s, 1, 1)
<1> DEFINE u == SubSeq(s, 1, 1)
           v == <<Head(s)>>
<1>1. /\ Len(s) \in Nat /\ 1 \in 1 .. Len(s) /\ Head(s) = s[1] /\ s[1] \in P
      /\ Tail(s) \in Seq(P) /\ 1 \in 0 .. Len(s)
  OBVIOUS
<1>2. Len(u) = 1 /\ u[1] = s[1] /\ u \in Seq(P)
  BY <1>1
<1>3. Len(v) = 1 /\ v[1] = s[1] /\ v \in Seq(P)
  BY <1>1
<1>4. u = v
  <2> HIDE DEF u, v
  <2> QED BY <1>2, <1>3, SameSeq
<1>5. Tail(s) = SubSeq(s, 1 + 1, Len(s))
  BY <1>1, TailIsSubSeq
<1>6. Append(t, Head(s)) \in Seq(P) /\ Append(t, Head(s)) = t \o v
  BY <1>1, AppendIsConcat
<1> QED BY <1>1, <1>4, <1>5, <1>6

(* Sequences that share nothing can be put together.                       *)
LEMMA InjConcat ==
    ASSUME NEW P, NEW s \in Seq(P), NEW t \in Seq(P), Inj(s), Inj(t), ToSet(s) \cap ToSet(t) = {}
    PROVE  s \o t \in Seq(P) /\ Inj(s \o t) /\ ToSet(s \o t) = ToSet(s) \cup ToSet(t)
<1>1. /\ s \o t \in Seq(P) /\ Len(s \o t) = Len(s) + Len(t) /\ Len(s) \in Nat /\ Len(t) \in Nat
      /\ \A i \in 1 .. Len(s) + Len(t) :
            (s \o t)[i] = IF i <= Len(s) THEN s[i] ELSE t[i - Len(s)]
  OBVIOUS
<1>2. /\ \A i \in 1 .. Len(s) : i \in 1 .. Len(s) + Len(t) /\ (s \o t)[i] = s[i]
      /\ \A j \in 1 .. Len(t) : j + Len(s) \in 1 .. Len(s) + Len(t) /\ (s \o t)[j + Len(s)] = t[j]
  BY <1>1
<1>3. \A i \in 1 .. Len(s) + Len(t) :
         \/ i \in 1 .. Len(s) /\ (s \o t)[i] = s[i]
         \/ i - Len(s) \in 1 .. Len(t) /\ (s \o t)[i] = t[i - Len(s)]
  BY <1>1
<1>4. \A i \in 1 .. Len(s), j \in 1 .. Len(t) : s[i] # t[j]
  BY Elements
<1>5. Inj(s \o t)
  <2> SUFFICES ASSUME NEW i \in 1 .. Len(s) + Len(t), NEW j \in 1 .. Len(s) + Len(t),
                      (s \o t)[i] = (s \o t)[j]
               PROVE  i = j
    BY <1>1 DEF Inj
  <2> QED BY <1>1, <1>3, <1>4 DEF Inj
<1> DEFINE u == s \o t
<1>6. /\ u \in Seq(P) /\ Len(u) = Len(s) + Len(t)
      /\ \A i \in 1 .. Len(s) : i \in 1 .. Len(u) /\ u[i] = s[i]
      /\ \A j \in 1 .. Len(t) : j + Len(s) \in 1 .. Len(u) /\ u[j + Len(s)] = t[j]
      /\ \A i \in 1 .. Len(u) : \/ i \in 1 .. Len(s) /\ u[i] = s[i]
                                \/ i - Len(s) \in 1 .. Len(t) /\ u[i] = t[i - Len(s)]
  BY <1>1, <1>2, <1>3
<1>7. \A x : x \in ToSet(u) <=> x \in ToSet(s) \/ x \in ToSet(t)
  <2> HIDE DEF u
  <2>1. \A x : x \in ToSet(u) => x \in ToSet(s) \/ x \in ToSet(t)
    BY <1>6, Elements
  <2>2. ASSUME NEW x \in ToSet(s) PROVE x \in ToSet(u)
    <3>1. PICK i \in 1 .. Len(s) : x = s[i]
      BY ONLY s \in Seq(P), x \in ToSet(s), Elements
    <3>2. i \in 1 .. Len(u) /\ x = u[i] /\ u \in Seq(P)
      BY ONLY <1>6, <3>1
    <3> QED BY ONLY <3>2, Elements
  <2>3. ASSUME NEW x \in ToSet(t) PROVE x \in ToSet(u)
    <3>1. PICK j \in 1 .. Len(t) : x = t[j]
      BY ONLY t \in Seq(P), x \in ToSet(t), Elements
    <3>2. PICK i : i = j + Len(s) /\ i \in 1 .. Len(u) /\ x = u[i] /\ u \in Seq(P)
      BY ONLY <1>6, <3>1
    <3> QED BY ONLY <3>2, Elements
  <2> QED BY <2>1, <2>2, <2>3
<1> QED BY <1>1, <1>5, <1>7

(* A sequence cut in two.                                                  *)
LEMMA InjCut ==
    ASSUME NEW P, NEW s \in Seq(P), Inj(s), NEW n \in 0 .. Len(s)
    PROVE  /\ SubSeq(s, 1, n) \in Seq(P) /\ SubSeq(s, n + 1, Len(s)) \in Seq(P)
           /\ Len(SubSeq(s, 1, n)) = n /\ Len(SubSeq(s, n + 1, Len(s))) = Len(s) - n
           /\ \A i \in 1 .. n : SubSeq(s, 1, n)[i] = s[i]
           /\ \A i \in 1 .. Len(s) - n : SubSeq(s, n + 1, Len(s))[i] = s[n + i]
           /\ Inj(SubSeq(s, 1, n)) /\ Inj(SubSeq(s, n + 1, Len(s)))
           /\ ToSet(SubSeq(s, 1, n)) \cap ToSet(SubSeq(s, n + 1, Len(s))) = {}
           /\ ToSet(s) = ToSet(SubSeq(s, 1, n)) \cup ToSet(SubSeq(s, n + 1, Len(s)))
<1> DEFINE a == SubSeq(s, 1, n)
           b == SubSeq(s, n + 1, Len(s))
<1>1. Len(s) \in Nat /\ n \in Nat /\ n <= Len(s) /\ \A i \in 1 .. Len(s) : s[i] \in P
  OBVIOUS
<1>2. a \in Seq(P) /\ Len(a) = n /\ \A i \in 1 .. n : a[i] = s[i]
  BY <1>1
<1>3. b \in Seq(P) /\ Len(b) = Len(s) - n /\ \A i \in 1 .. Len(s) - n : b[i] = s[n + i]
  BY <1>1
<1> HIDE DEF a, b
<1>4. Inj(a)
  BY <1>1, <1>2 DEF Inj
<1>5. Inj(b)
  <2> SUFFICES ASSUME NEW i \in 1 .. Len(s) - n, NEW j \in 1 .. Len(s) - n, b[i] = b[j] PROVE i = j
    BY <1>3 DEF Inj
  <2>1. n + i \in 1 .. Len(s) /\ n + j \in 1 .. Len(s) /\ s[n + i] = s[n + j]
    BY <1>1, <1>3
  <2> QED BY <1>1, <2>1 DEF Inj
<1>6. \A i \in 1 .. n, j \in 1 .. Len(s) - n : a[i] # b[j]
  <2> SUFFICES ASSUME NEW i \in 1 .. n, NEW j \in 1 .. Len(s) - n, a[i] = b[j] PROVE FALSE
    OBVIOUS
  <2>1. i \in 1 .. Len(s) /\ n + j \in 1 .. Len(s) /\ s[i] = s[n + j] /\ i # n + j
    <3>1. i \in 1 .. Len(s) /\ n + j \in 1 .. Len(s) /\ i # n + j
      BY ONLY <1>1, i \in 1 .. n, j \in 1 .. Len(s) - n
    <3>2. a[i] = s[i] /\ b[j] = s[n + j]
      BY ONLY <1>2, <1>3, i \in 1 .. n, j \in 1 .. Len(s) - n
    <3> QED BY ONLY <3>1, <3>2, a[i] = b[j]
  <2> QED BY <2>1 DEF Inj
<1>7. ToSet(a) \cap ToSet(b) = {}
  BY <1>2, <1>3, <1>6, Elements
<1>8. ASSUME NEW x PROVE x \in ToSet(s) <=> x \in ToSet(a) \/ x \in ToSet(b)
  <2>1. ASSUME NEW i \in 1 .. Len(s), x = s[i] PROVE x \in ToSet(a) \/ x \in ToSet(b)
    <3>1. CASE i <= n
      <4>1. i \in 1 .. n
        BY <1>1, <3>1
      <4>2. x = a[i] /\ a \in Seq(P) /\ i \in 1 .. Len(a)
        BY ONLY <1>2, <2>1, <4>1
      <4> QED BY ONLY <4>2, Elements
    <3>2. CASE n < i
      <4>1. i - n \in 1 .. Len(s) - n /\ n + (i - n) = i
        BY <1>1, <3>2
      <4>2. PICK k : k = i - n /\ x = b[k] /\ b \in Seq(P) /\ k \in 1 .. Len(b)
        BY ONLY <1>3, <2>1, <4>1
      <4> QED BY ONLY <4>2, Elements
    <3> QED BY <1>1, <3>1, <3>2
  <2>2. ASSUME NEW i \in 1 .. n, x = a[i] PROVE x \in ToSet(s)
    <3>1. i \in 1 .. Len(s)
      BY <1>1
    <3> QED BY <1>2, <2>2, <3>1, Elements
  <2>3. ASSUME NEW i \in 1 .. Len(s) - n, x = b[i] PROVE x \in ToSet(s)
    <3>1. n + i \in 1 .. Len(s)
      BY <1>1
    <3> QED BY <1>3, <2>3, <3>1, Elements
  <2> QED BY <1>2, <1>3, <2>1, <2>2, <2>3, Elements
<1>9. ToSet(s) = ToSet(a) \cup ToSet(b)
  BY <1>8
<1> QED BY <1>2, <1>3, <1>4, <1>5, <1>7, <1>9 DEF a, b

(* A sequence turned round.                                                *)
LEMMA InjReverse ==
    ASSUME NEW P, NEW s \in Seq(P), Inj(s)
    PROVE  /\ Reverse(s) \in Seq(P) /\ Len(Reverse(s)) = Len(s)
           /\ \A i \in 1 .. Len(s) : Reverse(s)[i] = s[Len(s) - i + 1]
           /\ Inj(Reverse(s)) /\ ToSet(Reverse(s)) = ToSet(s)
<1>1. Len(s) \in Nat /\ \A i \in 1 .. Len(s) : s[i] \in P /\ Len(s) - i + 1 \in 1 .. Len(s)
  OBVIOUS
<1>2. /\ Reverse(s) \in Seq(P) /\ Len(Reverse(s)) = Len(s)
      /\ \A i \in 1 .. Len(s) : Reverse(s)[i] = s[Len(s) - i + 1]
  BY <1>1 DEF Reverse
<1>3. Inj(Reverse(s))
  <2> SUFFICES ASSUME NEW i \in 1 .. Len(s), NEW j \in 1 .. Len(s), Reverse(s)[i] = Reverse(s)[j]
               PROVE  i = j
    BY <1>2 DEF Inj
  <2>1. Len(s) - i + 1 = Len(s) - j + 1
    BY <1>1, <1>2 DEF Inj
  <2> QED BY <1>1, <2>1
<1>4. ASSUME NEW x PROVE x \in ToSet(Reverse(s)) <=> x \in ToSet(s)
  <2>1. ASSUME NEW i \in 1 .. Len(s), x = Reverse(s)[i] PROVE x \in ToSet(s)
    BY <1>1, <1>2, <2>1, Elements
  <2>2. ASSUME NEW i \in 1 .. Len(s), x = s[i] PROVE x \in ToSet(Reverse(s))
    <3>1. Len(s) - i + 1 \in 1 .. Len(s) /\ Len(s) - (Len(s) - i + 1) + 1 = i
      BY <1>1
    <3>2. Reverse(s)[Len(s) - i + 1] = x
      BY <1>2, <2>2, <3>1
    <3> QED BY <1>2, <3>1, <3>2, Elements
  <2> QED BY <1>2, <2>1, <2>2, Elements
<1> QED BY <1>2, <1>3, <1>4
-----------------------------------------------------------------------------
(* Where packets are, and how they move                                    *)

Place(P) == ({"posted", "completed"} \X QP) \cup ({"user"} \X P) \cup {<<"more", 0>>}
Spot(k, x) == <<k, x>>

(* Two places are the same only if both parts of their names are.          *)
LEMMA Spots ==
    \A k, l, x, y : Spot(k, x) = Spot(l, y) <=> k = l /\ x = y
BY DEF Spot

(* Apart, said of pairs of places.                                         *)
LEMMA ApartIs ==
    ASSUME NEW A, NEW P, NEW f \in [A -> Seq(P)]
    PROVE  Apart(f) <=> /\ \A a \in A : Inj(f[a])
                        /\ \A a, b \in A : a # b => ToSet(f[a]) \cap ToSet(f[b]) = {}
<1>1. \A a \in A : f[a] \in Seq(P) /\ DOMAIN f[a] = 1 .. Len(f[a])
  OBVIOUS
<1>2. \A x : x \in Held(f) <=> \E a \in A : \E i \in 1 .. Len(f[a]) : x = <<a, i, f[a][i]>>
  BY <1>1 DEF Held
<1>3. Apart(f) <=> \A a, b \in A : \A i \in 1 .. Len(f[a]), j \in 1 .. Len(f[b]) :
                      f[a][i] = f[b][j] => a = b /\ i = j
  <2>1. ASSUME Apart(f), NEW a \in A, NEW b \in A,
               NEW i \in 1 .. Len(f[a]), NEW j \in 1 .. Len(f[b]), f[a][i] = f[b][j]
        PROVE  a = b /\ i = j
    <3>1. <<a, i, f[a][i]>> \in Held(f) /\ <<b, j, f[b][j]>> \in Held(f)
      BY <1>2
    <3> QED BY <2>1, <3>1 DEF Apart
  <2>2. ASSUME \A a, b \in A : \A i \in 1 .. Len(f[a]), j \in 1 .. Len(f[b]) :
                  f[a][i] = f[b][j] => a = b /\ i = j
        PROVE  Apart(f)
    <3> SUFFICES ASSUME NEW x \in Held(f), NEW y \in Held(f), x[3] = y[3] PROVE x = y
      BY DEF Apart
    <3>1. PICK a \in A : \E i \in 1 .. Len(f[a]) : x = <<a, i, f[a][i]>>
      BY <1>2
    <3>2. PICK i \in 1 .. Len(f[a]) : x = <<a, i, f[a][i]>>
      BY <3>1
    <3>3. PICK b \in A : \E j \in 1 .. Len(f[b]) : y = <<b, j, f[b][j]>>
      BY <1>2
    <3>4. PICK j \in 1 .. Len(f[b]) : y = <<b, j, f[b][j]>>
      BY <3>3
    <3> QED BY <2>2, <3>2, <3>4
  <2> QED BY <2>1, <2>2
<1>4. \A a \in A : \A x : x \in ToSet(f[a]) <=> \E i \in 1 .. Len(f[a]) : x = f[a][i]
  BY <1>1, Elements
<1>5. Apart(f) <=> /\ \A a \in A : Inj(f[a])
                   /\ \A a, b \in A : a # b => ToSet(f[a]) \cap ToSet(f[b]) = {}
  <2>1. ASSUME Apart(f)
        PROVE  /\ \A a \in A : Inj(f[a])
               /\ \A a, b \in A : a # b => ToSet(f[a]) \cap ToSet(f[b]) = {}
    BY <1>3, <1>4, <2>1 DEF Inj
  <2>2. ASSUME /\ \A a \in A : Inj(f[a])
               /\ \A a, b \in A : a # b => ToSet(f[a]) \cap ToSet(f[b]) = {}
        PROVE  Apart(f)
    BY <1>3, <1>4, <2>2 DEF Inj
  <2> QED BY <2>1, <2>2
<1> QED BY <1>5

(* Filled, said of the places.                                             *)
LEMMA FilledIs ==
    ASSUME NEW A, NEW P, NEW f \in [A -> Seq(P)], NEW all
    PROVE  Filled(f, all) <=> \A p \in all : \E a \in A : p \in ToSet(f[a])
<1>1. \A a \in A : f[a] \in Seq(P) /\ DOMAIN f[a] = 1 .. Len(f[a])
  OBVIOUS
<1>2. \A x : x \in Held(f) <=> \E a \in A : \E i \in 1 .. Len(f[a]) : x = <<a, i, f[a][i]>>
  BY <1>1 DEF Held
<1>3. \A a \in A : \A x : x \in ToSet(f[a]) <=> \E i \in 1 .. Len(f[a]) : x = f[a][i]
  BY <1>1, Elements
<1>4. ASSUME NEW p PROVE p \in {x[3] : x \in Held(f)} <=> \E a \in A : p \in ToSet(f[a])
  <2>1. ASSUME NEW x \in Held(f), p = x[3] PROVE \E a \in A : p \in ToSet(f[a])
    <3>1. PICK a \in A : \E i \in 1 .. Len(f[a]) : x = <<a, i, f[a][i]>>
      BY <1>2
    <3> QED BY <1>3, <2>1, <3>1
  <2>2. ASSUME NEW a \in A, p \in ToSet(f[a]) PROVE p \in {x[3] : x \in Held(f)}
    <3>1. PICK i \in 1 .. Len(f[a]) : p = f[a][i]
      BY <1>3, <2>2
    <3>2. <<a, i, p>> \in Held(f)
      BY <1>2, <3>1
    <3> QED BY <3>2
  <2> QED BY <2>1, <2>2
<1> QED BY <1>4 DEF Filled

(* Two sequences become two others, without repetition and with no packet  *)
(* that comes in; or with all the packets, too.                            *)
Distinct(s, t) == Inj(s) /\ Inj(t) /\ ToSet(s) \cap ToSet(t) = {}
Reshuffled(s, t, u, v) == Distinct(u, v) /\ ToSet(u) \cup ToSet(v) \subseteq ToSet(s) \cup ToSet(t)
AllKept(s, t, u, v) == ToSet(s) \cup ToSet(t) \subseteq ToSet(u) \cup ToSet(v)
Fills(f, g) == \A all : Filled(f, all) => Filled(g, all)

(* What is moved between two places stays apart from the rest; if nothing  *)
(* is dropped, all stay filled.                                            *)
LEMMA MovedApart ==
    ASSUME NEW A, NEW P, NEW f \in [A -> Seq(P)], NEW g \in [A -> Seq(P)],
           NEW a \in A, NEW b \in A, a # b, Apart(f),
           \A c \in A : c # a /\ c # b => g[c] = f[c],
           Reshuffled(f[a], f[b], g[a], g[b])
    PROVE  Apart(g) /\ (AllKept(f[a], f[b], g[a], g[b]) => Fills(f, g))
<1>1. /\ \A c \in A : Inj(f[c])
      /\ \A c, d \in A : c # d => ToSet(f[c]) \cap ToSet(f[d]) = {}
  BY ApartIs
<1>2. /\ Inj(g[a]) /\ Inj(g[b]) /\ ToSet(g[a]) \cap ToSet(g[b]) = {}
      /\ ToSet(g[a]) \cup ToSet(g[b]) \subseteq ToSet(f[a]) \cup ToSet(f[b])
  BY DEF Reshuffled, Distinct
<1>3. \A c \in A : Inj(g[c])
  BY <1>1, <1>2
<1>4. ASSUME NEW c \in A, NEW d \in A, c # d PROVE ToSet(g[c]) \cap ToSet(g[d]) = {}
  <2>1. \A e \in A : e # a /\ e # b =>
           ToSet(f[e]) \cap ToSet(g[a]) = {} /\ ToSet(f[e]) \cap ToSet(g[b]) = {}
    <3> SUFFICES ASSUME NEW e \in A, e # a, e # b
                 PROVE  ToSet(f[e]) \cap ToSet(g[a]) = {} /\ ToSet(f[e]) \cap ToSet(g[b]) = {}
      OBVIOUS
    <3>1. ToSet(f[e]) \cap ToSet(f[a]) = {} /\ ToSet(f[e]) \cap ToSet(f[b]) = {}
      BY <1>1
    <3> QED BY <1>2, <3>1
  <2>2. CASE c \notin {a, b} /\ d \notin {a, b}
    BY <1>1, <1>4, <2>2
  <2>3. CASE c \in {a, b} /\ d \notin {a, b}
    <3>1. g[d] = f[d] /\ g[c] \in {g[a], g[b]}
      BY <2>3
    <3> QED BY <2>1, <2>3, <3>1
  <2>4. CASE c \notin {a, b} /\ d \in {a, b}
    <3>1. g[c] = f[c] /\ g[d] \in {g[a], g[b]}
      BY <2>4
    <3> QED BY <2>1, <2>4, <3>1
  <2>5. CASE c \in {a, b} /\ d \in {a, b}
    BY <1>2, <1>4, <2>5
  <2> QED BY <2>2, <2>3, <2>4, <2>5
<1>5. ASSUME AllKept(f[a], f[b], g[a], g[b]), NEW all, Filled(f, all) PROVE Filled(g, all)
  <2>1. \A r \in all : \E c \in A : r \in ToSet(f[c])
    <3>1. Filled(f, all)
      BY <1>5
    <3> QED BY ONLY f \in [A -> Seq(P)], <3>1, FilledIs
  <2>2. ToSet(f[a]) \cup ToSet(f[b]) \subseteq ToSet(g[a]) \cup ToSet(g[b])
    BY <1>5 DEF AllKept
  <2>3. ASSUME NEW p \in all PROVE \E c \in A : p \in ToSet(g[c])
    <3>1. PICK c \in A : p \in ToSet(f[c])
      BY <2>1
    <3>2. CASE c \notin {a, b}
      BY <3>1, <3>2
    <3>3. CASE c \in {a, b}
      BY <2>2, <3>1, <3>3
    <3> QED BY <3>2, <3>3
  <2> QED BY <2>3, FilledIs
<1>6. Apart(g)
  BY <1>3, <1>4, ApartIs
<1> QED BY <1>5, <1>6 DEF Fills

(* What holds of the packets each way: lists that end, packets apart.      *)
Typed(P, posted, completed, user, next, more) ==
    /\ Links(next, P)
    /\ posted \in [QP -> Seq(P)] /\ completed \in [QP -> Seq(P)] /\ more \in Seq(P)
    /\ user \in SUBSET P /\ \A p \in user : IsListOf(next, List(next, p), p)
Pool(P, posted, completed, user, next, more) ==
    /\ Typed(P, posted, completed, user, next, more)
    /\ Apart(Places(posted, completed, user, next, more))

(* What Places puts where: typed, and one value for each place.            *)
LEMMA PlacesAre ==
    ASSUME NEW P, NEW posted, NEW completed, NEW user, NEW next, NEW more,
           Typed(P, posted, completed, user, next, more),
           NEW f, f = Places(posted, completed, user, next, more)
    PROVE  /\ f \in [Place(P) -> Seq(P)]
           /\ \A q \in QP : /\ Spot("posted", q) \in Place(P) /\ f[Spot("posted", q)] = posted[q]
                            /\ Spot("completed", q) \in Place(P) /\ f[Spot("completed", q)] = completed[q]
           /\ \A p \in P : /\ Spot("user", p) \in Place(P)
                           /\ f[Spot("user", p)] = IF p \in user THEN List(next, p) ELSE << >>
           /\ Spot("more", 0) \in Place(P) /\ f[Spot("more", 0)] = more
           /\ \A a \in Place(P) : \/ \E q \in QP : a \in {Spot("posted", q), Spot("completed", q)}
                                  \/ \E p \in P : a = Spot("user", p)
                                  \/ a = Spot("more", 0)
<1>1. DOMAIN f = Place(P)
  BY DEF Places, Place, Spot, Typed, Links
<1>2. \A q \in QP : /\ Spot("posted", q) \in Place(P) /\ f[Spot("posted", q)] = posted[q]
                    /\ Spot("completed", q) \in Place(P) /\ f[Spot("completed", q)] = completed[q]
  BY DEF Places, Place, Spot
<1>3. \A p \in P : /\ Spot("user", p) \in Place(P)
                   /\ f[Spot("user", p)] = IF p \in user THEN List(next, p) ELSE << >>
  BY DEF Places, Place, Spot, Typed, Links
<1>4. Spot("more", 0) \in Place(P) /\ f[Spot("more", 0)] = more
  BY DEF Places, Place, Spot
<1>5. \A a \in Place(P) : \/ \E q \in QP : a \in {Spot("posted", q), Spot("completed", q)}
                          \/ \E p \in P : a = Spot("user", p)
                          \/ a = Spot("more", 0)
  BY DEF Place, Spot
<1>6. \A p \in user : List(next, p) \in Seq(P)
  BY DEF Typed, IsListOf, Links
<1>7. \A a \in Place(P) : f[a] \in Seq(P)
  <2> SUFFICES ASSUME NEW a \in Place(P) PROVE f[a] \in Seq(P)
    OBVIOUS
  <2>1. CASE \E q \in QP : a \in {Spot("posted", q), Spot("completed", q)}
    BY <1>2, <2>1 DEF Typed
  <2>2. CASE \E p \in P : a = Spot("user", p)
    <3>1. PICK p \in P : a = Spot("user", p)
      BY <2>2
    <3>2. f[a] = IF p \in user THEN List(next, p) ELSE << >>
      BY <1>3, <3>1
    <3>3. << >> \in Seq(P)
      OBVIOUS
    <3> QED BY <1>6, <3>2, <3>3
  <2>3. CASE a = Spot("more", 0)
    BY <1>4, <2>3 DEF Typed
  <2> QED BY <1>5, <2>1, <2>2, <2>3
<1>8. f = [a \in Place(P) |-> f[a]]
  BY <1>1 DEF Places
<1>9. f \in [Place(P) -> Seq(P)]
  BY <1>7, <1>8
<1> QED BY <1>2, <1>3, <1>4, <1>5, <1>9

(* The queues in Places,                                                   *)
LEMMA QueuePlaces ==
    ASSUME NEW posted, NEW completed, NEW user, NEW next, NEW more, NEW q \in QP,
           NEW f, f = Places(posted, completed, user, next, more)
    PROVE  f[Spot("posted", q)] = posted[q] /\ f[Spot("completed", q)] = completed[q]
BY DEF Places, Spot

(* the list that is not the user's,                                        *)
LEMMA MorePlace ==
    ASSUME NEW posted, NEW completed, NEW user, NEW next, NEW more,
           NEW f, f = Places(posted, completed, user, next, more)
    PROVE  f[Spot("more", 0)] = more
BY DEF Places, Spot

(* and the lists of the user.                                              *)
LEMMA UserPlace ==
    ASSUME NEW posted, NEW completed, NEW user, NEW next, NEW more,
           NEW p, p \in DOMAIN next,
           NEW f, f = Places(posted, completed, user, next, more)
    PROVE  f[Spot("user", p)] = IF p \in user THEN List(next, p) ELSE << >>
BY DEF Places, Spot

(* The places there are.                                                   *)
LEMMA PlacesIn ==
    ASSUME NEW P
    PROVE  /\ \A q \in QP : Spot("posted", q) \in Place(P) /\ Spot("completed", q) \in Place(P)
           /\ \A p \in P : Spot("user", p) \in Place(P)
           /\ Spot("more", 0) \in Place(P)
BY DEF Place, Spot

(* What is in all places but a and b stays.                                *)
OthersStay(P, a, b, posted, completed, user, next, more, posted2, completed2, user2, next2, more2) ==
    /\ \A q \in QP : Spot("posted", q) \notin {a, b} => posted2[q] = posted[q]
    /\ \A q \in QP : Spot("completed", q) \notin {a, b} => completed2[q] = completed[q]
    /\ \A p \in P : Spot("user", p) \notin {a, b} =>
          /\ p \in user2 <=> p \in user
          /\ p \in user => List(next2, p) = List(next, p)
    /\ Spot("more", 0) \notin {a, b} => more2 = more

(* A step that touches two places.                                         *)
LEMMA PoolStep ==
    ASSUME NEW P, NEW posted, NEW completed, NEW user, NEW next, NEW more,
           NEW posted2, NEW completed2, NEW user2, NEW next2, NEW more2,
           Pool(P, posted, completed, user, next, more),
           Typed(P, posted2, completed2, user2, next2, more2),
           NEW a \in Place(P), NEW b \in Place(P), a # b,
           OthersStay(P, a, b, posted, completed, user, next, more,
                      posted2, completed2, user2, next2, more2),
           NEW f, f = Places(posted, completed, user, next, more),
           NEW g, g = Places(posted2, completed2, user2, next2, more2),
           Reshuffled(f[a], f[b], g[a], g[b])
    PROVE  /\ Pool(P, posted2, completed2, user2, next2, more2)
           /\ AllKept(f[a], f[b], g[a], g[b]) => Fills(f, g)
<1>1. Typed(P, posted, completed, user, next, more) /\ Apart(f)
  BY DEF Pool
<1>2. /\ f \in [Place(P) -> Seq(P)]
      /\ \A q \in QP : f[Spot("posted", q)] = posted[q] /\ f[Spot("completed", q)] = completed[q]
      /\ \A p \in P : f[Spot("user", p)] = IF p \in user THEN List(next, p) ELSE << >>
      /\ f[Spot("more", 0)] = more
  BY <1>1, PlacesAre
<1>3. /\ g \in [Place(P) -> Seq(P)]
      /\ \A q \in QP : g[Spot("posted", q)] = posted2[q] /\ g[Spot("completed", q)] = completed2[q]
      /\ \A p \in P : g[Spot("user", p)] = IF p \in user2 THEN List(next2, p) ELSE << >>
      /\ g[Spot("more", 0)] = more2
  BY PlacesAre
<1>4. \A c \in Place(P) : \/ \E q \in QP : c \in {Spot("posted", q), Spot("completed", q)}
                          \/ \E p \in P : c = Spot("user", p)
                          \/ c = Spot("more", 0)
  BY DEF Place, Spot
<1>5. ASSUME NEW c \in Place(P), c # a, c # b PROVE g[c] = f[c]
  <2>1. CASE \E q \in QP : c \in {Spot("posted", q), Spot("completed", q)}
    <3>1. PICK q \in QP : c \in {Spot("posted", q), Spot("completed", q)}
      BY <2>1
    <3>2. CASE c = Spot("posted", q)
      <4>1. f[c] = posted[q] /\ g[c] = posted2[q] /\ Spot("posted", q) \notin {a, b}
        BY <1>2, <1>3, <1>5, <3>2
      <4> QED BY <4>1 DEF OthersStay
    <3>3. CASE c = Spot("completed", q)
      <4>1. f[c] = completed[q] /\ g[c] = completed2[q] /\ Spot("completed", q) \notin {a, b}
        BY <1>2, <1>3, <1>5, <3>3
      <4> QED BY <4>1 DEF OthersStay
    <3> QED BY <3>1, <3>2, <3>3
  <2>2. CASE \E p \in P : c = Spot("user", p)
    <3>1. PICK p \in P : c = Spot("user", p)
      BY <2>2
    <3>2. Spot("user", p) \notin {a, b}
      BY <1>5, <3>1
    <3>3. /\ p \in user2 <=> p \in user
          /\ p \in user => List(next2, p) = List(next, p)
      BY <3>2 DEF OthersStay
    <3>4. /\ f[c] = IF p \in user THEN List(next, p) ELSE << >>
          /\ g[c] = IF p \in user2 THEN List(next2, p) ELSE << >>
      BY <1>2, <1>3, <3>1
    <3> QED BY <3>3, <3>4
  <2>3. CASE c = Spot("more", 0)
    BY <1>2, <1>3, <1>5, <2>3 DEF OthersStay
  <2> QED BY <1>4, <2>1, <2>2, <2>3
<1>6. \A c \in Place(P) : c # a /\ c # b => g[c] = f[c]
  BY <1>5
<1>7. Apart(g) /\ (AllKept(f[a], f[b], g[a], g[b]) => Fills(f, g))
  <2>1. /\ f \in [Place(P) -> Seq(P)] /\ g \in [Place(P) -> Seq(P)]
        /\ a \in Place(P) /\ b \in Place(P) /\ a # b /\ Apart(f)
        /\ Reshuffled(f[a], f[b], g[a], g[b])
    BY <1>1, <1>2, <1>3
  <2> QED BY ONLY <2>1, <1>6, MovedApart
<1> QED BY <1>7 DEF Pool

(* The first n of s go behind t, or in front of it and reversed; the rest  *)
(* stays, or is lost.                                                      *)
LEMMA CutOnto ==
    ASSUME NEW P, NEW s \in Seq(P), NEW t \in Seq(P), Distinct(s, t), NEW n \in 0 .. Len(s),
           NEW b, b = SubSeq(s, 1, n), NEW r, r = SubSeq(s, n + 1, Len(s)),
           NEW behind, behind = t \o b, NEW front, front = Reverse(b) \o t
    PROVE  /\ b \in Seq(P) /\ r \in Seq(P) /\ behind \in Seq(P) /\ front \in Seq(P)
           /\ Reshuffled(s, t, r, behind) /\ AllKept(s, t, r, behind)
           /\ Reshuffled(s, t, r, front) /\ AllKept(s, t, r, front)
           /\ Reshuffled(s, t, << >>, behind) /\ (n = Len(s) => AllKept(s, t, << >>, behind))
<1>1. Inj(s) /\ Inj(t) /\ ToSet(s) \cap ToSet(t) = {}
  BY DEF Distinct
<1>2. /\ b \in Seq(P) /\ r \in Seq(P) /\ Inj(b) /\ Inj(r) /\ ToSet(b) \cap ToSet(r) = {}
      /\ ToSet(s) = ToSet(b) \cup ToSet(r) /\ Len(r) = Len(s) - n
  <2>1. /\ SubSeq(s, 1, n) \in Seq(P) /\ SubSeq(s, n + 1, Len(s)) \in Seq(P)
        /\ Inj(SubSeq(s, 1, n)) /\ Inj(SubSeq(s, n + 1, Len(s)))
        /\ Len(SubSeq(s, n + 1, Len(s))) = Len(s) - n
        /\ ToSet(SubSeq(s, 1, n)) \cap ToSet(SubSeq(s, n + 1, Len(s))) = {}
        /\ ToSet(s) = ToSet(SubSeq(s, 1, n)) \cup ToSet(SubSeq(s, n + 1, Len(s)))
    BY ONLY <1>1, s \in Seq(P), n \in 0 .. Len(s), InjCut
  <2> QED BY ONLY <2>1, b = SubSeq(s, 1, n), r = SubSeq(s, n + 1, Len(s))
<1>3. Reverse(b) \in Seq(P) /\ Inj(Reverse(b)) /\ ToSet(Reverse(b)) = ToSet(b)
  BY <1>2, InjReverse
<1>4. /\ behind \in Seq(P) /\ Inj(behind) /\ ToSet(behind) = ToSet(t) \cup ToSet(b)
  <2>1. ToSet(t) \cap ToSet(b) = {}
    BY <1>1, <1>2
  <2>2. t \o b \in Seq(P) /\ Inj(t \o b) /\ ToSet(t \o b) = ToSet(t) \cup ToSet(b)
    BY ONLY <1>1, <1>2, <2>1, t \in Seq(P), InjConcat
  <2> QED BY <2>2
<1>5. /\ front \in Seq(P) /\ Inj(front) /\ ToSet(front) = ToSet(b) \cup ToSet(t)
  <2>1. ToSet(Reverse(b)) \cap ToSet(t) = {}
    BY <1>1, <1>2, <1>3
  <2> QED BY <1>1, <1>2, <1>3, <2>1, InjConcat
<1>6. Inj(<< >>) /\ ToSet(<< >>) = {}
  BY DEF Inj, ToSet
<1>7. n = Len(s) => ToSet(r) = {}
  <2>1. n = Len(s) => Len(r) = 0
    BY <1>2
  <2>2. Len(r) = 0 => r = << >>
    BY <1>2
  <2> QED BY <1>6, <2>1, <2>2
<1>8. Reshuffled(s, t, r, behind) /\ AllKept(s, t, r, behind)
  BY <1>1, <1>2, <1>4 DEF Reshuffled, AllKept, Distinct
<1>9. Reshuffled(s, t, r, front) /\ AllKept(s, t, r, front)
  BY <1>1, <1>2, <1>5 DEF Reshuffled, AllKept, Distinct
<1>10. Reshuffled(s, t, << >>, behind) /\ (n = Len(s) => AllKept(s, t, << >>, behind))
  BY <1>1, <1>2, <1>4, <1>6, <1>7 DEF Reshuffled, AllKept, Distinct
<1> QED BY <1>2, <1>4, <1>5, <1>8, <1>9, <1>10

(* A list is cut in two, or all of it goes, or another one is dropped.     *)
LEMMA CutApart ==
    ASSUME NEW P, NEW s \in Seq(P), Inj(s), NEW n \in 0 .. Len(s),
           NEW b, b = SubSeq(s, 1, n), NEW r, r = SubSeq(s, n + 1, Len(s))
    PROVE  /\ b \in Seq(P) /\ r \in Seq(P)
           /\ Reshuffled(s, << >>, r, b) /\ AllKept(s, << >>, r, b)
           /\ Reshuffled(s, << >>, << >>, s) /\ AllKept(s, << >>, << >>, s)
<1>1. /\ b \in Seq(P) /\ r \in Seq(P) /\ Inj(b) /\ Inj(r) /\ ToSet(b) \cap ToSet(r) = {}
      /\ ToSet(s) = ToSet(b) \cup ToSet(r)
  BY InjCut
<1>2. Inj(<< >>) /\ ToSet(<< >>) = {}
  BY DEF Inj, ToSet
<1>3. Reshuffled(s, << >>, r, b) /\ AllKept(s, << >>, r, b)
  BY <1>1, <1>2 DEF Reshuffled, AllKept, Distinct
<1>4. Reshuffled(s, << >>, << >>, s) /\ AllKept(s, << >>, << >>, s)
  BY <1>1, <1>2 DEF Reshuffled, AllKept, Distinct
<1> QED BY <1>1, <1>3, <1>4

(* Losing what one place holds keeps places apart.                         *)
LEMMA Dropped ==
    ASSUME NEW s, NEW t, Distinct(s, t)
    PROVE  Reshuffled(s, t, s, << >>)
<1>1. Inj(<< >>) /\ ToSet(<< >>) = {}
  BY DEF Inj, ToSet
<1> QED BY <1>1 DEF Reshuffled, Distinct

(* What two places hold is distinct.                                       *)
LEMMA PoolDistinct ==
    ASSUME NEW P, NEW posted, NEW completed, NEW user, NEW next, NEW more,
           Pool(P, posted, completed, user, next, more),
           NEW a \in Place(P), NEW b \in Place(P), a # b,
           NEW f, f = Places(posted, completed, user, next, more)
    PROVE  Distinct(f[a], f[b])
<1>1. f \in [Place(P) -> Seq(P)] /\ Apart(f)
  BY PlacesAre DEF Pool
<1> QED BY ONLY <1>1, a \in Place(P), b \in Place(P), a # b, ApartIs DEF Distinct

(* Lists of the user stay when only links of others change.                *)
LEMMA UserKept ==
    ASSUME NEW P, NEW posted, NEW completed, NEW user, NEW next, NEW more, NEW next2,
           Pool(P, posted, completed, user, next, more), Links(next2, P),
           \A r \in P : next2[r] # next[r] =>
               r \in ToSet(more) \/ \E q \in QP : r \in ToSet(completed[q])
    PROVE  \A p \in user : List(next2, p) = List(next, p) /\ IsListOf(next2, List(next2, p), p)
<1> SUFFICES ASSUME NEW p \in user
             PROVE  List(next2, p) = List(next, p) /\ IsListOf(next2, List(next2, p), p)
  OBVIOUS
<1>0. PICK f : f = Places(posted, completed, user, next, more)
  OBVIOUS
<1>1. /\ Typed(P, posted, completed, user, next, more) /\ p \in P
      /\ IsListOf(next, List(next, p), p) /\ List(next, p) \in Seq(P) /\ Links(next, P)
  BY DEF Pool, Typed, IsListOf, Links
<1>2. /\ f[Spot("user", p)] = List(next, p) /\ f[Spot("more", 0)] = more
      /\ Spot("user", p) \in Place(P) /\ Spot("more", 0) \in Place(P)
      /\ \A q \in QP : Spot("completed", q) \in Place(P) /\ f[Spot("completed", q)] = completed[q]
  <2>1. /\ Spot("user", p) \in Place(P)
        /\ f[Spot("user", p)] = IF p \in user THEN List(next, p) ELSE << >>
    BY ONLY <1>0, <1>1, PlacesAre
  <2>2. f[Spot("more", 0)] = more /\ Spot("more", 0) \in Place(P)
    BY ONLY <1>0, <1>1, PlacesAre
  <2>3. ASSUME NEW q \in QP
        PROVE  Spot("completed", q) \in Place(P) /\ f[Spot("completed", q)] = completed[q]
    BY <1>0, QueuePlaces, PlacesIn
  <2> QED BY <2>1, <2>2, <2>3
<1>3. Distinct(List(next, p), more)
  <2>1. Spot("user", p) # Spot("more", 0)
    BY Spots
  <2>2. Distinct(f[Spot("user", p)], f[Spot("more", 0)])
    BY <1>0, <1>2, <2>1, PoolDistinct
  <2> QED BY <1>2, <2>2
<1>4. ASSUME NEW q \in QP PROVE Distinct(List(next, p), completed[q])
  <2>1. Spot("user", p) # Spot("completed", q)
    BY Spots
  <2>2. Distinct(f[Spot("user", p)], f[Spot("completed", q)])
    BY <1>0, <1>2, <2>1, PoolDistinct
  <2> QED BY <1>2, <2>2
<1>5. Inj(List(next, p))
  BY <1>3 DEF Distinct
<1>6. ASSUME NEW r \in ToSet(List(next, p)) PROVE next2[r] = next[r]
  <2>1. r \in P
    BY <1>1, Elements
  <2>2. r \notin ToSet(more) /\ \A q \in QP : r \notin ToSet(completed[q])
    BY <1>3, <1>4 DEF Distinct
  <2> QED BY <2>1, <2>2
<1> QED BY <1>1, <1>5, <1>6, SameList

(* A posted request is completed.                                          *)
LEMMA PoolCompletes ==
    ASSUME NEW P, NEW posted, NEW completed, NEW user, NEW next, NEW more,
           Pool(P, posted, completed, user, next, more), NEW q \in QP,
           NEW s, s = posted[q], s # << >>, NEW t, t = completed[q],
           NEW s2, s2 = Tail(s), NEW t2, t2 = Append(t, Head(s)),
           NEW posted2, posted2 = [posted EXCEPT ![q] = s2],
           NEW completed2, completed2 = [completed EXCEPT ![q] = t2],
           NEW f, f = Places(posted, completed, user, next, more),
           NEW g, g = Places(posted2, completed2, user, next, more)
    PROVE  Pool(P, posted2, completed2, user, next, more) /\ Fills(f, g)
<1> DEFINE a == Spot("posted", q)
           b == Spot("completed", q)
<1>1. /\ Typed(P, posted, completed, user, next, more)
      /\ posted \in [QP -> Seq(P)] /\ completed \in [QP -> Seq(P)]
      /\ s \in Seq(P) /\ t \in Seq(P)
  BY DEF Pool, Typed
<1>2. /\ s2 \in Seq(P) /\ t2 \in Seq(P) /\ 1 \in 0 .. Len(s)
      /\ s2 = SubSeq(s, 1 + 1, Len(s)) /\ t2 = t \o SubSeq(s, 1, 1)
  BY <1>1, HeadAndTail
<1>3. /\ posted2 \in [QP -> Seq(P)] /\ posted2[q] = s2
      /\ completed2 \in [QP -> Seq(P)] /\ completed2[q] = t2
      /\ \A r \in QP : r # q => posted2[r] = posted[r] /\ completed2[r] = completed[r]
  BY ONLY <1>1, <1>2, posted2 = [posted EXCEPT ![q] = s2], completed2 = [completed EXCEPT ![q] = t2]
<1>4. Typed(P, posted2, completed2, user, next, more)
  BY <1>1, <1>3 DEF Typed
<1>5. a \in Place(P) /\ b \in Place(P) /\ f[a] = s /\ f[b] = t /\ g[a] = s2 /\ g[b] = t2
  <2>1. a \in Place(P) /\ b \in Place(P) /\ f[a] = s /\ f[b] = t
    BY QueuePlaces, PlacesIn
  <2>2. g[a] = posted2[q] /\ g[b] = completed2[q]
    BY ONLY q \in QP, g = Places(posted2, completed2, user, next, more), QueuePlaces
  <2> QED BY <1>3, <2>1, <2>2
<1>6. OthersStay(P, a, b, posted, completed, user, next, more,
                 posted2, completed2, user, next, more)
  BY <1>3, Spots DEF OthersStay
<1>b. a # b
  BY Spots
<1> HIDE DEF a, b
<1>7. Distinct(s, t)
  BY <1>5, <1>b, PoolDistinct
<1>8. Reshuffled(s, t, s2, t2) /\ AllKept(s, t, s2, t2)
  BY <1>1, <1>2, <1>7, CutOnto
<1>9. Reshuffled(f[a], f[b], g[a], g[b]) /\ AllKept(f[a], f[b], g[a], g[b])
  BY <1>5, <1>8
<1>10. /\ a \in Place(P) /\ b \in Place(P) /\ a # b
       /\ Pool(P, posted, completed, user, next, more)
       /\ f = Places(posted, completed, user, next, more)
       /\ g = Places(posted2, completed2, user, next, more)
  BY <1>5, <1>b
<1> QED BY ONLY <1>4, <1>6, <1>9, <1>10, PoolStep

(* The first n requests completed at a queue pair go to one more list, or  *)
(* that list goes, and the links of these packets change.                  *)
LEMMA PoolPolls ==
    ASSUME NEW P, NEW posted, NEW completed, NEW user, NEW next, NEW more,
           Pool(P, posted, completed, user, next, more), NEW q \in QP,
           NEW s, s = completed[q], NEW s2 \in Seq(P), NEW more2 \in Seq(P),
           NEW completed2, completed2 = [completed EXCEPT ![q] = s2],
           NEW next2, Links(next2, P),
           \A r \in P : next2[r] # next[r] => r \in ToSet(more) \/ r \in ToSet(s),
           NEW f, f = Places(posted, completed, user, next, more),
           NEW g, g = Places(posted, completed2, user, next2, more2),
           Reshuffled(s, more, s2, more2)
    PROVE  /\ Pool(P, posted, completed2, user, next2, more2)
           /\ AllKept(s, more, s2, more2) => Fills(f, g)
           /\ \A p \in user : List(next2, p) = List(next, p)
<1> DEFINE a == Spot("completed", q)
           b == Spot("more", 0)
<1>1. /\ Typed(P, posted, completed, user, next, more) /\ user \subseteq P
      /\ posted \in [QP -> Seq(P)] /\ completed \in [QP -> Seq(P)] /\ s \in Seq(P)
  BY DEF Pool, Typed
<1>2. \A p \in user : List(next2, p) = List(next, p) /\ IsListOf(next2, List(next2, p), p)
  <2>1. \A r \in P : next2[r] # next[r] =>
             r \in ToSet(more) \/ \E t \in QP : r \in ToSet(completed[t])
    OBVIOUS
  <2>2. Pool(P, posted, completed, user, next, more) /\ Links(next2, P)
    OBVIOUS
  <2> QED BY ONLY <2>1, <2>2, UserKept
<1>4. /\ completed2 \in [QP -> Seq(P)] /\ completed2[q] = s2
      /\ \A r \in QP : r # q => completed2[r] = completed[r]
  BY ONLY <1>1, s2 \in Seq(P), completed2 = [completed EXCEPT ![q] = s2]
<1>5. Typed(P, posted, completed2, user, next2, more2)
  BY <1>1, <1>2, <1>4 DEF Typed
<1>6. f[a] = s /\ g[a] = s2 /\ f[b] = more /\ g[b] = more2
  <2>1. f[a] = completed[q]
    BY ONLY q \in QP, f = Places(posted, completed, user, next, more), QueuePlaces
  <2>2. g[a] = completed2[q]
    BY ONLY q \in QP, g = Places(posted, completed2, user, next2, more2), QueuePlaces
  <2>3. f[b] = more /\ g[b] = more2
    BY ONLY f = Places(posted, completed, user, next, more),
            g = Places(posted, completed2, user, next2, more2), MorePlace
  <2> QED BY <1>4, <2>1, <2>2, <2>3
<1>7. OthersStay(P, a, b, posted, completed, user, next, more,
                 posted, completed2, user, next2, more2)
  BY <1>2, <1>4, Spots DEF OthersStay
<1>8. a \in Place(P) /\ b \in Place(P) /\ a # b
  BY PlacesIn, Spots
<1> HIDE DEF a, b
<1>9. /\ Reshuffled(f[a], f[b], g[a], g[b])
      /\ AllKept(s, more, s2, more2) => AllKept(f[a], f[b], g[a], g[b])
  BY <1>6
<1>10. /\ Pool(P, posted, completed, user, next, more)
       /\ f = Places(posted, completed, user, next, more)
       /\ g = Places(posted, completed2, user, next2, more2)
  OBVIOUS
<1>11. /\ Pool(P, posted, completed2, user, next2, more2)
       /\ AllKept(f[a], f[b], g[a], g[b]) => Fills(f, g)
  BY ONLY <1>5, <1>7, <1>8, <1>9, <1>10, PoolStep
<1> QED BY <1>2, <1>9, <1>11

(* A sequence, cut behind the nth.                                         *)
Cut(s, n, b, r) == n \in 0 .. Len(s) /\ b = SubSeq(s, 1, n) /\ r = SubSeq(s, n + 1, Len(s))

(* The first n packets of a list of the user go behind the requests posted *)
(* at a queue pair, and the list goes.                                     *)
LEMMA PoolPosts ==
    ASSUME NEW P, NEW posted, NEW completed, NEW user, NEW next, NEW more,
           Pool(P, posted, completed, user, next, more), NEW q \in QP, NEW p \in user,
           NEW s, s = List(next, p), NEW n, NEW b, NEW rest, Cut(s, n, b, rest),
           NEW t, t = posted[q], NEW t2, t2 = t \o b,
           NEW posted2, posted2 = [posted EXCEPT ![q] = t2],
           NEW user2, user2 = user \ {p},
           NEW f, f = Places(posted, completed, user, next, more),
           NEW g, g = Places(posted2, completed, user2, next, more)
    PROVE  /\ Pool(P, posted2, completed, user2, next, more)
           /\ n = Len(s) => Fills(f, g)
<1> DEFINE a == Spot("user", p)
           c == Spot("posted", q)
<1>0. n \in 0 .. Len(s) /\ b = SubSeq(s, 1, n) /\ rest = SubSeq(s, n + 1, Len(s))
  BY DEF Cut
<1>1. /\ Typed(P, posted, completed, user, next, more) /\ user \subseteq P /\ p \in P
      /\ posted \in [QP -> Seq(P)] /\ t \in Seq(P) /\ s \in Seq(P)
  BY DEF Pool, Typed, IsListOf, Links
<1>2. a \in Place(P) /\ c \in Place(P) /\ a # c
  BY <1>1, PlacesIn, Spots
<1>3. f[a] = s /\ f[c] = t /\ g[a] = << >> /\ g[c] = posted2[q]
  <2>1. f[c] = posted[q]
    BY ONLY q \in QP, f = Places(posted, completed, user, next, more), QueuePlaces
  <2>2. g[c] = posted2[q]
    BY ONLY q \in QP, g = Places(posted2, completed, user2, next, more), QueuePlaces
  <2>3. DOMAIN next = P
    BY <1>1 DEF Typed, Links
  <2>4. f[a] = IF p \in user THEN List(next, p) ELSE << >>
    BY ONLY <1>1, <2>3, f = Places(posted, completed, user, next, more), UserPlace
  <2>5. g[a] = IF p \in user2 THEN List(next, p) ELSE << >>
    BY ONLY <1>1, <2>3, g = Places(posted2, completed, user2, next, more), UserPlace
  <2>6. p \in user /\ p \notin user2
    OBVIOUS
  <2> QED BY <2>1, <2>2, <2>4, <2>5, <2>6
<1>4. Distinct(s, t)
  <2>1. Distinct(f[a], f[c])
    <3> HIDE DEF a, c
    <3> QED BY <1>2, PoolDistinct
  <2> QED BY <1>3, <2>1
<1>5. /\ t2 \in Seq(P) /\ Reshuffled(s, t, << >>, t2) /\ (n = Len(s) => AllKept(s, t, << >>, t2))
  BY <1>0, <1>1, <1>4, CutOnto
<1>6. /\ posted2 \in [QP -> Seq(P)] /\ posted2[q] = t2
      /\ \A r \in QP : r # q => posted2[r] = posted[r]
  BY ONLY <1>1, <1>5, posted2 = [posted EXCEPT ![q] = t2]
<1>7. Typed(P, posted2, completed, user2, next, more)
  BY <1>1, <1>6 DEF Typed
<1>8. OthersStay(P, a, c, posted, completed, user, next, more,
                 posted2, completed, user2, next, more)
  <2>1. \A r \in QP : Spot("posted", r) # c => r # q
    OBVIOUS
  <2>2. \A r \in P : Spot("user", r) # a => (r \in user2 <=> r \in user)
    OBVIOUS
  <2> QED BY <1>6, <2>1, <2>2 DEF OthersStay
<1> HIDE DEF a, c
<1>9. /\ Reshuffled(f[a], f[c], g[a], g[c])
      /\ n = Len(s) => AllKept(f[a], f[c], g[a], g[c])
  BY <1>3, <1>5, <1>6
<1>10. /\ Pool(P, posted, completed, user, next, more)
       /\ f = Places(posted, completed, user, next, more)
       /\ g = Places(posted2, completed, user2, next, more)
  OBVIOUS
<1>11. /\ Pool(P, posted2, completed, user2, next, more)
       /\ AllKept(f[a], f[c], g[a], g[c]) => Fills(f, g)
  BY ONLY <1>2, <1>7, <1>8, <1>9, <1>10, PoolStep
<1> QED BY <1>9, <1>11

(* The first n packets of one more list, a list themselves, go to the user.*)
LEMMA PoolHands ==
    ASSUME NEW P, NEW posted, NEW completed, NEW user, NEW next, NEW more,
           Pool(P, posted, completed, user, next, more), NEW p \in P,
           NEW n, NEW s, NEW more2, Cut(more, n, s, more2),
           NEW next2, Links(next2, P),
           \A r \in P : next2[r] # next[r] => r \in ToSet(more),
           IsListOf(next2, s, p),
           NEW user2, user2 = user \cup {p},
           NEW f, f = Places(posted, completed, user, next, more),
           NEW g, g = Places(posted, completed, user2, next2, more2)
    PROVE  /\ Pool(P, posted, completed, user2, next2, more2) /\ Fills(f, g)
           /\ \A r \in user : List(next2, r) = List(next, r)
           /\ p \notin user /\ List(next2, p) = s
<1> DEFINE a == Spot("more", 0)
           b == Spot("user", p)
<1>0. n \in 0 .. Len(more) /\ s = SubSeq(more, 1, n) /\ more2 = SubSeq(more, n + 1, Len(more))
  BY DEF Cut
<1>1. /\ Typed(P, posted, completed, user, next, more) /\ user \subseteq P /\ more \in Seq(P)
      /\ DOMAIN next = P /\ DOMAIN next2 = P /\ \A r \in user : List(next, r) \in Seq(P)
  BY DEF Pool, Typed, IsListOf, Links
<1>2. \A r \in user : List(next2, r) = List(next, r) /\ IsListOf(next2, List(next2, r), r)
  <2>1. \A r \in P : next2[r] # next[r] =>
             r \in ToSet(more) \/ \E q \in QP : r \in ToSet(completed[q])
    OBVIOUS
  <2>2. Pool(P, posted, completed, user, next, more) /\ Links(next2, P)
    OBVIOUS
  <2> QED BY ONLY <2>1, <2>2, UserKept
<1>3. a \in Place(P) /\ b \in Place(P) /\ a # b
  BY PlacesIn, Spots
<1>4. f[a] = more /\ g[a] = more2
  BY ONLY f = Places(posted, completed, user, next, more),
          g = Places(posted, completed, user2, next2, more2), MorePlace
<1>5. /\ f[b] = IF p \in user THEN List(next, p) ELSE << >>
      /\ g[b] = IF p \in user2 THEN List(next2, p) ELSE << >>
  <2>1. p \in DOMAIN next /\ p \in DOMAIN next2
    BY <1>1
  <2> QED BY ONLY <2>1, f = Places(posted, completed, user, next, more),
                  g = Places(posted, completed, user2, next2, more2), UserPlace
<1>6. Distinct(f[a], f[b])
  <2> HIDE DEF a, b
  <2> QED BY <1>3, PoolDistinct
<1>7. Inj(more)
  BY <1>4, <1>6 DEF Distinct
<1>8. /\ s \in Seq(P) /\ more2 \in Seq(P) /\ Inj(s) /\ ToSet(s) \subseteq ToSet(more)
  BY <1>0, <1>1, <1>7, InjCut
<1>9. s # << >> /\ s[1] = p /\ Chained(next2, s) /\ p \in ToSet(s)
  <2>1. s # << >> /\ s[1] = p /\ Chained(next2, s)
    BY DEF IsListOf
  <2>2. 1 \in 1 .. Len(s)
    BY <1>8, <2>1
  <2>3. p \in ToSet(s)
    BY ONLY <1>8, <2>1, <2>2, Elements
  <2> QED BY <2>1, <2>3
<1>10. p \notin user
  <2> SUFFICES ASSUME p \in user PROVE FALSE
    OBVIOUS
  <2>1. List(next, p) \in Seq(P) /\ List(next, p) # << >> /\ List(next, p)[1] = p
    BY <1>1 DEF Typed, IsListOf
  <2>2. 1 \in 1 .. Len(List(next, p))
    BY <2>1
  <2>3. p \in ToSet(List(next, p))
    BY <2>1, <2>2, Elements
  <2>4. ToSet(more) \cap ToSet(List(next, p)) = {}
    BY <1>4, <1>5, <1>6 DEF Distinct
  <2> QED BY <1>8, <1>9, <2>3, <2>4
<1>11. List(next2, p) = s
  BY <1>8, <1>9, ListOfChain
<1>12. Typed(P, posted, completed, user2, next2, more2)
  BY <1>1, <1>2, <1>8, <1>11 DEF Typed
<1>13. f[b] = << >> /\ g[b] = s
  BY <1>5, <1>10, <1>11
<1>14. Reshuffled(more, << >>, more2, s) /\ AllKept(more, << >>, more2, s)
  BY <1>0, <1>1, <1>7, CutApart
<1>15. OthersStay(P, a, b, posted, completed, user, next, more,
                  posted, completed, user2, next2, more2)
  <2>1. \A r \in P : Spot("user", r) # b => r # p
    OBVIOUS
  <2> QED BY <1>2, <2>1 DEF OthersStay
<1> HIDE DEF a, b
<1>16. Reshuffled(f[a], f[b], g[a], g[b]) /\ AllKept(f[a], f[b], g[a], g[b])
  BY <1>4, <1>13, <1>14
<1>17. /\ Pool(P, posted, completed, user, next, more)
       /\ f = Places(posted, completed, user, next, more)
       /\ g = Places(posted, completed, user2, next2, more2)
  OBVIOUS
<1>18. Pool(P, posted, completed, user2, next2, more2) /\ Fills(f, g)
  BY ONLY <1>3, <1>12, <1>15, <1>16, <1>17, PoolStep
<1> QED BY <1>2, <1>10, <1>11, <1>18

-----------------------------------------------------------------------------
(* The links of a sequence of packets                                      *)

(* What Linked does to a link, for packets that are all different.         *)
LEMMA LinkedIs ==
    ASSUME NEW P, NEW next, Links(next, P), NEW c \in Seq(P), Inj(c)
    PROVE  /\ Links(Linked(next, c), P)
           /\ \A i \in 1 .. Len(c) - 1 : Linked(next, c)[c[i]] = c[i + 1]
           /\ \A p \in P : (\A i \in 1 .. Len(c) - 1 : c[i] # p) => Linked(next, c)[p] = next[p]
<1> DEFINE I(p) == CHOOSE i \in 1 .. Len(c) - 1 : c[i] = p
           hit(p) == \E i \in 1 .. Len(c) - 1 : c[i] = p
<1>1. DOMAIN next = P /\ Len(c) \in Nat /\ \A i \in 1 .. Len(c) : c[i] \in P
  BY DEF Links
<1>2. Linked(next, c) = [p \in P |-> IF hit(p) THEN c[1 + I(p)] ELSE next[p]]
  BY <1>1 DEF Linked
<1>3. ASSUME NEW p, hit(p) PROVE I(p) \in 1 .. Len(c) - 1 /\ c[I(p)] = p
  <2> HIDE DEF hit
  <2> QED BY <1>3 DEF hit
<1>4. ASSUME NEW p \in P PROVE (IF hit(p) THEN c[1 + I(p)] ELSE next[p]) \in P \cup {NULL}
  <2>1. CASE hit(p)
    <3>1. 1 + I(p) \in 1 .. Len(c)
      <4> HIDE DEF I, hit
      <4> QED BY <1>1, <1>3, <2>1
    <3> HIDE DEF I, hit
    <3> QED BY <1>1, <2>1, <3>1
  <2>2. CASE ~hit(p)
    <3> HIDE DEF I, hit
    <3> QED BY <2>2 DEF Links
  <2> QED BY <2>1, <2>2
<1>5. ASSUME NEW i \in 1 .. Len(c) - 1 PROVE Linked(next, c)[c[i]] = c[i + 1]
  <2>1. hit(c[i]) /\ i \in 1 .. Len(c) /\ i + 1 = 1 + i
    BY <1>1
  <2>2. I(c[i]) \in 1 .. Len(c) - 1 /\ c[I(c[i])] = c[i]
    <3> HIDE DEF I, hit
    <3> QED BY <1>3, <2>1
  <2> HIDE DEF I, hit
  <2>3. I(c[i]) \in 1 .. Len(c)
    BY <1>1, <2>2
  <2>4. I(c[i]) = i
    BY <2>1, <2>2, <2>3 DEF Inj
  <2> QED BY <1>1, <1>2, <2>1, <2>4
<1>6. ASSUME NEW p \in P, \A i \in 1 .. Len(c) - 1 : c[i] # p PROVE Linked(next, c)[p] = next[p]
  BY <1>2, <1>6
<1>7. Links(Linked(next, c), P)
  <2> HIDE DEF I, hit
  <2>1. Linked(next, c) \in [P -> P \cup {NULL}]
    BY <1>2, <1>4
  <2> QED BY <2>1 DEF Links
<1> QED BY <1>5, <1>6, <1>7

(* Links that end at p; what is linked behind the list m, whose last packet*)
(* still has an old link.                                                  *)
CutOff(next, p) == [next EXCEPT ![p] = NULL]
EndsAt(next, old, m) == m # << >> => old = m[Len(m)] /\ Chained(CutOff(next, old), m)
Behind(m, old, b) == (IF m = << >> THEN << >> ELSE <<old>>) \o b

(* The two parts of a sequence that is cut,                                *)
LEMMA CutParts ==
    ASSUME NEW P, NEW s \in Seq(P), Inj(s), NEW n, NEW b, NEW r, Cut(s, n, b, r)
    PROVE  /\ n \in 0 .. Len(s) /\ b \in Seq(P) /\ r \in Seq(P) /\ Inj(b) /\ Inj(r)
           /\ Len(b) = n /\ Len(r) = Len(s) - n
           /\ \A i \in 1 .. n : b[i] = s[i]
           /\ \A i \in 1 .. Len(s) - n : r[i] = s[n + i]
           /\ ToSet(b) \cap ToSet(r) = {} /\ ToSet(s) = ToSet(b) \cup ToSet(r)
<1>1. n \in 0 .. Len(s) /\ b = SubSeq(s, 1, n) /\ r = SubSeq(s, n + 1, Len(s))
  BY DEF Cut
<1> QED BY <1>1, InjCut

(* the first of them put behind another sequence,                          *)
LEMMA CutBehind ==
    ASSUME NEW P, NEW s \in Seq(P), NEW t \in Seq(P), Distinct(s, t),
           NEW n, NEW b, NEW r, Cut(s, n, b, r), NEW behind, behind = t \o b
    PROVE  /\ behind \in Seq(P)
           /\ Reshuffled(s, t, r, behind) /\ AllKept(s, t, r, behind)
<1>1. n \in 0 .. Len(s) /\ b = SubSeq(s, 1, n) /\ r = SubSeq(s, n + 1, Len(s))
  BY DEF Cut
<1> QED BY <1>1, CutOnto

(* or the first, turned round, in front of one.                            *)
LEMMA CutInFront ==
    ASSUME NEW P, NEW s \in Seq(P), NEW t \in Seq(P), Distinct(s, t),
           NEW n, NEW b, NEW r, Cut(s, n, b, r), NEW front, front = Reverse(b) \o t
    PROVE  /\ front \in Seq(P)
           /\ Reshuffled(s, t, r, front) /\ AllKept(s, t, r, front)
<1>1. n \in 0 .. Len(s) /\ b = SubSeq(s, 1, n) /\ r = SubSeq(s, n + 1, Len(s))
  BY DEF Cut
<1> QED BY <1>1, CutOnto

(* First and last of a list that packets are put behind.                   *)
LEMMA Joined ==
    ASSUME NEW P, NEW m \in Seq(P), NEW b \in Seq(P), b # << >>, Distinct(b, m), NEW m2, m2 = m \o b
    PROVE  /\ m2 \in Seq(P) /\ m2 # << >>
           /\ m2[Len(m2)] = b[Len(b)] /\ b[Len(b)] \in P /\ m2[1] \in P
           /\ m = << >> => m2[1] = b[1]
           /\ m # << >> => m2[1] = m[1]
<1>1. /\ Len(b) >= 1 /\ Len(m) \in Nat /\ Len(b) \in Nat /\ (Len(m) >= 1 <=> m # << >>)
      /\ m \in Seq(P) /\ b \in Seq(P)
  OBVIOUS
<1>2. /\ m2 \in Seq(P) /\ Len(m2) = Len(m) + Len(b)
      /\ \A i \in 1 .. Len(m) + Len(b) : m2[i] = IF i <= Len(m) THEN m[i] ELSE b[i - Len(m)]
  BY ONLY <1>1, m2 = m \o b
<1>3. m2[Len(m) + Len(b)] = b[Len(b)] /\ b[Len(b)] \in P /\ m2[1] \in P
  BY ONLY <1>1, <1>2
<1>4. m2 # << >>
  BY ONLY <1>1, <1>2
<1>5. m2[1] = IF Len(m) >= 1 THEN m[1] ELSE b[1]
  BY ONLY <1>1, <1>2
<1> QED BY ONLY <1>1, <1>2, <1>3, <1>4, <1>5

(* Only links of S change.                                                 *)
OnlyLinksOf(S, P, next, next2) == \A r \in P : next2[r] # next[r] => r \in S

(* A sequence b is linked behind the list m, or in front of it.            *)
LEMMA ChainJoined ==
    ASSUME NEW P, NEW next, Links(next, P), NEW m \in Seq(P), NEW b \in Seq(P), Distinct(b, m),
           b # << >>, NEW old, EndsAt(next, old, m), NEW c, c = Behind(m, old, b),
           NEW next2, next2 = Linked(next, c), NEW next3, next3 = CutOff(next2, b[Len(b)]),
           NEW m2, m2 = m \o b
    PROVE  /\ Links(next2, P) /\ Links(next3, P) /\ Chained(next3, m2)
           /\ OnlyLinksOf(ToSet(m) \cup ToSet(b), P, next, next2)
<1>0. /\ m # << >> => old = m[Len(m)] /\ Chained([next EXCEPT ![old] = NULL], m)
      /\ c = (IF m = << >> THEN << >> ELSE <<old>>) \o b
      /\ next3 = [next2 EXCEPT ![b[Len(b)]] = NULL]
  BY DEF EndsAt, Behind, CutOff
<1> DEFINE k == IF m = << >> THEN 0 ELSE 1
<1>1. /\ Len(m) \in Nat /\ Len(b) \in Nat /\ Len(b) >= 1 /\ (m # << >> => Len(m) >= 1)
      /\ \A i \in 1 .. Len(m) : m[i] \in P
      /\ \A i \in 1 .. Len(b) : b[i] \in P
      /\ NULL \notin P /\ DOMAIN next = P /\ (m = << >> => Len(m) = 0)
  BY DEF Links
<1>2. /\ Inj(m) /\ Inj(b)
      /\ \A i \in 1 .. Len(m), j \in 1 .. Len(b) : m[i] # b[j]
  <2>1. \A i \in 1 .. Len(m) : m[i] \in ToSet(m)
    BY Elements
  <2>2. \A i \in 1 .. Len(b) : b[i] \in ToSet(b)
    BY Elements
  <2> QED BY <2>1, <2>2 DEF Distinct
<1>3. /\ c \in Seq(P) /\ Len(c) = k + Len(b) /\ \A j \in 1 .. Len(b) : c[k + j] = b[j]
      /\ m # << >> => c[1] = m[Len(m)]
  <2>1. CASE m = << >>
    BY <1>0, <1>1, <2>1
  <2>2. CASE m # << >>
    BY <1>0, <1>1, <2>2
  <2> QED BY <2>1, <2>2
<1>4. \A i \in 1 .. Len(c) : (k = 1 /\ i = 1) \/ (i - k \in 1 .. Len(b) /\ c[i] = b[i - k])
  <2> SUFFICES ASSUME NEW i \in 1 .. Len(c), ~(k = 1 /\ i = 1)
               PROVE  i - k \in 1 .. Len(b) /\ c[i] = b[i - k]
    OBVIOUS
  <2>1. k \in {0, 1} /\ i \in Int
    BY <1>3
  <2> HIDE DEF k
  <2>2. i - k \in 1 .. Len(b) /\ k + (i - k) = i
    BY <1>1, <1>3, <2>1
  <2> QED BY <1>3, <2>2
<1>5. Inj(c)
  <2> SUFFICES ASSUME NEW i \in 1 .. Len(c), NEW j \in 1 .. Len(c), c[i] = c[j] PROVE i = j
    BY DEF Inj
  <2>1. k \in {0, 1} /\ (k = 1 => m # << >> /\ Len(m) \in 1 .. Len(m))
    BY <1>1
  <2>2. i \in Int /\ j \in Int
    BY <1>3
  <2> HIDE DEF k
  <2>3. ASSUME i - k \in 1 .. Len(b), j - k \in 1 .. Len(b), b[i - k] = b[j - k] PROVE i = j
    <3>1. i - k = j - k
      BY <1>2, <2>3 DEF Inj
    <3> QED BY ONLY <3>1, <2>1, <2>2
  <2>4. ASSUME NEW y \in 1 .. Len(b), m[Len(m)] = b[y], k = 1 PROVE FALSE
    BY <1>2, <2>1, <2>4
  <2>5. c[i] = c[j]
    OBVIOUS
  <2> QED BY ONLY <1>3, <1>4, <2>1, <2>3, <2>4, <2>5, i \in 1 .. Len(c), j \in 1 .. Len(c)
<1>6. /\ Links(next2, P) /\ DOMAIN next2 = P
      /\ \A i \in 1 .. Len(c) - 1 : next2[c[i]] = c[i + 1]
      /\ \A p \in P : (\A i \in 1 .. Len(c) - 1 : c[i] # p) => next2[p] = next[p]
  <2>1. /\ Links(next2, P)
        /\ \A i \in 1 .. Len(c) - 1 : next2[c[i]] = c[i + 1]
        /\ \A p \in P : (\A i \in 1 .. Len(c) - 1 : c[i] # p) => next2[p] = next[p]
    <3>1. /\ Links(Linked(next, c), P)
          /\ \A i \in 1 .. Len(c) - 1 : Linked(next, c)[c[i]] = c[i + 1]
          /\ \A p \in P : (\A i \in 1 .. Len(c) - 1 : c[i] # p) => Linked(next, c)[p] = next[p]
      <4>1. c \in Seq(P) /\ Inj(c) /\ Links(next, P)
        BY <1>3, <1>5
      <4> QED BY ONLY <4>1, LinkedIs
    <3>2. next2 = Linked(next, c)
      OBVIOUS
    <3> QED BY ONLY <3>1, <3>2
  <2> QED BY <2>1 DEF Links
<1> HIDE DEF k
<1>k. k \in {0, 1} /\ (k = 1 <=> m # << >>)
  BY DEF k
<1>7. /\ Links(next3, P) /\ next3[b[Len(b)]] = NULL
      /\ \A p \in P : p # b[Len(b)] => next3[p] = next2[p]
  <2>1. b[Len(b)] \in P
    BY <1>1
  <2>2. next3 \in [P -> P \cup {NULL}]
    BY <1>0, <1>6, <2>1 DEF Links
  <2>3. next3[b[Len(b)]] = NULL /\ \A p \in P : p # b[Len(b)] => next3[p] = next2[p]
    BY <1>0, <1>6, <2>1 DEF Links
  <2> QED BY <2>2, <2>3 DEF Links
<1>8. ASSUME NEW j \in 1 .. Len(b) PROVE next3[b[j]] = IF j < Len(b) THEN b[j + 1] ELSE NULL
  <2>1. CASE j < Len(b)
    <3>1. k + j \in 1 .. Len(c) - 1 /\ j + 1 \in 1 .. Len(b) /\ k + j + 1 = k + (j + 1)
      BY <1>1, <1>3, <1>k, <2>1
    <3>2. c[k + j] = b[j] /\ c[k + (j + 1)] = b[j + 1]
      BY <1>3, <3>1
    <3>3. next2[b[j]] = b[j + 1]
      BY <1>6, <3>1, <3>2
    <3>4. b[j] # b[Len(b)] /\ b[j] \in P
      BY <1>1, <1>2, <2>1 DEF Inj
    <3> QED BY <1>7, <2>1, <3>3, <3>4
  <2>2. CASE j = Len(b)
    BY <1>1, <1>7, <2>2
  <2> QED BY <1>1, <2>1, <2>2
<1>9. ASSUME NEW i \in 1 .. Len(m) PROVE next3[m[i]] = IF i < Len(m) THEN m[i + 1] ELSE b[1]
  <2>0. m # << >> /\ k = 1 /\ m[i] \in P /\ Len(b) \in 1 .. Len(b) /\ m[i] # b[Len(b)]
    BY <1>1, <1>2, <1>k
  <2>1. CASE i < Len(m)
    <3>1. m[i] # m[Len(m)] /\ Len(m) \in 1 .. Len(m)
      BY <1>1, <1>2, <2>1 DEF Inj
    <3>2. ASSUME NEW j \in 1 .. Len(c) - 1 PROVE c[j] # m[i]
      <4>1. j \in 1 .. Len(c)
        BY <1>3
      <4>2. CASE j = 1
        BY <1>3, <2>0, <3>1, <4>2
      <4>3. CASE j # 1
        <5>1. j - k \in 1 .. Len(b) /\ c[j] = b[j - k]
          BY <1>4, <4>1, <4>3
        <5> QED BY <1>2, <5>1
      <4> QED BY <4>2, <4>3
    <3>3. next2[m[i]] = next[m[i]]
      BY <1>6, <2>0, <3>2
    <3>4. [next EXCEPT ![old] = NULL][m[i]] = m[i + 1]
      BY <1>0, <2>0, <2>1 DEF Chained
    <3>5. next[m[i]] = m[i + 1]
      BY <1>1, <2>0, <3>1, <3>4
    <3> QED BY <1>7, <2>0, <2>1, <3>3, <3>5
  <2>2. CASE i = Len(m)
    <3>1. c[1] = m[i] /\ 1 \in 1 .. Len(c) - 1 /\ c[1 + 1] = b[1]
      BY <1>1, <1>3, <2>0, <2>2
    <3>2. next2[m[i]] = b[1]
      BY <1>6, <3>1
    <3> QED BY <1>7, <2>0, <2>2, <3>2
  <2> QED BY <1>1, <2>1, <2>2
<1>10. Chained(next3, m \o b)
  <2>1. /\ Len(m \o b) = Len(m) + Len(b)
        /\ \A i \in 1 .. Len(m) + Len(b) : (m \o b)[i] = IF i <= Len(m) THEN m[i] ELSE b[i - Len(m)]
    OBVIOUS
  <2>c. (\A i \in 1 .. Len(m) + Len(b) :
           next3[(m \o b)[i]] = IF i < Len(m) + Len(b) THEN (m \o b)[i + 1] ELSE NULL)
        => Chained(next3, m \o b)
    BY ONLY <2>1 DEF Chained
  <2> SUFFICES ASSUME NEW i \in 1 .. Len(m) + Len(b)
               PROVE  next3[(m \o b)[i]] = IF i < Len(m) + Len(b) THEN (m \o b)[i + 1] ELSE NULL
    BY <2>c
  <2>2. CASE i < Len(m)
    <3>1. (m \o b)[i] = m[i] /\ (m \o b)[i + 1] = m[i + 1] /\ i \in 1 .. Len(m) /\ i < Len(m) + Len(b)
      BY <1>1, <2>1, <2>2
    <3> QED BY <1>9, <2>2, <3>1
  <2>3. CASE i = Len(m)
    <3>1. (m \o b)[i] = m[i] /\ (m \o b)[i + 1] = b[1] /\ i \in 1 .. Len(m) /\ i < Len(m) + Len(b)
      BY <1>1, <2>1, <2>3
    <3>2. next3[m[i]] = b[1]
      <4>1. i \in 1 .. Len(m) /\ ~(i < Len(m))
        BY <1>1, <2>3, <3>1
      <4> QED BY ONLY <1>9, <4>1
    <3> QED BY ONLY <3>1, <3>2
  <2>4. CASE i > Len(m)
    <3> DEFINE j == i - Len(m)
    <3>1. (m \o b)[i] = b[j] /\ j \in 1 .. Len(b) /\ (j < Len(b) <=> i < Len(m) + Len(b))
      BY <1>1, <2>1, <2>4
    <3>2. i < Len(m) + Len(b) => (m \o b)[i + 1] = b[j + 1]
      BY <1>1, <2>1, <2>4
    <3> HIDE DEF j
    <3> QED BY <1>8, <3>1, <3>2
  <2> QED BY <1>1, <2>2, <2>3, <2>4
<1>11. ASSUME NEW r \in P, next2[r] # next[r] PROVE r \in ToSet(m) \/ r \in ToSet(b)
  <2>1. PICK i \in 1 .. Len(c) - 1 : c[i] = r
    BY <1>6, <1>11
  <2>2. i \in 1 .. Len(c)
    BY <1>3, <2>1
  <2>3. \/ \E j \in 1 .. Len(m) : r = m[j]
        \/ \E j \in 1 .. Len(b) : r = b[j]
    <3>1. CASE k = 1 /\ i = 1
      <4>1. m # << >> /\ r = m[Len(m)] /\ Len(m) \in 1 .. Len(m)
        BY <1>1, <1>3, <1>k, <2>1, <3>1
      <4> QED BY <4>1
    <3>2. CASE ~(k = 1 /\ i = 1)
      BY <1>4, <2>1, <2>2, <3>2
    <3> QED BY <3>1, <3>2
  <2> QED BY <2>3, Elements
<1> QED BY <1>6, <1>7, <1>10, <1>11 DEF OnlyLinksOf

(* Packets linked one to the next, and the last to the first of a list,    *)
(* make one list with it.                                                  *)
LEMMA ChainPushed ==
    ASSUME NEW P, NEW next, Links(next, P), NEW m \in Seq(P), NEW u \in Seq(P), Distinct(u, m),
           u # << >>, Chained(next, m), NEW head, head = IF m = << >> THEN NULL ELSE m[1],
           NEW next2, next2 = [Linked(next, u) EXCEPT ![u[Len(u)]] = head]
    PROVE  /\ Links(next2, P) /\ Chained(next2, u \o m)
           /\ OnlyLinksOf(ToSet(u), P, next, next2)
<1> DEFINE n1 == Linked(next, u)
<1>1. /\ Len(m) \in Nat /\ Len(u) \in Nat /\ Len(u) >= 1 /\ (m # << >> => Len(m) >= 1)
      /\ \A i \in 1 .. Len(m) : m[i] \in P
      /\ \A i \in 1 .. Len(u) : u[i] \in P
      /\ NULL \notin P /\ (m = << >> => Len(m) = 0)
  BY DEF Links
<1>2. /\ Inj(m) /\ Inj(u)
      /\ \A i \in 1 .. Len(m), j \in 1 .. Len(u) : m[i] # u[j]
  <2>1. \A i \in 1 .. Len(m) : m[i] \in ToSet(m)
    BY Elements
  <2>2. \A i \in 1 .. Len(u) : u[i] \in ToSet(u)
    BY Elements
  <2> QED BY <2>1, <2>2 DEF Distinct
<1>3. /\ Links(n1, P)
      /\ \A i \in 1 .. Len(u) - 1 : n1[u[i]] = u[i + 1]
      /\ \A p \in P : (\A i \in 1 .. Len(u) - 1 : u[i] # p) => n1[p] = next[p]
  <2>1. u \in Seq(P) /\ Inj(u)
    BY <1>2
  <2> QED BY ONLY <2>1, Links(next, P), LinkedIs
<1> HIDE DEF n1
<1>4. /\ Links(next2, P) /\ next2[u[Len(u)]] = head
      /\ \A p \in P : p # u[Len(u)] => next2[p] = n1[p]
  <2>1. u[Len(u)] \in P /\ head \in P \cup {NULL} /\ next2 = [n1 EXCEPT ![u[Len(u)]] = head]
    BY <1>1 DEF n1
  <2>2. n1 \in [P -> P \cup {NULL}]
    BY <1>3 DEF Links
  <2>3. next2 \in [P -> P \cup {NULL}]
    BY ONLY <2>1, <2>2
  <2>4. next2[u[Len(u)]] = head /\ \A p \in P : p # u[Len(u)] => next2[p] = n1[p]
    BY ONLY <2>1, <2>2
  <2> QED BY <1>3, <2>3, <2>4 DEF Links
<1>h. head = IF m = << >> THEN NULL ELSE m[1]
  OBVIOUS
<1>5. ASSUME NEW j \in 1 .. Len(u) PROVE next2[u[j]] = IF j < Len(u) THEN u[j + 1] ELSE head
  <2>1. CASE j < Len(u)
    <3>1. u[j] # u[Len(u)] /\ u[j] \in P /\ j \in 1 .. Len(u) - 1
      BY ONLY <1>1, <1>2, <2>1, j \in 1 .. Len(u) DEF Inj
    <3> QED BY ONLY <1>3, <1>4, <2>1, <3>1
  <2>2. CASE j = Len(u)
    BY ONLY <1>1, <1>4, <2>2
  <2> QED BY ONLY <1>1, <2>1, <2>2, j \in 1 .. Len(u)
<1>6. ASSUME NEW i \in 1 .. Len(m) PROVE next2[m[i]] = IF i < Len(m) THEN m[i + 1] ELSE NULL
  <2>1. m[i] \in P /\ m[i] # u[Len(u)] /\ \A j \in 1 .. Len(u) - 1 : u[j] # m[i]
    BY ONLY <1>1, <1>2, i \in 1 .. Len(m)
  <2>2. next2[m[i]] = next[m[i]]
    BY ONLY <1>3, <1>4, <2>1
  <2>3. next[m[i]] = IF i < Len(m) THEN m[i + 1] ELSE NULL
    BY DEF Chained
  <2> QED BY ONLY <2>2, <2>3
<1>7. Chained(next2, u \o m)
  <2>1. /\ Len(u \o m) = Len(u) + Len(m)
        /\ \A i \in 1 .. Len(u) + Len(m) : (u \o m)[i] = IF i <= Len(u) THEN u[i] ELSE m[i - Len(u)]
    OBVIOUS
  <2>c. (\A i \in 1 .. Len(u) + Len(m) :
           next2[(u \o m)[i]] = IF i < Len(u) + Len(m) THEN (u \o m)[i + 1] ELSE NULL)
        => Chained(next2, u \o m)
    BY ONLY <2>1 DEF Chained
  <2> SUFFICES ASSUME NEW i \in 1 .. Len(u) + Len(m)
               PROVE  next2[(u \o m)[i]] = IF i < Len(u) + Len(m) THEN (u \o m)[i + 1] ELSE NULL
    BY <2>c
  <2>2. CASE i < Len(u)
    <3>1. (u \o m)[i] = u[i] /\ (u \o m)[i + 1] = u[i + 1] /\ i \in 1 .. Len(u) /\ i < Len(u) + Len(m)
      BY ONLY <1>1, <2>1, <2>2, i \in 1 .. Len(u) + Len(m)
    <3> QED BY ONLY <1>5, <2>2, <3>1
  <2>3. CASE i = Len(u)
    <3>1. (u \o m)[i] = u[i] /\ i \in 1 .. Len(u) /\ next2[u[i]] = head
      BY ONLY <1>1, <1>5, <2>1, <2>3, i \in 1 .. Len(u) + Len(m)
    <3>2. m # << >> => i < Len(u) + Len(m) /\ (u \o m)[i + 1] = m[1]
      BY ONLY <1>1, <2>1, <2>3
    <3>3. m = << >> => ~(i < Len(u) + Len(m))
      BY <1>1, <2>3
    <3> QED BY ONLY <1>h, <2>3, <3>1, <3>2, <3>3
  <2>4. CASE i > Len(u)
    <3> DEFINE j == i - Len(u)
    <3>1. (u \o m)[i] = m[j] /\ j \in 1 .. Len(m) /\ (j < Len(m) <=> i < Len(u) + Len(m))
      BY ONLY <1>1, <2>1, <2>4, i \in 1 .. Len(u) + Len(m)
    <3>2. i < Len(u) + Len(m) => (u \o m)[i + 1] = m[j + 1]
      BY ONLY <1>1, <2>1, <2>4, i \in 1 .. Len(u) + Len(m)
    <3> HIDE DEF j
    <3> QED BY ONLY <1>6, <3>1, <3>2
  <2> QED BY ONLY <1>1, <2>2, <2>3, <2>4, i \in 1 .. Len(u) + Len(m)
<1>8. ASSUME NEW r \in P, next2[r] # next[r] PROVE r \in ToSet(u)
  <2>1. \/ r = u[Len(u)]
        \/ \E i \in 1 .. Len(u) - 1 : u[i] = r
    BY ONLY <1>3, <1>4, <1>8
  <2>2. \E i \in 1 .. Len(u) : r = u[i]
    BY <1>1, <2>1
  <2> QED BY <2>2, Elements
<1> QED BY <1>4, <1>7, <1>8 DEF OnlyLinksOf

-----------------------------------------------------------------------------
(* The context and its flow rules                                          *)

USE IbvContextAssumption, IbvFlowAssumption

(* The orders of init and shutdown: lists that are made of parts           *)

Spans(s, S) == s \in Seq(S) /\ \A r \in S : \E i \in 1 .. Len(s) : s[i] = r

LEMMA SpansConcat ==
    ASSUME NEW S, NEW T, NEW s, NEW t, Spans(s, S), Spans(t, T)
    PROVE  /\ Spans(s \o t, S \cup T)
           /\ Len(s \o t) = Len(s) + Len(t) /\ Len(s) \in Nat /\ Len(t) \in Nat
           /\ \A i \in 1 .. Len(s) + Len(t) :
                 (i <= Len(s) => (s \o t)[i] = s[i]) /\ (i > Len(s) => (s \o t)[i] = t[i - Len(s)])
<1>1. /\ s \in Seq(S \cup T) /\ t \in Seq(S \cup T)
      /\ Len(s) \in Nat /\ Len(t) \in Nat
  BY DEF Spans
<1>2. /\ s \o t \in Seq(S \cup T) /\ Len(s \o t) = Len(s) + Len(t)
      /\ \A i \in 1 .. Len(s) + Len(t) :
            (i <= Len(s) => (s \o t)[i] = s[i]) /\ (i > Len(s) => (s \o t)[i] = t[i - Len(s)])
  BY <1>1
<1>3. ASSUME NEW r \in S \cup T PROVE \E i \in 1 .. Len(s \o t) : (s \o t)[i] = r
  <2>1. CASE r \in S
    <3>1. PICK i \in 1 .. Len(s) : s[i] = r
      BY <2>1 DEF Spans
    <3>2. i \in 1 .. Len(s) + Len(t) /\ i <= Len(s)
      BY <1>1, <3>1
    <3> QED BY <1>2, <3>1, <3>2
  <2>2. CASE r \in T
    <3>1. PICK i \in 1 .. Len(t) : t[i] = r
      BY <2>2 DEF Spans
    <3>2. Len(s) + i \in 1 .. Len(s) + Len(t) /\ ~(Len(s) + i <= Len(s)) /\ Len(s) + i - Len(s) = i
      BY <1>1, <3>1
    <3> QED BY <1>2, <3>1, <3>2
  <2> QED BY <2>1, <2>2
<1> QED BY <1>1, <1>2, <1>3 DEF Spans

LEMMA SpansParts ==
    /\ \A n : Spans(One(n), {<<n, 0>>})
    /\ \A n : Spans(Each(n), {n} \X QP)
    /\ \A S : Spans(<< >>, {})
<1>1. ASSUME NEW n PROVE Spans(Each(n), {n} \X QP)
  <2>1. Each(n) \in Seq({n} \X QP) /\ Len(Each(n)) = nqp
    BY DEF Each, QP
  <2>2. ASSUME NEW q \in QP PROVE q + 1 \in 1 .. nqp /\ Each(n)[q + 1] = <<n, q>>
    BY DEF Each, QP
  <2> QED BY <2>1, <2>2 DEF Spans
<1>2. ASSUME NEW n PROVE Spans(One(n), {<<n, 0>>})
  <2>1. One(n) \in Seq({<<n, 0>>}) /\ Len(One(n)) = 1 /\ One(n)[1] = <<n, 0>>
    BY DEF One
  <2> QED BY <2>1 DEF Spans
<1>3. ASSUME NEW S PROVE Spans(<< >>, {})
  BY DEF Spans
<1> QED BY <1>1, <1>2, <1>3

(* Where a thing comes in the order of shutdown.                           *)
Rank(n) ==
    CASE n = "send_mr" -> 1 [] n = "recv_mr" -> 2 [] n = "qp" -> 3 [] n = "qps" -> 4
      [] n = "send_cq" -> 5 [] n = "send_cqs" -> 6 [] n = "recv_cq" -> 7 [] n = "recv_cqs" -> 8
      [] n = "recv_cc" -> 9 [] n = "pd" -> 10 [] n = "ctx" -> 11
      [] n = "send_pkt_buf" -> 12 [] n = "recv_pkt_buf" -> 13 [] n = "send_sge_buf" -> 14
      [] n = "recv_sge_buf" -> 15 [] n = "send_mr_buf" -> 16 [] n = "recv_mr_buf" -> 17
      [] n = "ibv_flows" -> 18 [] n = "flow_dst_ips" -> 19 [] OTHER -> 20

Sorted(s, S, lo, hi) ==
    /\ Spans(s, S)
    /\ \A r \in S : Rank(r[1]) \in lo .. hi
    /\ \A i, j \in 1 .. Len(s) : i <= j => Rank(s[i][1]) <= Rank(s[j][1])

LEMMA SortedConcat ==
    ASSUME NEW S, NEW T, NEW s, NEW t, NEW a \in Nat, NEW b \in Nat, NEW c \in Nat, NEW d \in Nat,
           Sorted(s, S, a, b), Sorted(t, T, c, d), a <= b, b <= c, c <= d
    PROVE  Sorted(s \o t, S \cup T, a, d)
<1>1. Spans(s, S) /\ Spans(t, T)
  BY DEF Sorted
<1>2. /\ Spans(s \o t, S \cup T)
      /\ Len(s \o t) = Len(s) + Len(t) /\ Len(s) \in Nat /\ Len(t) \in Nat
      /\ \A i \in 1 .. Len(s) + Len(t) :
            (i <= Len(s) => (s \o t)[i] = s[i]) /\ (i > Len(s) => (s \o t)[i] = t[i - Len(s)])
  BY <1>1, SpansConcat
<1>3. \A r \in S \cup T : Rank(r[1]) \in a .. d
  BY DEF Sorted
<1>4. ASSUME NEW i \in 1 .. Len(s \o t), NEW j \in 1 .. Len(s \o t), i <= j
      PROVE  Rank((s \o t)[i][1]) <= Rank((s \o t)[j][1])
  <2> DEFINE x == (s \o t)[i]
             y == (s \o t)[j]
  <2>1. CASE j <= Len(s)
    <3>1. i \in 1 .. Len(s) /\ j \in 1 .. Len(s) /\ x = s[i] /\ y = s[j]
      BY <1>2, <1>4, <2>1
    <3> QED BY <1>4, <3>1 DEF Sorted
  <2>2. CASE Len(s) < i
    <3>1. /\ i - Len(s) \in 1 .. Len(t) /\ j - Len(s) \in 1 .. Len(t) /\ i - Len(s) <= j - Len(s)
          /\ x = t[i - Len(s)] /\ y = t[j - Len(s)]
      BY <1>2, <1>4, <2>2
    <3> QED BY <3>1 DEF Sorted
  <2>3. CASE i <= Len(s) /\ Len(s) < j
    <3>1. i \in 1 .. Len(s) /\ j - Len(s) \in 1 .. Len(t) /\ x = s[i] /\ y = t[j - Len(s)]
      BY <1>2, <1>4, <2>3
    <3>2. s[i] \in S /\ t[j - Len(s)] \in T
      <4>1. s \in Seq(S) /\ t \in Seq(T)
        BY <1>1 DEF Spans
      <4>2. s[i] \in S
        BY <3>1, <4>1
      <4>3. \A k \in 1 .. Len(t) : t[k] \in T
        BY <4>1
      <4> QED BY <3>1, <4>2, <4>3
    <3>3. Rank(x[1]) \in a .. b /\ Rank(y[1]) \in c .. d
      BY <3>1, <3>2 DEF Sorted
    <3> HIDE DEF x, y
    <3>4. Rank(x[1]) <= Rank(y[1])
      BY <3>3
    <3> QED BY <3>4 DEF x, y
  <2> QED BY <1>2, <1>4, <2>1, <2>2, <2>3
<1> QED BY <1>2, <1>3, <1>4 DEF Sorted

LEMMA SortedParts ==
    /\ \A n : Rank(n) \in 1 .. 20
    /\ \A n : Sorted(One(n), {<<n, 0>>}, Rank(n), Rank(n))
    /\ \A n : Sorted(Each(n), {n} \X QP, Rank(n), Rank(n))
<1>1. \A n : Rank(n) \in 1 .. 20
  BY DEF Rank
<1>2. ASSUME NEW n PROVE Sorted(One(n), {<<n, 0>>}, Rank(n), Rank(n))
  <2>1. Len(One(n)) = 1 /\ One(n)[1] = <<n, 0>>
    BY DEF One
  <2> QED BY <1>1, <2>1, SpansParts DEF Sorted
<1>3. ASSUME NEW n PROVE Sorted(Each(n), {n} \X QP, Rank(n), Rank(n))
  <2>1. \A i \in 1 .. Len(Each(n)) : Each(n)[i][1] = n
    BY DEF Each
  <2>2. \A r \in {n} \X QP : r[1] = n
    OBVIOUS
  <2>3. Spans(Each(n), {n} \X QP)
    BY ONLY SpansParts
  <2>4. PICK k \in 1 .. 20 : k = Rank(n)
    BY <1>1
  <2>5. \A r \in {n} \X QP : Rank(r[1]) \in k .. k
    BY ONLY <2>2, <2>4
  <2>6. \A i, j \in 1 .. Len(Each(n)) : i <= j => Rank(Each(n)[i][1]) <= Rank(Each(n)[j][1])
    BY ONLY <2>1, <2>4
  <2> QED BY ONLY <2>3, <2>4, <2>5, <2>6 DEF Sorted
<1> QED BY <1>1, <1>2, <1>3

Always == {"send_mr", "recv_mr", "qps", "send_cqs", "recv_cqs", "recv_cc", "pd", "ctx",
           "ibv_flows", "flow_dst_ips", "mcast_subscriber"}
Buffers == {"send_pkt_buf", "recv_pkt_buf", "send_sge_buf", "recv_sge_buf"} \cup Mapped
Resource == ((Always \cup (IF user_managed_flag THEN {} ELSE Buffers)) \X {0}) \cup (PerQP \X QP)

OneOf(n) == {<<n, 0>>}
EachOf(n) == {n} \X QP

(* The list t is s and then what is called n.                              *)
Adds(s, S, n, t, T) ==
    \/ t = s \o One(n) /\ T = S \cup OneOf(n)
    \/ t = s \o Each(n) /\ T = S \cup EachOf(n)

LEMMA SortedAdd ==
    ASSUME NEW S, NEW s, NEW a \in Nat, NEW b \in Nat, a <= b, Sorted(s, S, a, b),
           NEW n, NEW t, NEW T, Adds(s, S, n, t, T), NEW m \in Nat, Rank(n) = m, b <= m
    PROVE  Sorted(t, T, a, m)
<1>1. Sorted(One(n), OneOf(n), m, m) /\ Sorted(Each(n), EachOf(n), m, m)
  BY SortedParts DEF OneOf, EachOf
<1>2. Sorted(s \o One(n), S \cup OneOf(n), a, m)
  BY <1>1, SortedConcat
<1>3. Sorted(s \o Each(n), S \cup EachOf(n), a, m)
  BY <1>1, SortedConcat
<1> QED BY <1>2, <1>3 DEF Adds

(* What shutdown gives back to the driver, ...                             *)
Driver ==
    One("send_mr") \o One("recv_mr") \o Each("qp") \o One("qps") \o
    Each("send_cq") \o One("send_cqs") \o Each("recv_cq") \o One("recv_cqs") \o
    One("recv_cc") \o One("pd") \o One("ctx")
DriverSet == {<<n, 0>> : n \in {"send_mr", "recv_mr", "qps", "send_cqs", "recv_cqs", "recv_cc", "pd", "ctx"}}
             \cup (PerQP \X QP)

LEMMA RankIs ==
    /\ Rank("send_mr") = 1 /\ Rank("recv_mr") = 2 /\ Rank("qp") = 3 /\ Rank("qps") = 4
    /\ Rank("send_cq") = 5 /\ Rank("send_cqs") = 6 /\ Rank("recv_cq") = 7 /\ Rank("recv_cqs") = 8
    /\ Rank("recv_cc") = 9 /\ Rank("pd") = 10 /\ Rank("ctx") = 11 /\ Rank("send_pkt_buf") = 12
    /\ Rank("recv_pkt_buf") = 13 /\ Rank("send_sge_buf") = 14 /\ Rank("recv_sge_buf") = 15 /\ Rank("send_mr_buf") = 16
    /\ Rank("recv_mr_buf") = 17 /\ Rank("ibv_flows") = 18 /\ Rank("flow_dst_ips") = 19 /\ Rank("mcast_subscriber") = 20
BY DEF Rank

LEMMA DriverSorted == Sorted(Driver, DriverSet, 1, 11)
<1> DEFINE s1 == One("send_mr")
           s2 == s1 \o One("recv_mr")
           s3 == s2 \o Each("qp")
           s4 == s3 \o One("qps")
           s5 == s4 \o Each("send_cq")
           s6 == s5 \o One("send_cqs")
           s7 == s6 \o Each("recv_cq")
           s8 == s7 \o One("recv_cqs")
           s9 == s8 \o One("recv_cc")
           s10 == s9 \o One("pd")
           s11 == s10 \o One("ctx")
           S1 == OneOf("send_mr")
           S2 == S1 \cup OneOf("recv_mr")
           S3 == S2 \cup EachOf("qp")
           S4 == S3 \cup OneOf("qps")
           S5 == S4 \cup EachOf("send_cq")
           S6 == S5 \cup OneOf("send_cqs")
           S7 == S6 \cup EachOf("recv_cq")
           S8 == S7 \cup OneOf("recv_cqs")
           S9 == S8 \cup OneOf("recv_cc")
           S10 == S9 \cup OneOf("pd")
           S11 == S10 \cup OneOf("ctx")
<1>1. Sorted(s1, S1, 1, 1)
  BY RankIs, SortedParts DEF OneOf
<1>2. Sorted(s2, S2, 1, 2)
  <2>1. Adds(s1, S1, "recv_mr", s2, S2)
    BY DEF Adds
  <2> HIDE DEF s1, S1, s2, S2
  <2> QED BY <1>1, <2>1, RankIs, SortedAdd
<1>3. Sorted(s3, S3, 1, 3)
  <2>1. Adds(s2, S2, "qp", s3, S3)
    BY DEF Adds
  <2> HIDE DEF s2, S2, s3, S3
  <2> QED BY <1>2, <2>1, RankIs, SortedAdd
<1>4. Sorted(s4, S4, 1, 4)
  <2>1. Adds(s3, S3, "qps", s4, S4)
    BY DEF Adds
  <2> HIDE DEF s3, S3, s4, S4
  <2> QED BY <1>3, <2>1, RankIs, SortedAdd
<1>5. Sorted(s5, S5, 1, 5)
  <2>1. Adds(s4, S4, "send_cq", s5, S5)
    BY DEF Adds
  <2> HIDE DEF s4, S4, s5, S5
  <2> QED BY <1>4, <2>1, RankIs, SortedAdd
<1>6. Sorted(s6, S6, 1, 6)
  <2>1. Adds(s5, S5, "send_cqs", s6, S6)
    BY DEF Adds
  <2> HIDE DEF s5, S5, s6, S6
  <2> QED BY <1>5, <2>1, RankIs, SortedAdd
<1>7. Sorted(s7, S7, 1, 7)
  <2>1. Adds(s6, S6, "recv_cq", s7, S7)
    BY DEF Adds
  <2> HIDE DEF s6, S6, s7, S7
  <2> QED BY <1>6, <2>1, RankIs, SortedAdd
<1>8. Sorted(s8, S8, 1, 8)
  <2>1. Adds(s7, S7, "recv_cqs", s8, S8)
    BY DEF Adds
  <2> HIDE DEF s7, S7, s8, S8
  <2> QED BY <1>7, <2>1, RankIs, SortedAdd
<1>9. Sorted(s9, S9, 1, 9)
  <2>1. Adds(s8, S8, "recv_cc", s9, S9)
    BY DEF Adds
  <2> HIDE DEF s8, S8, s9, S9
  <2> QED BY <1>8, <2>1, RankIs, SortedAdd
<1>10. Sorted(s10, S10, 1, 10)
  <2>1. Adds(s9, S9, "pd", s10, S10)
    BY DEF Adds
  <2> HIDE DEF s9, S9, s10, S10
  <2> QED BY <1>9, <2>1, RankIs, SortedAdd
<1>11. Sorted(s11, S11, 1, 11)
  <2>1. Adds(s10, S10, "ctx", s11, S11)
    BY DEF Adds
  <2> HIDE DEF s10, S10, s11, S11
  <2> QED BY <1>10, <2>1, RankIs, SortedAdd
<1>12. S11 = DriverSet
  BY DEF DriverSet, PerQP, OneOf, EachOf
<1>13. s11 = Driver
  BY DEF Driver
<1> QED BY <1>11, <1>12, <1>13

(* ... the packet buffers, if they are not the user's, ...                 *)
Memory == PktBufs \o One("send_mr_buf") \o One("recv_mr_buf")

LEMMA MemorySorted == Sorted(Memory, Buffers \X {0}, 12, 17)
<1> DEFINE s1 == One("send_pkt_buf")
           s2 == s1 \o One("recv_pkt_buf")
           s3 == s2 \o One("send_sge_buf")
           s4 == s3 \o One("recv_sge_buf")
           s5 == s4 \o One("send_mr_buf")
           s6 == s5 \o One("recv_mr_buf")
           S1 == OneOf("send_pkt_buf")
           S2 == S1 \cup OneOf("recv_pkt_buf")
           S3 == S2 \cup OneOf("send_sge_buf")
           S4 == S3 \cup OneOf("recv_sge_buf")
           S5 == S4 \cup OneOf("send_mr_buf")
           S6 == S5 \cup OneOf("recv_mr_buf")
<1>1. Sorted(s1, S1, 12, 12)
  BY RankIs, SortedParts DEF OneOf
<1>2. Sorted(s2, S2, 12, 13)
  <2>1. Adds(s1, S1, "recv_pkt_buf", s2, S2)
    BY DEF Adds
  <2> HIDE DEF s1, S1, s2, S2
  <2> QED BY <1>1, <2>1, RankIs, SortedAdd
<1>3. Sorted(s3, S3, 12, 14)
  <2>1. Adds(s2, S2, "send_sge_buf", s3, S3)
    BY DEF Adds
  <2> HIDE DEF s2, S2, s3, S3
  <2> QED BY <1>2, <2>1, RankIs, SortedAdd
<1>4. Sorted(s4, S4, 12, 15)
  <2>1. Adds(s3, S3, "recv_sge_buf", s4, S4)
    BY DEF Adds
  <2> HIDE DEF s3, S3, s4, S4
  <2> QED BY <1>3, <2>1, RankIs, SortedAdd
<1>5. Sorted(s5, S5, 12, 16)
  <2>1. Adds(s4, S4, "send_mr_buf", s5, S5)
    BY DEF Adds
  <2> HIDE DEF s4, S4, s5, S5
  <2> QED BY <1>4, <2>1, RankIs, SortedAdd
<1>6. Sorted(s6, S6, 12, 17)
  <2>1. Adds(s5, S5, "recv_mr_buf", s6, S6)
    BY DEF Adds
  <2> HIDE DEF s5, S5, s6, S6
  <2> QED BY <1>5, <2>1, RankIs, SortedAdd
<1>7. S6 = Buffers \X {0}
  BY DEF Buffers, Mapped, OneOf
<1>8. s6 = Memory
  BY DEF Memory, PktBufs
<1> QED BY <1>6, <1>7, <1>8

(* ... and the rest.                                                       *)
LEMMA TeardownSorted ==
    ASSUME user_managed_flag \in BOOLEAN
    PROVE  Sorted(Teardown, Resource, 1, 20)
<1> DEFINE m == IF user_managed_flag THEN << >> ELSE Memory
           M == IF user_managed_flag THEN {} ELSE Buffers \X {0}
           s1 == Driver \o m
           s2 == s1 \o One("ibv_flows")
           s3 == s2 \o One("flow_dst_ips")
           s4 == s3 \o One("mcast_subscriber")
           S1 == DriverSet \cup M
           S2 == S1 \cup OneOf("ibv_flows")
           S3 == S2 \cup OneOf("flow_dst_ips")
           S4 == S3 \cup OneOf("mcast_subscriber")
<1>1. Sorted(s1, S1, 1, 17)
  <2>1. Sorted(<< >>, {}, 12, 17)
    BY SpansParts DEF Sorted
  <2>2. Sorted(m, M, 12, 17)
    BY <2>1, MemorySorted
  <2> HIDE DEF m, M
  <2> QED BY <2>2, DriverSorted, SortedConcat
<1>2. Sorted(s2, S2, 1, 18)
  <2>1. Adds(s1, S1, "ibv_flows", s2, S2)
    BY DEF Adds
  <2> HIDE DEF s1, S1, s2, S2
  <2> QED BY <1>1, <2>1, RankIs, SortedAdd
<1>3. Sorted(s3, S3, 1, 19)
  <2>1. Adds(s2, S2, "flow_dst_ips", s3, S3)
    BY DEF Adds
  <2> HIDE DEF s2, S2, s3, S3
  <2> QED BY <1>2, <2>1, RankIs, SortedAdd
<1>4. Sorted(s4, S4, 1, 20)
  <2>1. Adds(s3, S3, "mcast_subscriber", s4, S4)
    BY DEF Adds
  <2> HIDE DEF s3, S3, s4, S4
  <2> QED BY <1>3, <2>1, RankIs, SortedAdd
<1>5. S4 = Resource
  BY DEF Resource, Always, DriverSet, OneOf
<1>6. s4 = Teardown
  BY DEF Teardown, Driver, Memory
<1> QED BY <1>4, <1>5, <1>6

(* All that init gets is released by shutdown, except the leftover.        *)
LEMMA PlanGets ==
    ASSUME user_managed_flag \in BOOLEAN
    PROVE  /\ Len(Plan) \in Nat \ {0}
           /\ \A i \in 1 .. Len(Plan) : Got(Plan[i]) \subseteq Resource \cup Leftover
<1> DEFINE All == Resource \cup ({"posted"} \X QP)
           m == IF user_managed_flag THEN << >> ELSE Memory
           s1 == One("pd") \o One("recv_cc") \o One("send_cqs") \o Each("send_cq") \o
                 One("recv_cqs") \o Each("recv_cq") \o One("qps") \o Each("qp")
           s2 == s1 \o m
           s3 == s2 \o One("send_mr") \o One("recv_mr") \o Each("posted") \o
                 One("ibv_flows") \o One("flow_dst_ips")
<1>1. /\ \A n \in Always : One(n) \in Seq(All)
      /\ \A n \in PerQP \cup {"posted"} : Each(n) \in Seq(All)
  <2>1. \A n \in Always : <<n, 0>> \in All
    BY DEF Resource
  <2>2. \A n \in PerQP \cup {"posted"}, q \in QP : <<n, q>> \in All
    BY DEF Resource
  <2> HIDE DEF All
  <2>3. ASSUME NEW n \in Always PROVE One(n) \in Seq(All)
    BY <2>1 DEF One
  <2>4. ASSUME NEW n \in PerQP \cup {"posted"} PROVE Each(n) \in Seq(All)
    <3>1. \A i \in 1 .. nqp : i - 1 \in QP
      BY DEF QP
    <3>2. \A i \in 1 .. nqp : <<n, i - 1>> \in All
      BY <2>2, <3>1
    <3> QED BY <3>2 DEF Each
  <2> QED BY <2>3, <2>4
<1>2. m \in Seq(All)
  <2>1. CASE user_managed_flag
    BY <2>1
  <2>2. CASE ~user_managed_flag
    <3>1. Memory \in Seq(Buffers \X {0})
      BY MemorySorted DEF Sorted, Spans
    <3>2. Buffers \X {0} \subseteq All
      BY <2>2 DEF Resource
    <3> HIDE DEF All
    <3> QED BY <2>2, <3>1, <3>2
  <2> QED BY <2>1, <2>2
<1>3. s1 \in Seq(All)
  <2> HIDE DEF All
  <2> QED BY <1>1 DEF Always, PerQP
<1>4. s2 \in Seq(All)
  <2> HIDE DEF All, s1, m
  <2> QED BY <1>2, <1>3
<1>5. s3 \in Seq(All)
  <2> HIDE DEF All, s2
  <2> QED BY <1>1, <1>4 DEF Always, PerQP
<1>6. Plan = s3 \o One("mcast_subscriber")
  BY DEF Plan, Memory
<1>7. /\ Plan \in Seq(All) /\ Len(Plan) = Len(s3) + 1
  <2> HIDE DEF All, s3
  <2>1. One("mcast_subscriber") \in Seq(All) /\ Len(One("mcast_subscriber")) = 1
    BY <1>1 DEF Always, One
  <2>2. s3 \o One("mcast_subscriber") \in Seq(All)
    BY <1>5, <2>1
  <2>3. Len(s3 \o One("mcast_subscriber")) = Len(s3) + 1
    <3>1. \A x, y \in Seq(All) : Len(x \o y) = Len(x) + Len(y)
      OBVIOUS
    <3> QED BY <1>5, <2>1, <3>1
  <2> QED BY <1>6, <2>2, <2>3
<1>8. Len(Plan) \in Nat \ {0}
  <2> HIDE DEF All, s3
  <2> QED BY <1>5, <1>7
<1>9. ASSUME NEW r \in All PROVE Got(r) \subseteq Resource \cup Leftover
  <2>1. CASE r[1] \in Mapped
    <3>1. r \in Resource /\ ~user_managed_flag
      BY <2>1 DEF Resource, Mapped, Always, PerQP
    <3>2. \A i \in QP : i = 0 \/ i \in QP \ {0}
      OBVIOUS
    <3>3. <<r[1], 0>> \in Resource
      BY <2>1, <3>1 DEF Resource, Buffers
    <3> QED BY <2>1, <3>2, <3>3 DEF Got, Leftover, Mapped
  <2>2. CASE r[1] \notin Mapped
    BY <2>2 DEF Got
  <2> QED BY <2>1, <2>2
<1>10. \A i \in 1 .. Len(Plan) : Plan[i] \in All
  <2> HIDE DEF All, s3
  <2> QED BY <1>7
<1> QED BY <1>8, <1>9, <1>10

LEMMA ResourceFacts ==
    /\ \A r \in Resource : r = <<r[1], r[2]>> /\ r[1] \in Always \cup Buffers \cup PerQP
    /\ \A r \in Resource : r \notin Leftover
    /\ \A r, x \in Resource : r[1] = x[1] /\ r[1] \notin PerQP => r = x
    /\ <<"ctx", 0>> \in Resource
<1>1. \A r \in Resource : \/ r[1] \in Always \cup Buffers /\ r[2] = 0 /\ r = <<r[1], 0>>
                          \/ r[1] \in PerQP /\ r = <<r[1], r[2]>>
  BY DEF Resource
<1>2. \A r \in Leftover : r[1] \in Mapped /\ r[2] # 0
  BY DEF Leftover
<1>3. <<"ctx", 0>> \in Resource
  BY DEF Resource, Always
<1> QED BY <1>1, <1>2, <1>3 DEF PerQP, Mapped

(* Everything is released before what it needs.                            *)
LEMMA NeedsRank ==
    ASSUME NEW u \in Resource, NEW r \in Resource, r[1] \in Needs(u[1])
    PROVE  Rank(u[1]) < Rank(r[1])
BY ResourceFacts, RankIs DEF Needs, Always, Buffers, Mapped, PerQP

LEMMA FromFacts ==
    ASSUME user_managed_flag \in BOOLEAN
    PROVE  /\ Len(Teardown) \in Nat \ {0}
           /\ From(1) = Resource /\ From(Len(Teardown) + 1) = {}
           /\ \A n \in 1 .. Len(Teardown) :
                 /\ From(n) \subseteq Resource /\ Teardown[n] \in Resource
                 /\ From(n) \subseteq From(n + 1) \cup {Teardown[n]}
                 /\ \A u \in From(n) : Teardown[n][1] \notin Needs(u[1])
<1>1. /\ Teardown \in Seq(Resource) /\ Len(Teardown) \in Nat
      /\ \A r \in Resource : \E i \in 1 .. Len(Teardown) : Teardown[i] = r
      /\ \A i, j \in 1 .. Len(Teardown) : i <= j => Rank(Teardown[i][1]) <= Rank(Teardown[j][1])
  <2>1. Sorted(Teardown, Resource, 1, 20)
    BY TeardownSorted
  <2>2. Teardown \in Seq(Resource)
    BY <2>1 DEF Sorted, Spans
  <2>3. Len(Teardown) \in Nat
    BY <2>2
  <2> QED BY <2>1, <2>2, <2>3 DEF Sorted, Spans
<1>2. \A i \in 1 .. Len(Teardown) : Teardown[i] \in Resource
  BY <1>1
<1> DEFINE l == Len(Teardown)
<1> HIDE DEF l
<1>3. l \in Nat \ {0}
  BY <1>1, ResourceFacts DEF l
<1>4. \A n : From(n) = {Teardown[j] : j \in n .. l}
  BY DEF From, l
<1>5. \A i \in 1 .. l : Teardown[i] \in Resource
  BY <1>2 DEF l
<1>6. From(1) = Resource
  BY <1>1, <1>4, <1>5 DEF l
<1>7. From(l + 1) = {}
  BY <1>3, <1>4
<1>8. ASSUME NEW n \in 1 .. l
      PROVE  /\ From(n) \subseteq Resource /\ Teardown[n] \in Resource
             /\ From(n) \subseteq From(n + 1) \cup {Teardown[n]}
             /\ \A u \in From(n) : Teardown[n][1] \notin Needs(u[1])
  <2>1. \A j \in n .. l : j \in 1 .. l /\ n <= j /\ (j = n \/ j \in n + 1 .. l)
    BY <1>3
  <2>2. From(n) \subseteq Resource /\ From(n) \subseteq From(n + 1) \cup {Teardown[n]}
    BY <1>4, <1>5, <2>1
  <2>3. ASSUME NEW u \in From(n) PROVE Teardown[n][1] \notin Needs(u[1])
    <3>1. PICK j \in n .. l : u = Teardown[j]
      BY <1>4
    <3>2. Rank(Teardown[n][1]) <= Rank(u[1])
      BY <1>1, <2>1, <3>1 DEF l
    <3>3. u \in Resource /\ Teardown[n] \in Resource
      BY <1>5, <2>1, <3>1
    <3>4. Rank(Teardown[n][1]) \in Nat /\ Rank(u[1]) \in Nat
      BY SortedParts
    <3> QED BY <3>2, <3>3, <3>4, NeedsRank
  <2> QED BY <1>5, <2>2, <2>3
<1> QED BY <1>3, <1>6, <1>7, <1>8 DEF l

(* The orders do not change with the state, only with the user.            *)
LEMMA SameOrders ==
    ASSUME UNCHANGED user_managed_flag
    PROVE  /\ Plan' = Plan /\ Teardown' = Teardown /\ Resource' = Resource
           /\ \A n : From(n)' = From(n)
<1>1. Teardown' = Teardown
  BY DEF Teardown
<1> QED BY <1>1 DEF Plan, Resource, From

-----------------------------------------------------------------------------
(* The steps of init and shutdown                                          *)

LEMMA InitContextRight == Init => ContextRight
<1> SUFFICES ASSUME Init PROVE ContextRight
  OBVIOUS
<1>1. 0 \in Nat /\ 0 \in 0 .. MaxInit /\ 0 \in 0 .. MaxFail
  OBVIOUS
<1>2. TypeOKContext
  BY <1>1 DEF Init, InitContext, TypeOKContext
<1> QED BY <1>2 DEF Init, InitContext, ContextRight, StepRight, PointsRight, ExistsRight, ReleasedRight

(* Without a mishap nothing that is released is still used.                *)
LEMMA NoUsers ==
    ASSUME ContextRight, pc = "teardown", ~spoiled
    PROVE  Users(Teardown[step]) = {}
<1>1. step \in 1 .. Len(Teardown) /\ user_managed_flag \in BOOLEAN
  BY DEF ContextRight, StepRight, TypeOKContext
<1>2. exists \subseteq From(step) \cup Leftover
  BY DEF ContextRight, ExistsRight, ToRelease, RulesLeft
<1>3. \A u \in From(step) : Teardown[step][1] \notin Needs(u[1])
  BY <1>1, FromFacts
<1>4. \A u \in Leftover : Needs(u[1]) = {}
  BY DEF Leftover, Mapped, Needs
<1> QED BY <1>2, <1>3, <1>4 DEF Users


LEMMA RemainderNext ==
    ASSUME pc' = "teardown", step' = step + 1, UNCHANGED user_managed_flag
    PROVE  ToRelease' = From(step + 1)
<1>1. Teardown' = Teardown
  BY SameOrders
<1>2. From(step)' = From(step + 1)
  BY <1>1 DEF From
<1> QED BY <1>2 DEF ToRelease

LEMMA ReleaseRight == ASSUME ContextRight, ReleaseNext PROVE ContextRight'
<1> DEFINE r == Teardown[step]
           l == Len(Teardown)
<1>1. /\ pc = "teardown" /\ step \in 1 .. l /\ user_managed_flag \in BOOLEAN
      /\ r \in field /\ exists' = exists \ {r} /\ field' = field \ Forgotten(r)
      /\ UNCHANGED <<user_managed_flag, calls, failures, spoiled>>
      /\ IF step < l THEN pc' = "teardown" /\ step' = step + 1 ELSE pc' = "down" /\ step' = 0
  BY DEF ContextRight, StepRight, TypeOKContext, ReleaseNext, Returned, Continue, At
<1>2. /\ l \in Nat \ {0} /\ r \in Resource /\ From(step) \subseteq Resource
      /\ From(step) \subseteq From(step + 1) \cup {r} /\ From(l + 1) = {}
  BY <1>1, FromFacts
<1>3. TypeOKContext' /\ StepRight'
  <2>1. Len(Teardown)' = l
    BY <1>1, SameOrders
  <2> HIDE DEF l
  <2>2. step + 1 \in Nat /\ (step < l => step + 1 \in 1 .. l)
    BY <1>1, <1>2
  <2> QED BY <1>1, <2>1, <2>2 DEF ContextRight, TypeOKContext, StepRight, l
<1>4. r \in Forgotten(r) \/ r \in Closed
  <2>1. r[1] = "mcast_subscriber" => r = <<"mcast_subscriber", 0>>
    BY <1>2 DEF Resource, PerQP
  <2> QED BY <1>1, <2>1 DEF Forgotten, Closed
<1>5. PointsRight'
  BY <1>1, <1>4 DEF ContextRight, PointsRight, Closed
<1>6. ReleasedRight'
  <2>1. r \in exists \/ r \in Closed
    BY <1>1 DEF ContextRight, PointsRight
  <2>2. spoiled \/ Users(r) = {}
    BY <1>1, NoUsers
  <2>3. wrong' \subseteq wrong \cup Closed
    BY <2>1, <2>2 DEF ReleaseNext
  <2> QED BY <2>3 DEF ContextRight, ReleasedRight, Closed
<1>7. ExistsRight'
  <2> SUFFICES ASSUME ~spoiled, NEW x \in exists', x \notin Leftover
               PROVE  x \in field' /\ x \in ToRelease'
    BY <1>1 DEF ExistsRight, Leftover
  <2>1. x \in field /\ x \in From(step) /\ x # r /\ x \in Resource
    BY <1>1, <1>2 DEF ContextRight, ExistsRight, ToRelease, RulesLeft
  <2>2. x \in From(step + 1)
    BY <1>2, <2>1
  <2>3. step < l
    BY <1>1, <1>2, <2>2
  <2>4. ToRelease' = From(step + 1)
    <3>1. pc' = "teardown" /\ step' = step + 1
      BY <1>1, <2>3
    <3> QED BY <1>1, <3>1, RemainderNext
  <2>5. x \notin Forgotten(r)
    <3>1. x[1] # "rule"
      BY <2>1, ResourceFacts DEF Always, Buffers, Mapped, PerQP
    <3>2. x[1] = r[1] /\ r[1] \in Mapped \cup {"ibv_flows"} => x = r
      BY <1>2, <2>1, ResourceFacts DEF Mapped, PerQP
    <3> QED BY <2>1, <3>1, <3>2 DEF Forgotten
  <2> QED BY <1>1, <2>1, <2>2, <2>4, <2>5
<1> QED BY <1>3, <1>5, <1>6, <1>7 DEF ContextRight

LEMMA ReleaseFailsRight == ASSUME ContextRight, ReleaseFails PROVE ContextRight'
<1> DEFINE r == Teardown[step]
           l == Len(Teardown)
<1>1. /\ pc = "teardown" /\ step \in 1 .. l /\ user_managed_flag \in BOOLEAN
      /\ r \in field /\ exists' = exists /\ field' = field \ Forgotten(r)
      /\ UNCHANGED <<user_managed_flag, calls>> /\ spoiled' = TRUE
      /\ IF step < l THEN pc' = "teardown" /\ step' = step + 1 ELSE pc' = "down" /\ step' = 0
  BY DEF ContextRight, StepRight, TypeOKContext, ReleaseFails, Continue, At
<1>2. l \in Nat \ {0}
  BY <1>1, FromFacts
<1>3. failures' \in 0 .. MaxFail
  BY DEF ContextRight, TypeOKContext, ReleaseFails, Fail
<1>4. TypeOKContext' /\ StepRight'
  <2>1. Len(Teardown)' = l
    BY <1>1, SameOrders
  <2> HIDE DEF l
  <2>2. step + 1 \in Nat /\ (step < l => step + 1 \in 1 .. l)
    BY <1>1, <1>2
  <2> QED BY <1>1, <1>3, <2>1, <2>2 DEF ContextRight, TypeOKContext, StepRight, l
<1>5. PointsRight' /\ ExistsRight'
  BY <1>1 DEF ContextRight, PointsRight, ExistsRight, Closed
<1>6. ReleasedRight'
  <2>1. spoiled \/ Users(r) = {}
    BY <1>1, NoUsers
  <2> QED BY <2>1 DEF ContextRight, ReleasedRight, ReleaseFails
<1> QED BY <1>4, <1>5, <1>6 DEF ContextRight

LEMMA NothingRight == ASSUME ContextRight, NothingToRelease PROVE ContextRight'
<1> DEFINE r == Teardown[step]
           l == Len(Teardown)
<1>1. /\ pc = "teardown" /\ step \in 1 .. l /\ user_managed_flag \in BOOLEAN
      /\ r \notin field /\ exists' = exists /\ field' = field
      /\ UNCHANGED <<user_managed_flag, calls, failures, spoiled, wrong>>
      /\ IF step < l THEN pc' = "teardown" /\ step' = step + 1 ELSE pc' = "down" /\ step' = 0
  BY DEF ContextRight, StepRight, TypeOKContext, NothingToRelease, Continue, At, history
<1>2. l \in Nat \ {0} /\ From(step) \subseteq From(step + 1) \cup {r} /\ From(l + 1) = {}
  BY <1>1, FromFacts
<1>3. TypeOKContext' /\ StepRight'
  <2>1. Len(Teardown)' = l
    BY <1>1, SameOrders
  <2> HIDE DEF l
  <2>2. step + 1 \in Nat /\ (step < l => step + 1 \in 1 .. l)
    BY <1>1, <1>2
  <2> QED BY <1>1, <2>1, <2>2 DEF ContextRight, TypeOKContext, StepRight, l
<1>4. PointsRight' /\ ReleasedRight'
  BY <1>1 DEF ContextRight, PointsRight, ReleasedRight, Closed
<1>5. ExistsRight'
  <2> SUFFICES ASSUME ~spoiled, NEW x \in exists', x \notin Leftover
               PROVE  x \in field' /\ x \in ToRelease'
    BY <1>1 DEF ExistsRight, Leftover
  <2>1. x \in field /\ x \in From(step + 1)
    BY <1>1, <1>2 DEF ContextRight, ExistsRight, ToRelease, RulesLeft
  <2>2. step < l
    BY <1>1, <1>2, <2>1
  <2>3. pc' = "teardown" /\ step' = step + 1
    BY <1>1, <2>2
  <2>4. ToRelease' = From(step + 1)
    BY <1>1, <2>3, RemainderNext
  <2> QED BY <1>1, <2>1, <2>4
<1> QED BY <1>3, <1>4, <1>5 DEF ContextRight


LEMMA OpenRight ==
    ASSUME ContextRight, Start \/ PassDevice \/ OtherDevice \/ FoundDevice \/ NoDevice
    PROVE  ContextRight'
<1>1. /\ pc \in {"down", "open"} /\ step \in Nat /\ user_managed_flag \in BOOLEAN
      /\ spoiled \in BOOLEAN /\ calls \in 0 .. MaxInit /\ failures \in 0 .. MaxFail
  BY DEF ContextRight, TypeOKContext, Start, PassDevice, OtherDevice, FoundDevice, NoDevice
<1>2. /\ UNCHANGED <<user_managed_flag, wrong>> /\ spoiled' \in BOOLEAN
      /\ calls' \in 0 .. MaxInit /\ failures' \in 0 .. MaxFail
  <2>1. Start => calls' \in 0 .. MaxInit
    BY <1>1 DEF Start
  <2>2. Fail => failures' \in 0 .. MaxFail
    BY <1>1 DEF Fail
  <2> QED BY <1>1, <2>1, <2>2 DEF Start, PassDevice, OtherDevice, FoundDevice, NoDevice, At, history
<1>3. ~spoiled => exists \subseteq Leftover
  BY <1>1 DEF ContextRight, ExistsRight, ToRelease, RulesLeft
<1>4. CASE FoundDevice
  <2>1. /\ pc' = "init" /\ step' = 1 /\ spoiled' = spoiled
        /\ exists' = exists \cup {<<"ctx", 0>>} /\ field' = field \cup {<<"ctx", 0>>}
    BY <1>4 DEF FoundDevice, At, history
  <2>2. Len(Plan)' = Len(Plan) /\ 1 \in 1 .. Len(Plan)
    BY <1>1, <1>2, SameOrders, PlanGets
  <2>3. From(1)' = Resource /\ <<"ctx", 0>> \in Resource
    BY <1>1, <1>2, SameOrders, FromFacts, ResourceFacts
  <2>4. TypeOKContext' /\ StepRight'
    BY <1>1, <1>2, <2>1, <2>2 DEF TypeOKContext, StepRight
  <2>5. PointsRight' /\ ReleasedRight'
    BY <1>2, <2>1 DEF ContextRight, PointsRight, ReleasedRight, Closed
  <2>6. ToRelease' = From(1)'
    BY <2>1 DEF ToRelease
  <2>7. ExistsRight'
    BY <1>3, <2>1, <2>3, <2>6 DEF ExistsRight, Leftover
  <2> QED BY <2>4, <2>5, <2>7 DEF ContextRight
<1>5. CASE ~FoundDevice
  <2>1. /\ pc' \in {"down", "open"} /\ step' \in Nat /\ field' \subseteq field
        /\ exists \subseteq exists' /\ (~spoiled' => ~spoiled /\ exists' = exists)
    BY <1>1, <1>5 DEF Start, PassDevice, OtherDevice, NoDevice, At, history
  <2>2. TypeOKContext' /\ StepRight'
    BY <1>1, <1>2, <2>1 DEF TypeOKContext, StepRight
  <2>3. PointsRight' /\ ReleasedRight'
    BY <1>2, <2>1 DEF ContextRight, PointsRight, ReleasedRight, Closed
  <2>4. ExistsRight'
    BY <1>3, <2>1 DEF ExistsRight, Leftover
  <2> QED BY <2>2, <2>3, <2>4 DEF ContextRight
<1> QED BY <1>4, <1>5

LEMMA GetRight == ASSUME ContextRight, GetNext \/ GetNextFails PROVE ContextRight'
<1> DEFINE got == Got(Plan[step])
<1>1. /\ pc = "init" /\ step \in 1 .. Len(Plan) /\ user_managed_flag \in BOOLEAN
      /\ spoiled \in BOOLEAN /\ calls \in 0 .. MaxInit /\ failures \in 0 .. MaxFail
  BY DEF ContextRight, StepRight, TypeOKContext, GetNext, GetNextFails
<1>2. /\ Len(Plan) \in Nat \ {0} /\ got \subseteq Resource \cup Leftover
  BY <1>1, PlanGets
<1>3. /\ UNCHANGED <<user_managed_flag, wrong, spoiled, calls>>
      /\ failures' \in 0 .. MaxFail
      /\ \/ pc' = "init" /\ step' = step + 1 /\ step < Len(Plan)
         \/ pc' = "up" /\ step' = 0
         \/ pc' = "rules" /\ step' = 0
      /\ \/ exists' = exists /\ field' = field
         \/ exists' = exists \cup got /\ field' = field \cup got
  <2>1. Fail => failures' \in 0 .. MaxFail
    BY <1>1 DEF Fail
  <2> HIDE DEF got
  <2>2. CASE GetNext
    BY <1>1, <2>2 DEF GetNext, At, history, got
  <2>3. CASE GetNextFails
    BY <1>1, <2>1, <2>3 DEF GetNextFails, At, history, got
  <2> QED BY <2>2, <2>3
<1> HIDE DEF got
<1>4. TypeOKContext' /\ StepRight'
  <2>1. Len(Plan)' = Len(Plan)
    BY <1>3, SameOrders
  <2>2. step' \in Nat /\ (pc' = "init" => step' \in 1 .. Len(Plan))
    BY <1>1, <1>2, <1>3
  <2> QED BY <1>1, <1>3, <2>1, <2>2 DEF TypeOKContext, StepRight
<1>5. PointsRight' /\ ReleasedRight'
  BY <1>3 DEF ContextRight, PointsRight, ReleasedRight, Closed
<1>6. From(1) = Resource /\ From(1)' = Resource
  BY <1>1, <1>3, FromFacts, SameOrders
<1>7. ToRelease' = Resource
  BY <1>3, <1>6 DEF ToRelease
<1>8. ExistsRight'
  <2>1. ~spoiled => exists \subseteq (field \cap Resource) \cup Leftover
    BY <1>1, <1>6 DEF ContextRight, ExistsRight, ToRelease, RulesLeft
  <2> QED BY <1>2, <1>3, <1>7, <2>1 DEF ExistsRight, Leftover
<1> QED BY <1>4, <1>5, <1>8 DEF ContextRight

LEMMA ShutdownRight == ASSUME ContextRight, Shutdown PROVE ContextRight'
<1>1. /\ pc \in {"up", "down"} /\ user_managed_flag \in BOOLEAN /\ pc' = "rules" /\ step' = 0
      /\ UNCHANGED <<user_managed_flag, exists, field, failures, spoiled, wrong>>
  BY DEF ContextRight, TypeOKContext, Shutdown, history
<1>2. calls' \in 0 .. MaxInit
  BY DEF ContextRight, TypeOKContext, Shutdown
<1>3. TypeOKContext' /\ StepRight'
  BY <1>1, <1>2 DEF ContextRight, TypeOKContext, StepRight
<1>4. PointsRight' /\ ReleasedRight'
  BY <1>1 DEF ContextRight, PointsRight, ReleasedRight, Closed
<1>5. From(1)' = From(1)
  BY <1>1, SameOrders
<1>6. ToRelease \subseteq ToRelease' /\ RulesLeft \subseteq RulesLeft'
  <2>1. pc = "up" => step = 0
    BY DEF ContextRight, StepRight
  <2> QED BY <1>1, <1>5, <2>1 DEF ToRelease, RulesLeft
<1>7. ExistsRight'
  BY <1>1, <1>6 DEF ContextRight, ExistsRight, Leftover
<1> QED BY <1>3, <1>4, <1>7 DEF ContextRight

LEMMA NextContextRight == ASSUME ContextRight, NextContext PROVE ContextRight'
BY ReleaseRight, ReleaseFailsRight, NothingRight, OpenRight, GetRight, ShutdownRight DEF NextContext


-----------------------------------------------------------------------------
(* What flow rules and packets do to the context                           *)

(* Each rule of each queue pair has a place of its own in ibv_flows.       *)
LEMMA RulePlaces ==
    /\ \A q \in QP, i \in Idx : q * MaxFlows + i \in 0 .. nqp * MaxFlows - 1
    /\ \A q, p \in QP : \A i, j \in Idx : Rule(q, i) = Rule(p, j) => q = p /\ i = j
<1>1. \A a, b, m \in Nat : a < b => a * m + m <= b * m /\ a * m \in Nat /\ b * m \in Nat
  OBVIOUS
<1>2. ASSUME NEW q \in QP, NEW i \in Idx PROVE q * MaxFlows + i \in 0 .. nqp * MaxFlows - 1
  <2>1. q \in Nat /\ q < nqp /\ i \in Nat /\ i < MaxFlows /\ nqp \in Nat /\ MaxFlows \in Nat
    BY DEF QP, Idx
  <2>2. q * MaxFlows + MaxFlows <= nqp * MaxFlows /\ q * MaxFlows \in Nat /\ nqp * MaxFlows \in Nat
    BY <1>1, <2>1
  <2>3. \A x, y \in Nat : x + MaxFlows <= y => x + i \in 0 .. y - 1
    BY <2>1
  <2> QED BY <2>2, <2>3
<1>3. ASSUME NEW q \in QP, NEW p \in QP, NEW i \in Idx, NEW j \in Idx,
             q * MaxFlows + i = p * MaxFlows + j
      PROVE  q = p /\ i = j
  <2>1. /\ q \in Nat /\ p \in Nat /\ i \in Nat /\ i < MaxFlows /\ j \in Nat /\ j < MaxFlows
        /\ MaxFlows \in Nat
    BY DEF QP, Idx
  <2>2. /\ q < p => q * MaxFlows + MaxFlows <= p * MaxFlows
        /\ p < q => p * MaxFlows + MaxFlows <= q * MaxFlows
        /\ q * MaxFlows \in Nat /\ p * MaxFlows \in Nat
    <3>1. q < p \/ p < q \/ p = q
      BY <2>1
    <3>2. \A a, m \in Nat : a * m \in Nat
      OBVIOUS
    <3> QED BY <1>1, <2>1, <3>1, <3>2
  <2>3. \A x, y \in Nat : x + i = y + j => ~(x + MaxFlows <= y) /\ ~(y + MaxFlows <= x)
    BY <2>1
  <2>4. q = p
    BY <1>3, <2>1, <2>2, <2>3
  <2>5. \A x \in Nat : x + i = x + j => i = j
    BY <2>1
  <2> QED BY <1>3, <2>2, <2>4, <2>5
<1> QED BY <1>2, <1>3 DEF Rule

(* ... and each place a rule.                                              *)
LEMMA RuleOf ==
    ASSUME NEW k \in 0 .. nqp * MaxFlows - 1
    PROVE  \E q \in QP, i \in Idx : <<"rule", k>> = Rule(q, i)
<1> DEFINE q == k \div MaxFlows
           i == k % MaxFlows
<1>1. k \in Nat /\ MaxFlows \in Nat \ {0} /\ nqp \in Nat /\ nqp * MaxFlows \in Nat /\ k < nqp * MaxFlows
  <2>1. \A a, b \in Nat : a * b \in Nat
    OBVIOUS
  <2> QED BY <2>1
<1>2. q \in Nat /\ i \in 0 .. MaxFlows - 1 /\ k = MaxFlows * q + i
  BY <1>1
<1>3. MaxFlows * q = q * MaxFlows
  BY <1>1, <1>2
<1>4. q < nqp
  <2>1. \A a, b, m \in Nat : a <= b => a * m <= b * m /\ a * m \in Nat /\ b * m \in Nat
    OBVIOUS
  <2>2. nqp <= q => nqp * MaxFlows <= q * MaxFlows
    BY <1>1, <1>2, <2>1
  <2> HIDE DEF q, i
  <2>3. q * MaxFlows \in Nat /\ q * MaxFlows <= k
    BY <1>1, <1>2, <1>3
  <2> QED BY <1>1, <1>2, <2>2, <2>3
<1>5. q \in QP /\ i \in Idx
  BY <1>1, <1>2, <1>4 DEF QP, Idx
<1> HIDE DEF q, i
<1> QED BY <1>2, <1>3, <1>5 DEF Rule

(* A step that only changes a rule, while the context is up.               *)
IsRule(r) == \E q \in QP, i \in Idx : r = Rule(q, i)
Changes(r) ==
    \/ exists' = exists /\ field' = field
    \/ spoiled' = FALSE /\ exists' = exists \ {r} /\ field' = field \ {r}
    \/ spoiled' = FALSE /\ exists' = exists \cup {r} /\ field' = field \cup {r}
    \/ spoiled' = TRUE /\ field' \subseteq field \cup {r} /\ exists \subseteq exists' \cup {r}
       /\ (r \in field' => r \in exists')

LEMMA RulesChange ==
    ASSUME ContextRight, pc = "up", UNCHANGED <<work, wrong>>,
           failures' \in 0 .. MaxFail, spoiled' \in BOOLEAN, spoiled => spoiled',
           NEW r, IsRule(r), Changes(r)
    PROVE  ContextRight'
<1>1. TypeOKContext' /\ StepRight'
  BY DEF ContextRight, TypeOKContext, StepRight, work
<1>2. PointsRight' /\ ReleasedRight'
  BY DEF ContextRight, PointsRight, ReleasedRight, Closed, Changes
<1>3. r \in RulesLeft
  <2>1. PICK q \in QP, i \in Idx : r = Rule(q, i)
    BY DEF IsRule
  <2>2. step = 0
    BY DEF ContextRight, StepRight
  <2> QED BY <2>1, <2>2, RulePlaces DEF RulesLeft, Rule
<1>4. ToRelease' = ToRelease /\ RulesLeft' = RulesLeft /\ Leftover' = Leftover
  BY SameOrders DEF work, ToRelease, RulesLeft, Leftover
<1>5. r \notin Leftover
  BY DEF IsRule, Rule, Leftover, Mapped
<1>6. ExistsRight'
  BY <1>3, <1>4, <1>5 DEF ContextRight, TypeOKContext, ExistsRight, Changes
<1> QED BY <1>1, <1>2, <1>6 DEF ContextRight

LEMMA UntouchedContext ==
    ASSUME ContextRight, UNCHANGED <<work, exists, field, history>>, failures' \in 0 .. MaxFail
    PROVE  ContextRight'
<1>1. TypeOKContext' /\ StepRight'
  BY SameOrders DEF ContextRight, TypeOKContext, StepRight, work, history
<1>2. PointsRight' /\ ReleasedRight'
  BY DEF ContextRight, PointsRight, ReleasedRight, Closed, history
<1>3. ToRelease' = ToRelease /\ RulesLeft' = RulesLeft /\ Leftover' = Leftover
  BY SameOrders DEF work, ToRelease, RulesLeft, Leftover
<1>4. ExistsRight'
  BY <1>3 DEF ContextRight, ExistsRight, history
<1> QED BY <1>1, <1>2, <1>4 DEF ContextRight

LEMMA ShutdownRulesRight ==
    ASSUME ContextRight, ShutdownRule \/ ShutdownRuleFails \/ ShutdownNoRule
    PROVE  ContextRight'
<1> DEFINE r == <<"rule", step>>
<1>1. /\ pc = "rules" /\ step \in Nat /\ user_managed_flag \in BOOLEAN
      /\ UNCHANGED <<user_managed_flag, calls, wrong>>
  BY DEF ContextRight, TypeOKContext, ShutdownRule, ShutdownRuleFails, ShutdownNoRule, At, history
<1>2. failures' \in 0 .. MaxFail
  BY DEF ContextRight, TypeOKContext, ShutdownRule, ShutdownRuleFails, ShutdownNoRule, ShutdownLeaves, Fail
<1>3. nqp * MaxFlows \in Nat
  OBVIOUS
<1>4. \/ /\ pc' = "rules" /\ step' = step + 1 /\ UNCHANGED spoiled
         /\ exists' = exists \ {r} /\ field' = field \ {r}
      \/ /\ pc' = "rules" /\ step' = step + 1 /\ spoiled' = TRUE
         /\ exists' = exists /\ field' = field
      \/ /\ pc' = "rules" /\ step' = step + 1 /\ UNCHANGED spoiled /\ r \notin field
         /\ exists' = exists /\ field' = field
      \/ /\ pc' = "teardown" /\ step' = 1 /\ UNCHANGED spoiled /\ r \notin field
         /\ exists' = exists /\ field' = field /\ ~(step < nqp * MaxFlows)
  BY DEF ShutdownRule, ShutdownRuleFails, ShutdownNoRule, At, history, resources
<1>5. TypeOKContext' /\ StepRight'
  <2>1. Len(Teardown)' = Len(Teardown) /\ 1 \in 1 .. Len(Teardown)
    BY <1>1, SameOrders, FromFacts
  <2>2. step + 1 \in Nat
    BY <1>1
  <2>3. spoiled' \in BOOLEAN /\ calls' \in 0 .. MaxInit
    BY <1>1, <1>4 DEF ContextRight, TypeOKContext
  <2>4. pc' \in {"rules", "teardown"} /\ step' \in Nat /\ (pc' = "teardown" => step' = 1)
    BY <1>4, <2>2
  <2>5. TypeOKContext'
    BY <1>1, <1>2, <2>3, <2>4 DEF TypeOKContext
  <2>6. StepRight'
    BY <2>1, <2>4 DEF StepRight
  <2> QED BY <2>5, <2>6
<1>6. PointsRight' /\ ReleasedRight'
  BY <1>1, <1>4 DEF ContextRight, PointsRight, ReleasedRight, Closed
<1>7. ToRelease = From(1) /\ ToRelease' = From(1)
  <2>1. From(1)' = From(1)
    BY <1>1, SameOrders
  <2>2. pc' = "teardown" => ToRelease' = From(step)' /\ step' = 1
    BY <1>4 DEF ToRelease
  <2>3. pc' = "rules" => ToRelease' = From(1)'
    BY DEF ToRelease
  <2>4. pc' = "teardown" => From(step)' = From(1)'
    BY <2>2 DEF From
  <2> QED BY <1>1, <1>4, <2>1, <2>2, <2>3, <2>4 DEF ToRelease
<1>8. \A k \in step .. nqp * MaxFlows - 1 : k = step \/ k \in step + 1 .. nqp * MaxFlows - 1
  BY <1>1, <1>3
<1>9. RulesLeft \subseteq RulesLeft' \cup {r}
  <2>1. CASE pc' = "rules"
    BY <1>1, <1>4, <1>8, <2>1 DEF RulesLeft
  <2>2. CASE pc' = "teardown"
    <3>1. \A n \in Nat : ~(step < n) => step .. n - 1 = {}
      BY <1>1
    <3>2. step .. nqp * MaxFlows - 1 = {}
      BY <1>3, <1>4, <2>2, <3>1
    <3> QED BY <1>1, <3>2 DEF RulesLeft
  <2> QED BY <1>4, <2>1, <2>2
<1>10. ExistsRight'
  BY <1>4, <1>7, <1>9 DEF ContextRight, ExistsRight, Leftover
<1> QED BY <1>5, <1>6, <1>10 DEF ContextRight


-----------------------------------------------------------------------------
(* The rules and groups                                                    *)

LEMMA InitFlowRight == Init => FlowRight
<1> SUFFICES ASSUME Init PROVE FlowRight
  OBVIOUS
<1>1. 0 \in QP /\ 0 \in Idx
  BY DEF QP, Idx
<1>2. TypeOKFlow
  BY <1>1 DEF Init, InitFlow, TypeOKFlow, Dst
<1>3. NoRules
  BY DEF Init, InitFlow, NoRules
<1> QED BY <1>2, <1>3 DEF Init, InitFlow, InitContext, FlowRight

LEMMA SpoiledStays == NextContext => (spoiled => spoiled')
BY DEF NextContext, Start, PassDevice, OtherDevice, FoundDevice, NoDevice, GetNext, GetNextFails,
       Shutdown, ReleaseNext, ReleaseFails, NothingToRelease, history

(* Init and shutdown: an up context starts without rules.                  *)
LEMMA NextContextFlow ==
    ASSUME ContextRight, ContextRight', FlowRight, NextContext, ContextStepForFlow
    PROVE  FlowRight'
<1>1. fpc = "idle" /\ fpc' = "idle" /\ UNCHANGED <<fidx, fdst, fqp>>
  BY DEF ContextStepForFlow, flowCall
<1>2. TypeOKFlow'
  BY <1>1 DEF ContextStepForFlow, FlowRight, TypeOKFlow, Dst
<1>3. ASSUME pc' = "down", ~spoiled' PROVE NoRules'
  <2>1. exists' \subseteq Leftover
    BY <1>3 DEF ContextRight, ExistsRight, ToRelease, RulesLeft, Leftover
  <2>2. <<"mcast_subscriber", 0>> \notin exists' /\ <<"flow_dst_ips", 0>> \notin exists'
    BY <2>1 DEF Leftover, Mapped
  <2> QED BY <2>2 DEF ContextStepForFlow, NoRules
<1>4. ASSUME pc \in {"down", "open", "init"}, ~spoiled' PROVE NoRules'
  <2>1. NoRules
    BY <1>4, SpoiledStays DEF FlowRight
  <2> QED BY <2>1 DEF ContextStepForFlow, NoRules
<1>5. /\ pc' \in {"down", "open", "init"} => pc' = "down" \/ pc \in {"down", "open", "init"}
      /\ pc' = "up" => pc = "init" /\ GetNext
  BY DEF NextContext, Start, PassDevice, OtherDevice, FoundDevice, NoDevice, GetNext, GetNextFails,
         Shutdown, ReleaseNext, ReleaseFails, NothingToRelease, Continue, At
<1>6. ASSUME pc' = "up", ~spoiled', ~flow_failed' PROVE SettledRight' /\ CallRight'
  <2>1. pc = "init" /\ ~spoiled /\ NoRules'
    BY <1>4, <1>5, <1>6, SpoiledStays
  <2>2. user_managed_flag \in BOOLEAN /\ step \in 1 .. Len(Plan)
    BY <2>1 DEF ContextRight, TypeOKContext, StepRight
  <2>3. exists' \subseteq Resource \cup Leftover
    <3>1. exists \subseteq Resource \cup Leftover
      BY <2>1, <2>2, FromFacts DEF ContextRight, ExistsRight, ToRelease, RulesLeft
    <3>2. exists' = exists \cup Got(Plan[step])
      BY <1>5, <1>6 DEF GetNext
    <3>3. Got(Plan[step]) \subseteq Resource \cup Leftover
      BY <2>2, PlanGets
    <3> QED BY <3>1, <3>2, <3>3
  <2>4. ASSUME NEW q \in QP, NEW i \in Idx PROVE Rule(q, i) \notin exists'
    <3>1. Rule(q, i)[1] = "rule"
      BY DEF Rule
    <3>2. \A r \in Resource \cup Leftover : r[1] # "rule"
      BY ResourceFacts DEF Always, Buffers, Mapped, PerQP, Leftover
    <3> QED BY <2>3, <3>1, <3>2
  <2>5. Settled' = Idx /\ \A i \in Idx : asked'[i] = "off" /\ flow_dst_ips'[i] = "none"
    BY <1>1, <2>1 DEF Settled, NoRules
  <2>6. Groups' = {} /\ member' = {}
    BY <2>1, <2>5 DEF Groups, NoRules
  <2>7. SettledRight'
    <3>1. \A q \in QP, i \in Idx : Rule(q, i)' = Rule(q, i)
      BY DEF Rule
    <3> QED BY <2>4, <2>5, <3>1 DEF SettledRight
  <2>8. CallRight'
    BY <1>1, <1>2, <2>5, <2>6 DEF CallRight, TypeOKFlow
  <2> QED BY <2>7, <2>8
<1> QED BY <1>1, <1>2, <1>3, <1>4, <1>5, <1>6 DEF FlowRight

LEMMA ShutdownRulesFlow ==
    ASSUME ContextRight, FlowRight, ShutdownRule \/ ShutdownRuleFails \/ ShutdownNoRule
    PROVE  FlowRight'
<1>1. pc = "rules" /\ pc' \in {"rules", "teardown"} /\ UNCHANGED <<fpc, fidx, fdst, fqp, asked, flow_failed>>
  BY DEF ShutdownRule, ShutdownRuleFails, ShutdownNoRule, At, flowCall, flowVars
<1>2. member' \subseteq member /\ (flow_dst_ips' = flow_dst_ips \/ flow_dst_ips' = [flow_dst_ips EXCEPT ![step] = "none"])
  BY DEF ShutdownRule, ShutdownRuleFails, ShutdownNoRule, ShutdownLeaves, flowVars
<1>3. TypeOKFlow'
  BY <1>1, <1>2 DEF FlowRight, TypeOKFlow, Dst
<1> QED BY <1>1, <1>3 DEF FlowRight

LEMMA UntouchedFlow ==
    ASSUME FlowRight, UNCHANGED <<pc, spoiled, exists, flowVars>>
    PROVE  FlowRight'
<1>1. TypeOKFlow' /\ NoRules' = NoRules
  BY DEF FlowRight, TypeOKFlow, NoRules, flowVars, flowCall
<1>2. SettledRight' = SettledRight /\ CallRight' = CallRight
  BY DEF SettledRight, CallRight, Settled, Groups, Made, Rule, flowVars, flowCall
<1> QED BY <1>1, <1>2 DEF FlowRight, flowVars, flowCall


CallStep ==
    \/ Flow \/ DropMembership \/ DropFails \/ Destroy \/ DestroyFails \/ DestroyNull
    \/ AddMembership \/ AddFails \/ Create \/ CreateFails

LEMMA CallTyped ==
    ASSUME FlowRight, CallStep
    PROVE  /\ TypeOKFlow' /\ pc = "up" /\ pc' = "up" /\ UNCHANGED <<work, wrong>>
           /\ fpc' \in {"add", "create"} => fdst' # "off"
           /\ (spoiled => spoiled') /\ (flow_failed => flow_failed')
           /\ (DropFails \/ DestroyFails \/ AddFails \/ CreateFails) => flow_failed'
<1>1. pc = "up"
  BY DEF CallStep, FlowRight, Flow, DropMembership, DropFails, Destroy, DestroyFails, DestroyNull,
         AddMembership, AddFails, Create, CreateFails
<1>2. UNCHANGED <<work, wrong>>
  BY DEF CallStep, Flow, DropMembership, DropFails, Destroy, DestroyFails, DestroyNull,
         AddMembership, AddFails, Create, CreateFails, contextVars, history
<1>3. 0 \in QP /\ 0 \in Idx
  BY DEF QP, Idx
<1>4. /\ flow_dst_ips \in [Idx -> Dst] /\ member \subseteq Group
      /\ fidx \in Idx /\ fdst \in Dst \cup {"off"} /\ fqp \in QP
      /\ asked \in [Idx -> Dst \cup {"off"}] /\ flow_failed \in BOOLEAN
      /\ fpc \in {"idle", "drop", "destroy", "add", "create", "crashed"}
  BY DEF FlowRight, TypeOKFlow
<1>5. ASSUME NEW ok \in BOOLEAN, Returns(ok), member' \subseteq Group, flow_dst_ips' \in [Idx -> Dst]
      PROVE  TypeOKFlow'
  BY <1>3, <1>4, <1>5 DEF Returns, TypeOKFlow, Dst
<1>6. ASSUME NEW l \in {"destroy", "add", "create", "crashed"}, NEW q \in QP, GoesOn(l, q),
             member' \subseteq Group, flow_dst_ips' \in [Idx -> Dst]
      PROVE  TypeOKFlow'
  BY <1>3, <1>4, <1>6 DEF GoesOn, TypeOKFlow
<1>7. TypeOKFlow'
  <2>1. CASE Flow
    BY <1>3, <1>4, <2>1 DEF Flow, TypeOKFlow, Dst
  <2>2. CASE DropMembership
    <3>1. member' \subseteq Group /\ flow_dst_ips' \in [Idx -> Dst]
      BY <1>4, <2>2 DEF DropMembership, Dst
    <3> QED BY <1>3, <1>6, <2>2, <3>1 DEF DropMembership
  <2>3. CASE DropFails \/ DestroyFails
    BY <1>4, <1>5, <2>3 DEF DropFails, DestroyFails
  <2>4. CASE Destroy
    <3>1. member' = member /\ flow_dst_ips' = flow_dst_ips
      BY <2>4 DEF Destroy
    <3>2. \/ fqp + 1 \in QP /\ GoesOn("destroy", fqp + 1)
          \/ Returns(TRUE) \/ GoesOn("add", 0)
      BY <2>4 DEF Destroy
    <3> QED BY <1>3, <1>4, <1>5, <1>6, <3>1, <3>2
  <2>5. CASE DestroyNull
    BY <1>4, <1>6, <2>5 DEF DestroyNull
  <2>6. ASSUME fpc = "add", Remember PROVE flow_dst_ips' \in [Idx -> Dst]
    <3>1. fdst \in Dst
      BY <1>4, <2>6 DEF FlowRight
    <3> QED BY <1>4, <2>6, <3>1 DEF Remember
  <2>7. CASE AddMembership
    <3>1. member' \subseteq Group /\ flow_dst_ips' \in [Idx -> Dst]
      BY <1>4, <2>6, <2>7 DEF AddMembership
    <3> QED BY <1>3, <1>6, <2>7, <3>1 DEF AddMembership
  <2>8. CASE AddFails
    <3>1. member' \subseteq Group /\ flow_dst_ips' \in [Idx -> Dst]
      BY <1>4, <2>6, <2>8 DEF AddFails
    <3> QED BY <1>5, <2>8, <3>1 DEF AddFails
  <2>9. CASE Create
    <3>1. member' = member /\ flow_dst_ips' = flow_dst_ips
      BY <2>9 DEF Create
    <3>2. \/ fqp + 1 \in QP /\ GoesOn("create", fqp + 1)
          \/ Returns(TRUE)
      BY <2>9 DEF Create
    <3> QED BY <1>4, <1>5, <1>6, <3>1, <3>2
  <2>10. CASE CreateFails
    BY <1>4, <1>5, <2>10 DEF CreateFails
  <2> QED BY <2>1, <2>2, <2>3, <2>4, <2>5, <2>7, <2>8, <2>9, <2>10 DEF CallStep
<1>9. fpc' \in {"add", "create"} => fdst' # "off"
  BY DEF CallStep, FlowRight, Flow, DropMembership, DropFails, Destroy, DestroyFails, DestroyNull,
         AddMembership, AddFails, Create, CreateFails, GoesOn, Returns
<1>10. spoiled => spoiled'
  BY DEF CallStep, Flow, DropMembership, DropFails, Destroy, DestroyFails, DestroyNull,
         AddMembership, AddFails, Create, CreateFails, contextVars, history
<1>11. \A ok : Returns(ok) => (flow_failed => flow_failed') /\ (ok \/ flow_failed')
  BY DEF Returns
<1>12. \A l, q : GoesOn(l, q) => UNCHANGED flow_failed
  BY DEF GoesOn
<1>13. flow_failed => flow_failed'
  BY <1>11, <1>12 DEF CallStep, Flow, DropMembership, DropFails, Destroy, DestroyFails, DestroyNull,
         AddMembership, AddFails, Create, CreateFails
<1>14. (DropFails \/ DestroyFails \/ AddFails \/ CreateFails) => flow_failed'
  BY <1>11 DEF DropFails, DestroyFails, AddFails, CreateFails
<1> QED BY <1>1, <1>2, <1>7, <1>9, <1>10, <1>13, <1>14 DEF work


LEMMA RuleThere ==
    ASSUME ContextRight, pc = "up", ~spoiled, NEW q \in QP, NEW i \in Idx
    PROVE  Rule(q, i) \in field <=> Rule(q, i) \in exists
<1>1. Rule(q, i) \notin Leftover /\ Rule(q, i) \notin Closed
  BY DEF Rule, Leftover, Mapped, Closed
<1> QED BY <1>1 DEF ContextRight, PointsRight, ExistsRight

LEMMA CallContext == ASSUME ContextRight, FlowRight, CallStep PROVE ContextRight'
<1>1. /\ pc = "up" /\ UNCHANGED <<work, wrong>> /\ (spoiled => spoiled')
      /\ failures \in 0 .. MaxFail /\ spoiled \in BOOLEAN /\ fqp \in QP /\ fidx \in Idx
  BY CallTyped DEF ContextRight, TypeOKContext, FlowRight, TypeOKFlow
<1> DEFINE r == Rule(fqp, fidx)
<1>2. IsRule(r) /\ spoiled' \in BOOLEAN
  BY <1>1 DEF IsRule, CallStep, Flow, DropMembership, DropFails, Destroy, DestroyFails, DestroyNull,
         AddMembership, AddFails, Create, CreateFails, contextVars, history
<1>3. Fail => failures' \in 0 .. MaxFail
  BY <1>1 DEF Fail
<1>4. CASE Flow \/ DropMembership \/ DropFails \/ DestroyFails \/ DestroyNull \/ AddMembership \/ AddFails
  <2>1. UNCHANGED <<work, exists, field, history>> /\ failures' \in 0 .. MaxFail
    BY <1>1, <1>3, <1>4 DEF Flow, DropMembership, DropFails, DestroyFails, DestroyNull, AddMembership,
       AddFails, contextVars, resources
  <2> QED BY <2>1, UntouchedContext
<1>5. CASE Destroy
  <2>1. exists' = exists \ {r} /\ field' = field \ {r} /\ failures' = failures /\ spoiled' = spoiled
    BY <1>5 DEF Destroy, history
  <2>2. spoiled = TRUE \/ spoiled = FALSE
    BY <1>1
  <2>3. field' \subseteq field \cup {r} /\ exists \subseteq exists' \cup {r} /\ r \notin field'
    BY <2>1
  <2>4. Changes(r)
    BY <2>1, <2>2, <2>3 DEF Changes
  <2> HIDE DEF r
  <2> QED BY <1>1, <1>2, <2>1, <2>4, RulesChange
<1>6. CASE Create \/ CreateFails
  <2>1. /\ failures' \in 0 .. MaxFail
        /\ spoiled' = (spoiled \/ r \in exists)
        /\ \/ exists' = exists \cup {r} \cup Overwritten(r) /\ field' = field \cup {r}
           \/ exists' = (exists \ {r}) \cup Overwritten(r) /\ field' = field \ {r}
    BY <1>1, <1>3, <1>6 DEF Create, CreateFails
  <2>2. r \notin exists => Overwritten(r) = {}
    BY DEF Overwritten
  <2>3. field' \subseteq field \cup {r} /\ exists \subseteq exists' \cup {r} /\ (r \in field' => r \in exists')
    BY <2>1
  <2>4. spoiled' = TRUE \/ (spoiled' = FALSE /\ r \notin exists)
    BY <1>1, <2>1
  <2>5. CASE spoiled' = TRUE
    <3>1. Changes(r)
      BY <2>3, <2>5 DEF Changes
    <3> HIDE DEF r
    <3> QED BY <1>1, <1>2, <2>1, <3>1, RulesChange
  <2>6. CASE spoiled' = FALSE /\ r \notin exists
    <3>1. \/ exists' = exists \cup {r} /\ field' = field \cup {r}
          \/ exists' = exists \ {r} /\ field' = field \ {r}
      BY <2>1, <2>2, <2>6
    <3>2. Changes(r)
      BY <2>6, <3>1 DEF Changes
    <3> HIDE DEF r
    <3> QED BY <1>1, <1>2, <2>1, <3>2, RulesChange
  <2> QED BY <2>4, <2>5, <2>6
<1> QED BY <1>4, <1>5, <1>6 DEF CallStep

(* What is known before a call's step that does not fail.                  *)
LEMMA BeforeCall ==
    ASSUME ContextRight, FlowRight, CallStep, ~flow_failed', ~spoiled'
    PROVE  /\ SettledRight /\ CallRight /\ pc = "up" /\ ~spoiled /\ ~flow_failed
           /\ flow_dst_ips \in [Idx -> Dst] /\ fidx \in Idx /\ fqp \in QP /\ fdst \in Dst \cup {"off"}
           /\ asked \in [Idx -> Dst \cup {"off"}] /\ "off" \notin Group /\ "none" \notin Group
           /\ fpc \in {"add", "create"} => fdst # "off"
BY CallTyped DEF FlowRight, TypeOKFlow

(* A call starts.                                                          *)
LEMMA FlowStarts ==
    ASSUME ContextRight, FlowRight, Flow, ~flow_failed', ~spoiled'
    PROVE  SettledRight' /\ CallRight'
<1>1. /\ SettledRight /\ CallRight /\ pc = "up" /\ ~spoiled
      /\ asked \in [Idx -> Dst \cup {"off"}] /\ "off" \notin Group
  BY BeforeCall DEF CallStep
<1>2. PICK i \in Idx, d \in Dst \cup {"off"} :
         /\ Rule(0, i) \in field \/ d # "off"
         /\ fpc' = IF Rule(0, i) \in field THEN "drop" ELSE "add"
         /\ fidx' = i /\ fdst' = d
  BY DEF Flow
<1>3. fpc = "idle" /\ UNCHANGED <<exists, flow_dst_ips, member, asked>>
  BY DEF Flow, contextVars
<1>4. 0 \in QP
  BY DEF QP
<1>5. /\ Settled = Idx
      /\ \A j \in Idx : \A q \in QP : Rule(q, j) \in exists <=> asked[j] # "off"
      /\ \A j \in Idx : flow_dst_ips[j] = IF asked[j] = "off" THEN "none" ELSE asked[j]
      /\ \A j, k \in Idx : asked[j] \in Group /\ asked[j] = asked[k] => j = k
      /\ member = {asked[j] : j \in Idx} \cap Group
  BY <1>1, <1>3 DEF Settled, SettledRight, CallRight, Groups
<1>6. Rule(0, i) \in field <=> asked[i] # "off"
  BY <1>1, <1>4, <1>5, RuleThere
<1>7. Settled' = (IF fpc' = "drop" THEN Idx ELSE Idx \ {i}) /\ Settled' \subseteq Idx
  BY <1>2 DEF Settled
<1>8. SettledRight'
  <2>1. \A q \in QP, j \in Idx : Rule(q, j)' = Rule(q, j)
    BY DEF Rule
  <2> QED BY <1>3, <1>5, <1>7, <2>1 DEF SettledRight
<1>9. Groups' = member
  <2>1. fpc' = "drop" \/ asked[i] = "off"
    BY <1>2, <1>6
  <2> QED BY <1>1, <1>3, <1>5, <1>7, <2>1 DEF Groups
<1>10. CallRight'
  <2>1. CASE fpc' = "drop"
    BY <1>2, <1>3, <1>6, <1>7, <1>9, <2>1 DEF CallRight
  <2>2. CASE fpc' = "add"
    <3>1. asked[i] = "off" /\ flow_dst_ips[i] = "none" /\ \A q \in QP : Rule(q, i) \notin exists
      BY <1>2, <1>5, <1>6, <2>2
    <3>2. \A q \in QP : ~Made(q)'
      BY <2>2 DEF Made
    <3>3. \A q \in QP : Rule(q, fidx)' = Rule(q, i)
      BY <1>2 DEF Rule
    <3> QED BY <1>2, <1>3, <1>7, <1>9, <2>2, <3>1, <3>2, <3>3 DEF CallRight
  <2> QED BY <1>2, <2>1, <2>2
<1> QED BY <1>8, <1>10

(* The group of the old rule is left: no other rule has it.                *)
LEMMA FlowLeaves ==
    ASSUME ContextRight, FlowRight, DropMembership, ~flow_failed', ~spoiled'
    PROVE  SettledRight' /\ CallRight'
<1>1. /\ SettledRight /\ CallRight /\ flow_dst_ips \in [Idx -> Dst] /\ fidx \in Idx
      /\ asked \in [Idx -> Dst \cup {"off"}] /\ "off" \notin Group /\ "none" \notin Group
  BY BeforeCall DEF CallStep
<1>2. /\ fpc = "drop" /\ fpc' = "destroy" /\ fqp' = 0 /\ UNCHANGED <<fidx, fdst, asked, exists>>
      /\ member' = member \ {flow_dst_ips[fidx]}
      /\ flow_dst_ips' = [flow_dst_ips EXCEPT ![fidx] = "none"]
  BY DEF DropMembership, GoesOn, contextVars
<1>3. /\ asked[fidx] # "off"
      /\ \A j \in Idx : \A q \in QP : Rule(q, j) \in exists <=> asked[j] # "off"
      /\ \A j \in Idx : flow_dst_ips[j] = IF asked[j] = "off" THEN "none" ELSE asked[j]
      /\ \A j, k \in Idx : asked[j] \in Group /\ asked[j] = asked[k] => j = k
      /\ member = {asked[j] : j \in Idx} \cap Group
  BY <1>1, <1>2 DEF Settled, SettledRight, CallRight, Groups
<1>4. Settled' = Idx \ {fidx}
  BY <1>2 DEF Settled
<1>5. \A q \in QP, j \in Idx : Rule(q, j)' = Rule(q, j)
  BY DEF Rule
<1>6. SettledRight'
  BY <1>1, <1>2, <1>3, <1>4, <1>5 DEF SettledRight
<1>7. Groups' = member'
  BY <1>1, <1>2, <1>3, <1>4 DEF Groups
<1>8. \A q \in QP : Made(q)'
  BY <1>2 DEF Made, QP
<1>9. \A q \in QP : Rule(q, fidx)' = Rule(q, fidx)
  BY <1>2 DEF Rule
<1>10. CallRight'
  BY <1>1, <1>2, <1>3, <1>4, <1>7, <1>8, <1>9 DEF CallRight
<1> QED BY <1>6, <1>10


(* What is known of a call that has its rule in hands.                     *)
LEMMA InHands ==
    ASSUME SettledRight, CallRight, fidx \in Idx, fpc \in {"destroy", "add", "create"}
    PROVE  /\ Settled = Idx \ {fidx}
           /\ \A j \in Settled : \A q \in QP : Rule(q, j) \in exists <=> asked[j] # "off"
           /\ \A j \in Settled : flow_dst_ips[j] = IF asked[j] = "off" THEN "none" ELSE asked[j]
           /\ \A j, k \in Settled : asked[j] \in Group /\ asked[j] = asked[k] => j = k
           /\ \A q \in QP : Rule(q, fidx) \in exists <=> Made(q)
           /\ flow_dst_ips[fidx] = IF fpc = "create" THEN fdst ELSE "none"
           /\ member = Groups \cup (IF fpc = "create" THEN {fdst} \cap Group ELSE {})
           /\ fpc = "create" => fdst \notin Groups
<1>1. Settled = Idx \ {fidx} /\ fidx \notin Settled
  BY DEF Settled
<1> QED BY <1>1 DEF SettledRight, CallRight

(* A step that leaves the other rules alone, ...                           *)
LEMMA OthersSettled ==
    ASSUME SettledRight, Settled' = Settled, UNCHANGED asked,
           \A j \in Settled : flow_dst_ips'[j] = flow_dst_ips[j],
           \A j \in Settled, q \in QP : Rule(q, j) \in exists' <=> Rule(q, j) \in exists
    PROVE  SettledRight' /\ Groups' = Groups
<1>1. \A q \in QP, j \in Idx : Rule(q, j)' = Rule(q, j)
  BY DEF Rule
<1>2. Settled \subseteq Idx
  BY DEF Settled
<1> QED BY <1>1, <1>2 DEF SettledRight, Groups

(* ... and the last one, that hands it back.                               *)
LEMMA HandedBack ==
    ASSUME SettledRight, CallRight, fidx \in Idx, fpc \in {"destroy", "add", "create"},
           asked \in [Idx -> Dst \cup {"off"}], "off" \notin Group, Returns(TRUE),
           UNCHANGED flow_dst_ips,
           flow_dst_ips[fidx] = IF fdst = "off" THEN "none" ELSE fdst,
           member' = Groups \cup ({fdst} \cap Group), fdst \in Group => fdst \notin Groups,
           \A j \in Settled, q \in QP : Rule(q, j) \in exists' <=> Rule(q, j) \in exists,
           \A q \in QP : Rule(q, fidx) \in exists' <=> fdst # "off"
    PROVE  SettledRight' /\ CallRight'
<1>1. /\ Settled = Idx \ {fidx}
      /\ \A j \in Settled : \A q \in QP : Rule(q, j) \in exists <=> asked[j] # "off"
      /\ \A j \in Settled : flow_dst_ips[j] = IF asked[j] = "off" THEN "none" ELSE asked[j]
      /\ \A j, k \in Settled : asked[j] \in Group /\ asked[j] = asked[k] => j = k
  BY InHands
<1>2. fpc' = "idle" /\ asked' = [asked EXCEPT ![fidx] = fdst]
  BY DEF Returns
<1>3. Settled' = Idx
  BY <1>2 DEF Settled
<1>4. \A j \in Idx : asked'[j] = IF j = fidx THEN fdst ELSE asked[j]
  BY <1>2
<1>5. Groups = {asked[j] : j \in Idx \ {fidx}} \cap Group
  BY <1>1 DEF Groups
<1>6. \A q \in QP, j \in Idx : Rule(q, j)' = Rule(q, j)
  BY DEF Rule
<1>7. ASSUME NEW j \in Idx
      PROVE  /\ \A q \in QP : Rule(q, j) \in exists' <=> asked'[j] # "off"
             /\ flow_dst_ips'[j] = IF asked'[j] = "off" THEN "none" ELSE asked'[j]
  BY <1>1, <1>4
<1>8. ASSUME NEW j \in Idx, NEW k \in Idx, asked'[j] \in Group, asked'[j] = asked'[k] PROVE j = k
  BY <1>1, <1>4, <1>5, <1>8
<1>9. SettledRight'
  BY <1>3, <1>6, <1>7, <1>8 DEF SettledRight
<1>10. Groups' = member'
  BY <1>3, <1>4, <1>5 DEF Groups
<1>11. CallRight'
  <2>1. fidx' \in Settled'
    BY <1>3 DEF Returns, Idx
  <2> QED BY <1>2, <1>10, <2>1 DEF CallRight
<1> QED BY <1>9, <1>11

(* The rules of a call and the other rules are not the same.               *)
LEMMA OtherRules ==
    ASSUME fidx \in Idx, fqp \in QP
    PROVE  /\ \A j \in Idx \ {fidx}, q \in QP : Rule(q, j) # Rule(fqp, fidx)
           /\ \A q \in QP : Rule(q, fidx) = Rule(fqp, fidx) <=> q = fqp
BY RulePlaces

LEMMA RuleDestroyed ==
    ASSUME ContextRight, FlowRight, Destroy, ~flow_failed', ~spoiled'
    PROVE  SettledRight' /\ CallRight'
<1>1. /\ SettledRight /\ CallRight /\ fidx \in Idx /\ fqp \in QP /\ fdst \in Dst \cup {"off"}
      /\ asked \in [Idx -> Dst \cup {"off"}] /\ "off" \notin Group
  BY BeforeCall DEF CallStep
<1> DEFINE r == Rule(fqp, fidx)
<1>2. /\ fpc = "destroy" /\ exists' = exists \ {r} /\ UNCHANGED <<flow_dst_ips, member>>
      /\ \/ fqp + 1 \in QP /\ GoesOn("destroy", fqp + 1)
         \/ fqp + 1 \notin QP /\ fdst = "off" /\ Returns(TRUE)
         \/ fqp + 1 \notin QP /\ fdst # "off" /\ GoesOn("add", 0)
  BY DEF Destroy
<1>3. /\ Settled = Idx \ {fidx}
      /\ \A q \in QP : Rule(q, fidx) \in exists <=> Made(q)
      /\ flow_dst_ips[fidx] = "none" /\ member = Groups
  BY <1>1, <1>2, InHands
<1>4. \A j \in Settled, q \in QP : Rule(q, j) \in exists' <=> Rule(q, j) \in exists
  BY <1>1, <1>2, <1>3, OtherRules
<1>5. \A q \in QP : Rule(q, fidx) \in exists' <=> q >= fqp + 1
  <2>1. \A q \in QP : Made(q) <=> q >= fqp
    BY <1>2 DEF Made
  <2>2. \A q \in QP : q >= fqp /\ q # fqp <=> q >= fqp + 1
    BY <1>1 DEF QP
  <2> QED BY <1>1, <1>2, <1>3, <2>1, <2>2, OtherRules
<1>6. fqp + 1 \notin QP => \A q \in QP : ~(q >= fqp + 1)
  BY <1>1 DEF QP
<1>7. CASE Returns(TRUE)
  <2>1. fdst = "off" /\ \A q \in QP : Rule(q, fidx) \in exists' <=> fdst # "off"
    BY <1>2, <1>5, <1>6, <1>7 DEF Returns, GoesOn
  <2>2. member' = Groups \cup ({fdst} \cap Group)
    BY <1>1, <1>2, <1>3, <2>1
  <2> HIDE DEF r
  <2> QED BY <1>1, <1>2, <1>3, <1>4, <1>7, <2>1, <2>2, HandedBack
<1>8. ASSUME NEW l \in {"destroy", "add"}, NEW n, GoesOn(l, n),
             l = "destroy" => n = fqp + 1, l = "add" => fdst # "off" /\ fqp + 1 \notin QP
      PROVE  SettledRight' /\ CallRight'
  <2>1. fpc' = l /\ fqp' = n /\ UNCHANGED <<fidx, fdst, asked>>
    BY <1>8 DEF GoesOn
  <2>2. Settled' = Settled
    BY <1>2, <2>1 DEF Settled
  <2>3. SettledRight' /\ Groups' = Groups
    BY <1>1, <1>2, <1>4, <2>1, <2>2, OthersSettled
  <2>4. \A q \in QP : Made(q)' <=> q >= fqp + 1
    BY <1>6, <1>8, <2>1 DEF Made
  <2>5. \A q \in QP : Rule(q, fidx)' = Rule(q, fidx)
    BY <2>1 DEF Rule
  <2> QED BY <1>2, <1>3, <1>5, <2>1, <2>2, <2>3, <2>4, <2>5 DEF CallRight
<1> QED BY <1>2, <1>7, <1>8

LEMMA GroupJoined ==
    ASSUME ContextRight, FlowRight, AddMembership, ~flow_failed', ~spoiled'
    PROVE  SettledRight' /\ CallRight'
<1>1. /\ SettledRight /\ CallRight /\ fidx \in Idx /\ fdst # "off" /\ flow_dst_ips \in [Idx -> Dst]
  BY BeforeCall DEF CallStep, AddMembership
<1>2. /\ fpc = "add" /\ fpc' = "create" /\ fqp' = 0 /\ UNCHANGED <<fidx, fdst, asked, exists>>
      /\ fdst \notin member /\ member' = member \cup ({fdst} \cap Group)
      /\ flow_dst_ips' = IF fdst = "none" THEN flow_dst_ips ELSE [flow_dst_ips EXCEPT ![fidx] = fdst]
  BY DEF AddMembership, GoesOn, Remember, contextVars
<1>3. /\ Settled = Idx \ {fidx}
      /\ \A q \in QP : Rule(q, fidx) \in exists <=> Made(q)
      /\ flow_dst_ips[fidx] = "none" /\ member = Groups
  BY <1>1, <1>2, InHands
<1>4. Settled' = Settled
  BY <1>2 DEF Settled
<1>5. SettledRight' /\ Groups' = Groups
  BY <1>1, <1>2, <1>3, <1>4, OthersSettled
<1>6. \A q \in QP : Made(q)' <=> Made(q)
  BY <1>2 DEF Made, QP
<1>7. \A q \in QP : Rule(q, fidx)' = Rule(q, fidx)
  BY <1>2 DEF Rule
<1>8. flow_dst_ips'[fidx] = fdst
  BY <1>1, <1>2, <1>3
<1> QED BY <1>2, <1>3, <1>4, <1>5, <1>6, <1>7, <1>8 DEF CallRight

LEMMA RuleCreated ==
    ASSUME ContextRight, FlowRight, Create, ~flow_failed', ~spoiled'
    PROVE  SettledRight' /\ CallRight'
<1>1. /\ SettledRight /\ CallRight /\ fidx \in Idx /\ fqp \in QP /\ fdst # "off"
      /\ asked \in [Idx -> Dst \cup {"off"}] /\ "off" \notin Group
  BY BeforeCall DEF CallStep, Create
<1> DEFINE r == Rule(fqp, fidx)
<1>2. /\ fpc = "create" /\ exists' = exists \cup {r} \cup Overwritten(r) /\ UNCHANGED <<flow_dst_ips, member>>
      /\ \/ fqp + 1 \in QP /\ GoesOn("create", fqp + 1)
         \/ fqp + 1 \notin QP /\ Returns(TRUE)
  BY DEF Create
<1>3. /\ Settled = Idx \ {fidx}
      /\ \A q \in QP : Rule(q, fidx) \in exists <=> Made(q)
      /\ flow_dst_ips[fidx] = fdst /\ member = Groups \cup ({fdst} \cap Group) /\ fdst \notin Groups
  BY <1>1, <1>2, InHands
<1>4. exists' = exists \cup {r}
  <2>1. r \notin exists
    BY <1>1, <1>2, <1>3 DEF Made, QP
  <2> QED BY <1>2, <2>1 DEF Overwritten
<1>5. \A j \in Settled, q \in QP : Rule(q, j) \in exists' <=> Rule(q, j) \in exists
  BY <1>1, <1>3, <1>4, OtherRules
<1>6. \A q \in QP : Rule(q, fidx) \in exists' <=> q < fqp + 1
  <2>1. \A q \in QP : Made(q) <=> q < fqp
    BY <1>2 DEF Made
  <2>2. \A q \in QP : q < fqp \/ q = fqp <=> q < fqp + 1
    BY <1>1 DEF QP
  <2> QED BY <1>1, <1>3, <1>4, <2>1, <2>2, OtherRules
<1>7. CASE fqp + 1 \notin QP /\ Returns(TRUE)
  <2>1. \A q \in QP : q < fqp + 1
    BY <1>1, <1>7 DEF QP
  <2>2. \A q \in QP : Rule(q, fidx) \in exists' <=> fdst # "off"
    BY <1>1, <1>6, <2>1
  <2> HIDE DEF r
  <2> QED BY <1>1, <1>2, <1>3, <1>5, <1>7, <2>2, HandedBack
<1>8. CASE GoesOn("create", fqp + 1)
  <2>1. fpc' = "create" /\ fqp' = fqp + 1 /\ UNCHANGED <<fidx, fdst, asked>>
    BY <1>8 DEF GoesOn
  <2>2. Settled' = Settled
    BY <1>2, <2>1 DEF Settled
  <2>3. SettledRight' /\ Groups' = Groups
    BY <1>1, <1>2, <1>5, <2>1, <2>2, OthersSettled
  <2>4. \A q \in QP : Made(q)' <=> q < fqp + 1
    BY <2>1 DEF Made
  <2>5. \A q \in QP : Rule(q, fidx)' = Rule(q, fidx)
    BY <2>1 DEF Rule
  <2> QED BY <1>2, <1>3, <1>6, <2>1, <2>2, <2>3, <2>4, <2>5 DEF CallRight
<1> QED BY <1>2, <1>7, <1>8


(* A rule that is to be destroyed is there.                                *)
LEMMA NullNever ==
    ASSUME ContextRight, FlowRight, DestroyNull, ~flow_failed', ~spoiled'
    PROVE  FALSE
<1>1. SettledRight /\ CallRight /\ fidx \in Idx /\ fqp \in QP /\ pc = "up" /\ ~spoiled
  BY BeforeCall DEF CallStep
<1>2. fpc = "destroy" /\ Rule(fqp, fidx) \notin field
  BY DEF DestroyNull
<1>3. Rule(fqp, fidx) \in exists
  <2>1. Made(fqp)
    BY <1>1, <1>2 DEF Made, QP
  <2> QED BY <1>1, <1>2, <2>1, InHands
<1> QED BY <1>1, <1>2, <1>3, RuleThere

LEMMA CallFlow == ASSUME ContextRight, FlowRight, CallStep PROVE FlowRight'
<1>1. ASSUME ~flow_failed', ~spoiled' PROVE SettledRight' /\ CallRight'
  <2>1. ~(DropFails \/ DestroyFails \/ AddFails \/ CreateFails)
    BY <1>1, CallTyped
  <2>2. ~DestroyNull
    BY <1>1, NullNever
  <2>3. Flow \/ DropMembership \/ Destroy \/ AddMembership \/ Create
    BY <2>1, <2>2 DEF CallStep
  <2> QED BY <1>1, <2>3, FlowStarts, FlowLeaves, RuleDestroyed, GroupJoined, RuleCreated
<1>2. TypeOKFlow' /\ pc' = "up" /\ (fpc' \in {"add", "create"} => fdst' # "off")
  BY CallTyped
<1> QED BY <1>1, <1>2 DEF FlowRight

-----------------------------------------------------------------------------
(* All steps                                                               *)

(* Receiving and sending leave the context alone.                          *)
LEMMA PacketSteps ==
    ASSUME ContextRight, NextReceive \/ NextSend
    PROVE  UNCHANGED <<work, exists, field, history>> /\ failures' \in 0 .. MaxFail
<1>1. failures \in 0 .. MaxFail
  BY DEF ContextRight, TypeOKContext
<1>2. Fail => failures' \in 0 .. MaxFail
  BY <1>1 DEF Fail
<1>3. /\ Succeeds => UNCHANGED <<work, exists, field, history, failures>>
      /\ Fails => Fail /\ UNCHANGED <<work, exists, field, history>>
  BY DEF Succeeds, Fails, contextVars
<1>4. ASSUME NextReceive PROVE Succeeds \/ Fails
  BY <1>4 DEF NextReceive, Arrive, RecvPkts, Timeout, PollFails, GetEvent, Rearm, RearmFails, Empty, EmptyFails,
     Emptied, Release, ReleaseFailsHalfway, NotReady
<1>5. SendFails => (Fail \/ UNCHANGED failures) /\ UNCHANGED <<work, exists, field, history>>
  BY DEF SendFails
<1>6. ASSUME NextSend PROVE Succeeds \/ Fails \/ SendFails
  BY <1>6 DEF NextSend, Transmit, GetPkts, Drain, DrainFails, Drained, Pop, SendPkts, NotReady
<1> QED BY <1>1, <1>2, <1>3, <1>4, <1>5, <1>6

LEMMA NextInv == ASSUME IInv, [Next]_vars PROVE IInv'
<1>1. ContextRight /\ FlowRight
  BY DEF IInv
<1>2. CASE ContextStep
  <2>1. ContextRight'
    BY <1>1, <1>2, NextContextRight DEF ContextStep
  <2> QED BY <1>1, <1>2, <2>1, NextContextFlow DEF ContextStep, IInv
<1>3. CASE FlowStep
  <2>1. CallStep \/ ShutdownRule \/ ShutdownRuleFails \/ ShutdownNoRule
    BY <1>3 DEF FlowStep, NextFlow, CallStep
  <2> QED BY <1>1, <2>1, CallContext, CallFlow, ShutdownRulesRight, ShutdownRulesFlow DEF IInv
<1>4. CASE ReceiveStep \/ SendStep
  <2>1. UNCHANGED <<work, exists, field, history>> /\ failures' \in 0 .. MaxFail /\ UNCHANGED flowVars
    BY <1>1, <1>4, PacketSteps DEF ReceiveStep, SendStep
  <2>2. UNCHANGED <<pc, spoiled, exists, flowVars>>
    BY <2>1 DEF work, history
  <2> QED BY <1>1, <2>1, <2>2, UntouchedContext, UntouchedFlow DEF IInv
<1>5. CASE UNCHANGED vars
  <2>1. UNCHANGED <<work, exists, field, history, pc, spoiled, flowVars, failures>>
    BY <1>5 DEF vars, contextVars, work, history
  <2>2. failures' \in 0 .. MaxFail
    BY <1>1, <2>1 DEF ContextRight, TypeOKContext
  <2> QED BY <1>1, <2>1, <2>2, UntouchedContext, UntouchedFlow DEF IInv
<1> QED BY <1>2, <1>3, <1>4, <1>5 DEF Next

LEMMA Invariance == Spec => []IInv
<1>1. Init => IInv
  BY InitContextRight, InitFlowRight DEF IInv
<1> QED BY <1>1, NextInv, PTL DEF Spec

(* Nothing is released twice, nor before what needs it is gone, except the *)
(* socket for multicast groups, which every shutdown closes (any number of *)
(* queue pairs, rules, failures and calls of init and shutdown).           *)
THEOREM ReleasedOnce == Spec => []ReleasedRight
<1>1. IInv => ReleasedRight
  BY DEF IInv, ContextRight
<1> QED BY <1>1, Invariance, PTL

(* Whatever fails in init, and after a shutdown without a failure, only    *)
(* the packet buffers of the queue pairs after the first are left (they    *)
(* are, against what the header says: NothingLeft does not hold).          *)
THEOREM AllReleased == Spec => []OnlyBuffersLeft
<1>1. IInv => OnlyBuffersLeft
  BY DEF IInv, ContextRight, ExistsRight, ToRelease, RulesLeft, OnlyBuffersLeft
<1> QED BY <1>1, Invariance, PTL

(* Between calls that did not fail, every queue pair has the rules asked   *)
(* for and no others, the context points to them, and no call followed a   *)
(* null pointer.                                                           *)
THEOREM RulesAsAsked == Spec => []RulesKnown
<1>1. IInv => RulesKnown
  <2> DEFINE rules == {Rule(q, i) : q \in QP, i \in {j \in Idx : asked[j] # "off"}}
  <2> SUFFICES ASSUME IInv, FlowsAgreed
               PROVE  /\ fpc # "crashed"
                      /\ {r \in exists : r[1] \in {"rule", "lost"}} = rules
                      /\ {r \in field : r[1] = "rule"} = rules
    BY DEF RulesKnown
  <2>1. /\ ContextRight /\ pc = "up" /\ ~spoiled /\ user_managed_flag \in BOOLEAN
        /\ SettledRight /\ CallRight /\ fpc = "idle" /\ Settled = Idx
    BY DEF IInv, FlowRight, FlowsAgreed, ContextRight, TypeOKContext, CallRight, Settled
  <2>2. exists \subseteq Resource \cup Leftover \cup RulesLeft
    BY <2>1, FromFacts DEF ContextRight, ExistsRight, ToRelease
  <2>3. \A r \in Resource \cup Leftover : r[1] \notin {"rule", "lost"}
    BY ResourceFacts DEF Always, Buffers, Mapped, PerQP, Leftover
  <2>4. \A q \in QP, i \in Idx : Rule(q, i) \in exists <=> asked[i] # "off"
    BY <2>1 DEF SettledRight
  <2>5. \A r \in RulesLeft : \E q \in QP, i \in Idx : r = Rule(q, i)
    <3>1. step = 0
      BY <2>1 DEF ContextRight, StepRight
    <3> QED BY <3>1, RuleOf DEF RulesLeft
  <2>6. {r \in exists : r[1] \in {"rule", "lost"}} = rules
    <3>1. \A q \in QP, i \in Idx : Rule(q, i)[1] = "rule"
      BY DEF Rule
    <3> QED BY <2>2, <2>3, <2>4, <2>5, <3>1
  <2>7. {r \in field : r[1] = "rule"} = {r \in exists : r[1] \in {"rule", "lost"}}
    BY <2>1, <2>2, <2>3 DEF ContextRight, PointsRight, ExistsRight, Closed, RulesLeft
  <2> QED BY <2>1, <2>6, <2>7
<1> QED BY <1>1, Invariance, PTL

(* Between calls that did not fail, the multicast groups joined are those  *)
(* of the rules, each remembered with its rule.                            *)
THEOREM GroupsAsAsked == Spec => []MembershipKnown
<1>1. IInv => MembershipKnown
  <2> SUFFICES ASSUME IInv, FlowsAgreed PROVE MembershipKnown
    BY DEF MembershipKnown
  <2>1. /\ SettledRight /\ CallRight /\ fpc = "idle" /\ Settled = Idx
        /\ flow_dst_ips \in [Idx -> Dst]
    BY DEF IInv, FlowRight, TypeOKFlow, FlowsAgreed, CallRight, Settled
  <2>2. member = {asked[i] : i \in Idx} \cap Group
    BY <2>1 DEF CallRight, Groups
  <2>3. flow_dst_ips = [i \in Idx |-> IF asked[i] = "off" THEN "none" ELSE asked[i]]
    BY <2>1 DEF SettledRight
  <2> QED BY <2>2, <2>3 DEF MembershipKnown
<1> QED BY <1>1, Invariance, PTL

-----------------------------------------------------------------------------
(* The packets of the context                                              *)

USE IbvPacketsAssumption


Rx(more) == Pool(RecvPkt, rx.rq, rx.cq, rx.user, rx.next, more)
Tx(more) == Pool(SendPkt, tx.sq, tx.cq, tx.user, tx.next, more)

(* There are finitely many packets, and NULL is none.                      *)
LEMMA PacketSets ==
    /\ IsFiniteSet(RecvPkt) /\ NULL \notin RecvPkt
    /\ IsFiniteSet(SendPkt) /\ NULL \notin SendPkt
    /\ \A next \in [RecvPkt -> RecvPkt \cup {NULL}] : Links(next, RecvPkt)
    /\ \A next \in [SendPkt -> SendPkt \cup {NULL}] : Links(next, SendPkt)
<1>1. nqp * recv_pkt_num - 1 \in Int /\ nqp * send_pkt_num - 1 \in Int
  OBVIOUS
<1>2. IsFiniteSet(RecvPkt) /\ IsFiniteSet(SendPkt)
  BY <1>1, FS_Interval DEF RecvPkt, SendPkt
<1>3. NULL \notin RecvPkt /\ NULL \notin SendPkt
  BY DEF RecvPkt, SendPkt, NULL
<1> QED BY <1>2, <1>3 DEF Links

(* The fields of rx,                                                       *)
LEMMA RxFields ==
    ASSUME NEW r \in RxRecord
    PROVE  /\ r.next \in [RecvPkt -> RecvPkt \cup {NULL}]
           /\ r.rq \in [QP -> Seq(RecvPkt)] /\ r.cq \in [QP -> Seq(RecvPkt)]
           /\ r.armed \in [QP -> BOOLEAN] /\ r.events \in Seq(QP)
           /\ r.head \in RecvPkt \cup {NULL} /\ r.tail \in RecvPkt \cup {NULL}
           /\ r.user \in SUBSET RecvPkt
BY DEF RxRecord

(* and of tx.                                                              *)
LEMMA TxFields ==
    ASSUME NEW r \in TxRecord
    PROVE  /\ r.next \in [SendPkt -> SendPkt \cup {NULL}] /\ r.head \in SendPkt \cup {NULL}
           /\ r.sq \in [QP -> Seq(SendPkt)] /\ r.cq \in [QP -> Seq(SendPkt)]
           /\ r.user \in SUBSET SendPkt
BY DEF TxRecord

(* What the invariant says of the packets received, and of those to send.  *)
LEMMA RxPool ==
    ASSUME PacketsRight
    PROVE  /\ Rx(Making) /\ Making \in Seq(RecvPkt) /\ Inj(Making)
           /\ rx.head = NULL <=> Making = << >>
<1>1. /\ rx \in RxRecord /\ RxRight
      /\ rx.next \in [RecvPkt -> RecvPkt \cup {NULL}] /\ Links(rx.next, RecvPkt)
      /\ rx.rq \in [QP -> Seq(RecvPkt)] /\ rx.cq \in [QP -> Seq(RecvPkt)]
      /\ rx.user \in SUBSET RecvPkt
  BY RxFields, PacketSets DEF PacketsRight, TypeOKPackets
<1>2. Making \in Seq(RecvPkt) /\ (rx.head = NULL <=> Making = << >>)
  <2>1. CASE rx.head = NULL
    <3>1. Making = << >>
      BY <2>1 DEF Making
    <3>2. << >> \in Seq(RecvPkt)
      OBVIOUS
    <3> QED BY <2>1, <3>1, <3>2
  <2>2. CASE rx.head # NULL
    <3>1. /\ IsListOf([rx.next EXCEPT ![rx.tail] = NULL], Making, rx.head)
          /\ DOMAIN [rx.next EXCEPT ![rx.tail] = NULL] = RecvPkt
      BY <1>1, <2>2 DEF RxRight
    <3>2. Making \in Seq(RecvPkt) /\ Making # << >>
      BY <3>1 DEF IsListOf
    <3> QED BY <2>2, <3>2
  <2> QED BY <2>1, <2>2
<1>3. Typed(RecvPkt, rx.rq, rx.cq, rx.user, rx.next, Making)
  BY <1>1, <1>2 DEF Typed, RxRight
<1>4. Rx(Making)
  BY <1>1, <1>3 DEF Rx, Pool, RxRight, RxPlaces
<1>5. Inj(Making)
  <2>1. PICK f : f = Places(rx.rq, rx.cq, rx.user, rx.next, Making)
    OBVIOUS
  <2>2. f[Spot("more", 0)] = Making
    BY ONLY <2>1, MorePlace
  <2>3. 0 \in QP /\ Spot("posted", 0) # Spot("more", 0)
    BY Spots DEF QP
  <2>4. Spot("posted", 0) \in Place(RecvPkt) /\ Spot("more", 0) \in Place(RecvPkt)
    BY <2>3, PlacesIn
  <2>5. Distinct(f[Spot("posted", 0)], f[Spot("more", 0)])
    BY ONLY <1>4, <2>1, <2>3, <2>4, PoolDistinct DEF Rx
  <2> QED BY <2>2, <2>5 DEF Distinct
<1> QED BY <1>2, <1>4, <1>5

LEMMA TxPool ==
    ASSUME PacketsRight
    PROVE  /\ Tx(Unused) /\ Unused \in Seq(SendPkt) /\ Inj(Unused)
           /\ tx.head = NULL <=> Unused = << >>
<1>1. /\ tx \in TxRecord /\ TxRight
      /\ tx.next \in [SendPkt -> SendPkt \cup {NULL}] /\ Links(tx.next, SendPkt)
      /\ tx.sq \in [QP -> Seq(SendPkt)] /\ tx.cq \in [QP -> Seq(SendPkt)]
      /\ tx.user \in SUBSET SendPkt /\ DOMAIN tx.next = SendPkt
  BY TxFields, PacketSets DEF PacketsRight, TypeOKPackets
<1>2. Unused \in Seq(SendPkt) /\ (tx.head = NULL <=> Unused = << >>)
  <2>1. CASE tx.head = NULL
    <3>1. Unused = << >>
      BY <2>1 DEF Unused
    <3>2. << >> \in Seq(SendPkt)
      OBVIOUS
    <3> QED BY <2>1, <3>1, <3>2
  <2>2. CASE tx.head # NULL
    <3>1. Unused \in Seq(SendPkt) /\ Unused # << >>
      BY <1>1, <2>2 DEF IsListOf, TxRight
    <3> QED BY <2>2, <3>1
  <2> QED BY <2>1, <2>2
<1>3. Typed(SendPkt, tx.sq, tx.cq, tx.user, tx.next, Unused)
  BY <1>1, <1>2 DEF Typed, TxRight
<1>4. Tx(Unused)
  BY <1>1, <1>3 DEF Tx, Pool, TxRight, TxPlaces
<1>5. Inj(Unused)
  <2>1. PICK f : f = Places(tx.sq, tx.cq, tx.user, tx.next, Unused)
    OBVIOUS
  <2>2. f[Spot("more", 0)] = Unused
    BY ONLY <2>1, MorePlace
  <2>3. 0 \in QP /\ Spot("posted", 0) # Spot("more", 0)
    BY Spots DEF QP
  <2>4. Spot("posted", 0) \in Place(SendPkt) /\ Spot("more", 0) \in Place(SendPkt)
    BY <2>3, PlacesIn
  <2>5. Distinct(f[Spot("posted", 0)], f[Spot("more", 0)])
    BY ONLY <1>4, <2>1, <2>3, <2>4, PoolDistinct DEF Tx
  <2> QED BY <2>2, <2>5 DEF Distinct
<1> QED BY <1>2, <1>4, <1>5

(* The invariant of the packets received, whose list being made is m, and  *)
(* of those to send, of which m are unused, as a relation of the state.    *)
Homed(r, m, q) ==
    /\ \A x \in QP : \A p \in ToSet(r.rq[x]) \cup ToSet(r.cq[x]) : p \div recv_pkt_num = x
    /\ \A p \in r.user : \A u \in ToSet(List(r.next, p)) : u \div recv_pkt_num = p \div recv_pkt_num
    /\ \A u \in ToSet(m) : u \div recv_pkt_num = q
Ended(r, m) ==
    /\ r.tail # NULL /\ Last(m) = r.tail
    /\ IsListOf([r.next EXCEPT ![r.tail] = NULL], m, r.head)
RxOk(r, m, l, q, failed) ==
    /\ r \in RxRecord /\ Pool(RecvPkt, r.rq, r.cq, r.user, r.next, m)
    /\ ~failed => Filled(Places(r.rq, r.cq, r.user, r.next, m), RecvPkt)
    /\ Homed(r, m, q)
    /\ r.head = NULL => m = << >>
    /\ r.head # NULL => l = "empty" /\ Ended(r, m)

Polled(t) == \A q \in QP : Len(t.sq[q] \o t.cq[q]) <= send_pkt_num
TxOk(t, m, failed) ==
    /\ t \in TxRecord /\ Pool(SendPkt, t.sq, t.cq, t.user, t.next, m)
    /\ ~failed => Filled(Places(t.sq, t.cq, t.user, t.next, m), SendPkt)
    /\ Polled(t)
    /\ t.head = NULL => m = << >>
    /\ t.head # NULL => IsListOf(t.next, m, t.head)

CallsOk ==
    /\ qstate \in [QP -> {"INIT", "RTR", "RTS"}]
    /\ lpc \in {"idle", "poll", "rearm", "empty", "drain", "pop"}
    /\ lqp \in QP /\ num_pkts \in 0 .. send_pkt_num /\ pkt_failed \in BOOLEAN
    /\ lpc \in {"drain", "pop"} => num_pkts # 0

(* PacketsRight says of the parts what RxOk and TxOk say,                  *)
LEMMA RightIs ==
    ASSUME PacketsRight
    PROVE  /\ CallsOk /\ RxOk(rx, Making, lpc, lqp, pkt_failed) /\ TxOk(tx, Unused, pkt_failed)
<1>1. Rx(Making) /\ Tx(Unused)
  BY RxPool, TxPool
<1>2. RxOk(rx, Making, lpc, lqp, pkt_failed)
  BY <1>1 DEF RxOk, Rx, PacketsRight, RxRight, Home, OwnPair, Homed, Ended, TypeOKPackets, RxPlaces, Making
<1>3. TxOk(tx, Unused, pkt_failed)
  BY <1>1 DEF TxOk, Tx, PacketsRight, TxRight, TypeOKPackets, TxPlaces, Unused, Polled
<1> QED BY <1>2, <1>3 DEF CallsOk, PacketsRight, TypeOKPackets

(* the sequence RxOk speaks of is the list being made,                     *)
LEMMA MadeIs ==
    ASSUME NEW r, NEW m, NEW l, NEW q, NEW failed, RxOk(r, m, l, q, failed)
    PROVE  m = IF r.head = NULL THEN << >> ELSE List([r.next EXCEPT ![r.tail] = NULL], r.head)
<1>1. CASE r.head # NULL
  <2> DEFINE next == [r.next EXCEPT ![r.tail] = NULL]
  <2>1. /\ r \in RxRecord /\ r.next \in [RecvPkt -> RecvPkt \cup {NULL}]
        /\ m \in Seq(RecvPkt) /\ Pool(RecvPkt, r.rq, r.cq, r.user, r.next, m)
        /\ IsListOf(next, m, r.head)
    BY <1>1, RxFields DEF RxOk, Ended, Pool, Typed
  <2>2. next \in [RecvPkt -> RecvPkt \cup {NULL}]
    BY <2>1
  <2>3. Links(next, RecvPkt)
    BY <2>2, PacketSets
  <2>4. Inj(m)
    <3>1. PICK f : f = Places(r.rq, r.cq, r.user, r.next, m)
      OBVIOUS
    <3>2. f[Spot("more", 0)] = m
      BY ONLY <3>1, MorePlace
    <3>3. 0 \in QP /\ Spot("posted", 0) # Spot("more", 0)
      BY Spots DEF QP
    <3>4. Spot("posted", 0) \in Place(RecvPkt) /\ Spot("more", 0) \in Place(RecvPkt)
      BY <3>3, PlacesIn
    <3>5. Distinct(f[Spot("posted", 0)], f[Spot("more", 0)])
      BY ONLY <2>1, <3>1, <3>3, <3>4, PoolDistinct
    <3> QED BY <3>2, <3>5 DEF Distinct
  <2> HIDE DEF next
  <2>5. m # << >> /\ m[1] = r.head /\ Chained(next, m)
    BY <2>1 DEF IsListOf
  <2>6. List(next, m[1]) = m
    BY ONLY <2>1, <2>3, <2>4, <2>5, ListOfChain
  <2> QED BY <1>1, <2>5, <2>6 DEF next
<1>2. CASE r.head = NULL
  BY <1>2 DEF RxOk
<1> QED BY <1>1, <1>2

(* and the one of TxOk the unused packets;                                 *)
LEMMA UnusedIs ==
    ASSUME NEW t, NEW m, NEW failed, TxOk(t, m, failed)
    PROVE  m = IF t.head = NULL THEN << >> ELSE List(t.next, t.head)
<1>1. CASE t.head # NULL
  <2>1. /\ t \in TxRecord /\ t.next \in [SendPkt -> SendPkt \cup {NULL}]
        /\ m \in Seq(SendPkt) /\ Pool(SendPkt, t.sq, t.cq, t.user, t.next, m)
        /\ IsListOf(t.next, m, t.head)
    BY <1>1, TxFields DEF TxOk, Pool, Typed
  <2>3. Links(t.next, SendPkt)
    BY <2>1, PacketSets
  <2>4. Inj(m)
    <3>1. PICK f : f = Places(t.sq, t.cq, t.user, t.next, m)
      OBVIOUS
    <3>2. f[Spot("more", 0)] = m
      BY ONLY <3>1, MorePlace
    <3>3. 0 \in QP /\ Spot("posted", 0) # Spot("more", 0)
      BY Spots DEF QP
    <3>4. Spot("posted", 0) \in Place(SendPkt) /\ Spot("more", 0) \in Place(SendPkt)
      BY <3>3, PlacesIn
    <3>5. Distinct(f[Spot("posted", 0)], f[Spot("more", 0)])
      BY ONLY <2>1, <3>1, <3>3, <3>4, PoolDistinct
    <3> QED BY <3>2, <3>5 DEF Distinct
  <2>5. m # << >> /\ m[1] = t.head /\ Chained(t.next, m)
    BY <2>1 DEF IsListOf
  <2>6. List(t.next, m[1]) = m
    BY ONLY <2>1, <2>3, <2>4, <2>5, ListOfChain
  <2> QED BY <1>1, <2>5, <2>6
<1>2. CASE t.head = NULL
  BY <1>2 DEF TxOk
<1> QED BY <1>1, <1>2

(* What establishes the invariant, and re-establishes it.                  *)
LEMMA IsRightNow ==
    ASSUME CallsOk, NEW m, RxOk(rx, m, lpc, lqp, pkt_failed), NEW u, TxOk(tx, u, pkt_failed)
    PROVE  PacketsRight
<1>1. m = Making /\ u = Unused
  BY MadeIs, UnusedIs DEF Making, Unused
<1>2. TypeOKPackets
  BY DEF CallsOk, RxOk, TxOk, TypeOKPackets, Polled
<1>3. RxRight
  BY <1>1 DEF RxOk, RxRight, RxPlaces, Pool, Typed, Ended
<1>4. Home
  BY <1>1 DEF RxOk, Homed, Home, OwnPair
<1>5. TxRight
  BY <1>1 DEF TxOk, TxRight, TxPlaces, Pool, Typed
<1> QED BY <1>2, <1>3, <1>4, <1>5 DEF PacketsRight, CallsOk

(* so the parts give PacketsRight back.                                    *)
LEMMA IsRight ==
    ASSUME CallsOk', NEW m, RxOk(rx', m, lpc', lqp', pkt_failed'), NEW u, TxOk(tx', u, pkt_failed')
    PROVE  PacketsRight'
<1>1. m = Making' /\ u = Unused'
  BY MadeIs, UnusedIs DEF Making, Unused
<1>2. TypeOKPackets'
  BY DEF CallsOk, RxOk, TxOk, TypeOKPackets, Polled
<1>3. RxRight'
  BY <1>1 DEF RxOk, RxRight, RxPlaces, Pool, Typed, Ended
<1>4. Home'
  BY <1>1 DEF RxOk, Homed, Home, OwnPair
<1>5. TxRight'
  BY <1>1 DEF TxOk, TxRight, TxPlaces, Pool, Typed
<1> QED BY <1>2, <1>3, <1>4, <1>5 DEF PacketsRight, CallsOk

(* What happens to the packets received does not depend on the rest.       *)
LEMMA RxKeeps ==
    ASSUME NEW r, NEW m, NEW l, NEW q, NEW failed, RxOk(r, m, l, q, failed),
           NEW r2 \in RxRecord, r2.next = r.next, r2.rq = r.rq, r2.cq = r.cq,
           r2.head = r.head, r2.tail = r.tail, r2.user = r.user,
           NEW l2, NEW q2, (l2 = l /\ q2 = q) \/ l # "empty", NEW failed2, failed => failed2
    PROVE  RxOk(r2, m, l2, q2, failed2)
<1>1. l # "empty" => r.head = NULL /\ m = << >> /\ ToSet(m) = {}
  BY DEF RxOk, ToSet
<1>2. Homed(r2, m, q2)
  BY <1>1 DEF RxOk, Homed
<1>3. Ended(r2, m) <=> Ended(r, m)
  BY DEF Ended
<1> QED BY <1>1, <1>2, <1>3 DEF RxOk

(* A new value for rx.                                                     *)
LEMMA RxMade ==
    ASSUME NEW r \in RxRecord, NEW next \in [RecvPkt -> RecvPkt \cup {NULL}],
           NEW rq \in [QP -> Seq(RecvPkt)], NEW cq \in [QP -> Seq(RecvPkt)],
           NEW armed \in [QP -> BOOLEAN], NEW events \in Seq(QP),
           NEW head \in RecvPkt \cup {NULL}, NEW tail \in RecvPkt \cup {NULL},
           NEW user \in SUBSET RecvPkt,
           NEW r2, r2 = [r EXCEPT !.next = next, !.rq = rq, !.cq = cq, !.armed = armed,
                                  !.events = events, !.head = head, !.tail = tail, !.user = user]
    PROVE  /\ r2 \in RxRecord
           /\ r2.next = next /\ r2.rq = rq /\ r2.cq = cq /\ r2.armed = armed /\ r2.events = events
           /\ r2.head = head /\ r2.tail = tail /\ r2.user = user
BY DEF RxRecord

(* What a queue holds that gives its first packet to another, and what     *)
(* that one holds.                                                         *)
LEMMA TailKeeps ==
    ASSUME NEW P, NEW s \in Seq(P), s # << >>, NEW t \in Seq(P),
           NEW s2, s2 = Tail(s), NEW t2, t2 = Append(t, Head(s))
    PROVE  /\ s2 \in Seq(P) /\ t2 \in Seq(P)
           /\ ToSet(s2) \subseteq ToSet(s) /\ ToSet(t2) \subseteq ToSet(t) \cup ToSet(s)
<1>1. s2 \in Seq(P) /\ \A i \in 1 .. Len(s2) : i + 1 \in 1 .. Len(s) /\ s2[i] = s[i + 1]
  OBVIOUS
<1>2. t2 \in Seq(P) /\ \A i \in 1 .. Len(t2) : \/ i \in 1 .. Len(t) /\ t2[i] = t[i]
                                               \/ 1 \in 1 .. Len(s) /\ t2[i] = s[1]
  OBVIOUS
<1>3. ASSUME NEW y \in ToSet(s2) PROVE y \in ToSet(s)
  <2>1. PICK i \in 1 .. Len(s2) : y = s2[i]
    <3>1. s2 \in Seq(P) /\ y \in ToSet(s2)
      BY <1>1
    <3> QED BY ONLY <3>1, Elements
  <2> QED BY <1>1, <2>1, Elements
<1>4. ASSUME NEW y \in ToSet(t2) PROVE y \in ToSet(t) \cup ToSet(s)
  <2>1. PICK i \in 1 .. Len(t2) : y = t2[i]
    <3>1. t2 \in Seq(P) /\ y \in ToSet(t2)
      BY <1>2
    <3> QED BY ONLY <3>1, Elements
  <2> QED BY <1>2, <2>1, Elements
<1> QED BY <1>1, <1>2, <1>3, <1>4

RxArrival(r, x, s, t, s2, t2, rq2, cq2, r2) ==
    /\ s = r.rq[x] /\ s # << >> /\ t = r.cq[x] /\ s2 = Tail(s) /\ t2 = Append(t, Head(s))
    /\ rq2 = [r.rq EXCEPT ![x] = s2] /\ cq2 = [r.cq EXCEPT ![x] = t2]
    /\ r2 \in RxRecord /\ r2.next = r.next /\ r2.rq = rq2 /\ r2.cq = cq2
    /\ r2.head = r.head /\ r2.tail = r.tail /\ r2.user = r.user

(* A posted packet becomes a completed one.                                *)
LEMMA RxArrives ==
    ASSUME NEW r, NEW m, NEW l, NEW q, NEW failed, RxOk(r, m, l, q, failed), NEW x \in QP,
           NEW s, NEW t, NEW s2, NEW t2, NEW rq2, NEW cq2, NEW r2,
           RxArrival(r, x, s, t, s2, t2, rq2, cq2, r2)
    PROVE  RxOk(r2, m, l, q, failed)
<1>0. /\ s = r.rq[x] /\ s # << >> /\ t = r.cq[x] /\ s2 = Tail(s) /\ t2 = Append(t, Head(s))
      /\ rq2 = [r.rq EXCEPT ![x] = s2] /\ cq2 = [r.cq EXCEPT ![x] = t2]
      /\ r2 \in RxRecord /\ r2.next = r.next /\ r2.rq = rq2 /\ r2.cq = cq2
      /\ r2.head = r.head /\ r2.tail = r.tail /\ r2.user = r.user
  BY DEF RxArrival
<1>1. /\ r \in RxRecord /\ Pool(RecvPkt, r.rq, r.cq, r.user, r.next, m)
      /\ r.rq \in [QP -> Seq(RecvPkt)] /\ r.cq \in [QP -> Seq(RecvPkt)]
      /\ s \in Seq(RecvPkt) /\ t \in Seq(RecvPkt)
  <2>1. r \in RxRecord /\ Pool(RecvPkt, r.rq, r.cq, r.user, r.next, m)
    BY DEF RxOk
  <2>2. r.rq \in [QP -> Seq(RecvPkt)] /\ r.cq \in [QP -> Seq(RecvPkt)]
    BY <2>1, RxFields
  <2> QED BY <1>0, <2>1, <2>2
<1>2. /\ s2 \in Seq(RecvPkt) /\ t2 \in Seq(RecvPkt)
      /\ ToSet(s2) \subseteq ToSet(s) /\ ToSet(t2) \subseteq ToSet(t) \cup ToSet(s)
  <2>1. /\ s # << >> /\ s2 = Tail(s) /\ t2 = Append(t, Head(s))
        /\ s \in Seq(RecvPkt) /\ t \in Seq(RecvPkt)
    BY ONLY <1>0, <1>1
  <2> QED BY ONLY <2>1, TailKeeps
<1>3. PICK f, g : /\ f = Places(r.rq, r.cq, r.user, r.next, m)
                  /\ g = Places(rq2, cq2, r.user, r.next, m)
  OBVIOUS
<1>4. Pool(RecvPkt, rq2, cq2, r.user, r.next, m) /\ Fills(f, g)
  <2>1. PICK posted, completed, user, next, P :
           /\ posted = r.rq /\ completed = r.cq /\ user = r.user /\ next = r.next /\ P = RecvPkt
    OBVIOUS
  <2>2. rq2 = [posted EXCEPT ![x] = s2] /\ cq2 = [completed EXCEPT ![x] = t2]
    BY <1>0, <2>1
  <2>3. /\ Pool(P, posted, completed, user, next, m) /\ f = Places(posted, completed, user, next, m)
        /\ g = Places(rq2, cq2, user, next, m) /\ s = posted[x] /\ t = completed[x]
    BY <1>0, <1>1, <1>3, <2>1
  <2>5. s # << >> /\ s2 = Tail(s) /\ t2 = Append(t, Head(s))
    BY <1>0
  <2>4. Pool(P, rq2, cq2, user, next, m) /\ Fills(f, g)
    BY ONLY <2>2, <2>3, <2>5, x \in QP, PoolCompletes
  <2> QED BY <2>1, <2>4
<1>5. /\ rq2[x] = s2 /\ cq2[x] = t2
      /\ \A z \in QP : z # x => rq2[z] = r.rq[z] /\ cq2[z] = r.cq[z]
  BY ONLY <1>0, <1>1
<1>6. \A z \in QP : ToSet(rq2[z]) \cup ToSet(cq2[z]) \subseteq ToSet(r.rq[z]) \cup ToSet(r.cq[z])
  BY <1>0, <1>2, <1>5
<1>7. Homed(r2, m, q)
  BY <1>0, <1>6 DEF RxOk, Homed
<1>8. Ended(r2, m) <=> Ended(r, m)
  BY <1>0 DEF Ended
<1>9. ~failed => Filled(g, RecvPkt)
  BY <1>3, <1>4 DEF RxOk, Fills
<1> QED BY <1>0, <1>3, <1>4, <1>7, <1>8, <1>9 DEF RxOk

(* What a queue has completed is apart from one more list.                 *)
LEMMA PoolQueue ==
    ASSUME NEW P, NEW posted, NEW completed, NEW user, NEW next, NEW more,
           Pool(P, posted, completed, user, next, more), NEW q \in QP, NEW s, s = completed[q]
    PROVE  Distinct(s, more)
<1>1. PICK f : f = Places(posted, completed, user, next, more)
  OBVIOUS
<1>2. f[Spot("more", 0)] = more
  BY ONLY <1>1, MorePlace
<1>3. f[Spot("completed", q)] = completed[q]
  BY ONLY <1>1, q \in QP, QueuePlaces
<1>4. Spot("completed", q) # Spot("more", 0)
  BY Spots
<1>5. Spot("completed", q) \in Place(P) /\ Spot("more", 0) \in Place(P)
  BY PlacesIn
<1>6. Distinct(f[Spot("completed", q)], f[Spot("more", 0)])
  BY ONLY Pool(P, posted, completed, user, next, more), <1>1, <1>4, <1>5, PoolDistinct
<1> QED BY <1>2, <1>3, <1>6

(* What is used of RxOk over and over.                                     *)
LEMMA RxBasics ==
    ASSUME NEW r, NEW m, NEW l, NEW q, NEW failed, RxOk(r, m, l, q, failed)
    PROVE  /\ r \in RxRecord /\ Pool(RecvPkt, r.rq, r.cq, r.user, r.next, m)
           /\ r.next \in [RecvPkt -> RecvPkt \cup {NULL}] /\ Links(r.next, RecvPkt)
           /\ r.rq \in [QP -> Seq(RecvPkt)] /\ r.cq \in [QP -> Seq(RecvPkt)]
           /\ r.user \in SUBSET RecvPkt
           /\ m \in Seq(RecvPkt) /\ Inj(m) /\ \A x \in QP : Distinct(r.cq[x], m)
<1>1. /\ r \in RxRecord /\ Pool(RecvPkt, r.rq, r.cq, r.user, r.next, m)
      /\ r.next \in [RecvPkt -> RecvPkt \cup {NULL}] /\ Links(r.next, RecvPkt)
      /\ r.rq \in [QP -> Seq(RecvPkt)] /\ r.cq \in [QP -> Seq(RecvPkt)]
      /\ r.user \in SUBSET RecvPkt /\ m \in Seq(RecvPkt)
  BY RxFields, PacketSets DEF RxOk, Pool, Typed
<1>2. \A x \in QP : Distinct(r.cq[x], m)
  BY ONLY <1>1, PoolQueue
<1>3. Inj(m)
  <2>1. 0 \in QP
    BY DEF QP
  <2> QED BY <1>2, <2>1 DEF Distinct
<1> QED BY <1>1, <1>2, <1>3

(* The packets that recv_pkts() takes go behind the list being made.       *)
RxTaken(r, q, s, n, b, s2, c, next2, cq2, r2) ==
    /\ s = r.cq[q] /\ Cut(s, n, b, s2) /\ n # 0
    /\ c = (IF r.head = NULL THEN << >> ELSE <<r.tail>>) \o b
    /\ next2 = Linked(r.next, c) /\ cq2 = [r.cq EXCEPT ![q] = s2]
    /\ r2 \in RxRecord /\ r2.next = next2 /\ r2.rq = r.rq /\ r2.cq = cq2
    /\ r2.head = (IF r.head = NULL THEN b[1] ELSE r.head) /\ r2.tail = b[Len(b)]
    /\ r2.user = r.user

(* A batch of completions is put behind the list being made.               *)
LEMMA RxEmpties ==
    ASSUME NEW r, NEW m, NEW q \in QP, NEW failed, RxOk(r, m, "empty", q, failed),
           NEW s, NEW n, NEW b, NEW s2, NEW c, NEW next2, NEW cq2, NEW r2,
           RxTaken(r, q, s, n, b, s2, c, next2, cq2, r2)
    PROVE  RxOk(r2, m \o b, "empty", q, failed)
<1>0. /\ s = r.cq[q] /\ Cut(s, n, b, s2) /\ n # 0
      /\ c = (IF r.head = NULL THEN << >> ELSE <<r.tail>>) \o b
      /\ next2 = Linked(r.next, c) /\ cq2 = [r.cq EXCEPT ![q] = s2]
      /\ r2 \in RxRecord /\ r2.next = next2 /\ r2.rq = r.rq /\ r2.cq = cq2
      /\ r2.head = (IF r.head = NULL THEN b[1] ELSE r.head) /\ r2.tail = b[Len(b)]
      /\ r2.user = r.user
  BY DEF RxTaken
<1>1. PICK next, rq, cq, user, old, P, next3, m2 :
         /\ next = r.next /\ rq = r.rq /\ cq = r.cq /\ user = r.user /\ old = r.tail
         /\ P = RecvPkt /\ next3 = CutOff(next2, b[Len(b)]) /\ m2 = m \o b
  OBVIOUS
<1>2. Pool(P, rq, cq, user, next, m) /\ m \in Seq(P) /\ cq \in [QP -> Seq(P)]
  BY <1>1, RxBasics
<1>3. /\ r.head = NULL <=> m = << >>
      /\ m # << >> => /\ r.tail = m[Len(m)] /\ Chained([r.next EXCEPT ![r.tail] = NULL], m)
                      /\ m[1] = r.head
  BY DEF RxOk, Ended, IsListOf, Last
<1>4. /\ EndsAt(next, old, m) /\ c = Behind(m, old, b) /\ next2 = Linked(next, c)
      /\ s = cq[q] /\ cq2 = [cq EXCEPT ![q] = s2] /\ q \in QP
      /\ Cut(s, n, b, s2) /\ n # 0 /\ next3 = CutOff(next2, b[Len(b)]) /\ m2 = m \o b
  BY <1>0, <1>1, <1>3 DEF EndsAt, Behind, CutOff
<1>5. /\ s \in Seq(P) /\ Links(next, P) /\ Distinct(s, m)
  <2>1. s \in Seq(P)
    BY ONLY <1>2, <1>4
  <2>2. Links(next, P)
    BY ONLY <1>2 DEF Pool, Typed
  <2>3. Distinct(s, m)
    BY ONLY <1>2, <1>4, PoolQueue
  <2> QED BY ONLY <2>1, <2>2, <2>3
<1>6. /\ b \in Seq(P) /\ b # << >> /\ s2 \in Seq(P) /\ Distinct(b, m)
      /\ ToSet(b) \subseteq ToSet(s) /\ ToSet(s2) \subseteq ToSet(s)
  <2>1. /\ b \in Seq(P) /\ Len(b) = n /\ Inj(b) /\ ToSet(s) = ToSet(b) \cup ToSet(s2)
        /\ n \in 0 .. Len(s) /\ s2 \in Seq(P)
    <3>1. Inj(s)
      BY ONLY <1>5 DEF Distinct
    <3> QED BY ONLY <1>4, <1>5, <3>1, CutParts
  <2>2. b # << >>
    BY ONLY <1>4, <2>1
  <2> QED BY ONLY <1>5, <2>1, <2>2 DEF Distinct
<1>7. m2 \in Seq(P) /\ Reshuffled(s, m, s2, m2) /\ AllKept(s, m, s2, m2)
  BY ONLY <1>2, <1>4, <1>5, CutBehind
<1>8. /\ Links(next2, P) /\ Chained(next3, m2) /\ DOMAIN next3 = P
      /\ OnlyLinksOf(ToSet(m) \cup ToSet(b), P, next, next2)
  <2>1. /\ Links(next2, P) /\ Links(next3, P) /\ Chained(next3, m2)
        /\ OnlyLinksOf(ToSet(m) \cup ToSet(b), P, next, next2)
    BY ONLY <1>2, <1>4, <1>5, <1>6, ChainJoined
  <2> QED BY ONLY <2>1 DEF Links
<1>9. PICK f, g : f = Places(rq, cq, user, next, m) /\ g = Places(rq, cq2, user, next2, m2)
  OBVIOUS
<1>10. /\ Pool(P, rq, cq2, user, next2, m2) /\ Fills(f, g)
       /\ \A p \in user : List(next2, p) = List(next, p)
  <2>1. \A u \in P : next2[u] # next[u] => u \in ToSet(m) \/ u \in ToSet(s)
    BY ONLY <1>6, <1>8 DEF OnlyLinksOf
  <2>2. Pool(P, rq, cq2, user, next2, m2)
    BY ONLY <1>2, <1>4, <1>6, <1>7, <1>8, <1>9, <2>1, PoolPolls
  <2>3. AllKept(s, m, s2, m2) => Fills(f, g)
    BY ONLY <1>2, <1>4, <1>6, <1>7, <1>8, <1>9, <2>1, PoolPolls
  <2>4. \A p \in user : List(next2, p) = List(next, p)
    <3>1. \A u \in P : next2[u] # next[u] => u \in ToSet(m) \/ \E x \in QP : u \in ToSet(cq[x])
      BY ONLY <1>4, <2>1
    <3> QED BY ONLY <1>2, <1>8, <3>1, UserKept
  <2> QED BY ONLY <1>7, <2>2, <2>3, <2>4
<1>e. /\ m2 # << >> /\ ToSet(m2) = ToSet(m) \cup ToSet(b)
      /\ m2[Len(m2)] = b[Len(b)] /\ b[Len(b)] \in P /\ m2[1] \in P
      /\ m = << >> => m2[1] = b[1]
      /\ m # << >> => m2[1] = m[1]
  <2>1. /\ m2 # << >>
        /\ m2[Len(m2)] = b[Len(b)] /\ b[Len(b)] \in P /\ m2[1] \in P
        /\ m = << >> => m2[1] = b[1]
        /\ m # << >> => m2[1] = m[1]
    BY ONLY <1>2, <1>4, <1>6, Joined
  <2>2. Inj(m) /\ Inj(b) /\ ToSet(m) \cap ToSet(b) = {} /\ m \in Seq(P) /\ b \in Seq(P)
    BY ONLY <1>2, <1>6 DEF Distinct
  <2>3. ToSet(m \o b) = ToSet(m) \cup ToSet(b)
    BY ONLY <2>2, InjConcat
  <2> QED BY ONLY <1>4, <2>1, <2>3
<1>11. r2.head = m2[1]
  BY <1>0, <1>3, <1>e
<1>12. Ended(r2, m2) /\ r2.head # NULL
  <2>1. IsListOf(next3, m2, r2.head)
    BY ONLY <1>7, <1>8, <1>e, <1>11 DEF IsListOf
  <2>2. next3 = [r2.next EXCEPT ![r2.tail] = NULL]
    BY <1>0, <1>4 DEF CutOff
  <2>3. r2.tail # NULL /\ r2.head # NULL
    BY <1>0, <1>1, <1>e, <1>11, PacketSets
  <2>4. Last(m2) = r2.tail
    BY <1>0, <1>e DEF Last
  <2> QED BY ONLY <2>1, <2>2, <2>3, <2>4 DEF Ended
<1>13. Homed(r2, m2, q)
  <2>1. \A z \in QP : ToSet(cq2[z]) \subseteq ToSet(cq[z])
    <3>1. cq2[q] = s2 /\ \A z \in QP : z # q => cq2[z] = cq[z]
      BY ONLY <1>2, <1>4
    <3> QED BY ONLY <1>4, <1>6, <3>1
  <2>2. \A u \in ToSet(s) : u \div recv_pkt_num = q
    BY <1>0 DEF RxOk, Homed
  <2>3. \A u \in ToSet(m2) : u \div recv_pkt_num = q
    BY <1>0, <1>6, <1>e, <2>2 DEF RxOk, Homed
  <2>4. \A p \in r.user : List(r2.next, p) = List(r.next, p)
    BY <1>0, <1>1, <1>10
  <2>5. \A x \in QP : ToSet(r2.rq[x]) \cup ToSet(r2.cq[x]) \subseteq ToSet(r.rq[x]) \cup ToSet(r.cq[x])
    BY <1>0, <1>1, <2>1
  <2>6. Homed(r, m, q) /\ r2.user = r.user
    BY <1>0 DEF RxOk
  <2> QED BY ONLY <2>3, <2>4, <2>5, <2>6 DEF Homed
<1>14. ~failed => Filled(g, RecvPkt)
  BY <1>0, <1>1, <1>9, <1>10 DEF RxOk, Fills
<1>15. RxOk(r2, m2, "empty", q, failed)
  BY <1>0, <1>1, <1>9, <1>10, <1>12, <1>13, <1>14 DEF RxOk
<1> QED BY <1>4, <1>15

(* ibv_poll_cq() fails: the list being made is in no place.                *)
LEMMA RxDrops ==
    ASSUME NEW r, NEW m, NEW l, NEW q, NEW failed, RxOk(r, m, l, q, failed),
           NEW r2 \in RxRecord, r2.next = r.next, r2.rq = r.rq, r2.cq = r.cq,
           r2.head = NULL, r2.user = r.user, NEW l2, NEW q2
    PROVE  RxOk(r2, << >>, l2, q2, TRUE)
<1>1. PICK next, rq, cq, user, P, m2, s :
         /\ next = r.next /\ rq = r.rq /\ cq = r.cq /\ user = r.user
         /\ P = RecvPkt /\ m2 = << >> /\ s = r.cq[0]
  OBVIOUS
<1>2. /\ Pool(P, rq, cq, user, next, m) /\ Links(next, P) /\ s = cq[0] /\ 0 \in QP
      /\ cq \in [QP -> Seq(P)] /\ s \in Seq(P) /\ m2 \in Seq(P)
  <2>1. 0 \in QP
    BY DEF QP
  <2>2. << >> \in Seq(P)
    OBVIOUS
  <2>3. /\ Pool(RecvPkt, r.rq, r.cq, r.user, r.next, m) /\ Links(r.next, RecvPkt)
        /\ r.cq \in [QP -> Seq(RecvPkt)]
    BY RxBasics
  <2> QED BY <1>1, <2>1, <2>2, <2>3
<1>3. cq = [cq EXCEPT ![0] = s]
  BY ONLY <1>2
<1>4. Reshuffled(s, m, s, m2)
  <2>1. Distinct(s, m)
    BY ONLY <1>2, PoolQueue
  <2> QED BY ONLY <1>1, <2>1, Dropped
<1>5. Pool(P, rq, cq, user, next, m2)
  <2>1. \A u \in P : next[u] # next[u] => u \in ToSet(m) \/ u \in ToSet(s)
    OBVIOUS
  <2>2. PICK cq2, f, g : /\ cq2 = [cq EXCEPT ![0] = s]
                         /\ f = Places(rq, cq, user, next, m) /\ g = Places(rq, cq2, user, next, m2)
    OBVIOUS
  <2>3. Pool(P, rq, cq2, user, next, m2)
    BY ONLY <1>2, <1>4, <2>1, <2>2, PoolPolls
  <2> QED BY ONLY <1>3, <2>2, <2>3
<1>6. Homed(r2, << >>, q2)
  <2>1. ToSet(<< >>) = {}
    BY DEF ToSet
  <2> QED BY <2>1 DEF RxOk, Homed
<1> QED BY <1>1, <1>5, <1>6 DEF RxOk

(* The list being made is closed and goes to the user.                     *)
LEMMA RxHands ==
    ASSUME NEW r, NEW m, NEW q, NEW failed, RxOk(r, m, "empty", q, failed), r.head # NULL,
           NEW next2, next2 = [r.next EXCEPT ![r.tail] = NULL],
           NEW user2, user2 = r.user \cup {r.head},
           NEW r2 \in RxRecord, r2.next = next2, r2.rq = r.rq, r2.cq = r.cq,
           r2.head = NULL, r2.user = user2, NEW l2, NEW q2
    PROVE  RxOk(r2, << >>, l2, q2, failed)
<1>1. PICK next, rq, cq, user, P, p :
         /\ next = r.next /\ rq = r.rq /\ cq = r.cq /\ user = r.user
         /\ P = RecvPkt /\ p = r.head
  OBVIOUS
<1>n. PICK n, m2, s : n = Len(m) /\ m2 = SubSeq(m, n + 1, Len(m)) /\ s = SubSeq(m, 1, n)
  OBVIOUS
<1>2. /\ Pool(P, rq, cq, user, next, m) /\ m \in Seq(P) /\ user \in SUBSET P
      /\ next \in [P -> P \cup {NULL}] /\ Links(next, P)
  BY <1>1, RxBasics
<1>3. n \in 0 .. Len(m) /\ m = s /\ m2 = << >>
  <2>1. Len(m) \in Nat /\ m = SubSeq(m, 1, Len(m)) /\ SubSeq(m, Len(m) + 1, Len(m)) = << >>
    BY <1>2
  <2> QED BY <1>n, <2>1
<1>4. /\ IsListOf(next2, m, p) /\ m # << >> /\ m[1] = p /\ p \in P /\ r.tail = m[Len(m)]
  <2>1. IsListOf(next2, m, p) /\ r.tail = m[Len(m)]
    BY <1>1 DEF RxOk, Ended, Last
  <2>2. m # << >> /\ m[1] = p
    BY <2>1 DEF IsListOf
  <2>3. m[1] \in P
    BY ONLY <1>2, <2>2
  <2> QED BY <2>1, <2>2, <2>3
<1>5. r.tail \in P /\ r.tail \in ToSet(m) /\ p \in ToSet(m)
  <2>1. 1 \in 1 .. Len(m) /\ Len(m) \in 1 .. Len(m)
    BY ONLY <1>2, <1>4
  <2> QED BY ONLY <1>2, <1>4, <2>1, Elements
<1>6. /\ Links(next2, P)
      /\ \A u \in P : next2[u] # next[u] => u \in ToSet(m)
  <2>1. next2 = [next EXCEPT ![r.tail] = NULL]
    BY <1>1
  <2>2. next2 \in [P -> P \cup {NULL}] /\ \A u \in P : u # r.tail => next2[u] = next[u]
    BY ONLY <1>2, <1>5, <2>1
  <2> QED BY <1>2, <1>5, <2>2 DEF Links
<1>7. PICK f, g : f = Places(rq, cq, user, next, m) /\ g = Places(rq, cq, user2, next2, m2)
  OBVIOUS
<1>8. /\ Pool(P, rq, cq, user2, next2, m2) /\ Fills(f, g)
      /\ \A u \in user : List(next2, u) = List(next, u)
      /\ p \notin user /\ List(next2, p) = m
  <2>1. Cut(m, n, s, m2)
    BY ONLY <1>3, <1>n DEF Cut
  <2>2. IsListOf(next2, s, p) /\ user2 = user \cup {p}
    BY <1>1, <1>3, <1>4
  <2>3. p \in P
    BY <1>4
  <2>4. Pool(P, rq, cq, user2, next2, m2) /\ Fills(f, g)
    BY ONLY <1>2, <1>6, <1>7, <2>1, <2>2, <2>3, PoolHands
  <2>5. \A u \in user : List(next2, u) = List(next, u)
    BY ONLY <1>2, <1>6, <1>7, <2>1, <2>2, <2>3, PoolHands
  <2>6. p \notin user /\ List(next2, p) = s
    BY ONLY <1>2, <1>6, <1>7, <2>1, <2>2, <2>3, PoolHands
  <2> QED BY ONLY <1>3, <2>4, <2>5, <2>6
<1>9. Homed(r2, << >>, q2)
  <2>1. ToSet(<< >>) = {}
    BY DEF ToSet
  <2>2. \A u \in ToSet(m) : u \div recv_pkt_num = q
    BY DEF RxOk, Homed
  <2>3. \A u \in r2.user : \A v \in ToSet(List(r2.next, u)) : v \div recv_pkt_num = u \div recv_pkt_num
    <3> SUFFICES ASSUME NEW u \in user \cup {p}, NEW v \in ToSet(List(next2, u))
                 PROVE  v \div recv_pkt_num = u \div recv_pkt_num
      BY <1>1
    <3>1. CASE u = p
      BY <1>5, <1>8, <2>2, <3>1
    <3>2. CASE u \in user
      <4>1. \A w \in user : \A x \in ToSet(List(next, w)) : x \div recv_pkt_num = w \div recv_pkt_num
        BY <1>1 DEF RxOk, Homed
      <4> QED BY <1>8, <3>2, <4>1
    <3> QED BY <3>1, <3>2
  <2> QED BY <2>1, <2>3 DEF RxOk, Homed
<1>10. ~failed => Filled(g, RecvPkt)
  BY <1>1, <1>7, <1>8 DEF RxOk, Fills
<1>11. RxOk(r2, m2, l2, q2, failed)
  BY <1>1, <1>3, <1>7, <1>8, <1>9, <1>10 DEF RxOk
<1> QED BY <1>3, <1>11

(* A packet belongs to a queue pair there is.                              *)
LEMMA PairOf == \A p \in RecvPkt : p \div recv_pkt_num \in QP
<1> SUFFICES ASSUME NEW p \in RecvPkt PROVE p \div recv_pkt_num \in QP
  OBVIOUS
<1> DEFINE d == p \div recv_pkt_num
<1>1. p \in Nat /\ p < nqp * recv_pkt_num
  BY DEF RecvPkt
<1>2. d \in Nat /\ d * recv_pkt_num <= p
  BY <1>1
<1> HIDE DEF d
<1>3. d < nqp
  <2> SUFFICES ASSUME d >= nqp PROVE FALSE
    BY <1>2
  <2>1. d * recv_pkt_num >= nqp * recv_pkt_num
    BY <1>2
  <2> QED BY <1>1, <1>2, <2>1
<1> QED BY <1>2, <1>3 DEF d, QP

(* A list, or what a failure leaves of it, is posted at its queue pair.    *)
RxReleased(r, p, s, n, b, rest, x, t, t2, rq2, user2, r2) ==
    /\ p \in r.user /\ s = List(r.next, p) /\ Cut(s, n, b, rest)
    /\ x = p \div recv_pkt_num /\ t = r.rq[x] /\ t2 = t \o b
    /\ rq2 = [r.rq EXCEPT ![x] = t2] /\ user2 = r.user \ {p}
    /\ r2 \in RxRecord /\ r2.next = r.next /\ r2.rq = rq2 /\ r2.cq = r.cq
    /\ r2.head = r.head /\ r2.tail = r.tail /\ r2.user = user2

(* The first n packets of a user's list are posted again; unless it is all *)
(* of them, the call failed.                                               *)
LEMMA RxReleases ==
    ASSUME NEW r, NEW m, NEW l, NEW q, NEW failed, RxOk(r, m, l, q, failed),
           NEW p, NEW s, NEW n, NEW b, NEW rest, NEW x, NEW t, NEW t2, NEW rq2, NEW user2, NEW r2,
           RxReleased(r, p, s, n, b, rest, x, t, t2, rq2, user2, r2),
           NEW failed2, failed => failed2, n < Len(s) => failed2
    PROVE  RxOk(r2, m, l, q, failed2)
<1>0. /\ p \in r.user /\ s = List(r.next, p) /\ Cut(s, n, b, rest)
      /\ x = p \div recv_pkt_num /\ t = r.rq[x] /\ t2 = t \o b
      /\ rq2 = [r.rq EXCEPT ![x] = t2] /\ user2 = r.user \ {p}
      /\ r2 \in RxRecord /\ r2.next = r.next /\ r2.rq = rq2 /\ r2.cq = r.cq
      /\ r2.head = r.head /\ r2.tail = r.tail /\ r2.user = user2
  BY DEF RxReleased
<1>1. PICK next, rq, cq, user, P : /\ next = r.next /\ rq = r.rq /\ cq = r.cq /\ user = r.user
                                   /\ P = RecvPkt
  OBVIOUS
<1>2. /\ Pool(P, rq, cq, user, next, m) /\ p \in user /\ x \in QP
      /\ rq \in [QP -> Seq(P)] /\ t \in Seq(P)
      /\ s = List(next, p) /\ t = rq[x] /\ rq2 = [rq EXCEPT ![x] = t2] /\ user2 = user \ {p}
      /\ s \in Seq(P)
  <2>1. /\ Pool(RecvPkt, r.rq, r.cq, r.user, r.next, m)
        /\ r.rq \in [QP -> Seq(RecvPkt)] /\ r.user \in SUBSET RecvPkt
    BY RxBasics
  <2>2. x \in QP
    BY <1>0, <2>1, PairOf
  <2>3. List(r.next, p) \in Seq(RecvPkt)
    BY <1>0, <2>1 DEF Pool, Typed, IsListOf, Links
  <2> QED BY <1>0, <1>1, <2>1, <2>2, <2>3
<1>3. PICK f, g : f = Places(rq, cq, user, next, m) /\ g = Places(rq2, cq, user2, next, m)
  OBVIOUS
<1>4. Cut(s, n, b, rest) /\ t2 = t \o b
  BY <1>0
<1>5. Pool(P, rq2, cq, user2, next, m)
  BY ONLY <1>2, <1>3, <1>4, PoolPosts
<1>6. n = Len(s) => Fills(f, g)
  BY ONLY <1>2, <1>3, <1>4, PoolPosts
<1>7. rq2[x] = t2 /\ \A z \in QP : z # x => rq2[z] = rq[z]
  BY ONLY <1>2
<1>8. b \in Seq(P) /\ ToSet(b) \subseteq ToSet(s) /\ \A u \in ToSet(t2) : u \in ToSet(t) \/ u \in ToSet(b)
  <2>1. n \in 0 .. Len(s) /\ b = SubSeq(s, 1, n)
    BY <1>0 DEF Cut
  <2>2. b \in Seq(P) /\ Len(b) = n /\ \A i \in 1 .. n : b[i] = s[i] /\ i \in 1 .. Len(s)
    BY ONLY <1>2, <2>1
  <2>3. ToSet(b) \subseteq ToSet(s)
    BY ONLY <1>2, <2>2, Elements
  <2>4. /\ t2 \in Seq(P)
        /\ \A i \in 1 .. Len(t2) : \/ i \in 1 .. Len(t) /\ t2[i] = t[i]
                                   \/ i - Len(t) \in 1 .. Len(b) /\ t2[i] = b[i - Len(t)]
    BY ONLY <1>2, <1>4, <2>2
  <2>5. ASSUME NEW u \in ToSet(t2) PROVE u \in ToSet(t) \/ u \in ToSet(b)
    <3>1. PICK i \in 1 .. Len(t2) : u = t2[i]
      BY ONLY u \in ToSet(t2), <2>4, Elements
    <3>2. CASE i \in 1 .. Len(t) /\ t2[i] = t[i]
      BY ONLY <1>2, <3>1, <3>2, Elements
    <3>3. CASE i - Len(t) \in 1 .. Len(b) /\ t2[i] = b[i - Len(t)]
      BY ONLY <2>2, <3>1, <3>3, Elements
    <3> QED BY <2>4, <3>2, <3>3
  <2> QED BY <2>2, <2>3, <2>5
<1>9. Homed(r2, m, q)
  <2>1. Homed(r, m, q)
    BY DEF RxOk
  <2>2. \A u \in ToSet(s) : u \div recv_pkt_num = x
    BY <1>0, <2>1 DEF Homed
  <2>3. ASSUME NEW z \in QP, NEW u \in ToSet(rq2[z]) \cup ToSet(cq[z]) PROVE u \div recv_pkt_num = z
    <3>1. \A v \in ToSet(rq[z]) \cup ToSet(cq[z]) : v \div recv_pkt_num = z
      BY <1>1, <2>1 DEF Homed
    <3>2. CASE z = x
      <4>1. u \in ToSet(rq[z]) \cup ToSet(cq[z]) \/ u \in ToSet(s)
        BY ONLY <1>2, <1>7, <1>8, <2>3, <3>2
      <4> QED BY <2>2, <3>1, <3>2, <4>1
    <3>3. CASE z # x
      BY ONLY <1>7, <2>3, <3>1, <3>3
    <3> QED BY <3>2, <3>3
  <2> QED BY <1>0, <1>1, <2>1, <2>3 DEF Homed
<1>10. ~failed2 => Filled(g, RecvPkt)
  <2>1. n \in 0 .. Len(s) /\ Len(s) \in Nat
    BY <1>0, <1>2 DEF Cut
  <2>2. ~failed2 => n = Len(s) /\ ~failed
    BY <2>1
  <2> QED BY <1>1, <1>3, <1>6, <2>2 DEF RxOk, Fills
<1>11. Ended(r2, m) <=> Ended(r, m)
  BY <1>0 DEF Ended
<1> QED BY <1>0, <1>1, <1>3, <1>5, <1>9, <1>10, <1>11 DEF RxOk

(* What is used of TxOk over and over.                                     *)
LEMMA TxBasics ==
    ASSUME NEW t, NEW m, NEW failed, TxOk(t, m, failed)
    PROVE  /\ t \in TxRecord /\ Pool(SendPkt, t.sq, t.cq, t.user, t.next, m)
           /\ t.next \in [SendPkt -> SendPkt \cup {NULL}] /\ Links(t.next, SendPkt)
           /\ t.sq \in [QP -> Seq(SendPkt)] /\ t.cq \in [QP -> Seq(SendPkt)]
           /\ t.user \in SUBSET SendPkt
           /\ m \in Seq(SendPkt) /\ Inj(m)
<1>1. /\ t \in TxRecord /\ Pool(SendPkt, t.sq, t.cq, t.user, t.next, m)
      /\ t.next \in [SendPkt -> SendPkt \cup {NULL}] /\ Links(t.next, SendPkt)
      /\ t.sq \in [QP -> Seq(SendPkt)] /\ t.cq \in [QP -> Seq(SendPkt)]
      /\ t.user \in SUBSET SendPkt /\ m \in Seq(SendPkt)
  BY TxFields, PacketSets DEF TxOk, Pool, Typed
<1>2. Inj(m)
  <2>1. 0 \in QP
    BY DEF QP
  <2>2. \A x \in QP : Distinct(t.cq[x], m)
    BY ONLY <1>1, PoolQueue
  <2> QED BY <2>1, <2>2 DEF Distinct
<1> QED BY <1>1, <1>2

(* A new value for tx.                                                     *)
LEMMA TxMade ==
    ASSUME NEW t \in TxRecord, NEW next \in [SendPkt -> SendPkt \cup {NULL}],
           NEW head \in SendPkt \cup {NULL},
           NEW sq \in [QP -> Seq(SendPkt)], NEW cq \in [QP -> Seq(SendPkt)],
           NEW user \in SUBSET SendPkt,
           NEW t2, t2 = [t EXCEPT !.next = next, !.head = head, !.sq = sq, !.cq = cq, !.user = user]
    PROVE  /\ t2 \in TxRecord
           /\ t2.next = next /\ t2.head = head /\ t2.sq = sq /\ t2.cq = cq /\ t2.user = user
BY DEF TxRecord

TxSent(t, x, s, c, s2, c2, sq2, cq2, t2) ==
    /\ s = t.sq[x] /\ s # << >> /\ c = t.cq[x] /\ s2 = Tail(s) /\ c2 = Append(c, Head(s))
    /\ sq2 = [t.sq EXCEPT ![x] = s2] /\ cq2 = [t.cq EXCEPT ![x] = c2]
    /\ t2 \in TxRecord /\ t2.next = t.next /\ t2.sq = sq2 /\ t2.cq = cq2
    /\ t2.head = t.head /\ t2.user = t.user

(* A posted packet becomes a sent one.                                     *)
LEMMA TxTransmits ==
    ASSUME NEW t, NEW m, NEW failed, TxOk(t, m, failed), NEW x \in QP,
           NEW s, NEW c, NEW s2, NEW c2, NEW sq2, NEW cq2, NEW t2,
           TxSent(t, x, s, c, s2, c2, sq2, cq2, t2)
    PROVE  TxOk(t2, m, failed)
<1>0. /\ s = t.sq[x] /\ s # << >> /\ c = t.cq[x] /\ s2 = Tail(s) /\ c2 = Append(c, Head(s))
      /\ sq2 = [t.sq EXCEPT ![x] = s2] /\ cq2 = [t.cq EXCEPT ![x] = c2]
      /\ t2 \in TxRecord /\ t2.next = t.next /\ t2.sq = sq2 /\ t2.cq = cq2
      /\ t2.head = t.head /\ t2.user = t.user
  BY DEF TxSent
<1> USE <1>0
<1>1. PICK next, sq, cq, user, P : /\ next = t.next /\ sq = t.sq /\ cq = t.cq /\ user = t.user
                                   /\ P = SendPkt
  OBVIOUS
<1>2. /\ Pool(P, sq, cq, user, next, m) /\ sq \in [QP -> Seq(P)] /\ cq \in [QP -> Seq(P)]
      /\ s = sq[x] /\ c = cq[x] /\ s \in Seq(P) /\ c \in Seq(P) /\ x \in QP
      /\ sq2 = [sq EXCEPT ![x] = s2] /\ cq2 = [cq EXCEPT ![x] = c2]
  <2>1. /\ Pool(SendPkt, t.sq, t.cq, t.user, t.next, m)
        /\ t.sq \in [QP -> Seq(SendPkt)] /\ t.cq \in [QP -> Seq(SendPkt)]
    BY TxBasics
  <2> QED BY <1>1, <2>1
<1>3. PICK f, g : f = Places(sq, cq, user, next, m) /\ g = Places(sq2, cq2, user, next, m)
  OBVIOUS
<1>4. Pool(P, sq2, cq2, user, next, m) /\ Fills(f, g)
  BY ONLY <1>2, <1>3, s # << >>, s2 = Tail(s), c2 = Append(c, Head(s)), PoolCompletes
<1>5. Len(s2 \o c2) = Len(s \o c)
  BY ONLY <1>2, s # << >>, s2 = Tail(s), c2 = Append(c, Head(s))
<1>6. Polled(t2)
  <2>1. /\ sq2[x] = s2 /\ cq2[x] = c2
        /\ \A z \in QP : z # x => sq2[z] = sq[z] /\ cq2[z] = cq[z]
    BY ONLY <1>2
  <2>2. \A z \in QP : Len(sq[z] \o cq[z]) <= send_pkt_num
    BY <1>1 DEF TxOk, Polled
  <2>3. \A z \in QP : Len(sq2[z] \o cq2[z]) <= send_pkt_num
    BY ONLY <1>2, <1>5, <2>1, <2>2
  <2> QED BY <2>3 DEF Polled
<1>7. ~failed => Filled(g, SendPkt)
  BY <1>1, <1>3, <1>4 DEF TxOk, Fills
<1> QED BY <1>1, <1>3, <1>4, <1>6, <1>7 DEF TxOk

(* What was sent goes in front of the unused packets, the last one first.  *)
TxTaken(t, x, s, n, b, s2, u, last, next2, cq2, t2) ==
    /\ s = t.cq[x] /\ Cut(s, n, b, s2) /\ n # 0 /\ u = Reverse(b) /\ last = b[1]
    /\ next2 = [Linked(t.next, u) EXCEPT ![last] = t.head] /\ cq2 = [t.cq EXCEPT ![x] = s2]
    /\ t2 \in TxRecord /\ t2.next = next2 /\ t2.sq = t.sq /\ t2.cq = cq2
    /\ t2.head = b[Len(b)] /\ t2.user = t.user

(* A batch of sent packets is pushed on the unused ones.                   *)
LEMMA TxDrains ==
    ASSUME NEW t, NEW m, NEW failed, TxOk(t, m, failed), NEW x \in QP,
           NEW s, NEW n, NEW b, NEW s2, NEW u, NEW last, NEW next2, NEW cq2, NEW t2,
           TxTaken(t, x, s, n, b, s2, u, last, next2, cq2, t2)
    PROVE  TxOk(t2, u \o m, failed)
<1>0. /\ s = t.cq[x] /\ Cut(s, n, b, s2) /\ n # 0 /\ u = Reverse(b) /\ last = b[1]
      /\ next2 = [Linked(t.next, u) EXCEPT ![last] = t.head] /\ cq2 = [t.cq EXCEPT ![x] = s2]
      /\ t2 \in TxRecord /\ t2.next = next2 /\ t2.sq = t.sq /\ t2.cq = cq2
      /\ t2.head = b[Len(b)] /\ t2.user = t.user
  BY DEF TxTaken
<1> USE <1>0
<1>1. PICK next, sq, cq, user, P, m2, head :
         /\ next = t.next /\ sq = t.sq /\ cq = t.cq /\ user = t.user
         /\ P = SendPkt /\ m2 = u \o m /\ head = t.head
  OBVIOUS
<1>2. /\ Pool(P, sq, cq, user, next, m) /\ Links(next, P) /\ cq \in [QP -> Seq(P)]
      /\ sq \in [QP -> Seq(P)] /\ m \in Seq(P) /\ Inj(m)
      /\ s = cq[x] /\ s \in Seq(P) /\ x \in QP /\ cq2 = [cq EXCEPT ![x] = s2]
  <2>1. /\ Pool(SendPkt, t.sq, t.cq, t.user, t.next, m) /\ Links(t.next, SendPkt)
        /\ t.sq \in [QP -> Seq(SendPkt)] /\ t.cq \in [QP -> Seq(SendPkt)]
        /\ m \in Seq(SendPkt) /\ Inj(m)
    BY TxBasics
  <2> QED BY <1>1, <2>1
<1>3. Distinct(s, m)
  BY ONLY <1>2, PoolQueue
<1>4. /\ n \in Nat /\ n >= 1 /\ n <= Len(s) /\ b \in Seq(P) /\ s2 \in Seq(P) /\ Inj(b)
      /\ Len(b) = n /\ Len(s2) = Len(s) - n /\ ToSet(b) \subseteq ToSet(s)
  <2>1. Inj(s)
    BY ONLY <1>3 DEF Distinct
  <2>2. /\ n \in 0 .. Len(s) /\ b \in Seq(P) /\ s2 \in Seq(P) /\ Inj(b)
        /\ Len(b) = n /\ Len(s2) = Len(s) - n /\ ToSet(s) = ToSet(b) \cup ToSet(s2)
    BY ONLY <1>2, <2>1, Cut(s, n, b, s2), CutParts
  <2> QED BY ONLY <1>2, <2>2, n # 0
<1>5. /\ u \in Seq(P) /\ Len(u) = n /\ Inj(u) /\ ToSet(u) = ToSet(b)
      /\ u[n] = last /\ u[1] = b[Len(b)] /\ u # << >>
  <2>1. /\ Reverse(b) \in Seq(P) /\ Len(Reverse(b)) = Len(b)
        /\ \A i \in 1 .. Len(b) : Reverse(b)[i] = b[Len(b) - i + 1]
        /\ Inj(Reverse(b)) /\ ToSet(Reverse(b)) = ToSet(b)
    BY ONLY <1>4, InjReverse
  <2>2. /\ u \in Seq(P) /\ Len(u) = n /\ Inj(u) /\ ToSet(u) = ToSet(b)
        /\ \A i \in 1 .. n : u[i] = b[n - i + 1]
    BY ONLY <1>4, <2>1, u = Reverse(b)
  <2>3. u[n] = b[1] /\ u[1] = b[n]
    BY ONLY <1>4, <2>2
  <2>4. u # << >>
    BY ONLY <1>4, <2>2
  <2> QED BY ONLY <1>4, <2>2, <2>3, <2>4, last = b[1]
<1>6. Distinct(u, m)
  BY ONLY <1>3, <1>4, <1>5 DEF Distinct
<1>7. m2 \in Seq(P) /\ Reshuffled(s, m, s2, m2) /\ AllKept(s, m, s2, m2)
  <2>1. Cut(s, n, b, s2) /\ m2 = Reverse(b) \o m
    BY <1>1
  <2> QED BY ONLY <1>2, <1>3, <2>1, CutInFront
<1>8. Chained(next, m) /\ head = IF m = << >> THEN NULL ELSE m[1]
  <2>1. CASE m = << >>
    <3>1. Chained(next, m)
      BY <2>1 DEF Chained
    <3>2. t.head = NULL
      BY <2>1 DEF TxOk, IsListOf
    <3> QED BY <1>1, <2>1, <3>1, <3>2
  <2>2. CASE m # << >>
    <3>1. t.head # NULL /\ IsListOf(t.next, m, t.head)
      BY <2>2 DEF TxOk
    <3> QED BY <1>1, <2>2, <3>1 DEF IsListOf
  <2> QED BY <2>1, <2>2
<1>9. /\ Links(next2, P) /\ Chained(next2, m2) /\ OnlyLinksOf(ToSet(u), P, next, next2)
      /\ DOMAIN next2 = P
  <2>1. next2 = [Linked(next, u) EXCEPT ![u[Len(u)]] = head]
    BY <1>1, <1>5
  <2>2. Links(next2, P) /\ Chained(next2, u \o m) /\ OnlyLinksOf(ToSet(u), P, next, next2)
    BY ONLY <1>2, <1>5, <1>6, <1>8, <2>1, ChainPushed
  <2> QED BY <1>1, <2>2 DEF Links
<1>10. PICK f, g : f = Places(sq, cq, user, next, m) /\ g = Places(sq, cq2, user, next2, m2)
  OBVIOUS
<1>11. Pool(P, sq, cq2, user, next2, m2) /\ Fills(f, g)
  <2>1. \A r \in P : next2[r] # next[r] => r \in ToSet(m) \/ r \in ToSet(s)
    BY ONLY <1>4, <1>5, <1>9 DEF OnlyLinksOf
  <2>2. Pool(P, sq, cq2, user, next2, m2)
    BY ONLY <1>2, <1>4, <1>7, <1>9, <1>10, <2>1, PoolPolls
  <2>3. AllKept(s, m, s2, m2) => Fills(f, g)
    BY ONLY <1>2, <1>4, <1>7, <1>9, <1>10, <2>1, PoolPolls
  <2> QED BY ONLY <1>7, <2>2, <2>3
<1>12. IsListOf(t2.next, m2, t2.head) /\ t2.head # NULL
  <2>1. /\ m2 \in Seq(P) /\ Len(m2) = Len(u) + Len(m)
        /\ \A i \in 1 .. Len(u) + Len(m) : m2[i] = IF i <= Len(u) THEN u[i] ELSE m[i - Len(u)]
    <3>1. m2 = u \o m
      BY <1>1
    <3>2. u \in Seq(P) /\ m \in Seq(P)
      BY ONLY <1>2, <1>5
    <3>3. /\ u \o m \in Seq(P) /\ Len(u \o m) = Len(u) + Len(m)
          /\ \A i \in 1 .. Len(u) + Len(m) : (u \o m)[i] = IF i <= Len(u) THEN u[i] ELSE m[i - Len(u)]
      BY ONLY <3>2
    <3> QED BY ONLY <3>1, <3>3
  <2>2. m2 # << >> /\ m2[1] = u[1] /\ u[1] \in P
    <3>1. Len(u) >= 1 /\ Len(u) \in Nat /\ Len(m) \in Nat
      BY ONLY <1>2, <1>4, <1>5
    <3>2. m2[1] = u[1] /\ Len(m2) >= 1
      BY ONLY <2>1, <3>1
    <3>3. u[1] \in P
      BY ONLY <1>5, <3>1
    <3> QED BY ONLY <2>1, <3>2, <3>3
  <2>3. IsListOf(next2, m2, u[1])
    BY ONLY <1>9, <2>1, <2>2 DEF IsListOf
  <2>4. t2.head = u[1] /\ t2.next = next2
    BY <1>5
  <2> QED BY <1>1, <2>2, <2>3, <2>4, PacketSets
<1>13. Polled(t2)
  <2>1. cq2[x] = s2 /\ \A z \in QP : z # x => cq2[z] = cq[z]
    BY ONLY <1>2, <1>4
  <2>2. \A z \in QP : Len(sq[z] \o cq[z]) <= send_pkt_num
    BY <1>1 DEF TxOk, Polled
  <2>3. \A z \in QP : Len(cq2[z]) <= Len(cq[z]) /\ cq2[z] \in Seq(P)
    BY ONLY <1>2, <1>4, <2>1
  <2>4. \A z \in QP : Len(sq[z] \o cq2[z]) <= Len(sq[z] \o cq[z])
    BY ONLY <1>2, <2>3
  <2>5. \A z \in QP : Len(sq[z] \o cq2[z]) <= send_pkt_num
    BY ONLY <1>2, <2>2, <2>3, <2>4, IbvPacketsAssumption
  <2> QED BY <1>1, <2>5 DEF Polled
<1>14. ~failed => Filled(g, SendPkt)
  BY <1>1, <1>10, <1>11 DEF TxOk, Fills
<1>15. TxOk(t2, m2, failed)
  BY <1>1, <1>10, <1>11, <1>12, <1>13, <1>14 DEF TxOk
<1> QED BY <1>1, <1>15

(* A list cut in two by the link of its nth packet.                        *)
LEMMA ChainCut ==
    ASSUME NEW P, NEW next, Links(next, P), NEW m \in Seq(P), Inj(m), Chained(next, m),
           NEW n, NEW b, NEW rest, Cut(m, n, b, rest), n # 0,
           NEW last, last = m[n], NEW next2, next2 = [next EXCEPT ![last] = NULL],
           NEW head2, head2 = next[last]
    PROVE  /\ Links(next2, P) /\ IsListOf(next2, b, m[1])
           /\ OnlyLinksOf(ToSet(m), P, next, next2)
           /\ rest = << >> => head2 = NULL
           /\ rest # << >> => head2 # NULL /\ IsListOf(next2, rest, head2)
<1>1. /\ n \in Nat /\ n >= 1 /\ n <= Len(m) /\ n \in 1 .. Len(m) /\ Len(m) \in Nat
      /\ b \in Seq(P) /\ Len(b) = n /\ rest \in Seq(P) /\ Len(rest) = Len(m) - n
      /\ \A i \in 1 .. n : b[i] = m[i]
      /\ \A i \in 1 .. Len(m) - n : rest[i] = m[n + i]
      /\ \A i \in 1 .. Len(m) : m[i] \in P /\ m[i] # NULL
  <2>1. /\ n \in 0 .. Len(m) /\ b \in Seq(P) /\ Len(b) = n /\ rest \in Seq(P) /\ Len(rest) = Len(m) - n
        /\ \A i \in 1 .. n : b[i] = m[i]
        /\ \A i \in 1 .. Len(m) - n : rest[i] = m[n + i]
    BY CutParts
  <2>2. m \in Seq(P) /\ n # 0 /\ NULL \notin P
    BY DEF Links
  <2> QED BY ONLY <2>1, <2>2
<1>2. /\ last \in P /\ next \in [P -> P \cup {NULL}] /\ last = m[n] /\ next2 = [next EXCEPT ![last] = NULL]
  BY <1>1 DEF Links
<1>3. /\ next2 \in [P -> P \cup {NULL}] /\ next2[last] = NULL
      /\ \A p \in P : p # last => next2[p] = next[p]
  BY ONLY <1>2
<1>4. \A i \in 1 .. Len(m) : i # n => m[i] # last
  BY <1>1, <1>2 DEF Inj
<1>5. \A i \in 1 .. Len(m) : next[m[i]] = IF i < Len(m) THEN m[i + 1] ELSE NULL
  BY DEF Chained
<1>6. Chained(next2, b)
  <2> SUFFICES ASSUME NEW i \in 1 .. n PROVE next2[b[i]] = IF i < n THEN b[i + 1] ELSE NULL
    BY <1>1 DEF Chained
  <2>1. CASE i < n
    <3>1. i \in 1 .. Len(m) /\ i # n /\ i < Len(m) /\ i + 1 \in 1 .. n
      BY <1>1, <2>1
    <3>2. next2[m[i]] = m[i + 1]
      BY ONLY <1>1, <1>3, <1>4, <1>5, <3>1
    <3> QED BY ONLY <1>1, <2>1, <3>1, <3>2
  <2>2. CASE i = n
    BY ONLY <1>1, <1>2, <1>3, <2>2
  <2> QED BY <1>1, <2>1, <2>2
<1>7. Chained(next2, rest)
  <2> SUFFICES ASSUME NEW i \in 1 .. Len(m) - n
               PROVE  next2[rest[i]] = IF i < Len(m) - n THEN rest[i + 1] ELSE NULL
    BY <1>1 DEF Chained
  <2>1. n + i \in 1 .. Len(m) /\ n + i # n /\ (n + i < Len(m) <=> i < Len(m) - n)
    <3>1. n \in Nat /\ n >= 1 /\ n <= Len(m) /\ Len(m) \in Nat
      BY <1>1
    <3>2. i \in Nat /\ i >= 1 /\ i <= Len(m) - n
      BY ONLY <3>1, i \in 1 .. Len(m) - n
    <3> QED BY ONLY <3>1, <3>2
  <2>2. next2[m[n + i]] = IF n + i < Len(m) THEN m[n + i + 1] ELSE NULL
    BY ONLY <1>1, <1>3, <1>4, <1>5, <2>1
  <2>3. i < Len(m) - n => rest[i + 1] = m[n + i + 1]
    <3>1. ASSUME i < Len(m) - n PROVE i + 1 \in 1 .. Len(m) - n /\ n + (i + 1) = n + i + 1
      BY <1>1, <3>1
    <3> QED BY <1>1, <3>1
  <2>4. rest[i] = m[n + i]
    BY <1>1
  <2> QED BY ONLY <2>1, <2>2, <2>3, <2>4
<1>8. IsListOf(next2, b, m[1])
  <2>1. b # << >> /\ b[1] = m[1] /\ DOMAIN next2 = P
    BY ONLY <1>1, <1>3
  <2> QED BY ONLY <1>1, <1>6, <2>1 DEF IsListOf
<1>9. rest = << >> => next[last] = NULL
  <2> SUFFICES ASSUME rest = << >> PROVE next[last] = NULL
    OBVIOUS
  <2>1. n = Len(m)
    BY ONLY <1>1, rest = << >>
  <2> QED BY ONLY <1>1, <1>2, <1>5, <2>1
<1>10. rest # << >> => next[last] # NULL /\ IsListOf(next2, rest, next[last])
  <2> SUFFICES ASSUME rest # << >> PROVE next[last] # NULL /\ IsListOf(next2, rest, next[last])
    OBVIOUS
  <2>1. n < Len(m) /\ 1 \in 1 .. Len(m) - n /\ n + 1 \in 1 .. Len(m)
    BY ONLY <1>1, rest # << >>
  <2>2. next[last] = m[n + 1] /\ rest[1] = m[n + 1]
    BY ONLY <1>1, <1>2, <1>5, <2>1
  <2>3. DOMAIN next2 = P
    BY ONLY <1>3
  <2> QED BY ONLY <1>1, <1>7, <2>1, <2>2, <2>3, rest # << >> DEF IsListOf
<1>11. last \in ToSet(m)
  BY ONLY <1>1, <1>2, m \in Seq(P), Elements
<1> QED BY <1>2, <1>3, <1>8, <1>9, <1>10, <1>11 DEF Links, OnlyLinksOf

(* The user gets the first n of the unused packets.                        *)
TxPopped(t, m, n, b, m2, last, next2, user2, t2) ==
    /\ Cut(m, n, b, m2) /\ n # 0 /\ last = m[n]
    /\ next2 = [t.next EXCEPT ![last] = NULL] /\ user2 = t.user \cup {t.head}
    /\ t2 \in TxRecord /\ t2.next = next2 /\ t2.sq = t.sq /\ t2.cq = t.cq
    /\ t2.head = t.next[last] /\ t2.user = user2

(* The first n unused packets become a list of the user.                   *)
LEMMA TxPops ==
    ASSUME NEW t, NEW m, NEW failed, TxOk(t, m, failed), t.head # NULL,
           NEW n, NEW b, NEW m2, NEW last, NEW next2, NEW user2, NEW t2,
           TxPopped(t, m, n, b, m2, last, next2, user2, t2)
    PROVE  TxOk(t2, m2, failed)
<1>0. /\ Cut(m, n, b, m2) /\ n # 0 /\ last = m[n]
      /\ next2 = [t.next EXCEPT ![last] = NULL] /\ user2 = t.user \cup {t.head}
      /\ t2 \in TxRecord /\ t2.next = next2 /\ t2.sq = t.sq /\ t2.cq = t.cq
      /\ t2.head = t.next[last] /\ t2.user = user2
  BY DEF TxPopped
<1> USE <1>0
<1>1. PICK next, sq, cq, user, P, p, head2 :
         /\ next = t.next /\ sq = t.sq /\ cq = t.cq /\ user = t.user
         /\ P = SendPkt /\ p = t.head /\ head2 = t.next[last]
  OBVIOUS
<1>2. /\ Pool(P, sq, cq, user, next, m) /\ Links(next, P) /\ m \in Seq(P) /\ Inj(m)
      /\ next2 = [next EXCEPT ![last] = NULL] /\ user2 = user \cup {p}
      /\ Cut(m, n, b, m2) /\ n # 0 /\ last = m[n] /\ head2 = next[last]
  <2>1. /\ Pool(SendPkt, t.sq, t.cq, t.user, t.next, m) /\ Links(t.next, SendPkt)
        /\ m \in Seq(SendPkt) /\ Inj(m)
    BY TxBasics
  <2> QED BY <1>1, <2>1
<1>3. Chained(next, m) /\ m # << >> /\ m[1] = p /\ p \in P
  <2>1. IsListOf(next, m, p)
    BY <1>1 DEF TxOk
  <2>2. Chained(next, m) /\ m # << >> /\ m[1] = p
    BY <2>1 DEF IsListOf
  <2>3. m[1] \in P
    BY ONLY <1>2, <2>2
  <2> QED BY <2>2, <2>3
<1>4. Links(next2, P) /\ IsListOf(next2, b, m[1]) /\ OnlyLinksOf(ToSet(m), P, next, next2)
  BY ONLY <1>2, <1>3, ChainCut
<1>5. /\ m2 = << >> => head2 = NULL
      /\ m2 # << >> => head2 # NULL /\ IsListOf(next2, m2, head2)
  <2>1. m2 = << >> => head2 = NULL
    BY ONLY <1>2, <1>3, ChainCut
  <2>2. m2 # << >> => head2 # NULL
    BY ONLY <1>2, <1>3, ChainCut
  <2>3. m2 # << >> => IsListOf(next2, m2, head2)
    BY ONLY <1>2, <1>3, ChainCut
  <2> QED BY ONLY <2>1, <2>2, <2>3
<1>6. PICK f, g : f = Places(sq, cq, user, next, m) /\ g = Places(sq, cq, user2, next2, m2)
  OBVIOUS
<1>7. Pool(P, sq, cq, user2, next2, m2) /\ Fills(f, g)
  <2>1. \A u \in P : next2[u] # next[u] => u \in ToSet(m)
    BY ONLY <1>4 DEF OnlyLinksOf
  <2>2. IsListOf(next2, b, p)
    BY ONLY <1>3, <1>4
  <2>3. /\ Pool(P, sq, cq, user, next, m) /\ Cut(m, n, b, m2) /\ user2 = user \cup {p}
        /\ Links(next2, P) /\ p \in P
    BY ONLY <1>2, <1>3, <1>4
  <2>4. Pool(P, sq, cq, user2, next2, m2)
    BY ONLY <1>6, <2>1, <2>2, <2>3, PoolHands
  <2>5. Fills(f, g)
    BY ONLY <1>6, <2>1, <2>2, <2>3, PoolHands
  <2> QED BY <2>4, <2>5
<1>8. ~failed => Filled(g, SendPkt)
  BY <1>1, <1>6, <1>7 DEF TxOk, Fills
<1>9. Polled(t2)
  BY DEF TxOk, Polled
<1>10. /\ t2.head = NULL => m2 = << >>
       /\ t2.head # NULL => IsListOf(t2.next, m2, t2.head)
  BY <1>1, <1>5
<1> QED BY <1>1, <1>6, <1>7, <1>8, <1>9, <1>10 DEF TxOk

(* A list, or what a failure leaves of it, is posted at a queue pair.      *)
TxPosted(t, x, p, s, n, b, rest, c, c2, sq2, user2, t2) ==
    /\ p \in t.user /\ s = List(t.next, p) /\ Cut(s, n, b, rest)
    /\ c = t.sq[x] /\ n + Len(c \o t.cq[x]) <= send_pkt_num /\ c2 = c \o b
    /\ sq2 = [t.sq EXCEPT ![x] = c2] /\ user2 = t.user \ {p}
    /\ t2 \in TxRecord /\ t2.next = t.next /\ t2.sq = sq2 /\ t2.cq = t.cq
    /\ t2.head = t.head /\ t2.user = user2

(* The first n packets of a user's list are posted; unless it is all of    *)
(* them, the call failed.                                                  *)
LEMMA TxPosts ==
    ASSUME NEW t, NEW m, NEW failed, TxOk(t, m, failed), NEW x \in QP,
           NEW p, NEW s, NEW n, NEW b, NEW rest, NEW c, NEW c2, NEW sq2, NEW user2, NEW t2,
           TxPosted(t, x, p, s, n, b, rest, c, c2, sq2, user2, t2),
           NEW failed2, failed => failed2, n < Len(s) => failed2
    PROVE  TxOk(t2, m, failed2)
<1>0. /\ p \in t.user /\ s = List(t.next, p) /\ Cut(s, n, b, rest)
      /\ c = t.sq[x] /\ n + Len(c \o t.cq[x]) <= send_pkt_num /\ c2 = c \o b
      /\ sq2 = [t.sq EXCEPT ![x] = c2] /\ user2 = t.user \ {p}
      /\ t2 \in TxRecord /\ t2.next = t.next /\ t2.sq = sq2 /\ t2.cq = t.cq
      /\ t2.head = t.head /\ t2.user = user2
  BY DEF TxPosted
<1> USE <1>0
<1>1. PICK next, sq, cq, user, P, d :
         /\ next = t.next /\ sq = t.sq /\ cq = t.cq /\ user = t.user
         /\ P = SendPkt /\ d = t.cq[x]
  OBVIOUS
<1>2. /\ Pool(P, sq, cq, user, next, m) /\ p \in user /\ x \in QP
      /\ sq \in [QP -> Seq(P)] /\ cq \in [QP -> Seq(P)] /\ c \in Seq(P) /\ d \in Seq(P)
      /\ s = List(next, p) /\ c = sq[x] /\ d = cq[x] /\ sq2 = [sq EXCEPT ![x] = c2]
      /\ user2 = user \ {p} /\ s \in Seq(P) /\ Cut(s, n, b, rest) /\ c2 = c \o b
      /\ n + Len(c \o d) <= send_pkt_num
  <2>1. /\ Pool(SendPkt, t.sq, t.cq, t.user, t.next, m)
        /\ t.sq \in [QP -> Seq(SendPkt)] /\ t.cq \in [QP -> Seq(SendPkt)]
    BY TxBasics
  <2>2. List(t.next, p) \in Seq(SendPkt)
    BY <2>1 DEF Pool, Typed, IsListOf, Links
  <2> QED BY <1>1, <2>1, <2>2
<1>3. PICK f, g : f = Places(sq, cq, user, next, m) /\ g = Places(sq2, cq, user2, next, m)
  OBVIOUS
<1>4. Pool(P, sq2, cq, user2, next, m)
  BY ONLY <1>2, <1>3, PoolPosts
<1>5. n = Len(s) => Fills(f, g)
  BY ONLY <1>2, <1>3, PoolPosts
<1>6. n \in 0 .. Len(s) /\ n \in Nat /\ Len(s) \in Nat /\ b \in Seq(P) /\ Len(b) = n
  <2>1. n \in 0 .. Len(s) /\ b = SubSeq(s, 1, n)
    BY DEF Cut
  <2> QED BY ONLY <1>2, <2>1
<1>7. Polled(t2)
  <2>1. sq2[x] = c2 /\ \A z \in QP : z # x => sq2[z] = sq[z]
    BY ONLY <1>2
  <2>2. \A z \in QP : Len(sq[z] \o cq[z]) <= send_pkt_num
    BY <1>1 DEF TxOk, Polled
  <2>3. Len(c2 \o d) = n + Len(c \o d)
    <3>1. c \in Seq(P) /\ b \in Seq(P) /\ d \in Seq(P) /\ Len(b) = n
      BY <1>2, <1>6
    <3>2. Len((c \o b) \o d) = Len(b) + Len(c \o d)
      BY ONLY <3>1
    <3> QED BY ONLY <1>2, <3>1, <3>2
  <2>4. \A z \in QP : Len(sq2[z] \o cq[z]) <= send_pkt_num
    <3> SUFFICES ASSUME NEW z \in QP PROVE Len(sq2[z] \o cq[z]) <= send_pkt_num
      OBVIOUS
    <3>1. CASE z = x
      BY ONLY <1>2, <2>1, <2>3, <3>1
    <3>2. CASE z # x
      BY ONLY <2>1, <2>2, <3>2, z \in QP
    <3> QED BY <3>1, <3>2
  <2> QED BY <1>1, <2>4 DEF Polled
<1>8. ~failed2 => Filled(g, SendPkt)
  <2>1. ~failed2 => n = Len(s) /\ ~failed
    BY <1>6
  <2> QED BY <1>1, <1>3, <1>5, <2>1 DEF TxOk, Fills
<1> QED BY <1>1, <1>3, <1>4, <1>7, <1>8 DEF TxOk

(* The state that init leaves                                              *)

(* Packets that are posted, or in one list, are in one place.              *)
LEMMA FreshPool ==
    ASSUME NEW P, NEW next, Links(next, P), NEW posted \in [QP -> Seq(P)],
           NEW completed \in [QP -> Seq(P)], NEW more \in Seq(P), NEW user, user = {},
           \A q \in QP : completed[q] = << >> /\ Inj(posted[q]), Inj(more),
           \A q, r \in QP : q # r => ToSet(posted[q]) \cap ToSet(posted[r]) = {},
           \A q \in QP : ToSet(posted[q]) \cap ToSet(more) = {},
           \A p \in P : p \in ToSet(more) \/ \E q \in QP : p \in ToSet(posted[q]),
           NEW f, f = Places(posted, completed, user, next, more)
    PROVE  Pool(P, posted, completed, user, next, more) /\ Filled(f, P)
<1>1. Typed(P, posted, completed, user, next, more)
  BY DEF Typed
<1>2. f \in [Place(P) -> Seq(P)]
  BY ONLY <1>1, f = Places(posted, completed, user, next, more), PlacesAre
<1>3. /\ \A q \in QP : /\ f[Spot("posted", q)] = posted[q] /\ f[Spot("completed", q)] = << >>
                       /\ Spot("posted", q) \in Place(P)
      /\ \A p \in P : f[Spot("user", p)] = << >>
      /\ f[Spot("more", 0)] = more /\ Spot("more", 0) \in Place(P)
  <2>1. ASSUME NEW q \in QP
        PROVE  /\ f[Spot("posted", q)] = posted[q] /\ f[Spot("completed", q)] = << >>
               /\ Spot("posted", q) \in Place(P)
    BY QueuePlaces, PlacesIn
  <2>2. ASSUME NEW p \in P PROVE f[Spot("user", p)] = << >>
    <3>1. p \in DOMAIN next
      BY DEF Links
    <3>2. f[Spot("user", p)] = IF p \in user THEN List(next, p) ELSE << >>
      BY ONLY <3>1, f = Places(posted, completed, user, next, more), UserPlace
    <3> QED BY <3>2
  <2>3. f[Spot("more", 0)] = more /\ Spot("more", 0) \in Place(P)
    BY MorePlace, PlacesIn
  <2> QED BY <2>1, <2>2, <2>3
<1>4. \A a \in Place(P) : \/ \E q \in QP : a = Spot("posted", q)
                          \/ a = Spot("more", 0)
                          \/ f[a] = << >>
  <2>1. \A a \in Place(P) : \/ \E q \in QP : a \in {Spot("posted", q), Spot("completed", q)}
                            \/ \E p \in P : a = Spot("user", p)
                            \/ a = Spot("more", 0)
    BY DEF Place, Spot
  <2> QED BY <1>3, <2>1
<1>5. Inj(<< >>) /\ ToSet(<< >>) = {}
  BY DEF Inj, ToSet
<1>6. \A a \in Place(P) : Inj(f[a])
  BY <1>3, <1>4, <1>5
<1>7. ASSUME NEW a \in Place(P), NEW b \in Place(P), a # b PROVE ToSet(f[a]) \cap ToSet(f[b]) = {}
  <2>1. CASE f[a] = << >> \/ f[b] = << >>
    BY <1>5, <2>1
  <2>2. CASE a = Spot("more", 0) /\ \E q \in QP : b = Spot("posted", q)
    BY <1>3, <2>2
  <2>3. CASE b = Spot("more", 0) /\ \E q \in QP : a = Spot("posted", q)
    BY <1>3, <2>3
  <2>4. CASE (\E q \in QP : a = Spot("posted", q)) /\ (\E q \in QP : b = Spot("posted", q))
    <3>1. PICK q \in QP, r \in QP : a = Spot("posted", q) /\ b = Spot("posted", r)
      BY <2>4
    <3>2. q # r
      BY <1>7, <3>1
    <3> QED BY <1>3, <3>1, <3>2
  <2> QED BY <1>4, <1>7, <2>1, <2>2, <2>3, <2>4
<1>8. Apart(f)
  <2>1. \A a, b \in Place(P) : a # b => ToSet(f[a]) \cap ToSet(f[b]) = {}
    BY <1>7
  <2> QED BY ONLY <1>2, <1>6, <2>1, ApartIs
<1>9. \A p \in P : \E a \in Place(P) : p \in ToSet(f[a])
  BY <1>3
<1>10. Filled(f, P)
  BY ONLY <1>2, <1>9, FilledIs
<1> QED BY <1>1, <1>8, <1>10 DEF Pool

(* Packet j of pair q, of n each.                                          *)
LEMMA PairAndPlace ==
    ASSUME NEW n \in Nat \ {0}, NEW q \in Nat, NEW j \in 0 .. n - 1
    PROVE  (q * n + j) \div n = q /\ (q * n + j) % n = j
<1> DEFINE p == q * n + j
           d == p \div n
           r == p % n
<1>1. p \in Nat
  OBVIOUS
<1>2. d \in Int /\ r \in 0 .. n - 1 /\ p = n * d + r
  BY <1>1
<1> HIDE DEF d, r
<1>3. n * q + j = n * d + r
  BY <1>2
<1>4. d = q
  <2>1. CASE d >= q + 1
    <3>1. n * d >= n * q + n
      BY <1>2, <2>1
    <3> QED BY <1>2, <1>3, <3>1
  <2>2. CASE d <= q - 1
    <3>1. n * d <= n * q - n
      BY <1>2, <2>2
    <3> QED BY <1>2, <1>3, <3>1
  <2> QED BY <1>2, <2>1, <2>2
<1>5. r = j
  BY <1>2, <1>3, <1>4
<1> QED BY <1>4, <1>5 DEF d, r

(* The receive packets that init posts at the queue pairs are all there    *)
(* are, each at its own.                                                   *)
LEMMA FreshRequests ==
    ASSUME NEW rq, rq = FreshRx.rq
    PROVE  /\ rq \in [QP -> Seq(RecvPkt)]
           /\ \A q \in QP : Inj(rq[q]) /\ \A p \in ToSet(rq[q]) : p \div recv_pkt_num = q
           /\ \A p \in RecvPkt : \E q \in QP : p \in ToSet(rq[q])
<1>1. \A q \in QP, j \in 0 .. recv_pkt_num - 1 :
         /\ q * recv_pkt_num + j \in RecvPkt
         /\ (q * recv_pkt_num + j) \div recv_pkt_num = q
  <2> SUFFICES ASSUME NEW q \in QP, NEW j \in 0 .. recv_pkt_num - 1
               PROVE  /\ q * recv_pkt_num + j \in RecvPkt
                      /\ (q * recv_pkt_num + j) \div recv_pkt_num = q
    OBVIOUS
  <2>1. q \in Nat /\ q + 1 <= nqp
    BY DEF QP
  <2>2. (q + 1) * recv_pkt_num <= nqp * recv_pkt_num
    BY <2>1
  <2>3. (q + 1) * recv_pkt_num = q * recv_pkt_num + recv_pkt_num /\ q * recv_pkt_num \in Nat
    BY <2>1
  <2>4. q * recv_pkt_num + j \in RecvPkt
    BY <2>2, <2>3 DEF RecvPkt
  <2> QED BY <2>1, <2>4, PairAndPlace
<1>2. rq = [q \in QP |-> [k \in 1 .. recv_pkt_num |-> q * recv_pkt_num + k - 1]]
  BY DEF FreshRx
<1>3. \A q \in QP : /\ rq[q] \in Seq(RecvPkt) /\ Len(rq[q]) = recv_pkt_num
                    /\ \A k \in 1 .. recv_pkt_num :
                          /\ rq[q][k] = q * recv_pkt_num + (k - 1)
                          /\ rq[q][k] \in RecvPkt /\ rq[q][k] \div recv_pkt_num = q
  <2> SUFFICES ASSUME NEW q \in QP
               PROVE  /\ rq[q] \in Seq(RecvPkt) /\ Len(rq[q]) = recv_pkt_num
                      /\ \A k \in 1 .. recv_pkt_num :
                            /\ rq[q][k] = q * recv_pkt_num + (k - 1)
                            /\ rq[q][k] \in RecvPkt /\ rq[q][k] \div recv_pkt_num = q
    OBVIOUS
  <2>1. rq[q] = [k \in 1 .. recv_pkt_num |-> q * recv_pkt_num + k - 1] /\ q \in Nat
    BY <1>2 DEF QP
  <2>2. \A k \in 1 .. recv_pkt_num : rq[q][k] = q * recv_pkt_num + (k - 1)
    BY <2>1
  <2>3. \A k \in 1 .. recv_pkt_num : rq[q][k] \in RecvPkt /\ rq[q][k] \div recv_pkt_num = q
    <3>1. \A k \in 1 .. recv_pkt_num : k - 1 \in 0 .. recv_pkt_num - 1
      OBVIOUS
    <3> QED BY <1>1, <2>2, <3>1
  <2>4. rq[q] \in [1 .. recv_pkt_num -> RecvPkt] /\ recv_pkt_num \in Nat
    BY <2>1, <2>3
  <2>5. rq[q] \in Seq(RecvPkt) /\ Len(rq[q]) = recv_pkt_num
    BY ONLY <2>4
  <2> QED BY <2>2, <2>3, <2>5
<1>4. rq \in [QP -> Seq(RecvPkt)]
  BY <1>2, <1>3
<1>5. \A q \in QP : Inj(rq[q])
  <2> SUFFICES ASSUME NEW q \in QP, NEW i \in 1 .. recv_pkt_num, NEW j \in 1 .. recv_pkt_num,
                      rq[q][i] = rq[q][j]
               PROVE  i = j
    BY <1>3 DEF Inj
  <2>1. q * recv_pkt_num + (i - 1) = q * recv_pkt_num + (j - 1) /\ q * recv_pkt_num \in Int
    BY <1>3 DEF QP
  <2> QED BY <2>1
<1>6. \A q \in QP : \A p \in ToSet(rq[q]) : p \div recv_pkt_num = q
  BY <1>3, Elements
<1>7. ASSUME NEW p \in RecvPkt PROVE \E q \in QP : p \in ToSet(rq[q])
  <2>1. PICK d, j : d = p \div recv_pkt_num /\ j = p % recv_pkt_num
    OBVIOUS
  <2>2. d \in QP
    BY <2>1, PairOf
  <2>3. j \in 0 .. recv_pkt_num - 1 /\ p = recv_pkt_num * d + j /\ d \in Int
    BY <2>1 DEF RecvPkt
  <2>4. PICK k \in 1 .. recv_pkt_num : k = j + 1
    BY <2>3
  <2>5. p = d * recv_pkt_num + (k - 1)
    BY <2>3, <2>4
  <2>6. rq[d][k] = d * recv_pkt_num + (k - 1)
    BY ONLY <1>3, <2>2
  <2>7. rq[d] \in Seq(RecvPkt) /\ k \in 1 .. Len(rq[d])
    BY ONLY <1>3, <2>2
  <2> QED BY ONLY <2>2, <2>5, <2>6, <2>7, Elements
<1> QED BY <1>4, <1>5, <1>6, <1>7

(* The receive side is typed,                                              *)
LEMMA FreshRxTyped == FreshRx \in RxRecord
<1>1. FreshRx.next \in [RecvPkt -> RecvPkt \cup {NULL}]
  <2> SUFFICES ASSUME NEW p \in RecvPkt, (p + 1) % recv_pkt_num # 0 PROVE p + 1 \in RecvPkt
    BY DEF FreshRx
  <2>1. nqp * recv_pkt_num \in Nat /\ nqp \in Nat /\ 0 \in 0 .. recv_pkt_num - 1
    OBVIOUS
  <2>2. (nqp * recv_pkt_num + 0) % recv_pkt_num = 0
    BY ONLY <2>1, IbvPacketsAssumption, PairAndPlace
  <2>3. p \in Nat /\ p + 1 <= nqp * recv_pkt_num
    BY <2>1 DEF RecvPkt
  <2>4. p + 1 # nqp * recv_pkt_num
    BY <2>1, <2>2
  <2> QED BY <2>1, <2>3, <2>4 DEF RecvPkt
<1>2. FreshRx.rq \in [QP -> Seq(RecvPkt)]
  BY FreshRequests
<1>3. PerPair(<< >>) \in [QP -> Seq(RecvPkt)] /\ PerPair(TRUE) \in [QP -> BOOLEAN]
  BY DEF PerPair
<1>4. << >> \in Seq(QP)
  OBVIOUS
<1>5. PICK next, rq, cq, armed : /\ next = FreshRx.next /\ rq = FreshRx.rq
                                 /\ cq = PerPair(<< >>) /\ armed = PerPair(TRUE)
  OBVIOUS
<1>6. FreshRx = [next |-> next, rq |-> rq, cq |-> cq, armed |-> armed, events |-> << >>,
                 head |-> NULL, tail |-> NULL, user |-> {}]
  BY <1>5 DEF FreshRx
<1>7. /\ next \in [RecvPkt -> RecvPkt \cup {NULL}] /\ rq \in [QP -> Seq(RecvPkt)]
      /\ cq \in [QP -> Seq(RecvPkt)] /\ armed \in [QP -> BOOLEAN]
      /\ NULL \in RecvPkt \cup {NULL} /\ {} \in SUBSET RecvPkt
  BY <1>1, <1>2, <1>3, <1>5
<1> QED BY ONLY <1>4, <1>6, <1>7 DEF RxRecord

(* and right.                                                              *)
LEMMA FreshRxOk ==
    ASSUME NEW l, NEW q, NEW failed
    PROVE  RxOk(FreshRx, << >>, l, q, failed)
<1>1. PICK r, rq, cq, next, more : /\ r = FreshRx /\ rq = r.rq /\ cq = r.cq /\ next = r.next
                                   /\ more = << >>
  OBVIOUS
<1>2. /\ r \in RxRecord /\ rq \in [QP -> Seq(RecvPkt)] /\ cq \in [QP -> Seq(RecvPkt)]
      /\ next \in [RecvPkt -> RecvPkt \cup {NULL}] /\ more \in Seq(RecvPkt)
  BY <1>1, FreshRxTyped, RxFields
<1>3. /\ \A x \in QP : Inj(rq[x]) /\ \A p \in ToSet(rq[x]) : p \div recv_pkt_num = x
      /\ \A p \in RecvPkt : \E x \in QP : p \in ToSet(rq[x])
  BY <1>1, FreshRequests
<1>4. r.head = NULL /\ r.user = {} /\ \A x \in QP : cq[x] = << >>
  BY <1>1 DEF FreshRx, PerPair
<1>5. Links(next, RecvPkt)
  BY <1>2, PacketSets
<1>6. Inj(more) /\ ToSet(more) = {}
  BY <1>1 DEF Inj, ToSet
<1>7. \A x, y \in QP : x # y => ToSet(rq[x]) \cap ToSet(rq[y]) = {}
  BY <1>3
<1>8. \A x \in QP : ToSet(rq[x]) \cap ToSet(more) = {}
  BY <1>6
<1>9. PICK f, user : f = Places(rq, cq, user, next, more) /\ user = {}
  OBVIOUS
<1>10. Pool(RecvPkt, rq, cq, user, next, more) /\ Filled(f, RecvPkt)
  <2>1. \A p \in RecvPkt : p \in ToSet(more) \/ \E x \in QP : p \in ToSet(rq[x])
    BY <1>3
  <2>2. \A x \in QP : cq[x] = << >> /\ Inj(rq[x])
    BY <1>3, <1>4
  <2> QED BY ONLY <1>2, <1>5, <1>6, <1>7, <1>8, <1>9, <2>1, <2>2, FreshPool
<1>11. Homed(r, more, q)
  <2>1. \A x \in QP : ToSet(r.cq[x]) = {}
    BY <1>1, <1>4, <1>6
  <2> QED BY <1>1, <1>3, <1>4, <1>6, <2>1 DEF Homed
<1>12. RxOk(r, more, l, q, failed)
  BY <1>1, <1>2, <1>4, <1>9, <1>10, <1>11 DEF RxOk
<1> QED BY <1>1, <1>12

(* The send packets, all of them unused.                                   *)
LEMMA FreshTxOk ==
    ASSUME NEW failed, NEW more, more = [k \in 1 .. nqp * send_pkt_num |-> k - 1]
    PROVE  TxOk(FreshTx, more, failed)
<1>1. PICK t, sq, cq, next, N : /\ t = FreshTx /\ sq = t.sq /\ cq = t.cq /\ next = t.next
                                /\ N = nqp * send_pkt_num
  OBVIOUS
<1>2. N \in Nat /\ N >= 1 /\ SendPkt = 0 .. N - 1
  <2>1. nqp * send_pkt_num \in Nat /\ nqp * send_pkt_num # 0
    OBVIOUS
  <2> QED BY <1>1, <2>1 DEF SendPkt
<1>3. /\ more \in Seq(SendPkt) /\ Len(more) = N
      /\ \A k \in 1 .. N : more[k] = k - 1
  <2>1. more = [k \in 1 .. N |-> k - 1]
    BY <1>1
  <2>2. more \in [1 .. N -> SendPkt]
    BY <1>2, <2>1
  <2> QED BY ONLY <1>2, <2>1, <2>2
<1>4. /\ next = [p \in SendPkt |-> IF p + 1 \in SendPkt THEN p + 1 ELSE NULL]
      /\ sq = [x \in QP |-> << >>] /\ cq = [x \in QP |-> << >>] /\ t.head = 0 /\ t.user = {}
      /\ t = [next |-> next, head |-> 0, sq |-> sq, cq |-> cq, user |-> {}]
  BY <1>1 DEF FreshTx, PerPair
<1>5. /\ next \in [SendPkt -> SendPkt \cup {NULL}] /\ sq \in [QP -> Seq(SendPkt)]
      /\ cq \in [QP -> Seq(SendPkt)] /\ 0 \in SendPkt
  <2>1. next \in [SendPkt -> SendPkt \cup {NULL}]
    BY ONLY <1>4
  <2>2. sq \in [QP -> Seq(SendPkt)] /\ cq \in [QP -> Seq(SendPkt)]
    BY ONLY <1>4
  <2>3. 0 \in SendPkt
    BY ONLY <1>2
  <2> QED BY <2>1, <2>2, <2>3
<1>6. t \in TxRecord
  BY <1>4, <1>5 DEF TxRecord
<1>7. Links(next, SendPkt)
  BY <1>5, PacketSets
<1>8. Inj(more)
  <2>1. \A i, j \in 1 .. N : more[i] = more[j] => i = j
    BY ONLY <1>2, <1>3
  <2> QED BY <1>3, <2>1 DEF Inj
<1>9. Inj(<< >>) /\ ToSet(<< >>) = {}
  BY DEF Inj, ToSet
<1>10. \A p \in SendPkt : p \in ToSet(more)
  <2> SUFFICES ASSUME NEW p \in SendPkt PROVE p \in ToSet(more)
    OBVIOUS
  <2>1. p + 1 \in 1 .. N /\ more[p + 1] = p
    BY ONLY p \in SendPkt, <1>2, <1>3
  <2> QED BY ONLY <1>3, <2>1, Elements
<1>11. PICK f, user : f = Places(sq, cq, user, next, more) /\ user = {}
  OBVIOUS
<1>12. Pool(SendPkt, sq, cq, user, next, more) /\ Filled(f, SendPkt)
  <2>1. /\ \A x \in QP : cq[x] = << >> /\ Inj(sq[x])
        /\ \A x, y \in QP : x # y => ToSet(sq[x]) \cap ToSet(sq[y]) = {}
        /\ \A x \in QP : ToSet(sq[x]) \cap ToSet(more) = {}
    BY <1>4, <1>9
  <2>2. \A p \in SendPkt : p \in ToSet(more) \/ \E x \in QP : p \in ToSet(sq[x])
    BY <1>10
  <2> QED BY ONLY <1>3, <1>5, <1>7, <1>8, <1>11, <2>1, <2>2, FreshPool
<1>13. Polled(t)
  <2>1. \A x \in QP : t.sq[x] = << >> /\ t.cq[x] = << >>
    BY <1>1, <1>4
  <2>2. Len(<< >> \o << >>) <= send_pkt_num
    <3>1. Len(<< >> \o << >>) = 0
      OBVIOUS
    <3> QED BY <3>1
  <2>3. \A x \in QP : Len(t.sq[x] \o t.cq[x]) <= send_pkt_num
    BY ONLY <2>1, <2>2
  <2> QED BY ONLY <2>3 DEF Polled
<1>14. IsListOf(next, more, t.head)
  <2>1. DOMAIN next = SendPkt
    BY ONLY <1>4
  <2>2. more # << >> /\ more[1] = t.head
    BY ONLY <1>2, <1>3, <1>4
  <2>3. Chained(next, more)
    <3> SUFFICES ASSUME NEW i \in 1 .. Len(more)
                 PROVE  next[more[i]] = IF i < Len(more) THEN more[i + 1] ELSE NULL
      BY DEF Chained
    <3>0. i \in 1 .. N /\ Len(more) = N
      BY ONLY <1>3, i \in 1 .. Len(more)
    <3>1. more[i] = i - 1 /\ i - 1 \in SendPkt /\ (i < N => i + 1 \in 1 .. N /\ more[i + 1] = i)
      BY ONLY <1>2, <1>3, <3>0
    <3>2. next[i - 1] = IF i \in SendPkt THEN i ELSE NULL
      <4>1. i - 1 + 1 = i
        BY <1>2, <3>0
      <4> QED BY ONLY <1>4, <3>1, <4>1
    <3>3. i \in SendPkt <=> i < N
      BY ONLY <1>2, <3>0
    <3> QED BY ONLY <3>0, <3>1, <3>2, <3>3
  <2> QED BY <1>3, <2>1, <2>2, <2>3 DEF IsListOf
<1>15. t.head # NULL
  BY <1>4 DEF NULL
<1>16. TxOk(t, more, failed)
  BY <1>1, <1>6, <1>11, <1>12, <1>13, <1>14, <1>15, <1>4 DEF TxOk
<1> QED BY <1>1, <1>16

(* Where the calls are                                                     *)

(* Every step leaves the call at a place with a queue pair and a number    *)
(* that fit.                                                               *)
LEMMA CallsMove ==
    ASSUME CallsOk, rx \in RxRecord, NextReceive \/ NextSend
    PROVE  CallsOk' /\ (pkt_failed => pkt_failed')
<1>1. 0 \in QP
  BY DEF QP
<1>2. Succeeds \/ Fails \/ pkt_failed' = TRUE
      => pkt_failed' \in BOOLEAN /\ (pkt_failed => pkt_failed')
  <2>1. Succeeds => pkt_failed' = pkt_failed
    BY DEF Succeeds
  <2>2. Fails => pkt_failed' = TRUE
    BY DEF Fails
  <2>3. pkt_failed \in BOOLEAN
    BY DEF CallsOk
  <2>4. CASE pkt_failed' = pkt_failed
    BY ONLY <2>3, <2>4
  <2>5. CASE pkt_failed' = TRUE
    BY ONLY <2>5
  <2> QED BY ONLY <2>1, <2>2, <2>4, <2>5
<1>3. ASSUME NEW s \in {"RTR", "RTS"}, NEW Pairs
      PROVE  Ready(s, Pairs) \in [QP -> {"INIT", "RTR", "RTS"}]
  BY DEF Ready, CallsOk
<1>4. ASSUME NEW s \in {"RTR", "RTS"}, NotReady(s) PROVE CallsOk' /\ (pkt_failed => pkt_failed')
  <2>1. PICK q \in QP, t \in Below(s) : qstate' = [Ready(s, 0 .. q - 1) EXCEPT ![q] = t]
    BY <1>4 DEF NotReady
  <2>2. t \in {"INIT", "RTR", "RTS"}
    BY DEF Below
  <2>3. qstate' \in [QP -> {"INIT", "RTR", "RTS"}]
    BY <1>3, <2>1, <2>2
  <2> QED BY <1>2, <1>4, <2>3 DEF NotReady, callVars, CallsOk
<1>5. CASE \E q \in QP : Arrive(q) \/ Transmit(q)
  BY <1>2, <1>5 DEF Arrive, Transmit, callVars, CallsOk
<1>6. CASE RecvPkts \/ GetPkts
  <2>1. qstate' \in [QP -> {"INIT", "RTR", "RTS"}]
    BY <1>3, <1>6 DEF RecvPkts, GetPkts
  <2> QED BY <1>1, <1>2, <1>6, <2>1 DEF RecvPkts, GetPkts, Call, CallsOk
<1>7. CASE Timeout \/ PollFails \/ RearmFails \/ EmptyFails \/ Emptied \/ DrainFails \/ Pop
  <2>1. Done /\ UNCHANGED qstate /\ (Succeeds \/ Fails)
    BY <1>7 DEF Timeout, PollFails, RearmFails, EmptyFails, Emptied, DrainFails, Pop
  <2> QED BY <1>1, <1>2, <2>1 DEF Done, Call, CallsOk
<1>8. CASE GetEvent
  <2>1. Head(rx.events) \in QP
    <3>1. rx.events \in Seq(QP) /\ rx.events # << >>
      BY <1>8, RxFields DEF GetEvent
    <3> QED BY ONLY <3>1
  <2> QED BY <1>2, <1>8, <2>1 DEF GetEvent, Call, CallsOk
<1>9. CASE Rearm \/ Empty \/ Drain \/ Release \/ ReleaseFailsHalfway \/ SendPkts \/ SendFails
  BY <1>2, <1>9 DEF Rearm, Empty, Drain, Release, ReleaseFailsHalfway, SendPkts, SendFails,
     Call, callVars, CallsOk
<1>10. CASE Drained
  BY <1>1, <1>2, <1>10 DEF Drained, Call, CallsOk
<1> QED BY <1>4, <1>5, <1>6, <1>7, <1>8, <1>9, <1>10 DEF NextReceive, NextSend

(* What the other kind of calls leaves alone                               *)

(* Receiving leaves the send side alone,                                   *)
LEMMA ReceiveTx ==
    ASSUME TxOk(tx, Unused, pkt_failed), NextReceive, pkt_failed => pkt_failed'
    PROVE  TxOk(tx', Unused, pkt_failed')
<1>1. UNCHANGED tx
  BY DEF NextReceive, Arrive, RecvPkts, Timeout, PollFails, GetEvent, Rearm, RearmFails, Empty,
     EmptyFails, Emptied, Release, ReleaseFailsHalfway, NotReady
<1> QED BY <1>1 DEF TxOk

(* sending the receive side.                                               *)
LEMMA SendRx ==
    ASSUME RxOk(rx, Making, lpc, lqp, pkt_failed), NextSend, pkt_failed => pkt_failed'
    PROVE  RxOk(rx', Making, lpc', lqp', pkt_failed')
<1>1. UNCHANGED rx
  BY DEF NextSend, Transmit, GetPkts, Drain, DrainFails, Drained, Pop, SendPkts, SendFails, NotReady
<1>2. UNCHANGED <<lpc, lqp>> \/ lpc # "empty"
  BY DEF NextSend, Transmit, GetPkts, Drain, DrainFails, Drained, Pop, SendPkts, SendFails, NotReady,
     callVars
<1>3. PICK r, m, l, q, failed : /\ r = rx /\ m = Making /\ l = lpc /\ q = lqp
                                /\ failed = pkt_failed
  OBVIOUS
<1>4. PICK l2, q2, failed2 : l2 = lpc' /\ q2 = lqp' /\ failed2 = pkt_failed'
  OBVIOUS
<1>5. RxOk(r, m, l, q, failed) /\ r \in RxRecord
  BY <1>3 DEF RxOk
<1>6. ((l2 = l /\ q2 = q) \/ l # "empty") /\ (failed => failed2)
  BY <1>2, <1>3, <1>4
<1>7. RxOk(r, m, l2, q2, failed2)
  BY ONLY <1>5, <1>6, RxKeeps
<1> QED BY <1>1, <1>3, <1>4, <1>7

(* What one call of ibv_poll_cq() takes                                    *)

(* The lesser of two numbers.                                              *)
LEMMA MinOfTwo ==
    ASSUME NEW a \in Nat, NEW b \in Nat
    PROVE  Min({a, b}) \in {a, b} /\ Min({a, b}) <= a /\ Min({a, b}) <= b
<1>1. \E x \in {a, b} : \A y \in {a, b} : x <= y
  <2>1. CASE a <= b
    BY <2>1
  <2>2. CASE b <= a
    BY <2>2
  <2> QED BY <2>1, <2>2
<1> QED BY <1>1 DEF Min

(* A batch is a cut of the queue, with one completion at least.            *)
LEMMA BatchIs ==
    ASSUME NEW P, NEW cq \in Seq(P), cq # << >>, NEW b, b = Batch(cq), NEW s2, s2 = Rest(cq)
    PROVE  /\ Cut(cq, Len(b), b, s2) /\ Len(b) # 0
           /\ b \in Seq(P) /\ s2 \in Seq(P) /\ b[1] \in P /\ b[Len(b)] \in P
           /\ Head(b) = b[1] /\ Last(b) = b[Len(b)]
<1>1. PICK n : n = Min({WC_BATCH_SIZE, Len(cq)})
  OBVIOUS
<1>2. Len(cq) \in Nat /\ Len(cq) >= 1
  OBVIOUS
<1>3. n \in Nat /\ n >= 1 /\ n <= Len(cq)
  <2>1. WC_BATCH_SIZE \in Nat /\ WC_BATCH_SIZE >= 1
    OBVIOUS
  <2>2. n \in {WC_BATCH_SIZE, Len(cq)} /\ n <= Len(cq)
    BY ONLY <1>1, <1>2, <2>1, MinOfTwo
  <2> QED BY <1>2, <2>1, <2>2
<1>4. b = SubSeq(cq, 1, n) /\ s2 = SubSeq(cq, Len(b) + 1, Len(cq))
  BY <1>1 DEF Batch, Rest
<1>5. b \in Seq(P) /\ Len(b) = n
  BY ONLY <1>3, <1>4, cq \in Seq(P)
<1>6. s2 \in Seq(P)
  BY ONLY <1>2, <1>3, <1>4, <1>5, cq \in Seq(P)
<1>7. Cut(cq, Len(b), b, s2) /\ Len(b) # 0
  BY ONLY <1>2, <1>3, <1>4, <1>5 DEF Cut
<1>8. b[1] \in P /\ b[Len(b)] \in P /\ Head(b) = b[1] /\ Last(b) = b[Len(b)]
  BY ONLY <1>3, <1>5 DEF Last
<1> QED BY <1>5, <1>6, <1>7, <1>8

(* Receiving                                                               *)

(* Steps that move no receive packet.                                      *)
LEMMA RxWaits ==
    ASSUME CallsOk, RxOk(rx, Making, lpc, lqp, pkt_failed), pkt_failed => pkt_failed',
           \/ RecvPkts \/ Timeout \/ PollFails \/ GetEvent \/ Rearm \/ RearmFails
           \/ NotReady("RTR")
    PROVE  RxOk(rx', Making, lpc', lqp', pkt_failed')
<1>1. PICK r, m, l, q, failed : /\ r = rx /\ m = Making /\ l = lpc /\ q = lqp
                                /\ failed = pkt_failed
  OBVIOUS
<1>2. PICK r2, l2, q2, failed2 : r2 = rx' /\ l2 = lpc' /\ q2 = lqp' /\ failed2 = pkt_failed'
  OBVIOUS
<1>3. ((l2 = l /\ q2 = q) \/ l # "empty") /\ (failed => failed2)
  BY <1>1, <1>2 DEF RecvPkts, Timeout, PollFails, GetEvent, Rearm, RearmFails, NotReady, callVars
<1>4. RxOk(r, m, l, q, failed) /\ r \in RxRecord
  BY <1>1 DEF RxOk
<1>5. /\ r.events \in Seq(QP) /\ r.armed \in [QP -> BOOLEAN] /\ lqp \in QP
  BY <1>4, RxFields DEF CallsOk
<1>6. /\ r2 \in RxRecord /\ r2.next = r.next /\ r2.rq = r.rq /\ r2.cq = r.cq
      /\ r2.head = r.head /\ r2.tail = r.tail /\ r2.user = r.user
  <2>1. CASE GetEvent
    <3>1. Tail(r.events) \in Seq(QP) /\ r2 = [r EXCEPT !.events = Tail(@)]
      BY <1>1, <1>2, <1>5, <2>1 DEF GetEvent
    <3> QED BY <1>4, <3>1 DEF RxRecord
  <2>2. CASE Rearm
    <3>1. PICK armed : armed = [r.armed EXCEPT ![lqp] = TRUE]
      OBVIOUS
    <3>2. armed \in [QP -> BOOLEAN]
      BY ONLY <1>5, <3>1
    <3>3. r2 = [r EXCEPT !.armed = armed]
      BY <1>1, <1>2, <2>2, <3>1 DEF Rearm
    <3> QED BY <1>4, <3>2, <3>3 DEF RxRecord
  <2>3. CASE RecvPkts \/ Timeout \/ PollFails \/ RearmFails \/ NotReady("RTR")
    BY <1>1, <1>2, <1>4, <2>3 DEF RecvPkts, Timeout, PollFails, RearmFails, NotReady
  <2> QED BY <2>1, <2>2, <2>3
<1>7. RxOk(r2, m, l2, q2, failed2)
  BY ONLY <1>3, <1>4, <1>6, RxKeeps
<1> QED BY <1>1, <1>2, <1>7

(* The NIC receives a packet.                                              *)
LEMMA ArriveRx ==
    ASSUME RxOk(rx, Making, lpc, lqp, pkt_failed), NEW x \in QP, Arrive(x)
    PROVE  RxOk(rx', Making, lpc', lqp', pkt_failed')
<1>1. PICK r, m, l, q, failed : /\ r = rx /\ m = Making /\ l = lpc /\ q = lqp
                                /\ failed = pkt_failed
  OBVIOUS
<1>2. RxOk(r, m, l, q, failed)
  BY <1>1
<1>3. /\ r \in RxRecord /\ r.rq \in [QP -> Seq(RecvPkt)] /\ r.cq \in [QP -> Seq(RecvPkt)]
      /\ r.events \in Seq(QP) /\ r.armed \in [QP -> BOOLEAN]
  BY <1>2, RxBasics, RxFields
<1>4. PICK s, t, s2, t2 : s = r.rq[x] /\ t = r.cq[x] /\ s2 = Tail(s) /\ t2 = Append(t, Head(s))
  OBVIOUS
<1>5. PICK rq2, cq2 : rq2 = [r.rq EXCEPT ![x] = s2] /\ cq2 = [r.cq EXCEPT ![x] = t2]
  OBVIOUS
<1>6. PICK armed, events : /\ armed = [r.armed EXCEPT ![x] = FALSE]
                           /\ events = IF r.armed[x] THEN Append(r.events, x) ELSE r.events
  OBVIOUS
<1>7. s \in Seq(RecvPkt) /\ s # << >> /\ t \in Seq(RecvPkt)
  BY <1>1, <1>3, <1>4 DEF Arrive
<1>8. s2 \in Seq(RecvPkt) /\ t2 \in Seq(RecvPkt)
  BY ONLY <1>4, <1>7
<1>9. /\ rq2 \in [QP -> Seq(RecvPkt)] /\ cq2 \in [QP -> Seq(RecvPkt)]
      /\ armed \in [QP -> BOOLEAN] /\ events \in Seq(QP)
  BY ONLY <1>3, <1>5, <1>6, <1>8, x \in QP
<1>10. PICK r2 : r2 = [r EXCEPT !.rq = rq2, !.cq = cq2, !.armed = armed, !.events = events]
  OBVIOUS
<1>11. /\ r2 \in RxRecord /\ r2.next = r.next /\ r2.rq = rq2 /\ r2.cq = cq2
       /\ r2.head = r.head /\ r2.tail = r.tail /\ r2.user = r.user
  BY ONLY <1>3, <1>9, <1>10 DEF RxRecord
<1>12. rx' = r2 /\ UNCHANGED <<lpc, lqp, pkt_failed>>
  BY <1>1, <1>4, <1>5, <1>6, <1>10 DEF Arrive, Succeeds, callVars
<1>13. RxOk(r2, m, l, q, failed)
  <2>1. RxArrival(r, x, s, t, s2, t2, rq2, cq2, r2)
    BY ONLY <1>4, <1>5, <1>7, <1>11 DEF RxArrival
  <2> QED BY ONLY <1>2, <2>1, x \in QP, RxArrives
<1> QED BY <1>1, <1>12, <1>13

(* The queue is polled,                                                    *)
LEMMA EmptyRx ==
    ASSUME CallsOk, RxOk(rx, Making, lpc, lqp, pkt_failed), Empty
    PROVE  \E m : RxOk(rx', m, lpc', lqp', pkt_failed')
<1>1. PICK r, m, q, failed : r = rx /\ m = Making /\ q = lqp /\ failed = pkt_failed
  OBVIOUS
<1>2. RxOk(r, m, "empty", q, failed) /\ q \in QP
  BY <1>1 DEF Empty, CallsOk
<1>3. /\ r \in RxRecord /\ r.cq \in [QP -> Seq(RecvPkt)]
      /\ r.next \in [RecvPkt -> RecvPkt \cup {NULL}]
      /\ r.head \in RecvPkt \cup {NULL} /\ m \in Seq(RecvPkt) /\ Distinct(r.cq[q], m)
  BY <1>2, RxBasics, RxFields
<1>4. PICK s, b, s2 : s = r.cq[q] /\ b = Batch(s) /\ s2 = Rest(s)
  OBVIOUS
<1>5. s \in Seq(RecvPkt) /\ s # << >>
  BY <1>1, <1>2, <1>3, <1>4 DEF Empty
<1>6. PICK n : n = Len(b)
  OBVIOUS
<1>7. /\ Cut(s, n, b, s2) /\ n # 0
      /\ b \in Seq(RecvPkt) /\ s2 \in Seq(RecvPkt) /\ b[1] \in RecvPkt /\ b[Len(b)] \in RecvPkt
      /\ Head(b) = b[1] /\ Last(b) = b[Len(b)]
  BY ONLY <1>4, <1>5, <1>6, BatchIs, IbvPacketsAssumption
<1>8. PICK c, next2, cq2, head2, tail2 :
         /\ c = (IF r.head = NULL THEN << >> ELSE <<r.tail>>) \o b
         /\ next2 = Linked(r.next, c) /\ cq2 = [r.cq EXCEPT ![q] = s2]
         /\ head2 = (IF r.head = NULL THEN b[1] ELSE r.head) /\ tail2 = b[Len(b)]
  OBVIOUS
<1>9. c \in Seq(RecvPkt)
  <2>1. r.head # NULL => r.tail \in RecvPkt
    <3>1. r.head # NULL => m # << >> /\ r.tail = m[Len(m)]
      BY <1>2 DEF RxOk, Ended, IsListOf, Last
    <3> QED BY ONLY <1>3, <3>1
  <2> QED BY ONLY <1>7, <1>8, <2>1
<1>10. next2 \in [RecvPkt -> RecvPkt \cup {NULL}]
  <2>1. DOMAIN r.next = RecvPkt
    BY <1>3
  <2>2. ASSUME NEW p \in RecvPkt PROVE next2[p] \in RecvPkt \cup {NULL}
    <3>1. next2[p] = IF \E i \in 1 .. Len(c) - 1 : c[i] = p
                     THEN c[1 + CHOOSE i \in 1 .. Len(c) - 1 : c[i] = p] ELSE r.next[p]
      BY ONLY <1>8, <2>1, p \in RecvPkt DEF Linked
    <3>2. \A i \in 1 .. Len(c) - 1 : c[1 + i] \in RecvPkt
      BY ONLY <1>9
    <3> QED BY ONLY <1>3, <3>1, <3>2, p \in RecvPkt
  <2>3. DOMAIN next2 = RecvPkt /\ next2 = [p \in RecvPkt |-> next2[p]]
    BY ONLY <1>8, <2>1 DEF Linked
  <2> QED BY ONLY <2>2, <2>3
<1>11. /\ cq2 \in [QP -> Seq(RecvPkt)] /\ head2 \in RecvPkt \cup {NULL}
       /\ tail2 \in RecvPkt \cup {NULL}
  <2>1. cq2 \in [QP -> Seq(RecvPkt)]
    BY ONLY <1>2, <1>3, <1>7, <1>8
  <2>2. head2 \in RecvPkt \cup {NULL} /\ tail2 \in RecvPkt \cup {NULL}
    BY ONLY <1>3, <1>7, <1>8
  <2> QED BY ONLY <2>1, <2>2
<1>12. PICK r2 : r2 = [r EXCEPT !.cq = cq2, !.next = next2, !.head = head2, !.tail = tail2]
  OBVIOUS
<1>13. /\ r2 \in RxRecord /\ r2.next = next2 /\ r2.rq = r.rq /\ r2.cq = cq2
       /\ r2.head = head2 /\ r2.tail = tail2 /\ r2.user = r.user
  BY ONLY <1>3, <1>10, <1>11, <1>12 DEF RxRecord
<1>14. rx' = r2 /\ UNCHANGED <<lpc, lqp, pkt_failed>> /\ lpc = "empty"
  BY <1>1, <1>4, <1>7, <1>8, <1>12 DEF Empty, Succeeds, callVars
<1>15. RxOk(r2, m \o b, "empty", q, failed)
  <2>1. /\ r2.head = IF r.head = NULL THEN b[1] ELSE r.head
        /\ r2.tail = b[Len(b)]
    BY ONLY <1>8, <1>13
  <2>2. /\ c = (IF r.head = NULL THEN << >> ELSE <<r.tail>>) \o b
        /\ next2 = Linked(r.next, c) /\ cq2 = [r.cq EXCEPT ![q] = s2] /\ s = r.cq[q]
    BY ONLY <1>4, <1>8
  <2>3. RxTaken(r, q, s, n, b, s2, c, next2, cq2, r2)
    BY ONLY <1>7, <1>13, <2>1, <2>2 DEF RxTaken
  <2> QED BY ONLY <1>2, <2>3, RxEmpties
<1> QED BY <1>1, <1>14, <1>15

(* or that fails,                                                          *)
LEMMA EmptyFailsRx ==
    ASSUME RxOk(rx, Making, lpc, lqp, pkt_failed), EmptyFails
    PROVE  \E m : RxOk(rx', m, lpc', lqp', pkt_failed')
<1>1. PICK r, m, l, q, failed : /\ r = rx /\ m = Making /\ l = lpc /\ q = lqp
                                /\ failed = pkt_failed
  OBVIOUS
<1>2. PICK r2, l2, q2 : r2 = rx' /\ l2 = lpc' /\ q2 = lqp'
  OBVIOUS
<1>3. RxOk(r, m, l, q, failed) /\ r \in RxRecord
  BY <1>1 DEF RxOk
<1>4. r2 = [r EXCEPT !.head = NULL, !.tail = NULL] /\ pkt_failed' = TRUE
  BY <1>1, <1>2 DEF EmptyFails, Fails
<1>5. /\ r2 \in RxRecord /\ r2.next = r.next /\ r2.rq = r.rq /\ r2.cq = r.cq
      /\ r2.head = NULL /\ r2.user = r.user
  BY ONLY <1>3, <1>4 DEF RxRecord
<1>6. RxOk(r2, << >>, l2, q2, TRUE)
  BY ONLY <1>3, <1>5, RxDrops
<1> QED BY <1>2, <1>4, <1>6

(* or the list is returned.                                                *)
LEMMA EmptiedRx ==
    ASSUME RxOk(rx, Making, lpc, lqp, pkt_failed), Emptied
    PROVE  \E m : RxOk(rx', m, lpc', lqp', pkt_failed')
<1>1. PICK r, m, q, failed : r = rx /\ m = Making /\ q = lqp /\ failed = pkt_failed
  OBVIOUS
<1>2. PICK r2, l2, q2 : r2 = rx' /\ l2 = lpc' /\ q2 = lqp'
  OBVIOUS
<1>3. RxOk(r, m, "empty", q, failed) /\ r \in RxRecord /\ UNCHANGED pkt_failed
  <2>1. lpc = "empty" /\ UNCHANGED pkt_failed
    BY DEF Emptied, Succeeds
  <2> QED BY <1>1, <2>1 DEF RxOk
<1>4. CASE r.head # NULL
  <2>1. PICK next2, user2 : /\ next2 = [r.next EXCEPT ![r.tail] = NULL]
                            /\ user2 = r.user \cup {r.head}
    OBVIOUS
  <2>2. r2 = [r EXCEPT !.next = next2, !.user = user2, !.head = NULL, !.tail = NULL]
    BY <1>1, <1>2, <1>4, <2>1 DEF Emptied
  <2>3. next2 \in [RecvPkt -> RecvPkt \cup {NULL}] /\ user2 \in SUBSET RecvPkt
    <3>1. /\ r.next \in [RecvPkt -> RecvPkt \cup {NULL}] /\ r.user \in SUBSET RecvPkt
          /\ r.head \in RecvPkt \cup {NULL}
      BY <1>3, RxFields
    <3> QED BY ONLY <1>4, <2>1, <3>1
  <2>4. /\ r2 \in RxRecord /\ r2.next = next2 /\ r2.rq = r.rq /\ r2.cq = r.cq
        /\ r2.head = NULL /\ r2.user = user2
    BY ONLY <1>3, <2>2, <2>3 DEF RxRecord
  <2>5. RxOk(r2, << >>, l2, q2, failed)
    BY ONLY <1>3, <1>4, <2>1, <2>4, RxHands
  <2> QED BY <1>1, <1>2, <1>3, <2>5
<1>5. CASE r.head = NULL
  <2>1. r2 = r
    BY <1>1, <1>2, <1>5 DEF Emptied
  <2>2. m = << >>
    BY <1>3, <1>5 DEF RxOk
  <2>3. RxOk(r2, m, l2, q2, failed)
    <3>1. ToSet(m) = {}
      BY ONLY <2>2 DEF ToSet
    <3>2. Homed(r, m, q2)
      BY ONLY <1>3, <3>1 DEF RxOk, Homed
    <3> QED BY ONLY <1>3, <1>5, <2>1, <3>2 DEF RxOk
  <2> QED BY <1>1, <1>2, <1>3, <2>3
<1> QED BY <1>4, <1>5

(* A list is released, all of it or up to a request that is refused.       *)
LEMMA ReleaseRx ==
    ASSUME CallsOk, RxOk(rx, Making, lpc, lqp, pkt_failed), Release \/ ReleaseFailsHalfway,
           pkt_failed => pkt_failed'
    PROVE  RxOk(rx', Making, lpc', lqp', pkt_failed')
<1>1. PICK r, m, l, q, failed : /\ r = rx /\ m = Making /\ l = lpc /\ q = lqp
                                /\ failed = pkt_failed
  OBVIOUS
<1>2. RxOk(r, m, l, q, failed)
  BY <1>1
<1>3. /\ r \in RxRecord /\ r.rq \in [QP -> Seq(RecvPkt)] /\ r.user \in SUBSET RecvPkt
      /\ \A p \in r.user : List(r.next, p) \in Seq(RecvPkt)
  <2>1. /\ r \in RxRecord /\ r.rq \in [QP -> Seq(RecvPkt)] /\ r.user \in SUBSET RecvPkt
        /\ Pool(RecvPkt, r.rq, r.cq, r.user, r.next, m)
    BY ONLY <1>2, RxBasics, IbvContextAssumption, IbvFlowAssumption, IbvPacketsAssumption
  <2>2. \A p \in r.user : List(r.next, p) \in Seq(RecvPkt)
    BY ONLY <2>1 DEF Pool, Typed, IsListOf, Links
  <2> QED BY ONLY <2>1, <2>2
<1>4. UNCHANGED <<lpc, lqp>>
  BY DEF Release, ReleaseFailsHalfway, callVars
<1>5. ASSUME NEW p \in r.user, NEW s, s = List(r.next, p), NEW n \in 0 .. Len(s), NEW r2,
             r2 = [r EXCEPT !.rq[p \div recv_pkt_num] = @ \o SubSeq(s, 1, n), !.user = @ \ {p}],
             NEW failed2, failed => failed2, n < Len(s) => failed2
      PROVE  RxOk(r2, m, l, q, failed2)
  <2>1. PICK b, rest, x, t : /\ b = SubSeq(s, 1, n) /\ rest = SubSeq(s, n + 1, Len(s))
                             /\ x = p \div recv_pkt_num /\ t = r.rq[x]
    OBVIOUS
  <2>2. PICK t2, rq2, user2 : t2 = t \o b /\ rq2 = [r.rq EXCEPT ![x] = t2] /\ user2 = r.user \ {p}
    OBVIOUS
  <2>3. Cut(s, n, b, rest)
    BY <1>5, <2>1 DEF Cut
  <2>4. x \in QP /\ t \in Seq(RecvPkt) /\ s \in Seq(RecvPkt)
    BY <1>3, <1>5, <2>1, PairOf
  <2>5. b \in Seq(RecvPkt)
    BY ONLY <2>1, <2>4, n \in 0 .. Len(s)
  <2>6. rq2 \in [QP -> Seq(RecvPkt)] /\ user2 \in SUBSET RecvPkt
    BY ONLY <1>3, <2>2, <2>4, <2>5
  <2>7. r2 = [r EXCEPT !.rq = rq2, !.user = user2]
    BY <1>5, <2>1, <2>2
  <2>8. /\ r2 \in RxRecord /\ r2.next = r.next /\ r2.rq = rq2 /\ r2.cq = r.cq
        /\ r2.head = r.head /\ r2.tail = r.tail /\ r2.user = user2
    BY ONLY <1>3, <2>6, <2>7 DEF RxRecord
  <2>9. RxReleased(r, p, s, n, b, rest, x, t, t2, rq2, user2, r2)
    BY ONLY <1>5, <2>1, <2>2, <2>3, <2>8 DEF RxReleased
  <2> QED BY ONLY <1>2, <1>5, <2>9, RxReleases
<1>6. CASE Release
  <2>1. PICK p \in r.user : rx' = [r EXCEPT !.rq[p \div recv_pkt_num] = @ \o List(r.next, p),
                                            !.user = @ \ {p}]
    BY <1>1, <1>6 DEF Release
  <2>2. PICK s, n, r2 : s = List(r.next, p) /\ n = Len(s) /\ r2 = rx'
    OBVIOUS
  <2>3. s \in Seq(RecvPkt)
    BY <1>3, <2>2
  <2>4. n \in 0 .. Len(s) /\ ~(n < Len(s)) /\ SubSeq(s, 1, n) = s
    BY ONLY <2>2, <2>3
  <2>5. r2 = [r EXCEPT !.rq[p \div recv_pkt_num] = @ \o SubSeq(s, 1, n), !.user = @ \ {p}]
    BY ONLY <2>1, <2>2, <2>4
  <2>6. PICK failed2 : failed2 = pkt_failed'
    OBVIOUS
  <2>7. (failed => failed2) /\ (n < Len(s) => failed2)
    BY <1>1, <2>4, <2>6
  <2>8. RxOk(r2, m, l, q, failed2)
    BY ONLY <1>5, <2>2, <2>4, <2>5, <2>7
  <2> QED BY <1>1, <1>4, <2>2, <2>6, <2>8
<1>7. CASE ReleaseFailsHalfway
  <2>0. PICK p \in r.user : \E n \in 0 .. Len(List(r.next, p)) - 1 :
           rx' = [r EXCEPT !.rq[p \div recv_pkt_num] = @ \o SubSeq(List(r.next, p), 1, n),
                           !.user = @ \ {p}]
    BY <1>1, <1>7 DEF ReleaseFailsHalfway
  <2>1. PICK n \in 0 .. Len(List(r.next, p)) - 1 :
           rx' = [r EXCEPT !.rq[p \div recv_pkt_num] = @ \o SubSeq(List(r.next, p), 1, n),
                           !.user = @ \ {p}]
    BY <2>0
  <2>2. PICK s, r2 : s = List(r.next, p) /\ r2 = rx'
    OBVIOUS
  <2>3. s \in Seq(RecvPkt) /\ n \in 0 .. Len(s) - 1
    BY <1>3, <2>2
  <2>4. n \in 0 .. Len(s)
    BY ONLY <2>3
  <2>5. r2 = [r EXCEPT !.rq[p \div recv_pkt_num] = @ \o SubSeq(s, 1, n), !.user = @ \ {p}]
    BY ONLY <2>1, <2>2
  <2>6. PICK failed2 : failed2 = pkt_failed' /\ failed2 = TRUE
    BY <1>7 DEF ReleaseFailsHalfway, Fails
  <2>7. (failed => failed2) /\ (n < Len(s) => failed2)
    BY <2>6
  <2>8. RxOk(r2, m, l, q, failed2)
    BY ONLY <1>5, <2>2, <2>4, <2>5, <2>7
  <2> QED BY <1>1, <1>4, <2>2, <2>6, <2>8
<1> QED BY <1>6, <1>7

(* All steps that receive.                                                 *)
LEMMA ReceiveRx ==
    ASSUME CallsOk, RxOk(rx, Making, lpc, lqp, pkt_failed), NextReceive, pkt_failed => pkt_failed'
    PROVE  \E m : RxOk(rx', m, lpc', lqp', pkt_failed')
<1>1. CASE \/ RecvPkts \/ Timeout \/ PollFails \/ GetEvent \/ Rearm \/ RearmFails
           \/ NotReady("RTR")
  BY <1>1, RxWaits
<1>2. CASE \E q \in QP : Arrive(q)
  BY <1>2, ArriveRx
<1>3. CASE Release \/ ReleaseFailsHalfway
  BY <1>3, ReleaseRx
<1> QED BY <1>1, <1>2, <1>3, EmptyRx, EmptyFailsRx, EmptiedRx DEF NextReceive

(* Sending                                                                 *)

(* The NIC sends a packet.                                                 *)
LEMMA TransmitTx ==
    ASSUME TxOk(tx, Unused, pkt_failed), NEW x \in QP, Transmit(x)
    PROVE  TxOk(tx', Unused, pkt_failed')
<1>1. PICK t, m, failed : t = tx /\ m = Unused /\ failed = pkt_failed
  OBVIOUS
<1>2. TxOk(t, m, failed)
  BY <1>1
<1>3. t \in TxRecord /\ t.sq \in [QP -> Seq(SendPkt)] /\ t.cq \in [QP -> Seq(SendPkt)]
  BY <1>2, TxBasics
<1>4. PICK s, c, s2, c2 : s = t.sq[x] /\ c = t.cq[x] /\ s2 = Tail(s) /\ c2 = Append(c, Head(s))
  OBVIOUS
<1>5. PICK sq2, cq2 : sq2 = [t.sq EXCEPT ![x] = s2] /\ cq2 = [t.cq EXCEPT ![x] = c2]
  OBVIOUS
<1>6. s \in Seq(SendPkt) /\ s # << >> /\ c \in Seq(SendPkt)
  BY <1>1, <1>3, <1>4 DEF Transmit
<1>7. s2 \in Seq(SendPkt) /\ c2 \in Seq(SendPkt)
  BY ONLY <1>4, <1>6
<1>8. sq2 \in [QP -> Seq(SendPkt)] /\ cq2 \in [QP -> Seq(SendPkt)]
  BY ONLY <1>3, <1>5, <1>7, x \in QP
<1>9. PICK t2 : t2 = [t EXCEPT !.sq = sq2, !.cq = cq2]
  OBVIOUS
<1>10. /\ t2 \in TxRecord /\ t2.next = t.next /\ t2.sq = sq2 /\ t2.cq = cq2
       /\ t2.head = t.head /\ t2.user = t.user
  BY ONLY <1>3, <1>8, <1>9 DEF TxRecord
<1>11. tx' = t2 /\ UNCHANGED pkt_failed
  BY <1>1, <1>4, <1>5, <1>9 DEF Transmit, Succeeds
<1>12. TxOk(t2, m, failed)
  <2>1. TxSent(t, x, s, c, s2, c2, sq2, cq2, t2)
    BY ONLY <1>4, <1>5, <1>6, <1>10 DEF TxSent
  <2> QED BY ONLY <1>2, <2>1, x \in QP, TxTransmits
<1> QED BY <1>1, <1>11, <1>12

(* Sent packets are polled.                                                *)
LEMMA DrainTx ==
    ASSUME CallsOk, TxOk(tx, Unused, pkt_failed), Drain
    PROVE  \E u : TxOk(tx', u, pkt_failed')
<1>1. PICK t, m, x, failed : t = tx /\ m = Unused /\ x = lqp /\ failed = pkt_failed
  OBVIOUS
<1>2. TxOk(t, m, failed) /\ x \in QP
  BY <1>1 DEF CallsOk
<1>3. /\ t \in TxRecord /\ t.cq \in [QP -> Seq(SendPkt)]
      /\ t.next \in [SendPkt -> SendPkt \cup {NULL}] /\ t.head \in SendPkt \cup {NULL}
  BY <1>2, TxBasics, TxFields
<1>4. PICK s, b, s2 : s = t.cq[x] /\ b = Batch(s) /\ s2 = Rest(s)
  OBVIOUS
<1>5. s \in Seq(SendPkt) /\ s # << >>
  BY <1>1, <1>2, <1>3, <1>4 DEF Drain
<1>6. PICK n : n = Len(b)
  OBVIOUS
<1>7. /\ Cut(s, n, b, s2) /\ n # 0
      /\ b \in Seq(SendPkt) /\ s2 \in Seq(SendPkt) /\ b[1] \in SendPkt /\ b[Len(b)] \in SendPkt
      /\ Head(b) = b[1] /\ Last(b) = b[Len(b)]
  BY ONLY <1>4, <1>5, <1>6, BatchIs, IbvPacketsAssumption
<1>8. PICK u, last : u = Reverse(b) /\ last = b[1]
  OBVIOUS
<1>9. PICK next1, next2, cq2 :
         /\ next1 = Linked(t.next, u) /\ next2 = [next1 EXCEPT ![last] = t.head]
         /\ cq2 = [t.cq EXCEPT ![x] = s2]
  OBVIOUS
<1>10. u \in Seq(SendPkt)
  BY ONLY <1>7, <1>8, InjReverse DEF Reverse
<1>11. next1 \in [SendPkt -> SendPkt \cup {NULL}]
  <2>1. DOMAIN t.next = SendPkt
    BY <1>3
  <2>2. ASSUME NEW p \in SendPkt PROVE next1[p] \in SendPkt \cup {NULL}
    <3>1. next1[p] = IF \E i \in 1 .. Len(u) - 1 : u[i] = p
                     THEN u[1 + CHOOSE i \in 1 .. Len(u) - 1 : u[i] = p] ELSE t.next[p]
      BY ONLY <1>9, <2>1, p \in SendPkt DEF Linked
    <3>2. \A i \in 1 .. Len(u) - 1 : u[1 + i] \in SendPkt
      BY ONLY <1>10
    <3> QED BY ONLY <1>3, <3>1, <3>2, p \in SendPkt
  <2>3. DOMAIN next1 = SendPkt /\ next1 = [p \in SendPkt |-> next1[p]]
    BY ONLY <1>9, <2>1 DEF Linked
  <2> QED BY ONLY <2>2, <2>3
<1>12. /\ next2 \in [SendPkt -> SendPkt \cup {NULL}] /\ cq2 \in [QP -> Seq(SendPkt)]
       /\ Last(b) \in SendPkt \cup {NULL}
  <2>1. next2 \in [SendPkt -> SendPkt \cup {NULL}]
    BY ONLY <1>3, <1>9, <1>11
  <2>2. cq2 \in [QP -> Seq(SendPkt)]
    BY ONLY <1>2, <1>3, <1>7, <1>9
  <2> QED BY ONLY <1>7, <2>1, <2>2
<1>13. PICK t2 : t2 = [t EXCEPT !.cq = cq2, !.head = Last(b), !.next = next2]
  OBVIOUS
<1>14. /\ t2 \in TxRecord /\ t2.next = next2 /\ t2.sq = t.sq /\ t2.cq = cq2
       /\ t2.head = Last(b) /\ t2.user = t.user
  BY ONLY <1>3, <1>12, <1>13 DEF TxRecord
<1>15. tx' = t2 /\ UNCHANGED pkt_failed
  BY <1>1, <1>4, <1>7, <1>8, <1>9, <1>13 DEF Drain, Succeeds
<1>16. TxOk(t2, u \o m, failed)
  <2>1. next2 = [Linked(t.next, u) EXCEPT ![last] = t.head] /\ cq2 = [t.cq EXCEPT ![x] = s2]
    BY ONLY <1>9
  <2>2. TxTaken(t, x, s, n, b, s2, u, last, next2, cq2, t2)
    BY ONLY <1>4, <1>7, <1>8, <1>14, <2>1 DEF TxTaken
  <2> QED BY ONLY <1>2, <2>2, TxDrains
<1> QED BY <1>1, <1>15, <1>16

(* The user gets a list.                                                   *)
LEMMA PopTx ==
    ASSUME CallsOk, TxOk(tx, Unused, pkt_failed), Pop
    PROVE  \E u : TxOk(tx', u, pkt_failed')
<1>1. PICK t, m, failed : t = tx /\ m = Unused /\ failed = pkt_failed
  OBVIOUS
<1>2. TxOk(t, m, failed) /\ UNCHANGED pkt_failed
  BY <1>1 DEF Pop, Succeeds
<1>3. CASE t.head = NULL
  <2>1. tx' = t
    BY <1>1, <1>3 DEF Pop
  <2> QED BY <1>1, <1>2, <2>1
<1>4. CASE t.head # NULL
  <2>1. /\ t \in TxRecord /\ t.next \in [SendPkt -> SendPkt \cup {NULL}]
        /\ t.head \in SendPkt \cup {NULL} /\ t.user \in SUBSET SendPkt /\ m \in Seq(SendPkt)
    BY <1>2, TxBasics, TxFields
  <2>2. m = List(t.next, t.head) /\ m # << >>
    BY <1>2, <1>4, UnusedIs DEF TxOk, IsListOf
  <2>3. PICK n, b, m2, last : /\ n = Min({num_pkts, Len(m)}) /\ b = SubSeq(m, 1, n)
                              /\ m2 = SubSeq(m, n + 1, Len(m)) /\ last = m[n]
    OBVIOUS
  <2>4. n \in 1 .. Len(m)
    <3>1. num_pkts \in Nat /\ num_pkts >= 1
      BY DEF CallsOk, Pop
    <3>2. Len(m) \in Nat /\ Len(m) >= 1
      BY ONLY <2>1, <2>2
    <3>3. n \in {num_pkts, Len(m)} /\ n <= Len(m)
      BY ONLY <2>3, <3>1, <3>2, MinOfTwo
    <3> QED BY ONLY <3>1, <3>2, <3>3
  <2>5. Cut(m, n, b, m2) /\ n # 0
    BY ONLY <2>1, <2>3, <2>4 DEF Cut
  <2>6. last \in SendPkt
    BY ONLY <2>1, <2>3, <2>4
  <2>7. PICK next2, user2 : next2 = [t.next EXCEPT ![last] = NULL] /\ user2 = t.user \cup {t.head}
    OBVIOUS
  <2>8. next2 \in [SendPkt -> SendPkt \cup {NULL}] /\ user2 \in SUBSET SendPkt
    BY ONLY <1>4, <2>1, <2>6, <2>7
  <2>9. PICK head2 : head2 = t.next[last] /\ head2 \in SendPkt \cup {NULL}
    BY <2>1, <2>6
  <2>10. PICK t2 : t2 = [t EXCEPT !.user = user2, !.head = head2, !.next = next2]
    OBVIOUS
  <2>11. /\ t2 \in TxRecord /\ t2.next = next2 /\ t2.sq = t.sq /\ t2.cq = t.cq
         /\ t2.head = t.next[last] /\ t2.user = user2
    BY ONLY <2>1, <2>8, <2>9, <2>10 DEF TxRecord
  <2>12. tx' = t2
    BY <1>1, <1>4, <2>2, <2>3, <2>7, <2>9, <2>10 DEF Pop
  <2>13. TxOk(t2, m2, failed)
    <3>1. TxPopped(t, m, n, b, m2, last, next2, user2, t2)
      BY ONLY <2>3, <2>5, <2>7, <2>11 DEF TxPopped
    <3> QED BY ONLY <1>2, <1>4, <3>1, TxPops
  <2> QED BY <1>1, <1>2, <2>12, <2>13
<1> QED BY <1>3, <1>4

(* The user sends one, all of it or up to a request that is refused.       *)
LEMMA SendTxLists ==
    ASSUME TxOk(tx, Unused, pkt_failed), SendPkts \/ SendFails
    PROVE  TxOk(tx', Unused, pkt_failed')
<1>1. PICK t, m, failed : t = tx /\ m = Unused /\ failed = pkt_failed
  OBVIOUS
<1>2. TxOk(t, m, failed)
  BY <1>1
<1>3. /\ t \in TxRecord /\ t.sq \in [QP -> Seq(SendPkt)] /\ t.cq \in [QP -> Seq(SendPkt)]
      /\ t.user \in SUBSET SendPkt
      /\ \A p \in t.user : List(t.next, p) \in Seq(SendPkt) /\ List(t.next, p) # << >>
  <2>1. /\ t \in TxRecord /\ t.sq \in [QP -> Seq(SendPkt)] /\ t.cq \in [QP -> Seq(SendPkt)]
        /\ t.user \in SUBSET SendPkt /\ Pool(SendPkt, t.sq, t.cq, t.user, t.next, m)
    BY <1>2, TxBasics
  <2>2. \A p \in t.user : List(t.next, p) \in Seq(SendPkt) /\ List(t.next, p) # << >>
    BY ONLY <2>1 DEF Pool, Typed, IsListOf, Links
  <2> QED BY ONLY <2>1, <2>2
<1>4. \A x \in QP : /\ Len(t.sq[x] \o t.cq[x]) \in Nat /\ Len(t.sq[x] \o t.cq[x]) <= send_pkt_num
                    /\ Room(x) = send_pkt_num - Len(t.sq[x] \o t.cq[x])
  <2>1. \A x \in QP : Len(t.sq[x] \o t.cq[x]) \in Nat
    <3> SUFFICES ASSUME NEW x \in QP PROVE Len(t.sq[x] \o t.cq[x]) \in Nat
      OBVIOUS
    <3>1. PICK c, d : c = t.sq[x] /\ d = t.cq[x]
      OBVIOUS
    <3>2. c \in Seq(SendPkt) /\ d \in Seq(SendPkt)
      BY <1>3, <3>1
    <3>3. Len(c \o d) \in Nat
      BY ONLY <3>2
    <3> QED BY <3>1, <3>3
  <2>2. \A x \in QP : Len(t.sq[x] \o t.cq[x]) <= send_pkt_num
    BY <1>2 DEF TxOk, Polled
  <2>3. \A x \in QP : Room(x) = send_pkt_num - Len(t.sq[x] \o t.cq[x])
    BY <1>1 DEF Room
  <2> QED BY <2>1, <2>2, <2>3
<1>5. ASSUME NEW p \in t.user, NEW x \in QP, NEW n, n \in 0 .. Len(List(t.next, p)),
             n <= Room(x), Posted(p, x, n),
             failed => pkt_failed', n < Len(List(t.next, p)) => pkt_failed'
      PROVE  TxOk(tx', m, pkt_failed')
  <2>1. PICK s, b, rest, c : /\ s = List(t.next, p) /\ b = SubSeq(s, 1, n)
                             /\ rest = SubSeq(s, n + 1, Len(s)) /\ c = t.sq[x]
    OBVIOUS
  <2>2. PICK c2, sq2, user2, t2, failed2 :
           /\ c2 = c \o b /\ sq2 = [t.sq EXCEPT ![x] = c2] /\ user2 = t.user \ {p}
           /\ t2 = [t EXCEPT !.sq = sq2, !.user = user2] /\ failed2 = pkt_failed'
    OBVIOUS
  <2>3. s \in Seq(SendPkt) /\ c \in Seq(SendPkt) /\ n \in 0 .. Len(s)
    BY <1>3, <1>5, <2>1
  <2>4. b \in Seq(SendPkt)
    BY ONLY <2>1, <2>3
  <2>5. sq2 \in [QP -> Seq(SendPkt)] /\ user2 \in SUBSET SendPkt
    BY ONLY <1>3, <2>2, <2>3, <2>4
  <2>6. /\ t2 \in TxRecord /\ t2.next = t.next /\ t2.sq = sq2 /\ t2.cq = t.cq
        /\ t2.head = t.head /\ t2.user = user2
    BY ONLY <1>3, <2>2, <2>5 DEF TxRecord
  <2>7. tx' = t2
    BY <1>1, <1>5, <2>1, <2>2 DEF Posted
  <2>8. n + Len(c \o t.cq[x]) <= send_pkt_num
    <3>1. n <= send_pkt_num - Len(c \o t.cq[x]) /\ Len(c \o t.cq[x]) \in Nat
      BY <1>4, <1>5, <2>1
    <3>2. n \in Int
      BY <2>3
    <3> QED BY <3>1, <3>2
  <2>9. TxPosted(t, x, p, s, n, b, rest, c, c2, sq2, user2, t2)
    <3>1. Cut(s, n, b, rest)
      BY ONLY <2>1, <2>3 DEF Cut
    <3> QED BY ONLY <2>1, <2>2, <2>6, <2>8, <3>1, p \in t.user DEF TxPosted
  <2>10. (failed => failed2) /\ (n < Len(s) => failed2)
    BY <1>5, <2>1, <2>2
  <2>11. TxOk(t2, m, failed2)
    BY ONLY <1>2, <2>9, <2>10, x \in QP, TxPosts
  <2> QED BY <2>2, <2>7, <2>11
<1>6. CASE SendPkts
  <2>1. PICK p \in t.user : \E x \in QP : /\ Len(List(t.next, p)) <= Room(x)
                                          /\ Posted(p, x, Len(List(t.next, p)))
    BY <1>1, <1>6 DEF SendPkts
  <2>2. PICK x \in QP : Len(List(t.next, p)) <= Room(x) /\ Posted(p, x, Len(List(t.next, p)))
    BY <2>1
  <2>3. PICK n : n = Len(List(t.next, p))
    OBVIOUS
  <2>4. n \in 0 .. Len(List(t.next, p)) /\ ~(n < Len(List(t.next, p)))
    BY <1>3, <2>3
  <2>5. failed => pkt_failed'
    BY <1>1, <1>6 DEF SendPkts, Succeeds
  <2> QED BY <1>1, <1>5, <2>2, <2>3, <2>4, <2>5
<1>7. CASE SendFails
  <2>0. pkt_failed'
    BY <1>7 DEF SendFails
  <2>1. PICK p \in t.user : \E x \in QP :
           \/ \E n \in 0 .. Min({Room(x), Len(List(t.next, p)) - 1}) : Posted(p, x, n)
           \/ Len(List(t.next, p)) > Room(x) /\ Posted(p, x, Room(x))
    BY <1>1, <1>7 DEF SendFails
  <2>2. PICK x \in QP :
           \/ \E n \in 0 .. Min({Room(x), Len(List(t.next, p)) - 1}) : Posted(p, x, n)
           \/ Len(List(t.next, p)) > Room(x) /\ Posted(p, x, Room(x))
    BY <2>1
  <2>3. PICK room, len : room = Room(x) /\ len = Len(List(t.next, p))
    OBVIOUS
  <2>4. room \in Nat /\ len \in Nat /\ len - 1 \in Nat
    <3>1. room \in Nat
      <4>1. PICK k : k = Len(t.sq[x] \o t.cq[x])
        OBVIOUS
      <4>2. k \in Nat /\ k <= send_pkt_num /\ room = send_pkt_num - k
        BY ONLY <1>4, <2>3, <4>1
      <4>3. send_pkt_num \in Nat
        OBVIOUS
      <4> QED BY ONLY <4>2, <4>3
    <3>2. len \in Nat /\ len >= 1
      BY <1>3, <2>3
    <3> QED BY <3>1, <3>2
  <2>5. \E n \in 0 .. len : n <= room /\ Posted(p, x, n)
    <3>1. Min({room, len - 1}) \in Nat /\ Min({room, len - 1}) <= room /\ Min({room, len - 1}) <= len - 1
      BY ONLY <2>4, MinOfTwo
    <3>2. CASE \E n \in 0 .. Min({room, len - 1}) : Posted(p, x, n)
      BY <2>4, <3>1, <3>2
    <3>3. CASE len > room /\ Posted(p, x, room)
      BY <2>4, <3>3
    <3> QED BY <2>2, <2>3, <3>2, <3>3
  <2>6. PICK n \in 0 .. len : n <= room /\ Posted(p, x, n)
    BY <2>5
  <2> QED BY <1>1, <1>5, <2>0, <2>3, <2>6
<1> QED BY <1>6, <1>7

(* All steps that send.                                                    *)
LEMMA SendTx ==
    ASSUME CallsOk, TxOk(tx, Unused, pkt_failed), NextSend, pkt_failed => pkt_failed'
    PROVE  \E u : TxOk(tx', u, pkt_failed')
<1>1. CASE GetPkts \/ DrainFails \/ Drained \/ NotReady("RTS")
  <2>1. UNCHANGED tx
    BY <1>1 DEF GetPkts, DrainFails, Drained, NotReady
  <2> QED BY <2>1 DEF TxOk
<1>2. CASE \E q \in QP : Transmit(q)
  BY <1>2, TransmitTx
<1>3. CASE SendPkts \/ SendFails
  BY <1>3, SendTxLists
<1> QED BY <1>1, <1>2, <1>3, DrainTx, PopTx DEF NextSend

-----------------------------------------------------------------------------

(* A step for packets keeps the invariant,                                 *)
LEMMA NextPackets ==
    ASSUME PacketsRight, NextReceive \/ NextSend
    PROVE  PacketsRight'
<1>1. CallsOk /\ RxOk(rx, Making, lpc, lqp, pkt_failed) /\ TxOk(tx, Unused, pkt_failed)
  BY RightIs
<1>2. CallsOk' /\ (pkt_failed => pkt_failed')
  <2>1. rx \in RxRecord
    BY <1>1 DEF RxOk
  <2> QED BY <1>1, <2>1, CallsMove
<1>3. PICK m : RxOk(rx', m, lpc', lqp', pkt_failed')
  BY <1>1, <1>2, ReceiveRx, SendRx
<1>4. PICK u : TxOk(tx', u, pkt_failed')
  BY <1>1, <1>2, ReceiveTx, SendTx
<1> QED BY ONLY <1>2, <1>3, <1>4, IsRight

(* one that leaves packets alone does,                                     *)
LEMMA SamePackets == ASSUME PacketsRight, UNCHANGED packetVars PROVE PacketsRight'
<1>1. CallsOk /\ RxOk(rx, Making, lpc, lqp, pkt_failed) /\ TxOk(tx, Unused, pkt_failed)
  BY RightIs
<1>2. CallsOk'
  BY <1>1 DEF CallsOk, packetVars, callVars
<1>3. UNCHANGED <<rx, tx, lpc, lqp, pkt_failed>>
  BY DEF packetVars, callVars
<1>4. PICK m : RxOk(rx', m, lpc', lqp', pkt_failed')
  BY <1>1, <1>3
<1>5. PICK u : TxOk(tx', u, pkt_failed')
  BY <1>1, <1>3
<1> QED BY ONLY <1>2, <1>4, <1>5, IsRight

(* it holds at first,                                                      *)
LEMMA InitPacketsRight == InitPackets => PacketsRight
<1> SUFFICES ASSUME InitPackets PROVE PacketsRight
  OBVIOUS
<1>1. CallsOk
  <2>1. pkt_failed \in BOOLEAN
    BY DEF InitPackets
  <2>2. qstate \in [QP -> {"INIT", "RTR", "RTS"}] /\ 0 \in QP
    BY DEF InitPackets, PerPair, QP
  <2>3. lpc = "idle" /\ lqp = 0 /\ num_pkts = 0 /\ 0 \in 0 .. send_pkt_num
    BY DEF InitPackets
  <2> QED BY ONLY <2>1, <2>2, <2>3 DEF CallsOk
<1>2. RxOk(rx, << >>, lpc, lqp, pkt_failed)
  BY FreshRxOk DEF InitPackets
<1>3. PICK u : TxOk(tx, u, pkt_failed)
  <2>1. TxOk(FreshTx, [k \in 1 .. nqp * send_pkt_num |-> k - 1], pkt_failed)
    BY FreshTxOk
  <2> QED BY <2>1 DEF InitPackets
<1> QED BY ONLY <1>1, <1>2, <1>3, IsRightNow

(* and init and shutdown keep it.                                          *)
LEMMA ContextPackets ==
    ASSUME PacketsRight, ContextStepForPackets
    PROVE  PacketsRight'
<1>1. CASE UNCHANGED packetVars
  BY <1>1, SamePackets
<1>2. CASE /\ qstate' = PerPair("INIT") /\ rx' = FreshRx /\ tx' = FreshTx
           /\ pkt_failed' = FALSE /\ UNCHANGED callVars
  <2>1. CallsOk'
    <3>1. CallsOk
      BY RightIs
    <3> QED BY <1>2, <3>1 DEF CallsOk, callVars, PerPair
  <2>2. RxOk(rx', << >>, lpc', lqp', pkt_failed')
    BY <1>2, FreshRxOk
  <2>3. PICK u : TxOk(tx', u, pkt_failed')
    <3>1. TxOk(FreshTx, [k \in 1 .. nqp * send_pkt_num |-> k - 1], pkt_failed')
      BY FreshTxOk
    <3> QED BY <1>2, <3>1
  <2> QED BY ONLY <2>1, <2>2, <2>3, IsRight
<1> QED BY <1>1, <1>2 DEF ContextStepForPackets
-----------------------------------------------------------------------------
(* All steps, again                                                        *)

(* The inductive step,                                                     *)
LEMMA PacketsInv == ASSUME PacketsRight, [Next]_vars PROVE PacketsRight'
<1>1. CASE ContextStep
  BY <1>1, ContextPackets DEF ContextStep
<1>2. CASE FlowStep
  BY <1>2, SamePackets DEF FlowStep
<1>3. CASE ReceiveStep \/ SendStep
  BY <1>3, NextPackets DEF ReceiveStep, SendStep
<1>4. CASE UNCHANGED vars
  <2>1. UNCHANGED packetVars
    BY <1>4 DEF vars
  <2> QED BY <2>1, SamePackets
<1> QED BY <1>1, <1>2, <1>3, <1>4 DEF Next

(* and the invariant.                                                      *)
LEMMA PacketsInvariance == Spec => []PacketsRight
<1>1. Init => PacketsRight
  BY InitPacketsRight DEF Init
<1>2. PacketsRight /\ [Next]_vars => PacketsRight'
  BY PacketsInv
<1> QED BY <1>1, <1>2, PTL DEF Spec

(* The types of context, rules and packets: no call reads beyond an array  *)
(* or names a queue pair or packet there is not, and no send queue is      *)
(* given more requests than it was made for.                               *)
THEOREM TypeCorrect == Spec => []TypeOK
<1> DEFINE FocusRight == focus \in {"flows", "receive", "send"}
<1>1. Init => FocusRight
  BY DEF Init
<1>2. FocusRight /\ [Next]_vars => FocusRight'
  BY DEF Next, vars
<1>3. IInv /\ PacketsRight /\ FocusRight => TypeOK
  BY DEF IInv, ContextRight, FlowRight, PacketsRight, TypeOK
<1> QED BY <1>1, <1>2, <1>3, Invariance, PacketsInvariance, PTL DEF Spec

(* Whatever the number and order of calls, batches and failures, a packet  *)
(* is posted, completed, in one list of the user, in the list being made   *)
(* or in that of unused packets, once and in no other place; a receive     *)
(* packet comes back to its own queue pair; and none is lost before a call *)
(* has failed.                                                             *)
THEOREM PacketsInOnePlace == Spec => []OnePlace
<1>1. PacketsRight => OnePlace
  BY DEF PacketsRight, RxRight, TxRight, Home, OnePlace
<1> QED BY <1>1, PacketsInvariance, PTL

=============================================================================
