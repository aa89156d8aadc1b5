--------------------------- MODULE SequenceLemmas ---------------------------
(***************************************************************************)
(* Facts the proofs about the components need: least elements, which stand *)
(* in for induction over numbers, work lists that are taken from the front,*)
(* and lists that are put together from lists.                             *)
(***************************************************************************)
EXTENDS Integers, Sequences, SequencesExt, WellFoundedInduction, TLAPS

(* A set of natural numbers has a least element.                           *)
LEMMA LeastNatural ==
  ASSUME NEW T, T \subseteq Nat, T # {}
  PROVE  \E x \in T : \A y \in T : x <= y
<1> DEFINE less == {ss \in Nat \X Nat : ss[1] < ss[2]}
<1>1. IsWellFoundedOn(less, Nat)
  BY NatLessThanWellFounded DEF OpToRel
<1> HIDE DEF less
<1>2. PICK x \in T : \A y \in T : ~(<<y, x>> \in less)
  BY <1>1, WFMin
<1>3. ASSUME NEW y \in T PROVE x <= y
  <2>1. x \in Nat /\ y \in Nat
    OBVIOUS
  <2>2. y < x => <<y, x>> \in less
    BY <2>1 DEF less
  <2> QED
    BY <1>2, <2>1, <2>2
<1> QED
  BY <1>3

(* Work that is taken from the front of a list is in the list, and the     *)
(* rest of the list holds all other work.                                  *)
LEMMA WorkTaken ==
  ASSUME NEW S, NEW s \in Seq(S), s # << >>
  PROVE  /\ Head(s) \in S /\ Tail(s) \in Seq(S)
         /\ ToSet(s) = {Head(s)} \cup ToSet(Tail(s))
<1>1. Len(s) \in Nat \ {0} /\ DOMAIN s = 1 .. Len(s) /\ Head(s) = s[1]
  OBVIOUS
<1>2. Tail(s) \in Seq(S) /\ DOMAIN Tail(s) = 1 .. Len(s) - 1
  BY <1>1
<1>3. \A i \in 1 .. Len(s) - 1 : Tail(s)[i] = s[i + 1]
  BY <1>1, <1>2
<1>4. ASSUME NEW x \in ToSet(s) PROVE x \in {Head(s)} \cup ToSet(Tail(s))
  <2>1. PICK i \in DOMAIN s : x = s[i]
    BY DEF ToSet
  <2>2. CASE i = 1
    BY <1>1, <2>1, <2>2
  <2>3. CASE i # 1
    <3>1. i - 1 \in 1 .. Len(s) - 1 /\ (i - 1) + 1 = i
      BY <1>1, <2>3
    <3>2. x = Tail(s)[i - 1]
      BY <1>3, <2>1, <3>1
    <3> QED
      BY <1>2, <3>1, <3>2 DEF ToSet
  <2> QED
    BY <2>2, <2>3
<1>5. ASSUME NEW x \in ToSet(Tail(s)) PROVE x \in ToSet(s)
  <2>1. PICK i \in DOMAIN Tail(s) : x = Tail(s)[i]
    BY DEF ToSet
  <2>2. i + 1 \in DOMAIN s /\ x = s[i + 1]
    BY <1>1, <1>2, <1>3, <2>1
  <2> QED
    BY <2>2 DEF ToSet
<1>6. Head(s) \in ToSet(s)
  BY <1>1 DEF ToSet
<1>7. Head(s) \in S
  BY <1>1
<1> QED
  BY <1>2, <1>4, <1>5, <1>6, <1>7

LEMMA SetOfSequence ==
  ASSUME NEW S, NEW s \in Seq(S)
  PROVE  ToSet(s) \subseteq S
BY DEF ToSet

(* The elements of two lists, one after the other.                         *)
LEMMA SetOfConcatenation ==
  ASSUME NEW S, NEW s \in Seq(S), NEW t \in Seq(S)
  PROVE  s \o t \in Seq(S) /\ ToSet(s \o t) = ToSet(s) \cup ToSet(t)
<1>1. /\ s \o t \in Seq(S) /\ Len(s) \in Nat /\ Len(t) \in Nat
      /\ DOMAIN s = 1 .. Len(s) /\ DOMAIN t = 1 .. Len(t)
      /\ DOMAIN (s \o t) = 1 .. Len(s) + Len(t)
  OBVIOUS
<1>2. \A i \in DOMAIN s : (s \o t)[i] = s[i]
  BY <1>1
<1>3. \A i \in DOMAIN t : (s \o t)[Len(s) + i] = t[i]
  BY <1>1
<1>4. ASSUME NEW x \in ToSet(s \o t) PROVE x \in ToSet(s) \cup ToSet(t)
  <2>1. PICK i \in DOMAIN (s \o t) : x = (s \o t)[i]
    BY DEF ToSet
  <2>2. CASE i <= Len(s)
    <3>1. i \in DOMAIN s
      BY <1>1, <2>2
    <3> QED
      BY <1>2, <2>1, <3>1 DEF ToSet
  <2>3. CASE ~(i <= Len(s))
    <3>1. i - Len(s) \in DOMAIN t /\ Len(s) + (i - Len(s)) = i
      BY <1>1, <2>3
    <3>2. x = t[i - Len(s)]
      BY <1>3, <2>1, <3>1
    <3> QED
      BY <3>1, <3>2 DEF ToSet
  <2> QED
    BY <2>2, <2>3
<1>5. ASSUME NEW x \in ToSet(s) PROVE x \in ToSet(s \o t)
  <2>1. PICK i \in DOMAIN s : x = s[i]
    BY <1>5 DEF ToSet
  <2>2. i \in DOMAIN (s \o t) /\ x = (s \o t)[i]
    BY <1>1, <1>2, <2>1
  <2> QED
    BY <2>2 DEF ToSet
<1>6. ASSUME NEW x \in ToSet(t) PROVE x \in ToSet(s \o t)
  <2>1. PICK i \in DOMAIN t : x = t[i]
    BY <1>6 DEF ToSet
  <2>2. Len(s) + i \in DOMAIN (s \o t) /\ x = (s \o t)[Len(s) + i]
    BY <1>1, <1>3, <2>1
  <2> QED
    BY <2>2 DEF ToSet
<1> QED
  BY <1>1, <1>4, <1>5, <1>6

(* The recursion of FlattenSeq: f[i] is the first i lists put together.    *)
Flattens(f, seqs, n) ==
  f = [i \in 1 .. n |-> IF i = 1 THEN seqs[i] ELSE f[i - 1] \o seqs[i]]

(* What the first i lists hold.                                            *)
Holds(s, S, seqs, i) ==
  /\ s \in Seq(S)
  /\ \A x : x \in ToSet(s) <=> \E j \in 1 .. i : x \in ToSet(seqs[j])

LEMMA FlatteningExists ==
  ASSUME NEW seqs, NEW n \in Nat
  PROVE  \E f : Flattens(f, seqs, n)
<1> DEFINE Bad == {m \in Nat : ~\E f : Flattens(f, seqs, m)}
<1>1. SUFFICES ASSUME Bad # {} PROVE FALSE
  OBVIOUS
<1>2. PICK m \in Bad : \A k \in Bad : m <= k
  BY <1>1, LeastNatural
<1>3. CASE m = 0
  <2> DEFINE e == [i \in 1 .. 0 |-> i]
  <2>1. Flattens(e, seqs, 0)
    BY DEF Flattens
  <2> QED
    BY <1>2, <1>3, <2>1
<1>4. CASE m # 0
  <2>1. m \in Nat /\ m - 1 \in Nat /\ m - 1 \notin Bad
    BY <1>2, <1>4
  <2>2. PICK f : Flattens(f, seqs, m - 1)
    BY <2>1
  <2> DEFINE last == IF m = 1 THEN seqs[m] ELSE f[m - 1] \o seqs[m]
             g == [i \in 1 .. m |-> IF i = m THEN last ELSE f[i]]
  <2>31. m \in 1 .. m /\ \A i \in 1 .. m - 1 : i \in 1 .. m /\ i # m
    BY <2>1, <1>4
  <2>32. DOMAIN g = 1 .. m /\ \A i \in 1 .. m : g[i] = IF i = m THEN last ELSE f[i]
    OBVIOUS
  <2>33. \A i \in 1 .. m - 1 :
          f[i] = IF i = 1 THEN seqs[i] ELSE f[i - 1] \o seqs[i]
    BY <2>2 DEF Flattens
  <2> HIDE DEF last, g
  <2>3. g[m] = last /\ \A i \in 1 .. m - 1 : g[i] = f[i]
    BY <2>31, <2>32
  <2>4. ASSUME NEW i \in 1 .. m
        PROVE  g[i] = IF i = 1 THEN seqs[i] ELSE g[i - 1] \o seqs[i]
    <3>1. CASE i = m
      <4>1. i # 1 => i - 1 \in 1 .. m - 1
        BY <2>1, <3>1
      <4> QED
        BY <2>3, <3>1, <4>1 DEF last
    <3>2. CASE i # m
      <4>1. i \in 1 .. m - 1 /\ (i # 1 => i - 1 \in 1 .. m - 1)
        BY <2>1, <3>2
      <4> QED
        BY <2>33, <2>3, <4>1
    <3> QED
      BY <3>1, <3>2
  <2>5. g = [i \in 1 .. m |-> g[i]]
    BY DEF g
  <2>6. Flattens(g, seqs, m)
    BY <2>4, <2>5 DEF Flattens
  <2> QED
    BY <1>2, <2>6
<1> QED
  BY <1>3, <1>4

LEMMA FlatteningHolds ==
  ASSUME NEW S, NEW n \in Nat, NEW seqs \in [1 .. n -> Seq(S)],
         NEW f, Flattens(f, seqs, n), NEW i \in 1 .. n
  PROVE  Holds(f[i], S, seqs, i)
<1> DEFINE Bad == {m \in 1 .. n : ~Holds(f[m], S, seqs, m)}
<1>1. SUFFICES ASSUME Bad # {} PROVE FALSE
  OBVIOUS
<1>0. Bad \subseteq Nat
  OBVIOUS
<1> HIDE DEF Bad
<1>2. PICK m \in Bad : \A k \in Bad : m <= k
  BY <1>0, <1>1, LeastNatural
<1> USE DEF Bad
<1>3. \A k \in 1 .. n : f[k] = IF k = 1 THEN seqs[k] ELSE f[k - 1] \o seqs[k]
  BY DEF Flattens
<1>4. m \in 1 .. n /\ seqs[m] \in Seq(S)
  BY <1>2
<1>5. CASE m = 1
  <2>1. f[m] = seqs[1] /\ 1 .. m = {1}
    BY <1>3, <1>4, <1>5
  <2> QED
    BY <1>2, <1>4, <1>5, <2>1 DEF Holds
<1>6. CASE m # 1
  <2>1. m - 1 \in 1 .. n /\ m - 1 \notin Bad
    BY <1>2, <1>4, <1>6
  <2>2. Holds(f[m - 1], S, seqs, m - 1)
    BY <2>1
  <2>3. f[m] = f[m - 1] \o seqs[m]
    BY <1>3, <1>4, <1>6
  <2>4. /\ f[m] \in Seq(S)
        /\ ToSet(f[m]) = ToSet(f[m - 1]) \cup ToSet(seqs[m])
    BY <1>4, <2>2, <2>3, SetOfConcatenation DEF Holds
  <2>5. 1 .. m = (1 .. m - 1) \cup {m}
    BY <1>4
  <2> QED
    BY <1>2, <2>2, <2>4, <2>5 DEF Holds
<1> QED
  BY <1>5, <1>6

(* Lists put together hold what the lists hold.                            *)
LEMMA SetOfFlattened ==
  ASSUME NEW S, NEW n \in Nat, NEW seqs \in [1 .. n -> Seq(S)]
  PROVE  /\ FlattenSeq(seqs) \in Seq(S)
         /\ \A x : x \in ToSet(FlattenSeq(seqs)) <=>
                     \E j \in 1 .. n : x \in ToSet(seqs[j])
<1>1. seqs \in Seq(Seq(S)) /\ Len(seqs) = n
  OBVIOUS
<1>2. CASE n = 0
  <2>1. FlattenSeq(seqs) = seqs /\ seqs = << >>
    BY <1>1, <1>2 DEF FlattenSeq
  <2> QED
    BY <1>2, <2>1 DEF ToSet
<1>3. CASE n # 0
  <2> DEFINE f == CHOOSE g : Flattens(g, seqs, n)
  <2>1. Flattens(f, seqs, n)
    BY FlatteningExists
  <2>2. FlattenSeq(seqs) = f[n]
    BY <1>1, <1>3 DEF FlattenSeq, Flattens
  <2>3. Holds(f[n], S, seqs, n)
    BY <1>3, <2>1, FlatteningHolds
  <2> QED
    BY <2>2, <2>3 DEF Holds
<1> QED
  BY <1>2, <1>3
=============================================================================
