---------------------------- MODULE RecordProofs ----------------------------
(***************************************************************************)
(* Lemmas about what becomes of records, whatever their number: selected,  *)
(* renamed, normalized, given names of their own and printed.              *)
(***************************************************************************)
EXTENDS Rendering, FiniteSetTheorems, SequenceTheorems, TLAPS

----------------------------------------------------------------------------
(* Selections                                                              *)

(* The places up to one of them: their number counts from one and grows    *)
(* from each place to the next.                                            *)
Rank(places, i) == Cardinality(places \cap (1..i))

LEMMA RankGrows ==
    ASSUME NEW n \in Nat, NEW places \in SUBSET (1..n)
    PROVE  /\ IsFiniteSet(places) /\ Cardinality(places) \in Nat
           /\ \A i \in places : Rank(places, i) \in 1..Cardinality(places)
           /\ \A i, j \in places : i < j => Rank(places, i) < Rank(places, j)
<1>1. IsFiniteSet(1..n)
  BY FS_Interval
<1>2. IsFiniteSet(places) /\ Cardinality(places) \in Nat
  BY <1>1, FS_Subset, FS_CardinalityType
<1>3. ASSUME NEW i \in places
      PROVE  Rank(places, i) \in 1..Cardinality(places)
  <2> DEFINE up == places \cap (1..i)
  <2>1. up \in SUBSET places /\ i \in up
    OBVIOUS
  <2>2. IsFiniteSet(up) /\ Cardinality(up) <= Cardinality(places) /\ Cardinality(up) \in Nat
    BY <1>2, <2>1, FS_Subset, FS_CardinalityType
  <2>3. Cardinality(up) # 0
    BY <2>1, <2>2, FS_EmptySet
  <2> QED
    BY <1>2, <2>2, <2>3 DEF Rank
<1>4. ASSUME NEW i \in places, NEW j \in places, i < j
      PROVE  Rank(places, i) < Rank(places, j)
  <2> DEFINE below == places \cap (1..i)
             up == places \cap (1..j)
  <2>1. below \in SUBSET up /\ j \in up /\ j \notin below
    BY <1>4
  <2>2. IsFiniteSet(up)
    BY <1>2, FS_Subset
  <2>3. Cardinality(below) <= Cardinality(up) /\ Cardinality(below) # Cardinality(up)
    BY <2>1, <2>2, FS_Subset
  <2>4. Cardinality(below) \in Nat /\ Cardinality(up) \in Nat
    BY <2>1, <2>2, FS_Subset, FS_CardinalityType
  <2> QED
    BY <2>3, <2>4 DEF Rank
<1> QED
  BY <1>2, <1>3, <1>4

(* So the k-th place is there, the places come in their order and each is  *)
(* the k-th for some k.                                                    *)
LEMMA NthPlaceIs ==
    ASSUME NEW n \in Nat, NEW places \in SUBSET (1..n)
    PROVE  /\ \A k \in 1..Cardinality(places) : NthPlace(places, k) \in places
           /\ \A j, k \in 1..Cardinality(places) :
                  j < k => NthPlace(places, j) < NthPlace(places, k)
           /\ \A i \in places : \E k \in 1..Cardinality(places) : NthPlace(places, k) = i
<1> DEFINE c == Cardinality(places)
           rank == [i \in places |-> Rank(places, i)]
<1>1. /\ c \in Nat /\ IsFiniteSet(places)
      /\ \A i \in places : Rank(places, i) \in 1..c
      /\ \A i, j \in places : i < j => Rank(places, i) < Rank(places, j)
  BY RankGrows
<1> HIDE DEF c
<1>2. rank \in [places -> 1..c]
  BY <1>1
<1>3. \A i, j \in places : rank[i] = rank[j] => i = j
  <2> SUFFICES ASSUME NEW i \in places, NEW j \in places, i # j PROVE rank[i] # rank[j]
    OBVIOUS
  <2>1. i \in Nat /\ j \in Nat /\ Rank(places, i) \in Nat /\ Rank(places, j) \in Nat
    BY <1>1
  <2> QED
    BY <1>1, <2>1
<1>4. rank \in Injection(places, 1..c)
  BY <1>2, <1>3 DEF Injection, IsInjective
<1>5. IsFiniteSet(1..c) /\ Cardinality(1..c) = c
  BY <1>1, FS_Interval
<1>6. rank \in Surjection(places, 1..c)
  BY <1>4, <1>5, FS_Injection DEF c
<1>7. \A k \in 1..c : \E i \in places : Rank(places, i) = k
  BY <1>6 DEF Surjection
<1>8. \A k \in 1..c : NthPlace(places, k) \in places /\ Rank(places, NthPlace(places, k)) = k
  BY <1>7 DEF NthPlace, Rank
<1>9. ASSUME NEW j \in 1..c, NEW k \in 1..c, j < k
      PROVE  NthPlace(places, j) < NthPlace(places, k)
  <2> DEFINE p == NthPlace(places, j)
             q == NthPlace(places, k)
  <2>1. p \in places /\ q \in places /\ Rank(places, p) = j /\ Rank(places, q) = k
    BY <1>8
  <2> HIDE DEF p, q
  <2>2. p \in Nat /\ q \in Nat /\ j \in Nat /\ k \in Nat /\ p # q
    BY <1>9, <2>1
  <2>3. ~(q < p)
    BY <1>1, <1>9, <2>1, <2>2
  <2> QED
    BY <2>2, <2>3 DEF p, q
<1>10. ASSUME NEW i \in places
       PROVE  NthPlace(places, Rank(places, i)) = i
  <2>1. Rank(places, i) \in 1..c
    BY <1>1
  <2> QED
    BY <1>3, <1>8, <2>1
<1> QED
  BY <1>1, <1>8, <1>9, <1>10 DEF c

(* What a selection holds: elements of the sequence at the places selected, *)
(* in their order, and all of them.                                        *)
PickedAt(out, s, places, c, at) ==
    /\ DOMAIN out = 1..c /\ at \in [1..c -> places]
    /\ \A k \in 1..c : out[k] = s[at[k]]
    /\ \A j, k \in 1..c : j < k => at[j] < at[k]
    /\ \A i \in places : \E k \in 1..c : at[k] = i

LEMMA SelectedIs ==
    ASSUME NEW s, NEW n \in Nat, DOMAIN s = 1..n, NEW places \in SUBSET (1..n)
    PROVE  \E c \in Nat : \E at : PickedAt(Selected(s, places), s, places, c, at)
<1> DEFINE c == Cardinality(places)
           at == [k \in 1..c |-> NthPlace(places, k)]
<1>1. c \in Nat
  BY RankGrows
<1>2. /\ \A k \in 1..c : NthPlace(places, k) \in places
      /\ \A j, k \in 1..c : j < k => NthPlace(places, j) < NthPlace(places, k)
      /\ \A i \in places : \E k \in 1..c : NthPlace(places, k) = i
  BY NthPlaceIs
<1>3. Selected(s, places) = [k \in 1..c |-> s[at[k]]]
  BY DEF Selected
<1> HIDE DEF c
<1>4. /\ at \in [1..c -> places]
      /\ \A j, k \in 1..c : j < k => at[j] < at[k]
      /\ \A i \in places : \E k \in 1..c : at[k] = i
  BY <1>2
<1>5. \A k \in 1..c : Selected(s, places)[k] = s[at[k]]
  BY <1>3
<1>6. DOMAIN Selected(s, places) = 1..c
  BY <1>3
<1> HIDE DEF at
<1>7. PickedAt(Selected(s, places), s, places, c, at)
  BY <1>4, <1>5, <1>6 DEF PickedAt
<1> QED
  BY <1>1, <1>7

----------------------------------------------------------------------------
(* Induction over numbers, for a set of them.                              *)

LEMMA LeastOf ==
    ASSUME NEW S \in SUBSET Nat, S # {}
    PROVE  \E m \in S : \A k \in S : m <= k
<1> DEFINE T == {0..m : m \in S}
           R == StrictSubsetOrdering(Nat)
<1>1. T \subseteq FiniteSubsetsOf(Nat) /\ T # {}
  <2>1. ASSUME NEW m \in Nat PROVE 0..m \in FiniteSubsetsOf(Nat)
    BY FS_Interval DEF FiniteSubsetsOf
  <2> QED
    BY <2>1
<1>2. IsWellFoundedOn(R, FiniteSubsetsOf(Nat))
  BY FS_StrictSubsetOrderingWellFounded
<1> HIDE DEF R
<1>3. PICK x \in T : \A y \in T : ~(<<y, x>> \in R)
  BY <1>1, <1>2, WFMin
<1>4. PICK m \in S : x = 0..m
  BY <1>3
<1>5. ASSUME NEW k \in S, k < m
      PROVE  FALSE
  <2>1. 0..k \in T /\ 0..k \subseteq 0..m
    BY <1>5
  <2>2. m \in 0..m /\ m \notin 0..k
    BY <1>5
  <2>3. 0..k # 0..m
    BY <2>2
  <2>4. <<0..k, 0..m>> \in R
    BY <2>1, <2>3 DEF R, StrictSubsetOrdering
  <2> QED
    BY <1>3, <1>4, <2>1, <2>4
<1> QED
  BY <1>5

LEMMA AllNumbers ==
    ASSUME NEW S, 0 \in S, \A n \in Nat : n \in S => n + 1 \in S
    PROVE  \A n \in Nat : n \in S
<1> DEFINE Rest == {n \in Nat : n \notin S}
<1> SUFFICES ASSUME Rest # {} PROVE FALSE
  OBVIOUS
<1>1. PICK m \in Rest : \A k \in Rest : m <= k
  BY LeastOf
<1>2. m # 0 /\ m - 1 \in Nat
  BY <1>1
<1>3. m - 1 \in S
  BY <1>1, <1>2
<1>4. (m - 1) + 1 \in S
  BY <1>2, <1>3
<1> QED
  BY <1>1, <1>4

----------------------------------------------------------------------------
(* repair_duplicate_names                                                  *)

(* What a name is made of; a prover does not know that "#" is a string.    *)
Token == STRING \cup {"#", "|", "blank"}

LEMMA NumberIs ==
    ASSUME NEW k \in Nat \ {0}
    PROVE  /\ Number(k) \in Seq(Token) /\ Len(Number(k)) = k
           /\ \A j \in 1..k : Number(k)[j] \in {"#", "|"}
<1>1. Number(k) \in [1..k -> Token] /\ \A j \in 1..k : Number(k)[j] \in {"#", "|"}
  BY DEF Number, Token
<1>2. DOMAIN Number(k) = 1..k
  BY DEF Number
<1>3. Number(k) \in Seq(Token)
  BY <1>1, SeqDef
<1> QED
  BY <1>1, <1>2, <1>3, LenProperties

LEMMA CandidatesDiffer ==
    ASSUME NEW base \in Seq(Token), NEW k \in Nat \ {0}
    PROVE  /\ Candidate(base, k) \in Seq(Token)
           /\ Len(Candidate(base, k)) = Len(base) + IF k = 1 THEN 0 ELSE k + 1
<1>1. Number(k) \in Seq(Token) /\ Len(Number(k)) = k
  BY NumberIs
<1>2. CASE k = 1
  <2>1. Candidate(base, k) = base
    BY <1>2 DEF Candidate
  <2>2. Len(base) \in Nat
    BY LenProperties
  <2> QED
    BY <1>2, <2>1, <2>2
<1>3. CASE k # 1
  <2> DEFINE spaced == base \o <<"blank">>
  <2>1. Candidate(base, k) = spaced \o Number(k)
    BY <1>3 DEF Candidate
  <2>2. <<"blank">> \in Seq(Token) /\ Len(<<"blank">>) = 1
    BY DEF Token
  <2>3. spaced \in Seq(Token) /\ Len(spaced) = Len(base) + 1
    BY <2>2, ConcatProperties
  <2> HIDE DEF spaced
  <2>4. /\ spaced \o Number(k) \in Seq(Token)
        /\ Len(spaced \o Number(k)) = Len(spaced) + Len(Number(k))
    BY <1>1, <2>3, ConcatProperties
  <2>5. Len(base) \in Nat
    BY LenProperties
  <2> QED
    BY <1>1, <1>3, <2>1, <2>3, <2>4, <2>5
<1> QED
  BY <1>2, <1>3

IsCandidate(c, base) == \E k \in Nat \ {0} : c = Candidate(base, k)

(* The names a function gives to earlier records.                          *)
Earlier(f, i) == {f[j] : j \in 1..(i - 1)}

(* Of as many candidates as there are records one is free, because the     *)
(* other records have one name each.                                       *)
LEMMA SomeIsFree ==
    ASSUME NEW n \in Nat, NEW labels \in [1..n -> Seq(Token)], NEW i \in 1..n,
           NEW U \in [1..(i - 1) -> Seq(Token)]
    PROVE  \E k \in 1..n : Free(Candidate(labels[i], k), labels[i],
                                {U[j] : j \in 1..(i - 1)}, {labels[j] : j \in (i + 1)..n})
<1> DEFINE used == {U[j] : j \in 1..(i - 1)}
           later == {labels[j] : j \in (i + 1)..n}
           others == (1..n) \ {i}
           name == [j \in others |-> IF j < i THEN U[j] ELSE labels[j]]
           candidate == [k \in 1..n |-> Candidate(labels[i], k)]
<1> SUFFICES ASSUME \A k \in 1..n : Candidate(labels[i], k) \in used \cup later PROVE FALSE
  BY DEF Free
<1>1. IsFiniteSet(others) /\ Cardinality(others) = n - 1
  <2>1. IsFiniteSet(1..n) /\ Cardinality(1..n) = n
    BY FS_Interval
  <2> HIDE DEF others
  <2> QED
    BY <2>1, FS_RemoveElement DEF others
<1>2. name \in Surjection(others, used \cup later)
  <2>1. \A j \in others : name[j] \in used \cup later
    OBVIOUS
  <2>2. ASSUME NEW c \in used \cup later
        PROVE  \E j \in others : name[j] = c
    <3>1. CASE c \in used
      <4>1. PICK j \in 1..(i - 1) : c = U[j]
        BY <3>1
      <4>2. j \in others /\ j < i
        OBVIOUS
      <4> QED
        BY <4>1, <4>2
    <3>2. CASE c \in later
      <4>1. PICK j \in (i + 1)..n : c = labels[j]
        BY <3>2
      <4>2. j \in others /\ ~(j < i)
        OBVIOUS
      <4> QED
        BY <4>1, <4>2
    <3> QED
      BY <3>1, <3>2
  <2>3. name \in [others -> used \cup later]
    BY <2>1
  <2> HIDE DEF name, used, later, others
  <2> QED
    BY <2>2, <2>3 DEF Surjection
<1>3. IsFiniteSet(used \cup later) /\ Cardinality(used \cup later) <= n - 1
  BY <1>1, <1>2, FS_Surjection
<1>4. candidate \in [1..n -> used \cup later]
  OBVIOUS
<1>5. IsFiniteSet(1..n) /\ Cardinality(1..n) = n
  BY FS_Interval
<1>6. Cardinality(used \cup later) \in Nat
  BY <1>3, FS_CardinalityType
<1> HIDE DEF used, later, others, name, candidate
<1>7. PICK k, l \in 1..n : k # l /\ candidate[k] = candidate[l]
  <2>1. Cardinality(used \cup later) < Cardinality(1..n)
    BY <1>3, <1>5, <1>6
  <2> QED
    BY <1>3, <1>4, <1>5, <2>1, FS_PigeonHole
<1>8. Candidate(labels[i], k) = Candidate(labels[i], l)
  BY <1>7 DEF candidate
<1>9. Len(labels[i]) \in Nat
  OBVIOUS
<1> QED
  BY <1>7, <1>8, <1>9, CandidatesDiffer

LEMMA NameForIsFree ==
    ASSUME NEW n \in Nat, NEW labels \in [1..n -> Seq(Token)], NEW i \in 1..n,
           NEW U \in [1..(i - 1) -> Seq(Token)]
    PROVE  /\ NameFor(labels, i, Earlier(U, i)) \in Seq(Token) \ Earlier(U, i)
           /\ IsCandidate(NameFor(labels, i, Earlier(U, i)), labels[i])
<1> DEFINE used == {U[j] : j \in 1..(i - 1)}
           later == {labels[j] : j \in (i + 1)..n}
           free(k) == Free(Candidate(labels[i], k), labels[i], used, later)
           S == {k \in 1..n : free(k)}
           first == CHOOSE k \in DOMAIN labels : free(k) /\ \A l \in 1..(k - 1) : ~free(l)
<1>a. \E k \in 1..n : free(k)
  BY SomeIsFree
<1> HIDE DEF free
<1>1. S # {} /\ S \in SUBSET Nat
  <2>1. PICK k \in 1..n : free(k)
    BY <1>a
  <2>2. k \in S
    BY <2>1
  <2>3. S \in SUBSET Nat
    OBVIOUS
  <2> QED
    BY <2>2, <2>3
<1>2. PICK m \in S : \A k \in S : m <= k
  BY <1>1, LeastOf
<1>3. m \in DOMAIN labels /\ free(m)
  OBVIOUS
<1>4. ASSUME NEW l \in 1..(m - 1) PROVE ~free(l)
  <2>1. l \in 1..n /\ ~(m <= l)
    OBVIOUS
  <2> QED
    BY <1>2, <2>1
<1> HIDE DEF S
<1>5. \E k \in DOMAIN labels : free(k) /\ \A l \in 1..(k - 1) : ~free(l)
  BY <1>3, <1>4
<1>6. first \in 1..n /\ free(first)
  BY <1>5
<1>7. Len(labels) = n
  BY LenProperties, SeqDef
<1>8. NameFor(labels, i, used) = Candidate(labels[i], first)
  BY <1>7 DEF NameFor, free
<1> HIDE DEF first, used, later
<1>9. Candidate(labels[i], first) \in Seq(Token)
  BY <1>6, CandidatesDiffer
<1>10. Candidate(labels[i], first) \notin used
  BY <1>6 DEF free, Free
<1>11. first \in Nat \ {0}
  BY <1>6
<1> QED
  BY <1>8, <1>9, <1>10, <1>11 DEF used, Earlier, IsCandidate

(* The recursive definition of the names is a definition: it has what it   *)
(* says of itself.                                                         *)
NamedSoFar(f, labels, n) == f = [i \in 1..n |-> NameFor(labels, i, Earlier(f, i))]

LEMMA NamesExist ==
    ASSUME NEW labels, NEW n \in Nat
    PROVE  \E f : NamedSoFar(f, labels, n)
<1> DEFINE S == {m \in Nat : \E f : NamedSoFar(f, labels, m)}
<1>1. 0 \in S
  <2>1. NamedSoFar([i \in 1..0 |-> 0], labels, 0)
    BY DEF NamedSoFar
  <2> QED
    BY <2>1
<1>2. ASSUME NEW m \in Nat, m \in S
      PROVE  m + 1 \in S
  <2>1. PICK f : NamedSoFar(f, labels, m)
    BY <1>2
  <2> DEFINE last == NameFor(labels, m + 1, Earlier(f, m + 1))
             g == [i \in 1..(m + 1) |-> IF i = m + 1 THEN last ELSE f[i]]
  <2>2. ASSUME NEW i \in 1..(m + 1)
        PROVE  Earlier(g, i) = Earlier(f, i)
    <3>1. \A j \in 1..(i - 1) : g[j] = f[j]
      <4>1. \A j \in 1..(i - 1) : j \in 1..(m + 1) /\ j # m + 1
        OBVIOUS
      <4> HIDE DEF last
      <4> QED
        BY <4>1
    <3> HIDE DEF g
    <3> QED
      BY <3>1 DEF Earlier
  <2>3. ASSUME NEW i \in 1..(m + 1)
        PROVE  g[i] = NameFor(labels, i, Earlier(g, i))
    <3>1. CASE i = m + 1
      <4>1. g[i] = last
        BY <3>1
      <4> HIDE DEF g
      <4> QED
        BY <2>2, <3>1, <4>1
    <3>2. CASE i # m + 1
      <4>1. i \in 1..m
        BY <3>2
      <4>2. g[i] = f[i]
        BY <3>2
      <4>3. f[i] = NameFor(labels, i, Earlier(f, i))
        BY <2>1, <4>1, Zenon DEF NamedSoFar
      <4> HIDE DEF g
      <4> QED
        BY <2>2, <4>2, <4>3
    <3> QED
      BY <3>1, <3>2
  <2>4. g = [i \in 1..(m + 1) |-> g[i]]
    OBVIOUS
  <2> HIDE DEF g
  <2>5. NamedSoFar(g, labels, m + 1)
    BY <2>3, <2>4, Zenon DEF NamedSoFar
  <2> QED
    BY <2>5
<1> HIDE DEF S
<1>3. n \in S
  BY <1>1, <1>2, AllNumbers
<1> QED
  BY <1>3 DEF S

LEMMA RepairNamesIs ==
    ASSUME NEW labels, NEW n \in Nat, DOMAIN labels = 1..n
    PROVE  NamedSoFar(RepairNames(labels), labels, n)
<1>1. PICK f : NamedSoFar(f, labels, n)
  BY NamesExist
<1>2. f = [i \in DOMAIN labels |-> NameFor(labels, i, {f[j] : j \in 1..(i - 1)})]
  BY <1>1, Zenon DEF NamedSoFar, Earlier
<1>3. RepairNames(labels) =
        [i \in DOMAIN labels |->
            NameFor(labels, i, {RepairNames(labels)[j] : j \in 1..(i - 1)})]
  BY <1>2, Zenon DEF RepairNames
<1> QED
  BY <1>3, Zenon DEF NamedSoFar, Earlier

(* Whatever names the records have and however many they are, also if a    *)
(* name is already that of another with a number after it, no two get the  *)
(* same one; each keeps its own or that one with a number                  *)
(* (repair_duplicate_names).                                               *)
THEOREM RepairedApart ==
    ASSUME NEW n \in Nat, NEW labels \in [1..n -> Seq(Token)]
    PROVE  /\ RepairNames(labels) \in [1..n -> Seq(Token)]
           /\ \A i, j \in 1..n : RepairNames(labels)[i] = RepairNames(labels)[j] => i = j
           /\ \A i \in 1..n : IsCandidate(RepairNames(labels)[i], labels[i])
<1> DEFINE f == RepairNames(labels)
           Good(i) == /\ f[i] \in Seq(Token) \ Earlier(f, i)
                      /\ IsCandidate(f[i], labels[i])
           S == {m \in Nat : m <= n => \A i \in 1..m : Good(i)}
<1>1. f = [i \in 1..n |-> NameFor(labels, i, Earlier(f, i))]
  BY RepairNamesIs DEF NamedSoFar
<1> HIDE DEF f
<1>2. 0 \in S
  OBVIOUS
<1>3. ASSUME NEW m \in Nat, m \in S
      PROVE  m + 1 \in S
  <2> DEFINE i == m + 1
             U == [j \in 1..(i - 1) |-> f[j]]
  <2>1. i \in Nat /\ i - 1 = m
    OBVIOUS
  <2> HIDE DEF i
  <2> SUFFICES ASSUME i <= n PROVE Good(i)
    <3>1. \A j \in 1..i : j = i \/ j \in 1..m
      BY <2>1
    <3> HIDE DEF Good
    <3> QED
      BY <1>3, <2>1, <3>1 DEF i
  <2>2. i \in 1..n
    BY <2>1
  <2>3. \A j \in 1..(i - 1) : f[j] \in Seq(Token)
    BY <1>3, <2>1
  <2>4. U \in [1..(i - 1) -> Seq(Token)]
    BY <2>3
  <2>5. Earlier(U, i) = Earlier(f, i)
    BY DEF Earlier
  <2> HIDE DEF U
  <2>6. /\ NameFor(labels, i, Earlier(U, i)) \in Seq(Token) \ Earlier(U, i)
        /\ IsCandidate(NameFor(labels, i, Earlier(U, i)), labels[i])
    BY <2>2, <2>4, NameForIsFree
  <2>7. f[i] = NameFor(labels, i, Earlier(f, i))
    BY <1>1, <2>2, Zenon
  <2> QED
    BY <2>5, <2>6, <2>7
<1> HIDE DEF S
<1>4. n \in S
  BY <1>2, <1>3, AllNumbers
<1>5. \A i \in 1..n : Good(i)
  BY <1>4 DEF S
<1>6. \A i \in 1..n : f[i] \in Seq(Token)
  BY <1>5
<1>7. DOMAIN f = 1..n /\ f = [i \in 1..n |-> f[i]]
  BY <1>1, Zenon
<1>8. ASSUME NEW i \in 1..n, NEW j \in 1..n, j < i
      PROVE  f[i] # f[j]
  <2>1. j \in 1..(i - 1)
    BY <1>8
  <2> QED
    BY <1>5, <2>1 DEF Earlier
<1>9. ASSUME NEW i \in 1..n, NEW j \in 1..n, f[i] = f[j]
      PROVE  i = j
  BY <1>8, <1>9
<1> QED
  BY <1>5, <1>6, <1>7, <1>9 DEF f

(* An interval of places is taken as it is.                                *)
After(a, n) == (a + 1)..(a + n)
PartAfter(s, a, n) == [k \in 1..n |-> s[a + k]]

LEMMA SelectedInterval ==
    ASSUME NEW s, NEW a \in Nat, NEW n \in Nat
    PROVE  Selected(s, After(a, n)) = PartAfter(s, a, n)
<1> DEFINE places == (a + 1)..(a + n)
<1>1. ASSUME NEW i \in places
      PROVE  Rank(places, i) = i - a
  <2>1. places \cap (1..i) = (a + 1)..i
    OBVIOUS
  <2>2. Cardinality((a + 1)..i) = i - a
    BY FS_Interval
  <2> HIDE DEF places
  <2> QED
    BY <2>1, <2>2 DEF Rank
<1>2. Cardinality(places) = n
  BY FS_Interval
<1>3. ASSUME NEW k \in 1..n
      PROVE  NthPlace(places, k) = a + k
  <2>1. a + k \in places /\ \A i \in places : i - a = k => i = a + k
    OBVIOUS
  <2>2. Rank(places, a + k) = k
    <3>1. (a + k) - a = k
      OBVIOUS
    <3> QED
      BY <1>1, <2>1, <3>1
  <2>3. \A i \in places : Rank(places, i) = k => i = a + k
    BY <1>1, <2>1
  <2> HIDE DEF places
  <2> QED
    BY <2>1, <2>2, <2>3 DEF NthPlace, Rank
<1> HIDE DEF places
<1> QED
  BY <1>2, <1>3 DEF Selected, places, After, PartAfter

----------------------------------------------------------------------------
(* Labels that are cleaned twice                                           *)

(* A label as cleaning leaves it: nothing folded, single blanks inside.    *)
Clean(s, folded) ==
    \A i \in DOMAIN s :
        /\ s[i] \notin folded
        /\ s[i] = "blank" => i - 1 \in DOMAIN s /\ s[i - 1] # "blank" /\ i + 1 \in DOMAIN s

LEMMA CleanedIsClean ==
    ASSUME NEW label \in Seq(Token), NEW folded, "blank" \notin folded
    PROVE  Clean(Cleaned(label, folded), folded)
<1> DEFINE places == Words(label, folded)
           words == Selected(label, places)
           out == Cleaned(label, folded)
<1>1. PICK n \in Nat : DOMAIN label = 1..n
  BY SeqDef
<1>2. places \in SUBSET (1..n)
  BY <1>1 DEF Words
<1>3. /\ \A p \in 1..n : ~Blank(label[p], folded) => p \in places
      /\ \A p \in places : Blank(label[p], folded) =>
            /\ p - 1 \in 1..n /\ ~Blank(label[p - 1], folded)
            /\ \E j \in 1..n : p < j /\ ~Blank(label[j], folded)
  BY <1>1 DEF Words
<1>4. out = [k \in DOMAIN words |-> IF Blank(words[k], folded) THEN "blank" ELSE words[k]]
  BY DEF Cleaned
<1> HIDE DEF places, words
<1>5. PICK c \in Nat : \E at : PickedAt(words, label, places, c, at)
  BY <1>1, <1>2, SelectedIs DEF words
<1>6. PICK at : PickedAt(words, label, places, c, at)
  BY <1>5
<1>7. /\ DOMAIN words = 1..c /\ at \in [1..c -> places]
      /\ \A k \in 1..c : words[k] = label[at[k]]
      /\ \A j, k \in 1..c : j < k => at[j] < at[k]
      /\ \A i \in places : \E k \in 1..c : at[k] = i
  BY <1>6 DEF PickedAt
<1> HIDE DEF out
<1>8. /\ DOMAIN out = 1..c
      /\ \A k \in 1..c : out[k] = IF Blank(label[at[k]], folded) THEN "blank" ELSE label[at[k]]
  BY <1>4, <1>7
<1>9. \A k \in 1..c : out[k] \notin folded /\ (out[k] = "blank" <=> Blank(label[at[k]], folded))
  BY <1>8 DEF Blank
<1>10. \A k \in 1..c : at[k] \in 1..n
  BY <1>2, <1>7
<1>11. \A j, k \in 1..c : at[j] < at[k] => j < k
  <2> SUFFICES ASSUME NEW j \in 1..c, NEW k \in 1..c, at[j] < at[k], ~(j < k) PROVE FALSE
    OBVIOUS
  <2>1. j = k \/ k < j
    OBVIOUS
  <2>2. at[k] < at[j] \/ at[k] = at[j]
    BY <1>7, <2>1
  <2>3. at[k] \in Nat /\ at[j] \in Nat
    BY <1>10
  <2> QED
    BY <2>2, <2>3
<1>12. ASSUME NEW k \in 1..c, out[k] = "blank"
       PROVE  k - 1 \in 1..c /\ out[k - 1] # "blank" /\ k + 1 \in 1..c
  <2> DEFINE p == at[k]
  <2>1. p \in places /\ Blank(label[p], folded) /\ p \in 1..n
    BY <1>7, <1>9, <1>10, <1>12
  <2> HIDE DEF p
  <2>2. /\ p - 1 \in 1..n /\ ~Blank(label[p - 1], folded)
        /\ \E j \in 1..n : p < j /\ ~Blank(label[j], folded)
    BY <1>3, <2>1
  <2>3. PICK j \in 1..c : at[j] = p - 1
    BY <1>3, <1>7, <2>2
  <2>4. PICK l \in 1..c : p < at[l]
    <3>1. PICK q \in 1..n : p < q /\ ~Blank(label[q], folded)
      BY <2>2
    <3> QED
      BY <1>3, <1>7, <3>1
  <2>5. j < k /\ k < l
    BY <1>11, <2>1, <2>3, <2>4 DEF p
  <2>6. k - 1 \in 1..c /\ k + 1 \in 1..c
    BY <2>5
  <2>7. j = k - 1
    <3> SUFFICES ASSUME j # k - 1 PROVE FALSE
      OBVIOUS
    <3>1. j < k - 1 /\ k - 1 < k
      BY <2>5
    <3>2. at[j] < at[k - 1] /\ at[k - 1] < at[k]
      BY <1>7, <2>6, <3>1
    <3>3. at[k - 1] \in 1..n
      BY <1>10, <2>6
    <3> QED
      BY <2>1, <2>3, <3>2, <3>3 DEF p
  <2> QED
    BY <1>9, <2>2, <2>3, <2>6, <2>7
<1> QED
  BY <1>8, <1>9, <1>12 DEF Clean, out

(* What is clean stays as it is.                                           *)
LEMMA CleanStays ==
    ASSUME NEW s \in Seq(Token), NEW folded, Clean(s, folded)
    PROVE  Cleaned(s, folded) = s
<1>1. PICK n \in Nat : s \in [1..n -> Token]
  BY SeqDef
<1>2. DOMAIN s = 1..n /\ s = [k \in 1..n |-> s[k]]
  BY <1>1
<1>3. Words(s, folded) = 1..n
  <2>1. ASSUME NEW i \in 1..n, Blank(s[i], folded)
        PROVE  /\ i - 1 \in 1..n /\ ~Blank(s[i - 1], folded)
               /\ i + 1 \in 1..n /\ ~Blank(s[i + 1], folded)
    <3>1. s[i] = "blank"
      BY <1>2, <2>1 DEF Clean, Blank
    <3>2. i - 1 \in 1..n /\ s[i - 1] # "blank" /\ i + 1 \in 1..n
      BY <1>2, <3>1 DEF Clean
    <3>3. s[i + 1] # "blank"
      <4>1. s[i + 1] = "blank" => s[(i + 1) - 1] # "blank"
        BY <1>2, <3>2 DEF Clean
      <4>2. (i + 1) - 1 = i
        OBVIOUS
      <4> QED
        BY <3>1, <4>1, <4>2
    <3>4. s[i - 1] \notin folded /\ s[i + 1] \notin folded
      BY <1>2, <3>2 DEF Clean
    <3> QED
      BY <3>2, <3>3, <3>4 DEF Blank
  <2>2. \A i \in 1..n : i < i + 1
    OBVIOUS
  <2> QED
    BY <1>2, <2>1, <2>2 DEF Words
<1>4. Selected(s, 1..n) = s
  <2>1. Selected(s, After(0, n)) = PartAfter(s, 0, n)
    BY SelectedInterval
  <2>2. After(0, n) = 1..n /\ \A k \in 1..n : 0 + k = k
    BY DEF After
  <2>3. PartAfter(s, 0, n) = [k \in 1..n |-> s[k]]
    BY <2>2 DEF PartAfter
  <2> QED
    BY <1>2, <2>1, <2>2, <2>3
<1>5. \A k \in 1..n : Blank(s[k], folded) => s[k] = "blank"
  BY <1>2 DEF Clean, Blank
<1>6. Cleaned(s, folded) = [k \in DOMAIN s |-> IF Blank(s[k], folded) THEN "blank" ELSE s[k]]
  BY <1>2, <1>3, <1>4 DEF Cleaned
<1> QED
  BY <1>2, <1>5, <1>6

(* A clean name with a number is clean,                                    *)
LEMMA CandidateIsClean ==
    ASSUME NEW base \in Seq(Token), base # <<>>, NEW k \in Nat \ {0, 1},
           NEW folded, Clean(base, folded), {"blank", "#", "|"} \cap folded = {}
    PROVE  Clean(Candidate(base, k), folded)
<1> DEFINE b == Len(base)
           spaced == base \o <<"blank">>
           s == spaced \o Number(k)
<1>1. b \in Nat /\ b # 0 /\ DOMAIN base = 1..b
  BY LenProperties, EmptySeq
<1>2. <<"blank">> \in Seq(Token) /\ Len(<<"blank">>) = 1
  BY DEF Token
<1>3. /\ spaced \in Seq(Token) /\ Len(spaced) = b + 1
      /\ \A i \in 1..(b + 1) : spaced[i] = IF i <= b THEN base[i] ELSE "blank"
  BY <1>1, <1>2, ConcatProperties
<1> HIDE DEF spaced, b
<1>4. /\ DOMAIN s = 1..(b + 1 + k)
      /\ \A i \in 1..(b + 1 + k) :
            s[i] = IF i <= b + 1 THEN spaced[i] ELSE Number(k)[i - (b + 1)]
  <2> DEFINE number == Number(k)
  <2>1. number \in Seq(Token) /\ Len(number) = k
    BY NumberIs
  <2>2. s = spaced \o number
    OBVIOUS
  <2> HIDE DEF number, s
  <2>3. /\ spaced \o number \in Seq(Token)
        /\ Len(spaced \o number) = Len(spaced) + Len(number)
        /\ \A i \in 1..(Len(spaced) + Len(number)) :
              (spaced \o number)[i] = IF i <= Len(spaced) THEN spaced[i] ELSE number[i - Len(spaced)]
    BY <1>3, <2>1, ConcatProperties
  <2>4. DOMAIN s = 1..(b + 1 + k)
    BY <1>3, <2>1, <2>2, <2>3, LenProperties
  <2> QED
    BY <1>3, <2>1, <2>2, <2>3, <2>4 DEF number
<1>5. ASSUME NEW i \in 1..(b + 1 + k)
      PROVE  /\ i <= b => s[i] = base[i]
             /\ i = b + 1 => s[i] = "blank"
             /\ i > b + 1 => s[i] \in {"#", "|"}
  <2> HIDE DEF s
  <2>1. CASE i <= b + 1
    <3>1. s[i] = spaced[i] /\ i \in 1..(b + 1)
      BY <1>1, <1>4, <2>1
    <3> QED
      BY <1>1, <1>3, <2>1, <3>1
  <2>2. CASE i > b + 1
    <3>1. i - (b + 1) \in 1..k /\ ~(i <= b + 1) /\ ~(i <= b) /\ i # b + 1
      BY <1>1, <2>2
    <3>2. s[i] = Number(k)[i - (b + 1)]
      BY <1>4, <3>1
    <3>3. Number(k)[i - (b + 1)] \in {"#", "|"}
      BY <3>1, NumberIs
    <3> QED
      BY <3>1, <3>2, <3>3
  <2> QED
    BY <1>1, <2>1, <2>2
<1> HIDE DEF s
<1>6. base[b] # "blank"
  <2>1. b \in DOMAIN base /\ b + 1 \notin DOMAIN base
    BY <1>1
  <2> QED
    BY <2>1 DEF Clean
<1>7. ASSUME NEW i \in 1..(b + 1 + k)
      PROVE  s[i] \notin folded
  <2>1. CASE i <= b
    BY <1>1, <1>5, <2>1 DEF Clean
  <2>2. CASE i > b
    BY <1>1, <1>5, <2>2
  <2> QED
    BY <1>1, <2>1, <2>2
<1>8. ASSUME NEW i \in 1..(b + 1 + k), s[i] = "blank"
      PROVE  i - 1 \in 1..(b + 1 + k) /\ s[i - 1] # "blank" /\ i + 1 \in 1..(b + 1 + k)
  <2>1. CASE i <= b
    <3>1. i - 1 \in 1..b /\ base[i - 1] # "blank" /\ i + 1 \in 1..b
      BY <1>1, <1>5, <1>8, <2>1 DEF Clean
    <3>2. i - 1 \in 1..(b + 1 + k) /\ i - 1 <= b
      BY <1>1, <3>1
    <3> QED
      BY <1>1, <1>5, <3>1, <3>2
  <2>2. CASE i = b + 1
    <3>1. i - 1 = b /\ b \in 1..(b + 1 + k) /\ i + 1 \in 1..(b + 1 + k)
      BY <1>1, <2>2
    <3> QED
      BY <1>5, <1>6, <3>1
  <2>3. CASE i > b + 1
    BY <1>5, <1>8, <2>3
  <2> QED
    BY <1>1, <2>1, <2>2, <2>3
<1>9. Candidate(base, k) = s
  BY DEF Candidate, s, spaced
<1> QED
  BY <1>4, <1>7, <1>8, <1>9 DEF Clean

(* and an empty name with a number is the number when it is cleaned.       *)
LEMMA NumberAlone ==
    ASSUME NEW k \in Nat \ {0, 1}, NEW folded, {"#", "|"} \cap folded = {}
    PROVE  Cleaned(Candidate(<<>>, k), folded) = Number(k)
<1> DEFINE s == Candidate(<<>>, k)
<1>1. DOMAIN s = 1..(k + 1) /\ s[1] = "blank" /\ \A i \in 1..k : s[1 + i] = Number(k)[i]
  <2>1. <<>> \o <<"blank">> = <<"blank">>
    BY DEF Token
  <2>2. <<"blank">> \in Seq(Token) /\ Len(<<"blank">>) = 1 /\ <<"blank">>[1] = "blank"
    BY DEF Token
  <2>3. s = <<"blank">> \o Number(k)
    BY <2>1 DEF Candidate
  <2> DEFINE one == <<"blank">>
  <2> HIDE DEF one, s
  <2>4. /\ one \o Number(k) \in Seq(Token)
        /\ Len(one \o Number(k)) = k + 1
        /\ \A i \in 1..(k + 1) : (one \o Number(k))[i] = IF i <= 1 THEN one[i] ELSE Number(k)[i - 1]
    BY <2>2, NumberIs, ConcatProperties DEF one
  <2>5. \A i \in 1..k : 1 + i \in 1..(k + 1) /\ ~(1 + i <= 1) /\ (1 + i) - 1 = i
    OBVIOUS
  <2>6. 1 \in 1..(k + 1)
    OBVIOUS
  <2>7. s \in Seq(Token) /\ Len(s) = k + 1
    BY <2>3, <2>4 DEF one
  <2>8. s[1] = one[1] /\ \A i \in 1..k : s[1 + i] = Number(k)[i]
    BY <2>3, <2>4, <2>5, <2>6 DEF one
  <2>9. DOMAIN s = 1..(k + 1)
    BY <2>7, LenProperties
  <2> QED
    BY <2>2, <2>8, <2>9 DEF one
<1> HIDE DEF s
<1>2. \A i \in 2..(k + 1) : s[i] \in {"#", "|"}
  <2> SUFFICES ASSUME NEW i \in 2..(k + 1) PROVE s[i] \in {"#", "|"}
    OBVIOUS
  <2>1. i - 1 \in 1..k /\ 1 + (i - 1) = i
    OBVIOUS
  <2>2. s[i] = Number(k)[i - 1]
    BY <1>1, <2>1
  <2> QED
    BY <2>1, <2>2, NumberIs
<1>3. \A i \in 2..(k + 1) : ~Blank(s[i], folded)
  BY <1>2 DEF Blank
<1>4. Words(s, folded) = After(1, k)
  <2>1. Blank(s[1], folded) /\ 1 - 1 \notin DOMAIN s
    BY <1>1 DEF Blank
  <2>2. \A i \in DOMAIN s : i = 1 \/ i \in 2..(k + 1)
    BY <1>1
  <2>3. After(1, k) = 2..(k + 1) /\ 2..(k + 1) \subseteq DOMAIN s /\ 1 \notin 2..(k + 1)
    BY <1>1 DEF After
  <2> QED
    BY <1>3, <2>1, <2>2, <2>3 DEF Words
<1>5. Selected(s, Words(s, folded)) = [i \in 1..k |-> s[1 + i]]
  <2>1. Selected(s, After(1, k)) = PartAfter(s, 1, k)
    BY SelectedInterval
  <2> QED
    BY <1>4, <2>1 DEF PartAfter
<1>6. Cleaned(s, folded) = [i \in 1..k |-> Number(k)[i]]
  <2>1. \A i \in 1..k : ~Blank(s[1 + i], folded)
    <3>1. \A i \in 1..k : 1 + i \in 2..(k + 1)
      OBVIOUS
    <3> QED
      BY <1>3, <3>1
  <2> QED
    BY <1>1, <1>5, <2>1 DEF Cleaned
<1>7. Number(k) = [i \in 1..k |-> Number(k)[i]]
  BY DEF Number
<1> QED
  BY <1>6, <1>7 DEF s

(* So a name that was cleaned and then repaired changes no more when it is *)
(* cleaned again, unless it is a number without a name before it.          *)
IsNumber(label) == label = Number(Len(label))
Numbered(label) ==
    \E base \in Seq(Token) : Clean(base, {",", ":"}) /\ IsCandidate(label, base)

LEMMA SecondCleaning ==
    ASSUME NEW label, Numbered(label)
    PROVE  SurfboardLabel(label) = label \/ IsNumber(SurfboardLabel(label))
<1> DEFINE folded == {",", ":"}
<1>1. PICK base \in Seq(Token), k \in Nat \ {0} : Clean(base, folded) /\ label = Candidate(base, k)
  BY DEF Numbered, IsCandidate
<1>2. {"blank", "#", "|"} \cap folded = {}
  OBVIOUS
<1>3. SurfboardLabel(label) = Cleaned(label, folded)
  BY DEF SurfboardLabel
<1> HIDE DEF folded
<1>4. label \in Seq(Token)
  BY <1>1, CandidatesDiffer
<1>5. CASE k = 1 \/ base # <<>>
  <2>1. k = 1 => label = base
    BY <1>1 DEF Candidate
  <2>2. Clean(label, folded)
    BY <1>1, <1>2, <1>5, <2>1, CandidateIsClean
  <2> QED
    BY <1>3, <1>4, <2>2, CleanStays
<1>6. CASE k # 1 /\ base = <<>>
  <2>1. SurfboardLabel(label) = Number(k)
    BY <1>1, <1>2, <1>3, <1>6, NumberAlone
  <2> QED
    BY <2>1, NumberIs DEF IsNumber
<1> QED
  BY <1>5, <1>6

----------------------------------------------------------------------------
(* Lists of records                                                        *)

IsRecord(r) ==
    /\ r = [id |-> r.id, source |-> r.source, label |-> r.label, node |-> r.node]
    /\ r.source \in Token /\ r.label \in Seq(Token)
    /\ Coerced(r.node) = r.node

IsList(rs) == \E n \in Nat : DOMAIN rs = 1..n

AreRecords(rs) == IsList(rs) /\ \A i \in DOMAIN rs : IsRecord(rs[i])

(* Each record is one of the others in another dress: it is of the same    *)
(* entry and has the same node.                                            *)
ComeFrom(out, rs) ==
    /\ AreRecords(out)
    /\ \A k \in DOMAIN out : \E i \in DOMAIN rs :
          out[k].id = rs[i].id /\ out[k].node = rs[i].node

LEMMA ComeFromEarlier ==
    ASSUME NEW a, NEW b, NEW c, ComeFrom(a, b), ComeFrom(b, c)
    PROVE  ComeFrom(a, c)
<1>1. ASSUME NEW k \in DOMAIN a
      PROVE  \E i \in DOMAIN c : a[k].id = c[i].id /\ a[k].node = c[i].node
  <2>1. PICK j \in DOMAIN b : a[k].id = b[j].id /\ a[k].node = b[j].node
    BY DEF ComeFrom
  <2>2. PICK i \in DOMAIN c : b[j].id = c[i].id /\ b[j].node = c[i].node
    BY DEF ComeFrom
  <2> QED
    BY <2>1, <2>2
<1> QED
  BY <1>1 DEF ComeFrom

(* The parts of a selection are parts of the list, no two of them the same.*)
LEMMA SelectedFrom ==
    ASSUME NEW s, IsList(s), NEW places \in SUBSET DOMAIN s
    PROVE  /\ IsList(Selected(s, places))
           /\ \A k \in DOMAIN Selected(s, places) : \E i \in places : Selected(s, places)[k] = s[i]
<1>1. PICK n \in Nat : DOMAIN s = 1..n
  BY DEF IsList
<1>2. PICK c \in Nat : \E at : PickedAt(Selected(s, places), s, places, c, at)
  BY <1>1, SelectedIs
<1> QED
  BY <1>2 DEF IsList, PickedAt

LEMMA SelectedRecords ==
    ASSUME NEW rs, AreRecords(rs), NEW places \in SUBSET DOMAIN rs
    PROVE  ComeFrom(Selected(rs, places), rs)
BY SelectedFrom DEF AreRecords, ComeFrom

LEMMA SelectedTokens ==
    ASSUME NEW label \in Seq(Token), NEW places \in SUBSET DOMAIN label
    PROVE  Selected(label, places) \in Seq(Token)
<1>1. PICK n \in Nat : label \in [1..n -> Token]
  BY SeqDef
<1>2. IsList(label)
  BY <1>1 DEF IsList
<1>3. PICK c \in Nat : DOMAIN Selected(label, places) = 1..c
  BY <1>2, SelectedFrom DEF IsList
<1>4. Selected(label, places) = [k \in 1..c |-> Selected(label, places)[k]]
  BY <1>3 DEF Selected
<1>5. ASSUME NEW k \in 1..c
      PROVE  Selected(label, places)[k] \in Token
  <2>1. PICK i \in places : Selected(label, places)[k] = label[i]
    BY <1>2, <1>3, SelectedFrom
  <2> QED
    BY <1>1, <2>1
<1>6. Selected(label, places) \in [1..c -> Token]
  BY <1>4, <1>5
<1> QED
  BY <1>6, SeqDef

LEMMA CleanedTokens ==
    ASSUME NEW label \in Seq(Token), NEW folded
    PROVE  Cleaned(label, folded) \in Seq(Token)
<1> DEFINE words == Selected(label, Words(label, folded))
<1>1. words \in Seq(Token)
  BY SelectedTokens DEF Words
<1>2. Cleaned(label, folded) =
        [k \in DOMAIN words |-> IF Blank(words[k], folded) THEN "blank" ELSE words[k]]
  BY DEF Cleaned
<1> HIDE DEF words
<1>3. PICK n \in Nat : words \in [1..n -> Token]
  BY <1>1, SeqDef
<1>4. "blank" \in Token
  BY DEF Token
<1>5. Cleaned(label, folded) \in [1..n -> Token]
  BY <1>2, <1>3, <1>4
<1> QED
  BY <1>5, SeqDef

(* apply_transform                                                         *)
LEMMA RenderedTokens ==
    ASSUME NEW template \in Seq(Token), NEW r, r.source \in Token
    PROVE  Rendered(template, r) \in Seq(Token)
<1>1. PICK n \in Nat : template \in [1..n -> Token]
  BY SeqDef
<1>2. Rendered(template, r) \in [1..n -> Token]
  BY <1>1 DEF Rendered
<1> QED
  BY <1>2, SeqDef

RenameOk(rename) == rename.prefix \in Seq(Token) /\ rename.suffix \in Seq(Token)

LEMMA RenamedRecord ==
    ASSUME NEW r, IsRecord(r), NEW rename, RenameOk(rename)
    PROVE  /\ IsRecord(Rename(r, rename))
           /\ Rename(r, rename).id = r.id /\ Rename(r, rename).node = r.node
<1> DEFINE label == Rendered(rename.prefix, r) \o r.label \o Rendered(rename.suffix, r)
<1>1. label \in Seq(Token)
  BY RenderedTokens, ConcatProperties DEF IsRecord, RenameOk
<1>2. Rename(r, rename) = [r EXCEPT !.label = label]
  BY DEF Rename
<1> HIDE DEF label
<1>3. Rename(r, rename) = [id |-> r.id, source |-> r.source, label |-> label, node |-> r.node]
  BY <1>2 DEF IsRecord
<1> QED
  BY <1>1, <1>3 DEF IsRecord

LEMMA TransformedRecords ==
    ASSUME NEW rs, AreRecords(rs), NEW filter, NEW rename, RenameOk(rename)
    PROVE  ComeFrom(ApplyTransform(rs, filter, rename), rs)
<1> DEFINE kept == Selected(rs, {i \in DOMAIN rs : Kept(rs[i], filter)})
           out == ApplyTransform(rs, filter, rename)
<1>1. ComeFrom(kept, rs)
  BY SelectedRecords
<1>2. out = [i \in DOMAIN kept |-> Rename(kept[i], rename)]
  BY DEF ApplyTransform, Passing
<1> HIDE DEF kept, out
<1>3. ComeFrom(out, kept)
  BY <1>1, <1>2, RenamedRecord DEF ComeFrom, AreRecords, IsList
<1> QED
  BY <1>1, <1>3, ComeFromEarlier DEF out

(* _normalize_render_records                                               *)
LEMMA NormalizedRecords ==
    ASSUME NEW rs, AreRecords(rs)
    PROVE  ComeFrom(Normalized(rs), rs)
<1> DEFINE kept == Selected(rs, {i \in DOMAIN rs : Accepted(rs[i].node)})
           out == Normalized(rs)
<1>1. ComeFrom(kept, rs)
  BY SelectedRecords
<1>2. out = [i \in DOMAIN kept |-> [kept[i] EXCEPT !.node = Coerced(@)]]
  BY DEF Normalized, Passing
<1> HIDE DEF kept, out
<1>3. ASSUME NEW i \in DOMAIN kept PROVE out[i] = kept[i]
  BY <1>1, <1>2 DEF ComeFrom, AreRecords, IsRecord
<1>4. ComeFrom(out, kept)
  BY <1>1, <1>2, <1>3 DEF ComeFrom, AreRecords, IsList
<1> QED
  BY <1>1, <1>4, ComeFromEarlier DEF out

(* The records get labels that differ.                                     *)
LabelsApart(rs) == \A i, j \in DOMAIN rs : rs[i].label = rs[j].label => i = j

LEMMA RepairedRecords ==
    ASSUME NEW rs, AreRecords(rs)
    PROVE  /\ ComeFrom(Repaired(rs), rs) /\ LabelsApart(Repaired(rs))
           /\ \A i \in DOMAIN Repaired(rs) : \E j \in DOMAIN rs :
                  IsCandidate(Repaired(rs)[i].label, rs[j].label)
<1> DEFINE labels == [i \in DOMAIN rs |-> rs[i].label]
           names == RepairNames(labels)
           out == Repaired(rs)
<1>1. PICK n \in Nat : DOMAIN rs = 1..n
  BY DEF AreRecords, IsList
<1>2. labels \in [1..n -> Seq(Token)]
  BY <1>1 DEF AreRecords, IsRecord
<1> HIDE DEF labels
<1>3. /\ names \in [1..n -> Seq(Token)]
      /\ \A i, j \in 1..n : names[i] = names[j] => i = j
      /\ \A i \in 1..n : IsCandidate(names[i], labels[i])
  BY <1>2, RepairedApart
<1>a. \A i \in 1..n : labels[i] = rs[i].label
  BY <1>1 DEF labels
<1>4. out = [i \in DOMAIN rs |-> [rs[i] EXCEPT !.label = names[i]]]
  BY DEF Repaired, labels
<1> HIDE DEF names, out
<1>5. ASSUME NEW i \in 1..n
      PROVE  out[i] = [id |-> rs[i].id, source |-> rs[i].source,
                       label |-> names[i], node |-> rs[i].node]
  BY <1>1, <1>4 DEF AreRecords, IsRecord
<1>6. DOMAIN out = 1..n
  BY <1>1, <1>4
<1>7. ASSUME NEW i \in 1..n
      PROVE  IsRecord(out[i]) /\ out[i].id = rs[i].id /\ out[i].node = rs[i].node
  <2>0. out[i] = [id |-> rs[i].id, source |-> rs[i].source,
                  label |-> names[i], node |-> rs[i].node]
    BY <1>5
  <2>1. /\ out[i].id = rs[i].id /\ out[i].source = rs[i].source
        /\ out[i].label = names[i] /\ out[i].node = rs[i].node
    BY ONLY <2>0
  <2>2. names[i] \in Seq(Token)
    BY <1>3
  <2>3. IsRecord(rs[i])
    BY <1>1 DEF AreRecords
  <2>4. out[i] = [id |-> out[i].id, source |-> out[i].source,
                  label |-> out[i].label, node |-> out[i].node]
    BY <1>5, <2>1
  <2> QED
    BY <2>1, <2>2, <2>3, <2>4 DEF IsRecord
<1>8. ComeFrom(out, rs)
  BY <1>1, <1>6, <1>7 DEF ComeFrom, AreRecords, IsList
<1>9. LabelsApart(out)
  BY <1>3, <1>5, <1>6 DEF LabelsApart
<1>10. \A i \in DOMAIN out : \E j \in DOMAIN rs : IsCandidate(out[i].label, rs[j].label)
  <2>1. ASSUME NEW i \in 1..n PROVE out[i].label = names[i]
    <3>1. out[i] = [id |-> rs[i].id, source |-> rs[i].source,
                    label |-> names[i], node |-> rs[i].node]
      BY <1>5
    <3> QED
      BY ONLY <3>1
  <2> QED
    BY <1>1, <1>3, <1>a, <1>6, <2>1
<1> QED
  BY <1>8, <1>9, <1>10 DEF out

LEMMA SelectedApart ==
    ASSUME NEW rs, AreRecords(rs), LabelsApart(rs), NEW places \in SUBSET DOMAIN rs
    PROVE  LabelsApart(Selected(rs, places))
<1>1. PICK n \in Nat : DOMAIN rs = 1..n
  BY DEF AreRecords, IsList
<1>2. PICK c \in Nat : \E at : PickedAt(Selected(rs, places), rs, places, c, at)
  BY <1>1, SelectedIs
<1>a. PICK at : PickedAt(Selected(rs, places), rs, places, c, at)
  BY <1>2
<1>3. /\ DOMAIN Selected(rs, places) = 1..c /\ at \in [1..c -> places]
      /\ \A k \in 1..c : Selected(rs, places)[k] = rs[at[k]]
      /\ \A j, k \in 1..c : j < k => at[j] < at[k]
  BY <1>a DEF PickedAt
<1>4. ASSUME NEW j \in 1..c, NEW k \in 1..c, j < k
      PROVE  Selected(rs, places)[j].label # Selected(rs, places)[k].label
  <2>1. at[j] \in places /\ at[k] \in places /\ at[j] < at[k]
    BY <1>3, <1>4
  <2>2. at[j] # at[k]
    BY <1>1, <2>1
  <2> QED
    BY <1>3, <2>1, <2>2 DEF LabelsApart
<1>5. ASSUME NEW j \in 1..c, NEW k \in 1..c, j # k
      PROVE  j < k \/ k < j
  <2>1. j \in Nat /\ k \in Nat
    OBVIOUS
  <2> QED
    BY <1>5, <2>1
<1> QED
  BY <1>3, <1>4, <1>5 DEF LabelsApart

----------------------------------------------------------------------------
(* The lines of an output                                                  *)

(* What the checks of a format say of a node that gets a line.             *)
Expressible(format, n) ==
    CASE format = "xray-uri" -> XrayTakes(n)
      [] format = "surfboard" -> SurfboardTakes(n) /\ Complete(n, SurfboardNeeds)
      [] format = "quantumult-x" -> QxTakes(n)
      [] OTHER -> TRUE

LEMMA PreparedRecords ==
    ASSUME NEW rs, AreRecords(rs), NEW route, RenameOk(route.rename)
    PROVE  ComeFrom(Prepared(rs, route), rs) /\ LabelsApart(Prepared(rs, route))
<1> DEFINE transformed == ApplyTransform(rs, route.filter, route.rename)
           normalized == Normalized(transformed)
<1>1. ComeFrom(transformed, rs)
  BY TransformedRecords
<1> HIDE DEF transformed
<1>2. ComeFrom(normalized, rs)
  BY <1>1, NormalizedRecords, ComeFromEarlier DEF ComeFrom
<1> HIDE DEF normalized
<1>3. ComeFrom(Repaired(normalized), rs) /\ LabelsApart(Repaired(normalized))
  <2>1. ComeFrom(Repaired(normalized), normalized) /\ LabelsApart(Repaired(normalized))
    BY <1>2, RepairedRecords DEF ComeFrom
  <2> QED
    BY <1>2, <2>1, ComeFromEarlier
<1> QED
  BY <1>3 DEF Prepared, normalized, transformed

(* What is checked before the nodes are normalized holds of what is        *)
(* prepared for Surfboard, and its labels are clean ones, with a number or *)
(* without.                                                                *)
LEMMA SurfboardPrepared ==
    ASSUME NEW rs, AreRecords(rs), NEW route, RenameOk(route.rename)
    PROVE  /\ ComeFrom(SurfboardRecords(rs, route), rs)
           /\ LabelsApart(SurfboardRecords(rs, route))
           /\ \A k \in DOMAIN SurfboardRecords(rs, route) :
                  /\ SurfboardTakes(SurfboardRecords(rs, route)[k].node)
                  /\ Numbered(SurfboardRecords(rs, route)[k].label)
<1> DEFINE transformed == ApplyTransform(rs, route.filter, route.rename)
           places == {i \in DOMAIN transformed : SurfboardTakes(transformed[i].node)}
           kept == Selected(transformed, places)
           normalized == Normalized(kept)
           cleaned == [i \in DOMAIN normalized |->
                         [normalized[i] EXCEPT !.label = SurfboardLabel(@)]]
           out == SurfboardRecords(rs, route)
<1>0. out = Repaired(cleaned)
  BY DEF SurfboardRecords, Passing
<1>1. ComeFrom(transformed, rs)
  BY TransformedRecords
<1>a. places \in SUBSET DOMAIN transformed /\ \A i \in places : SurfboardTakes(transformed[i].node)
  OBVIOUS
<1> HIDE DEF transformed, places, out
<1>2. /\ ComeFrom(kept, transformed)
      /\ \A k \in DOMAIN kept : \E i \in places : kept[k] = transformed[i]
  BY <1>1, <1>a, SelectedRecords, SelectedFrom DEF ComeFrom, AreRecords
<1> HIDE DEF kept
<1>3. \A k \in DOMAIN kept : SurfboardTakes(kept[k].node)
  BY <1>a, <1>2
<1>4. ComeFrom(normalized, kept)
  BY <1>2, NormalizedRecords DEF ComeFrom
<1> HIDE DEF normalized
<1>5. ASSUME NEW i \in DOMAIN normalized
      PROVE  /\ IsRecord(cleaned[i]) /\ cleaned[i].id = normalized[i].id
             /\ cleaned[i].node = normalized[i].node
             /\ cleaned[i].label \in Seq(Token) /\ Clean(cleaned[i].label, {",", ":"})
  <2> DEFINE r == normalized[i]
             label == SurfboardLabel(r.label)
  <2>1. IsRecord(r)
    BY <1>4 DEF ComeFrom, AreRecords
  <2>2. label \in Seq(Token) /\ Clean(label, {",", ":"})
    <3> DEFINE folded == {",", ":"}
    <3>1. "blank" \notin folded
      OBVIOUS
    <3>2. label = Cleaned(r.label, folded)
      BY DEF SurfboardLabel
    <3> HIDE DEF folded, label, r
    <3>3. label \in Seq(Token) /\ Clean(label, folded)
      BY <2>1, <3>1, <3>2, CleanedTokens, CleanedIsClean DEF IsRecord
    <3> QED
      BY <3>3 DEF folded
  <2>3. cleaned[i] = [r EXCEPT !.label = label]
    OBVIOUS
  <2> HIDE DEF label, cleaned, r
  <2>4. cleaned[i] = [id |-> r.id, source |-> r.source, label |-> label, node |-> r.node]
    BY <2>1, <2>3 DEF IsRecord
  <2>5. /\ cleaned[i].id = r.id /\ cleaned[i].source = r.source
        /\ cleaned[i].label = label /\ cleaned[i].node = r.node
    BY ONLY <2>4
  <2>6. cleaned[i] = [id |-> cleaned[i].id, source |-> cleaned[i].source,
                      label |-> cleaned[i].label, node |-> cleaned[i].node]
    BY <2>4, <2>5
  <2>7. IsRecord(cleaned[i])
    BY <2>1, <2>2, <2>5, <2>6 DEF IsRecord
  <2> QED
    BY <2>2, <2>5, <2>7 DEF r
<1>6. DOMAIN cleaned = DOMAIN normalized
  OBVIOUS
<1> HIDE DEF cleaned
<1>7. ComeFrom(cleaned, normalized)
  BY <1>4, <1>5, <1>6 DEF ComeFrom, AreRecords, IsList
<1>8. /\ ComeFrom(out, cleaned) /\ LabelsApart(out)
      /\ \A i \in DOMAIN out : \E j \in DOMAIN cleaned :
            IsCandidate(out[i].label, cleaned[j].label)
  <2>1. AreRecords(cleaned)
    BY <1>7 DEF ComeFrom
  <2> QED
    BY <1>0, <2>1, RepairedRecords, Zenon
<1>9. ComeFrom(out, kept)
  BY <1>4, <1>7, <1>8, ComeFromEarlier
<1>10. ComeFrom(out, rs)
  BY <1>1, <1>2, <1>9, ComeFromEarlier
<1>11. \A k \in DOMAIN out : SurfboardTakes(out[k].node)
  BY <1>3, <1>9 DEF ComeFrom
<1>12. \A i \in DOMAIN out : Numbered(out[i].label)
  BY <1>5, <1>6, <1>8, Zenon DEF Numbered
<1> QED
  BY <1>8, <1>10, <1>11, <1>12 DEF out

(* A record that gets a line is one of the route's, its node passes the    *)
(* checks of the format, and it has a label of its own.                    *)
LEMMA TakenRecords ==
    ASSUME NEW rs, AreRecords(rs), NEW route, RenameOk(route.rename), NEW format
    PROVE  /\ ComeFrom(Taken(format, rs, route), rs)
           /\ LabelsApart(Taken(format, rs, route))
           /\ \A k \in DOMAIN Taken(format, rs, route) :
                  /\ Expressible(format, Taken(format, rs, route)[k].node)
                  /\ format = "surfboard" => Numbered(Taken(format, rs, route)[k].label)
<1> DEFINE prepared == Prepared(rs, route)
           surfboard == SurfboardRecords(rs, route)
           out == Taken(format, rs, route)
<1>1. ComeFrom(prepared, rs) /\ LabelsApart(prepared)
  BY PreparedRecords
<1>2. /\ ComeFrom(surfboard, rs) /\ LabelsApart(surfboard)
      /\ \A k \in DOMAIN surfboard :
            SurfboardTakes(surfboard[k].node) /\ Numbered(surfboard[k].label)
  BY SurfboardPrepared
<1> HIDE DEF prepared, surfboard, out
<1>3. CASE format = "xray-uri"
  <2> DEFINE places == {i \in DOMAIN prepared : XrayTakes(prepared[i].node)}
  <2>1. out = Selected(prepared, places)
    BY <1>3 DEF out, Taken, Passing, prepared
  <2>2. places \in SUBSET DOMAIN prepared /\ \A i \in places : XrayTakes(prepared[i].node)
    OBVIOUS
  <2> HIDE DEF places
  <2>3. ComeFrom(out, prepared) /\ LabelsApart(out)
    BY <1>1, <2>1, <2>2, SelectedRecords, SelectedApart DEF ComeFrom
  <2>4. \A k \in DOMAIN out : \E i \in places : out[k] = prepared[i]
    BY <1>1, <2>1, <2>2, SelectedFrom DEF ComeFrom, AreRecords
  <2>5. \A k \in DOMAIN out : Expressible(format, out[k].node)
    BY <1>3, <2>2, <2>4 DEF Expressible
  <2> QED
    BY <1>1, <1>3, <2>3, <2>5, ComeFromEarlier DEF out
<1>4. CASE format = "quantumult-x"
  <2> DEFINE places == {i \in DOMAIN prepared : QxTakes(prepared[i].node)}
  <2>1. out = Selected(prepared, places)
    BY <1>4 DEF out, Taken, Passing, prepared
  <2>2. places \in SUBSET DOMAIN prepared /\ \A i \in places : QxTakes(prepared[i].node)
    OBVIOUS
  <2> HIDE DEF places
  <2>3. ComeFrom(out, prepared) /\ LabelsApart(out)
    BY <1>1, <2>1, <2>2, SelectedRecords, SelectedApart DEF ComeFrom
  <2>4. \A k \in DOMAIN out : \E i \in places : out[k] = prepared[i]
    BY <1>1, <2>1, <2>2, SelectedFrom DEF ComeFrom, AreRecords
  <2>5. \A k \in DOMAIN out : Expressible(format, out[k].node)
    BY <1>4, <2>2, <2>4 DEF Expressible
  <2> QED
    BY <1>1, <1>4, <2>3, <2>5, ComeFromEarlier DEF out
<1>5. CASE format = "surfboard"
  <2> DEFINE places == {i \in DOMAIN surfboard : SurfboardPrints(surfboard[i])}
  <2>1. out = Selected(surfboard, places)
    BY <1>5 DEF out, Taken, Passing, surfboard
  <2>2. places \in SUBSET DOMAIN surfboard /\ \A i \in places : SurfboardPrints(surfboard[i])
    OBVIOUS
  <2> HIDE DEF places
  <2>3. ComeFrom(out, surfboard) /\ LabelsApart(out)
    BY <1>2, <2>1, <2>2, SelectedRecords, SelectedApart DEF ComeFrom
  <2>4. \A k \in DOMAIN out : \E i \in places : out[k] = surfboard[i]
    BY <1>2, <2>1, <2>2, SelectedFrom DEF ComeFrom, AreRecords
  <2>5. \A k \in DOMAIN out : Expressible(format, out[k].node) /\ Numbered(out[k].label)
    BY <1>2, <1>5, <2>2, <2>4 DEF Expressible, SurfboardPrints
  <2> QED
    BY <1>2, <2>3, <2>5, ComeFromEarlier DEF out
<1>6. CASE format \notin {"xray-uri", "quantumult-x", "surfboard"}
  <2>1. out = prepared
    BY <1>6 DEF out, Taken, prepared
  <2>2. \A k \in DOMAIN out : Expressible(format, out[k].node)
    BY <1>6 DEF Expressible
  <2> QED
    BY <1>1, <1>6, <2>1, <2>2 DEF out
<1> QED
  BY <1>3, <1>4, <1>5, <1>6

(* So a line stands for one of the route's records and holds what the      *)
(* format keeps of its node, and two lines have the same label only in     *)
(* Quantumult X or, in Surfboard, if it is a number and nothing more.      *)
LineOfOne(line, rs, format) ==
    \E i \in DOMAIN rs :
        /\ line.id = rs[i].id
        /\ line.keeps = Keeps(format, rs[i].node)
        /\ Expressible(format, rs[i].node)

LEMMA LinesAre ==
    ASSUME NEW rs, AreRecords(rs), NEW route, RenameOk(route.rename), NEW format
    PROVE  /\ \A k \in DOMAIN Lines(format, rs, route) :
                  LineOfOne(Lines(format, rs, route)[k], rs, format)
           /\ format # "quantumult-x" =>
                  \A j, k \in DOMAIN Lines(format, rs, route) :
                      Lines(format, rs, route)[j].label = Lines(format, rs, route)[k].label
                          => \/ j = k
                             \/ /\ format = "surfboard"
                                /\ IsNumber(Lines(format, rs, route)[j].label)
<1> DEFINE taken == Taken(format, rs, route)
           lines == Lines(format, rs, route)
<1>1. /\ ComeFrom(taken, rs) /\ LabelsApart(taken)
      /\ \A k \in DOMAIN taken :
            /\ Expressible(format, taken[k].node)
            /\ format = "surfboard" => Numbered(taken[k].label)
  BY TakenRecords
<1>2. lines = [i \in DOMAIN taken |-> LineOf(format, taken[i])]
  BY DEF Lines
<1> HIDE DEF taken, lines
<1>3. DOMAIN lines = DOMAIN taken
  BY <1>2
<1>4. ASSUME NEW k \in DOMAIN taken
      PROVE  /\ lines[k].id = taken[k].id
             /\ lines[k].label = LabelOf(format, taken[k].label)
             /\ lines[k].keeps = Keeps(format, taken[k].node)
  BY <1>2 DEF LineOf
<1>5. ASSUME NEW k \in DOMAIN lines
      PROVE  LineOfOne(lines[k], rs, format)
  <2>1. PICK i \in DOMAIN rs : taken[k].id = rs[i].id /\ taken[k].node = rs[i].node
    BY <1>1, <1>3 DEF ComeFrom
  <2> QED
    BY <1>1, <1>3, <1>4, <2>1 DEF LineOfOne
<1>6. ASSUME format # "quantumult-x", NEW j \in DOMAIN lines, NEW k \in DOMAIN lines,
             lines[j].label = lines[k].label
      PROVE  j = k \/ (format = "surfboard" /\ IsNumber(lines[j].label))
  <2>1. CASE format = "surfboard"
    <3>1. /\ lines[j].label = SurfboardLabel(taken[j].label)
          /\ lines[k].label = SurfboardLabel(taken[k].label)
      BY <1>3, <1>4, <2>1 DEF LabelOf
    <3>2. /\ lines[j].label = taken[j].label \/ IsNumber(lines[j].label)
          /\ lines[k].label = taken[k].label \/ IsNumber(lines[k].label)
      BY <1>1, <1>3, <2>1, <3>1, SecondCleaning
    <3> QED
      BY <1>1, <1>3, <1>6, <2>1, <3>2 DEF LabelsApart
  <2>2. CASE format # "surfboard"
    <3>1. lines[j].label = taken[j].label /\ lines[k].label = taken[k].label
      BY <1>3, <1>4, <1>6, <2>2 DEF LabelOf
    <3> QED
      BY <1>1, <1>3, <1>6, <3>1 DEF LabelsApart
  <2> QED
    BY <2>1, <2>2
<1> QED
  BY <1>5, <1>6 DEF lines
=============================================================================
