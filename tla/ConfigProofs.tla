---------------------------- MODULE ConfigProofs ----------------------------
(***************************************************************************)
(* Proofs about configuration files of any length, with any sections,      *)
(* options and values: what writeString() does to a file, and what the two *)
(* classes read from it.                                                   *)
(***************************************************************************)
EXTENDS Config, FiniteSetTheorems, SequenceTheorems, TLAPS

(* Least and greatest numbers, what Min and Max choose.                     *)
LEMMA Smallest ==
  ASSUME NEW S \in SUBSET Nat, S # {}
  PROVE  \E x \in S : \A y \in S : x <= y
<1> DEFINE T == {0 .. n : n \in S}
           R == StrictSubsetOrdering(Nat)
<1>1. IsWellFoundedOn(R, FiniteSubsetsOf(Nat))
  BY FS_StrictSubsetOrderingWellFounded
<1>2. T \subseteq FiniteSubsetsOf(Nat)
  <2>1. ASSUME NEW n \in S PROVE 0 .. n \in FiniteSubsetsOf(Nat)
    <3>1. IsFiniteSet(0 .. n)
      BY FS_Interval
    <3> QED
      BY <3>1 DEF FiniteSubsetsOf
  <2> QED
    BY <2>1
<1>3. T # {}
  OBVIOUS
<1> HIDE DEF T, R
<1>4. PICK X \in T : \A Y \in T : ~(<<Y, X>> \in R)
  BY <1>1, <1>2, <1>3, WFMin
<1> USE DEF T, R
<1>5. PICK x \in S : X = 0 .. x
  OBVIOUS
<1>6. ASSUME NEW y \in S, y < x PROVE FALSE
  <2>1. 0 .. y \in T /\ <<0 .. y, 0 .. x>> \notin R
    BY <1>4, <1>5
  <2>2. 0 .. y \in SUBSET Nat /\ 0 .. x \in SUBSET Nat /\ 0 .. y \subseteq 0 .. x
    BY <1>6
  <2>3. x \in 0 .. x /\ x \notin 0 .. y
    BY <1>6
  <2> QED
    BY <2>1, <2>2, <2>3 DEF StrictSubsetOrdering
<1> QED
  BY <1>6

\* Min chooses the least number of a set.
LEMMA MinIs ==
  ASSUME NEW S \in SUBSET Nat, S # {}
  PROVE  Min(S) \in S /\ \A y \in S : Min(S) <= y
BY Smallest DEF Min

\* Max chooses the greatest number of a bounded set.
LEMMA MaxIs ==
  ASSUME NEW n \in Nat, NEW S \in SUBSET (0 .. n), S # {}
  PROVE  Max(S) \in S /\ \A y \in S : Max(S) >= y
<1> DEFINE T == {n - s : s \in S}
<1>0. \A s \in S : s \in Nat /\ n - s \in Nat
  OBVIOUS
<1>1. T \in SUBSET Nat /\ T # {}
  BY <1>0
<1>2. PICK t \in T : \A y \in T : t <= y
  <2> HIDE DEF T
  <2> QED
    BY <1>1, Smallest
<1>3. PICK x \in S : t = n - x
  OBVIOUS
<1>4. ASSUME NEW y \in S PROVE x >= y
  <2>1. n - x <= n - y
    BY <1>2, <1>3
  <2> QED
    BY <1>0, <2>1
<1> QED
  BY <1>4 DEF Max

(* Least elements make induction: what holds of 0 and passes from each      *)
(* number to the next is in every set T of numbers.                         *)
LEMMA EveryNumber ==
  ASSUME NEW T, 0 \in T, \A n \in Nat : n \in T => n + 1 \in T
  PROVE  Nat \subseteq T
<1> SUFFICES ASSUME Nat \ T # {} PROVE FALSE
  OBVIOUS
<1>1. PICK x \in Nat \ T : \A y \in Nat \ T : x <= y
  BY Smallest
<1>2. x - 1 \in Nat /\ x - 1 < x
  BY <1>1
<1>3. x - 1 \in T
  BY <1>1, <1>2
<1> QED
  BY <1>1, <1>2, <1>3

-----------------------------------------------------------------------------
(* Ascending(S) of a finite set: it exists, has every number of the set,    *)
(* and is the only such enumeration.                                        *)
IsAscending(e, S) ==
    /\ e \in [1 .. Cardinality(S) -> S]
    /\ \A j, k \in 1 .. Cardinality(S) : j < k => e[j] < e[k]

\* By induction over the size: the least number comes first.
LEMMA AscendingExists ==
  ASSUME NEW S \in SUBSET Nat, IsFiniteSet(S)
  PROVE  \E e : IsAscending(e, S)
<1> DEFINE T == {n \in Nat : \A A \in SUBSET Nat :
                    IsFiniteSet(A) /\ Cardinality(A) = n => \E e : IsAscending(e, A)}
<1>1. 0 \in T
  <2> SUFFICES ASSUME NEW A \in SUBSET Nat, Cardinality(A) = 0
               PROVE  IsAscending([i \in 1 .. 0 |-> 0], A)
    OBVIOUS
  <2> QED
    BY DEF IsAscending
<1>2. ASSUME NEW n \in Nat, n \in T PROVE n + 1 \in T
  <2> SUFFICES ASSUME NEW A \in SUBSET Nat, IsFiniteSet(A), Cardinality(A) = n + 1
               PROVE  \E e : IsAscending(e, A)
    OBVIOUS
  <2>1. A # {}
    BY FS_EmptySet
  <2>2. PICK x \in A : \A y \in A : x <= y
    BY <2>1, Smallest
  <2>3. IsFiniteSet(A \ {x}) /\ Cardinality(A \ {x}) = n
    <3>1. IsFiniteSet(A \ {x}) /\ Cardinality(A \ {x}) = Cardinality(A) - 1
      BY <2>2, FS_RemoveElement
    <3> QED
      BY <3>1
  <2>4. PICK d : IsAscending(d, A \ {x})
    BY <1>2, <2>3
  <2>5. /\ d \in [1 .. n -> A \ {x}]
        /\ \A j, k \in 1 .. n : j < k => d[j] < d[k]
    BY <2>3, <2>4 DEF IsAscending
  <2> DEFINE e == [i \in 1 .. n + 1 |-> IF i = 1 THEN x ELSE d[i - 1]]
  <2>6. \A i \in 1 .. n + 1 : i # 1 => i - 1 \in 1 .. n
    OBVIOUS
  <2>7. e \in [1 .. n + 1 -> A]
    BY <2>5, <2>6
  <2>8. ASSUME NEW j \in 1 .. n + 1, NEW k \in 1 .. n + 1, j < k PROVE e[j] < e[k]
    <3>1. k # 1 /\ k - 1 \in 1 .. n /\ e[k] = d[k - 1]
      BY <2>6, <2>8
    <3>2. d[k - 1] \in A \ {x} /\ d[k - 1] \in Nat /\ x \in Nat
      BY <2>5, <3>1
    <3>3. CASE j = 1
      <4>1. x <= d[k - 1] /\ x # d[k - 1] /\ e[j] = x
        BY <2>2, <3>2, <3>3
      <4> QED
        BY <3>1, <3>2, <4>1
    <3>4. CASE j # 1
      <4>1. j - 1 \in 1 .. n /\ e[j] = d[j - 1] /\ j - 1 < k - 1
        BY <2>6, <2>8, <3>4
      <4> QED
        BY <2>5, <3>1, <4>1
    <3> QED
      BY <3>3, <3>4
  <2> QED
    BY <2>7, <2>8 DEF IsAscending
<1>3. Nat \subseteq T
  <2> HIDE DEF T
  <2> QED
    BY <1>1, <1>2, EveryNumber
<1>4. Cardinality(S) \in Nat
  BY FS_CardinalityType
<1> QED
  BY <1>3, <1>4

\* An injection into a set of the same size has every number of it.
LEMMA AscendingOnto ==
  ASSUME NEW S \in SUBSET Nat, IsFiniteSet(S), NEW e, IsAscending(e, S)
  PROVE  \A x \in S : \E k \in 1 .. Cardinality(S) : e[k] = x
<1> DEFINE n == Cardinality(S)
<1>1. n \in Nat
  BY FS_CardinalityType
<1>2. IsFiniteSet(1 .. n) /\ Cardinality(1 .. n) = n
  BY <1>1, FS_Interval
<1>3. e \in Injection(1 .. n, S)
  <2>1. e \in [1 .. n -> S] /\ \A j, k \in 1 .. n : j < k => e[j] < e[k]
    BY DEF IsAscending
  <2>2. ASSUME NEW j \in 1 .. n, NEW k \in 1 .. n, e[j] = e[k] PROVE j = k
    <3>1. ASSUME NEW x \in 1 .. n, NEW y \in 1 .. n, x < y, e[x] = e[y] PROVE FALSE
      <4>1. e[x] < e[y] /\ e[y] \in Nat
        BY <2>1, <3>1
      <4> QED
        BY <3>1, <4>1
    <3> QED
      BY <1>1, <2>2, <3>1
  <2> QED
    BY <2>1, <2>2 DEF Injection, IsInjective
<1>4. e \in Surjection(1 .. n, S)
  BY <1>2, <1>3, FS_Injection
<1> QED
  BY <1>4 DEF Surjection

\* At the first place where two enumerations differ, one misses a number.
LEMMA AscendingUnique ==
  ASSUME NEW S \in SUBSET Nat, IsFiniteSet(S), NEW d, IsAscending(d, S),
         NEW e, IsAscending(e, S)
  PROVE  d = e
<1> DEFINE n == Cardinality(S)
           differ == {k \in 1 .. n : d[k] # e[k]}
<1>1. /\ n \in Nat
      /\ d \in [1 .. n -> S] /\ \A j, k \in 1 .. n : j < k => d[j] < d[k]
      /\ e \in [1 .. n -> S] /\ \A j, k \in 1 .. n : j < k => e[j] < e[k]
  BY FS_CardinalityType DEF IsAscending
<1>2. /\ \A x \in S : \E k \in 1 .. n : d[k] = x
      /\ \A x \in S : \E k \in 1 .. n : e[k] = x
  BY AscendingOnto
<1> HIDE DEF n
<1> SUFFICES ASSUME differ # {} PROVE FALSE
  BY <1>1
<1>3. PICK k \in differ : \A j \in differ : k <= j
  <2>1. differ \in SUBSET Nat
    BY <1>1
  <2> HIDE DEF differ
  <2> QED
    BY <2>1, Smallest
<1>4. /\ k \in 1 .. n /\ d[k] # e[k] /\ d[k] \in S /\ e[k] \in S
      /\ \A j \in 1 .. n : j < k => d[j] = e[j]
  BY <1>1, <1>3
<1>5. d[k] \in Nat /\ e[k] \in Nat
  BY <1>4
<1>6. CASE d[k] < e[k]
  <2>1. PICK m \in 1 .. n : e[m] = d[k]
    BY <1>2, <1>4
  <2>2. m < k
    BY <1>1, <1>4, <1>5, <1>6, <2>1
  <2>3. d[m] = d[k] /\ d[m] < d[k]
    BY <1>1, <1>4, <2>1, <2>2
  <2> QED
    BY <1>5, <2>3
<1>7. CASE e[k] < d[k]
  <2>1. PICK m \in 1 .. n : d[m] = e[k]
    BY <1>2, <1>4
  <2>2. m < k
    BY <1>1, <1>4, <1>5, <1>7, <2>1
  <2>3. e[m] = e[k] /\ e[m] < e[k]
    BY <1>1, <1>4, <2>1, <2>2
  <2> QED
    BY <1>5, <2>3
<1> QED
  BY <1>4, <1>5, <1>6, <1>7

\* So Ascending(S) chooses the one enumeration there is.
LEMMA AscendingIs ==
  ASSUME NEW S \in SUBSET Nat, IsFiniteSet(S)
  PROVE  /\ Cardinality(S) \in Nat /\ IsAscending(Ascending(S), S)
         /\ \A e : IsAscending(e, S) => Ascending(S) = e
<1>1. Cardinality(S) \in Nat
  BY FS_CardinalityType
<1>2. PICK e : IsAscending(e, S)
  BY AscendingExists
<1>3. /\ e \in [1 .. Cardinality(S) -> S]
      /\ \A j, k \in DOMAIN e : j < k => e[j] < e[k]
  BY <1>2 DEF IsAscending
<1>4. /\ Ascending(S) \in [1 .. Cardinality(S) -> S]
      /\ \A j, k \in DOMAIN Ascending(S) : j < k => Ascending(S)[j] < Ascending(S)[k]
  BY <1>3 DEF Ascending
<1>5. IsAscending(Ascending(S), S)
  BY <1>4 DEF IsAscending
<1> QED
  BY <1>1, <1>5, AscendingUnique

(* A set and its image under a map that keeps the order.                    *)
SameOrder(to, A, B) ==
    /\ to \in [A -> B] /\ \A b \in B : \E a \in A : to[a] = b
    /\ \A a, b \in A : a < b => to[a] < to[b]

LEMMA AscendingImage ==
  ASSUME NEW A \in SUBSET Nat, IsFiniteSet(A), NEW B \in SUBSET Nat,
         NEW to, SameOrder(to, A, B)
  PROVE  /\ Cardinality(A) \in Nat /\ Cardinality(B) = Cardinality(A)
         /\ \A k \in 1 .. Cardinality(A) : /\ Ascending(A)[k] \in A
                                           /\ Ascending(B)[k] = to[Ascending(A)[k]]
         /\ DOMAIN Ascending(A) = 1 .. Cardinality(A)
         /\ DOMAIN Ascending(B) = 1 .. Cardinality(A)
<1>0. /\ to \in [A -> B] /\ \A b \in B : \E a \in A : to[a] = b
      /\ \A a, b \in A : a < b => to[a] < to[b]
  BY DEF SameOrder
<1>1. to \in Bijection(A, B)
  <2>1. ASSUME NEW a \in A, NEW b \in A, to[a] = to[b] PROVE a = b
    <3>1. a \in Nat /\ b \in Nat
      OBVIOUS
    <3>2. ASSUME NEW x \in A, NEW y \in A, x < y, to[x] = to[y] PROVE FALSE
      <4>1. to[x] < to[y] /\ to[y] \in Nat
        BY <1>0, <3>2
      <4> QED
        BY <3>2, <4>1
    <3> QED
      BY <2>1, <3>1, <3>2
  <2> QED
    BY <1>0, <2>1 DEF Bijection, Injection, Surjection, IsInjective
<1>2. IsFiniteSet(B) /\ Cardinality(B) = Cardinality(A)
  BY <1>1, FS_Bijection DEF ExistsBijection
<1>3. Cardinality(A) \in Nat /\ IsAscending(Ascending(A), A)
  BY AscendingIs
<1> DEFINE n == Cardinality(A)
           d == Ascending(A)
           e == [k \in 1 .. n |-> to[d[k]]]
<1>4. d \in [1 .. n -> A] /\ \A j, k \in 1 .. n : j < k => d[j] < d[k]
  BY <1>3 DEF IsAscending
<1> HIDE DEF n, d
<1>5. e \in [1 .. n -> B] /\ \A j, k \in 1 .. n : j < k => e[j] < e[k]
  BY <1>0, <1>4
<1>6. IsAscending(e, B)
  BY <1>2, <1>5 DEF IsAscending, n
<1>7. Ascending(B) = e
  BY <1>2, <1>6, AscendingIs
<1> QED
  BY <1>2, <1>3, <1>4, <1>7 DEF n, d

-----------------------------------------------------------------------------
(* What writeString() does to a complete file, line by line: new is at      *)
(* place p of the new lines, and gone = 1 if the old line p was left out.   *)
Put(old, all, p, gone, new) ==
    /\ p \in 1 .. Len(old) + 1 /\ gone \in {0, 1} /\ p + gone <= Len(old) + 1
    /\ all \in Seq(Line) /\ Len(all) = Len(old) + 1 - gone
    /\ \A i \in 1 .. p - 1 : all[i] = old[i]
    /\ all[p] = new
    /\ \A i \in p + gone .. Len(old) : all[i + 1 - gone] = old[i]

Exact(name, value) == Option(name, value, "exact")

\* The section starts at line h, and the search stopped at p.
InPlace(f, g, section, name, value) ==
    \E p \in 1 .. Len(f.lines) + 1, gone \in {0, 1} :
        /\ Put(f.lines, g.lines, p, gone, Exact(name, value))
        /\ \E h \in 1 .. p - 1 :
              /\ SectionFound(f, h, section)
              /\ \A i \in h + 1 .. p - 1 : ~OptionFound(f, i, name) /\ ~IsSection(f, i)
        /\ gone = 1 => OptionFound(f, p, name)
        /\ gone = 0 => p = Len(f.lines) + 1 \/ IsSection(f, p)

\* There is no such section.
AtEnd(f, g, section, name, value) ==
    /\ \A h \in 1 .. Len(f.lines) : ~SectionFound(f, h, section)
    /\ Len(g.lines) = Len(f.lines) + 2
    /\ \A i \in 1 .. Len(f.lines) : g.lines[i] = f.lines[i]
    /\ g.lines[Len(f.lines) + 1] = Header(name, "exact")
    /\ g.lines[Len(f.lines) + 2] = Exact(name, value)

(* Sequences that are put together.                                         *)
LEMMA Joined ==
  ASSUME NEW s \in Seq(Line), NEW t \in Seq(Line)
  PROVE  /\ Len(s) \in Nat /\ Len(t) \in Nat
         /\ s \o t \in Seq(Line) /\ Len(s \o t) = Len(s) + Len(t)
         /\ \A i \in 1 .. Len(s) : (s \o t)[i] = s[i]
         /\ \A i \in 1 .. Len(t) : (s \o t)[Len(s) + i] = t[i]
<1> DEFINE st == s \o t
<1>1. Len(s) \in Nat /\ Len(t) \in Nat
  BY LenProperties
<1>2. /\ st \in Seq(Line) /\ Len(st) = Len(s) + Len(t)
      /\ \A i \in 1 .. Len(s) + Len(t) :
            st[i] = IF i <= Len(s) THEN s[i] ELSE t[i - Len(s)]
  BY ConcatProperties
<1> HIDE DEF st
<1>3. \A i \in 1 .. Len(s) : st[i] = s[i]
  BY <1>1, <1>2
<1>4. ASSUME NEW i \in 1 .. Len(t) PROVE st[Len(s) + i] = t[i]
  <2>1. Len(s) + i \in 1 .. Len(s) + Len(t) /\ ~(Len(s) + i <= Len(s))
    BY <1>1
  <2>2. (Len(s) + i) - Len(s) = i
    BY <1>1
  <2> QED
    BY <1>2, <2>1, <2>2
<1> QED
  BY <1>1, <1>2, <1>3, <1>4 DEF st

\* One line behind others.
LEMMA OneMore ==
  ASSUME NEW s \in Seq(Line), NEW x \in Line
  PROVE  /\ Len(s) \in Nat /\ Len(s \o <<x>>) = Len(s) + 1 /\ s \o <<x>> \in Seq(Line)
         /\ \A i \in 1 .. Len(s) : (s \o <<x>>)[i] = s[i]
         /\ (s \o <<x>>)[Len(s) + 1] = x
         /\ Append(s, x) = s \o <<x>>
<1> DEFINE one == <<x>>
<1>0. one \in Seq(Line)
  OBVIOUS
<1>1. Len(one) = 1 /\ one[1] = x /\ 1 \in 1 .. 1
  OBVIOUS
<1>2. Append(s, x) = s \o one
  BY AppendIsConcat
<1> HIDE DEF one
<1>3. /\ Len(s) \in Nat /\ s \o one \in Seq(Line) /\ Len(s \o one) = Len(s) + Len(one)
      /\ \A i \in 1 .. Len(s) : (s \o one)[i] = s[i]
      /\ \A i \in 1 .. Len(one) : (s \o one)[Len(s) + i] = one[i]
  BY <1>0, Joined
<1>4. (s \o one)[Len(s) + 1] = x /\ Len(s \o one) = Len(s) + 1
  BY <1>1, <1>3, Zenon
<1> QED
  BY <1>2, <1>3, <1>4 DEF one

IsTwoMore(all, lines, x, y) ==
    /\ all = Append(lines, x) \o <<y>> /\ all \in Seq(Line)
    /\ Len(lines) \in Nat /\ Len(all) = Len(lines) + 2
    /\ \A i \in 1 .. Len(lines) : all[i] = lines[i]
    /\ all[Len(lines) + 1] = x /\ all[Len(lines) + 2] = y

\* Two lines behind others.
LEMMA TwoMore ==
  ASSUME NEW s \in Seq(Line), NEW x \in Line, NEW y \in Line
  PROVE  IsTwoMore(s \o <<x, y>>, s, x, y)
<1> DEFINE two == <<x, y>>
           one == Append(s, x)
           all == s \o two
           both == one \o <<y>>
<1>0. two \in Seq(Line)
  OBVIOUS
<1>1. Len(two) = 2 /\ two[1] = x /\ two[2] = y
      /\ 1 \in 1 .. 2 /\ 2 \in 1 .. 2
  OBVIOUS
<1> HIDE DEF two
<1>2. /\ Len(s) \in Nat /\ all \in Seq(Line) /\ Len(all) = Len(s) + Len(two)
      /\ \A i \in 1 .. Len(s) : all[i] = s[i]
      /\ \A i \in 1 .. Len(two) : all[Len(s) + i] = two[i]
  BY <1>0, Joined
<1>3. all[Len(s) + 1] = x /\ all[Len(s) + 2] = y /\ Len(all) = Len(s) + 2
  BY <1>1, <1>2, Zenon
<1>4. /\ one \in Seq(Line) /\ Len(one) = Len(s) + 1
      /\ \A i \in 1 .. Len(s) : one[i] = s[i]
      /\ one[Len(s) + 1] = x
  BY AppendProperties
<1> HIDE DEF one, all
<1>5. /\ both \in Seq(Line) /\ Len(both) = Len(one) + 1
      /\ \A i \in 1 .. Len(one) : both[i] = one[i]
      /\ both[Len(one) + 1] = y
  BY <1>4, OneMore
<1> HIDE DEF both
<1>6. Len(both) = Len(s) + 2 /\ Len(one) + 1 = Len(s) + 2
  BY <1>2, <1>3, <1>4, <1>5
<1>7. ASSUME NEW i \in 1 .. Len(all) PROVE all[i] = both[i]
  <2>1. CASE i \in 1 .. Len(s)
    <3>1. i \in 1 .. Len(one)
      BY <1>2, <1>4, <2>1
    <3>2. all[i] = s[i] /\ both[i] = one[i] /\ one[i] = s[i]
      BY <1>2, <1>4, <1>5, <2>1, <3>1, Zenon
    <3> QED
      BY <3>2, Zenon
  <2>2. CASE i = Len(s) + 1
    <3>1. i \in 1 .. Len(one)
      BY <1>2, <1>4, <2>2
    <3>2. both[i] = one[i]
      BY <1>5, <3>1, Zenon
    <3> QED
      BY <1>3, <1>4, <2>2, <3>2, Zenon
  <2>3. CASE i = Len(s) + 2
    BY <1>3, <1>5, <1>6, <2>3, Zenon
  <2> QED
    BY <1>2, <1>3, <2>1, <2>2, <2>3
<1>8. all = both
  BY <1>2, <1>3, <1>5, <1>6, <1>7, SeqEqual
<1> QED
  BY <1>2, <1>3, <1>8 DEF all, both, one, two, IsTwoMore

\* The lines that writeString() adds.
LEMMA NewLines ==
  ASSUME NEW name \in Names, NEW value \in Seq(Words)
  PROVE  Header(name, "exact") \in Line /\ Exact(name, value) \in Line
<1>1. value \in Seq(Words \cup Titles)
  BY SeqMonotonic
<1>2. Header(name, "exact") \in Line
  BY DEF Header, Line, Titles
<1>3. Exact(name, value) \in Line
  BY <1>1 DEF Exact, Option, Line
<1> QED
  BY <1>2, <1>3

\* writeString() of a section that a complete file does not have.
LEMMA AtEndIs ==
  ASSUME NEW f \in Texts, EndsWell(f), NEW section \in Sections, NEW name \in Names,
         NEW value \in Seq(Words),
         NEW g \in writeString(f, section, name, value),
         \A h \in DOMAIN f.lines : ~SectionFound(f, h, section)
  PROVE  /\ AtEnd(f, g, section, name, value) /\ g \in Texts /\ EndsWell(g)
         /\ g.lines = Append(f.lines, Header(name, "exact")) \o <<Exact(name, value)>>
<1> DEFINE a == Header(name, "exact")
           b == Exact(name, value)
           lines == f.lines
           all == lines \o <<a, b>>
<1>1. lines \in Seq(Line) /\ lines # <<>> /\ f.eol = TRUE
  BY DEF Texts, EndsWell
<1>2. a \in Line /\ b \in Line
  BY NewLines
<1>3. g = File(all, TRUE)
  <2>1. g \in NoSection(f, name, value)
    BY DEF writeString
  <2> QED
    BY <1>1, <2>1 DEF NoSection, AppendLines, Exact
<1>4. DOMAIN lines = 1 .. Len(lines)
  BY <1>1, LenProperties
<1>0. lines \in Seq(Line)
  BY <1>1
<1> HIDE DEF a, b, lines
<1>5. IsTwoMore(all, lines, a, b)
  BY <1>0, <1>2, TwoMore, Zenon
<1> HIDE DEF all
<1>6. g.lines = all /\ g.eol = TRUE /\ g \in Texts
  BY <1>3, <1>5 DEF File, Texts, IsTwoMore
<1>7. AtEnd(f, g, section, name, value)
  BY <1>4, <1>5, <1>6 DEF IsTwoMore, AtEnd, a, b, lines
<1>8. all # <<>>
  BY <1>5, EmptySeq DEF IsTwoMore
<1> QED
  BY <1>5, <1>6, <1>7, <1>8 DEF IsTwoMore, EndsWell, a, b, lines

(* A line put at the end, and a line put between two parts.                 *)
LEMMA PutLast ==
  ASSUME NEW s \in Seq(Line), NEW new \in Line
  PROVE  Put(s, s \o <<new>>, Len(s) + 1, 0, new)
<1>1. /\ Len(s) \in Nat /\ Len(s \o <<new>>) = Len(s) + 1 /\ s \o <<new>> \in Seq(Line)
      /\ \A i \in 1 .. Len(s) : (s \o <<new>>)[i] = s[i]
      /\ (s \o <<new>>)[Len(s) + 1] = new
  BY OneMore
<1> QED
  BY <1>1 DEF Put

Parts(s, p, gone, new) ==
    SubSeq(s, 1, p - 1) \o <<new>> \o SubSeq(s, p + gone, Len(s))

\* The new line between the lines before p and those behind it.
LEMMA PutBetween ==
  ASSUME NEW s \in Seq(Line), NEW new \in Line, NEW p \in 1 .. Len(s) + 1,
         NEW gone \in {0, 1}, p + gone <= Len(s) + 1
  PROVE  Put(s, Parts(s, p, gone, new), p, gone, new)
<1> DEFINE a == SubSeq(s, 1, p - 1)
           c == SubSeq(s, p + gone, Len(s))
           ab == a \o <<new>>
           all == ab \o c
<1>1. Len(s) \in Nat /\ \A i \in 1 .. Len(s) : s[i] \in Line
  BY LenProperties, ElementOfSeq
<1>2. /\ a \in Seq(Line) /\ Len(a) = p - 1
      /\ \A i \in 1 .. p - 1 : a[i] = s[i]
  <2>1. \A i \in 1 .. p - 1 : s[i] \in Line
    BY <1>1
  <2>2. /\ a \in Seq(Line) /\ Len(a) = IF 1 <= p - 1 THEN p - 1 - 1 + 1 ELSE 0
        /\ \A i \in 1 .. p - 1 - 1 + 1 : a[i] = s[1 + i - 1]
    BY <1>1, <2>1, SubSeqProperties
  <2> HIDE DEF a
  <2> QED
    BY <1>1, <2>2
<1>3. /\ c \in Seq(Line) /\ Len(c) = Len(s) + 1 - (p + gone)
      /\ \A i \in 1 .. Len(s) + 1 - (p + gone) : c[i] = s[p + gone + i - 1]
  <2>1. \A i \in p + gone .. Len(s) : s[i] \in Line
    BY <1>1
  <2>2. /\ c \in Seq(Line)
        /\ Len(c) = IF p + gone <= Len(s) THEN Len(s) - (p + gone) + 1 ELSE 0
        /\ \A i \in 1 .. Len(s) - (p + gone) + 1 : c[i] = s[p + gone + i - 1]
    BY <1>1, <2>1, SubSeqProperties
  <2> HIDE DEF c
  <2> QED
    BY <1>1, <2>2
<1> HIDE DEF a, c
<1>4. /\ Len(ab) = p /\ ab \in Seq(Line)
      /\ \A i \in 1 .. p - 1 : ab[i] = s[i]
      /\ ab[p] = new
  <2>1. /\ Len(ab) = Len(a) + 1 /\ ab \in Seq(Line)
        /\ \A i \in 1 .. Len(a) : ab[i] = a[i]
        /\ ab[Len(a) + 1] = new
    BY <1>2, OneMore
  <2> HIDE DEF ab
  <2> QED
    BY <1>1, <1>2, <2>1
<1> HIDE DEF ab
<1>5. /\ all \in Seq(Line) /\ Len(all) = Len(ab) + Len(c)
      /\ \A i \in 1 .. Len(ab) : all[i] = ab[i]
      /\ \A i \in 1 .. Len(c) : all[Len(ab) + i] = c[i]
  BY <1>3, <1>4, Joined
<1> HIDE DEF all
<1>6. Len(all) = Len(s) + 1 - gone
  BY <1>1, <1>3, <1>4, <1>5
<1>7. \A i \in 1 .. p - 1 : all[i] = s[i]
  BY <1>1, <1>4, <1>5
<1>8. all[p] = new
  BY <1>1, <1>4, <1>5
<1>9. ASSUME NEW i \in p + gone .. Len(s) PROVE all[i + 1 - gone] = s[i]
  <2>1. PICK k \in 1 .. Len(c) : i = p + gone + k - 1
    <3>1. i - (p + gone) + 1 \in 1 .. Len(c) /\ i = p + gone + (i - (p + gone) + 1) - 1
      BY <1>1, <1>3
    <3> QED
      BY <3>1
  <2>2. i + 1 - gone = Len(ab) + k /\ k \in 1 .. Len(s) + 1 - (p + gone)
    BY <1>1, <1>3, <1>4, <2>1
  <2>3. all[Len(ab) + k] = c[k]
    BY <1>5
  <2>4. c[k] = s[p + gone + k - 1]
    BY <1>3, <2>2
  <2> QED
    BY <2>1, <2>2, <2>3, <2>4
<1>10. Put(s, all, p, gone, new)
  BY <1>1, <1>5, <1>6, <1>7, <1>8, <1>9 DEF Put
<1> QED
  BY <1>10 DEF Parts, all, ab, a, c

\* RemoveAt(), line by line.
LEMMA RemoveIs ==
  ASSUME NEW s \in Seq(Line), NEW p \in 1 .. Len(s)
  PROVE  /\ RemoveAt(s, p) \in Seq(Line) /\ Len(RemoveAt(s, p)) = Len(s) - 1
         /\ \A i \in 1 .. p - 1 : RemoveAt(s, p)[i] = s[i]
         /\ \A i \in p + 1 .. Len(s) : RemoveAt(s, p)[i - 1] = s[i]
<1> DEFINE a == SubSeq(s, 1, p - 1)
           c == SubSeq(s, p + 1, Len(s))
           all == a \o c
<1>1. Len(s) \in Nat /\ \A i \in 1 .. Len(s) : s[i] \in Line
  BY LenProperties, ElementOfSeq
<1>2. /\ a \in Seq(Line) /\ Len(a) = p - 1
      /\ \A i \in 1 .. p - 1 : a[i] = s[i]
  <2>1. \A i \in 1 .. p - 1 : s[i] \in Line
    BY <1>1
  <2>2. /\ a \in Seq(Line) /\ Len(a) = IF 1 <= p - 1 THEN p - 1 - 1 + 1 ELSE 0
        /\ \A i \in 1 .. p - 1 - 1 + 1 : a[i] = s[1 + i - 1]
    BY <1>1, <2>1, SubSeqProperties
  <2> HIDE DEF a
  <2> QED
    BY <1>1, <2>2
<1>3. /\ c \in Seq(Line) /\ Len(c) = Len(s) - p
      /\ \A i \in 1 .. Len(s) - p : c[i] = s[p + i]
  <2>1. \A i \in p + 1 .. Len(s) : s[i] \in Line
    BY <1>1
  <2>2. /\ c \in Seq(Line)
        /\ Len(c) = IF p + 1 <= Len(s) THEN Len(s) - (p + 1) + 1 ELSE 0
        /\ \A i \in 1 .. Len(s) - (p + 1) + 1 : c[i] = s[p + 1 + i - 1]
    BY <1>1, <2>1, SubSeqProperties
  <2> HIDE DEF c
  <2>3. /\ Len(s) - (p + 1) + 1 = Len(s) - p
        /\ (IF p + 1 <= Len(s) THEN Len(s) - (p + 1) + 1 ELSE 0) = Len(s) - p
    BY <1>1
  <2>4. \A i \in 1 .. Len(s) - p : p + 1 + i - 1 = p + i
    BY <1>1
  <2>5. Len(c) = Len(s) - p
    BY <2>2, <2>3, Zenon
  <2>6. \A i \in 1 .. Len(s) - p : c[i] = s[p + 1 + i - 1]
    BY <2>2, <2>3, Zenon
  <2>7. \A i \in 1 .. Len(s) - p : c[i] = s[p + i]
    BY <2>4, <2>6, Zenon
  <2> QED
    BY <2>2, <2>5, <2>7, Zenon
<1> HIDE DEF a, c
<1>4. /\ all \in Seq(Line) /\ Len(all) = Len(a) + Len(c)
      /\ \A i \in 1 .. Len(a) : all[i] = a[i]
      /\ \A i \in 1 .. Len(c) : all[Len(a) + i] = c[i]
  BY <1>2, <1>3, Joined
<1> HIDE DEF all
<1>5. Len(all) = Len(s) - 1
  BY <1>1, <1>2, <1>3, <1>4
<1>6. \A i \in 1 .. p - 1 : all[i] = s[i]
  BY <1>1, <1>2, <1>4
<1>7. ASSUME NEW i \in p + 1 .. Len(s) PROVE all[i - 1] = s[i]
  <2>1. PICK k \in 1 .. Len(c) : i = p + k
    <3>1. i - p \in 1 .. Len(c) /\ i = p + (i - p)
      BY <1>1, <1>3
    <3> QED
      BY <3>1
  <2>2. i - 1 = Len(a) + k /\ k \in 1 .. Len(s) - p
    BY <1>1, <1>2, <1>3, <2>1
  <2>3. all[Len(a) + k] = c[k]
    BY <1>4
  <2>4. c[k] = s[p + k]
    BY <1>3, <2>2
  <2> QED
    BY <2>1, <2>2, <2>3, <2>4
<1> QED
  BY <1>4, <1>5, <1>6, <1>7 DEF all, a, c, RemoveAt

\* A place in a sequence, and the one behind it.
LEMMA Fits ==
  ASSUME NEW n \in Nat, NEW i \in 1 .. n, NEW gone \in {0, 1}
  PROVE  i \in 1 .. n + 1 /\ i + gone <= n + 1
OBVIOUS

\* writeString() of a section that a complete file has.
LEMMA InPlaceIs ==
  ASSUME NEW f \in Texts, EndsWell(f), NEW section \in Sections, NEW name \in Names,
         NEW value \in Seq(Words),
         NEW g \in writeString(f, section, name, value),
         \E h \in DOMAIN f.lines : SectionFound(f, h, section)
  PROVE  InPlace(f, g, section, name, value) /\ g \in Texts
<1> DEFINE lines == f.lines
           new == Exact(name, value)
           heads == {h \in DOMAIN f.lines : SectionFound(f, h, section)}
           h == Min(heads)
           stops == {i \in h + 1 .. Len(f.lines) : OptionFound(f, i, name) \/ IsSection(f, i)}
           stop == Min(stops)
<1>1. lines \in Seq(Line) /\ f.eol = TRUE
  BY DEF Texts, EndsWell
<1>2. new \in Line
  BY NewLines
<1>3. Len(lines) \in Nat /\ DOMAIN lines = 1 .. Len(lines)
  BY <1>1, LenProperties
<1>8. \A i \in 1 .. Len(lines), n \in {0, 1} :
        i \in 1 .. Len(lines) + 1 /\ i + n <= Len(lines) + 1
  BY <1>3, Fits
<1>4. h \in 1 .. Len(lines) /\ SectionFound(f, h, section)
  <2>1. heads \in SUBSET Nat /\ heads # {}
    BY <1>3
  <2>2. h \in heads
    BY <2>1, MinIs
  <2> QED
    BY <1>3, <2>2
<1>5. g = InSection(f, h, name, value)
  BY DEF writeString
<1> HIDE DEF h
<1>6. CASE stops = {}
  <2> DEFINE all == lines \o <<new>>
  <2>1. g = File(all, TRUE)
    BY <1>1, <1>5, <1>6 DEF InSection, AppendLines, Exact
  <2>2. Put(lines, all, Len(lines) + 1, 0, new)
    BY <1>1, <1>2, PutLast
  <2> HIDE DEF all
  <2>3. g.lines = all /\ g \in Texts
    BY <2>1, <2>2 DEF File, Texts, Put
  <2>4. \A i \in h + 1 .. Len(lines) + 1 - 1 : ~OptionFound(f, i, name) /\ ~IsSection(f, i)
    BY <1>3, <1>6
  <2>5. h \in 1 .. Len(lines) + 1 - 1 /\ Len(lines) + 1 \in 1 .. Len(lines) + 1
    BY <1>3, <1>4
  <2> QED
    BY <1>4, <2>2, <2>3, <2>4, <2>5 DEF InPlace, lines, new
<1>7. CASE stops # {}
  <2>1. stops \in SUBSET Nat
    BY <1>3, <1>4
  <2>2. stop \in stops /\ \A i \in stops : stop <= i
    <3> HIDE DEF stops
    <3> QED
      BY <1>7, <2>1, MinIs
  <2>3. stop \in h + 1 .. Len(lines) /\ (OptionFound(f, stop, name) \/ IsSection(f, stop))
    BY <2>2
  <2>4. ASSUME NEW i \in h + 1 .. stop - 1
        PROVE  ~OptionFound(f, i, name) /\ ~IsSection(f, i)
    <3>1. i \in h + 1 .. Len(lines) /\ ~(stop <= i)
      <4> HIDE DEF stop, lines
      <4> QED
        BY <1>3, <1>4, <2>3
    <3>2. i \notin stops
      <4> HIDE DEF stop, stops
      <4> QED
        BY <2>2, <3>1
    <3> QED
      BY <3>1, <3>2
  <2> DEFINE gone == IF IsOption(lines[stop]) THEN 1 ELSE 0
             rest == Rest(f, stop)
             all == SubSeq(lines, 1, stop - 1) \o <<new>> \o rest
  <2>5. gone \in {0, 1} /\ stop \in 1 .. Len(lines) + 1 /\ stop + gone <= Len(lines) + 1
    <3>1. stop \in 1 .. Len(lines)
      <4> HIDE DEF stop, lines
      <4> QED
        BY <1>3, <1>4, <2>3
    <3>2. gone \in {0, 1}
      OBVIOUS
    <3> HIDE DEF gone, stop, lines
    <3>3. stop \in 1 .. Len(lines) + 1 /\ stop + gone <= Len(lines) + 1
      BY <1>8, <3>1, <3>2, Zenon
    <3> QED
      BY <3>2, <3>3
  <2>6. gone = 1 => OptionFound(f, stop, name)
    <3> HIDE DEF stop
    <3> QED
      BY <2>3 DEF IsSection, IsHeader, IsOption
  <2>12. gone = 0 => IsSection(f, stop)
    <3> HIDE DEF stop
    <3> QED
      BY <2>3 DEF OptionFound
  <2>7. all = Parts(lines, stop, gone, new)
    <3>1. (IF IsOption(f.lines[stop]) THEN stop + 1 ELSE stop) = stop + gone
      BY <1>3, <1>4, <2>3
    <3>2. rest = SubSeq(lines, stop + gone, Len(lines))
      BY <3>1, Zenon DEF Rest
    <3> QED
      BY <3>2, Zenon DEF Parts
  <2>8. g = File(all, TRUE)
    <3>1. g = File(all, IF rest = <<>> THEN TRUE ELSE f.eol)
      BY <1>5, <1>7, Zenon DEF InSection, Exact
    <3> QED
      BY <1>1, <3>1
  <2> HIDE DEF stop, gone, all, lines, new
  <2>9. Put(lines, all, stop, gone, new)
    BY <1>1, <1>2, <2>5, <2>7, PutBetween
  <2>10. g.lines = all /\ g \in Texts
    BY <2>8, <2>9 DEF File, Texts, Put
  <2>11. h \in 1 .. stop - 1
    BY <1>3, <1>4, <2>3
  <2> QED
    BY <1>4, <2>4, <2>5, <2>6, <2>9, <2>10, <2>11, <2>12 DEF InPlace, lines, new
<1> QED
  BY <1>6, <1>7

(* The lines that are there after a line was put in.                        *)
LEMMA RemovePut ==
  ASSUME NEW s \in Seq(Line), NEW all, NEW p, NEW gone, NEW new,
         Put(s, all, p, gone, new)
  PROVE  /\ p \in DOMAIN all /\ all[p] = new
         /\ gone = 0 => RemoveAt(all, p) = s
         /\ gone = 1 => p \in DOMAIN s /\ RemoveAt(all, p) = RemoveAt(s, p)
<1>1. /\ p \in 1 .. Len(s) + 1 /\ gone \in {0, 1} /\ p + gone <= Len(s) + 1
      /\ all \in Seq(Line) /\ Len(all) = Len(s) + 1 - gone
      /\ \A i \in 1 .. p - 1 : all[i] = s[i]
      /\ all[p] = new
      /\ \A i \in p + gone .. Len(s) : all[i + 1 - gone] = s[i]
  BY DEF Put
<1>2. Len(s) \in Nat /\ DOMAIN s = 1 .. Len(s) /\ DOMAIN all = 1 .. Len(all)
  BY <1>1, LenProperties
<1>3. p \in 1 .. Len(all)
  BY <1>1, <1>2
<1> DEFINE r == RemoveAt(all, p)
<1>4. /\ r \in Seq(Line) /\ Len(r) = Len(all) - 1
      /\ \A i \in 1 .. p - 1 : r[i] = all[i]
      /\ \A i \in p + 1 .. Len(all) : r[i - 1] = all[i]
  BY <1>1, <1>3, RemoveIs
<1> HIDE DEF r
<1>5. CASE gone = 0
  <2>1. Len(r) = Len(s)
    BY <1>1, <1>2, <1>4, <1>5
  <2>2. ASSUME NEW i \in 1 .. Len(r) PROVE r[i] = s[i]
    <3>1. CASE i < p
      BY <1>1, <1>2, <1>4, <3>1
    <3>2. CASE p <= i
      <4>1. i + 1 \in p + 1 .. Len(all) /\ i + 1 - 1 = i /\ i + 1 - gone = i + 1
            /\ i \in p + gone .. Len(s)
        BY <1>1, <1>2, <1>5, <2>1, <3>2
      <4>2. r[i + 1 - 1] = all[i + 1]
        BY <1>4, <4>1
      <4>3. all[i + 1 - gone] = s[i]
        BY <1>1, <4>1
      <4> QED
        BY <4>1, <4>2, <4>3
    <3> QED
      BY <1>1, <1>2, <3>1, <3>2
  <2>3. r = s
    BY <1>4, <2>1, <2>2, SeqEqual
  <2> QED
    BY <1>1, <1>2, <1>3, <1>5, <2>3 DEF r
<1>6. CASE gone = 1
  <2> DEFINE q == RemoveAt(s, p)
  <2>1. p \in 1 .. Len(s)
    BY <1>1, <1>2, <1>6
  <2>2. /\ q \in Seq(Line) /\ Len(q) = Len(s) - 1
        /\ \A i \in 1 .. p - 1 : q[i] = s[i]
        /\ \A i \in p + 1 .. Len(s) : q[i - 1] = s[i]
    BY <2>1, RemoveIs
  <2> HIDE DEF q
  <2>3. Len(r) = Len(q)
    BY <1>1, <1>2, <1>4, <1>6, <2>2
  <2>4. ASSUME NEW i \in 1 .. Len(r) PROVE r[i] = q[i]
    <3>1. CASE i < p
      <4>1. i \in 1 .. p - 1
        BY <1>1, <1>2, <3>1
      <4> QED
        BY <1>1, <1>4, <2>2, <4>1
    <3>2. CASE p <= i
      <4>1. /\ i + 1 \in p + 1 .. Len(all) /\ i + 1 - 1 = i /\ i + 1 + 1 - gone = i + 1
            /\ i + 1 \in p + gone .. Len(s) /\ i + 1 \in p + 1 .. Len(s)
        BY <1>1, <1>2, <1>4, <1>6, <2>3, <3>2
      <4>2. r[i + 1 - 1] = all[i + 1]
        BY <1>4, <4>1
      <4>3. all[i + 1 + 1 - gone] = s[i + 1]
        BY <1>1, <4>1
      <4>4. q[i + 1 - 1] = s[i + 1]
        BY <2>2, <4>1
      <4> QED
        BY <4>1, <4>2, <4>3, <4>4
    <3> QED
      BY <1>1, <1>2, <3>1, <3>2
  <2>5. r = q
    BY <1>4, <2>2, <2>3, <2>4, SeqEqual
  <2> QED
    BY <1>1, <1>2, <1>3, <1>6, <2>1, <2>5 DEF r, q
<1> QED
  BY <1>1, <1>5, <1>6

-----------------------------------------------------------------------------
(* What writeString() builds is a file again, whatever file it has read.    *)
LEMMA MergedIsLine ==
  ASSUME NEW line \in Line, NEW new \in Line
  PROVE  Merged(line, new) \in Line
<1>1. CASE IsHeader(line)
  <2>1. line \in [kind : {"header"}, name : Titles, form : {"exact", "loose", "tail"}]
    BY <1>1 DEF IsHeader, Line, Remark
  <2>2. ASSUME NEW form \in {"loose", "tail"} PROVE [line EXCEPT !.form = form] \in Line
    BY <2>1 DEF Line
  <2>3. ~IsOption(line)
    BY <1>1 DEF IsHeader, IsOption
  <2> QED
    BY <1>1, <2>2, <2>3 DEF Merged
<1>2. CASE IsOption(line)
  <2> DEFINE O == [kind : {"option"}, name : Names, value : Seq(Words \cup Titles),
                   form : {"exact", "loose", "colon"}]
  <2>1. line \in O /\ line.value \in Seq(Words \cup Titles)
    BY <1>2 DEF IsOption, Line, Remark
  <2>2. ASSUME NEW value \in Seq(Words \cup Titles)
        PROVE  [line EXCEPT !.value = value] \in Line
    BY <2>1, <2>2 DEF Line
  <2>3. ~IsHeader(line)
    BY <1>2 DEF IsHeader, IsOption
  <2>4. CASE IsHeader(new)
    <3>1. new.name \in Words \cup Titles
      BY <2>4 DEF IsHeader, Line, Remark, Titles
    <3>2. Append(line.value, new.name) \in Seq(Words \cup Titles)
      BY <2>1, <3>1, AppendProperties
    <3>3. ~IsOption(new)
      BY <2>4 DEF IsHeader, IsOption
    <3>4. Merged(line, new) = [line EXCEPT !.value = Append(line.value, new.name)]
      BY <1>2, <2>3, <2>4, <3>3 DEF Merged
    <3> QED
      BY <2>2, <3>2, <3>4
  <2>5. CASE IsOption(new)
    <3>1. new.name \in Words \cup Titles /\ new.value \in Seq(Words \cup Titles)
      BY <2>5 DEF IsOption, Line, Remark, Titles
    <3> DEFINE t == <<new.name>>
               v == line.value \o t
    <3>2. t \in Seq(Words \cup Titles)
      BY <3>1
    <3> HIDE DEF t
    <3>3. v \in Seq(Words \cup Titles)
      BY <2>1, <3>2, ConcatProperties
    <3> HIDE DEF v
    <3>4. v \o new.value \in Seq(Words \cup Titles)
      BY <3>1, <3>3, ConcatProperties
    <3>5. ~IsHeader(new)
      BY <2>5 DEF IsHeader, IsOption
    <3>6. Merged(line, new) = [line EXCEPT !.value = v \o new.value]
      BY <1>2, <2>3, <2>5, <3>5 DEF Merged, t, v
    <3> QED
      BY <2>2, <3>4, <3>6
  <2>6. CASE ~IsHeader(new) /\ ~IsOption(new)
    BY <2>6 DEF Merged
  <2> QED
    BY <2>4, <2>5, <2>6
<1>3. CASE ~IsHeader(line) /\ ~IsOption(line)
  BY <1>3 DEF Merged
<1> QED
  BY <1>1, <1>2, <1>3

\* Lines make a file.
LEMMA FileIs ==
  ASSUME NEW lines \in Seq(Line), NEW eol \in BOOLEAN
  PROVE  File(lines, eol) \in Texts
BY DEF File, Texts

\* Lines appended to any file, its last line merged or not.
LEMMA AppendsLines ==
  ASSUME NEW f \in Texts, f.lines # <<>>, NEW new \in Seq(Line), new # <<>>
  PROVE  AppendLines(f, new) \in Texts
<1> DEFINE lines == f.lines
           a == Front(lines)
           m == Merged(Last(lines), Head(new))
           b == Tail(new)
           am == a \o <<m>>
<1>1. lines \in Seq(Line) /\ f.eol \in BOOLEAN
  BY DEF Texts
<1>2. Len(lines) \in Nat \ {0} /\ \A i \in 1 .. Len(lines) : lines[i] \in Line
  BY <1>1, EmptySeq, ElementOfSeq
<1>3. a \in Seq(Line)
  <2>1. \A i \in 1 .. Len(lines) - 1 : lines[i] \in Line
    BY <1>2
  <2>2. SubSeq(lines, 1, Len(lines) - 1) \in Seq(Line)
    BY <1>2, <2>1, SubSeqProperties
  <2> QED
    BY <2>2 DEF Front
<1>4. m \in Line
  <2>1. Last(lines) \in Line
    BY <1>2 DEF Last
  <2>2. Head(new) \in Line
    BY HeadTailProperties
  <2> QED
    BY <2>1, <2>2, MergedIsLine
<1>5. b \in Seq(Line)
  BY HeadTailProperties
<1> HIDE DEF a, m, b
<1>6. am \in Seq(Line)
  BY <1>3, <1>4, OneMore
<1> HIDE DEF am
<1>7. am \o b \in Seq(Line)
  BY <1>5, <1>6, Joined
<1>8. lines \o new \in Seq(Line)
  BY <1>1, Joined
<1>9. AppendLines(f, new) = File(IF f.eol THEN lines \o new ELSE am \o b, TRUE)
  BY DEF AppendLines, am, a, m, b
<1> QED
  BY <1>7, <1>8, <1>9 DEF File, Texts

\* The new text when there is no such section.
LEMMA NoSectionIsFile ==
  ASSUME NEW f \in Texts, NEW name \in Names, NEW value \in Seq(Words)
  PROVE  NoSection(f, name, value) \subseteq Texts
<1> DEFINE a == Header(name, "exact")
           b == Exact(name, value)
           new == <<a, b>>
<1>1. a \in Line /\ b \in Line
  BY NewLines
<1>2. Remark \in Line
  BY DEF Line
<1>3. NoSection(f, name, value) =
        IF f.lines # <<>> THEN {AppendLines(f, new)}
        ELSE {File(new, TRUE), File(<<Remark>>, FALSE), File(<<Remark, new[2]>>, FALSE)}
  BY DEF NoSection, Exact
<1> HIDE DEF a, b
<1>4. new \in Seq(Line) /\ new # <<>> /\ new[2] = b
  BY <1>1
<1>5. <<Remark>> \in Seq(Line) /\ <<Remark, new[2]>> \in Seq(Line)
  BY <1>1, <1>2
<1> HIDE DEF new
<1>6. CASE f.lines # <<>>
  BY <1>3, <1>4, <1>6, AppendsLines
<1>7. CASE f.lines = <<>>
  BY <1>3, <1>4, <1>5, <1>7 DEF File, Texts
<1> QED
  BY <1>6, <1>7

\* The new text when the section starts at line h.
LEMMA InSectionIsFile ==
  ASSUME NEW f \in Texts, NEW h \in DOMAIN f.lines, NEW name \in Names,
         NEW value \in Seq(Words)
  PROVE  InSection(f, h, name, value) \in Texts
<1> DEFINE lines == f.lines
           new == Exact(name, value)
           stops == {i \in h + 1 .. Len(f.lines) : OptionFound(f, i, name) \/ IsSection(f, i)}
           stop == Min(stops)
<1>1. lines \in Seq(Line) /\ f.eol \in BOOLEAN
  BY DEF Texts
<1>2. new \in Line
  BY NewLines
<1>3. Len(lines) \in Nat /\ h \in 1 .. Len(lines)
  BY <1>1, LenProperties
<1>4. CASE stops = {}
  <2>1. InSection(f, h, name, value) = AppendLines(f, <<new>>)
    BY <1>4 DEF InSection, Exact
  <2>2. <<new>> \in Seq(Line) /\ <<new>> # <<>>
    BY <1>2
  <2>3. lines # <<>>
    BY <1>3, EmptySeq
  <2> HIDE DEF new
  <2> QED
    BY <2>1, <2>2, <2>3, AppendsLines
<1>5. CASE stops # {}
  <2>1. stops \in SUBSET Nat
    BY <1>3
  <2>2. stop \in stops
    <3> HIDE DEF stops
    <3> QED
      BY <1>5, <2>1, MinIs
  <2>3. stop \in 1 .. Len(lines)
    BY <1>3, <2>2
  <2> DEFINE gone == IF IsOption(lines[stop]) THEN 1 ELSE 0
             rest == Rest(f, stop)
             all == SubSeq(lines, 1, stop - 1) \o <<new>> \o rest
  <2>4. gone \in {0, 1} /\ stop \in 1 .. Len(lines) + 1 /\ stop + gone <= Len(lines) + 1
    <3>1. gone \in {0, 1}
      OBVIOUS
    <3> HIDE DEF gone, stop, lines
    <3>2. stop \in 1 .. Len(lines) + 1 /\ stop + gone <= Len(lines) + 1
      BY <1>3, <2>3, <3>1, Fits
    <3> QED
      BY <3>1, <3>2
  <2>5. all = Parts(lines, stop, gone, new)
    <3>1. (IF IsOption(f.lines[stop]) THEN stop + 1 ELSE stop) = stop + gone
      BY <1>3, <2>3
    <3>2. rest = SubSeq(lines, stop + gone, Len(lines))
      BY <3>1, Zenon DEF Rest
    <3> QED
      BY <3>2, Zenon DEF Parts
  <2>6. InSection(f, h, name, value) = File(all, IF rest = <<>> THEN TRUE ELSE f.eol)
    BY <1>5, Zenon DEF InSection, Exact
  <2> HIDE DEF stop, gone, all, lines, new, rest
  <2>7. Put(lines, all, stop, gone, new)
    BY <1>1, <1>2, <2>4, <2>5, PutBetween
  <2>8. all \in Seq(Line)
    BY <2>7 DEF Put
  <2>9. (IF rest = <<>> THEN TRUE ELSE f.eol) \in BOOLEAN
    BY <1>1
  <2> QED
    BY <2>6, <2>8, <2>9, FileIs, Zenon
<1> QED
  BY <1>4, <1>5

\* All that writeString() may have in pBuf are files.
LEMMA WritesFile ==
  ASSUME NEW f \in Texts, NEW section, NEW name \in Names, NEW value \in Seq(Words)
  PROVE  writeString(f, section, name, value) \subseteq Texts
<1> DEFINE heads == {h \in DOMAIN f.lines : SectionFound(f, h, section)}
<1>1. CASE heads = {}
  BY <1>1, NoSectionIsFile DEF writeString
<1>2. CASE heads # {}
  <2>1. heads \in SUBSET Nat
    BY LenProperties DEF Texts
  <2>2. Min(heads) \in heads
    <3> HIDE DEF heads
    <3> QED
      BY <1>2, <2>1, MinIs
  <2>3. Min(heads) \in DOMAIN f.lines
    BY <2>2
  <2>4. writeString(f, section, name, value) = {InSection(f, Min(heads), name, value)}
    BY <1>2, Zenon DEF writeString
  <2> HIDE DEF heads
  <2> QED
    BY <2>3, <2>4, InSectionIsFile
<1> QED
  BY <1>1, <1>2

-----------------------------------------------------------------------------
(* The state between two steps of writeString().                            *)
Built == pc = "built" =>
    /\ args.section \in Sections /\ args.name \in Names
    /\ pBuf \in writeString(file, args.section, args.name, args.value)
ConfigInv == TypeOK /\ Built

\* The invariant holds of the first file,
LEMMA ConfigStarts == Init => ConfigInv
<1> SUFFICES ASSUME Init PROVE ConfigInv
  OBVIOUS
<1>1. PICK lines \in BoundedSeq(FirstLines, MaxLines), eol \in BOOLEAN :
          file = File(lines, lines = <<>> \/ eol)
  BY DEF Init
<1>2. PICK m \in 0 .. MaxLines : lines \in [1 .. m -> FirstLines]
  BY DEF BoundedSeq, SeqOf
<1>3. lines \in Seq(Line)
  <2>1. m \in Nat /\ lines \in [1 .. m -> Line]
    BY <1>2, ConfigAssumption
  <2> QED
    BY <2>1, SeqDef
<1>4. file \in Texts
  BY <1>1, <1>3 DEF File, Texts
<1>5. Empty \in Texts
  BY DEF Empty, File, Texts
<1>6. NoArgs \in [section : Sections \cup {NoTitle}, name : Names \cup {NoTitle},
                  value : Seq(Words)]
  BY DEF NoArgs, NotFound
<1> QED
  BY <1>4, <1>5, <1>6 DEF Init, ConfigInv, TypeOK, Built

\* and each step of writeString(), and a crash, keeps it.
LEMMA ConfigSteps == ConfigInv /\ [Next]_vars => ConfigInv'
<1> SUFFICES ASSUME ConfigInv, [Next]_vars PROVE ConfigInv'
  OBVIOUS
<1>0. TypeOK /\ Built
  BY DEF ConfigInv
<1>1. CASE UNCHANGED vars
  BY <1>0, <1>1 DEF vars, ConfigInv, TypeOK, Built
<1>2. ASSUME NEW section \in Sections, NEW name \in Names, NEW value \in NewValues,
             Build(section, name, value)
      PROVE  ConfigInv'
  <2>1. value \in Seq(Words)
    BY ConfigAssumption
  <2>2. /\ args' = [section |-> section, name |-> name, value |-> value]
        /\ pBuf' \in writeString(file, section, name, value)
        /\ pc' = "built" /\ writes' = writes + 1 /\ UNCHANGED <<file, crashes>>
    BY <1>2 DEF Build
  <2>3. pBuf' \in Texts
    BY <1>0, <2>1, <2>2, WritesFile DEF TypeOK
  <2>4. args' \in [section : Sections \cup {NoTitle}, name : Names \cup {NoTitle},
                   value : Seq(Words)]
    BY <2>1, <2>2
  <2>5. args'.section = section /\ args'.name = name /\ args'.value = value
    BY <2>2
  <2>6. TypeOK'
    BY <1>0, <2>2, <2>3, <2>4 DEF TypeOK
  <2>7. Built'
    BY <2>2, <2>5, Zenon DEF Built
  <2> QED
    BY <2>6, <2>7 DEF ConfigInv
<1> DEFINE A == [section : Sections \cup {NoTitle}, name : Names \cup {NoTitle},
                 value : Seq(Words)]
<1>3. Empty \in Texts /\ NoArgs \in A
  BY DEF Empty, File, Texts, NoArgs, NotFound
<1>4. CASE Truncate
  BY <1>0, <1>3, <1>4 DEF Truncate, ConfigInv, TypeOK, Built
<1>5. CASE Write
  BY <1>0, <1>3, <1>5 DEF Write, ConfigInv, TypeOK, Built
<1>6. CASE Crash
  BY <1>0, <1>3, <1>6 DEF Crash, ConfigInv, TypeOK, Built
<1> QED
  BY <1>1, <1>2, <1>4, <1>5, <1>6 DEF Next

\* So it holds at any time.
LEMMA ConfigInductive == Spec => []ConfigInv
<1> QED
  BY ConfigStarts, ConfigSteps, PTL DEF Spec

(* The file on the disk and the text in memory are files at any time: no    *)
(* step of writeString(), and no crash, makes a line that is none.          *)
THEOREM ConfigTypeCorrect == Spec => []TypeOK
<1>1. ConfigInv => TypeOK
  BY DEF ConfigInv
<1> QED
  BY <1>1, ConfigInductive, PTL

(* writeString() of a complete file loses and moves no other line, whatever *)
(* the file, the section, the option and the value.                         *)
LEMMA Keeps ==
  ASSUME ConfigInv
  PROVE  LinesKept
<1> SUFFICES ASSUME pc = "built", EndsWell(file)
             PROVE  \E i \in DOMAIN pBuf.lines :
                      LET others == RemoveAt(pBuf.lines, i) IN
                      /\ pBuf.lines[i] = Option(args.name, args.value, "exact")
                      /\ \/ others = file.lines
                         \/ others = Append(file.lines, Header(args.name, "exact"))
                         \/ /\ i \in DOMAIN file.lines /\ others = RemoveAt(file.lines, i)
                            /\ IsOption(file.lines[i]) /\ file.lines[i].name = args.name
  BY Zenon DEF LinesKept
<1> DEFINE section == args.section
           name == args.name
           value == args.value
           new == Exact(name, value)
           s == file.lines
           all == pBuf.lines
<1>1. /\ file \in Texts /\ section \in Sections /\ name \in Names
      /\ value \in Seq(Words) /\ pBuf \in writeString(file, section, name, value)
  BY DEF ConfigInv, TypeOK, Built
<1>2. s \in Seq(Line)
  BY <1>1 DEF Texts
<1>3. CASE \E h \in DOMAIN file.lines : SectionFound(file, h, section)
  <2>1. InPlace(file, pBuf, section, name, value)
    BY <1>1, <1>3, InPlaceIs
  <2>2. PICK p \in 1 .. Len(s) + 1, gone \in {0, 1} :
            Put(s, all, p, gone, new) /\ (gone = 1 => OptionFound(file, p, name))
    BY <2>1, Zenon DEF InPlace
  <2>3. OptionFound(file, p, name) => IsOption(s[p]) /\ s[p].name = name
    BY DEF OptionFound
  <2> HIDE DEF s, all, new
  <2>4. /\ p \in DOMAIN all /\ all[p] = new
        /\ gone = 0 => RemoveAt(all, p) = s
        /\ gone = 1 => p \in DOMAIN s /\ RemoveAt(all, p) = RemoveAt(s, p)
    BY <1>2, <2>2, RemovePut
  <2>5. /\ p \in DOMAIN all /\ all[p] = new
        /\ \/ RemoveAt(all, p) = s
           \/ /\ p \in DOMAIN s /\ RemoveAt(all, p) = RemoveAt(s, p)
              /\ IsOption(s[p]) /\ s[p].name = name
    BY <2>2, <2>3, <2>4
  <2> QED
    BY <2>5, Zenon DEF s, all, new, Exact
<1>4. CASE \A h \in DOMAIN file.lines : ~SectionFound(file, h, section)
  <2> DEFINE head == Header(name, "exact")
             longer == Append(s, head)
             p == Len(longer) + 1
  <2>1. all = longer \o <<new>>
    BY <1>1, <1>4, AtEndIs
  <2>2. head \in Line /\ new \in Line
    BY <1>1, NewLines
  <2> HIDE DEF head, new, s, all
  <2>3. longer \in Seq(Line)
    BY <1>2, <2>2, AppendProperties
  <2> HIDE DEF longer
  <2>4. Put(longer, all, p, 0, new)
    BY <2>1, <2>2, <2>3, PutLast
  <2> HIDE DEF p
  <2>5. p \in DOMAIN all /\ all[p] = new /\ RemoveAt(all, p) = longer
    BY <2>3, <2>4, RemovePut
  <2> QED
    BY <2>5, Zenon DEF s, all, new, longer, head, Exact
<1> QED
  BY <1>3, <1>4

(* For files of any length: writeString() of a file that ends with a        *)
(* newline loses, changes and moves no line but the one it replaces         *)
(* (LinesKept).                                                             *)
THEOREM OtherLinesStay == Spec => []LinesKept
BY ConfigInductive, Keeps, PTL

-----------------------------------------------------------------------------
(* The section of a line is the last header before it.                      *)
LastHead(f, h, i) ==
    /\ h \in 1 .. i - 1 /\ IsHeader(f.lines[h])
    /\ \A k \in h + 1 .. i - 1 : ~IsHeader(f.lines[k])
NoHead(f, i) == \A k \in 1 .. i - 1 : ~IsHeader(f.lines[k])

\* A line has a last header before it, which names its section, or none.
LEMMA SectionIs ==
  ASSUME NEW f, NEW i \in Nat
  PROVE  /\ \A h : LastHead(f, h, i) => SectionAt(f, i) = f.lines[h].name
         /\ NoHead(f, i) => SectionAt(f, i) = NoTitle
         /\ NoHead(f, i) \/ \E h \in 1 .. i - 1 : LastHead(f, h, i)
<1> DEFINE heads == {h \in 1 .. i - 1 : IsHeader(f.lines[h])}
<1>1. SectionAt(f, i) = IF heads = {} THEN NoTitle ELSE f.lines[Max(heads)].name
  BY DEF SectionAt
<1>2. heads # {} => Max(heads) \in heads /\ \A y \in heads : Max(heads) >= y
  <2>1. heads \in SUBSET (0 .. i)
    OBVIOUS
  <2> HIDE DEF heads
  <2> QED
    BY <2>1, MaxIs
<1>3. ASSUME NEW h, LastHead(f, h, i) PROVE h = Max(heads)
  <2>1. h \in heads /\ h \in Nat
    BY <1>3 DEF LastHead
  <2>2. Max(heads) \in heads /\ Max(heads) >= h
    BY <1>2, <2>1
  <2>3. Max(heads) \in 1 .. i - 1 /\ IsHeader(f.lines[Max(heads)])
    BY <2>2
  <2> DEFINE m == Max(heads)
  <2>4. m \notin h + 1 .. i - 1
    BY <1>3, <2>3 DEF LastHead
  <2> HIDE DEF m
  <2>5. m \in Nat /\ m >= h /\ m <= i - 1
    BY <2>2, <2>3 DEF m
  <2>6. h = m
    BY <2>1, <2>4, <2>5
  <2> QED
    BY <2>6 DEF m
<1>4. ASSUME heads # {} PROVE LastHead(f, Max(heads), i)
  <2> DEFINE m == Max(heads)
  <2>1. m \in 1 .. i - 1 /\ IsHeader(f.lines[m]) /\ \A y \in heads : m >= y
    BY <1>2, <1>4
  <2> HIDE DEF m
  <2>2. \A k \in m + 1 .. i - 1 : k \in 1 .. i - 1 /\ ~(m >= k)
    BY <2>1
  <2>3. \A k \in m + 1 .. i - 1 : ~IsHeader(f.lines[k])
    BY <2>1, <2>2
  <2> QED
    BY <2>1, <2>3 DEF LastHead, m
<1>5. NoHead(f, i) <=> heads = {}
  BY DEF NoHead
<1>6. ASSUME NEW h, LastHead(f, h, i) PROVE SectionAt(f, i) = f.lines[h].name
  <2>1. heads # {}
    BY <1>6 DEF LastHead
  <2> QED
    BY <1>1, <1>3, <1>6, <2>1
<1>7. heads # {} => Max(heads) \in 1 .. i - 1
  BY <1>2
<1> HIDE DEF heads
<1> QED
  BY <1>1, <1>4, <1>5, <1>6, <1>7

\* The section of a line depends on the lines before it only.
LEMMA SamePrefix ==
  ASSUME NEW f, NEW g, NEW i \in Nat, \A k \in 1 .. i - 1 : f.lines[k] = g.lines[k]
  PROVE  SectionAt(f, i) = SectionAt(g, i)
<1>1. CASE NoHead(f, i)
  <2>1. NoHead(g, i)
    BY <1>1 DEF NoHead
  <2> QED
    BY <1>1, <2>1, SectionIs
<1>2. ASSUME NEW h \in 1 .. i - 1, LastHead(f, h, i) PROVE SectionAt(f, i) = SectionAt(g, i)
  <2>1. \A k \in h + 1 .. i - 1 : k \in 1 .. i - 1
    OBVIOUS
  <2>2. LastHead(g, h, i)
    BY <1>2, <2>1 DEF LastHead
  <2>3. SectionAt(f, i) = f.lines[h].name /\ SectionAt(g, i) = g.lines[h].name
    BY <1>2, <2>2, SectionIs
  <2> QED
    BY <2>3
<1> QED
  BY <1>1, <1>2, SectionIs

(* A line that is no header changes the section of no other line.           *)
PutOption(f, g, p, gone, new) ==
    /\ Put(f.lines, g.lines, p, gone, new) /\ ~IsHeader(new)
    /\ gone = 1 => ~IsHeader(f.lines[p])
Stays(f, p, gone, i) == i \in 1 .. Len(f.lines) /\ (i < p \/ p + gone <= i)
Moved(p, gone, i) == IF i < p THEN i ELSE i + 1 - gone

\* Each old line that stays is in the section it was in.
LEMMA SectionMoves ==
  ASSUME NEW f \in Texts, NEW g, NEW p, NEW gone, NEW new, NEW i,
         PutOption(f, g, p, gone, new), Stays(f, p, gone, i)
  PROVE  SectionAt(g, Moved(p, gone, i)) = SectionAt(f, i)
<1> DEFINE t == Moved(p, gone, i)
           s == f.lines
<1>0. /\ s \in Seq(Line) /\ i \in 1 .. Len(s) /\ (i < p \/ p + gone <= i)
      /\ Put(s, g.lines, p, gone, new) /\ ~IsHeader(new)
      /\ gone = 1 => ~IsHeader(s[p])
  BY DEF PutOption, Stays, Texts
<1>i. i \in Nat
  BY <1>0
<1>1. /\ p \in 1 .. Len(s) + 1 /\ gone \in {0, 1}
      /\ \A k \in 1 .. p - 1 : g.lines[k] = s[k]
      /\ g.lines[p] = new
      /\ \A k \in p + gone .. Len(s) : g.lines[k + 1 - gone] = s[k]
      /\ Len(s) \in Nat /\ i \in 1 .. Len(s) /\ ~IsHeader(new)
      /\ gone = 1 => ~IsHeader(s[p])
  BY <1>0, LenProperties DEF Put
<1> USE <1>i
<1>2. CASE i < p
  <2>1. t = i /\ \A k \in 1 .. i - 1 : f.lines[k] = g.lines[k]
    <3>1. \A k \in 1 .. i - 1 : k \in 1 .. p - 1
      BY <1>1, <1>2
    <3> QED
      BY <1>1, <1>2, <3>1 DEF Moved
  <2> QED
    BY <2>1, SamePrefix
<1>3. CASE p + gone <= i
  <2>1. t = i + 1 - gone /\ t \in Nat
    BY <1>1, <1>3 DEF Moved
  <2>2. ASSUME NEW k \in 1 .. t - 1, k # p
        PROVE  \/ k < p /\ k \in 1 .. i - 1 /\ g.lines[k] = s[k]
               \/ /\ k > p /\ k - 1 + gone \in p + gone .. i - 1
                  /\ g.lines[k] = s[k - 1 + gone]
    <3>1. CASE k < p
      <4>1. k \in 1 .. p - 1 /\ k \in 1 .. i - 1
        <5> HIDE DEF t
        <5> QED
          BY <1>1, <1>3, <2>1, <3>1
      <4> QED
        BY <1>1, <3>1, <4>1
    <3>2. CASE k > p
      <4> DEFINE j == k - 1 + gone
      <4>1. j \in p + gone .. i - 1 /\ j \in p + gone .. Len(s) /\ j + 1 - gone = k
        BY <1>1, <1>3, <2>1, <3>2
      <4>2. g.lines[j + 1 - gone] = s[j]
        BY <1>1, <4>1
      <4> QED
        BY <3>2, <4>1, <4>2
    <3> QED
      BY <1>1, <2>2, <3>1, <3>2
  <2> HIDE DEF t
  <2>3. CASE NoHead(f, i)
    <3>1. ASSUME NEW k \in 1 .. t - 1 PROVE ~IsHeader(g.lines[k])
      <4>1. \A j \in 1 .. i - 1 : ~IsHeader(s[j])
        BY <2>3 DEF NoHead
      <4>2. p + gone .. i - 1 \subseteq 1 .. i - 1
        BY <1>1
      <4> QED
        BY <1>1, <2>2, <4>1, <4>2
    <3>2. NoHead(g, t)
      BY <3>1 DEF NoHead
    <3> QED
      BY <2>1, <2>3, <3>2, SectionIs DEF t
  <2>4. ASSUME NEW h \in 1 .. i - 1, LastHead(f, h, i)
        PROVE  SectionAt(g, t) = SectionAt(f, i)
    <3> DEFINE u == Moved(p, gone, h)
    <3>1. IsHeader(s[h]) /\ \A k \in h + 1 .. i - 1 : ~IsHeader(s[k])
      BY <2>4 DEF LastHead
    <3>2. h < p \/ p + gone <= h
      BY <1>1, <3>1
    <3>3. u \in 1 .. t - 1 /\ g.lines[u] = s[h]
      BY <1>1, <1>3, <2>1, <3>2 DEF Moved
    <3>4. ASSUME NEW k \in u + 1 .. t - 1 PROVE ~IsHeader(g.lines[k])
      <4>1. k \in 1 .. t - 1
        BY <2>1, <3>3
      <4>2. CASE k = p
        BY <1>1, <4>2
      <4>3. CASE k < p
        <5>1. u = h
          BY <1>1, <3>2, <3>3, <4>3 DEF Moved
        <5>2. k \in h + 1 .. i - 1 /\ g.lines[k] = s[k]
          BY <1>1, <1>3, <2>1, <4>3, <5>1
        <5> QED
          BY <3>1, <5>2
      <4>4. CASE k > p
        <5>1. k - 1 + gone \in p + gone .. i - 1 /\ g.lines[k] = s[k - 1 + gone]
          BY <1>1, <2>2, <4>1, <4>4
        <5>2. k - 1 + gone >= h + 1
          <6>1. CASE h < p
            BY <1>1, <5>1, <6>1
          <6>2. CASE p + gone <= h
            <7>1. u = h + 1 - gone /\ k >= u + 1
              BY <1>1, <3>3, <6>2 DEF Moved
            <7> HIDE DEF u
            <7> QED
              BY <1>1, <7>1
          <6> QED
            BY <3>2, <6>1, <6>2
        <5>3. k - 1 + gone \in h + 1 .. i - 1
          BY <5>1, <5>2
        <5> QED
          BY <3>1, <5>1, <5>3
      <4> QED
        BY <1>1, <4>1, <4>2, <4>3, <4>4
    <3>5. LastHead(g, u, t)
      BY <3>1, <3>3, <3>4 DEF LastHead
    <3>6. SectionAt(g, t) = g.lines[u].name /\ SectionAt(f, i) = f.lines[h].name
      BY <2>1, <2>4, <3>5, SectionIs
    <3> QED
      BY <3>3, <3>6
  <2> QED
    BY <2>3, <2>4, SectionIs DEF t
<1> QED
  BY <1>0, <1>2, <1>3

-----------------------------------------------------------------------------
(* The values of one key: the same in two files that have the same options  *)
(* for it in the same order.                                                *)
LEMMA KeyLinesAre ==
  ASSUME NEW f \in Texts, NEW section, NEW name
  PROVE  /\ f.lines \in Seq(Line) /\ Len(f.lines) \in Nat
         /\ DOMAIN f.lines = 1 .. Len(f.lines)
         /\ KeyLines(f, section, name) \in SUBSET (1 .. Len(f.lines))
         /\ KeyLines(f, section, name) \in SUBSET Nat
         /\ IsFiniteSet(KeyLines(f, section, name))
<1>1. /\ f.lines \in Seq(Line) /\ Len(f.lines) \in Nat
      /\ DOMAIN f.lines = 1 .. Len(f.lines)
  BY LenProperties DEF Texts
<1>2. KeyLines(f, section, name) \in SUBSET (1 .. Len(f.lines))
  BY <1>1 DEF KeyLines
<1>3. IsFiniteSet(1 .. Len(f.lines))
  <2>1. Len(f.lines) \in Int
    BY <1>1
  <2> QED
    BY <2>1, FS_Interval
<1>4. IsFiniteSet(KeyLines(f, section, name))
  BY <1>2, <1>3, FS_Subset
<1> QED
  BY <1>1, <1>2, <1>4

\* A map between the lines of a key in two files that keeps order and lines.
LEMMA ValuesMap ==
  ASSUME NEW f \in Texts, NEW g \in Texts, NEW section, NEW name,
         NEW to, SameOrder(to, KeyLines(f, section, name), KeyLines(g, section, name)),
         \A a \in KeyLines(f, section, name) : g.lines[to[a]] = f.lines[a]
  PROVE  Values(g, section, name) = Values(f, section, name)
<1> DEFINE A == KeyLines(f, section, name)
           B == KeyLines(g, section, name)
<1>1. A \in SUBSET Nat /\ IsFiniteSet(A) /\ B \in SUBSET Nat
  BY KeyLinesAre
<1>2. /\ Values(f, section, name) =
            [k \in DOMAIN Ascending(A) |-> Kept(f.lines[Ascending(A)[k]].value)]
      /\ Values(g, section, name) =
            [k \in DOMAIN Ascending(B) |-> Kept(g.lines[Ascending(B)[k]].value)]
  BY SMT DEF Values
<1> HIDE DEF A, B
<1>3. /\ \A k \in 1 .. Cardinality(A) : /\ Ascending(A)[k] \in A
                                        /\ Ascending(B)[k] = to[Ascending(A)[k]]
      /\ DOMAIN Ascending(A) = 1 .. Cardinality(A)
      /\ DOMAIN Ascending(B) = 1 .. Cardinality(A)
  <2>1. SameOrder(to, A, B)
    BY DEF A, B
  <2> QED
    BY <1>1, <2>1, AscendingImage
<1>4. \A k \in 1 .. Cardinality(A) :
         g.lines[Ascending(B)[k]].value = f.lines[Ascending(A)[k]].value
  BY <1>3 DEF A
<1> QED
  BY <1>2, <1>3, <1>4

(* A line that is put in and a line that is left out of a key's options are *)
(* the only ones that can change its values.                                *)
LEMMA KeyMoves ==
  ASSUME NEW f \in Texts, NEW g \in Texts, NEW p, NEW gone, NEW new, NEW i,
         PutOption(f, g, p, gone, new), Stays(f, p, gone, i), NEW section, NEW name
  PROVE  /\ Moved(p, gone, i) \in 1 .. Len(g.lines)
         /\ g.lines[Moved(p, gone, i)] = f.lines[i]
         /\ i \in KeyLines(f, section, name) <=>
                Moved(p, gone, i) \in KeyLines(g, section, name)
<1> DEFINE s == f.lines
           t == Moved(p, gone, i)
<1>1. /\ s \in Seq(Line) /\ Len(s) \in Nat /\ DOMAIN s = 1 .. Len(s)
      /\ DOMAIN g.lines = 1 .. Len(g.lines)
  BY KeyLinesAre
<1>2. SectionAt(g, t) = SectionAt(f, i)
  BY SectionMoves
<1>3. /\ p \in 1 .. Len(s) + 1 /\ gone \in {0, 1} /\ Len(g.lines) = Len(s) + 1 - gone
      /\ \A k \in 1 .. p - 1 : g.lines[k] = s[k]
      /\ \A k \in p + gone .. Len(s) : g.lines[k + 1 - gone] = s[k]
      /\ i \in 1 .. Len(s) /\ (i < p \/ p + gone <= i)
  BY DEF PutOption, Put, Stays
<1>4. t \in 1 .. Len(g.lines)
  <2> HIDE DEF s
  <2> QED
    BY <1>1, <1>3 DEF Moved
<1>5. g.lines[t] = s[i]
  <2>1. CASE i < p
    <3>1. i \in 1 .. p - 1 /\ t = i
      BY <1>3, <2>1 DEF Moved
    <3> QED
      BY <1>3, <3>1
  <2>2. CASE p + gone <= i
    <3>1. i \in p + gone .. Len(s) /\ t = i + 1 - gone
      BY <1>1, <1>3, <2>2 DEF Moved
    <3> QED
      BY <1>3, <3>1
  <2> QED
    BY <1>3, <2>1, <2>2
<1> HIDE DEF t
<1>6. i \in KeyLines(f, section, name) <=> t \in KeyLines(g, section, name)
  BY <1>1, <1>2, <1>3, <1>4, <1>5 DEF KeyLines
<1> QED
  BY <1>4, <1>5, <1>6 DEF t

\* A new option of another key, and an old one left out, change no value.
LEMMA ValuesMoved ==
  ASSUME NEW f \in Texts, NEW g \in Texts, NEW p, NEW gone, NEW new,
         PutOption(f, g, p, gone, new), NEW section, NEW name, p \notin KeyLines(g, section, name),
         gone = 1 => p \notin KeyLines(f, section, name)
  PROVE  Values(g, section, name) = Values(f, section, name)
<1> DEFINE A == KeyLines(f, section, name)
           B == KeyLines(g, section, name)
           to == [i \in A |-> Moved(p, gone, i)]
<1>1. /\ Len(f.lines) \in Nat /\ A \in SUBSET (1 .. Len(f.lines))
      /\ B \in SUBSET (1 .. Len(g.lines))
  BY KeyLinesAre
<1>2. p \in 1 .. Len(f.lines) + 1 /\ gone \in {0, 1} /\ Len(g.lines) = Len(f.lines) + 1 - gone
  BY DEF PutOption, Put
<1>3. ASSUME NEW i \in A
      PROVE  /\ Stays(f, p, gone, i)
             /\ Moved(p, gone, i) \in B /\ g.lines[Moved(p, gone, i)] = f.lines[i]
  <2>0. i \in 1 .. Len(f.lines)
    BY <1>1
  <2>1. gone = 1 => i # p
    OBVIOUS
  <2>2. Stays(f, p, gone, i)
    <3> HIDE DEF A
    <3> QED
      BY <1>2, <2>0, <2>1 DEF Stays
  <2> QED
    BY <2>0, <2>2, KeyMoves
<1>4. ASSUME NEW b \in B PROVE \E a \in A : Moved(p, gone, a) = b
  <2>1. b \in 1 .. Len(g.lines) /\ b # p
    BY <1>1
  <2> DEFINE i == IF b < p THEN b ELSE b - 1 + gone
  <2>2. Stays(f, p, gone, i) /\ Moved(p, gone, i) = b
    <3> HIDE DEF B
    <3>1. CASE b < p
      BY <1>1, <1>2, <2>1, <3>1 DEF Moved, Stays
    <3>2. CASE b > p
      <4>1. i = b - 1 + gone
        BY <1>2, <2>1, <3>2
      <4>2. p + gone <= i /\ ~(i < p) /\ i \in 1 .. Len(f.lines) /\ i + 1 - gone = b
        BY <1>1, <1>2, <2>1, <3>2, <4>1
      <4> QED
        BY <4>2 DEF Moved, Stays
    <3> QED
      BY <1>2, <2>1, <3>1, <3>2
  <2> HIDE DEF i
  <2>3. i \in A <=> Moved(p, gone, i) \in B
    BY <2>2, KeyMoves
  <2> QED
    BY <2>2, <2>3
<1>5. ASSUME NEW a \in A, NEW b \in A, a < b
      PROVE  Moved(p, gone, a) < Moved(p, gone, b)
  <2>1. /\ a \in Nat /\ b \in Nat /\ (a < p \/ p + gone <= a) /\ (b < p \/ p + gone <= b)
    BY <1>1, <1>3 DEF Stays
  <2> HIDE DEF A
  <2> QED
    BY <1>2, <1>5, <2>1 DEF Moved
<1> HIDE DEF A, B
<1>6. SameOrder(to, A, B)
  BY <1>3, <1>4, <1>5 DEF SameOrder
<1>7. \A a \in A : g.lines[to[a]] = f.lines[a]
  BY <1>3
<1> HIDE DEF to
<1> QED
  BY <1>6, <1>7, ValuesMap DEF A, B

(* The section that an option was put into.                                 *)
LEMMA InSectionThere ==
  ASSUME NEW f \in Texts, EndsWell(f), NoTail(f), NEW g, NEW p, NEW gone, NEW new, NEW h,
         NEW name, NEW section, Put(f.lines, g.lines, p, gone, new),
         h \in 1 .. p - 1, SectionFound(f, h, section),
         \A i \in h + 1 .. p - 1 : ~OptionFound(f, i, name) /\ ~IsSection(f, i)
  PROVE  SectionAt(f, p) = section /\ SectionAt(g, p) = section
<1>1. /\ f.lines \in Seq(Line) /\ Len(f.lines) \in Nat
      /\ DOMAIN f.lines = 1 .. Len(f.lines)
  BY KeyLinesAre
<1>2. p \in 1 .. Len(f.lines) + 1 /\ \A k \in 1 .. p - 1 : g.lines[k] = f.lines[k]
  BY DEF Put
<1>3. p \in Nat /\ \A k \in h + 1 .. p - 1 : k \in DOMAIN f.lines
  BY <1>1, <1>2
<1>4. \A k \in h + 1 .. p - 1 : ~IsHeader(f.lines[k])
  BY <1>3 DEF EndsWell, NoTail, IsSection
<1>5. IsHeader(f.lines[h]) /\ f.lines[h].name = section
  BY DEF SectionFound, IsSection
<1>6. LastHead(f, h, p)
  BY <1>4, <1>5 DEF LastHead
<1>7. SectionAt(f, p) = section
  BY <1>3, <1>5, <1>6, SectionIs
<1>8. SectionAt(f, p) = SectionAt(g, p)
  BY <1>2, <1>3, SamePrefix
<1> QED
  BY <1>7, <1>8

\* Other keys after writeString() to a section that is there,
LEMMA KeptInPlace ==
  ASSUME NEW f \in Texts, EndsWell(f), NoTail(f), NEW g \in Texts,
         NEW section, NEW name, NEW value, InPlace(f, g, section, name, value),
         NEW title, NEW other, ~(other = name /\ title = section)
  PROVE  Values(g, title, other) = Values(f, title, other)
<1> DEFINE new == Exact(name, value)
<1>1. PICK p \in 1 .. Len(f.lines) + 1, gone \in {0, 1} :
        /\ Put(f.lines, g.lines, p, gone, new)
        /\ \E h \in 1 .. p - 1 :
              /\ SectionFound(f, h, section)
              /\ \A i \in h + 1 .. p - 1 : ~OptionFound(f, i, name) /\ ~IsSection(f, i)
        /\ gone = 1 => OptionFound(f, p, name)
  BY Zenon DEF InPlace
<1>2. SectionAt(f, p) = section /\ SectionAt(g, p) = section
  BY <1>1, InSectionThere
<1>3. g.lines[p] = new /\ new.name = name /\ ~IsHeader(new)
  BY <1>1 DEF Put, Exact, Option, IsHeader
<1> HIDE DEF new
<1>4. gone = 1 => ~IsHeader(f.lines[p]) /\ f.lines[p].name = name
  BY <1>1 DEF OptionFound, IsOption, IsHeader
<1>5. p \notin KeyLines(g, title, other)
  BY <1>2, <1>3 DEF KeyLines
<1>6. gone = 1 => p \notin KeyLines(f, title, other)
  BY <1>2, <1>4 DEF KeyLines
<1>7. PutOption(f, g, p, gone, new)
  BY <1>1, <1>3, <1>4 DEF PutOption
<1> QED
  BY <1>5, <1>6, <1>7, ValuesMoved

\* and after one to a section that is not.
LEMMA KeptAtEnd ==
  ASSUME NEW f \in Texts, NEW g \in Texts,
         NEW section, NEW name, NEW value, AtEnd(f, g, section, name, value),
         NEW title, NEW other, ~(other = name /\ title = name)
  PROVE  Values(g, title, other) = Values(f, title, other)
<1> DEFINE n == Len(f.lines)
           A == KeyLines(f, title, other)
           B == KeyLines(g, title, other)
           to == [i \in A |-> i]
<1>1. n \in Nat /\ DOMAIN f.lines = 1 .. n /\ A \in SUBSET (1 .. n) /\ A \in SUBSET Nat
      /\ DOMAIN g.lines = 1 .. Len(g.lines) /\ B \in SUBSET (1 .. Len(g.lines))
  BY KeyLinesAre
<1>2. /\ Len(g.lines) = n + 2
      /\ \A i \in 1 .. n : g.lines[i] = f.lines[i]
      /\ g.lines[n + 1] = Header(name, "exact") /\ g.lines[n + 2] = Exact(name, value)
  BY DEF AtEnd
<1> HIDE DEF n
<1>3. ASSUME NEW i \in 1 .. n PROVE i \in A <=> i \in B
  <2>1. i \in Nat /\ (\A k \in 1 .. i - 1 : f.lines[k] = g.lines[k])
    BY <1>1, <1>2
  <2>2. SectionAt(f, i) = SectionAt(g, i)
    BY <2>1, SamePrefix
  <2>3. i \in DOMAIN f.lines /\ i \in DOMAIN g.lines /\ g.lines[i] = f.lines[i]
    BY <1>1, <1>2
  <2> QED
    BY <2>2, <2>3 DEF KeyLines
<1>4. n + 1 \notin B
  BY <1>2 DEF KeyLines, Header, IsOption
<1>5. n + 2 \notin B
  <2>1. IsHeader(g.lines[n + 1]) /\ g.lines[n + 1].name = name
    BY <1>2 DEF Header, IsHeader
  <2>2. LastHead(g, n + 1, n + 2) /\ n + 2 \in Nat
    BY <1>1, <2>1 DEF LastHead
  <2>3. SectionAt(g, n + 2) = name
    BY <2>1, <2>2, SectionIs
  <2>4. g.lines[n + 2].name = name
    BY <1>2 DEF Exact, Option
  <2> QED
    BY <2>3, <2>4 DEF KeyLines
<1>6. B = A
  <2>1. \A i \in B : i \in 1 .. n
    <3> HIDE DEF B
    <3> QED
      BY <1>1, <1>2, <1>4, <1>5
  <2> HIDE DEF A, B
  <2> QED
    BY <1>1, <1>3, <2>1
<1> HIDE DEF A, B
<1>7. SameOrder(to, A, B) /\ \A a \in A : g.lines[to[a]] = f.lines[a]
  BY <1>1, <1>2, <1>6 DEF SameOrder
<1> HIDE DEF to
<1> QED
  BY <1>7, ValuesMap DEF A, B

\* Both together are OthersKept.
LEMMA KeepsOthers ==
  ASSUME ConfigInv
  PROVE  OthersKept
<1> SUFFICES ASSUME pc = "built", EndsWell(file), NoTail(file),
                    NEW title \in Titles, NEW other \in Names,
                    ~(other = args.name /\ title \in {args.section, args.name})
             PROVE  Values(pBuf, title, other) = Values(file, title, other)
  BY DEF OthersKept
<1>1. /\ file \in Texts /\ args.section \in Sections /\ args.name \in Names
      /\ args.value \in Seq(Words)
      /\ pBuf \in writeString(file, args.section, args.name, args.value)
      /\ pBuf \in Texts
  BY DEF ConfigInv, TypeOK, Built
<1>2. CASE \E h \in DOMAIN file.lines : SectionFound(file, h, args.section)
  <2>1. InPlace(file, pBuf, args.section, args.name, args.value)
    BY <1>1, <1>2, InPlaceIs
  <2> QED
    BY <1>1, <2>1, KeptInPlace
<1>3. CASE \A h \in DOMAIN file.lines : ~SectionFound(file, h, args.section)
  <2>1. AtEnd(file, pBuf, args.section, args.name, args.value)
    BY <1>1, <1>3, AtEndIs
  <2> QED
    BY <1>1, <2>1, KeptAtEnd
<1> QED
  BY <1>2, <1>3

(* For files of any length: writeString() changes the value of no other     *)
(* option, as CIniFile reads the file (OthersKept).                         *)
THEOREM OtherOptionsStay == Spec => []OthersKept
BY ConfigInductive, KeepsOthers, PTL

-----------------------------------------------------------------------------
(* The first of the values that CIniFile has, and the one that getString()  *)
(* finds.                                                                   *)
LEMMA MinOf ==
  ASSUME NEW S \in SUBSET Nat, NEW m \in S, \A y \in S : m <= y
  PROVE  Min(S) = m
<1>1. Min(S) \in S /\ Min(S) <= m /\ m <= Min(S)
  BY MinIs
<1>2. Min(S) \in Nat /\ m \in Nat
  BY <1>1
<1> QED
  BY <1>1, <1>2

\* A key without lines has no values.
LEMMA NoValue ==
  ASSUME NEW f, NEW section, NEW name, KeyLines(f, section, name) = {}
  PROVE  Values(f, section, name) = <<>>
<1>1. Cardinality({}) = 0
  BY FS_EmptySet
<1>2. Ascending({}) \in [1 .. 0 -> {}]
  <2>1. IsAscending(Ascending({}), {})
    BY <1>1, FS_EmptySet, AscendingIs
  <2> QED
    BY <1>1, <2>1 DEF IsAscending
<1>3. DOMAIN Ascending({}) = {}
  BY <1>2
<1> QED
  BY <1>3 DEF Values

\* The first line of a key has the first of its values.
LEMMA FirstValue ==
  ASSUME NEW f \in Texts, NEW section, NEW name, NEW m \in KeyLines(f, section, name),
         \A k \in KeyLines(f, section, name) : m <= k
  PROVE  /\ Values(f, section, name) # <<>>
         /\ Head(Values(f, section, name)) = Kept(f.lines[m].value)
<1> DEFINE K == KeyLines(f, section, name)
           n == Cardinality(K)
           e == Ascending(K)
           v == Values(f, section, name)
<1>1. K \in SUBSET Nat /\ IsFiniteSet(K)
  BY KeyLinesAre
<1>2. n \in Nat /\ IsAscending(e, K)
  BY <1>1, AscendingIs
<1>3. /\ e \in [1 .. n -> K]
      /\ \A j, k \in 1 .. n : j < k => e[j] < e[k]
  BY <1>2 DEF IsAscending
<1>4. PICK i \in 1 .. n : e[i] = m
  BY <1>1, <1>2, AscendingOnto
<1>5. v = [k \in 1 .. n |-> Kept(f.lines[e[k]].value)]
  BY <1>3 DEF Values
<1> HIDE DEF K, n, e, v
<1>6. 1 \in 1 .. n /\ e[1] \in K /\ e[1] \in Nat /\ m \in Nat
  BY <1>1, <1>2, <1>3, <1>4 DEF K
<1>7. i = 1
  <2>1. m <= e[1]
    BY <1>6 DEF K
  <2>2. 1 < i => e[1] < e[i]
    BY <1>3, <1>6
  <2> QED
    BY <1>2, <1>4, <1>6, <2>1, <2>2
<1>8. v[1] = Kept(f.lines[m].value)
  BY <1>4, <1>5, <1>6, <1>7
<1>9. v # <<>>
  <2> SUFFICES ASSUME v = <<>> PROVE FALSE
    OBVIOUS
  <2>1. DOMAIN v = 1 .. n /\ DOMAIN v = {}
    BY <1>5
  <2> QED
    BY <1>6, <2>1
<1> QED
  BY <1>8, <1>9 DEF v

Hit(f, section, name, i) ==
    /\ FindOption(f.lines[i], name)
    /\ \E h \in 1 .. i - 1 : FindSection(f.lines[h], section)

\* getString() returns the value of the first line that it accepts.
LEMMA FirstHit ==
  ASSUME NEW f \in Texts, NEW section, NEW name, NEW m \in 1 .. Len(f.lines),
         Hit(f, section, name, m), \A i \in 1 .. m - 1 : ~Hit(f, section, name, i)
  PROVE  getString(f, section, name) = Shown(f.lines[m].value)
<1> DEFINE hits == {i \in DOMAIN f.lines :
                       /\ FindOption(f.lines[i], name)
                       /\ \E h \in 1 .. i - 1 : FindSection(f.lines[h], section)}
<1>1. Len(f.lines) \in Nat /\ DOMAIN f.lines = 1 .. Len(f.lines)
  BY KeyLinesAre
<1>2. hits \in SUBSET Nat /\ m \in hits
  BY <1>1 DEF Hit
<1>3. \A i \in hits : i \in 1 .. Len(f.lines) /\ Hit(f, section, name, i)
  BY <1>1 DEF Hit
<1>4. getString(f, section, name) =
        IF hits = {} THEN NotFound ELSE Shown(f.lines[Min(hits)].value)
  BY Zenon DEF getString
<1> HIDE DEF hits
<1>5. \A i \in hits : m <= i
  <2> SUFFICES ASSUME NEW i \in hits, ~(m <= i) PROVE FALSE
    OBVIOUS
  <2>1. i \in 1 .. m - 1
    BY <1>1, <1>3
  <2> QED
    BY <1>3, <2>1
<1>6. Min(hits) = m
  BY <1>2, <1>5, MinOf
<1> QED
  BY <1>2, <1>4, <1>6

(* In a plain file the two parsers take the same lines for an option.       *)
LEMMA PlainLine ==
  ASSUME NEW f \in Texts, PlainText(f), NEW i \in 1 .. Len(f.lines), NEW name \in Names
  PROVE  FindOption(f.lines[i], name) <=> IsOption(f.lines[i]) /\ f.lines[i].name = name
<1>1. i \in DOMAIN f.lines
  BY KeyLinesAre
<1>2. IsOption(f.lines[i]) =>
         f.lines[i].form = "exact" /\ Range(f.lines[i].value) \cap Names = {}
  BY <1>1 DEF PlainText
<1> QED
  BY <1>2 DEF FindOption

\* A line of a key is one that getString() accepts, behind its header.
LEMMA PlainKey ==
  ASSUME NEW f \in Texts, PlainText(f), NEW section \in Titles, NEW name \in Names,
         NEW i \in KeyLines(f, section, name)
  PROVE  /\ Hit(f, section, name, i) /\ i \in 1 .. Len(f.lines)
         /\ \E h \in 1 .. i - 1 : LastHead(f, h, i) /\ f.lines[h].name = section
<1>1. i \in 1 .. Len(f.lines) /\ i \in Nat
  BY KeyLinesAre
<1>2. IsOption(f.lines[i]) /\ f.lines[i].name = name /\ SectionAt(f, i) = section
  BY DEF KeyLines
<1>3. ~NoHead(f, i)
  BY <1>1, <1>2, SectionIs, TitleAssumption
<1>4. PICK h \in 1 .. i - 1 : LastHead(f, h, i)
  BY <1>1, <1>3, SectionIs
<1>5. f.lines[h].name = section /\ IsHeader(f.lines[h])
  <2>1. SectionAt(f, i) = f.lines[h].name
    BY <1>1, <1>4, SectionIs
  <2> QED
    BY <1>2, <1>4, <2>1 DEF LastHead
<1>6. FindOption(f.lines[i], name)
  BY <1>1, <1>2, PlainLine
<1>7. Hit(f, section, name, i)
  BY <1>5, <1>6 DEF Hit, FindSection
<1> QED
  BY <1>1, <1>4, <1>5, <1>7

\* To cut at more signs afterwards is to cut at them at once.
LEMMA CutTwice ==
  ASSUME NEW T, NEW v \in Seq(T)
  PROVE  Shown(Kept(v)) = Shown(v)
<1> DEFINE few == {i \in DOMAIN v : v[i] \in Blank}
           all == {i \in DOMAIN v : v[i] \in Signs}
           b == Min(few)
           w == SubSeq(v, 1, b - 1)
           some == {i \in DOMAIN w : w[i] \in Signs}
<1>1. Len(v) \in Nat /\ DOMAIN v = 1 .. Len(v) /\ few \subseteq all
  BY SignsAssumption, LenProperties
<1>2. all \in SUBSET Nat /\ few \in SUBSET Nat
  BY <1>1
<1>3. CASE few = {}
  BY <1>3, Zenon DEF Kept, Before
<1>4. CASE few # {}
  <2>1. b \in few /\ \A i \in few : b <= i
    <3> HIDE DEF few
    <3> QED
      BY <1>2, <1>4, MinIs
  <2>2. b \in 1 .. Len(v) /\ b \in all
    BY <1>1, <2>1
  <2>3. Kept(v) = w
    BY <1>4, Zenon DEF Kept, Before
  <2> HIDE DEF b
  <2>4. DOMAIN w = 1 .. b - 1 /\ \A i \in 1 .. b - 1 : w[i] = v[i]
    BY <1>1, <2>2
  <2>5. some = {i \in all : i < b}
    BY <1>1, <2>2, <2>4
  <2>6. Shown(v) = SubSeq(v, 1, Min(all) - 1)
    <3>1. all # {}
      BY <2>2
    <3> QED
      BY <3>1, Zenon DEF Shown, Before
  <2>7. Shown(w) = IF some = {} THEN w ELSE SubSeq(w, 1, Min(some) - 1)
    BY Zenon DEF Shown, Before
  <2> HIDE DEF some, all, few, w
  <2>8. CASE some = {}
    <3>1. Min(all) = b
      <4>1. \A i \in all : b <= i
        BY <1>2, <2>2, <2>5, <2>8
      <4> QED
        BY <1>2, <2>2, <4>1, MinOf
    <3> QED
      BY <2>3, <2>6, <2>7, <2>8, <3>1 DEF w
  <2>9. CASE some # {}
    <3>1. some \in SUBSET Nat
      BY <1>2, <2>5
    <3>2. Min(some) \in some /\ \A i \in some : Min(some) <= i
      BY <2>9, <3>1, MinIs
    <3> DEFINE c == Min(some)
    <3> HIDE DEF c
    <3>3. c \in all /\ c < b /\ c \in Nat /\ b \in Nat
      BY <1>2, <2>2, <2>5, <3>2 DEF c
    <3>4. \A i \in all : c <= i
      BY <1>2, <2>2, <2>5, <3>2, <3>3 DEF c
    <3>5. Min(all) = c
      BY <1>2, <3>3, <3>4, MinOf
    <3>6. SubSeq(w, 1, c - 1) = SubSeq(v, 1, c - 1)
      <4>1. \A i \in 1 .. c - 1 : i \in 1 .. b - 1
        BY <3>3
      <4>2. \A i \in 1 .. c - 1 : w[i] = v[i]
        BY <2>4, <4>1
      <4>3. /\ SubSeq(w, 1, c - 1) = [i \in 1 .. c - 1 |-> w[i]]
            /\ SubSeq(v, 1, c - 1) = [i \in 1 .. c - 1 |-> v[i]]
        BY <1>1, <2>2, <2>4, <3>3
      <4> QED
        BY <4>2, <4>3
    <3> QED
      BY <2>3, <2>6, <2>7, <2>9, <3>5, <3>6 DEF c
  <2> QED
    BY <2>8, <2>9
<1> QED
  BY <1>3, <1>4

\* The line of a key has a value.
LEMMA KeyValue ==
  ASSUME NEW f \in Texts, NEW section, NEW name, NEW m \in KeyLines(f, section, name)
  PROVE  f.lines[m].value \in Seq(Words \cup Titles)
<1>1. f.lines[m] \in Line /\ IsOption(f.lines[m])
  <2>1. f.lines \in Seq(Line) /\ m \in 1 .. Len(f.lines) /\ m \in DOMAIN f.lines
    BY KeyLinesAre
  <2> QED
    BY <2>1 DEF KeyLines
<1> QED
  BY <1>1 DEF Line, IsOption, Remark

\* The first line that getString() accepts is the first of the key.
LEMMA SameFound ==
  ASSUME NEW f \in Texts, PlainText(f), TitlesDiffer(f),
         NEW section \in Titles, NEW name \in Names, Values(f, section, name) # <<>>
  PROVE  getString(f, section, name) = Shown(Head(Values(f, section, name)))
<1> DEFINE K == KeyLines(f, section, name)
           m == Min(K)
<1>1. /\ Len(f.lines) \in Nat /\ DOMAIN f.lines = 1 .. Len(f.lines)
      /\ K \in SUBSET Nat /\ K \in SUBSET (1 .. Len(f.lines))
  BY KeyLinesAre
<1>2. K # {}
  BY NoValue
<1>3. m \in K /\ \A k \in K : m <= k
  <2> HIDE DEF K
  <2> QED
    BY <1>1, <1>2, MinIs
<1>4. Head(Values(f, section, name)) = Kept(f.lines[m].value)
  <2> HIDE DEF m
  <2> QED
    BY <1>3, FirstValue
<1> HIDE DEF m
<1>8. Shown(Kept(f.lines[m].value)) = Shown(f.lines[m].value)
  BY <1>3, KeyValue, CutTwice
<1>5. Hit(f, section, name, m) /\ m \in 1 .. Len(f.lines)
  BY <1>3, PlainKey
<1>6. PICK h \in 1 .. m - 1 : LastHead(f, h, m) /\ f.lines[h].name = section
  BY <1>3, PlainKey
<1>7. ASSUME NEW i \in 1 .. m - 1, Hit(f, section, name, i) PROVE FALSE
  <2>1. i \in 1 .. Len(f.lines)
    BY <1>1, <1>5
  <2>2. PICK u \in 1 .. i - 1 : IsHeader(f.lines[u]) /\ f.lines[u].name = section
    BY <1>7 DEF Hit, FindSection
  <2>3. u \in DOMAIN f.lines /\ h \in DOMAIN f.lines
    BY <1>1, <1>5, <2>1
  <2>4. IsHeader(f.lines[h])
    BY <1>6 DEF LastHead
  <2>5. u = h
    BY <1>6, <2>2, <2>3, <2>4 DEF TitlesDiffer
  <2>6. \A k \in u + 1 .. i - 1 : k \in h + 1 .. m - 1
    BY <1>1, <1>5, <2>1, <2>5
  <2>7. LastHead(f, u, i)
    BY <1>6, <2>2, <2>6 DEF LastHead
  <2>8. SectionAt(f, i) = section
    <3>1. i \in Nat
      BY <2>1
    <3> QED
      BY <2>2, <2>7, <3>1, SectionIs
  <2>9. IsOption(f.lines[i]) /\ f.lines[i].name = name
    BY <1>7, <2>1, PlainLine DEF Hit
  <2>10. i \in K
    BY <1>1, <2>1, <2>8, <2>9 DEF KeyLines
  <2>11. m <= i
    BY <1>3, <2>10
  <2> QED
    BY <1>1, <1>5, <2>1, <2>11
<1> QED
  BY <1>4, <1>5, <1>7, <1>8, FirstHit

\* A look-up in m_values.
LEMMA Parsed ==
  ASSUME NEW f, NEW section \in Titles, NEW name \in Names
  PROVE  ini_parse_file(f)[<<section, name>>] = Values(f, section, name)
<1>1. <<section, name>> \in (Titles \cup {NoTitle}) \X Names
  OBVIOUS
<1> QED
  BY <1>1 DEF ini_parse_file

\* SameMeaning is about the file on the disk.
LEMMA MeansTheSame ==
  ASSUME ConfigInv
  PROVE  SameMeaning
<1> SUFFICES ASSUME PlainText(file), TitlesDiffer(file),
                    NEW section \in Titles, NEW name \in Names,
                    HasValue(ini_parse_file(file), section, name)
             PROVE  getString(file, section, name)
                        = Shown(Head(ini_parse_file(file)[<<section, name>>]))
  BY DEF SameMeaning
<1>1. file \in Texts
  BY DEF ConfigInv, TypeOK
<1>2. ini_parse_file(file)[<<section, name>>] = Values(file, section, name)
  BY Parsed
<1>3. Values(file, section, name) # <<>>
  BY <1>2 DEF HasValue
<1> QED
  BY <1>1, <1>2, <1>3, SameFound

(* For plain files of any length whose titles differ, and after any number  *)
(* of writes: what getString() finds is the first of the values that        *)
(* CIniFile has, up to the first sign of a remark (SameMeaning).            *)
THEOREM ParsersAgree == Spec => []SameMeaning
BY ConfigInductive, MeansTheSame, PTL

-----------------------------------------------------------------------------
\* The values of a key with one line, and of one whose first line is new.
LEMMA OneValue ==
  ASSUME NEW g \in Texts, NEW section, NEW name, NEW p \in Nat,
         KeyLines(g, section, name) = {p}
  PROVE  Values(g, section, name) = [k \in {1} |-> Kept(g.lines[p].value)]
<1> DEFINE L == KeyLines(g, section, name)
           e == Ascending(L)
<1>1. L \in SUBSET Nat /\ IsFiniteSet(L) /\ Cardinality({p}) = 1
  BY KeyLinesAre, FS_Singleton
<1>2. IsAscending(e, L)
  BY <1>1, AscendingIs
<1>3. e \in [1 .. 1 -> {p}]
  BY <1>1, <1>2 DEF IsAscending
<1>4. Values(g, section, name) = [k \in DOMAIN e |-> Kept(g.lines[e[k]].value)]
  BY DEF Values
<1> HIDE DEF e
<1>5. DOMAIN e = {1} /\ e[1] = p
  BY <1>3
<1> QED
  BY <1>4, <1>5

LEMMA NewFirst ==
  ASSUME NEW f \in Texts, NEW g \in Texts, NEW section, NEW name,
         KeyLines(f, section, name) = KeyLines(g, section, name),
         NEW p \in KeyLines(g, section, name),
         \A k \in KeyLines(g, section, name) : p <= k,
         \A i \in KeyLines(g, section, name) \ {p} : g.lines[i] = f.lines[i]
  PROVE  Values(g, section, name)
            = Renewed(Values(f, section, name), Kept(g.lines[p].value))
<1> DEFINE K == KeyLines(g, section, name)
           n == Cardinality(K)
           e == Ascending(K)
<1>1. K \in SUBSET Nat /\ IsFiniteSet(K)
  BY KeyLinesAre
<1>2. n \in Nat /\ IsAscending(e, K)
  BY <1>1, AscendingIs
<1>3. /\ e \in [1 .. n -> K]
      /\ \A j, k \in 1 .. n : j < k => e[j] < e[k]
  BY <1>2 DEF IsAscending
<1>4. PICK i \in 1 .. n : e[i] = p
  BY <1>1, <1>2, AscendingOnto
<1>5. /\ Values(g, section, name) = [k \in 1 .. n |-> Kept(g.lines[e[k]].value)]
      /\ Values(f, section, name) = [k \in 1 .. n |-> Kept(f.lines[e[k]].value)]
  BY <1>3 DEF Values
<1> HIDE DEF n, e
<1>6. 1 \in 1 .. n /\ e[1] \in K /\ e[1] \in Nat /\ p \in Nat
  BY <1>1, <1>2, <1>3, <1>4
<1>7. i = 1
  <2>1. p <= e[1]
    BY <1>6
  <2>2. 1 < i => e[1] < e[i]
    BY <1>3, <1>6
  <2> QED
    BY <1>2, <1>4, <1>6, <2>1, <2>2
<1>8. ASSUME NEW k \in 1 .. n, k # 1 PROVE g.lines[e[k]] = f.lines[e[k]]
  <2>1. e[1] < e[k] /\ e[k] \in K /\ e[k] \in Nat
    BY <1>1, <1>2, <1>3, <1>6, <1>8
  <2>2. e[k] # p
    BY <1>4, <1>6, <1>7, <2>1
  <2> QED
    BY <2>1, <2>2
<1>9. (1 .. n) \cup {1} = 1 .. n /\ e[1] = p
  BY <1>4, <1>6, <1>7
<1>10. Values(f, section, name) = [k \in 1 .. n |-> Kept(f.lines[e[k]].value)]
  BY <1>5
<1>11. \A k \in 1 .. n : Kept(g.lines[e[k]].value) =
          IF k = 1 THEN Kept(g.lines[p].value) ELSE Values(f, section, name)[k]
  BY <1>8, <1>9, <1>10
<1> QED
  BY <1>5, <1>9, <1>11 DEF Renewed

(* What both classes make of what was written.                              *)
LEMMA WrittenFirst ==
  ASSUME NEW f \in Texts, PlainText(f), TitlesDiffer(f), NEW g \in Texts,
         NEW section \in Titles, NEW name \in Names, NEW value,
         InPlace(f, g, section, name, value)
  PROVE  /\ getString(g, section, name) = Shown(value)
         /\ Values(g, section, name) = Renewed(Values(f, section, name), Kept(value))
<1> DEFINE new == Exact(name, value)
<1>1. PICK p \in 1 .. Len(f.lines) + 1, gone \in {0, 1} :
        /\ Put(f.lines, g.lines, p, gone, new)
        /\ \E h \in 1 .. p - 1 :
              /\ SectionFound(f, h, section)
              /\ \A i \in h + 1 .. p - 1 : ~OptionFound(f, i, name) /\ ~IsSection(f, i)
        /\ gone = 1 => OptionFound(f, p, name)
        /\ gone = 0 => p = Len(f.lines) + 1 \/ IsSection(f, p)
  BY Zenon DEF InPlace
<1>2. PICK h \in 1 .. p - 1 :
        /\ SectionFound(f, h, section)
        /\ \A i \in h + 1 .. p - 1 : ~OptionFound(f, i, name) /\ ~IsSection(f, i)
  BY <1>1
<1>3. EndsWell(f) /\ NoTail(f)
  BY DEF PlainText, NoTail
<1>4. /\ Len(f.lines) \in Nat /\ DOMAIN f.lines = 1 .. Len(f.lines)
      /\ Len(g.lines) \in Nat /\ DOMAIN g.lines = 1 .. Len(g.lines)
  BY KeyLinesAre
<1>5. SectionAt(g, p) = section
  BY <1>1, <1>2, <1>3, InSectionThere
<1>6. /\ g.lines[p] = new /\ p \in 1 .. Len(g.lines)
      /\ \A i \in 1 .. p - 1 : g.lines[i] = f.lines[i]
  BY <1>1, <1>4 DEF Put
<1>7. IsHeader(f.lines[h]) /\ f.lines[h].name = section
  BY <1>2 DEF SectionFound, IsSection
<1>8. new.name = name /\ new.value = value /\ IsOption(new) /\ FindOption(new, name)
  BY DEF Exact, Option, IsOption, FindOption
<1> HIDE DEF new
<1>9. Hit(g, section, name, p)
  <2>1. g.lines[h] = f.lines[h]
    BY <1>6
  <2> QED
    BY <1>6, <1>7, <1>8, <2>1 DEF Hit, FindSection
<1>10. ASSUME NEW i \in 1 .. p - 1, Hit(g, section, name, i) PROVE FALSE
  <2>1. i \in 1 .. Len(f.lines) /\ \A u \in 1 .. i - 1 : u \in 1 .. p - 1 /\ u \in 1 .. Len(f.lines)
    BY <1>4
  <2>2. PICK u \in 1 .. i - 1 : IsHeader(f.lines[u]) /\ f.lines[u].name = section
    BY <1>6, <1>10, <2>1 DEF Hit, FindSection
  <2>3. u \in DOMAIN f.lines /\ h \in DOMAIN f.lines
    BY <1>4, <2>1
  <2>4. u = h
    BY <1>7, <2>2, <2>3 DEF TitlesDiffer
  <2>5. i \in h + 1 .. p - 1
    BY <2>1, <2>4
  <2>6. FindOption(f.lines[i], name)
    BY <1>6, <1>10 DEF Hit
  <2>7. IsOption(f.lines[i]) /\ f.lines[i].name = name
    BY <2>1, <2>6, PlainLine
  <2>8. f.lines[i].form = "exact"
    BY <1>4, <2>1, <2>7 DEF PlainText
  <2> QED
    BY <1>2, <2>5, <2>7, <2>8 DEF OptionFound
<1>11. getString(g, section, name) = Shown(value)
  BY <1>6, <1>8, <1>9, <1>10, FirstHit
<1>12. p \in KeyLines(g, section, name)
  BY <1>4, <1>5, <1>6, <1>8 DEF KeyLines
<1>13. ASSUME NEW k \in KeyLines(g, section, name) PROVE p <= k
  <2> SUFFICES ASSUME ~(p <= k) PROVE FALSE
    OBVIOUS
  <2>1. k \in 1 .. Len(g.lines) /\ k \in Nat
    BY <1>4, KeyLinesAre
  <2>2. k \in 1 .. p - 1
    BY <1>4, <2>1
  <2>3. IsOption(g.lines[k]) /\ g.lines[k].name = name /\ SectionAt(g, k) = section
    BY DEF KeyLines
  <2>4. k \in 1 .. Len(f.lines) /\ g.lines[k] = f.lines[k]
    BY <1>4, <1>6, <2>2
  <2>5. FindOption(g.lines[k], name)
    BY <2>3, <2>4, PlainLine
  <2>6. PICK u \in 1 .. k - 1 : LastHead(g, u, k)
    BY <2>1, <2>3, SectionIs, TitleAssumption
  <2>7. SectionAt(g, k) = g.lines[u].name
    BY <2>1, <2>6, SectionIs
  <2>8. Hit(g, section, name, k)
    BY <2>3, <2>5, <2>6, <2>7 DEF Hit, FindSection, LastHead
  <2> QED
    BY <1>10, <2>2, <2>8
<1> DEFINE K == KeyLines(f, section, name)
           L == KeyLines(g, section, name)
<1>14. /\ K \subseteq 1 .. Len(f.lines) /\ L \subseteq 1 .. Len(g.lines)
       /\ Len(g.lines) = Len(f.lines) + 1 - gone /\ p \in Nat
  <2>1. K \subseteq 1 .. Len(f.lines) /\ L \subseteq 1 .. Len(g.lines)
    BY KeyLinesAre
  <2>2. Len(g.lines) = Len(f.lines) + 1 - gone /\ p \in Nat
    BY <1>1, <1>4 DEF Put
  <2> QED
    BY <2>1, <2>2
<1>15. PutOption(f, g, p, gone, new)
  BY <1>1, <1>8 DEF PutOption, OptionFound, IsOption, IsHeader, new
<1>16. CASE gone = 0
  <2>1. ASSUME NEW i \in K PROVE FALSE
    <3>1. i \in 1 .. Len(f.lines) /\ IsOption(f.lines[i]) /\ f.lines[i].name = name
      BY <1>14 DEF KeyLines
    <3>2. PICK u \in 1 .. i - 1 : LastHead(f, u, i) /\ f.lines[u].name = section
      BY PlainKey
    <3>3. u \in DOMAIN f.lines /\ h \in DOMAIN f.lines /\ IsHeader(f.lines[u])
      BY <1>4, <3>1, <3>2 DEF LastHead
    <3>4. u = h
      BY <1>7, <3>2, <3>3 DEF TitlesDiffer
    <3>5. ~(i < p)
      <4>1. f.lines[i].form = "exact"
        BY <1>4, <3>1 DEF PlainText
      <4>2. OptionFound(f, i, name)
        BY <3>1, <4>1 DEF OptionFound
      <4>3. i < p => i \in h + 1 .. p - 1
        BY <1>14, <3>1, <3>2, <3>4
      <4> QED
        BY <1>2, <4>2, <4>3
    <3>6. IsSection(f, p) /\ i # p
      <4>1. p < Len(f.lines) + 1
        BY <1>14, <3>1, <3>5
      <4>2. IsSection(f, p)
        BY <1>1, <1>16, <4>1
      <4> QED
        BY <3>1, <4>2 DEF IsSection, IsHeader, IsOption
    <3>7. p \in u + 1 .. i - 1
      BY <1>2, <1>14, <3>1, <3>4, <3>5, <3>6
    <3> QED
      BY <3>2, <3>6, <3>7 DEF LastHead, IsSection
  <2>2. ASSUME NEW k \in L, k # p PROVE FALSE
    <3>1. p <= k /\ k \in 1 .. Len(g.lines) /\ k \in Nat
      BY <1>13, <1>14
    <3>2. k - 1 \in 1 .. Len(f.lines) /\ p + gone <= k - 1
      BY <1>4, <1>14, <1>16, <2>2, <3>1
    <3>3. Stays(f, p, gone, k - 1)
      BY <3>2 DEF Stays
    <3>4. Moved(p, gone, k - 1) = k
      BY <1>14, <1>16, <2>2, <3>1 DEF Moved
    <3>5. k - 1 \in K
      <4>1. k - 1 \in KeyLines(f, section, name) <=>
              Moved(p, gone, k - 1) \in KeyLines(g, section, name)
        BY <1>15, <3>3, KeyMoves
      <4> QED
        BY <3>4, <4>1
    <3> QED
      BY <2>1, <3>5
  <2>3. K = {} /\ L = {p}
    BY <1>12, <2>1, <2>2
  <2>4. Values(f, section, name) = <<>>
    BY <2>3, NoValue
  <2>5. Values(g, section, name) = [k \in {1} |-> Kept(value)]
    BY <1>4, <1>6, <1>8, <2>3, OneValue
  <2>6. Renewed(<<>>, Kept(value)) = [k \in {1} |-> Kept(value)]
    BY DEF Renewed
  <2> QED
    BY <1>11, <2>4, <2>5, <2>6, Zenon
<1>17. CASE gone = 1
  <2>1. \A i \in 1 .. Len(f.lines) \ {p} : (i \in K <=> i \in L) /\ g.lines[i] = f.lines[i]
    <3> SUFFICES ASSUME NEW i \in 1 .. Len(f.lines) \ {p}
                 PROVE  (i \in K <=> i \in L) /\ g.lines[i] = f.lines[i]
      OBVIOUS
    <3>1. Stays(f, p, gone, i) /\ Moved(p, gone, i) = i
      BY <1>4, <1>14, <1>17 DEF Stays, Moved
    <3>2. /\ g.lines[Moved(p, gone, i)] = f.lines[i]
          /\ i \in KeyLines(f, section, name) <=>
                Moved(p, gone, i) \in KeyLines(g, section, name)
      BY <1>15, <3>1, KeyMoves
    <3> QED
      BY <3>1, <3>2, Zenon
  <2>2. p \in 1 .. Len(f.lines)
    BY <1>4, <1>6, <1>14, <1>17
  <2>3. p \in K
    <3>1. SectionAt(f, p) = section
      BY <1>1, <1>2, <1>3, InSectionThere
    <3> QED
      BY <1>1, <1>4, <1>17, <2>2, <3>1 DEF KeyLines, OptionFound
  <2>4. K = L
    <3>1. \A i : i \in K <=> i \in L
      <4> HIDE DEF K, L
      <4> QED
        BY <1>4, <1>12, <1>14, <1>17, <2>1, <2>3 DEF K, L
    <3> QED
      BY <3>1
  <2>5. Values(g, section, name)
          = Renewed(Values(f, section, name), Kept(g.lines[p].value))
    <3>1. \A i \in L \ {p} : g.lines[i] = f.lines[i]
      BY <1>14, <2>1, <2>4
    <3>2. \A k \in L : p <= k
      BY <1>13
    <3> QED
      BY <1>12, <1>14, <2>4, <3>1, <3>2, NewFirst
  <2> QED
    BY <1>6, <1>8, <1>11, <2>5
<1> QED
  BY <1>1, <1>16, <1>17

\* ReadBack is about the text between two steps of writeString().
LEMMA ReadsBack ==
  ASSUME ConfigInv
  PROVE  ReadBack
<1> DEFINE section == args.section
           name == args.name
           value == args.value
           m_values == ini_parse_file(pBuf)
           old == Values(file, section, name)
<1> SUFFICES ASSUME pc = "built", PlainText(file), TitlesDiffer(file), HasTitle(file, section)
             PROVE  /\ getString(pBuf, section, name) = Shown(value)
                    /\ HasSection(m_values, section)
                    /\ m_values[<<section, name>>] = Renewed(old, Kept(value))
  BY DEF ReadBack, Shown, Kept
<1>1. /\ file \in Texts /\ section \in Sections /\ name \in Names /\ section \in Titles
      /\ value \in Seq(Words)
      /\ pBuf \in writeString(file, section, name, value) /\ pBuf \in Texts
  BY DEF ConfigInv, TypeOK, Built, Titles
<1>2. EndsWell(file)
  BY DEF PlainText
<1>3. \E h \in DOMAIN file.lines : SectionFound(file, h, section)
  BY DEF HasTitle, PlainText, EndsWell, SectionFound, IsSection
<1>4. InPlace(file, pBuf, section, name, value)
  BY <1>1, <1>2, <1>3, InPlaceIs
<1>5. /\ getString(pBuf, section, name) = Shown(value)
      /\ Values(pBuf, section, name) = Renewed(old, Kept(value))
  BY <1>1, <1>4, WrittenFirst
<1>6. m_values[<<section, name>>] = Values(pBuf, section, name)
  BY <1>1, Parsed
<1>7. HasSection(m_values, section)
  <2>1. 1 \in DOMAIN Values(pBuf, section, name)
    BY <1>5 DEF Renewed
  <2>2. Values(pBuf, section, name) # <<>>
    BY <2>1
  <2> QED
    BY <1>1, <1>6, <2>2 DEF HasSection, HasValue
<1> QED
  BY <1>5, <1>6, <1>7

(* For plain files of any length whose titles differ: what getString() and  *)
(* CIniFile make of a value that writeString() wrote to a section that is   *)
(* there, cuts at remarks and older values of the same name included        *)
(* (ReadBack).                                                              *)
THEOREM WrittenIsRead == Spec => []ReadBack
BY ConfigInductive, ReadsBack, PTL
=============================================================================
