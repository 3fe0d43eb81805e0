---------------------------- MODULE SequenceFacts ----------------------------
(****************************************************************************)
(* What taking from the front, appending and pushing do to the elements of  *)
(* a sequence and to its having no element twice.  The queues and stacks of *)
(* the repository's pools are sequences, and the proofs about them cite     *)
(* these lemmas.  Then induction over the natural numbers, which the        *)
(* provers do not do by themselves, and what it shows of sums.              *)
(****************************************************************************)
EXTENDS Integers, Folds, SequenceTheorems, FiniteSetTheorems, WellFoundedInduction, TLAPS

\* A sequence is its first element and its tail.
LEMMA TailFacts ==
  ASSUME NEW S, NEW s \in Seq(S), s # <<>>
  PROVE  /\ Head(s) \in S
         /\ Tail(s) \in Seq(S)
         /\ Len(s) \in Nat \ {0}
         /\ Head(s) = s[1]
         /\ Len(Tail(s)) = Len(s) - 1
         /\ \A i \in 1..Len(Tail(s)) : Tail(s)[i] = s[i + 1]
         /\ Range(s) = {Head(s)} \cup Range(Tail(s))
         /\ IsInjective(s) => IsInjective(Tail(s)) /\ Head(s) \notin Range(Tail(s))
<1> DEFINE t == Tail(s)
<1>1. /\ Head(s) \in S
      /\ t \in Seq(S)
      /\ Len(s) \in Nat \ {0}
      /\ Head(s) = s[1]
      /\ Len(t) = Len(s) - 1
      /\ \A i \in 1..Len(t) : t[i] = s[i + 1]
  BY HeadTailProperties, EmptySeq
<1>2. DOMAIN s = 1..Len(s) /\ DOMAIN t = 1..Len(t)
  BY <1>1, LenProperties
<1> HIDE DEF t
<1>3. Range(s) = {Head(s)} \cup Range(t)
  <2>1. ASSUME NEW i \in 1..Len(s), i # 1
        PROVE  i - 1 \in 1..Len(t) /\ s[i] = t[i - 1]
    <3>1. i - 1 \in 1..Len(t)
      BY <1>1, <2>1
    <3>2. t[i - 1] = s[(i - 1) + 1]
      BY <1>1, <3>1
    <3> QED BY <3>1, <3>2
  <2>2. ASSUME NEW i \in 1..Len(t)
        PROVE  i + 1 \in 1..Len(s) /\ t[i] = s[i + 1]
    BY <1>1
  <2>3. 1 \in 1..Len(s)
    BY <1>1
  <2>4. \A x : x \in Range(s) <=> \E i \in 1..Len(s) : s[i] = x
    BY <1>2 DEF Range
  <2>5. \A x : x \in Range(t) <=> \E i \in 1..Len(t) : t[i] = x
    BY <1>2 DEF Range
  <2>6. ASSUME NEW x \in Range(s)
        PROVE  x \in {Head(s)} \cup Range(t)
    BY <1>1, <2>1, <2>4, <2>5
  <2>7. ASSUME NEW x \in {Head(s)} \cup Range(t)
        PROVE  x \in Range(s)
    BY <1>1, <2>2, <2>3, <2>4, <2>5
  <2> QED BY <2>6, <2>7
<1>4. ASSUME IsInjective(s)
      PROVE  IsInjective(t) /\ Head(s) \notin Range(t)
  <2>1. ASSUME NEW i \in 1..Len(t), NEW j \in 1..Len(t), t[i] = t[j]
        PROVE  i = j
    <3>1. i + 1 \in 1..Len(s) /\ j + 1 \in 1..Len(s) /\ s[i + 1] = s[j + 1]
      BY <1>1, <2>1
    <3>2. i + 1 = j + 1
      BY <1>2, <1>4, <3>1 DEF IsInjective
    <3> QED BY <3>2
  <2>2. ASSUME NEW i \in 1..Len(t), t[i] = Head(s)
        PROVE  FALSE
    <3>1. i + 1 \in 1..Len(s) /\ 1 \in 1..Len(s) /\ s[i + 1] = s[1]
      BY <1>1, <2>2
    <3>2. i + 1 = 1
      BY <1>2, <1>4, <3>1 DEF IsInjective
    <3> QED BY <3>2
  <2> QED BY <1>2, <2>1, <2>2 DEF IsInjective, Range
<1> QED BY <1>1, <1>3, <1>4 DEF t

\* Appending adds one element, and no duplicate if it was not there.
LEMMA AppendFacts ==
  ASSUME NEW S, NEW s \in Seq(S), NEW e \in S
  PROVE  /\ Append(s, e) \in Seq(S)
         /\ Len(s) \in Nat
         /\ Len(Append(s, e)) = Len(s) + 1
         /\ \A i \in 1..Len(s) : Append(s, e)[i] = s[i]
         /\ Append(s, e)[Len(s) + 1] = e
         /\ Range(Append(s, e)) = Range(s) \cup {e}
         /\ IsInjective(s) /\ e \notin Range(s) => IsInjective(Append(s, e))
<1> DEFINE t == Append(s, e)
<1>1. /\ t \in Seq(S)
      /\ Len(s) \in Nat
      /\ Len(t) = Len(s) + 1
      /\ \A i \in 1..Len(s) : t[i] = s[i]
      /\ t[Len(s) + 1] = e
  BY AppendProperties, LenProperties
<1>2. DOMAIN s = 1..Len(s) /\ DOMAIN t = 1..Len(t)
  BY <1>1, LenProperties
<1> HIDE DEF t
<1>3. \A i \in 1..Len(t) : i \in 1..Len(s) \/ i = Len(s) + 1
  BY <1>1
<1>4. \A i \in 1..Len(s) : i \in 1..Len(t)
  BY <1>1
<1>5. Len(s) + 1 \in 1..Len(t)
  BY <1>1
<1>6. Range(t) = Range(s) \cup {e}
  BY <1>1, <1>2, <1>3, <1>4, <1>5 DEF Range
<1>7. ASSUME IsInjective(s), e \notin Range(s)
      PROVE  IsInjective(t)
  BY <1>1, <1>2, <1>3, <1>7 DEF IsInjective, Range
<1> QED BY <1>1, <1>6, <1>7 DEF t

\* So does pushing at the front.
LEMMA PushFacts ==
  ASSUME NEW S, NEW s \in Seq(S), NEW e \in S
  PROVE  /\ <<e>> \o s \in Seq(S)
         /\ Range(<<e>> \o s) = Range(s) \cup {e}
         /\ IsInjective(s) /\ e \notin Range(s) => IsInjective(<<e>> \o s)
<1> DEFINE t == <<e>> \o s
<1>1. /\ t \in Seq(S)
      /\ Len(s) \in Nat
      /\ Len(t) = Len(s) + 1
      /\ \A i \in 1..(Len(s) + 1) : t[i] = IF i <= 1 THEN e ELSE s[i - 1]
  <2>1. <<e>> \in Seq(S) /\ Len(<<e>>) = 1 /\ <<e>>[1] = e
    OBVIOUS
  <2>2. Len(s) \in Nat
    BY LenProperties
  <2>3. /\ t \in Seq(S)
        /\ Len(t) = 1 + Len(s)
        /\ \A i \in 1..(1 + Len(s)) :
              t[i] = IF i <= 1 THEN <<e>>[i] ELSE s[i - 1]
    BY <2>1, ConcatProperties
  <2> HIDE DEF t
  <2> QED BY <2>1, <2>2, <2>3
<1>2. DOMAIN s = 1..Len(s) /\ DOMAIN t = 1..Len(t)
  BY <1>1, LenProperties
<1> HIDE DEF t
<1>3. ASSUME NEW i \in 1..Len(t), i # 1
      PROVE  i - 1 \in 1..Len(s) /\ t[i] = s[i - 1]
  BY <1>1, <1>3
<1>4. ASSUME NEW i \in 1..Len(s)
      PROVE  i + 1 \in 1..Len(t) /\ s[i] = t[i + 1]
  <2>1. i + 1 \in 1..(Len(s) + 1) /\ ~(i + 1 <= 1) /\ (i + 1) - 1 = i
    BY <1>1
  <2> QED BY <1>1, <2>1
<1>5. 1 \in 1..Len(t) /\ t[1] = e
  BY <1>1
<1>6. Range(t) = Range(s) \cup {e}
  <2>1. \A x : x \in Range(s) <=> \E i \in 1..Len(s) : s[i] = x
    BY <1>2 DEF Range
  <2>2. \A x : x \in Range(t) <=> \E i \in 1..Len(t) : t[i] = x
    BY <1>2 DEF Range
  <2>3. ASSUME NEW x \in Range(t)
        PROVE  x \in Range(s) \cup {e}
    BY <1>3, <1>5, <2>1, <2>2
  <2>4. ASSUME NEW x \in Range(s) \cup {e}
        PROVE  x \in Range(t)
    BY <1>4, <1>5, <2>1, <2>2
  <2> QED BY <2>3, <2>4
<1>7. ASSUME IsInjective(s), e \notin Range(s)
      PROVE  IsInjective(t)
  <2>1. ASSUME NEW i \in 1..Len(t), NEW j \in 1..Len(t), t[i] = t[j]
        PROVE  i = j
    <3>1. CASE i = 1 \/ j = 1
      BY <1>2, <1>3, <1>5, <1>7, <2>1, <3>1 DEF Range
    <3>2. CASE i # 1 /\ j # 1
      <4>1. i - 1 = j - 1
        BY <1>2, <1>3, <1>7, <2>1, <3>2 DEF IsInjective
      <4> QED BY <4>1
    <3> QED BY <3>1, <3>2
  <2> QED BY <1>2, <2>1 DEF IsInjective
<1> QED BY <1>1, <1>6, <1>7 DEF t

-----------------------------------------------------------------------------
(* Induction.                                                               *)

\* Induction over the natural numbers, on a set of them: a smallest number outside
\* the set would have a predecessor in it.
LEMMA NatSetInduction ==
  ASSUME NEW T, 0 \in T, \A n \in Nat : n \in T => n + 1 \in T
  PROVE  Nat \subseteq T
<1> DEFINE U == Nat \ T
           Less == {ss \in Nat \X Nat : ss[1] < ss[2]}
<1> SUFFICES ASSUME U # {} PROVE FALSE
  OBVIOUS
<1>1. IsWellFoundedOn(Less, Nat)
  BY NatLessThanWellFounded DEF OpToRel
<1>2. PICK x \in U : \A y \in U : <<y, x>> \notin Less
  <2> HIDE DEF Less
  <2> QED BY <1>1, WFMin
<1>3. x \in Nat /\ x # 0
  OBVIOUS
<1>4. x - 1 \in Nat /\ <<x - 1, x>> \in Less
  BY <1>3
<1>5. x - 1 \in T
  BY <1>2, <1>4
<1> QED BY <1>3, <1>4, <1>5

-----------------------------------------------------------------------------
(* What is added up.                                                        *)

\* The sum of f over a set, as the folds of the community modules add it up.
Total(f, S) == MapThenFoldSet(LAMBDA x, y : x + y, 0, LAMBDA i : f[i],
                              LAMBDA s : CHOOSE x \in s : TRUE, S)
\* The element a fold takes next.
Chosen(s) == CHOOSE x \in s : TRUE

\* g adds f up over every subset of S.
AddsUp(g, f, S) ==
    \A s \in SUBSET S : g[s] = IF s = {} THEN 0 ELSE f[Chosen(s)] + g[s \ {Chosen(s)}]

\* A subset of a finite set can be counted, and with one element less it has one
\* element less.
LEMMA SmallerSet ==
  ASSUME NEW S, IsFiniteSet(S), NEW s \in SUBSET S
  PROVE  /\ IsFiniteSet(s) /\ Cardinality(s) \in Nat /\ Cardinality(s) <= Cardinality(S)
         /\ Cardinality(S) \in Nat
         /\ Cardinality(s) = 0 <=> s = {}
         /\ s # {} => Chosen(s) \in s
         /\ \A x \in s : Cardinality(s \ {x}) = Cardinality(s) - 1
<1>1. /\ IsFiniteSet(s) /\ Cardinality(s) <= Cardinality(S)
  BY FS_Subset
<1>2. Cardinality(s) \in Nat /\ Cardinality(S) \in Nat
  BY <1>1, FS_CardinalityType
<1>3. Cardinality(s) = 0 <=> s = {}
  BY <1>1, FS_EmptySet
<1>4. s # {} => Chosen(s) \in s
  BY Zenon DEF Chosen
<1>5. \A x \in s : Cardinality(s \ {x}) = Cardinality(s) - 1
  BY <1>1, FS_RemoveElement
<1> QED BY <1>1, <1>2, <1>3, <1>4, <1>5

\* There is a function that adds f up: by induction on the size of the set.
LEMMA SumExists ==
  ASSUME NEW S, IsFiniteSet(S), NEW f, \A x \in S : f[x] \in Int
  PROVE  \E g \in [SUBSET S -> Int] : AddsUp(g, f, S)
<1> DEFINE Upto(n) == {s \in SUBSET S : Cardinality(s) <= n}
           OK(g, n) == \A s \in Upto(n) : g[s] = IF s = {} THEN 0
                                                  ELSE f[Chosen(s)] + g[s \ {Chosen(s)}]
           T == {n \in Nat : \E g \in [Upto(n) -> Int] : OK(g, n)}
<1>1. 0 \in T
  <2>1. \A s \in Upto(0) : s = {}
    BY SmallerSet
  <2>2. [s \in Upto(0) |-> 0] \in [Upto(0) -> Int] /\ OK([s \in Upto(0) |-> 0], 0)
    BY <2>1
  <2> HIDE DEF Upto, OK
  <2> QED BY <2>2
<1>2. ASSUME NEW n \in Nat, n \in T
      PROVE  n + 1 \in T
  <2>1. PICK g \in [Upto(n) -> Int] : OK(g, n)
    BY <1>2
  <2> DEFINE h == [s \in Upto(n + 1) |-> IF s = {} THEN 0
                                         ELSE f[Chosen(s)] + g[s \ {Chosen(s)}]]
  <2>2. \A s \in Upto(n) : s \in Upto(n + 1) /\ h[s] = g[s]
    <3> TAKE s \in Upto(n)
    <3>1. s \in Upto(n + 1)
      BY SmallerSet
    <3> HIDE DEF Upto
    <3> QED BY <2>1, <3>1
  <2>3. ASSUME NEW s \in Upto(n + 1), s # {}
        PROVE  s \ {Chosen(s)} \in Upto(n) /\ f[Chosen(s)] \in Int
    BY <2>3, SmallerSet
  <2>4. h \in [Upto(n + 1) -> Int]
    <3> HIDE DEF Upto
    <3> QED BY <2>1, <2>3
  <2>5. OK(h, n + 1)
    <3> SUFFICES ASSUME NEW s \in Upto(n + 1)
                 PROVE  h[s] = IF s = {} THEN 0 ELSE f[Chosen(s)] + h[s \ {Chosen(s)}]
      OBVIOUS
    <3>1. h[s] = IF s = {} THEN 0 ELSE f[Chosen(s)] + g[s \ {Chosen(s)}]
      <4> HIDE DEF Upto
      <4> QED OBVIOUS
    <3>2. s # {} => h[s \ {Chosen(s)}] = g[s \ {Chosen(s)}]
      BY <2>2, <2>3
    <3> HIDE DEF h
    <3> QED BY <3>1, <3>2
  <2> HIDE DEF h, OK, Upto
  <2> QED BY <2>4, <2>5
<1>3. Cardinality(S) \in T
  <2> HIDE DEF T
  <2> QED BY <1>1, <1>2, NatSetInduction, FS_CardinalityType
<1>4. PICK g \in [Upto(Cardinality(S)) -> Int] : OK(g, Cardinality(S))
  BY <1>3
<1>5. Upto(Cardinality(S)) = SUBSET S
  BY SmallerSet
<1> HIDE DEF Upto
<1> QED BY <1>4, <1>5 DEF AddsUp

\* Two functions that add up the same numbers agree, by induction again: a sum
\* over a set is not changed by what else could have been added.
LEMMA SumsAgree ==
  ASSUME NEW S, IsFiniteSet(S), NEW R, S \subseteq R,
         NEW f, NEW h, \A x \in S : h[x] = f[x],
         NEW g, AddsUp(g, f, R), NEW k, AddsUp(k, h, S)
  PROVE  \A s \in SUBSET S : k[s] = g[s]
<1> DEFINE T == {n \in Nat : \A s \in SUBSET S : Cardinality(s) = n => k[s] = g[s]}
<1>1. 0 \in T
  BY SmallerSet DEF AddsUp
<1>2. ASSUME NEW n \in Nat, n \in T
      PROVE  n + 1 \in T
  <2> SUFFICES ASSUME NEW s \in SUBSET S, Cardinality(s) = n + 1
               PROVE  k[s] = g[s]
    BY <1>2
  <2>1. s # {} /\ Chosen(s) \in s /\ Cardinality(s \ {Chosen(s)}) = n
    BY SmallerSet
  <2>2. k[s \ {Chosen(s)}] = g[s \ {Chosen(s)}]
    BY <1>2, <2>1
  <2>3. h[Chosen(s)] = f[Chosen(s)]
    BY <2>1
  <2> HIDE DEF T
  <2> QED BY <2>1, <2>2, <2>3 DEF AddsUp
<1>3. Nat \subseteq T
  <2> HIDE DEF T
  <2> QED BY <1>1, <1>2, NatSetInduction
<1> QED BY <1>3, SmallerSet

\* Hence a fold is the sum, and does not depend on which function it is defined by.
LEMMA TotalIsSum ==
  ASSUME NEW S, IsFiniteSet(S), NEW f, \A x \in S : f[x] \in Int
  PROVE  \E g \in [SUBSET S -> Int] : AddsUp(g, f, S) /\ Total(f, S) = g[S]
<1> DEFINE F(g) == [s \in SUBSET S |-> IF s = {} THEN 0
                                       ELSE f[Chosen(s)] + g[s \ {Chosen(s)}]]
           iter == CHOOSE g : g = F(g)
<1>1. PICK g \in [SUBSET S -> Int] : AddsUp(g, f, S)
  BY SumExists
<1>2. g = F(g)
  BY <1>1 DEF AddsUp
<1>3. iter = F(iter)
  <2> HIDE DEF F
  <2> QED BY <1>2
<1>4. AddsUp(iter, f, S)
  BY <1>3 DEF AddsUp
<1>5. \A s \in SUBSET S : iter[s] = g[s]
  <2> HIDE DEF iter
  <2> QED BY <1>1, <1>4, SumsAgree
<1>6. Total(f, S) = iter[S]
  BY DEF Total, MapThenFoldSet, Chosen
<1>7. Total(f, S) = g[S]
  <2> HIDE DEF iter
  <2> QED BY <1>5, <1>6
<1> QED BY <1>1, <1>7

\* The sum over the empty set is 0, and one element more is added.
LEMMA TotalFacts ==
  ASSUME NEW S, IsFiniteSet(S), NEW f, \A x \in S : f[x] \in Int
  PROVE  /\ Total(f, S) \in Int
         /\ S = {} => Total(f, S) = 0
         /\ S # {} => Total(f, S) = f[Chosen(S)] + Total(f, S \ {Chosen(S)})
<1>1. PICK g \in [SUBSET S -> Int] : AddsUp(g, f, S) /\ Total(f, S) = g[S]
  BY TotalIsSum
<1>2. ASSUME S # {}
      PROVE  Total(f, S) = f[Chosen(S)] + Total(f, S \ {Chosen(S)})
  <2> DEFINE R == S \ {Chosen(S)}
  <2>1. PICK h \in [SUBSET R -> Int] : AddsUp(h, f, R) /\ Total(f, R) = h[R]
    BY FS_RemoveElement, TotalIsSum
  <2>2. h[R] = g[R]
    <3>1. IsFiniteSet(R) /\ R \subseteq S
      BY FS_RemoveElement
    <3>2. \A s \in SUBSET R : h[s] = g[s]
      <4> HIDE DEF R
      <4> QED BY <1>1, <2>1, <3>1, SumsAgree
    <3> QED BY <3>2
  <2> QED BY <1>1, <1>2, <2>1, <2>2 DEF AddsUp
<1> QED BY <1>1, <1>2 DEF AddsUp

\* Only the numbers that are added matter.
LEMMA TotalOfSame ==
  ASSUME NEW S, IsFiniteSet(S), NEW f, \A x \in S : f[x] \in Int,
         NEW h, \A x \in S : h[x] = f[x]
  PROVE  Total(h, S) = Total(f, S)
<1>1. PICK g \in [SUBSET S -> Int] : AddsUp(g, f, S) /\ Total(f, S) = g[S]
  BY TotalIsSum
<1>2. PICK k \in [SUBSET S -> Int] : AddsUp(k, h, S) /\ Total(h, S) = k[S]
  BY TotalIsSum
<1>3. k[S] = g[S]
  BY <1>1, <1>2, SumsAgree
<1> QED BY <1>1, <1>2, <1>3

\* It does not matter in which order they are added: any of them can come last.
LEMMA TotalRemove ==
  ASSUME NEW S, IsFiniteSet(S), NEW f, \A x \in S : f[x] \in Int, NEW x \in S
  PROVE  Total(f, S) = f[x] + Total(f, S \ {x})
<1> DEFINE T == {n \in Nat : \A s \in SUBSET S : Cardinality(s) = n =>
                      \A y \in s : Total(f, s) = f[y] + Total(f, s \ {y})}
<1>1. 0 \in T
  BY SmallerSet
<1>2. ASSUME NEW n \in Nat, n \in T
      PROVE  n + 1 \in T
  <2> SUFFICES ASSUME NEW s \in SUBSET S, Cardinality(s) = n + 1, NEW y \in s
               PROVE  Total(f, s) = f[y] + Total(f, s \ {y})
    OBVIOUS
  <2> DEFINE p == Chosen(s)
             r == s \ {p}
             q == s \ {y}
  <2>1. /\ IsFiniteSet(s) /\ IsFiniteSet(r) /\ IsFiniteSet(q) /\ IsFiniteSet(r \ {y})
        /\ p \in s /\ Cardinality(r) = n /\ Cardinality(q) = n
    <3>1. IsFiniteSet(s) /\ p \in s /\ Cardinality(r) = n /\ Cardinality(q) = n
      BY SmallerSet
    <3> HIDE DEF p
    <3> QED BY <3>1, FS_Subset
  <2>2. Total(f, s) = f[p] + Total(f, r)
    BY <2>1, TotalFacts
  <2>3. CASE y # p
    <3>1. Total(f, r) = f[y] + Total(f, r \ {y}) /\ Total(f, q) = f[p] + Total(f, q \ {p})
      <4> HIDE DEF p
      <4> QED BY <1>2, <2>1, <2>3
    <3>2. r \ {y} = q \ {p}
      OBVIOUS
    <3>3. Total(f, r \ {y}) \in Int /\ f[p] \in Int /\ f[y] \in Int
      <4> HIDE DEF p
      <4> QED BY <2>1, TotalFacts
    <3>4. ASSUME NEW a \in Int, NEW b \in Int, NEW c \in Int
          PROVE  a + (b + c) = b + (a + c)
      OBVIOUS
    <3>5. f[p] + (f[y] + Total(f, r \ {y})) = f[y] + (f[p] + Total(f, r \ {y}))
      BY <3>3, <3>4
    <3> HIDE DEF p, r, q, T
    <3> QED BY <2>2, <3>1, <3>2, <3>5 DEF q
  <2> QED BY <2>2, <2>3
<1>3. Nat \subseteq T
  <2> HIDE DEF T
  <2> QED BY <1>1, <1>2, NatSetInduction
<1> QED BY <1>3, FS_CardinalityType

\* The same for the sum over an interval ...
LEMMA TotalOfNext ==
  ASSUME NEW n \in Nat, NEW f, \A i \in 1 .. n + 1 : f[i] \in Int
  PROVE  /\ Total(f, 1 .. n) \in Int
         /\ Total(f, 1 .. n + 1) = f[n + 1] + Total(f, 1 .. n)
<1> DEFINE S == 1 .. n + 1
           R == 1 .. n
<1>1. IsFiniteSet(S) /\ IsFiniteSet(R)
  BY FS_Interval
<1>2. S \ {n + 1} = R /\ n + 1 \in S /\ R \subseteq S
  OBVIOUS
<1>3. \A i \in S : f[i] \in Int
  OBVIOUS
<1> HIDE DEF S, R
<1>4. Total(f, R) \in Int
  BY <1>1, <1>2, <1>3, TotalFacts
<1>5. Total(f, S) = f[n + 1] + Total(f, S \ {n + 1})
  BY <1>1, <1>2, <1>3, TotalRemove
<1> QED BY <1>2, <1>4, <1>5 DEF S, R

\* ... and when the first number is taken away and the others move up.
LEMMA TotalShifted ==
  ASSUME NEW m \in Nat, NEW f, \A i \in 1 .. m + 1 : f[i] \in Int,
         NEW h, \A i \in 1 .. m : h[i] = f[i + 1]
  PROVE  Total(f, 1 .. m + 1) = f[1] + Total(h, 1 .. m)
<1> DEFINE T == {n \in Nat : n <= m => Total(f, 1 .. n + 1) = f[1] + Total(h, 1 .. n)}
<1>0. \A n \in Nat : IsFiniteSet(1 .. n)
  BY FS_Interval
<1>1. 0 \in T
  <2>1. 1 .. 0 + 1 = {1} /\ 1 .. 0 = {} /\ {1} \ {1} = {}
    OBVIOUS
  <2>2. Total(f, {1}) = f[1] + Total(f, {})
    BY <2>1, TotalRemove, FS_Singleton
  <2>3. Total(f, {}) = 0 /\ Total(h, {}) = 0
    BY TotalFacts, FS_EmptySet
  <2> QED BY <2>1, <2>2, <2>3
<1>2. ASSUME NEW n \in Nat, n \in T
      PROVE  n + 1 \in T
  <2> SUFFICES ASSUME n + 1 <= m
               PROVE  Total(f, 1 .. (n + 1) + 1) = f[1] + Total(h, 1 .. n + 1)
    OBVIOUS
  <2>1. /\ \A i \in 1 .. (n + 1) + 1 : f[i] \in Int
        /\ \A i \in 1 .. n + 1 : f[i] \in Int
        /\ \A i \in 1 .. n + 1 : h[i] \in Int
        /\ h[n + 1] = f[(n + 1) + 1]
    OBVIOUS
  <2>2. /\ Total(f, 1 .. (n + 1) + 1) = f[(n + 1) + 1] + Total(f, 1 .. n + 1)
        /\ Total(h, 1 .. n + 1) = h[n + 1] + Total(h, 1 .. n)
        /\ Total(f, 1 .. n + 1) \in Int /\ Total(h, 1 .. n) \in Int
    BY <2>1, TotalOfNext
  <2>3. Total(f, 1 .. n + 1) = f[1] + Total(h, 1 .. n)
    BY <1>2
  <2>4. f[1] \in Int /\ f[(n + 1) + 1] \in Int
    BY <2>1
  <2> HIDE DEF T
  <2> QED BY <2>1, <2>2, <2>3, <2>4
<1>3. Nat \subseteq T
  <2> HIDE DEF T
  <2> QED BY <1>1, <1>2, NatSetInduction
<1> QED BY <1>3
==============================================================================
