-------------------------- MODULE AccountingProofs --------------------------
(***************************************************************************)
(* What the verifier's accounting for signer_seq computes (section 11.4),  *)
(* of any records.  It is a recursion over the refusals of a session,      *)
(* worked out on the runs of missing values; that it leaves what the       *)
(* definition says (AccountingTheorem), and that nothing else is what the  *)
(* definition says (AccountingDetermined), is proved by induction over the *)
(* subsets of the refusals.                                                *)
(***************************************************************************)
EXTENDS Verifier, TLAPS, WellFoundedInduction, FiniteSetTheorems

-----------------------------------------------------------------------------
(***************************************************************************)
(* Recursion over the subsets of a finite set, one element less at a time. *)
(***************************************************************************)

\* Numbers have a least one.
LEMMA LeastNumber ==
    ASSUME NEW T, T \subseteq Nat, T # {}
    PROVE  \E k \in T : \A m \in T : ~(m < k)
<1>1. PICK k \in T : \A m \in T : ~(<<m, k>> \in OpToRel(<, Nat))
  BY NatLessThanWellFounded, WFMin
<1> QED
  BY <1>1 DEF OpToRel

\* An element is chosen from every subset.
Chooses(pick, S) == \A P \in (SUBSET S) \ {{}} : pick[P] \in P

\* G has a subset if it has the subset without the element chosen from it.
Inherits(G, pick, S) ==
    {} \in G /\ \A P \in (SUBSET S) \ {{}} : P \ {pick[P]} \in G => P \in G

\* A function of the subsets is what it is without the element chosen, and a step.
Recurs(f, base, step, pick, S) ==
    \A P \in SUBSET S : f[P] = IF P = {} THEN base ELSE step[<<P, f[P \ {pick[P]}]>>]

\* What holds of no elements and of a set if it holds of the set without the element
\* chosen from it, holds of every subset.
LEMMA SubsetInduction ==
    ASSUME NEW S, IsFiniteSet(S), NEW pick, Chooses(pick, S), NEW G, Inherits(G, pick, S)
    PROVE  SUBSET S \subseteq G
<1> DEFINE Sizes == {Cardinality(P) : P \in {Q \in SUBSET S : Q \notin G}}
<1> SUFFICES ASSUME Sizes # {} PROVE FALSE
  OBVIOUS
<1>1. \A P \in SUBSET S : IsFiniteSet(P) /\ Cardinality(P) \in Nat
  BY FS_Subset, FS_CardinalityType
<1>2. Sizes \subseteq Nat
  BY <1>1
<1>3. PICK k \in Sizes : \A m \in Sizes : ~(m < k)
  <2> HIDE DEF Sizes
  <2> QED
    BY <1>2, LeastNumber
<1>4. \A m \in Sizes : ~(m < k)
  BY <1>3
<1>5. PICK P \in SUBSET S : P \notin G /\ Cardinality(P) = k
  BY <1>3
<1>6. P # {}
  <2> HIDE DEF Sizes
  <2> QED
    BY <1>5 DEF Inherits
<1>7. pick[P] \in P /\ (P \ {pick[P]} \in G => P \in G)
  BY <1>5, <1>6 DEF Chooses, Inherits
<1>8. Cardinality(P \ {pick[P]}) = Cardinality(P) - 1
  <2> HIDE DEF Sizes
  <2> QED
    BY <1>1, <1>5, <1>7, FS_RemoveElement
<1>9. P \ {pick[P]} \in SUBSET S /\ P \ {pick[P]} \notin G
  BY <1>5, <1>7
<1> HIDE DEF Sizes
<1>10. Cardinality(P \ {pick[P]}) \in Sizes
  BY <1>9 DEF Sizes
<1> QED
  BY <1>1, <1>4, <1>5, <1>8, <1>10

\* The function that such a recursion defines exists.
LEMMA SubsetRecursion ==
    ASSUME NEW S, IsFiniteSet(S), NEW pick, Chooses(pick, S), NEW V, NEW base \in V,
           NEW step, \A P \in (SUBSET S) \ {{}} : \A v \in V : step[<<P, v>>] \in V
    PROVE  \E f \in [SUBSET S -> V] : Recurs(f, base, step, pick, S)
<1> DEFINE Small(k) == {P \in SUBSET S : Cardinality(P) <= k}
           Fits(f, k) == /\ f \in [Small(k) -> V]
                         /\ \A P \in Small(k) :
                               f[P] = IF P = {} THEN base ELSE step[<<P, f[P \ {pick[P]}]>>]
           Bad == {k \in Nat : ~\E f : Fits(f, k)}
<1>1. \A P \in SUBSET S : IsFiniteSet(P) /\ Cardinality(P) \in Nat
  BY FS_Subset, FS_CardinalityType
<1>2. \A P \in (SUBSET S) \ {{}} :
         P \ {pick[P]} \in SUBSET S /\ Cardinality(P \ {pick[P]}) = Cardinality(P) - 1
  BY <1>1, FS_RemoveElement DEF Chooses
<1>3. \A P \in SUBSET S : Cardinality(P) = 0 => P = {}
  BY <1>1, FS_EmptySet
<1>4. Bad = {}
  <2> SUFFICES ASSUME Bad # {} PROVE FALSE
    OBVIOUS
  <2>1. PICK k \in Bad : \A m \in Bad : ~(m < k)
    <3>1. Bad \subseteq Nat
      OBVIOUS
    <3> HIDE DEF Bad
    <3> QED
      BY <3>1, LeastNumber
  <2>2. k \in Nat /\ \A m \in Bad : ~(m < k)
    BY <2>1
  <2>3. k # 0
    <3> DEFINE g == [P \in Small(0) |-> base]
    <3>1. \A P \in Small(0) : P = {}
      BY <1>1, <1>3
    <3>2. Fits(g, 0)
      BY <3>1
    <3>3. (0 \in Bad) = FALSE
      <4> HIDE DEF Fits
      <4> QED
        BY <3>2
    <3> QED
      BY <2>1, <3>3
  <2>4. k - 1 \in Nat /\ k - 1 < k
    BY <2>2, <2>3
  <2>5. k - 1 \notin Bad
    BY <2>2, <2>4
  <2>6. PICK f : Fits(f, k - 1)
    BY <2>4, <2>5
  <2> DEFINE g == [P \in Small(k) |-> IF P = {} THEN base ELSE step[<<P, f[P \ {pick[P]}]>>]]
  <2>7. \A P \in Small(k) : P # {} => P \ {pick[P]} \in Small(k - 1)
    BY <1>1, <1>2, <2>2
  <2>8. \A P \in Small(k - 1) : P \in Small(k) /\ g[P] = f[P]
    BY <1>1, <2>2, <2>6
  <2>9. g \in [Small(k) -> V]
    <3>1. ASSUME NEW P \in Small(k), P # {}
          PROVE  step[<<P, f[P \ {pick[P]}]>>] \in V
      BY <2>6, <2>7, <3>1
    <3> QED
      BY <3>1
  <2>10. Fits(g, k)
    BY <2>7, <2>8, <2>9
  <2> HIDE DEF Fits, g
  <2> QED
    BY <2>1, <2>10
<1>5. PICK f : Fits(f, Cardinality(S))
  <2>1. Cardinality(S) \in Nat /\ Cardinality(S) \notin Bad
    BY <1>1, <1>4
  <2> HIDE DEF Fits
  <2> QED
    BY <2>1
<1>6. Small(Cardinality(S)) = SUBSET S
  BY FS_Subset
<1>7. f \in [SUBSET S -> V] /\ Recurs(f, base, step, pick, S)
  BY <1>5, <1>6 DEF Recurs
<1> QED
  BY <1>7

-----------------------------------------------------------------------------
(***************************************************************************)
(* Runs of missing values.                                                 *)
(***************************************************************************)

Runs == [first : Nat, last : Nat]

\* Runs in order, none of them empty and no two of them adjoining.
Ascending(runs) ==
    /\ runs \in Seq(Runs)
    /\ \A n \in DOMAIN runs : runs[n].first <= runs[n].last
    /\ \A n, m \in DOMAIN runs : n < m => runs[n].last + 1 < runs[m].first

ValuesOf(runs) == UNION {runs[n].first..runs[n].last : n \in DOMAIN runs}

\* The values below the largest in `present` that are not in it.
Missing(present) == {v \in Nat : v \notin present /\ \E w \in present : v < w}

\* A finite set of numbers has a largest.
LEMMA LargestNumber ==
    ASSUME NEW T, T \subseteq Nat, IsFiniteSet(T), T # {}
    PROVE  Max(T) \in T /\ \A v \in T : v <= Max(T)
<1> DEFINE pick == [P \in SUBSET T |-> CHOOSE v \in P : TRUE]
           G == {P \in SUBSET T : P = {} \/ \E v \in P : \A w \in P : w <= v}
<1>1. Chooses(pick, T)
  BY DEF Chooses
<1>2. ASSUME NEW P \in (SUBSET T) \ {{}}, P \ {pick[P]} \in G
      PROVE  P \in G
  <2> DEFINE top == pick[P]
  <2>1. top \in P /\ P \subseteq Nat /\ P \in SUBSET T
    BY <1>1 DEF Chooses
  <2>2. P \ {top} = {} \/ \E v \in P \ {top} : \A w \in P \ {top} : w <= v
    BY <1>2
  <2> HIDE DEF top
  <2>3. \E v \in P : \A w \in P : w <= v
    <3>1. CASE P \ {top} = {}
      <4>1. \A w \in P : w <= top
        BY <2>1, <3>1
      <4> QED
        BY <2>1, <4>1
    <3>2. ASSUME NEW v \in P \ {top}, \A w \in P \ {top} : w <= v
          PROVE  \E u \in P : \A w \in P : w <= u
      <4>1. CASE top <= v
        BY <2>1, <3>2, <4>1
      <4>2. CASE v < top
        <5>1. \A w \in P : w <= top
          <6> SUFFICES ASSUME NEW w \in P, w # top PROVE w <= top
            BY <2>1
          <6>1. w <= v /\ w \in Nat /\ v \in Nat /\ top \in Nat
            BY <2>1, <3>2
          <6> QED
            BY <4>2, <6>1
        <5> QED
          BY <2>1, <5>1
      <4> QED
        BY <2>1, <3>2, <4>1, <4>2
    <3> QED
      BY <2>2, <3>1, <3>2
  <2> QED
    BY <2>1, <2>3
<1>3. SUBSET T \subseteq G
  <2>1. {} \in G
    OBVIOUS
  <2> HIDE DEF pick, G
  <2>2. Inherits(G, pick, T)
    BY <1>2, <2>1 DEF Inherits
  <2> QED
    BY <1>1, <2>2, SubsetInduction
<1>4. PICK v \in T : \A w \in T : w <= v
  BY <1>3
<1> QED
  BY <1>4 DEF Max

\* One more run behind all others.
LEMMA AppendedRun ==
    ASSUME NEW runs, Ascending(runs), NEW first \in Nat, NEW last \in Nat, first <= last,
           \A v \in ValuesOf(runs) : v + 1 < first
    PROVE  /\ Ascending(Append(runs, Run(first, last)))
           /\ ValuesOf(Append(runs, Run(first, last))) = ValuesOf(runs) \cup first..last
<1> DEFINE more == Append(runs, Run(first, last))
           len  == Len(runs)
<1>1. /\ runs \in Seq(Runs) /\ len \in Nat /\ DOMAIN runs = 1..len
      /\ Run(first, last) \in Runs
      /\ Run(first, last).first = first /\ Run(first, last).last = last
  BY DEF Ascending, Runs, Run
<1>2. /\ more \in Seq(Runs) /\ DOMAIN more = 1..(len + 1)
      /\ \A n \in 1..len : more[n] = runs[n]
      /\ more[len + 1] = Run(first, last)
  BY <1>1
<1>3. \A n \in 1..len : runs[n].first \in Nat /\ runs[n].last \in Nat
  <2>1. \A n \in 1..len : runs[n] \in Runs
    BY <1>1
  <2> QED
    BY <2>1 DEF Runs
<1>4. \A n \in 1..len : runs[n].last + 1 < first
  <2> SUFFICES ASSUME NEW n \in 1..len PROVE runs[n].last + 1 < first
    OBVIOUS
  <2>1. runs[n].last \in runs[n].first..runs[n].last
    BY <1>1, <1>3 DEF Ascending
  <2> QED
    BY <1>1, <2>1 DEF ValuesOf
<1> HIDE DEF more, len
<1>5. \A n \in DOMAIN more : more[n].first <= more[n].last
  BY <1>1, <1>2 DEF Ascending
<1>6. ASSUME NEW n \in DOMAIN more, NEW m \in DOMAIN more, n < m
      PROVE  more[n].last + 1 < more[m].first
  <2>1. n \in 1..len /\ (m \in 1..len \/ m = len + 1)
    BY <1>1, <1>2, <1>6
  <2> QED
    BY <1>1, <1>2, <1>4, <1>6, <2>1 DEF Ascending
<1>7. ValuesOf(more) = ValuesOf(runs) \cup first..last
  <2>1. ASSUME NEW v \in ValuesOf(more) PROVE v \in ValuesOf(runs) \cup first..last
    <3>1. PICK n \in 1..(len + 1) : v \in more[n].first..more[n].last
      BY <1>2 DEF ValuesOf
    <3>2. CASE n \in 1..len
      BY <1>1, <1>2, <3>1, <3>2 DEF ValuesOf
    <3>3. CASE n = len + 1
      BY <1>1, <1>2, <3>1, <3>3
    <3> QED
      BY <1>1, <3>2, <3>3
  <2>2. ASSUME NEW v \in ValuesOf(runs) PROVE v \in ValuesOf(more)
    <3>1. PICK n \in 1..len : v \in runs[n].first..runs[n].last
      BY <1>1 DEF ValuesOf
    <3>2. n \in 1..(len + 1) /\ more[n] = runs[n]
      BY <1>1, <1>2
    <3> QED
      BY <1>2, <3>1, <3>2 DEF ValuesOf
  <2>3. ASSUME NEW v \in first..last PROVE v \in ValuesOf(more)
    <3>1. len + 1 \in DOMAIN more /\ v \in more[len + 1].first..more[len + 1].last
      BY <1>1, <1>2
    <3> QED
      BY <3>1 DEF ValuesOf
  <2> QED
    BY <2>1, <2>2, <2>3
<1> QED
  BY <1>2, <1>5, <1>6, <1>7 DEF Ascending, more

\* The gaps between the values that are there hold the values that are not.
LEMMA MissingRunsAre ==
    ASSUME NEW present, present \subseteq Nat, IsFiniteSet(present)
    PROVE  Ascending(missingRuns(present)) /\ ValuesOf(missingRuns(present)) = Missing(present)
<1> DEFINE next(below) == IF below = {} THEN 0 ELSE Max(below) + 1
           more(value, below, before) ==
             IF value > next(below) THEN Append(before, Run(next(below), value - 1)) ELSE before
           Step(f) == [P \in SUBSET present |->
                         IF P = {} THEN << >> ELSE more(Max(P), P \ {Max(P)}, f[P \ {Max(P)}])]
           runs == CHOOSE f : f = Step(f)
           pick == [P \in SUBSET present |-> Max(P)]
           V == Seq(Runs)
           step == [x \in ((SUBSET present) \ {{}}) \X V |->
                      more(Max(x[1]), x[1] \ {Max(x[1])}, x[2])]
<1>1. missingRuns(present) = runs[present]
  BY DEF missingRuns
<1>2. \A P \in SUBSET present :
         /\ IsFiniteSet(P) /\ P \subseteq Nat
         /\ P # {} => pick[P] \in P /\ Max(P) \in P /\ \A v \in P : v <= Max(P)
  BY FS_Subset, LargestNumber
<1>3. ASSUME NEW P \in (SUBSET present) \ {{}}
      PROVE  LET value == Max(P)
                 below == P \ {value}
             IN /\ value \in P /\ value \in Nat /\ below \in SUBSET present
                /\ next(below) \in Nat /\ \A v \in below : v < value /\ v < next(below)
                /\ below # {} => next(below) - 1 \in below
  <2> DEFINE value == Max(P)
             below == P \ {value}
  <2>1. value \in P /\ value \in Nat /\ below \in SUBSET present /\ \A v \in below : v < value
    <3>1. value \in P /\ P \subseteq Nat /\ \A v \in P : v <= value
      BY <1>2
    <3> HIDE DEF value
    <3> QED
      BY <3>1
  <2>2. CASE below = {}
    BY <2>1, <2>2
  <2>3. CASE below # {}
    <3> DEFINE top == Max(below)
    <3>1. top \in below /\ top \in Nat /\ \A v \in below : v \in Nat /\ v <= top
      BY <1>2, <2>1, <2>3
    <3>2. next(below) = top + 1
      BY <2>3
    <3> HIDE DEF below, next, value, top
    <3>3. next(below) \in Nat /\ \A v \in below : v < next(below)
      BY <3>1, <3>2
    <3>4. next(below) - 1 \in below
      <4>1. (top + 1) - 1 = top
        BY <3>1
      <4> QED
        BY <3>1, <3>2, <4>1
    <3> QED
      BY <2>1, <3>3, <3>4 DEF below, value
  <2> QED
    BY <2>2, <2>3
<1>4. ASSUME NEW P \in (SUBSET present) \ {{}}, NEW v \in V
      PROVE  more(Max(P), P \ {Max(P)}, v) \in V
  <2> DEFINE value == Max(P)
             below == P \ {value}
             n == next(below)
  <2>1. value \in Nat /\ n \in Nat
    BY <1>3
  <2> HIDE DEF n, value
  <2>2. value > n => Run(n, value - 1) \in Runs
    BY <2>1 DEF Run, Runs
  <2>3. (IF value > n THEN Append(v, Run(n, value - 1)) ELSE v) \in V
    BY <2>2
  <2> QED
    BY <2>3 DEF n, value
<1>5. PICK f \in [SUBSET present -> V] : Recurs(f, << >>, step, pick, present)
  <2>1. \A P \in (SUBSET present) \ {{}} : \A v \in V : step[<<P, v>>] \in V
    BY <1>4
  <2>2. Chooses(pick, present)
    BY <1>2 DEF Chooses
  <2> DEFINE base == << >>
  <2>3. base \in V
    OBVIOUS
  <2> HIDE DEF step, pick, V, base
  <2>4. \E f \in [SUBSET present -> V] : Recurs(f, base, step, pick, present)
    BY <2>1, <2>2, <2>3, SubsetRecursion
  <2> QED
    BY <2>4 DEF base
<1>6. f = Step(f)
  <2>1. \A P \in (SUBSET present) \ {{}} :
           step[<<P, f[P \ {pick[P]}]>>] = more(Max(P), P \ {Max(P)}, f[P \ {Max(P)}])
    OBVIOUS
  <2> HIDE DEF step, pick, V, more
  <2> QED
    BY <1>5, <2>1 DEF Recurs
<1>7. runs = Step(runs)
  <2> HIDE DEF Step
  <2> QED
    BY <1>6
<1> DEFINE Good(P) == Ascending(runs[P]) /\ ValuesOf(runs[P]) = Missing(P)
           G == {P \in SUBSET present : Good(P)}
<1>8. {} \in G
  <2>1. runs[{}] = << >>
    <3> HIDE DEF runs, more
    <3> QED
      BY <1>7
  <2>2. Ascending(<< >>)
    BY DEF Ascending
  <2>3. ValuesOf(<< >>) = {} /\ Missing({}) = {}
    BY DEF ValuesOf, Missing
  <2> QED
    BY <2>1, <2>2, <2>3
<1>9. ASSUME NEW P \in (SUBSET present) \ {{}}, P \ {pick[P]} \in G
      PROVE  P \in G
  <2> DEFINE value == Max(P)
             below == P \ {value}
             before == runs[below]
             n == next(below)
  <2>1. Ascending(before) /\ ValuesOf(before) = Missing(below)
    <3>1. pick[P] = value
      OBVIOUS
    <3> HIDE DEF runs, pick
    <3> QED
      BY <1>9, <3>1
  <2>2. runs[P] = IF value > n THEN Append(before, Run(n, value - 1)) ELSE before
    <3> HIDE DEF runs, next
    <3> QED
      BY <1>7
  <2>3. /\ value \in P /\ value \in Nat /\ n \in Nat
        /\ P \subseteq Nat /\ P = below \cup {value}
        /\ \A v \in below : v < value /\ v < n
        /\ below # {} => n - 1 \in below
        /\ below = {} => n = 0
    <3>1. /\ value \in P /\ value \in Nat /\ n \in Nat
          /\ \A v \in below : v < value /\ v < n
          /\ below # {} => n - 1 \in below
      BY <1>3
    <3>2. below = {} => n = 0
      OBVIOUS
    <3> HIDE DEF n, value
    <3> QED
      BY <3>1, <3>2
  <2> HIDE DEF before, n, value, below
  <2>4. n <= value
    BY <2>3
  <2>5. Missing(P) = Missing(below) \cup {v \in Nat : n <= v /\ v < value}
    <3>1. ASSUME NEW v \in Missing(P), v < n PROVE v \in Missing(below)
      BY <2>3, <3>1 DEF Missing
    <3>2. ASSUME NEW v \in Missing(P) PROVE v \in Nat /\ v < value
      BY <2>3 DEF Missing
    <3>3. ASSUME NEW v \in Missing(below) PROVE v \in Missing(P)
      BY <2>3 DEF Missing
    <3>4. ASSUME NEW v \in Nat, n <= v, v < value PROVE v \in Missing(P)
      BY <2>3, <3>4 DEF Missing
    <3>5. ASSUME NEW v \in Missing(P)
          PROVE  v \in Missing(below) \cup {u \in Nat : n <= u /\ u < value}
      <4>1. v \in Nat
        BY DEF Missing
      <4>2. CASE v < n
        BY <3>1, <4>2
      <4>3. CASE ~(v < n)
        <5>1. v < value
          BY <3>2
        <5>2. n <= v
          BY <2>3, <4>1, <4>3
        <5> QED
          BY <4>1, <5>1, <5>2
      <4> QED
        BY <4>2, <4>3
    <3> QED
      BY <3>3, <3>4, <3>5
  <2>6. \A v \in Missing(below) : v + 1 < n
    <3> SUFFICES ASSUME NEW v \in Missing(below) PROVE v + 1 < n
      OBVIOUS
    <3>1. v \in Nat /\ v \notin below /\ n - 1 \in below /\ v < n
      BY <2>3 DEF Missing
    <3>2. v # n - 1
      BY <3>1
    <3> QED
      BY <2>3, <3>1, <3>2
  <2>7. CASE value > n
    <3>1. n..(value - 1) = {v \in Nat : n <= v /\ v < value} /\ value - 1 \in Nat /\ n <= value - 1
      BY <2>3, <2>7
    <3>2. /\ Ascending(Append(before, Run(n, value - 1)))
          /\ ValuesOf(Append(before, Run(n, value - 1))) = ValuesOf(before) \cup n..(value - 1)
      BY <2>1, <2>3, <2>6, <3>1, AppendedRun
    <3>3. Ascending(runs[P]) /\ ValuesOf(runs[P]) = Missing(P)
      BY <2>1, <2>2, <2>5, <2>7, <3>1, <3>2
    <3> QED
      BY <3>3
  <2>8. CASE ~(value > n)
    <3>1. {v \in Nat : n <= v /\ v < value} = {}
      BY <2>3, <2>8
    <3>2. Ascending(runs[P]) /\ ValuesOf(runs[P]) = Missing(P)
      BY <2>1, <2>2, <2>5, <2>8, <3>1
    <3> QED
      BY <3>2
  <2> QED
    BY <2>7, <2>8
<1>10. SUBSET present \subseteq G
  <2>1. Chooses(pick, present)
    BY <1>2 DEF Chooses
  <2> HIDE DEF G, pick
  <2>2. Inherits(G, pick, present)
    BY <1>8, <1>9 DEF Inherits
  <2> QED
    BY <2>1, <2>2, SubsetInduction
<1> QED
  BY <1>1, <1>10

\* Runs that are left have a first one, and the others behind it.
LEMMA FirstRun ==
    ASSUME NEW runs, Ascending(runs), runs # << >>
    PROVE  LET first == Head(runs).first
               last  == Head(runs).last
           IN /\ first \in Nat /\ last \in Nat /\ first <= last /\ Head(runs) \in Runs
              /\ Ascending(Tail(runs))
              /\ \A v \in ValuesOf(Tail(runs)) : last + 1 < v
              /\ ValuesOf(runs) = first..last \cup ValuesOf(Tail(runs))
<1> DEFINE rest == Tail(runs)
           len  == Len(runs)
<1>1. /\ runs \in Seq(Runs) /\ len \in Nat /\ len > 0 /\ DOMAIN runs = 1..len
      /\ Head(runs) = runs[1]
  BY DEF Ascending
<1>2. /\ rest \in Seq(Runs) /\ DOMAIN rest = 1..(len - 1)
      /\ \A n \in 1..(len - 1) : rest[n] = runs[n + 1]
  BY <1>1
<1>3. \A n \in 1..len : runs[n] \in Runs
  BY <1>1
<1> HIDE DEF rest, len
<1>4. \A n \in 1..len : runs[n].first \in Nat /\ runs[n].last \in Nat /\ runs[n].first <= runs[n].last
  BY <1>1, <1>3 DEF Runs, Ascending
<1>5. Ascending(rest)
  <2>1. \A n \in 1..(len - 1) : n + 1 \in 1..len
    BY <1>1
  <2>2. \A n \in DOMAIN rest : rest[n].first <= rest[n].last
    BY <1>2, <1>4, <2>1
  <2>3. ASSUME NEW n \in DOMAIN rest, NEW m \in DOMAIN rest, n < m
        PROVE  rest[n].last + 1 < rest[m].first
    <3>1. n + 1 \in 1..len /\ m + 1 \in 1..len /\ n + 1 < m + 1
      BY <1>1, <1>2, <2>3
    <3> QED
      BY <1>1, <1>2, <3>1 DEF Ascending
  <2> QED
    BY <1>2, <2>2, <2>3 DEF Ascending
<1>6. \A v \in ValuesOf(rest) : runs[1].last + 1 < v
  <2> SUFFICES ASSUME NEW n \in 1..(len - 1), NEW v \in rest[n].first..rest[n].last
               PROVE  runs[1].last + 1 < v
    BY <1>2 DEF ValuesOf
  <2>1. n + 1 \in 1..len /\ 1 \in 1..len /\ 1 < n + 1 /\ rest[n] = runs[n + 1]
    BY <1>1, <1>2
  <2>2. runs[1].last + 1 < runs[n + 1].first
    BY <1>1, <2>1 DEF Ascending
  <2>3. runs[1].last \in Nat /\ runs[n + 1].first \in Nat /\ runs[n + 1].last \in Nat
    BY <1>4, <2>1
  <2> QED
    BY <2>1, <2>2, <2>3
<1>7. ValuesOf(runs) = runs[1].first..runs[1].last \cup ValuesOf(rest)
  <2>1. ASSUME NEW v \in ValuesOf(runs) PROVE v \in runs[1].first..runs[1].last \cup ValuesOf(rest)
    <3>1. PICK n \in 1..len : v \in runs[n].first..runs[n].last
      BY <1>1 DEF ValuesOf
    <3>2. CASE n # 1
      <4>1. n - 1 \in 1..(len - 1) /\ (n - 1) + 1 = n
        BY <1>1, <3>2
      <4>2. rest[n - 1] = runs[n]
        BY <1>2, <4>1
      <4> QED
        BY <1>2, <3>1, <4>1, <4>2 DEF ValuesOf
    <3> QED
      BY <3>1, <3>2
  <2>2. ASSUME NEW v \in ValuesOf(rest) PROVE v \in ValuesOf(runs)
    <3>1. PICK n \in 1..(len - 1) : v \in rest[n].first..rest[n].last
      BY <1>2 DEF ValuesOf
    <3>2. n + 1 \in 1..len /\ rest[n] = runs[n + 1]
      BY <1>1, <1>2
    <3> QED
      BY <1>1, <3>1, <3>2 DEF ValuesOf
  <2>3. ASSUME NEW v \in runs[1].first..runs[1].last PROVE v \in ValuesOf(runs)
    <3>1. 1 \in 1..len
      BY <1>1
    <3> QED
      BY <1>1, <2>3, <3>1 DEF ValuesOf
  <2> QED
    BY <2>1, <2>2, <2>3
<1>8. 1 \in 1..len
  BY <1>1
<1> QED
  BY <1>1, <1>3, <1>4, <1>5, <1>6, <1>7, <1>8 DEF rest

\* A first run before all others.
LEMMA PrecedingRun ==
    ASSUME NEW runs, Ascending(runs), NEW first \in Nat, NEW last \in Nat, first <= last,
           \A v \in ValuesOf(runs) : last + 1 < v
    PROVE  /\ Ascending(<<Run(first, last)>> \o runs)
           /\ ValuesOf(<<Run(first, last)>> \o runs) = first..last \cup ValuesOf(runs)
<1> DEFINE all == <<Run(first, last)>> \o runs
           len == Len(runs)
<1>1. /\ runs \in Seq(Runs) /\ len \in Nat /\ DOMAIN runs = 1..len
      /\ Run(first, last) \in Runs
      /\ Run(first, last).first = first /\ Run(first, last).last = last
  BY DEF Ascending, Runs, Run
<1>2. /\ all \in Seq(Runs) /\ DOMAIN all = 1..(len + 1) /\ all[1] = Run(first, last)
      /\ \A n \in 1..len : all[n + 1] = runs[n]
  <2> HIDE DEF Run, Runs
  <2> QED
    BY <1>1
<1>3. \A n \in 1..len : runs[n] \in Runs
  BY <1>1
<1>4. \A n \in 1..len : runs[n].first \in Nat /\ runs[n].last \in Nat /\ runs[n].first <= runs[n].last
  BY <1>1, <1>3 DEF Runs, Ascending
<1> HIDE DEF all, len
<1>5. \A n \in 1..len : last + 1 < runs[n].first
  <2> SUFFICES ASSUME NEW n \in 1..len PROVE last + 1 < runs[n].first
    OBVIOUS
  <2>1. runs[n].first \in runs[n].first..runs[n].last
    BY <1>4
  <2>2. runs[n].first \in ValuesOf(runs)
    BY <1>1, <2>1 DEF ValuesOf
  <2> QED
    BY <2>2
<1>6. \A n \in 1..(len + 1) : n = 1 \/ (n - 1 \in 1..len /\ all[n] = runs[n - 1])
  <2> SUFFICES ASSUME NEW n \in 1..(len + 1), n # 1 PROVE n - 1 \in 1..len /\ all[n] = runs[n - 1]
    OBVIOUS
  <2>1. n - 1 \in 1..len /\ (n - 1) + 1 = n
    BY <1>1
  <2> QED
    BY <1>2, <2>1
<1>7. \A n \in DOMAIN all : all[n].first <= all[n].last
  BY <1>1, <1>2, <1>4, <1>6
<1>8. ASSUME NEW n \in DOMAIN all, NEW m \in DOMAIN all, n < m
      PROVE  all[n].last + 1 < all[m].first
  <2>1. m # 1 /\ m - 1 \in 1..len /\ all[m] = runs[m - 1]
    BY <1>1, <1>2, <1>6, <1>8
  <2>2. CASE n = 1
    BY <1>1, <1>2, <1>5, <2>1, <2>2
  <2>3. CASE n # 1
    <3>1. n - 1 \in 1..len /\ all[n] = runs[n - 1] /\ n - 1 < m - 1
      BY <1>1, <1>2, <1>6, <1>8, <2>3
    <3> QED
      BY <1>1, <2>1, <3>1 DEF Ascending
  <2> QED
    BY <2>2, <2>3
<1>9. ValuesOf(all) = first..last \cup ValuesOf(runs)
  <2>1. ASSUME NEW v \in ValuesOf(all) PROVE v \in first..last \cup ValuesOf(runs)
    <3>1. PICK n \in 1..(len + 1) : v \in all[n].first..all[n].last
      BY <1>2 DEF ValuesOf
    <3>2. CASE n = 1
      BY <1>1, <1>2, <3>1, <3>2
    <3>3. CASE n # 1
      BY <1>1, <1>6, <3>1, <3>3 DEF ValuesOf
    <3> QED
      BY <3>2, <3>3
  <2>2. ASSUME NEW v \in ValuesOf(runs) PROVE v \in ValuesOf(all)
    <3>1. PICK n \in 1..len : v \in runs[n].first..runs[n].last
      BY <1>1 DEF ValuesOf
    <3>2. n + 1 \in 1..(len + 1) /\ all[n + 1] = runs[n]
      BY <1>1, <1>2
    <3> QED
      BY <1>2, <3>1, <3>2 DEF ValuesOf
  <2>3. ASSUME NEW v \in first..last PROVE v \in ValuesOf(all)
    <3>1. 1 \in 1..(len + 1)
      BY <1>1
    <3> QED
      BY <1>1, <1>2, <2>3, <3>1 DEF ValuesOf
  <2> QED
    BY <2>1, <2>2, <2>3
<1> QED
  BY <1>2, <1>7, <1>8, <1>9 DEF Ascending, all

\* A refusal accounts for the smallest value that is left, if that is below its own.
LEMMA AccountsForOne ==
    ASSUME NEW runs, Ascending(runs), NEW refusal \in Nat
    PROVE  LET rest == accountFor(runs, refusal) IN
           /\ Ascending(rest)
           /\ \/ ValuesOf(rest) = ValuesOf(runs) /\ \A v \in ValuesOf(runs) : refusal <= v
              \/ \E v \in ValuesOf(runs) :
                    /\ v < refusal /\ ValuesOf(rest) = ValuesOf(runs) \ {v}
                    /\ \A w \in ValuesOf(rest) : v < w
<1>1. CASE runs = << >>
  <2>1. accountFor(runs, refusal) = runs
    BY <1>1 DEF accountFor
  <2>2. ValuesOf(runs) = {}
    BY <1>1 DEF ValuesOf
  <2> QED
    BY <2>1, <2>2
<1>2. CASE runs # << >>
  <2> DEFINE first == Head(runs).first
             last  == Head(runs).last
             rest  == Tail(runs)
  <2>1. /\ first \in Nat /\ last \in Nat /\ first <= last
        /\ Ascending(rest) /\ \A v \in ValuesOf(rest) : last + 1 < v
        /\ ValuesOf(runs) = first..last \cup ValuesOf(rest)
    BY <1>2, FirstRun
  <2>2. accountFor(runs, refusal) =
          IF first >= refusal THEN runs
          ELSE IF first = last THEN rest ELSE <<Run(first + 1, last)>> \o rest
    BY <1>2 DEF accountFor
  <2> HIDE DEF first, last, rest
  <2>3. \A v \in ValuesOf(rest) : v \in Nat
    <3> SUFFICES ASSUME NEW n \in DOMAIN rest, NEW v \in rest[n].first..rest[n].last PROVE v \in Nat
      BY DEF ValuesOf
    <3>1. rest[n] \in Runs
      BY <2>1 DEF Ascending
    <3>2. rest[n].first \in Nat /\ rest[n].last \in Nat
      BY <3>1 DEF Runs
    <3> QED
      BY <3>2
  <2>4. CASE first >= refusal
    <3>1. \A v \in ValuesOf(runs) : refusal <= v
      BY <2>1, <2>3, <2>4
    <3> QED
      BY <2>2, <2>4, <3>1
  <2>5. CASE first < refusal
    <3>1. first \in ValuesOf(runs)
      BY <2>1
    <3>2. CASE first = last
      <4>1. accountFor(runs, refusal) = rest
        BY <2>1, <2>2, <2>5, <3>2
      <4>2. ValuesOf(rest) = ValuesOf(runs) \ {first}
        BY <2>1, <2>3, <3>2
      <4>3. \A w \in ValuesOf(rest) : first < w
        BY <2>1, <2>3
      <4> QED
        BY <2>1, <2>5, <3>1, <4>1, <4>2, <4>3
    <3>3. CASE first # last
      <4>1. accountFor(runs, refusal) = <<Run(first + 1, last)>> \o rest
        BY <2>1, <2>2, <2>5, <3>3
      <4>2. first + 1 \in Nat /\ first + 1 <= last
        BY <2>1, <3>3
      <4>3. /\ Ascending(<<Run(first + 1, last)>> \o rest)
            /\ ValuesOf(<<Run(first + 1, last)>> \o rest) = (first + 1)..last \cup ValuesOf(rest)
        BY <2>1, <4>2, PrecedingRun
      <4>4. (first + 1)..last \cup ValuesOf(rest) = ValuesOf(runs) \ {first}
        BY <2>1, <2>3, <4>2
      <4>5. \A w \in (first + 1)..last \cup ValuesOf(rest) : first < w
        BY <2>1, <2>3
      <4> QED
        BY <2>5, <3>1, <4>1, <4>3, <4>4, <4>5
    <3> QED
      BY <3>2, <3>3
  <2> QED
    BY <2>1, <2>4, <2>5
<1> QED
  BY <1>1, <1>2

-----------------------------------------------------------------------------
(***************************************************************************)
(* What the refusals of a key in a session account for.                    *)
(***************************************************************************)

\* A function has no more values than arguments.
LEMMA FiniteImage ==
    ASSUME NEW S, IsFiniteSet(S), NEW f
    PROVE  IsFiniteSet({f[x] : x \in S}) /\ Cardinality({f[x] : x \in S}) <= Cardinality(S)
<1> DEFINE T == {f[x] : x \in S}
           g == [x \in S |-> f[x]]
<1>1. g \in Surjection(S, T)
  BY DEF Surjection
<1> HIDE DEF T, g
<1>2. IsFiniteSet(T) /\ Cardinality(T) <= Cardinality(S)
  BY <1>1, FS_Surjection
<1> QED
  BY <1>2 DEF T

\* The numbers of finitely many records.
LEMMA FiniteNumbers ==
    ASSUME NEW records, NEW N, IsFiniteSet(N)
    PROVE  IsFiniteSet({records[n].event.signer_seq : n \in N})
<1> DEFINE f == [n \in N |-> records[n].event.signer_seq]
<1>1. {records[n].event.signer_seq : n \in N} = {f[n] : n \in N}
  OBVIOUS
<1> HIDE DEF f
<1> QED
  BY <1>1, FiniteImage

\* Records that have numbers.
Numbered(records) ==
    /\ DOMAIN records \subseteq Nat /\ IsFiniteSet(DOMAIN records)
    /\ \A n \in numbered(records) : records[n].event.signer_seq \in Nat

NumbersOf(records, key, s) == {records[n].event.signer_seq : n \in group(records, key, s)}

RefusalsOf(records, key, s) == refusals(records, group(records, key, s))

\* The refusal that is last in the order of their numbers.
LEMMA LastRefusalIs ==
    ASSUME NEW records, Numbered(records), NEW refusing, refusing \subseteq numbered(records),
           refusing # {}
    PROVE  LET n == lastRefusal(records, refusing) IN
           /\ n \in refusing
           /\ \A m \in refusing : records[m].event.signer_seq <= records[n].event.signer_seq
<1> DEFINE value(n) == records[n].event.signer_seq
           values == {value(n) : n \in refusing}
           top == Max(values)
           highest == {n \in refusing : value(n) = top}
           later(n, m) == value(m) < value(n) \/ (value(m) = value(n) /\ m <= n)
<1>1. /\ refusing \subseteq DOMAIN records /\ refusing \subseteq Nat /\ IsFiniteSet(refusing)
      /\ \A n \in refusing : value(n) \in Nat
  BY FS_Subset DEF Numbered, numbered
<1>2. top \in values /\ \A v \in values : v <= top
  <2>1. values \subseteq Nat /\ values # {}
    BY <1>1
  <2>2. IsFiniteSet(values)
    BY <1>1, FiniteNumbers
  <2> HIDE DEF values
  <2> QED
    BY <2>1, <2>2, LargestNumber
<1> HIDE DEF top
<1>3. highest \subseteq Nat /\ highest # {} /\ IsFiniteSet(highest)
  BY <1>1, <1>2, FS_Subset
<1> DEFINE last == Max(highest)
<1>4. last \in highest /\ \A n \in highest : n <= last
  <2> HIDE DEF highest
  <2> QED
    BY <1>3, LargestNumber
<1> HIDE DEF last
<1>5. last \in refusing /\ \A m \in refusing : later(last, m)
  <2> SUFFICES ASSUME NEW m \in refusing, value(m) # top PROVE value(m) < top
    BY <1>4
  <2>1. value(m) <= top /\ top \in Nat /\ value(m) \in Nat
    BY <1>1, <1>2
  <2> QED
    BY <2>1
<1>6. lastRefusal(records, refusing) = CHOOSE n \in refusing : \A m \in refusing : later(n, m)
  BY DEF lastRefusal
<1> DEFINE n == lastRefusal(records, refusing)
<1>7. n \in refusing /\ \A m \in refusing : later(n, m)
  <2> HIDE DEF later
  <2> QED
    BY <1>5, <1>6
<1> HIDE DEF n
<1>8. \A m \in refusing : value(m) <= value(n)
  BY <1>1, <1>7
<1> QED
  BY <1>7, <1>8 DEF n

\* The runs that are left after each set of refusals.
Leaves(left, records, key, s) ==
    /\ unaccountedRuns(records, key, s) = left[RefusalsOf(records, key, s)]
    /\ left[{}] = missingRuns(NumbersOf(records, key, s))
    /\ \A refusing \in (SUBSET RefusalsOf(records, key, s)) \ {{}} :
          LET n == lastRefusal(records, refusing)
          IN left[refusing] = accountFor(left[refusing \ {n}], records[n].event.signer_seq)

\* The recursion has a value for every set of refusals.
LEMMA LeavesExists ==
    ASSUME NEW records, Numbered(records), NEW key, NEW s
    PROVE  \E left : Leaves(left, records, key, s)
<1> DEFINE refs == RefusalsOf(records, key, s)
           base == missingRuns(NumbersOf(records, key, s))
           value(n) == records[n].event.signer_seq
           Step(f) == [refusing \in SUBSET refs |->
                         IF refusing = {} THEN base
                         ELSE LET n == lastRefusal(records, refusing)
                              IN accountFor(f[refusing \ {n}], value(n))]
           left == CHOOSE f : f = Step(f)
           pick == [refusing \in SUBSET refs |-> lastRefusal(records, refusing)]
           V == {runs \in Seq(Runs) : Ascending(runs)}
           step == [x \in ((SUBSET refs) \ {{}}) \X V |-> accountFor(x[2], value(pick[x[1]]))]
<1>1. unaccountedRuns(records, key, s) = left[refs]
  BY DEF unaccountedRuns, RefusalsOf, NumbersOf
<1>2. /\ refs \subseteq numbered(records) /\ refs \subseteq DOMAIN records /\ IsFiniteSet(refs)
      /\ NumbersOf(records, key, s) \subseteq Nat /\ IsFiniteSet(NumbersOf(records, key, s))
  <2>1. group(records, key, s) \subseteq numbered(records) /\ numbered(records) \subseteq DOMAIN records
    BY DEF group, numbered
  <2>2. IsFiniteSet(group(records, key, s))
    BY <2>1, FS_Subset DEF Numbered
  <2>3. IsFiniteSet(NumbersOf(records, key, s))
    BY <2>2, FiniteNumbers DEF NumbersOf
  <2>4. refs \subseteq group(records, key, s)
    BY DEF RefusalsOf, refusals
  <2> QED
    BY <2>1, <2>2, <2>3, <2>4, FS_Subset DEF Numbered, NumbersOf
<1>3. base \in V
  BY <1>2, MissingRunsAre DEF Ascending
<1>4. Chooses(pick, refs)
  BY <1>2, LastRefusalIs DEF Chooses
<1>5. \A refusing \in (SUBSET refs) \ {{}} : value(pick[refusing]) \in Nat
  BY <1>2, <1>4 DEF Chooses, Numbered
<1> HIDE DEF base, refs, pick
<1>6. ASSUME NEW refusing \in (SUBSET refs) \ {{}}, NEW runs \in V
      PROVE  step[<<refusing, runs>>] \in V
  <2>1. step[<<refusing, runs>>] = accountFor(runs, value(pick[refusing]))
    OBVIOUS
  <2> HIDE DEF step
  <2>2. Ascending(accountFor(runs, value(pick[refusing])))
    BY <1>5, AccountsForOne
  <2> QED
    BY <2>1, <2>2 DEF Ascending
<1>7. PICK f \in [SUBSET refs -> V] : Recurs(f, base, step, pick, refs)
  <2> HIDE DEF step, V
  <2> QED
    BY <1>2, <1>3, <1>4, <1>6, SubsetRecursion
<1>8. f = Step(f)
  <2>1. ASSUME NEW refusing \in (SUBSET refs) \ {{}}
        PROVE  step[<<refusing, f[refusing \ {pick[refusing]}]>>] =
                 LET n == lastRefusal(records, refusing)
                 IN accountFor(f[refusing \ {n}], value(n))
    <3>1. f[refusing \ {pick[refusing]}] \in V
      OBVIOUS
    <3> HIDE DEF V
    <3>2. pick[refusing] = lastRefusal(records, refusing)
      BY DEF pick
    <3> QED
      BY <3>1, <3>2
  <2>2. \A refusing \in SUBSET refs :
           f[refusing] = IF refusing = {} THEN base
                         ELSE LET n == lastRefusal(records, refusing)
                              IN accountFor(f[refusing \ {n}], value(n))
    <3> HIDE DEF step, V
    <3> QED
      BY <1>7, <2>1 DEF Recurs
  <2> HIDE DEF step, V
  <2> QED
    BY <2>2
<1>9. left = Step(left)
  <2> HIDE DEF Step
  <2> QED
    BY <1>8
<1>10. /\ left[{}] = base
       /\ \A refusing \in (SUBSET refs) \ {{}} :
             LET n == lastRefusal(records, refusing)
             IN left[refusing] = accountFor(left[refusing \ {n}], value(n))
  <2> HIDE DEF left
  <2> QED
    BY <1>9
<1> QED
  BY <1>1, <1>10 DEF Leaves, refs, base

\* Missing values can be assigned to the refusals in R, all different and each below
\* the refusal's own.
Assigns(f, R, records, missing) ==
    f \in Injection(R, missing) /\ \A n \in R : f[n] < records[n].event.signer_seq

Assignable(R, records, missing) == \E f : Assigns(f, R, records, missing)

\* Section 11.4 as a definition: as many missing values are accounted for as refusals
\* can be assigned one, those are the smallest ones, and the rest is in maximal runs.
AccountsFor(runs, refusing, records, missing) ==
    LET settled == missing \ ValuesOf(runs) IN
    /\ Ascending(runs)
    /\ ValuesOf(runs) \subseteq missing
    /\ \A v \in settled, w \in ValuesOf(runs) : v < w
    /\ \E R \in SUBSET refusing :
          Cardinality(R) = Cardinality(settled) /\ Assignable(R, records, missing)
    /\ \A R \in SUBSET refusing :
          Assignable(R, records, missing) => Cardinality(R) <= Cardinality(settled)

\* The values that are missing are finitely many.
LEMMA FiniteMissing ==
    ASSUME NEW present, present \subseteq Nat, IsFiniteSet(present)
    PROVE  IsFiniteSet(Missing(present)) /\ Missing(present) \subseteq Nat
<1>1. CASE present = {}
  <2>1. Missing(present) = {}
    BY <1>1 DEF Missing
  <2> QED
    BY <2>1, FS_EmptySet
<1>2. CASE present # {}
  <2> DEFINE top == Max(present)
  <2>1. top \in Nat /\ \A w \in present : w <= top
    BY <1>2, LargestNumber
  <2> HIDE DEF top
  <2>2. Missing(present) \subseteq 0..top
    BY <2>1 DEF Missing
  <2>3. IsFiniteSet(0..top)
    BY <2>1, FS_Interval
  <2> QED
    BY <2>2, <2>3, FS_Subset DEF Missing
<1> QED
  BY <1>1, <1>2

\* With one refusal more, whose number is not below those of the others.
LEMMA AccountsForMore ==
    ASSUME NEW records, NEW missing, missing \subseteq Nat, IsFiniteSet(missing),
           NEW refusing, IsFiniteSet(refusing), NEW n \in refusing,
           \A m \in refusing :
              /\ records[m].event.signer_seq \in Nat
              /\ records[m].event.signer_seq <= records[n].event.signer_seq,
           NEW before, AccountsFor(before, refusing \ {n}, records, missing)
    PROVE  AccountsFor(accountFor(before, records[n].event.signer_seq), refusing, records, missing)
<1> DEFINE value(m) == records[m].event.signer_seq
           runs == accountFor(before, value(n))
           was == missing \ ValuesOf(before)
           is == missing \ ValuesOf(runs)
           others == refusing \ {n}
<1>1. /\ Ascending(before) /\ ValuesOf(before) \subseteq missing
      /\ \A v \in was, w \in ValuesOf(before) : v < w
      /\ \A R \in SUBSET others :
            Assignable(R, records, missing) => Cardinality(R) <= Cardinality(was)
  BY DEF AccountsFor
<1>2. PICK served \in SUBSET others :
         Cardinality(served) = Cardinality(was) /\ Assignable(served, records, missing)
  BY DEF AccountsFor
<1>3. PICK f : Assigns(f, served, records, missing)
  BY <1>2 DEF Assignable
<1>4. /\ f \in Injection(served, missing)
      /\ \A m \in served : f[m] < value(m)
  BY <1>3 DEF Assigns
<1>5. /\ Ascending(runs)
      /\ \/ ValuesOf(runs) = ValuesOf(before) /\ \A v \in ValuesOf(before) : value(n) <= v
         \/ \E v \in ValuesOf(before) :
               /\ v < value(n) /\ ValuesOf(runs) = ValuesOf(before) \ {v}
               /\ \A w \in ValuesOf(runs) : v < w
  BY <1>1, AccountsForOne
<1>6. /\ IsFiniteSet(was) /\ IsFiniteSet(is)
      /\ Cardinality(was) \in Nat /\ Cardinality(is) \in Nat
  BY FS_Difference, FS_CardinalityType
<1>7. \A R \in SUBSET refusing : IsFiniteSet(R) /\ Cardinality(R) \in Nat
  BY FS_Subset, FS_CardinalityType
<1> HIDE DEF runs, was, is
<1>8. CASE ValuesOf(runs) = ValuesOf(before) /\ \A v \in ValuesOf(before) : value(n) <= v
  <2>1. is = was
    BY <1>8 DEF is, was
  <2>2. ASSUME NEW R \in SUBSET refusing, Assignable(R, records, missing)
        PROVE  Cardinality(R) <= Cardinality(is)
    <3>1. PICK g : g \in Injection(R, missing) /\ \A m \in R : g[m] < value(m)
      BY <2>2 DEF Assignable, Assigns
    <3>2. \A m \in R : g[m] \in was
      <4> SUFFICES ASSUME NEW m \in R PROVE g[m] \in was
        OBVIOUS
      <4>1. g[m] \in missing /\ g[m] < value(m) /\ value(m) <= value(n)
            /\ value(m) \in Nat /\ value(n) \in Nat
        BY <3>1 DEF Injection, IsInjective
      <4>2. ~(value(n) <= g[m])
        <5> DEFINE a == value(m)
                   b == value(n)
                   c == g[m]
        <5>1. c \in Nat /\ c < a /\ a <= b /\ a \in Nat /\ b \in Nat
          BY <4>1
        <5> HIDE DEF a, b, c
        <5>2. ~(b <= c)
          BY <5>1
        <5> QED
          BY <5>2 DEF b, c
      <4> QED
        BY <1>8, <4>1, <4>2 DEF was
    <3>3. g \in Injection(R, was)
      BY <3>1, <3>2 DEF Injection, IsInjective
    <3>4. Cardinality(R) <= Cardinality(was)
      BY <1>6, <3>3, FS_Injection
    <3> QED
      BY <2>1, <3>4
  <2>3. AccountsFor(runs, refusing, records, missing)
    BY <1>1, <1>2, <1>5, <1>8, <2>1, <2>2 DEF AccountsFor, is, was
  <2> QED
    BY <2>3 DEF runs
<1>9. ASSUME NEW v \in ValuesOf(before), v < value(n), ValuesOf(runs) = ValuesOf(before) \ {v},
             \A w \in ValuesOf(runs) : v < w
      PROVE  AccountsFor(runs, refusing, records, missing)
  <2>1. v \in missing /\ v \notin was /\ is = was \cup {v}
    BY <1>1, <1>9 DEF was, is
  <2>2. Cardinality(is) = Cardinality(was) + 1
    BY <1>6, <2>1, FS_AddElement
  <2>3. \A u \in is, w \in ValuesOf(runs) : u < w
    BY <1>1, <1>9, <2>1
  <2> DEFINE more == served \cup {n}
             g == [m \in more |-> IF m = n THEN v ELSE f[m]]
  <2>4. more \in SUBSET refusing /\ Cardinality(more) = Cardinality(is)
    <3>1. n \notin served
      OBVIOUS
    <3>2. Cardinality(more) = Cardinality(served) + 1
      BY <1>7, <3>1, FS_AddElement
    <3> QED
      BY <1>2, <2>2, <3>2
  <2>5. Assignable(more, records, missing)
    <3> DEFINE taken == {f[m] : m \in served}
    <3>1. \A m \in served : f[m] \in missing
      BY <1>4 DEF Injection, IsInjective
    <3>2. CASE v \notin taken
      <4>1. g \in [more -> missing]
        BY <2>1, <3>1
      <4>2. \A m, k \in more : g[m] = g[k] => m = k
        BY <1>4, <3>2 DEF Injection, IsInjective
      <4>3. \A m \in more : g[m] < value(m)
        BY <1>4, <1>9
      <4>4. g \in Injection(more, missing)
        BY <4>1, <4>2 DEF Injection, IsInjective
      <4> QED
        BY <4>3, <4>4 DEF Assignable, Assigns
    <3>3. CASE v \in taken
      <4>1. PICK m0 \in served : f[m0] = v
        BY <3>3
      <4>2. \E u \in was : u \notin taken
        <5> SUFFICES ASSUME was \subseteq taken PROVE FALSE
          OBVIOUS
        <5>1. IsFiniteSet(taken) /\ Cardinality(taken) <= Cardinality(served)
          BY <1>7, FiniteImage
        <5>2. Cardinality(was \cup {v}) = Cardinality(was) + 1 /\ was \cup {v} \in SUBSET taken
          BY <1>6, <2>1, <3>3, FS_AddElement
        <5>3. Cardinality(was \cup {v}) <= Cardinality(taken)
          BY <5>1, <5>2, FS_Subset
        <5>4. Cardinality(taken) \in Nat
          BY <5>1, FS_CardinalityType
        <5> QED
          BY <1>2, <1>6, <5>1, <5>2, <5>3, <5>4
      <4>3. PICK u \in was : u \notin taken
        BY <4>2
      <4>4. u \in missing /\ u < v /\ u \in Nat /\ v \in Nat /\ value(n) \in Nat
        BY <1>1, <2>1, <4>3 DEF was
      <4> DEFINE h == [m \in more |-> IF m = n THEN u ELSE f[m]]
      <4>5. h \in [more -> missing]
        BY <3>1, <4>4
      <4>6. \A m, k \in more : h[m] = h[k] => m = k
        BY <1>4, <4>3 DEF Injection, IsInjective
      <4>7. \A m \in more : h[m] < value(m)
        BY <1>4, <1>9, <4>4
      <4>8. h \in Injection(more, missing)
        BY <4>5, <4>6 DEF Injection, IsInjective
      <4> QED
        BY <4>7, <4>8 DEF Assignable, Assigns
    <3> QED
      BY <3>2, <3>3
  <2>6. ASSUME NEW R \in SUBSET refusing, Assignable(R, records, missing)
        PROVE  Cardinality(R) <= Cardinality(is)
    <3>1. PICK k : k \in Injection(R, missing) /\ \A m \in R : k[m] < value(m)
      BY <2>6 DEF Assignable, Assigns
    <3> DEFINE less == R \ {n}
               kk == [m \in less |-> k[m]]
    <3>2. kk \in Injection(less, missing) /\ \A m \in less : kk[m] < value(m)
      BY <3>1 DEF Injection, IsInjective
    <3>3. Assignable(less, records, missing)
      BY <3>2 DEF Assignable, Assigns
    <3>4. Cardinality(less) <= Cardinality(was)
      BY <1>1, <3>3
    <3>5. Cardinality(less) = IF n \in R THEN Cardinality(R) - 1 ELSE Cardinality(R)
      BY <1>7, FS_RemoveElement
    <3>6. Cardinality(R) \in Nat
      BY <1>7
    <3> QED
      BY <1>6, <2>2, <3>4, <3>5, <3>6
  <2>7. ValuesOf(runs) \subseteq missing
    BY <1>1, <1>9
  <2> QED
    BY <1>5, <2>3, <2>4, <2>5, <2>6, <2>7 DEF AccountsFor, is
<1> QED
  BY <1>5, <1>8, <1>9 DEF runs

\* Before any refusal, every missing value is left.
LEMMA AccountsForNone ==
    ASSUME NEW records, NEW missing, IsFiniteSet(missing),
           NEW runs, Ascending(runs), ValuesOf(runs) = missing
    PROVE  AccountsFor(runs, {}, records, missing)
<1>1. missing \ ValuesOf(runs) = {}
  OBVIOUS
<1>2. \A R \in SUBSET {} : Cardinality(R) = 0
  BY FS_EmptySet
<1>3. Assignable({}, records, missing)
  <2> DEFINE f == [n \in {} |-> 0]
  <2>1. f \in Injection({}, missing)
    BY DEF Injection, IsInjective
  <2> QED
    BY <2>1 DEF Assignable, Assigns
<1> QED
  BY <1>1, <1>2, <1>3, FS_EmptySet DEF AccountsFor

\* The verifier's procedure, which works on runs and goes through the refusals once,
\* accounts for the missing signer_seq values of a key in a session exactly: of any
\* records, it leaves unaccounted as few values as there can be if each refusal stands
\* for one missing value below its own, and these the largest, as maximal runs.
THEOREM AccountingTheorem ==
    ASSUME NEW records, Numbered(records), NEW key, NEW s
    PROVE  AccountsFor(unaccountedRuns(records, key, s), RefusalsOf(records, key, s),
                       records, Missing(NumbersOf(records, key, s)))
<1> DEFINE refs == RefusalsOf(records, key, s)
           missing == Missing(NumbersOf(records, key, s))
<1>1. PICK left : Leaves(left, records, key, s)
  BY LeavesExists
<1> DEFINE pick == [P \in SUBSET refs |-> lastRefusal(records, P)]
           G == {P \in SUBSET refs : AccountsFor(left[P], P, records, missing)}
<1>2. /\ refs \subseteq numbered(records) /\ IsFiniteSet(refs)
      /\ \A n \in refs : records[n].event.signer_seq \in Nat
      /\ NumbersOf(records, key, s) \subseteq Nat /\ IsFiniteSet(NumbersOf(records, key, s))
  <2>1. /\ refs \subseteq numbered(records) /\ numbered(records) \subseteq DOMAIN records
        /\ group(records, key, s) \subseteq numbered(records)
    BY DEF RefusalsOf, refusals, group, numbered
  <2>2. IsFiniteSet(refs) /\ IsFiniteSet(group(records, key, s))
    BY <2>1, FS_Subset DEF Numbered
  <2>3. IsFiniteSet(NumbersOf(records, key, s))
    BY <2>2, FiniteNumbers DEF NumbersOf
  <2> QED
    BY <2>1, <2>2, <2>3 DEF Numbered, NumbersOf
<1>3. IsFiniteSet(missing) /\ missing \subseteq Nat
  BY <1>2, FiniteMissing
<1>4. Chooses(pick, refs)
  BY <1>2, LastRefusalIs DEF Chooses
<1>5. {} \in G
  <2>1. left[{}] = missingRuns(NumbersOf(records, key, s))
    BY <1>1 DEF Leaves
  <2> HIDE DEF missing
  <2>2. Ascending(left[{}]) /\ ValuesOf(left[{}]) = missing
    BY <1>2, <2>1, MissingRunsAre DEF missing
  <2>3. AccountsFor(left[{}], {}, records, missing)
    BY <1>3, <2>2, AccountsForNone
  <2> QED
    BY <2>3
<1> HIDE DEF missing
<1>6. ASSUME NEW P \in (SUBSET refs) \ {{}}, P \ {pick[P]} \in G
      PROVE  P \in G
  <2> DEFINE n == lastRefusal(records, P)
  <2>1. n \in P /\ \A m \in P : records[m].event.signer_seq <= records[n].event.signer_seq
    BY <1>2, LastRefusalIs
  <2>2. left[P] = accountFor(left[P \ {n}], records[n].event.signer_seq)
    BY <1>1 DEF Leaves
  <2>3. pick[P] = n
    OBVIOUS
  <2>4. AccountsFor(left[P \ {n}], P \ {n}, records, missing)
    BY <1>6, <2>3
  <2>5. IsFiniteSet(P) /\ \A m \in P : records[m].event.signer_seq \in Nat
    BY <1>2, FS_Subset
  <2> HIDE DEF n
  <2>6. AccountsFor(left[P], P, records, missing)
    <3> DEFINE before == left[P \ {n}]
    <3> HIDE DEF before, refs, G, pick
    <3>1. AccountsFor(before, P \ {n}, records, missing)
      BY <2>4 DEF before
    <3>2. \A m \in P :
             /\ records[m].event.signer_seq \in Nat
             /\ records[m].event.signer_seq <= records[n].event.signer_seq
      BY <2>1, <2>5
    <3>3. AccountsFor(accountFor(before, records[n].event.signer_seq), P, records, missing)
      BY <1>3, <2>1, <2>5, <3>1, <3>2, AccountsForMore
    <3> QED
      BY <2>2, <3>3 DEF before
  <2> QED
    BY <2>6
<1>7. SUBSET refs \subseteq G
  <2> HIDE DEF G, pick
  <2>1. Inherits(G, pick, refs)
    BY <1>5, <1>6 DEF Inherits
  <2> QED
    BY <1>2, <1>4, <2>1, SubsetInduction
<1>8. AccountsFor(left[refs], refs, records, missing)
  BY <1>7
<1> QED
  BY <1>1, <1>8 DEF Leaves, missing

\* The numbers missing of a key in a session are finitely many.
LEMMA MissingIsFinite ==
    ASSUME NEW records, Numbered(records), NEW key, NEW s
    PROVE  /\ IsFiniteSet(Missing(NumbersOf(records, key, s)))
           /\ Missing(NumbersOf(records, key, s)) \subseteq Nat
<1>1. group(records, key, s) \subseteq numbered(records) /\ numbered(records) \subseteq DOMAIN records
  BY DEF group, numbered
<1>2. IsFiniteSet(group(records, key, s))
  BY <1>1, FS_Subset DEF Numbered
<1>3. IsFiniteSet(NumbersOf(records, key, s)) /\ NumbersOf(records, key, s) \subseteq Nat
  BY <1>1, <1>2, FiniteNumbers DEF Numbered, NumbersOf
<1> QED
  BY <1>3, FiniteMissing

\* Where runs of the same values agree before place k, they begin alike there.
LEMMA RunsBeginAlike ==
    ASSUME NEW runs, Ascending(runs), NEW others, Ascending(others),
           ValuesOf(runs) \subseteq ValuesOf(others),
           NEW k \in DOMAIN runs,
           \A n \in DOMAIN others : n < k => n \in DOMAIN runs /\ runs[n] = others[n]
    PROVE  k \in DOMAIN others /\ others[k].first <= runs[k].first
<1> DEFINE v == runs[k].first
<1>1. /\ runs \in Seq(Runs) /\ Len(runs) \in Nat /\ DOMAIN runs = 1..Len(runs)
      /\ others \in Seq(Runs) /\ Len(others) \in Nat /\ DOMAIN others = 1..Len(others)
  BY DEF Ascending
<1>2. /\ \A n \in DOMAIN runs : runs[n].first \in Nat /\ runs[n].last \in Nat
      /\ \A n \in DOMAIN others : others[n].first \in Nat /\ others[n].last \in Nat
  <2>1. /\ \A n \in DOMAIN runs : runs[n] \in Runs
        /\ \A n \in DOMAIN others : others[n] \in Runs
    BY <1>1
  <2> QED
    BY <2>1 DEF Runs
<1>3. v \in Nat /\ v <= runs[k].last /\ v \in ValuesOf(runs)
  <2>1. v \in Nat /\ v <= runs[k].last
    BY <1>2 DEF Ascending
  <2>2. v \in runs[k].first..runs[k].last
    BY <1>2, <2>1
  <2> QED
    BY <2>1, <2>2 DEF ValuesOf
<1>4. PICK m \in DOMAIN others : v \in others[m].first..others[m].last
  BY <1>3 DEF ValuesOf
<1>5. ~(m < k)
  <2> SUFFICES ASSUME m < k PROVE FALSE
    OBVIOUS
  <2>1. m \in DOMAIN runs /\ runs[m] = others[m]
    OBVIOUS
  <2>2. runs[m].last + 1 < runs[k].first
    BY <2>1 DEF Ascending
  <2> QED
    BY <1>2, <1>3, <1>4, <2>1, <2>2
<1>6. k \in DOMAIN others
  BY <1>1, <1>5
<1>7. CASE m = k
  BY <1>2, <1>3, <1>4, <1>6, <1>7
<1>8. CASE k < m
  <2>1. others[k].first <= others[k].last /\ others[k].last + 1 < others[m].first
    BY <1>6, <1>8 DEF Ascending
  <2> QED
    BY <1>2, <1>3, <1>4, <1>6, <2>1
<1> QED
  BY <1>1, <1>5, <1>6, <1>7, <1>8

\* Runs of the same values that begin alike at place k are as long there.
LEMMA RunsAreAsLong ==
    ASSUME NEW runs, Ascending(runs), NEW others, Ascending(others),
           ValuesOf(runs) \subseteq ValuesOf(others),
           NEW k \in DOMAIN runs, k \in DOMAIN others, others[k].first = runs[k].first
    PROVE  runs[k].last <= others[k].last
<1> DEFINE w == others[k].last + 1
<1>1. /\ runs \in Seq(Runs) /\ DOMAIN runs = 1..Len(runs) /\ Len(runs) \in Nat
      /\ others \in Seq(Runs) /\ DOMAIN others = 1..Len(others) /\ Len(others) \in Nat
  BY DEF Ascending
<1>2. /\ runs[k].first \in Nat /\ runs[k].last \in Nat
      /\ \A n \in DOMAIN others : others[n].first \in Nat /\ others[n].last \in Nat
  <2>1. runs[k] \in Runs /\ \A n \in DOMAIN others : others[n] \in Runs
    BY <1>1
  <2> QED
    BY <2>1 DEF Runs
<1> SUFFICES ASSUME others[k].last < runs[k].last PROVE FALSE
  BY <1>2
<1>3. others[k].first <= others[k].last
  BY DEF Ascending
<1>4. w \in runs[k].first..runs[k].last
  BY <1>2, <1>3
<1>5. w \in ValuesOf(others)
  BY <1>4 DEF ValuesOf
<1>6. PICK m \in DOMAIN others : w \in others[m].first..others[m].last
  BY <1>5 DEF ValuesOf
<1>7. CASE m < k
  <2>1. others[m].last + 1 < others[k].first
    BY <1>7 DEF Ascending
  <2> QED
    BY <1>2, <1>3, <1>6, <2>1
<1>8. CASE k < m
  <2>1. others[k].last + 1 < others[m].first
    BY <1>8 DEF Ascending
  <2> QED
    BY <1>2, <1>6, <2>1
<1>9. CASE m = k
  BY <1>2, <1>6, <1>9
<1> QED
  BY <1>1, <1>7, <1>8, <1>9

\* Maximal runs in order are determined by their values.
LEMMA RunsAreTheirValues ==
    ASSUME NEW runs, Ascending(runs), NEW others, Ascending(others),
           ValuesOf(runs) = ValuesOf(others)
    PROVE  runs = others
<1>1. /\ runs \in Seq(Runs) /\ DOMAIN runs = 1..Len(runs) /\ Len(runs) \in Nat
      /\ others \in Seq(Runs) /\ DOMAIN others = 1..Len(others) /\ Len(others) \in Nat
  BY DEF Ascending
<1> DEFINE Agree(n) == n \in DOMAIN runs /\ n \in DOMAIN others /\ runs[n] = others[n]
           Differ == {n \in DOMAIN runs \cup DOMAIN others : ~Agree(n)}
<1>2. Differ = {}
  <2> SUFFICES ASSUME Differ # {} PROVE FALSE
    OBVIOUS
  <2>1. Differ \subseteq Nat
    BY <1>1
  <2>2. PICK k \in Differ : \A m \in Differ : ~(m < k)
    <3> HIDE DEF Differ
    <3> QED
      BY <2>1, LeastNumber
  <2>3. /\ \A n \in DOMAIN runs : n < k => n \in DOMAIN others /\ others[n] = runs[n]
        /\ \A n \in DOMAIN others : n < k => n \in DOMAIN runs /\ runs[n] = others[n]
    BY <2>2
  <2>4. k \in DOMAIN runs /\ k \in DOMAIN others
    <3>1. CASE k \in DOMAIN runs
      BY <2>3, <3>1, RunsBeginAlike
    <3>2. CASE k \in DOMAIN others
      BY <2>3, <3>2, RunsBeginAlike
    <3> QED
      BY <2>2, <3>1, <3>2
  <2>5. runs[k] \in Runs /\ others[k] \in Runs
    BY <1>1, <2>4
  <2>6. others[k].first <= runs[k].first
    BY <2>3, <2>4, RunsBeginAlike
  <2>7. runs[k].first <= others[k].first
    BY <2>3, <2>4, RunsBeginAlike
  <2>8. runs[k].first = others[k].first
    BY <2>5, <2>6, <2>7 DEF Runs
  <2>9. runs[k].last <= others[k].last
    BY <2>4, <2>8, RunsAreAsLong
  <2>10. others[k].last <= runs[k].last
    BY <2>4, <2>8, RunsAreAsLong
  <2>11. runs[k].last = others[k].last
    BY <2>5, <2>9, <2>10 DEF Runs
  <2>12. runs[k] = others[k]
    BY <2>5, <2>8, <2>11 DEF Runs
  <2> QED
    BY <2>2, <2>4, <2>12
<1>3. DOMAIN runs = DOMAIN others /\ \A n \in DOMAIN runs : runs[n] = others[n]
  BY <1>2
<1> HIDE DEF Agree, Differ
<1> QED
  BY <1>1, <1>3

\* Section 11.4's definition determines the runs: whatever accounts for the missing
\* signer_seq values of a key in a session as it says is what the verifier's procedure
\* leaves, so two verifiers that meet it report the same.
THEOREM AccountingDetermined ==
    ASSUME NEW records, Numbered(records), NEW key, NEW s, NEW runs,
           AccountsFor(runs, RefusalsOf(records, key, s), records,
                       Missing(NumbersOf(records, key, s)))
    PROVE  runs = unaccountedRuns(records, key, s)
<1> DEFINE missing == Missing(NumbersOf(records, key, s))
           refs    == RefusalsOf(records, key, s)
           others  == unaccountedRuns(records, key, s)
           settled == missing \ ValuesOf(runs)
           theirs  == missing \ ValuesOf(others)
<1>1. AccountsFor(others, refs, records, missing)
  BY AccountingTheorem
<1>2. IsFiniteSet(missing) /\ missing \subseteq Nat
  BY MissingIsFinite
<1>3. AccountsFor(runs, refs, records, missing)
  OBVIOUS
<1> HIDE DEF missing, refs, others
<1>4. /\ IsFiniteSet(settled) /\ Cardinality(settled) \in Nat
      /\ IsFiniteSet(theirs) /\ Cardinality(theirs) \in Nat
  BY <1>2, FS_Subset, FS_CardinalityType
<1>5. Cardinality(settled) <= Cardinality(theirs) /\ Cardinality(theirs) <= Cardinality(settled)
  BY <1>1, <1>3 DEF AccountsFor
<1>6. Cardinality(settled) = Cardinality(theirs)
  BY <1>4, <1>5
<1>7. settled \subseteq theirs \/ theirs \subseteq settled
  <2> SUFFICES ASSUME NEW v \in settled, v \notin theirs, NEW w \in theirs, w \notin settled
               PROVE  FALSE
    OBVIOUS
  <2>1. v < w
    BY <1>3 DEF AccountsFor
  <2>2. w < v
    BY <1>1 DEF AccountsFor
  <2> QED
    BY <1>2, <2>1, <2>2
<1>8. settled = theirs
  <2> HIDE DEF settled, theirs
  <2> QED
    BY <1>4, <1>6, <1>7, FS_Subset
<1>9. ValuesOf(runs) = ValuesOf(others)
  BY <1>1, <1>3, <1>8 DEF AccountsFor
<1> QED
  BY <1>1, <1>3, <1>9, RunsAreTheirValues DEF AccountsFor, others

\* Where every missing value is that of an attempt whose refusal was sealed with a
\* higher number, no run is left.
LEMMA NothingUnaccounted ==
    ASSUME NEW records, Numbered(records), NEW key, NEW s, NEW attemptOf,
           \A v \in Missing(NumbersOf(records, key, s)) :
              \E m \in RefusalsOf(records, key, s) :
                 attemptOf[m] = v /\ v < records[m].event.signer_seq
    PROVE  unaccountedRuns(records, key, s) = << >>
<1> DEFINE missing == Missing(NumbersOf(records, key, s))
           refs == RefusalsOf(records, key, s)
           runs == unaccountedRuns(records, key, s)
           settled == missing \ ValuesOf(runs)
           Of(v) == CHOOSE m \in refs : attemptOf[m] = v /\ v < records[m].event.signer_seq
           R == {Of(v) : v \in missing}
           f == [m \in R |-> attemptOf[m]]
<1>1. AccountsFor(runs, refs, records, missing)
  BY AccountingTheorem
<1>2. IsFiniteSet(missing) /\ Cardinality(missing) \in Nat
  BY MissingIsFinite, FS_CardinalityType
<1>3. \A v \in missing : Of(v) \in refs /\ attemptOf[Of(v)] = v /\ v < records[Of(v)].event.signer_seq
  OBVIOUS
<1> HIDE DEF missing, refs, runs, Of
<1>4. R \in SUBSET refs
  BY <1>3
<1>5. f \in Injection(R, missing) /\ f \in Surjection(R, missing)
  <2>1. \A m \in R : f[m] \in missing /\ m = Of(f[m])
    BY <1>3
  <2>2. \A v \in missing : Of(v) \in R /\ f[Of(v)] = v
    BY <1>3
  <2>3. f = [m \in R |-> f[m]]
    OBVIOUS
  <2> HIDE DEF R, f
  <2> QED
    BY <2>1, <2>2, <2>3 DEF Injection, IsInjective, Surjection
<1>6. \A m \in R : f[m] < records[m].event.signer_seq
  BY <1>3
<1>7. Assignable(R, records, missing)
  BY <1>5, <1>6 DEF Assignable, Assigns
<1>8. Cardinality(R) = Cardinality(missing)
  <2> HIDE DEF R, f
  <2> QED
    BY <1>2, <1>5, FS_Injection
<1>9. Cardinality(R) <= Cardinality(settled)
  <2> HIDE DEF R
  <2> QED
    BY <1>1, <1>4, <1>7 DEF AccountsFor
<1> HIDE DEF R, f
<1>10. settled = missing
  <2>1. settled \in SUBSET missing
    OBVIOUS
  <2>2. /\ IsFiniteSet(settled) /\ Cardinality(settled) <= Cardinality(missing)
        /\ Cardinality(missing) = Cardinality(settled) => missing = settled
    BY <1>2, <2>1, FS_Subset
  <2>3. Cardinality(settled) \in Nat
    BY <2>2, FS_CardinalityType
  <2> HIDE DEF settled
  <2> QED
    BY <1>2, <1>8, <1>9, <2>2, <2>3
<1>11. ValuesOf(runs) = {}
  BY <1>1, <1>10 DEF AccountsFor
<1>12. Ascending(runs)
  BY <1>1 DEF AccountsFor
<1>13. runs = << >>
  <2> SUFFICES ASSUME runs # << >> PROVE FALSE
    OBVIOUS
  <2>1. Head(runs).first \in Head(runs).first..Head(runs).last
    BY <1>12, FirstRun
  <2> QED
    BY <1>11, <1>12, <2>1, FirstRun
<1> QED
  BY <1>13 DEF runs

-----------------------------------------------------------------------------
(***************************************************************************)
(* Sessions sealed into one ledger do not touch each other.                *)
(***************************************************************************)

\* Each refusal in R of one ledger is one in S of another, under the same number.
SameRefusals(there, back, R, S, records, others) ==
    \A n \in R :
       /\ there[n] \in S /\ back[there[n]] = n
       /\ others[there[n]].event.signer_seq = records[n].event.signer_seq

\* Values assigned to the refusals of one ledger can be assigned to the same refusals
\* of another.
LEMMA AssignableElsewhere ==
    ASSUME NEW records, NEW others, NEW missing, NEW R, IsFiniteSet(R), NEW S, NEW there, NEW back,
           SameRefusals(there, back, R, S, records, others),
           Assignable(R, records, missing)
    PROVE  \E T \in SUBSET S :
              Cardinality(T) = Cardinality(R) /\ Assignable(T, others, missing)
<1> DEFINE T == {there[n] : n \in R}
           g == [m \in T |-> back[m]]
<1>1. PICK f : Assigns(f, R, records, missing)
  BY DEF Assignable
<1>2. /\ \A m \in T : back[m] \in R /\ there[back[m]] = m
      /\ \A n \in R : there[n] \in T /\ back[there[n]] = n
      /\ T \in SUBSET S
  BY DEF SameRefusals
<1> HIDE DEF T
<1>3. g \in Injection(T, R) /\ g \in Surjection(T, R)
  BY <1>2 DEF Injection, IsInjective, Surjection
<1>4. Assigns([m \in T |-> f[back[m]]], T, others, missing)
  BY <1>1, <1>2 DEF Assigns, Injection, IsInjective, SameRefusals
<1>5. IsFiniteSet(T)
  BY FiniteImage DEF T
<1> HIDE DEF g
<1>6. Cardinality(T) = Cardinality(R)
  <2>1. ExistsBijection(T, R)
    BY <1>3 DEF Bijection, ExistsBijection
  <2> QED
    BY <1>5, <2>1, FS_Bijection
<1> QED
  BY <1>2, <1>4, <1>6 DEF Assignable

\* The records of a session.
ofSession(records, s) == {n \in DOMAIN records : records[n].event.session_id = s}

\* The records of a session in one ledger are those in another, in the same order.
SameThread(there, back, records, others, s) ==
    /\ \A n \in ofSession(records, s) :
          /\ there[n] \in ofSession(others, s) /\ back[there[n]] = n
          /\ others[there[n]].event = records[n].event
    /\ \A n, m \in ofSession(records, s) : m < n => there[m] < there[n]

\* Then so are its numbers and its refusals.
LEMMA ThreadCarries ==
    ASSUME NEW records, Numbered(records), DOMAIN records = 1..Len(records), Len(records) \in Nat,
           NEW others, Numbered(others), DOMAIN others = 1..Len(others), Len(others) \in Nat,
           NEW key, NEW s, NEW there, NEW back,
           SameThread(there, back, records, others, s), SameThread(back, there, others, records, s)
    PROVE  /\ NumbersOf(records, key, s) \subseteq NumbersOf(others, key, s)
           /\ \A n \in RefusalsOf(records, key, s) : there[n] \in RefusalsOf(others, key, s)
<1>1. ASSUME NEW n \in group(records, key, s)
      PROVE  /\ n \in ofSession(records, s)
             /\ there[n] \in group(others, key, s)
             /\ others[there[n]].event = records[n].event
  BY DEF SameThread, ofSession, group, numbered
<1>2. ASSUME NEW n \in group(records, key, s), correlated(others, there[n])
      PROVE  correlated(records, n)
  <2>1. PICK m \in 1..(there[n] - 1) :
           IsAttempt(others[m].event) /\ SameOperation(others[m].event, others[there[n]].event)
    BY <1>2 DEF correlated
  <2>2. /\ n \in 1..Len(records) /\ there[n] \in 1..Len(others) /\ m \in DOMAIN others
        /\ m < there[n] /\ back[there[n]] = n /\ there[n] \in ofSession(others, s)
    BY <1>1, <2>1 DEF SameThread, ofSession
  <2>3. m \in ofSession(others, s)
    BY <2>1, <2>2 DEF SameOperation, ofSession
  <2>4. /\ back[m] \in 1..Len(records) /\ back[m] < n
        /\ records[back[m]].event = others[m].event
    BY <2>2, <2>3 DEF SameThread, ofSession
  <2>5. back[m] \in 1..(n - 1)
    BY <2>2, <2>4
  <2> QED
    BY <1>1, <2>1, <2>4, <2>5 DEF correlated
<1>3. NumbersOf(records, key, s) \subseteq NumbersOf(others, key, s)
  BY <1>1 DEF NumbersOf
<1>4. \A n \in RefusalsOf(records, key, s) : there[n] \in RefusalsOf(others, key, s)
  BY <1>1, <1>2 DEF RefusalsOf, refusals
<1> QED
  BY <1>3, <1>4

\* What is unaccounted for of a key in a session depends on the records of that session
\* alone, in their order: of two ledgers that hold the same ones, whatever else was
\* sealed between them, the verifier reports the same runs.
THEOREM AccountingIsLocal ==
    ASSUME NEW records, Numbered(records), DOMAIN records = 1..Len(records), Len(records) \in Nat,
           NEW others, Numbered(others), DOMAIN others = 1..Len(others), Len(others) \in Nat,
           NEW key, NEW s, NEW there, NEW back,
           SameThread(there, back, records, others, s), SameThread(back, there, others, records, s)
    PROVE  unaccountedRuns(records, key, s) = unaccountedRuns(others, key, s)
<1> DEFINE runs    == unaccountedRuns(records, key, s)
           missing == Missing(NumbersOf(records, key, s))
           refs    == RefusalsOf(records, key, s)
           theirs  == RefusalsOf(others, key, s)
           settled == missing \ ValuesOf(runs)
<1>1. AccountsFor(runs, refs, records, missing)
  BY AccountingTheorem
<1>2. /\ NumbersOf(records, key, s) = NumbersOf(others, key, s)
      /\ \A n \in refs : there[n] \in theirs
      /\ \A n \in theirs : back[n] \in refs
  <2> HIDE DEF runs, missing, settled
  <2>1. /\ NumbersOf(records, key, s) \subseteq NumbersOf(others, key, s)
        /\ \A n \in refs : there[n] \in theirs
    BY ThreadCarries
  <2>2. /\ NumbersOf(others, key, s) \subseteq NumbersOf(records, key, s)
        /\ \A n \in theirs : back[n] \in refs
    BY ThreadCarries
  <2> QED
    BY <2>1, <2>2
<1>3. /\ refs \subseteq ofSession(records, s) /\ theirs \subseteq ofSession(others, s)
      /\ IsFiniteSet(refs) /\ IsFiniteSet(theirs)
  <2>1. /\ refs \subseteq ofSession(records, s) /\ theirs \subseteq ofSession(others, s)
        /\ refs \subseteq DOMAIN records /\ theirs \subseteq DOMAIN others
    BY DEF RefusalsOf, refusals, group, numbered, ofSession
  <2> QED
    BY <2>1, FS_Subset DEF Numbered
<1>4. /\ \A n \in refs : /\ back[there[n]] = n
                         /\ others[there[n]].event.signer_seq = records[n].event.signer_seq
      /\ \A n \in theirs : /\ there[back[n]] = n
                           /\ records[back[n]].event.signer_seq = others[n].event.signer_seq
  BY <1>3 DEF SameThread
<1> HIDE DEF runs, missing, refs, theirs
<1>5. PICK R \in SUBSET refs :
         Cardinality(R) = Cardinality(settled) /\ Assignable(R, records, missing)
  BY <1>1 DEF AccountsFor
<1> HIDE DEF settled
<1>6. \E T \in SUBSET theirs :
         Cardinality(T) = Cardinality(settled) /\ Assignable(T, others, missing)
  <2>1. IsFiniteSet(R)
    BY <1>3, FS_Subset
  <2>2. SameRefusals(there, back, R, theirs, records, others)
    BY <1>2, <1>4 DEF SameRefusals
  <2>3. \E T \in SUBSET theirs :
           Cardinality(T) = Cardinality(R) /\ Assignable(T, others, missing)
    BY <1>5, <2>1, <2>2, AssignableElsewhere
  <2> QED
    BY <1>5, <2>3
<1>7. ASSUME NEW T \in SUBSET theirs, Assignable(T, others, missing)
      PROVE  Cardinality(T) <= Cardinality(settled)
  <2>1. IsFiniteSet(T)
    BY <1>3, FS_Subset
  <2>2. SameRefusals(back, there, T, refs, others, records)
    BY <1>2, <1>4 DEF SameRefusals
  <2>3. \E Q \in SUBSET refs :
           Cardinality(Q) = Cardinality(T) /\ Assignable(Q, records, missing)
    BY <1>7, <2>1, <2>2, AssignableElsewhere
  <2> QED
    BY <1>1, <2>3 DEF AccountsFor, settled
<1>8. AccountsFor(runs, theirs, others, missing)
  BY <1>1, <1>6, <1>7 DEF AccountsFor, settled
<1>9. missing = Missing(NumbersOf(others, key, s))
  BY <1>2 DEF missing
<1> QED
  BY <1>8, <1>9, AccountingDetermined DEF theirs, runs
=============================================================================
