---------------------------- MODULE IntakeProofs ----------------------------
(****************************************************************************)
(* Theorems about Intake and FiscalParser, for every limit and every set of *)
(* files.                                                                   *)
(*                                                                          *)
(*   1. induction over numbers and finite sets, and what it says of folds   *)
(*   2. the folds of the parser: references, the heaviest measure, totals   *)
(*   3. the parsers: an error of a step, or a document of all their values  *)
(*   4. the request: its answer is the verdict on its file                  *)
(****************************************************************************)
EXTENDS Intake, FiniteSetTheorems, WellFoundedInduction, TLAPS

-----------------------------------------------------------------------------
(* Induction and folds.                                                     *)

\* A set of naturals has a least element.
LEMMA LeastNatural ==
    ASSUME NEW T \in SUBSET Nat, T # {}
    PROVE  \E m \in T : \A k \in T : m <= k
<1> DEFINE R == {ss \in Nat \X Nat : ss[1] < ss[2]}
<1>1. IsWellFoundedOn(R, Nat)
  BY NatLessThanWellFounded DEF OpToRel
<1>2. PICK m \in T : \A k \in T : <<k, m>> \notin R
  <2> HIDE DEF R
  <2> QED BY <1>1, WFMin
<1>3. ASSUME NEW k \in T PROVE m <= k
  <2>1. <<k, m>> \in Nat \X Nat /\ <<k, m>>[1] = k /\ <<k, m>>[2] = m
    OBVIOUS
  <2>2. ~(k < m)
    BY <1>2, <2>1
  <2> QED BY <2>2
<1> QED BY <1>3

\* Induction up to n, for a set of numbers.
LEMMA UpTo ==
    ASSUME NEW n \in Nat, NEW P, 0 \in P,
           \A i \in 1..n : i - 1 \in P => i \in P
    PROVE  0..n \subseteq P
<1> DEFINE T == 0..n \ P
<1> SUFFICES ASSUME T # {} PROVE FALSE
  OBVIOUS
<1>1. T \in SUBSET Nat
  OBVIOUS
<1>2. PICK m \in T : \A k \in T : m <= k
  <2> HIDE DEF T
  <2> QED BY <1>1, LeastNatural
<1>3. m \in 1..n /\ m - 1 \in 0..n /\ m - 1 \notin T
  BY <1>2
<1> QED BY <1>3

\* Max is the greatest of some of the first n numbers.
LEMMA MaxOfSome ==
    ASSUME NEW n \in Nat, NEW s \in SUBSET (1..n), s # {}
    PROVE  Max(s) \in s /\ \A x \in s : x <= Max(s)
<1> DEFINE T == {n - x : x \in s}
<1>1. T \in SUBSET Nat /\ T # {}
  OBVIOUS
<1>2. PICK m \in T : \A k \in T : m <= k
  <2> HIDE DEF T
  <2> QED BY <1>1, LeastNatural
<1>3. PICK x \in s : m = n - x
  OBVIOUS
<1>4. ASSUME NEW y \in s PROVE x >= y
  <2>1. n - y \in T
    OBVIOUS
  <2>2. n - x <= n - y
    BY <1>2, <1>3, <2>1
  <2>3. x \in Nat /\ y \in Nat
    OBVIOUS
  <2> HIDE DEF T
  <2> QED BY <2>2, <2>3
<1> QED BY <1>4 DEF Max

\* h is the function that folds G over the sets of T, taking c[s] out of s.
Folds(h, T, base, G, c) ==
    \A s \in T : h[s] = IF s = {} THEN base ELSE G[<<c[s], h[s \ {c[s]}]>>]

\* Such a function exists.
LEMMA FoldExists ==
    ASSUME NEW S, IsFiniteSet(S), NEW V, NEW base \in V,
           NEW G \in [S \X V -> V],
           NEW c \in [(SUBSET S) \ {{}} -> S],
           \A s \in (SUBSET S) \ {{}} : c[s] \in s
    PROVE  \E h \in [SUBSET S -> V] : Folds(h, SUBSET S, base, G, c)
<1> DEFINE N == Cardinality(S)
           Small(k) == {s \in SUBSET S : Cardinality(s) <= k}
           P == {k \in 0..N : \E h \in [Small(k) -> V] :
                                 Folds(h, Small(k), base, G, c)}
<1>1. N \in Nat /\ \A s \in SUBSET S : Cardinality(s) \in 0..N
  BY FS_CardinalityType, FS_Subset
<1>2. \A s \in (SUBSET S) \ {{}} :
        /\ s \ {c[s]} \in SUBSET S
        /\ Cardinality(s \ {c[s]}) = Cardinality(s) - 1
        /\ c[s] \in S
  BY FS_RemoveElement, FS_Subset
<1>3. \A s \in SUBSET S : Cardinality(s) = 0 <=> s = {}
  BY FS_EmptySet, FS_Subset
<1>4. 0 \in P
  <2> DEFINE h == [s \in Small(0) |-> base]
  <2>1. h \in [Small(0) -> V]
    OBVIOUS
  <2>2. \A s \in Small(0) : s = {}
    BY <1>1, <1>3
  <2>3. Folds(h, Small(0), base, G, c)
    BY <2>2 DEF Folds
  <2> HIDE DEF h, Small
  <2>4. 0 \in 0..N
    BY <1>1
  <2> QED BY <2>1, <2>3, <2>4
<1>5. ASSUME NEW k \in 1..N, k - 1 \in P
      PROVE  k \in P
  <2>1. PICK g \in [Small(k - 1) -> V] :
               Folds(g, Small(k - 1), base, G, c)
    BY <1>5
  <2> DEFINE h == [s \in Small(k) |->
                     IF s \in Small(k - 1) THEN g[s]
                     ELSE G[<<c[s], g[s \ {c[s]}]>>]]
  <2>2. ASSUME NEW s \in Small(k), s # {}
        PROVE  s \ {c[s]} \in Small(k - 1) /\ s \ {c[s]} \in Small(k)
               /\ c[s] \in S
    BY <1>1, <1>2, <2>2
  <2>3. {} \in Small(k - 1)
    BY <1>1, <1>3
  <2>4. h \in [Small(k) -> V]
    BY <2>2, <2>3
  <2>5. ASSUME NEW s \in Small(k)
        PROVE  h[s] = IF s = {} THEN base ELSE G[<<c[s], h[s \ {c[s]}]>>]
    <3>1. CASE s = {}
      BY <2>1, <2>3, <3>1 DEF Folds
    <3>2. CASE s # {}
      <4>1. h[s \ {c[s]}] = g[s \ {c[s]}]
        BY <2>2, <3>2
      <4>2. s \in Small(k - 1) => g[s] = G[<<c[s], g[s \ {c[s]}]>>]
        BY <2>1, <3>2 DEF Folds
      <4> QED BY <3>2, <4>1, <4>2
    <3> QED BY <3>1, <3>2
  <2> HIDE DEF h, Small
  <2>6. Folds(h, Small(k), base, G, c)
    BY <2>5 DEF Folds
  <2>7. k \in 0..N
    BY <1>1
  <2> QED BY <2>4, <2>6, <2>7
<1>6. N \in P
  <2> HIDE DEF N, P
  <2>1. 0..N \subseteq P
    BY <1>1, <1>4, <1>5, UpTo
  <2> QED BY <1>1, <2>1
<1>7. Small(N) = SUBSET S
  BY <1>1
<1> HIDE DEF Small
<1>8. \E h \in [Small(N) -> V] : Folds(h, Small(N), base, G, c)
  BY <1>6
<1> QED BY <1>7, <1>8

\* h is the function by which FoldLeft folds G over the elements 1 to n.
LeftFolds(h, n, base, G) ==
    \A s \in SUBSET (1..n) :
        h[s] = IF s = {} THEN base ELSE G[<<Max(s), h[s \ {Max(s)}]>>]

\* Such a function exists.
LEMMA FoldLeftExists ==
    ASSUME NEW n \in Nat, NEW V, NEW base \in V,
           NEW G \in [(1..n) \X V -> V]
    PROVE  \E h \in [SUBSET (1..n) -> V] : LeftFolds(h, n, base, G)
<1> DEFINE S == 1..n
           c == [s \in (SUBSET S) \ {{}} |-> Max(s)]
<1>1. IsFiniteSet(S)
  BY FS_Interval
<1>2. \A s \in (SUBSET S) \ {{}} : Max(s) \in s
  BY MaxOfSome
<1>3. c \in [(SUBSET S) \ {{}} -> S]
  BY <1>2
<1>4. \A s \in (SUBSET S) \ {{}} : c[s] \in s
  BY <1>2
<1>5. PICK h \in [SUBSET S -> V] : Folds(h, SUBSET S, base, G, c)
  <2> HIDE DEF S, c
  <2> QED BY <1>1, <1>3, <1>4, FoldExists DEF S
<1>6. ASSUME NEW s \in SUBSET S
      PROVE  h[s] = IF s = {} THEN base
                    ELSE G[<<Max(s), h[s \ {Max(s)}]>>]
  BY <1>5 DEF Folds
<1>7. LeftFolds(h, n, base, G)
  BY <1>6 DEF LeftFolds
<1> QED BY <1>7

\* The same for a function that folds by G where it stays in V.
FoldsInside(h, n, V, base, G) ==
    /\ h[{}] = base
    /\ \A s \in (SUBSET (1..n)) \ {{}} :
          h[s \ {Max(s)}] \in V => h[s] = G[<<Max(s), h[s \ {Max(s)}]>>]

\* r[i] is what h makes of the first i elements.
Traces(r, h, n, base, G) ==
    /\ r[0] = base
    /\ \A i \in 1..n : r[i] = G[<<i, r[i - 1]>>]
    /\ r[n] = h[1..n]

\* A fold from the left of n elements, by FoldLeft, goes over the first 0, 1,
\* ... n of them: r[i] is what the first i fold to.
LEMMA FoldLeftSteps ==
    ASSUME NEW n \in Nat, NEW V, NEW base \in V,
           NEW G \in [(1..n) \X V -> V], NEW h, FoldsInside(h, n, V, base, G)
    PROVE  \E r \in [0..n -> V] : Traces(r, h, n, base, G)
<1> DEFINE r == [i \in 0..n |-> h[1..i]]
           P == {i \in 0..n : r[i] \in V}
<1>1. r[0] = base
  <2>1. 1..0 = {}
    OBVIOUS
  <2> QED BY <2>1 DEF FoldsInside
<1>2. ASSUME NEW i \in 1..n, r[i - 1] \in V
      PROVE  r[i] = G[<<i, r[i - 1]>>]
  <2>1. 1..i \in (SUBSET (1..n)) \ {{}} /\ 1..i \in SUBSET (1..n) /\ i \in 1..i
    OBVIOUS
  <2>2. Max(1..i) = i
    <3>1. Max(1..i) \in 1..i /\ i <= Max(1..i)
      BY <2>1, MaxOfSome
    <3> QED BY <3>1
  <2>3. (1..i) \ {i} = 1..(i - 1)
    OBVIOUS
  <2>4. r[i] = h[1..i] /\ r[i - 1] = h[1..(i - 1)]
    OBVIOUS
  <2> DEFINE s == 1..i
  <2>5. h[s \ {Max(s)}] \in V => h[s] = G[<<Max(s), h[s \ {Max(s)}]>>]
    BY <2>1 DEF FoldsInside
  <2> HIDE DEF r
  <2> QED BY <1>2, <2>2, <2>3, <2>4, <2>5
<1>3. 0..n \subseteq P
  <2>1. 0 \in P
    BY <1>1
  <2>2. ASSUME NEW i \in 1..n, i - 1 \in P PROVE i \in P
    <3>1. r[i - 1] \in V /\ i \in 0..n
      BY <2>2
    <3>2. G[<<i, r[i - 1]>>] \in V
      BY <3>1
    <3> HIDE DEF r
    <3> QED BY <1>2, <3>1, <3>2
  <2> HIDE DEF P
  <2> QED BY <2>1, <2>2, UpTo
<1>4. \A i \in 0..n : r[i] \in V
  <2> HIDE DEF r
  <2> QED BY <1>3
<1>5. r \in [0..n -> V]
  BY <1>4
<1>6. \A i \in 1..n : r[i] = G[<<i, r[i - 1]>>]
  <2> HIDE DEF r
  <2> QED BY <1>2, <1>4
<1>7. r[n] = h[1..n]
  OBVIOUS
<1> HIDE DEF r
<1> QED BY <1>1, <1>5, <1>6, <1>7 DEF Traces

-----------------------------------------------------------------------------
(* The folds of the parser.                                                 *)

\* The errors of the parser, with the exceptions it does not turn into one, and
\* what becomes of an amount.
ParseError == {"EMPTY_FILE", "UNSAFE_XML", "INVALID_XML", "MISSING_FIELD",
               "UNSUPPORTED_DOCUMENT", "INVALID_IDENTIFIER",
               "INVALID_DATETIME", "INVALID_DECIMAL", "INVALID_INTEGER",
               "INVALID_ACCESS_KEY", "INVALID_REFERENCED_ACCESS_KEY",
               "UNCAUGHT"}

Result == [error : {"none"} \cup ParseError, value : Nat]

\* An amount becomes a number of tenths, or an error.
LEMMA DecimalResult ==
    ASSUME NEW a \in Amount
    PROVE  /\ Decimal(a) \in Result
           /\ Raises(Decimal(a)) <=> a = Refused
           /\ a # Refused => Decimal(a).value = Meant(a)
           /\ RequiredDecimal(a) \in Result
BY DEF Amount, Blank, Refused, Decimal, RequiredDecimal, Result, ParseError,
       Ok, Raise, Raises, Meant

\* ... and where a number of units is wanted, that number.
LEMMA IntegerResult ==
    ASSUME NEW a \in Amount
    PROVE  /\ Integer(a) \in Result
           /\ ~Raises(Integer(a)) =>
                 a # Refused /\ 10 * Integer(a).value = Meant(a)
<1>1. CASE Raises(Decimal(a))
  BY <1>1, DecimalResult DEF Integer
<1>2. CASE ~Raises(Decimal(a)) /\ Decimal(a).value % 10 # 0
  BY <1>2 DEF Integer, Result, ParseError, Raise, Raises
<1>3. CASE ~Raises(Decimal(a)) /\ Decimal(a).value % 10 = 0
  <2>1. Decimal(a).value = Meant(a) /\ Meant(a) \in Nat /\ a # Refused
    BY <1>3, DecimalResult DEF Result
  <2>2. Integer(a) = Ok(Meant(a) \div 10)
    BY <1>3, <2>1 DEF Integer
  <2>3. 10 * (Meant(a) \div 10) = Meant(a) /\ Meant(a) \div 10 \in Nat
    BY <1>3, <2>1
  <2> QED BY <2>1, <2>2, <2>3 DEF Result, Ok
<1> QED BY <1>1, <1>2, <1>3

\* The first step that raises ends a parser; without one, the document is
\* made.
LEMMA OutcomeCases ==
    ASSUME NEW steps, NEW n \in Nat, Len(steps) = n, NEW d
    PROVE  \/ /\ \A i \in 1..n : ~Raises(steps[i])
              /\ Outcome(steps, d) = Ok(d)
           \/ \E i \in 1..n : Raises(steps[i]) /\ Outcome(steps, d) = steps[i]
<1> DEFINE I == {i \in 1..n : Raises(steps[i])}
<1>1. CASE I = {}
  BY <1>1 DEF Outcome, SelectInSeq
<1>2. CASE I # {}
  <2>1. I \in SUBSET Nat
    OBVIOUS
  <2>2. Min(I) \in I
    <3> HIDE DEF I
    <3> QED BY <1>2, <2>1, LeastNatural DEF Min
  <2>3. SelectInSeq(steps, Raises) = Min(I)
    BY <1>2 DEF SelectInSeq
  <2>4. Min(I) # 0 /\ Min(I) \in 1..n /\ Raises(steps[Min(I)])
    BY <2>2
  <2>5. Outcome(steps, d) = steps[Min(I)]
    BY <2>3, <2>4 DEF Outcome
  <2> HIDE DEF I
  <2> QED BY <2>4, <2>5
<1> QED BY <1>1, <1>2

\* A total runs over the results it adds, from the first to the last.
LEMMA TotalSteps ==
    ASSUME NEW results \in Seq(Result), NEW range
    PROVE  \E r \in [0..Len(results) -> Result] :
              /\ r[0] = Ok(0)
              /\ \A i \in 1..Len(results) :
                    r[i] = Plus(r[i - 1], results[i], range)
              /\ r[Len(results)] = Total(results, range)
<1> DEFINE n == Len(results)
           G == [p \in (1..n) \X Result |-> Plus(p[2], results[p[1]], range)]
           F(g) == [s \in SUBSET (1..n) |->
                      IF s = {} THEN Ok(0)
                      ELSE Plus(g[s \ {Max(s)}], results[Max(s)], range)]
           h == CHOOSE g : g = F(g)
<1>1. n \in Nat /\ DOMAIN results = 1..n
      /\ \A i \in 1..n : results[i] \in Result
  OBVIOUS
<1>2. Total(results, range) = h[1..n]
  BY <1>1 DEF Total, FoldLeft, MapThenFoldSet
<1>3. \A i \in 1..n, v \in Result :
         Plus(v, results[i], range) \in Result
         /\ G[<<i, v>>] = Plus(v, results[i], range)
  BY <1>1 DEF Result, ParseError, Ok, Raise, Raises, Plus
<1>4. Ok(0) \in Result /\ G \in [(1..n) \X Result -> Result]
  <2>1. \A p \in (1..n) \X Result : Plus(p[2], results[p[1]], range) \in Result
    BY <1>3
  <2>2. Ok(0) \in Result
    BY DEF Result, Ok
  <2> QED BY <2>1, <2>2
<1> HIDE DEF n, G
<1>5. h = F(h)
  <2>1. PICK g \in [SUBSET (1..n) -> Result] :
              LeftFolds(g, n, Ok(0), G)
    BY <1>1, <1>4, FoldLeftExists
  <2>2. \A s \in (SUBSET (1..n)) \ {{}} :
          Max(s) \in 1..n /\ g[s \ {Max(s)}] \in Result
    BY <1>1, MaxOfSome
  <2>3. g = F(g)
    BY <1>3, <2>1, <2>2 DEF LeftFolds
  <2> HIDE DEF F
  <2> QED BY <2>3
<1>6. h[{}] = Ok(0) /\ \A s \in (SUBSET (1..n)) \ {{}} :
         h[s] = Plus(h[s \ {Max(s)}], results[Max(s)], range)
  <2> HIDE DEF h
  <2> QED BY <1>5
<1> HIDE DEF h
<1>7. PICK r \in [0..n -> Result] : Traces(r, h, n, Ok(0), G)
  <2>1. ASSUME NEW s \in (SUBSET (1..n)) \ {{}}, h[s \ {Max(s)}] \in Result
        PROVE  h[s] = G[<<Max(s), h[s \ {Max(s)}]>>]
    <3>1. Max(s) \in 1..n
      BY <1>1, MaxOfSome
    <3>2. G[<<Max(s), h[s \ {Max(s)}]>>]
            = Plus(h[s \ {Max(s)}], results[Max(s)], range)
      BY <1>3, <2>1, <3>1
    <3> QED BY <1>6, <3>2
  <2>2. FoldsInside(h, n, Result, Ok(0), G)
    BY <1>6, <2>1 DEF FoldsInside
  <2> QED BY <1>1, <1>4, <2>2, FoldLeftSteps
<1>8. r[0] = Ok(0) /\ \A i \in 1..n : r[i] = Plus(r[i - 1], results[i], range)
  <2>1. \A i \in 1..n : r[i - 1] \in Result
    BY <1>1
  <2> QED BY <1>3, <1>7, <2>1 DEF Traces
<1>9. r[n] = Total(results, range)
  BY <1>2, <1>7 DEF Traces
<1> QED BY <1>8, <1>9 DEF n

\* The heaviest measure is found by a run over all of them.
LEMMA HeaviestSteps ==
    ASSUME NEW measures \in Seq(Measure)
    PROVE  \E r \in [0..Len(measures) -> Result] :
              /\ r[0] = Ok(0)
              /\ \A i \in 1..Len(measures) :
                    r[i] = Heavier(r[i - 1], measures[i])
              /\ r[Len(measures)] = Heaviest(measures)
<1> DEFINE n == Len(measures)
           G == [p \in (1..n) \X Result |-> Heavier(p[2], measures[p[1]])]
           F(g) == [s \in SUBSET (1..n) |->
                      IF s = {} THEN Ok(0)
                      ELSE Heavier(g[s \ {Max(s)}], measures[Max(s)])]
           h == CHOOSE g : g = F(g)
<1>1. n \in Nat /\ DOMAIN measures = 1..n
      /\ \A i \in 1..n : measures[i] \in Measure
  OBVIOUS
<1>2. Heaviest(measures) = h[1..n]
  BY <1>1 DEF Heaviest, FoldLeft, MapThenFoldSet
<1>3. \A i \in 1..n, v \in Result :
         Heavier(v, measures[i]) \in Result
         /\ G[<<i, v>>] = Heavier(v, measures[i])
  BY <1>1, DecimalResult DEF Heavier, Measure
<1>4. Ok(0) \in Result /\ G \in [(1..n) \X Result -> Result]
  <2>1. \A p \in (1..n) \X Result : Heavier(p[2], measures[p[1]]) \in Result
    BY <1>3
  <2>2. Ok(0) \in Result
    BY DEF Result, Ok
  <2> QED BY <2>1, <2>2
<1> HIDE DEF n, G
<1>5. h = F(h)
  <2>1. PICK g \in [SUBSET (1..n) -> Result] : LeftFolds(g, n, Ok(0), G)
    BY <1>1, <1>4, FoldLeftExists
  <2>2. \A s \in (SUBSET (1..n)) \ {{}} :
          Max(s) \in 1..n /\ g[s \ {Max(s)}] \in Result
    BY <1>1, MaxOfSome
  <2>3. g = F(g)
    BY <1>3, <2>1, <2>2 DEF LeftFolds
  <2> HIDE DEF F
  <2> QED BY <2>3
<1>6. h[{}] = Ok(0) /\ \A s \in (SUBSET (1..n)) \ {{}} :
         h[s] = Heavier(h[s \ {Max(s)}], measures[Max(s)])
  <2> HIDE DEF h
  <2> QED BY <1>5
<1> HIDE DEF h
<1>7. PICK r \in [0..n -> Result] : Traces(r, h, n, Ok(0), G)
  <2>1. ASSUME NEW s \in (SUBSET (1..n)) \ {{}}, h[s \ {Max(s)}] \in Result
        PROVE  h[s] = G[<<Max(s), h[s \ {Max(s)}]>>]
    <3>1. Max(s) \in 1..n
      BY <1>1, MaxOfSome
    <3>2. G[<<Max(s), h[s \ {Max(s)}]>>]
            = Heavier(h[s \ {Max(s)}], measures[Max(s)])
      BY <1>3, <2>1, <3>1
    <3> QED BY <1>6, <3>2
  <2>2. FoldsInside(h, n, Result, Ok(0), G)
    BY <1>6, <2>1 DEF FoldsInside
  <2> QED BY <1>1, <1>4, <2>2, FoldLeftSteps
<1>8. r[0] = Ok(0) /\ \A i \in 1..n : r[i] = Heavier(r[i - 1], measures[i])
  <2>1. \A i \in 1..n : r[i - 1] \in Result
    BY <1>1
  <2> QED BY <1>3, <1>7, <2>1 DEF Traces
<1>9. r[n] = Heaviest(measures)
  BY <1>2, <1>7 DEF Traces
<1> QED BY <1>8, <1>9 DEF n

\* The keys that are kept are found by a run over those that are given.
LEMMA OnceSteps ==
    ASSUME NEW refs \in Seq(STRING)
    PROVE  \E r \in [0..Len(refs) -> Seq(STRING)] :
              /\ r[0] = << >>
              /\ \A i \in 1..Len(refs) : r[i] = Once(r[i - 1], refs[i])
              /\ r[Len(refs)] = FoldLeft(Once, << >>, refs)
<1> DEFINE n == Len(refs)
           V == Seq(STRING)
           G == [p \in (1..n) \X V |-> Once(p[2], refs[p[1]])]
           F(g) == [s \in SUBSET (1..n) |->
                      IF s = {} THEN << >>
                      ELSE Once(g[s \ {Max(s)}], refs[Max(s)])]
           h == CHOOSE g : g = F(g)
<1>1. n \in Nat /\ DOMAIN refs = 1..n /\ \A i \in 1..n : refs[i] \in STRING
  OBVIOUS
<1>2. FoldLeft(Once, << >>, refs) = h[1..n]
  BY <1>1 DEF FoldLeft, MapThenFoldSet
<1>3. \A i \in 1..n, v \in V :
         Once(v, refs[i]) \in V /\ G[<<i, v>>] = Once(v, refs[i])
  <2>1. \A i \in 1..n, v \in V : Append(v, refs[i]) \in V
    BY <1>1
  <2> HIDE DEF V
  <2> QED BY <2>1 DEF Once
<1>4. << >> \in V /\ G \in [(1..n) \X V -> V]
  <2>1. \A p \in (1..n) \X V : Once(p[2], refs[p[1]]) \in V
    BY <1>3
  <2>2. << >> \in V
    OBVIOUS
  <2> QED BY <2>1, <2>2
<1> HIDE DEF n, G, V
<1>5. h = F(h)
  <2>1. PICK g \in [SUBSET (1..n) -> V] : LeftFolds(g, n, << >>, G)
    BY <1>1, <1>4, FoldLeftExists
  <2>2. \A s \in (SUBSET (1..n)) \ {{}} :
          Max(s) \in 1..n /\ g[s \ {Max(s)}] \in V
    BY <1>1, MaxOfSome
  <2>3. g = F(g)
    BY <1>3, <2>1, <2>2 DEF LeftFolds
  <2> HIDE DEF F
  <2> QED BY <2>3
<1>6. h[{}] = << >> /\ \A s \in (SUBSET (1..n)) \ {{}} :
         h[s] = Once(h[s \ {Max(s)}], refs[Max(s)])
  <2> HIDE DEF h
  <2> QED BY <1>5
<1> HIDE DEF h
<1>7. PICK r \in [0..n -> V] : Traces(r, h, n, << >>, G)
  <2>1. ASSUME NEW s \in (SUBSET (1..n)) \ {{}}, h[s \ {Max(s)}] \in V
        PROVE  h[s] = G[<<Max(s), h[s \ {Max(s)}]>>]
    <3>1. Max(s) \in 1..n
      BY <1>1, MaxOfSome
    <3>2. G[<<Max(s), h[s \ {Max(s)}]>>]
            = Once(h[s \ {Max(s)}], refs[Max(s)])
      BY <1>3, <2>1, <3>1
    <3> QED BY <1>6, <3>2
  <2>2. FoldsInside(h, n, V, << >>, G)
    BY <1>6, <2>1 DEF FoldsInside
  <2> QED BY <1>1, <1>4, <2>2, FoldLeftSteps
<1>8. r[0] = << >> /\ \A i \in 1..n : r[i] = Once(r[i - 1], refs[i])
  <2>1. \A i \in 1..n : r[i - 1] \in V
    BY <1>1
  <2> QED BY <1>3, <1>7, <2>1 DEF Traces
<1>9. r[n] = FoldLeft(Once, << >>, refs)
  BY <1>2, <1>7 DEF Traces
<1> QED BY <1>8, <1>9 DEF n, V

\* The heaviest measure: it is one of weight, or there is none; no other is
\* heavier, and none is refused.
LEMMA HeaviestCorrect ==
    ASSUME NEW measures \in Seq(Measure)
    PROVE  /\ Heaviest(measures) \in Result
           /\ ~Raises(Heaviest(measures)) =>
                LET w == Heaviest(measures).value
                    weights == {i \in DOMAIN measures : measures[i].weight}
                IN  /\ \/ w = 0
                       \/ \E i \in weights : w = Meant(measures[i].amount)
                    /\ \A i \in weights : Meant(measures[i].amount) <= w
<1> DEFINE n == Len(measures)
<1>1. n \in Nat /\ DOMAIN measures = 1..n
      /\ \A i \in 1..n : measures[i] \in Measure
  OBVIOUS
<1>2. PICK r \in [0..n -> Result] :
              /\ r[0] = Ok(0)
              /\ \A i \in 1..n : r[i] = Heavier(r[i - 1], measures[i])
              /\ r[n] = Heaviest(measures)
  BY HeaviestSteps
<1> DEFINE Among(k, w) ==
              \/ w = 0
              \/ \E i \in 1..k : measures[i].weight
                                 /\ w = Meant(measures[i].amount)
           Bounds(k, w) ==
              \A i \in 1..k :
                 measures[i].weight => Meant(measures[i].amount) <= w
           P == {k \in 0..n : Raises(r[k]) \/ (/\ Among(k, r[k].value)
                                               /\ Bounds(k, r[k].value))}
<1> HIDE DEF n
<1>3. 0 \in P
  BY <1>1, <1>2 DEF Ok
<1>4. ASSUME NEW k \in 1..n, k - 1 \in P PROVE k \in P
  <2> DEFINE m == measures[k]
             v == r[k - 1]
  <2>1. /\ m \in Measure /\ k \in 0..n /\ k - 1 \in 0..n
        /\ v \in Result /\ r[k] = Heavier(v, m)
    BY <1>1, <1>2
  <2>2. CASE Raises(v)
    BY <2>1, <2>2 DEF Heavier
  <2>3. CASE ~Raises(v) /\ ~m.weight
    <3>1. r[k] = v
      BY <2>1, <2>3 DEF Heavier
    <3>2. Among(k - 1, v.value) /\ Bounds(k - 1, v.value)
      BY <1>4, <2>3
    <3>3. Among(k, v.value)
      BY <1>1, <3>2
    <3>4. Bounds(k, v.value)
      BY <1>1, <2>3, <3>2
    <3> HIDE DEF Among, Bounds
    <3> QED BY <2>1, <3>1, <3>3, <3>4
  <2>4. CASE ~Raises(v) /\ m.weight
    <3>1. Among(k - 1, v.value) /\ Bounds(k - 1, v.value)
      BY <1>4, <2>4
    <3>2. m.amount \in Amount /\ v.value \in Nat
      BY <2>1 DEF Measure, Result
    <3>3. CASE Raises(Decimal(m.amount))
      BY <2>1, <2>4, <3>3 DEF Heavier
    <3>4. CASE ~Raises(Decimal(m.amount)) /\ Meant(m.amount) > v.value
      <4>1. r[k] = Decimal(m.amount) /\ r[k].value = Meant(m.amount)
            /\ Meant(m.amount) \in Nat
        BY <2>1, <2>4, <3>2, <3>4, DecimalResult DEF Heavier, Result
      <4>2. Among(k, r[k].value)
        BY <1>1, <2>4, <4>1
      <4>3. Bounds(k, r[k].value)
        <5>1. ASSUME NEW i \in 1..k, measures[i].weight
              PROVE  Meant(measures[i].amount) <= r[k].value
          <6>1. CASE i = k
            BY <4>1, <6>1
          <6>2. CASE i # k
            <7>1. i \in 1..(k - 1)
              BY <1>1, <6>2
            <7>2. Meant(measures[i].amount) <= v.value
              BY <3>1, <5>1, <7>1
            <7>3. measures[i].amount \in Amount
              BY <1>1 DEF Measure
            <7>4. Meant(measures[i].amount) \in Int
              BY <7>3 DEF Meant, Amount, Blank, Refused
            <7> QED BY <3>2, <3>4, <4>1, <7>2, <7>4
          <6> QED BY <6>1, <6>2
        <5> QED BY <5>1
      <4> HIDE DEF Among, Bounds
      <4> QED BY <2>1, <4>2, <4>3
    <3>5. CASE ~Raises(Decimal(m.amount)) /\ ~(Meant(m.amount) > v.value)
      <4>1. r[k] = v /\ Meant(m.amount) <= v.value
        BY <2>1, <2>4, <3>2, <3>5, DecimalResult DEF Heavier, Result
      <4>2. Among(k, v.value)
        BY <1>1, <3>1
      <4>3. Bounds(k, v.value)
        BY <1>1, <3>1, <4>1
      <4> HIDE DEF Among, Bounds
      <4> QED BY <2>1, <4>1, <4>2, <4>3
    <3> QED BY <3>3, <3>4, <3>5
  <2> QED BY <2>2, <2>3, <2>4
<1>5. n \in P
  <2> HIDE DEF P
  <2>1. 0..n \subseteq P
    BY <1>1, <1>3, <1>4, UpTo
  <2> QED BY <1>1, <2>1
<1>6. Heaviest(measures) \in Result
  BY <1>1, <1>2
<1> QED BY <1>1, <1>2, <1>5, <1>6

\* The first position of a key that is there.
First(given, k) ==
    CHOOSE i \in DOMAIN given : given[i] = k
                                /\ \A j \in DOMAIN given :
                                      given[j] = k => i <= j

\* A key that is given has a first position.
LEMMA FirstIsFirst ==
    ASSUME NEW given \in Seq(STRING), NEW i \in DOMAIN given
    PROVE  /\ First(given, given[i]) \in DOMAIN given
           /\ given[First(given, given[i])] = given[i]
           /\ \A j \in DOMAIN given :
                 given[j] = given[i] => First(given, given[i]) <= j
<1> DEFINE T == {j \in DOMAIN given : given[j] = given[i]}
<1>1. T \in SUBSET Nat /\ T # {}
  OBVIOUS
<1>2. PICK m \in T : \A j \in T : m <= j
  <2> HIDE DEF T
  <2> QED BY <1>1, LeastNatural
<1> QED BY <1>2 DEF First

\* The keys that are kept: those that are given, by their first position.
LEMMA OnceCorrect ==
    ASSUME NEW refs \in Seq(STRING)
    PROVE  LET kept == FoldLeft(Once, << >>, refs)
           IN  /\ kept \in Seq(STRING)
               /\ \A k : (\E p \in DOMAIN kept : kept[p] = k)
                           <=> (\E i \in DOMAIN refs : refs[i] = k)
               /\ \A p, q \in DOMAIN kept :
                     p < q => First(refs, kept[p]) < First(refs, kept[q])
<1> DEFINE n == Len(refs)
<1>1. n \in Nat /\ DOMAIN refs = 1..n /\ \A i \in 1..n : refs[i] \in STRING
  OBVIOUS
<1>2. PICK r \in [0..n -> Seq(STRING)] :
              /\ r[0] = << >>
              /\ \A i \in 1..n : r[i] = Once(r[i - 1], refs[i])
              /\ r[n] = FoldLeft(Once, << >>, refs)
  BY OnceSteps
<1> DEFINE AllGiven(k, s) ==
              \A p \in 1..Len(s) : \E i \in 1..k : refs[i] = s[p]
           AllKept(k, s) ==
              \A i \in 1..k : \E p \in 1..Len(s) : refs[i] = s[p]
           Ordered(s) ==
              \A p, q \in 1..Len(s) :
                 p < q => First(refs, s[p]) < First(refs, s[q])
           P == {k \in 0..n : /\ AllGiven(k, r[k])
                              /\ AllKept(k, r[k])
                              /\ Ordered(r[k])}
<1> HIDE DEF n
<1>3. 0 \in P
  BY <1>1, <1>2
<1>4. ASSUME NEW k \in 1..n, k - 1 \in P PROVE k \in P
  <2> DEFINE s == r[k - 1]
             x == refs[k]
  <2>1. /\ s \in Seq(STRING) /\ x \in STRING /\ Len(s) \in Nat
        /\ k \in 0..n /\ k - 1 \in 0..n /\ r[k] = Once(s, x)
    <3> HIDE DEF P
    <3>1. k \in 0..n /\ k - 1 \in 0..n
      BY <1>1
    <3>2. s \in Seq(STRING) /\ x \in STRING
      BY <1>1, <1>2, <3>1
    <3>3. Len(s) \in Nat
      BY <3>2
    <3>4. r[k] = Once(s, x)
      BY <1>2
    <3> QED BY <3>1, <3>2, <3>3, <3>4
  <2>2. AllGiven(k - 1, s) /\ AllKept(k - 1, s) /\ Ordered(s)
    BY <1>4
  <2>3. CASE \E p \in 1..Len(s) : s[p] = x
    <3>1. r[k] = s
      BY <2>1, <2>3 DEF Once, Contains
    <3>2. AllGiven(k, s)
      BY <1>1, <2>2
    <3>3. AllKept(k, s)
      <4>1. ASSUME NEW i \in 1..k PROVE \E p \in 1..Len(s) : refs[i] = s[p]
        <5>1. CASE i = k
          BY <2>3, <5>1
        <5>2. CASE i # k
          <6>1. i \in 1..(k - 1)
            BY <1>1, <5>2
          <6> QED BY <2>2, <6>1
        <5> QED BY <5>1, <5>2
      <4> QED BY <4>1
    <3> HIDE DEF AllGiven, AllKept, Ordered
    <3> QED BY <2>1, <2>2, <3>1, <3>2, <3>3
  <2>4. CASE ~ \E p \in 1..Len(s) : s[p] = x
    <3> DEFINE t == Append(s, x)
    <3>1. r[k] = t
      BY <2>1, <2>4 DEF Once, Contains
    <3>2. /\ Len(t) = Len(s) + 1
          /\ t[Len(s) + 1] = x
          /\ \A p \in 1..Len(s) : t[p] = s[p]
      BY <2>1
    <3> HIDE DEF t, s, x
    <3>3. AllGiven(k, t)
      <4>1. ASSUME NEW p \in 1..Len(t) PROVE \E i \in 1..k : refs[i] = t[p]
        <5>1. CASE p = Len(s) + 1
          BY <1>1, <3>2, <5>1 DEF x
        <5>2. CASE p # Len(s) + 1
          <6>1. p \in 1..Len(s)
            BY <2>1, <3>2, <5>2
          <6>2. PICK i \in 1..(k - 1) : refs[i] = s[p]
            BY <2>2, <6>1
          <6>3. i \in 1..k
            BY <1>1
          <6> QED BY <3>2, <6>1, <6>2, <6>3
        <5> QED BY <5>1, <5>2
      <4> QED BY <4>1
    <3>4. AllKept(k, t)
      <4>1. ASSUME NEW i \in 1..k PROVE \E p \in 1..Len(t) : refs[i] = t[p]
        <5>1. CASE i = k
          BY <2>1, <3>2, <5>1 DEF x
        <5>2. CASE i # k
          <6>1. i \in 1..(k - 1)
            BY <1>1, <5>2
          <6>2. PICK p \in 1..Len(s) : refs[i] = s[p]
            BY <2>2, <6>1
          <6>3. p \in 1..Len(t)
            BY <2>1, <3>2
          <6> QED BY <3>2, <6>2, <6>3
        <5> QED BY <5>1, <5>2
      <4> QED BY <4>1
    <3>5. Ordered(t)
      <4>1. First(refs, x) = k
        <5>1. \A j \in 1..(k - 1) : refs[j] # x
          BY <2>2, <2>4
        <5>2. /\ First(refs, x) \in 1..n /\ refs[First(refs, x)] = x
              /\ First(refs, x) <= k
          BY <1>1, FirstIsFirst DEF x
        <5>3. First(refs, x) \notin 1..(k - 1)
          BY <5>1, <5>2
        <5> QED BY <1>1, <5>2, <5>3
      <4>2. ASSUME NEW p \in 1..Len(s) PROVE First(refs, t[p]) < k
        <5>1. PICK i \in 1..(k - 1) : refs[i] = s[p]
          BY <2>2
        <5>2. i \in 1..n
          BY <1>1
        <5>3. First(refs, s[p]) \in 1..n /\ First(refs, s[p]) <= i
          BY <1>1, <5>1, <5>2, FirstIsFirst
        <5> QED BY <1>1, <3>2, <5>3
      <4>3. ASSUME NEW p \in 1..Len(t), NEW q \in 1..Len(t), p < q
            PROVE  First(refs, t[p]) < First(refs, t[q])
        <5>1. p \in 1..Len(s)
          BY <2>1, <3>2, <4>3
        <5>2. CASE q = Len(s) + 1
          BY <3>2, <4>1, <4>2, <5>1, <5>2
        <5>3. CASE q # Len(s) + 1
          <6>1. q \in 1..Len(s)
            BY <2>1, <3>2, <5>3
          <6> QED BY <2>2, <3>2, <4>3, <5>1, <6>1
        <5> QED BY <5>2, <5>3
      <4> QED BY <4>3
    <3> HIDE DEF AllGiven, AllKept, Ordered
    <3> QED BY <2>1, <3>1, <3>3, <3>4, <3>5
  <2> QED BY <2>3, <2>4
<1>5. n \in P
  <2> HIDE DEF P
  <2>1. 0..n \subseteq P
    BY <1>1, <1>3, <1>4, UpTo
  <2> QED BY <1>1, <2>1
<1>6. r[n] \in Seq(STRING) /\ DOMAIN r[n] = 1..Len(r[n])
  <2> HIDE DEF P
  <2> QED BY <1>1, <1>2
<1>7. AllGiven(n, r[n]) /\ AllKept(n, r[n]) /\ Ordered(r[n])
  <2> HIDE DEF AllGiven, AllKept, Ordered
  <2> QED BY <1>5
<1> HIDE DEF P
<1> QED BY <1>1, <1>2, <1>6, <1>7

-----------------------------------------------------------------------------
(* Sums over a set.                                                         *)

Pick(s) == CHOOSE x \in s : TRUE

\* g is the function by which MapThenSumSet adds up w over the subsets of A.
Sums(g, A, w) ==
    /\ g \in [SUBSET A -> Nat]
    /\ \A s \in SUBSET A :
          g[s] = IF s = {} THEN 0 ELSE w[Pick(s)] + g[s \ {Pick(s)}]

\* Such a function exists.
LEMMA SumExists ==
    ASSUME NEW A, IsFiniteSet(A), NEW w \in [A -> Nat]
    PROVE  \E g : Sums(g, A, w)
<1> DEFINE c == [s \in (SUBSET A) \ {{}} |-> Pick(s)]
           G == [p \in A \X Nat |-> w[p[1]] + p[2]]
<1>1. \A s \in (SUBSET A) \ {{}} : Pick(s) \in s
  BY DEF Pick
<1>2. c \in [(SUBSET A) \ {{}} -> A]
  BY <1>1
<1>3. \A s \in (SUBSET A) \ {{}} : c[s] \in s
  BY <1>1
<1>4. G \in [A \X Nat -> Nat] /\ \A a \in A, v \in Nat : G[<<a, v>>] = w[a] + v
  OBVIOUS
<1>5. PICK g \in [SUBSET A -> Nat] : Folds(g, SUBSET A, 0, G, c)
  <2> HIDE DEF G, c
  <2> QED BY <1>2, <1>3, <1>4, FoldExists
<1>6. ASSUME NEW s \in SUBSET A
      PROVE  g[s] = IF s = {} THEN 0 ELSE w[Pick(s)] + g[s \ {Pick(s)}]
  <2>1. CASE s = {}
    BY <1>5, <2>1 DEF Folds
  <2>2. CASE s # {}
    <3>1. c[s] = Pick(s) /\ Pick(s) \in A /\ s \ {Pick(s)} \in SUBSET A
      BY <1>1, <2>2
    <3>2. g[s] = G[<<c[s], g[s \ {c[s]}]>>]
      BY <1>5, <2>2 DEF Folds
    <3> HIDE DEF G, c
    <3> QED BY <1>4, <2>2, <3>1, <3>2
  <2> QED BY <2>1, <2>2
<1> QED BY <1>6 DEF Sums

\* What holds of {} and of a set when it holds of the set without Pick of it
\* holds of every finite set.
LEMMA PickInduction ==
    ASSUME NEW A, IsFiniteSet(A), NEW P, {} \in P,
           \A s \in (SUBSET A) \ {{}} : s \ {Pick(s)} \in P => s \in P
    PROVE  SUBSET A \subseteq P
<1> DEFINE N == Cardinality(A)
           Q == {k \in 0..N : \A s \in SUBSET A : Cardinality(s) = k => s \in P}
<1>1. N \in Nat /\ \A s \in SUBSET A : Cardinality(s) \in 0..N
  BY FS_CardinalityType, FS_Subset
<1>2. \A s \in (SUBSET A) \ {{}} :
        /\ s \ {Pick(s)} \in SUBSET A
        /\ Cardinality(s \ {Pick(s)}) = Cardinality(s) - 1
  <2>1. \A s \in (SUBSET A) \ {{}} : Pick(s) \in s
    BY DEF Pick
  <2> QED BY <2>1, FS_RemoveElement, FS_Subset
<1>3. \A s \in SUBSET A : Cardinality(s) = 0 <=> s = {}
  BY FS_EmptySet, FS_Subset
<1>4. 0 \in Q
  BY <1>1, <1>3
<1>5. ASSUME NEW k \in 1..N, k - 1 \in Q PROVE k \in Q
  <2>1. ASSUME NEW s \in SUBSET A, Cardinality(s) = k PROVE s \in P
    <3>1. s # {}
      BY <1>1, <1>3, <2>1
    <3>2. s \ {Pick(s)} \in SUBSET A /\ Cardinality(s \ {Pick(s)}) = k - 1
      BY <1>2, <2>1, <3>1
    <3> QED BY <1>5, <3>1, <3>2
  <2> QED BY <1>1, <2>1
<1>6. 0..N \subseteq Q
  <2> HIDE DEF N, Q
  <2> QED BY <1>1, <1>4, <1>5, UpTo
<1> QED BY <1>1, <1>6

\* u is w with x once more.
Grown(u, w, A, x) == \A a \in A : u[a] = w[a] + (IF a = x THEN x ELSE 0)

\* h of the whole set is g of it, and x when x is in the set.
Exceeds(h, g, A, x) == /\ x \in A => h[A] = g[A] + x
                       /\ x \notin A => h[A] = g[A]

\* One more x adds x to the sum, when x is in the set.
LEMMA SumGrown ==
    ASSUME NEW A, IsFiniteSet(A), NEW w \in [A -> Nat], NEW u \in [A -> Nat],
           NEW x \in Nat, Grown(u, w, A, x),
           NEW g, NEW h, Sums(g, A, w), Sums(h, A, u)
    PROVE  Exceeds(h, g, A, x)
<1> DEFINE P == {s \in SUBSET A : h[s] = g[s] + (IF x \in s THEN x ELSE 0)}
<1>1. {} \in P
  <2>1. {} \in SUBSET A /\ g[{}] = 0 /\ h[{}] = 0
    BY DEF Sums
  <2>2. (IF x \in {} THEN x ELSE 0) = 0
    OBVIOUS
  <2> QED BY <2>1, <2>2
<1>2. ASSUME NEW s \in (SUBSET A) \ {{}}, s \ {Pick(s)} \in P
      PROVE  s \in P
  <2> DEFINE a == Pick(s)
             t == s \ {a}
  <2>1. a \in s /\ a \in A /\ t \in SUBSET A
    BY DEF Pick
  <2>2. g[s] = w[a] + g[t] /\ h[s] = u[a] + h[t] /\ g[t] \in Nat /\ h[t] \in Nat
    BY <2>1 DEF Sums
  <2>3. h[t] = g[t] + (IF x \in t THEN x ELSE 0)
    BY <1>2
  <2>4. u[a] = w[a] + (IF a = x THEN x ELSE 0) /\ w[a] \in Nat /\ u[a] \in Nat
    BY <2>1 DEF Grown
  <2>5. CASE a = x
    <3>1. x \notin t /\ x \in s
      BY <2>1, <2>5
    <3> HIDE DEF a, t
    <3> QED BY <2>2, <2>3, <2>4, <2>5, <3>1
  <2>6. CASE a # x
    <3>1. x \in t <=> x \in s
      BY <2>6
    <3> HIDE DEF a, t
    <3> QED BY <2>2, <2>3, <2>4, <2>6, <3>1
  <2> QED BY <2>5, <2>6
<1>3. SUBSET A \subseteq P
  <2> HIDE DEF P
  <2> QED BY <1>1, <1>2, PickInduction
<1>4. h[A] = g[A] + (IF x \in A THEN x ELSE 0)
  BY <1>3
<1>5. g[A] \in Nat
  BY DEF Sums
<1> QED BY <1>4, <1>5 DEF Exceeds

\* A sum of zeros is zero.
LEMMA SumOfZeros ==
    ASSUME NEW A, IsFiniteSet(A), NEW w \in [A -> Nat], \A a \in A : w[a] = 0,
           NEW g, Sums(g, A, w)
    PROVE  g[A] = 0
<1> DEFINE P == {s \in SUBSET A : g[s] = 0}
<1>1. {} \in P
  BY DEF Sums
<1>2. ASSUME NEW s \in (SUBSET A) \ {{}}, s \ {Pick(s)} \in P
      PROVE  s \in P
  <2>1. Pick(s) \in A
    BY DEF Pick
  <2> QED BY <1>2, <2>1 DEF Sums
<1>3. SUBSET A \subseteq P
  <2> HIDE DEF P
  <2> QED BY <1>1, <1>2, PickInduction
<1> QED BY <1>3

-----------------------------------------------------------------------------
(* The totals of an NF-e.                                                   *)

\* A total is a number, or the error of one of the results.
LEMMA TotalType ==
    ASSUME NEW results \in Seq(Result), NEW range
    PROVE  Total(results, range) \in Result
<1>1. Len(results) \in Nat
  OBVIOUS
<1> QED BY <1>1, TotalSteps

Fields == {"pesoB", "pesoL", "qVol"}

\* How often the amount a is among the first k volumes, and what that weighs.
Weight(vol, f, k, a) == a * Cardinality({i \in 1..k : vol[i][f] = a})

\* The weight of an amount grows by it where it occurs, and nowhere else.
LEMMA WeightSteps ==
    ASSUME NEW vol \in Seq(Volume), NEW f \in Fields, NEW a \in Nat
    PROVE  /\ Weight(vol, f, 0, a) = 0
           /\ \A k \in 1..Len(vol) :
                 Weight(vol, f, k, a) = Weight(vol, f, k - 1, a)
                                        + (IF vol[k][f] = a THEN a ELSE 0)
           /\ \A k \in 0..Len(vol) : Weight(vol, f, k, a) \in Nat
<1> DEFINE At(k) == {i \in 1..k : vol[i][f] = a}
<1>1. Len(vol) \in Nat
  OBVIOUS
<1>2. ASSUME NEW k \in 0..Len(vol)
      PROVE  IsFiniteSet(At(k)) /\ Cardinality(At(k)) \in Nat
  <2>1. IsFiniteSet(1..k)
    BY <1>1, FS_Interval
  <2>2. At(k) \in SUBSET (1..k)
    OBVIOUS
  <2> HIDE DEF At
  <2> QED BY <2>1, <2>2, FS_Subset, FS_CardinalityType
<1>3. At(0) = {}
  OBVIOUS
<1>4. Weight(vol, f, 0, a) = 0
  BY <1>3, FS_EmptySet DEF Weight
<1>5. ASSUME NEW k \in 1..Len(vol)
      PROVE  Weight(vol, f, k, a) = Weight(vol, f, k - 1, a)
                                    + (IF vol[k][f] = a THEN a ELSE 0)
  <2>1. k - 1 \in 0..Len(vol) /\ k \notin At(k - 1)
    BY <1>1
  <2>2. CASE vol[k][f] = a
    <3>1. At(k) = At(k - 1) \cup {k}
      BY <1>1, <2>2
    <3>2. Cardinality(At(k)) = Cardinality(At(k - 1)) + 1
      <4> HIDE DEF At
      <4> QED BY <1>2, <2>1, <3>1, FS_AddElement
    <3>3. \A c \in Nat : a * (c + 1) = a * c + a
      OBVIOUS
    <3> HIDE DEF At
    <3>4. a * Cardinality(At(k)) = a * Cardinality(At(k - 1)) + a
      BY <1>2, <2>1, <3>2, <3>3
    <3> QED BY <2>2, <3>4 DEF Weight, At
  <2>3. CASE vol[k][f] # a
    <3>1. At(k) = At(k - 1)
      BY <1>1, <2>3
    <3>2. \A c \in Nat : a * c + 0 = a * c
      OBVIOUS
    <3> HIDE DEF At
    <3>3. a * Cardinality(At(k)) = a * Cardinality(At(k - 1)) + 0
      BY <1>2, <2>1, <3>1, <3>2
    <3> QED BY <2>3, <3>3 DEF Weight, At
  <2> QED BY <2>2, <2>3
<1>6. \A k \in 0..Len(vol) : Weight(vol, f, k, a) \in Nat
  <2>1. \A c \in Nat : a * c \in Nat
    OBVIOUS
  <2> HIDE DEF At
  <2> QED BY <1>2, <2>1 DEF Weight, At
<1> QED BY <1>4, <1>5, <1>6

\* The amounts of a field, other than none.
Amounts(vol, f) == {Meant(vol[i][f]) : i \in DOMAIN vol} \ {0}

\* The amounts of a field are finitely many, as the volumes are.
LEMMA AmountsFinite ==
    ASSUME NEW vol \in Seq(Volume), NEW f
    PROVE  IsFiniteSet(Amounts(vol, f))
<1> DEFINE n == Len(vol)
           T == {Meant(vol[i][f]) : i \in 1..n}
           m == [i \in 1..n |-> Meant(vol[i][f])]
<1>1. n \in Nat /\ DOMAIN vol = 1..n
  OBVIOUS
<1>2. m \in Surjection(1..n, T)
  BY DEF Surjection
<1>3. IsFiniteSet(1..n)
  BY <1>1, FS_Interval
<1>4. IsFiniteSet(T)
  <2> HIDE DEF T, m
  <2> QED BY <1>2, <1>3, FS_Surjection
<1>5. Amounts(vol, f) \in SUBSET T
  BY <1>1 DEF Amounts
<1> QED BY <1>4, <1>5, FS_Subset

\* The sum of the property, over the amounts of a field.
SumOf(vol, f) ==
    MapThenSumSet(
        LAMBDA a : a * Cardinality({i \in DOMAIN vol : vol[i][f] = a}),
        Amounts(vol, f))

\* That sum is what a function that adds up the weights makes of them all.
LEMMA SumOfSums ==
    ASSUME NEW vol \in Seq(Volume), NEW f \in Fields,
           Amounts(vol, f) \subseteq Nat
    PROVE  \E g : /\ Sums(g, Amounts(vol, f), [a \in Amounts(vol, f) |->
                                                 Weight(vol, f, Len(vol), a)])
                  /\ SumOf(vol, f) = g[Amounts(vol, f)]
<1> DEFINE A == Amounts(vol, f)
           w == [a \in A |-> Weight(vol, f, Len(vol), a)]
           F(g) == [s \in SUBSET A |->
                      IF s = {} THEN 0
                      ELSE Weight(vol, f, Len(vol), Pick(s)) + g[s \ {Pick(s)}]]
           h == CHOOSE g : g = F(g)
<1>1. Len(vol) \in Nat /\ DOMAIN vol = 1..Len(vol)
  OBVIOUS
<1>2. SumOf(vol, f) = h[A]
  BY <1>1 DEF SumOf, MapThenSumSet, MapThenFoldSet, Weight, Pick
<1>3. w \in [A -> Nat]
  BY <1>1, WeightSteps
<1>4. IsFiniteSet(A)
  BY AmountsFinite
<1>5. \A s \in (SUBSET A) \ {{}} :
         w[Pick(s)] = Weight(vol, f, Len(vol), Pick(s))
  BY DEF Pick
<1> HIDE DEF A, w
<1>6. PICK g : Sums(g, A, w)
  BY <1>3, <1>4, SumExists
<1>7. g = F(g)
  BY <1>5, <1>6 DEF Sums
<1>8. h = F(h)
  <2> HIDE DEF F
  <2> QED BY <1>7
<1>9. \A s \in SUBSET A : h[s] = IF s = {} THEN 0
                                 ELSE w[Pick(s)] + h[s \ {Pick(s)}]
  <2> HIDE DEF h
  <2> QED BY <1>5, <1>8
<1>10. h \in [SUBSET A -> Nat]
  <2> HIDE DEF h
  <2> DEFINE P == {s \in SUBSET A : h[s] \in Nat}
  <2>1. {} \in P
    <3>1. {} \in SUBSET A
      OBVIOUS
    <3>2. h[{}] = 0
      BY <1>9, <3>1
    <3> QED BY <3>1, <3>2
  <2>2. ASSUME NEW s \in (SUBSET A) \ {{}}, s \ {Pick(s)} \in P
        PROVE  s \in P
    <3>1. Pick(s) \in A
      BY DEF Pick
    <3>2. w[Pick(s)] \in Nat
      BY <1>3, <3>1
    <3>3. h[s \ {Pick(s)}] \in Nat
      BY <2>2
    <3>4. h[s] = w[Pick(s)] + h[s \ {Pick(s)}]
      BY <1>9
    <3>5. h[s] \in Nat
      BY <3>2, <3>3, <3>4
    <3> QED BY <3>5
  <2>3. SUBSET A \subseteq P
    <3> HIDE DEF P
    <3> QED BY <1>4, <2>1, <2>2, PickInduction
  <2> QED BY <1>8, <2>3
<1> HIDE DEF h
<1>11. Sums(h, A, w)
  BY <1>9, <1>10 DEF Sums
<1> QED BY <1>2, <1>11 DEF A, w

\* A total that is no error is the sum over the amounts of its field, each as
\* often as it occurs, in units of which c make one of the total.
LEMMA TotalCorrect ==
    ASSUME NEW vol \in Seq(Volume), NEW f \in Fields, NEW c \in {1, 10},
           NEW results \in Seq(Result), Len(results) = Len(vol), NEW range,
           \A i \in 1..Len(vol) : ~Raises(results[i]) =>
              vol[i][f] # Refused /\ c * results[i].value = Meant(vol[i][f]),
           ~Raises(Total(results, range))
    PROVE  c * Total(results, range).value = SumOf(vol, f)
<1> DEFINE n == Len(vol)
           A == Amounts(vol, f)
           w(k) == [a \in A |-> Weight(vol, f, k, a)]
<1>1. /\ n \in Nat /\ DOMAIN vol = 1..n
      /\ \A i \in 1..n : results[i] \in Result /\ vol[i][f] \in Amount
  <2>1. n \in Nat /\ DOMAIN vol = 1..n
    OBVIOUS
  <2>2. ASSUME NEW i \in 1..n
        PROVE  results[i] \in Result /\ vol[i][f] \in Amount
    <3>1. vol[i] \in Volume /\ results[i] \in Result
      OBVIOUS
    <3> QED BY <3>1 DEF Volume, Fields
  <2> QED BY <2>1, <2>2
<1>2. PICK r \in [0..n -> Result] :
              /\ r[0] = Ok(0)
              /\ \A i \in 1..n : r[i] = Plus(r[i - 1], results[i], range)
              /\ r[n] = Total(results, range)
  BY TotalSteps
<1> HIDE DEF n
<1>3. \A i \in 1..n : /\ ~Raises(r[i - 1]) /\ ~Raises(results[i])
                      /\ ~Raises(r[i])
  <2> DEFINE P == {k \in 0..n : Raises(r[k]) \/ \A i \in 1..k :
                      /\ ~Raises(r[i - 1]) /\ ~Raises(results[i])
                      /\ ~Raises(r[i])}
  <2>1. 0 \in P
    BY <1>1
  <2>2. ASSUME NEW k \in 1..n, k - 1 \in P PROVE k \in P
    <3>1. k \in 0..n /\ k - 1 \in 0..n
          /\ r[k] = Plus(r[k - 1], results[k], range)
      BY <1>1, <1>2
    <3>2. CASE Raises(r[k - 1]) \/ Raises(results[k])
      <4>1. Raises(r[k])
        BY <3>1, <3>2 DEF Plus
      <4> QED BY <3>1, <4>1
    <3>3. CASE Raises(r[k])
      BY <3>1, <3>3
    <3>4. CASE ~Raises(r[k - 1]) /\ ~Raises(results[k]) /\ ~Raises(r[k])
      <4>1. ASSUME NEW i \in 1..k
            PROVE  ~Raises(r[i - 1]) /\ ~Raises(results[i]) /\ ~Raises(r[i])
        <5>1. CASE i = k
          BY <3>4, <5>1
        <5>2. CASE i # k
          <6>1. i \in 1..(k - 1)
            BY <1>1, <5>2
          <6> QED BY <2>2, <3>4, <6>1
        <5> QED BY <5>1, <5>2
      <4> QED BY <3>1, <4>1
    <3> QED BY <3>2, <3>3, <3>4
  <2>3. 0..n \subseteq P
    <3> HIDE DEF P
    <3> QED BY <1>1, <2>1, <2>2, UpTo
  <2>4. n \in P
    BY <1>1, <2>3
  <2> QED BY <1>2, <2>4
<1>4. \A i \in 1..n : /\ vol[i][f] # Refused
                      /\ c * results[i].value = Meant(vol[i][f])
                      /\ Meant(vol[i][f]) \in Nat
  <2>1. ASSUME NEW i \in 1..n
        PROVE  vol[i][f] # Refused /\ c * results[i].value = Meant(vol[i][f])
    BY <1>3 DEF n
  <2> QED BY <1>1, <2>1 DEF Meant, Amount, Blank, Refused
<1>5. /\ IsFiniteSet(A) /\ A \subseteq Nat /\ 0 \notin A
      /\ \A i \in 1..n : Meant(vol[i][f]) \in A \/ Meant(vol[i][f]) = 0
  <2>1. IsFiniteSet(A)
    BY AmountsFinite
  <2> QED BY <1>1, <1>4, <2>1 DEF Amounts
<1> HIDE DEF A
<1>6. \A k \in 0..n : w(k) \in [A -> Nat]
  BY <1>5, WeightSteps DEF n
<1> DEFINE Adds(k) == \A g : Sums(g, A, w(k)) => g[A] = c * r[k].value
           P == {k \in 0..n : Adds(k)}
<1>7. 0 \in P
  <2>1. \A a \in A : w(0)[a] = 0
    BY <1>5, WeightSteps
  <2>2. 0 \in 0..n /\ r[0].value = 0
    BY <1>1, <1>2 DEF Ok
  <2>3. ASSUME NEW g, Sums(g, A, w(0)) PROVE g[A] = 0
    <3>1. w(0) \in [A -> Nat]
      BY <1>6, <2>2
    <3> HIDE DEF w
    <3> QED BY <1>5, <2>1, <2>3, <3>1, SumOfZeros
  <2>4. c * 0 = 0
    OBVIOUS
  <2> HIDE DEF w
  <2> QED BY <2>2, <2>3, <2>4
<1>8. ASSUME NEW k \in 1..n, k - 1 \in P PROVE k \in P
  <2> DEFINE x == Meant(vol[k][f])
  <2>1. /\ k \in 0..n /\ k - 1 \in 0..n /\ x \in Nat /\ k \in 1..Len(vol)
        /\ w(k) \in [A -> Nat] /\ w(k - 1) \in [A -> Nat]
    <3>1. k \in 0..n /\ k - 1 \in 0..n /\ k \in 1..Len(vol)
      BY <1>1 DEF n
    <3> QED BY <1>4, <1>6, <3>1
  <2>2. Grown(w(k), w(k - 1), A, x)
    <3> SUFFICES ASSUME NEW a \in A
                 PROVE  Weight(vol, f, k, a) = Weight(vol, f, k - 1, a)
                                               + (IF a = x THEN x ELSE 0)
      BY DEF Grown
    <3>1. a \in Nat /\ a # 0
      BY <1>5
    <3>2. vol[k][f] = a <=> a = x
      <4>1. vol[k][f] \in Amount
        BY <1>1
      <4> QED BY <3>1, <4>1 DEF Meant, Amount, Blank, Refused
    <3>3. Weight(vol, f, k, a) = Weight(vol, f, k - 1, a)
                                 + (IF vol[k][f] = a THEN a ELSE 0)
      BY <2>1, <3>1, WeightSteps
    <3> QED BY <3>2, <3>3
  <2>3. ASSUME NEW g, Sums(g, A, w(k)) PROVE g[A] = c * r[k].value
    <3> HIDE DEF w, x
    <3>1. PICK g0 : Sums(g0, A, w(k - 1))
      BY <1>5, <2>1, SumExists
    <3>2. g0[A] = c * r[k - 1].value
      BY <1>8, <3>1
    <3>3. Exceeds(g, g0, A, x)
      BY <1>5, <2>1, <2>2, <2>3, <3>1, SumGrown
    <3>4. x \in A \/ x = 0
      BY <1>5 DEF x
    <3>5. r[k].value = r[k - 1].value + results[k].value
      <4>1. r[k] = Ok(r[k - 1].value + results[k].value)
        BY <1>2, <1>3 DEF Plus, Raise, Raises
      <4> QED BY <4>1 DEF Ok
    <3>6. r[k - 1].value \in Nat /\ results[k].value \in Nat
      BY <1>1, <2>1 DEF Result
    <3>7. c * results[k].value = x
      BY <1>4 DEF x
    <3>8. \A p, q \in Nat : c * (p + q) = c * p + c * q
      OBVIOUS
    <3>9. c * r[k].value = c * r[k - 1].value + c * results[k].value
      BY <3>5, <3>6, <3>8
    <3>10. c * r[k - 1].value \in Nat
      BY <3>6
    <3> QED BY <2>1, <3>2, <3>3, <3>4, <3>7, <3>9, <3>10 DEF Exceeds
  <2> HIDE DEF w, x
  <2> QED BY <2>1, <2>3
<1>9. Adds(n)
  <2>1. 0..n \subseteq P
    <3> HIDE DEF P
    <3> QED BY <1>1, <1>7, <1>8, UpTo
  <2> HIDE DEF Adds
  <2> QED BY <1>1, <2>1
<1>10. PICK g : Sums(g, A, w(n)) /\ SumOf(vol, f) = g[A]
  BY <1>5, SumOfSums DEF A, n
<1> HIDE DEF w
<1> QED BY <1>2, <1>9, <1>10

-----------------------------------------------------------------------------
(* The parsers.                                                             *)

\* A parser ends with an error of a step, or with the document made of the
\* values of them all.
LEMMA CTeCases ==
    ASSUME NEW c \in CTe
    PROVE  \/ ParseCTe(c).error \in ParseError
           \/ /\ ParseCTe(c) = Ok(ParsedCTe(c))
              /\ \A i \in 1..14 : ~Raises(CTeSteps(c)[i])
<1>1. /\ c.refs \in Seq(STRING) /\ c.measures \in Seq(Measure)
      /\ c.nCT \in Text /\ c.serie \in Text /\ c.emitNome \in Text
      /\ c.dhEmi \in Date /\ c.emitCNPJ \in Identifier
      /\ c.remCNPJ \in Identifier /\ c.enderRemeCEP \in Identifier
      /\ c.destCNPJ \in Identifier /\ c.enderDestCEP \in Identifier
      /\ c.vTPrest \in Amount /\ c.vCarga \in Amount
  BY DEF CTe
<1>2. Len(CTeSteps(c)) = 14
  BY DEF CTeSteps
<1>3. ASSUME NEW i \in 1..14, Raises(CTeSteps(c)[i])
      PROVE  CTeSteps(c)[i].error \in ParseError
  <2>1. ASSUME Raises(Heaviest(c.measures))
        PROVE  Heaviest(c.measures).error \in ParseError
    BY <1>1, <2>1, HeaviestCorrect DEF Result, Raises
  <2>2. ASSUME NEW a \in {c.vTPrest, c.vCarga}
        PROVE  /\ Raises(Decimal(a)) => Decimal(a).error \in ParseError
               /\ Raises(RequiredDecimal(a)) =>
                     RequiredDecimal(a).error \in ParseError
    BY <1>1, DecimalResult DEF Result, Raises
  <2>3. ASSUME NEW id \in Identifier
        PROVE  /\ Raises(NormalizedDigits(id)) =>
                     NormalizedDigits(id).error \in ParseError
               /\ Raises(RequiredDigits(id)) =>
                     RequiredDigits(id).error \in ParseError
    BY DEF Identifier, NormalizedDigits, RequiredDigits, Raise, Raises, Ok,
           ParseError
  <2>4. \A t \in Text : Raises(RequiredText(t)) =>
                           RequiredText(t).error \in ParseError
    BY DEF RequiredText, Raise, Raises, Ok, ParseError
  <2>5. Raises(IssueDate(c.dhEmi)) => IssueDate(c.dhEmi).error \in ParseError
    BY <1>1 DEF Date, IssueDate, Raise, Raises, Ok, ParseError
  <2>6. Raises(AccessKey(c.key)) => AccessKey(c.key).error \in ParseError
    BY DEF AccessKey, Raise, Raises, Ok, ParseError
  <2>7. Raises(ReferencedKeys(c.refs)) =>
           ReferencedKeys(c.refs).error \in ParseError
    BY DEF ReferencedKeys, Raise, Raises, Ok, ParseError
  <2> QED BY <1>1, <1>3, <2>1, <2>2, <2>3, <2>4, <2>5, <2>6, <2>7 DEF CTeSteps
<1>4. \/ /\ \A i \in 1..14 : ~Raises(CTeSteps(c)[i])
         /\ ParseCTe(c) = Ok(ParsedCTe(c))
      \/ \E i \in 1..14 : Raises(CTeSteps(c)[i]) /\ ParseCTe(c) = CTeSteps(c)[i]
  BY <1>2, OutcomeCases DEF ParseCTe
<1> QED BY <1>3, <1>4

\* What is made of the amounts of the volumes.
LEMMA VolumeResults ==
    ASSUME NEW vol \in Seq(Volume)
    PROVE  /\ [i \in DOMAIN vol |-> Decimal(vol[i].pesoB)] \in Seq(Result)
           /\ [i \in DOMAIN vol |-> Decimal(vol[i].pesoL)] \in Seq(Result)
           /\ [i \in DOMAIN vol |-> Integer(vol[i].qVol)] \in Seq(Result)
<1>1. \A i \in DOMAIN vol : /\ vol[i].pesoB \in Amount
                            /\ vol[i].pesoL \in Amount
                            /\ vol[i].qVol \in Amount
  <2>1. \A i \in DOMAIN vol : vol[i] \in Volume
    OBVIOUS
  <2> QED BY <2>1 DEF Volume
<1>2. \A i \in DOMAIN vol : /\ Decimal(vol[i].pesoB) \in Result
                            /\ Decimal(vol[i].pesoL) \in Result
                            /\ Integer(vol[i].qVol) \in Result
  BY <1>1, DecimalResult, IntegerResult
<1>3. DOMAIN vol = 1..Len(vol) /\ Len(vol) \in Nat
  OBVIOUS
<1> QED BY <1>2, <1>3

\* The same of an NF-e.
LEMMA NFeCases ==
    ASSUME NEW n \in NFe
    PROVE  \/ ParseNFe(n).error \in ParseError
           \/ /\ ParseNFe(n) = Ok(ParsedNFe(n))
              /\ \A i \in 1..12 : ~Raises(NFeSteps(n)[i])
<1> DEFINE B == [i \in DOMAIN n.vol |-> Decimal(n.vol[i].pesoB)]
           L == [i \in DOMAIN n.vol |-> Decimal(n.vol[i].pesoL)]
           Q == [i \in DOMAIN n.vol |-> Integer(n.vol[i].qVol)]
<1>1. /\ n.vol \in Seq(Volume)
      /\ n.nNF \in Text /\ n.serie \in Text /\ n.emitNome \in Text
      /\ n.dhEmi \in Date /\ n.dEmi \in Date /\ n.emitCNPJ \in Identifier
      /\ n.destCNPJ \in Identifier /\ n.enderDestCEP \in Identifier
      /\ n.vNF \in Amount
  BY DEF NFe
<1>2. Len(NFeSteps(n)) = 12
  BY DEF NFeSteps
<1>3. B \in Seq(Result) /\ L \in Seq(Result) /\ Q \in Seq(Result)
  BY <1>1, VolumeResults
<1>4. ASSUME NEW i \in 1..12, Raises(NFeSteps(n)[i])
      PROVE  NFeSteps(n)[i].error \in ParseError
  <2>1. ASSUME NEW results \in {B, L, Q}, NEW range,
               Raises(Total(results, range))
        PROVE  Total(results, range).error \in ParseError
    <3>1. Total(results, range) \in Result
      BY <1>3, TotalType
    <3> QED BY <2>1, <3>1 DEF Result, Raises
  <2>2. Raises(RequiredDecimal(n.vNF)) =>
           RequiredDecimal(n.vNF).error \in ParseError
    BY <1>1, DecimalResult DEF Result, Raises
  <2>3. ASSUME NEW id \in Identifier
        PROVE  /\ Raises(NormalizedDigits(id)) =>
                     NormalizedDigits(id).error \in ParseError
               /\ Raises(RequiredDigits(id)) =>
                     RequiredDigits(id).error \in ParseError
    BY DEF Identifier, NormalizedDigits, RequiredDigits, Raise, Raises, Ok,
           ParseError
  <2>4. \A t \in Text : Raises(RequiredText(t)) =>
                           RequiredText(t).error \in ParseError
    BY DEF RequiredText, Raise, Raises, Ok, ParseError
  <2>5. \A d \in Date : Raises(IssueDate(d)) =>
                           IssueDate(d).error \in ParseError
    BY DEF Date, IssueDate, Raise, Raises, Ok, ParseError
  <2>6. Raises(AccessKey(n.key)) => AccessKey(n.key).error \in ParseError
    BY DEF AccessKey, Raise, Raises, Ok, ParseError
  <2> QED BY <1>1, <1>4, <2>1, <2>2, <2>3, <2>4, <2>5, <2>6 DEF NFeSteps
<1>5. \/ /\ \A i \in 1..12 : ~Raises(NFeSteps(n)[i])
         /\ ParseNFe(n) = Ok(ParsedNFe(n))
      \/ \E i \in 1..12 : Raises(NFeSteps(n)[i]) /\ ParseNFe(n) = NFeSteps(n)[i]
  BY <1>2, OutcomeCases DEF ParseNFe
<1> QED BY <1>4, <1>5

\* What the parser makes of a file: an error of the parser, a CT-e or an NF-e.
LEMMA ParseCases ==
    ASSUME NEW x \in FiscalXML
    PROVE  \/ ParseFiscalXML(x).error \in ParseError
           \/ /\ ParseFiscalXML(x) = Ok(ParsedCTe(x.cte))
              /\ \A i \in 1..14 : ~Raises(CTeSteps(x.cte)[i])
           \/ /\ ParseFiscalXML(x) = Ok(ParsedNFe(x.nfe))
              /\ \A i \in 1..12 : ~Raises(NFeSteps(x.nfe)[i])
<1>1. x.text \in {"blank", "unsafe", "malformed", "encoding", "xml"}
      /\ x.cte \in CTe /\ x.nfe \in NFe
  BY DEF FiscalXML
<1>2. CASE ParseFiscalXML(x) = ParseCTe(x.cte)
  BY <1>1, <1>2, CTeCases
<1>3. CASE ParseFiscalXML(x) = ParseNFe(x.nfe)
  BY <1>1, <1>3, NFeCases
<1>4. CASE /\ ParseFiscalXML(x) # ParseCTe(x.cte)
           /\ ParseFiscalXML(x) # ParseNFe(x.nfe)
  <2>1. ParseFiscalXML(x).error \in ParseError
    BY <1>1, <1>4 DEF ParseFiscalXML, Raise, ParseError
  <2> QED BY <2>1
<1> QED BY <1>2, <1>3, <1>4

-----------------------------------------------------------------------------
(* The request.                                                             *)

\* How a file is answered, whatever is read of it.
Verdict(f) ==
    IF ~AcceptedName(f.name) THEN Raise("INVALID_FILE_TYPE")
    ELSE IF f.size > MaxBytes THEN Raise("FILE_TOO_LARGE")
    ELSE ParseFiscalXML(f.xml)

\* What is read ends one byte after the limit, and a file that is not longer
\* is whole.
ReadInv ==
    pc # "read" =>
        /\ content \in [size : Nat, whole : BOOLEAN]
        /\ content.whole <=> file.size <= MaxBytes + 1
        /\ content.size > MaxBytes <=> file.size > MaxBytes

\* The inductive invariant: only a file with a good name and within the limit
\* is parsed, and the answer is the verdict on the file.
IntakeInv ==
    /\ pc \in {"read", "checks", "parse", "answered"}
    /\ file \in Files
    /\ ReadInv
    /\ pc = "parse" => AcceptedName(file.name) /\ file.size <= MaxBytes
    /\ pc = "answered" => answer = Verdict(file)

\* The file of a request is one that clients upload.
LEMMA FileType ==
    ASSUME file \in Files
    PROVE  file.size \in Nat /\ file.xml \in FiscalXML
BY FileAssumption

\* IntakeInv holds initially,
LEMMA IntakeInit == Init => IntakeInv
BY DEF Init, IntakeInv, ReadInv

\* every step of the request preserves it,
LEMMA IntakeNext ==
    IntakeInv /\ [Next]_vars => IntakeInv'
<1> SUFFICES ASSUME IntakeInv, [Next]_vars
             PROVE  IntakeInv'
  OBVIOUS
<1> USE LimitAssumption
<1>1. file.size \in Nat /\ file \in Files
  BY FileType DEF IntakeInv
<1>2. CASE Read
  <2>1. /\ content'.size = IF file.size > MaxBytes + 1 THEN MaxBytes + 1
                                                       ELSE file.size
        /\ content'.whole = (file.size <= MaxBytes + 1)
        /\ content' \in [size : Nat, whole : BOOLEAN]
        /\ pc' = "checks" /\ file' = file
    BY <1>1, <1>2 DEF Read
  <2>2. ReadInv'
    BY <1>1, <2>1 DEF ReadInv
  <2> QED BY <1>1, <2>1, <2>2 DEF IntakeInv
<1>3. CASE Check
  <2>1. pc = "checks" /\ UNCHANGED <<file, content>>
    BY <1>3 DEF Check
  <2>2. CASE ~AcceptedName(file.name) /\ pc' = "answered"
             /\ answer' = Raise("INVALID_FILE_TYPE")
    BY <1>1, <2>1, <2>2 DEF IntakeInv, ReadInv, Verdict
  <2>3. CASE /\ AcceptedName(file.name) /\ content.size > MaxBytes
             /\ pc' = "answered" /\ answer' = Raise("FILE_TOO_LARGE")
    BY <1>1, <2>1, <2>3 DEF IntakeInv, ReadInv, Verdict
  <2>4. CASE /\ AcceptedName(file.name) /\ content.size <= MaxBytes
             /\ pc' = "parse"
    <3>1. content.size \in Nat
      BY <2>1 DEF IntakeInv, ReadInv
    <3>2. file.size <= MaxBytes
      BY <1>1, <2>1, <2>4, <3>1 DEF IntakeInv, ReadInv
    <3> QED BY <1>1, <2>1, <2>4, <3>1, <3>2 DEF IntakeInv, ReadInv
  <2> QED BY <1>3, <2>2, <2>3, <2>4 DEF Check
<1>4. CASE Parse
  <2>1. pc = "parse" /\ pc' = "answered" /\ UNCHANGED <<file, content>>
        /\ AcceptedName(file.name) /\ file.size <= MaxBytes
    BY <1>4 DEF Parse, IntakeInv
  <2>2. content.whole
    BY <1>1, <2>1 DEF IntakeInv, ReadInv
  <2>3. answer' = ParseFiscalXML(file.xml)
    BY <1>4, <2>2 DEF Parse
  <2>4. answer' = Verdict(file)
    BY <1>1, <2>1, <2>3 DEF Verdict
  <2>5. Verdict(file)' = Verdict(file')
    BY DEF Verdict
  <2> QED BY <1>1, <2>1, <2>4 DEF IntakeInv, ReadInv, Verdict
<1>5. CASE UNCHANGED vars
  BY <1>5 DEF vars, IntakeInv, ReadInv, Verdict
<1> QED BY <1>2, <1>3, <1>4, <1>5 DEF Next

\* and so it always holds.
LEMMA IntakeAlways == Spec => []IntakeInv
BY IntakeInit, IntakeNext, PTL DEF Spec

\* Every request is answered by the verdict on its file: it depends on no more
\* of the file than is read.
THEOREM VerdictCorrect == Spec => [](pc = "answered" => answer = Verdict(file))
<1>1. IntakeInv => (pc = "answered" => answer = Verdict(file))
  BY DEF IntakeInv
<1> QED BY <1>1, IntakeAlways, PTL

\* A registered document is the one its file parses to, and no step of its
\* parser raised.
LEMMA Registered ==
    ASSUME IntakeInv, Registers
    PROVE  LET x == file.xml IN
           \/ /\ x.cte \in CTe
              /\ answer.value = ParsedCTe(x.cte)
              /\ ParsedCTe(x.cte).type = "cte"
              /\ \A i \in 1..14 : ~Raises(CTeSteps(x.cte)[i])
           \/ /\ x.nfe \in NFe
              /\ answer.value = ParsedNFe(x.nfe)
              /\ ParsedNFe(x.nfe).type = "nfe"
              /\ \A i \in 1..12 : ~Raises(NFeSteps(x.nfe)[i])
<1>1. answer.error = "none" /\ answer = Verdict(file) /\ file.xml \in FiscalXML
  BY FileType DEF Registers, Answered, IntakeInv
<1>2. answer = ParseFiscalXML(file.xml)
  BY <1>1 DEF Verdict, Raise
<1>3. answer.error \notin ParseError
  BY <1>1 DEF ParseError
<1>4. file.xml.cte \in CTe /\ file.xml.nfe \in NFe
  BY <1>1 DEF FiscalXML
<1>5. /\ ParsedCTe(file.xml.cte).type = "cte"
      /\ ParsedNFe(file.xml.nfe).type = "nfe"
  BY DEF ParsedCTe, ParsedNFe
<1> QED BY <1>1, <1>2, <1>3, <1>4, <1>5, ParseCases DEF Ok

\* A file is too large exactly when it has more bytes than the limit.
THEOREM LimitExactCorrect == Spec => []LimitExact
<1>1. IntakeInv => LimitExact
  <2> SUFFICES ASSUME IntakeInv, pc = "answered", AcceptedName(file.name)
               PROVE  answer.error = "FILE_TOO_LARGE" <=> file.size > MaxBytes
    BY DEF LimitExact
  <2>1. answer = Verdict(file) /\ file.xml \in FiscalXML
    BY FileType DEF IntakeInv
  <2>2. CASE file.size > MaxBytes
    BY <2>1, <2>2 DEF Verdict, Raise
  <2>3. CASE ~(file.size > MaxBytes)
    <3>1. answer = ParseFiscalXML(file.xml)
      BY <2>1, <2>3 DEF Verdict
    <3>2. ParseFiscalXML(file.xml).error \in ParseError
          \/ ParseFiscalXML(file.xml).error = "none"
      BY <2>1, ParseCases DEF Ok
    <3> QED BY <2>3, <3>1, <3>2 DEF ParseError
  <2> QED BY <2>2, <2>3
<1> QED BY <1>1, IntakeAlways, PTL

\* The references of a registered CT-e are those of its file, each once, by
\* their first position.
THEOREM ReferencesOnceCorrect == Spec => []ReferencesOnce
<1>1. IntakeInv => ReferencesOnce
  <2> SUFFICES ASSUME IntakeInv, Registers, answer.value.type = "cte"
               PROVE  LET given == file.xml.cte.refs
                          kept  == answer.value.refs
                      IN  /\ ToSet(kept) = ToSet(given)
                          /\ \A i, j \in DOMAIN kept :
                                i < j => First(given, kept[i])
                                           < First(given, kept[j])
    BY DEF ReferencesOnce, First
  <2> DEFINE c == file.xml.cte
  <2>1. /\ c \in CTe /\ answer.value = ParsedCTe(c)
        /\ \A i \in 1..14 : ~Raises(CTeSteps(c)[i])
    BY Registered
  <2>2. c.refs \in Seq(STRING)
    BY <2>1 DEF CTe
  <2>3. ~Raises(CTeSteps(c)[1]) /\ CTeSteps(c)[1] = ReferencedKeys(c.refs)
    BY <2>1 DEF CTeSteps
  <2>4. answer.value.refs = CTeSteps(c)[1].value
    BY <2>1 DEF ParsedCTe
  <2>5. answer.value.refs = FoldLeft(Once, << >>, c.refs)
    BY <2>3, <2>4 DEF ReferencedKeys, Raise, Raises, Ok
  <2> HIDE DEF c
  <2>6. ToSet(answer.value.refs) = ToSet(c.refs)
    BY <2>2, <2>5, OnceCorrect DEF ToSet
  <2>7. \A i, j \in DOMAIN answer.value.refs :
           i < j => First(c.refs, answer.value.refs[i])
                      < First(c.refs, answer.value.refs[j])
    BY <2>2, <2>5, OnceCorrect
  <2> QED BY <2>6, <2>7 DEF c
<1> QED BY <1>1, IntakeAlways, PTL

\* The weight of a registered CT-e is that of its heaviest measure of weight.
THEOREM WeightIsHeaviestCorrect == Spec => []WeightIsHeaviest
<1>1. IntakeInv => WeightIsHeaviest
  <2> SUFFICES ASSUME IntakeInv, Registers, answer.value.type = "cte"
               PROVE  LET given == {Meant(m.amount) : m \in
                             {m \in ToSet(file.xml.cte.measures) : m.weight}}
                      IN  /\ answer.value.weight \in given \cup {0}
                          /\ \A w \in given : w <= answer.value.weight
    BY DEF WeightIsHeaviest
  <2> DEFINE c == file.xml.cte
  <2>1. /\ c \in CTe /\ answer.value = ParsedCTe(c)
        /\ \A i \in 1..14 : ~Raises(CTeSteps(c)[i])
    BY Registered
  <2>2. c.measures \in Seq(Measure)
    BY <2>1 DEF CTe
  <2>3. ~Raises(CTeSteps(c)[2]) /\ CTeSteps(c)[2] = Heaviest(c.measures)
    BY <2>1 DEF CTeSteps
  <2>4. answer.value.weight = Heaviest(c.measures).value
    <3> HIDE DEF c
    <3>1. answer.value.weight = CTeSteps(c)[2].value
      BY <2>1 DEF ParsedCTe
    <3> QED BY <2>3, <3>1
  <2>5. ToSet(c.measures) = {c.measures[i] : i \in DOMAIN c.measures}
    BY DEF ToSet
  <2> HIDE DEF c
  <2> QED BY <2>2, <2>3, <2>4, <2>5, HeaviestCorrect DEF c
<1> QED BY <1>1, IntakeAlways, PTL

\* The totals of a registered NF-e are the sums over its volumes, in the units
\* of each field.
THEOREM TotalsAddUpCorrect == Spec => []TotalsAddUp
<1>1. IntakeInv => TotalsAddUp
  <2> SUFFICES ASSUME IntakeInv, Registers, answer.value.type = "nfe"
               PROVE  LET vol == file.xml.nfe.vol
                      IN  /\ answer.value.gross = SumOf(vol, "pesoB")
                          /\ answer.value.net = SumOf(vol, "pesoL")
                          /\ 10 * answer.value.volume = SumOf(vol, "qVol")
    BY DEF TotalsAddUp, SumOf, Amounts
  <2> DEFINE n == file.xml.nfe
             vol == n.vol
             B == [i \in DOMAIN vol |-> Decimal(vol[i].pesoB)]
             L == [i \in DOMAIN vol |-> Decimal(vol[i].pesoL)]
             Q == [i \in DOMAIN vol |-> Integer(vol[i].qVol)]
  <2>1. /\ n \in NFe /\ answer.value = ParsedNFe(n)
        /\ \A i \in 1..12 : ~Raises(NFeSteps(n)[i])
    BY Registered
  <2>2. vol \in Seq(Volume)
    BY <2>1 DEF NFe
  <2>3. /\ NFeSteps(n)[1] = Total(B, 0..MaxDecimal)
        /\ NFeSteps(n)[2] = Total(L, 0..MaxDecimal)
        /\ NFeSteps(n)[3] = Total(Q, Nat)
    BY DEF NFeSteps
  <2>4. /\ ~Raises(Total(B, 0..MaxDecimal))
        /\ ~Raises(Total(L, 0..MaxDecimal))
        /\ ~Raises(Total(Q, Nat))
    BY <2>1, <2>3
  <2>5. /\ answer.value.gross = Total(B, 0..MaxDecimal).value
        /\ answer.value.net = Total(L, 0..MaxDecimal).value
        /\ answer.value.volume = Total(Q, Nat).value
    <3>1. /\ answer.value.gross = NFeSteps(n)[1].value
          /\ answer.value.net = NFeSteps(n)[2].value
          /\ answer.value.volume = NFeSteps(n)[3].value
      BY <2>1 DEF ParsedNFe
    <3> HIDE DEF B, L, Q
    <3> QED BY <2>3, <3>1
  <2> HIDE DEF n
  <2>6. ASSUME NEW i \in 1..Len(vol)
        PROVE  /\ vol[i].pesoB \in Amount /\ vol[i].pesoL \in Amount
               /\ vol[i].qVol \in Amount
               /\ B[i] = Decimal(vol[i].pesoB)
               /\ L[i] = Decimal(vol[i].pesoL)
               /\ Q[i] = Integer(vol[i].qVol)
    <3>1. vol[i] \in Volume /\ i \in DOMAIN vol
      BY <2>2
    <3> QED BY <3>1 DEF Volume
  <2>7. /\ DOMAIN B = 1..Len(vol) /\ DOMAIN L = 1..Len(vol)
        /\ DOMAIN Q = 1..Len(vol) /\ Len(vol) \in Nat
        /\ B = [i \in 1..Len(vol) |-> B[i]]
        /\ L = [i \in 1..Len(vol) |-> L[i]]
        /\ Q = [i \in 1..Len(vol) |-> Q[i]]
    BY <2>2
  <2> HIDE DEF vol, B, L, Q
  <2>8. /\ B \in Seq(Result) /\ L \in Seq(Result) /\ Q \in Seq(Result)
        /\ Len(B) = Len(vol) /\ Len(L) = Len(vol) /\ Len(Q) = Len(vol)
    BY <2>6, <2>7, DecimalResult, IntegerResult
  <2>9. \A v \in Nat : 1 * v = v
    OBVIOUS
  <2>10. ASSUME NEW i \in 1..Len(vol)
         PROVE  /\ ~Raises(B[i]) => /\ vol[i]["pesoB"] # Refused
                                    /\ 1 * B[i].value = Meant(vol[i]["pesoB"])
                /\ ~Raises(L[i]) => /\ vol[i]["pesoL"] # Refused
                                    /\ 1 * L[i].value = Meant(vol[i]["pesoL"])
                /\ ~Raises(Q[i]) => /\ vol[i]["qVol"] # Refused
                                    /\ 10 * Q[i].value = Meant(vol[i]["qVol"])
    BY <2>6, <2>9, DecimalResult, IntegerResult DEF Result
  <2>11. 1 * Total(B, 0..MaxDecimal).value = SumOf(vol, "pesoB")
    BY <2>2, <2>4, <2>8, <2>10, TotalCorrect DEF Fields
  <2>12. 1 * Total(L, 0..MaxDecimal).value = SumOf(vol, "pesoL")
    <3>1. \A i \in 1..Len(vol) : ~Raises(L[i]) =>
             vol[i]["pesoL"] # Refused /\ 1 * L[i].value = Meant(vol[i]["pesoL"])
      BY <2>10
    <3>2. L \in Seq(Result) /\ Len(L) = Len(vol)
      BY <2>8
    <3>3. "pesoL" \in Fields /\ 1 \in {1, 10}
      BY DEF Fields
    <3> QED BY <2>2, <2>4, <3>1, <3>2, <3>3, TotalCorrect
  <2>13. 10 * Total(Q, Nat).value = SumOf(vol, "qVol")
    BY <2>2, <2>4, <2>8, <2>10, TotalCorrect DEF Fields
  <2>14. /\ Total(B, 0..MaxDecimal).value \in Nat
         /\ Total(L, 0..MaxDecimal).value \in Nat
    BY <2>8, TotalType DEF Result
  <2> QED BY <2>5, <2>9, <2>11, <2>12, <2>13, <2>14 DEF vol, n
<1> QED BY <1>1, IntakeAlways, PTL

\* A document that is registered passes the check constraints of its table
\* exactly when its key and its identifiers have no odd digit: of what those
\* constraints refuse, the parser lets through nothing else.
THEOREM AcceptedFitsChecksCorrect == Spec => []AcceptedFitsChecks
<1>1. ASSUME NEW t \in Text, ~Raises(RequiredText(t))
      PROVE  RequiredText(t).value # "blank"
  BY <1>1 DEF RequiredText, Raises, Raise, Ok
<1>2. ASSUME NEW k, ~Raises(AccessKey(k))
      PROVE  AccessKey(k).value = k /\ k # "bad"
  BY <1>2 DEF AccessKey, Raises, Raise, Ok
<1>3. ASSUME NEW d \in Date, ~Raises(IssueDate(d))
      PROVE  IssueDate(d).value = "aware"
  BY <1>3 DEF IssueDate, Date, Raises, Raise, Ok
<1>4. ASSUME NEW id \in Identifier
      PROVE  /\ ~Raises(RequiredDigits(id)) =>
                   IF id = "odd" THEN RequiredDigits(id).value = "odd"
                                 ELSE RequiredDigits(id).value = "good"
             /\ ~Raises(NormalizedDigits(id)) =>
                   IF id = "odd" THEN NormalizedDigits(id).value = "odd"
                   ELSE NormalizedDigits(id).value \in {"blank", "good"}
  BY DEF RequiredDigits, NormalizedDigits, Identifier, Raises, Raise, Ok
<1>5. ASSUME NEW a \in Amount
      PROVE  Decimal(a).value \in Nat /\ RequiredDecimal(a).value \in Nat
  BY DecimalResult DEF Result
<1> DEFINE Fits(d, odd) == /\ PassesChecks(d) <=> ~odd
                           /\ d.issue_at = "aware"
                           /\ "blank" \notin d.texts
           OddCTe(c) == "odd" \in {c.key, c.emitCNPJ, c.remCNPJ,
                                   c.enderRemeCEP, c.destCNPJ, c.enderDestCEP}
           OddNFe(n) == "odd" \in {n.key, n.emitCNPJ, n.destCNPJ,
                                   n.enderDestCEP}
<1>6. ASSUME NEW c \in CTe, \A i \in 1..14 : ~Raises(CTeSteps(c)[i])
      PROVE  Fits(ParsedCTe(c), OddCTe(c))
  <2> DEFINE v(i) == CTeSteps(c)[i].value
  <2>1. /\ c.measures \in Seq(Measure)
        /\ c.nCT \in Text /\ c.serie \in Text /\ c.emitNome \in Text
        /\ c.dhEmi \in Date /\ c.emitCNPJ \in Identifier
        /\ c.remCNPJ \in Identifier /\ c.enderRemeCEP \in Identifier
        /\ c.destCNPJ \in Identifier /\ c.enderDestCEP \in Identifier
        /\ c.vTPrest \in Amount /\ c.vCarga \in Amount
    BY DEF CTe
  <2>2. v(2) \in Nat /\ v(13) \in Nat /\ v(14) \in Nat
    BY <1>5, <2>1, HeaviestCorrect DEF CTeSteps, Result
  <2>3. v(3) = c.key /\ v(3) # "bad"
    BY <1>2, <1>6 DEF CTeSteps
  <2>4. v(4) # "blank" /\ v(5) # "blank" /\ v(12) # "blank"
    BY <1>1, <1>6, <2>1 DEF CTeSteps
  <2>5. v(6) = "aware"
    BY <1>3, <1>6, <2>1 DEF CTeSteps
  <2>6. IF c.emitCNPJ = "odd" THEN v(11) = "odd" ELSE v(11) = "good"
    BY <1>4, <1>6, <2>1 DEF CTeSteps
  <2>7. /\ IF c.remCNPJ = "odd" THEN v(7) = "odd"
                              ELSE v(7) \in {"blank", "good"}
        /\ IF c.enderRemeCEP = "odd" THEN v(8) = "odd"
                                   ELSE v(8) \in {"blank", "good"}
        /\ IF c.destCNPJ = "odd" THEN v(9) = "odd"
                               ELSE v(9) \in {"blank", "good"}
        /\ IF c.enderDestCEP = "odd" THEN v(10) = "odd"
                                   ELSE v(10) \in {"blank", "good"}
    BY <1>4, <1>6, <2>1 DEF CTeSteps
  <2>8. /\ ParsedCTe(c).key = v(3) /\ ParsedCTe(c).issue_at = v(6)
        /\ ParsedCTe(c).texts = {v(4), v(5), v(12)}
        /\ ParsedCTe(c).issuer = v(11)
        /\ ParsedCTe(c).optional = {v(7), v(8), v(9), v(10)}
        /\ ParsedCTe(c).amounts = {v(2), v(13), v(14)}
        /\ ParsedCTe(c).status \in
              {"normal", "complementary", "annulment", "substitute"}
    BY DEF ParsedCTe
  <2> HIDE DEF v
  <2>9. PassesChecks(ParsedCTe(c)) <=> ~OddCTe(c)
    BY <2>2, <2>3, <2>6, <2>7, <2>8 DEF PassesChecks
  <2> QED BY <2>4, <2>5, <2>8, <2>9
<1>7. ASSUME NEW n \in NFe, \A i \in 1..12 : ~Raises(NFeSteps(n)[i])
      PROVE  Fits(ParsedNFe(n), OddNFe(n))
  <2> DEFINE v(i) == NFeSteps(n)[i].value
             B == [i \in DOMAIN n.vol |-> Decimal(n.vol[i].pesoB)]
             L == [i \in DOMAIN n.vol |-> Decimal(n.vol[i].pesoL)]
             Q == [i \in DOMAIN n.vol |-> Integer(n.vol[i].qVol)]
  <2>1. /\ n.vol \in Seq(Volume)
        /\ n.nNF \in Text /\ n.serie \in Text /\ n.emitNome \in Text
        /\ n.dhEmi \in Date /\ n.dEmi \in Date /\ n.emitCNPJ \in Identifier
        /\ n.destCNPJ \in Identifier /\ n.enderDestCEP \in Identifier
        /\ n.vNF \in Amount
    BY DEF NFe
  <2>2. v(1) \in Nat /\ v(2) \in Nat /\ v(3) \in Nat
    <3>1. B \in Seq(Result) /\ L \in Seq(Result) /\ Q \in Seq(Result)
      BY <2>1, VolumeResults
    <3>2. /\ v(1) = Total(B, 0..MaxDecimal).value
          /\ v(2) = Total(L, 0..MaxDecimal).value
          /\ v(3) = Total(Q, Nat).value
      BY DEF NFeSteps
    <3> HIDE DEF v, B, L, Q
    <3> QED BY <3>1, <3>2, TotalType DEF Result
  <2>3. v(12) \in Nat
    BY <1>5, <2>1 DEF NFeSteps
  <2>4. v(4) = n.key /\ v(4) # "bad"
    BY <1>2, <1>7 DEF NFeSteps
  <2>5. v(5) # "blank" /\ v(6) # "blank" /\ v(9) # "blank"
    BY <1>1, <1>7, <2>1 DEF NFeSteps
  <2>6. v(7) = "aware"
    BY <1>3, <1>7, <2>1 DEF NFeSteps
  <2>7. IF n.emitCNPJ = "odd" THEN v(8) = "odd" ELSE v(8) = "good"
    BY <1>4, <1>7, <2>1 DEF NFeSteps
  <2>8. /\ IF n.destCNPJ = "odd" THEN v(10) = "odd"
                               ELSE v(10) \in {"blank", "good"}
        /\ IF n.enderDestCEP = "odd" THEN v(11) = "odd"
                                   ELSE v(11) \in {"blank", "good"}
    BY <1>4, <1>7, <2>1 DEF NFeSteps
  <2>9. /\ ParsedNFe(n).key = v(4) /\ ParsedNFe(n).issue_at = v(7)
        /\ ParsedNFe(n).texts = {v(5), v(6), v(9)}
        /\ ParsedNFe(n).issuer = v(8)
        /\ ParsedNFe(n).optional = {v(10), v(11)}
        /\ ParsedNFe(n).amounts = {v(1), v(2), v(3), v(12)}
        /\ ParsedNFe(n).type = "nfe"
    BY DEF ParsedNFe
  <2> HIDE DEF v
  <2>10. PassesChecks(ParsedNFe(n)) <=> ~OddNFe(n)
    BY <2>2, <2>3, <2>4, <2>7, <2>8, <2>9 DEF PassesChecks
  <2> QED BY <2>5, <2>6, <2>9, <2>10
<1>8. IntakeInv => AcceptedFitsChecks
  <2> DEFINE x == file.xml
  <2> SUFFICES ASSUME IntakeInv, Registers
               PROVE  Fits(answer.value, HasOddDigit(answer.value.type, x))
    BY DEF AcceptedFitsChecks
  <2>1. HasOddDigit("cte", x) = OddCTe(x.cte)
        /\ HasOddDigit("nfe", x) = OddNFe(x.nfe)
    BY DEF HasOddDigit
  <2> HIDE DEF Fits, OddCTe, OddNFe
  <2> QED BY <1>6, <1>7, <2>1, Registered
<1> QED BY <1>8, IntakeAlways, PTL
=============================================================================
