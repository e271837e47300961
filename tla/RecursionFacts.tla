-------------------------- MODULE RecursionFacts --------------------------
(***************************************************************************)
(* Facts the proofs about captions and transcripts share: numbers, what a  *)
(* recursive function computes, and sequences of sequences.                *)
(***************************************************************************)
EXTENDS Integers, SequencesExt, SequenceTheorems, WellFoundedInduction, TLAPS

(***************************************************************************)
(* A set of natural numbers has a least one.                               *)
(***************************************************************************)
LEMMA LeastNumber ==
  ASSUME NEW T, T \subseteq Nat, T # {}
  PROVE  \E m \in T : \A n \in T : m <= n
<1>1. IsWellFoundedOn(OpToRel(<, Nat), Nat)
  BY NatLessThanWellFounded, Zenon
<1>2. PICK m \in T : \A n \in T : ~ (<<n, m>> \in OpToRel(<, Nat))
  BY <1>1, WFMin, Zenon
<1>3. \A n \in T : n < m => <<n, m>> \in OpToRel(<, Nat)
  BY Zenon DEF OpToRel
<1>4. ASSUME NEW n \in T PROVE m <= n
  <2>1. m \in Nat /\ n \in Nat /\ ~ (n < m) BY <1>2, <1>3
  <2> QED BY <2>1
<1> QED BY <1>4

(***************************************************************************)
(* What Max and Min choose from a set of integers that has a bound.        *)
(***************************************************************************)
LEMMA LargestIs ==
  ASSUME NEW S, S \subseteq Int, S # {}, NEW b \in Int, \A x \in S : x <= b
  PROVE  Max(S) \in S /\ \A x \in S : x <= Max(S)
<1> DEFINE T == {n \in Nat : \E x \in S : n = b - x}
<1>1. T \subseteq Nat OBVIOUS
<1>2. \A x \in S : b - x \in T OBVIOUS
<1>3. PICK m \in T : \A n \in T : m <= n BY <1>1, <1>2, LeastNumber
<1>4. PICK x \in S : m = b - x OBVIOUS
<1> HIDE DEF T
<1>5. \A y \in S : x >= y
  <2> TAKE y \in S
  <2>1. m <= b - y BY <1>2, <1>3
  <2> QED BY <1>4, <2>1
<1>6. Max(S) \in S /\ \A y \in S : Max(S) >= y BY <1>5 DEF Max
<1> QED BY <1>6

LEMMA SmallestIs ==
  ASSUME NEW S, S \subseteq Int, S # {}, NEW b \in Int, \A x \in S : b <= x
  PROVE  Min(S) \in S /\ \A x \in S : Min(S) <= x
<1> DEFINE T == {n \in Nat : \E x \in S : n = x - b}
<1>1. T \subseteq Nat OBVIOUS
<1>2. \A x \in S : x - b \in T OBVIOUS
<1>3. PICK m \in T : \A n \in T : m <= n BY <1>1, <1>2, LeastNumber
<1>4. PICK x \in S : m = x - b OBVIOUS
<1> HIDE DEF T
<1>5. \A y \in S : x <= y
  <2> TAKE y \in S
  <2>1. m <= y - b BY <1>2, <1>3
  <2> QED BY <1>4, <2>1
<1>6. Min(S) \in S /\ \A y \in S : Min(S) <= y BY <1>5 DEF Min
<1> QED BY <1>6

(***************************************************************************)
(* A function on D that is base where the recursion stops and elsewhere    *)
(* combines its values at two smaller arguments. The recursions of the     *)
(* model have this form; written with functions for parameters, it is one  *)
(* the provers can instantiate.                                            *)
(***************************************************************************)
Unfolds(f, D, R, stop, base, step, left, right) ==
  /\ f \in [D -> R]
  /\ \A x \in D : f[x] = IF x \in stop THEN base[x] ELSE step[x][f[left[x]]][f[right[x]]]

(***************************************************************************)
(* The part of S below a rank.                                             *)
(***************************************************************************)
Below(S, rank, n) == {x \in S : rank[x] < n}

(***************************************************************************)
(* Two such functions agree where both are defined.                        *)
(***************************************************************************)
LEMMA UnfoldsOnce ==
  ASSUME NEW S, NEW R, NEW rank \in [S -> Nat], NEW stop, NEW base, NEW step,
         NEW left \in [S -> S], NEW right \in [S -> S],
         \A x \in S : x \notin stop => rank[left[x]] < rank[x] /\ rank[right[x]] < rank[x],
         NEW m \in Nat, NEW n \in Nat, m <= n, NEW f, NEW g,
         Unfolds(f, Below(S, rank, m), R, stop, base, step, left, right),
         Unfolds(g, Below(S, rank, n), R, stop, base, step, left, right)
  PROVE  \A x \in Below(S, rank, m) : f[x] = g[x]
<1> DEFINE T == {rank[x] : x \in {y \in Below(S, rank, m) : f[y] # g[y]}}
<1> SUFFICES ASSUME T # {} PROVE FALSE
  BY DEF Below
<1>1. T \in SUBSET Nat BY DEF Below
<1>2. PICK k \in T : \A j \in T : k <= j BY <1>1, LeastNumber
<1>3. PICK x \in Below(S, rank, m) : f[x] # g[x] /\ k = rank[x] OBVIOUS
<1>4. x \in S /\ x \in Below(S, rank, n) BY DEF Below
<1>5. \A y \in S : rank[y] < rank[x] => y \in Below(S, rank, m) /\ f[y] = g[y]
  <2> SUFFICES ASSUME NEW y \in S, rank[y] < rank[x], ~(y \in Below(S, rank, m) /\ f[y] = g[y]) PROVE FALSE
    OBVIOUS
  <2>1. y \in Below(S, rank, m) BY <1>3 DEF Below
  <2>2. rank[y] \in T BY <2>1
  <2>3. k <= rank[y] BY <1>2, <2>2
  <2> HIDE DEF T
  <2> QED BY <1>1, <1>3, <1>4, <2>3
<1> HIDE DEF T
<1>6. CASE x \in stop BY <1>3, <1>4, <1>6 DEF Unfolds
<1>7. CASE x \notin stop
  <2>1. f[left[x]] = g[left[x]] /\ f[right[x]] = g[right[x]] BY <1>4, <1>5, <1>7
  <2>2. f[x] = step[x][f[left[x]]][f[right[x]]] BY <1>3, <1>7 DEF Unfolds
  <2>3. g[x] = step[x][g[left[x]]][g[right[x]]] BY <1>4, <1>7 DEF Unfolds
  <2> QED BY <1>3, <2>1, <2>2, <2>3
<1> QED BY <1>6, <1>7

(***************************************************************************)
(* Below every rank there is such a function.                              *)
(***************************************************************************)
LEMMA UnfoldsBelow ==
  ASSUME NEW S, NEW R, NEW rank \in [S -> Nat], NEW stop, NEW base, NEW step,
         NEW left \in [S -> S], NEW right \in [S -> S],
         \A x \in S : x \in stop => base[x] \in R,
         \A x \in S : x \notin stop => rank[left[x]] < rank[x] /\ rank[right[x]] < rank[x],
         \A x \in S : x \notin stop => \A a, b \in R : step[x][a][b] \in R
  PROVE  \A n \in Nat : \E f : Unfolds(f, Below(S, rank, n), R, stop, base, step, left, right)
<1> DEFINE P(n) == \E f : Unfolds(f, Below(S, rank, n), R, stop, base, step, left, right)
           T == {n \in Nat : ~P(n)}
<1> SUFFICES ASSUME T # {} PROVE FALSE
  OBVIOUS
<1>1. T \subseteq Nat OBVIOUS
<1>2. PICK m \in T : \A j \in T : m <= j BY <1>1, LeastNumber
<1>3. m \in Nat /\ ~P(m) OBVIOUS
<1>4. m # 0
  <2> SUFFICES ASSUME m = 0 PROVE FALSE
    OBVIOUS
  <2>1. Below(S, rank, m) = {} BY DEF Below
  <2>2. Unfolds([x \in {} |-> base[x]], {}, R, stop, base, step, left, right) BY DEF Unfolds
  <2> QED BY <1>3, <2>1, <2>2
<1>5. m - 1 \in Nat /\ m - 1 \notin T
  <2> HIDE DEF T
  <2> QED BY <1>2, <1>3, <1>4
<1>6. P(m - 1) BY <1>5
<1>7. PICK f : Unfolds(f, Below(S, rank, m - 1), R, stop, base, step, left, right) BY <1>6
<1> DEFINE g == [x \in Below(S, rank, m) |->
                   IF x \in stop THEN base[x] ELSE step[x][f[left[x]]][f[right[x]]]]
<1>8. \A x \in Below(S, rank, m) : x \in S /\ (x \notin stop =>
         /\ left[x] \in Below(S, rank, m - 1) /\ right[x] \in Below(S, rank, m - 1))
  BY <1>3 DEF Below
<1>9. \A y \in Below(S, rank, m - 1) : y \in Below(S, rank, m) /\ f[y] \in R
  <2>1. \A y \in Below(S, rank, m - 1) : y \in Below(S, rank, m) BY <1>3 DEF Below
  <2>2. \A y \in Below(S, rank, m - 1) : f[y] \in R BY <1>7 DEF Unfolds
  <2> QED BY <2>1, <2>2
<1>10. g \in [Below(S, rank, m) -> R] BY <1>8, <1>9
<1>11. \A y \in Below(S, rank, m - 1) : g[y] = f[y] BY <1>7, <1>9 DEF Unfolds
<1>12. \A x \in Below(S, rank, m) :
          g[x] = IF x \in stop THEN base[x] ELSE step[x][g[left[x]]][g[right[x]]]
  <2> TAKE x \in Below(S, rank, m)
  <2>1. g[x] = IF x \in stop THEN base[x] ELSE step[x][f[left[x]]][f[right[x]]] OBVIOUS
  <2> HIDE DEF g
  <2> QED BY <1>8, <1>11, <2>1
<1> HIDE DEF g
<1>13. Unfolds(g, Below(S, rank, m), R, stop, base, step, left, right) BY <1>10, <1>12 DEF Unfolds
<1> QED BY <1>3, <1>13

(***************************************************************************)
(* A recursion whose arguments fall in rank defines a function.            *)
(***************************************************************************)
LEMMA Recursion ==
  ASSUME NEW S, NEW R, NEW rank \in [S -> Nat], NEW stop, NEW base, NEW step,
         NEW left \in [S -> S], NEW right \in [S -> S],
         \A x \in S : x \in stop => base[x] \in R,
         \A x \in S : x \notin stop => rank[left[x]] < rank[x] /\ rank[right[x]] < rank[x],
         \A x \in S : x \notin stop => \A a, b \in R : step[x][a][b] \in R
  PROVE  \E f : Unfolds(f, S, R, stop, base, step, left, right)
<1> DEFINE At(n) == CHOOSE f : Unfolds(f, Below(S, rank, n), R, stop, base, step, left, right)
           h == [x \in S |-> At(rank[x] + 1)[x]]
<1>1. \A n \in Nat : Unfolds(At(n), Below(S, rank, n), R, stop, base, step, left, right)
  BY UnfoldsBelow
<1> HIDE DEF At
<1>2. \A x \in S : rank[x] + 1 \in Nat /\ x \in Below(S, rank, rank[x] + 1) BY DEF Below
<1>3. \A x \in S : At(rank[x] + 1)[x] \in R BY <1>1, <1>2 DEF Unfolds
<1>4. h \in [S -> R] BY <1>3
<1>5. \A x \in S : h[x] = At(rank[x] + 1)[x] OBVIOUS
<1> HIDE DEF h
<1>6. \A x, y \in S : rank[y] < rank[x] => h[y] = At(rank[x] + 1)[y]
  <2> SUFFICES ASSUME NEW x \in S, NEW y \in S, rank[y] < rank[x] PROVE h[y] = At(rank[x] + 1)[y]
    OBVIOUS
  <2>1. rank[x] + 1 \in Nat /\ rank[y] + 1 \in Nat /\ rank[y] + 1 <= rank[x] + 1 OBVIOUS
  <2>2. \A z \in Below(S, rank, rank[y] + 1) : At(rank[y] + 1)[z] = At(rank[x] + 1)[z]
    BY <1>1, <2>1, UnfoldsOnce
  <2> QED BY <1>2, <1>5, <2>2
<1>7. \A x \in S : h[x] = IF x \in stop THEN base[x] ELSE step[x][h[left[x]]][h[right[x]]]
  <2> TAKE x \in S
  <2>1. CASE x \in stop BY <1>1, <1>2, <1>5, <2>1 DEF Unfolds
  <2>2. CASE x \notin stop
    <3>1. At(rank[x] + 1)[x] = step[x][At(rank[x] + 1)[left[x]]][At(rank[x] + 1)[right[x]]]
      BY <1>1, <1>2, <2>2 DEF Unfolds
    <3>2. h[left[x]] = At(rank[x] + 1)[left[x]] /\ h[right[x]] = At(rank[x] + 1)[right[x]]
      BY <1>6, <2>2
    <3> QED BY <1>5, <2>2, <3>1, <3>2
  <2> QED BY <2>1, <2>2
<1> QED BY <1>4, <1>7 DEF Unfolds

(***************************************************************************)
(* The same for a recursion that puts its sequences in front of the rest.  *)
(***************************************************************************)
Unrolls(f, S, E, stop, base, first, next) ==
  /\ f \in [S -> Seq(E)]
  /\ \A x \in S : f[x] = IF x \in stop THEN base[x] ELSE first[x] \o f[next[x]]

LEMMA Unrolling ==
  ASSUME NEW S, NEW E, NEW rank \in [S -> Nat], NEW stop, NEW base, NEW first, NEW next \in [S -> S],
         \A x \in S : x \in stop => base[x] \in Seq(E),
         \A x \in S : x \notin stop => first[x] \in Seq(E) /\ rank[next[x]] < rank[x]
  PROVE  \E f : Unrolls(f, S, E, stop, base, first, next)
<1> DEFINE R == Seq(E)
           step == [x \in S |-> [a \in R |-> [b \in R |-> first[x] \o a]]]
<1>1. \A x \in S : \A a, b \in R : step[x][a][b] = first[x] \o a OBVIOUS
<1>2. \A x \in S : x \notin stop => \A a, b \in R : step[x][a][b] \in R
  <2> SUFFICES ASSUME NEW x \in S, x \notin stop, NEW a \in R, NEW b \in R PROVE step[x][a][b] \in R
    OBVIOUS
  <2>1. first[x] \in R /\ step[x][a][b] = first[x] \o a BY <1>1
  <2> HIDE DEF step
  <2> QED BY <2>1
<1> HIDE DEF step
<1>3. \E f : Unfolds(f, S, R, stop, base, step, next, next)
  <2> HIDE DEF R
  <2>1. \A x \in S : x \in stop => base[x] \in R BY DEF R
  <2> QED BY <1>2, <2>1, Recursion
<1>4. PICK f : Unfolds(f, S, R, stop, base, step, next, next) BY <1>3
<1>5. f \in [S -> R] BY <1>4 DEF Unfolds
<1>6. \A x \in S : f[x] = IF x \in stop THEN base[x] ELSE first[x] \o f[next[x]]
  <2> TAKE x \in S
  <2>1. CASE x \in stop BY <1>4, <2>1 DEF Unfolds
  <2>2. CASE x \notin stop
    <3>1. f[x] = step[x][f[next[x]]][f[next[x]]] BY <1>4, <2>2 DEF Unfolds
    <3>2. f[next[x]] \in R BY <1>5
    <3> QED BY <1>1, <2>2, <3>1, <3>2
  <2> QED BY <2>1, <2>2
<1> QED BY <1>5, <1>6 DEF Unrolls

(***************************************************************************)
(* Induction along such a recursion: what holds where it stops, and        *)
(* wherever it holds at the next argument, holds everywhere.               *)
(***************************************************************************)
Descends(S, rank, stop, next) ==
  /\ rank \in [S -> Nat] /\ next \in [S -> S]
  /\ \A x \in S : x \notin stop => rank[next[x]] < rank[x]

LEMMA Descent ==
  ASSUME NEW S, NEW rank, NEW stop, NEW next, Descends(S, rank, stop, next), NEW Good,
         \A x \in S : x \in stop => x \in Good,
         \A x \in S : (x \notin stop /\ next[x] \in Good) => x \in Good
  PROVE  S \subseteq Good
<1> DEFINE T == {n \in Nat : \E x \in S : rank[x] = n /\ x \notin Good}
<1>0. /\ rank \in [S -> Nat] /\ next \in [S -> S]
      /\ \A x \in S : x \notin stop => rank[next[x]] < rank[x]
  BY DEF Descends
<1> SUFFICES ASSUME NEW y \in S, y \notin Good PROVE FALSE
  OBVIOUS
<1>1. rank[y] \in T BY <1>0
<1>2. T \subseteq Nat OBVIOUS
<1>3. PICK m \in T : \A n \in T : m <= n BY <1>1, <1>2, LeastNumber
<1>4. PICK x \in S : rank[x] = m /\ x \notin Good OBVIOUS
<1>5. x \notin stop /\ next[x] \in S /\ next[x] \notin Good /\ rank[next[x]] < m BY <1>0, <1>4
<1>6. rank[next[x]] \in T BY <1>0, <1>5
<1>7. m <= rank[next[x]] BY <1>3, <1>6
<1>8. m \in Nat /\ rank[next[x]] \in Nat BY <1>0, <1>5
<1> HIDE DEF T
<1> QED BY <1>5, <1>7, <1>8

(***************************************************************************)
(* Induction on sequences, from their ends.                                *)
(***************************************************************************)
LEMMA SeqDescent ==
  ASSUME NEW E, NEW Good, <<>> \in Good,
         \A s \in Seq(E) : (s # <<>> /\ Tail(s) \in Good) => s \in Good
  PROVE  Seq(E) \subseteq Good
<1> DEFINE S == Seq(E)
           stop == {<<>>}
           rank == [s \in S |-> Len(s)]
           next == [s \in S |-> IF s = <<>> THEN s ELSE Tail(s)]
<1>1. \A s \in S : Len(s) \in Nat /\ (s # <<>> => Tail(s) \in S /\ Len(Tail(s)) < Len(s)) OBVIOUS
<1>2. Descends(S, rank, stop, next) BY <1>1 DEF Descends
<1>3. \A s \in S : s \in stop => s \in Good OBVIOUS
<1>4. \A s \in S : (s \notin stop /\ next[s] \in Good) => s \in Good OBVIOUS
<1> HIDE DEF S, stop, rank, next
<1>5. S \subseteq Good BY <1>2, <1>3, <1>4, Descent
<1> QED BY <1>5 DEF S

(***************************************************************************)
(* The first of two sequences gives both their head.                       *)
(***************************************************************************)
LEMMA HeadTailConcat ==
  ASSUME NEW S, NEW s \in Seq(S), s # <<>>, NEW t \in Seq(S)
  PROVE  /\ s \o t # <<>> /\ s \o t \in Seq(S) /\ Head(s \o t) = Head(s) /\ Tail(s) \in Seq(S)
         /\ Tail(s \o t) = Tail(s) \o t /\ Len(Tail(s)) < Len(s)
<1>1. Len(s) \in Nat /\ Len(s) >= 1 /\ Len(t) \in Nat OBVIOUS
<1>2. s \o t \in Seq(S) /\ Len(s \o t) = Len(s) + Len(t) OBVIOUS
<1>3. s \o t # <<>> /\ Head(s \o t) = Head(s) BY <1>1, <1>2
<1>4. Tail(s) \in Seq(S) /\ Len(Tail(s)) = Len(s) - 1 OBVIOUS
<1> DEFINE a == Tail(s \o t)
           b == Tail(s) \o t
<1>5. a \in Seq(S) /\ Len(a) = Len(s) + Len(t) - 1 BY <1>1, <1>2, <1>3
<1>6. b \in Seq(S) /\ Len(b) = Len(s) - 1 + Len(t) BY <1>4
<1>7. \A i \in 1..Len(a) : a[i] = b[i]
  <2> TAKE i \in 1..Len(a)
  <2>1. a[i] = (s \o t)[i + 1] BY <1>2, <1>3, <1>5
  <2>2. i \in Nat /\ 1 <= i /\ i <= Len(s) + Len(t) - 1 BY <1>1, <1>5
  <2>3. CASE i <= Len(s) - 1 BY <1>1, <1>4, <2>1, <2>2, <2>3
  <2>4. CASE i > Len(s) - 1
    <3>1. (s \o t)[i + 1] = t[i + 1 - Len(s)] BY <1>1, <2>2, <2>4
    <3>2. b[i] = t[i - (Len(s) - 1)] BY <1>1, <1>4, <2>2, <2>4
    <3>3. i + 1 - Len(s) = i - (Len(s) - 1) BY <1>1, <2>2
    <3> QED BY <2>1, <3>1, <3>2, <3>3
  <2> QED BY <1>1, <2>2, <2>3, <2>4
<1>8. Len(a) = Len(b) BY <1>1, <1>5, <1>6
<1> HIDE DEF a, b
<1>9. a = b BY <1>5, <1>6, <1>7, <1>8, SeqEqual
<1> QED BY <1>1, <1>2, <1>3, <1>4, <1>9 DEF a, b

-----------------------------------------------------------------------------
(* Sequences of sequences. *)

(***************************************************************************)
(* What FlattenSeq computes, one part at a time.                           *)
(***************************************************************************)
FlattenedBy(f, L, S) ==
  /\ f \in [1..Len(L) -> Seq(S)]
  /\ Len(L) # 0 => FlattenSeq(L) = f[Len(L)]
  /\ \A i \in 1..Len(L) : f[i] = IF i = 1 THEN L[i] ELSE f[i - 1] \o L[i]

(***************************************************************************)
(* FlattenSeq has such a computation.                                      *)
(***************************************************************************)
LEMMA FlattenIs ==
  ASSUME NEW S, NEW L \in Seq(Seq(S))
  PROVE  \E f : FlattenedBy(f, L, S)
<1> DEFINE D == 1..Len(L)
           rank == [i \in D |-> i]
           prev == [i \in D |-> IF i = 1 THEN 1 ELSE i - 1]
           step == [i \in D |-> [a \in Seq(S) |-> [b \in Seq(S) |-> a \o L[i]]]]
           body(f) == [i \in D |-> IF i = 1 THEN L[i] ELSE f[i - 1] \o L[i]]
           flatten == CHOOSE f : f = body(f)
<1>1. Len(L) \in Nat /\ \A i \in D : L[i] \in Seq(S) OBVIOUS
<1>2. rank \in [D -> Nat] /\ prev \in [D -> D] BY <1>1
<1>3. \A i \in D : i \in {1} => L[i] \in Seq(S) BY <1>1
<1>4. \A i \in D : i \notin {1} => rank[prev[i]] < rank[i] BY <1>1
<1>5. \A i \in D : i \notin {1} => \A a, b \in Seq(S) : step[i][a][b] \in Seq(S)
  <2> SUFFICES ASSUME NEW i \in D, NEW a \in Seq(S), NEW b \in Seq(S) PROVE step[i][a][b] \in Seq(S)
    OBVIOUS
  <2>1. step[i][a][b] = a \o L[i] OBVIOUS
  <2> QED BY <1>1, <2>1
<1>6. \E f : Unfolds(f, D, Seq(S), {1}, L, step, prev, prev)
  <2> HIDE DEF D, rank, prev, step
  <2> QED BY <1>2, <1>3, <1>4, <1>5, Recursion
<1>7. PICK f : Unfolds(f, D, Seq(S), {1}, L, step, prev, prev) BY <1>6
<1>8. f \in [D -> Seq(S)] BY <1>7 DEF Unfolds
<1>9. \A i \in D : f[i] = IF i = 1 THEN L[i] ELSE f[i - 1] \o L[i]
  <2> TAKE i \in D
  <2>1. CASE i = 1 BY <1>7, <2>1 DEF Unfolds
  <2>2. CASE i # 1
    <3>1. f[i] = step[i][f[prev[i]]][f[prev[i]]] BY <1>7, <2>2 DEF Unfolds
    <3>2. prev[i] = i - 1 /\ i - 1 \in D BY <1>1, <2>2
    <3>3. f[i - 1] \in Seq(S) BY <1>8, <3>2
    <3>4. step[i][f[i - 1]][f[i - 1]] = f[i - 1] \o L[i] BY <3>3
    <3> HIDE DEF step, prev, D
    <3> QED BY <2>2, <3>1, <3>2, <3>4
  <2> QED BY <2>1, <2>2
<1>10. f = body(f) BY <1>8, <1>9
<1>11. flatten = body(flatten) BY <1>10
<1>12. Len(L) # 0 => FlattenSeq(L) = flatten[Len(L)] BY DEF FlattenSeq
<1> HIDE DEF flatten
<1>13. \A i \in D : flatten[i] = IF i = 1 THEN L[i] ELSE flatten[i - 1] \o L[i] BY <1>11
<1>14. \A i \in D : flatten[i] = f[i]
  <2> DEFINE T == {i \in D : flatten[i] # f[i]}
  <2> SUFFICES ASSUME T # {} PROVE FALSE
    OBVIOUS
  <2>1. T \subseteq Nat BY <1>1
  <2>2. PICK m \in T : \A n \in T : m <= n BY <2>1, LeastNumber
  <2>3. m \in D /\ flatten[m] # f[m] OBVIOUS
  <2>4. m # 1 BY <1>9, <1>13, <2>3
  <2>5. m - 1 \in D /\ ~(m <= m - 1) BY <1>1, <2>3, <2>4
  <2>6. m - 1 \notin T BY <2>2, <2>5
  <2>7. flatten[m - 1] = f[m - 1] BY <2>5, <2>6
  <2> QED BY <1>9, <1>13, <2>3, <2>4, <2>7
<1>15. flatten = [i \in D |-> flatten[i]] BY <1>11
<1>16. flatten \in [D -> Seq(S)] BY <1>8, <1>14, <1>15
<1> QED BY <1>12, <1>13, <1>16 DEF FlattenedBy

(***************************************************************************)
(* It yields a sequence.                                                   *)
(***************************************************************************)
LEMMA FlattenType ==
  ASSUME NEW S, NEW L \in Seq(Seq(S))
  PROVE  FlattenSeq(L) \in Seq(S) /\ (L = <<>> => FlattenSeq(L) = <<>>)
<1>1. PICK f : FlattenedBy(f, L, S) BY FlattenIs
<1>2. Len(L) \in Nat OBVIOUS
<1>3. CASE Len(L) = 0
  <2>1. L = <<>> BY <1>3
  <2>2. FlattenSeq(L) = <<>> BY <1>3, <2>1 DEF FlattenSeq
  <2>3. <<>> \in Seq(S) BY EmptySeq
  <2> QED BY <2>2, <2>3, Zenon
<1>4. CASE Len(L) # 0
  <2>1. Len(L) \in 1..Len(L) BY <1>2, <1>4
  <2> QED BY <1>1, <1>4, <2>1 DEF FlattenedBy
<1> QED BY <1>3, <1>4

(***************************************************************************)
(* One sequence more adds its elements.                                    *)
(***************************************************************************)
LEMMA FlattenAppend ==
  ASSUME NEW S, NEW L \in Seq(Seq(S)), NEW x \in Seq(S)
  PROVE  FlattenSeq(Append(L, x)) = FlattenSeq(L) \o x
<1> DEFINE M == Append(L, x)
           n == Len(L)
<1>1. M \in Seq(Seq(S)) /\ Len(M) = n + 1 /\ n \in Nat OBVIOUS
<1>2. M[n + 1] = x /\ \A i \in 1..n : M[i] = L[i] OBVIOUS
<1>3. PICK f : FlattenedBy(f, L, S) BY FlattenIs
<1>4. PICK g : FlattenedBy(g, M, S) BY <1>1, FlattenIs
<1> HIDE DEF M
<1>5. \A i \in 1..n : f[i] = g[i]
  <2> DEFINE T == {i \in 1..n : f[i] # g[i]}
  <2> SUFFICES ASSUME T # {} PROVE FALSE
    OBVIOUS
  <2>1. T \subseteq Nat BY <1>1
  <2>2. PICK m \in T : \A j \in T : m <= j BY <2>1, LeastNumber
  <2>3. m \in 1..n /\ f[m] # g[m] OBVIOUS
  <2>4. f[m] = (IF m = 1 THEN L[m] ELSE f[m - 1] \o L[m]) BY <1>3, <2>3 DEF FlattenedBy
  <2>5. m \in 1..Len(M) BY <1>1, <2>3
  <2>6. g[m] = (IF m = 1 THEN M[m] ELSE g[m - 1] \o M[m]) BY <1>4, <2>5 DEF FlattenedBy
  <2>7. CASE m = 1 BY <1>2, <2>3, <2>4, <2>6, <2>7
  <2>8. CASE m # 1
    <3>1. m - 1 \in 1..n /\ ~(m <= m - 1) BY <1>1, <2>3, <2>8
    <3>2. m - 1 \notin T BY <2>2, <3>1
    <3>3. f[m - 1] = g[m - 1] BY <3>1, <3>2
    <3> HIDE DEF T
    <3> QED BY <1>2, <2>3, <2>4, <2>6, <2>8, <3>3
  <2> QED BY <2>7, <2>8
<1>6. n + 1 \in 1..Len(M) BY <1>1
<1>7. FlattenSeq(M) = g[n + 1] BY <1>1, <1>4 DEF FlattenedBy
<1>8. /\ n = 0 => g[n + 1] = M[n + 1]
      /\ n # 0 => g[n + 1] = g[n] \o M[n + 1]
  <2>1. \A i \in 1..Len(M) : g[i] = (IF i = 1 THEN M[i] ELSE g[i - 1] \o M[i])
    BY <1>4 DEF FlattenedBy
  <2> DEFINE k == n + 1
  <2>2. (n = 0 => k = 1) /\ (n # 0 => k # 1 /\ k - 1 = n) BY <1>1
  <2>3. k \in 1..Len(M) BY <1>6
  <2>4. g[k] = (IF k = 1 THEN M[k] ELSE g[k - 1] \o M[k]) BY <2>1, <2>3
  <2>5. /\ n = 0 => g[k] = M[k]
        /\ n # 0 => g[k] = g[n] \o M[k]
    <3> HIDE DEF k
    <3> QED BY <2>2, <2>4
  <2> QED BY <2>5
<1>9. CASE n = 0
  <2>1. L = <<>> BY <1>9
  <2>2. FlattenSeq(L) = <<>> BY <2>1, FlattenType
  <2>3. g[n + 1] = x BY <1>2, <1>8, <1>9
  <2> QED BY <1>7, <2>2, <2>3 DEF M
<1>10. CASE n # 0
  <2>1. n \in 1..n /\ n + 1 # 1 /\ n + 1 - 1 = n BY <1>1, <1>10
  <2>2. FlattenSeq(L) = f[n] BY <1>3, <1>10 DEF FlattenedBy
  <2>3. g[n + 1] = g[n] \o x BY <1>2, <1>8, <2>1
  <2> QED BY <1>5, <1>7, <2>1, <2>2, <2>3 DEF M
<1> QED BY <1>9, <1>10

(***************************************************************************)
(* Concatenation is associative.                                           *)
(***************************************************************************)
LEMMA Associative ==
  ASSUME NEW S, NEW a \in Seq(S), NEW b \in Seq(S), NEW c \in Seq(S)
  PROVE  a \o (b \o c) = (a \o b) \o c
OBVIOUS

(***************************************************************************)
(* One element more of a sequence.                                         *)
(***************************************************************************)
LEMMA OneMore ==
  ASSUME NEW S, NEW s \in Seq(S), NEW m \in 1..Len(s)
  PROVE  s[m] \in S /\ SubSeq(s, 1, m - 1) \in Seq(S) /\ SubSeq(s, 1, m) = Append(SubSeq(s, 1, m - 1), s[m])
<1>1. Len(s) \in Nat /\ m \in Nat /\ 1 <= m /\ m <= Len(s) /\ s[m] \in S OBVIOUS
<1> DEFINE x == SubSeq(s, 1, m)
           y == SubSeq(s, 1, m - 1)
<1>2. x \in Seq(S) /\ Len(x) = m /\ \A i \in 1..m : x[i] = s[i] BY <1>1
<1>3. y \in Seq(S) /\ Len(y) = m - 1 /\ \A i \in 1..(m - 1) : y[i] = s[i] BY <1>1
<1> HIDE DEF x, y
<1> DEFINE z == Append(y, s[m])
<1>4. /\ z \in Seq(S) /\ Len(z) = Len(y) + 1 /\ z[Len(y) + 1] = s[m]
      /\ \A i \in 1..Len(y) : z[i] = y[i]
  BY <1>1, <1>3, AppendProperties
<1>5. Len(z) = m /\ z[m] = s[m] /\ \A i \in 1..(m - 1) : z[i] = s[i] BY <1>1, <1>3, <1>4
<1> HIDE DEF z
<1>6. \A i \in 1..Len(x) : x[i] = z[i]
  <2> TAKE i \in 1..Len(x)
  <2>1. i = m \/ i \in 1..(m - 1) BY <1>1, <1>2
  <2>2. i \in 1..m BY <1>2
  <2> QED BY <1>2, <1>5, <2>1, <2>2
<1>7. x = z BY <1>2, <1>4, <1>5, <1>6, SeqEqual
<1> QED BY <1>1, <1>3, <1>7 DEF x, y, z

(***************************************************************************)
(* Concatenation and Append.                                               *)
(***************************************************************************)
LEMMA ConcatAppend ==
  ASSUME NEW S, NEW a \in Seq(S), NEW b \in Seq(S), NEW e \in S
  PROVE  a \o b \in Seq(S) /\ a \o Append(b, e) = Append(a \o b, e)
<1>1. a \o b \in Seq(S) BY ConcatProperties
<1>2. <<e>> \in Seq(S) OBVIOUS
<1>3. Append(b, e) = b \o <<e>> /\ Append(a \o b, e) = (a \o b) \o <<e>> BY <1>1, AppendIsConcat
<1> DEFINE c == <<e>>
<1> HIDE DEF c
<1>4. a \o (b \o c) = (a \o b) \o c BY <1>2, Associative DEF c
<1> QED BY <1>1, <1>3, <1>4 DEF c

(***************************************************************************)
(* FlattenSeq distributes over concatenation.                              *)
(***************************************************************************)
LEMMA FlattenConcat ==
  ASSUME NEW S, NEW L \in Seq(Seq(S)), NEW M \in Seq(Seq(S))
  PROVE  FlattenSeq(L \o M) = FlattenSeq(L) \o FlattenSeq(M)
<1> DEFINE pre(n) == SubSeq(M, 1, n)
           T == {n \in 0..Len(M) : FlattenSeq(L \o pre(n)) # FlattenSeq(L) \o FlattenSeq(pre(n))}
<1>0. Len(M) \in Nat OBVIOUS
<1>1. \A n \in 0..Len(M) : pre(n) \in Seq(Seq(S)) /\ Len(pre(n)) = n OBVIOUS
<1>2. T = {}
  <2> SUFFICES ASSUME T # {} PROVE FALSE
    OBVIOUS
  <2>1. T \subseteq Nat BY <1>0
  <2>2. PICK m \in T : \A j \in T : m <= j BY <2>1, LeastNumber
  <2>3. m \in 0..Len(M) /\ FlattenSeq(L \o pre(m)) # FlattenSeq(L) \o FlattenSeq(pre(m)) OBVIOUS
  <2>4. m # 0
    <3> SUFFICES ASSUME m = 0 PROVE FALSE
      OBVIOUS
    <3>1. pre(m) = <<>> OBVIOUS
    <3>2. FlattenSeq(pre(m)) = <<>> BY <1>1, <2>3, <3>1, FlattenType
    <3>3. L \o pre(m) = L BY <3>1
    <3>4. FlattenSeq(L) \in Seq(S) BY FlattenType
    <3>5. FlattenSeq(L) \o <<>> = FlattenSeq(L) BY <3>4, ConcatEmptySeq
    <3> QED BY <2>3, <3>2, <3>3, <3>5, Zenon
  <2>5. m - 1 \in 0..Len(M) /\ ~(m <= m - 1) /\ m \in 1..Len(M) BY <1>0, <2>3, <2>4
  <2>6. FlattenSeq(L \o pre(m - 1)) = FlattenSeq(L) \o FlattenSeq(pre(m - 1)) BY <2>2, <2>5
  <2>7. pre(m) = Append(pre(m - 1), M[m]) /\ M[m] \in Seq(S) BY <2>5, OneMore
  <2>8. pre(m - 1) \in Seq(Seq(S)) BY <1>1, <2>5
  <2> HIDE DEF pre, T
  <2>9. L \o pre(m) = Append(L \o pre(m - 1), M[m]) /\ L \o pre(m - 1) \in Seq(Seq(S))
    <3> DEFINE Z == Seq(S)
               e == M[m]
               b == pre(m - 1)
    <3>1. L \in Seq(Z) /\ b \in Seq(Z) /\ e \in Z BY <2>7, <2>8
    <3> HIDE DEF Z, e, b
    <3>2. L \o b \in Seq(Z) /\ L \o Append(b, e) = Append(L \o b, e) BY <3>1, ConcatAppend
    <3> QED BY <2>7, <3>2 DEF Z, e, b
  <2>10. FlattenSeq(L \o pre(m)) = FlattenSeq(L \o pre(m - 1)) \o M[m] BY <2>7, <2>9, FlattenAppend
  <2>11. FlattenSeq(pre(m)) = FlattenSeq(pre(m - 1)) \o M[m] BY <2>7, <2>8, FlattenAppend
  <2>12. FlattenSeq(L) \in Seq(S) /\ FlattenSeq(pre(m - 1)) \in Seq(S) BY <2>8, FlattenType
  <2>13. FlattenSeq(L) \o (FlattenSeq(pre(m - 1)) \o M[m]) = (FlattenSeq(L) \o FlattenSeq(pre(m - 1))) \o M[m]
    <3> DEFINE a == FlattenSeq(L)
               b == FlattenSeq(pre(m - 1))
               c == M[m]
    <3>1. a \in Seq(S) /\ b \in Seq(S) /\ c \in Seq(S) BY <2>7, <2>12
    <3> HIDE DEF a, b, c
    <3>2. a \o (b \o c) = (a \o b) \o c BY <3>1, Associative
    <3> QED BY <3>2 DEF a, b, c
  <2> QED BY <2>3, <2>6, <2>10, <2>11, <2>13
<1>3. pre(Len(M)) = M BY SubSeqFull
<1>4. Len(M) \in 0..Len(M) BY <1>0
<1>5. FlattenSeq(L \o pre(Len(M))) = FlattenSeq(L) \o FlattenSeq(pre(Len(M))) BY <1>2, <1>4
<1> QED BY <1>3, <1>5, Zenon

(***************************************************************************)
(* One sequence alone.                                                     *)
(***************************************************************************)
LEMMA FlattenOne ==
  ASSUME NEW S, NEW x \in Seq(S)
  PROVE  FlattenSeq(<<x>>) = x
<1>1. <<>> \in Seq(Seq(S)) /\ Append(<<>>, x) = <<x>> OBVIOUS
<1>2. FlattenSeq(<<x>>) = FlattenSeq(<<>>) \o x BY <1>1, FlattenAppend
<1>3. FlattenSeq(<<>>) = <<>> BY <1>1, FlattenType
<1> QED BY <1>2, <1>3, ConcatEmptySeq
=============================================================================
