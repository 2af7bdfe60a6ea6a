----------------------------- MODULE ListFacts -----------------------------
(***************************************************************************)
(* Lemmas on lists without repetition, as push and shift of JavaScript     *)
(* arrays leave them; on sums over finite sets, as the folds of the        *)
(* community modules compute them; and on the lists that filter and splice *)
(* take from a list.                                                       *)
(***************************************************************************)
EXTENDS Integers, Sequences, FiniteSets, SequencesExt, SequenceTheorems, FiniteSetTheorems,
        WellFoundedInduction, TLAPS

(* The empty list. *)
LEMMA EmptyList ==
  /\ ToSet(<<>>) = {}
  /\ IsInjective(<<>>)
BY DEF ToSet, IsInjective

(* A list with no element is empty. *)
LEMMA NoElement ==
  ASSUME NEW S, NEW s \in Seq(S)
  PROVE  ToSet(s) \subseteq S /\ (ToSet(s) = {} <=> s = <<>>)
<1>1. DOMAIN s = 1..Len(s) /\ Len(s) \in Nat /\ \A i \in 1..Len(s) : s[i] \in S
  BY LenProperties, ElementOfSeq
<1>2. ToSet(s) \subseteq S
  BY <1>1 DEF ToSet
<1>3. CASE s = <<>>
  BY <1>2, <1>3, EmptyList
<1>4. CASE s # <<>>
  <2>1. Len(s) > 0
    BY <1>1, <1>4, EmptySeq
  <2>2. s[1] \in ToSet(s)
    BY <1>1, <2>1 DEF ToSet
  <2>. QED
    BY <1>2, <1>4, <2>2
<1>. QED
  BY <1>3, <1>4

(* push of an element that is not in the list. *)
LEMMA PushNew ==
  ASSUME NEW S, NEW s \in Seq(S), IsInjective(s), NEW e \in S, e \notin ToSet(s)
  PROVE  /\ Append(s, e) \in Seq(S)
         /\ IsInjective(Append(s, e))
         /\ ToSet(Append(s, e)) = ToSet(s) \cup {e}
         /\ Append(s, e) # <<>>
<1> DEFINE r == Append(s, e)
<1>1. /\ DOMAIN s = 1..Len(s) /\ Len(s) \in Nat
      /\ r \in Seq(S) /\ DOMAIN r = 1..(Len(s) + 1)
      /\ r # <<>>
      /\ \A i \in 1..Len(s) : r[i] = s[i]
      /\ r[Len(s) + 1] = e
  BY LenProperties, AppendProperties
<1>2. IsInjective(r)
  BY <1>1 DEF IsInjective, ToSet
<1>3. ToSet(r) = ToSet(s) \cup {e}
  BY <1>1 DEF ToSet
<1>. QED
  BY <1>1, <1>2, <1>3

(* shift of a list. *)
LEMMA ShiftFirst ==
  ASSUME NEW S, NEW s \in Seq(S), IsInjective(s), s # <<>>
  PROVE  /\ Head(s) \in S
         /\ Head(s) \in ToSet(s)
         /\ Tail(s) \in Seq(S)
         /\ IsInjective(Tail(s))
         /\ ToSet(Tail(s)) = ToSet(s) \ {Head(s)}
<1> DEFINE r == Tail(s)
<1>1. /\ DOMAIN s = 1..Len(s) /\ Len(s) \in Nat \ {0}
      /\ r \in Seq(S) /\ DOMAIN r = 1..(Len(s) - 1)
      /\ \A i \in 1..(Len(s) - 1) : r[i] = s[i + 1]
      /\ Head(s) = s[1] /\ Head(s) \in S
  BY LenProperties, HeadTailProperties, EmptySeq
<1>2. IsInjective(r)
  BY <1>1 DEF IsInjective
<1>3. ToSet(r) = ToSet(s) \ {s[1]}
  <2>1. \A x \in ToSet(r) : x \in ToSet(s) /\ x # s[1]
    BY <1>1 DEF ToSet, IsInjective
  <2>2. ASSUME NEW x \in ToSet(s), x # s[1]
        PROVE  x \in ToSet(r)
    <3>1. PICK i \in 1..Len(s) : x = s[i]
      BY <1>1 DEF ToSet
    <3>2. i - 1 \in 1..(Len(s) - 1) /\ r[i - 1] = x
      BY <1>1, <2>2, <3>1
    <3>. QED
      BY <1>1, <3>2 DEF ToSet
  <2>. QED
    BY <2>1, <2>2
<1>4. s[1] \in ToSet(s)
  BY <1>1 DEF ToSet
<1>. QED
  BY <1>1, <1>2, <1>3, <1>4

-----------------------------------------------------------------------------
(* Induction with sets, and sums *)

(* A set of natural numbers with 0 and with every successor has them all. *)
LEMMA Counting ==
  ASSUME NEW T \in SUBSET Nat, 0 \in T, \A n \in T : n + 1 \in T
  PROVE  T = Nat
<1> SUFFICES ASSUME Nat \ T # {} PROVE FALSE
  OBVIOUS
<1>1. PICK x \in Nat \ T : \A y \in Nat \ T : ~(y < x)
  <2>1. \A x, y \in Nat : y < x => <<y, x>> \in OpToRel(<, Nat)
    BY DEF OpToRel
  <2>2. \E x \in Nat \ T : \A y \in Nat \ T : <<y, x>> \notin OpToRel(<, Nat)
    BY NatLessThanWellFounded, WFMin
  <2>. QED
    BY <2>1, <2>2
<1>2. x # 0 /\ x - 1 \in Nat /\ x - 1 < x
  BY <1>1
<1>3. x - 1 \in T
  BY <1>1, <1>2
<1>4. (x - 1) + 1 = x
  BY <1>2
<1>5. x \in T
  BY <1>3, <1>4
<1>. QED
  BY <1>1, <1>5

(* The same for the subsets of a finite set. *)
LEMMA Enlarging ==
  ASSUME NEW S, IsFiniteSet(S), NEW T \in SUBSET (SUBSET S), {} \in T,
         \A s \in SUBSET S : s # {} /\ (\A y \in s : s \ {y} \in T) => s \in T
  PROVE  T = SUBSET S
<1> DEFINE Good == {n \in Nat : \A s \in SUBSET S : Cardinality(s) = n => s \in T}
<1>0. \A s \in SUBSET S : IsFiniteSet(s) /\ Cardinality(s) \in Nat
  BY FS_Subset, FS_CardinalityType
<1>1. 0 \in Good
  <2>1. \A s \in SUBSET S : Cardinality(s) = 0 => s = {}
    BY <1>0, FS_EmptySet
  <2>. QED
    BY <2>1
<1>2. ASSUME NEW n \in Good PROVE n + 1 \in Good
  <2>1. n \in Nat /\ \A s \in SUBSET S : Cardinality(s) = n => s \in T
    BY <1>2
  <2>2. ASSUME NEW s \in SUBSET S, Cardinality(s) = n + 1 PROVE s \in T
    <3>1. s # {}
      BY <2>1, <2>2, FS_EmptySet
    <3>2. ASSUME NEW y \in s PROVE s \ {y} \in T
      <4>1. Cardinality(s \ {y}) = Cardinality(s) - 1
        BY <1>0, FS_RemoveElement
      <4>2. Cardinality(s \ {y}) = n
        BY <2>1, <2>2, <4>1
      <4>. QED
        BY <2>1, <4>2
    <3>. QED
      BY <3>1, <3>2
  <2>. QED
    BY <2>1, <2>2
<1> HIDE DEF Good
<1>3. Good = Nat
  <2>1. Good \subseteq Nat
    BY DEF Good
  <2>. QED
    BY <1>1, <1>2, <2>1, Counting
<1>4. \A s \in SUBSET S : s \in T
  BY <1>0, <1>3 DEF Good
<1>. QED
  BY <1>4

First(s) == CHOOSE x \in s : TRUE

(* total[s] is the sum of f over s, taken in the order of First. *)
Adds(total, f, S) ==
  total = [s \in SUBSET S |-> IF s = {} THEN 0 ELSE f[First(s)] + total[s \ {First(s)}]]

(* It is, whatever element is taken first. *)
Sums(total, f, S) ==
  /\ total \in [SUBSET S -> Nat]
  /\ total[{}] = 0
  /\ \A s \in SUBSET S : \A y \in s : total[s] = f[y] + total[s \ {y}]

(* A recursion over the subsets of a finite set has a solution, and every   *)
(* solution stays in the set that its steps do not leave.                   *)
Recurs(h, S, base, pick, step) ==
  h = [s \in SUBSET S |-> IF s = {} THEN base ELSE step[<<pick[s], h[s \ {pick[s]}]>>]]

LEMMA RecursionStays ==
  ASSUME NEW S, IsFiniteSet(S), NEW V, NEW base \in V,
         NEW pick, \A s \in SUBSET S : s # {} => pick[s] \in s,
         NEW step, \A x \in S : \A v \in V : step[<<x, v>>] \in V,
         NEW h, Recurs(h, S, base, pick, step)
  PROVE  h \in [SUBSET S -> V]
<1> DEFINE T == {s \in SUBSET S : h[s] \in V}
<1>0. /\ h = [s \in SUBSET S |-> h[s]]
      /\ \A s \in SUBSET S : h[s] = IF s = {} THEN base ELSE step[<<pick[s], h[s \ {pick[s]}]>>]
  BY DEF Recurs
<1>1. {} \in T
  BY <1>0
<1>2. \A s \in SUBSET S : s # {} /\ (\A y \in s : s \ {y} \in T) => s \in T
  <2> SUFFICES ASSUME NEW s \in SUBSET S, s # {}, \A y \in s : s \ {y} \in T
               PROVE  s \in T
    OBVIOUS
  <2>1. pick[s] \in s /\ pick[s] \in S
    OBVIOUS
  <2>2. h[s \ {pick[s]}] \in V
    BY <2>1
  <2>. QED
    BY <1>0, <2>1, <2>2
<1> HIDE DEF T
<1>3. T = SUBSET S
  <2>1. T \in SUBSET (SUBSET S)
    BY DEF T
  <2>. QED
    BY <1>1, <1>2, <2>1, Enlarging
<1>. QED
  BY <1>0, <1>3 DEF T

LEMMA Recursion ==
  ASSUME NEW S, IsFiniteSet(S), NEW V, NEW base \in V,
         NEW pick, \A s \in SUBSET S : s # {} => pick[s] \in s,
         NEW step, \A x \in S : \A v \in V : step[<<x, v>>] \in V
  PROVE  \E h : Recurs(h, S, base, pick, step)
<1> DEFINE Small(n) == {s \in SUBSET S : Cardinality(s) <= n}
           Solves(h, n) ==
             \A s \in Small(n) : h[s] = IF s = {} THEN base ELSE step[<<pick[s], h[s \ {pick[s]}]>>]
           Good == {n \in Nat : \E h \in [Small(n) -> V] : Solves(h, n)}
<1>0. /\ \A s \in SUBSET S : IsFiniteSet(s) /\ Cardinality(s) \in Nat
      /\ \A s \in SUBSET S : s # {} => Cardinality(s \ {pick[s]}) = Cardinality(s) - 1
  <2>1. \A s \in SUBSET S : IsFiniteSet(s) /\ Cardinality(s) \in Nat
    BY FS_Subset, FS_CardinalityType
  <2>2. \A s \in SUBSET S : s # {} => Cardinality(s \ {pick[s]}) = Cardinality(s) - 1
    BY <2>1, FS_RemoveElement
  <2>. QED
    BY <2>1, <2>2
<1>1. 0 \in Good
  <2> DEFINE h == [s \in Small(0) |-> base]
  <2>1. \A s \in Small(0) : s = {}
    BY <1>0, FS_EmptySet
  <2>2. h \in [Small(0) -> V] /\ Solves(h, 0)
    BY <2>1
  <2>. QED
    BY <2>2
<1>2. ASSUME NEW n \in Good PROVE n + 1 \in Good
  <2>1. PICK h \in [Small(n) -> V] : Solves(h, n)
    BY <1>2
  <2>2. n \in Nat
    BY <1>2
  <2> DEFINE g == [s \in Small(n + 1) |->
                     IF s = {} THEN base ELSE step[<<pick[s], h[s \ {pick[s]}]>>]]
  <2>3. \A s \in Small(n + 1) : s # {} => s \ {pick[s]} \in Small(n) /\ pick[s] \in S
    BY <1>0, <2>2
  <2>4. g \in [Small(n + 1) -> V]
    BY <2>1, <2>3
  <2>5. \A s \in Small(n) : s \in Small(n + 1) /\ g[s] = h[s]
    BY <1>0, <2>1, <2>2
  <2>6. Solves(g, n + 1)
    BY <2>3, <2>5
  <2> HIDE DEF g, Small, Solves
  <2>. QED
    BY <2>2, <2>4, <2>6
<1> HIDE DEF Good
<1>3. Good = Nat
  <2>1. Good \subseteq Nat
    BY DEF Good
  <2>. QED
    BY <1>1, <1>2, <2>1, Counting
<1>4. Cardinality(S) \in Good /\ Small(Cardinality(S)) = SUBSET S
  <2>1. Cardinality(S) \in Nat
    BY <1>0
  <2>2. \A s \in SUBSET S : Cardinality(s) <= Cardinality(S)
    BY FS_Subset
  <2>. QED
    BY <1>3, <2>1, <2>2
<1>5. PICK h \in [SUBSET S -> V] :
        \A s \in SUBSET S : h[s] = IF s = {} THEN base ELSE step[<<pick[s], h[s \ {pick[s]}]>>]
  BY <1>4 DEF Good
<1>6. Recurs(h, S, base, pick, step)
  BY <1>5 DEF Recurs
<1>. QED
  BY <1>6

LEMMA TotalExists ==
  ASSUME NEW S, IsFiniteSet(S), NEW f \in [S -> Nat]
  PROVE  \E total \in [SUBSET S -> Nat] : Adds(total, f, S)
<1>1. PICK pick : pick = [s \in SUBSET S |-> First(s)]
  OBVIOUS
<1>2. PICK step : step = [p \in S \X Nat |-> f[p[1]] + p[2]]
  OBVIOUS
<1>3. \A s \in SUBSET S : pick[s] = First(s) /\ (s # {} => pick[s] \in s)
  BY <1>1 DEF First
<1>4. \A x \in S : \A v \in Nat : step[<<x, v>>] = f[x] + v /\ step[<<x, v>>] \in Nat
  BY <1>2
<1>0. 0 \in Nat /\ (\A s \in SUBSET S : s # {} => pick[s] \in s)
      /\ \A x \in S : \A v \in Nat : step[<<x, v>>] \in Nat
  BY <1>3, <1>4
<1>5. PICK h : Recurs(h, S, 0, pick, step)
  BY <1>0, Recursion
<1>6. h \in [SUBSET S -> Nat]
  BY <1>0, <1>5, RecursionStays
<1>7. \A s \in SUBSET S : h[s] = IF s = {} THEN 0 ELSE f[First(s)] + h[s \ {First(s)}]
  <2>1. \A s \in SUBSET S :
          h[s] = IF s = {} THEN 0 ELSE step[<<First(s), h[s \ {First(s)}]>>]
    BY <1>3, <1>5 DEF Recurs
  <2>2. \A s \in SUBSET S : s # {} => First(s) \in S /\ h[s \ {First(s)}] \in Nat
    BY <1>3, <1>6
  <2>. QED
    BY <1>4, <2>1, <2>2
<1>8. Adds(h, f, S)
  BY <1>6, <1>7 DEF Adds
<1>. QED
  BY <1>6, <1>8

(* The order does not matter. *)
LEMMA AnyFirst ==
  ASSUME NEW S, IsFiniteSet(S), NEW f \in [S -> Nat],
         NEW total \in [SUBSET S -> Nat], Adds(total, f, S)
  PROVE  Sums(total, f, S)
<1> DEFINE T == {s \in SUBSET S : \A y \in s : total[s] = f[y] + total[s \ {y}]}
<1>1. \A s \in SUBSET S :
        total[s] = IF s = {} THEN 0 ELSE f[First(s)] + total[s \ {First(s)}]
  BY DEF Adds
<1>2. {} \in T
  OBVIOUS
<1>3. ASSUME NEW s \in SUBSET S, s # {}, \A y \in s : s \ {y} \in T
      PROVE  s \in T
  <2> SUFFICES ASSUME NEW y \in s PROVE total[s] = f[y] + total[s \ {y}]
    OBVIOUS
  <2>0. PICK x \in s : x = First(s)
    BY <1>3 DEF First
  <2>1. total[s] = f[x] + total[s \ {x}]
    BY <1>1, <1>3, <2>0
  <2>2. CASE x = y
    BY <2>1, <2>2
  <2>3. CASE x # y
    <3>1. y \in s \ {x} /\ x \in s \ {y} /\ (s \ {x}) \ {y} = (s \ {y}) \ {x}
      BY <2>3
    <3>2. total[s \ {x}] = f[y] + total[(s \ {x}) \ {y}]
      BY <1>3, <3>1
    <3>3. total[s \ {y}] = f[x] + total[(s \ {y}) \ {x}]
      BY <1>3, <3>1
    <3>4. f[x] \in Nat /\ f[y] \in Nat /\ total[(s \ {x}) \ {y}] \in Nat
      OBVIOUS
    <3> DEFINE a == f[x]
               b == f[y]
               r == total[(s \ {x}) \ {y}]
    <3>5. total[s] = a + (b + r) /\ total[s \ {y}] = a + r
      BY <2>1, <3>1, <3>2, <3>3
    <3>6. a \in Nat /\ b \in Nat /\ r \in Nat
      BY <3>4
    <3> HIDE DEF a, b, r
    <3>7. a + (b + r) = b + (a + r)
      BY <3>6
    <3>8. total[s] = b + total[s \ {y}]
      BY <3>5, <3>7
    <3>. QED
      BY <3>8 DEF b
  <2>. QED
    BY <2>2, <2>3
<1> HIDE DEF T
<1>4. T = SUBSET S
  <2>1. T \in SUBSET (SUBSET S)
    BY DEF T
  <2>. QED
    BY <1>2, <1>3, <2>1, Enlarging
<1>5. total[{}] = 0
  BY <1>1
<1>. QED
  BY <1>4, <1>5 DEF Sums, T

(* The sum over two sets that do not meet. *)
LEMMA SumOfUnion ==
  ASSUME NEW S, IsFiniteSet(S), NEW f \in [S -> Nat], NEW total, Sums(total, f, S),
         NEW A \in SUBSET S, NEW B \in SUBSET S, A \cap B = {}
  PROVE  total[A \cup B] = total[A] + total[B]
<1> DEFINE T == {s \in SUBSET A : total[s \cup B] = total[s] + total[B]}
<1>0. /\ IsFiniteSet(A) /\ total \in [SUBSET S -> Nat] /\ total[{}] = 0
      /\ \A s \in SUBSET S : \A y \in s : total[s] = f[y] + total[s \ {y}]
  BY FS_Subset DEF Sums
<1>1. {} \in T
  <2>1. total[B] \in Nat /\ {} \cup B = B
    BY <1>0
  <2>. QED
    BY <1>0, <2>1
<1>2. ASSUME NEW s \in SUBSET A, s # {}, \A y \in s : s \ {y} \in T
      PROVE  s \in T
  <2>1. PICK y : y \in s
    BY <1>2
  <2>2. total[(s \ {y}) \cup B] = total[s \ {y}] + total[B]
    BY <1>2, <2>1
  <2>3. (s \cup B) \ {y} = (s \ {y}) \cup B /\ s \cup B \in SUBSET S
    BY <2>1
  <2>4. total[s \cup B] = f[y] + total[(s \ {y}) \cup B]
    BY <1>0, <2>1, <2>3
  <2>5. total[s] = f[y] + total[s \ {y}]
    BY <1>0, <2>1
  <2>6. f[y] \in Nat /\ total[s \ {y}] \in Nat /\ total[B] \in Nat
    BY <1>0, <2>1
  <2>. QED
    BY <2>2, <2>4, <2>5, <2>6
<1> HIDE DEF T
<1>3. T = SUBSET A
  <2>1. T \in SUBSET (SUBSET A)
    BY DEF T
  <2>. QED
    BY <1>0, <1>1, <1>2, <2>1, Enlarging
<1>4. A \in T
  BY <1>3
<1>. QED
  BY <1>4 DEF T

(* Sums over sets that correspond one to one, element by element equal. *)
LEMMA SumOfImage ==
  ASSUME NEW S, IsFiniteSet(S), NEW f \in [S -> Nat], NEW total, Sums(total, f, S),
         NEW R, NEW g \in [R -> Nat], NEW sum, Sums(sum, g, R),
         NEW to \in [S -> R], \A x, y \in S : to[x] = to[y] => x = y,
         \A x \in S : g[to[x]] = f[x]
  PROVE  total[S] = sum[{to[x] : x \in S}]
<1> DEFINE Image(s) == {to[x] : x \in s}
           T == {s \in SUBSET S : total[s] = sum[Image(s)]}
<1>0. /\ total[{}] = 0 /\ sum[{}] = 0
      /\ \A s \in SUBSET S : \A y \in s : total[s] = f[y] + total[s \ {y}]
      /\ \A s \in SUBSET R : \A y \in s : sum[s] = g[y] + sum[s \ {y}]
  BY DEF Sums
<1>1. {} \in T
  <2>1. Image({}) = {}
    OBVIOUS
  <2>. QED
    BY <1>0, <2>1
<1>2. ASSUME NEW s \in SUBSET S, s # {}, \A y \in s : s \ {y} \in T
      PROVE  s \in T
  <2>1. PICK y : y \in s
    BY <1>2
  <2>2. total[s \ {y}] = sum[Image(s \ {y})]
    BY <1>2, <2>1
  <2>3. Image(s \ {y}) = Image(s) \ {to[y]} /\ Image(s) \in SUBSET R /\ to[y] \in Image(s)
    BY <2>1
  <2>4. total[s] = f[y] + total[s \ {y}]
    BY <1>0, <2>1
  <2>5. sum[Image(s)] = g[to[y]] + sum[Image(s) \ {to[y]}]
    BY <1>0, <2>3
  <2>6. g[to[y]] = f[y]
    BY <2>1
  <2>. QED
    BY <2>2, <2>3, <2>4, <2>5, <2>6
<1> HIDE DEF T
<1>3. T = SUBSET S
  <2>1. T \in SUBSET (SUBSET S)
    BY DEF T
  <2>. QED
    BY <1>1, <1>2, <2>1, Enlarging
<1>4. S \in T
  BY <1>3
<1>. QED
  BY <1>4 DEF T

(* Every solution of the recursion gives the sum. *)
LEMMA SumIs ==
  ASSUME NEW S, IsFiniteSet(S), NEW f \in [S -> Nat], NEW g, Adds(g, f, S),
         NEW total, Sums(total, f, S)
  PROVE  g[S] = total[S]
<1> DEFINE T == {s \in SUBSET S : g[s] = total[s]}
<1>0. /\ total[{}] = 0 /\ \A s \in SUBSET S : \A y \in s : total[s] = f[y] + total[s \ {y}]
      /\ \A s \in SUBSET S : g[s] = IF s = {} THEN 0 ELSE f[First(s)] + g[s \ {First(s)}]
  BY DEF Sums, Adds
<1>1. {} \in T
  BY <1>0
<1>2. ASSUME NEW s \in SUBSET S, s # {}, \A y \in s : s \ {y} \in T
      PROVE  s \in T
  <2>1. First(s) \in s
    BY <1>2 DEF First
  <2>2. g[s] = f[First(s)] + g[s \ {First(s)}]
    BY <1>0, <1>2
  <2>3. total[s] = f[First(s)] + total[s \ {First(s)}]
    BY <1>0, <2>1
  <2>4. g[s \ {First(s)}] = total[s \ {First(s)}]
    BY <1>2, <2>1
  <2>. QED
    BY <2>2, <2>3, <2>4
<1> HIDE DEF T
<1>3. T = SUBSET S
  <2>1. T \in SUBSET (SUBSET S)
    BY DEF T
  <2>. QED
    BY <1>1, <1>2, <2>1, Enlarging
<1>4. S \in T
  BY <1>3
<1>. QED
  BY <1>4 DEF T

LEMMA SumExists ==
  ASSUME NEW S, IsFiniteSet(S), NEW f \in [S -> Nat]
  PROVE  \E total : Sums(total, f, S)
BY TotalExists, AnyFirst

(* The sum over a smaller set. *)
Narrowed(share, total, D) == share = [s \in SUBSET D |-> total[s]]

LEMMA SumOfPart ==
  ASSUME NEW S, NEW f, NEW total, Sums(total, f, S), NEW D, D \subseteq S,
         NEW g, \A x \in D : g[x] = f[x],
         NEW share, Narrowed(share, total, D)
  PROVE  Sums(share, g, D)
<1>1. /\ total \in [SUBSET S -> Nat] /\ total[{}] = 0
      /\ \A s \in SUBSET S : \A y \in s : total[s] = f[y] + total[s \ {y}]
  BY DEF Sums
<1>0. share = [s \in SUBSET D |-> total[s]] /\ \A s \in SUBSET D : s \in SUBSET S
  BY DEF Narrowed
<1>2. share \in [SUBSET D -> Nat] /\ share[{}] = 0
  BY <1>0, <1>1
<1>3. ASSUME NEW s \in SUBSET D, NEW y \in s PROVE share[s] = g[y] + share[s \ {y}]
  <2>1. total[s] = f[y] + total[s \ {y}] /\ g[y] = f[y]
    BY <1>0, <1>1
  <2>2. share[s] = total[s] /\ share[s \ {y}] = total[s \ {y}]
    BY <1>0
  <2>. QED
    BY <2>1, <2>2
<1>. QED
  BY <1>2, <1>3 DEF Sums

(* A finite set of numbers has a greatest and a least one. *)
LEMMA GreatestOne ==
  ASSUME NEW t \in SUBSET Int, IsFiniteSet(t), t # {}
  PROVE  \E x \in t : \A y \in t : x >= y
<1> DEFINE T == {s \in SUBSET t : s # {} => \E x \in s : \A y \in s : x >= y}
<1>1. {} \in T
  OBVIOUS
<1>2. \A s \in SUBSET t : s # {} /\ (\A y \in s : s \ {y} \in T) => s \in T
  <2> SUFFICES ASSUME NEW s \in SUBSET t, s # {}, \A y \in s : s \ {y} \in T
               PROVE  s \in T
    OBVIOUS
  <2>1. PICK z \in s : TRUE
    OBVIOUS
  <2>2. CASE s \ {z} = {}
    BY <2>1, <2>2
  <2>3. CASE s \ {z} # {}
    <3>1. PICK x \in s \ {z} : \A y \in s \ {z} : x >= y
      BY <2>1, <2>3
    <3>2. x \in Int /\ z \in Int /\ \A y \in s : y \in Int
      BY <2>1, <3>1
    <3>3. \E w \in s : \A y \in s : w >= y
      <4>1. CASE x >= z
        BY <3>1, <3>2, <4>1
      <4>2. CASE z >= x
        BY <2>1, <3>1, <3>2, <4>2
      <4>. QED
        BY <3>2, <4>1, <4>2
    <3>. QED
      BY <3>3
  <2>. QED
    BY <2>2, <2>3
<1> HIDE DEF T
<1>3. T = SUBSET t
  <2>1. T \in SUBSET (SUBSET t)
    BY DEF T
  <2>. QED
    BY <1>1, <1>2, <2>1, Enlarging
<1>. QED
  BY <1>3 DEF T

LEMMA LeastOne ==
  ASSUME NEW t \in SUBSET Nat, t # {}
  PROVE  Min(t) \in t /\ \A y \in t : Min(t) <= y
<1>1. \A x, y \in Nat : y < x => <<y, x>> \in OpToRel(<, Nat)
  BY DEF OpToRel
<1>2. \E x \in t : \A y \in t : <<y, x>> \notin OpToRel(<, Nat)
  BY NatLessThanWellFounded, WFMin
<1>3. \E x \in t : \A y \in t : x <= y
  <2>1. PICK x \in t : \A y \in t : ~(y < x)
    BY <1>1, <1>2
  <2>2. \A y \in t : x <= y
    BY <2>1
  <2>. QED
    BY <2>2
<1>. QED
  BY <1>3 DEF Min

-----------------------------------------------------------------------------
(* Lists that are taken from a list *)

(* new has what old has at the given places, each once. *)
Selects(old, places, new) ==
  \E from \in [DOMAIN new -> places] :
    /\ \A m, n \in DOMAIN new : from[m] = from[n] => m = n
    /\ \A i \in places : \E n \in DOMAIN new : from[n] = i
    /\ \A n \in DOMAIN new : new[n] = old[from[n]]

LEMMA SelectsAll ==
  ASSUME NEW s
  PROVE  Selects(s, DOMAIN s, s)
<1> DEFINE from == [n \in DOMAIN s |-> n]
<1>1. from \in [DOMAIN s -> DOMAIN s] /\ \A n \in DOMAIN s : from[n] = n
  OBVIOUS
<1> HIDE DEF from
<1>. QED
  BY <1>1 DEF Selects

LEMMA SelectsFrom ==
  ASSUME NEW s, NEW P \in SUBSET DOMAIN s, NEW r, Selects(s, P, r),
         NEW Q \in SUBSET DOMAIN r, NEW t, Selects(r, Q, t)
  PROVE  \E R \in SUBSET P : Selects(s, R, t)
<1>1. PICK f \in [DOMAIN r -> P] :
        /\ \A m, n \in DOMAIN r : f[m] = f[n] => m = n
        /\ \A n \in DOMAIN r : r[n] = s[f[n]]
  BY DEF Selects
<1>2. PICK g \in [DOMAIN t -> Q] :
        /\ \A m, n \in DOMAIN t : g[m] = g[n] => m = n
        /\ \A n \in DOMAIN t : t[n] = r[g[n]]
  BY DEF Selects
<1> DEFINE R == {f[g[n]] : n \in DOMAIN t}
           from == [n \in DOMAIN t |-> f[g[n]]]
<1>3. \A n \in DOMAIN t : g[n] \in DOMAIN r /\ f[g[n]] \in P
  OBVIOUS
<1>4. R \in SUBSET P
  BY <1>3
<1>5. /\ from \in [DOMAIN t -> R]
      /\ \A m, n \in DOMAIN t : from[m] = from[n] => m = n
      /\ \A i \in R : \E n \in DOMAIN t : from[n] = i
      /\ \A n \in DOMAIN t : t[n] = s[from[n]]
  BY <1>1, <1>2, <1>3
<1> HIDE DEF R, from
<1>6. Selects(s, R, t)
  BY <1>5 DEF Selects
<1>. QED
  BY <1>4, <1>6

(* What splice leaves of a list. *)
LEMMA RemoveAtSelects ==
  ASSUME NEW S, NEW s \in Seq(S), NEW i \in DOMAIN s
  PROVE  RemoveAt(s, i) \in Seq(S) /\ Selects(s, DOMAIN s \ {i}, RemoveAt(s, i))
<1> DEFINE l == Len(s)
           r == RemoveAt(s, i)
           from == [n \in 1..(l - 1) |-> IF n < i THEN n ELSE n + 1]
<1>1. l \in Nat /\ DOMAIN s = 1..l /\ i \in 1..l
  BY LenProperties
<1>2. /\ SubSeq(s, 1, i - 1) \in Seq(S) /\ Len(SubSeq(s, 1, i - 1)) = i - 1
      /\ \A n \in 1..(i - 1) : SubSeq(s, 1, i - 1)[n] = s[n]
  BY <1>1, SubSeqProperties
<1>3. /\ SubSeq(s, i + 1, l) \in Seq(S) /\ Len(SubSeq(s, i + 1, l)) = l - i
      /\ \A n \in 1..(l - i) : SubSeq(s, i + 1, l)[n] = s[i + n]
  BY <1>1, SubSeqProperties
<1>4. /\ r \in Seq(S) /\ Len(r) = l - 1
      /\ \A n \in 1..(i - 1) : r[n] = s[n]
      /\ \A n \in i..(l - 1) : r[n] = s[n + 1]
  <2> HIDE DEF l
  <2>1. PICK a \in Seq(S) : a = SubSeq(s, 1, i - 1)
    BY <1>2
  <2>2. PICK b \in Seq(S) : b = SubSeq(s, i + 1, l)
    BY <1>3
  <2>3. r = a \o b
    BY <2>1, <2>2 DEF RemoveAt, l
  <2>4. /\ Len(a) = i - 1 /\ Len(b) = l - i
        /\ \A n \in 1..(i - 1) : a[n] = s[n]
        /\ \A n \in 1..(l - i) : b[n] = s[i + n]
    BY <1>2, <1>3, <2>1, <2>2
  <2> HIDE DEF r
  <2>5. /\ r \in Seq(S) /\ Len(r) = Len(a) + Len(b)
        /\ \A n \in 1..(Len(a) + Len(b)) : r[n] = IF n <= Len(a) THEN a[n] ELSE b[n - Len(a)]
    BY <2>3, ConcatProperties
  <2>6. \A n \in i..(l - 1) : n - (i - 1) \in 1..(l - i) /\ i + (n - (i - 1)) = n + 1
    BY <1>1
  <2>7. \A n \in i..(l - 1) : r[n] = s[n + 1]
    <3> SUFFICES ASSUME NEW n \in i..(l - 1) PROVE r[n] = s[n + 1]
      OBVIOUS
    <3>1. n \in 1..(l - 1) /\ ~(n <= i - 1) /\ n - (i - 1) \in 1..(l - i)
      BY <1>1
    <3>2. r[n] = b[n - (i - 1)]
      BY <1>1, <2>4, <2>5, <3>1
    <3>. QED
      BY <2>4, <2>6, <3>1, <3>2
  <2>. QED
    BY <1>1, <2>4, <2>5, <2>7
<1>5. DOMAIN r = 1..(l - 1)
  <2> HIDE DEF r, l
  <2>. QED
    BY <1>4, LenProperties
<1> HIDE DEF r, l
<1>6. \A n \in 1..(l - 1) : from[n] \in (1..l) \ {i}
  BY <1>1
<1>7. \A m, n \in 1..(l - 1) : from[m] = from[n] => m = n
  BY <1>1
<1>8. \A j \in (1..l) \ {i} : \E n \in 1..(l - 1) : from[n] = j
  <2> SUFFICES ASSUME NEW j \in (1..l) \ {i} PROVE \E n \in 1..(l - 1) : from[n] = j
    OBVIOUS
  <2>1. CASE j < i
    <3>1. j \in 1..(l - 1) /\ from[j] = j
      BY <1>1, <2>1
    <3>. QED
      BY <3>1
  <2>2. CASE j > i
    <3>1. j - 1 \in 1..(l - 1) /\ from[j - 1] = j
      BY <1>1, <2>2
    <3>. QED
      BY <3>1
  <2>. QED
    BY <1>1, <2>1, <2>2
<1>9. \A n \in 1..(l - 1) : r[n] = s[from[n]]
  BY <1>1, <1>4
<1>10. DOMAIN from = 1..(l - 1)
  OBVIOUS
<1>11. from \in [1..(l - 1) -> (1..l) \ {i}]
  BY <1>6
<1> HIDE DEF from
<1>12. /\ from \in [DOMAIN r -> DOMAIN s \ {i}]
       /\ \A m, n \in DOMAIN r : from[m] = from[n] => m = n
       /\ \A j \in DOMAIN s \ {i} : \E n \in DOMAIN r : from[n] = j
       /\ \A n \in DOMAIN r : r[n] = s[from[n]]
  BY <1>1, <1>5, <1>7, <1>8, <1>9, <1>11
<1>13. Selects(s, DOMAIN s \ {i}, r)
  BY <1>12 DEF Selects
<1>. QED
  BY <1>4, <1>13 DEF r
=============================================================================
