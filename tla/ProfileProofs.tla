--------------------------- MODULE ProfileProofs ---------------------------
(***************************************************************************)
(* Proofs about the profiler and the log of the HAL, for every value of    *)
(* the constants.                                                          *)
(*                                                                         *)
(* HalProfile: the lists only grow at their heads, so what a walk has seen *)
(* is a tail of them.  From where every call stands follow how many copies *)
(* of an entry or an arc there are and how far their sum may stay behind,  *)
(* and from how slabs are cut that no block overlaps another.              *)
(*                                                                         *)
(* HalLog: each job has its invariant.  The digits of a number are proved  *)
(* over the recursive functions themselves: that they exist is a theorem   *)
(* here, and what they give follows by the least counterexample.           *)
(***************************************************************************)
EXTENDS MCLibrary, FiniteSetTheorems, SequenceTheorems, WellFoundedInduction, TLAPS

LEMMA LeastNat ==
  ASSUME NEW T, T \subseteq Nat, T # {}
  PROVE  \E x \in T : \A y \in T : x <= y
<1> DEFINE R == OpToRel(<, Nat)
<1>1. IsWellFoundedOn(R, Nat)
  BY NatLessThanWellFounded
<1>2. \E x \in T : \A y \in T : ~(<<y, x>> \in R)
  <2> HIDE DEF R
  <2>1. QED BY <1>1, WFMin
<1>3. \A x, y \in Nat : <<y, x>> \in R <=> y < x
  BY DEF OpToRel
<1>4. PICK x \in T : \A y \in T : ~(<<y, x>> \in R)
  BY <1>2
<1>5. \A y \in T : ~(y < x)
  BY <1>3, <1>4
<1>6. QED BY <1>5

(***************************************************************************)
(* The sum over a finite set, taken an element at a time: what FoldSet     *)
(* computes, whatever element CHOOSE takes.                                *)
(***************************************************************************)
First(s) == CHOOSE x \in s : TRUE
SumAt(t, s, w) == t[s] = IF s = {} THEN 0 ELSE t[s \ {First(s)}] + w[First(s)]
Adds(t, S, w) == \A s \in SUBSET S : SumAt(t, s, w)
Sums(t, S, w) == t \in [SUBSET S -> Nat] /\ Adds(t, S, w)
SumsUpTo(t, S, w, n) ==
  t \in [SUBSET S -> Nat] /\ \A s \in SUBSET S : Cardinality(s) <= n => SumAt(t, s, w)

LEMMA FirstOf ==
  ASSUME NEW s, s # {}, IsFiniteSet(s)
  PROVE  /\ First(s) \in s /\ Cardinality(s) \in Nat \ {0}
         /\ \A x \in s : Cardinality(s \ {x}) = Cardinality(s) - 1 /\ IsFiniteSet(s \ {x})
<1>1. First(s) \in s
  BY Zenon DEF First
<1>2. Cardinality(s) \in Nat \ {0}
  BY FS_CardinalityType, FS_EmptySet
<1>3. \A x \in s : Cardinality(s \ {x}) = Cardinality(s) - 1 /\ IsFiniteSet(s \ {x})
  BY FS_RemoveElement
<1>4. QED BY <1>1, <1>2, <1>3

LEMMA SumStep ==
  ASSUME NEW S, IsFiniteSet(S), NEW w \in [S -> Nat], NEW n \in Nat, n # 0,
         NEW g, SumsUpTo(g, S, w, n - 1)
  PROVE  \E t : SumsUpTo(t, S, w, n)
<1>1. PICK t : t = [s \in SUBSET S |-> IF Cardinality(s) = n THEN g[s \ {First(s)}] + w[First(s)]
                                       ELSE g[s]]
  OBVIOUS
<1>2. g \in [SUBSET S -> Nat] /\ \A s \in SUBSET S : IsFiniteSet(s) /\ Cardinality(s) \in Nat
  BY FS_Subset, FS_CardinalityType DEF SumsUpTo
<1>3. ASSUME NEW s \in SUBSET S, s # {}
      PROVE  /\ First(s) \in S /\ s \ {First(s)} \in SUBSET S
             /\ Cardinality(s \ {First(s)}) = Cardinality(s) - 1
  BY <1>2, <1>3, FirstOf
<1>4. ASSUME NEW s \in SUBSET S, Cardinality(s) = n
      PROVE  s # {}
  BY <1>4, FS_EmptySet
<1>5. t \in [SUBSET S -> Nat]
  <2>1. ASSUME NEW s \in SUBSET S
        PROVE  (IF Cardinality(s) = n THEN g[s \ {First(s)}] + w[First(s)] ELSE g[s]) \in Nat
    <3>1. CASE Cardinality(s) = n
      <4>1. g[s \ {First(s)}] \in Nat /\ w[First(s)] \in Nat
        BY <1>2, <1>3, <1>4, <3>1
      <4>2. QED BY <3>1, <4>1
    <3>2. CASE Cardinality(s) # n
      BY <1>2, <3>2
    <3>3. QED BY <3>1, <3>2
  <2>2. QED BY <1>1, <2>1
<1>6. ASSUME NEW s \in SUBSET S, Cardinality(s) <= n
      PROVE  SumAt(t, s, w)
  <2>1. CASE s = {}
    <3>1. Cardinality(s) = 0
      BY <2>1, FS_EmptySet
    <3>2. SumAt(g, s, w)
      BY <3>1 DEF SumsUpTo
    <3>3. t[s] = g[s]
      BY ONLY <1>1, <3>1, n # 0, s \in SUBSET S
    <3>4. QED BY <2>1, <3>2, <3>3, Zenon DEF SumAt
  <2>2. CASE s # {}
    <3>1. PICK r : r = s \ {First(s)}
      OBVIOUS
    <3>2. r \in SUBSET S /\ Cardinality(r) = Cardinality(s) - 1
      BY <1>3, <2>2, <3>1
    <3>3. Cardinality(r) # n
      BY <1>2, <1>6, <3>2
    <3>4. t[r] = g[r]
      BY ONLY <1>1, <3>2, <3>3
    <3>5. CASE Cardinality(s) = n
      <4>1. t[s] = g[s \ {First(s)}] + w[First(s)]
        BY ONLY <1>1, <3>5, s \in SUBSET S
      <4>2. QED BY ONLY <2>2, <3>1, <3>4, <4>1, Zenon DEF SumAt
    <3>6. CASE Cardinality(s) # n
      <4>1. t[s] = g[s]
        BY ONLY <1>1, <3>6, s \in SUBSET S
      <4>2. Cardinality(s) <= n - 1
        BY <1>2, <1>6, <3>6
      <4>3. SumAt(g, s, w)
        BY ONLY <4>2, SumsUpTo(g, S, w, n - 1), s \in SUBSET S, Zenon DEF SumsUpTo
      <4>4. QED BY ONLY <2>2, <3>1, <3>4, <4>1, <4>3, Zenon DEF SumAt
    <3>7. QED BY <3>5, <3>6
  <2>3. QED BY <2>1, <2>2
<1>7. QED BY <1>5, <1>6, Zenon DEF SumsUpTo

LEMMA SumUpTo ==
  ASSUME NEW S, IsFiniteSet(S), NEW w \in [S -> Nat]
  PROVE  \A n \in Nat : \E t : SumsUpTo(t, S, w, n)
<1> DEFINE T == {n \in Nat : ~\E t : SumsUpTo(t, S, w, n)}
<1>1. SUFFICES ASSUME T # {} PROVE FALSE
  BY Zenon
<1>2. PICK n \in T : \A m \in T : n <= m
  <2>1. T \subseteq Nat
    OBVIOUS
  <2> HIDE DEF T
  <2>2. QED BY <1>1, <2>1, LeastNat, Zenon
<1>3. n \in Nat /\ ~\E t : SumsUpTo(t, S, w, n)
  BY <1>2, Zenon
<1>4. CASE n = 0
  <2>1. PICK t : t = [s \in SUBSET S |-> 0]
    OBVIOUS
  <2>2. ASSUME NEW s \in SUBSET S, Cardinality(s) <= 0
        PROVE  s = {}
    BY <2>2, FS_Subset, FS_CardinalityType, FS_EmptySet
  <2>3. t \in [SUBSET S -> Nat] /\ \A s \in SUBSET S : t[s] = 0
    BY ONLY <2>1
  <2>4. ASSUME NEW s \in SUBSET S, Cardinality(s) <= 0
        PROVE  SumAt(t, s, w)
    BY <2>2, <2>3, <2>4, Zenon DEF SumAt
  <2>5. SumsUpTo(t, S, w, n)
    BY <1>4, <2>3, <2>4, Zenon DEF SumsUpTo
  <2>6. QED BY <1>3, <2>5, Zenon
<1>5. CASE n # 0
  <2>1. n - 1 \in Nat /\ ~(n <= n - 1)
    BY <1>3, <1>5
  <2>2. n - 1 \notin T
    BY <1>2, <2>1, Zenon
  <2>3. PICK g : SumsUpTo(g, S, w, n - 1)
    BY <2>1, <2>2, Zenon
  <2>4. QED BY <1>3, <1>5, <2>3, SumStep, Zenon
<1>6. QED BY <1>4, <1>5

LEMMA SumExists ==
  ASSUME NEW S, IsFiniteSet(S), NEW w \in [S -> Nat]
  PROVE  \E t : Sums(t, S, w)
<1>1. PICK n : n = Cardinality(S)
  OBVIOUS
<1>2. n \in Nat /\ \A s \in SUBSET S : Cardinality(s) <= n
  BY <1>1, FS_CardinalityType, FS_Subset
<1>3. PICK t : SumsUpTo(t, S, w, n)
  BY <1>2, SumUpTo, Zenon
<1>4. Sums(t, S, w)
  BY <1>2, <1>3, Zenon DEF SumsUpTo, Sums, Adds
<1>5. QED BY <1>4, Zenon

\* Two sums over parts that they share are the same.
LEMMA SumAgrees ==
  ASSUME NEW S, NEW t, NEW v, Adds(t, S, v), NEW R, NEW u, NEW w, Adds(u, R, w),
         NEW Q, Q \subseteq S, Q \subseteq R, IsFiniteSet(Q), \A x \in Q : v[x] = w[x]
  PROVE  t[Q] = u[Q]
<1> DEFINE T == {n \in Nat : \E s \in SUBSET Q : Cardinality(s) = n /\ t[s] # u[s]}
<1>0. \A s \in SUBSET Q : IsFiniteSet(s) /\ Cardinality(s) \in Nat
  BY FS_Subset, FS_CardinalityType
<1>1. SUFFICES ASSUME t[Q] # u[Q] PROVE FALSE
  OBVIOUS
<1>2. T # {}
  <2>1. Q \in SUBSET Q /\ Cardinality(Q) \in Nat
    BY <1>0
  <2>2. Cardinality(Q) \in T
    BY <1>1, <2>1
  <2>3. QED BY <2>2
<1>3. PICK n \in T : \A m \in T : n <= m
  <2>1. T \subseteq Nat
    OBVIOUS
  <2> HIDE DEF T
  <2>2. QED BY <1>2, <2>1, LeastNat, Zenon
<1>4. PICK s \in SUBSET Q : Cardinality(s) = n /\ t[s] # u[s]
  BY <1>3, Zenon
<1>5. s \in SUBSET S /\ s \in SUBSET R /\ SumAt(t, s, v) /\ SumAt(u, s, w)
  <2>1. s \in SUBSET S /\ s \in SUBSET R
    BY <1>4
  <2>2. QED BY <2>1, Zenon DEF Adds
<1>6. s # {}
  BY ONLY <1>4, <1>5, Zenon DEF SumAt
<1>7. PICK r : r = s \ {First(s)}
  OBVIOUS
<1>8. First(s) \in s /\ r \in SUBSET Q /\ Cardinality(r) = n - 1 /\ n - 1 \in Nat /\ n \in Nat
  BY <1>0, <1>4, <1>6, <1>7, FirstOf
<1>9. n - 1 \notin T
  <2>1. ~(n <= n - 1)
    BY ONLY <1>8
  <2>2. QED BY <1>3, <2>1, Zenon
<1>10. t[r] = u[r]
  BY ONLY <1>8, <1>9, Zenon
<1>11. v[First(s)] = w[First(s)]
  <2>1. First(s) \in Q
    BY <1>4, <1>8
  <2>2. QED BY <2>1, Zenon
<1>12. t[s] = u[s]
  BY ONLY <1>5, <1>6, <1>7, <1>10, <1>11, Zenon DEF SumAt
<1>13. QED BY <1>4, <1>12

\* Any element can be taken first.
LEMMA SumAny ==
  ASSUME NEW S, NEW t, NEW w \in [S -> Nat], Sums(t, S, w), IsFiniteSet(S)
  PROVE  \A s \in SUBSET S : \A x \in s : t[s] = t[s \ {x}] + w[x]
<1> DEFINE T == {n \in Nat : \E s \in SUBSET S : \E x \in s : Cardinality(s) = n /\ t[s] # t[s \ {x}] + w[x]}
<1>0. \A s \in SUBSET S : IsFiniteSet(s) /\ Cardinality(s) \in Nat /\ SumAt(t, s, w) /\ t[s] \in Nat
  BY FS_Subset, FS_CardinalityType DEF Sums, Adds
<1>1. SUFFICES ASSUME T # {} PROVE FALSE
  <2>1. T = {} => \A s \in SUBSET S : \A x \in s : t[s] = t[s \ {x}] + w[x]
    BY <1>0, Zenon
  <2>2. QED BY <2>1
<1>2. PICK n \in T : \A m \in T : n <= m
  <2>1. T \subseteq Nat
    OBVIOUS
  <2> HIDE DEF T
  <2>2. QED BY <1>1, <2>1, LeastNat, Zenon
<1>3. PICK s \in SUBSET S : \E x \in s : Cardinality(s) = n /\ t[s] # t[s \ {x}] + w[x]
  BY <1>2, Zenon
<1>4. PICK x \in s : Cardinality(s) = n /\ t[s] # t[s \ {x}] + w[x]
  BY <1>3, Zenon
<1>5. PICK y : y = First(s)
  OBVIOUS
<1>6. /\ y \in s /\ n \in Nat \ {0} /\ n - 1 \in Nat
      /\ \A z \in s : Cardinality(s \ {z}) = n - 1
  BY <1>0, <1>4, <1>5, FirstOf
<1>7. t[s] = t[s \ {y}] + w[y]
  <2>1. s # {}
    BY <1>4
  <2>2. QED BY ONLY <1>0, <1>5, <2>1, s \in SUBSET S, Zenon DEF SumAt
<1>8. x # y
  BY <1>4, <1>7
<1>9. n - 1 \notin T
  <2>1. ~(n <= n - 1)
    BY ONLY <1>6
  <2>2. QED BY <1>2, <2>1, Zenon
<1>10. /\ s \ {y} \in SUBSET S /\ x \in s \ {y} /\ s \ {x} \in SUBSET S /\ y \in s \ {x}
       /\ (s \ {y}) \ {x} = (s \ {x}) \ {y} /\ (s \ {x}) \ {y} \in SUBSET S
  BY <1>4, <1>6, <1>8
<1>11. t[s \ {y}] = t[(s \ {y}) \ {x}] + w[x]
  BY ONLY <1>6, <1>9, <1>10, Zenon
<1>12. t[s \ {x}] = t[(s \ {x}) \ {y}] + w[y]
  <2>1. Cardinality(s \ {x}) = n - 1
    BY ONLY <1>6, x \in s, Zenon
  <2>2. QED BY ONLY <1>6, <1>9, <1>10, <2>1, Zenon
<1>13. PICK a, b, c, d, e : a = t[s \ {y}] /\ b = t[s \ {x}] /\ c = t[(s \ {x}) \ {y}] /\ d = w[x] /\ e = w[y]
  OBVIOUS
<1>14. a \in Nat /\ b \in Nat /\ c \in Nat /\ d \in Nat /\ e \in Nat
  <2>1. a \in Nat /\ b \in Nat /\ c \in Nat
    BY ONLY <1>0, <1>10, <1>13, Zenon
  <2>2. d \in Nat /\ e \in Nat
    BY <1>4, <1>6, <1>13
  <2>3. QED BY <2>1, <2>2
<1>15. t[s] = a + e /\ a = c + d /\ b = c + e
  BY ONLY <1>7, <1>10, <1>11, <1>12, <1>13, Zenon
<1>16. t[s] = b + d
  BY ONLY <1>14, <1>15
<1>17. QED BY ONLY <1>4, <1>13, <1>16, Zenon

-----------------------------------------------------------------------------
(***************************************************************************)
(* The lists of the profiler, as a place of an arc sees them.              *)
(***************************************************************************)
HpArcs == [from : HpCallers, count : Nat]
HpLists == Seq([self : HpFuncs, arcs : Seq(HpArcs)])

\* F is E with one arc more, of c, at place a of entry n.
Grown(E, F, n, a, c) ==
  /\ n \in DOMAIN F /\ DOMAIN F = DOMAIN E \cup {n}
  /\ \A k \in DOMAIN E : F[k].self = E[k].self /\ (k # n => F[k] = E[k])
  /\ F[n].self = c.self /\ a \in DOMAIN F[n].arcs /\ F[n].arcs[a] = Arc(c)
  /\ n \in DOMAIN E =>
       /\ DOMAIN F[n].arcs = DOMAIN E[n].arcs \cup {a} /\ a \notin DOMAIN E[n].arcs
       /\ \A j \in DOMAIN E[n].arcs : F[n].arcs[j] = E[n].arcs[j]
  /\ n \notin DOMAIN E => DOMAIN F[n].arcs = {a} /\ \A k \in DOMAIN E : k < n

\* F is E with another count at place a of entry n.
Bumped(E, F, n, a, v) ==
  /\ n \in DOMAIN E /\ DOMAIN F = DOMAIN E
  /\ \A k \in DOMAIN E : F[k].self = E[k].self /\ (k # n => F[k] = E[k])
  /\ DOMAIN F[n].arcs = DOMAIN E[n].arcs /\ a \in DOMAIN E[n].arcs
  /\ \A j \in DOMAIN E[n].arcs : F[n].arcs[j].from = E[n].arcs[j].from /\ (j # a => F[n].arcs[j] = E[n].arcs[j])
  /\ F[n].arcs[a].count = v

LEMMA PlaceOfSeq ==
  ASSUME NEW S, NEW s \in Seq(S), NEW n \in DOMAIN s
  PROVE  s[n] \in S /\ n \in Nat /\ n \in 1..Len(s) /\ Len(s) \in Nat
OBVIOUS

LEMMA PlaceOfLists ==
  ASSUME NEW E \in HpLists, NEW n \in DOMAIN E
  PROVE  /\ E[n] \in [self : HpFuncs, arcs : Seq(HpArcs)]
         /\ E[n].self \in HpFuncs /\ E[n].arcs \in Seq(HpArcs)
         /\ \A j \in DOMAIN E[n].arcs : /\ E[n].arcs[j] \in HpArcs /\ E[n].arcs[j].from \in HpCallers
                                        /\ E[n].arcs[j].count \in Nat
<1>1. E[n] \in [self : HpFuncs, arcs : Seq(HpArcs)]
  <2>1. E \in Seq([self : HpFuncs, arcs : Seq(HpArcs)])
    BY Zenon DEF HpLists
  <2>2. QED BY ONLY <2>1, PlaceOfSeq, n \in DOMAIN E, Zenon
<1>2. E[n].self \in HpFuncs /\ E[n].arcs \in Seq(HpArcs)
  BY ONLY <1>1
<1>3. \A j \in DOMAIN E[n].arcs : E[n].arcs[j] \in HpArcs
  BY ONLY <1>2, PlaceOfSeq, Zenon
<1>4. \A x \in HpArcs : x.from \in HpCallers /\ x.count \in Nat
  BY DEF HpArcs
<1>5. QED BY <1>1, <1>2, <1>3, <1>4, Zenon

LEMMA NewEntry ==
  ASSUME NEW E \in HpLists, NEW c \in Calls, NEW F, F = Append(E, [self |-> c.self, arcs |-> <<Arc(c)>>])
  PROVE  F \in HpLists /\ \E n : n \notin DOMAIN E /\ Grown(E, F, n, 1, c)
<1>1. PICK x : x = [self |-> c.self, arcs |-> <<Arc(c)>>]
  OBVIOUS
<1>2. Arc(c) \in HpArcs
  BY DEF Arc, HpArcs, Calls
<1>3. PICK y : y = Arc(c)
  OBVIOUS
<1>4. <<y>> \in Seq(HpArcs) /\ DOMAIN <<y>> = {1} /\ <<y>>[1] = y
  BY ONLY <1>2, <1>3
<1>5. x.self = c.self /\ x.arcs = <<y>> /\ c.self \in HpFuncs /\ x \in [self : HpFuncs, arcs : Seq(HpArcs)]
  <2>1. x.self = c.self /\ x.arcs = <<y>> /\ x = [self |-> c.self, arcs |-> <<y>>]
    BY <1>1, <1>3
  <2>2. c.self \in HpFuncs
    BY DEF Calls
  <2>3. QED BY ONLY <1>4, <2>1, <2>2
<1>6. E \in Seq([self : HpFuncs, arcs : Seq(HpArcs)]) /\ F = Append(E, x)
  BY <1>1 DEF HpLists
<1>7. /\ F \in HpLists /\ Len(F) = Len(E) + 1 /\ Len(E) \in Nat
      /\ DOMAIN E = 1..Len(E) /\ DOMAIN F = 1..Len(F)
      /\ \A k \in 1..Len(E) : F[k] = E[k]
      /\ F[Len(E) + 1] = x
  BY ONLY <1>5, <1>6, SMTT(30) DEF HpLists
<1>8. PICK n : n = Len(E) + 1
  OBVIOUS
<1>9. n \in DOMAIN F /\ DOMAIN F = DOMAIN E \cup {n} /\ n \notin DOMAIN E /\ \A k \in DOMAIN E : k < n /\ k # n
  BY ONLY <1>7, <1>8
<1>10. F[n] = x
  BY <1>7, <1>8
<1>11. /\ F[n].self = c.self /\ DOMAIN F[n].arcs = {1} /\ F[n].arcs[1] = Arc(c)
  BY ONLY <1>3, <1>4, <1>5, <1>10
<1>12. \A k \in DOMAIN E : F[k] = E[k]
  BY ONLY <1>7, Zenon
<1>13. Grown(E, F, n, 1, c)
  <2>1. 1 \in {1}
    OBVIOUS
  <2>2. QED BY ONLY <1>9, <1>11, <1>12, <2>1, Zenon DEF Grown
<1>14. QED BY <1>7, <1>9, <1>13, Zenon

LEMMA NewArc ==
  ASSUME NEW E \in HpLists, NEW c \in Calls, NEW n \in DOMAIN E, E[n].self = c.self,
         NEW F, F = [E EXCEPT ![n].arcs = Append(@, Arc(c))]
  PROVE  F \in HpLists /\ \E a : Grown(E, F, n, a, c)
<1>1. PICK y : y = Arc(c)
  OBVIOUS
<1>2. y \in HpArcs
  BY <1>1 DEF Arc, HpArcs, Calls
<1>3. PICK r : r = E[n]
  OBVIOUS
<1>4. r \in [self : HpFuncs, arcs : Seq(HpArcs)]
  BY <1>3, PlaceOfLists
<1>5. PICK q : q = Append(r.arcs, y)
  OBVIOUS
<1>6. PICK s : s = [r EXCEPT !.arcs = q]
  OBVIOUS
<1>7. q \in Seq(HpArcs) /\ DOMAIN q = DOMAIN r.arcs \cup {Len(r.arcs) + 1}
      /\ Len(r.arcs) + 1 \notin DOMAIN r.arcs /\ q[Len(r.arcs) + 1] = y
      /\ \A j \in DOMAIN r.arcs : q[j] = r.arcs[j]
  <2>1. r.arcs \in Seq(HpArcs)
    BY ONLY <1>4
  <2>2. QED BY ONLY <1>2, <1>5, <2>1, SMTT(30)
<1>8. s \in [self : HpFuncs, arcs : Seq(HpArcs)] /\ s.self = r.self /\ s.arcs = q
  BY ONLY <1>4, <1>6, <1>7
<1>9. F = [E EXCEPT ![n] = s]
  BY <1>1, <1>3, <1>5, <1>6
<1>10. E \in Seq([self : HpFuncs, arcs : Seq(HpArcs)])
  BY DEF HpLists
<1>11. F \in HpLists /\ DOMAIN F = DOMAIN E /\ F[n] = s /\ \A k \in DOMAIN E : k # n => F[k] = E[k]
  BY ONLY <1>8, <1>9, <1>10, n \in DOMAIN E DEF HpLists
<1>12. Grown(E, F, n, Len(r.arcs) + 1, c)
  <2>1. PICK a : a = Len(r.arcs) + 1
    OBVIOUS
  <2>2. DOMAIN F[n].arcs = DOMAIN E[n].arcs \cup {a} /\ a \notin DOMAIN E[n].arcs /\ F[n].arcs[a] = Arc(c)
        /\ F[n].self = c.self /\ F[n].self = E[n].self /\ a \in DOMAIN F[n].arcs
        /\ \A j \in DOMAIN E[n].arcs : F[n].arcs[j] = E[n].arcs[j]
    BY ONLY <1>1, <1>3, <1>7, <1>8, <1>11, <2>1, E[n].self = c.self
  <2>3. DOMAIN F = DOMAIN E \cup {n} /\ n \in DOMAIN F
    BY ONLY <1>11, n \in DOMAIN E
  <2>4. \A k \in DOMAIN E : F[k].self = E[k].self /\ (k # n => F[k] = E[k])
    BY ONLY <1>11, <2>2, Zenon
  <2>5. QED BY ONLY <2>1, <2>2, <2>3, <2>4, n \in DOMAIN E, Zenon DEF Grown
<1>13. QED BY <1>11, <1>12, Zenon

LEMMA NewCount ==
  ASSUME NEW E \in HpLists, NEW n \in DOMAIN E, NEW a \in DOMAIN E[n].arcs, NEW v \in Nat,
         NEW F, F = [E EXCEPT ![n].arcs[a].count = v]
  PROVE  F \in HpLists /\ Bumped(E, F, n, a, v)
<1>1. PICK r : r = E[n]
  OBVIOUS
<1>2. r \in [self : HpFuncs, arcs : Seq(HpArcs)]
  BY <1>1, PlaceOfLists
<1>3. PICK y : y = [r.arcs[a] EXCEPT !.count = v]
  OBVIOUS
<1>4. PICK q : q = [r.arcs EXCEPT ![a] = y]
  OBVIOUS
<1>5. PICK s : s = [r EXCEPT !.arcs = q]
  OBVIOUS
<1>6. r.arcs \in Seq(HpArcs) /\ a \in DOMAIN r.arcs
  BY <1>1, <1>2
<1>7. r.arcs[a] \in HpArcs
  BY ONLY <1>6
<1>8. y \in HpArcs /\ y.from = r.arcs[a].from /\ y.count = v
  BY ONLY <1>3, <1>7, v \in Nat DEF HpArcs
<1>9. q \in Seq(HpArcs) /\ DOMAIN q = DOMAIN r.arcs /\ q[a] = y
      /\ \A j \in DOMAIN r.arcs : j # a => q[j] = r.arcs[j]
  BY ONLY <1>4, <1>6, <1>8
<1>10. s \in [self : HpFuncs, arcs : Seq(HpArcs)] /\ s.self = r.self /\ s.arcs = q
  BY ONLY <1>2, <1>5, <1>9
<1>11. F = [E EXCEPT ![n] = s]
  BY <1>1, <1>3, <1>4, <1>5
<1>12. E \in Seq([self : HpFuncs, arcs : Seq(HpArcs)])
  BY DEF HpLists
<1>13. F \in HpLists /\ DOMAIN F = DOMAIN E /\ F[n] = s /\ \A k \in DOMAIN E : k # n => F[k] = E[k]
  BY ONLY <1>10, <1>11, <1>12, n \in DOMAIN E DEF HpLists
<1>14. \A j \in DOMAIN q : q[j].from = r.arcs[j].from
  BY ONLY <1>8, <1>9, Zenon
<1>15. Bumped(E, F, n, a, v)
  <2>1. \A k \in DOMAIN E : F[k].self = E[k].self /\ (k # n => F[k] = E[k])
    BY ONLY <1>1, <1>10, <1>13, Zenon
  <2>2. DOMAIN F[n].arcs = DOMAIN E[n].arcs /\ a \in DOMAIN E[n].arcs /\ F[n].arcs[a].count = v
    BY ONLY <1>1, <1>6, <1>8, <1>9, <1>10, <1>13, Zenon
  <2>3. \A j \in DOMAIN E[n].arcs : F[n].arcs[j].from = E[n].arcs[j].from /\ (j # a => F[n].arcs[j] = E[n].arcs[j])
    BY ONLY <1>1, <1>9, <1>10, <1>13, <1>14, Zenon
  <2>4. QED BY ONLY <1>13, <2>1, <2>2, <2>3, n \in DOMAIN E, Zenon DEF Bumped
<1>16. QED BY <1>13, <1>15

\* The walk finds the youngest.
LEMMA YoungestFound ==
  ASSUME NEW n \in Nat, NEW T, T \subseteq 1..n
  PROVE  /\ Youngest(T) \in Nat /\ (Youngest(T) = 0 <=> T = {})
         /\ T # {} => Youngest(T) \in T /\ \A j \in T : j <= Youngest(T)
<1>1. CASE T = {}
  BY <1>1 DEF Youngest
<1>2. CASE T # {}
  <2> DEFINE U == {u \in Nat : \E k \in T : u = n - k}
  <2>1. U \subseteq Nat /\ U # {}
    <3>1. PICK k : k \in T
      BY <1>2
    <3>2. n - k \in Nat
      BY <3>1
    <3>3. n - k \in U
      BY <3>1, <3>2
    <3>4. QED BY <3>3
  <2>2. PICK u \in U : \A v \in U : u <= v
    <3> HIDE DEF U
    <3>1. QED BY <2>1, LeastNat, Zenon
  <2>3. PICK k \in T : u = n - k
    BY <2>2
  <2>4. \A j \in T : n - k <= n - j
    <3>1. ASSUME NEW j \in T PROVE n - k <= n - j
      <4>1. n - j \in Nat
        OBVIOUS
      <4>2. n - j \in U
        BY <4>1
      <4>3. QED BY <2>2, <2>3, <4>2
    <3>2. QED BY <3>1
  <2>5. \A j \in T : j <= k
    BY <2>4
  <2>6. Youngest(T) \in T /\ \A j \in T : j <= Youngest(T)
    BY <1>2, <2>3, <2>5, Zenon DEF Youngest
  <2>7. Youngest(T) \in Nat /\ Youngest(T) # 0
    <3>1. PICK y : y = Youngest(T)
      OBVIOUS
    <3>2. y \in T
      BY <2>6, <3>1, Zenon
    <3>3. y \in 1..n
      BY <3>2
    <3>4. QED BY ONLY <3>1, <3>3
  <2>8. QED BY <1>2, <2>6, <2>7, Zenon
<1>3. QED BY <1>1, <1>2

(***************************************************************************)
(* How many entries a function has and how many copies an arc in each.     *)
(***************************************************************************)
OneOf(E, f) == \A k, l \in DOMAIN E : E[k].self = f /\ E[l].self = f => k = l
TwoOf(E, f) == \A k, l, m \in DOMAIN E :
                 E[k].self = f /\ E[l].self = f /\ E[m].self = f => k = l \/ l = m \/ k = m
OneArc(s, q) == \A i, j \in DOMAIN s : s[i].from = q /\ s[j].from = q => i = j
TwoArcs(s, q) == \A i, j, h \in DOMAIN s :
                   s[i].from = q /\ s[j].from = q /\ s[h].from = q => i = j \/ j = h \/ i = h
Newest(E, k) == \A l \in DOMAIN E : E[l].self = E[k].self => l <= k
NoArc(s, q) == \A j \in DOMAIN s : s[j].from # q

\* Of a function two entries, and only the younger with two copies of an arc.
FewIn(E) ==
  /\ \A f \in HpFuncs : TwoOf(E, f)
  /\ \A k \in DOMAIN E : \A q \in HpCallers :
       TwoArcs(E[k].arcs, q) /\ (~Newest(E, k) => OneArc(E[k].arcs, q))

\* What a walk of c that found no entry may still meet when it records.
Missed(E, f) == OneOf(E, f) /\ \A k \in DOMAIN E : E[k].self = f => \A q \in HpCallers : OneArc(E[k].arcs, q)
\* What a walk of c has found.
Met(E, n, f) == n \in DOMAIN E /\ E[n].self = f /\ Newest(E, n)

LEMMA OneTwo ==
  /\ \A s, q : NoArc(s, q) => OneArc(s, q)
  /\ \A s, q : OneArc(s, q) => TwoArcs(s, q)
  /\ \A E, f : OneOf(E, f) => TwoOf(E, f)
BY Zenon DEF OneOf, TwoOf, NoArc, OneArc, TwoArcs

LEMMA GrownSelf ==
  ASSUME NEW E \in HpLists, NEW F \in HpLists, NEW n, NEW a, NEW c \in Calls, Grown(E, F, n, a, c)
  PROVE  \A k \in DOMAIN F : /\ F[k].self = IF k = n THEN c.self ELSE E[k].self
                             /\ k # n => k \in DOMAIN E /\ F[k] = E[k]
                             /\ k \in Nat
<1>1. DOMAIN F = DOMAIN E \cup {n} /\ F[n].self = c.self
      /\ \A k \in DOMAIN E : F[k].self = E[k].self /\ (k # n => F[k] = E[k])
  BY Zenon DEF Grown
<1>2. \A k \in DOMAIN F : k # n => k \in DOMAIN E
  BY ONLY <1>1
<1>3. \A k \in DOMAIN F : k \in Nat
  BY PlaceOfSeq, Zenon DEF HpLists
<1>4. QED BY ONLY <1>1, <1>2, <1>3, Zenon

\* Recording in a new entry.
LEMMA GrownEntry ==
  ASSUME NEW E \in HpLists, NEW F \in HpLists, NEW n, NEW a, NEW c \in Calls, Grown(E, F, n, a, c),
         n \notin DOMAIN E, FewIn(E), Missed(E, c.self)
  PROVE  /\ FewIn(F)
         /\ \A f \in HpFuncs : f # c.self => (Missed(E, f) => Missed(F, f))
         /\ (\A k \in DOMAIN E : E[k].self # c.self) => Missed(F, c.self)
         /\ \A m, f : f # c.self /\ Met(E, m, f) => Met(F, m, f) /\ F[m] = E[m]
         /\ \A q : OneArc(F[n].arcs, q)
<1>1. /\ \A k \in DOMAIN E : k \in DOMAIN F /\ k # n /\ F[k] = E[k] /\ k < n
      /\ n \in DOMAIN F /\ F[n].self = c.self /\ DOMAIN F[n].arcs = {a}
  <2>1. DOMAIN F = DOMAIN E \cup {n} /\ F[n].self = c.self /\ n \in DOMAIN F /\ DOMAIN F[n].arcs = {a}
        /\ \A k \in DOMAIN E : (k # n => F[k] = E[k]) /\ k < n
    BY Zenon DEF Grown
  <2>2. \A k \in DOMAIN E : k \in DOMAIN F /\ k # n
    BY ONLY <2>1, n \notin DOMAIN E
  <2>3. QED BY ONLY <2>1, <2>2, Zenon
<1>2. \A k \in DOMAIN F : k \in Nat /\ (k = n \/ k \in DOMAIN E)
  BY GrownSelf, Zenon
<1>3. \A q : OneArc(F[n].arcs, q) /\ TwoArcs(F[n].arcs, q)
  <2>1. ASSUME NEW q PROVE OneArc(F[n].arcs, q)
    <3>1. \A i, j \in DOMAIN F[n].arcs : i = j
      BY ONLY <1>1
    <3>2. QED BY ONLY <3>1, Zenon DEF OneArc
  <2>2. QED BY <2>1, OneTwo, Zenon
<1>4. \A f \in HpFuncs : TwoOf(F, f)
  <2>1. ASSUME NEW f \in HpFuncs PROVE TwoOf(F, f)
    <3>1. CASE f = c.self
      <4>1. OneOf(E, c.self)
        BY Zenon DEF Missed
      <4>2. QED BY ONLY <1>1, <1>2, <3>1, <4>1, SMT, Zenon DEF TwoOf, OneOf
    <3>2. CASE f # c.self
      <4>1. TwoOf(E, f)
        BY Zenon DEF FewIn
      <4>2. QED BY ONLY <1>1, <1>2, <3>2, <4>1, SMT, Zenon DEF TwoOf
    <3>3. QED BY <3>1, <3>2
  <2>2. QED BY <2>1
<1>5. ASSUME NEW k \in DOMAIN E, ~Newest(F, k)
      PROVE  ~Newest(E, k) \/ E[k].self = c.self
  <2>1. CASE E[k].self = c.self
    BY <2>1
  <2>2. CASE E[k].self # c.self
    BY ONLY <1>1, <1>2, <1>5, <2>2, k \in DOMAIN E, Zenon DEF Newest
  <2>3. QED BY <2>1, <2>2
<1>6. ASSUME NEW k \in DOMAIN F, NEW q \in HpCallers
      PROVE  TwoArcs(F[k].arcs, q) /\ (~Newest(F, k) => OneArc(F[k].arcs, q))
  <2>1. CASE k = n
    BY <2>1, <1>3
  <2>2. CASE k # n
    <3>1. k \in DOMAIN E /\ F[k] = E[k]
      BY <1>1, <1>2, <2>2
    <3>2. TwoArcs(E[k].arcs, q) /\ (~Newest(E, k) => OneArc(E[k].arcs, q))
      BY <3>1, Zenon DEF FewIn
    <3>3. E[k].self = c.self => OneArc(E[k].arcs, q)
      BY <3>1, Zenon DEF Missed
    <3>4. QED BY <1>5, <3>1, <3>2, <3>3, Zenon
  <2>3. QED BY <2>1, <2>2
<1>7. FewIn(F)
  BY <1>4, <1>6, Zenon DEF FewIn
<1>8. ASSUME NEW f \in HpFuncs, f # c.self, Missed(E, f)
      PROVE  Missed(F, f)
  BY ONLY <1>1, <1>2, <1>8, Zenon DEF Missed, OneOf
<1>9. ASSUME \A k \in DOMAIN E : E[k].self # c.self
      PROVE  Missed(F, c.self)
  <2>1. \A k \in DOMAIN F : F[k].self = c.self => k = n
    BY ONLY <1>1, <1>2, <1>9, Zenon
  <2>2. QED BY ONLY <1>3, <2>1, Zenon DEF Missed, OneOf
<1>10. ASSUME NEW m, NEW f, f # c.self, Met(E, m, f)
       PROVE  Met(F, m, f) /\ F[m] = E[m]
  <2>1. m \in DOMAIN E /\ E[m].self = f /\ Newest(E, m)
    BY <1>10 DEF Met
  <2>2. m \in DOMAIN F /\ F[m] = E[m]
    BY <1>1, <2>1
  <2>3. Newest(F, m)
    BY ONLY <1>1, <1>2, <1>10, <2>1, <2>2, Zenon DEF Newest
  <2>4. QED BY <2>1, <2>2, <2>3 DEF Met
<1>11. QED BY <1>3, <1>7, <1>8, <1>9, <1>10, Zenon

\* Recording in an entry that is there.
LEMMA GrownArc ==
  ASSUME NEW E \in HpLists, NEW F \in HpLists, NEW n, NEW a, NEW c \in Calls, Grown(E, F, n, a, c),
         n \in DOMAIN E, FewIn(E), Newest(E, n), OneArc(E[n].arcs, c.from), E[n].self = c.self
  PROVE  /\ FewIn(F)
         /\ \A f \in HpFuncs : Missed(E, f) /\ (f = c.self => NoArc(E[n].arcs, c.from)) => Missed(F, f)
         /\ \A m, f : Met(E, m, f) => Met(F, m, f)
         /\ \A k \in DOMAIN E : \A q : (k = n => q # c.from \/ NoArc(E[n].arcs, c.from)) =>
              (OneArc(E[k].arcs, q) => OneArc(F[k].arcs, q))
         /\ \A k \in DOMAIN E : \A j \in DOMAIN E[k].arcs :
              j \in DOMAIN F[k].arcs /\ F[k].arcs[j] = E[k].arcs[j]
<1>1. /\ DOMAIN F = DOMAIN E /\ \A k \in DOMAIN E : F[k].self = E[k].self /\ (k # n => F[k] = E[k])
      /\ F[n].arcs[a].from = c.from /\ a \in DOMAIN F[n].arcs
      /\ DOMAIN F[n].arcs = DOMAIN E[n].arcs \cup {a} /\ a \notin DOMAIN E[n].arcs
      /\ \A j \in DOMAIN E[n].arcs : F[n].arcs[j] = E[n].arcs[j]
  <2>1. Arc(c).from = c.from
    BY DEF Arc
  <2>2. DOMAIN F = DOMAIN E
    <3>1. DOMAIN F = DOMAIN E \cup {n}
      BY Zenon DEF Grown
    <3>2. QED BY ONLY <3>1, n \in DOMAIN E
  <2>3. QED BY <2>1, <2>2, Zenon DEF Grown
<1>2. /\ \A j \in DOMAIN F[n].arcs : j = a \/ j \in DOMAIN E[n].arcs
      /\ \A j \in DOMAIN E[n].arcs : j \in DOMAIN F[n].arcs /\ j # a
  BY ONLY <1>1
<1>3. \A k \in DOMAIN E : Newest(F, k) <=> Newest(E, k)
  BY ONLY <1>1, Zenon DEF Newest
<1>4. \A f : (TwoOf(F, f) <=> TwoOf(E, f)) /\ (OneOf(F, f) <=> OneOf(E, f))
  <2>1. \A f : TwoOf(F, f) <=> TwoOf(E, f)
    BY ONLY <1>1, SMTT(30), ZenonT(40) DEF TwoOf
  <2>2. \A f : OneOf(F, f) <=> OneOf(E, f)
    BY ONLY <1>1, SMTT(30), ZenonT(40) DEF OneOf
  <2>3. QED BY <2>1, <2>2
<1>5. ASSUME NEW q, TwoArcs(E[n].arcs, q)
      PROVE  TwoArcs(F[n].arcs, q)
  <2>1. CASE q = c.from
    <3>1. OneArc(E[n].arcs, q)
      BY <2>1
    <3>2. QED BY ONLY <1>1, <1>2, <3>1, SMT, Zenon DEF TwoArcs, OneArc
  <2>2. CASE q # c.from
    <3>1. \A j \in DOMAIN F[n].arcs : F[n].arcs[j].from = q => j \in DOMAIN E[n].arcs /\ E[n].arcs[j].from = q
      BY ONLY <1>1, <1>2, <2>2, Zenon
    <3>2. QED BY ONLY <1>5, <3>1, SMTT(30), ZenonT(40) DEF TwoArcs
  <2>3. QED BY <2>1, <2>2
<1>6. ASSUME NEW q, q # c.from \/ NoArc(E[n].arcs, c.from), OneArc(E[n].arcs, q)
      PROVE  OneArc(F[n].arcs, q)
  <2>1. CASE q # c.from
    <3>1. \A j \in DOMAIN F[n].arcs : F[n].arcs[j].from = q => j \in DOMAIN E[n].arcs /\ E[n].arcs[j].from = q
      BY ONLY <1>1, <1>2, <2>1, ZenonT(40)
    <3>2. QED BY ONLY <1>6, <3>1, ZenonT(40) DEF OneArc
  <2>2. CASE NoArc(E[n].arcs, c.from)
    BY ONLY <1>1, <1>2, <1>6, <2>2, ZenonT(40) DEF OneArc, NoArc
  <2>3. QED BY <1>6, <2>1, <2>2
<1>7. ASSUME NEW k \in DOMAIN F, NEW q \in HpCallers
      PROVE  TwoArcs(F[k].arcs, q) /\ (~Newest(F, k) => OneArc(F[k].arcs, q))
  <2>1. k \in DOMAIN E
    BY <1>1
  <2>2. TwoArcs(E[k].arcs, q) /\ (~Newest(E, k) => OneArc(E[k].arcs, q))
    BY <2>1, Zenon DEF FewIn
  <2>3. CASE k = n
    BY ONLY <1>3, <1>5, <2>1, <2>2, <2>3, Newest(E, n), Zenon
  <2>4. CASE k # n
    BY ONLY <1>1, <1>3, <2>1, <2>2, <2>4, Zenon
  <2>5. QED BY <2>3, <2>4
<1>8. FewIn(F)
  <2>1. \A f \in HpFuncs : TwoOf(F, f)
    BY <1>4, Zenon DEF FewIn
  <2>2. QED BY <1>7, <2>1, Zenon DEF FewIn
<1>9. ASSUME NEW k \in DOMAIN E, NEW q, k = n => q # c.from \/ NoArc(E[n].arcs, c.from), OneArc(E[k].arcs, q)
      PROVE  OneArc(F[k].arcs, q)
  <2>1. CASE k = n
    BY <1>6, <1>9, <2>1, Zenon
  <2>2. CASE k # n
    BY <1>1, <1>9, <2>2, Zenon
  <2>3. QED BY <2>1, <2>2
<1>10. ASSUME NEW f \in HpFuncs, Missed(E, f), f = c.self => NoArc(E[n].arcs, c.from)
       PROVE  Missed(F, f)
  <2>1. OneOf(F, f)
    BY <1>4, <1>10, Zenon DEF Missed
  <2>2. ASSUME NEW k \in DOMAIN F, F[k].self = f, NEW q \in HpCallers
        PROVE  OneArc(F[k].arcs, q)
    <3>1. k \in DOMAIN E /\ E[k].self = f
      BY <1>1, <2>2, Zenon
    <3>2. OneArc(E[k].arcs, q)
      BY <1>10, <3>1, Zenon DEF Missed
    <3>3. k = n => NoArc(E[n].arcs, c.from)
      BY <1>10, <3>1
    <3>4. QED BY <1>9, <3>1, <3>2, <3>3, Zenon
  <2>3. QED BY <2>1, <2>2, Zenon DEF Missed
<1>11. ASSUME NEW m, NEW f, Met(E, m, f)
       PROVE  Met(F, m, f)
  BY ONLY <1>1, <1>3, <1>11, Zenon DEF Met
<1>12. ASSUME NEW k \in DOMAIN E, NEW j \in DOMAIN E[k].arcs
       PROVE  j \in DOMAIN F[k].arcs /\ F[k].arcs[j] = E[k].arcs[j]
  <2>1. CASE k = n
    BY <1>1, <1>2, <2>1, Zenon
  <2>2. CASE k # n
    BY <1>1, <2>2, Zenon
  <2>3. QED BY <2>1, <2>2
<1>13. QED BY <1>8, <1>9, <1>10, <1>11, <1>12, Zenon

\* Counting moves no entry and no arc.
LEMMA BumpedFew ==
  ASSUME NEW E \in HpLists, NEW F \in HpLists, NEW n, NEW a, NEW v, Bumped(E, F, n, a, v)
  PROVE  /\ FewIn(E) => FewIn(F)
         /\ \A f : Missed(E, f) => Missed(F, f)
         /\ \A m, f : Met(E, m, f) => Met(F, m, f)
         /\ \A k \in DOMAIN E : \A q : OneArc(E[k].arcs, q) => OneArc(F[k].arcs, q)
         /\ \A k \in DOMAIN E : DOMAIN F[k].arcs = DOMAIN E[k].arcs /\ 
              \A j \in DOMAIN E[k].arcs : /\ F[k].arcs[j].from = E[k].arcs[j].from
                                          /\ F[k].arcs[j].count = E[k].arcs[j].count \/ (k = n /\ j = a)
<1>1. /\ DOMAIN F = DOMAIN E /\ \A k \in DOMAIN E : F[k].self = E[k].self /\ (k # n => F[k] = E[k])
      /\ DOMAIN F[n].arcs = DOMAIN E[n].arcs
      /\ \A j \in DOMAIN E[n].arcs : F[n].arcs[j].from = E[n].arcs[j].from /\ (j # a => F[n].arcs[j] = E[n].arcs[j])
  BY Zenon DEF Bumped
<1>2. \A k \in DOMAIN E : DOMAIN F[k].arcs = DOMAIN E[k].arcs /\ 
              \A j \in DOMAIN E[k].arcs : /\ F[k].arcs[j].from = E[k].arcs[j].from
                                          /\ F[k].arcs[j].count = E[k].arcs[j].count \/ (k = n /\ j = a)
  <2>1. ASSUME NEW k \in DOMAIN E
        PROVE  DOMAIN F[k].arcs = DOMAIN E[k].arcs /\ 
              \A j \in DOMAIN E[k].arcs : /\ F[k].arcs[j].from = E[k].arcs[j].from
                                          /\ F[k].arcs[j].count = E[k].arcs[j].count \/ (k = n /\ j = a)
    <3>1. CASE k = n
      BY ONLY <1>1, <3>1, Zenon
    <3>2. CASE k # n
      BY ONLY <1>1, <3>2, k \in DOMAIN E, Zenon
    <3>3. QED BY <3>1, <3>2
  <2>2. QED BY <2>1
<1>3. \A k \in DOMAIN E : \A q : (OneArc(E[k].arcs, q) => OneArc(F[k].arcs, q)) /\ (TwoArcs(E[k].arcs, q) => TwoArcs(F[k].arcs, q))
  <2>1. ASSUME NEW k \in DOMAIN E, NEW q
        PROVE  (OneArc(E[k].arcs, q) => OneArc(F[k].arcs, q)) /\ (TwoArcs(E[k].arcs, q) => TwoArcs(F[k].arcs, q))
    <3>1. PICK r, s : r = E[k].arcs /\ s = F[k].arcs
      OBVIOUS
    <3>2. DOMAIN s = DOMAIN r /\ \A j \in DOMAIN r : s[j].from = r[j].from
      BY ONLY <1>2, <3>1, k \in DOMAIN E, Zenon
    <3>3. OneArc(r, q) => OneArc(s, q)
      BY ONLY <3>2, SMTT(30), ZenonT(40) DEF OneArc
    <3>4. TwoArcs(r, q) => TwoArcs(s, q)
      BY ONLY <3>2, SMTT(30), ZenonT(40) DEF TwoArcs
    <3>5. QED BY <3>1, <3>3, <3>4, Zenon
  <2>2. QED BY <2>1
<1>4. \A k \in DOMAIN E : Newest(F, k) <=> Newest(E, k)
  BY ONLY <1>1, Zenon DEF Newest
<1>5. \A f : (TwoOf(F, f) <=> TwoOf(E, f)) /\ (OneOf(F, f) <=> OneOf(E, f))
  <2>1. \A f : TwoOf(F, f) <=> TwoOf(E, f)
    BY ONLY <1>1, SMTT(30), ZenonT(40) DEF TwoOf
  <2>2. \A f : OneOf(F, f) <=> OneOf(E, f)
    BY ONLY <1>1, SMTT(30), ZenonT(40) DEF OneOf
  <2>3. QED BY <2>1, <2>2
<1>6. FewIn(E) => FewIn(F)
  BY ONLY <1>1, <1>3, <1>4, <1>5, Zenon DEF FewIn
<1>7. \A f : Missed(E, f) => Missed(F, f)
  BY ONLY <1>1, <1>3, <1>5, Zenon DEF Missed
<1>8. \A m, f : Met(E, m, f) => Met(F, m, f)
  BY ONLY <1>1, <1>4, Zenon DEF Met
<1>9. QED BY <1>2, <1>3, <1>6, <1>7, <1>8, Zenon

\* What a walk finds.
LEMMA WalkFn ==
  ASSUME NEW c \in Calls, hpEntries \in HpLists
  PROVE  /\ FnOf(c) \in Nat
         /\ FnOf(c) = 0 => \A k \in DOMAIN hpEntries : hpEntries[k].self # c.self
         /\ FnOf(c) # 0 => Met(hpEntries, FnOf(c), c.self)
<1>1. PICK T : T = {k \in DOMAIN hpEntries : hpEntries[k].self = c.self}
  OBVIOUS
<1>2. PICK n \in Nat : T \subseteq 1..n
  <2>1. Len(hpEntries) \in Nat /\ DOMAIN hpEntries = 1..Len(hpEntries)
    BY DEF HpLists
  <2>2. QED BY ONLY <1>1, <2>1
<1>3. FnOf(c) = Youngest(T)
  BY <1>1, Zenon DEF FnOf
<1>4. FnOf(c) \in Nat /\ (FnOf(c) = 0 <=> T = {})
      /\ (T # {} => FnOf(c) \in T /\ \A j \in T : j <= FnOf(c))
  <2>1. /\ Youngest(T) \in Nat /\ (Youngest(T) = 0 <=> T = {})
        /\ T # {} => Youngest(T) \in T /\ \A j \in T : j <= Youngest(T)
    BY ONLY <1>2, YoungestFound, Zenon
  <2>2. QED BY ONLY <1>3, <2>1, Zenon
<1>5. FnOf(c) = 0 => \A k \in DOMAIN hpEntries : hpEntries[k].self # c.self
  BY <1>1, <1>4
<1>6. FnOf(c) # 0 => Met(hpEntries, FnOf(c), c.self)
  BY <1>1, <1>4 DEF Met, Newest
<1>7. QED BY <1>4, <1>5, <1>6

LEMMA WalkArc ==
  ASSUME NEW c \in Calls, hpEntries \in HpLists, NEW fn, fn = 0 \/ Met(hpEntries, fn, c.self)
  PROVE  /\ ArcOf(fn, c) \in Nat
         /\ fn = 0 => ArcOf(fn, c) = 0
         /\ ArcOf(fn, c) = 0 /\ fn # 0 => NoArc(hpEntries[fn].arcs, c.from)
         /\ ArcOf(fn, c) # 0 => /\ fn # 0 /\ ArcOf(fn, c) \in DOMAIN hpEntries[fn].arcs
                                /\ hpEntries[fn].arcs[ArcOf(fn, c)].from = c.from
<1>1. CASE fn = 0
  BY <1>1 DEF ArcOf
<1>2. CASE fn # 0
  <2>1. PICK T : T = {k \in DOMAIN hpEntries[fn].arcs : hpEntries[fn].arcs[k].from = c.from}
    OBVIOUS
  <2>2. PICK n \in Nat : T \subseteq 1..n
    <3>1. fn \in DOMAIN hpEntries
      BY <1>2 DEF Met
    <3>2. PICK s \in Seq(HpArcs) : s = hpEntries[fn].arcs
      BY <3>1, PlaceOfLists
    <3>3. DOMAIN s = 1..Len(s) /\ Len(s) \in Nat
      BY ONLY <3>2
    <3>4. QED BY ONLY <2>1, <3>2, <3>3
  <2>3. ArcOf(fn, c) = Youngest(T)
    BY <1>2, <2>1, Zenon DEF ArcOf
  <2>4. ArcOf(fn, c) \in Nat /\ (ArcOf(fn, c) = 0 <=> T = {})
        /\ (T # {} => ArcOf(fn, c) \in T)
    BY <2>2, <2>3, YoungestFound, Zenon
  <2>5. ArcOf(fn, c) = 0 => NoArc(hpEntries[fn].arcs, c.from)
    BY <2>1, <2>4 DEF NoArc
  <2>6. QED BY <1>2, <2>1, <2>4, <2>5
<1>3. QED BY <1>1, <1>2

\* What a record of c adds, given what its walk found.
LEMMA RecordAdds ==
  ASSUME NEW c \in Calls, hpEntries \in HpLists, FewIn(hpEntries), NEW fn,
         fn = 0 => Missed(hpEntries, c.self),
         fn # 0 => Met(hpEntries, fn, c.self) /\ OneArc(hpEntries[fn].arcs, c.from)
  PROVE  /\ Recorded(fn, c) \in HpLists /\ FewIn(Recorded(fn, c))
         /\ \E n, a : /\ Grown(hpEntries, Recorded(fn, c), n, a, c)
                      /\ IF fn = 0 THEN n \notin DOMAIN hpEntries ELSE n = fn
<1>1. PICK F : F = Recorded(fn, c)
  OBVIOUS
<1>2. CASE fn = 0
  <2>1. F = Append(hpEntries, [self |-> c.self, arcs |-> <<Arc(c)>>])
    BY <1>1, <1>2, Zenon DEF Recorded
  <2>2. F \in HpLists /\ \E n : n \notin DOMAIN hpEntries /\ Grown(hpEntries, F, n, 1, c)
    BY <2>1, NewEntry, Zenon
  <2>3. PICK n : n \notin DOMAIN hpEntries /\ Grown(hpEntries, F, n, 1, c)
    BY <2>2, Zenon
  <2>4. FewIn(F)
    BY <1>2, <2>2, <2>3, GrownEntry, Zenon
  <2>5. QED BY <1>1, <1>2, <2>2, <2>3, <2>4, Zenon
<1>3. CASE fn # 0
  <2>1. F = [hpEntries EXCEPT ![fn].arcs = Append(@, Arc(c))]
    BY <1>1, <1>3, Zenon DEF Recorded
  <2>2. fn \in DOMAIN hpEntries /\ hpEntries[fn].self = c.self /\ Newest(hpEntries, fn)
    BY <1>3, Zenon DEF Met
  <2>3. F \in HpLists /\ \E a : Grown(hpEntries, F, fn, a, c)
    BY <2>1, <2>2, NewArc, Zenon
  <2>4. PICK a : Grown(hpEntries, F, fn, a, c)
    BY <2>3, Zenon
  <2>5. FewIn(F)
    BY <1>3, <2>2, <2>3, <2>4, GrownArc, Zenon
  <2>6. QED BY <1>1, <1>3, <2>3, <2>4, <2>5, Zenon
<1>4. QED BY <1>2, <1>3

(***************************************************************************)
(* What the foreground holds of the lists between its steps.               *)
(***************************************************************************)
Sees(E, pc, call, fn, arc, count) ==
  /\ pc # "idle" => IF fn = 0 THEN Missed(E, call.self) ELSE Met(E, fn, call.self)
  /\ pc \in {"test", "claim", "init", "record"} /\ fn # 0 => OneArc(E[fn].arcs, call.from)
  /\ pc \in {"load", "store"} => /\ fn # 0 /\ arc \in DOMAIN E[fn].arcs
                                 /\ E[fn].arcs[arc].from = call.from
  /\ pc = "store" => count <= E[fn].arcs[arc].count

\* An interrupt that records takes nothing of it.
LEMMA SeesRecord ==
  ASSUME NEW E \in HpLists, NEW F \in HpLists, FewIn(E), NEW c \in Calls, NEW n, NEW a, Grown(E, F, n, a, c),
         \/ n \notin DOMAIN E /\ \A k \in DOMAIN E : E[k].self # c.self
         \/ Met(E, n, c.self) /\ NoArc(E[n].arcs, c.from),
         NEW pc, NEW call \in Calls, NEW fn, NEW arc, NEW count, Sees(E, pc, call, fn, arc, count)
  PROVE  Sees(F, pc, call, fn, arc, count)
<1>0. call.self \in HpFuncs /\ c.self \in HpFuncs
  BY DEF Calls
<1>1. CASE n \notin DOMAIN E /\ \A k \in DOMAIN E : E[k].self # c.self
  <2>1. Missed(E, c.self)
    BY ONLY <1>1, Zenon DEF Missed, OneOf
  <2>2. /\ \A f \in HpFuncs : f # c.self => (Missed(E, f) => Missed(F, f))
        /\ Missed(F, c.self)
        /\ \A m, f : f # c.self /\ Met(E, m, f) => Met(F, m, f) /\ F[m] = E[m]
    BY ONLY <1>1, <2>1, GrownEntry, E \in HpLists, F \in HpLists, c \in Calls, FewIn(E), Grown(E, F, n, a, c), SMTT(30), ZenonT(40)
  <2>3. \A m, f : Met(E, m, f) => f # c.self
    BY ONLY <1>1, Zenon DEF Met
  <2>4. pc # "idle" => IF fn = 0 THEN Missed(F, call.self) ELSE Met(F, fn, call.self) /\ F[fn] = E[fn]
    BY <1>0, <2>2, <2>3, Zenon DEF Sees
  <2>5. QED BY <2>4 DEF Sees
<1>2. CASE Met(E, n, c.self) /\ NoArc(E[n].arcs, c.from)
  <2>1. n \in DOMAIN E /\ Newest(E, n) /\ E[n].self = c.self /\ OneArc(E[n].arcs, c.from)
    BY <1>2, OneTwo, Zenon DEF Met
  <2>2. /\ \A f \in HpFuncs : Missed(E, f) => Missed(F, f)
        /\ \A m, f : Met(E, m, f) => Met(F, m, f)
        /\ \A k \in DOMAIN E : \A q : OneArc(E[k].arcs, q) => OneArc(F[k].arcs, q)
        /\ \A k \in DOMAIN E : \A j \in DOMAIN E[k].arcs :
              j \in DOMAIN F[k].arcs /\ F[k].arcs[j] = E[k].arcs[j]
    BY <1>2, <2>1, GrownArc, Zenon
  <2>3. pc # "idle" => IF fn = 0 THEN Missed(F, call.self) ELSE Met(F, fn, call.self) /\ fn \in DOMAIN E
    BY <1>0, <2>2, Zenon DEF Sees, Met
  <2>4. pc \in {"test", "claim", "init", "record"} /\ fn # 0 => OneArc(F[fn].arcs, call.from)
    BY <2>2, <2>3 DEF Sees
  <2>5. pc \in {"load", "store"} => /\ fn # 0 /\ arc \in DOMAIN F[fn].arcs
                                    /\ F[fn].arcs[arc] = E[fn].arcs[arc] /\ F[fn].arcs[arc].from = call.from
    BY <2>2, <2>3 DEF Sees
  <2>6. pc = "store" => count <= F[fn].arcs[arc].count
    BY <2>5 DEF Sees
  <2>7. QED BY <2>3, <2>4, <2>5, <2>6 DEF Sees
<1>3. QED BY <1>1, <1>2

\* Nor one that counts.
LEMMA SeesCount ==
  ASSUME NEW E \in HpLists, NEW F \in HpLists, NEW n, NEW a, Bumped(E, F, n, a, E[n].arcs[a].count + 1),
         NEW pc, NEW call \in Calls, NEW fn, NEW arc, NEW count \in Nat, Sees(E, pc, call, fn, arc, count)
  PROVE  Sees(F, pc, call, fn, arc, count)
<1>1. /\ \A f : Missed(E, f) => Missed(F, f)
      /\ \A m, f : Met(E, m, f) => Met(F, m, f)
      /\ \A k \in DOMAIN E : \A q : OneArc(E[k].arcs, q) => OneArc(F[k].arcs, q)
      /\ \A k \in DOMAIN E : DOMAIN F[k].arcs = DOMAIN E[k].arcs /\ 
              \A j \in DOMAIN E[k].arcs : /\ F[k].arcs[j].from = E[k].arcs[j].from
                                          /\ F[k].arcs[j].count = E[k].arcs[j].count \/ (k = n /\ j = a)
  <2>1. PICK v : v = E[n].arcs[a].count + 1
    OBVIOUS
  <2>2. Bumped(E, F, n, a, v)
    BY <2>1
  <2>3. (\A f : Missed(E, f) => Missed(F, f)) /\ \A m, f : Met(E, m, f) => Met(F, m, f)
    BY ONLY <2>2, E \in HpLists, F \in HpLists, BumpedFew, ZenonT(40)
  <2>4. \A k \in DOMAIN E : \A q : OneArc(E[k].arcs, q) => OneArc(F[k].arcs, q)
    BY ONLY <2>2, E \in HpLists, F \in HpLists, BumpedFew, ZenonT(40)
  <2>5. \A k \in DOMAIN E : DOMAIN F[k].arcs = DOMAIN E[k].arcs /\
          \A j \in DOMAIN E[k].arcs : /\ F[k].arcs[j].from = E[k].arcs[j].from
                                      /\ F[k].arcs[j].count = E[k].arcs[j].count \/ (k = n /\ j = a)
    <3>1. \A k \in DOMAIN E : DOMAIN F[k].arcs = DOMAIN E[k].arcs
      BY ONLY <2>2, E \in HpLists, F \in HpLists, BumpedFew, SMTT(30), ZenonT(40)
    <3>2. \A k \in DOMAIN E : \A j \in DOMAIN E[k].arcs : F[k].arcs[j].from = E[k].arcs[j].from
      BY ONLY <2>2, E \in HpLists, F \in HpLists, BumpedFew, SMTT(30), ZenonT(40)
    <3>3. \A k \in DOMAIN E : \A j \in DOMAIN E[k].arcs :
            F[k].arcs[j].count = E[k].arcs[j].count \/ (k = n /\ j = a)
      BY ONLY <2>2, E \in HpLists, F \in HpLists, BumpedFew, SMTT(30), ZenonT(40)
    <3>4. QED BY ONLY <3>1, <3>2, <3>3, ZenonT(40)
  <2>6. QED BY ONLY <2>3, <2>4, <2>5, ZenonT(40)
<1>2. F[n].arcs[a].count = E[n].arcs[a].count + 1
  BY Zenon DEF Bumped
<1>3. pc # "idle" => IF fn = 0 THEN Missed(F, call.self) ELSE Met(F, fn, call.self) /\ fn \in DOMAIN E
  BY <1>1, Zenon DEF Sees, Met
<1>4. pc \in {"test", "claim", "init", "record"} /\ fn # 0 => OneArc(F[fn].arcs, call.from)
  BY <1>1, <1>3 DEF Sees
<1>5. pc \in {"load", "store"} => /\ fn # 0 /\ fn \in DOMAIN E /\ arc \in DOMAIN F[fn].arcs /\ arc \in DOMAIN E[fn].arcs
                                  /\ F[fn].arcs[arc].from = call.from
  BY <1>1, <1>3 DEF Sees
<1>6. pc = "store" => count <= F[fn].arcs[arc].count
  <2>1. SUFFICES ASSUME pc = "store" PROVE count <= F[fn].arcs[arc].count
    OBVIOUS
  <2>2. fn \in DOMAIN E /\ arc \in DOMAIN E[fn].arcs /\ count <= E[fn].arcs[arc].count
    BY <1>5, <2>1 DEF Sees
  <2>3. E[fn].arcs[arc].count \in Nat
    BY <2>2, PlaceOfLists, Zenon
  <2>4. CASE fn = n /\ arc = a
    BY <1>2, <2>2, <2>3, <2>4
  <2>5. CASE ~(fn = n /\ arc = a)
    BY <1>1, <2>2, <2>5, Zenon
  <2>6. QED BY <2>4, <2>5
<1>7. QED BY <1>3, <1>4, <1>5, <1>6, Zenon DEF Sees

-----------------------------------------------------------------------------
(***************************************************************************)
(* The copies of an arc, and their sum.                                    *)
(***************************************************************************)
CopiesOf(E, c) == {at \in UNION {{k} \X DOMAIN E[k].arcs : k \in DOMAIN E} :
                     E[at[1]].self = c.self /\ E[at[1]].arcs[at[2]].from = c.from}
CopyAt(E, c, k, j) == /\ k \in DOMAIN E /\ j \in DOMAIN E[k].arcs
                      /\ E[k].self = c.self /\ E[k].arcs[j].from = c.from
TotalOf(E, c) == FoldSet(LAMBDA p, n : n + E[p[1]].arcs[p[2]].count, 0, CopiesOf(E, c))
CountsIn(E, c) == [p \in CopiesOf(E, c) |-> E[p[1]].arcs[p[2]].count]

LEMMA CopiesAre ==
  ASSUME NEW E, NEW c
  PROVE  /\ \A p \in CopiesOf(E, c) : \E k, j : p = <<k, j>> /\ CopyAt(E, c, k, j)
         /\ \A k, j : CopyAt(E, c, k, j) => <<k, j>> \in CopiesOf(E, c)
<1>1. ASSUME NEW p \in CopiesOf(E, c)
      PROVE  \E k, j : p = <<k, j>> /\ CopyAt(E, c, k, j)
  <2>1. PICK k \in DOMAIN E : p \in {k} \X DOMAIN E[k].arcs
    BY DEF CopiesOf
  <2>2. PICK j \in DOMAIN E[k].arcs : p = <<k, j>>
    BY <2>1
  <2>3. E[p[1]].self = c.self /\ E[p[1]].arcs[p[2]].from = c.from
    BY DEF CopiesOf
  <2>4. p[1] = k /\ p[2] = j
    BY ONLY <2>2
  <2>5. CopyAt(E, c, k, j)
    BY <2>2, <2>3, <2>4, Zenon DEF CopyAt
  <2>6. QED BY <2>2, <2>5
<1>2. ASSUME NEW k, NEW j, CopyAt(E, c, k, j)
      PROVE  <<k, j>> \in CopiesOf(E, c)
  <2>1. PICK p : p = <<k, j>>
    OBVIOUS
  <2>2. p[1] = k /\ p[2] = j
    BY ONLY <2>1
  <2>3. k \in DOMAIN E /\ p \in {k} \X DOMAIN E[k].arcs
    BY <1>2, <2>1 DEF CopyAt
  <2>4. E[p[1]].self = c.self /\ E[p[1]].arcs[p[2]].from = c.from
    BY <1>2, <2>2, Zenon DEF CopyAt
  <2>5. p \in UNION {{m} \X DOMAIN E[m].arcs : m \in DOMAIN E}
    BY ONLY <2>3
  <2>6. QED BY <2>1, <2>4, <2>5, Zenon DEF CopiesOf
<1>3. QED BY <1>1, <1>2, Zenon

LEMMA AtMostThree ==
  ASSUME NEW T, NEW x, NEW y, NEW z, T \subseteq {x, y, z}
  PROVE  IsFiniteSet(T) /\ Cardinality(T) <= 3
<1>1. {x, y, z} = (({} \cup {x}) \cup {y}) \cup {z}
  OBVIOUS
<1>2. IsFiniteSet({}) /\ Cardinality({}) = 0
  BY FS_EmptySet
<1>3. IsFiniteSet({} \cup {x}) /\ Cardinality({} \cup {x}) \in 0..1
  BY <1>2, FS_AddElement
<1>4. IsFiniteSet(({} \cup {x}) \cup {y}) /\ Cardinality(({} \cup {x}) \cup {y}) \in 0..2
  <2>1. PICK A : A = {} \cup {x}
    OBVIOUS
  <2>2. IsFiniteSet(A \cup {y}) /\ (Cardinality(A \cup {y}) = Cardinality(A) \/ Cardinality(A \cup {y}) = Cardinality(A) + 1)
    BY <1>3, <2>1, FS_AddElement
  <2>3. QED BY <1>3, <2>1, <2>2
<1>5. IsFiniteSet({x, y, z}) /\ Cardinality({x, y, z}) \in 0..3
  <2>1. PICK A : A = ({} \cup {x}) \cup {y}
    OBVIOUS
  <2>2. IsFiniteSet(A \cup {z}) /\ (Cardinality(A \cup {z}) = Cardinality(A) \/ Cardinality(A \cup {z}) = Cardinality(A) + 1)
    BY <1>4, <2>1, FS_AddElement
  <2>3. QED BY <1>1, <1>4, <2>1, <2>2
<1>6. QED BY <1>5, FS_Subset, FS_CardinalityType

LEMMA AtMostTwo ==
  ASSUME NEW T, NEW x, NEW y, T \subseteq {x, y}
  PROVE  IsFiniteSet(T) /\ Cardinality(T) <= 2
<1>2. IsFiniteSet({}) /\ Cardinality({}) = 0
  BY FS_EmptySet
<1>3. IsFiniteSet({} \cup {x}) /\ Cardinality({} \cup {x}) \in 0..1
  BY <1>2, FS_AddElement
<1>4. IsFiniteSet({x, y}) /\ Cardinality({x, y}) \in 0..2
  <2>1. PICK A : A = {} \cup {x}
    OBVIOUS
  <2>2. IsFiniteSet(A \cup {y}) /\ (Cardinality(A \cup {y}) = Cardinality(A) \/ Cardinality(A \cup {y}) = Cardinality(A) + 1)
    BY <1>3, <2>1, FS_AddElement
  <2>3. A \cup {y} = {x, y}
    BY <2>1
  <2>4. QED BY <1>3, <2>1, <2>2, <2>3
<1>5. QED BY <1>4, FS_Subset, FS_CardinalityType

\* Three of which two are always the same are two.
LEMMA PairHolds ==
  ASSUME NEW T, \A k, l, m \in T : k = l \/ l = m \/ k = m
  PROVE  \E x, y : T \subseteq {x, y} /\ (T # {} => x \in T /\ y \in T)
<1>1. CASE T = {}
  BY <1>1
<1>2. CASE \E x, y \in T : x # y
  BY <1>2
<1>3. CASE T # {} /\ \A x, y \in T : x = y
  <2>1. PICK x \in T : TRUE
    BY <1>3
  <2>2. T \subseteq {x}
    BY <1>3
  <2>3. QED BY <2>1, <2>2
<1>4. QED BY <1>1, <1>2, <1>3

LEMMA EntriesFew ==
  ASSUME NEW E \in HpLists, FewIn(E), NEW f \in HpFuncs
  PROVE  Cardinality({k \in DOMAIN E : E[k].self = f}) <= 2
<1>1. PICK T : T = {k \in DOMAIN E : E[k].self = f}
  OBVIOUS
<1>2. \A k, l, m \in T : k = l \/ l = m \/ k = m
  <2>1. TwoOf(E, f)
    BY Zenon DEF FewIn
  <2>2. QED BY ONLY <1>1, <2>1 DEF TwoOf
<1>3. PICK x, y : T \subseteq {x, y}
  BY <1>2, PairHolds, Zenon
<1>4. QED BY <1>1, <1>3, AtMostTwo, Zenon

\* The younger entry may hold two copies of an arc, the older one.
LEMMA CopiesFew ==
  ASSUME NEW E \in HpLists, FewIn(E), NEW c \in Calls
  PROVE  IsFiniteSet(CopiesOf(E, c)) /\ Cardinality(CopiesOf(E, c)) <= 3
<1>0. c.self \in HpFuncs /\ c.from \in HpCallers
  BY DEF Calls
<1> DEFINE A(k) == {j \in DOMAIN E[k].arcs : E[k].arcs[j].from = c.from}
<1>1. PICK T : T = {k \in DOMAIN E : E[k].self = c.self}
  OBVIOUS
<1>2. PICK x, y : T \subseteq {x, y} /\ (T # {} => x \in T /\ y \in T)
  <2>1. TwoOf(E, c.self)
    BY <1>0, Zenon DEF FewIn
  <2>2. \A k, l, m \in T : k = l \/ l = m \/ k = m
    BY ONLY <1>1, <2>1 DEF TwoOf
  <2>3. QED BY <2>2, PairHolds, Zenon
<1>3. \A k \in T : k \in DOMAIN E /\ \E i, j : A(k) \subseteq {i, j}
  <2>1. ASSUME NEW k \in T
        PROVE  k \in DOMAIN E /\ \E i, j : A(k) \subseteq {i, j}
    <3>1. k \in DOMAIN E
      BY <1>1
    <3>2. TwoArcs(E[k].arcs, c.from)
      BY <1>0, <3>1, Zenon DEF FewIn
    <3>3. PICK R : R = A(k)
      OBVIOUS
    <3>4. \A i, j, h \in R : i = j \/ j = h \/ i = h
      BY ONLY <3>2, <3>3 DEF TwoArcs
    <3>5. \E i, j : R \subseteq {i, j}
      BY <3>4, PairHolds, Zenon
    <3>6. QED BY <3>1, <3>3, <3>5
  <2>2. QED BY <2>1
<1>4. \A p \in CopiesOf(E, c) : \E k \in T : \E j \in A(k) : p = <<k, j>>
  <2>1. ASSUME NEW p \in CopiesOf(E, c)
        PROVE  \E k \in T : \E j \in A(k) : p = <<k, j>>
    <3>1. PICK k, j : p = <<k, j>> /\ CopyAt(E, c, k, j)
      BY CopiesAre, Zenon
    <3>2. k \in T /\ j \in A(k)
      BY <1>1, <3>1 DEF CopyAt
    <3>3. QED BY <3>1, <3>2
  <2>2. QED BY <2>1
<1> HIDE DEF A
<1>5. CASE T = {}
  <2>1. CopiesOf(E, c) \subseteq {x, x, x}
    BY <1>4, <1>5
  <2>2. QED BY <2>1, AtMostThree, Zenon
<1>6. ASSUME NEW k \in T, NEW l \in T, T \subseteq {k, l}, k # l => ~Newest(E, k)
      PROVE  IsFiniteSet(CopiesOf(E, c)) /\ Cardinality(CopiesOf(E, c)) <= 3
  <2>1. PICK i, j : A(l) \subseteq {i, j}
    BY <1>3
  <2>2. PICK h : k # l => A(k) \subseteq {h}
    <3>1. CASE k = l
      BY <3>1
    <3>2. CASE k # l
      <4>1. OneArc(E[k].arcs, c.from)
        BY <1>0, <1>3, <1>6, <3>2, Zenon DEF FewIn
      <4>2. \A u, v \in A(k) : u = v
        BY ONLY <4>1 DEF OneArc, A
      <4>3. \E u : A(k) \subseteq {u}
        BY ONLY <4>2
      <4>4. QED BY <4>3
    <3>3. QED BY <3>1, <3>2
  <2>3. CopiesOf(E, c) \subseteq {<<l, i>>, <<l, j>>, <<k, h>>}
    <3>1. ASSUME NEW p \in CopiesOf(E, c)
          PROVE  p = <<l, i>> \/ p = <<l, j>> \/ p = <<k, h>>
      <4>1. PICK m \in T : \E g \in A(m) : p = <<m, g>>
        BY <1>4
      <4>2. PICK g \in A(m) : p = <<m, g>>
        BY <4>1
      <4>3. CASE m = l
        <5>1. g = i \/ g = j
          BY ONLY <2>1, <4>3, g \in A(m)
        <5>2. QED BY <4>2, <4>3, <5>1
      <4>4. CASE m # l
        <5>1. m = k
          BY <1>6, <4>4
        <5>2. g = h
          BY ONLY <2>2, <4>4, <5>1, g \in A(m)
        <5>3. QED BY <4>2, <5>1, <5>2
      <4>5. QED BY <4>3, <4>4
    <3>2. QED BY <3>1
  <2>4. QED BY <2>3, AtMostThree, Zenon
<1>7. CASE T # {}
  <2>1. x \in T /\ y \in T /\ x \in Nat /\ y \in Nat /\ E[x].self = E[y].self /\ x \in DOMAIN E /\ y \in DOMAIN E
    <3>1. x \in T /\ y \in T
      BY <1>2, <1>7
    <3>2. x \in DOMAIN E /\ y \in DOMAIN E /\ E[x].self = E[y].self
      BY <1>1, <3>1
    <3>3. x \in Nat /\ y \in Nat
      BY <3>2, PlaceOfSeq, Zenon DEF HpLists
    <3>4. QED BY <3>1, <3>2, <3>3
  <2>2. CASE x <= y
    <3>1. x # y => ~(y <= x)
      BY ONLY <2>1, <2>2
    <3>2. x # y => ~Newest(E, x)
      BY ONLY <2>1, <3>1, Zenon DEF Newest
    <3>3. QED BY <1>2, <1>6, <2>1, <3>2, Zenon
  <2>3. CASE ~(x <= y)
    <3>1. ~Newest(E, y)
      BY ONLY <2>1, <2>3, Zenon DEF Newest
    <3>2. T \subseteq {y, x}
      BY <1>2
    <3>3. QED BY <1>6, <2>1, <3>1, <3>2, Zenon
  <2>4. QED BY <2>2, <2>3
<1>8. QED BY <1>5, <1>7

SumFrom(t, S, E) == t = [s \in SUBSET S |-> IF s = {} THEN 0
                                           ELSE t[s \ {First(s)}] + E[First(s)[1]].arcs[First(s)[2]].count]

LEMMA TotalIs ==
  ASSUME NEW E, NEW c
  PROVE  TotalOf(E, c) = (CHOOSE t : SumFrom(t, CopiesOf(E, c), E))[CopiesOf(E, c)]
BY Zenon DEF TotalOf, FoldSet, MapThenFoldSet, SumFrom, First

LEMMA CountsType ==
  ASSUME NEW E \in HpLists, NEW c
  PROVE  /\ CountsIn(E, c) \in [CopiesOf(E, c) -> Nat]
         /\ \A p \in CopiesOf(E, c) : CountsIn(E, c)[p] = E[p[1]].arcs[p[2]].count
<1>1. ASSUME NEW p \in CopiesOf(E, c)
      PROVE  E[p[1]].arcs[p[2]].count \in Nat
  <2>1. PICK k, j : p = <<k, j>> /\ CopyAt(E, c, k, j)
    BY CopiesAre, Zenon
  <2>2. p[1] = k /\ p[2] = j
    BY ONLY <2>1
  <2>3. E[k].arcs[j].count \in Nat
    BY <2>1, PlaceOfLists, Zenon DEF CopyAt
  <2>4. QED BY <2>2, <2>3
<1>2. QED BY <1>1 DEF CountsIn

LEMMA TotalSums ==
  ASSUME NEW E \in HpLists, NEW c, IsFiniteSet(CopiesOf(E, c))
  PROVE  \E t : Sums(t, CopiesOf(E, c), CountsIn(E, c)) /\ TotalOf(E, c) = t[CopiesOf(E, c)]
<1>1. PICK S, w : S = CopiesOf(E, c) /\ w = CountsIn(E, c)
  OBVIOUS
<1>2. w \in [S -> Nat] /\ \A p \in S : w[p] = E[p[1]].arcs[p[2]].count
  BY <1>1, CountsType
<1>3. \A s \in SUBSET S : s # {} => First(s) \in s /\ First(s) \in S
  <2>1. ASSUME NEW s \in SUBSET S, s # {}
        PROVE  First(s) \in s
    BY <2>1, Zenon DEF First
  <2>2. QED BY <2>1
<1>4. PICK t : Sums(t, S, w)
  BY <1>1, <1>2, SumExists, Zenon
<1>5. SumFrom(t, S, E)
  <2>1. ASSUME NEW s \in SUBSET S
        PROVE  t[s] = IF s = {} THEN 0 ELSE t[s \ {First(s)}] + E[First(s)[1]].arcs[First(s)[2]].count
    <3>1. t[s] = IF s = {} THEN 0 ELSE t[s \ {First(s)}] + w[First(s)]
      BY <1>4, Zenon DEF Sums, Adds, SumAt
    <3>2. s # {} => w[First(s)] = E[First(s)[1]].arcs[First(s)[2]].count
      BY <1>2, <1>3, Zenon
    <3>3. QED BY ONLY <3>1, <3>2, Zenon
  <2>2. t \in [SUBSET S -> Nat]
    BY <1>4, Zenon DEF Sums
  <2>3. t = [s \in SUBSET S |-> t[s]]
    BY ONLY <2>2
  <2>4. QED BY ONLY <2>1, <2>3 DEF SumFrom
<1>6. PICK u : u = CHOOSE v : SumFrom(v, S, E)
  OBVIOUS
<1>7. SumFrom(u, S, E)
  BY <1>5, <1>6, Zenon
<1>8. \A s \in SUBSET S : u[s] = IF s = {} THEN 0 ELSE u[s \ {First(s)}] + w[First(s)]
  <2>1. ASSUME NEW s \in SUBSET S
        PROVE  u[s] = IF s = {} THEN 0 ELSE u[s \ {First(s)}] + w[First(s)]
    <3>1. u[s] = IF s = {} THEN 0 ELSE u[s \ {First(s)}] + E[First(s)[1]].arcs[First(s)[2]].count
      BY ONLY <1>7, s \in SUBSET S, Zenon DEF SumFrom
    <3>2. s # {} => w[First(s)] = E[First(s)[1]].arcs[First(s)[2]].count
      BY <1>2, <1>3, Zenon
    <3>3. QED BY ONLY <3>1, <3>2, Zenon
  <2>2. QED BY <2>1
<1>9. TotalOf(E, c) = u[S]
  BY <1>1, <1>6, TotalIs, Zenon
<1>10. u[S] = t[S]
  <2>1. Adds(u, S, w)
    BY ONLY <1>8, Zenon DEF Adds, SumAt
  <2>2. Adds(t, S, w)
    BY <1>4, Zenon DEF Sums
  <2>3. S \subseteq S /\ IsFiniteSet(S)
    BY <1>1
  <2>4. QED BY ONLY <2>1, <2>2, <2>3, SumAgrees, SMTT(30), ZenonT(40)
<1>11. QED BY <1>1, <1>4, <1>9, <1>10, Zenon

LEMMA CopiedAt ==
  ASSUME NEW E, NEW c, NEW k, NEW j
  PROVE  CopyAt(E, c, k, j) <=> <<k, j>> \in CopiesOf(E, c)
<1>1. ASSUME <<k, j>> \in CopiesOf(E, c) PROVE CopyAt(E, c, k, j)
  <2>1. PICK l, m : <<k, j>> = <<l, m>> /\ CopyAt(E, c, l, m)
    BY <1>1, CopiesAre, Zenon
  <2>2. l = k /\ m = j
    BY ONLY <2>1
  <2>3. QED BY <2>1, <2>2, Zenon
<1>2. QED BY <1>1, CopiesAre, Zenon

LEMMA SumGrows ==
  ASSUME NEW S, NEW t, NEW w \in [S -> Nat], Sums(t, S, w), IsFiniteSet(S),
         NEW R, NEW u, NEW v \in [R -> Nat], Sums(u, R, v), IsFiniteSet(R),
         NEW p, p \notin S, R = S \cup {p}, \A x \in S : v[x] = w[x]
  PROVE  u[R] = t[S] + v[p] /\ t[S] \in Nat
<1>1. p \in R /\ R \ {p} = S /\ S \subseteq R /\ R \in SUBSET R
  OBVIOUS
<1>2. u[R] = u[R \ {p}] + v[p]
  BY <1>1, SumAny, SMTT(30), ZenonT(40)
<1>3. u[S] = t[S]
  <2>1. Adds(u, R, v) /\ Adds(t, S, w) /\ S \subseteq S
    BY Zenon DEF Sums
  <2>2. QED BY ONLY <1>1, <2>1, \A x \in S : v[x] = w[x], IsFiniteSet(S), SumAgrees, SMTT(30), ZenonT(40)
<1>4. t[S] \in Nat
  BY DEF Sums
<1>5. u[R] = u[S] + v[p]
  BY ONLY <1>1, <1>2, Zenon
<1>6. QED BY ONLY <1>3, <1>4, <1>5, Zenon

LEMMA SumStays ==
  ASSUME NEW S, NEW t, NEW w, Sums(t, S, w), IsFiniteSet(S),
         NEW u, NEW v, Sums(u, S, v), \A x \in S : v[x] = w[x]
  PROVE  u[S] = t[S]
<1>1. Adds(u, S, v) /\ Adds(t, S, w) /\ S \subseteq S
  BY Zenon DEF Sums
<1>2. QED BY ONLY <1>1, \A x \in S : v[x] = w[x], IsFiniteSet(S), SumAgrees, SMTT(30), ZenonT(40)

LEMMA SumBumps ==
  ASSUME NEW S, NEW t, NEW w \in [S -> Nat], Sums(t, S, w), IsFiniteSet(S),
         NEW u, NEW v \in [S -> Nat], Sums(u, S, v),
         NEW p \in S, \A x \in S : x # p => v[x] = w[x]
  PROVE  u[S] + w[p] = t[S] + v[p]
<1>1. PICK Q : Q = S \ {p}
  OBVIOUS
<1>2. Q \subseteq S /\ IsFiniteSet(Q) /\ \A x \in Q : v[x] = w[x]
  BY <1>1, FS_Subset
<1>3. u[S] = u[S \ {p}] + v[p] /\ t[S] = t[S \ {p}] + w[p]
  <2>1. S \in SUBSET S
    OBVIOUS
  <2>2. u[S] = u[S \ {p}] + v[p]
    BY <2>1, SumAny, SMTT(30), ZenonT(40)
  <2>3. t[S] = t[S \ {p}] + w[p]
    BY <2>1, SumAny, SMTT(30), ZenonT(40)
  <2>4. QED BY <2>2, <2>3
<1>4. u[Q] = t[Q]
  <2>1. Adds(u, S, v) /\ Adds(t, S, w)
    BY Zenon DEF Sums
  <2>2. QED BY ONLY <1>2, <2>1, SumAgrees, SMTT(30), ZenonT(40)
<1>5. t[Q] \in Nat /\ w[p] \in Nat /\ v[p] \in Nat
  BY <1>2 DEF Sums
<1>6. u[S] = t[Q] + v[p] /\ t[S] = t[Q] + w[p]
  BY ONLY <1>1, <1>3, <1>4, Zenon
<1>7. QED BY ONLY <1>5, <1>6

\* Recording adds one to the calls of the arc it records, and none to another.
LEMMA TotalGrown ==
  ASSUME NEW E \in HpLists, NEW F \in HpLists, FewIn(E), FewIn(F),
         NEW n, NEW a, NEW c \in Calls, Grown(E, F, n, a, c), NEW d \in Calls
  PROVE  TotalOf(F, d) = TotalOf(E, d) + (IF d = c THEN 1 ELSE 0) /\ TotalOf(E, d) \in Nat
<1>1. /\ DOMAIN F = DOMAIN E \cup {n} /\ \A k \in DOMAIN E : F[k].self = E[k].self /\ (k # n => F[k] = E[k])
      /\ F[n].self = c.self /\ n \in DOMAIN F /\ a \in DOMAIN F[n].arcs /\ F[n].arcs[a] = Arc(c)
      /\ n \in DOMAIN E => /\ DOMAIN F[n].arcs = DOMAIN E[n].arcs \cup {a} /\ a \notin DOMAIN E[n].arcs
                           /\ \A j \in DOMAIN E[n].arcs : F[n].arcs[j] = E[n].arcs[j]
      /\ n \notin DOMAIN E => DOMAIN F[n].arcs = {a}
  BY Zenon DEF Grown
<1>2. Arc(c).from = c.from /\ Arc(c).count = 1
  BY DEF Arc
<1>3. d = c <=> (d.self = c.self /\ d.from = c.from)
  BY DEF Calls
<1>4. ~CopyAt(E, d, n, a)
  BY ONLY <1>1, Zenon DEF CopyAt
<1>5. ASSUME NEW k, NEW j, CopyAt(E, d, k, j)
      PROVE  CopyAt(F, d, k, j) /\ F[k].arcs[j] = E[k].arcs[j]
  <2>1. k \in DOMAIN F /\ F[k].self = d.self
    BY ONLY <1>1, <1>5 DEF CopyAt
  <2>2. j \in DOMAIN F[k].arcs /\ F[k].arcs[j] = E[k].arcs[j]
    <3>1. CASE k = n
      <4>1. j \in DOMAIN E[n].arcs /\ n \in DOMAIN E
        BY ONLY <1>5, <3>1, Zenon DEF CopyAt
      <4>2. j \in DOMAIN F[n].arcs /\ F[n].arcs[j] = E[n].arcs[j]
        BY ONLY <1>1, <4>1
      <4>3. QED BY ONLY <3>1, <4>2, Zenon
    <3>2. CASE k # n
      BY ONLY <1>1, <1>5, <3>2, Zenon DEF CopyAt
    <3>3. QED BY <3>1, <3>2
  <2>3. E[k].arcs[j].from = d.from
    BY <1>5, Zenon DEF CopyAt
  <2>4. QED BY <2>1, <2>2, <2>3, Zenon DEF CopyAt
<1>6. ASSUME NEW k, NEW j, CopyAt(F, d, k, j)
      PROVE  CopyAt(E, d, k, j) \/ (d = c /\ k = n /\ j = a)
  <2>1. k \in DOMAIN F /\ j \in DOMAIN F[k].arcs /\ F[k].self = d.self /\ F[k].arcs[j].from = d.from
    BY <1>6, Zenon DEF CopyAt
  <2>2. CASE k = n
    <3>1. CASE j = a
      BY ONLY <1>1, <1>2, <1>3, <2>1, <2>2, <3>1, Zenon
    <3>2. CASE j # a
      <4>1. n \in DOMAIN E
        <5>1. SUFFICES ASSUME n \notin DOMAIN E PROVE FALSE
          BY Zenon
        <5>2. DOMAIN F[n].arcs = {a}
          BY <1>1, <5>1
        <5>3. QED BY ONLY <2>1, <2>2, <3>2, <5>2
      <4>2. j \in DOMAIN E[n].arcs
        BY ONLY <1>1, <2>1, <2>2, <3>2, <4>1
      <4>3. QED BY ONLY <1>1, <2>1, <2>2, <4>1, <4>2, Zenon DEF CopyAt
    <3>3. QED BY <3>1, <3>2
  <2>3. CASE k # n
    <3>1. k \in DOMAIN E /\ F[k] = E[k]
      BY ONLY <1>1, <2>1, <2>3
    <3>2. QED BY ONLY <2>1, <3>1, Zenon DEF CopyAt
  <2>4. QED BY <2>2, <2>3
<1>7. PICK S, R, w, v : S = CopiesOf(E, d) /\ R = CopiesOf(F, d) /\ w = CountsIn(E, d) /\ v = CountsIn(F, d)
  OBVIOUS
<1>8. /\ w \in [S -> Nat] /\ \A p \in S : w[p] = E[p[1]].arcs[p[2]].count
      /\ v \in [R -> Nat] /\ \A p \in R : v[p] = F[p[1]].arcs[p[2]].count
  BY <1>7, CountsType, Zenon
<1>9. PICK t : Sums(t, S, w) /\ TotalOf(E, d) = t[S]
  BY <1>7, CopiesFew, TotalSums, Zenon
<1>10. PICK u : Sums(u, R, v) /\ TotalOf(F, d) = u[R]
  BY <1>7, CopiesFew, TotalSums, Zenon
<1>11. IsFiniteSet(S) /\ IsFiniteSet(R)
  BY <1>7, CopiesFew, Zenon
<1>12. S \subseteq R /\ <<n, a>> \notin S /\ \A p \in S : v[p] = w[p]
  <2>1. ASSUME NEW p \in S
        PROVE  p \in R /\ p # <<n, a>> /\ v[p] = w[p]
    <3>1. PICK k, j : p = <<k, j>> /\ CopyAt(E, d, k, j)
      BY <1>7, CopiesAre, Zenon
    <3>2. p[1] = k /\ p[2] = j
      BY ONLY <3>1
    <3>3. p \in R
      BY <1>5, <1>7, <3>1, CopiesAre, Zenon
    <3>4. p # <<n, a>>
      <4>1. SUFFICES ASSUME p = <<n, a>> PROVE FALSE
        OBVIOUS
      <4>2. k = n /\ j = a
        BY ONLY <3>1, <4>1
      <4>3. QED BY <1>4, <3>1, <4>2, Zenon
    <3>5. F[k].arcs[j] = E[k].arcs[j]
      BY <1>5, <3>1
    <3>6. v[p] = w[p]
      BY ONLY <1>8, <3>2, <3>3, <3>5, p \in S, Zenon
    <3>7. QED BY <3>3, <3>4, <3>6
  <2>2. QED BY <2>1
<1>13. \A p \in R : p \in S \/ (d = c /\ p = <<n, a>>)
  <2>1. ASSUME NEW p \in R
        PROVE  p \in S \/ (d = c /\ p = <<n, a>>)
    <3>1. PICK k, j : p = <<k, j>> /\ CopyAt(F, d, k, j)
      BY <1>7, CopiesAre, Zenon
    <3>2. QED BY <1>6, <1>7, <3>1, CopiesAre, Zenon
  <2>2. QED BY <2>1
<1>14. CASE d = c
  <2>1. CopyAt(F, c, n, a)
    BY <1>1, <1>2, Zenon DEF CopyAt
  <2>2. <<n, a>> \in R
    BY <1>7, <1>14, <2>1, CopiesAre, Zenon
  <2>3. PICK p : p = <<n, a>>
    OBVIOUS
  <2>4. p \notin S /\ R = S \cup {p} /\ p[1] = n /\ p[2] = a /\ p \in R
    BY ONLY <1>12, <1>13, <2>2, <2>3
  <2>5. v[p] = 1
    BY ONLY <1>1, <1>2, <1>8, <2>4, Zenon
  <2>6. u[R] = t[S] + v[p] /\ t[S] \in Nat
    BY ONLY <1>8, <1>9, <1>10, <1>11, <1>12, <2>4, SumGrows, SMTT(30), ZenonT(40)
  <2>7. QED BY ONLY <1>9, <1>10, <1>14, <2>5, <2>6, Zenon
<1>15. CASE d # c
  <2>1. R = S
    BY ONLY <1>12, <1>13, <1>15
  <2>2. u[S] = t[S]
    BY ONLY <1>9, <1>10, <1>11, <1>12, <2>1, SumStays, SMTT(30), ZenonT(40)
  <2>3. t[S] \in Nat
    BY ONLY <1>9 DEF Sums
  <2>4. QED BY ONLY <1>9, <1>10, <1>15, <2>1, <2>2, <2>3
<1>16. QED BY <1>14, <1>15

\* Counting adds to the arc it counts what it adds, and to another nothing.
LEMMA TotalBumped ==
  ASSUME NEW E \in HpLists, NEW F \in HpLists, FewIn(E), FewIn(F),
         NEW n, NEW a, NEW x \in Nat, NEW c \in Calls, Bumped(E, F, n, a, x), CopyAt(E, c, n, a), NEW d \in Calls
  PROVE  /\ TotalOf(E, d) \in Nat /\ TotalOf(F, d) \in Nat
         /\ d = c => TotalOf(F, d) + E[n].arcs[a].count = TotalOf(E, d) + x
         /\ d # c => TotalOf(F, d) = TotalOf(E, d)
<1>1. /\ DOMAIN F = DOMAIN E /\ \A k \in DOMAIN E : F[k].self = E[k].self
      /\ \A k \in DOMAIN E : DOMAIN F[k].arcs = DOMAIN E[k].arcs /\ 
              \A j \in DOMAIN E[k].arcs : /\ F[k].arcs[j].from = E[k].arcs[j].from
                                          /\ F[k].arcs[j].count = E[k].arcs[j].count \/ (k = n /\ j = a)
      /\ F[n].arcs[a].count = x
  <2>1. \A k \in DOMAIN E : DOMAIN F[k].arcs = DOMAIN E[k].arcs /\ 
              \A j \in DOMAIN E[k].arcs : /\ F[k].arcs[j].from = E[k].arcs[j].from
                                          /\ F[k].arcs[j].count = E[k].arcs[j].count \/ (k = n /\ j = a)
    BY BumpedFew, SMTT(30), ZenonT(40)
  <2>2. QED BY <2>1, Zenon DEF Bumped
<1>2. \A k, j : CopyAt(F, d, k, j) <=> CopyAt(E, d, k, j)
  BY ONLY <1>1, SMTT(30), ZenonT(40) DEF CopyAt
<1>3. CopyAt(E, d, n, a) <=> d = c
  BY DEF CopyAt, Calls
<1>4. CopiesOf(F, d) = CopiesOf(E, d)
  <2>1. \A p : p \in CopiesOf(F, d) <=> p \in CopiesOf(E, d)
    <3>1. \A k, j : <<k, j>> \in CopiesOf(F, d) <=> <<k, j>> \in CopiesOf(E, d)
      <4>1. ASSUME NEW k, NEW j PROVE CopyAt(E, d, k, j) <=> <<k, j>> \in CopiesOf(E, d)
        BY CopiedAt, Zenon
      <4>2. ASSUME NEW k, NEW j PROVE CopyAt(F, d, k, j) <=> <<k, j>> \in CopiesOf(F, d)
        BY CopiedAt, Zenon
      <4>3. QED BY <1>2, <4>1, <4>2, Zenon
    <3>2. ASSUME NEW p, p \in CopiesOf(F, d) PROVE p \in CopiesOf(E, d)
      <4>1. PICK k, j : p = <<k, j>> /\ CopyAt(F, d, k, j)
        BY <3>2, CopiesAre, Zenon
      <4>2. QED BY <3>1, <3>2, <4>1, Zenon
    <3>3. ASSUME NEW p, p \in CopiesOf(E, d) PROVE p \in CopiesOf(F, d)
      <4>1. PICK k, j : p = <<k, j>> /\ CopyAt(E, d, k, j)
        BY <3>3, CopiesAre, Zenon
      <4>2. QED BY <3>1, <3>3, <4>1, Zenon
    <3>4. QED BY <3>2, <3>3
  <2>2. QED BY <2>1
<1>5. PICK S, w, v : S = CopiesOf(E, d) /\ w = CountsIn(E, d) /\ v = CountsIn(F, d)
  OBVIOUS
<1>6. /\ w \in [S -> Nat] /\ \A p \in S : w[p] = E[p[1]].arcs[p[2]].count
      /\ v \in [S -> Nat] /\ \A p \in S : v[p] = F[p[1]].arcs[p[2]].count
  <2>1. /\ CountsIn(F, d) \in [CopiesOf(F, d) -> Nat]
        /\ \A p \in CopiesOf(F, d) : CountsIn(F, d)[p] = F[p[1]].arcs[p[2]].count
    BY CountsType, Zenon
  <2>2. /\ CountsIn(E, d) \in [CopiesOf(E, d) -> Nat]
        /\ \A p \in CopiesOf(E, d) : CountsIn(E, d)[p] = E[p[1]].arcs[p[2]].count
    BY CountsType, Zenon
  <2>3. S = CopiesOf(F, d)
    BY <1>4, <1>5
  <2>4. QED BY ONLY <1>5, <2>1, <2>2, <2>3
<1>7. PICK t : Sums(t, S, w) /\ TotalOf(E, d) = t[S]
  BY <1>5, CopiesFew, TotalSums, Zenon
<1>8. PICK u : Sums(u, S, v) /\ TotalOf(F, d) = u[S]
  BY <1>4, <1>5, CopiesFew, TotalSums, Zenon
<1>9. IsFiniteSet(S)
  BY <1>5, CopiesFew, Zenon
<1>10. \A p \in S : p # <<n, a>> => v[p] = w[p]
  <2>1. ASSUME NEW p \in S, p # <<n, a>>
        PROVE  v[p] = w[p]
    <3>1. PICK k, j : p = <<k, j>> /\ CopyAt(E, d, k, j)
      BY <1>5, CopiesAre, Zenon
    <3>2. p[1] = k /\ p[2] = j /\ ~(k = n /\ j = a)
      BY ONLY <2>1, <3>1
    <3>3. F[k].arcs[j].count = E[k].arcs[j].count
      BY ONLY <1>1, <3>1, <3>2, Zenon DEF CopyAt
    <3>4. QED BY ONLY <1>6, <3>2, <3>3, p \in S, Zenon
  <2>2. QED BY <2>1
<1>11. u[S] \in Nat /\ t[S] \in Nat
  BY ONLY <1>7, <1>8 DEF Sums
<1>12. CASE d = c
  <2>1. PICK p : p = <<n, a>>
    OBVIOUS
  <2>2. p[1] = n /\ p[2] = a /\ p \in S
    <3>1. p \in S
      BY <1>3, <1>5, <1>12, <2>1, CopiesAre, Zenon
    <3>2. QED BY ONLY <2>1, <3>1
  <2>3. w[p] = E[n].arcs[a].count /\ v[p] = x
    BY ONLY <1>1, <1>6, <2>2, Zenon
  <2>4. u[S] + w[p] = t[S] + v[p]
    <3>1. \A q \in S : q # p => v[q] = w[q]
      BY <1>10, <2>1
    <3>2. w \in [S -> Nat] /\ v \in [S -> Nat] /\ Sums(t, S, w) /\ Sums(u, S, v) /\ IsFiniteSet(S) /\ p \in S
      BY <1>6, <1>7, <1>8, <1>9, <2>2
    <3>3. QED BY ONLY <3>1, <3>2, SumBumps, SMTT(30), ZenonT(40)
  <2>5. QED BY ONLY <1>7, <1>8, <1>11, <1>12, <2>3, <2>4, Zenon
<1>13. CASE d # c
  <2>1. \A p \in S : v[p] = w[p]
    <3>1. <<n, a>> \notin S
      <4>1. SUFFICES ASSUME <<n, a>> \in S PROVE FALSE
        OBVIOUS
      <4>2. PICK k, j : <<n, a>> = <<k, j>> /\ CopyAt(E, d, k, j)
        BY <1>5, <4>1, CopiesAre, Zenon
      <4>3. k = n /\ j = a
        BY ONLY <4>2
      <4>4. QED BY <1>3, <1>13, <4>2, <4>3, Zenon
    <3>2. QED BY ONLY <1>10, <3>1
  <2>2. u[S] = t[S]
    BY ONLY <1>7, <1>8, <1>9, <2>1, SumStays, SMTT(30), ZenonT(40)
  <2>3. QED BY ONLY <1>7, <1>8, <1>11, <1>13, <2>2, Zenon
<1>14. QED BY <1>12, <1>13

-----------------------------------------------------------------------------
(***************************************************************************)
(* Memory.  Blocks lie below the end of the heap and apart, and the rest   *)
(* of the slab lies apart from them.                                       *)
(***************************************************************************)
HpBlocks == [at : Nat, size : Nat \ {0}]
HpMemory == [end : Nat, got : Int, ptr : Int, left : 0..MCOUNT_SLAB_INCREMENT,
             blocks : SUBSET [at : Int, size : Nat], given : Nat, refused : BOOLEAN]
Below(B, e) == \A b \in B : b \in HpBlocks /\ b.at % 4 = 0 /\ b.at + b.size <= e
LieApart(B) == \A b, c \in B : b # c => b.at + b.size <= c.at \/ c.at + c.size <= b.at
Clear(B, at, size) == \A b \in B : at + size <= b.at \/ b.at + b.size <= at
Laid(B, e, n) == Below(B, e) /\ LieApart(B) /\ IsFiniteSet(B) /\ Cardinality(B) = n
SlabLies(B, e, p, l) == p \in Nat /\ p % 4 = 0 /\ p + l <= e /\ Clear(B, p, l)
MemoryLies(m) ==
  m \in HpMemory /\ (~m.refused => Laid(m.blocks, m.end, m.given) /\ SlabLies(m.blocks, m.end, m.ptr, m.left))

\* A block in free memory lies apart from the others.
LEMMA BlockLies ==
  ASSUME NEW B, NEW e \in Nat, NEW n \in Nat, Laid(B, e, n),
         NEW at \in Nat, at % 4 = 0, NEW size \in Nat \ {0}, at + size <= e, Clear(B, at, size)
  PROVE  Laid(B \cup {[at |-> at, size |-> size]}, e, n + 1)
<1>1. PICK x : x = [at |-> at, size |-> size]
  OBVIOUS
<1>2. x \in HpBlocks /\ x.at = at /\ x.size = size
  BY <1>1 DEF HpBlocks
<1>3. \A b \in B : b \in HpBlocks /\ b.at \in Nat /\ b.size \in Nat \ {0}
  BY DEF Laid, Below, HpBlocks
<1>4. Below(B \cup {x}, e)
  <2>1. ASSUME NEW b \in B \cup {x}
        PROVE  b \in HpBlocks /\ b.at % 4 = 0 /\ b.at + b.size <= e
    <3>1. CASE b = x
      BY <1>2, <3>1
    <3>2. CASE b \in B
      BY <3>2 DEF Laid, Below
    <3>3. QED BY <3>1, <3>2
  <2>2. QED BY <2>1, Zenon DEF Below
<1>5. \A b \in B : x.at + x.size <= b.at \/ b.at + b.size <= x.at
  BY ONLY <1>2, Clear(B, at, size), Zenon DEF Clear
<1>6. LieApart(B \cup {x})
  <2>1. ASSUME NEW b \in B \cup {x}, NEW c \in B \cup {x}, b # c
        PROVE  b.at + b.size <= c.at \/ c.at + c.size <= b.at
    <3>1. CASE b \in B /\ c \in B
      BY <2>1, <3>1, Zenon DEF Laid, LieApart
    <3>2. CASE b = x /\ c \in B
      BY <1>5, <3>2, Zenon
    <3>3. CASE c = x /\ b \in B
      BY <1>5, <3>3, Zenon
    <3>4. QED BY <2>1, <3>1, <3>2, <3>3
  <2>2. QED BY <2>1, Zenon DEF LieApart
<1>7. x \notin B
  <2>1. SUFFICES ASSUME x \in B PROVE FALSE
    OBVIOUS
  <2>2. x.at + x.size <= x.at
    BY <1>5, <2>1, Zenon
  <2>3. QED BY ONLY <1>2, <2>2, at \in Nat, size \in Nat \ {0}
<1>8. IsFiniteSet(B \cup {x}) /\ Cardinality(B \cup {x}) = n + 1
  BY <1>7, FS_AddElement DEF Laid
<1>9. QED BY ONLY <1>1, <1>4, <1>6, <1>8, Zenon DEF Laid

\* What sbrk gives of m for n.
Gives(s, m, n) == s.got \in Nat /\ s.got % 4 = 0 /\ s.got >= m.end /\ s.got + n = s.end

LEMMA AlignedUp ==
  ASSUME NEW a \in Nat
  PROVE  Aligned(a) \in Nat /\ Aligned(a) >= a /\ Aligned(a) % 4 = 0
BY SMTT(30) DEF Aligned

\* What sbrk gives is above everything that was given.
LEMMA SbrkLies ==
  ASSUME NEW m, m \in HpMemory, NEW n \in Nat, NEW s, s = Sbrk(m, n)
  PROVE  /\ s \in HpMemory /\ s.blocks = m.blocks /\ s.given = m.given /\ s.ptr = m.ptr /\ s.left = m.left
         /\ m.refused => s.refused
         /\ s.end >= m.end
         /\ ~s.refused => Gives(s, m, n)
<1>1. PICK start : start = Aligned(m.end)
  OBVIOUS
<1>2. /\ m.end \in Nat /\ m.got \in Int /\ m.ptr \in Int /\ m.left \in 0..MCOUNT_SLAB_INCREMENT
      /\ m.blocks \in SUBSET [at : Int, size : Nat] /\ m.given \in Nat /\ m.refused \in BOOLEAN
      /\ m = [end |-> m.end, got |-> m.got, ptr |-> m.ptr, left |-> m.left, blocks |-> m.blocks,
              given |-> m.given, refused |-> m.refused]
  BY Zenon DEF HpMemory
<1>3. start \in Nat /\ start >= m.end /\ start % 4 = 0
  BY <1>1, <1>2, AlignedUp
<1>4. CASE start + n > HpLimit
  <2>1. s = [m EXCEPT !.end = start, !.got = -1, !.refused = TRUE]
    BY <1>1, <1>4, Zenon DEF Sbrk
  <2>2. s = [end |-> start, got |-> -1, ptr |-> m.ptr, left |-> m.left, blocks |-> m.blocks,
             given |-> m.given, refused |-> TRUE]
    BY <1>2, <2>1
  <2>3. s \in HpMemory
    <3>1. -1 \in Int /\ TRUE \in BOOLEAN
      OBVIOUS
    <3>2. QED BY ONLY <1>2, <1>3, <2>2, <3>1 DEF HpMemory
  <2>4. /\ s.end = start /\ s.blocks = m.blocks /\ s.given = m.given /\ s.ptr = m.ptr /\ s.left = m.left
        /\ s.refused
    BY ONLY <2>2
  <2>5. QED BY <1>3, <2>3, <2>4
<1>5. CASE ~(start + n > HpLimit)
  <2>1. s = [m EXCEPT !.end = start + n, !.got = start]
    BY <1>1, <1>5, Zenon DEF Sbrk
  <2>2. s = [end |-> start + n, got |-> start, ptr |-> m.ptr, left |-> m.left, blocks |-> m.blocks,
             given |-> m.given, refused |-> m.refused]
    BY <1>2, <2>1
  <2>3. s \in HpMemory
    <3>1. start + n \in Nat /\ start \in Int
      BY <1>3
    <3>2. QED BY ONLY <1>2, <2>2, <3>1 DEF HpMemory
  <2>4. /\ s.end = start + n /\ s.blocks = m.blocks /\ s.given = m.given /\ s.ptr = m.ptr /\ s.left = m.left
        /\ s.got = start
    BY ONLY <2>2
  <2>5. s.refused = m.refused
    BY ONLY <2>2
  <2>6. s.end >= m.end /\ s.got \in Nat /\ s.got % 4 = 0 /\ s.got >= m.end /\ s.got + n = s.end
    BY <1>2, <1>3, <2>4
  <2>7. QED BY ONLY <2>3, <2>4, <2>5, <2>6, Zenon DEF Gives
<1>6. QED BY <1>4, <1>5

LEMMA MoreEnd ==
  ASSUME NEW B, NEW e \in Nat, NEW d \in Nat, d >= e, NEW n, Laid(B, e, n)
  PROVE  Laid(B, d, n) /\ \A at \in Nat, size \in Nat : e <= at => Clear(B, at, size)
<1>1. \A b \in B : b \in HpBlocks /\ b.at % 4 = 0 /\ b.at + b.size <= e /\ b.at \in Nat /\ b.size \in Nat
  BY DEF Laid, Below, HpBlocks
<1>2. Below(B, d)
  BY <1>1 DEF Below
<1>3. \A at \in Nat, size \in Nat : e <= at => Clear(B, at, size)
  BY <1>1 DEF Clear
<1>4. QED BY <1>2, <1>3, Zenon DEF Laid

\* sbrk leaves what was given as it lies.
LEMMA SbrkKeeps ==
  ASSUME NEW m, MemoryLies(m), NEW n \in Nat, NEW s, s = Sbrk(m, n), ~s.refused
  PROVE  /\ ~m.refused /\ Laid(s.blocks, s.end, s.given) /\ SlabLies(s.blocks, s.end, s.ptr, s.left)
         /\ Clear(s.blocks, s.got, n) /\ s.ptr + s.left <= s.got
<1>1. /\ s \in HpMemory /\ s.blocks = m.blocks /\ s.given = m.given /\ s.ptr = m.ptr /\ s.left = m.left
      /\ m.refused => s.refused
      /\ s.end >= m.end /\ Gives(s, m, n)
  <2>1. m \in HpMemory
    BY Zenon DEF MemoryLies
  <2>2. QED BY <2>1, SbrkLies, Zenon
<1>2. ~m.refused /\ Laid(m.blocks, m.end, m.given) /\ SlabLies(m.blocks, m.end, m.ptr, m.left)
  BY <1>1, Zenon DEF MemoryLies
<1>3. m.end \in Nat /\ s.end \in Nat /\ m.left \in Nat
  BY <1>1 DEF MemoryLies, HpMemory
<1>4. s.got \in Nat /\ s.got % 4 = 0 /\ s.got >= m.end /\ s.got + n = s.end
  BY <1>1, Zenon DEF Gives
<1>5. Laid(m.blocks, s.end, m.given) /\ Clear(m.blocks, s.got, n)
  <2>1. m.end <= s.got
    BY <1>3, <1>4
  <2>2. QED BY ONLY <1>1, <1>2, <1>3, <1>4, <2>1, n \in Nat, MoreEnd, SMTT(30), ZenonT(40)
<1>6. SlabLies(m.blocks, s.end, m.ptr, m.left) /\ m.ptr + m.left <= s.got
  <2>1. m.ptr \in Nat /\ m.ptr % 4 = 0 /\ m.ptr + m.left <= m.end /\ Clear(m.blocks, m.ptr, m.left)
    BY <1>2, Zenon DEF SlabLies
  <2>2. m.ptr + m.left <= s.end /\ m.ptr + m.left <= s.got
    BY ONLY <1>1, <1>3, <1>4, <2>1
  <2>3. QED BY <2>1, <2>2, Zenon DEF SlabLies
<1>7. QED BY ONLY <1>1, <1>2, <1>5, <1>6, Zenon

LEMMA OwnedIs ==
  ASSUME NEW m \in HpMemory, NEW at \in Int, NEW size \in Nat, NEW o, o = Owned(m, at, size)
  PROVE  /\ o \in HpMemory /\ o.blocks = m.blocks \cup {[at |-> at, size |-> size]} /\ o.given = m.given + 1
         /\ o.end = m.end /\ o.got = m.got /\ o.ptr = m.ptr /\ o.left = m.left /\ o.refused = m.refused
<1>1. PICK b : b = [at |-> at, size |-> size]
  OBVIOUS
<1>2. /\ m.end \in Nat /\ m.got \in Int /\ m.ptr \in Int /\ m.left \in 0..MCOUNT_SLAB_INCREMENT
      /\ m.blocks \in SUBSET [at : Int, size : Nat] /\ m.given \in Nat /\ m.refused \in BOOLEAN
      /\ m = [end |-> m.end, got |-> m.got, ptr |-> m.ptr, left |-> m.left, blocks |-> m.blocks,
              given |-> m.given, refused |-> m.refused]
  BY Zenon DEF HpMemory
<1>3. PICK B, g : B = m.blocks \cup {b} /\ g = m.given + 1
  OBVIOUS
<1>4. B \in SUBSET [at : Int, size : Nat] /\ g \in Nat
  BY <1>1, <1>2, <1>3
<1>5. o = [m EXCEPT !.blocks = B, !.given = g]
  BY <1>1, <1>3 DEF Owned
<1>6. o = [end |-> m.end, got |-> m.got, ptr |-> m.ptr, left |-> m.left, blocks |-> B,
           given |-> g, refused |-> m.refused]
  BY ONLY <1>2, <1>5
<1>7. o \in HpMemory
  BY ONLY <1>2, <1>4, <1>6 DEF HpMemory
<1>8. /\ o.blocks = B /\ o.given = g
      /\ o.end = m.end /\ o.got = m.got /\ o.ptr = m.ptr /\ o.left = m.left /\ o.refused = m.refused
  BY ONLY <1>6
<1>9. QED BY <1>1, <1>3, <1>7, <1>8, Zenon

\* malloc, and the histogram.
LEMMA GivenLies ==
  ASSUME NEW m, MemoryLies(m), NEW n \in Nat \ {0}, NEW s, s = Sbrk(m, n)
  PROVE  MemoryLies(IF s.refused THEN s ELSE Owned(s, s.got, n))
<1>1. s \in HpMemory /\ n \in Nat
  BY SbrkLies, Zenon DEF MemoryLies
<1>2. CASE s.refused
  BY <1>1, <1>2, Zenon DEF MemoryLies
<1>3. CASE ~s.refused
  <2>1. /\ ~m.refused /\ Laid(s.blocks, s.end, s.given) /\ SlabLies(s.blocks, s.end, s.ptr, s.left)
        /\ Clear(s.blocks, s.got, n) /\ s.ptr + s.left <= s.got
    BY <1>1, <1>3, SbrkKeeps, Zenon
  <2>2. s.got \in Nat /\ s.got % 4 = 0 /\ s.got + n = s.end
    <3>1. m \in HpMemory
      BY Zenon DEF MemoryLies
    <3>2. Gives(s, m, n)
      BY <1>1, <1>3, <3>1, SbrkLies, Zenon
    <3>3. QED BY ONLY <3>2, Zenon DEF Gives
  <2>3. PICK o : o = Owned(s, s.got, n)
    OBVIOUS
  <2>4. /\ o \in HpMemory /\ o.blocks = s.blocks \cup {[at |-> s.got, size |-> n]} /\ o.given = s.given + 1
        /\ o.end = s.end /\ o.ptr = s.ptr /\ o.left = s.left
    <3>1. s.got \in Int
      BY <2>2
    <3>2. QED BY <1>1, <2>3, <3>1, OwnedIs, SMTT(30), ZenonT(40)
  <2>5. s.end \in Nat /\ s.given \in Nat /\ s.left \in Nat
    BY <1>1 DEF HpMemory
  <2>6. s.got + n <= s.end
    BY <2>2, <2>5
  <2>7. Laid(o.blocks, o.end, o.given)
    BY ONLY <2>1, <2>2, <2>4, <2>5, <2>6, n \in Nat \ {0}, BlockLies, SMTT(30), ZenonT(40)
  <2>8. SlabLies(o.blocks, o.end, o.ptr, o.left)
    <3>1. Clear(s.blocks, s.ptr, s.left) /\ s.ptr \in Nat /\ s.ptr % 4 = 0 /\ s.ptr + s.left <= s.end
      BY <2>1, Zenon DEF SlabLies
    <3>2. Clear(s.blocks \cup {[at |-> s.got, size |-> n]}, s.ptr, s.left)
      BY ONLY <2>1, <3>1 DEF Clear
    <3>3. QED BY ONLY <2>4, <3>1, <3>2, Zenon DEF SlabLies
  <2>9. QED BY <1>3, <2>3, <2>4, <2>7, <2>8, Zenon DEF MemoryLies
<1>4. QED BY <1>2, <1>3

LEMMA SlabThere ==
  ASSUME NEW m, MemoryLies(m), NEW s, s = Slab(m)
  PROVE  MemoryLies(s) /\ HpEntry <= s.left
<1>1. CASE SlabFits(m)
  BY <1>1 DEF Slab, SlabFits
<1>2. CASE ~SlabFits(m)
  <2>1. PICK r : r = Sbrk(m, MCOUNT_SLAB_INCREMENT)
    OBVIOUS
  <2>2. MCOUNT_SLAB_INCREMENT \in Nat /\ HpEntry <= MCOUNT_SLAB_INCREMENT
        /\ MCOUNT_SLAB_INCREMENT \in 0..MCOUNT_SLAB_INCREMENT
    BY HpAssumption
  <2>3. s = [r EXCEPT !.ptr = r.got, !.left = MCOUNT_SLAB_INCREMENT]
    BY <1>2, <2>1, Zenon DEF Slab
  <2>4. r \in HpMemory /\ (~r.refused => r.got \in Nat /\ r.got % 4 = 0 /\ r.got + MCOUNT_SLAB_INCREMENT = r.end)
    <3>1. m \in HpMemory
      BY Zenon DEF MemoryLies
    <3>2. r \in HpMemory /\ (~r.refused => Gives(r, m, MCOUNT_SLAB_INCREMENT))
      BY <2>1, <2>2, <3>1, SbrkLies, Zenon
    <3>3. QED BY ONLY <3>2, SMTT(30), ZenonT(40) DEF Gives
  <2>5. /\ r.end \in Nat /\ r.got \in Int /\ r.ptr \in Int /\ r.left \in 0..MCOUNT_SLAB_INCREMENT
        /\ r.blocks \in SUBSET [at : Int, size : Nat] /\ r.given \in Nat /\ r.refused \in BOOLEAN
        /\ r = [end |-> r.end, got |-> r.got, ptr |-> r.ptr, left |-> r.left, blocks |-> r.blocks,
                given |-> r.given, refused |-> r.refused]
    BY <2>4, Zenon DEF HpMemory
  <2>6. s = [end |-> r.end, got |-> r.got, ptr |-> r.got, left |-> MCOUNT_SLAB_INCREMENT, blocks |-> r.blocks,
             given |-> r.given, refused |-> r.refused]
    BY ONLY <2>3, <2>5
  <2>7. s \in HpMemory
    BY ONLY <2>2, <2>5, <2>6 DEF HpMemory
  <2>8. /\ s.end = r.end /\ s.ptr = r.got /\ s.left = MCOUNT_SLAB_INCREMENT /\ s.blocks = r.blocks
        /\ s.given = r.given /\ s.refused = r.refused
    BY ONLY <2>6
  <2>9. ASSUME ~s.refused
        PROVE  Laid(s.blocks, s.end, s.given) /\ SlabLies(s.blocks, s.end, s.ptr, s.left)
    <3>1. ~r.refused
      BY <2>8, <2>9
    <3>2. Laid(r.blocks, r.end, r.given) /\ Clear(r.blocks, r.got, MCOUNT_SLAB_INCREMENT)
      BY <2>1, <2>2, <3>1, SbrkKeeps, Zenon
    <3>3. r.got + MCOUNT_SLAB_INCREMENT <= r.end /\ r.got \in Nat /\ r.got % 4 = 0
      BY <2>4, <2>5, <3>1
    <3>4. QED BY ONLY <2>8, <3>2, <3>3, Zenon DEF SlabLies
  <2>10. QED BY <2>2, <2>7, <2>8, <2>9, Zenon DEF MemoryLies
<1>3. QED BY <1>1, <1>2

\* mcount_allocate.
LEMMA AllocatedLies ==
  ASSUME NEW m, MemoryLies(m)
  PROVE  MemoryLies(Allocated(m))
<1>0. HpEntry \in Nat \ {0} /\ HpEntry % 4 = 0 /\ MCOUNT_SLAB_INCREMENT \in Nat
  BY HpAssumption
<1>1. PICK s : s = Slab(m)
  OBVIOUS
<1>2. MemoryLies(s) /\ HpEntry <= s.left
  BY <1>1, SlabThere, Zenon
<1>3. /\ s.end \in Nat /\ s.got \in Int /\ s.ptr \in Int /\ s.left \in 0..MCOUNT_SLAB_INCREMENT
      /\ s.blocks \in SUBSET [at : Int, size : Nat] /\ s.given \in Nat /\ s.refused \in BOOLEAN
      /\ s = [end |-> s.end, got |-> s.got, ptr |-> s.ptr, left |-> s.left, blocks |-> s.blocks,
              given |-> s.given, refused |-> s.refused]
  BY <1>2, Zenon DEF MemoryLies, HpMemory
<1>4. PICK p, l : p = s.ptr + HpEntry /\ l = s.left - HpEntry
  OBVIOUS
<1>5. p \in Int /\ l \in 0..MCOUNT_SLAB_INCREMENT
  BY <1>0, <1>2, <1>3, <1>4
<1>6. PICK r : r = [s EXCEPT !.ptr = p, !.left = l]
  OBVIOUS
<1>7. r = [end |-> s.end, got |-> s.got, ptr |-> p, left |-> l, blocks |-> s.blocks,
           given |-> s.given, refused |-> s.refused]
  BY ONLY <1>3, <1>6
<1>8. r \in HpMemory
  BY ONLY <1>3, <1>5, <1>7 DEF HpMemory
<1>9. /\ r.end = s.end /\ r.ptr = p /\ r.left = l /\ r.blocks = s.blocks /\ r.given = s.given /\ r.refused = s.refused
  BY ONLY <1>7
<1>10. PICK o : o = Owned(r, s.ptr, HpEntry)
  OBVIOUS
<1>11. Allocated(m) = o
  BY <1>1, <1>4, <1>6, <1>10 DEF Allocated
<1>12. /\ o \in HpMemory /\ o.blocks = r.blocks \cup {[at |-> s.ptr, size |-> HpEntry]} /\ o.given = r.given + 1
       /\ o.end = r.end /\ o.ptr = r.ptr /\ o.left = r.left /\ o.refused = r.refused
  <2>1. s.ptr \in Int /\ HpEntry \in Nat
    BY <1>0, <1>3
  <2>2. QED BY <1>8, <1>10, <2>1, OwnedIs, SMTT(30), ZenonT(40)
<1>13. ASSUME ~o.refused
       PROVE  Laid(o.blocks, o.end, o.given) /\ SlabLies(o.blocks, o.end, o.ptr, o.left)
  <2>1. ~s.refused
    BY <1>9, <1>12, <1>13, Zenon
  <2>2. /\ Laid(s.blocks, s.end, s.given) /\ s.ptr \in Nat /\ s.ptr % 4 = 0 /\ s.ptr + s.left <= s.end
        /\ Clear(s.blocks, s.ptr, s.left)
    BY <1>2, <2>1, Zenon DEF MemoryLies, SlabLies
  <2>3. \A b \in s.blocks : b.at \in Nat /\ b.size \in Nat
    BY <2>2 DEF Laid, Below, HpBlocks
  <2>4. Clear(s.blocks, s.ptr, HpEntry) /\ Clear(s.blocks, p, l)
    BY ONLY <1>0, <1>2, <1>3, <1>4, <2>2, <2>3 DEF Clear
  <2>5. s.ptr + HpEntry <= s.end
    BY <1>0, <1>2, <1>3, <2>2
  <2>6. Laid(s.blocks \cup {[at |-> s.ptr, size |-> HpEntry]}, s.end, s.given + 1)
    BY <1>0, <1>3, <2>2, <2>4, <2>5, BlockLies, SMTT(30), ZenonT(40)
  <2>7. Clear(s.blocks \cup {[at |-> s.ptr, size |-> HpEntry]}, p, l)
    BY ONLY <1>0, <1>3, <1>4, <2>2, <2>4 DEF Clear
  <2>8. p \in Nat /\ p % 4 = 0 /\ p + l <= s.end
    BY ONLY <1>0, <1>3, <1>4, <2>2
  <2>9. SlabLies(s.blocks \cup {[at |-> s.ptr, size |-> HpEntry]}, s.end, p, l)
    BY ONLY <2>7, <2>8, Zenon DEF SlabLies
  <2>10. QED BY ONLY <1>9, <1>12, <2>6, <2>9, Zenon
<1>14. QED BY <1>11, <1>12, <1>13, Zenon DEF MemoryLies

LEMMA RecordLies ==
  ASSUME NEW m, MemoryLies(m), NEW fn
  PROVE  MemoryLies(RecordMem(fn, m))
BY AllocatedLies, Zenon DEF RecordMem

LEMMA SamplerLies ==
  ASSUME NEW m, MemoryLies(m)
  PROVE  MemoryLies(InitMem(m))
<1>1. PICK s : s = Sbrk(m, HpHistogram)
  OBVIOUS
<1>2. HpHistogram \in Nat \ {0}
  BY HpAssumption
<1>3. MemoryLies(IF s.refused THEN s ELSE Owned(s, s.got, HpHistogram))
  BY <1>1, <1>2, GivenLies, Zenon
<1>4. QED BY <1>1, <1>3, Zenon DEF InitMem

-----------------------------------------------------------------------------
(***************************************************************************)
(* The invariant of the profiler.                                          *)
(***************************************************************************)
HpPlaces == {"idle", "arc", "load", "store", "test", "claim", "init", "record"}
HpTyped ==
  /\ hpNeedInit \in BOOLEAN /\ hpRate \in BOOLEAN /\ hpStarts \in Nat
  /\ hpPc \in HpPlaces /\ hpCall \in Calls /\ hpFn \in Nat /\ hpArc \in Nat /\ hpCount \in Nat
HpListed ==
  hpEntries \in HpLists /\ FewIn(hpEntries) /\ Sees(hpEntries, hpPc, hpCall, hpFn, hpArc, hpCount)
\* What the foreground, which has loaded the count, will take back.
Lag(E, c) == IF hpPc = "store" /\ c = hpCall THEN E[hpFn].arcs[hpArc].count - hpCount ELSE 0
Adding(E, calls, breaks, c, lag) ==
  /\ calls[c] \in Nat /\ breaks[c] \in Nat /\ TotalOf(E, c) \in Nat
  /\ TotalOf(E, c) <= calls[c] /\ TotalOf(E, c) + breaks[c] >= calls[c] + lag
HpCounting ==
  /\ hpCalls \in [Calls -> Nat] /\ hpBreaks \in [Calls -> Nat]
  /\ \A c \in Calls : Adding(hpEntries, hpCalls, hpBreaks, c, Lag(hpEntries, c))
HpInv == HpTyped /\ HpListed /\ HpCounting /\ MemoryLies(hpMem)

LEMMA LagIs ==
  ASSUME HpTyped, HpListed, NEW c \in Calls
  PROVE  Lag(hpEntries, c) \in Nat
<1>1. CASE hpPc = "store" /\ c = hpCall
  <2>1. Sees(hpEntries, hpPc, hpCall, hpFn, hpArc, hpCount) /\ hpEntries \in HpLists /\ hpCount \in Nat
    BY DEF HpListed, HpTyped
  <2>2. hpFn # 0 /\ hpArc \in DOMAIN hpEntries[hpFn].arcs /\ hpCount <= hpEntries[hpFn].arcs[hpArc].count
    BY <1>1, <2>1 DEF Sees
  <2>3. hpFn \in DOMAIN hpEntries
    BY <1>1, <2>1, <2>2 DEF Sees, Met
  <2>4. hpEntries[hpFn].arcs[hpArc].count \in Nat
    BY <2>1, <2>2, <2>3, PlaceOfLists, Zenon
  <2>5. QED BY <1>1, <2>1, <2>2, <2>4 DEF Lag
<1>2. CASE ~(hpPc = "store" /\ c = hpCall)
  BY <1>2 DEF Lag
<1>3. QED BY <1>1, <1>2

\* An mcount in an interrupt routine adds one to its arc and hides nothing from
\* the foreground.
InterruptAdds(F, c) ==
  /\ F \in HpLists /\ FewIn(F) /\ Sees(F, hpPc, hpCall, hpFn, hpArc, hpCount)
  /\ \A d \in Calls : /\ TotalOf(hpEntries, d) \in Nat
                      /\ TotalOf(F, d) = TotalOf(hpEntries, d) + (IF d = c THEN 1 ELSE 0)
                      /\ Lag(F, d) = Lag(hpEntries, d) \/ (d = c /\ hpPc = "store" /\ Lag(F, d) = Lag(hpEntries, d) + 1)

LEMMA InterruptCounts ==
  ASSUME HpTyped, HpListed, NEW c \in Calls, NEW fn, fn = FnOf(c), NEW arc, arc = ArcOf(fn, c), arc # 0
  PROVE  InterruptAdds(Counted(fn, arc, hpEntries[fn].arcs[arc].count + 1), c)
<1>1. hpEntries \in HpLists /\ FewIn(hpEntries) /\ Sees(hpEntries, hpPc, hpCall, hpFn, hpArc, hpCount)
      /\ hpCall \in Calls /\ hpCount \in Nat
  BY DEF HpListed, HpTyped
<1>2. fn = 0 \/ Met(hpEntries, fn, c.self)
  BY <1>1, WalkFn, Zenon
<1>3. fn # 0 /\ arc \in DOMAIN hpEntries[fn].arcs /\ hpEntries[fn].arcs[arc].from = c.from
  BY <1>1, <1>2, WalkArc, Zenon
<1>4. CopyAt(hpEntries, c, fn, arc)
  BY <1>2, <1>3, Zenon DEF Met, CopyAt
<1>5. PICK E : E = hpEntries
  OBVIOUS
<1>6. PICK v : v = E[fn].arcs[arc].count + 1
  OBVIOUS
<1>7. fn \in DOMAIN E /\ E[fn].arcs[arc].count \in Nat /\ v \in Nat
  <2>1. fn \in DOMAIN E /\ E[fn].arcs[arc].count \in Nat
    BY <1>1, <1>3, <1>4, <1>5, PlaceOfLists, Zenon DEF CopyAt
  <2>2. QED BY <1>6, <2>1
<1>8. PICK F : F = Counted(fn, arc, v)
  OBVIOUS
<1>9. F \in HpLists /\ Bumped(E, F, fn, arc, v)
  <2>1. F = [E EXCEPT ![fn].arcs[arc].count = v]
    BY <1>5, <1>8 DEF Counted
  <2>2. QED BY <1>1, <1>3, <1>5, <1>7, <2>1, NewCount, SMTT(30), ZenonT(40)
<1>10. FewIn(F)
  BY <1>1, <1>5, <1>9, BumpedFew, Zenon
<1>11. Sees(F, hpPc, hpCall, hpFn, hpArc, hpCount)
  <2>1. Bumped(E, F, fn, arc, E[fn].arcs[arc].count + 1)
    BY <1>6, <1>9
  <2>2. E \in HpLists /\ Sees(E, hpPc, hpCall, hpFn, hpArc, hpCount)
    BY <1>1, <1>5
  <2>3. QED BY ONLY <1>1, <1>9, <2>1, <2>2, SeesCount, SMTT(30), ZenonT(40)
<1>12. ASSUME NEW d \in Calls
       PROVE  TotalOf(E, d) \in Nat /\ TotalOf(F, d) = TotalOf(E, d) + (IF d = c THEN 1 ELSE 0)
  <2>1. /\ TotalOf(E, d) \in Nat /\ TotalOf(F, d) \in Nat
        /\ d = c => TotalOf(F, d) + E[fn].arcs[arc].count = TotalOf(E, d) + v
        /\ d # c => TotalOf(F, d) = TotalOf(E, d)
    <3>1. E \in HpLists /\ FewIn(E) /\ CopyAt(E, c, fn, arc)
      BY <1>1, <1>4, <1>5
    <3>2. QED BY ONLY <1>7, <1>9, <1>10, <3>1, c \in Calls, d \in Calls, TotalBumped, SMTT(30), ZenonT(40)
  <2>2. QED BY ONLY <1>6, <1>7, <2>1
<1>13. ASSUME NEW d \in Calls
       PROVE  Lag(F, d) = Lag(E, d) \/ (d = c /\ hpPc = "store" /\ Lag(F, d) = Lag(E, d) + 1)
  <2>1. CASE hpPc = "store" /\ d = hpCall
    <3>1. hpFn \in DOMAIN E /\ hpArc \in DOMAIN E[hpFn].arcs /\ E[hpFn].arcs[hpArc].from = d.from /\ E[hpFn].self = d.self
      BY <1>1, <1>5, <2>1 DEF Sees, Met
    <3>2. \/ F[hpFn].arcs[hpArc].count = E[hpFn].arcs[hpArc].count
          \/ hpFn = fn /\ hpArc = arc /\ F[fn].arcs[arc].count = v
      <4>1. F[hpFn].arcs[hpArc].count = E[hpFn].arcs[hpArc].count \/ (hpFn = fn /\ hpArc = arc)
        <5>1. \A k \in DOMAIN E : DOMAIN F[k].arcs = DOMAIN E[k].arcs /\ 
                \A j \in DOMAIN E[k].arcs : /\ F[k].arcs[j].from = E[k].arcs[j].from
                                            /\ F[k].arcs[j].count = E[k].arcs[j].count \/ (k = fn /\ j = arc)
          <6>1. E \in HpLists
            BY <1>1, <1>5
          <6>2. QED BY ONLY <1>9, <6>1, BumpedFew, SMTT(30), ZenonT(40)
        <5>2. QED BY ONLY <3>1, <5>1, Zenon
      <4>2. F[fn].arcs[arc].count = v
        BY <1>9, Zenon DEF Bumped
      <4>3. QED BY <4>1, <4>2
    <3>3. hpFn = fn /\ hpArc = arc => d = c
      <4>1. E[fn].self = c.self /\ E[fn].arcs[arc].from = c.from
        BY <1>4, <1>5 DEF CopyAt
      <4>2. QED BY <3>1, <4>1 DEF Calls
    <3>4. Lag(E, d) = E[hpFn].arcs[hpArc].count - hpCount /\ Lag(F, d) = F[hpFn].arcs[hpArc].count - hpCount
      BY <2>1 DEF Lag
    <3>5. CASE F[hpFn].arcs[hpArc].count = E[hpFn].arcs[hpArc].count
      BY <3>4, <3>5
    <3>6. CASE hpFn = fn /\ hpArc = arc /\ F[fn].arcs[arc].count = v
      <4>1. F[hpFn].arcs[hpArc].count = E[hpFn].arcs[hpArc].count + 1 /\ E[hpFn].arcs[hpArc].count \in Nat
        BY ONLY <1>6, <1>7, <3>6
      <4>2. Lag(F, d) = Lag(E, d) + 1
        BY ONLY <1>1, <3>4, <4>1
      <4>3. QED BY <2>1, <3>3, <3>6, <4>2
    <3>7. QED BY <3>2, <3>5, <3>6
  <2>2. CASE ~(hpPc = "store" /\ d = hpCall)
    BY <2>2 DEF Lag
  <2>3. QED BY <2>1, <2>2
<1>14. InterruptAdds(F, c)
  BY <1>5, <1>9, <1>10, <1>11, <1>12, <1>13, Zenon DEF InterruptAdds
<1>15. QED BY <1>5, <1>6, <1>8, <1>14

LEMMA InterruptRecords ==
  ASSUME HpTyped, HpListed, NEW c \in Calls, NEW fn, fn = FnOf(c), ArcOf(fn, c) = 0
  PROVE  InterruptAdds(Recorded(fn, c), c)
<1>1. hpEntries \in HpLists /\ FewIn(hpEntries) /\ Sees(hpEntries, hpPc, hpCall, hpFn, hpArc, hpCount)
      /\ hpCall \in Calls /\ hpCount \in Nat
  BY DEF HpListed, HpTyped
<1>2. /\ fn = 0 => \A k \in DOMAIN hpEntries : hpEntries[k].self # c.self
      /\ fn # 0 => Met(hpEntries, fn, c.self)
  BY <1>1, WalkFn, Zenon
<1>3. fn # 0 => NoArc(hpEntries[fn].arcs, c.from)
  BY <1>1, <1>2, WalkArc, Zenon
<1>4. PICK E, F : E = hpEntries /\ F = Recorded(fn, c)
  OBVIOUS
<1>5. E \in HpLists /\ FewIn(E) /\ Sees(E, hpPc, hpCall, hpFn, hpArc, hpCount)
  BY <1>1, <1>4
<1>6. /\ fn = 0 => Missed(E, c.self)
      /\ fn # 0 => Met(E, fn, c.self) /\ OneArc(E[fn].arcs, c.from)
  <2>1. fn = 0 => Missed(E, c.self)
    BY ONLY <1>2, <1>4, Zenon DEF Missed, OneOf
  <2>2. fn # 0 => OneArc(E[fn].arcs, c.from)
    BY <1>3, <1>4, OneTwo, Zenon
  <2>3. QED BY <1>2, <1>4, <2>1, <2>2
<1>7. F \in HpLists /\ FewIn(F) /\ \E n, a : Grown(E, F, n, a, c) /\ IF fn = 0 THEN n \notin DOMAIN E ELSE n = fn
  BY <1>1, <1>4, <1>6, RecordAdds, SMTT(30), ZenonT(40)
<1>8. PICK n, a : Grown(E, F, n, a, c) /\ IF fn = 0 THEN n \notin DOMAIN E ELSE n = fn
  BY <1>7, Zenon
<1>9. \/ n \notin DOMAIN E /\ \A k \in DOMAIN E : E[k].self # c.self
      \/ Met(E, n, c.self) /\ NoArc(E[n].arcs, c.from)
  BY <1>2, <1>3, <1>4, <1>8, Zenon
<1>10. Sees(F, hpPc, hpCall, hpFn, hpArc, hpCount)
  BY ONLY <1>1, <1>5, <1>7, <1>8, <1>9, c \in Calls, SeesRecord, SMTT(30), ZenonT(40)
<1>11. ASSUME NEW d \in Calls
       PROVE  TotalOf(E, d) \in Nat /\ TotalOf(F, d) = TotalOf(E, d) + (IF d = c THEN 1 ELSE 0)
  BY <1>5, <1>7, <1>8, TotalGrown, SMTT(30), ZenonT(40)
<1>12. ASSUME NEW d \in Calls
       PROVE  Lag(F, d) = Lag(E, d)
  <2>1. CASE hpPc = "store" /\ d = hpCall
    <3>1. hpFn \in DOMAIN E /\ hpArc \in DOMAIN E[hpFn].arcs
      BY <1>5, <2>1 DEF Sees, Met
    <3>2. F[hpFn].arcs[hpArc] = E[hpFn].arcs[hpArc]
      <4>1. CASE hpFn = n
        BY <1>8, <3>1, <4>1, Zenon DEF Grown
      <4>2. CASE hpFn # n
        BY <1>8, <3>1, <4>2, Zenon DEF Grown
      <4>3. QED BY <4>1, <4>2
    <3>3. QED BY <2>1, <3>2, Zenon DEF Lag
  <2>2. CASE ~(hpPc = "store" /\ d = hpCall)
    BY <2>2 DEF Lag
  <2>3. QED BY <2>1, <2>2
<1>13. InterruptAdds(F, c)
  BY <1>4, <1>7, <1>10, <1>11, <1>12, Zenon DEF InterruptAdds
<1>14. QED BY <1>4, <1>13

LEMMA SomeCall == (CHOOSE c \in Calls : TRUE) \in Calls
<1>1. \E c : c \in Calls
  <2>1. PICK f \in HpFuncs, q \in HpCallers : TRUE
    BY HpAssumption
  <2>2. [self |-> f, from |-> q] \in Calls
    BY DEF Calls
  <2>3. QED BY <2>2
<1>2. QED BY <1>1, Zenon

\* Nothing is counted or lost by a step that leaves the lists.
LEMMA CountingStays ==
  ASSUME HpInv, hpEntries' = hpEntries, hpCalls' = hpCalls, hpBreaks' = hpBreaks,
         \A c \in Calls : Lag(hpEntries, c)' = 0 \/ Lag(hpEntries, c)' = Lag(hpEntries, c)
  PROVE  HpCounting'
<1>1. ASSUME NEW c \in Calls
      PROVE  Adding(hpEntries, hpCalls, hpBreaks, c, Lag(hpEntries, c)')
  <2>1. Lag(hpEntries, c) \in Nat
    BY LagIs DEF HpInv
  <2>2. Adding(hpEntries, hpCalls, hpBreaks, c, Lag(hpEntries, c))
    BY DEF HpInv, HpCounting
  <2>3. QED BY <2>1, <2>2 DEF Adding
<1>2. hpCalls' \in [Calls -> Nat] /\ hpBreaks' \in [Calls -> Nat]
  BY DEF HpInv, HpCounting
<1>3. \A c \in Calls : Adding(hpEntries, hpCalls, hpBreaks, c, Lag(hpEntries, c))'
  <2>1. ASSUME NEW c \in Calls PROVE Adding(hpEntries, hpCalls, hpBreaks, c, Lag(hpEntries, c))'
    BY <1>1 DEF Adding
  <2>2. QED BY <2>1
<1>4. QED BY <1>2, <1>3, Zenon DEF HpCounting

LEMMA StepMalloc == HpInv /\ HpMalloc => HpInv'
<1>1. SUFFICES ASSUME HpInv, HpMalloc PROVE HpInv'
  OBVIOUS
<1>2. PICK n \in HpMallocs : LET m == Sbrk(hpMem, n) IN hpMem' = IF m.refused THEN m ELSE Owned(m, m.got, n)
  BY <1>1, Zenon DEF HpMalloc
<1>3. UNCHANGED <<hpEntries, hpNeedInit, hpRate, hpStarts, hpCalls, hpBreaks>> /\ UNCHANGED <<hpPc, hpCall, hpFn, hpArc, hpCount>>
  BY <1>1 DEF HpMalloc, hpFg
<1>4. MemoryLies(hpMem')
  <2>1. n \in Nat \ {0}
    BY HpAssumption
  <2>2. MemoryLies(hpMem)
    BY <1>1 DEF HpInv
  <2>3. PICK s : s = Sbrk(hpMem, n)
    OBVIOUS
  <2>4. hpMem' = IF s.refused THEN s ELSE Owned(s, s.got, n)
    BY <1>2, <2>3, Zenon
  <2>5. QED BY <2>1, <2>2, <2>3, <2>4, GivenLies, Zenon
<1>5. HpTyped' /\ HpListed'
  BY <1>1, <1>3 DEF HpInv, HpTyped, HpListed
<1>6. \A c \in Calls : Lag(hpEntries, c)' = Lag(hpEntries, c)
  BY <1>3 DEF Lag
<1>7. HpCounting'
  BY <1>1, <1>3, <1>6, CountingStays
<1>8. MemoryLies(hpMem)'
  BY <1>4
<1>9. QED BY <1>5, <1>7, <1>8, Zenon DEF HpInv

LEMMA StepClock == HpInv /\ HpClockStarts => HpInv'
<1>1. SUFFICES ASSUME HpInv, HpClockStarts PROVE HpInv'
  OBVIOUS
<1>2. hpRate' = TRUE /\ UNCHANGED <<hpEntries, hpNeedInit, hpStarts, hpMem, hpCalls, hpBreaks>>
      /\ UNCHANGED <<hpPc, hpCall, hpFn, hpArc, hpCount>>
  BY <1>1 DEF HpClockStarts, hpFg
<1>3. HpTyped' /\ HpListed' /\ MemoryLies(hpMem)'
  BY <1>1, <1>2 DEF HpInv, HpTyped, HpListed
<1>4. \A c \in Calls : Lag(hpEntries, c)' = Lag(hpEntries, c)
  BY <1>2 DEF Lag
<1>5. HpCounting'
  BY <1>1, <1>2, <1>4, CountingStays
<1>6. QED BY <1>3, <1>5, Zenon DEF HpInv

LEMMA StepBegin == HpInv /\ HpBegin => HpInv'
<1>1. SUFFICES ASSUME HpInv, HpBegin PROVE HpInv'
  OBVIOUS
<1>2. hpPc = "idle" /\ hpPc' = "arc" /\ UNCHANGED <<hpArc, hpCount>>
      /\ UNCHANGED <<hpEntries, hpNeedInit, hpRate, hpStarts, hpMem, hpCalls, hpBreaks>>
  BY <1>1 DEF HpBegin
<1>3. PICK c \in Calls : hpCall' = c /\ hpFn' = FnOf(c)
  BY <1>1, Zenon DEF HpBegin
<1>4. hpEntries \in HpLists /\ FewIn(hpEntries)
  BY <1>1 DEF HpInv, HpListed
<1>5. /\ FnOf(c) \in Nat
      /\ FnOf(c) = 0 => \A k \in DOMAIN hpEntries : hpEntries[k].self # c.self
      /\ FnOf(c) # 0 => Met(hpEntries, FnOf(c), c.self)
  BY <1>4, WalkFn, Zenon
<1>6. FnOf(c) = 0 => Missed(hpEntries, c.self)
  BY ONLY <1>5, Zenon DEF Missed, OneOf
<1>7. Sees(hpEntries, "arc", c, FnOf(c), hpArc, hpCount)
  BY <1>5, <1>6 DEF Sees
<1>8. HpListed'
  BY <1>2, <1>3, <1>4, <1>7 DEF HpListed
<1>9. HpTyped'
  BY <1>1, <1>2, <1>3, <1>5 DEF HpInv, HpTyped, HpPlaces
<1>10. \A d \in Calls : Lag(hpEntries, d)' = 0
  BY <1>2 DEF Lag
<1>11. HpCounting'
  BY <1>1, <1>2, <1>10, CountingStays
<1>12. MemoryLies(hpMem)'
  BY <1>1, <1>2 DEF HpInv
<1>13. QED BY <1>8, <1>9, <1>11, <1>12, Zenon DEF HpInv

LEMMA StepFindArc == HpInv /\ HpFindArc => HpInv'
<1>1. SUFFICES ASSUME HpInv, HpFindArc PROVE HpInv'
  OBVIOUS
<1>2. hpPc = "arc" /\ hpArc' = ArcOf(hpFn, hpCall) /\ hpPc' = (IF hpArc' # 0 THEN "load" ELSE "test")
      /\ UNCHANGED <<hpCall, hpFn, hpCount>>
      /\ UNCHANGED <<hpEntries, hpNeedInit, hpRate, hpStarts, hpMem, hpCalls, hpBreaks>>
  BY <1>1 DEF HpFindArc
<1>3. hpEntries \in HpLists /\ FewIn(hpEntries) /\ Sees(hpEntries, hpPc, hpCall, hpFn, hpArc, hpCount) /\ hpCall \in Calls
  BY <1>1 DEF HpInv, HpListed, HpTyped
<1>4. IF hpFn = 0 THEN Missed(hpEntries, hpCall.self) ELSE Met(hpEntries, hpFn, hpCall.self)
  BY <1>2, <1>3 DEF Sees
<1>5. PICK arc : arc = ArcOf(hpFn, hpCall)
  OBVIOUS
<1>6. /\ arc \in Nat
      /\ arc = 0 /\ hpFn # 0 => NoArc(hpEntries[hpFn].arcs, hpCall.from)
      /\ arc # 0 => /\ hpFn # 0 /\ arc \in DOMAIN hpEntries[hpFn].arcs
                    /\ hpEntries[hpFn].arcs[arc].from = hpCall.from
  <2>1. hpFn = 0 \/ Met(hpEntries, hpFn, hpCall.self)
    BY <1>4
  <2>2. QED BY <1>3, <1>5, <2>1, WalkArc, SMTT(30), ZenonT(40)
<1>7. CASE arc # 0
  <2>1. Sees(hpEntries, "load", hpCall, hpFn, arc, hpCount)
    BY <1>4, <1>6, <1>7 DEF Sees
  <2>2. hpPc' = "load" /\ hpArc' = arc
    BY <1>2, <1>5, <1>7
  <2>3. HpListed'
    BY <1>2, <1>3, <2>1, <2>2 DEF HpListed
  <2>4. HpTyped'
    BY <1>1, <1>2, <1>6, <2>2 DEF HpInv, HpTyped, HpPlaces
  <2>5. \A d \in Calls : Lag(hpEntries, d)' = 0
    BY <2>2 DEF Lag
  <2>6. QED BY <1>1, <1>2, <2>3, <2>4, <2>5, CountingStays DEF HpInv
<1>8. CASE arc = 0
  <2>1. Sees(hpEntries, "test", hpCall, hpFn, arc, hpCount)
    <3>1. hpFn # 0 => OneArc(hpEntries[hpFn].arcs, hpCall.from)
      BY <1>6, <1>8, OneTwo, Zenon
    <3>2. QED BY <1>4, <3>1 DEF Sees
  <2>2. hpPc' = "test" /\ hpArc' = arc
    BY <1>2, <1>5, <1>8
  <2>3. HpListed'
    BY <1>2, <1>3, <2>1, <2>2 DEF HpListed
  <2>4. HpTyped'
    BY <1>1, <1>2, <1>6, <2>2 DEF HpInv, HpTyped, HpPlaces
  <2>5. \A d \in Calls : Lag(hpEntries, d)' = 0
    BY <2>2 DEF Lag
  <2>6. QED BY <1>1, <1>2, <2>3, <2>4, <2>5, CountingStays DEF HpInv
<1>9. QED BY <1>7, <1>8

LEMMA StepLoad == HpInv /\ HpLoad => HpInv'
<1>1. SUFFICES ASSUME HpInv, HpLoad PROVE HpInv'
  OBVIOUS
<1>2. hpPc = "load" /\ hpCount' = hpEntries[hpFn].arcs[hpArc].count /\ hpPc' = "store"
      /\ UNCHANGED <<hpCall, hpFn, hpArc>>
      /\ UNCHANGED <<hpEntries, hpNeedInit, hpRate, hpStarts, hpMem, hpCalls, hpBreaks>>
  BY <1>1 DEF HpLoad
<1>3. hpEntries \in HpLists /\ FewIn(hpEntries) /\ Sees(hpEntries, hpPc, hpCall, hpFn, hpArc, hpCount) /\ hpCall \in Calls
  BY <1>1 DEF HpInv, HpListed, HpTyped
<1>4. /\ hpFn # 0 /\ Met(hpEntries, hpFn, hpCall.self) /\ hpFn \in DOMAIN hpEntries
      /\ hpArc \in DOMAIN hpEntries[hpFn].arcs /\ hpEntries[hpFn].arcs[hpArc].from = hpCall.from
  BY <1>2, <1>3 DEF Sees, Met
<1>5. PICK n : n = hpEntries[hpFn].arcs[hpArc].count
  OBVIOUS
<1>6. n \in Nat
  BY <1>3, <1>4, <1>5, PlaceOfLists, Zenon
<1>7. Sees(hpEntries, "store", hpCall, hpFn, hpArc, n)
  BY <1>4, <1>5, <1>6 DEF Sees
<1>8. HpListed'
  BY <1>2, <1>3, <1>5, <1>7 DEF HpListed
<1>9. HpTyped'
  BY <1>1, <1>2, <1>5, <1>6 DEF HpInv, HpTyped, HpPlaces
<1>10. \A d \in Calls : Lag(hpEntries, d)' = 0
  <2>1. n - n = 0
    BY <1>6
  <2>2. QED BY <1>2, <1>5, <2>1 DEF Lag
<1>11. QED BY <1>1, <1>2, <1>8, <1>9, <1>10, CountingStays DEF HpInv

LEMMA StepPrepare == HpInv /\ (HpTest \/ HpClaim \/ HpSampler) => HpInv'
<1>1. SUFFICES ASSUME HpInv, HpTest \/ HpClaim \/ HpSampler PROVE HpInv'
  OBVIOUS
<1>2. hpPc \in {"test", "claim", "init"} /\ hpPc' \in {"claim", "init", "record"}
      /\ UNCHANGED <<hpCall, hpFn, hpArc, hpCount>> /\ UNCHANGED <<hpEntries, hpRate, hpCalls, hpBreaks>>
  BY <1>1 DEF HpTest, HpClaim, HpSampler
<1>3. hpNeedInit' \in BOOLEAN /\ hpStarts' \in Nat /\ hpRate' \in BOOLEAN
  <2>1. hpNeedInit \in BOOLEAN /\ hpStarts \in Nat /\ hpRate \in BOOLEAN
    BY <1>1 DEF HpInv, HpTyped
  <2>2. CASE HpTest
    BY <2>1, <2>2 DEF HpTest
  <2>3. CASE HpClaim
    BY <2>1, <2>3 DEF HpClaim
  <2>4. CASE HpSampler
    BY <2>1, <2>4 DEF HpSampler
  <2>5. QED BY <1>1, <2>2, <2>3, <2>4
<1>4. MemoryLies(hpMem')
  <2>1. hpMem' = hpMem \/ hpMem' = InitMem(hpMem)
    BY <1>1 DEF HpTest, HpClaim, HpSampler
  <2>2. MemoryLies(hpMem)
    BY <1>1 DEF HpInv
  <2>3. QED BY <2>1, <2>2, SamplerLies
<1>5. hpEntries \in HpLists /\ FewIn(hpEntries) /\ Sees(hpEntries, hpPc, hpCall, hpFn, hpArc, hpCount)
  BY <1>1 DEF HpInv, HpListed
<1>6. Sees(hpEntries, hpPc', hpCall, hpFn, hpArc, hpCount)
  BY <1>2, <1>5 DEF Sees
<1>7. HpListed'
  BY <1>2, <1>5, <1>6 DEF HpListed
<1>8. HpTyped'
  BY <1>1, <1>2, <1>3 DEF HpInv, HpTyped, HpPlaces
<1>9. \A d \in Calls : Lag(hpEntries, d)' = 0
  BY <1>2 DEF Lag
<1>10. HpCounting'
  BY <1>1, <1>2, <1>9, CountingStays
<1>11. MemoryLies(hpMem)'
  BY <1>4
<1>12. QED BY <1>7, <1>8, <1>10, <1>11, Zenon DEF HpInv

LEMMA StepStore == HpInv /\ HpStore => HpInv'
<1>1. SUFFICES ASSUME HpInv, HpStore PROVE HpInv'
  OBVIOUS
<1>2. hpPc = "store" /\ hpPc' = "idle" /\ hpFn' = 0 /\ hpArc' = 0 /\ hpCount' = 0
      /\ hpCall' = (CHOOSE c \in Calls : TRUE) /\ hpCalls' = [hpCalls EXCEPT ![hpCall] = @ + 1]
      /\ hpEntries' = Counted(hpFn, hpArc, hpCount + 1)
      /\ UNCHANGED <<hpNeedInit, hpRate, hpStarts, hpMem, hpBreaks>>
  BY <1>1 DEF HpStore, HpReturn, Made
<1>3. hpEntries \in HpLists /\ FewIn(hpEntries) /\ Sees(hpEntries, hpPc, hpCall, hpFn, hpArc, hpCount)
      /\ hpCall \in Calls /\ hpCount \in Nat
  BY <1>1 DEF HpInv, HpListed, HpTyped
<1>4. /\ hpFn \in DOMAIN hpEntries /\ hpEntries[hpFn].self = hpCall.self
      /\ hpArc \in DOMAIN hpEntries[hpFn].arcs /\ hpEntries[hpFn].arcs[hpArc].from = hpCall.from
      /\ hpCount <= hpEntries[hpFn].arcs[hpArc].count
  BY <1>2, <1>3 DEF Sees, Met
<1>5. PICK E, F, n, v : E = hpEntries /\ F = hpEntries' /\ n = E[hpFn].arcs[hpArc].count /\ v = hpCount + 1
  OBVIOUS
<1>6. n \in Nat /\ v \in Nat /\ CopyAt(E, hpCall, hpFn, hpArc)
  <2>1. n \in Nat
    BY <1>3, <1>4, <1>5, PlaceOfLists, Zenon
  <2>2. QED BY <1>3, <1>4, <1>5, <2>1 DEF CopyAt
<1>7. F \in HpLists /\ Bumped(E, F, hpFn, hpArc, v) /\ E \in HpLists /\ FewIn(E)
  <2>1. F = [E EXCEPT ![hpFn].arcs[hpArc].count = v]
    BY <1>2, <1>5 DEF Counted
  <2>2. E \in HpLists /\ hpFn \in DOMAIN E /\ hpArc \in DOMAIN E[hpFn].arcs
    BY <1>3, <1>4, <1>5
  <2>3. F \in HpLists /\ Bumped(E, F, hpFn, hpArc, v)
    BY ONLY <1>6, <2>1, <2>2, NewCount, SMTT(30), ZenonT(40)
  <2>4. QED BY <1>3, <1>5, <2>3
<1>8. FewIn(F)
  BY <1>7, BumpedFew, Zenon
<1>9. Sees(F, "idle", hpCall', hpFn', hpArc', hpCount')
  BY DEF Sees
<1>10. HpListed'
  BY <1>2, <1>5, <1>7, <1>8, <1>9 DEF HpListed
<1>11. HpTyped'
  BY <1>1, <1>2, SomeCall DEF HpInv, HpTyped, HpPlaces
<1>12. hpCalls \in [Calls -> Nat] /\ hpBreaks \in [Calls -> Nat]
       /\ \A d \in Calls : Adding(E, hpCalls, hpBreaks, d, Lag(E, d))
  BY <1>1, <1>5 DEF HpInv, HpCounting
<1>13. PICK k : k = hpCalls'
  OBVIOUS
<1>14. k \in [Calls -> Nat] /\ \A d \in Calls : k[d] = IF d = hpCall THEN hpCalls[d] + 1 ELSE hpCalls[d]
  BY ONLY <1>2, <1>3, <1>12, <1>13
<1>15. ASSUME NEW d \in Calls
       PROVE  Adding(F, k, hpBreaks, d, 0)
  <2>1. /\ TotalOf(E, d) \in Nat /\ TotalOf(F, d) \in Nat
        /\ d = hpCall => TotalOf(F, d) + n = TotalOf(E, d) + v
        /\ d # hpCall => TotalOf(F, d) = TotalOf(E, d)
    BY ONLY <1>3, <1>5, <1>6, <1>7, <1>8, d \in Calls, TotalBumped, SMTT(30), ZenonT(40)
  <2>2. PICK t, u, b, h : t = TotalOf(E, d) /\ u = TotalOf(F, d) /\ b = hpBreaks[d] /\ h = hpCalls[d]
    OBVIOUS
  <2>3. h \in Nat /\ b \in Nat /\ t <= h /\ t + b >= h + Lag(E, d)
    BY <1>12, <2>2 DEF Adding
  <2>4. u \in Nat /\ t \in Nat
    BY <2>1, <2>2
  <2>5. CASE d = hpCall
    <3>1. Lag(E, d) = n - hpCount
      BY <1>2, <1>5, <2>5 DEF Lag
    <3>2. k[d] = h + 1
      BY <1>14, <2>2, <2>5
    <3>3. u + n = t + v
      BY <2>1, <2>2, <2>5
    <3>4. v = hpCount + 1 /\ hpCount <= n
      BY <1>4, <1>5
    <3>5. u <= h + 1 /\ u + b >= h + 1 + 0
      BY ONLY <1>3, <1>6, <2>3, <2>4, <3>1, <3>3, <3>4
    <3>6. QED BY <2>2, <2>3, <2>4, <3>2, <3>5 DEF Adding
  <2>6. CASE d # hpCall
    <3>1. Lag(E, d) = 0
      BY <2>6 DEF Lag
    <3>2. k[d] = h /\ u = t
      BY <1>14, <2>1, <2>2, <2>6
    <3>3. QED BY <2>2, <2>3, <2>4, <3>1, <3>2 DEF Adding
  <2>7. QED BY <2>5, <2>6
<1>16. HpCounting'
  <2>1. \A d \in Calls : Lag(hpEntries, d)' = 0
    BY <1>2 DEF Lag
  <2>2. hpBreaks' = hpBreaks
    BY <1>2
  <2>3. \A d \in Calls : Adding(hpEntries', hpCalls', hpBreaks', d, Lag(hpEntries, d)')
    BY <1>5, <1>13, <1>15, <2>1, <2>2
  <2>4. QED BY <1>12, <1>13, <1>14, <2>2, <2>3, Zenon DEF HpCounting
<1>17. MemoryLies(hpMem)'
  BY <1>1, <1>2 DEF HpInv
<1>18. QED BY <1>10, <1>11, <1>16, <1>17, Zenon DEF HpInv

LEMMA StepRecord == HpInv /\ HpRecord => HpInv'
<1>1. SUFFICES ASSUME HpInv, HpRecord PROVE HpInv'
  OBVIOUS
<1>2. hpPc = "record" /\ hpPc' = "idle" /\ hpFn' = 0 /\ hpArc' = 0 /\ hpCount' = 0
      /\ hpCall' = (CHOOSE c \in Calls : TRUE) /\ hpCalls' = [hpCalls EXCEPT ![hpCall] = @ + 1]
      /\ hpEntries' = Recorded(hpFn, hpCall) /\ hpMem' = RecordMem(hpFn, hpMem)
      /\ UNCHANGED <<hpNeedInit, hpRate, hpStarts, hpBreaks>>
  BY <1>1 DEF HpRecord, HpReturn, Made
<1>3. hpEntries \in HpLists /\ FewIn(hpEntries) /\ Sees(hpEntries, hpPc, hpCall, hpFn, hpArc, hpCount)
      /\ hpCall \in Calls
  BY <1>1 DEF HpInv, HpListed, HpTyped
<1>4. /\ hpFn = 0 => Missed(hpEntries, hpCall.self)
      /\ hpFn # 0 => Met(hpEntries, hpFn, hpCall.self) /\ OneArc(hpEntries[hpFn].arcs, hpCall.from)
  BY <1>2, <1>3 DEF Sees
<1>5. PICK E, F : E = hpEntries /\ F = hpEntries'
  OBVIOUS
<1>6. E \in HpLists /\ FewIn(E) /\ F \in HpLists /\ FewIn(F) /\ \E n, a : Grown(E, F, n, a, hpCall)
  <2>1. /\ Recorded(hpFn, hpCall) \in HpLists /\ FewIn(Recorded(hpFn, hpCall))
        /\ \E n, a : /\ Grown(hpEntries, Recorded(hpFn, hpCall), n, a, hpCall)
                     /\ IF hpFn = 0 THEN n \notin DOMAIN hpEntries ELSE n = hpFn
    BY <1>3, <1>4, RecordAdds, SMTT(30), ZenonT(40)
  <2>2. QED BY <1>2, <1>3, <1>5, <2>1, Zenon
<1>7. PICK n, a : Grown(E, F, n, a, hpCall)
  BY <1>6, Zenon
<1>8. Sees(F, "idle", hpCall', hpFn', hpArc', hpCount')
  BY DEF Sees
<1>9. HpListed'
  BY <1>2, <1>5, <1>6, <1>8 DEF HpListed
<1>10. HpTyped'
  BY <1>1, <1>2, SomeCall DEF HpInv, HpTyped, HpPlaces
<1>11. hpCalls \in [Calls -> Nat] /\ hpBreaks \in [Calls -> Nat]
       /\ \A d \in Calls : Adding(E, hpCalls, hpBreaks, d, Lag(E, d))
  BY <1>1, <1>5 DEF HpInv, HpCounting
<1>12. PICK k : k = hpCalls'
  OBVIOUS
<1>13. k \in [Calls -> Nat] /\ \A d \in Calls : k[d] = IF d = hpCall THEN hpCalls[d] + 1 ELSE hpCalls[d]
  BY ONLY <1>2, <1>3, <1>11, <1>12
<1>14. ASSUME NEW d \in Calls
       PROVE  Adding(F, k, hpBreaks, d, 0)
  <2>1. TotalOf(F, d) = TotalOf(E, d) + (IF d = hpCall THEN 1 ELSE 0) /\ TotalOf(E, d) \in Nat
    BY ONLY <1>3, <1>6, <1>7, d \in Calls, TotalGrown, SMTT(30), ZenonT(40)
  <2>2. Adding(E, hpCalls, hpBreaks, d, 0)
    <3>1. Lag(E, d) = 0
      BY <1>2 DEF Lag
    <3>2. QED BY <1>11, <3>1
  <2>3. k[d] = IF d = hpCall THEN hpCalls[d] + 1 ELSE hpCalls[d]
    BY <1>13
  <2>4. QED BY ONLY <2>1, <2>2, <2>3 DEF Adding
<1>15. HpCounting'
  <2>1. \A d \in Calls : Lag(hpEntries, d)' = 0
    BY <1>2 DEF Lag
  <2>2. hpBreaks' = hpBreaks
    BY <1>2
  <2>3. \A d \in Calls : Adding(hpEntries', hpCalls', hpBreaks', d, Lag(hpEntries, d)')
    BY <1>5, <1>12, <1>14, <2>1, <2>2
  <2>4. QED BY <1>11, <1>12, <1>13, <2>2, <2>3, Zenon DEF HpCounting
<1>16. MemoryLies(hpMem')
  BY <1>1, <1>2, RecordLies DEF HpInv
<1>17. MemoryLies(hpMem)'
  BY <1>16
<1>18. QED BY <1>9, <1>10, <1>15, <1>17, Zenon DEF HpInv

LEMMA StepInterrupt == ASSUME HpInv, NEW c \in Calls, HpInterrupt(c) PROVE HpInv'
<1>1. HpTyped /\ HpListed /\ HpCounting /\ MemoryLies(hpMem)
  BY DEF HpInv
<1>2. PICK fn, arc : fn = FnOf(c) /\ arc = ArcOf(fn, c)
  OBVIOUS
<1>3. /\ hpCalls' = [hpCalls EXCEPT ![c] = @ + 1]
      /\ hpBreaks' = [hpBreaks EXCEPT ![c] = IF hpPc = "idle" THEN @ ELSE @ + 1]
      /\ IF arc # 0 THEN hpEntries' = Counted(fn, arc, hpEntries[fn].arcs[arc].count + 1)
                     ELSE hpEntries' = Recorded(fn, c)
      /\ UNCHANGED <<hpRate, hpPc, hpCall, hpFn, hpArc, hpCount>>
  BY <1>2, Zenon DEF HpInterrupt, Made, hpFg
<1>4. PICK F : F = hpEntries'
  OBVIOUS
<1>5. InterruptAdds(F, c)
  <2>1. CASE arc # 0
    <3>1. F = Counted(fn, arc, hpEntries[fn].arcs[arc].count + 1)
      BY <1>3, <1>4, <2>1, Zenon
    <3>2. InterruptAdds(Counted(fn, arc, hpEntries[fn].arcs[arc].count + 1), c)
      BY <1>1, <1>2, <2>1, InterruptCounts, SMTT(30), ZenonT(40)
    <3>3. QED BY ONLY <3>1, <3>2
  <2>2. CASE arc = 0
    <3>1. F = Recorded(fn, c)
      BY <1>3, <1>4, <2>2, Zenon
    <3>2. InterruptAdds(Recorded(fn, c), c)
      BY <1>1, <1>2, <2>2, InterruptRecords, SMTT(30), ZenonT(40)
    <3>3. QED BY ONLY <3>1, <3>2
  <2>3. QED BY <2>1, <2>2
<1>6. HpListed'
  BY <1>3, <1>4, <1>5 DEF InterruptAdds, HpListed
<1>7. HpTyped'
  <2>1. hpNeedInit \in BOOLEAN /\ hpRate \in BOOLEAN /\ hpStarts \in Nat
    BY <1>1 DEF HpTyped
  <2>2. hpNeedInit' \in BOOLEAN
    BY <2>1, Zenon DEF HpInterrupt
  <2>3. hpStarts' \in Nat
    <3>1. hpStarts' = hpStarts \/ hpStarts' = hpStarts + 1
      BY Zenon DEF HpInterrupt
    <3>2. QED BY ONLY <2>1, <3>1
  <2>4. QED BY <1>1, <1>3, <2>2, <2>3 DEF HpTyped
<1>8. hpCalls \in [Calls -> Nat] /\ hpBreaks \in [Calls -> Nat]
      /\ \A d \in Calls : Adding(hpEntries, hpCalls, hpBreaks, d, Lag(hpEntries, d))
  BY <1>1 DEF HpCounting
<1>9. PICK k, b : k = hpCalls' /\ b = hpBreaks'
  OBVIOUS
<1>10. /\ k \in [Calls -> Nat] /\ b \in [Calls -> Nat]
       /\ \A d \in Calls : /\ k[d] = IF d = c THEN hpCalls[d] + 1 ELSE hpCalls[d]
                           /\ b[d] = IF d = c /\ hpPc # "idle" THEN hpBreaks[d] + 1 ELSE hpBreaks[d]
  <2>1. k \in [Calls -> Nat] /\ \A d \in Calls : k[d] = IF d = c THEN hpCalls[d] + 1 ELSE hpCalls[d]
    BY ONLY <1>3, <1>8, <1>9, c \in Calls
  <2>2. b \in [Calls -> Nat] /\ \A d \in Calls : b[d] = IF d = c /\ hpPc # "idle" THEN hpBreaks[d] + 1 ELSE hpBreaks[d]
    <3>1. CASE hpPc = "idle"
      <4>1. b = [hpBreaks EXCEPT ![c] = @]
        BY <1>3, <1>9, <3>1
      <4>2. QED BY ONLY <1>8, <3>1, <4>1, c \in Calls
    <3>2. CASE hpPc # "idle"
      <4>1. b = [hpBreaks EXCEPT ![c] = @ + 1]
        BY <1>3, <1>9, <3>2
      <4>2. QED BY ONLY <1>8, <3>2, <4>1, c \in Calls
    <3>3. QED BY <3>1, <3>2
  <2>3. QED BY <2>1, <2>2
<1>11. ASSUME NEW d \in Calls
       PROVE  Adding(F, k, b, d, Lag(F, d))
  <2>1. /\ TotalOf(hpEntries, d) \in Nat
        /\ TotalOf(F, d) = TotalOf(hpEntries, d) + (IF d = c THEN 1 ELSE 0)
        /\ Lag(F, d) = Lag(hpEntries, d) \/ (d = c /\ hpPc = "store" /\ Lag(F, d) = Lag(hpEntries, d) + 1)
    BY <1>5, Zenon DEF InterruptAdds
  <2>2. Adding(hpEntries, hpCalls, hpBreaks, d, Lag(hpEntries, d)) /\ Lag(hpEntries, d) \in Nat
    BY <1>1, <1>8, LagIs
  <2>3. /\ k[d] = IF d = c THEN hpCalls[d] + 1 ELSE hpCalls[d]
        /\ b[d] = IF d = c /\ hpPc # "idle" THEN hpBreaks[d] + 1 ELSE hpBreaks[d]
    BY <1>10
  <2>4. CASE d = c
    <3>1. k[d] = hpCalls[d] + 1 /\ TotalOf(F, d) = TotalOf(hpEntries, d) + 1
      BY <2>1, <2>3, <2>4
    <3>2. \/ Lag(F, d) = Lag(hpEntries, d) /\ b[d] \in {hpBreaks[d], hpBreaks[d] + 1}
          \/ Lag(F, d) = Lag(hpEntries, d) + 1 /\ b[d] = hpBreaks[d] + 1
      BY <2>1, <2>3, <2>4
    <3>3. QED BY ONLY <2>1, <2>2, <3>1, <3>2 DEF Adding
  <2>5. CASE d # c
    <3>1. k[d] = hpCalls[d] /\ b[d] = hpBreaks[d] /\ TotalOf(F, d) = TotalOf(hpEntries, d) /\ Lag(F, d) = Lag(hpEntries, d)
      BY <2>1, <2>3, <2>5
    <3>2. QED BY ONLY <2>2, <3>1 DEF Adding
  <2>6. QED BY <2>4, <2>5
<1>12. HpCounting'
  <2>1. ASSUME NEW d \in Calls PROVE Lag(hpEntries, d)' = Lag(F, d)
    BY <1>3, <1>4 DEF Lag
  <2>2. \A d \in Calls : Adding(hpEntries', hpCalls', hpBreaks', d, Lag(hpEntries, d)')
    BY <1>4, <1>9, <1>11, <2>1
  <2>3. QED BY <1>9, <1>10, <2>2, Zenon DEF HpCounting
<1>13. MemoryLies(hpMem')
  <2>1. hpMem' = hpMem \/ hpMem' = RecordMem(fn, hpMem) \/ hpMem' = RecordMem(fn, InitMem(hpMem))
    BY <1>2, Zenon DEF HpInterrupt
  <2>2. QED BY <1>1, <2>1, RecordLies, SamplerLies, Zenon
<1>14. MemoryLies(hpMem)'
  BY <1>13
<1>15. QED BY <1>6, <1>7, <1>12, <1>14, Zenon DEF HpInv

LEMMA HpInvInit == HpInit => HpInv
<1>1. SUFFICES ASSUME HpInit PROVE HpInv
  OBVIOUS
<1>2. /\ hpEntries = <<>> /\ hpNeedInit = TRUE /\ hpRate = FALSE /\ hpStarts = 0
      /\ hpMem = [end |-> 0, got |-> 0, ptr |-> 0, left |-> 0, blocks |-> {}, given |-> 0, refused |-> FALSE]
      /\ hpPc = "idle" /\ hpCall = (CHOOSE c \in Calls : TRUE) /\ hpFn = 0 /\ hpArc = 0 /\ hpCount = 0
      /\ hpCalls = [c \in Calls |-> 0] /\ hpBreaks = [c \in Calls |-> 0]
  BY <1>1 DEF HpInit
<1>3. HpTyped
  BY <1>2, SomeCall DEF HpTyped, HpPlaces
<1>4. hpEntries \in HpLists /\ DOMAIN hpEntries = {} /\ FewIn(hpEntries)
  <2>1. hpEntries \in HpLists /\ DOMAIN hpEntries = {}
    BY <1>2 DEF HpLists
  <2>2. FewIn(hpEntries)
    BY ONLY <2>1 DEF FewIn, TwoOf
  <2>3. QED BY <2>1, <2>2
<1>5. HpListed
  BY <1>2, <1>4 DEF HpListed, Sees
<1>6. HpCounting
  <2>1. ASSUME NEW c \in Calls
        PROVE  TotalOf(hpEntries, c) = 0
    <3>1. CopiesOf(hpEntries, c) = {}
      <4>1. ASSUME NEW p \in CopiesOf(hpEntries, c) PROVE FALSE
        BY <1>4, CopiesAre DEF CopyAt
      <4>2. QED BY <4>1
    <3>2. IsFiniteSet({})
      BY FS_EmptySet
    <3>3. PICK t : Sums(t, CopiesOf(hpEntries, c), CountsIn(hpEntries, c))
                   /\ TotalOf(hpEntries, c) = t[CopiesOf(hpEntries, c)]
      BY <1>4, <3>1, <3>2, TotalSums
    <3>4. Sums(t, {}, CountsIn(hpEntries, c)) /\ TotalOf(hpEntries, c) = t[{}]
      BY ONLY <3>1, <3>3
    <3>5. {} \in SUBSET {}
      OBVIOUS
    <3>6. SumAt(t, {}, CountsIn(hpEntries, c))
      BY ONLY <3>4, <3>5, Zenon DEF Sums, Adds
    <3>7. QED BY ONLY <3>4, <3>6, Zenon DEF SumAt
  <2>2. hpCalls \in [Calls -> Nat] /\ hpBreaks \in [Calls -> Nat]
        /\ \A c \in Calls : hpCalls[c] = 0 /\ hpBreaks[c] = 0
    BY <1>2
  <2>3. ASSUME NEW c \in Calls
        PROVE  Adding(hpEntries, hpCalls, hpBreaks, c, Lag(hpEntries, c))
    <3>1. Lag(hpEntries, c) = 0
      BY <1>2 DEF Lag
    <3>2. TotalOf(hpEntries, c) = 0 /\ hpCalls[c] = 0 /\ hpBreaks[c] = 0
      BY <2>1, <2>2
    <3>3. QED BY ONLY <3>1, <3>2 DEF Adding
  <2>4. QED BY <2>2, <2>3 DEF HpCounting
<1>7. MemoryLies(hpMem)
  <2>1. hpMem \in HpMemory
    <3>1. 0 \in Nat /\ 0 \in Int /\ 0 \in 0..MCOUNT_SLAB_INCREMENT /\ FALSE \in BOOLEAN
          /\ {} \in SUBSET [at : Int, size : Nat]
      BY HpAssumption
    <3>2. QED BY ONLY <1>2, <3>1 DEF HpMemory
  <2>2. hpMem.blocks = {} /\ hpMem.end = 0 /\ hpMem.given = 0 /\ hpMem.ptr = 0 /\ hpMem.left = 0
    BY <1>2
  <2>3. Laid({}, 0, 0)
    BY FS_EmptySet DEF Laid, Below, LieApart
  <2>4. SlabLies({}, 0, 0, 0)
    BY DEF SlabLies, Clear
  <2>5. QED BY <2>1, <2>2, <2>3, <2>4, Zenon DEF MemoryLies
<1>8. QED BY <1>3, <1>5, <1>6, <1>7 DEF HpInv

LEMMA HpInvStep == HpInv /\ [HpNextStep]_hpVars => HpInv'
<1>1. SUFFICES ASSUME HpInv, [HpNextStep]_hpVars PROVE HpInv'
  OBVIOUS
<1>2. CASE HpMalloc
  BY <1>1, <1>2, StepMalloc
<1>3. CASE HpClockStarts
  BY <1>1, <1>3, StepClock
<1>4. CASE HpForeground
  <2>1. CASE HpBegin
    BY <1>1, <2>1, StepBegin
  <2>2. CASE HpFindArc
    BY <1>1, <2>2, StepFindArc
  <2>3. CASE HpLoad
    BY <1>1, <2>3, StepLoad
  <2>4. CASE HpStore
    BY <1>1, <2>4, StepStore
  <2>5. CASE HpTest \/ HpClaim \/ HpSampler
    BY <1>1, <2>5, StepPrepare
  <2>6. CASE HpRecord
    BY <1>1, <2>6, StepRecord
  <2>7. QED BY <1>4, <2>1, <2>2, <2>3, <2>4, <2>5, <2>6 DEF HpForeground
<1>5. CASE \E c \in Calls : HpInterrupt(c)
  <2>1. PICK c \in Calls : HpInterrupt(c)
    BY <1>5
  <2>2. QED BY <1>1, <2>1, StepInterrupt
<1>6. CASE UNCHANGED hpVars
  <2>1. /\ UNCHANGED <<hpEntries, hpNeedInit, hpRate, hpStarts, hpMem, hpCalls, hpBreaks>>
        /\ UNCHANGED <<hpPc, hpCall, hpFn, hpArc, hpCount>>
    BY <1>6 DEF hpVars, hpFg
  <2>2. HpTyped' /\ HpListed' /\ MemoryLies(hpMem)'
    BY <1>1, <2>1 DEF HpInv, HpTyped, HpListed
  <2>3. \A c \in Calls : Lag(hpEntries, c)' = Lag(hpEntries, c)
    BY <2>1 DEF Lag
  <2>4. HpCounting'
    BY <1>1, <2>1, <2>3, CountingStays
  <2>5. QED BY <2>2, <2>4, Zenon DEF HpInv
<1>7. QED BY <1>1, <1>2, <1>3, <1>4, <1>5, <1>6, Zenon DEF HpNextStep

LEMMA HpInvSafe == HpInv => HpSafe
<1>1. SUFFICES ASSUME HpInv PROVE HpSafe
  OBVIOUS
<1>2. hpEntries \in HpLists /\ FewIn(hpEntries)
  BY <1>1 DEF HpInv, HpListed
<1>3. HpTypeInv
  <2>1. \A k \in DOMAIN hpEntries :
          /\ hpEntries[k].self \in HpFuncs
          /\ \A j \in DOMAIN hpEntries[k].arcs : hpEntries[k].arcs[j] \in HpArcs
    BY <1>2, PlaceOfLists, Zenon
  <2>2. hpMem.left \in 0..MCOUNT_SLAB_INCREMENT
    BY <1>1 DEF HpInv, MemoryLies, HpMemory
  <2>3. HpTyped
    BY <1>1 DEF HpInv
  <2>4. QED BY <2>1, <2>2, <2>3, Zenon DEF HpTypeInv, HpTyped, HpPlaces, HpArcs
<1>4. HpDisjoint
  <2>1. SUFFICES ASSUME ~hpMem.refused
                 PROVE  /\ \A b \in hpMem.blocks : b.at % 4 = 0 /\ 0 <= b.at /\ b.at + b.size <= hpMem.end
                        /\ Cardinality(hpMem.blocks) = hpMem.given
                        /\ \A b, c \in hpMem.blocks : b # c => b.at + b.size <= c.at \/ c.at + c.size <= b.at
    BY Zenon DEF HpDisjoint
  <2>2. Laid(hpMem.blocks, hpMem.end, hpMem.given)
    BY <1>1, <2>1, Zenon DEF HpInv, MemoryLies
  <2>3. \A b \in hpMem.blocks : b \in HpBlocks /\ b.at % 4 = 0 /\ b.at + b.size <= hpMem.end
    BY <2>2, Zenon DEF Laid, Below
  <2>4. \A b \in HpBlocks : 0 <= b.at
    BY DEF HpBlocks
  <2>5. LieApart(hpMem.blocks) /\ Cardinality(hpMem.blocks) = hpMem.given
    BY <2>2, Zenon DEF Laid
  <2>6. QED BY <2>3, <2>4, <2>5, Zenon DEF LieApart
<1>5. \A c : Copies(c) = CopiesOf(hpEntries, c) /\ Total(c) = TotalOf(hpEntries, c)
  BY Zenon DEF Copies, CopiesOf, Total, TotalOf
<1>6. HpFewCopies
  <2>1. \A f \in HpFuncs : Cardinality({k \in DOMAIN hpEntries : hpEntries[k].self = f}) <= 2
    BY <1>2, EntriesFew, Zenon
  <2>2. \A c \in Calls : Cardinality(Copies(c)) <= 3
    BY <1>2, <1>5, CopiesFew
  <2>3. QED BY <2>1, <2>2, Zenon DEF HpFewCopies
<1>7. HpCounted
  <2>1. ASSUME NEW c \in Calls
        PROVE  Total(c) <= hpCalls[c] /\ Total(c) + hpBreaks[c] >= hpCalls[c]
    <3>1. Adding(hpEntries, hpCalls, hpBreaks, c, Lag(hpEntries, c)) /\ Lag(hpEntries, c) \in Nat
      BY <1>1, LagIs DEF HpInv, HpCounting
    <3>2. Total(c) = TotalOf(hpEntries, c)
      BY <1>5
    <3>3. QED BY ONLY <3>1, <3>2 DEF Adding
  <2>2. QED BY <2>1, Zenon DEF HpCounted
<1>8. QED BY <1>3, <1>4, <1>6, <1>7, Zenon DEF HpSafe

\* mcount loses no count but to an interrupt that broke into a call, keeps few
\* copies of an entry and gives out no memory twice (alt_mcount.S, alt_gmon.c).
THEOREM ProfilerKeepsCounts == HpSpec => []HpSafe
BY HpInvInit, HpInvStep, HpInvSafe, PTL DEF HpSpec

-----------------------------------------------------------------------------
(***************************************************************************)
(* A function defined by recursion exists where each step of it goes to a  *)
(* smaller rank.                                                           *)
(***************************************************************************)
FollowsAt(f, T, d, h, a, x) == f[x] = IF x \in T THEN h[<<x, f[d[x]]>>] ELSE a
FollowsUpTo(f, D, S, T, d, h, a, rank, n) ==
  f \in [D -> S] /\ \A x \in D : rank[x] < n => FollowsAt(f, T, d, h, a, x)

LEMMA FollowStep ==
  ASSUME NEW D, NEW S, NEW T \in SUBSET D, NEW d \in [T -> D], NEW rank \in [D -> Nat],
         \A x \in T : rank[d[x]] < rank[x], NEW h \in [D \X S -> S], NEW a \in S,
         NEW n \in Nat, n # 0, NEW g, FollowsUpTo(g, D, S, T, d, h, a, rank, n - 1)
  PROVE  \E f : FollowsUpTo(f, D, S, T, d, h, a, rank, n)
<1>1. PICK f : f = [x \in D |-> IF rank[x] = n - 1 THEN IF x \in T THEN h[<<x, g[d[x]]>>] ELSE a ELSE g[x]]
  OBVIOUS
<1>2. g \in [D -> S] /\ \A x \in D : rank[x] < n - 1 => FollowsAt(g, T, d, h, a, x)
  BY Zenon DEF FollowsUpTo
<1>3. \A x \in T : d[x] \in D /\ g[d[x]] \in S /\ h[<<x, g[d[x]]>>] \in S
  <2>1. ASSUME NEW x \in T
        PROVE  d[x] \in D /\ g[d[x]] \in S /\ h[<<x, g[d[x]]>>] \in S
    <3>1. d[x] \in D
      OBVIOUS
    <3>2. PICK y \in S : y = g[d[x]]
      BY <1>2, <3>1
    <3>3. <<x, y>> \in D \X S
      OBVIOUS
    <3>4. h[<<x, y>>] \in S
      BY <3>3
    <3>5. QED BY <3>1, <3>2, <3>4
  <2>2. QED BY <2>1, Zenon
<1>4. f \in [D -> S]
  BY <1>1, <1>2, <1>3
<1>5. ASSUME NEW x \in D, rank[x] < n
      PROVE  FollowsAt(f, T, d, h, a, x)
  <2>1. rank[x] \in Nat
    OBVIOUS
  <2>2. x \in T => d[x] \in D /\ rank[d[x]] # n - 1
    <3>1. ASSUME x \in T
          PROVE  d[x] \in D /\ rank[d[x]] # n - 1
      <4>1. d[x] \in D /\ rank[d[x]] < rank[x]
        BY <3>1
      <4>2. rank[d[x]] \in Nat
        BY <4>1
      <4>3. QED BY <1>5, <2>1, <4>1, <4>2
    <3>2. QED BY <3>1
  <2>3. x \in T => f[d[x]] = g[d[x]]
    BY <1>1, <2>2
  <2>4. CASE rank[x] = n - 1
    <3>1. f[x] = IF x \in T THEN h[<<x, g[d[x]]>>] ELSE a
      BY <1>1, <2>4
    <3>2. QED BY <2>3, <3>1, Zenon DEF FollowsAt
  <2>5. CASE rank[x] # n - 1
    <3>1. rank[x] < n - 1
      BY <1>5, <2>1, <2>5
    <3>2. FollowsAt(g, T, d, h, a, x)
      BY <1>2, <3>1
    <3>3. f[x] = g[x]
      BY <1>1, <2>5
    <3>4. QED BY <2>3, <3>2, <3>3, Zenon DEF FollowsAt
  <2>6. QED BY <2>4, <2>5
<1>6. QED BY <1>4, <1>5, Zenon DEF FollowsUpTo

LEMMA FollowUpTo ==
  ASSUME NEW D, NEW S, NEW T \in SUBSET D, NEW d \in [T -> D], NEW rank \in [D -> Nat],
         \A x \in T : rank[d[x]] < rank[x], NEW h \in [D \X S -> S], NEW a \in S, NEW m \in Nat
  PROVE  \E f : FollowsUpTo(f, D, S, T, d, h, a, rank, m)
<1> DEFINE P(n) == \E f : FollowsUpTo(f, D, S, T, d, h, a, rank, n)
<1> DEFINE B == {n \in Nat : ~P(n)}
<1>1. P(0)
  <2>1. PICK f : f = [x \in D |-> a]
    OBVIOUS
  <2>2. f \in [D -> S]
    BY <2>1
  <2>3. \A x \in D : ~(rank[x] < 0)
    OBVIOUS
  <2>4. FollowsUpTo(f, D, S, T, d, h, a, rank, 0)
    BY <2>2, <2>3, Zenon DEF FollowsUpTo
  <2>5. QED BY <2>4
<1>2. ASSUME NEW n \in Nat, n # 0, P(n - 1)
      PROVE  P(n)
  <2>1. PICK g : FollowsUpTo(g, D, S, T, d, h, a, rank, n - 1)
    BY <1>2
  <2>2. QED BY <1>2, <2>1, FollowStep
<1> HIDE DEF P
<1>3. CASE B # {}
  <2>1. B \subseteq Nat
    OBVIOUS
  <2>2. PICK n \in B : \A k \in B : n <= k
    <3> HIDE DEF B
    <3>1. QED BY <1>3, <2>1, LeastNat, Zenon
  <2>3. n \in Nat /\ ~P(n) /\ n # 0
    BY <1>1, <2>2
  <2>4. n - 1 \in Nat /\ ~(n <= n - 1)
    BY <2>3
  <2>5. P(n - 1)
    BY <2>2, <2>4
  <2>6. QED BY <1>2, <2>3, <2>5
<1>4. CASE B = {}
  <2>1. P(m)
    BY <1>4
  <2>2. QED BY <2>1 DEF P
<1>5. QED BY <1>3, <1>4

Ranked(D, S, T, d, rank, h, a, m) ==
  /\ T \in SUBSET D /\ d \in [T -> D] /\ rank \in [D -> Nat] /\ \A x \in T : rank[d[x]] < rank[x]
  /\ h \in [D \X S -> S] /\ a \in S /\ m \in Nat /\ \A x \in D : rank[x] < m
Follows(f, D, S, T, d, h, a) == f \in [D -> S] /\ \A x \in D : FollowsAt(f, T, d, h, a, x)

LEMMA FollowExists ==
  ASSUME NEW D, NEW S, NEW T, NEW d, NEW rank, NEW h, NEW a, NEW m, Ranked(D, S, T, d, rank, h, a, m)
  PROVE  \E f : Follows(f, D, S, T, d, h, a)
<1>1. PICK f : FollowsUpTo(f, D, S, T, d, h, a, rank, m)
  BY FollowUpTo DEF Ranked
<1>2. f \in [D -> S] /\ \A x \in D : FollowsAt(f, T, d, h, a, x)
  BY <1>1, Zenon DEF FollowsUpTo, Ranked
<1>3. QED BY <1>2, Zenon DEF Follows

Bases == {8, 10, 16}

LEMMA SixteenIs ==
  /\ Sixteen \in [0 .. LgNibbles -> Nat \ {0}]
  /\ Sixteen[0] = 1
  /\ \A n \in 1 .. LgNibbles : Sixteen[n] = 16 * Sixteen[n - 1]
<1>1. LgNibbles \in Nat \ {0}
  BY LgAssumption
<1>2. PICK D, S, T, d, rank, h :
        /\ D = 0 .. LgNibbles /\ S = Nat \ {0} /\ T = 1 .. LgNibbles
        /\ d = [n \in T |-> n - 1] /\ rank = [n \in D |-> n]
        /\ h = [z \in D \X S |-> 16 * z[2]]
  OBVIOUS
<1>3. T \in SUBSET D /\ d \in [T -> D] /\ rank \in [D -> Nat] /\ \A x \in T : rank[d[x]] < rank[x]
  BY <1>1, <1>2
<1>4. h \in [D \X S -> S]
  BY <1>2
<1>5. PICK m, a : m = LgNibbles + 1 /\ a = 1
  OBVIOUS
<1>60. a \in S /\ m \in Nat /\ \A x \in D : rank[x] < m
  BY <1>1, <1>2, <1>5
<1>61. PICK f : Follows(f, D, S, T, d, h, a)
  <2>1. Ranked(D, S, T, d, rank, h, a, m)
    BY ONLY <1>3, <1>4, <1>60 DEF Ranked
  <2>2. QED BY <2>1, FollowExists, Zenon
<1>6. f \in [D -> S] /\ \A x \in D : f[x] = IF x \in T THEN h[<<x, f[d[x]]>>] ELSE a
  BY <1>61, Zenon DEF Follows, FollowsAt
<1>7. \A n \in D : f[n] = IF n = 0 THEN 1 ELSE 16 * f[n - 1]
  <2>1. ASSUME NEW n \in D
        PROVE  f[n] = IF n = 0 THEN 1 ELSE 16 * f[n - 1]
    <3>1. CASE n = 0
      <4>1. n \notin T
        BY <1>2, <3>1
      <4>2. QED BY <1>5, <1>6, <3>1, <4>1
    <3>2. CASE n # 0
      <4>1. n \in T /\ d[n] = n - 1 /\ n - 1 \in D
        BY <1>1, <1>2, <3>2
      <4>2. PICK y \in S : y = f[n - 1]
        BY <1>6, <4>1
      <4>3. h[<<n, y>>] = 16 * y
        BY <1>2
      <4>4. f[n] = h[<<n, y>>]
        BY <1>6, <4>1, <4>2
      <4>5. QED BY <3>2, <4>2, <4>3, <4>4
    <3>3. QED BY <3>1, <3>2
  <2>2. QED BY <2>1
<1>8. f = [n \in 0 .. LgNibbles |-> IF n = 0 THEN 1 ELSE 16 * f[n - 1]]
  <2>1. f = [n \in D |-> f[n]]
    BY <1>6
  <2>2. QED BY <1>2, <1>7, <2>1
<1>9. Sixteen = [n \in 0 .. LgNibbles |-> IF n = 0 THEN 1 ELSE 16 * Sixteen[n - 1]]
  BY <1>8, Zenon DEF Sixteen
<1>10. \A n \in 0 .. LgNibbles : Sixteen[n] = IF n = 0 THEN 1 ELSE 16 * Sixteen[n - 1]
  BY <1>9
<1>11. \A n \in 0 .. LgNibbles : Sixteen[n] \in Nat \ {0}
  <2> DEFINE B == {n \in Nat : n \in 0 .. LgNibbles /\ Sixteen[n] \notin Nat \ {0}}
  <2>1. SUFFICES ASSUME B # {} PROVE FALSE
    BY <1>1
  <2>2. PICK n \in B : \A k \in B : n <= k
    <3>1. B \subseteq Nat
      OBVIOUS
    <3> HIDE DEF B
    <3>2. QED BY <2>1, <3>1, LeastNat, Zenon
  <2>3. n # 0
    BY <1>1, <1>10, <2>2
  <2>4. n - 1 \in 0 .. LgNibbles /\ n - 1 \in Nat /\ ~(n <= n - 1)
    BY <1>1, <2>2, <2>3
  <2>5. Sixteen[n - 1] \in Nat \ {0}
    BY <2>2, <2>4
  <2>6. Sixteen[n] = 16 * Sixteen[n - 1]
    BY <1>10, <2>2, <2>3
  <2>7. QED BY <2>2, <2>5, <2>6
<1>12. Sixteen \in [0 .. LgNibbles -> Nat \ {0}]
  <2>1. Sixteen = [n \in 0 .. LgNibbles |-> Sixteen[n]]
    BY ONLY <1>9
  <2>2. QED BY <1>11, <2>1
<1>13. 0 \in 0 .. LgNibbles /\ \A n \in 1 .. LgNibbles : n \in 0 .. LgNibbles /\ n # 0
  BY <1>1
<1>14. QED BY <1>10, <1>12, <1>13

LEMMA LimitIs == LgLimit \in Nat /\ LgLimit % 16 = 0 /\ LgLimit >= 16 /\ LgLimit = Sixteen[LgNibbles]
<1>1. LgNibbles \in 1 .. LgNibbles /\ LgNibbles - 1 \in 0 .. LgNibbles
  BY LgAssumption
<1>2. Sixteen[LgNibbles] = 16 * Sixteen[LgNibbles - 1] /\ Sixteen[LgNibbles - 1] \in Nat \ {0}
  BY <1>1, SixteenIs
<1>3. QED BY <1>2 DEF LgLimit

\* Quotients and remainders.
LEMMA Parted ==
  ASSUME NEW a \in Int, NEW b \in Nat \ {0}
  PROVE  \E q \in Int, r \in 0 .. b - 1 : q = a \div b /\ r = a % b /\ a = b * q + r
<1>1. a \div b \in Int /\ a % b \in 0 .. b - 1 /\ a = b * (a \div b) + (a % b)
  OBVIOUS
<1>2. QED BY <1>1, Zenon

LEMMA TimesInto ==
  ASSUME NEW a \in Nat, NEW b \in Int, NEW c \in Int, b <= c
  PROVE  a * b <= a * c
OBVIOUS

LEMMA PartedOnce ==
  ASSUME NEW b \in Nat \ {0}, NEW q \in Int, NEW r \in 0 .. b - 1, NEW p \in Int, NEW s \in 0 .. b - 1,
         b * q + r = b * p + s
  PROVE  q = p /\ r = s
<1>1. CASE q < p
  <2>1. b * (q + 1) <= b * p
    BY <1>1, TimesInto
  <2>2. b * (q + 1) = b * q + b
    OBVIOUS
  <2>3. QED BY <2>1, <2>2
<1>2. CASE p < q
  <2>1. b * (p + 1) <= b * q
    BY <1>2, TimesInto
  <2>2. b * (p + 1) = b * p + b
    OBVIOUS
  <2>3. QED BY <2>1, <2>2
<1>3. QED BY <1>1, <1>2

\* The quotient of what is split so.
LEMMA PartedAs ==
  ASSUME NEW b \in Nat \ {0}, NEW q \in Int, NEW r \in 0 .. b - 1
  PROVE  (b * q + r) \div b = q /\ (b * q + r) % b = r
<1>1. b * q + r \in Int
  OBVIOUS
<1>2. PICK p \in Int, s \in 0 .. b - 1 : p = (b * q + r) \div b /\ s = (b * q + r) % b /\ b * q + r = b * p + s
  BY <1>1, Parted, Zenon
<1>3. q = p /\ r = s
  BY <1>2, PartedOnce
<1>4. QED BY <1>2, <1>3

LEMMA Quotients ==
  ASSUME NEW b \in Bases, NEW v \in Nat
  PROVE  \E q \in Nat, r \in 0 .. b - 1 : /\ q = v \div b /\ r = v % b /\ v = b * q + r
                                       /\ q <= v /\ (q > 0 => q < v) /\ (q > 0 <=> v >= b)
<1>1. b \in {8, 10, 16}
  BY DEF Bases
<1>2. b \in Nat \ {0} /\ v \in Int
  BY <1>1
<1>3. PICK q \in Int, r \in 0 .. b - 1 : q = v \div b /\ r = v % b /\ v = b * q + r
  BY <1>2, Parted, Zenon
<1>4. q \in Nat /\ q <= v /\ (q > 0 => q < v) /\ (q > 0 <=> v >= b)
  <2>1. CASE b = 8
    BY <1>3, <2>1
  <2>2. CASE b = 10
    BY <1>3, <2>2
  <2>3. CASE b = 16
    BY <1>3, <2>3
  <2>4. QED BY <1>1, <2>1, <2>2, <2>3
<1>5. QED BY ONLY <1>3, <1>4, Zenon

LEMMA WordsAre ==
  /\ LgWords \subseteq Nat /\ 0 \in LgWords /\ 1 \in LgWords /\ \A v \in Nat : v \in LgWords <=> v < LgLimit
  /\ \A v \in LgWords, u \in Nat : u <= v => u \in LgWords
BY LimitIs DEF LgWords

\* Both functions of a number that go from it to its quotient by the base.
Quotiented(b) == {v \in LgWords : v \div b > 0}
LEMMA QuotientRanked ==
  ASSUME NEW b \in Bases, NEW h \in [LgWords \X (Nat \ {0}) -> Nat \ {0}]
  PROVE  Ranked(LgWords, Nat \ {0}, Quotiented(b), [v \in Quotiented(b) |-> v \div b], [v \in LgWords |-> v],
                h, 1, LgLimit)
<1>1. PICK T, d : T = Quotiented(b) /\ d = [v \in Quotiented(b) |-> v \div b]
  OBVIOUS
<1>2. ASSUME NEW v \in LgWords
      PROVE  v \in T => d[v] \in LgWords /\ d[v] < v /\ d[v] = v \div b
  <2>1. v \in Nat
    BY WordsAre
  <2>2. PICK q \in Nat, r \in 0 .. b - 1 : q = v \div b /\ q <= v /\ (q > 0 => q < v)
    BY <2>1, Quotients, Zenon
  <2>3. ASSUME v \in T
        PROVE  d[v] = q /\ q > 0
    BY <1>1, <2>2, <2>3 DEF Quotiented
  <2>4. q \in LgWords
    BY <2>2, WordsAre
  <2>5. QED BY <2>2, <2>3, <2>4
<1>3. T \subseteq LgWords
  BY <1>1 DEF Quotiented
<1>4. d \in [T -> LgWords]
  <2>1. d = [v \in T |-> d[v]]
    BY <1>1
  <2>2. QED BY <1>2, <1>3, <2>1
<1>5. PICK k : k = [v \in LgWords |-> v]
  OBVIOUS
<1>6. k \in [LgWords -> Nat] /\ (\A v \in LgWords : k[v] = v /\ k[v] < LgLimit)
  BY <1>5, WordsAre
<1>7. \A v \in T : k[d[v]] < k[v]
  BY <1>2, <1>3, <1>6
<1>8. 1 \in Nat \ {0} /\ LgLimit \in Nat
  BY LimitIs
<1>9. Ranked(LgWords, Nat \ {0}, T, d, k, h, 1, LgLimit)
  BY <1>3, <1>4, <1>6, <1>7, <1>8 DEF Ranked
<1>10. QED BY <1>1, <1>5, <1>9, Zenon

LEMMA CountIs ==
  ASSUME NEW b \in Bases
  PROVE  /\ DigitCount(b) \in [LgWords -> Nat \ {0}]
         /\ \A v \in LgWords : DigitCount(b)[v] = IF v \div b > 0 THEN 1 + DigitCount(b)[v \div b] ELSE 1
<1>1. PICK T, d, h : /\ T = Quotiented(b) /\ d = [v \in Quotiented(b) |-> v \div b]
                     /\ h = [z \in LgWords \X (Nat \ {0}) |-> 1 + z[2]]
  OBVIOUS
<1>2. h \in [LgWords \X (Nat \ {0}) -> Nat \ {0}]
  BY <1>1
<1>3. PICK f : Follows(f, LgWords, Nat \ {0}, T, d, h, 1)
  BY <1>1, <1>2, QuotientRanked, FollowExists, Zenon
<1>4. f \in [LgWords -> Nat \ {0}] /\ \A v \in LgWords : f[v] = IF v \in T THEN h[<<v, f[d[v]]>>] ELSE 1
  BY <1>3, Zenon DEF Follows, FollowsAt
<1>5. ASSUME NEW v \in LgWords
      PROVE  f[v] = IF v \div b > 0 THEN 1 + f[v \div b] ELSE 1
  <2>1. v \in T <=> v \div b > 0
    BY <1>1 DEF Quotiented
  <2>2. v \in T => d[v] = v \div b /\ d[v] \in LgWords
    <3>1. Ranked(LgWords, Nat \ {0}, T, d, [u \in LgWords |-> u], h, 1, LgLimit)
      BY <1>1, <1>2, QuotientRanked, Zenon
    <3>2. d \in [T -> LgWords]
      BY <3>1, Zenon DEF Ranked
    <3>3. QED BY <1>1, <3>2
  <2>3. v \in T => h[<<v, f[d[v]]>>] = 1 + f[d[v]]
    <3>1. ASSUME NEW y \in Nat \ {0}
          PROVE  h[<<v, y>>] = 1 + y
      BY <1>1
    <3>2. v \in T => f[d[v]] \in Nat \ {0}
      BY <1>4, <2>2
    <3>3. QED BY <3>1, <3>2, Zenon
  <2>4. f[v] = IF v \in T THEN h[<<v, f[d[v]]>>] ELSE 1
    BY <1>4, Zenon
  <2>5. QED BY ONLY <2>1, <2>2, <2>3, <2>4, Zenon
<1>6. f = [v \in LgWords |-> IF v \div b > 0 THEN 1 + f[v \div b] ELSE 1]
  <2>1. f = [v \in LgWords |-> f[v]]
    BY <1>4
  <2>2. QED BY ONLY <1>5, <2>1
<1>7. PICK g : g = DigitCount(b)
  OBVIOUS
<1>8. g = [v \in LgWords |-> IF v \div b > 0 THEN 1 + g[v \div b] ELSE 1]
  BY <1>6, <1>7, Zenon DEF DigitCount
<1>9. \A v \in LgWords : g[v] = IF v \div b > 0 THEN 1 + g[v \div b] ELSE 1
  BY ONLY <1>8, Zenon
<1>10. \A v \in LgWords : g[v] \in Nat \ {0}
  <2> DEFINE B == {v \in Nat : v \in LgWords /\ g[v] \notin Nat \ {0}}
  <2>1. SUFFICES ASSUME B # {} PROVE FALSE
    BY WordsAre
  <2>2. PICK v \in B : \A k \in B : v <= k
    <3>1. B \subseteq Nat
      OBVIOUS
    <3> HIDE DEF B
    <3>2. QED BY <2>1, <3>1, LeastNat, Zenon
  <2>3. v \in Nat /\ v \in LgWords /\ g[v] \notin Nat \ {0}
    BY <2>2
  <2>4. PICK q \in Nat, r \in 0 .. b - 1 : q = v \div b /\ q <= v /\ (q > 0 => q < v)
    BY <2>3, Quotients, Zenon
  <2>5. q \in LgWords
    BY <2>3, <2>4, WordsAre
  <2>6. CASE q > 0
    <3>1. g[q] \in Nat \ {0}
      BY <2>2, <2>4, <2>5, <2>6
    <3>2. g[v] = 1 + g[q]
      BY <1>9, <2>3, <2>4, <2>6, Zenon
    <3>3. QED BY <2>3, <3>1, <3>2
  <2>7. CASE ~(q > 0)
    <3>1. g[v] = 1
      BY <1>9, <2>3, <2>4, <2>7, Zenon
    <3>2. QED BY <2>3, <3>1
  <2>8. QED BY <2>6, <2>7
<1>11. g \in [LgWords -> Nat \ {0}]
  <2>1. g = [v \in LgWords |-> g[v]]
    BY ONLY <1>8
  <2>2. QED BY ONLY <1>10, <2>1
<1>12. QED BY <1>7, <1>9, <1>11, Zenon

-----------------------------------------------------------------------------
LEMMA PlaceIs ==
  ASSUME NEW b \in Bases
  PROVE  /\ LargestPlace(b) \in [LgWords -> Nat \ {0}]
         /\ \A v \in LgWords : LargestPlace(b)[v] = IF v \div b > 0 THEN b * LargestPlace(b)[v \div b] ELSE 1
<1>1. PICK T, d, h : /\ T = Quotiented(b) /\ d = [v \in Quotiented(b) |-> v \div b]
                     /\ h = [z \in LgWords \X (Nat \ {0}) |-> b * z[2]]
  OBVIOUS
<1>2. h \in [LgWords \X (Nat \ {0}) -> Nat \ {0}]
  <2>1. b \in Nat \ {0}
    BY DEF Bases
  <2>2. \A z \in LgWords \X (Nat \ {0}) : b * z[2] \in Nat \ {0}
    BY <2>1
  <2>3. QED BY <1>1, <2>2
<1>3. PICK f : Follows(f, LgWords, Nat \ {0}, T, d, h, 1)
  BY <1>1, <1>2, QuotientRanked, FollowExists, Zenon
<1>4. f \in [LgWords -> Nat \ {0}] /\ \A v \in LgWords : f[v] = IF v \in T THEN h[<<v, f[d[v]]>>] ELSE 1
  BY <1>3, Zenon DEF Follows, FollowsAt
<1>5. ASSUME NEW v \in LgWords
      PROVE  f[v] = IF v \div b > 0 THEN b * f[v \div b] ELSE 1
  <2>1. v \in T <=> v \div b > 0
    BY <1>1 DEF Quotiented
  <2>2. v \in T => d[v] = v \div b /\ d[v] \in LgWords
    <3>1. Ranked(LgWords, Nat \ {0}, T, d, [u \in LgWords |-> u], h, 1, LgLimit)
      BY <1>1, <1>2, QuotientRanked, Zenon
    <3>2. d \in [T -> LgWords]
      BY <3>1, Zenon DEF Ranked
    <3>3. QED BY <1>1, <3>2
  <2>3. v \in T => h[<<v, f[d[v]]>>] = b * f[d[v]]
    <3>1. ASSUME NEW y \in Nat \ {0}
          PROVE  h[<<v, y>>] = b * y
      BY <1>1
    <3>2. v \in T => f[d[v]] \in Nat \ {0}
      BY <1>4, <2>2
    <3>3. QED BY <3>1, <3>2, Zenon
  <2>4. f[v] = IF v \in T THEN h[<<v, f[d[v]]>>] ELSE 1
    BY <1>4, Zenon
  <2>5. QED BY ONLY <2>1, <2>2, <2>3, <2>4, Zenon
<1>6. f = [v \in LgWords |-> IF v \div b > 0 THEN b * f[v \div b] ELSE 1]
  <2>1. f = [v \in LgWords |-> f[v]]
    BY <1>4
  <2>2. QED BY ONLY <1>5, <2>1
<1>7. PICK g : g = LargestPlace(b)
  OBVIOUS
<1>8. g = [v \in LgWords |-> IF v \div b > 0 THEN b * g[v \div b] ELSE 1]
  BY <1>6, <1>7, Zenon DEF LargestPlace
<1>9. \A v \in LgWords : g[v] = IF v \div b > 0 THEN b * g[v \div b] ELSE 1
  BY ONLY <1>8, Zenon
<1>10. \A v \in LgWords : g[v] \in Nat \ {0}
  <2> DEFINE B == {v \in Nat : v \in LgWords /\ g[v] \notin Nat \ {0}}
  <2>1. SUFFICES ASSUME B # {} PROVE FALSE
    BY WordsAre
  <2>2. PICK v \in B : \A k \in B : v <= k
    <3>1. B \subseteq Nat
      OBVIOUS
    <3> HIDE DEF B
    <3>2. QED BY <2>1, <3>1, LeastNat, Zenon
  <2>3. v \in Nat /\ v \in LgWords /\ g[v] \notin Nat \ {0}
    BY <2>2
  <2>4. PICK q \in Nat, r \in 0 .. b - 1 : q = v \div b /\ q <= v /\ (q > 0 => q < v)
    BY <2>3, Quotients, Zenon
  <2>5. q \in LgWords
    BY <2>3, <2>4, WordsAre
  <2>6. CASE q > 0
    <3>1. g[q] \in Nat \ {0}
      BY <2>2, <2>4, <2>5, <2>6
    <3>2. g[v] = b * g[q]
      BY <1>9, <2>3, <2>4, <2>6, Zenon
    <3>3. b * g[q] \in Nat \ {0}
      BY <3>1 DEF Bases
    <3>4. QED BY <2>3, <3>2, <3>3
  <2>7. CASE ~(q > 0)
    <3>1. g[v] = 1
      BY <1>9, <2>3, <2>4, <2>7, Zenon
    <3>2. QED BY <2>3, <3>1
  <2>8. QED BY <2>6, <2>7
<1>11. g \in [LgWords -> Nat \ {0}]
  <2>1. g = [v \in LgWords |-> g[v]]
    BY ONLY <1>8
  <2>2. QED BY ONLY <1>10, <2>1
<1>12. QED BY <1>7, <1>9, <1>11, Zenon

\* The digits of v from the place p on, as a function of both.
DigitsOf(b) == CHOOSE from : from = [k \in LgWords \X LgWords |->
                 IF k[2] = 0 THEN <<>> ELSE <<k[1] \div k[2]>> \o from[<<k[1] % k[2], k[2] \div b>>]]

LEMMA DigitsExist ==
  ASSUME NEW b \in Bases
  PROVE  \E f : f = [k \in LgWords \X LgWords |->
                 IF k[2] = 0 THEN <<>> ELSE <<k[1] \div k[2]>> \o f[<<k[1] % k[2], k[2] \div b>>]]
<1>1. PICK D, S, T, d, rank, h :
        /\ D = LgWords \X LgWords /\ S = Seq(Int) /\ T = {k \in D : k[2] # 0}
        /\ d = [k \in T |-> <<k[1] % k[2], k[2] \div b>>] /\ rank = [k \in D |-> k[2]]
        /\ h = [z \in D \X S |-> <<IF z[1][2] = 0 THEN 0 ELSE z[1][1] \div z[1][2]>> \o z[2]]
  OBVIOUS
<1>2. ASSUME NEW k \in D
      PROVE  /\ k[1] \in LgWords /\ k[2] \in LgWords
             /\ k[2] # 0 => /\ k[1] \div k[2] \in Int
                            /\ <<k[1] % k[2], k[2] \div b>> \in D /\ k[2] \div b < k[2]
  <2>1. PICK u, v : u = k[1] /\ v = k[2] /\ u \in LgWords /\ v \in LgWords
    BY <1>1
  <2>2. u \in Int /\ v \in Nat
    BY <2>1, WordsAre
  <2>3. ASSUME v # 0
        PROVE  u \div v \in Int /\ u % v \in LgWords /\ v \div b \in LgWords /\ v \div b < v
    <3>1. PICK q \in Int, r \in 0 .. v - 1 : q = u \div v /\ r = u % v
      BY <2>2, <2>3, Parted, Zenon
    <3>2. PICK p \in Nat, s \in 0 .. b - 1 : p = v \div b /\ p <= v /\ (p > 0 => p < v)
      BY <2>2, Quotients, Zenon
    <3>3. r \in LgWords /\ p \in LgWords
      BY <2>1, <2>2, <3>1, <3>2, WordsAre
    <3>4. p < v
      BY <2>2, <2>3, <3>2
    <3>5. QED BY <3>1, <3>2, <3>3, <3>4
  <2>4. QED BY <1>1, <2>1, <2>3
<1>3. T \in SUBSET D /\ d \in [T -> D] /\ rank \in [D -> Nat]
  <2>1. T \in SUBSET D
    BY <1>1
  <2>2. \A k \in T : d[k] \in D
    BY <1>1, <1>2
  <2>3. d = [k \in T |-> d[k]]
    BY <1>1
  <2>4. \A k \in D : k[2] \in Nat
    BY <1>2, WordsAre
  <2>5. QED BY <1>1, <2>1, <2>2, <2>3, <2>4
<1>4. \A k \in T : rank[d[k]] < rank[k]
  <2>1. ASSUME NEW k \in T
        PROVE  rank[d[k]] < rank[k]
    <3>1. k \in D /\ d[k] = <<k[1] % k[2], k[2] \div b>> /\ d[k] \in D /\ k[2] # 0
      BY <1>1, <1>3
    <3>2. PICK p : p = k[2] \div b
      OBVIOUS
    <3>3. d[k][2] = p /\ p < k[2]
      BY <1>2, <3>1, <3>2
    <3>4. rank[d[k]] = d[k][2] /\ rank[k] = k[2]
      BY <1>1, <3>1
    <3>5. QED BY <3>3, <3>4
  <2>2. QED BY <2>1
<1>5. h \in [D \X S -> S]
  <2>1. ASSUME NEW z \in D \X S
        PROVE  <<IF z[1][2] = 0 THEN 0 ELSE z[1][1] \div z[1][2]>> \o z[2] \in S
    <3>1. z[1] \in D /\ z[2] \in Seq(Int)
      BY <1>1
    <3>2. PICK x : x = IF z[1][2] = 0 THEN 0 ELSE z[1][1] \div z[1][2]
      OBVIOUS
    <3>3. x \in Int
      BY <1>2, <3>1, <3>2
    <3>4. <<x>> \o z[2] \in Seq(Int)
      BY <3>1, <3>3
    <3>5. QED BY <1>1, <3>2, <3>4
  <2>2. QED BY <1>1, <2>1
<1>6. PICK a, m : a = <<>> /\ m = LgLimit
  OBVIOUS
<1>7. a \in S /\ m \in Nat /\ \A k \in D : rank[k] < m
  <2>1. \A k \in D : k[2] < LgLimit
    BY <1>2, WordsAre
  <2>2. QED BY <1>1, <1>6, <2>1, LimitIs
<1>8. PICK f : Follows(f, D, S, T, d, h, a)
  <2>1. Ranked(D, S, T, d, rank, h, a, m)
    BY ONLY <1>3, <1>4, <1>5, <1>7, Zenon DEF Ranked
  <2>2. QED BY <2>1, FollowExists, Zenon
<1>9. f \in [D -> S] /\ \A k \in D : f[k] = IF k \in T THEN h[<<k, f[d[k]]>>] ELSE a
  BY <1>8, Zenon DEF Follows, FollowsAt
<1>10. ASSUME NEW k \in D
       PROVE  f[k] = IF k[2] = 0 THEN <<>> ELSE <<k[1] \div k[2]>> \o f[<<k[1] % k[2], k[2] \div b>>]
  <2>1. CASE k[2] = 0
    <3>1. k \notin T
      BY <1>1, <2>1
    <3>2. QED BY <1>6, <1>9, <2>1, <3>1
  <2>2. CASE k[2] # 0
    <3>1. k \in T /\ d[k] = <<k[1] % k[2], k[2] \div b>> /\ d[k] \in D
      BY <1>1, <1>3, <2>2
    <3>2. PICK y \in S : y = f[d[k]]
      BY <1>9, <3>1
    <3>3. h[<<k, y>>] = <<k[1] \div k[2]>> \o y
      <4>1. PICK z : z = <<k, y>>
        OBVIOUS
      <4>2. z \in D \X S /\ z[1] = k /\ z[2] = y
        BY <4>1
      <4>3. h[z] = <<IF z[1][2] = 0 THEN 0 ELSE z[1][1] \div z[1][2]>> \o z[2]
        BY <1>1, <4>2
      <4>4. QED BY <2>2, <4>1, <4>2, <4>3
    <3>4. f[k] = h[<<k, y>>]
      BY <1>9, <3>1, <3>2
    <3>5. QED BY ONLY <2>2, <3>1, <3>2, <3>3, <3>4, Zenon
  <2>3. QED BY <2>1, <2>2
<1>11. f = [k \in D |-> IF k[2] = 0 THEN <<>> ELSE <<k[1] \div k[2]>> \o f[<<k[1] % k[2], k[2] \div b>>]]
  <2>1. f = [k \in D |-> f[k]]
    BY <1>9
  <2>2. QED BY ONLY <1>10, <2>1
<1>12. QED BY <1>1, <1>11, Zenon

LEMMA DigitsIs ==
  ASSUME NEW b \in Bases, NEW v \in LgWords, NEW p \in LgWords
  PROVE  Digits(v, p, b) = IF p = 0 THEN <<>> ELSE <<v \div p>> \o Digits(v % p, p \div b, b)
<1>1. PICK g : g = DigitsOf(b)
  OBVIOUS
<1>2. g = [k \in LgWords \X LgWords |->
             IF k[2] = 0 THEN <<>> ELSE <<k[1] \div k[2]>> \o g[<<k[1] % k[2], k[2] \div b>>]]
  BY <1>1, DigitsExist, Zenon DEF DigitsOf
<1>3. \A x, y : Digits(x, y, b) = g[<<x, y>>]
  BY <1>1, Zenon DEF Digits, DigitsOf
<1>4. PICK k : k = <<v, p>>
  OBVIOUS
<1>5. k \in LgWords \X LgWords /\ k[1] = v /\ k[2] = p
  BY <1>4
<1>6. g[k] = IF k[2] = 0 THEN <<>> ELSE <<k[1] \div k[2]>> \o g[<<k[1] % k[2], k[2] \div b>>]
  BY ONLY <1>2, <1>5, Zenon
<1>7. g[k] = IF p = 0 THEN <<>> ELSE <<v \div p>> \o g[<<v % p, p \div b>>]
  BY ONLY <1>5, <1>6, Zenon
<1>8. QED BY <1>3, <1>4, <1>7, Zenon

\* What the largest place of u is: at most u, and not less than a digit of it.
PlaceFits(b, u, p) == p \in Nat \ {0} /\ u < b * p /\ (u > 0 => p <= u)

LEMMA PlaceFit ==
  ASSUME NEW b \in Bases
  PROVE  \A u \in LgWords : PlaceFits(b, u, LargestPlace(b)[u])
<1> DEFINE B == {u \in Nat : u \in LgWords /\ ~PlaceFits(b, u, LargestPlace(b)[u])}
<1>1. SUFFICES ASSUME B # {} PROVE FALSE
  BY WordsAre
<1>2. PICK u \in B : \A k \in B : u <= k
  <2>1. B \subseteq Nat
    OBVIOUS
  <2> HIDE DEF B
  <2>2. QED BY <1>1, <2>1, LeastNat, Zenon
<1>3. u \in Nat /\ u \in LgWords /\ ~PlaceFits(b, u, LargestPlace(b)[u])
  BY <1>2
<1>4. PICK q \in Nat, r \in 0 .. b - 1 :
        q = u \div b /\ u = b * q + r /\ q <= u /\ (q > 0 => q < u) /\ (q > 0 <=> u >= b)
  BY <1>3, Quotients, Zenon
<1>5. q \in LgWords
  BY <1>3, <1>4, WordsAre
<1>6. CASE q > 0
  <2>1. PlaceFits(b, q, LargestPlace(b)[q])
    BY <1>2, <1>4, <1>5, <1>6
  <2>2. PICK p : p = LargestPlace(b)[q]
    OBVIOUS
  <2>3. LargestPlace(b)[u] = b * p
    BY <1>3, <1>4, <1>6, <2>2, PlaceIs, Zenon
  <2>4. p \in Nat \ {0} /\ q < b * p /\ p <= q
    BY <1>6, <2>1, <2>2 DEF PlaceFits
  <2>5. b * p \in Nat \ {0} /\ u < b * (b * p) /\ b * p <= u
    <3>1. CASE b = 8
      BY <1>4, <2>4, <3>1
    <3>2. CASE b = 10
      BY <1>4, <2>4, <3>2
    <3>3. CASE b = 16
      BY <1>4, <2>4, <3>3
    <3>4. QED BY <3>1, <3>2, <3>3 DEF Bases
  <2>6. QED BY <1>3, <2>3, <2>5, Zenon DEF PlaceFits
<1>7. CASE ~(q > 0)
  <2>1. LargestPlace(b)[u] = 1
    BY <1>3, <1>4, <1>7, PlaceIs, Zenon
  <2>2. u < b * 1 /\ 1 \in Nat \ {0} /\ (u > 0 => 1 <= u)
    <3>1. b \in Nat
      BY DEF Bases
    <3>2. QED BY <1>3, <1>4, <1>7, <3>1
  <2>3. QED BY <1>3, <2>1, <2>2, Zenon DEF PlaceFits
<1>8. QED BY <1>6, <1>7

LEMMA PlaceIsWord ==
  ASSUME NEW b \in Bases, NEW u \in LgWords
  PROVE  LargestPlace(b)[u] \in LgWords
<1>1. PICK p : p = LargestPlace(b)[u] /\ PlaceFits(b, u, p)
  BY PlaceFit
<1>2. p \in Nat /\ u \in Nat /\ (p <= u \/ u = 0) /\ u < b * p
  BY <1>1, WordsAre DEF PlaceFits
<1>3. CASE u = 0
  <2>1. PICK q \in Nat : q = u \div b /\ (q > 0 => q < u)
    BY <1>2, Quotients, Zenon
  <2>2. ~(u \div b > 0)
    BY <1>2, <1>3, <2>1
  <2>3. p = 1
    BY <1>1, <2>2, PlaceIs, Zenon
  <2>4. QED BY <1>1, <2>3, WordsAre
<1>4. CASE p <= u
  BY <1>1, <1>2, <1>4, WordsAre
<1>5. QED BY <1>2, <1>3, <1>4

\* f counts through the digits ds from k on.
Counts(f, k, ds, b) == /\ k \in Nat /\ f[k] \in Nat
                       /\ \A i \in 1 .. Len(ds) : f[k + i] \in Nat /\ f[k + i] = f[k + i - 1] * b + ds[i]
\* The digits of m from the place p on.
DigitsFit(b, p, n, m, ds) ==
  /\ ds \in Seq(0 .. b - 1) /\ Len(ds) = n /\ ds[1] = m \div p
  /\ \A f, k : Counts(f, k, ds, b) => f[k + n] = f[k] * (b * p) + m
AllFit(b, p, n) == \A m \in LgWords : m < b * p => DigitsFit(b, p, n, m, Digits(m, p, b))

\* No place is left.
LEMMA NoPlace == ASSUME NEW b \in Bases, NEW m \in LgWords PROVE Digits(m, 0, b) = <<>>
BY DigitsIs, WordsAre

LEMMA LastDigit ==
  ASSUME NEW b \in Bases
  PROVE  AllFit(b, 1, 1)
<1>1. ASSUME NEW m \in LgWords, m < b * 1
      PROVE  DigitsFit(b, 1, 1, m, Digits(m, 1, b))
  <2>1. m \in Nat /\ b \in Nat \ {0} /\ m \in 0 .. b - 1
    BY <1>1, WordsAre DEF Bases
  <2>2. m \div 1 = m /\ m % 1 = 0
    BY <2>1
  <2>3. 1 \div b = 0
    <3>1. CASE b = 8
      BY <3>1
    <3>2. CASE b = 10
      BY <3>2
    <3>3. CASE b = 16
      BY <3>3
    <3>4. QED BY <3>1, <3>2, <3>3 DEF Bases
  <2>4. Digits(m, 1, b) = <<m>>
    <3>1. Digits(m, 1, b) = <<m \div 1>> \o Digits(m % 1, 1 \div b, b)
      BY DigitsIs, WordsAre
    <3>2. Digits(m % 1, 1 \div b, b) = <<>>
      BY <2>2, <2>3, NoPlace, WordsAre
    <3>3. Digits(m, 1, b) = <<m>> \o <<>>
      BY <2>2, <3>1, <3>2, Zenon
    <3>4. QED BY <3>3
  <2>5. ASSUME NEW f, NEW k, Counts(f, k, <<m>>, b)
        PROVE  f[k + 1] = f[k] * (b * 1) + m
    <3>1. k \in Nat /\ f[k] \in Nat /\ f[k + 1] = f[k + 1 - 1] * b + m
      BY <2>5 DEF Counts
    <3>2. k + 1 - 1 = k
      BY <3>1
    <3>3. QED BY <2>1, <3>1, <3>2
  <2>6. DigitsFit(b, 1, 1, m, <<m>>)
    BY <2>1, <2>2, <2>5 DEF DigitsFit
  <2>7. QED BY <2>4, <2>6
<1>2. QED BY <1>1, Zenon DEF AllFit

LEMMA NextDigit ==
  ASSUME NEW b \in Bases, NEW p \in LgWords, NEW n \in Nat \ {0}, p > 0, AllFit(b, p, n), b * p \in LgWords
  PROVE  AllFit(b, b * p, n + 1)
<1>1. PICK s : s = b * p
  OBVIOUS
<1>2. b \in Nat \ {0} /\ p \in Nat \ {0} /\ s \in Nat \ {0} /\ s \in LgWords /\ s \div b = p
  <2>1. b \in Nat \ {0} /\ p \in Nat \ {0} /\ s \in Nat /\ s \in LgWords
    BY <1>1, WordsAre DEF Bases
  <2>2. b * p + 0 = s /\ 0 \in 0 .. b - 1
    BY <1>1, <2>1
  <2>3. s \div b = p
    <3>1. p \in Int
      BY <2>1
    <3>2. (b * p + 0) \div b = p
      BY <2>1, <2>2, <3>1, PartedAs, Zenon
    <3>3. QED BY <2>2, <3>2, Zenon
  <2>4. s # 0
    <3>1. CASE b = 8
      BY <1>1, <2>1, <3>1
    <3>2. CASE b = 10
      BY <1>1, <2>1, <3>2
    <3>3. CASE b = 16
      BY <1>1, <2>1, <3>3
    <3>4. QED BY <3>1, <3>2, <3>3 DEF Bases
  <2>5. QED BY <2>1, <2>3, <2>4
<1>3. ASSUME NEW m \in LgWords, m < b * s
      PROVE  DigitsFit(b, s, n + 1, m, Digits(m, s, b))
  <2>1. m \in Nat /\ m \in Int
    BY WordsAre
  <2>2. PICK d \in Int, r \in 0 .. s - 1 : d = m \div s /\ r = m % s /\ m = s * d + r
    BY <1>2, <2>1, Parted, Zenon
  <2>3. d \in 0 .. b - 1
    <3>1. d >= 0
      <4>1. SUFFICES ASSUME d <= -1 PROVE FALSE
        BY <2>2
      <4>2. s * d <= s * (-1)
        BY <1>2, <4>1, TimesInto
      <4>3. s * (-1) = -s
        BY <1>2
      <4>4. QED BY <1>2, <2>1, <2>2, <4>2, <4>3
    <3>2. d < b
      <4>1. SUFFICES ASSUME b <= d PROVE FALSE
        BY <1>2, <2>2
      <4>2. s * b <= s * d
        BY <1>2, <4>1, TimesInto
      <4>3. s * b = b * s
        BY <1>2
      <4>4. QED BY <1>2, <1>3, <2>1, <2>2, <4>2, <4>3
    <3>3. QED BY <1>2, <2>2, <3>1, <3>2
  <2>4. r \in LgWords /\ r < b * p /\ r \in Nat
    <3>1. r \in Nat /\ r <= s /\ r < s /\ s \in Nat
      BY <1>2, <2>2
    <3>2. r \in LgWords
      BY <1>2, <3>1, WordsAre
    <3>3. QED BY <1>1, <3>1, <3>2
  <2>5. PICK e : e = Digits(r, p, b)
    OBVIOUS
  <2>6. DigitsFit(b, p, n, r, e)
    BY <2>4, <2>5, Zenon DEF AllFit
  <2>7. Digits(m, s, b) = <<d>> \o e
    <3>1. Digits(m, s, b) = <<m \div s>> \o Digits(m % s, s \div b, b)
      BY <1>2, DigitsIs
    <3>2. QED BY <1>2, <2>2, <2>5, <3>1, Zenon
  <2>8. PICK ds : ds = <<d>> \o e
    OBVIOUS
  <2>9. /\ ds \in Seq(0 .. b - 1) /\ Len(ds) = n + 1 /\ ds[1] = d
        /\ Len(e) = n /\ \A i \in 1 .. n : ds[1 + i] = e[i]
    <3>1. e \in Seq(0 .. b - 1) /\ Len(e) = n
      BY <2>6 DEF DigitsFit
    <3>2. QED BY <2>3, <2>8, <3>1
  <2>10. ASSUME NEW f, NEW k, Counts(f, k, ds, b)
         PROVE  f[k + (n + 1)] = f[k] * (b * s) + m
    <3>1. k \in Nat /\ f[k] \in Nat
          /\ \A i \in 1 .. n + 1 : f[k + i] \in Nat /\ f[k + i] = f[k + i - 1] * b + ds[i]
      BY <2>9, <2>10 DEF Counts
    <3>2. PICK l : l = k + 1
      OBVIOUS
    <3>3. Counts(f, l, e, b)
      <4>1. l \in Nat /\ f[l] \in Nat
        BY <3>1, <3>2
      <4>2. ASSUME NEW i \in 1 .. n
            PROVE  f[l + i] \in Nat /\ f[l + i] = f[l + i - 1] * b + e[i]
        <5>1. PICK j : j = 1 + i
          OBVIOUS
        <5>2. j \in 1 .. n + 1 /\ k + j = l + i /\ k + j - 1 = l + i - 1 /\ ds[j] = e[i]
          BY <2>9, <3>1, <3>2, <5>1
        <5>3. f[k + j] \in Nat /\ f[k + j] = f[k + j - 1] * b + ds[j]
          BY <3>1, <5>2
        <5>4. QED BY ONLY <5>2, <5>3, Zenon
      <4>3. QED BY <2>9, <4>1, <4>2 DEF Counts
    <3>4. f[l + n] = f[l] * (b * p) + r
      BY <2>6, <3>3, Zenon DEF DigitsFit
    <3>5. f[l] = f[k] * b + d
      <4>1. 1 \in 1 .. n + 1 /\ k + 1 - 1 = k
        BY <3>1
      <4>2. QED BY <2>9, <3>1, <3>2, <4>1
    <3>6. PICK x, y : x \in Nat /\ x = f[k] /\ y = f[l]
      BY <3>1
    <3>7. y * s = x * (b * s) + s * d
      <4>1. y = x * b + d
        BY <3>5, <3>6
      <4>2. x \in Int /\ b \in Int /\ d \in Int /\ s \in Int
        BY <1>2, <2>2, <3>6
      <4>3. (x * b + d) * s = x * (b * s) + s * d
        BY ONLY <4>2
      <4>4. QED BY <4>1, <4>3, Zenon
    <3>8. l + n = k + (n + 1)
      BY <3>1, <3>2
    <3>9. y * s \in Int /\ x * (b * s) \in Int /\ s * d \in Int
      BY <1>2, <2>2, <3>6, <3>7
    <3>10. y * s + r = x * (b * s) + m
      BY <2>1, <2>2, <3>7, <3>9
    <3>11. QED BY <1>1, <3>4, <3>6, <3>8, <3>10, Zenon
  <2>11. ds[1] = m \div s
    BY <2>2, <2>9
  <2>12. DigitsFit(b, s, n + 1, m, ds)
    BY <2>9, <2>10, <2>11, Zenon DEF DigitsFit
  <2>13. QED BY <2>7, <2>8, <2>12
<1>4. QED BY <1>1, <1>3, Zenon DEF AllFit

LEMMA AllDigitsFit ==
  ASSUME NEW b \in Bases
  PROVE  \A u \in LgWords : AllFit(b, LargestPlace(b)[u], DigitCount(b)[u])
<1> DEFINE B == {u \in Nat : u \in LgWords /\ ~AllFit(b, LargestPlace(b)[u], DigitCount(b)[u])}
<1>1. SUFFICES ASSUME B # {} PROVE FALSE
  BY WordsAre
<1>2. PICK u \in B : \A k \in B : u <= k
  <2>1. B \subseteq Nat
    OBVIOUS
  <2> HIDE DEF B
  <2>2. QED BY <1>1, <2>1, LeastNat, Zenon
<1>3. u \in Nat /\ u \in LgWords /\ ~AllFit(b, LargestPlace(b)[u], DigitCount(b)[u])
  BY <1>2
<1>4. PICK q \in Nat : q = u \div b /\ q <= u /\ (q > 0 => q < u)
  BY <1>3, Quotients, Zenon
<1>5. q \in LgWords
  BY <1>3, <1>4, WordsAre
<1>6. CASE q > 0
  <2>1. AllFit(b, LargestPlace(b)[q], DigitCount(b)[q])
    BY <1>2, <1>4, <1>5, <1>6
  <2>2. PICK p, n : p = LargestPlace(b)[q] /\ n = DigitCount(b)[q]
    OBVIOUS
  <2>3. LargestPlace(b)[u] = b * p
    BY <1>3, <1>4, <1>6, <2>2, PlaceIs, Zenon
  <2>4. DigitCount(b)[u] = 1 + n
    BY <1>3, <1>4, <1>6, <2>2, CountIs, Zenon
  <2>5. p \in LgWords /\ p \in Nat \ {0} /\ n \in Nat \ {0} /\ b * p \in LgWords
    <3>1. PlaceFits(b, q, p) /\ p \in LgWords
      BY <1>5, <2>2, PlaceFit, PlaceIsWord
    <3>2. b * p \in LgWords
      BY <1>3, <2>3, PlaceIsWord, Zenon
    <3>3. n \in Nat \ {0}
      BY <1>5, <2>2, CountIs
    <3>4. QED BY <3>1, <3>2, <3>3 DEF PlaceFits
  <2>6. AllFit(b, b * p, n + 1)
    BY <2>1, <2>2, <2>5, NextDigit
  <2>7. 1 + n = n + 1
    BY <2>5
  <2>8. QED BY <1>3, <2>3, <2>4, <2>6, <2>7, Zenon
<1>7. CASE ~(q > 0)
  <2>1. LargestPlace(b)[u] = 1
    BY <1>3, <1>4, <1>7, PlaceIs, Zenon
  <2>2. DigitCount(b)[u] = 1
    BY <1>3, <1>4, <1>7, CountIs, Zenon
  <2>3. QED BY <1>3, <2>1, <2>2, LastDigit, Zenon
<1>8. QED BY <1>6, <1>7

LEMMA DigitsRight ==
  ASSUME NEW b \in Bases, NEW m \in LgWords
  PROVE  /\ DigitsFit(b, LargestPlace(b)[m], DigitCount(b)[m], m, Digits(m, LargestPlace(b)[m], b))
         /\ DigitCount(b)[m] > 1 => Digits(m, LargestPlace(b)[m], b)[1] # 0
<1>1. PICK p, n, ds : p = LargestPlace(b)[m] /\ n = DigitCount(b)[m] /\ ds = Digits(m, p, b)
  OBVIOUS
<1>2. PlaceFits(b, m, p) /\ AllFit(b, p, n) /\ m \in Nat
  BY <1>1, PlaceFit, AllDigitsFit, WordsAre
<1>3. DigitsFit(b, p, n, m, ds)
  BY <1>1, <1>2, Zenon DEF PlaceFits, AllFit
<1>4. ASSUME n > 1
      PROVE  ds[1] # 0
  <2>1. PICK q \in Nat : q = m \div b /\ q <= m
    BY <1>2, Quotients, Zenon
  <2>2. q > 0
    <3>1. SUFFICES ASSUME ~(q > 0) PROVE FALSE
      OBVIOUS
    <3>2. n = 1
      BY <1>1, <2>1, <3>1, CountIs, Zenon
    <3>3. QED BY <1>4, <3>2
  <2>3. p \in Nat \ {0} /\ p <= m
    BY <1>2, <2>1, <2>2 DEF PlaceFits
  <2>4. m \in Int
    BY <1>2
  <2>5. PICK d \in Int, r \in 0 .. p - 1 : d = m \div p /\ m = p * d + r
    BY <2>3, <2>4, Parted, Zenon
  <2>6. d # 0
    <3>1. SUFFICES ASSUME d = 0 PROVE FALSE
      OBVIOUS
    <3>2. p * d = 0
      BY <2>3, <3>1
    <3>3. QED BY <2>3, <2>4, <2>5, <3>2
  <2>7. ds[1] = m \div p
    BY <1>3, Zenon DEF DigitsFit
  <2>8. QED BY <2>5, <2>6, <2>7
<1>5. QED BY <1>1, <1>3, <1>4, Zenon

-----------------------------------------------------------------------------
LEMMA SixteenSplits ==
  \A j \in 0 .. LgNibbles : \A e \in 0 .. j : \E t \in Nat \ {0} : Sixteen[j] = Sixteen[e] * t
<1> DEFINE P(j) == \A e \in 0 .. j : \E t \in Nat \ {0} : Sixteen[j] = Sixteen[e] * t
<1> DEFINE B == {j \in Nat : j \in 0 .. LgNibbles /\ ~P(j)}
<1>1. LgNibbles \in Nat
  BY LgAssumption
<1>2. SUFFICES ASSUME B # {} PROVE FALSE
  BY <1>1
<1>3. PICK j \in B : \A k \in B : j <= k
  <2>1. B \subseteq Nat
    OBVIOUS
  <2> HIDE DEF B
  <2>2. QED BY <1>2, <2>1, LeastNat, Zenon
<1>4. j \in Nat /\ j \in 0 .. LgNibbles /\ ~P(j)
  BY <1>3
<1>5. \A e \in 0 .. LgNibbles : Sixteen[e] \in Nat \ {0}
  BY SixteenIs
<1>6. ASSUME NEW e \in 0 .. j
      PROVE  \E t \in Nat \ {0} : Sixteen[j] = Sixteen[e] * t
  <2>1. CASE e = j
    <3>1. Sixteen[j] = Sixteen[e] * 1
      BY <1>4, <1>5, <2>1
    <3>2. QED BY <3>1
  <2>2. CASE e # j
    <3>1. j # 0 /\ j - 1 \in Nat /\ j - 1 \in 0 .. LgNibbles /\ e \in 0 .. j - 1 /\ j \in 1 .. LgNibbles
          /\ ~(j <= j - 1) /\ e \in 0 .. LgNibbles
      BY <1>1, <1>4, <1>6, <2>2
    <3>2. P(j - 1)
      BY <1>3, <3>1
    <3>3. PICK t \in Nat \ {0} : Sixteen[j - 1] = Sixteen[e] * t
      BY <3>1, <3>2
    <3>4. PICK x : x = Sixteen[e]
      OBVIOUS
    <3>5. x \in Nat \ {0}
      BY <1>5, <3>1, <3>4
    <3>6. Sixteen[j] = 16 * (x * t)
      BY <3>1, <3>3, <3>4, SixteenIs
    <3>7. 16 * (x * t) = x * (16 * t)
      BY <3>5
    <3>8. 16 * t \in Nat \ {0}
      OBVIOUS
    <3>9. Sixteen[j] = Sixteen[e] * (16 * t)
      BY <3>4, <3>6, <3>7, Zenon
    <3>10. QED BY <3>8, <3>9
  <2>3. QED BY <2>1, <2>2
<1>7. QED BY <1>4, <1>6

\* A nibble below a place is the remainder's.
LEMMA NibbleKept ==
  ASSUME NEW m \in Nat, NEW j \in 1 .. LgNibbles, NEW e \in 0 .. j - 1
  PROVE  Nibble(m, e) = Nibble(m % Sixteen[j], e)
<1>1. LgNibbles \in Nat /\ j - 1 \in 0 .. LgNibbles /\ e \in 0 .. LgNibbles /\ j \in 0 .. LgNibbles
  BY LgAssumption
<1>2. PICK x, y : x = Sixteen[e] /\ y = Sixteen[j]
  OBVIOUS
<1>3. x \in Nat \ {0} /\ y \in Nat \ {0}
  BY <1>1, <1>2, SixteenIs
<1>4. PICK t \in Nat \ {0} : y = x * (16 * t)
  <2>1. PICK t \in Nat \ {0} : Sixteen[j - 1] = x * t
    BY <1>1, <1>2, SixteenSplits
  <2>2. y = 16 * (x * t)
    BY <1>2, <2>1, SixteenIs
  <2>3. 16 * (x * t) = x * (16 * t)
    BY <1>3
  <2>4. QED BY <2>2, <2>3
<1>5. m \in Int
  OBVIOUS
<1>6. PICK d \in Int, r \in 0 .. y - 1 : d = m \div y /\ r = m % y /\ m = y * d + r
  BY <1>3, <1>5, Parted, Zenon
<1>7. r \in Int
  BY <1>3
<1>8. PICK f \in Int, s \in 0 .. x - 1 : f = r \div x /\ r = x * f + s
  BY ONLY <1>3, <1>7, Parted, ZenonT(40)
<1>9. PICK g \in Int, u \in 0 .. 15 : u = f % 16 /\ f = 16 * g + u
  OBVIOUS
<1>10. m = x * (16 * (t * d + g) + u) + s
  <2>1. y * d = x * (16 * (t * d))
    BY <1>3, <1>4
  <2>2. x * f = x * (16 * g) + x * u
    BY <1>3, <1>9
  <2>3. x * (16 * (t * d + g) + u) = x * (16 * (t * d)) + x * (16 * g) + x * u
    BY <1>3, <1>9
  <2>4. y * d \in Int /\ x * f \in Int /\ x * (16 * (t * d)) \in Int /\ x * (16 * g) \in Int /\ x * u \in Int
        /\ x * (16 * (t * d + g) + u) \in Int
    BY <1>3, <1>4
  <2>5. QED BY <1>5, <1>6, <1>7, <1>8, <2>1, <2>2, <2>3, <2>4
<1>11. PICK w : w = t * d + g
  OBVIOUS
<1>12. w \in Int /\ 16 * w + u \in Int
  BY <1>9, <1>11
<1>13. (x * (16 * w + u) + s) \div x = 16 * w + u
  BY <1>3, <1>12, PartedAs
<1>14. m \div x = 16 * w + u
  BY <1>10, <1>11, <1>13, Zenon
<1>15. (16 * w + u) % 16 = u
  BY <1>9, <1>12
<1>16. Nibble(m, e) = u
  BY <1>2, <1>14, <1>15, Zenon DEF Nibble
<1>17. Nibble(r, e) = u
  BY <1>2, <1>8, <1>9, Zenon DEF Nibble
<1>18. QED BY <1>2, <1>6, <1>16, <1>17, Zenon

HexDigits(p, n) == \A m \in LgWords : m < 16 * p => \A k \in 1 .. n : Digits(m, p, 16)[k] = Nibble(m, n - k)
HexFits(n) == AllFit(16, Sixteen[n - 1], n) /\ HexDigits(Sixteen[n - 1], n)

LEMMA HexFirst == HexFits(1)
<1>1. Sixteen[1 - 1] = 1
  BY SixteenIs
<1>2. 16 \in Bases
  BY DEF Bases
<1>3. AllFit(16, 1, 1)
  BY <1>2, LastDigit
<1>4. ASSUME NEW m \in LgWords, m < 16 * 1, NEW k \in 1 .. 1
      PROVE  Digits(m, 1, 16)[k] = Nibble(m, 1 - k)
  <2>1. k = 1 /\ m \in Nat
    BY WordsAre
  <2>2. DigitsFit(16, 1, 1, m, Digits(m, 1, 16))
    BY <1>3, <1>4, Zenon DEF AllFit
  <2>3. Digits(m, 1, 16)[1] = m \div 1
    BY <2>2, Zenon DEF DigitsFit
  <2>4. m \div 1 = m /\ m % 16 = m
    BY <1>4, <2>1
  <2>5. Nibble(m, 1 - 1) = m
    BY <1>1, <2>4, Zenon DEF Nibble
  <2>6. QED BY <2>1, <2>3, <2>4, <2>5, Zenon
<1>5. HexDigits(1, 1)
  BY <1>4, Zenon DEF HexDigits
<1>6. QED BY <1>1, <1>3, <1>5, Zenon DEF HexFits

LEMMA HexNext ==
  ASSUME NEW n \in 1 .. LgNibbles - 1, HexFits(n)
  PROVE  HexFits(n + 1)
<1>1. LgNibbles \in Nat /\ n \in Nat \ {0} /\ n \in 1 .. LgNibbles /\ n - 1 \in 0 .. LgNibbles /\ (n + 1) - 1 = n
      /\ n \in 0 .. LgNibbles /\ n + 1 \in 0 .. LgNibbles /\ 16 \in Bases /\ 16 \in Nat \ {0}
  BY LgAssumption DEF Bases
<1>2. PICK p, s : p = Sixteen[n - 1] /\ s = Sixteen[n]
  OBVIOUS
<1>3. p \in Nat \ {0} /\ s = 16 * p /\ s \in Nat \ {0} /\ s \in LgWords /\ p \in LgWords
  <2>1. p \in Nat \ {0} /\ s = 16 * p
    BY <1>1, <1>2, SixteenIs
  <2>2. n + 1 \in 1 .. LgNibbles /\ n + 1 \in 0 .. LgNibbles
    BY <1>1
  <2>3. Sixteen[n + 1] = 16 * s
    BY <1>1, <1>2, <2>2, SixteenIs
  <2>4. PICK t \in Nat \ {0} : LgLimit = Sixteen[n + 1] * t
    <3>1. LgNibbles \in 0 .. LgNibbles /\ n + 1 \in 0 .. LgNibbles
      BY <1>1
    <3>2. QED BY <3>1, LimitIs, SixteenSplits
  <2>5. 16 * s <= (16 * s) * t
    <3>1. 16 * s \in Nat /\ (16 * s) * 1 = 16 * s /\ 1 <= t
      BY <2>1
    <3>2. (16 * s) * 1 <= (16 * s) * t
      BY <3>1, TimesInto
    <3>3. QED BY <3>1, <3>2
  <2>6. LgLimit >= 16 * s
    BY <2>3, <2>4, <2>5
  <2>7. s \in Nat \ {0} /\ s < LgLimit /\ p <= s
    BY <2>1, <2>6, LimitIs
  <2>8. QED BY <2>1, <2>7, WordsAre
<1>4. AllFit(16, p, n) /\ \A m \in LgWords : m < 16 * p => \A k \in 1 .. n : Digits(m, p, 16)[k] = Nibble(m, n - k)
  BY <1>2, Zenon DEF HexFits, HexDigits
<1>5. AllFit(16, s, n + 1)
  BY <1>1, <1>3, <1>4, NextDigit
<1>6. ASSUME NEW m \in LgWords, m < 16 * s, NEW k \in 1 .. n + 1
      PROVE  Digits(m, s, 16)[k] = Nibble(m, (n + 1) - k)
  <2>1. m \in Nat /\ m \in Int
    BY WordsAre
  <2>2. PICK ds : ds = Digits(m, s, 16)
    OBVIOUS
  <2>3. DigitsFit(16, s, n + 1, m, ds)
    BY <1>5, <1>6, <2>2, Zenon DEF AllFit
  <2>4. ds \in Seq(0 .. 15) /\ Len(ds) = n + 1 /\ ds[1] = m \div s
    <3>1. 16 - 1 = 15
      OBVIOUS
    <3>2. QED BY <2>3, <3>1, Zenon DEF DigitsFit
  <2>5. CASE k = 1
    <3>1. (n + 1) - k = n
      BY <1>1, <2>5
    <3>2. PICK d \in 0 .. 15 : d = ds[1]
      BY <1>1, <2>4
    <3>3. d % 16 = d
      OBVIOUS
    <3>4. Nibble(m, n) = d
      BY <1>2, <2>4, <3>2, <3>3, Zenon DEF Nibble
    <3>5. QED BY <2>2, <2>5, <3>1, <3>2, <3>4, Zenon
  <2>6. CASE k # 1
    <3>1. PICK r \in 0 .. s - 1 : r = m % s
      BY <1>3, <2>1, Parted, Zenon
    <3>2. r \in Nat /\ r <= s /\ r < 16 * p /\ s \in Nat
      BY <1>3, <3>1
    <3>3. r \in LgWords
      BY <1>3, <3>2, WordsAre
    <3>4. PICK e : e = Digits(r, p, 16)
      OBVIOUS
    <3>5. ds = <<m \div s>> \o e
      <4>1. s \div 16 = p
        BY <1>3
      <4>2. s # 0
        BY <1>3
      <4>3. Digits(m, s, 16) = <<m \div s>> \o Digits(m % s, s \div 16, 16)
        BY <1>1, <1>3, <4>2, DigitsIs
      <4>4. QED BY ONLY <2>2, <3>1, <3>4, <4>1, <4>3, Zenon
    <3>6. DigitsFit(16, p, n, r, e)
      BY <1>4, <3>2, <3>3, <3>4, Zenon DEF AllFit
    <3>7. e \in Seq(0 .. 16 - 1) /\ Len(e) = n
      BY <3>6, Zenon DEF DigitsFit
    <3>8. PICK i : i = k - 1
      OBVIOUS
    <3>9. i \in 1 .. n /\ n - i = (n + 1) - k /\ n - i \in 0 .. n - 1 /\ k = 1 + i
      BY <1>1, <2>6, <3>8
    <3>10. ds[k] = e[i]
      BY <3>5, <3>7, <3>9
    <3>11. e[i] = Nibble(r, n - i)
      BY <1>4, <3>2, <3>3, <3>4, <3>9, Zenon
    <3>12. Nibble(m, n - i) = Nibble(r, n - i)
      BY <1>1, <1>2, <2>1, <3>1, <3>9, NibbleKept
    <3>13. QED BY <2>2, <3>9, <3>10, <3>11, <3>12, Zenon
  <2>7. QED BY <2>5, <2>6
<1>7. Sixteen[(n + 1) - 1] = s
  BY <1>1, <1>2
<1>8. HexDigits(s, n + 1)
  BY <1>6, Zenon DEF HexDigits
<1>9. QED BY ONLY <1>5, <1>7, <1>8, Zenon DEF HexFits

LEMMA AllHex == \A n \in 1 .. LgNibbles : HexFits(n)
<1> DEFINE B == {n \in Nat : n \in 1 .. LgNibbles /\ ~HexFits(n)}
<1>1. SUFFICES ASSUME B # {} PROVE FALSE
  BY LgAssumption
<1>2. PICK n \in B : \A k \in B : n <= k
  <2>1. B \subseteq Nat
    OBVIOUS
  <2> HIDE DEF B
  <2>2. QED BY <1>1, <2>1, LeastNat, Zenon
<1>3. n \in Nat /\ n \in 1 .. LgNibbles /\ ~HexFits(n)
  BY <1>2
<1>4. n # 1
  BY <1>3, HexFirst
<1>5. PICK k : k = n - 1
  OBVIOUS
<1>6. k \in Nat /\ k \in 1 .. LgNibbles /\ k \in 1 .. LgNibbles - 1 /\ ~(n <= k) /\ k + 1 = n
  BY <1>3, <1>4, <1>5, LgAssumption
<1>7. HexFits(k)
  BY <1>2, <1>6
<1>8. QED BY <1>3, <1>6, <1>7, HexNext, Zenon

PlaceOfHex(u, n) == n \in 1 .. LgNibbles /\ LargestPlace(16)[u] = Sixteen[n - 1]

LEMMA HexPlaces == \A u \in LgWords : PlaceOfHex(u, DigitCount(16)[u])
<1> DEFINE B == {u \in Nat : u \in LgWords /\ ~PlaceOfHex(u, DigitCount(16)[u])}
<1>1. SUFFICES ASSUME B # {} PROVE FALSE
  BY WordsAre
<1>2. PICK u \in B : \A k \in B : u <= k
  <2>1. B \subseteq Nat
    OBVIOUS
  <2> HIDE DEF B
  <2>2. QED BY <1>1, <2>1, LeastNat, Zenon
<1>3. u \in Nat /\ u \in LgWords /\ ~PlaceOfHex(u, DigitCount(16)[u])
  BY <1>2
<1>4. 16 \in Bases /\ LgNibbles \in Nat \ {0}
  BY LgAssumption DEF Bases
<1>5. PICK q \in Nat : q = u \div 16 /\ q <= u /\ (q > 0 => q < u)
  BY <1>3, <1>4, Quotients, Zenon
<1>6. q \in LgWords
  BY <1>3, <1>5, WordsAre
<1>7. CASE q > 0
  <2>1. PICK n : n = DigitCount(16)[q] /\ PlaceOfHex(q, n)
    BY <1>2, <1>5, <1>6, <1>7
  <2>2. n \in 1 .. LgNibbles /\ LargestPlace(16)[q] = Sixteen[n - 1]
    BY <2>1 DEF PlaceOfHex
  <2>3. LargestPlace(16)[u] = 16 * Sixteen[n - 1]
    BY <1>3, <1>4, <1>5, <1>7, <2>2, PlaceIs, Zenon
  <2>4. DigitCount(16)[u] = 1 + n
    BY <1>3, <1>4, <1>5, <1>7, <2>1, CountIs, Zenon
  <2>5. LargestPlace(16)[u] = Sixteen[n]
    BY <2>2, <2>3, SixteenIs
  <2>6. n # LgNibbles
    <3>1. SUFFICES ASSUME n = LgNibbles PROVE FALSE
      OBVIOUS
    <3>2. LargestPlace(16)[u] \in LgWords
      BY <1>3, <1>4, PlaceIsWord
    <3>3. LargestPlace(16)[u] = LgLimit
      BY <2>5, <3>1, LimitIs
    <3>4. QED BY <3>2, <3>3, LimitIs, WordsAre
  <2>7. 1 + n \in 1 .. LgNibbles /\ (1 + n) - 1 = n
    BY <1>4, <2>2, <2>6
  <2>8. QED BY <1>3, <2>4, <2>5, <2>7, Zenon DEF PlaceOfHex
<1>8. CASE ~(q > 0)
  <2>1. LargestPlace(16)[u] = 1
    BY <1>3, <1>4, <1>5, <1>8, PlaceIs, Zenon
  <2>2. DigitCount(16)[u] = 1
    BY <1>3, <1>4, <1>5, <1>8, CountIs, Zenon
  <2>3. 1 \in 1 .. LgNibbles /\ Sixteen[1 - 1] = 1
    BY <1>4, SixteenIs
  <2>4. QED BY <1>3, <2>1, <2>2, <2>3, Zenon DEF PlaceOfHex
<1>9. QED BY <1>7, <1>8

\* Where the first nibble that is not zero stands.
FirstOfHex(v, i) == Nibble(v, i) # 0 /\ \A j \in i + 1 .. LgNibbles - 1 : Nibble(v, j) = 0

HexFrom(v, first) == [k \in 1 .. first + 1 |-> Nibble(v, first + 1 - k)]

LEMMA HexRight ==
  ASSUME NEW v \in LgWords
  PROVE  Digits(v, LargestPlace(16)[v], 16) = alt_printf_x(v)
<1>1. PICK p, n, ds : p = LargestPlace(16)[v] /\ n = DigitCount(16)[v] /\ ds = Digits(v, p, 16)
  OBVIOUS
<1>2. 16 \in Bases /\ LgNibbles \in Nat \ {0} /\ v \in Nat
  BY LgAssumption, WordsAre DEF Bases
<1>3. n \in 1 .. LgNibbles /\ p = Sixteen[n - 1]
  BY <1>1, HexPlaces, Zenon DEF PlaceOfHex
<1>4. DigitsFit(16, p, n, v, ds) /\ (n > 1 => ds[1] # 0)
  BY <1>1, <1>2, DigitsRight, Zenon
<1>5. ds \in Seq(0 .. 15) /\ Len(ds) = n /\ ds[1] = v \div p
  <2>1. 16 - 1 = 15
    OBVIOUS
  <2>2. QED BY <1>4, <2>1, Zenon DEF DigitsFit
<1>6. p \in Nat \ {0} /\ v < 16 * p
  BY <1>1, <1>2, PlaceFit DEF PlaceFits
<1>7. \A k \in 1 .. n : ds[k] = Nibble(v, n - k)
  BY <1>1, <1>3, <1>6, AllHex, Zenon DEF HexFits, HexDigits
<1>8. n = 1 => p = 1
  BY <1>3, SixteenIs
<1>9. CASE v = 0
  <2>1. n = 1
    <3>1. PICK q \in Nat : q = v \div 16 /\ q <= v
      BY <1>2, Quotients, Zenon
    <3>2. ~(q > 0)
      BY <1>2, <1>9, <3>1
    <3>3. QED BY <1>1, <1>2, <3>1, <3>2, CountIs, Zenon
  <2>2. v \div p = 0
    BY <1>8, <1>9, <2>1
  <2>3. ds = <<0>>
    BY <1>5, <2>1, <2>2
  <2>4. QED BY <1>1, <1>9, <2>3, Zenon DEF alt_printf_x
<1>10. CASE v # 0
  <2>1. Nibble(v, n - 1) # 0
    <3>1. 1 \in 1 .. n /\ n \in Nat
      BY <1>3
    <3>2. n = 1 => v \div p = v
      BY <1>2, <1>8
    <3>3. ds[1] # 0
      BY <1>3, <1>4, <1>5, <1>10, <3>2
    <3>4. QED BY <1>7, <3>1, <3>3, Zenon
  <2>2. ASSUME NEW j \in n .. LgNibbles - 1
        PROVE  Nibble(v, j) = 0
    <3>1. j \in 0 .. LgNibbles /\ n \in 0 .. j /\ n \in 1 .. LgNibbles
      BY <1>2, <1>3
    <3>2. PICK t \in Nat \ {0} : Sixteen[j] = Sixteen[n] * t
      BY <3>1, SixteenSplits
    <3>3. PICK x, y : x = Sixteen[n] /\ y = Sixteen[j]
      OBVIOUS
    <3>4. x = 16 * p /\ x \in Nat \ {0} /\ y \in Nat \ {0}
      BY <1>3, <3>1, <3>3, SixteenIs
    <3>5. x * 1 <= x * t
      BY <3>4, TimesInto
    <3>6. v < y
      BY <1>2, <1>6, <3>2, <3>3, <3>4, <3>5
    <3>7. v \in 0 .. y - 1 /\ y * 0 + v = v
      BY <1>2, <3>4, <3>6
    <3>8. (y * 0 + v) \div y = 0
      BY <3>4, <3>7, PartedAs
    <3>9. v \div y = 0
      BY ONLY <3>7, <3>8, Zenon
    <3>10. QED BY ONLY <3>3, <3>9 DEF Nibble
  <2>3. n - 1 \in 0 .. LgNibbles - 1 /\ (n - 1) + 1 = n
    BY <1>2, <1>3
  <2>4. FirstOfHex(v, n - 1)
    BY <2>1, <2>2, <2>3, Zenon DEF FirstOfHex
  <2>5. ASSUME NEW i \in 0 .. LgNibbles - 1, FirstOfHex(v, i)
        PROVE  i = n - 1
    <3>1. ~(i < n - 1)
      <4>1. SUFFICES ASSUME i < n - 1 PROVE FALSE
        OBVIOUS
      <4>2. n - 1 \in i + 1 .. LgNibbles - 1
        BY <1>2, <1>3, <4>1
      <4>3. QED BY <2>1, <2>5, <4>2, Zenon DEF FirstOfHex
    <3>2. ~(i > n - 1)
      <4>1. SUFFICES ASSUME i > n - 1 PROVE FALSE
        OBVIOUS
      <4>2. i \in n .. LgNibbles - 1
        BY <1>2, <1>3, <4>1
      <4>3. QED BY <2>2, <2>5, <4>2, Zenon DEF FirstOfHex
    <3>3. QED BY <1>3, <3>1, <3>2
  <2>6. PICK first : first = CHOOSE i \in 0 .. LgNibbles - 1 : FirstOfHex(v, i)
    OBVIOUS
  <2>7. first \in 0 .. LgNibbles - 1 /\ FirstOfHex(v, first)
    BY ONLY <2>3, <2>4, <2>6, Zenon
  <2>8. first = n - 1
    BY <2>5, <2>7
  <2>9. alt_printf_x(v) = [k \in 1 .. first + 1 |-> Nibble(v, first + 1 - k)]
    <3>1. alt_printf_x(v) = HexFrom(v, CHOOSE i \in 0 .. LgNibbles - 1 : FirstOfHex(v, i))
      BY <1>10, SMTT(30), ZenonT(30) DEF alt_printf_x, FirstOfHex, HexFrom
    <3>2. QED BY <2>6, <3>1, Zenon DEF HexFrom
  <2>10. first + 1 = n /\ \A k \in 1 .. n : first + 1 - k = n - k
    BY <1>3, <2>8
  <2>11. [k \in 1 .. first + 1 |-> Nibble(v, first + 1 - k)] = [k \in 1 .. n |-> Nibble(v, n - k)]
    BY ONLY <2>10, Zenon
  <2>12. ds = [k \in 1 .. n |-> Nibble(v, n - k)]
    <3>1. ds = [k \in 1 .. n |-> ds[k]]
      BY <1>3, <1>5
    <3>2. QED BY ONLY <1>7, <3>1, Zenon
  <2>13. QED BY <1>1, <2>9, <2>11, <2>12, Zenon
<1>11. QED BY <1>9, <1>10

LEMMA MaxIn ==
  ASSUME NEW n \in Nat, NEW s, s \subseteq 1 .. n, s # {}
  PROVE  Max(s) \in s /\ \A y \in s : Max(s) >= y
<1>1. PICK T : T = {k \in Nat : \A y \in s : y <= k}
  OBVIOUS
<1>2. T \subseteq Nat /\ T # {}
  <2>1. n \in T
    BY <1>1
  <2>2. QED BY <1>1, <2>1
<1>3. PICK k \in T : \A l \in T : k <= l
  BY <1>2, LeastNat, Zenon
<1>4. k \in Nat /\ \A y \in s : y <= k /\ y \in Nat
  BY <1>1, <1>3
<1>5. k \in s
  <2>1. SUFFICES ASSUME k \notin s PROVE FALSE
    OBVIOUS
  <2>2. PICK y : y \in s
    OBVIOUS
  <2>3. k # 0
    BY <1>4, <2>1, <2>2
  <2>4. k - 1 \in Nat /\ ~(k <= k - 1)
    BY <1>4, <2>3
  <2>5. \A z \in s : z <= k - 1
    BY <1>4, <2>1
  <2>6. k - 1 \in T
    BY <1>1, <2>4, <2>5
  <2>7. QED BY <1>3, <2>4, <2>6
<1>6. \E x \in s : \A y \in s : x >= y
  BY <1>4, <1>5
<1>7. QED BY <1>6, Zenon DEF Max

\* What FoldLeft computes, a digit at a time.
FoldTo(t, ds, b) == t = [s \in SUBSET DOMAIN ds |-> IF s = {} THEN 0 ELSE t[s \ {Max(s)}] * b + ds[Max(s)]]

LEMMA ValueIs ==
  ASSUME NEW ds, NEW b
  PROVE  ValueOf(ds, b) = (CHOOSE t : FoldTo(t, ds, b))[DOMAIN ds]
BY Zenon DEF ValueOf, FoldLeft, MapThenFoldSet, FoldTo

LEMMA FoldExists ==
  ASSUME NEW b \in Bases, NEW ds \in Seq(0 .. b - 1)
  PROVE  \E t \in [SUBSET DOMAIN ds -> Nat] : FoldTo(t, ds, b)
<1>1. PICK n, D, T, d, rank, h :
        /\ n = Len(ds) /\ D = SUBSET DOMAIN ds /\ T = {s \in D : s # {}}
        /\ d = [s \in T |-> s \ {Max(s)}] /\ rank = [s \in D |-> Cardinality(s)]
        /\ h = [z \in D \X Nat |-> IF z[1] = {} THEN 0 ELSE z[2] * b + ds[Max(z[1])]]
  OBVIOUS
<1>2. n \in Nat /\ DOMAIN ds = 1 .. n /\ b \in Nat /\ \A i \in 1 .. n : ds[i] \in Nat
  BY <1>1 DEF Bases
<1>3. \A s \in T : s \in D /\ Max(s) \in s /\ Max(s) \in 1 .. n /\ s \ {Max(s)} \in D
  <2>1. ASSUME NEW s \in T
        PROVE  s \in D /\ Max(s) \in s /\ Max(s) \in 1 .. n /\ s \ {Max(s)} \in D
    <3>1. s \subseteq 1 .. n /\ s # {} /\ s \in D
      BY <1>1, <1>2
    <3>2. Max(s) \in s
      BY <1>2, <3>1, MaxIn
    <3>3. QED BY <1>1, <1>2, <3>1, <3>2
  <2>2. QED BY <2>1, Zenon
<1>4. \A s \in D : IsFiniteSet(s) /\ Cardinality(s) \in Nat /\ Cardinality(s) < n + 1
  <2>1. IsFiniteSet(1 .. n) /\ Cardinality(1 .. n) = n
    BY <1>2, FS_Interval
  <2>2. ASSUME NEW s \in D
        PROVE  IsFiniteSet(s) /\ Cardinality(s) \in Nat /\ Cardinality(s) < n + 1
    <3>1. s \subseteq 1 .. n
      BY <1>1, <1>2
    <3>2. IsFiniteSet(s) /\ Cardinality(s) \in Nat /\ Cardinality(s) <= n
      BY <2>1, <3>1, FS_Subset, FS_CardinalityType
    <3>3. QED BY <1>2, <3>2
  <2>3. QED BY <2>2
<1>5. T \in SUBSET D /\ d \in [T -> D] /\ rank \in [D -> Nat]
  BY <1>1, <1>3, <1>4
<1>6. \A s \in T : rank[d[s]] < rank[s]
  <2>1. ASSUME NEW s \in T
        PROVE  rank[d[s]] < rank[s]
    <3>1. s \in D /\ Max(s) \in s /\ s \ {Max(s)} \in D /\ IsFiniteSet(s) /\ Cardinality(s) \in Nat
      BY <1>3, <1>4
    <3>2. Cardinality(s \ {Max(s)}) = Cardinality(s) - 1
      BY <3>1, FS_RemoveElement
    <3>3. rank[s] = Cardinality(s) /\ rank[d[s]] = Cardinality(s \ {Max(s)})
      BY <1>1, <3>1
    <3>4. QED BY <3>1, <3>2, <3>3
  <2>2. QED BY <2>1
<1>7. h \in [D \X Nat -> Nat]
  <2>1. ASSUME NEW z \in D \X Nat
        PROVE  (IF z[1] = {} THEN 0 ELSE z[2] * b + ds[Max(z[1])]) \in Nat
    <3>1. z[1] \in D /\ z[2] \in Nat
      OBVIOUS
    <3>2. z[1] # {} => ds[Max(z[1])] \in Nat
      BY <1>1, <1>2, <1>3, <3>1
    <3>3. z[2] * b \in Nat
      BY <1>2, <3>1
    <3>4. QED BY <3>2, <3>3
  <2>2. QED BY <1>1, <2>1
<1>8. PICK a, m : a = 0 /\ m = n + 1
  OBVIOUS
<1>9. a \in Nat /\ m \in Nat /\ \A s \in D : rank[s] < m
  BY <1>1, <1>2, <1>4, <1>8
<1>10. PICK t : Follows(t, D, Nat, T, d, h, a)
  <2>1. Ranked(D, Nat, T, d, rank, h, a, m)
    BY ONLY <1>5, <1>6, <1>7, <1>9, Zenon DEF Ranked
  <2>2. QED BY <2>1, FollowExists, Zenon
<1>11. t \in [D -> Nat] /\ \A s \in D : t[s] = IF s \in T THEN h[<<s, t[d[s]]>>] ELSE a
  BY <1>10, Zenon DEF Follows, FollowsAt
<1>12. ASSUME NEW s \in D
       PROVE  t[s] = IF s = {} THEN 0 ELSE t[s \ {Max(s)}] * b + ds[Max(s)]
  <2>1. CASE s = {}
    <3>1. s \notin T
      BY <1>1, <2>1
    <3>2. QED BY <1>8, <1>11, <2>1, <3>1
  <2>2. CASE s # {}
    <3>1. s \in T /\ d[s] = s \ {Max(s)} /\ d[s] \in D
      BY <1>1, <1>5, <2>2
    <3>2. PICK y \in Nat : y = t[d[s]]
      BY <1>11, <3>1
    <3>3. h[<<s, y>>] = y * b + ds[Max(s)]
      <4>1. PICK z : z = <<s, y>>
        OBVIOUS
      <4>2. z \in D \X Nat /\ z[1] = s /\ z[2] = y
        BY <4>1
      <4>3. h[z] = IF z[1] = {} THEN 0 ELSE z[2] * b + ds[Max(z[1])]
        BY <1>1, <4>2, Zenon
      <4>4. QED BY ONLY <2>2, <4>1, <4>2, <4>3, Zenon
    <3>4. t[s] = h[<<s, y>>]
      BY <1>11, <3>1, <3>2
    <3>5. QED BY ONLY <2>2, <3>1, <3>2, <3>3, <3>4, Zenon
  <2>3. QED BY <2>1, <2>2
<1>13. FoldTo(t, ds, b)
  <2>1. t = [s \in D |-> t[s]]
    BY <1>11
  <2>2. t = [s \in D |-> IF s = {} THEN 0 ELSE t[s \ {Max(s)}] * b + ds[Max(s)]]
    BY ONLY <1>12, <2>1, Zenon
  <2>3. QED BY <1>1, <2>2, Zenon DEF FoldTo
<1>14. QED BY <1>1, <1>11, <1>13, Zenon

\* A step of the fold.
FoldGoing(g, ds, b) == g[1 .. 0] = 0 /\ \A k \in 1 .. Len(ds) : g[1 .. k] = g[1 .. (k - 1)] * b + ds[k]
LEMMA FoldGoes ==
  ASSUME NEW b \in Bases, NEW ds \in Seq(0 .. b - 1), NEW g, FoldTo(g, ds, b)
  PROVE  FoldGoing(g, ds, b)
<1>0. PICK n : n = Len(ds) /\ n \in Nat /\ DOMAIN ds = 1 .. n
  OBVIOUS
<1>1. \A s \in SUBSET DOMAIN ds : g[s] = IF s = {} THEN 0 ELSE g[s \ {Max(s)}] * b + ds[Max(s)]
  BY Zenon DEF FoldTo
<1>2. 1 .. 0 = {} /\ {} \in SUBSET DOMAIN ds
  OBVIOUS
<1>3. g[1 .. 0] = 0
  BY ONLY <1>1, <1>2, Zenon
<1>4. ASSUME NEW k \in 1 .. n
      PROVE  g[1 .. k] = g[1 .. (k - 1)] * b + ds[k]
  <2>1. PICK s, r : s = 1 .. k /\ r = 1 .. (k - 1)
    OBVIOUS
  <2>2. s \in SUBSET DOMAIN ds /\ s # {} /\ k \in s /\ s \subseteq 1 .. n
    <3>1. k \in s /\ s \subseteq 1 .. n
      BY ONLY <1>0, k \in 1 .. n, <2>1
    <3>2. QED BY ONLY <1>0, <3>1
  <2>3. Max(s) = k
    <3>1. Max(s) \in s /\ \A y \in s : Max(s) >= y
      BY <1>0, <2>2, MaxIn
    <3>2. Max(s) <= k /\ Max(s) >= k /\ Max(s) \in Int
      BY <2>1, <2>2, <3>1
    <3>3. QED BY <3>2
  <2>4. s \ {k} = r
    BY <2>1
  <2>5. g[s] = g[s \ {Max(s)}] * b + ds[Max(s)]
    BY ONLY <1>1, <2>2, Zenon
  <2>6. QED BY ONLY <2>1, <2>3, <2>4, <2>5, Zenon
<1>5. QED BY ONLY <1>0, <1>3, <1>4, Zenon DEF FoldGoing

FoldSame(t, u, ds) == \A k \in 0 .. Len(ds) : t[1 .. k] = u[1 .. k]
LEMMA FoldOnce ==
  ASSUME NEW b \in Bases, NEW ds \in Seq(0 .. b - 1), NEW t, FoldTo(t, ds, b), NEW u, FoldTo(u, ds, b)
  PROVE  FoldSame(t, u, ds)
<1>1. PICK n : n = Len(ds) /\ n \in Nat /\ DOMAIN ds = 1 .. n
  OBVIOUS
<1>2. ASSUME NEW g, FoldTo(g, ds, b)
      PROVE  g[1 .. 0] = 0 /\ \A k \in 1 .. n : g[1 .. k] = g[1 .. (k - 1)] * b + ds[k]
  <2>1. FoldGoing(g, ds, b)
    BY <1>2, FoldGoes, Zenon
  <2>2. QED BY <1>1, <2>1, Zenon DEF FoldGoing
<1> DEFINE B == {k \in Nat : k \in 0 .. n /\ t[1 .. k] # u[1 .. k]}
<1>3. SUFFICES ASSUME B # {} PROVE FALSE
  BY <1>1 DEF FoldSame
<1>4. PICK k \in B : \A l \in B : k <= l
  <2>1. B \subseteq Nat
    OBVIOUS
  <2> HIDE DEF B
  <2>2. QED BY <1>3, <2>1, LeastNat, Zenon
<1>5. k \in Nat /\ k \in 0 .. n /\ t[1 .. k] # u[1 .. k]
  BY <1>4
<1>6. k # 0
  BY <1>2, <1>5, Zenon
<1>7. PICK l : l = k - 1
  OBVIOUS
<1>8. l \in Nat /\ l \in 0 .. n /\ ~(k <= l) /\ k \in 1 .. n
  BY <1>1, <1>5, <1>6, <1>7
<1>9. t[1 .. l] = u[1 .. l]
  BY <1>4, <1>8
<1>10. t[1 .. k] = t[1 .. (k - 1)] * b + ds[k]
  BY <1>2, <1>8, Zenon
<1>11. u[1 .. k] = u[1 .. (k - 1)] * b + ds[k]
  BY <1>2, <1>8, Zenon
<1>12. QED BY ONLY <1>5, <1>7, <1>9, <1>10, <1>11, Zenon

LEMMA ValueRight ==
  ASSUME NEW b \in Bases, NEW p, NEW n \in Nat, NEW m \in Nat, NEW ds, DigitsFit(b, p, n, m, ds), b * p \in Nat
  PROVE  ValueOf(ds, b) = m
<1>1. ds \in Seq(0 .. b - 1) /\ Len(ds) = n /\ \A f, k : Counts(f, k, ds, b) => f[k + n] = f[k] * (b * p) + m
  BY Zenon DEF DigitsFit
<1>2. DOMAIN ds = 1 .. n /\ (\A i \in 1 .. n : ds[i] \in Nat) /\ b \in Nat
  BY <1>1 DEF Bases
<1>3. PICK u \in [SUBSET DOMAIN ds -> Nat] : FoldTo(u, ds, b)
  BY <1>1, FoldExists
<1>4. PICK t : t = CHOOSE v : FoldTo(v, ds, b)
  OBVIOUS
<1>5. FoldTo(t, ds, b)
  BY <1>3, <1>4, Zenon
<1>6. PICK f : f = [k \in 0 .. n |-> u[1 .. k]]
  OBVIOUS
<1>70. FoldGoing(u, ds, b)
  BY <1>1, <1>3, FoldGoes, Zenon
<1>7. f[0] = 0 /\ \A k \in 1 .. n : f[k] \in Nat /\ f[k] = f[k - 1] * b + ds[k]
  <2>1. u[1 .. 0] = 0
    BY <1>70, Zenon DEF FoldGoing
  <2>2. f[0] = u[1 .. 0]
    BY <1>6
  <2>3. ASSUME NEW k \in 1 .. n
        PROVE  f[k] \in Nat /\ f[k] = f[k - 1] * b + ds[k]
    <3>1. u[1 .. k] = u[1 .. (k - 1)] * b + ds[k]
      BY <1>1, <1>70, Zenon DEF FoldGoing
    <3>2. k \in 0 .. n /\ k - 1 \in 0 .. n /\ 1 .. k \in SUBSET DOMAIN ds
      BY <1>2
    <3>3. f[k] = u[1 .. k] /\ f[k - 1] = u[1 .. (k - 1)]
      BY <1>6, <3>2
    <3>4. u[1 .. k] \in Nat
      BY <3>2
    <3>5. QED BY ONLY <3>1, <3>3, <3>4, Zenon
  <2>4. QED BY <2>1, <2>2, <2>3
<1>8. Counts(f, 0, ds, b)
  <2>1. ASSUME NEW i \in 1 .. n
        PROVE  f[0 + i] \in Nat /\ f[0 + i] = f[0 + i - 1] * b + ds[i]
    <3>1. 0 + i = i /\ 0 + i - 1 = i - 1
      OBVIOUS
    <3>2. QED BY <1>7, <3>1, Zenon
  <2>2. 0 \in Nat /\ f[0] \in Nat
    BY <1>7
  <2>3. QED BY <1>1, <2>1, <2>2, Zenon DEF Counts
<1>9. f[0 + n] = f[0] * (b * p) + m
  BY <1>1, <1>8, Zenon
<1>10. f[n] = m
  BY <1>7, <1>9
<1>11. f[n] = u[1 .. n]
  BY <1>6
<1>12. t[1 .. n] = u[1 .. n]
  <2>1. n \in 0 .. Len(ds)
    BY <1>1
  <2>2. FoldSame(t, u, ds)
    BY <1>1, <1>3, <1>5, FoldOnce, Zenon
  <2>3. QED BY <2>1, <2>2, Zenon DEF FoldSame
<1>13. ValueOf(ds, b) = t[DOMAIN ds]
  BY <1>4, ValueIs, Zenon
<1>14. QED BY <1>2, <1>10, <1>11, <1>12, <1>13, Zenon

\* The number in out is v, printed in the format f.
PrintedAt(v, f, out, n) ==
  LET pad == SubSeq(out, 1, n - 1)
      ds == SubSeq(out, n, Len(out))
      minus == IF Negative(v, f) THEN <<Minus>> ELSE <<>>
      blanks == Len(pad) - Len(minus)
  IN  /\ \A i \in 1 .. Len(ds) : ds[i] \in 0 .. f.base - 1
      /\ ValueOf(ds, f.base) = Magnitude(v, f)
      /\ Len(ds) > 1 => ds[1] # 0
      /\ blanks > 0 => Len(out) = f.width
      /\ blanks = 0 => Len(out) >= f.width
      /\ pad = IF f.zero THEN minus \o Repeat(0, blanks) ELSE Repeat(Blank, blanks) \o minus
      /\ f.base = 16 => ds = alt_printf_x(v)
Printed(v, f, out) == \E n \in 1 .. Len(out) : PrintedAt(v, f, out, n)

NumberFormats == [base : Bases, signed : BOOLEAN, zero : BOOLEAN, width : Int]

LEMMA MagnitudeIs ==
  ASSUME NEW v \in LgWords, NEW f \in NumberFormats, f.signed => f.base = 10
  PROVE  /\ Magnitude(v, f) \in LgWords /\ Negative(v, f) \in BOOLEAN
         /\ f.base = 16 => ~Negative(v, f) /\ Magnitude(v, f) = v
<1>1. v \in Nat /\ v < LgLimit /\ LgLimit \in Nat /\ LgLimit >= 16
  BY LimitIs, WordsAre
<1>2. Negative(v, f) \in BOOLEAN
  BY DEF Negative, NumberFormats
<1>3. Negative(v, f) => v >= LgLimit \div 2
  BY DEF Negative
<1>4. LgLimit \div 2 > 0 /\ LgLimit \div 2 \in Nat
  BY <1>1
<1>5. Negative(v, f) => LgLimit - v \in Nat /\ LgLimit - v < LgLimit
  BY <1>1, <1>3, <1>4
<1>6. Magnitude(v, f) \in LgWords
  BY <1>5, WordsAre DEF Magnitude
<1>7. f.base = 16 => ~Negative(v, f)
  BY DEF Negative
<1>8. QED BY <1>2, <1>6, <1>7 DEF Magnitude

LEMMA Repeated ==
  ASSUME NEW w \in Int, NEW k, k = IF w > 0 THEN w ELSE 0
  PROVE  \A c \in Int : Repeat(c, w) \in Seq(Int) /\ Len(Repeat(c, w)) = k /\ Repeat(c, w) = Repeat(c, k)
<1> TAKE c \in Int
<1>1. k \in Nat /\ (IF k > 0 THEN k ELSE 0) = k
  OBVIOUS
<1>2. Repeat(c, w) = [i \in 1 .. k |-> c] /\ Repeat(c, k) = [i \in 1 .. k |-> c]
  BY <1>1 DEF Repeat
<1>3. [i \in 1 .. k |-> c] \in Seq(Int) /\ Len([i \in 1 .. k |-> c]) = k
  BY <1>1
<1>4. QED BY <1>1, <1>2, <1>3

LEMMA PartsAre ==
  ASSUME NEW s \in Seq(Int), NEW t \in Seq(Int)
  PROVE  SubSeq(s \o t, 1, Len(s)) = s /\ SubSeq(s \o t, Len(s) + 1, Len(s \o t)) = t
<1>1. PICK o, k, l : o = s \o t /\ k = Len(s) /\ l = Len(t)
  OBVIOUS
<1>2. /\ o \in Seq(Int) /\ k \in Nat /\ l \in Nat /\ Len(o) = k + l
      /\ (\A i \in 1 .. k : o[i] = s[i]) /\ \A i \in 1 .. l : o[k + i] = t[i]
  BY <1>1
<1>3. SubSeq(o, 1, k) = s
  BY <1>1, <1>2
<1>4. SubSeq(o, k + 1, k + l) = t
  <2>1. PICK u : u = SubSeq(o, k + 1, k + l)
    OBVIOUS
  <2>2. u \in Seq(Int) /\ Len(u) = l /\ \A i \in 1 .. l : u[i] = o[k + i]
    BY <1>2, <2>1
  <2>3. \A i \in 1 .. l : u[i] = t[i]
    BY <1>2, <2>2
  <2>4. QED BY <1>1, <2>1, <2>2, <2>3
<1>5. QED BY <1>1, <1>2, <1>3, <1>4

\* Every value is printed with its digits, its sign and the padding asked for, in
\* every base and format (alt_log_private_printf), as alt_printf prints it.
THEOREM NumberPrinted ==
  ASSUME NEW v \in LgWords, NEW f \in NumberFormats, f.signed => f.base = 10
  PROVE  Printed(v, f, doIntegerPrint(v, f))
<1>1. PICK b, m, ng : b = f.base /\ m = Magnitude(v, f) /\ ng = Negative(v, f)
  OBVIOUS
<1>2. b \in Bases /\ m \in LgWords /\ ng \in BOOLEAN /\ f.width \in Int /\ f.zero \in BOOLEAN
      /\ (b = 16 => m = v)
  BY <1>1, MagnitudeIs DEF NumberFormats
<1>3. PICK p, c : p = LargestPlace(b)[m] /\ c = DigitCount(b)[m]
  OBVIOUS
<1>4. PICK ds : ds = Digits(m, p, b)
  OBVIOUS
<1>5. DigitsFit(b, p, c, m, ds) /\ (c > 1 => ds[1] # 0)
  BY <1>2, <1>3, <1>4, DigitsRight, Zenon
<1>6. ds \in Seq(0 .. b - 1) /\ Len(ds) = c /\ c \in Nat \ {0} /\ ds \in Seq(Int)
  <2>1. ds \in Seq(0 .. b - 1) /\ Len(ds) = c
    BY <1>5, Zenon DEF DigitsFit
  <2>2. c \in Nat \ {0}
    BY <1>2, <1>3, CountIs
  <2>3. QED BY <1>2, <2>1, <2>2 DEF Bases
<1>7. ValueOf(ds, b) = m
  <2>0. p \in LgWords
    BY <1>2, <1>3, PlaceIsWord, Zenon
  <2>1. p \in Nat /\ m \in Nat /\ b \in Nat
    BY <1>2, <2>0, WordsAre DEF Bases
  <2>2. b * p \in Nat
    BY <2>1
  <2>3. QED BY <1>2, <1>5, <1>6, <2>1, <2>2, ValueRight
<1>8. b = 16 => ds = alt_printf_x(v)
  BY <1>2, <1>3, <1>4, HexRight, Zenon
<1>9. PICK minus, w, k : /\ minus = (IF ng THEN <<Minus>> ELSE <<>>)
                         /\ w = (IF ng THEN f.width - c - 1 ELSE f.width - c)
                         /\ k = IF w > 0 THEN w ELSE 0
  OBVIOUS
<1>10. minus \in Seq(Int) /\ w \in Int /\ k \in Nat /\ Len(minus) \in Nat /\ w = f.width - c - Len(minus)
  <2>1. CASE ng
    BY <1>2, <1>6, <1>9, <2>1 DEF Minus
  <2>2. CASE ~ng
    BY <1>2, <1>6, <1>9, <2>2
  <2>3. QED BY <1>2, <2>1, <2>2
<1>11. PICK pad : pad = IF f.zero THEN minus \o Repeat(0, w) ELSE Repeat(Blank, w) \o minus
  OBVIOUS
<1>12. /\ pad \in Seq(Int) /\ Len(pad) = Len(minus) + k
       /\ pad = IF f.zero THEN minus \o Repeat(0, k) ELSE Repeat(Blank, k) \o minus
  <2>1. \A e \in Int : Repeat(e, w) \in Seq(Int) /\ Len(Repeat(e, w)) = k /\ Repeat(e, w) = Repeat(e, k)
    BY ONLY <1>9, <1>10, Repeated
  <2>2. 0 \in Int /\ Blank \in Int
    BY DEF Blank
  <2>3. PICK z, bl : z = Repeat(0, w) /\ bl = Repeat(Blank, w)
    OBVIOUS
  <2>4. /\ z \in Seq(Int) /\ Len(z) = k /\ z = Repeat(0, k)
        /\ bl \in Seq(Int) /\ Len(bl) = k /\ bl = Repeat(Blank, k)
    BY <2>1, <2>2, <2>3, Zenon
  <2>5. pad = IF f.zero THEN minus \o z ELSE bl \o minus
    BY <1>11, <2>3, Zenon
  <2>6. pad \in Seq(Int) /\ Len(pad) = Len(minus) + k
    <3>1. z \in Seq(Int) /\ Len(z) = k /\ bl \in Seq(Int) /\ Len(bl) = k /\ minus \in Seq(Int) /\ k \in Nat
      BY <1>10, <2>4
    <3>2. Len(minus \o z) = Len(minus) + k /\ minus \o z \in Seq(Int)
      BY ONLY <3>1
    <3>3. Len(bl \o minus) = Len(minus) + k /\ bl \o minus \in Seq(Int)
      BY ONLY <3>1
    <3>4. QED BY ONLY <2>5, <3>2, <3>3, Zenon
  <2>7. pad = IF f.zero THEN minus \o Repeat(0, k) ELSE Repeat(Blank, k) \o minus
    BY <2>4, <2>5, Zenon
  <2>8. QED BY <2>6, <2>7
<1>13. PICK out : out = pad \o ds
  OBVIOUS
<1>14. doIntegerPrint(v, f) = out
  BY <1>1, <1>3, <1>4, <1>9, <1>11, <1>13, Zenon DEF doIntegerPrint, Padding
<1>15. PICK n : n = Len(pad) + 1
  OBVIOUS
<1>16. n \in 1 .. Len(out) /\ Len(out) = Len(pad) + c /\ n - 1 = Len(pad)
  <2>1. pad \in Seq(Int) /\ ds \in Seq(Int) /\ Len(ds) = c /\ c \in Nat \ {0}
    BY <1>6, <1>12
  <2>2. Len(out) = Len(pad) + Len(ds) /\ Len(pad) \in Nat
    <3>1. pad \in Seq(Int) /\ ds \in Seq(Int)
      BY <2>1
    <3>2. Len(pad \o ds) = Len(pad) + Len(ds) /\ Len(pad) \in Nat
      BY ONLY <3>1
    <3>3. QED BY ONLY <1>13, <3>2, Zenon
  <2>3. QED BY ONLY <1>15, <2>1, <2>2
<1>17. SubSeq(out, 1, n - 1) = pad /\ SubSeq(out, n, Len(out)) = ds
  <2>1. pad \in Seq(Int) /\ ds \in Seq(Int)
    BY <1>6, <1>12
  <2>2. SubSeq(pad \o ds, 1, Len(pad)) = pad /\ SubSeq(pad \o ds, Len(pad) + 1, Len(pad \o ds)) = ds
    BY <2>1, PartsAre
  <2>3. QED BY ONLY <1>13, <1>15, <1>16, <2>2, Zenon
<1>18. Len(pad) - Len(minus) = k
  BY <1>10, <1>12
<1>19. /\ k > 0 => Len(out) = f.width
       /\ k = 0 => Len(out) >= f.width
  <2>1. PICK x, l, o : x = f.width /\ l = Len(minus) /\ o = Len(out)
    OBVIOUS
  <2>2. x \in Int /\ l \in Nat /\ c \in Nat /\ o = (l + k) + c /\ w = x - c - l /\ k = IF w > 0 THEN w ELSE 0
    BY <1>2, <1>6, <1>9, <1>10, <1>12, <1>16, <2>1, Zenon
  <2>3. (k > 0 => o = x) /\ (k = 0 => o >= x)
    BY ONLY <2>2
  <2>4. QED BY <2>1, <2>3, Zenon
<1>20. (\A i \in 1 .. Len(ds) : ds[i] \in 0 .. b - 1) /\ (Len(ds) > 1 => ds[1] # 0)
  <2>1. \A i \in 1 .. Len(ds) : ds[i] \in 0 .. b - 1
    <3>1. PICK S : S = 0 .. b - 1
      OBVIOUS
    <3>2. ds \in Seq(S)
      BY <1>6, <3>1, Zenon
    <3>3. \A i \in 1 .. Len(ds) : ds[i] \in S
      BY ONLY <3>2
    <3>4. QED BY <3>1, <3>3, Zenon
  <2>2. QED BY <1>5, <1>6, <2>1, Zenon
<1>21. PrintedAt(v, f, out, n)
  BY ONLY <1>1, <1>7, <1>8, <1>9, <1>12, <1>17, <1>18, <1>19, <1>20, Zenon DEF PrintedAt
<1>22. QED BY <1>14, <1>16, <1>21, Zenon DEF Printed

-----------------------------------------------------------------------------
(***************************************************************************)
(* The format machines: as long as alt_printf knew all characters, both    *)
(* are at the same place with the same output.                             *)
(***************************************************************************)
InStep(out, state, fmt, altOut, alt) ==
  /\ out = altOut
  /\ \/ state = "chars" /\ alt = "chars"
     \/ state = "first" /\ alt = "first" /\ fmt = NoFormat
IsFormat(l) == /\ l = [job |-> "format", w |-> l.w, state |-> l.state, fmt |-> l.fmt, out |-> l.out,
                       alt |-> l.alt, altOut |-> l.altOut, odd |-> l.odd]
               /\ l.odd \in BOOLEAN /\ (~l.odd => InStep(l.out, l.state, l.fmt, l.altOut, l.alt))

\* An item that alt_printf knows, right after the '%'.
LEMMA LetterFirst ==
  ASSUME NEW c \in {"c", "x", "s"}, lg.fmt = NoFormat, lg.state = "first"
  PROVE  alt_log_private_printf(c) = Emit(Item(c, NoFormat, Args(lg.out)))
<1>1. alt_log_private_printf(c) = FirstFmtChar(c)
  BY DEF alt_log_private_printf
<1>2. FirstFmtChar(c) = OtherFmtChar(c)
  BY DEF FirstFmtChar
<1>3. c # "." /\ ~IsDigit(c) /\ c # "l" /\ c \in Letters
  BY DEF IsDigit, Decimals, Letters
<1>4. OtherFmtChar(c) = Emit(Item(c, lg.fmt, Args(lg.out)))
  BY <1>3 DEF OtherFmtChar
<1>5. QED BY <1>1, <1>2, <1>4

LEMMA CharStep ==
  ASSUME NEW c, lg.odd \in BOOLEAN, ~lg.odd, InStep(lg.out, lg.state, lg.fmt, lg.altOut, lg.alt),
         ~alt_printf(c).odd
  PROVE  InStep(alt_log_private_printf(c).out, alt_log_private_printf(c).state, alt_log_private_printf(c).fmt,
                alt_printf(c).out, alt_printf(c).state)
<1>1. PICK n, a : n = alt_log_private_printf(c) /\ a = alt_printf(c)
  OBVIOUS
<1>2. lg.out = lg.altOut
  BY DEF InStep
<1>3. CASE lg.state = "chars" /\ lg.alt = "chars"
  <2>1. n = Chars(c)
    BY <1>1, <1>3 DEF alt_log_private_printf
  <2>2. CASE c = "%"
    <3>1. n = [out |-> lg.out, state |-> "first", fmt |-> NoFormat]
      BY <2>1, <2>2 DEF Chars
    <3>2. a = [out |-> lg.altOut, state |-> "first", odd |-> FALSE]
      BY <1>1, <1>3, <2>2 DEF alt_printf
    <3>3. QED BY <1>1, <1>2, <3>1, <3>2 DEF InStep
  <2>3. CASE c # "%"
    <3>1. n = [out |-> Append(lg.out, Literal(c)), state |-> "chars", fmt |-> lg.fmt]
      BY <2>1, <2>3 DEF Chars, Emit
    <3>2. a = [out |-> Append(lg.altOut, Literal(c)), state |-> "chars", odd |-> FALSE]
      BY <1>1, <1>3, <2>3 DEF alt_printf
    <3>3. QED BY <1>1, <1>2, <3>1, <3>2 DEF InStep
  <2>4. QED BY <2>2, <2>3
<1>4. CASE lg.state = "first" /\ lg.alt = "first" /\ lg.fmt = NoFormat
  <2>1. CASE c = "%"
    <3>1. n = [out |-> Append(lg.out, Literal(c)), state |-> "chars", fmt |-> lg.fmt]
      BY <1>1, <1>4, <2>1 DEF alt_log_private_printf, FirstFmtChar, Emit
    <3>2. a = [out |-> Append(lg.altOut, Literal(c)), state |-> "chars", odd |-> FALSE]
      BY <1>1, <1>4, <2>1 DEF alt_printf
    <3>3. QED BY <1>1, <1>2, <3>1, <3>2 DEF InStep
  <2>2. CASE c \in {"c", "x", "s"}
    <3>1. n = [out |-> Append(lg.out, Item(c, NoFormat, Args(lg.out))), state |-> "chars", fmt |-> lg.fmt]
      BY <1>1, <1>4, <2>2, LetterFirst DEF Emit
    <3>2. a = [out |-> Append(lg.altOut, Item(c, NoFormat, Args(lg.altOut))), state |-> "chars", odd |-> FALSE]
      BY <1>1, <1>4, <2>2 DEF alt_printf
    <3>3. QED BY <1>1, <1>2, <3>1, <3>2 DEF InStep
  <2>3. CASE c # "%" /\ c \notin {"c", "x", "s"}
    <3>1. a = [out |-> lg.altOut, state |-> "chars", odd |-> TRUE]
      BY <1>1, <1>4, <2>3 DEF alt_printf
    <3>2. QED BY <1>1, <3>1
  <2>4. QED BY <2>1, <2>2, <2>3
<1>5. QED BY <1>3, <1>4 DEF InStep

LEMMA FormatKeeps == IsFormat(lg) /\ Format => IsFormat(lg')
<1> SUFFICES ASSUME IsFormat(lg), Format PROVE IsFormat(lg')
  OBVIOUS
<1>0. PICK c : c = Head(lg.w)
  OBVIOUS
<1>1. PICK n, a : n = alt_log_private_printf(c) /\ a = alt_printf(c)
  OBVIOUS
<1>3. lg = [job |-> "format", w |-> lg.w, state |-> lg.state, fmt |-> lg.fmt, out |-> lg.out,
            alt |-> lg.alt, altOut |-> lg.altOut, odd |-> lg.odd]
      /\ lg.odd \in BOOLEAN /\ (~lg.odd => InStep(lg.out, lg.state, lg.fmt, lg.altOut, lg.alt))
  BY Zenon DEF IsFormat
<1>4. lg' = [job |-> "format", w |-> Tail(lg.w), state |-> n.state, fmt |-> n.fmt, out |-> n.out,
             alt |-> a.state, altOut |-> a.out, odd |-> lg.odd \/ a.odd]
  BY <1>0, <1>1, Zenon DEF Format
<1>5. a.odd \in BOOLEAN
  BY <1>1 DEF alt_printf
<1>6. ~(lg.odd \/ a.odd) => InStep(n.out, n.state, n.fmt, a.out, a.state)
  <2>1. SUFFICES ASSUME ~lg.odd, ~a.odd PROVE InStep(n.out, n.state, n.fmt, a.out, a.state)
    OBVIOUS
  <2>2. InStep(lg.out, lg.state, lg.fmt, lg.altOut, lg.alt) /\ ~alt_printf(c).odd
    BY <1>1, <1>3, <2>1, Zenon
  <2>3. InStep(alt_log_private_printf(c).out, alt_log_private_printf(c).state, alt_log_private_printf(c).fmt,
               alt_printf(c).out, alt_printf(c).state)
    BY <1>3, <2>1, <2>2, CharStep
  <2>4. QED BY ONLY <1>1, <2>3, Zenon
<1>7. QED BY <1>4, <1>5, <1>6 DEF IsFormat

-----------------------------------------------------------------------------
(***************************************************************************)
(* The characters: what is left of both texts, what has arrived of them in *)
(* order, and the look at the port that a character relies on.             *)
(***************************************************************************)
Who == {"main", "isr"}
Fields == {"job", "room", "out", "lost", "races", "messages", "todo", "ready"}
Shape(l) == /\ DOMAIN l = Fields /\ l = [f \in Fields |-> l[f]]
            /\ DOMAIN l.todo = Who /\ l.todo = [w \in Who |-> l.todo[w]]
            /\ DOMAIN l.ready = Who /\ l.ready = [w \in Who |-> l.ready[w]]
Marks == {"m1", "m2", "m3", "i1", "i2"}
MainRests == {<<"m1", "m2", "m3">>, <<"m2", "m3">>, <<"m3">>, <<>>}
IsrRests == {<<"i1", "i2">>, <<"i2">>, <<>>}
\* All that arrived of the main text is from its first k characters.
Within(ot, k) == \A i \in DOMAIN ot, m \in 1 .. 3 : ot[i] = MainText[m] => m <= k
Ascending(ot) == \A i, j \in DOMAIN ot : \A m, n \in 1 .. 3 :
                   i < j /\ ot[i] = MainText[m] /\ ot[j] = MainText[n] => m < n
Typed(rm, ot, ls, rc, ms, tm, ti) ==
  /\ rm \in Nat /\ ot \in Seq(Marks) /\ ls \in Nat /\ rc \in Nat /\ ms \in Nat
  /\ tm \in MainRests /\ ti \in IsrRests
Accounted(ot, ls, ms, tm, ti) == Len(ot) + ls + Len(tm) + Len(ti) = 3 + 2 * ms
Looked(rm, ls, rc, ti, gm, gi) ==
  /\ ls <= rc /\ gm \in BOOLEAN /\ gi \in BOOLEAN
  /\ gm => (ls < rc \/ (rm > 0 /\ ti = <<>>))
  /\ gi => rm > 0 /\ ti # <<>>
PrintHolds(rm, ot, ls, rc, ms, tm, ti, gm, gi) ==
  /\ Typed(rm, ot, ls, rc, ms, tm, ti) /\ Accounted(ot, ls, ms, tm, ti)
  /\ Looked(rm, ls, rc, ti, gm, gi) /\ Within(ot, 3 - Len(tm)) /\ Ascending(ot)
IsPrint(l) ==
  /\ l.job = "print" /\ Shape(l)
  /\ PrintHolds(l.room, l.out, l.lost, l.races, l.messages, l.todo["main"], l.todo["isr"],
                l.ready["main"], l.ready["isr"])

LEMMA LookSets ==
  ASSUME NEW l, Shape(l), NEW w \in Who, NEW x, NEW k, k = [l EXCEPT !.ready[w] = x]
  PROVE  /\ Shape(k) /\ k.room = l.room /\ k.out = l.out /\ k.lost = l.lost /\ k.races = l.races
         /\ k.messages = l.messages /\ k.todo = l.todo /\ k.ready = [l.ready EXCEPT ![w] = x] /\ k.job = l.job
BY DEF Shape, Fields, Who

LEMMA PutSets ==
  ASSUME NEW l, Shape(l), NEW w \in Who, NEW o, NEW r, NEW s, NEW t, NEW g, NEW k,
         k = [l EXCEPT !.ready[w] = g, !.todo[w] = t, !.out = o, !.room = r, !.lost = s]
  PROVE  /\ Shape(k) /\ k.room = r /\ k.out = o /\ k.lost = s /\ k.races = l.races /\ k.messages = l.messages
         /\ k.todo = [l.todo EXCEPT ![w] = t] /\ k.ready = [l.ready EXCEPT ![w] = g] /\ k.job = l.job
BY DEF Shape, Fields, Who

LEMMA BreakSets ==
  ASSUME NEW l, Shape(l), NEW m, NEW c, NEW t, NEW k, k = [l EXCEPT !.todo.isr = t, !.messages = m, !.races = c]
  PROVE  /\ Shape(k) /\ k.room = l.room /\ k.out = l.out /\ k.lost = l.lost /\ k.races = c /\ k.messages = m
         /\ k.todo = [l.todo EXCEPT !["isr"] = t] /\ k.ready = l.ready /\ k.job = l.job
BY DEF Shape, Fields, Who

LEMMA RoomSets ==
  ASSUME NEW l, Shape(l), NEW r, NEW k, k = [l EXCEPT !.room = r]
  PROVE  /\ Shape(k) /\ k.room = r /\ k.out = l.out /\ k.lost = l.lost /\ k.races = l.races
         /\ k.messages = l.messages /\ k.todo = l.todo /\ k.ready = l.ready /\ k.job = l.job
BY DEF Shape, Fields, Who

LEMMA Tails ==
  /\ Tail(<<"m1", "m2", "m3">>) = <<"m2", "m3">> /\ Tail(<<"m2", "m3">>) = <<"m3">> /\ Tail(<<"m3">>) = <<>>
  /\ Tail(<<"i1", "i2">>) = <<"i2">> /\ Tail(<<"i2">>) = <<>>
  /\ Len(<<"m1", "m2", "m3">>) = 3 /\ Len(<<"m2", "m3">>) = 2 /\ Len(<<"m3">>) = 1
  /\ Len(<<"i1", "i2">>) = 2 /\ Len(<<"i2">>) = 1
  /\ Head(<<"m1", "m2", "m3">>) = "m1" /\ Head(<<"m2", "m3">>) = "m2" /\ Head(<<"m3">>) = "m3"
  /\ Head(<<"i1", "i2">>) = "i1" /\ Head(<<"i2">>) = "i2"
  /\ MainText[1] = "m1" /\ MainText[2] = "m2" /\ MainText[3] = "m3"
BY DEF MainText

LEMMA Appended ==
  ASSUME NEW ot \in Seq(Marks), NEW c \in Marks, NEW o, o = Append(ot, c)
  PROVE  /\ o \in Seq(Marks) /\ DOMAIN o = DOMAIN ot \cup {Len(ot) + 1} /\ o[Len(ot) + 1] = c
         /\ DOMAIN ot = 1 .. Len(ot) /\ Len(ot) \in Nat /\ Len(o) = Len(ot) + 1 /\ \A i \in DOMAIN ot : o[i] = ot[i]
<1>1. PICK n : n = Len(ot) /\ n \in Nat /\ DOMAIN ot = 1 .. n
  OBVIOUS
<1>2. Append(ot, c) \in Seq(Marks) /\ Len(Append(ot, c)) = n + 1
  BY <1>1
<1>3. Append(ot, c)[n + 1] = c /\ \A i \in 1 .. n : Append(ot, c)[i] = ot[i]
  BY <1>1
<1>4. DOMAIN Append(ot, c) = 1 .. n + 1
  BY ONLY <1>2
<1>5. 1 .. n + 1 = (1 .. n) \cup {n + 1}
  BY ONLY <1>1
<1>6. QED BY <1>1, <1>2, <1>3, <1>4, <1>5, Zenon

\* A character that comes out keeps the order, also when it is lost.
LEMMA MainComes ==
  ASSUME NEW ot \in Seq(Marks), NEW tm \in MainRests, tm # <<>>, Within(ot, 3 - Len(tm)), Ascending(ot)
  PROVE  /\ Tail(tm) \in MainRests /\ Len(Tail(tm)) = Len(tm) - 1 /\ Len(tm) \in 1 .. 3 /\ Head(tm) \in Marks
         /\ Within(ot, 3 - Len(Tail(tm)))
         /\ Within(Append(ot, Head(tm)), 3 - Len(Tail(tm))) /\ Ascending(Append(ot, Head(tm)))
<1>1. PICK l, r, c : l = Len(tm) /\ r = Tail(tm) /\ c = Head(tm)
  OBVIOUS
<1>20. /\ r \in MainRests /\ Len(r) = l - 1 /\ l \in 1 .. 3 /\ c \in Marks
       /\ c = MainText[4 - l]
  <2>1. CASE tm = <<"m1", "m2", "m3">>
    <3>1. l = 3 /\ c = MainText[1] /\ c = "m1" /\ r = <<"m2", "m3">> /\ Len(r) = 2
      BY <1>1, <2>1, Tails, Zenon
    <3>2. 4 - l = 1 /\ Len(r) = l - 1 /\ l \in 1 .. 3
      BY ONLY <3>1
    <3>3. r \in MainRests /\ c \in Marks
      BY ONLY <3>1 DEF MainRests, Marks
    <3>4. QED BY ONLY <3>1, <3>2, <3>3, Zenon
  <2>2. CASE tm = <<"m2", "m3">>
    <3>1. l = 2 /\ c = MainText[2] /\ c = "m2" /\ r = <<"m3">> /\ Len(r) = 1
      BY <1>1, <2>2, Tails, Zenon
    <3>2. 4 - l = 2 /\ Len(r) = l - 1 /\ l \in 1 .. 3
      BY ONLY <3>1
    <3>3. r \in MainRests /\ c \in Marks
      BY ONLY <3>1 DEF MainRests, Marks
    <3>4. QED BY ONLY <3>1, <3>2, <3>3, Zenon
  <2>3. CASE tm = <<"m3">>
    <3>1. l = 1 /\ c = MainText[3] /\ c = "m3" /\ r = <<>> /\ Len(r) = 0
      BY <1>1, <2>3, Tails
    <3>2. 4 - l = 3 /\ Len(r) = l - 1 /\ l \in 1 .. 3
      BY ONLY <3>1
    <3>3. r \in MainRests /\ c \in Marks
      BY ONLY <3>1 DEF MainRests, Marks
    <3>4. QED BY ONLY <3>1, <3>2, <3>3, Zenon
  <2>4. QED BY <2>1, <2>2, <2>3, Zenon DEF MainRests
<1>2. /\ Tail(tm) \in MainRests /\ Len(Tail(tm)) = Len(tm) - 1 /\ Len(tm) \in 1 .. 3 /\ c \in Marks
  BY ONLY <1>1, <1>20, Zenon
<1>21. PICK k : k = 4 - l
  OBVIOUS
<1>22. k \in 1 .. 3 /\ c = MainText[k]
  BY ONLY <1>20, <1>21
<1>3. 3 - Len(tm) = k - 1 /\ 3 - Len(Tail(tm)) = k
  BY ONLY <1>1, <1>2, <1>21
<1>4. \A m \in 1 .. 3 : c = MainText[m] => m = k
  BY ONLY <1>22 DEF MainText
<1>5. PICK o : o = Append(ot, c)
  OBVIOUS
<1>6. /\ o \in Seq(Marks) /\ DOMAIN o = DOMAIN ot \cup {Len(ot) + 1} /\ o[Len(ot) + 1] = c
      /\ DOMAIN ot = 1 .. Len(ot) /\ Len(ot) \in Nat /\ \A i \in DOMAIN ot : o[i] = ot[i]
  BY <1>2, <1>5, Appended
<1>7. \A i \in DOMAIN ot, m \in 1 .. 3 : ot[i] = MainText[m] => m <= k - 1
  BY <1>3 DEF Within
<1>8. Within(ot, k)
  <2>1. \A m \in 1 .. 3 : m <= k - 1 => m <= k
    BY ONLY <1>22
  <2>2. QED BY ONLY <1>7, <2>1, Zenon DEF Within
<1>9. Within(o, k)
  <2>1. ASSUME NEW i \in DOMAIN o, NEW m \in 1 .. 3, o[i] = MainText[m]
        PROVE  m <= k
    <3>1. CASE i \in DOMAIN ot
      <4>1. ot[i] = MainText[m]
        BY <1>6, <2>1, <3>1, Zenon
      <4>2. QED BY <1>8, <3>1, <4>1, Zenon DEF Within
    <3>2. CASE i = Len(ot) + 1
      <4>1. m = k
        BY <1>4, <1>6, <2>1, <3>2, Zenon
      <4>2. QED BY ONLY <1>22, <4>1
    <3>3. QED BY <1>6, <3>1, <3>2, Zenon
  <2>2. QED BY <2>1, Zenon DEF Within
<1>10. Ascending(o)
  <2>1. ASSUME NEW i \in DOMAIN o, NEW j \in DOMAIN o, NEW m \in 1 .. 3, NEW n \in 1 .. 3, i < j,
               o[i] = MainText[m], o[j] = MainText[n]
        PROVE  m < n
    <3>1. i \in DOMAIN ot
      BY <1>6, <2>1
    <3>2. CASE j \in DOMAIN ot
      BY <1>6, <2>1, <3>1, <3>2 DEF Ascending
    <3>3. CASE j = Len(ot) + 1
      BY <1>4, <1>6, <1>7, <2>1, <3>1, <3>3
    <3>4. QED BY <1>6, <3>2, <3>3
  <2>2. QED BY <2>1 DEF Ascending
<1>11. QED BY <1>1, <1>2, <1>3, <1>5, <1>8, <1>9, <1>10

LEMMA IsrComes ==
  ASSUME NEW ot \in Seq(Marks), NEW ti \in IsrRests, ti # <<>>, NEW k, Within(ot, k), Ascending(ot)
  PROVE  /\ Tail(ti) \in IsrRests /\ Len(Tail(ti)) = Len(ti) - 1 /\ Len(ti) \in 1 .. 2 /\ Head(ti) \in Marks
         /\ Within(Append(ot, Head(ti)), k) /\ Ascending(Append(ot, Head(ti)))
<1>1. PICK c : c = Head(ti) /\ c \in {"i1", "i2"}
  BY DEF IsrRests
<1>2. Tail(ti) \in IsrRests /\ Len(Tail(ti)) = Len(ti) - 1 /\ Len(ti) \in 1 .. 2 /\ c \in Marks
  <2>1. CASE ti = <<"i1", "i2">>
    <3>1. Tail(ti) = <<"i2">> /\ Len(ti) = 2 /\ Len(<<"i2">>) = 1 /\ c \in {"i1", "i2"}
      BY <1>1, <2>1, Tails, Zenon
    <3>2. <<"i2">> \in IsrRests
      BY DEF IsrRests
    <3>3. Len(Tail(ti)) = Len(ti) - 1 /\ Len(ti) \in 1 .. 2
      BY ONLY <3>1
    <3>4. QED BY <3>1, <3>2, <3>3, Zenon DEF Marks
  <2>2. CASE ti = <<"i2">>
    <3>1. Tail(ti) = <<>> /\ Len(ti) = 1 /\ Len(<<>>) = 0 /\ c \in {"i1", "i2"}
      BY <1>1, <2>2, Tails
    <3>2. <<>> \in IsrRests
      BY DEF IsrRests
    <3>3. Len(Tail(ti)) = Len(ti) - 1 /\ Len(ti) \in 1 .. 2
      BY ONLY <3>1
    <3>4. QED BY <3>1, <3>2, <3>3, Zenon DEF Marks
  <2>3. QED BY <2>1, <2>2, Zenon DEF IsrRests
<1>3. \A m \in 1 .. 3 : c # MainText[m]
  BY <1>1 DEF MainText
<1>4. PICK o : o = Append(ot, c)
  OBVIOUS
<1>5. /\ o \in Seq(Marks) /\ DOMAIN o = DOMAIN ot \cup {Len(ot) + 1} /\ o[Len(ot) + 1] = c
      /\ DOMAIN ot = 1 .. Len(ot) /\ Len(ot) \in Nat /\ \A i \in DOMAIN ot : o[i] = ot[i]
  BY <1>2, <1>4, Appended
<1>6. \A i \in DOMAIN o, m \in 1 .. 3 : o[i] = MainText[m] => i \in DOMAIN ot
  BY <1>3, <1>5
<1>7. Within(o, k)
  BY <1>5, <1>6 DEF Within
<1>8. Ascending(o)
  BY <1>5, <1>6 DEF Ascending
<1>9. QED BY <1>1, <1>2, <1>4, <1>7, <1>8

LEMMA PrintKeepsLook ==
  ASSUME NEW who \in Who, IsPrint(lg), LookRoom(who)
  PROVE  IsPrint(lg')
<1>1. PICK rm, ot, ls, rc, ms, tm, ti, gm, gi :
        /\ rm = lg.room /\ ot = lg.out /\ ls = lg.lost /\ rc = lg.races /\ ms = lg.messages
        /\ tm = lg.todo["main"] /\ ti = lg.todo["isr"] /\ gm = lg.ready["main"] /\ gi = lg.ready["isr"]
  OBVIOUS
<1>2. PrintHolds(rm, ot, ls, rc, ms, tm, ti, gm, gi) /\ Shape(lg) /\ lg.job = "print"
  BY <1>1, Zenon DEF IsPrint
<1>3. PICK k : k = lg' /\ k = [lg EXCEPT !.ready[who] = TRUE]
  BY DEF LookRoom
<1>4. /\ Shape(k) /\ k.room = rm /\ k.out = ot /\ k.lost = ls /\ k.races = rc /\ k.messages = ms
      /\ k.todo["main"] = tm /\ k.todo["isr"] = ti /\ k.ready = [lg.ready EXCEPT ![who] = TRUE] /\ k.job = "print"
  <2>1. /\ Shape(k) /\ k.room = lg.room /\ k.out = lg.out /\ k.lost = lg.lost /\ k.races = lg.races
        /\ k.messages = lg.messages /\ k.todo = lg.todo /\ k.ready = [lg.ready EXCEPT ![who] = TRUE]
        /\ k.job = lg.job
    BY <1>2, <1>3 DEF Shape, Fields, Who
  <2>2. QED BY ONLY <1>1, <1>2, <2>1, Zenon
<1>5. k.ready["main"] = (IF who = "main" THEN TRUE ELSE gm) /\ k.ready["isr"] = (IF who = "isr" THEN TRUE ELSE gi)
  BY <1>1, <1>2, <1>4 DEF Shape, Who
<1>6. rm > 0 /\ (who = "main" => ti = <<>>) /\ (who = "isr" => ti # <<>>)
  BY <1>1 DEF LookRoom, Runs
<1>7. Looked(rm, ls, rc, ti, k.ready["main"], k.ready["isr"])
  <2>1. Looked(rm, ls, rc, ti, gm, gi)
    BY <1>2, Zenon DEF PrintHolds
  <2>2. QED BY ONLY <1>5, <1>6, <2>1, Zenon DEF Looked
<1>8. PrintHolds(rm, ot, ls, rc, ms, tm, ti, k.ready["main"], k.ready["isr"])
  BY <1>2, <1>7, Zenon DEF PrintHolds
<1>9. IsPrint(k)
  BY ONLY <1>4, <1>8, Zenon DEF IsPrint
<1>10. QED BY <1>3, <1>9, Zenon

LEMMA PrintKeepsPut ==
  ASSUME NEW who \in Who, IsPrint(lg), PutChar(who)
  PROVE  IsPrint(lg')
<1>1. PICK rm, ot, ls, rc, ms, tm, ti, gm, gi :
        /\ rm = lg.room /\ ot = lg.out /\ ls = lg.lost /\ rc = lg.races /\ ms = lg.messages
        /\ tm = lg.todo["main"] /\ ti = lg.todo["isr"] /\ gm = lg.ready["main"] /\ gi = lg.ready["isr"]
  OBVIOUS
<1>2. PrintHolds(rm, ot, ls, rc, ms, tm, ti, gm, gi) /\ Shape(lg) /\ lg.job = "print"
  BY <1>1, Zenon DEF IsPrint
<1>3. PICK c, t, o, r, s : /\ c = Head(lg.todo[who]) /\ t = Tail(lg.todo[who])
                           /\ o = (IF rm > 0 THEN Append(ot, c) ELSE ot)
                           /\ r = (IF rm > 0 THEN rm - 1 ELSE 0) /\ s = IF rm > 0 THEN ls ELSE ls + 1
  OBVIOUS
<1>4. PICK k : k = lg' /\ k = [lg EXCEPT !.ready[who] = FALSE, !.todo[who] = t, !.out = o, !.room = r, !.lost = s]
  BY <1>1, <1>3, Zenon DEF PutChar
<1>5. /\ Shape(k) /\ k.room = r /\ k.out = o /\ k.lost = s /\ k.races = rc /\ k.messages = ms
      /\ k.todo = [lg.todo EXCEPT ![who] = t] /\ k.ready = [lg.ready EXCEPT ![who] = FALSE] /\ k.job = "print"
  <2>1. /\ Shape(k) /\ k.room = r /\ k.out = o /\ k.lost = s /\ k.races = lg.races
        /\ k.messages = lg.messages /\ k.todo = [lg.todo EXCEPT ![who] = t]
        /\ k.ready = [lg.ready EXCEPT ![who] = FALSE] /\ k.job = lg.job
    BY <1>2, <1>4 DEF Shape, Fields, Who
  <2>2. QED BY ONLY <1>1, <1>2, <2>1, Zenon
<1>6. /\ k.ready["main"] = (IF who = "main" THEN FALSE ELSE gm) /\ k.ready["isr"] = (IF who = "isr" THEN FALSE ELSE gi)
      /\ k.todo["main"] = (IF who = "main" THEN t ELSE tm) /\ k.todo["isr"] = (IF who = "isr" THEN t ELSE ti)
  BY <1>1, <1>2, <1>5 DEF Shape, Who
<1>7. /\ rm \in Nat /\ ot \in Seq(Marks) /\ ls \in Nat /\ rc \in Nat /\ ms \in Nat /\ tm \in MainRests /\ ti \in IsrRests
      /\ Accounted(ot, ls, ms, tm, ti) /\ Looked(rm, ls, rc, ti, gm, gi) /\ Within(ot, 3 - Len(tm)) /\ Ascending(ot)
  BY <1>2, Zenon DEF PrintHolds, Typed
<1>8. r \in Nat /\ s \in Nat
  BY ONLY <1>3, <1>7
<1>9. CASE who = "main"
  <2>1. tm # <<>> /\ ti = <<>> /\ gm /\ c = Head(tm) /\ t = Tail(tm)
    BY <1>1, <1>3, <1>9 DEF PutChar, Runs
  <2>2. /\ t \in MainRests /\ Len(t) = Len(tm) - 1 /\ Len(tm) \in 1 .. 3 /\ c \in Marks /\ Within(ot, 3 - Len(t))
        /\ Within(Append(ot, c), 3 - Len(t)) /\ Ascending(Append(ot, c))
    BY <1>7, <2>1, MainComes
  <2>3. o \in Seq(Marks) /\ Len(o) + s = Len(ot) + ls + 1 /\ Within(o, 3 - Len(t)) /\ Ascending(o)
    <3>1. Append(ot, c) \in Seq(Marks) /\ Len(Append(ot, c)) = Len(ot) + 1 /\ Len(ot) \in Nat
      BY <1>7, <2>2, Appended
    <3>2. CASE rm > 0
      <4>1. o = Append(ot, c) /\ s = ls
        BY <1>3, <3>2
      <4>2. Len(o) = Len(ot) + 1
        BY ONLY <3>1, <4>1, Zenon
      <4>3. Len(o) + s = Len(ot) + ls + 1
        BY ONLY <1>7, <3>1, <4>1, <4>2
      <4>4. QED BY <2>2, <3>1, <4>1, <4>3, Zenon
    <3>3. CASE ~(rm > 0)
      <4>1. o = ot /\ s = ls + 1
        BY <1>3, <3>3
      <4>2. Len(o) + s = Len(ot) + ls + 1
        BY ONLY <1>7, <3>1, <4>1
      <4>3. QED BY <1>7, <2>2, <4>1, <4>2, Zenon
    <3>4. QED BY <3>2, <3>3
  <2>4. Accounted(o, s, ms, t, ti)
    <3>1. PICK a, b, d, e, f : a = Len(ot) /\ b = Len(tm) /\ d = Len(ti) /\ e = Len(o) /\ f = Len(t)
      OBVIOUS
    <3>2. a \in Nat /\ d \in Nat /\ e \in Nat
      BY ONLY <1>7, <2>3, <3>1 DEF IsrRests
    <3>3. a + ls + b + d = 3 + 2 * ms /\ f = b - 1 /\ b \in 1 .. 3 /\ e + s = a + ls + 1
      BY <1>7, <2>2, <2>3, <3>1, Zenon DEF Accounted
    <3>4. e + s + f + d = 3 + 2 * ms
      BY ONLY <1>7, <1>8, <3>2, <3>3
    <3>5. QED BY <3>1, <3>4, Zenon DEF Accounted
  <2>5. Looked(r, s, rc, ti, FALSE, gi)
    <3>1. ls <= rc /\ (ls < rc \/ rm > 0) /\ gi \in BOOLEAN /\ ~gi
      BY ONLY <1>7, <2>1, Zenon DEF Looked
    <3>2. s <= rc
      BY ONLY <1>3, <1>7, <3>1
    <3>3. QED BY ONLY <3>1, <3>2, Zenon DEF Looked
  <2>6. PrintHolds(r, o, s, rc, ms, t, ti, FALSE, gi)
    BY <1>7, <1>8, <2>2, <2>3, <2>4, <2>5, Zenon DEF PrintHolds, Typed
  <2>7. /\ k.ready["main"] = FALSE /\ k.ready["isr"] = gi /\ k.todo["main"] = t /\ k.todo["isr"] = ti
    BY <1>6, <1>9
  <2>8. IsPrint(k)
    BY ONLY <1>5, <2>6, <2>7, Zenon DEF IsPrint
  <2>9. QED BY <1>4, <2>8, Zenon
<1>10. CASE who = "isr"
  <2>1. ti # <<>> /\ gi /\ c = Head(ti) /\ t = Tail(ti)
    BY <1>1, <1>3, <1>10 DEF PutChar, Runs
  <2>2. rm > 0 /\ ls <= rc /\ (gm => ls < rc) /\ gm \in BOOLEAN
    BY <1>7, <2>1, Zenon DEF Looked
  <2>3. o = Append(ot, c) /\ s = ls
    BY <1>3, <2>2, Zenon
  <2>4. /\ t \in IsrRests /\ Len(t) = Len(ti) - 1 /\ Len(ti) \in 1 .. 2 /\ c \in Marks
        /\ Within(o, 3 - Len(tm)) /\ Ascending(o)
    BY <1>7, <2>1, <2>3, IsrComes
  <2>5. o \in Seq(Marks) /\ Len(o) = Len(ot) + 1 /\ Len(ot) \in Nat
    BY <1>7, <2>3, <2>4, Appended
  <2>6. Accounted(o, s, ms, tm, t)
    <3>1. PICK a, b, d, e, f : a = Len(ot) /\ b = Len(tm) /\ d = Len(ti) /\ e = Len(o) /\ f = Len(t)
      OBVIOUS
    <3>2. b \in Nat
      BY ONLY <1>7, <3>1 DEF MainRests
    <3>3. a \in Nat /\ a + ls + b + d = 3 + 2 * ms /\ f = d - 1 /\ d \in 1 .. 2 /\ e = a + 1
      BY <1>7, <2>4, <2>5, <3>1, Zenon DEF Accounted
    <3>4. e + ls + b + f = 3 + 2 * ms
      BY ONLY <1>7, <3>2, <3>3
    <3>5. QED BY <2>3, <3>1, <3>4, Zenon DEF Accounted
  <2>7. Looked(r, s, rc, t, gm, FALSE)
    <3>1. FALSE \in BOOLEAN
      OBVIOUS
    <3>2. QED BY ONLY <2>2, <2>3, <3>1, Zenon DEF Looked
  <2>8. PrintHolds(r, o, s, rc, ms, tm, t, gm, FALSE)
    BY <1>7, <1>8, <2>4, <2>5, <2>6, <2>7, Zenon DEF PrintHolds, Typed
  <2>9. /\ k.ready["main"] = gm /\ k.ready["isr"] = FALSE /\ k.todo["main"] = tm /\ k.todo["isr"] = t
    BY <1>6, <1>10
  <2>10. IsPrint(k)
    BY ONLY <1>5, <2>8, <2>9, Zenon DEF IsPrint
  <2>11. QED BY <1>4, <2>10, Zenon
<1>11. QED BY <1>9, <1>10 DEF Who

LEMMA PrintKeepsBreak ==
  ASSUME IsPrint(lg), BreakIn
  PROVE  IsPrint(lg')
<1>1. PICK rm, ot, ls, rc, ms, tm, ti, gm, gi :
        /\ rm = lg.room /\ ot = lg.out /\ ls = lg.lost /\ rc = lg.races /\ ms = lg.messages
        /\ tm = lg.todo["main"] /\ ti = lg.todo["isr"] /\ gm = lg.ready["main"] /\ gi = lg.ready["isr"]
  OBVIOUS
<1>2. PrintHolds(rm, ot, ls, rc, ms, tm, ti, gm, gi) /\ Shape(lg) /\ lg.job = "print"
  BY <1>1, Zenon DEF IsPrint
<1>3. PICK m, c : m = ms + 1 /\ c = IF gm THEN rc + 1 ELSE rc
  OBVIOUS
<1>4. PICK k : k = lg' /\ k = [lg EXCEPT !.todo.isr = IsrText, !.messages = m, !.races = c]
  <2>1. lg' = [lg EXCEPT !.todo.isr = IsrText, !.messages = m, !.races = c]
    BY <1>1, <1>3 DEF BreakIn
  <2>2. QED BY <2>1, Zenon
<1>5. /\ Shape(k) /\ k.room = rm /\ k.out = ot /\ k.lost = ls /\ k.races = c /\ k.messages = m
      /\ k.todo = [lg.todo EXCEPT !["isr"] = IsrText] /\ k.ready["main"] = gm /\ k.ready["isr"] = gi /\ k.job = "print"
  <2>1. /\ Shape(k) /\ k.room = lg.room /\ k.out = lg.out /\ k.lost = lg.lost /\ k.races = c
        /\ k.messages = m /\ k.todo = [lg.todo EXCEPT !["isr"] = IsrText] /\ k.ready = lg.ready
        /\ k.job = lg.job
    BY <1>2, <1>4 DEF Shape, Fields, Who
  <2>2. QED BY ONLY <1>1, <1>2, <2>1, Zenon
<1>6. k.todo["main"] = tm /\ k.todo["isr"] = IsrText /\ ti = <<>>
  BY <1>1, <1>2, <1>5 DEF Shape, Who, BreakIn
<1>7. /\ rm \in Nat /\ ot \in Seq(Marks) /\ ls \in Nat /\ rc \in Nat /\ ms \in Nat /\ tm \in MainRests
      /\ Accounted(ot, ls, ms, tm, ti) /\ Looked(rm, ls, rc, ti, gm, gi) /\ Within(ot, 3 - Len(tm)) /\ Ascending(ot)
  BY <1>2, Zenon DEF PrintHolds, Typed
<1>8. IsrText \in IsrRests /\ Len(IsrText) = 2 /\ IsrText # <<>> /\ Len(<<>>) = 0
  <2>1. <<"i1", "i2">> # <<>>
    OBVIOUS
  <2>2. QED BY <2>1, Tails DEF IsrText, IsrRests
<1>9. gm \in BOOLEAN /\ ls <= rc /\ gi = FALSE
  BY ONLY <1>6, <1>7, Zenon DEF Looked
<1>10. m \in Nat /\ c \in Nat /\ (gm => c = rc + 1) /\ (~gm => c = rc)
  BY ONLY <1>3, <1>7, <1>9
<1>11. Accounted(ot, ls, m, tm, IsrText)
  <2>1. PICK a, b : a = Len(ot) /\ b = Len(tm)
    OBVIOUS
  <2>2. a \in Nat /\ b \in Nat
    BY ONLY <1>7, <2>1 DEF MainRests
  <2>3. a + ls + b + 0 = 3 + 2 * ms
    BY <1>6, <1>7, <1>8, <2>1, Zenon DEF Accounted
  <2>4. a + ls + b + 2 = 3 + 2 * m
    BY ONLY <1>3, <1>7, <2>2, <2>3
  <2>5. QED BY <1>8, <2>1, <2>4, Zenon DEF Accounted
<1>12. Looked(rm, ls, c, IsrText, gm, gi)
  <2>1. ls <= c /\ (gm => ls < c)
    BY ONLY <1>7, <1>9, <1>10
  <2>2. gi \in BOOLEAN
    BY ONLY <1>7, Zenon DEF Looked
  <2>3. QED BY ONLY <1>9, <2>1, <2>2, Zenon DEF Looked
<1>13. PrintHolds(rm, ot, ls, c, m, tm, IsrText, gm, gi)
  BY <1>7, <1>8, <1>10, <1>11, <1>12, Zenon DEF PrintHolds, Typed
<1>14. IsPrint(k)
  BY ONLY <1>5, <1>6, <1>13, Zenon DEF IsPrint
<1>15. QED BY <1>4, <1>14, Zenon

LEMMA PrintKeepsRead ==
  ASSUME IsPrint(lg), HostReads
  PROVE  IsPrint(lg')
<1>1. PICK rm, ot, ls, rc, ms, tm, ti, gm, gi :
        /\ rm = lg.room /\ ot = lg.out /\ ls = lg.lost /\ rc = lg.races /\ ms = lg.messages
        /\ tm = lg.todo["main"] /\ ti = lg.todo["isr"] /\ gm = lg.ready["main"] /\ gi = lg.ready["isr"]
  OBVIOUS
<1>2. PrintHolds(rm, ot, ls, rc, ms, tm, ti, gm, gi) /\ Shape(lg) /\ lg.job = "print"
  BY <1>1, Zenon DEF IsPrint
<1>3. PICK r : r = rm + 1
  OBVIOUS
<1>4. PICK k : k = lg' /\ k = [lg EXCEPT !.room = r]
  BY <1>1, <1>3, Zenon DEF HostReads
<1>5. /\ Shape(k) /\ k.room = r /\ k.out = ot /\ k.lost = ls /\ k.races = rc /\ k.messages = ms
      /\ k.todo["main"] = tm /\ k.todo["isr"] = ti /\ k.ready["main"] = gm /\ k.ready["isr"] = gi /\ k.job = "print"
  <2>1. /\ Shape(k) /\ k.room = r /\ k.out = lg.out /\ k.lost = lg.lost /\ k.races = lg.races
        /\ k.messages = lg.messages /\ k.todo = lg.todo /\ k.ready = lg.ready /\ k.job = lg.job
    BY <1>2, <1>4 DEF Shape, Fields, Who
  <2>2. QED BY ONLY <1>1, <1>2, <2>1, Zenon
<1>6. Typed(rm, ot, ls, rc, ms, tm, ti) /\ Looked(rm, ls, rc, ti, gm, gi) /\ rm \in Nat
  BY <1>2, Zenon DEF PrintHolds, Typed
<1>7. r \in Nat /\ r > 0
  BY ONLY <1>3, <1>6
<1>8. Typed(r, ot, ls, rc, ms, tm, ti) /\ Looked(r, ls, rc, ti, gm, gi)
  BY ONLY <1>6, <1>7, Zenon DEF Typed, Looked
<1>9. PrintHolds(r, ot, ls, rc, ms, tm, ti, gm, gi)
  BY <1>2, <1>8, Zenon DEF PrintHolds
<1>10. IsPrint(k)
  BY ONLY <1>5, <1>9, Zenon DEF IsPrint
<1>11. QED BY <1>4, <1>10, Zenon

LEMMA PrintKeeps == IsPrint(lg) /\ Port => IsPrint(lg')
<1> SUFFICES ASSUME IsPrint(lg), Port PROVE IsPrint(lg')
  OBVIOUS
<1>1. CASE \E who \in {"main", "isr"} : LookRoom(who) \/ PutChar(who)
  <2>1. PICK who \in Who : LookRoom(who) \/ PutChar(who)
    BY <1>1 DEF Who
  <2>2. QED BY <2>1, PrintKeepsLook, PrintKeepsPut
<1>2. CASE BreakIn
  BY <1>2, PrintKeepsBreak
<1>3. CASE HostReads
  BY <1>3, PrintKeepsRead
<1>4. QED BY <1>1, <1>2, <1>3, Zenon DEF Port

LEMMA PrintStarts == PrintInit => IsPrint(lg)
<1> SUFFICES ASSUME PrintInit PROVE IsPrint(lg)
  OBVIOUS
<1>1. /\ lg.job = "print" /\ lg.room = LgFifo /\ lg.out = <<>> /\ lg.lost = 0 /\ lg.races = 0 /\ lg.messages = 0
      /\ lg.todo = [main |-> MainText, isr |-> <<>>] /\ lg.ready = [main |-> FALSE, isr |-> FALSE]
      /\ DOMAIN lg = {"job", "room", "out", "lost", "races", "messages", "todo", "ready"}
      /\ lg = [f \in DOMAIN lg |-> lg[f]]
  BY DEF PrintInit
<1>2. Shape(lg)
  <2>1. DOMAIN lg.todo = Who /\ lg.todo = [w \in Who |-> lg.todo[w]]
    BY <1>1 DEF Who
  <2>2. DOMAIN lg.ready = Who /\ lg.ready = [w \in Who |-> lg.ready[w]]
    BY <1>1 DEF Who
  <2>3. QED BY <1>1, <2>1, <2>2, Zenon DEF Shape, Fields
<1>3. lg.todo["main"] = MainText /\ lg.todo["isr"] = <<>> /\ lg.ready["main"] = FALSE /\ lg.ready["isr"] = FALSE
  BY <1>1
<1>4. Typed(LgFifo, <<>>, 0, 0, 0, MainText, <<>>)
  <2>1. LgFifo \in Nat /\ 0 \in Nat
    BY LgAssumption
  <2>2. <<>> \in Seq(Marks)
    OBVIOUS
  <2>3. MainText \in MainRests /\ <<>> \in IsrRests
    BY DEF MainText, MainRests, IsrRests
  <2>4. QED BY <2>1, <2>2, <2>3, Zenon DEF Typed
<1>5. Len(<<>>) = 0 /\ Len(MainText) = 3 /\ DOMAIN <<>> = {}
  BY DEF MainText
<1>6. Accounted(<<>>, 0, 0, MainText, <<>>)
  BY ONLY <1>5 DEF Accounted
<1>7. Looked(LgFifo, 0, 0, <<>>, FALSE, FALSE)
  BY DEF Looked
<1>8. \A k : Within(<<>>, k)
  BY ONLY <1>5, Zenon DEF Within
<1>9. Ascending(<<>>)
  BY ONLY <1>5, Zenon DEF Ascending
<1>10. PrintHolds(LgFifo, <<>>, 0, 0, 0, MainText, <<>>, FALSE, FALSE)
  BY ONLY <1>4, <1>6, <1>7, <1>8, <1>9, Zenon DEF PrintHolds
<1>11. QED BY ONLY <1>1, <1>2, <1>3, <1>10, Zenon DEF IsPrint

LEMMA PrintSafe == IsPrint(lg) => FewLost
<1> SUFFICES ASSUME IsPrint(lg) PROVE FewLost
  OBVIOUS
<1>1. PICK rm, ot, ls, rc, ms, tm, ti, gm, gi :
        /\ rm = lg.room /\ ot = lg.out /\ ls = lg.lost /\ rc = lg.races /\ ms = lg.messages
        /\ tm = lg.todo["main"] /\ ti = lg.todo["isr"] /\ gm = lg.ready["main"] /\ gi = lg.ready["isr"]
  OBVIOUS
<1>2. PrintHolds(rm, ot, ls, rc, ms, tm, ti, gm, gi)
  BY <1>1, Zenon DEF IsPrint
<1>3. Typed(rm, ot, ls, rc, ms, tm, ti) /\ Accounted(ot, ls, ms, tm, ti) /\ Looked(rm, ls, rc, ti, gm, gi) /\ Ascending(ot)
  BY ONLY <1>2, Zenon DEF PrintHolds
<1>4. ls <= rc
  BY ONLY <1>3, Zenon DEF Looked
<1>5. DOMAIN MainText = 1 .. 3 /\ Len(MainText) = 3
  BY DEF MainText
<1>6. \A i, j \in DOMAIN ot : \A m, n \in DOMAIN MainText :
        i < j /\ ot[i] = MainText[m] /\ ot[j] = MainText[n] => m < n
  BY ONLY <1>3, <1>5, Zenon DEF Ascending
<1>7. ASSUME tm = <<>>, ti = <<>>
      PROVE  Len(ot) + ls = 3 + 2 * ms
  <2>1. PICK a : a = Len(ot) /\ a \in Nat
    BY <1>3 DEF Typed
  <2>2. Len(<<>>) = 0
    OBVIOUS
  <2>3. ls \in Nat /\ ms \in Nat /\ a + ls + 0 + 0 = 3 + 2 * ms
    BY ONLY <1>3, <1>7, <2>1, <2>2, Zenon DEF Typed, Accounted
  <2>4. QED BY ONLY <2>1, <2>3
<1>8. lg.todo.main = tm /\ lg.todo.isr = ti
  BY <1>1
<1>9. QED BY ONLY <1>1, <1>4, <1>5, <1>6, <1>7, <1>8, Zenon DEF FewLost

-----------------------------------------------------------------------------
(* The number and the beats.                                               *)
IsNumber(l) ==
  /\ l = [job |-> "number", v |-> l.v, out |-> l.out, f |-> l.f]
  /\ l.v \in LgWords /\ l.f \in NumberFormats /\ (l.f.signed => l.f.base = 10)
  /\ l.out = <<>> \/ l.out = doIntegerPrint(l.v, l.f)

LEMMA NumberStarts == NumberInit => IsNumber(lg)
<1> SUFFICES ASSUME NumberInit PROVE IsNumber(lg)
  OBVIOUS
<1>1. PICK v \in LgWords, b \in {8, 10, 16}, s \in BOOLEAN, z \in BOOLEAN, w \in LgWidths :
        lg = [job |-> "number", v |-> v, out |-> <<>>,
              f |-> [base |-> b, signed |-> s /\ b = 10, zero |-> z, width |-> w]]
  BY DEF NumberInit
<1>2. PICK f : f = [base |-> b, signed |-> s /\ b = 10, zero |-> z, width |-> w]
  OBVIOUS
<1>3. f \in NumberFormats /\ (f.signed => f.base = 10)
  BY <1>2, LgAssumption DEF NumberFormats, Bases
<1>4. lg = [job |-> "number", v |-> v, out |-> <<>>, f |-> f]
  BY <1>1, <1>2, Zenon
<1>5. QED BY ONLY <1>3, <1>4 DEF IsNumber

LEMMA NumberKeeps == IsNumber(lg) /\ Number => IsNumber(lg')
<1> SUFFICES ASSUME IsNumber(lg), Number PROVE IsNumber(lg')
  OBVIOUS
<1>1. PICK v, f, o : v = lg.v /\ f = lg.f /\ o = doIntegerPrint(v, f)
  OBVIOUS
<1>2. lg = [job |-> "number", v |-> v, out |-> lg.out, f |-> f] /\ v \in LgWords /\ f \in NumberFormats
      /\ (f.signed => f.base = 10)
  BY <1>1, Zenon DEF IsNumber
<1>3. lg' = [lg EXCEPT !.out = o]
  BY <1>1, Zenon DEF Number
<1>4. lg' = [job |-> "number", v |-> v, out |-> o, f |-> f]
  BY ONLY <1>2, <1>3
<1>5. QED BY ONLY <1>1, <1>2, <1>4 DEF IsNumber

LEMMA NumberSafe == IsNumber(lg) => NumberRight
<1> SUFFICES ASSUME IsNumber(lg), lg.out # <<>> PROVE NumberRight
  BY DEF NumberRight
<1>1. PICK v, f, o : v = lg.v /\ f = lg.f /\ o = lg.out
  OBVIOUS
<1>2. v \in LgWords /\ f \in NumberFormats /\ (f.signed => f.base = 10) /\ o = doIntegerPrint(v, f)
  BY <1>1, Zenon DEF IsNumber
<1>3. Printed(v, f, o)
  BY <1>2, NumberPrinted
<1>4. PICK n \in 1 .. Len(o) : PrintedAt(v, f, o, n)
  BY ONLY <1>3, Zenon DEF Printed
<1>5. n \in 1 .. Len(lg.out) /\ PrintedAt(lg.v, lg.f, lg.out, n)
  BY ONLY <1>1, <1>4, Zenon
<1>6. QED BY ONLY <1>5, ZenonT(40) DEF PrintedAt, NumberRight

(***************************************************************************)
(* The echo.                                                               *)
(***************************************************************************)
\* Up to the first NUL is a beginning.
LEMMA UpToNulIs ==
  ASSUME NEW S, NEW s \in Seq(S)
  PROVE  \E k \in 0 .. Len(s) : UpToNul(s) = SubSeq(s, 1, k)
<1>1. PICK I : I = {i \in 1 .. Len(s) : s[i] = "NUL"}
  OBVIOUS
<1>2. UpToNul(s) = IF I = {} THEN s ELSE LET i == Min(I) IN IF i = 0 THEN s ELSE SubSeq(s, 1, i - 1)
  BY <1>1 DEF UpToNul, SelectInSeq
<1>3. Len(s) \in Nat
  OBVIOUS
<1>4. s = SubSeq(s, 1, Len(s))
  OBVIOUS
<1>5. CASE I = {}
  <2>1. UpToNul(s) = s
    BY <1>2, <1>5
  <2>2. Len(s) \in 0 .. Len(s)
    BY ONLY <1>3
  <2>3. QED BY <1>4, <2>1, <2>2, Zenon
<1>6. CASE I # {}
  <2>1. PICK m \in I : \A i \in I : m <= i
    <3>1. I \subseteq Nat
      BY <1>1
    <3>2. QED BY <1>6, <3>1, LeastNat
  <2>2. PICK n : n = Min(I)
    OBVIOUS
  <2>3. n \in I
    BY <2>1, <2>2 DEF Min
  <2>4. n \in 1 .. Len(s)
    BY <1>1, <2>3
  <2>5. UpToNul(s) = SubSeq(s, 1, n - 1)
    BY <1>2, <1>6, <2>2, <2>4
  <2>6. n - 1 \in 0 .. Len(s)
    BY ONLY <1>3, <2>4
  <2>7. QED BY <2>5, <2>6
<1>7. QED BY <1>5, <1>6

\* The characters of a beginning.
LEMMA Beginning ==
  ASSUME NEW S, NEW s \in Seq(S), NEW k \in 0 .. Len(s), NEW t, t = SubSeq(s, 1, k)
  PROVE  Len(t) = k /\ k \in Nat /\ DOMAIN t = 1 .. k /\ \A i \in 1 .. k : t[i] = s[i] /\ i \in 1 .. Len(s)
<1>1. Len(s) \in Nat /\ k \in Nat /\ k <= Len(s)
  OBVIOUS
<1>2. Len(t) = k /\ \A i \in 1 .. k : t[i] = s[i]
  BY <1>1
<1>3. DOMAIN t = 1 .. k
  BY <1>1
<1>4. \A i \in 1 .. k : i \in 1 .. Len(s)
  BY ONLY <1>1
<1>5. QED BY <1>1, <1>2, <1>3, <1>4, Zenon

EchoRight(text, buf) ==
  /\ Len(buf) <= ECHO_LEN + 2 /\ "EOT" \notin Range(UpToNul(buf))
  /\ \A i \in 1 .. Len(buf) - 3 : text[i] # "EOT" /\ i <= Len(UpToNul(text)) => buf[i] = text[i]
EchoOf(text, given, n) ==
  [i \in 1 .. n |-> IF i = n THEN "\n" ELSE IF i > Len(given) THEN "NUL"
                    ELSE IF given[i] = "EOT" THEN "D" ELSE given[i]]

LEMMA EchoIsRight ==
  ASSUME NEW text \in Seq(STRING), NEW n, n = EchoLength(Len(text)), ~(n < 2),
         NEW buf, buf = EchoOf(text, UpToNul(text), n) \o <<"\r", "NUL">>
  PROVE  EchoRight(text, buf)
<1>1. PICK k \in 0 .. Len(text) : UpToNul(text) = SubSeq(text, 1, k)
  BY UpToNulIs
<1>2. PICK g : g = UpToNul(text)
  OBVIOUS
<1>3. Len(g) = k /\ k \in Nat /\ \A i \in 1 .. k : g[i] = text[i] /\ i \in 1 .. Len(text)
  BY <1>1, <1>2, Beginning
<1>4. n \in Nat /\ n <= ECHO_LEN /\ n >= 2 /\ ECHO_LEN \in Nat
  BY LgAssumption DEF EchoLength
<1>5. PICK h : h = EchoOf(text, g, n)
  OBVIOUS
<1>6. \A i \in 1 .. n : h[i] = IF i = n THEN "\n" ELSE IF i > k THEN "NUL" ELSE IF g[i] = "EOT" THEN "D" ELSE g[i]
  BY <1>3, <1>5 DEF EchoOf
<1>7. \A i \in 1 .. k : text[i] \in STRING
  BY <1>3
<1>8. PICK C : C = (STRING \cup {"\n", "\r", "NUL", "D"}) \ {"EOT"}
  OBVIOUS
<1>9. \A i \in 1 .. n : h[i] \in C
  <2>1. ASSUME NEW i \in 1 .. n
        PROVE  h[i] \in C
    <3>1. CASE i = n \/ i > k
      <4>1. h[i] = "\n" \/ h[i] = "NUL"
        BY <1>6, <3>1
      <4>2. QED BY <1>8, <4>1
    <3>2. CASE i # n /\ ~(i > k)
      <4>1. i \in 1 .. k
        BY <1>3, <1>4, <3>2
      <4>2. h[i] = IF g[i] = "EOT" THEN "D" ELSE g[i]
        BY <1>6, <3>2
      <4>3. g[i] \in STRING
        BY <1>3, <1>7, <4>1
      <4>4. CASE g[i] = "EOT"
        BY <1>8, <4>2, <4>4
      <4>5. CASE g[i] # "EOT"
        BY <1>8, <4>2, <4>3, <4>5
      <4>6. QED BY <4>4, <4>5
    <3>3. QED BY <3>1, <3>2
  <2>2. QED BY <2>1, Zenon
<1>10. h \in Seq(C) /\ Len(h) = n /\ DOMAIN h = 1 .. n
  <2>1. h \in [1 .. n -> C]
    BY <1>5, <1>9 DEF EchoOf
  <2>2. QED BY ONLY <1>4, <2>1
<1>11. PICK e : e = <<"\r", "NUL">> /\ e \in Seq(C) /\ Len(e) = 2
  <2>1. "\r" \in C /\ "NUL" \in C
    BY <1>8
  <2>2. <<"\r", "NUL">> \in Seq(C)
    BY ONLY <2>1
  <2>3. Len(<<"\r", "NUL">>) = 2
    OBVIOUS
  <2>4. QED BY ONLY <2>2, <2>3, Zenon
<1>12. buf = h \o e
  BY <1>2, <1>5, <1>11, Zenon
<1>13. h \o e \in Seq(C) /\ Len(h \o e) = n + 2 /\ \A i \in 1 .. n : (h \o e)[i] = h[i]
  BY ONLY <1>4, <1>10, <1>11
<1>14. buf \in Seq(C) /\ Len(buf) = n + 2 /\ \A i \in 1 .. n : buf[i] = h[i]
  BY ONLY <1>12, <1>13, Zenon
<1>15. "EOT" \notin Range(UpToNul(buf))
  <2>1. PICK j \in 0 .. Len(buf) : UpToNul(buf) = SubSeq(buf, 1, j)
    BY <1>14, UpToNulIs
  <2>2. PICK u : u = UpToNul(buf)
    OBVIOUS
  <2>3. DOMAIN u = 1 .. j /\ \A i \in 1 .. j : u[i] = buf[i] /\ i \in 1 .. Len(buf)
    BY <1>14, <2>1, <2>2, Beginning
  <2>4. \A i \in 1 .. j : u[i] \in C
    <3>1. \A i \in 1 .. Len(buf) : buf[i] \in C
      BY ONLY <1>14
    <3>2. QED BY ONLY <2>3, <3>1, Zenon
  <2>5. QED BY <1>8, <2>2, <2>3, <2>4 DEF Range
<1>16. ASSUME NEW i \in 1 .. Len(buf) - 3, text[i] # "EOT", i <= Len(UpToNul(text))
       PROVE  buf[i] = text[i]
  <2>1. i \in 1 .. n /\ i # n /\ i \in 1 .. k
    BY <1>2, <1>3, <1>4, <1>14, <1>16
  <2>2. ~(i > k)
    BY <1>3, <2>1
  <2>3. h[i] = g[i] /\ g[i] = text[i]
    BY <1>3, <1>6, <1>16, <2>1, <2>2, Zenon
  <2>4. QED BY <1>14, <2>1, <2>3, Zenon
<1>17. Len(buf) <= ECHO_LEN + 2
  BY ONLY <1>4, <1>14
<1>18. QED BY <1>15, <1>16, <1>17, Zenon DEF EchoRight

IsEcho(l) == /\ l = [job |-> "echo", text |-> l.text, buf |-> l.buf, done |-> l.done]
             /\ l.text \in Seq(STRING) /\ (l.buf = <<>> \/ EchoRight(l.text, l.buf))

LEMMA EchoStarts == EchoInit => IsEcho(lg)
<1> SUFFICES ASSUME EchoInit PROVE IsEcho(lg)
  OBVIOUS
<1>1. PICK t \in LgTexts : lg = [job |-> "echo", text |-> t, buf |-> <<>>, done |-> FALSE]
  BY DEF EchoInit
<1>2. t \in Seq(STRING)
  BY LgAssumption
<1>3. QED BY <1>1, <1>2, Zenon DEF IsEcho

LEMMA EchoKeeps == IsEcho(lg) /\ alt_log_write => IsEcho(lg')
<1> SUFFICES ASSUME IsEcho(lg), alt_log_write PROVE IsEcho(lg')
  OBVIOUS
<1>1. PICK t, n : t = lg.text /\ n = EchoLength(Len(t))
  OBVIOUS
<1>2. PICK b : b = IF n < 2 THEN lg.buf ELSE EchoOf(t, UpToNul(t), n) \o <<"\r", "NUL">>
  OBVIOUS
<1>3. lg = [job |-> "echo", text |-> t, buf |-> lg.buf, done |-> lg.done] /\ t \in Seq(STRING)
      /\ (lg.buf = <<>> \/ EchoRight(t, lg.buf))
  BY <1>1, Zenon DEF IsEcho
<1>4. lg' = [lg EXCEPT !.done = TRUE, !.buf = b]
  BY <1>1, <1>2, Zenon DEF alt_log_write, EchoOf
<1>5. lg' = [job |-> "echo", text |-> t, buf |-> b, done |-> TRUE]
  <2>1. PICK l, o, d : l = lg /\ o = lg.buf /\ d = lg.done
    OBVIOUS
  <2>2. l = [job |-> "echo", text |-> t, buf |-> o, done |-> d]
    BY ONLY <1>3, <2>1, Zenon
  <2>3. [l EXCEPT !.done = TRUE, !.buf = b] = [job |-> "echo", text |-> t, buf |-> b, done |-> TRUE]
    <3>1. PICK m, j, y : m = [l EXCEPT !.done = y] /\ j = "echo" /\ y = TRUE
      OBVIOUS
    <3>2. l = [job |-> j, text |-> t, buf |-> o, done |-> d]
      BY ONLY <2>2, <3>1, Zenon
    <3>3. m = [job |-> j, text |-> t, buf |-> o, done |-> y]
      <4>1. m = [l EXCEPT !.done = y]
        BY <3>1
      <4>2. QED BY ONLY <3>2, <4>1
    <3>4. [m EXCEPT !.buf = b] = [job |-> j, text |-> t, buf |-> b, done |-> y]
      BY ONLY <3>3
    <3>5. [l EXCEPT !.done = y, !.buf = b] = [[l EXCEPT !.done = y] EXCEPT !.buf = b]
      OBVIOUS
    <3>6. QED BY ONLY <3>1, <3>4, <3>5, Zenon
  <2>4. QED BY ONLY <1>4, <2>1, <2>3, Zenon
<1>6. b = <<>> \/ EchoRight(t, b)
  <2>1. CASE n < 2
    BY <1>2, <1>3, <2>1, Zenon
  <2>2. CASE ~(n < 2)
    BY <1>1, <1>2, <1>3, <2>2, EchoIsRight
  <2>3. QED BY <2>1, <2>2
<1>7. QED BY ONLY <1>3, <1>5, <1>6, Zenon DEF IsEcho

LEMMA EchoIsSafe == IsEcho(lg) => EchoSafe
BY Zenon DEF IsEcho, EchoRight, EchoSafe

(***************************************************************************)
(* The beats.                                                              *)
(***************************************************************************)
ClockFields == {"job", "on", "count", "sec", "ticks", "heard", "reporting"}
BeatsIn(sec, count, heard) == /\ sec \in Nat /\ count \in Nat /\ heard \in Nat
                              /\ sec * (INTERVAL + 1) + count = heard /\ count <= INTERVAL
IsClock(l) == /\ DOMAIN l = ClockFields /\ l = [f \in ClockFields |-> l[f]] /\ l.job = "clock"
              /\ BeatsIn(l.sec, l.count, l.heard)

LEMMA ClockStarts == ClockInit => IsClock(lg)
<1> SUFFICES ASSUME ClockInit PROVE IsClock(lg)
  OBVIOUS
<1>1. /\ lg.job = "clock" /\ lg.sec = 0 /\ lg.count = 0 /\ lg.heard = 0
      /\ DOMAIN lg = {"job", "on", "count", "sec", "ticks", "heard", "reporting"} /\ lg = [f \in DOMAIN lg |-> lg[f]]
  BY DEF ClockInit
<1>2. BeatsIn(0, 0, 0)
  BY LgAssumption DEF BeatsIn
<1>3. QED BY ONLY <1>1, <1>2, Zenon DEF IsClock, ClockFields

\* What is not a beat.
LEMMA ClockAside ==
  ASSUME NEW l, IsClock(l), NEW x
  PROVE  IsClock([l EXCEPT !.ticks = x]) /\ IsClock([l EXCEPT !.reporting = x]) /\ IsClock([l EXCEPT !.on = x])
<1>1. DOMAIN l = ClockFields /\ l = [f \in ClockFields |-> l[f]] /\ l.job = "clock"
  BY Zenon DEF IsClock
<1>2. ASSUME NEW a \in {"ticks", "reporting", "on"}, NEW k, k = [l EXCEPT ![a] = x]
      PROVE  IsClock(k)
  <2>1. /\ DOMAIN k = ClockFields /\ k = [f \in ClockFields |-> k[f]] /\ k.job = l.job
        /\ k.sec = l.sec /\ k.count = l.count /\ k.heard = l.heard
    BY <1>1, <1>2 DEF ClockFields
  <2>2. BeatsIn(l.sec, l.count, l.heard)
    BY Zenon DEF IsClock
  <2>3. QED BY ONLY <1>1, <2>1, <2>2, Zenon DEF IsClock
<1>3. IsClock([l EXCEPT !["ticks"] = x]) /\ IsClock([l EXCEPT !["reporting"] = x]) /\ IsClock([l EXCEPT !["on"] = x])
  BY <1>2
<1>4. QED BY <1>3

LEMMA Beating ==
  ASSUME NEW s, NEW c, NEW h, BeatsIn(s, c, h)
  PROVE  IF Beats(c) THEN BeatsIn(s + 1, 0, h + 1) ELSE BeatsIn(s, c + 1, h + 1)
<1>1. PICK n, p, q : n = INTERVAL /\ p = s * (n + 1) /\ q = (s + 1) * (n + 1)
  OBVIOUS
<1>2. n \in Nat
  BY <1>1, LgAssumption
<1>3. s \in Nat /\ c \in Nat /\ h \in Nat /\ p + c = h /\ c <= n
  BY <1>1, Zenon DEF BeatsIn
<1>4. p \in Nat
  BY ONLY <1>1, <1>2, <1>3
<1>5. q = p + (n + 1)
  BY ONLY <1>1, <1>2, <1>3
<1>6. CASE Beats(c)
  <2>1. c + 1 > n
    BY <1>1, <1>6 DEF Beats
  <2>2. c = n
    BY ONLY <1>2, <1>3, <2>1
  <2>3. s + 1 \in Nat /\ 0 \in Nat /\ h + 1 \in Nat /\ q + 0 = h + 1 /\ 0 <= n
    BY ONLY <1>2, <1>3, <1>4, <1>5, <2>2
  <2>4. BeatsIn(s + 1, 0, h + 1)
    BY ONLY <1>1, <2>3, Zenon DEF BeatsIn
  <2>5. QED BY <1>6, <2>4, Zenon
<1>7. CASE ~Beats(c)
  <2>1. ~(c + 1 > n)
    BY <1>1, <1>7 DEF Beats
  <2>2. s \in Nat /\ c + 1 \in Nat /\ h + 1 \in Nat /\ p + (c + 1) = h + 1 /\ c + 1 <= n
    BY ONLY <1>2, <1>3, <1>4, <2>1
  <2>3. BeatsIn(s, c + 1, h + 1)
    BY ONLY <1>1, <2>2, Zenon DEF BeatsIn
  <2>4. QED BY <1>7, <2>3, Zenon
<1>8. QED BY <1>6, <1>7, Zenon

LEMMA ClockBeats == IsClock(lg) => IsClock(alt_log_system_clock)
<1> SUFFICES ASSUME IsClock(lg), lg.on PROVE IsClock(alt_log_system_clock)
  BY DEF alt_log_system_clock
<1>1. PICK s, c, h : s = lg.sec /\ c = lg.count /\ h = lg.heard
  OBVIOUS
<1>2. DOMAIN lg = ClockFields /\ lg = [f \in ClockFields |-> lg[f]] /\ lg.job = "clock" /\ BeatsIn(s, c, h)
  BY <1>1, Zenon DEF IsClock
<1>3. IF Beats(c) THEN BeatsIn(s + 1, 0, h + 1) ELSE BeatsIn(s, c + 1, h + 1)
  BY <1>2, Beating
<1>4. CASE Beats(c)
  <2>1. PICK k, x, y : x = s + 1 /\ y = h + 1 /\ k = [lg EXCEPT !.count = 0, !.sec = x, !.heard = y]
    OBVIOUS
  <2>2. alt_log_system_clock = k
    BY <1>1, <1>4, <2>1 DEF alt_log_system_clock
  <2>3. /\ DOMAIN k = ClockFields /\ k = [f \in ClockFields |-> k[f]] /\ k.job = "clock"
        /\ k.count = 0 /\ k.sec = x /\ k.heard = y
    BY <1>2, <2>1 DEF ClockFields
  <2>4. BeatsIn(x, 0, y)
    BY <1>3, <1>4, <2>1, Zenon
  <2>5. IsClock(k)
    BY ONLY <2>3, <2>4, Zenon DEF IsClock
  <2>6. QED BY <2>2, <2>5, Zenon
<1>5. CASE ~Beats(c)
  <2>1. PICK k, x, y : x = c + 1 /\ y = h + 1 /\ k = [lg EXCEPT !.count = x, !.heard = y]
    OBVIOUS
  <2>2. alt_log_system_clock = k
    BY <1>1, <1>5, <2>1 DEF alt_log_system_clock
  <2>3. /\ DOMAIN k = ClockFields /\ k = [f \in ClockFields |-> k[f]] /\ k.job = "clock"
        /\ k.count = x /\ k.sec = s /\ k.heard = y
    BY <1>1, <1>2, <2>1 DEF ClockFields
  <2>4. BeatsIn(s, x, y)
    BY <1>3, <1>5, <2>1, Zenon
  <2>5. IsClock(k)
    BY ONLY <2>3, <2>4, Zenon DEF IsClock
  <2>6. QED BY <2>2, <2>5, Zenon
<1>6. QED BY <1>4, <1>5

LEMMA ClockKeeps == IsClock(lg) /\ (Tick \/ TurnFlag) => IsClock(lg')
<1> SUFFICES ASSUME IsClock(lg), Tick \/ TurnFlag PROVE IsClock(lg')
  OBVIOUS
<1>1. CASE Tick
  <2>1. PICK c : c = alt_log_system_clock /\ IsClock(c)
    BY ClockBeats
  <2>2. PICK l : l = [c EXCEPT !.ticks = c.ticks + 1]
    OBVIOUS
  <2>3. IsClock(l)
    BY <2>1, <2>2, ClockAside
  <2>4. PICK r : r = [l EXCEPT !.reporting = FALSE]
    OBVIOUS
  <2>5. IsClock(r)
    BY <2>3, <2>4, ClockAside
  <2>6. lg' = l \/ lg' = r
    BY <1>1, <2>1, <2>2, <2>4 DEF Tick, altera_avalon_jtag_uart_report_log
  <2>7. QED BY <2>3, <2>5, <2>6, Zenon
<1>2. CASE TurnFlag
  <2>1. PICK x : x = ~lg.on
    OBVIOUS
  <2>2. lg' = [lg EXCEPT !.on = x]
    BY <1>2, <2>1 DEF TurnFlag
  <2>3. QED BY <2>2, ClockAside
<1>3. QED BY <1>1, <1>2

LEMMA ClockIsSafe == IsClock(lg) => BeatsInTime
BY Zenon DEF IsClock, BeatsIn, BeatsInTime

LEMMA LevelsAreRight == LevelsGrow
<1>1. PICK A, B, C, D, E, F :
        /\ A = <<"boot", BOOT_ON>> /\ B = <<"clock", SYS_CLK_ON>> /\ C = <<"write", WRITE_ON>>
        /\ D = <<"alarm", JTAG_UART_ALARM_ON>> /\ E = <<"startup", JTAG_UART_STARTUP_INFO_ON>>
        /\ F = <<"isr", JTAG_UART_ISR_ON>>
  OBVIOUS
<1>2. \A n : Flags(n) = {f \in {A, B, C, D, E, F} : n \in f[2]}
  BY <1>1, Zenon DEF Flags
<1>3. A[2] = BOOT_ON /\ B[2] = SYS_CLK_ON /\ C[2] = WRITE_ON /\ D[2] = JTAG_UART_ALARM_ON
      /\ E[2] = JTAG_UART_STARTUP_INFO_ON /\ F[2] = JTAG_UART_ISR_ON
  BY <1>1
<1>4. PICK ons : ons = {BOOT_ON, SYS_CLK_ON, WRITE_ON, JTAG_UART_ALARM_ON, JTAG_UART_STARTUP_INFO_ON, JTAG_UART_ISR_ON}
  OBVIOUS
<1>5. \A f \in {A, B, C, D, E, F} : f[2] \in ons
  BY <1>3, <1>4
<1>6. \A s \in ons : -1 \notin s
  BY <1>4 DEF BOOT_ON, SYS_CLK_ON, WRITE_ON, JTAG_UART_ALARM_ON, JTAG_UART_STARTUP_INFO_ON, JTAG_UART_ISR_ON
<1>7. \A s \in ons : \A a, b \in -1 .. 3 : a <= b /\ a \in s => b \in s
  <2>1. ASSUME NEW a \in -1 .. 3, NEW b \in -1 .. 3, a <= b
        PROVE  \A n \in 0 .. 3 : a \in n .. 3 => b \in n .. 3
    BY ONLY <2>1
  <2>2. /\ BOOT_ON = 0 .. 3 /\ SYS_CLK_ON = 1 .. 3 /\ WRITE_ON = 2 .. 3 /\ JTAG_UART_ALARM_ON = 2 .. 3
        /\ JTAG_UART_STARTUP_INFO_ON = 1 .. 3 /\ JTAG_UART_ISR_ON = 3 .. 3
    BY DEF BOOT_ON, SYS_CLK_ON, WRITE_ON, JTAG_UART_ALARM_ON, JTAG_UART_STARTUP_INFO_ON, JTAG_UART_ISR_ON
  <2>3. \A s \in ons : \E n \in 0 .. 3 : s = n .. 3
    <3>1. 0 \in 0 .. 3 /\ 1 \in 0 .. 3 /\ 2 \in 0 .. 3 /\ 3 \in 0 .. 3
      OBVIOUS
    <3>2. QED BY ONLY <1>4, <2>2, <3>1, Zenon
  <2>4. QED BY ONLY <2>1, <2>3, Zenon
<1>8. Flags(-1) = {}
  BY <1>2, <1>5, <1>6, Zenon
<1>9. \A a, b \in -1 .. 3 : a <= b => Flags(a) \subseteq Flags(b)
  BY <1>2, <1>5, <1>7, Zenon
<1>10. QED BY <1>8, <1>9, Zenon DEF LevelsGrow

LEMMA FormatStarts == FormatInit => IsFormat(lg)
<1> SUFFICES ASSUME FormatInit PROVE IsFormat(lg)
  OBVIOUS
<1>1. PICK w \in LgFormats :
        lg = [job |-> "format", w |-> w, state |-> "chars", fmt |-> NoFormat, out |-> <<>>,
              alt |-> "chars", altOut |-> <<>>, odd |-> FALSE]
  BY DEF FormatInit
<1>2. InStep(<<>>, "chars", NoFormat, <<>>, "chars")
  BY DEF InStep
<1>3. QED BY <1>1, <1>2 DEF IsFormat

LEMMA FormatSafe == IsFormat(lg) => PrintersAgree
BY Zenon DEF IsFormat, InStep, PrintersAgree

LgInv == IsNumber(lg) \/ IsFormat(lg) \/ IsPrint(lg) \/ IsEcho(lg) \/ IsClock(lg)

LEMMA LgInvInit == LgInit => LgInv
BY NumberStarts, FormatStarts, PrintStarts, EchoStarts, ClockStarts, Zenon DEF LgInit, LgInv

\* Each job has its own steps.
LEMMA JobsAre ==
  /\ \A l : /\ IsNumber(l) => l.job = "number"
            /\ IsFormat(l) => l.job = "format"
            /\ IsPrint(l) => l.job = "print"
            /\ IsEcho(l) => l.job = "echo"
            /\ IsClock(l) => l.job = "clock"
  /\ Number => lg.job = "number"
  /\ Format => lg.job = "format"
  /\ Port => lg.job = "print"
  /\ alt_log_write => lg.job = "echo"
  /\ Tick \/ TurnFlag => lg.job = "clock"
<1>1. ASSUME NEW l, IsNumber(l) PROVE l.job = "number"
  <2>1. PICK v, o, f : l = [job |-> "number", v |-> v, out |-> o, f |-> f]
    BY <1>1, Zenon DEF IsNumber
  <2>2. QED BY ONLY <2>1
<1>2. ASSUME NEW l, IsFormat(l) PROVE l.job = "format"
  <2>1. PICK a, b, c, d, e, f, g :
          l = [job |-> "format", w |-> a, state |-> b, fmt |-> c, out |-> d, alt |-> e, altOut |-> f, odd |-> g]
    BY <1>2, Zenon DEF IsFormat
  <2>2. QED BY ONLY <2>1
<1>3. \A l : IsPrint(l) => l.job = "print"
  BY Zenon DEF IsPrint
<1>4. ASSUME NEW l, IsEcho(l) PROVE l.job = "echo"
  <2>1. PICK t, b, d : l = [job |-> "echo", text |-> t, buf |-> b, done |-> d]
    BY <1>4, Zenon DEF IsEcho
  <2>2. QED BY ONLY <2>1
<1>5. \A l : IsClock(l) => l.job = "clock"
  BY Zenon DEF IsClock
<1>6. Number => lg.job = "number"
  BY Zenon DEF Number
<1>7. Format => lg.job = "format"
  BY Zenon DEF Format
<1>8. Port => lg.job = "print"
  BY Zenon DEF Port, LookRoom, PutChar, Runs, BreakIn, HostReads
<1>9. alt_log_write => lg.job = "echo"
  BY Zenon DEF alt_log_write
<1>10. Tick \/ TurnFlag => lg.job = "clock"
  BY Zenon DEF Tick, TurnFlag
<1>11. QED BY <1>1, <1>2, <1>3, <1>4, <1>5, <1>6, <1>7, <1>8, <1>9, <1>10, Zenon

LEMMA JobsApart ==
  /\ \A a, b \in {"number", "format", "print", "echo", "clock"} :
       lg.job = a /\ lg.job = b => a = b
  /\ "number" # "format" /\ "number" # "print" /\ "number" # "echo" /\ "number" # "clock"
  /\ "format" # "print" /\ "format" # "echo" /\ "format" # "clock"
  /\ "print" # "echo" /\ "print" # "clock" /\ "echo" # "clock"
OBVIOUS

LEMMA LgInvStep == LgInv /\ [LgNext]_lg => LgInv'
<1> SUFFICES ASSUME LgInv, [LgNext]_lg PROVE LgInv'
  OBVIOUS
<1>1. CASE Number
  <2>1. IsNumber(lg)
    BY <1>1, JobsAre, JobsApart, Zenon DEF LgInv
  <2>2. QED BY <1>1, <2>1, NumberKeeps, Zenon DEF LgInv
<1>2. CASE Format
  <2>1. IsFormat(lg)
    BY <1>2, JobsAre, JobsApart, Zenon DEF LgInv
  <2>2. QED BY <1>2, <2>1, FormatKeeps, Zenon DEF LgInv
<1>3. CASE Port
  <2>1. IsPrint(lg)
    BY <1>3, JobsAre, JobsApart, Zenon DEF LgInv
  <2>2. QED BY <1>3, <2>1, PrintKeeps, Zenon DEF LgInv
<1>4. CASE alt_log_write
  <2>1. IsEcho(lg)
    BY <1>4, JobsAre, JobsApart, Zenon DEF LgInv
  <2>2. QED BY <1>4, <2>1, EchoKeeps, Zenon DEF LgInv
<1>5. CASE Tick \/ TurnFlag
  <2>1. IsClock(lg)
    BY <1>5, JobsAre, JobsApart, Zenon DEF LgInv
  <2>2. QED BY <1>5, <2>1, ClockKeeps, Zenon DEF LgInv
<1>6. CASE UNCHANGED lg
  <2>1. lg' = lg
    BY <1>6
  <2>2. QED BY <2>1 DEF LgInv
<1>7. QED BY <1>1, <1>2, <1>3, <1>4, <1>5, <1>6, Zenon DEF LgNext

LEMMA LgInvSafe == LgInv => LgSafe
<1> SUFFICES ASSUME LgInv PROVE LgSafe
  OBVIOUS
<1>1. lg.job = "number" => IsNumber(lg)
  BY JobsAre, JobsApart, Zenon DEF LgInv
<1>2. lg.job = "format" => IsFormat(lg)
  BY JobsAre, JobsApart, Zenon DEF LgInv
<1>3. lg.job = "print" => IsPrint(lg)
  BY JobsAre, JobsApart, Zenon DEF LgInv
<1>4. lg.job = "echo" => IsEcho(lg)
  BY JobsAre, JobsApart, Zenon DEF LgInv
<1>5. lg.job = "clock" => IsClock(lg)
  BY JobsAre, JobsApart, Zenon DEF LgInv
<1>6. NumberRight
  BY <1>1, NumberSafe, Zenon DEF NumberRight
<1>7. PrintersAgree
  BY <1>2, FormatSafe, Zenon DEF PrintersAgree
<1>8. FewLost
  BY <1>3, PrintSafe, Zenon DEF FewLost
<1>9. EchoSafe
  BY <1>4, EchoIsSafe, Zenon DEF EchoSafe
<1>10. BeatsInTime
  BY <1>5, ClockIsSafe, Zenon DEF BeatsInTime
<1>11. QED BY <1>6, <1>7, <1>8, <1>9, <1>10, LevelsAreRight, Zenon DEF LgSafe

\* Numbers and formats come out as they are, few characters are lost, the echo
\* stays in its buffer and the beats come in time (alt_log_printf.c).
THEOREM LogIsTrue == LgSpec => []LgSafe
BY LgInvInit, LgInvStep, LgInvSafe, PTL DEF LgSpec

-----------------------------------------------------------------------------
(* Both among the other parts of the library.                              *)
ProfileAndLogInv == HpInv /\ (part = "log" => LgInv)

LEMMA ProfileAndLogInit == Init => ProfileAndLogInv
<1>1. Init => HpInit
  BY Zenon DEF Init
<1>2. Init => (part = "log" => LgInit)
  BY Zenon DEF Init
<1>3. QED BY <1>1, <1>2, HpInvInit, LgInvInit, Zenon DEF ProfileAndLogInv

LEMMA ProfileAndLogStep == ProfileAndLogInv /\ [Next]_vars => ProfileAndLogInv'
<1> SUFFICES ASSUME ProfileAndLogInv, [Next]_vars PROVE ProfileAndLogInv'
  OBVIOUS
<1>1. part' = part
  BY Zenon DEF Next, vars, Files, Clock, Profile, Io, Devices, Log, Caches, Start
<1>2. [HpNextStep]_hpVars
  BY Zenon DEF Next, vars, Files, Clock, Profile, Io, Devices, Log, Caches, Start
<1>3. [LgNext]_lg
  BY Zenon DEF Next, vars, Files, Clock, Profile, Io, Devices, Log, Caches, Start
<1>4. HpInv'
  BY <1>2, HpInvStep, Zenon DEF ProfileAndLogInv
<1>5. (part = "log" => LgInv)'
  BY <1>1, <1>3, LgInvStep, Zenon DEF ProfileAndLogInv
<1>6. QED BY <1>4, <1>5, Zenon DEF ProfileAndLogInv

\* The profiler keeps its counts and its memory, and the log prints what it was
\* given, beside any other part of the library (alt_mcount.S, alt_log_printf.c).
THEOREM ProfileAndLogAreSafe == Spec => []ProfileAndLogSafe
<1>1. ProfileAndLogInv => ProfileAndLogSafe
  BY HpInvSafe, LgInvSafe, Zenon DEF ProfileAndLogInv, ProfileAndLogSafe
<1>2. QED BY <1>1, ProfileAndLogInit, ProfileAndLogStep, PTL DEF Spec
=============================================================================
