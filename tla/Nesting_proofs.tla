--------------------------- MODULE Nesting_proofs ---------------------------
(***************************************************************************)
(* What holds of containers in containers and of sums over what they hold, *)
(* for any things and any depth.                                           *)
(*                                                                         *)
(* Around is a least fixed point, so its lemmas need no induction: a closed*)
(* set has all of it.  Sums are defined by recursion on finite sets, and   *)
(* what they do is proved by induction on the size of the set.  That       *)
(* induction is had from the library's theorem that a set with a well-     *)
(* founded relation has a least element in each of its subsets (WFMin),    *)
(* which speaks of sets and takes no operator.                             *)
(***************************************************************************)
EXTENDS Nesting, Integers, FiniteSets, FiniteSetsExt, FiniteSetTheorems,
        WellFoundedInduction, TLAPS

-----------------------------------------------------------------------------
(* Containers in containers.                                               *)

\* S has what i lies in, and what its members lie in.
ClosedFrom(l, S, i) == \A j \in S \cup {i} : l[j] \in Container => l[j] \in S

\* No container lies in itself: every set of containers has one that lies in none of
\* the set.
Grounded(l) == \A S \in SUBSET Container : S # {} => \E c \in S : l[c] \notin S

\* Around is the least closed set of containers ...
LEMMA AroundIsLeast ==
    ASSUME NEW l, NEW i, NEW S \in SUBSET Container, ClosedFrom(l, S, i)
    PROVE  Around(l, i) \subseteq S
<1> SUFFICES ASSUME NEW c \in Around(l, i), c \notin S PROVE FALSE
  OBVIOUS
<1>1. S \in SUBSET (Container \ {c})
  OBVIOUS
<1>2. PICK j \in S \cup {i} : l[j] \in Container \ S
  BY <1>1 DEF Around
<1> QED BY <1>2 DEF ClosedFrom

\* ... and is one itself.
LEMMA AroundIsClosed ==
    ASSUME NEW l, NEW i
    PROVE  /\ Around(l, i) \in SUBSET Container
           /\ ClosedFrom(l, Around(l, i), i)
<1>1. Around(l, i) \in SUBSET Container
  BY DEF Around
<1>2. ASSUME NEW j \in Around(l, i) \cup {i}, l[j] \in Container
      PROVE  l[j] \in Around(l, i)
  <2>1. ASSUME NEW S \in SUBSET (Container \ {l[j]}),
               \A k \in S \cup {i} : l[k] \notin Container \ S
        PROVE  FALSE
    <3>1. ClosedFrom(l, S, i)
      BY <2>1 DEF ClosedFrom
    <3>2. Around(l, i) \subseteq S
      BY <3>1, AroundIsLeast
    <3> QED BY <1>2, <2>1, <3>2
  <2> QED BY <1>2, <2>1 DEF Around
<1> QED BY <1>1, <1>2 DEF ClosedFrom

\* What is around i is what i lies in and what is around that.
LEMMA AroundUnfolds ==
    ASSUME NEW l, NEW i
    PROVE  Around(l, i) = IF l[i] \in Container THEN {l[i]} \cup Around(l, l[i]) ELSE {}
<1>1. CASE l[i] \in Container
  <2>1. ClosedFrom(l, {l[i]} \cup Around(l, l[i]), i)
    BY AroundIsClosed DEF ClosedFrom
  <2>2. Around(l, i) \subseteq {l[i]} \cup Around(l, l[i])
    BY <1>1, <2>1, AroundIsLeast, AroundIsClosed
  <2>3. l[i] \in Around(l, i) /\ ClosedFrom(l, Around(l, i), l[i])
    BY <1>1, AroundIsClosed DEF ClosedFrom
  <2>4. Around(l, l[i]) \subseteq Around(l, i)
    BY <2>3, AroundIsLeast, AroundIsClosed
  <2> QED BY <1>1, <2>2, <2>3, <2>4
<1>2. CASE l[i] \notin Container
  <2>1. ClosedFrom(l, {}, i)
    BY <1>2 DEF ClosedFrom
  <2> QED BY <1>2, <2>1, AroundIsLeast
<1> QED BY <1>1, <1>2

\* What is around something around i is around i.
LEMMA AroundIsTransitive ==
    ASSUME NEW l, NEW i, NEW c \in Around(l, i)
    PROVE  Around(l, c) \subseteq Around(l, i)
<1>1. ClosedFrom(l, Around(l, i), c)
  BY AroundIsClosed DEF ClosedFrom
<1> QED BY <1>1, AroundIsLeast, AroundIsClosed

\* Of two containers around the same thing one is around the other.
LEMMA AroundIsAChain ==
    ASSUME NEW l, NEW i, NEW a \in {i} \cup Around(l, i), NEW b \in {i} \cup Around(l, i)
    PROVE  a = b \/ a \in Around(l, b) \/ b \in Around(l, a)
<1> DEFINE S == {c \in Container : a = c \/ a \in Around(l, c) \/ c \in Around(l, a)}
<1>1. ASSUME NEW j \in S \cup {i}, l[j] \in Container
      PROVE  l[j] \in S
  <2>1. CASE a \in Around(l, j)
    BY <1>1, <2>1, AroundUnfolds
  <2>2. CASE a = j \/ j \in Around(l, a)
    <3>1. l[j] \in Around(l, a)
      BY <1>1, <2>2, AroundIsClosed DEF ClosedFrom
    <3> QED BY <1>1, <3>1
  <2> QED BY <2>1, <2>2
<1>2. S \in SUBSET Container /\ ClosedFrom(l, S, i)
  BY <1>1 DEF ClosedFrom
<1> HIDE DEF S
<1>3. Around(l, i) \subseteq S
  BY <1>2, AroundIsLeast
<1> USE DEF S
<1>4. \A c \in {i} \cup Around(l, i) : a = c \/ a \in Around(l, c) \/ c \in Around(l, a)
  BY <1>3
<1> QED BY <1>4

\* In a grounded world nothing lies in itself, at any depth.
LEMMA NothingAroundItself ==
    ASSUME NEW l, Grounded(l), NEW c
    PROVE  c \notin Around(l, c)
<1> DEFINE S == {d \in Container : c \in Around(l, d)}
<1>1. SUFFICES ASSUME c \in Around(l, c) PROVE FALSE
  OBVIOUS
<1>2. c \in S
  BY <1>1, AroundIsClosed
<1>3. PICK d \in S : l[d] \notin S
  BY <1>2 DEF Grounded
<1>4. l[d] \in Container /\ (c = l[d] \/ c \in Around(l, l[d]))
  BY <1>3, AroundUnfolds
<1> QED BY <1>1, <1>3, <1>4

-----------------------------------------------------------------------------
(* Where a thing is in the end.                                            *)

\* Only one thing in or around i lies in no container ...
LEMMA TopIsUnique ==
    ASSUME NEW l, NEW i, NEW a \in {i} \cup Around(l, i), NEW b \in {i} \cup Around(l, i),
           l[a] \notin Container, l[b] \notin Container
    PROVE  a = b
<1>1. Around(l, a) = {} /\ Around(l, b) = {}
  BY AroundUnfolds
<1> QED BY <1>1, AroundIsAChain

\* ... and in a grounded world there is one, which lies at the top.
LEMMA TopIsThere ==
    ASSUME NEW l, Grounded(l), NEW i
    PROVE  \E a \in {i} \cup Around(l, i) : l[a] \notin Container /\ TopOf(l, i) = l[a]
<1>1. \E a \in {i} \cup Around(l, i) : l[a] \notin Container
  <2>1. CASE l[i] \notin Container
    BY <2>1
  <2>2. CASE l[i] \in Container
    <3>1. Around(l, i) # {} /\ Around(l, i) \in SUBSET Container
      BY <2>2, AroundUnfolds, AroundIsClosed
    <3>2. PICK c \in Around(l, i) : l[c] \notin Around(l, i)
      BY <3>1 DEF Grounded
    <3>3. l[c] \notin Container
      BY <3>2, AroundIsClosed DEF ClosedFrom
    <3> QED BY <3>2, <3>3
  <2> QED BY <2>1, <2>2
<1>2. \E x \in {l[j] : j \in {i} \cup Around(l, i)} : x \notin Container
  BY <1>1
<1>3. TopOf(l, i) \in {l[j] : j \in {i} \cup Around(l, i)} /\ TopOf(l, i) \notin Container
  BY <1>2 DEF TopOf
<1> QED BY <1>3

\* The top of a thing that lies in a container is that of the container.
LEMMA TopUnfolds ==
    ASSUME NEW l, Grounded(l), NEW i
    PROVE  TopOf(l, i) = IF l[i] \in Container THEN TopOf(l, l[i]) ELSE l[i]
<1>1. PICK a \in {i} \cup Around(l, i) : l[a] \notin Container /\ TopOf(l, i) = l[a]
  BY TopIsThere
<1>2. CASE l[i] \notin Container
  BY <1>1, <1>2, TopIsUnique
<1>3. CASE l[i] \in Container
  <2>1. PICK b \in {l[i]} \cup Around(l, l[i]) : l[b] \notin Container /\ TopOf(l, l[i]) = l[b]
    BY TopIsThere
  <2>2. b \in {i} \cup Around(l, i)
    BY <1>3, AroundUnfolds
  <2> QED BY <1>1, <1>3, <2>1, <2>2, TopIsUnique
<1> QED BY <1>2, <1>3

\* Everything around a thing has the same top.
LEMMA TopOfAround ==
    ASSUME NEW l, Grounded(l), NEW i, NEW c \in Around(l, i)
    PROVE  TopOf(l, c) = TopOf(l, i)
<1>1. PICK a \in {i} \cup Around(l, i) : l[a] \notin Container /\ TopOf(l, i) = l[a]
  BY TopIsThere
<1>2. PICK b \in {c} \cup Around(l, c) : l[b] \notin Container /\ TopOf(l, c) = l[b]
  BY TopIsThere
<1>3. b \in {i} \cup Around(l, i)
  BY AroundIsTransitive
<1> QED BY <1>1, <1>2, <1>3, TopIsUnique

\* What is around i, and its top, depend only on where i and what is around it lie.
LEMMA AroundAgrees ==
    ASSUME NEW l, NEW m, NEW i, \A j \in {i} \cup Around(l, i) : m[j] = l[j]
    PROVE  Around(m, i) = Around(l, i) /\ TopOf(m, i) = TopOf(l, i)
<1>1. ClosedFrom(m, Around(l, i), i)
  BY AroundIsClosed DEF ClosedFrom
<1>2. Around(m, i) \subseteq Around(l, i)
  BY <1>1, AroundIsClosed, AroundIsLeast
<1>3. ClosedFrom(l, Around(m, i), i)
  BY <1>2, AroundIsClosed DEF ClosedFrom
<1>4. Around(l, i) \subseteq Around(m, i)
  BY <1>3, AroundIsClosed, AroundIsLeast
<1>5. Around(m, i) = Around(l, i)
  BY <1>2, <1>4
<1>6. {m[j] : j \in {i} \cup Around(m, i)} = {l[j] : j \in {i} \cup Around(l, i)}
  BY <1>5
<1> QED BY <1>5, <1>6 DEF TopOf

\* Of the containers around a thing only one lies in y.
LEMMA ChainIsThin ==
    ASSUME NEW l, Grounded(l), NEW i, NEW a \in {i} \cup Around(l, i),
           NEW b \in {i} \cup Around(l, i), l[a] = l[b]
    PROVE  a = b
<1>1. ASSUME NEW c, NEW d, c \in Around(l, d), l[c] = l[d] PROVE FALSE
  <2>1. l[d] \in Container
    BY <1>1, AroundUnfolds
  <2>2. c = l[d] \/ c \in Around(l, l[d])
    BY <1>1, <2>1, AroundUnfolds
  <2>3. c \in Around(l, c)
    <3>1. l[d] \in Around(l, c)
      BY <1>1, <2>1, AroundUnfolds
    <3> QED BY <2>2, <3>1, AroundIsTransitive
  <2> QED BY <2>3, NothingAroundItself
<1> QED BY <1>1, AroundIsAChain

-----------------------------------------------------------------------------
(* Putting a loose thing somewhere.  In l, t lies in no container; m is l  *)
(* with t put where it is in m.  Taking it out is the same, read backwards.*)

\* Nothing is put into itself.
PutIn(l, m, t) ==
    /\ l[t] \notin Container
    /\ \A c \in Container \ {t} : m[c] = l[c]
    /\ m[t] \in Container => t \notin {m[t]} \cup Around(l, m[t])

\* What is around the place of t, the place among it
UpFrom(l, x) == IF x \in Container THEN {x} \cup Around(l, x) ELSE {}

\* Where t is put, nothing changes.
LEMMA AroundThePlace ==
    ASSUME NEW l, NEW m, NEW t, PutIn(l, m, t), m[t] \in Container
    PROVE  Around(m, m[t]) = Around(l, m[t]) /\ TopOf(m, m[t]) = TopOf(l, m[t])
<1>1. \A j \in {m[t]} \cup Around(l, m[t]) : m[j] = l[j]
  BY AroundIsClosed DEF PutIn
<1> QED BY <1>1, AroundAgrees

\* What is around t, and around what is in t, grows by what is around its place.
LEMMA AroundPutIn ==
    ASSUME NEW l, NEW m, NEW t, PutIn(l, m, t), NEW j, j = t \/ m[j] = l[j]
    PROVE  Around(m, j) = IF t \in {j} \cup Around(l, j)
                          THEN Around(l, j) \cup UpFrom(l, m[t]) ELSE Around(l, j)
<1>1. CASE t \notin {j} \cup Around(l, j)
  <2>1. \A k \in {j} \cup Around(l, j) : m[k] = l[k]
    BY <1>1, AroundIsClosed DEF PutIn
  <2> QED BY <1>1, <2>1, AroundAgrees
<1>2. CASE t \in {j} \cup Around(l, j)
  <2> DEFINE A == Around(l, j) \cup UpFrom(l, m[t])
  <2>1. A \in SUBSET Container
    BY AroundIsClosed DEF UpFrom
  <2>2. ASSUME NEW k \in A \cup {j}, m[k] \in Container PROVE m[k] \in A
    <3>1. CASE k = t
      BY <2>2, <3>1 DEF UpFrom
    <3>2. CASE k # t
      <4>1. m[k] = l[k]
        BY <2>1, <2>2, <3>2 DEF PutIn
      <4> QED BY <2>2, <4>1, AroundIsClosed DEF UpFrom, ClosedFrom
    <3> QED BY <3>1, <3>2
  <2>3. Around(m, j) \subseteq A
    BY <2>1, <2>2, AroundIsLeast DEF ClosedFrom
  <2>4. ASSUME NEW k \in Around(m, j) \cup {j}, l[k] \in Container PROVE l[k] \in Around(m, j)
    <3>1. k # t /\ m[k] = l[k]
      BY <2>4, AroundIsClosed DEF PutIn
    <3> QED BY <2>4, <3>1, AroundIsClosed DEF ClosedFrom
  <2>5. Around(l, j) \subseteq Around(m, j)
    BY <2>4, AroundIsClosed, AroundIsLeast DEF ClosedFrom
  <2>6. t \in {j} \cup Around(m, j)
    BY <1>2, <2>5
  <2>7. UpFrom(l, m[t]) \subseteq Around(m, j)
    <3>1. CASE m[t] \in Container
      <4>1. m[t] \in Around(m, j)
        BY <2>6, <3>1, AroundIsClosed DEF ClosedFrom
      <4>2. Around(m, m[t]) \subseteq Around(m, j)
        BY <4>1, AroundIsTransitive
      <4> QED BY <3>1, <4>1, <4>2, AroundThePlace DEF UpFrom
    <3>2. CASE m[t] \notin Container
      BY <3>2 DEF UpFrom
    <3> QED BY <3>1, <3>2
  <2> QED BY <1>2, <2>3, <2>5, <2>7
<1> QED BY <1>1, <1>2

\* What is in t is nowhere near the place of t.
LEMMA PutInApart ==
    ASSUME NEW l, NEW m, NEW t, PutIn(l, m, t), NEW j, t \in {j} \cup Around(l, j)
    PROVE  Around(l, j) \cap UpFrom(l, m[t]) = {}
<1> SUFFICES ASSUME NEW c \in Around(l, j), c \in UpFrom(l, m[t]) PROVE FALSE
  OBVIOUS
<1>1. m[t] \in Container /\ (c = m[t] \/ c \in Around(l, m[t]))
  BY DEF UpFrom
<1>2. c # t
  BY <1>1 DEF PutIn
<1>3. Around(l, t) = {}
  BY AroundUnfolds DEF PutIn
<1>4. t \in Around(l, c)
  BY <1>2, <1>3, AroundIsAChain
<1> QED BY <1>1, <1>4, AroundIsTransitive DEF PutIn

\* The world stays grounded, and was.
LEMMA GroundedPutIn ==
    ASSUME NEW l, NEW m, NEW t, PutIn(l, m, t), Grounded(l)
    PROVE  Grounded(m)
<1> SUFFICES ASSUME NEW S \in SUBSET Container, S # {}
             PROVE  \E c \in S : m[c] \notin S
  BY DEF Grounded
<1>1. CASE t \in S /\ m[t] \notin S
  BY <1>1
<1>2. CASE t \notin S
  <2>1. PICK c \in S : l[c] \notin S
    BY DEF Grounded
  <2> QED BY <1>2, <2>1 DEF PutIn
<1>3. CASE t \in S /\ m[t] \in S
  <2> DEFINE R == S \cap ({m[t]} \cup Around(l, m[t]))
  <2>1. R \in SUBSET Container /\ R # {} /\ t \notin R
    BY <1>3 DEF PutIn
  <2>2. PICK c \in R : l[c] \notin R
    BY <2>1 DEF Grounded
  <2>3. m[c] = l[c]
    BY <2>1, <2>2 DEF PutIn
  <2>4. l[c] \in Container => l[c] \in Around(l, m[t])
    BY <2>2, AroundIsClosed DEF ClosedFrom
  <2> QED BY <2>2, <2>3, <2>4
<1> QED BY <1>1, <1>2, <1>3

LEMMA GroundedTakenOut ==
    ASSUME NEW l, NEW m, NEW t, l[t] \notin Container,
           \A c \in Container \ {t} : m[c] = l[c], Grounded(m)
    PROVE  Grounded(l) /\ PutIn(l, m, t)
<1>1. ASSUME NEW S \in SUBSET Container, S # {}
      PROVE  \E c \in S : l[c] \notin S
  <2>1. PICK c \in S : m[c] \notin S
    BY <1>1 DEF Grounded
  <2> QED BY <2>1
<1>2. ASSUME m[t] \in Container, t \in {m[t]} \cup Around(l, m[t]) PROVE FALSE
  <2>1. ASSUME NEW k \in Around(m, m[t]) \cup {m[t]}, l[k] \in Container
        PROVE  l[k] \in Around(m, m[t])
    <3>1. k # t /\ m[k] = l[k]
      BY <1>2, <2>1, AroundIsClosed
    <3> QED BY <2>1, <3>1, AroundIsClosed DEF ClosedFrom
  <2>2. Around(l, m[t]) \subseteq Around(m, m[t])
    BY <2>1, AroundIsClosed, AroundIsLeast DEF ClosedFrom
  <2>3. t \in Around(m, t)
    BY <1>2, <2>2, AroundUnfolds
  <2> QED BY <2>3, NothingAroundItself
<1> QED BY <1>1, <1>2 DEF Grounded, PutIn

-----------------------------------------------------------------------------
(* Induction, on sets.                                                     *)

LEMMA Smallest ==
    ASSUME NEW T \in SUBSET Nat, T # {}
    PROVE  \E n \in T : \A m \in T : n <= m
<1>1. IsWellFoundedOn(OpToRel(<, Nat), Nat)
  BY NatLessThanWellFounded
<1>2. PICK n \in T : \A m \in T : ~ (<<m, n>> \in OpToRel(<, Nat))
  BY <1>1, WFMin
<1>3. \A m \in T : ~ (m < n)
  BY <1>2 DEF OpToRel
<1>4. ASSUME NEW m \in T PROVE n <= m
  <2>1. m \in Nat /\ n \in Nat /\ ~ (m < n)
    BY <1>2, <1>3, <1>4
  <2> QED BY <2>1
<1> QED BY <1>2, <1>4

LEMMA Induct ==
    ASSUME NEW P \in SUBSET Nat, 0 \in P, \A n \in P : n + 1 \in P
    PROVE  P = Nat
<1> SUFFICES ASSUME Nat \ P # {} PROVE FALSE
  OBVIOUS
<1>1. PICK n \in Nat \ P : \A m \in Nat \ P : n <= m
  BY Smallest
<1>2. n - 1 \in P /\ n - 1 \in Nat
  BY <1>1
<1> QED BY <1>1, <1>2

\* A set of subsets of S that has the empty one, and with T every subset one larger,
\* has them all.
LEMMA SetInduct ==
    ASSUME NEW S, IsFiniteSet(S), NEW P \in SUBSET (SUBSET S), {} \in P,
           \A T \in SUBSET S : T # {} /\ (\A x \in T : T \ {x} \in P) => T \in P
    PROVE  P = SUBSET S
<1>1. \A T \in SUBSET S : IsFiniteSet(T) /\ Cardinality(T) \in Nat
  BY FS_Subset, FS_CardinalityType
<1> DEFINE N == {n \in Nat : \A T \in SUBSET S : Cardinality(T) = n => T \in P}
<1>2. 0 \in N
  <2>1. ASSUME NEW T \in SUBSET S, Cardinality(T) = 0 PROVE T \in P
    <3>1. T = {}
      BY <1>1, <2>1, FS_EmptySet
    <3> QED BY <3>1
  <2> QED BY <2>1
<1>3. ASSUME NEW n \in N PROVE n + 1 \in N
  <2>1. ASSUME NEW T \in SUBSET S, Cardinality(T) = n + 1 PROVE T \in P
    <3>1. T # {}
      BY <1>3, <2>1, FS_EmptySet
    <3>2. ASSUME NEW x \in T PROVE T \ {x} \in P
      <4>1. Cardinality(T \ {x}) = n + 1 - 1
        BY <1>1, <2>1, FS_RemoveElement
      <4>2. Cardinality(T \ {x}) = n /\ T \ {x} \in SUBSET S
        BY <1>3, <4>1
      <4> QED BY <1>3, <4>2
    <3> QED BY <3>1, <3>2
  <2> QED BY <1>3, <2>1
<1>4. N = Nat
  <2> HIDE DEF N
  <2>1. N \in SUBSET Nat
    BY DEF N
  <2> QED BY <1>2, <1>3, <2>1, Induct
<1>5. ASSUME NEW T \in SUBSET S PROVE T \in P
  BY <1>1, <1>4
<1> QED BY <1>5

-----------------------------------------------------------------------------
(* Sums of a function over a finite set.                                   *)

OneOf(S) == CHOOSE x \in S : TRUE

\* What the recursive function in the definition of SumFunctionOnSet computes
Sums(f, S) ==
    CHOOSE g : g = [T \in SUBSET S |-> IF T = {} THEN 0 ELSE f[OneOf(T)] + g[T \ {OneOf(T)}]]

\* There is such a function: by induction, one that is right for the smaller subsets.
LEMMA SumsExist ==
    ASSUME NEW S, IsFiniteSet(S), NEW f, \A x \in S : f[x] \in Int
    PROVE  \A T \in SUBSET S :
             /\ Sums(f, S)[T] = IF T = {} THEN 0 ELSE f[OneOf(T)] + Sums(f, S)[T \ {OneOf(T)}]
             /\ Sums(f, S)[T] \in Int
<1> DEFINE Next(g) == [T \in SUBSET S |-> IF T = {} THEN 0 ELSE f[OneOf(T)] + g[T \ {OneOf(T)}]]
           Right(g, T) == g[T] = Next(g)[T]
           P == {n \in Nat : \E g \in [SUBSET S -> Int] :
                    \A T \in SUBSET S : Cardinality(T) <= n => Right(g, T)}
<1>1. ASSUME NEW T \in SUBSET S
      PROVE  /\ IsFiniteSet(T) /\ Cardinality(T) \in Nat
             /\ Cardinality(T) <= Cardinality(S)
             /\ T # {} => /\ OneOf(T) \in T
                          /\ T \ {OneOf(T)} \in SUBSET S
                          /\ Cardinality(T \ {OneOf(T)}) = Cardinality(T) - 1
  <2>1. IsFiniteSet(T) /\ Cardinality(T) <= Cardinality(S)
    BY FS_Subset
  <2>2. T # {} => OneOf(T) \in T
    BY DEF OneOf
  <2> QED BY <2>1, <2>2, FS_CardinalityType, FS_RemoveElement
<1>2. 0 \in P
  <2>1. [T \in SUBSET S |-> 0] \in [SUBSET S -> Int]
    OBVIOUS
  <2>2. ASSUME NEW T \in SUBSET S, Cardinality(T) <= 0 PROVE T = {}
    <3>1. Cardinality(T) \in Nat /\ IsFiniteSet(T)
      BY <1>1
    <3>2. Cardinality(T) = 0
      BY <2>2, <3>1
    <3> QED BY <3>1, <3>2, FS_EmptySet
  <2>3. \A T \in SUBSET S : Cardinality(T) <= 0 => Right([U \in SUBSET S |-> 0], T)
    BY <2>2
  <2> HIDE DEF Right
  <2> QED BY <2>1, <2>3
<1>3. ASSUME NEW n \in P PROVE n + 1 \in P
  <2>1. PICK g \in [SUBSET S -> Int] : \A T \in SUBSET S : Cardinality(T) <= n => Right(g, T)
    BY <1>3
  <2>2. ASSUME NEW T \in SUBSET S PROVE Next(g)[T] \in Int
    <3>1. CASE T = {}
      BY <3>1
    <3>2. CASE T # {}
      <4>1. f[OneOf(T)] \in Int /\ g[T \ {OneOf(T)}] \in Int
        BY <1>1, <2>1, <3>2
      <4> QED BY <3>2, <4>1
    <3> QED BY <3>1, <3>2
  <2>3. Next(g) \in [SUBSET S -> Int]
    BY <2>2
  <2>4. \A T \in SUBSET S : Cardinality(T) <= n => Next(g)[T] = g[T]
    BY <2>1
  <2>5. ASSUME NEW T \in SUBSET S, Cardinality(T) <= n + 1 PROVE Right(Next(g), T)
    <3>1. CASE T = {}
      BY <3>1
    <3>2. CASE T # {}
      <4>1. T \ {OneOf(T)} \in SUBSET S /\ Cardinality(T \ {OneOf(T)}) <= n
        BY <1>1, <1>3, <2>5, <3>2
      <4>2. Next(g)[T \ {OneOf(T)}] = g[T \ {OneOf(T)}]
        BY <2>4, <4>1
      <4> QED BY <3>2, <4>2
    <3> QED BY <3>1, <3>2
  <2> HIDE DEF Right, Next
  <2> QED BY <1>3, <2>3, <2>5
<1>4. Cardinality(S) \in P
  <2>1. P = Nat
    <3> HIDE DEF P
    <3>1. P \in SUBSET Nat
      BY DEF P
    <3> QED BY <1>2, <1>3, <3>1, Induct
  <2> QED BY <1>1, <2>1
<1>5. PICK g \in [SUBSET S -> Int] : \A T \in SUBSET S : Right(g, T)
  BY <1>1, <1>4
<1>6. g = Next(g)
  BY <1>5
<1>7. Sums(f, S) = Next(Sums(f, S))
  <2> DEFINE N(h) == Next(h)
  <2>1. g = N(g)
    BY <1>6
  <2>2. Sums(f, S) = CHOOSE h : h = N(h)
    BY DEF Sums
  <2> HIDE DEF N
  <2>3. Sums(f, S) = N(Sums(f, S))
    BY <2>1, <2>2
  <2> QED BY <2>3 DEF N
<1>9. \A T \in SUBSET S :
        Sums(f, S)[T] = IF T = {} THEN 0 ELSE f[OneOf(T)] + Sums(f, S)[T \ {OneOf(T)}]
  <2> DEFINE g1 == Sums(f, S)
  <2>1. g1 = Next(g1)
    BY <1>7
  <2> HIDE DEF g1
  <2>2. \A T \in SUBSET S : g1[T] = IF T = {} THEN 0 ELSE f[OneOf(T)] + g1[T \ {OneOf(T)}]
    BY <2>1
  <2> QED BY <2>2 DEF g1
<1> DEFINE Q == {T \in SUBSET S : Sums(f, S)[T] \in Int}
<1>8. Q = SUBSET S
  <2>1. {} \in Q
    <3>1. Sums(f, S)[{}] = 0
      BY <1>9
    <3> QED BY <3>1
  <2>2. ASSUME NEW T \in SUBSET S, T # {}, \A x \in T : T \ {x} \in Q PROVE T \in Q
    <3>1. f[OneOf(T)] \in Int /\ Sums(f, S)[T \ {OneOf(T)}] \in Int
      BY <1>1, <2>2
    <3>2. Sums(f, S)[T] = f[OneOf(T)] + Sums(f, S)[T \ {OneOf(T)}]
      BY <1>9, <2>2
    <3>3. Sums(f, S)[T] \in Int
      BY <3>1, <3>2
    <3> QED BY <3>3
  <2> HIDE DEF Q
  <2>3. Q \in SUBSET (SUBSET S)
    BY DEF Q
  <2> QED BY <2>1, <2>2, <2>3, SetInduct
<1> QED BY <1>8, <1>9

LEMMA SumIsThere ==
    ASSUME NEW S, NEW f
    PROVE  SumFunctionOnSet(f, S) = Sums(f, S)[S]
BY DEF SumFunctionOnSet, FoldFunctionOnSet, MapThenFoldSet, Sums, OneOf

\* One element is taken out first ...
LEMMA SumEquation ==
    ASSUME NEW S, IsFiniteSet(S), NEW f, \A x \in S : f[x] \in Int
    PROVE  /\ SumFunctionOnSet(f, S) \in Int
           /\ SumFunctionOnSet(f, S) =
                IF S = {} THEN 0 ELSE f[OneOf(S)] + SumFunctionOnSet(f, S \ {OneOf(S)})
<1> DEFINE o == OneOf(S)
           R == S \ {o}
           P == {T \in SUBSET R : Sums(f, S)[T] = Sums(f, R)[T]}
<1>1. IsFiniteSet(R)
  BY FS_Subset
<1>2. \A T \in SUBSET S :
        Sums(f, S)[T] = IF T = {} THEN 0 ELSE f[OneOf(T)] + Sums(f, S)[T \ {OneOf(T)}]
  BY SumsExist
<1>3. \A T \in SUBSET R :
        Sums(f, R)[T] = IF T = {} THEN 0 ELSE f[OneOf(T)] + Sums(f, R)[T \ {OneOf(T)}]
  BY <1>1, SumsExist
<1>4. P = SUBSET R
  <2>1. {} \in P
    BY <1>2, <1>3
  <2>2. ASSUME NEW T \in SUBSET R, T # {}, \A x \in T : T \ {x} \in P PROVE T \in P
    <3>1. OneOf(T) \in T
      BY <2>2 DEF OneOf
    <3>2. Sums(f, S)[T \ {OneOf(T)}] = Sums(f, R)[T \ {OneOf(T)}]
      BY <2>2, <3>1
    <3>3. T \in SUBSET S
      OBVIOUS
    <3>4. Sums(f, S)[T] = f[OneOf(T)] + Sums(f, S)[T \ {OneOf(T)}]
      BY <1>2, <2>2, <3>3
    <3>5. Sums(f, R)[T] = f[OneOf(T)] + Sums(f, R)[T \ {OneOf(T)}]
      BY <1>3, <2>2
    <3> QED BY <3>2, <3>4, <3>5
  <2> HIDE DEF P, R
  <2>3. P \in SUBSET (SUBSET R)
    BY DEF P
  <2> QED BY <1>1, <2>1, <2>2, <2>3, SetInduct
<1>5. Sums(f, S)[R] = SumFunctionOnSet(f, R)
  BY <1>4, SumIsThere
<1>6. Sums(f, S)[S] = IF S = {} THEN 0 ELSE f[o] + Sums(f, S)[R]
  BY <1>2
<1> QED BY <1>5, <1>6, SumIsThere, SumsExist

\* ... and it may be any.
LEMMA SumWithout ==
    ASSUME NEW S, IsFiniteSet(S), NEW f, \A x \in S : f[x] \in Int
    PROVE  /\ S = {} => SumFunctionOnSet(f, S) = 0
           /\ \A x \in S : SumFunctionOnSet(f, S) = f[x] + SumFunctionOnSet(f, S \ {x})
<1> DEFINE Sum(T) == SumFunctionOnSet(f, T)
           P == {T \in SUBSET S : \A x \in T : Sum(T) = f[x] + Sum(T \ {x})}
<1>1. ASSUME NEW T \in SUBSET S
      PROVE  Sum(T) \in Int /\ Sum(T) = IF T = {} THEN 0 ELSE f[OneOf(T)] + Sum(T \ {OneOf(T)})
  <2>1. IsFiniteSet(T) /\ \A x \in T : f[x] \in Int
    BY FS_Subset
  <2> QED BY <2>1, SumEquation
<1>2. P = SUBSET S
  <2>1. {} \in P
    OBVIOUS
  <2>2. ASSUME NEW T \in SUBSET S, T # {}, \A x \in T : T \ {x} \in P PROVE T \in P
    <3> DEFINE o == OneOf(T)
    <3>1. o \in T /\ Sum(T) = f[o] + Sum(T \ {o})
      BY <1>1, <2>2 DEF OneOf
    <3>2. ASSUME NEW x \in T, x # o PROVE Sum(T) = f[x] + Sum(T \ {x})
      <4>1. (T \ {o}) \ {x} = (T \ {x}) \ {o}
        OBVIOUS
      <4>2. Sum(T \ {o}) = f[x] + Sum((T \ {o}) \ {x})
        BY <2>2, <3>1, <3>2
      <4>3. Sum(T \ {x}) = f[o] + Sum((T \ {x}) \ {o})
        BY <2>2, <3>1, <3>2
      <4>4. f[x] \in Int /\ f[o] \in Int /\ Sum((T \ {o}) \ {x}) \in Int
        BY <1>1, <3>1
      <4> DEFINE r == Sum((T \ {o}) \ {x})
      <4>5. Sum(T) = f[o] + (f[x] + r) /\ Sum(T \ {x}) = f[o] + r
        BY <3>1, <4>1, <4>2, <4>3
      <4>6. f[o] \in Int /\ f[x] \in Int /\ r \in Int
        BY <4>4
      <4> HIDE DEF o, r, Sum
      <4> QED BY <4>5, <4>6
    <3> HIDE DEF Sum
    <3> QED BY <3>1, <3>2 DEF P
  <2> HIDE DEF P
  <2>3. P \in SUBSET (SUBSET S)
    BY DEF P
  <2> QED BY <2>1, <2>2, <2>3, SetInduct
<1>3. S \in P
  BY <1>2
<1> QED BY <1>1, <1>3

\* Only what the function is on the set counts.
LEMMA SumSame ==
    ASSUME NEW S, IsFiniteSet(S), NEW f, NEW g, \A x \in S : f[x] \in Int /\ g[x] = f[x]
    PROVE  SumFunctionOnSet(g, S) = SumFunctionOnSet(f, S)
<1> DEFINE P == {T \in SUBSET S : SumFunctionOnSet(g, T) = SumFunctionOnSet(f, T)}
<1>1. ASSUME NEW T \in SUBSET S
      PROVE  /\ IsFiniteSet(T)
             /\ \A x \in T : f[x] \in Int
             /\ \A x \in T : g[x] \in Int
             /\ T # {} => OneOf(T) \in T
  BY FS_Subset DEF OneOf
<1>2. {} \in P
  <2>1. SumFunctionOnSet(f, {}) = 0
    BY <1>1, SumEquation
  <2>2. SumFunctionOnSet(g, {}) = 0
    BY <1>1, SumEquation
  <2> QED BY <2>1, <2>2
<1>3. ASSUME NEW T \in SUBSET S, T # {}, \A x \in T : T \ {x} \in P PROVE T \in P
  <2>0. IsFiniteSet(T) /\ (\A x \in T : f[x] \in Int) /\ (\A x \in T : g[x] \in Int)
    BY <1>1
  <2>1. SumFunctionOnSet(f, T) = f[OneOf(T)] + SumFunctionOnSet(f, T \ {OneOf(T)})
    BY <1>3, <2>0, SumEquation
  <2>2. SumFunctionOnSet(g, T) = g[OneOf(T)] + SumFunctionOnSet(g, T \ {OneOf(T)})
    BY <1>3, <2>0, SumEquation
  <2>3. OneOf(T) \in T /\ f[OneOf(T)] = g[OneOf(T)]
    BY <1>1, <1>3
  <2>4. SumFunctionOnSet(g, T \ {OneOf(T)}) = SumFunctionOnSet(f, T \ {OneOf(T)})
    BY <1>3, <2>3
  <2> QED BY <2>1, <2>2, <2>3, <2>4
<1>4. P = SUBSET S
  <2> HIDE DEF P
  <2>1. P \in SUBSET (SUBSET S)
    BY DEF P
  <2> QED BY <1>2, <1>3, <2>1, SetInduct
<1> QED BY <1>4

\* A sum of naturals is one, and no less than each of them.
LEMMA SumNat ==
    ASSUME NEW S, IsFiniteSet(S), NEW f, \A x \in S : f[x] \in Nat
    PROVE  /\ SumFunctionOnSet(f, S) \in Nat
           /\ \A x \in S : f[x] <= SumFunctionOnSet(f, S)
<1> DEFINE P == {T \in SUBSET S : SumFunctionOnSet(f, T) \in Nat}
<1>1. ASSUME NEW T \in SUBSET S
      PROVE  /\ IsFiniteSet(T)
             /\ \A x \in T : f[x] \in Int
             /\ T # {} => OneOf(T) \in T
  BY FS_Subset DEF OneOf
<1>2. {} \in P
  <2>1. SumFunctionOnSet(f, {}) = 0
    BY <1>1, SumEquation
  <2> QED BY <2>1
<1>3. ASSUME NEW T \in SUBSET S, T # {}, \A x \in T : T \ {x} \in P PROVE T \in P
  <2>0. IsFiniteSet(T) /\ (\A x \in T : f[x] \in Int)
    BY <1>1
  <2>1. SumFunctionOnSet(f, T) = f[OneOf(T)] + SumFunctionOnSet(f, T \ {OneOf(T)})
    BY <1>3, <2>0, SumEquation
  <2>2. OneOf(T) \in T /\ f[OneOf(T)] \in Nat
    BY <1>1, <1>3
  <2>3. SumFunctionOnSet(f, T \ {OneOf(T)}) \in Nat
    BY <1>3, <2>2
  <2>4. SumFunctionOnSet(f, T) \in Nat
    BY <2>1, <2>2, <2>3
  <2> QED BY <2>4
<1>4. P = SUBSET S
  <2> HIDE DEF P
  <2>1. P \in SUBSET (SUBSET S)
    BY DEF P
  <2> QED BY <1>2, <1>3, <2>1, SetInduct
<1>5. ASSUME NEW x \in S PROVE f[x] <= SumFunctionOnSet(f, S)
  <2>1. SumFunctionOnSet(f, S) = f[x] + SumFunctionOnSet(f, S \ {x})
    BY SumWithout
  <2>2. SumFunctionOnSet(f, S \ {x}) \in Nat /\ f[x] \in Nat
    BY <1>4
  <2> QED BY <2>1, <2>2
<1> QED BY <1>4, <1>5

\* One element more
LEMMA SumWith ==
    ASSUME NEW S, IsFiniteSet(S), NEW x, x \notin S, NEW f, \A y \in S \cup {x} : f[y] \in Int
    PROVE  SumFunctionOnSet(f, S \cup {x}) = SumFunctionOnSet(f, S) + f[x]
<1>1. IsFiniteSet(S \cup {x}) /\ (S \cup {x}) \ {x} = S
  BY FS_AddElement
<1>2. SumFunctionOnSet(f, S \cup {x}) = f[x] + SumFunctionOnSet(f, S)
  BY <1>1, SumWithout
<1>3. SumFunctionOnSet(f, S) \in Int /\ f[x] \in Int
  BY SumEquation
<1> QED BY <1>2, <1>3

\* One value changes.
LEMMA SumChange ==
    ASSUME NEW S, IsFiniteSet(S), NEW x \in S, NEW f, NEW g,
           \A y \in S : f[y] \in Int /\ g[y] \in Int, \A y \in S \ {x} : g[y] = f[y]
    PROVE  SumFunctionOnSet(g, S) = SumFunctionOnSet(f, S) + (g[x] - f[x])
<1>1. IsFiniteSet(S \ {x})
  BY FS_Subset
<1>2. SumFunctionOnSet(g, S \ {x}) = SumFunctionOnSet(f, S \ {x})
  BY <1>1, SumSame
<1>3. SumFunctionOnSet(f, S) = f[x] + SumFunctionOnSet(f, S \ {x})
  BY SumWithout
<1>4. SumFunctionOnSet(g, S) = g[x] + SumFunctionOnSet(g, S \ {x})
  BY SumWithout
<1>5. SumFunctionOnSet(f, S \ {x}) \in Int /\ f[x] \in Int /\ g[x] \in Int
  BY <1>1, SumEquation
<1> QED BY <1>2, <1>3, <1>4, <1>5

\* Zeros do not count.
LEMMA SumZeros ==
    ASSUME NEW S, IsFiniteSet(S), NEW R \in SUBSET S, NEW f, \A y \in S : f[y] \in Int,
           \A y \in S \ R : f[y] = 0
    PROVE  SumFunctionOnSet(f, R) = SumFunctionOnSet(f, S)
<1> DEFINE P == {T \in SUBSET S : SumFunctionOnSet(f, T \cap R) = SumFunctionOnSet(f, T)}
<1>1. {} \in P
  OBVIOUS
<1>2. ASSUME NEW T \in SUBSET S, T # {}, \A x \in T : T \ {x} \in P PROVE T \in P
  <2>1. CASE T \subseteq R
    <3>1. T \cap R = T
      BY <2>1
    <3> QED BY <3>1
  <2>2. CASE ~ (T \subseteq R)
    <3>1. PICK x \in T : x \notin R
      BY <2>2
    <3>2. IsFiniteSet(T) /\ f[x] = 0 /\ (T \ {x}) \cap R = T \cap R /\ T \ {x} \in P
      BY <1>2, <3>1, FS_Subset
    <3>3. SumFunctionOnSet(f, T) = f[x] + SumFunctionOnSet(f, T \ {x})
      <4>1. \A y \in T : f[y] \in Int
        OBVIOUS
      <4> QED BY <3>1, <3>2, <4>1, SumWithout
    <3>4. SumFunctionOnSet(f, T \ {x}) \in Int
      <4>1. IsFiniteSet(T \ {x}) /\ \A y \in T \ {x} : f[y] \in Int
        BY FS_Subset
      <4> QED BY <4>1, SumEquation
    <3>5. SumFunctionOnSet(f, T) = SumFunctionOnSet(f, T \ {x})
      BY <3>2, <3>3, <3>4
    <3>6. SumFunctionOnSet(f, T \cap R) = SumFunctionOnSet(f, T \ {x})
      BY <3>2
    <3> QED BY <3>5, <3>6
  <2> QED BY <2>1, <2>2
<1>3. P = SUBSET S
  <2> HIDE DEF P
  <2>1. P \in SUBSET (SUBSET S)
    BY DEF P
  <2> QED BY <1>1, <1>2, <2>1, SetInduct
<1>4. S \in P /\ S \cap R = R
  BY <1>3
<1> QED BY <1>4

\* A sum is that of a part and that of the rest.
LEMMA SumSplit ==
    ASSUME NEW S, IsFiniteSet(S), NEW R \in SUBSET S, NEW f, \A y \in S : f[y] \in Int
    PROVE  SumFunctionOnSet(f, S) = SumFunctionOnSet(f, R) + SumFunctionOnSet(f, S \ R)
<1> DEFINE Sum(T) == SumFunctionOnSet(f, T)
           P == {T \in SUBSET S : Sum(T) = Sum(T \cap R) + Sum(T \ R)}
<1>1. ASSUME NEW T \in SUBSET S
      PROVE  /\ Sum(T) \in Int
             /\ T = {} => Sum(T) = 0
             /\ \A x \in T : Sum(T) = f[x] + Sum(T \ {x})
  <2>1. IsFiniteSet(T) /\ \A y \in T : f[y] \in Int
    BY FS_Subset
  <2> QED BY <2>1, SumEquation, SumWithout
<1> HIDE DEF Sum
<1>2. {} \in P
  <2>1. Sum({}) = 0 /\ {} \cap R = {} /\ {} \ R = {}
    BY <1>1
  <2> QED BY <2>1
<1>3. ASSUME NEW T \in SUBSET S, T # {}, \A x \in T : T \ {x} \in P PROVE T \in P
  <2>1. PICK x \in T : TRUE
    BY <1>3
  <2> DEFINE U == T \ {x}
  <2>2. Sum(U) = Sum(U \cap R) + Sum(U \ R) /\ Sum(T) = f[x] + Sum(U) /\ f[x] \in Int
    BY <1>1, <1>3
  <2>3. Sum(U \cap R) \in Int /\ Sum(U \ R) \in Int
    BY <1>1
  <2>4. CASE x \in R
    <3>1. Sum(T \cap R) = f[x] + Sum((T \cap R) \ {x})
      BY <1>1, <2>4
    <3>2. (T \cap R) \ {x} = U \cap R /\ T \ R = U \ R
      BY <2>4
    <3>3. Sum(T \cap R) = f[x] + Sum(U \cap R) /\ Sum(T \ R) = Sum(U \ R)
      BY <3>1, <3>2
    <3> HIDE DEF U
    <3>4. Sum(T) = Sum(T \cap R) + Sum(T \ R)
      BY <2>2, <2>3, <3>3
    <3> QED BY <3>4
  <2>5. CASE x \notin R
    <3>1. Sum(T \ R) = f[x] + Sum((T \ R) \ {x})
      BY <1>1, <2>5
    <3>2. (T \ R) \ {x} = U \ R /\ T \cap R = U \cap R
      BY <2>5
    <3>3. Sum(T \ R) = f[x] + Sum(U \ R) /\ Sum(T \cap R) = Sum(U \cap R)
      BY <3>1, <3>2
    <3> HIDE DEF U
    <3>4. Sum(T) = Sum(T \cap R) + Sum(T \ R)
      BY <2>2, <2>3, <3>3
    <3> QED BY <3>4
  <2> QED BY <2>4, <2>5
<1>4. P = SUBSET S
  <2> HIDE DEF P
  <2>1. P \in SUBSET (SUBSET S)
    BY DEF P
  <2> QED BY <1>2, <1>3, <2>1, SetInduct
<1>5. S \in P /\ S \cap R = R
  BY <1>4
<1> QED BY <1>5 DEF Sum

=============================================================================
