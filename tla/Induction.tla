----------------------------- MODULE Induction -----------------------------
(***************************************************************************)
(* Induction and recursion for sets and functions.  The theorems of the    *)
(* library take operators as parameters; these take sets and functions,    *)
(* which is what the walks of the compiler are about: loops over the       *)
(* members of a class, and recursions that go from a class to its parent.  *)
(* The last part is about sequences that are used as stacks.               *)
(***************************************************************************)
EXTENDS Integers, Sequences, WellFoundedInduction, SequenceTheorems, TLAPS

-----------------------------------------------------------------------------
(* The natural numbers.                                                    *)

(* A set of natural numbers has a least element.                           *)
LEMMA Least ==
  ASSUME NEW T, T \subseteq Nat, T # {}
  PROVE  \E n \in T : \A m \in T : n <= m
<1> DEFINE R == {ss \in Nat \X Nat : ss[1] < ss[2]}
<1>1. IsWellFoundedOn(R, Nat)
  BY NatLessThanWellFounded DEF OpToRel
<1>2. ASSUME NEW x \in Nat, NEW y \in Nat, <<y, x>> \notin R PROVE x <= y
  <2>1. <<y, x>> \in Nat \X Nat /\ <<y, x>>[1] = y /\ <<y, x>>[2] = x
    OBVIOUS
  <2>2. ~(y < x)
    BY <1>2, <2>1, Zenon DEF R
  <2> QED
    BY <2>2
<1> HIDE DEF R
<1>3. PICK x \in T : \A y \in T : <<y, x>> \notin R
  BY <1>1, WFMin
<1> QED
  BY <1>2, <1>3

(* A set that has zero and every successor has all natural numbers.        *)
LEMMA SetInduction ==
  ASSUME NEW S, 0 \in S, \A n \in Nat : n \in S => n + 1 \in S
  PROVE  Nat \subseteq S
<1> SUFFICES ASSUME Nat \ S # {} PROVE FALSE
  OBVIOUS
<1>1. PICK n \in Nat \ S : \A m \in Nat \ S : n <= m
  BY Least
<1> QED
  BY <1>1

-----------------------------------------------------------------------------
(* Forests: every node has at most one predecessor, and walking from a     *)
(* node to its predecessor ends.                                           *)

Forest(X, up, none) ==
  /\ none \notin X
  /\ up \in [X -> X \cup {none}]
  /\ \A S \in SUBSET X : S # {} => \E x \in S : up[x] \notin S

(* A set that has a node whenever it has the predecessor has all nodes.    *)
LEMMA ForestInduction ==
  ASSUME NEW X, NEW up, NEW none, Forest(X, up, none),
         NEW T, \A x \in X : (up[x] = none \/ up[x] \in T) => x \in T
  PROVE  X \subseteq T
<1> SUFFICES ASSUME X \ T # {} PROVE FALSE
  OBVIOUS
<1>1. PICK x \in X \ T : up[x] \notin X \ T
  BY DEF Forest
<1> QED
  BY <1>1 DEF Forest

(* What a recursion from a node to its predecessor computes on the nodes   *)
(* of D, when H is what it does at a node with the result found above.     *)
Computes(f, D, up, none, V, base, H) ==
  /\ f \in [D -> V]
  /\ \A x \in D : f[x] = H[x][IF up[x] = none THEN base ELSE f[up[x]]]

(* Such a recursion computes something: there is a function with that      *)
(* value at every node.                                                    *)
LEMMA ForestRecursion ==
  ASSUME NEW X, NEW up, NEW none, Forest(X, up, none),
         NEW V, NEW base \in V, NEW H \in [X -> [V -> V]]
  PROVE  \E f : Computes(f, X, up, none, V, base, H)
<1> DEFINE Closed(D) == D \subseteq X /\ \A x \in D : up[x] \in D \cup {none}
           Value(x, v) == \E D, f : /\ x \in D /\ Closed(D)
                                    /\ Computes(f, D, up, none, V, base, H)
                                    /\ v = f[x]
           T == {x \in X : \E v \in V : Value(x, v)}
           U == {x \in X : \A v, w \in V : Value(x, v) /\ Value(x, w) => v = w}
           Of(x) == CHOOSE v \in V : Value(x, v)
           F == [x \in X |-> Of(x)]
<1>1. ASSUME NEW x \in X, up[x] = none \/ up[x] \in T PROVE x \in T
  <2>1. up[x] \in X \cup {none} /\ none \notin X
    BY DEF Forest
  <2>2. CASE up[x] = none
    <3> DEFINE f == [y \in {x} |-> H[x][base]]
    <3>1. Computes(f, {x}, up, none, V, base, H)
      BY <2>2 DEF Computes
    <3>2. Closed({x})
      BY <2>2
    <3>3. f[x] \in V
      OBVIOUS
    <3> HIDE DEF f
    <3> QED
      BY <3>1, <3>2, <3>3
  <2>3. CASE up[x] \in T /\ up[x] # none
    <3>1. PICK D, f : /\ up[x] \in D /\ Closed(D)
                      /\ Computes(f, D, up, none, V, base, H)
      BY <2>3
    <3>2. CASE x \in D
      BY <3>1, <3>2 DEF Computes
    <3>3. CASE x \notin D
      <4> DEFINE E == D \cup {x}
                 v == H[x][f[up[x]]]
                 g == [y \in E |-> IF y = x THEN v ELSE f[y]]
      <4>1. v \in V
        BY <3>1 DEF Computes
      <4>2. g \in [E -> V]
        BY <3>1, <4>1 DEF Computes
      <4>3. Closed(E)
        BY <3>1
      <4>4. ASSUME NEW y \in E PROVE g[y] = H[y][IF up[y] = none THEN base ELSE g[up[y]]]
        <5>1. CASE y = x
          <6>1. g[up[x]] = f[up[x]]
            BY <3>1, <3>3
          <6> QED
            BY <2>3, <5>1, <6>1
        <5>2. CASE y # x
          <6>1. y \in D /\ g[y] = f[y]
            BY <5>2
          <6>2. up[y] # none => up[y] \in D /\ g[up[y]] = f[up[y]]
            BY <3>1, <3>3, <6>1
          <6> QED
            BY <3>1, <6>1, <6>2 DEF Computes
        <5> QED
          BY <5>1, <5>2
      <4>5. Computes(g, E, up, none, V, base, H)
        BY <4>2, <4>4 DEF Computes
      <4>6. x \in E /\ g[x] = v
        OBVIOUS
      <4> HIDE DEF E, g
      <4> QED
        BY <4>1, <4>3, <4>5, <4>6
    <3> QED
      BY <3>2, <3>3
  <2> QED
    BY <1>1, <2>2, <2>3
<1>2. ASSUME NEW x \in X, up[x] = none \/ up[x] \in U PROVE x \in U
  <2> SUFFICES ASSUME NEW v \in V, NEW w \in V, Value(x, v), Value(x, w) PROVE v = w
    OBVIOUS
  <2>1. PICK D, f : /\ x \in D /\ Closed(D)
                    /\ Computes(f, D, up, none, V, base, H) /\ v = f[x]
    OBVIOUS
  <2>2. PICK E, g : /\ x \in E /\ Closed(E)
                    /\ Computes(g, E, up, none, V, base, H) /\ w = g[x]
    OBVIOUS
  <2>3. CASE up[x] = none
    BY <2>1, <2>2, <2>3 DEF Computes
  <2>4. CASE up[x] # none /\ up[x] \in U
    <3>1. up[x] \in D /\ f[up[x]] \in V /\ Value(up[x], f[up[x]])
      BY <2>1, <2>4 DEF Computes
    <3>2. up[x] \in E /\ g[up[x]] \in V /\ Value(up[x], g[up[x]])
      BY <2>2, <2>4 DEF Computes
    <3>3. f[up[x]] = g[up[x]]
      BY <2>4, <3>1, <3>2
    <3> QED
      BY <2>1, <2>2, <2>4, <3>3 DEF Computes
  <2> QED
    BY <1>2, <2>3, <2>4
<1>3. X \subseteq T
  <2> HIDE DEF T
  <2> QED
    BY <1>1, ForestInduction
<1>4. X \subseteq U
  <2> HIDE DEF U
  <2> QED
    BY <1>2, ForestInduction
<1>5. ASSUME NEW x \in X PROVE F[x] \in V /\ Value(x, F[x])
  BY <1>3
<1>6. ASSUME NEW x \in X PROVE F[x] = H[x][IF up[x] = none THEN base ELSE F[up[x]]]
  <2>1. PICK D, f : /\ x \in D /\ Closed(D)
                    /\ Computes(f, D, up, none, V, base, H) /\ F[x] = f[x]
    BY <1>5
  <2>2. CASE up[x] = none
    BY <2>1, <2>2 DEF Computes
  <2>3. CASE up[x] # none
    <3>1. up[x] \in D /\ up[x] \in X /\ f[up[x]] \in V /\ Value(up[x], f[up[x]])
      BY <2>1, <2>3 DEF Computes
    <3>2. F[up[x]] \in V /\ Value(up[x], F[up[x]])
      BY <1>5, <3>1
    <3>3. f[up[x]] = F[up[x]]
      BY <1>4, <3>1, <3>2
    <3> QED
      BY <2>1, <2>3, <3>3 DEF Computes
  <2> QED
    BY <2>2, <2>3
<1>7. F \in [X -> V]
  BY <1>5
<1> HIDE DEF F
<1> QED
  BY <1>6, <1>7 DEF Computes

(* A recursive function over a forest is such an f: two recursions that do *)
(* the same at every node compute the same.                                *)
LEMMA ForestUnique ==
  ASSUME NEW X, NEW up, NEW none, Forest(X, up, none), NEW V, NEW base, NEW H,
         NEW f, NEW g, Computes(f, X, up, none, V, base, H),
         Computes(g, X, up, none, V, base, H)
  PROVE  f = g
<1> DEFINE T == {x \in X : f[x] = g[x]}
<1>1. ASSUME NEW x \in X, up[x] = none \/ up[x] \in T PROVE x \in T
  BY <1>1 DEF Computes
<1>2. X \subseteq T
  <2> HIDE DEF T
  <2> QED
    BY <1>1, ForestInduction
<1> QED
  BY <1>2 DEF Computes

-----------------------------------------------------------------------------
(* Loops: the same for the numbers from 1 to n.                            *)

(* Each number but 1 has the one before it.                                *)
LEMMA Counting ==
  ASSUME NEW n \in Nat
  PROVE  Forest(1 .. n, [i \in 1 .. n |-> i - 1], 0)
<1> DEFINE up == [i \in 1 .. n |-> i - 1]
<1>1. up \in [1 .. n -> 1 .. n \cup {0}]
  OBVIOUS
<1>2. ASSUME NEW S \in SUBSET (1 .. n), S # {} PROVE \E x \in S : up[x] \notin S
  <2>1. PICK x \in S : \A y \in S : x <= y
    <3>1. S \subseteq Nat
      BY <1>2
    <3> QED
      BY <1>2, <3>1, Least
  <2>2. x \in 1 .. n /\ ~(x <= x - 1)
    BY <1>2, <2>1
  <2> QED
    BY <2>1, <2>2
<1> QED
  BY <1>1, <1>2 DEF Forest

(* The values that a loop of n rounds goes through, when H is what a round *)
(* does with the value before it.                                          *)
Rounds(f, n, V, base, H) ==
  /\ f \in [0 .. n -> V]
  /\ f[0] = base
  /\ \A i \in 1 .. n : f[i] = H[i][f[i - 1]]

(* Such a loop goes through some values.                                   *)
LEMMA LoopRecursion ==
  ASSUME NEW n \in Nat, NEW V, NEW base \in V, NEW H \in [1 .. n -> [V -> V]]
  PROVE  \E f : Rounds(f, n, V, base, H)
<1> DEFINE up == [i \in 1 .. n |-> i - 1]
<1>1. Forest(1 .. n, up, 0)
  BY Counting
<1>2. PICK g : Computes(g, 1 .. n, up, 0, V, base, H)
  <2> HIDE DEF up
  <2> QED
    BY <1>1, ForestRecursion
<1> DEFINE f == [i \in 0 .. n |-> IF i = 0 THEN base ELSE g[i]]
<1>3. f \in [0 .. n -> V] /\ f[0] = base
  BY <1>2 DEF Computes
<1>4. ASSUME NEW i \in 1 .. n PROVE f[i] = H[i][f[i - 1]]
  <2>1. f[i] = g[i] /\ g[i] = H[i][IF up[i] = 0 THEN base ELSE g[up[i]]]
    BY <1>2 DEF Computes
  <2>2. f[i - 1] = IF up[i] = 0 THEN base ELSE g[up[i]]
    OBVIOUS
  <2> QED
    BY <2>1, <2>2
<1> HIDE DEF f
<1> QED
  BY <1>3, <1>4 DEF Rounds

-----------------------------------------------------------------------------
(* Stacks: sequences that grow and shrink at their end.                    *)

(* What is under the top.                                                  *)
LEMMA Popped ==
  ASSUME NEW S, NEW s \in Seq(S), Len(s) >= 1
  PROVE  LET p == SubSeq(s, 1, Len(s) - 1)
         IN  /\ p \in Seq(S) /\ Len(p) = Len(s) - 1
             /\ \A i \in 1 .. Len(s) - 1 : p[i] = s[i]
             /\ (p = <<>>) = (Len(s) = 1)
             /\ s[Len(s)] \in S
<1> DEFINE p == SubSeq(s, 1, Len(s) - 1)
<1>1. Len(s) \in Nat /\ Len(s) - 1 \in 0 .. Len(s)
  BY LenProperties
<1>2. p \in Seq(S) /\ Len(p) = Len(s) - 1 /\ \A i \in 1 .. Len(s) - 1 : p[i] = s[i]
  <2> DEFINE n == Len(s)
  <2>1. \A i \in 1 .. n - 1 : s[i] \in S
    BY <1>1, ElementOfSeq
  <2>2. n \in Nat /\ n >= 1 /\ 1 \in Int /\ n - 1 \in Int
    BY <1>1
  <2> HIDE DEF n
  <2>3. /\ SubSeq(s, 1, n - 1) \in Seq(S)
        /\ Len(SubSeq(s, 1, n - 1)) = IF 1 <= n - 1 THEN (n - 1) - 1 + 1 ELSE 0
        /\ \A i \in 1 .. (n - 1) - 1 + 1 : SubSeq(s, 1, n - 1)[i] = s[1 + i - 1]
    BY <2>1, <2>2, SubSeqProperties
  <2>4. (IF 1 <= n - 1 THEN (n - 1) - 1 + 1 ELSE 0) = n - 1
        /\ (n - 1) - 1 + 1 = n - 1 /\ \A i \in 1 .. n - 1 : 1 + i - 1 = i
    BY <2>2
  <2> QED
    BY <2>3, <2>4 DEF n
<1>3. (p = <<>>) = (Len(s) = 1)
  <2>1. p = <<>> => Len(s) = 1
    <3>1. Len(<<>>) = 0
      OBVIOUS
    <3> HIDE DEF p
    <3> QED
      BY <1>1, <1>2, <3>1
  <2>2. Len(s) = 1 => p = <<>>
    <3> HIDE DEF p
    <3> QED
      BY <1>2, EmptySeq
  <2> QED
    BY <2>1, <2>2
<1>4. s[Len(s)] \in S
  BY <1>1, ElementOfSeq
<1> QED
  BY <1>2, <1>3, <1>4

(* Another top.                                                            *)
LEMMA Replaced ==
  ASSUME NEW S, NEW s \in Seq(S), Len(s) >= 1, NEW x \in S
  PROVE  LET r == Append(SubSeq(s, 1, Len(s) - 1), x)
         IN  /\ r \in Seq(S) /\ Len(r) = Len(s) /\ r[Len(s)] = x
             /\ \A i \in 1 .. Len(s) - 1 : r[i] = s[i]
<1> DEFINE p == SubSeq(s, 1, Len(s) - 1)
<1>1. Len(s) \in Nat /\ p \in Seq(S) /\ Len(p) = Len(s) - 1 /\ \A i \in 1 .. Len(s) - 1 : p[i] = s[i]
  BY Popped, LenProperties
<1> HIDE DEF p
<1>2. /\ Append(p, x) \in Seq(S) /\ Len(Append(p, x)) = Len(p) + 1
      /\ \A i \in 1 .. Len(p) : Append(p, x)[i] = p[i]
      /\ Append(p, x)[Len(p) + 1] = x
  BY <1>1, AppendProperties
<1>3. (Len(s) - 1) + 1 = Len(s)
  BY <1>1
<1> QED
  BY <1>1, <1>2, <1>3 DEF p

=============================================================================
