---------------------------- MODULE ObjectProofs ----------------------------
(***************************************************************************)
(* From the declarations of classes to the life of their objects, for any  *)
(* number of classes, fields and methods in any order.  After the passes   *)
(* of the compiler every variable keeps its type, every class has the      *)
(* parent it names, and the layouts that the code generator derives from   *)
(* the table fit together; in every such hierarchy the memory of an object *)
(* is freed once, its header and its fields are initialized, and its       *)
(* release ends in its destructor.                                         *)
(***************************************************************************)
EXTENDS ObjectLifecycle, ClassTable, SequenceTheorems, Induction, TLAPS

-----------------------------------------------------------------------------
(* The class table.                                                        *)

FieldNames == FieldName \cup {"class"}
MethodNames == MethodName \cup {"init", "kill"}

(* What the passes of the compiler leave behind: obj has no parent and the *)
(* members that the compiler gives it, the members of the other classes    *)
(* are those of their declarations, and walks over the parents end.        *)
Table ==
  /\ parent \in [AllClass -> AllClass \cup {NoClass}]
  /\ fields \in [AllClass -> Seq(FieldNames)]
  /\ methods \in [AllClass -> Seq(MethodNames)]
  /\ parent[OBJ] = NoClass
  /\ fields[OBJ] = <<"class">>
  /\ methods[OBJ] = <<"init", "kill">>
  /\ \A c \in Class : fields[c] \in Seq(FieldName) /\ methods[c] \in Seq(MethodName)

-----------------------------------------------------------------------------
(* Recursive walks.                                                        *)

(* The hierarchy is a forest.                                              *)
LEMMA Hierarchy ==
  ASSUME Table, Acyclic
  PROVE  Forest(AllClass, parent, NoClass)
<1>1. NoClass \notin AllClass
  BY ClassNames DEF AllClass
<1> QED
  BY <1>1 DEF Forest, Acyclic, Table

(* The members of d with names in N that are kept are in W.                *)
Fits(kept, W, d, N) ==
  \A m \in N : [class |-> d, name |-> m] \in kept => [class |-> d, name |-> m] \in W

(* The values that the loop over the members of a class goes through.      *)
PushesThrough(push, W, above, d, members, kept) ==
  /\ push \in [0 .. Len(members) -> Seq(W)]
  /\ push[0] = above
  /\ \A i \in 1 .. Len(members) :
       push[i] = IF [class |-> d, name |-> members[i]] \in kept
                 THEN Append(push[i - 1], [class |-> d, name |-> members[i]])
                 ELSE push[i - 1]
  /\ Push(above, d, members, kept) = push[Len(members)]

LEMMA PushLoop ==
  ASSUME NEW W, NEW N, NEW above \in Seq(W), NEW d, NEW members \in Seq(N), NEW kept,
         Fits(kept, W, d, N)
  PROVE  \E push : PushesThrough(push, W, above, d, members, kept)
<1> DEFINE n == Len(members)
           Entry(i) == [class |-> d, name |-> members[i]]
           Round(i, s) == IF Entry(i) \in kept THEN Append(s, Entry(i)) ELSE s
           H == [i \in 1 .. n |-> [s \in Seq(W) |-> Round(i, s)]]
           Loop(f) == f = [i \in 0 .. n |-> IF i = 0 THEN above ELSE Round(i, f[i - 1])]
           push == CHOOSE f : Loop(f)
<1>1. n \in Nat /\ \A i \in 1 .. n : members[i] \in N
  BY ElementOfSeq, LenProperties
<1>2. ASSUME NEW i \in 1 .. n, NEW s \in Seq(W) PROVE Round(i, s) \in Seq(W)
  <2>1. Entry(i) \in kept => Entry(i) \in W
    BY <1>1 DEF Fits
  <2> HIDE DEF Entry
  <2> QED
    BY <2>1, AppendProperties
<1>3. H \in [1 .. n -> [Seq(W) -> Seq(W)]]
  <2> HIDE DEF Round
  <2> QED
    BY <1>2
<1>4. PICK f : Rounds(f, n, Seq(W), above, H)
  <2>1. n \in Nat
    BY <1>1
  <2> HIDE DEF H, n
  <2> QED
    BY <1>3, <2>1, LoopRecursion
<1>5. ASSUME NEW i \in 1 .. n PROVE f[i] = Round(i, f[i - 1])
  <2>1. i - 1 \in 0 .. n
    BY <1>1
  <2>2. f[i - 1] \in Seq(W)
    BY <1>4, <2>1 DEF Rounds
  <2> HIDE DEF Round
  <2> QED
    BY <1>4, <2>2 DEF Rounds
<1>6. Loop(f)
  <2>1. ASSUME NEW i \in 0 .. n PROVE f[i] = IF i = 0 THEN above ELSE Round(i, f[i - 1])
    <3>1. i # 0 => i \in 1 .. n
      BY <1>1
    <3> HIDE DEF Round
    <3> QED
      BY <1>4, <1>5, <3>1 DEF Rounds
  <2> HIDE DEF Round, n
  <2> QED
    BY <1>4, <2>1 DEF Rounds
<1>7. Loop(push)
  <2> HIDE DEF Loop
  <2> QED
    BY <1>6
<1>8. push[0] = above /\ \A i \in 1 .. n : push[i] = Round(i, push[i - 1])
  <2> HIDE DEF Round, push
  <2> QED
    BY <1>1, <1>7
<1>9. DOMAIN push = 0 .. n /\ \A i \in 0 .. n : push[i] \in Seq(W)
  <2>1. DOMAIN push = 0 .. n
    <3> HIDE DEF Round, push
    <3> QED
      BY <1>7
  <2> DEFINE T == {i \in Nat : i <= n => push[i] \in Seq(W)}
  <2>2. 0 \in T
    BY <1>8
  <2>3. ASSUME NEW i \in Nat, i \in T PROVE i + 1 \in T
    <3> SUFFICES ASSUME i + 1 <= n PROVE push[i + 1] \in Seq(W)
      OBVIOUS
    <3>1. i + 1 \in 1 .. n /\ (i + 1) - 1 = i /\ i <= n
      BY <1>1
    <3>2. push[i + 1] = Round(i + 1, push[i])
      <4> HIDE DEF push, Round
      <4> QED
        BY <1>8, <3>1
    <3>3. push[i] \in Seq(W)
      BY <2>3, <3>1
    <3> HIDE DEF push, Round
    <3> QED
      BY <1>2, <3>1, <3>2, <3>3
  <2>4. Nat \subseteq T
    <3> HIDE DEF T
    <3> QED
      BY <2>2, <2>3, SetInduction
  <2>5. \A i \in 0 .. n : i \in Nat /\ i <= n
    BY <1>1
  <2> QED
    BY <2>1, <2>4, <2>5
<1>10. Push(above, d, members, kept) = push[n]
  BY DEF Push
<1>11. push \in [0 .. n -> Seq(W)]
  <2>1. push = [i \in 0 .. n |-> push[i]]
    <3> HIDE DEF Round, push
    <3> QED
      BY <1>7
  <2> HIDE DEF push
  <2> QED
    BY <1>9, <2>1
<1> HIDE DEF push
<1> QED
  BY <1>8, <1>10, <1>11 DEF PushesThrough

(* s is `above` followed by the members of d.                              *)
Extended(s, above, d, members) ==
  /\ Len(s) = Len(above) + Len(members)
  /\ \A i \in 1 .. Len(above) : s[i] = above[i]
  /\ \A i \in 1 .. Len(members) : s[Len(above) + i] = [class |-> d, name |-> members[i]]

(* The loop over the members returns a sequence, whatever it keeps, and    *)
(* all of them behind what it got if it keeps them all.                    *)
LEMMA Pushed ==
  ASSUME NEW W, NEW N, NEW above \in Seq(W), NEW d, NEW members \in Seq(N), NEW kept,
         Fits(kept, W, d, N)
  PROVE  /\ Push(above, d, members, kept) \in Seq(W)
         /\ (\A m \in N : [class |-> d, name |-> m] \in kept)
              => Extended(Push(above, d, members, kept), above, d, members)
<1> DEFINE n == Len(members)
           k == Len(above)
           Entry(i) == [class |-> d, name |-> members[i]]
<1>1. PICK push : PushesThrough(push, W, above, d, members, kept)
  BY PushLoop
<1>2. n \in Nat /\ k \in Nat /\ \A i \in 1 .. n : members[i] \in N
  BY ElementOfSeq, LenProperties
<1>3. push[n] \in Seq(W)
  BY <1>1, <1>2 DEF PushesThrough
<1>4. ASSUME \A m \in N : [class |-> d, name |-> m] \in kept
      PROVE  Extended(push[n], above, d, members)
  <2>1. \A i \in 1 .. n : Entry(i) \in kept /\ Entry(i) \in W
    BY <1>2, <1>4 DEF Fits
  <2> HIDE DEF Entry
  <2> DEFINE Good(i) == /\ Len(push[i]) = k + i
                        /\ \A j \in 1 .. k : push[i][j] = above[j]
                        /\ \A j \in 1 .. i : push[i][k + j] = Entry(j)
             T == {i \in Nat : i <= n => Good(i)}
  <2>2. 0 \in T
    BY <1>1, <1>2 DEF PushesThrough
  <2>3. ASSUME NEW i \in Nat, i \in T PROVE i + 1 \in T
    <3> SUFFICES ASSUME i + 1 <= n PROVE Good(i + 1)
      OBVIOUS
    <3>1. i + 1 \in 1 .. n /\ (i + 1) - 1 = i /\ i \in 0 .. n /\ i <= n
      BY <1>2
    <3>2. Good(i) /\ push[i] \in Seq(W)
      BY <1>1, <2>3, <3>1 DEF PushesThrough
    <3>3. push[i + 1] = Append(push[i], Entry(i + 1)) /\ Entry(i + 1) \in W
      BY <1>1, <2>1, <3>1 DEF PushesThrough, Entry
    <3>4. /\ Len(push[i + 1]) = k + i + 1
          /\ \A j \in 1 .. k + i : push[i + 1][j] = push[i][j]
          /\ push[i + 1][k + i + 1] = Entry(i + 1)
      <4>1. /\ Len(push[i + 1]) = Len(push[i]) + 1
            /\ \A j \in 1 .. Len(push[i]) : push[i + 1][j] = push[i][j]
            /\ push[i + 1][Len(push[i]) + 1] = Entry(i + 1)
        BY <3>2, <3>3, AppendProperties
      <4> QED
        BY <3>2, <4>1
    <3>5. ASSUME NEW j \in 1 .. i + 1 PROVE push[i + 1][k + j] = Entry(j)
      <4>1. CASE j = i + 1
        BY <1>2, <3>4, <4>1
      <4>2. CASE j # i + 1
        <5>1. j \in 1 .. i /\ k + j \in 1 .. k + i
          BY <1>2, <4>2
        <5> QED
          BY <3>2, <3>4, <5>1
      <4> QED
        BY <4>1, <4>2
    <3>6. ASSUME NEW j \in 1 .. k PROVE push[i + 1][j] = above[j]
      <4>1. j \in 1 .. k + i
        BY <1>2
      <4> QED
        BY <3>2, <3>4, <4>1
    <3> QED
      BY <1>2, <3>4, <3>5, <3>6
  <2>4. Nat \subseteq T
    <3> HIDE DEF T
    <3> QED
      BY <2>2, <2>3, SetInduction
  <2>5. Good(n)
    BY <1>2, <2>4
  <2> QED
    BY <2>5 DEF Extended, Entry
<1> QED
  BY <1>1, <1>3, <1>4 DEF PushesThrough

(* What a walk collects at a class is what it collects at its parent, put  *)
(* through the loop over the members of the class.                         *)
LEMMA Unrolled ==
  ASSUME Table, Acyclic, NEW N, NEW members \in [AllClass -> Seq(N)],
         NEW kept, kept \subseteq Member(N), NEW d \in AllClass
  PROVE  /\ Unroll(members, kept, d) \in Seq(Member(N))
         /\ Unroll(members, kept, d) =
              Push(IF parent[d] = NoClass THEN <<>> ELSE Unroll(members, kept, parent[d]),
                   d, members[d], kept)
<1> DEFINE V == Seq(Member(N))
           H == [c \in AllClass |-> [s \in V |-> Push(s, c, members[c], kept)]]
           Walk(f) == f = [c \in AllClass |->
                             Push(IF parent[c] = NoClass THEN <<>> ELSE f[parent[c]],
                                  c, members[c], kept)]
           unroll == CHOOSE f : Walk(f)
<1>1. ASSUME NEW c \in AllClass, NEW s \in V PROVE Push(s, c, members[c], kept) \in V
  <2>1. Fits(kept, Member(N), c, N)
    BY DEF Fits
  <2> QED
    BY <2>1, Pushed
<1>2. H \in [AllClass -> [V -> V]]
  BY <1>1
<1>3. <<>> \in V
  OBVIOUS
<1>4. PICK f : Computes(f, AllClass, parent, NoClass, V, <<>>, H)
  <2> HIDE DEF H, V
  <2> QED
    BY <1>2, <1>3, Hierarchy, ForestRecursion
<1>5. Walk(f)
  <2>1. ASSUME NEW c \in AllClass
        PROVE  f[c] = Push(IF parent[c] = NoClass THEN <<>> ELSE f[parent[c]], c, members[c], kept)
    <3> DEFINE s == IF parent[c] = NoClass THEN <<>> ELSE f[parent[c]]
    <3>1. s \in V
      BY <1>3, <1>4 DEF Computes, Table
    <3>2. f[c] = H[c][s]
      BY <1>4 DEF Computes
    <3> HIDE DEF s, V
    <3>3. f[c] = Push(s, c, members[c], kept)
      BY <3>1, <3>2
    <3> QED
      BY <3>3 DEF s
  <2>2. DOMAIN f = AllClass /\ f = [c \in AllClass |-> f[c]]
    BY <1>4 DEF Computes
  <2> QED
    BY <2>1, <2>2, Zenon
<1>6. Walk(unroll)
  <2> HIDE DEF Walk
  <2> QED
    BY <1>5
<1>7. ASSUME NEW c \in AllClass
      PROVE  unroll[c] = Push(IF parent[c] = NoClass THEN <<>> ELSE unroll[parent[c]],
                              c, members[c], kept)
  <2> HIDE DEF unroll
  <2> QED
    BY <1>6
<1>8. ASSUME NEW c \in AllClass PROVE Unroll(members, kept, c) = unroll[c]
  BY DEF Unroll
<1> HIDE DEF unroll
<1>9. AllClass \subseteq {c \in AllClass : unroll[c] \in V}
  <2> DEFINE T == {c \in AllClass : unroll[c] \in V}
  <2>1. ASSUME NEW c \in AllClass, parent[c] = NoClass \/ parent[c] \in T PROVE c \in T
    <3>1. (IF parent[c] = NoClass THEN <<>> ELSE unroll[parent[c]]) \in V
      BY <1>3, <2>1
    <3> QED
      BY <1>1, <1>7, <3>1
  <2> HIDE DEF T
  <2>2. AllClass \subseteq T
    BY <2>1, Hierarchy, ForestInduction
  <2> QED
    BY <2>2 DEF T
<1>10. parent[d] # NoClass => parent[d] \in AllClass
  BY DEF Table
<1> QED
  BY <1>7, <1>8, <1>9, <1>10

-----------------------------------------------------------------------------
(* The search for a field.                                                 *)

First(name, s) == SelectInSeq(s, LAMBDA f : f = name)
FirstNamed(name, s) == SelectInSeq(s, LAMBDA w : w.name = name)

(* The least of some numbers, or 0.                                        *)
LEMMA Selected ==
  ASSUME NEW n \in Nat, NEW I, I \subseteq 1 .. n
  PROVE  LET i == IF I # {} THEN Min(I) ELSE 0
         IN  /\ i \in 0 .. n
             /\ i > 0 => i \in I /\ \A j \in 1 .. n : j < i => j \notin I
             /\ i = 0 => I = {}
<1>1. CASE I = {}
  BY <1>1
<1>2. CASE I # {}
  <2>1. PICK m \in I : \A j \in I : m <= j
    <3>1. I \subseteq Nat
      OBVIOUS
    <3> QED
      BY <1>2, <3>1, Least
  <2>2. Min(I) \in I /\ \A j \in I : Min(I) <= j
    BY <2>1 DEF Min
  <2> DEFINE k == Min(I)
  <2>3. k \in 1 .. n
    BY <2>2
  <2>4. k > 0 /\ k # 0 /\ k \in 0 .. n /\ \A j \in 1 .. n : j < k => ~(k <= j)
    BY <2>3
  <2> QED
    BY <1>2, <2>2, <2>4
<1> QED
  BY <1>1, <1>2

(* Where a name is in a sequence of names, or of things that have names.   *)
LEMMA FirstIs ==
  ASSUME NEW N, NEW s \in Seq(N), NEW name
  PROVE  /\ First(name, s) \in 0 .. Len(s)
         /\ First(name, s) > 0 => /\ s[First(name, s)] = name
                                  /\ \A j \in 1 .. Len(s) : j < First(name, s) => s[j] # name
         /\ First(name, s) = 0 => \A j \in 1 .. Len(s) : s[j] # name
<1> DEFINE I == {i \in 1 .. Len(s) : s[i] = name}
<1>1. First(name, s) = IF I # {} THEN Min(I) ELSE 0
  BY DEF First, SelectInSeq
<1>2. Len(s) \in Nat /\ I \subseteq 1 .. Len(s)
  BY LenProperties
<1>3. \A j \in 1 .. Len(s) : j \in I <=> s[j] = name
  OBVIOUS
<1> DEFINE n == Len(s)
           k == First(name, s)
<1> HIDE DEF I, n, k
<1>4. /\ k \in 0 .. n
      /\ k > 0 => k \in I /\ \A j \in 1 .. n : j < k => j \notin I
      /\ k = 0 => I = {}
  <2>1. n \in Nat /\ I \subseteq 1 .. n
    BY <1>2 DEF n
  <2>2. k = IF I # {} THEN Min(I) ELSE 0
    BY <1>1 DEF k
  <2> QED
    BY <2>1, <2>2, Selected, Zenon
<1>5. \A j \in 1 .. n : j \in I <=> s[j] = name
  BY <1>3 DEF n
<1>6. k > 0 => k \in 1 .. n
  BY <1>2, <1>4 DEF n
<1>7. k > 0 => s[k] = name /\ \A j \in 1 .. n : j < k => s[j] # name
  BY <1>4, <1>5, <1>6, Zenon
<1>8. k = 0 => \A j \in 1 .. n : s[j] # name
  BY <1>4, <1>5
<1> QED
  BY <1>4, <1>7, <1>8, Zenon DEF n, k

LEMMA FirstNamedIs ==
  ASSUME NEW N, NEW s \in Seq(N), NEW name
  PROVE  /\ FirstNamed(name, s) \in 0 .. Len(s)
         /\ FirstNamed(name, s) > 0 =>
              /\ s[FirstNamed(name, s)].name = name
              /\ \A j \in 1 .. Len(s) : j < FirstNamed(name, s) => s[j].name # name
         /\ FirstNamed(name, s) = 0 => \A j \in 1 .. Len(s) : s[j].name # name
<1> DEFINE I == {i \in 1 .. Len(s) : s[i].name = name}
<1>1. FirstNamed(name, s) = IF I # {} THEN Min(I) ELSE 0
  BY DEF FirstNamed, SelectInSeq
<1>2. Len(s) \in Nat /\ I \subseteq 1 .. Len(s)
  BY LenProperties
<1>3. \A j \in 1 .. Len(s) : j \in I <=> s[j].name = name
  OBVIOUS
<1> DEFINE n == Len(s)
           k == FirstNamed(name, s)
<1> HIDE DEF I, n, k
<1>4. /\ k \in 0 .. n
      /\ k > 0 => k \in I /\ \A j \in 1 .. n : j < k => j \notin I
      /\ k = 0 => I = {}
  <2>1. n \in Nat /\ I \subseteq 1 .. n
    BY <1>2 DEF n
  <2>2. k = IF I # {} THEN Min(I) ELSE 0
    BY <1>1 DEF k
  <2> QED
    BY <2>1, <2>2, Selected, Zenon
<1>5. \A j \in 1 .. n : j \in I <=> s[j].name = name
  BY <1>3 DEF n
<1>6. k > 0 => k \in 1 .. n
  BY <1>2, <1>4 DEF n
<1>7. k > 0 => s[k].name = name /\ \A j \in 1 .. n : j < k => s[j].name # name
  BY <1>4, <1>5, <1>6, Zenon
<1>8. k = 0 => \A j \in 1 .. n : s[j].name # name
  BY <1>4, <1>5
<1> QED
  BY <1>4, <1>7, <1>8, Zenon DEF n, k

(* What getField does at a class with what it found at the parent.         *)
Results == [class : AllClass \cup {NoClass}, index : Nat]

Search(name, d, up) ==
  IF up.class # NoClass THEN up
  ELSE IF First(name, fields[d]) > 0
       THEN [class |-> d, index |-> up.index + First(name, fields[d]) - 1]
       ELSE [class |-> NoClass, index |-> up.index + Len(fields[d])]

LEMMA SearchTyped ==
  ASSUME Table, NEW name, NEW d \in AllClass, NEW up \in Results
  PROVE  Search(name, d, up) \in Results
<1>1. First(name, fields[d]) \in Nat /\ Len(fields[d]) \in Nat
  <2>1. fields[d] \in Seq(FieldNames)
    BY DEF Table
  <2> QED
    BY <2>1, FirstIs, LenProperties
<1>2. First(name, fields[d]) > 0 => up.index + First(name, fields[d]) - 1 \in Nat
  BY <1>1 DEF Results
<1>3. up.index + Len(fields[d]) \in Nat
  BY <1>1 DEF Results
<1> QED
  BY <1>2, <1>3 DEF Search, Results

LEMMA Searched ==
  ASSUME Table, Acyclic, NEW name, NEW start \in Nat, NEW d \in AllClass
  PROVE  /\ getField(name, start, d) \in Results
         /\ getField(name, start, d) =
              Search(name, d, IF parent[d] = NoClass THEN [class |-> NoClass, index |-> start]
                              ELSE getField(name, start, parent[d]))
<1> DEFINE base == [class |-> NoClass, index |-> start]
           H == [c \in AllClass |-> [up \in Results |-> Search(name, c, up)]]
           Body(c, up, here) ==
             CASE up.class # NoClass -> up
               [] up.class = NoClass /\ here > 0 ->
                    [class |-> c, index |-> up.index + here - 1]
               [] up.class = NoClass /\ here = 0 ->
                    [up EXCEPT !.index = @ + Len(fields[c])]
           Walk(f) == f = [c \in AllClass |->
                             Body(c, IF parent[c] = NoClass THEN base ELSE f[parent[c]],
                                  First(name, fields[c]))]
           get == CHOOSE f : Walk(f)
<1>1. ASSUME NEW c \in AllClass, NEW up \in Results
      PROVE  Body(c, up, First(name, fields[c])) = Search(name, c, up)
  <2>1. First(name, fields[c]) \in Nat
    <3>1. fields[c] \in Seq(FieldNames)
      BY DEF Table
    <3> QED
      BY <3>1, FirstIs, LenProperties
  <2>2. ASSUME up.class = NoClass, NEW n \in Nat
        PROVE  [up EXCEPT !.index = @ + n] = [class |-> NoClass, index |-> up.index + n]
    BY <2>2 DEF Results
  <2>3. Len(fields[c]) \in Nat
    BY LenProperties DEF Table
  <2> DEFINE here == First(name, fields[c])
  <2> HIDE DEF here
  <2>4. here \in Nat
    BY <2>1 DEF here
  <2>5. CASE up.class # NoClass
    BY <2>5 DEF Search, here
  <2>6. CASE up.class = NoClass /\ here > 0
    <3>1. here # 0
      BY <2>4, <2>6
    <3>2. Body(c, up, here) = [class |-> c, index |-> up.index + here - 1]
      BY <2>6, <3>1
    <3> HIDE DEF Body
    <3> QED
      BY <2>6, <3>2 DEF Search, here
  <2>7. CASE up.class = NoClass /\ here = 0
    <3>1. ~(here > 0)
      BY <2>7
    <3>2. Body(c, up, here) = [up EXCEPT !.index = @ + Len(fields[c])]
      BY <2>7, <3>1
    <3>3. Body(c, up, here) = [class |-> NoClass, index |-> up.index + Len(fields[c])]
      BY <2>2, <2>3, <2>7, <3>2
    <3> HIDE DEF Body
    <3> QED
      BY <2>7, <3>1, <3>3 DEF Search, here
  <2>8. here = 0 \/ here > 0
    BY <2>4
  <2> QED
    BY <2>5, <2>6, <2>7, <2>8 DEF here
<1>2. H \in [AllClass -> [Results -> Results]]
  BY SearchTyped
<1>3. base \in Results
  BY DEF Results
<1>4. PICK f : Computes(f, AllClass, parent, NoClass, Results, base, H)
  <2> HIDE DEF H, base
  <2> QED
    BY <1>2, <1>3, Hierarchy, ForestRecursion
<1> HIDE DEF Body, base
<1>5. Walk(f)
  <2>1. ASSUME NEW c \in AllClass
        PROVE  f[c] = Body(c, IF parent[c] = NoClass THEN base ELSE f[parent[c]],
                           First(name, fields[c]))
    <3> DEFINE up == IF parent[c] = NoClass THEN base ELSE f[parent[c]]
    <3>1. up \in Results
      BY <1>3, <1>4 DEF Computes, Table
    <3>2. f[c] = H[c][up]
      BY <1>4 DEF Computes
    <3> HIDE DEF up
    <3>3. f[c] = Body(c, up, First(name, fields[c]))
      BY <1>1, <3>1, <3>2
    <3> QED
      BY <3>3 DEF up
  <2>2. DOMAIN f = AllClass /\ f = [c \in AllClass |-> f[c]]
    BY <1>4 DEF Computes
  <2> QED
    BY <2>1, <2>2, Zenon
<1>6. Walk(get)
  <2> HIDE DEF Walk
  <2> QED
    BY <1>5
<1>7. ASSUME NEW c \in AllClass
      PROVE  get[c] = Body(c, IF parent[c] = NoClass THEN base ELSE get[parent[c]],
                           First(name, fields[c]))
  <2> HIDE DEF get
  <2> QED
    BY <1>6
<1>8. ASSUME NEW c \in AllClass PROVE getField(name, start, c) = get[c]
  BY DEF getField, First, Body, base
<1> HIDE DEF get
<1>9. AllClass \subseteq {c \in AllClass : get[c] \in Results}
  <2> DEFINE T == {c \in AllClass : get[c] \in Results}
  <2>1. ASSUME NEW c \in AllClass, parent[c] = NoClass \/ parent[c] \in T PROVE c \in T
    <3>1. (IF parent[c] = NoClass THEN base ELSE get[parent[c]]) \in Results
      BY <1>3, <2>1
    <3> QED
      BY <1>1, <1>7, <3>1, SearchTyped
  <2> HIDE DEF T
  <2>2. AllClass \subseteq T
    BY <2>1, Hierarchy, ForestInduction
  <2> QED
    BY <2>2 DEF T
<1>10. parent[d] # NoClass => parent[d] \in AllClass
  BY DEF Table
<1>11. (IF parent[d] = NoClass THEN base ELSE get[parent[d]]) \in Results
  BY <1>3, <1>9, <1>10
<1>12. get[d] = Search(name, d, IF parent[d] = NoClass THEN base ELSE get[parent[d]])
  BY <1>1, <1>7, <1>11
<1> QED
  BY <1>8, <1>9, <1>10, <1>12 DEF base

-----------------------------------------------------------------------------
(* Ancestors.                                                              *)

LEMMA Ancestry ==
  ASSUME Table, Acyclic, NEW d \in AllClass
  PROVE  /\ Ancestors(d) \subseteq AllClass
         /\ Ancestors(d) = {d} \cup IF parent[d] = NoClass THEN {} ELSE Ancestors(parent[d])
<1> DEFINE V == SUBSET AllClass
           H == [c \in AllClass |-> [S \in V |-> {c} \cup S]]
           Walk(f) == f = [c \in AllClass |->
                             {c} \cup IF parent[c] = NoClass THEN {} ELSE f[parent[c]]]
           up == CHOOSE f : Walk(f)
<1>1. H \in [AllClass -> [V -> V]] /\ {} \in V
  OBVIOUS
<1>2. PICK f : Computes(f, AllClass, parent, NoClass, V, {}, H)
  <2> HIDE DEF H, V
  <2> QED
    BY <1>1, Hierarchy, ForestRecursion
<1>3. Walk(f)
  <2>1. ASSUME NEW c \in AllClass
        PROVE  f[c] = {c} \cup IF parent[c] = NoClass THEN {} ELSE f[parent[c]]
    <3> DEFINE S == IF parent[c] = NoClass THEN {} ELSE f[parent[c]]
    <3>1. S \in V
      BY <1>1, <1>2 DEF Computes, Table
    <3>2. f[c] = H[c][S]
      BY <1>2 DEF Computes
    <3> HIDE DEF S
    <3>3. f[c] = {c} \cup S
      BY <3>1, <3>2
    <3> QED
      BY <3>3 DEF S
  <2>2. DOMAIN f = AllClass /\ f = [c \in AllClass |-> f[c]]
    BY <1>2 DEF Computes
  <2> QED
    BY <2>1, <2>2, Zenon
<1>4. Walk(up)
  <2> HIDE DEF Walk
  <2> QED
    BY <1>3
<1>5. ASSUME NEW c \in AllClass
      PROVE  up[c] = {c} \cup IF parent[c] = NoClass THEN {} ELSE up[parent[c]]
  <2> HIDE DEF up
  <2> QED
    BY <1>4
<1>6. ASSUME NEW c \in AllClass PROVE Ancestors(c) = up[c]
  BY DEF Ancestors
<1> HIDE DEF up
<1>7. AllClass \subseteq {c \in AllClass : up[c] \in V}
  <2> DEFINE T == {c \in AllClass : up[c] \in V}
  <2>1. ASSUME NEW c \in AllClass, parent[c] = NoClass \/ parent[c] \in T PROVE c \in T
    BY <1>5, <2>1
  <2> HIDE DEF T
  <2>2. AllClass \subseteq T
    BY <2>1, Hierarchy, ForestInduction
  <2> QED
    BY <2>2 DEF T
<1>8. parent[d] # NoClass => parent[d] \in AllClass
  BY DEF Table
<1> QED
  BY <1>5, <1>6, <1>7, <1>8

-----------------------------------------------------------------------------
(* The struct.                                                             *)

StructMember == {w \in Member(FieldNames) : w.name # "class"}

(* What unrollFields collects: nothing of obj, whose only field is part of *)
(* the header, and every field of the other classes behind those of the    *)
(* parent.                                                                 *)
Above(c) == IF parent[c] = NoClass THEN <<>> ELSE unrollFields(parent[c])

LEMMA FieldsUnrolled ==
  ASSUME Table, Acyclic
  PROVE  /\ unrollFields(OBJ) = <<>>
         /\ \A c \in AllClass : unrollFields(c) \in Seq(Member(FieldNames))
         /\ \A c \in Class : /\ Above(c) \in Seq(Member(FieldNames))
                             /\ Extended(unrollFields(c), Above(c), c, fields[c])
<1> DEFINE W == Member(FieldNames)
<1>1. StructMember \subseteq W /\ fields \in [AllClass -> Seq(FieldNames)]
  BY DEF StructMember, Table
<1>2. ASSUME NEW c \in AllClass
      PROVE  /\ unrollFields(c) \in Seq(W)
             /\ unrollFields(c) = Push(Above(c), c, fields[c], StructMember)
  <2>1. unrollFields(c) = Unroll(fields, StructMember, c)
    BY DEF unrollFields, StructMember, FieldNames
  <2>2. parent[c] # NoClass => unrollFields(parent[c]) = Unroll(fields, StructMember, parent[c])
    BY DEF unrollFields, StructMember, FieldNames
  <2> QED
    BY <1>1, <2>1, <2>2, Unrolled DEF Above
<1>3. ASSUME NEW c \in AllClass PROVE Above(c) \in Seq(W)
  <2>1. parent[c] # NoClass => parent[c] \in AllClass
    BY DEF Table
  <2> QED
    BY <1>2, <2>1 DEF Above
<1>4. unrollFields(OBJ) = <<>>
  <2>1. OBJ \in AllClass /\ Above(OBJ) = <<>> /\ fields[OBJ] = <<"class">>
    BY DEF AllClass, Above, Table
  <2>2. [class |-> OBJ, name |-> "class"] \notin StructMember
    BY DEF StructMember
  <2>3. <<"class">> \in Seq(FieldNames) /\ <<>> \in Seq(W) /\ Len(<<"class">>) = 1
    BY DEF FieldNames
  <2>4. Fits(StructMember, W, OBJ, FieldNames)
    BY <1>1 DEF Fits
  <2>5. PICK push : PushesThrough(push, W, <<>>, OBJ, <<"class">>, StructMember)
    BY <2>3, <2>4, PushLoop
  <2>6. push[1] = push[0] /\ push[0] = <<>>
    BY <2>2, <2>3, <2>5 DEF PushesThrough
  <2> QED
    BY <1>2, <2>1, <2>3, <2>5, <2>6 DEF PushesThrough
<1>5. ASSUME NEW c \in Class PROVE Extended(unrollFields(c), Above(c), c, fields[c])
  <2>1. c \in AllClass /\ fields[c] \in Seq(FieldName)
    BY DEF AllClass, Table
  <2>2. \A m \in FieldName : [class |-> c, name |-> m] \in StructMember
    BY <2>1, KeywordIsNoField DEF StructMember, Member, FieldNames
  <2>3. Fits(StructMember, W, c, FieldName)
    BY <1>1 DEF Fits
  <2>4. Extended(Push(Above(c), c, fields[c], StructMember), Above(c), c, fields[c])
    BY <1>3, <2>1, <2>2, <2>3, Pushed
  <2> QED
    BY <1>2, <2>1, <2>4
<1>6. \A c \in Class : c \in AllClass
  BY DEF AllClass
<1> QED
  BY <1>2, <1>3, <1>4, <1>5, <1>6

(* The result g of a search for f and the place of f among the words u     *)
(* behind the header: the walks that find them count alike.                *)
InPlace(g, f, u) ==
  /\ g.class = NoClass => /\ g.index = 2 + Len(u)
                         /\ \A i \in 1 .. Len(u) : u[i].name # f
  /\ g.class # NoClass => /\ g.index - 1 \in 1 .. Len(u)
                         /\ u[g.index - 1].name = f
                         /\ \A i \in 1 .. Len(u) : i < g.index - 1 => u[i].name # f

(* One class further down they still do.                                   *)
LEMMA StaysInPlace ==
  ASSUME Table, NEW c \in Class, NEW f \in FieldName, NEW up \in Results,
         NEW above \in Seq(Member(FieldNames)), InPlace(up, f, above),
         NEW u \in Seq(Member(FieldNames)), Extended(u, above, c, fields[c])
  PROVE  InPlace(Search(f, c, up), f, u)
<1> DEFINE g == Search(f, c, up)
           k == Len(above)
           n == Len(fields[c])
           here == First(f, fields[c])
<1>1. k \in Nat /\ n \in Nat /\ Len(u) = k + n
  BY LenProperties DEF Extended, Table
<1>2. /\ here \in 0 .. n
      /\ here > 0 => /\ fields[c][here] = f
                     /\ \A j \in 1 .. n : j < here => fields[c][j] # f
      /\ here = 0 => \A j \in 1 .. n : fields[c][j] # f
  <2>1. fields[c] \in Seq(FieldName)
    BY DEF Table
  <2> QED
    BY <2>1, FirstIs
<1>3. /\ \A i \in 1 .. k : u[i] = above[i]
      /\ \A i \in 1 .. n : u[k + i].name = fields[c][i]
  <2>1. \A i \in 1 .. n : u[k + i] = [class |-> c, name |-> fields[c][i]]
    BY DEF Extended
  <2> HIDE DEF n, k
  <2>2. ASSUME NEW i \in 1 .. n PROVE u[k + i].name = fields[c][i]
    <3>1. \A x : [class |-> c, name |-> x].name = x
      OBVIOUS
    <3> QED
      BY <2>1, <3>1, Zenon
  <2> QED
    BY <2>2 DEF Extended, k
<1>4. up.index \in Nat
  BY DEF Results
<1>5. ASSUME NEW i \in 1 .. k + n
      PROVE  i \in 1 .. k \/ (i - k \in 1 .. n /\ u[i].name = fields[c][i - k])
  <2>1. CASE i <= k
    BY <1>1, <2>1
  <2>2. CASE ~(i <= k)
    <3>1. i - k \in 1 .. n /\ k + (i - k) = i
      BY <1>1, <2>2
    <3> QED
      BY <1>3, <3>1
  <2> QED
    BY <2>1, <2>2
<1>6. CASE up.class # NoClass
  <2>1. g = up
    BY <1>6 DEF Search
  <2>2. up.index - 1 \in 1 .. k /\ above[up.index - 1].name = f
        /\ \A i \in 1 .. k : i < up.index - 1 => above[i].name # f
    BY <1>6 DEF InPlace
  <2>3. up.index - 1 \in 1 .. Len(u)
    BY <1>1, <1>4, <2>2
  <2>4. u[up.index - 1].name = f
    BY <1>3, <2>2
  <2>5. ASSUME NEW i \in 1 .. Len(u), i < up.index - 1 PROVE u[i].name # f
    <3>1. i \in 1 .. k
      BY <1>1, <1>4, <2>2, <2>5
    <3> QED
      BY <1>3, <2>2, <2>5, <3>1
  <2> QED
    BY <1>6, <2>1, <2>3, <2>4, <2>5 DEF InPlace
<1>7. CASE up.class = NoClass
  <2>1. up.index = 2 + k /\ \A i \in 1 .. k : above[i].name # f
    BY <1>7 DEF InPlace
  <2>2. CASE here > 0
    <3>1. g.class = c /\ g.index = up.index + here - 1
      BY <1>7, <2>2 DEF Search
    <3>2. c # NoClass
      BY ClassNames
    <3>3. g.index - 1 = k + here /\ here \in 1 .. n
      BY <1>1, <1>2, <1>4, <2>1, <2>2, <3>1
    <3>4. k + here \in 1 .. Len(u)
      BY <1>1, <3>3
    <3>5. u[k + here].name = f
      BY <1>2, <1>3, <2>2, <3>3
    <3>6. ASSUME NEW i \in 1 .. Len(u), i < k + here PROVE u[i].name # f
      <4>1. CASE i \in 1 .. k
        BY <1>3, <2>1, <4>1
      <4>2. CASE i - k \in 1 .. n /\ u[i].name = fields[c][i - k]
        <5>1. i - k < here
          BY <1>1, <1>2, <3>6
        <5> QED
          BY <1>2, <2>2, <4>2, <5>1
      <4> QED
        BY <1>1, <1>5, <4>1, <4>2
    <3> HIDE DEF g, k, here
    <3>7. g.index - 1 \in 1 .. Len(u) /\ u[g.index - 1].name = f
      BY <3>3, <3>4, <3>5
    <3>8. \A i \in 1 .. Len(u) : i < g.index - 1 => u[i].name # f
      BY <3>3, <3>6
    <3>9. InPlace(g, f, u)
      BY <3>1, <3>2, <3>7, <3>8 DEF InPlace
    <3> QED
      BY <3>9 DEF g
  <2>3. CASE here = 0
    <3>1. g.class = NoClass /\ g.index = up.index + n
      BY <1>7, <2>3 DEF Search
    <3>2. g.index = 2 + Len(u)
      <4> HIDE DEF g, k, n
      <4> QED
        BY <1>1, <2>1, <3>1
    <3>3. ASSUME NEW i \in 1 .. Len(u) PROVE u[i].name # f
      <4>1. CASE i \in 1 .. k
        BY <1>3, <2>1, <4>1
      <4>2. CASE i - k \in 1 .. n /\ u[i].name = fields[c][i - k]
        BY <1>2, <2>3, <4>2
      <4> QED
        BY <1>1, <1>5, <4>1, <4>2
    <3> HIDE DEF g
    <3>4. InPlace(g, f, u)
      BY <3>1, <3>2, <3>3, Zenon DEF InPlace
    <3> QED
      BY <3>4 DEF g
  <2>4. here = 0 \/ here > 0
    BY <1>1, <1>2
  <2> QED
    BY <2>2, <2>3, <2>4
<1> QED
  BY <1>6, <1>7

(* So they do in every class that descends from obj.                       *)
LEMMA FieldPlaces ==
  ASSUME Table, Acyclic, NEW c \in AllClass, Rooted(c), NEW f \in FieldName
  PROVE  InPlace(getField(f, 1, c), f, unrollFields(c))
<1> DEFINE T == {d \in AllClass : Rooted(d) => InPlace(getField(f, 1, d), f, unrollFields(d))}
           base == [class |-> NoClass, index |-> 1]
<1>1. ASSUME NEW d \in AllClass, parent[d] = NoClass \/ parent[d] \in T PROVE d \in T
  <2> SUFFICES ASSUME Rooted(d) PROVE InPlace(getField(f, 1, d), f, unrollFields(d))
    OBVIOUS
  <2>1. CASE d = OBJ
    <3>1. getField(f, 1, OBJ) = Search(f, OBJ, base)
      BY <2>1, Searched DEF Table
    <3>2. First(f, fields[OBJ]) = 0
      <4>1. fields[OBJ] \in Seq(FieldNames) /\ fields[OBJ] = <<"class">>
        BY <2>1 DEF Table
      <4>2. Len(fields[OBJ]) = 1 /\ fields[OBJ][1] # f
        BY <4>1, KeywordIsNoField
      <4>3. /\ First(f, fields[OBJ]) \in 0 .. 1
            /\ First(f, fields[OBJ]) > 0 => fields[OBJ][First(f, fields[OBJ])] = f
        BY <4>1, <4>2, FirstIs
      <4> QED
        BY <4>2, <4>3
    <3>3. getField(f, 1, OBJ) = [class |-> NoClass, index |-> 1 + 1]
      <4>1. Len(fields[OBJ]) = 1
        BY DEF Table
      <4> QED
        BY <3>1, <3>2, <4>1 DEF Search
    <3>4. getField(f, 1, OBJ).class = NoClass /\ getField(f, 1, OBJ).index = 2
      BY <3>3
    <3>5. unrollFields(OBJ) = <<>> /\ Len(<<>>) = 0
      BY FieldsUnrolled
    <3> QED
      BY <2>1, <3>4, <3>5 DEF InPlace
  <2>2. CASE d # OBJ
    <3>1. d \in Class
      BY <2>2 DEF AllClass
    <3>2. parent[d] # NoClass /\ parent[d] \in T /\ Rooted(parent[d])
      BY <1>1, <2>2, Ancestry DEF Rooted
    <3>3. parent[d] \in AllClass
      BY <3>2
    <3>4. getField(f, 1, d) = Search(f, d, getField(f, 1, parent[d]))
          /\ getField(f, 1, parent[d]) \in Results
      BY <3>2, <3>3, Searched
    <3>5. Above(d) = unrollFields(parent[d])
      BY <3>2 DEF Above
    <3>6. InPlace(getField(f, 1, parent[d]), f, Above(d))
      BY <3>2, <3>5
    <3>7. /\ Above(d) \in Seq(Member(FieldNames))
          /\ unrollFields(d) \in Seq(Member(FieldNames))
          /\ Extended(unrollFields(d), Above(d), d, fields[d])
      BY <3>1, FieldsUnrolled
    <3> QED
      BY <3>1, <3>4, <3>6, <3>7, StaysInPlace
  <2> QED
    BY <2>1, <2>2
<1>2. AllClass \subseteq T
  <2> HIDE DEF T
  <2> QED
    BY <1>1, Hierarchy, ForestInduction
<1> QED
  BY <1>2

(* A name that an ancestor declares is found.                              *)
LEMMA FieldsFound ==
  ASSUME Table, Acyclic, NEW c \in AllClass, NEW f \in FieldsOf(c)
  PROVE  getField(f, 1, c).class # NoClass
<1> DEFINE T == {d \in AllClass : (\E a \in Ancestors(d) : f \in Range(fields[a]))
                                     => getField(f, 1, d).class # NoClass}
           base == [class |-> NoClass, index |-> 1]
<1>1. ASSUME NEW d \in AllClass, parent[d] = NoClass \/ parent[d] \in T PROVE d \in T
  <2> SUFFICES ASSUME NEW a \in Ancestors(d), f \in Range(fields[a])
               PROVE  getField(f, 1, d).class # NoClass
    OBVIOUS
  <2> DEFINE up == IF parent[d] = NoClass THEN base ELSE getField(f, 1, parent[d])
  <2>1. getField(f, 1, d) = Search(f, d, up)
    BY Searched
  <2>2. CASE up.class # NoClass
    BY <2>1, <2>2 DEF Search
  <2>3. CASE up.class = NoClass
    <3>1. a = d
      <4>1. parent[d] # NoClass => parent[d] \in AllClass /\ a \notin Ancestors(parent[d])
        BY <1>1, <2>3
      <4> QED
        BY <4>1, Ancestry
    <3>2. First(f, fields[d]) > 0
      <4>1. fields[d] \in Seq(FieldNames)
        BY DEF Table
      <4>2. PICK i \in DOMAIN fields[d] : fields[d][i] = f
        BY <3>1 DEF Range
      <4>3. i \in 1 .. Len(fields[d])
        BY <4>1, <4>2
      <4>4. First(f, fields[d]) \in Nat /\ First(f, fields[d]) # 0
        BY <4>1, <4>2, <4>3, FirstIs, LenProperties
      <4> QED
        BY <4>4
    <3>3. Search(f, d, up).class = d
      BY <2>3, <3>2 DEF Search
    <3> QED
      BY <2>1, <3>3, ClassNames DEF AllClass
  <2> QED
    BY <2>2, <2>3
<1>2. AllClass \subseteq T
  <2> HIDE DEF T
  <2> QED
    BY <1>1, Hierarchy, ForestInduction
<1> QED
  BY <1>2 DEF FieldsOf

(* What a search finds in an ancestor it finds in the class.               *)
LEMMA AncestorsFirst ==
  ASSUME Table, Acyclic, NEW f, NEW c \in AllClass, NEW a \in Ancestors(c),
         getField(f, 1, a).class # NoClass
  PROVE  getField(f, 1, c) = getField(f, 1, a)
<1> DEFINE T == {d \in AllClass : a \in Ancestors(d) => getField(f, 1, d) = getField(f, 1, a)}
<1>1. ASSUME NEW d \in AllClass, parent[d] = NoClass \/ parent[d] \in T PROVE d \in T
  <2> SUFFICES ASSUME a \in Ancestors(d), a # d PROVE getField(f, 1, d) = getField(f, 1, a)
    OBVIOUS
  <2>1. parent[d] # NoClass /\ a \in Ancestors(parent[d])
    BY Ancestry
  <2>2. getField(f, 1, parent[d]) = getField(f, 1, a)
    BY <1>1, <2>1
  <2>3. getField(f, 1, d) = Search(f, d, getField(f, 1, parent[d]))
    BY <2>1, Searched
  <2> QED
    BY <2>2, <2>3 DEF Search
<1>2. AllClass \subseteq T
  <2> HIDE DEF T
  <2> QED
    BY <1>1, Hierarchy, ForestInduction
<1> QED
  BY <1>2

(* A field is where getFieldPtr says.                                      *)
LEMMA IndexesRight == Table /\ Acyclic => FieldAtItsIndex
<1> SUFFICES ASSUME Table, Acyclic, NEW c \in Class, Rooted(c), NEW f \in FieldsOf(c)
             PROVE  /\ FirstNamed(f, unrollFields(c)) > 0
                    /\ getFieldPtr(f, c) = RefWord + FirstNamed(f, unrollFields(c))
  BY DEF FieldAtItsIndex, FirstNamed
<1> DEFINE u == unrollFields(c)
           g == getField(f, 1, c)
           place == FirstNamed(f, u)
<1>1. c \in AllClass /\ f \in FieldName
  BY DEF AllClass, FieldsOf
<1>2. u \in Seq(Member(FieldNames)) /\ g \in Results
  BY <1>1, FieldsUnrolled, Searched
<1>3. InPlace(g, f, u) /\ g.class # NoClass
  BY <1>1, FieldPlaces, FieldsFound
<1>4. /\ place \in 0 .. Len(u)
      /\ place > 0 => u[place].name = f /\ \A j \in 1 .. Len(u) : j < place => u[j].name # f
      /\ place = 0 => \A j \in 1 .. Len(u) : u[j].name # f
  BY <1>2, FirstNamedIs
<1>5. g.index \in Nat /\ Len(u) \in Nat
  BY <1>2, LenProperties DEF Results
<1>6. getFieldPtr(f, c) = g.index
  BY DEF getFieldPtr
<1> HIDE DEF u, g, place
<1>7. /\ g.index - 1 \in 1 .. Len(u) /\ u[g.index - 1].name = f
      /\ \A i \in 1 .. Len(u) : i < g.index - 1 => u[i].name # f
  BY <1>3 DEF InPlace
<1>8. place > 0
  BY <1>4, <1>5, <1>7
<1>9. place = g.index - 1
  BY <1>4, <1>5, <1>7, <1>8
<1>10. g.index = RefWord + place
  BY <1>5, <1>9 DEF RefWord
<1> QED
  BY <1>6, <1>8, <1>10 DEF u, place

(* The struct of a class is a prefix of the structs of its subclasses.     *)
LEMMA StructPrefix ==
  ASSUME Table, Acyclic, NEW c \in AllClass, NEW a \in Ancestors(c)
  PROVE  /\ Len(unrollFields(a)) <= Len(unrollFields(c))
         /\ \A i \in 1 .. Len(unrollFields(a)) : unrollFields(c)[i] = unrollFields(a)[i]
<1> DEFINE Before(d) ==
             /\ Len(unrollFields(a)) <= Len(unrollFields(d))
             /\ \A i \in 1 .. Len(unrollFields(a)) : unrollFields(d)[i] = unrollFields(a)[i]
           T == {d \in AllClass : a \in Ancestors(d) => Before(d)}
<1>1. ASSUME NEW d \in AllClass PROVE Len(unrollFields(d)) \in Nat
  BY FieldsUnrolled, LenProperties
<1>2. ASSUME NEW d \in AllClass, parent[d] = NoClass \/ parent[d] \in T PROVE d \in T
  <2> SUFFICES ASSUME a \in Ancestors(d) PROVE Before(d)
    OBVIOUS
  <2>1. CASE a = d
    BY <1>1, <2>1
  <2>2. CASE a # d
    <3>1. parent[d] # NoClass /\ a \in Ancestors(parent[d]) /\ parent[d] \in AllClass
      BY <2>2, Ancestry DEF Table
    <3>2. Before(parent[d]) /\ a \in AllClass
      BY <1>2, <3>1, Ancestry
    <3>3. d \in Class
      BY <3>1 DEF Table, AllClass
    <3>4. Extended(unrollFields(d), unrollFields(parent[d]), d, fields[d])
      BY <3>1, <3>3, FieldsUnrolled DEF Above
    <3>5. Len(fields[d]) \in Nat
      BY LenProperties DEF Table
    <3> DEFINE x == Len(unrollFields(a))
               y == Len(unrollFields(parent[d]))
    <3>6. x \in Nat /\ y \in Nat /\ x <= y /\ Len(unrollFields(d)) = y + Len(fields[d])
      BY <1>1, <3>1, <3>2, <3>4 DEF Extended
    <3>7. \A i \in 1 .. y : unrollFields(d)[i] = unrollFields(parent[d])[i]
      BY <3>4 DEF Extended
    <3>8. \A i \in 1 .. x : unrollFields(parent[d])[i] = unrollFields(a)[i]
      BY <3>2
    <3> HIDE DEF x, y
    <3>9. x <= y + Len(fields[d]) /\ \A i \in 1 .. x : i \in 1 .. y
      BY <3>5, <3>6
    <3>10. \A i \in 1 .. x : unrollFields(d)[i] = unrollFields(a)[i]
      BY <3>7, <3>8, <3>9
    <3> QED
      BY <3>6, <3>9, <3>10 DEF x
  <2> QED
    BY <2>1, <2>2
<1>3. AllClass \subseteq T
  <2> HIDE DEF T
  <2> QED
    BY <1>2, Hierarchy, ForestInduction
<1> QED
  BY <1>3

LEMMA PrefixBehindHeader ==
  ASSUME NEW W, NEW h \in Seq(W), NEW u \in Seq(W), NEW v \in Seq(W),
         Len(u) <= Len(v), \A i \in 1 .. Len(u) : v[i] = u[i]
  PROVE  IsPrefix(h \o u, h \o v)
<1> DEFINE s == h \o u
           t == h \o v
           n == Len(s)
<1>1. /\ s \in Seq(W) /\ Len(s) = Len(h) + Len(u)
      /\ \A i \in 1 .. Len(h) + Len(u) : s[i] = IF i <= Len(h) THEN h[i] ELSE u[i - Len(h)]
  BY ConcatProperties
<1>2. /\ t \in Seq(W) /\ Len(t) = Len(h) + Len(v)
      /\ \A i \in 1 .. Len(h) + Len(v) : t[i] = IF i <= Len(h) THEN h[i] ELSE v[i - Len(h)]
  BY ConcatProperties
<1>3. Len(h) \in Nat /\ Len(u) \in Nat /\ Len(v) \in Nat
  BY LenProperties
<1> HIDE DEF s, t
<1>4. n \in Nat /\ n <= Len(t)
  BY <1>1, <1>2, <1>3
<1>5. ASSUME NEW i \in 1 .. n PROVE s[i] = t[i]
  <2>1. CASE i <= Len(h)
    <3>1. i \in 1 .. Len(h) + Len(u) /\ i \in 1 .. Len(h) + Len(v)
      BY <1>3, <2>1
    <3>2. s[i] = h[i] /\ t[i] = h[i]
      BY <1>1, <1>2, <2>1, <3>1
    <3> QED
      BY <3>2
  <2>2. CASE ~(i <= Len(h))
    <3>1. i - Len(h) \in 1 .. Len(u) /\ i \in 1 .. Len(h) + Len(u) /\ i \in 1 .. Len(h) + Len(v)
      BY <1>1, <1>3, <2>2
    <3>2. s[i] = u[i - Len(h)] /\ t[i] = v[i - Len(h)]
      BY <1>1, <1>2, <2>2, <3>1
    <3> QED
      BY <3>1, <3>2
  <2> QED
    BY <2>1, <2>2
<1>6. /\ SubSeq(s, 1, n) \in Seq(W) /\ Len(SubSeq(s, 1, n)) = n
      /\ \A i \in 1 .. n : SubSeq(s, 1, n)[i] = s[i]
  BY <1>1, <1>4
<1>7. /\ SubSeq(t, 1, n) \in Seq(W) /\ Len(SubSeq(t, 1, n)) = n
      /\ \A i \in 1 .. n : SubSeq(t, 1, n)[i] = t[i]
  BY <1>2, <1>4
<1>8. SubSeq(s, 1, n) = SubSeq(t, 1, n)
  BY <1>5, <1>6, <1>7, SeqEqual
<1> QED
  BY <1>4, <1>8 DEF IsPrefix, s, t

(* The code of an ancestor can be used on the objects of a class.          *)
LEMMA LayoutsCompatible == Table /\ Acyclic => PrefixLayout
<1> SUFFICES ASSUME Table, Acyclic, NEW c \in AllClass, NEW a \in Ancestors(c)
             PROVE  /\ IsPrefix(getObjectType(a), getObjectType(c))
                    /\ \A f \in FieldsOf(a) : getFieldPtr(f, a) = getFieldPtr(f, c)
  BY DEF PrefixLayout
<1>1. a \in AllClass
  BY Ancestry
<1>2. IsPrefix(getObjectType(a), getObjectType(c))
  <2> DEFINE W == Member(FieldNames \cup {"refcount"})
             h == <<[class |-> OBJ, name |-> "class"], [class |-> OBJ, name |-> "refcount"]>>
  <2>1. h \in Seq(W)
    <3> DEFINE x == [class |-> OBJ, name |-> "class"]
               y == [class |-> OBJ, name |-> "refcount"]
    <3>1. x \in W /\ y \in W
      BY DEF Member, FieldNames, AllClass
    <3> HIDE DEF x, y, W
    <3>2. <<x, y>> \in Seq(W)
      BY <3>1
    <3> QED
      BY <3>2 DEF x, y
  <2>2. unrollFields(a) \in Seq(W) /\ unrollFields(c) \in Seq(W)
    <3>1. Member(FieldNames) \subseteq W
      BY DEF Member
    <3> QED
      BY <1>1, <3>1, FieldsUnrolled, SeqMonotonic
  <2> HIDE DEF h, W
  <2>3. IsPrefix(h \o unrollFields(a), h \o unrollFields(c))
    BY <2>1, <2>2, StructPrefix, PrefixBehindHeader
  <2> QED
    BY <2>3 DEF getObjectType, h
<1>3. ASSUME NEW f \in FieldsOf(a) PROVE getFieldPtr(f, a) = getFieldPtr(f, c)
  <2>1. getField(f, 1, a).class # NoClass
    BY <1>1, FieldsFound
  <2>2. getField(f, 1, c) = getField(f, 1, a)
    BY <2>1, AncestorsFirst
  <2> QED
    BY <2>2 DEF getFieldPtr
<1> QED
  BY <1>2, <1>3

-----------------------------------------------------------------------------
(* What an object that is laid out like this can rely on.                  *)

(* The first word of an object is out of the reach of its fields.          *)
LEMMA IndexPositive ==
  ASSUME Table, Acyclic, NEW f, NEW c \in AllClass
  PROVE  getField(f, 1, c).index >= 1
<1> DEFINE T == {d \in AllClass : getField(f, 1, d).index >= 1}
           base == [class |-> NoClass, index |-> 1]
<1>1. ASSUME NEW d \in AllClass, parent[d] = NoClass \/ parent[d] \in T PROVE d \in T
  <2> DEFINE up == IF parent[d] = NoClass THEN base ELSE getField(f, 1, parent[d])
             here == First(f, fields[d])
             n == Len(fields[d])
  <2>1. getField(f, 1, d) = Search(f, d, up)
    BY Searched
  <2>2. up \in Results /\ up.index >= 1
    <3>1. CASE parent[d] = NoClass
      BY <3>1 DEF Results
    <3>2. CASE parent[d] # NoClass
      BY <1>1, <3>2, Searched DEF Table
    <3> QED
      BY <3>1, <3>2
  <2>3. up.index \in Nat
    BY <2>2 DEF Results
  <2>4. here \in Nat /\ n \in Nat
    <3>1. fields[d] \in Seq(FieldNames)
      BY DEF Table
    <3> QED
      BY <3>1, FirstIs, LenProperties
  <2> HIDE DEF up, here, n
  <2>5. /\ \A i \in Nat, h \in Nat : i >= 1 /\ h > 0 => i + h - 1 >= 1
        /\ \A i \in Nat, h \in Nat : i >= 1 => i + h >= 1
    OBVIOUS
  <2>6. CASE up.class # NoClass
    BY <2>1, <2>2, <2>6 DEF Search
  <2>7. CASE up.class = NoClass /\ here > 0
    <3>1. Search(f, d, up).index = up.index + here - 1
      BY <2>7 DEF Search, here
    <3> QED
      BY <2>1, <2>2, <2>3, <2>4, <2>5, <2>7, <3>1
  <2>8. CASE up.class = NoClass /\ ~(here > 0)
    <3>1. Search(f, d, up).index = up.index + n
      BY <2>8 DEF Search, here, n
    <3> QED
      BY <2>1, <2>2, <2>3, <2>4, <2>5, <3>1
  <2> QED
    BY <2>6, <2>7, <2>8
<1>2. AllClass \subseteq T
  <2> HIDE DEF T
  <2> QED
    BY <1>1, Hierarchy, ForestInduction
<1> QED
  BY <1>2

(* The parent of an ancestor is an ancestor.                               *)
LEMMA ParentIsAncestor ==
  ASSUME Table, Acyclic, NEW c \in AllClass, NEW a \in Ancestors(c), parent[a] # NoClass
  PROVE  parent[a] \in Ancestors(c)
<1> DEFINE T == {d \in AllClass : a \in Ancestors(d) => parent[a] \in Ancestors(d)}
<1>1. ASSUME NEW d \in AllClass, parent[d] = NoClass \/ parent[d] \in T PROVE d \in T
  <2> SUFFICES ASSUME a \in Ancestors(d) PROVE parent[a] \in Ancestors(d)
    OBVIOUS
  <2>1. CASE a = d
    <3>1. parent[d] \in AllClass /\ parent[d] \in Ancestors(parent[d])
      BY <2>1, Ancestry DEF Table
    <3> QED
      BY <2>1, <3>1, Ancestry
  <2>2. CASE a # d
    <3>1. parent[d] # NoClass /\ a \in Ancestors(parent[d])
      BY <2>2, Ancestry
    <3>2. parent[a] \in Ancestors(parent[d])
      BY <1>1, <3>1
    <3> QED
      BY <3>1, <3>2, Ancestry
  <2> QED
    BY <2>1, <2>2
<1>2. AllClass \subseteq T
  <2> HIDE DEF T
  <2> QED
    BY <1>1, Hierarchy, ForestInduction
<1> QED
  BY <1>2

(* No class is an ancestor of its parent.                                  *)
LEMMA NotOwnAncestor ==
  ASSUME Table, Acyclic, NEW c \in AllClass, parent[c] # NoClass
  PROVE  c \notin Ancestors(parent[c])
<1> SUFFICES ASSUME c \in Ancestors(parent[c]) PROVE FALSE
  OBVIOUS
<1> DEFINE S == {d \in AllClass : c \in Ancestors(d)}
<1>1. ASSUME NEW d \in S PROVE parent[d] \in S
  <2>1. CASE d = c
    BY <2>1 DEF Table
  <2>2. CASE d # c
    BY <2>2, Ancestry DEF Table
  <2> QED
    BY <2>1, <2>2
<1>2. S # {} /\ S \in SUBSET AllClass
  BY Ancestry
<1> HIDE DEF S
<1> QED
  BY <1>1, <1>2 DEF Acyclic

(* The words behind the header are the fields of ancestors.                *)
LEMMA WordsAreFields ==
  ASSUME Table, Acyclic, NEW c \in AllClass, NEW i \in 1 .. Len(unrollFields(c))
  PROVE  \E a \in Ancestors(c) : \E j \in 1 .. Len(fields[a]) :
           a \in Class /\ unrollFields(c)[i].name = fields[a][j]
<1> DEFINE Named(d, k) == \E a \in Ancestors(d) : \E j \in 1 .. Len(fields[a]) :
                            a \in Class /\ unrollFields(d)[k].name = fields[a][j]
           T == {d \in AllClass : \A k \in 1 .. Len(unrollFields(d)) : Named(d, k)}
<1>1. ASSUME NEW d \in AllClass, parent[d] = NoClass \/ parent[d] \in T PROVE d \in T
  <2> SUFFICES ASSUME NEW k \in 1 .. Len(unrollFields(d)) PROVE Named(d, k)
    OBVIOUS
  <2>1. d \in Class
    BY FieldsUnrolled DEF AllClass
  <2>2. /\ Above(d) \in Seq(Member(FieldNames))
        /\ Extended(unrollFields(d), Above(d), d, fields[d])
    BY <2>1, FieldsUnrolled
  <2>3. Len(Above(d)) \in Nat /\ Len(fields[d]) \in Nat
    BY <2>2, LenProperties DEF Table
  <2>4. CASE k <= Len(Above(d))
    <3>1. k \in 1 .. Len(Above(d)) /\ unrollFields(d)[k] = Above(d)[k]
      BY <2>2, <2>3, <2>4 DEF Extended
    <3>2. parent[d] # NoClass
      BY <3>1 DEF Above
    <3>3. Above(d) = unrollFields(parent[d]) /\ parent[d] \in T
      BY <1>1, <3>2 DEF Above
    <3>4. Named(parent[d], k)
      BY <3>1, <3>3
    <3>5. Ancestors(parent[d]) \subseteq Ancestors(d)
      BY <3>2, Ancestry
    <3> QED
      BY <3>1, <3>3, <3>4, <3>5
  <2>5. CASE ~(k <= Len(Above(d)))
    <3> DEFINE j == k - Len(Above(d))
    <3>1. j \in 1 .. Len(fields[d]) /\ Len(Above(d)) + j = k
      BY <2>2, <2>3, <2>5 DEF Extended
    <3>2. unrollFields(d)[k] = [class |-> d, name |-> fields[d][j]]
      BY <2>2, <3>1 DEF Extended
    <3>3. unrollFields(d)[k].name = fields[d][j]
      BY <3>2
    <3>4. d \in Ancestors(d)
      BY Ancestry
    <3> HIDE DEF j
    <3> QED
      BY <2>1, <3>1, <3>3, <3>4
  <2> QED
    BY <2>4, <2>5
<1>2. AllClass \subseteq T
  <2> HIDE DEF T
  <2> QED
    BY <1>1, Hierarchy, ForestInduction
<1> QED
  BY <1>2

(* The layout of a class does not change while the table does not.         *)
LEMMA LayoutUnchanged ==
  ASSUME UNCHANGED table, NEW c, NEW f
  PROVE  /\ Ancestors(c)' = Ancestors(c) /\ Rooted(c)' = Rooted(c)
         /\ unrollFields(c)' = unrollFields(c) /\ Above(c)' = Above(c)
         /\ getFieldPtr(f, c)' = getFieldPtr(f, c)
<1>1. parent' = parent /\ fields' = fields /\ methods' = methods
  BY DEF table
<1>2. Ancestors(c)' = Ancestors(c)
  BY <1>1, SMT DEF Ancestors
<1>3. Rooted(c)' = Rooted(c)
  BY <1>1, SMT DEF Rooted, Ancestors
<1>4. unrollFields(c)' = unrollFields(c)
  BY <1>1, SMT DEF unrollFields, Unroll, Push, Member
<1>5. Above(c)' = Above(c)
  BY <1>1, SMT DEF Above, unrollFields, Unroll, Push, Member
<1>6. getFieldPtr(f, c)' = getFieldPtr(f, c)
  BY <1>1, SMT DEF getFieldPtr, getField
<1> QED
  BY <1>2, <1>3, <1>4, <1>5, <1>6

-----------------------------------------------------------------------------
(* The vtable.                                                             *)

ValueMethod == {w \in VirtualMethod : w.name # "kill"}
Kill == [class |-> OBJ, name |-> "kill"]
Methods == Member(MethodNames)

(* What the two walks over the methods collect, by what they collect above.*)
Types(c) == IF parent[c] = NoClass THEN <<>> ELSE unrollVtable(parent[c])
Values(c) == IF parent[c] = NoClass THEN <<>> ELSE unrollVtableValues(parent[c])

LEMMA MethodsUnrolled ==
  ASSUME Table, Acyclic, NEW c \in AllClass
  PROVE  /\ unrollVtable(c) \in Seq(Methods) /\ unrollVtableValues(c) \in Seq(Methods)
         /\ Types(c) \in Seq(Methods) /\ Values(c) \in Seq(Methods)
         /\ unrollVtable(c) = Push(Types(c), c, methods[c], VirtualMethod)
         /\ unrollVtableValues(c) = Push(Values(c), c, methods[c], ValueMethod)
<1>1. /\ VirtualMethod \subseteq Methods /\ ValueMethod \subseteq Methods
      /\ methods \in [AllClass -> Seq(MethodNames)]
  BY DEF VirtualMethod, ValueMethod, Methods, MethodNames, Table
<1>2. ASSUME NEW d \in AllClass
      PROVE  /\ unrollVtable(d) \in Seq(Methods)
             /\ unrollVtable(d) = Push(Types(d), d, methods[d], VirtualMethod)
  <2>1. unrollVtable(d) = Unroll(methods, VirtualMethod, d)
    BY DEF unrollVtable
  <2>2. parent[d] # NoClass => unrollVtable(parent[d]) = Unroll(methods, VirtualMethod, parent[d])
    BY DEF unrollVtable
  <2>3. /\ Unroll(methods, VirtualMethod, d) \in Seq(Member(MethodNames))
        /\ Unroll(methods, VirtualMethod, d) =
             Push(IF parent[d] = NoClass THEN <<>> ELSE Unroll(methods, VirtualMethod, parent[d]),
                  d, methods[d], VirtualMethod)
    BY <1>1, Unrolled, Zenon DEF Methods
  <2> QED
    BY <2>1, <2>2, <2>3, Zenon DEF Types, Methods
<1>3. ASSUME NEW d \in AllClass
      PROVE  /\ unrollVtableValues(d) \in Seq(Methods)
             /\ unrollVtableValues(d) = Push(Values(d), d, methods[d], ValueMethod)
  <2>1. unrollVtableValues(d) = Unroll(methods, ValueMethod, d)
    BY DEF unrollVtableValues, ValueMethod
  <2>2. parent[d] # NoClass => unrollVtableValues(parent[d]) = Unroll(methods, ValueMethod, parent[d])
    BY DEF unrollVtableValues, ValueMethod
  <2>3. /\ Unroll(methods, ValueMethod, d) \in Seq(Member(MethodNames))
        /\ Unroll(methods, ValueMethod, d) =
             Push(IF parent[d] = NoClass THEN <<>> ELSE Unroll(methods, ValueMethod, parent[d]),
                  d, methods[d], ValueMethod)
    BY <1>1, Unrolled, Zenon DEF Methods
  <2> QED
    BY <2>1, <2>2, <2>3, Zenon DEF Values, Methods
<1>4. parent[c] # NoClass => parent[c] \in AllClass
  BY DEF Table
<1> QED
  BY <1>2, <1>3, <1>4 DEF Types, Values

(* For obj, the type has an entry for the destructor and the values have   *)
(* none: it is what getClassVTableValue puts before them.                  *)
LEMMA RootVtable ==
  ASSUME Table, Acyclic
  PROVE  unrollVtable(OBJ) = <<Kill>> /\ unrollVtableValues(OBJ) = <<>>
<1> DEFINE M == <<"init", "kill">>
           Init1 == [class |-> OBJ, name |-> "init"]
<1>1. OBJ \in AllClass /\ methods[OBJ] = M /\ Types(OBJ) = <<>> /\ Values(OBJ) = <<>>
  BY DEF AllClass, Table, Types, Values
<1>2. /\ Kill \in VirtualMethod /\ Kill \notin ValueMethod
      /\ Init1 \notin VirtualMethod /\ Init1 \notin ValueMethod
  <2>1. Kill \in Member(MethodNames) /\ Kill.class = OBJ /\ Kill.name = "kill"
    BY DEF Kill, Member, MethodNames, AllClass
  <2>2. Init1.class = OBJ /\ Init1.name = "init"
    OBVIOUS
  <2> HIDE DEF Init1
  <2> QED
    BY <2>1, <2>2 DEF VirtualMethod, ValueMethod, Virtual, MethodNames
<1>3. M \in Seq(MethodNames) /\ Len(M) = 2 /\ M[1] = "init" /\ M[2] = "kill"
  BY DEF MethodNames
<1>4. <<>> \in Seq(Methods)
  OBVIOUS
<1>5. Fits(VirtualMethod, Methods, OBJ, MethodNames) /\ Fits(ValueMethod, Methods, OBJ, MethodNames)
  BY DEF Fits, VirtualMethod, ValueMethod, Methods, MethodNames
<1> HIDE DEF M
<1>6. PICK t : PushesThrough(t, Methods, <<>>, OBJ, M, VirtualMethod)
  BY <1>3, <1>4, <1>5, PushLoop
<1>7. PICK v : PushesThrough(v, Methods, <<>>, OBJ, M, ValueMethod)
  BY <1>3, <1>4, <1>5, PushLoop
<1>8. t[0] = <<>> /\ t[1] = t[0] /\ t[2] = Append(t[1], Kill)
  BY <1>2, <1>3, <1>6 DEF PushesThrough, Kill
<1>9. v[0] = <<>> /\ v[1] = v[0] /\ v[2] = v[1]
  BY <1>2, <1>3, <1>7 DEF PushesThrough, Kill
<1>10. Append(<<>>, Kill) = <<Kill>>
  OBVIOUS
<1>11. unrollVtable(OBJ) = t[2] /\ unrollVtableValues(OBJ) = v[2]
  BY <1>1, <1>3, <1>6, <1>7, MethodsUnrolled DEF PushesThrough
<1> QED
  BY <1>8, <1>9, <1>10, <1>11

(* The entries t of a vtable's type are the destructor and the entries v.  *)
KillThen(t, v) ==
  /\ Len(t) = Len(v) + 1
  /\ t[1] = Kill
  /\ \A i \in 1 .. Len(v) : t[i + 1] = v[i]

(* A class without a method named kill adds the same entries to both.      *)
LEMMA BothExtended ==
  ASSUME NEW t \in Seq(Methods), NEW v \in Seq(Methods), KillThen(t, v),
         NEW d, NEW members \in Seq(MethodNames),
         NEW t2, NEW v2, Extended(t2, t, d, members), Extended(v2, v, d, members)
  PROVE  KillThen(t2, v2)
<1> DEFINE k == Len(v)
           n == Len(members)
           e == [i \in 1 .. n |-> [class |-> d, name |-> members[i]]]
<1>1. k \in Nat /\ n \in Nat /\ Len(t) = k + 1
  BY LenProperties DEF KillThen
<1>2. /\ Len(t2) = (k + 1) + n
      /\ \A i \in 1 .. k + 1 : t2[i] = t[i]
      /\ \A i \in 1 .. n : t2[(k + 1) + i] = e[i]
  <2>1. \A i \in 1 .. n : t2[Len(t) + i] = e[i]
    BY DEF Extended
  <2> HIDE DEF e, n, k
  <2> QED
    BY <1>1, <2>1 DEF Extended, n
<1>3. /\ Len(v2) = k + n
      /\ \A i \in 1 .. k : v2[i] = v[i]
      /\ \A i \in 1 .. n : v2[k + i] = e[i]
  BY DEF Extended
<1>4. t[1] = Kill /\ \A i \in 1 .. k : t[i + 1] = v[i]
  BY DEF KillThen
<1> HIDE DEF k, n, e
<1>5. ASSUME NEW i \in 1 .. Len(v2) PROVE t2[i + 1] = v2[i]
  <2>1. CASE i <= k
    <3>1. i \in 1 .. k /\ i + 1 \in 1 .. k + 1
      BY <1>1, <2>1
    <3> QED
      BY <1>2, <1>3, <1>4, <3>1
  <2>2. CASE ~(i <= k)
    <3>1. i - k \in 1 .. n /\ k + (i - k) = i /\ (k + 1) + (i - k) = i + 1
      BY <1>1, <1>3, <2>2
    <3> QED
      BY <1>2, <1>3, <3>1
  <2> QED
    BY <2>1, <2>2
<1>6. 1 \in 1 .. k + 1 /\ Len(t2) = Len(v2) + 1
  BY <1>1, <1>2, <1>3
<1> QED
  BY <1>2, <1>4, <1>5, <1>6 DEF KillThen

LEMMA VtablesFit == Table /\ Acyclic => VtableFitsItsType
<1> SUFFICES ASSUME Table, Acyclic PROVE VtableFitsItsType
  OBVIOUS
<1> DEFINE Fit(d) == KillThen(unrollVtable(d), unrollVtableValues(d))
           T == {d \in AllClass : Rooted(d) /\ NoUserKill(d) => Fit(d)}
<1>1. ASSUME NEW d \in AllClass, parent[d] = NoClass \/ parent[d] \in T PROVE d \in T
  <2> SUFFICES ASSUME Rooted(d), NoUserKill(d) PROVE Fit(d)
    OBVIOUS
  <2>1. CASE d = OBJ
    <3>1. /\ Len(<<Kill>>) = 1 /\ <<Kill>>[1] = Kill
          /\ Len(<<>>) = 0
      OBVIOUS
    <3>2. KillThen(<<Kill>>, <<>>)
      BY <3>1 DEF KillThen
    <3> QED
      BY <2>1, <3>2, RootVtable
  <2>2. CASE d # OBJ
    <3>1. d \in Class
      BY <2>2 DEF AllClass
    <3>2. parent[d] # NoClass /\ parent[d] \in AllClass
      BY <2>2, Ancestry DEF Rooted, Table
    <3>3. Rooted(parent[d]) /\ NoUserKill(parent[d])
      BY <2>2, <3>2, Ancestry DEF Rooted, NoUserKill
    <3>4. Fit(parent[d]) /\ Types(d) = unrollVtable(parent[d]) /\ Values(d) = unrollVtableValues(parent[d])
      BY <1>1, <3>2, <3>3 DEF Types, Values
    <3> DEFINE N == MethodName \ {"kill"}
    <3>5. methods[d] \in Seq(N) /\ methods[d] \in Seq(MethodNames)
      <4>1. methods[d] \in Seq(MethodName) /\ d \in Ancestors(d)
        BY <3>1, Ancestry DEF Table
      <4>2. "kill" \notin Range(methods[d])
        BY <2>2, <4>1 DEF NoUserKill
      <4>3. Len(methods[d]) \in Nat /\ methods[d] \in [1 .. Len(methods[d]) -> MethodName]
        BY <4>1, LenProperties
      <4>4. \A i \in 1 .. Len(methods[d]) : methods[d][i] \in N
        BY <4>2, <4>3 DEF Range
      <4>5. methods[d] \in [1 .. Len(methods[d]) -> N]
        BY <4>3, <4>4
      <4>6. methods[d] \in Seq(N)
        BY <4>3, <4>5, SeqDef
      <4> QED
        BY <4>6 DEF Table
    <3>6. ASSUME NEW m \in N
          PROVE  [class |-> d, name |-> m] \in VirtualMethod /\ [class |-> d, name |-> m] \in ValueMethod
      <4>1. [class |-> d, name |-> m] \in Member(MethodName \cup {"init", "kill"})
        BY DEF Member
      <4>2. [class |-> d, name |-> m].class = d /\ [class |-> d, name |-> m].name = m
        OBVIOUS
      <4> QED
        BY <2>2, <4>1, <4>2 DEF VirtualMethod, ValueMethod, Virtual
    <3>7. Fits(VirtualMethod, Methods, d, N) /\ Fits(ValueMethod, Methods, d, N)
      BY DEF Fits, VirtualMethod, ValueMethod, Methods, MethodNames
    <3> HIDE DEF N
    <3>8. /\ Types(d) \in Seq(Methods) /\ Values(d) \in Seq(Methods)
          /\ unrollVtable(d) = Push(Types(d), d, methods[d], VirtualMethod)
          /\ unrollVtableValues(d) = Push(Values(d), d, methods[d], ValueMethod)
      BY MethodsUnrolled
    <3>9. Extended(unrollVtable(d), Types(d), d, methods[d])
      BY <3>5, <3>6, <3>7, <3>8, Pushed
    <3>10. Extended(unrollVtableValues(d), Values(d), d, methods[d])
      BY <3>5, <3>6, <3>7, <3>8, Pushed
    <3>11. KillThen(Types(d), Values(d))
      BY <3>4
    <3> QED
      BY <3>5, <3>8, <3>9, <3>10, <3>11, BothExtended
  <2> QED
    BY <2>1, <2>2
<1>2. AllClass \subseteq T
  <2> HIDE DEF T
  <2> QED
    BY <1>1, Hierarchy, ForestInduction
<1>3. ASSUME NEW c \in Class, Rooted(c), NoUserKill(c)
      PROVE  getClassVTableValue(c) = unrollVtable(c)
  <2>1. c \in AllClass
    BY DEF AllClass
  <2> DEFINE t == unrollVtable(c)
             v == unrollVtableValues(c)
             k == <<Kill>>
  <2>2. KillThen(t, v)
    BY <1>2, <1>3, <2>1
  <2>3. t \in Seq(Methods) /\ v \in Seq(Methods)
    BY <2>1, MethodsUnrolled
  <2>4. k \in Seq(Methods) /\ Len(k) = 1 /\ k[1] = Kill
    <3>1. Kill \in Methods
      BY DEF Kill, Methods, Member, MethodNames, AllClass
    <3> QED
      BY <3>1
  <2> HIDE DEF t, v, k
  <2>5. Len(v) \in Nat /\ Len(t) = Len(v) + 1 /\ t[1] = Kill
        /\ \A i \in 1 .. Len(v) : t[i + 1] = v[i]
    BY <2>2, <2>3, LenProperties DEF KillThen
  <2>6. /\ k \o v \in Seq(Methods) /\ Len(k \o v) = Len(k) + Len(v)
        /\ \A i \in 1 .. Len(k) + Len(v) :
             (k \o v)[i] = IF i <= Len(k) THEN k[i] ELSE v[i - Len(k)]
    BY <2>3, <2>4, ConcatProperties
  <2>7. ASSUME NEW i \in 1 .. Len(t) PROVE (k \o v)[i] = t[i]
    <3>1. CASE i = 1
      BY <2>4, <2>5, <2>6, <3>1
    <3>2. CASE i # 1
      <4>1. /\ i - 1 \in 1 .. Len(v) /\ (i - 1) + 1 = i
            /\ i \in 1 .. 1 + Len(v) /\ ~(i <= 1)
        BY <2>5, <3>2
      <4>2. (k \o v)[i] = v[i - 1]
        BY <2>4, <2>6, <4>1
      <4> QED
        BY <2>5, <4>1, <4>2
    <3> QED
      BY <3>1, <3>2
  <2>8. Len(t) = Len(k \o v)
    BY <2>4, <2>5, <2>6
  <2>9. k \o v = t
    BY <2>3, <2>6, <2>7, <2>8, SeqEqual
  <2> QED
    BY <2>9 DEF getClassVTableValue, t, v, k, Kill
<1> QED
  BY <1>3 DEF VtableFitsItsType

-----------------------------------------------------------------------------
(* The passes.                                                             *)

(* Names are complete before the first parent is looked up, and nothing    *)
(* touches the parent of a class that the second pass has visited.         *)
ParentsRight ==
  /\ pass = "names" => visited = {}
  /\ \A c \in visited : parent[c] = lookupClassName(extends[c])

(* The root stays as the compiler made it, and code is generated only for  *)
(* a hierarchy without a cycle.                                            *)
TableKept ==
  /\ Table
  /\ visited \subseteq Class
  /\ Generating => Acyclic

TableIInv == TableTypeOK /\ ParentsRight /\ TableKept

(* A sequence of members stays one when a member is appended to it.        *)
LEMMA AppendMember ==
  ASSUME NEW S, NEW T, NEW f \in [S -> Seq(T)], NEW s \in S, NEW e \in T
  PROVE  [f EXCEPT ![s] = Append(@, e)] \in [S -> Seq(T)]
  OBVIOUS

(* The initial table has its types, and no class is visited.               *)
LEMMA InductiveInit == TableInit => TableIInv
<1> SUFFICES ASSUME TableInit PROVE TableIInv
  OBVIOUS
<1>1. fields \in [AllClass -> Seq(FieldName \cup {"class"})]
  <2>1. <<"class">> \in Seq(FieldName \cup {"class"})
    OBVIOUS
  <2>2. <<>> \in Seq(FieldName \cup {"class"})
    OBVIOUS
  <2> QED
    BY <2>1, <2>2 DEF TableInit
<1>2. methods \in [AllClass -> Seq(MethodName \cup {"init", "kill"})]
  <2>1. <<"init", "kill">> \in Seq(MethodName \cup {"init", "kill"})
    OBVIOUS
  <2>2. <<>> \in Seq(MethodName \cup {"init", "kill"})
    OBVIOUS
  <2> QED
    BY <2>1, <2>2 DEF TableInit
<1>3. TableTypeOK
  BY <1>1, <1>2 DEF TableInit, TableTypeOK, AllClass
<1>4. ParentsRight
  BY DEF TableInit, ParentsRight
<1>5. TableKept
  <2>1. OBJ \in AllClass /\ \A c \in Class : c \in AllClass /\ c # OBJ
    BY ClassNames DEF AllClass
  <2>2. /\ parent[OBJ] = NoClass /\ fields[OBJ] = <<"class">>
        /\ methods[OBJ] = <<"init", "kill">>
    BY <2>1 DEF TableInit
  <2>3. \A c \in Class : fields[c] = <<>> /\ methods[c] = <<>>
    BY <2>1 DEF TableInit
  <2>4. <<>> \in Seq(FieldName) /\ <<>> \in Seq(MethodName)
    OBVIOUS
  <2>5. parent \in [AllClass -> AllClass \cup {NoClass}] /\ visited = {} /\ ~Generating
    BY DEF TableInit, Generating
  <2> QED
    BY <1>1, <1>2, <2>2, <2>3, <2>4, <2>5 DEF TableKept, Table, FieldNames, MethodNames
<1> QED
  BY <1>3, <1>4, <1>5 DEF TableIInv

(* Every step keeps the types.                                             *)
LEMMA TableTypeStep == TableIInv /\ [TableNext]_tableVars => TableTypeOK'
<1> SUFFICES ASSUME TableIInv, [TableNext]_tableVars PROVE TableTypeOK'
  OBVIOUS
<1> USE DEF TableIInv, TableTypeOK
<1>1. ASSUME NEW c \in Class, DefineClass(c) PROVE TableTypeOK'
  BY <1>1 DEF DefineClass, table, AllClass
<1>2. ASSUME NEW c \in Class, SetParent(c) PROVE TableTypeOK'
  <2>1. lookupClassName(extends[c]) \in AllClass \cup {NoClass}
    BY DEF lookupClassName
  <2> QED
    BY <1>2, <2>1 DEF SetParent, AllClass
<1>3. CASE EndNames
  BY <1>3 DEF EndNames, table
<1>4. ASSUME NEW f \in FieldName, AddField(f) PROVE TableTypeOK'
  <2>1. current \in AllClass
    BY <1>4 DEF AddField
  <2>2. fields' \in [AllClass -> Seq(FieldName \cup {"class"})]
    BY <1>4, <2>1, AppendMember DEF AddField
  <2> QED
    BY <1>4, <2>2 DEF AddField
<1>5. ASSUME NEW m \in MethodName, AddMethod(m) PROVE TableTypeOK'
  <2>1. current \in AllClass
    BY <1>5 DEF AddMethod
  <2>2. methods' \in [AllClass -> Seq(MethodName \cup {"init", "kill"})]
    BY <1>5, <2>1, AppendMember DEF AddMethod
  <2> QED
    BY <1>5, <2>2 DEF AddMethod
<1>6. CASE EndMembers
  BY <1>6 DEF EndMembers, table
<1>7. CASE Stopped \/ UNCHANGED tableVars
  BY <1>7 DEF Stopped, tableVars, table
<1> QED
  BY <1>1, <1>2, <1>3, <1>4, <1>5, <1>6, <1>7 DEF TableNext

(* Every step keeps the parents: while names are being defined no class is *)
(* visited, and later the set of names does not change.                    *)
LEMMA ParentsStep == TableIInv /\ [TableNext]_tableVars => ParentsRight'
<1> SUFFICES ASSUME TableIInv, [TableNext]_tableVars PROVE ParentsRight'
  OBVIOUS
<1> USE DEF TableIInv, ParentsRight, lookupClassName
<1>1. ASSUME NEW c \in Class, DefineClass(c) PROVE ParentsRight'
  BY <1>1 DEF DefineClass
<1>2. ASSUME NEW c \in Class, SetParent(c) PROVE ParentsRight'
  <2>1. parent \in [AllClass -> AllClass \cup {NoClass}] /\ c \in AllClass
    BY DEF TableTypeOK, AllClass
  <2>2. visited \subseteq AllClass
    BY DEF TableTypeOK
  <2>3. ASSUME NEW d \in visited' PROVE (parent[d] = lookupClassName(extends[d]))'
    <3>1. CASE d = c
      BY <1>2, <2>1, <3>1 DEF SetParent
    <3>2. CASE d # c
      BY <1>2, <2>1, <2>2, <2>3, <3>2 DEF SetParent
    <3> QED
      BY <3>1, <3>2
  <2> QED
    BY <1>2, <2>3 DEF SetParent
<1>3. CASE EndNames
  BY <1>3 DEF EndNames, table
<1>4. ASSUME NEW f \in FieldName, AddField(f) PROVE ParentsRight'
  BY <1>4 DEF AddField
<1>5. ASSUME NEW m \in MethodName, AddMethod(m) PROVE ParentsRight'
  BY <1>5 DEF AddMethod
<1>6. CASE EndMembers
  BY <1>6 DEF EndMembers, table
<1>7. CASE Stopped \/ UNCHANGED tableVars
  BY <1>7 DEF Stopped, tableVars, table
<1> QED
  BY <1>1, <1>2, <1>3, <1>4, <1>5, <1>6, <1>7 DEF TableNext

(* Every step keeps the root and ends in a table that walks can use.       *)
LEMMA TableKeptStep == TableIInv /\ [TableNext]_tableVars => TableKept'
<1> SUFFICES ASSUME TableIInv, [TableNext]_tableVars PROVE TableKept'
  OBVIOUS
<1> USE DEF TableIInv, TableKept, Generating
<1>1. TableTypeOK'
  BY TableTypeStep
<1>2. ASSUME UNCHANGED table, visited' \subseteq Class, pass' = "codegen" => Acyclic
      PROVE  TableKept'
  <2>1. Table'
    BY <1>2 DEF table, Table
  <2>2. (Generating => Acyclic)'
    BY <1>2 DEF table, Acyclic
  <2> QED
    BY <1>2, <2>1, <2>2
<1>3. ASSUME NEW c \in Class, DefineClass(c) PROVE TableKept'
  BY <1>2, <1>3 DEF DefineClass
<1>4. ASSUME NEW c \in Class, SetParent(c) PROVE TableKept'
  <2>1. Table'
    <3>1. c # OBJ /\ OBJ \in AllClass
      BY ClassNames DEF AllClass
    <3>2. parent' \in [AllClass -> AllClass \cup {NoClass}] /\ parent'[OBJ] = NoClass
      BY <1>1, <1>4, <3>1 DEF SetParent, Table, TableTypeOK
    <3> QED
      BY <1>4, <3>2 DEF SetParent, Table
  <2> QED
    BY <1>4, <2>1 DEF SetParent
<1>5. CASE EndNames
  BY <1>2, <1>5 DEF EndNames
<1>6. ASSUME NEW f \in FieldName, AddField(f) PROVE TableKept'
  <2>1. Table'
    <3>1. current \in Class /\ current # OBJ /\ current \in AllClass
      BY <1>6, ClassNames DEF AddField, TableTypeOK, AllClass
    <3>2. fields' \in [AllClass -> Seq(FieldNames)]
      BY <1>1 DEF TableTypeOK, FieldNames
    <3>3. fields' = [fields EXCEPT ![current] = Append(fields[current], f)]
      BY <1>6 DEF AddField
    <3>4. fields'[OBJ] = <<"class">>
      BY <3>1, <3>3 DEF Table, AllClass
    <3>5. ASSUME NEW c \in Class PROVE fields'[c] \in Seq(FieldName)
      <4>1. fields[c] \in Seq(FieldName) /\ c \in AllClass
        BY DEF Table, AllClass
      <4>2. Append(fields[c], f) \in Seq(FieldName)
        BY <4>1
      <4>3. fields'[c] = IF c = current THEN Append(fields[c], f) ELSE fields[c]
        BY <3>3, <4>1 DEF Table
      <4> QED
        BY <4>1, <4>2, <4>3
    <3> QED
      BY <1>6, <3>2, <3>4, <3>5 DEF AddField, Table
  <2> QED
    BY <1>6, <2>1 DEF AddField
<1>7. ASSUME NEW m \in MethodName, AddMethod(m) PROVE TableKept'
  <2>1. Table'
    <3>1. current \in Class /\ current # OBJ /\ current \in AllClass
      BY <1>7, ClassNames DEF AddMethod, TableTypeOK, AllClass
    <3>2. methods' \in [AllClass -> Seq(MethodNames)]
      BY <1>1 DEF TableTypeOK, MethodNames
    <3>3. methods' = [methods EXCEPT ![current] = Append(methods[current], m)]
      BY <1>7 DEF AddMethod
    <3>4. methods'[OBJ] = <<"init", "kill">>
      BY <3>1, <3>3 DEF Table, AllClass
    <3>5. ASSUME NEW c \in Class PROVE methods'[c] \in Seq(MethodName)
      <4>1. methods[c] \in Seq(MethodName) /\ c \in AllClass
        BY DEF Table, AllClass
      <4>2. Append(methods[c], m) \in Seq(MethodName)
        BY <4>1
      <4>3. methods'[c] = IF c = current THEN Append(methods[c], m) ELSE methods[c]
        BY <3>3, <4>1 DEF Table
      <4> QED
        BY <4>1, <4>2, <4>3
    <3> QED
      BY <1>7, <3>2, <3>4, <3>5 DEF AddMethod, Table
  <2> QED
    BY <1>7, <2>1 DEF AddMethod
<1>8. CASE EndMembers
  BY <1>2, <1>8 DEF EndMembers
<1>9. CASE Stopped \/ UNCHANGED tableVars
  BY <1>2, <1>9 DEF Stopped, tableVars
<1> QED
  BY <1>3, <1>4, <1>5, <1>6, <1>7, <1>8, <1>9 DEF TableNext

LEMMA TableStepwise == TableIInv /\ [TableNext]_tableVars => TableIInv'
  BY TableTypeStep, ParentsStep, TableKeptStep DEF TableIInv

LEMMA TableInductive == TableSpec => []TableIInv
  BY InductiveInit, TableStepwise, PTL DEF TableSpec

(* The passes keep the types of the table, whatever is declared.           *)
THEOREM TableTypes == TableSpec => []TableTypeOK
<1>1. TableIInv => TableTypeOK
  BY DEF TableIInv
<1> QED
  BY TableInductive, <1>1, PTL

(* When code generation starts, every class whose parent exists has it,    *)
(* also when the parent is declared after it.                              *)
THEOREM ParentsResolved == TableSpec => []ForwardParents
<1>1. TableIInv => ForwardParents
  BY DEF TableIInv, ParentsRight, ForwardParents, lookupClassName
<1> QED
  BY TableInductive, <1>1, PTL

(* When code generation starts, the index that getField computes for a     *)
(* field is its place in the struct that unrollFields builds.              *)
THEOREM IndexesAgree == TableSpec => []FieldIndexesRight
<1>1. TableIInv => FieldIndexesRight
  BY IndexesRight DEF TableIInv, TableKept, FieldIndexesRight
<1> QED
  BY TableInductive, <1>1, PTL

(* Then the code of a class can run on the objects of its subclasses: its  *)
(* struct is a prefix of theirs, and fields have the same indexes in both. *)
THEOREM SubclassesFit == TableSpec => []SubclassesCompatible
<1>1. TableIInv => SubclassesCompatible
  BY LayoutsCompatible DEF TableIInv, TableKept, SubclassesCompatible
<1> QED
  BY TableInductive, <1>1, PTL

(* And the values of the vtable of a class are those that its type asks    *)
(* for, if no class but obj has a method that is named kill.               *)
THEOREM VtablesCanBeBuilt == TableSpec => []VtablesBuildable
<1>1. TableIInv => VtablesBuildable
  BY VtablesFit DEF TableIInv, TableKept, VtablesBuildable
<1> QED
  BY TableInductive, <1>1, PTL

-----------------------------------------------------------------------------
(* The life of an object: the stack of generated functions.                *)

(* A frame goes on at another place when its callee returns.               *)
LEMMA Called ==
  ASSUME NEW S, NEW s \in Seq(S), Len(s) >= 1, NEW x \in S, NEW y \in S
  PROVE  LET r == Append(Append(SubSeq(s, 1, Len(s) - 1), x), y)
         IN  /\ r \in Seq(S) /\ Len(r) = Len(s) + 1 /\ r[Len(s) + 1] = y /\ r[Len(s)] = x
             /\ \A i \in 1 .. Len(s) - 1 : r[i] = s[i]
<1> DEFINE q == Append(SubSeq(s, 1, Len(s) - 1), x)
<1>1. /\ q \in Seq(S) /\ Len(q) = Len(s) /\ q[Len(s)] = x
      /\ \A i \in 1 .. Len(s) - 1 : q[i] = s[i]
  BY Replaced
<1> HIDE DEF q
<1>2. /\ Append(q, y) \in Seq(S) /\ Len(Append(q, y)) = Len(q) + 1
      /\ \A i \in 1 .. Len(q) : Append(q, y)[i] = q[i]
      /\ Append(q, y)[Len(q) + 1] = y
  BY <1>1, AppendProperties
<1>3. Len(s) \in Nat
  BY LenProperties
<1>4. Len(s) \in 1 .. Len(s) /\ \A i \in 1 .. Len(s) - 1 : i \in 1 .. Len(s)
  BY <1>3
<1> QED
  BY <1>1, <1>2, <1>4 DEF q

(* The names of the fields of an object are all different if the program   *)
(* uses none twice.                                                        *)
LEMMA DistinctNames ==
  ASSUME Table, Acyclic, NEW c \in AllClass, Distinct(c),
         NEW p \in 1 .. Len(unrollFields(c)), NEW q \in 1 .. Len(unrollFields(c)),
         unrollFields(c)[p].name = unrollFields(c)[q].name
  PROVE  p = q
<1> DEFINE One(d) == \A i, j \in 1 .. Len(unrollFields(d)) :
                       unrollFields(d)[i].name = unrollFields(d)[j].name => i = j
           T == {d \in AllClass : Distinct(d) => One(d)}
<1>1. ASSUME NEW d \in AllClass, parent[d] = NoClass \/ parent[d] \in T PROVE d \in T
  <2> SUFFICES ASSUME Distinct(d) PROVE One(d)
    OBVIOUS
  <2>1. CASE d = OBJ
    <3>1. unrollFields(d) = <<>> /\ Len(<<>>) = 0
      BY <2>1, FieldsUnrolled
    <3> QED
      BY <3>1
  <2>2. CASE d # OBJ
    <3>1. d \in Class
      BY <2>2 DEF AllClass
    <3> DEFINE u == unrollFields(d)
               v == Above(d)
               k == Len(v)
               n == Len(fields[d])
    <3>2. v \in Seq(Member(FieldNames)) /\ Extended(u, v, d, fields[d])
      BY <3>1, FieldsUnrolled
    <3>3. k \in Nat /\ n \in Nat /\ Len(u) = k + n /\ DOMAIN fields[d] = 1 .. n
      BY <3>2, LenProperties DEF Extended, Table
    <3>4. \A i \in 1 .. n : u[k + i].name = fields[d][i]
      <4>1. \A i \in 1 .. n : u[k + i] = [class |-> d, name |-> fields[d][i]]
        BY <3>2 DEF Extended
      <4>2. \A x : [class |-> d, name |-> x].name = x
        OBVIOUS
      <4> QED
        BY <4>1, <4>2, Zenon
    <3>5. \A i \in 1 .. k : u[i] = v[i]
      BY <3>2 DEF Extended
    <3>6. d \in Ancestors(d)
      BY Ancestry
    <3>7. \A i, j \in 1 .. n : fields[d][i] = fields[d][j] => i = j
      BY <3>3, <3>6 DEF Distinct
    <3>8. ASSUME parent[d] # NoClass
          PROVE  /\ \A i, j \in 1 .. k : v[i].name = v[j].name => i = j
                 /\ \A i \in 1 .. k, j \in 1 .. n : v[i].name # fields[d][j]
      <4>1. v = unrollFields(parent[d]) /\ parent[d] \in AllClass
        BY <3>8 DEF Above, Table
      <4>2. Ancestors(parent[d]) \subseteq Ancestors(d)
        BY <3>8, Ancestry
      <4>3. Distinct(parent[d])
        BY <4>2 DEF Distinct
      <4>4. One(parent[d])
        BY <1>1, <3>8, <4>3
      <4>5. ASSUME NEW i \in 1 .. k, NEW j \in 1 .. n PROVE v[i].name # fields[d][j]
        <5>0. PICK a \in Ancestors(parent[d]) :
                \E m \in 1 .. Len(fields[a]) : v[i].name = fields[a][m]
          <6>1. i \in 1 .. Len(unrollFields(parent[d]))
            BY <4>1
          <6>2. \E a \in Ancestors(parent[d]) : \E m \in 1 .. Len(fields[a]) :
                  a \in Class /\ unrollFields(parent[d])[i].name = fields[a][m]
            BY <4>1, <6>1, WordsAreFields
          <6> QED
            BY <4>1, <6>2, Zenon
        <5>1. PICK m \in 1 .. Len(fields[a]) : v[i].name = fields[a][m]
          BY <5>0
        <5>2. a # d
          BY <3>8, NotOwnAncestor
        <5>3. a \in Ancestors(d) /\ a \in AllClass
          BY <4>1, <4>2, Ancestry
        <5>4. m \in DOMAIN fields[a] /\ j \in DOMAIN fields[d]
          BY <3>3, <5>3, LenProperties DEF Table
        <5> QED
          BY <3>6, <5>1, <5>2, <5>3, <5>4 DEF Distinct
      <4> QED
        BY <4>1, <4>4, <4>5
    <3>9. \A i \in 1 .. k : parent[d] # NoClass
      <4>1. parent[d] = NoClass => k = 0
        BY DEF Above
      <4> QED
        BY <4>1
    <3> HIDE DEF u, v, k, n
    <3>10. ASSUME NEW i \in 1 .. Len(u), NEW j \in 1 .. Len(u), u[i].name = u[j].name, i <= j
           PROVE  i = j
      <4>1. CASE j <= k
        <5>1. i \in 1 .. k /\ j \in 1 .. k
          BY <3>3, <3>10, <4>1
        <5> QED
          BY <3>5, <3>8, <3>9, <3>10, <5>1
      <4>2. CASE ~(j <= k)
        <5>1. j - k \in 1 .. n /\ k + (j - k) = j
          BY <3>3, <3>10, <4>2
        <5>2. u[j].name = fields[d][j - k]
          BY <3>4, <5>1
        <5>3. CASE i <= k
          <6>1. i \in 1 .. k
            BY <3>3, <5>3
          <6> QED
            BY <3>5, <3>8, <3>9, <3>10, <5>1, <5>2, <6>1
        <5>4. CASE ~(i <= k)
          <6>1. i - k \in 1 .. n /\ k + (i - k) = i
            BY <3>3, <5>4
          <6>2. u[i].name = fields[d][i - k]
            BY <3>4, <6>1
          <6>3. i - k = j - k
            BY <3>7, <3>10, <5>1, <5>2, <6>1, <6>2
          <6> QED
            BY <5>1, <6>1, <6>3
        <5> QED
          BY <5>3, <5>4
      <4> QED
        BY <4>1, <4>2
    <3>11. ASSUME NEW i \in 1 .. Len(u), NEW j \in 1 .. Len(u), u[i].name = u[j].name
           PROVE  i = j
      <4>1. i <= j \/ j <= i
        BY <3>3
      <4> QED
        BY <3>10, <3>11, <4>1
    <3> QED
      BY <3>11 DEF u
  <2> QED
    BY <2>1, <2>2
<1>2. AllClass \subseteq T
  <2> HIDE DEF T
  <2> QED
    BY <1>1, Hierarchy, ForestInduction
<1> QED
  BY <1>2

(* The words that an init function clears are those of its own fields, in  *)
(* an object of any subclass.                                              *)
LEMMA OwnIndex ==
  ASSUME Table, Acyclic, NEW t \in AllClass, Distinct(t), NEW c \in Class, c \in Ancestors(t),
         Rooted(c), NEW j \in 1 .. Len(fields[c])
  PROVE  getFieldPtr(fields[c][j], c) = RefWord + (Len(Above(c)) + j)
<1> DEFINE u == unrollFields(c)
           w == unrollFields(t)
           k == Len(Above(c))
           f == fields[c][j]
           g == getField(f, 1, c)
<1>1. c \in AllClass /\ f \in FieldName /\ f \in FieldsOf(c)
  <2>1. c \in AllClass /\ fields[c] \in Seq(FieldName) /\ c \in Ancestors(c)
    BY Ancestry DEF AllClass, Table
  <2>2. f \in FieldName /\ j \in DOMAIN fields[c]
    BY <2>1, LenProperties
  <2>3. f \in Range(fields[c])
    BY <2>2 DEF Range
  <2> HIDE DEF f
  <2> QED
    BY <2>1, <2>2, <2>3 DEF FieldsOf
<1>2. u[k + j].name = f /\ Len(u) = k + Len(fields[c])
  <2>1. Extended(u, Above(c), c, fields[c])
    BY FieldsUnrolled
  <2>2. u[k + j] = [class |-> c, name |-> f]
    BY <2>1 DEF Extended
  <2> QED
    BY <2>1, <2>2 DEF Extended
<1>3. k \in Nat /\ Len(fields[c]) \in Nat
  <2>1. Above(c) \in Seq(Member(FieldNames)) /\ fields[c] \in Seq(FieldNames)
    BY <1>1, FieldsUnrolled DEF Table
  <2> QED
    BY <2>1, LenProperties
<1>4. g.index - 1 \in 1 .. Len(u) /\ u[g.index - 1].name = f
  <2>1. InPlace(g, f, u) /\ g.class # NoClass
    BY <1>1, FieldPlaces, FieldsFound
  <2> QED
    BY <2>1 DEF InPlace
<1>5. k + j \in 1 .. Len(u)
  BY <1>2, <1>3
<1>6. Len(u) <= Len(w) /\ \A i \in 1 .. Len(u) : w[i] = u[i]
  BY StructPrefix
<1>7. Len(w) \in Nat
  BY FieldsUnrolled, LenProperties
<1>8. g.index \in Nat
  BY <1>1, Searched DEF Results
<1> HIDE DEF u, w, k, f, g
<1>9. g.index - 1 \in 1 .. Len(w) /\ k + j \in 1 .. Len(w) /\ w[g.index - 1].name = w[k + j].name
  <2>1. g.index - 1 \in 1 .. Len(w) /\ k + j \in 1 .. Len(w)
    BY <1>4, <1>5, <1>6, <1>7
  <2>2. w[g.index - 1] = u[g.index - 1] /\ w[k + j] = u[k + j]
    BY <1>4, <1>5, <1>6
  <2> QED
    BY <1>2, <1>4, <2>1, <2>2
<1>10. g.index - 1 = k + j
  BY <1>9, DistinctNames DEF w
<1>11. getFieldPtr(f, c) = g.index
  BY DEF getFieldPtr, g
<1>12. g.index = 1 + (k + j)
  BY <1>3, <1>8, <1>10
<1> QED
  BY <1>11, <1>12 DEF RefWord, f, k

(* What the program stores to a field leaves the header alone.             *)
LEMMA BehindHeader ==
  ASSUME Table, Acyclic, NEW c \in AllClass, NEW f \in FieldsOf(c)
  PROVE  /\ getFieldPtr(f, c) \in Nat /\ getFieldPtr(f, c) >= 1
         /\ Rooted(c) => getFieldPtr(f, c) >= 2
<1>1. getField(f, 1, c).index \in Nat /\ getField(f, 1, c).index >= 1
  BY IndexPositive, Searched DEF Results
<1>2. ASSUME Rooted(c) PROVE getField(f, 1, c).index >= 2
  <2>1. InPlace(getField(f, 1, c), f, unrollFields(c)) /\ getField(f, 1, c).class # NoClass
    BY <1>2, FieldPlaces, FieldsFound DEF FieldsOf
  <2>2. getField(f, 1, c).index - 1 \in 1 .. Len(unrollFields(c))
    BY <2>1 DEF InPlace
  <2> QED
    BY <1>1, <2>2
<1> QED
  BY <1>1, <1>2 DEF getFieldPtr

-----------------------------------------------------------------------------
(* The inductive invariant.                                                *)

(* Of the words behind the header, the first k are initialized.            *)
Ready(w, u, k) ==
  \A i \in 1 .. k : Kind[u[i].name] # "inline" => w[RefWord + i] # "garbage"

(* The class that a chain of init functions leaves in the header: the last *)
(* one that is not the root.                                               *)
LastBorn(k) == k \in Class /\ parent[k] \in {OBJ, NoClass}

(* The init functions in progress are those of the class of the object and *)
(* of ancestors, each called by the one of a subclass.                     *)
InitChain(s, t) ==
  /\ Len(s) >= 1
  /\ s[1].class = t
  /\ \A i \in 1 .. Len(s) : s[i].class \in Ancestors(t) /\ (Rooted(t) => Rooted(s[i].class))
  /\ \A i \in 1 .. Len(s) - 1 : s[i].at = "fields" /\ parent[s[i].class] = s[i + 1].class
  /\ s[Len(s)].at \in {"class", "parent", "fields"}
  /\ s[Len(s)].class = OBJ => s[Len(s)].at = "class"

(* While they run: a function finds in the header the class of the one     *)
(* that called it and stores its own; when it comes to its fields, its     *)
(* parent's have been initialized.                                         *)
InitWords(s, t, w) ==
  /\ t = OBJ => w[ClassWord] = "garbage"
  /\ s[Len(s)].at = "class" /\ Len(s) > 1 => w[ClassWord] = s[Len(s) - 1].class
  /\ s[Len(s)].at = "parent" => w[ClassWord] = s[Len(s)].class
  /\ s[Len(s)].at = "fields" =>
       /\ LastBorn(w[ClassWord])
       /\ Rooted(t) => w[RefWord] = "zero"
       /\ Rooted(t) /\ Distinct(t) => Ready(w, unrollFields(t), Len(Above(s[Len(s)].class)))

(* When they have returned.                                                *)
LiveWords(t, w) ==
  /\ t = OBJ => w[ClassWord] = "garbage"
  /\ t # OBJ => LastBorn(w[ClassWord])
  /\ Rooted(t) => w[RefWord] = "zero"
  /\ Rooted(t) /\ Distinct(t) => Ready(w, unrollFields(t), Len(unrollFields(t)))

(* The destructors in progress: that of the class in the header, and that  *)
(* of the root, which does not free.                                       *)
KillChain(s, k) ==
  \/ s = <<[class |-> k, at |-> "parent"]>>
  \/ s = <<[class |-> k, at |-> "free"]>>
  \/ s = <<[class |-> k, at |-> "free"], [class |-> OBJ, at |-> "parent"]>>

Memory(t) == [0 .. Len(unrollFields(t)) + 1 -> Content]

Initializing(s, t, w) ==
  t \in AllClass /\ s \in Seq(Frame) /\ w \in Memory(t) /\ InitChain(s, t) /\ InitWords(s, t, w)

Live(t, w) == t \in AllClass /\ w \in Memory(t) /\ LiveWords(t, w)

Killing(s) == \E k \in Class : LastBorn(k) /\ KillChain(s, k)

Object ==
  /\ phase = "init" => Initializing(stack, type, words)
  /\ phase = "live" => Live(type, words)
  /\ phase = "kill" => Killing(stack)
  /\ phase \in {"leaked", "wild"} => type = OBJ \/ ~Rooted(type)
  /\ frees = IF phase = "done" THEN 1 ELSE 0

IInv == TypeOK /\ Table /\ Acyclic /\ Object

(* The compiler finds a table it can use, and there is no object yet.      *)
LEMMA Initially == Init => IInv
<1> SUFFICES ASSUME Init PROVE IInv
  OBVIOUS
<1>1. PICK own \in [Class -> SeqOf(FieldName, MaxOwnFields)] :
        fields = [c \in AllClass |-> IF c = OBJ THEN <<"class">> ELSE own[c]]
  BY DEF Init
<1>2. OBJ \notin Class
  BY ClassNames
<1>3. ASSUME NEW c \in Class PROVE own[c] \in Seq(FieldName)
  <2>1. own[c] \in UNION {[1 .. n -> FieldName] : n \in 0 .. MaxOwnFields}
    BY DEF SeqOf
  <2>2. PICK n \in 0 .. MaxOwnFields : own[c] \in [1 .. n -> FieldName]
    BY <2>1
  <2>3. n \in Nat
    BY OwnFieldsBound
  <2> QED
    BY <2>2, <2>3, SeqDef
<1>4. Table
  <2>1. <<"class">> \in Seq(FieldNames) /\ <<"init", "kill">> \in Seq(MethodNames)
        /\ <<>> \in Seq(MethodNames) /\ <<>> \in Seq(MethodName)
    BY DEF FieldNames, MethodNames
  <2>2. ASSUME NEW c \in Class PROVE own[c] \in Seq(FieldNames)
    BY <1>3, SeqMonotonic DEF FieldNames
  <2>3. parent \in [AllClass -> AllClass \cup {NoClass}] /\ parent[OBJ] = NoClass
    BY DEF Init
  <2>4. fields \in [AllClass -> Seq(FieldNames)] /\ fields[OBJ] = <<"class">>
    BY <1>1, <1>2, <2>1, <2>2 DEF AllClass
  <2>5. methods \in [AllClass -> Seq(MethodNames)] /\ methods[OBJ] = <<"init", "kill">>
    BY <1>2, <2>1 DEF Init, AllClass
  <2>6. ASSUME NEW c \in Class PROVE fields[c] \in Seq(FieldName) /\ methods[c] \in Seq(MethodName)
    BY <1>1, <1>2, <1>3, <2>1 DEF Init, AllClass
  <2> QED
    BY <2>3, <2>4, <2>5, <2>6 DEF Table
<1>5. TypeOK
  <2>1. words = <<>> /\ stack = <<>> /\ <<>> \in Seq(Frame) /\ <<>> \in [DOMAIN <<>> -> Content]
    BY DEF Init
  <2> QED
    BY <2>1 DEF Init, TypeOK, Phase
<1>6. Object
  BY DEF Init, Object
<1> QED
  BY <1>4, <1>5, <1>6 DEF IInv, Init

-----------------------------------------------------------------------------
(* The chain of init functions.                                            *)

LEMMA Framed ==
  ASSUME NEW f \in Frame, NEW a \in {"class", "parent", "fields", "free"}
  PROVE  /\ f.class \in AllClass /\ f.at \in {"class", "parent", "fields", "free"}
         /\ [f EXCEPT !.at = a] \in Frame
         /\ [f EXCEPT !.at = a].class = f.class /\ [f EXCEPT !.at = a].at = a
  BY DEF Frame

LEMMA RootedParent ==
  ASSUME Table, Acyclic, NEW c \in Class
  PROVE  Rooted(c) => parent[c] # NoClass /\ Rooted(parent[c])
<1>1. c \in AllClass /\ c # OBJ
  BY ClassNames DEF AllClass
<1> QED
  BY <1>1, Ancestry DEF Rooted

LEMMA OnlyRoot ==
  ASSUME Table, Acyclic
  PROVE  Ancestors(OBJ) = {OBJ} /\ Rooted(OBJ) /\ unrollFields(OBJ) = <<>>
<1>1. OBJ \in AllClass /\ parent[OBJ] = NoClass
  BY DEF AllClass, Table
<1> QED
  BY <1>1, Ancestry, FieldsUnrolled DEF Rooted

(* The types of what a chain consists of.                                  *)
LEMMA ChainTyped ==
  ASSUME Table, Acyclic, NEW t \in AllClass, NEW s \in Seq(Frame), InitChain(s, t)
  PROVE  /\ Len(s) \in Nat /\ Len(s) >= 1
         /\ \A i \in 1 .. Len(s) : s[i] \in Frame /\ s[i].class \in AllClass
         /\ s[Len(s)] \in Frame /\ s[Len(s)].class \in AllClass
         /\ s[Len(s)].class \in Ancestors(t)
         /\ Rooted(t) => Rooted(s[Len(s)].class)
         /\ s[Len(s)].at # "class" => s[Len(s)].class \in Class /\ t # OBJ
<1>1. Len(s) \in Nat /\ Len(s) >= 1 /\ Len(s) \in 1 .. Len(s)
  BY LenProperties DEF InitChain
<1>2. \A i \in 1 .. Len(s) : s[i] \in Frame /\ s[i].class \in AllClass
  <2>1. \A i \in 1 .. Len(s) : s[i] \in Frame
    BY ElementOfSeq
  <2> QED
    BY <2>1 DEF Frame
<1>3. s[Len(s)].class \in Ancestors(t) /\ (Rooted(t) => Rooted(s[Len(s)].class))
  BY <1>1 DEF InitChain
<1>4. s[Len(s)].at # "class" => s[Len(s)].class # OBJ
  BY DEF InitChain
<1>5. t = OBJ => s[Len(s)].class = OBJ
  BY <1>3, OnlyRoot
<1>6. s[Len(s)] \in Frame /\ s[Len(s)].class \in AllClass
  BY <1>1, <1>2
<1>7. s[Len(s)].at # "class" => s[Len(s)].class \in Class /\ t # OBJ
  BY <1>4, <1>5, <1>6 DEF AllClass
<1> QED
  BY <1>1, <1>2, <1>3, <1>6, <1>7

(* The innermost function goes on at another place.                        *)
LEMMA GoesOn ==
  ASSUME Table, Acyclic, NEW t \in AllClass, NEW s \in Seq(Frame), InitChain(s, t),
         s[Len(s)].class \in Class, NEW a \in {"parent", "fields"}
  PROVE  LET r == Append(SubSeq(s, 1, Len(s) - 1), [s[Len(s)] EXCEPT !.at = a])
         IN  /\ r \in Seq(Frame) /\ Len(r) = Len(s)
             /\ r[Len(s)].at = a /\ r[Len(s)].class = s[Len(s)].class
             /\ InitChain(r, t)
<1> DEFINE n == Len(s)
           x == [s[n] EXCEPT !.at = a]
           r == Append(SubSeq(s, 1, n - 1), x)
<1>1. n \in Nat /\ n >= 1 /\ s[n] \in Frame
  BY ChainTyped
<1>2. x \in Frame /\ x.class = s[n].class /\ x.at = a
  <2>1. a \in {"class", "parent", "fields", "free"}
    OBVIOUS
  <2>2. /\ [s[n] EXCEPT !.at = a] \in Frame
        /\ [s[n] EXCEPT !.at = a].class = s[n].class /\ [s[n] EXCEPT !.at = a].at = a
    <3>1. \A f \in Frame : [f EXCEPT !.at = a] \in Frame
            /\ [f EXCEPT !.at = a].class = f.class /\ [f EXCEPT !.at = a].at = a
      BY <2>1 DEF Frame
    <3> HIDE DEF n
    <3> QED
      BY <1>1, <3>1
  <2> QED
    BY <2>2
<1> HIDE DEF x
<1>3. /\ r \in Seq(Frame) /\ Len(r) = n /\ r[n] = x
      /\ \A i \in 1 .. n - 1 : r[i] = s[i]
  BY <1>1, <1>2, Replaced
<1> HIDE DEF r
<1>4. \A i \in 1 .. n : r[i].class = s[i].class
  <2>1. \A i \in 1 .. n : i = n \/ i \in 1 .. n - 1
    BY <1>1
  <2> QED
    BY <1>2, <1>3, <2>1
<1>5. \A i \in 1 .. n - 1 : r[i].at = s[i].at /\ i \in 1 .. n /\ i + 1 \in 1 .. n
  BY <1>1, <1>3
<1>6. 1 \in 1 .. n /\ r[n].class # OBJ
  BY <1>1, <1>2, <1>3, ClassNames
<1>7. InitChain(r, t)
  <2>1. Len(r) >= 1 /\ r[1].class = t
    BY <1>1, <1>3, <1>4, <1>6 DEF InitChain
  <2>2. \A i \in 1 .. Len(r) : r[i].class \in Ancestors(t) /\ (Rooted(t) => Rooted(r[i].class))
    BY <1>3, <1>4 DEF InitChain
  <2>3. \A i \in 1 .. Len(r) - 1 : r[i].at = "fields" /\ parent[r[i].class] = r[i + 1].class
    BY <1>3, <1>4, <1>5 DEF InitChain
  <2>4. r[Len(r)].at \in {"class", "parent", "fields"} /\ r[Len(r)].class # OBJ
    BY <1>2, <1>3, <1>6
  <2> QED
    BY <2>1, <2>2, <2>3, <2>4 DEF InitChain
<1> QED
  BY <1>2, <1>3, <1>7 DEF r, x

(* It calls the one of its parent.                                         *)
LEMMA CallsParent ==
  ASSUME Table, Acyclic, NEW t \in AllClass, NEW s \in Seq(Frame), InitChain(s, t),
         s[Len(s)].class \in Class, parent[s[Len(s)].class] # NoClass
  PROVE  LET r == Append(Append(SubSeq(s, 1, Len(s) - 1), [s[Len(s)] EXCEPT !.at = "fields"]),
                         [class |-> parent[s[Len(s)].class], at |-> "class"])
         IN  /\ r \in Seq(Frame) /\ Len(r) = Len(s) + 1
             /\ r[Len(s) + 1].at = "class" /\ r[Len(s)].class = s[Len(s)].class
             /\ InitChain(r, t)
<1> DEFINE n == Len(s)
           x == [s[n] EXCEPT !.at = "fields"]
           y == [class |-> parent[s[n].class], at |-> "class"]
           r == Append(Append(SubSeq(s, 1, n - 1), x), y)
<1>1. n \in Nat /\ n >= 1 /\ s[n] \in Frame /\ s[n].class \in AllClass
      /\ s[n].class \in Ancestors(t) /\ (Rooted(t) => Rooted(s[n].class))
  BY ChainTyped
<1>2. x \in Frame /\ x.class = s[n].class /\ x.at = "fields"
  BY <1>1, Framed
<1>3. parent[s[n].class] \in AllClass
  BY <1>1 DEF Table
<1>4. y \in Frame /\ y.class = parent[s[n].class] /\ y.at = "class"
  BY <1>3 DEF Frame
<1> HIDE DEF x, y
<1>5. /\ r \in Seq(Frame) /\ Len(r) = n + 1 /\ r[n + 1] = y /\ r[n] = x
      /\ \A i \in 1 .. n - 1 : r[i] = s[i]
  BY <1>1, <1>2, <1>4, Called
<1> HIDE DEF r
<1>6. y.class \in Ancestors(t) /\ (Rooted(t) => Rooted(y.class))
  BY <1>1, <1>4, ParentIsAncestor, RootedParent
<1>7. \A i \in 1 .. n : r[i].class = s[i].class
  <2>1. \A i \in 1 .. n : i = n \/ i \in 1 .. n - 1
    BY <1>1
  <2> QED
    BY <1>2, <1>5, <2>1
<1>8. InitChain(r, t)
  <2>1. Len(r) >= 1 /\ r[1].class = t
    <3>1. 1 \in 1 .. n
      BY <1>1
    <3> QED
      BY <1>1, <1>5, <1>7, <3>1 DEF InitChain
  <2>2. ASSUME NEW i \in 1 .. Len(r)
        PROVE  r[i].class \in Ancestors(t) /\ (Rooted(t) => Rooted(r[i].class))
    <3>1. i = n + 1 \/ i \in 1 .. n
      BY <1>1, <1>5
    <3> QED
      BY <1>5, <1>6, <1>7, <3>1 DEF InitChain
  <2>3. ASSUME NEW i \in 1 .. Len(r) - 1
        PROVE  r[i].at = "fields" /\ parent[r[i].class] = r[i + 1].class
    <3>1. i = n \/ (i \in 1 .. n - 1 /\ i + 1 \in 1 .. n /\ i \in 1 .. n)
      BY <1>1, <1>5
    <3>2. CASE i = n
      BY <1>2, <1>4, <1>5, <3>2
    <3>3. CASE i \in 1 .. n - 1 /\ i + 1 \in 1 .. n /\ i \in 1 .. n
      BY <1>5, <1>7, <3>3 DEF InitChain
    <3> QED
      BY <3>1, <3>2, <3>3
  <2>4. r[Len(r)].at = "class"
    BY <1>4, <1>5
  <2> QED
    BY <2>1, <2>2, <2>3, <2>4 DEF InitChain
<1>9. /\ r \in Seq(Frame) /\ Len(r) = n + 1 /\ r[n + 1].at = "class"
      /\ r[n].class = s[n].class /\ InitChain(r, t)
  BY <1>2, <1>4, <1>5, <1>8
<1> QED
  BY <1>9 DEF r, x, y

(* It returns to the one of a subclass.                                    *)
LEMMA ReturnsToChild ==
  ASSUME Table, Acyclic, NEW t \in AllClass, NEW s \in Seq(Frame), InitChain(s, t), Len(s) # 1
  PROVE  LET p == SubSeq(s, 1, Len(s) - 1)
             k == s[Len(s) - 1].class
         IN  /\ p \in Seq(Frame) /\ p # <<>> /\ Len(p) = Len(s) - 1
             /\ p[Len(p)].at = "fields" /\ p[Len(p)].class = k
             /\ k \in Class /\ parent[k] = s[Len(s)].class
             /\ InitChain(p, t)
<1> DEFINE n == Len(s)
           p == SubSeq(s, 1, n - 1)
<1>1. n \in Nat /\ n >= 1 /\ n - 1 \in 1 .. n - 1 /\ n - 1 \in 1 .. n /\ (n - 1) + 1 = n
  <2>1. n \in Nat /\ n >= 1 /\ n # 1
    BY ChainTyped
  <2> HIDE DEF n
  <2> QED
    BY <2>1
<1>2. /\ p \in Seq(Frame) /\ Len(p) = n - 1 /\ p # <<>>
      /\ \A i \in 1 .. n - 1 : p[i] = s[i]
  BY <1>1, Popped
<1> HIDE DEF p
<1>3. s[n - 1].at = "fields" /\ parent[s[n - 1].class] = s[n].class
  BY <1>1 DEF InitChain
<1>4. s[n].class \in AllClass /\ s[n - 1].class \in AllClass
  BY <1>1, ChainTyped
<1>5. s[n - 1].class # OBJ
  BY <1>3, <1>4, ClassNames DEF Table, AllClass
<1>6. InitChain(p, t)
  <2>1. Len(p) >= 1 /\ p[1].class = t
    <3>1. 1 \in 1 .. n - 1
      BY <1>1
    <3> QED
      BY <1>1, <1>2, <3>1 DEF InitChain
  <2>2. \A i \in 1 .. Len(p) : i \in 1 .. n - 1 /\ i \in 1 .. n
    BY <1>1, <1>2
  <2>3. \A i \in 1 .. Len(p) : p[i].class \in Ancestors(t) /\ (Rooted(t) => Rooted(p[i].class))
    BY <1>2, <2>2 DEF InitChain
  <2>4. ASSUME NEW i \in 1 .. Len(p) - 1
        PROVE  p[i].at = "fields" /\ parent[p[i].class] = p[i + 1].class
    <3>1. i \in 1 .. n - 1 /\ i + 1 \in 1 .. n - 1
      BY <1>1, <1>2
    <3> QED
      BY <1>2, <3>1 DEF InitChain
  <2>5. p[Len(p)].at = "fields" /\ p[Len(p)].class # OBJ
    BY <1>1, <1>2, <1>3, <1>5
  <2> QED
    BY <2>1, <2>3, <2>4, <2>5 DEF InitChain
<1> QED
  BY <1>1, <1>2, <1>3, <1>4, <1>5, <1>6 DEF AllClass, p

-----------------------------------------------------------------------------
(* What the generated functions do to the words of the object.             *)

(* The header has two words.                                               *)
LEMMA Header ==
  ASSUME Table, Acyclic, NEW t \in AllClass
  PROVE  /\ Len(unrollFields(t)) \in Nat
         /\ Len(getObjectType(t)) - 1 = Len(unrollFields(t)) + 1
         /\ ClassWord \in 0 .. Len(unrollFields(t)) + 1
         /\ RefWord \in 0 .. Len(unrollFields(t)) + 1
         /\ ClassWord # RefWord
<1> DEFINE h == <<[class |-> OBJ, name |-> "class"], [class |-> OBJ, name |-> "refcount"]>>
           W == Member(FieldNames \cup {"refcount"})
<1>1. h \in Seq(W) /\ Len(h) = 2
  BY DEF Member, FieldNames, AllClass
<1>2. unrollFields(t) \in Seq(Member(FieldNames)) /\ Member(FieldNames) \subseteq W
  BY FieldsUnrolled DEF Member
<1>3. unrollFields(t) \in Seq(W) /\ Len(unrollFields(t)) \in Nat
  BY <1>2, SeqMonotonic, LenProperties
<1>4. getObjectType(t) = h \o unrollFields(t)
  BY DEF getObjectType
<1> HIDE DEF h, W
<1>5. Len(getObjectType(t)) = Len(h) + Len(unrollFields(t))
  BY <1>1, <1>3, <1>4, ConcatProperties
<1> QED
  BY <1>1, <1>3, <1>5 DEF ClassWord, RefWord

LEMMA NewObject ==
  ASSUME Table, Acyclic, NEW t \in AllClass
  PROVE  Initializing(<<[class |-> t, at |-> "class"]>>, t,
                      [i \in 0 .. Len(getObjectType(t)) - 1 |-> "garbage"])
<1> DEFINE f == [class |-> t, at |-> "class"]
           s == <<f>>
           w == [i \in 0 .. Len(getObjectType(t)) - 1 |-> "garbage"]
<1>1. f \in Frame /\ f.class = t /\ f.at = "class"
  BY DEF Frame
<1> HIDE DEF f
<1>2. s \in Seq(Frame) /\ Len(s) = 1 /\ s[1] = f
  BY <1>1
<1> HIDE DEF s
<1>3. t \in Ancestors(t)
  BY Ancestry
<1>4. InitChain(s, t)
  <2>1. \A i \in 1 .. Len(s) : i = 1
    BY <1>2
  <2>2. \A i \in 1 .. Len(s) - 1 : FALSE
    BY <1>2
  <2> QED
    BY <1>1, <1>2, <1>3, <2>1, <2>2 DEF InitChain
<1>5. w = [i \in 0 .. Len(unrollFields(t)) + 1 |-> "garbage"]
  BY Header
<1>6. w \in Memory(t) /\ w[ClassWord] = "garbage"
  BY <1>5, Header DEF Memory, Content
<1>7. InitWords(s, t, w)
  BY <1>1, <1>2, <1>6 DEF InitWords
<1> QED
  BY <1>2, <1>4, <1>6, <1>7 DEF Initializing, s, f

LEMMA StoresClass ==
  ASSUME Table, Acyclic, NEW s, NEW t, NEW w, Initializing(s, t, w),
         s[Len(s)].at = "class", s[Len(s)].class # OBJ
  PROVE  Initializing(Append(SubSeq(s, 1, Len(s) - 1), [s[Len(s)] EXCEPT !.at = "parent"]), t,
                      [w EXCEPT ![ClassWord] = s[Len(s)].class])
<1> USE DEF Initializing
<1> DEFINE n == Len(s)
           r == Append(SubSeq(s, 1, n - 1), [s[n] EXCEPT !.at = "parent"])
           v == [w EXCEPT ![ClassWord] = s[n].class]
<1>1. s[n].class \in Class /\ s[n].class \in Ancestors(t)
  BY ChainTyped DEF AllClass
<1>2. /\ r \in Seq(Frame) /\ Len(r) = n /\ r[n].at = "parent" /\ r[n].class = s[n].class
      /\ InitChain(r, t)
  BY <1>1, GoesOn
<1>3. v \in Memory(t) /\ v[ClassWord] = s[n].class
  <2>1. s[n].class \in Content
    BY <1>1 DEF Content
  <2> QED
    BY <2>1, Header DEF Memory
<1>4. t # OBJ
  BY <1>1, ClassNames, OnlyRoot
<1> HIDE DEF r, v
<1>5. InitWords(r, t, v)
  BY <1>2, <1>3, <1>4 DEF InitWords
<1> QED
  BY <1>2, <1>3, <1>5 DEF r, v

LEMMA CallsInit ==
  ASSUME Table, Acyclic, NEW s, NEW t, NEW w, Initializing(s, t, w),
         s[Len(s)].at = "parent", parent[s[Len(s)].class] # NoClass
  PROVE  Initializing(Append(Append(SubSeq(s, 1, Len(s) - 1), [s[Len(s)] EXCEPT !.at = "fields"]),
                             [class |-> parent[s[Len(s)].class], at |-> "class"]), t, w)
<1> USE DEF Initializing
<1> DEFINE n == Len(s)
           r == Append(Append(SubSeq(s, 1, n - 1), [s[n] EXCEPT !.at = "fields"]),
                       [class |-> parent[s[n].class], at |-> "class"])
<1>1. s[n].class \in Class /\ t # OBJ /\ n \in Nat
  BY ChainTyped
<1>2. /\ r \in Seq(Frame) /\ Len(r) = n + 1 /\ r[n + 1].at = "class" /\ r[n].class = s[n].class
      /\ InitChain(r, t)
  BY <1>1, CallsParent
<1>3. w[ClassWord] = s[n].class
  BY DEF InitWords
<1> HIDE DEF r
<1>4. (n + 1) - 1 = n
  BY <1>1
<1>5. InitWords(r, t, w)
  BY <1>1, <1>2, <1>3, <1>4 DEF InitWords
<1> QED
  BY <1>2, <1>5 DEF r

LEMMA NoParentInit ==
  ASSUME Table, Acyclic, NEW s, NEW t, NEW w, Initializing(s, t, w),
         s[Len(s)].at = "parent", parent[s[Len(s)].class] = NoClass
  PROVE  Initializing(Append(SubSeq(s, 1, Len(s) - 1), [s[Len(s)] EXCEPT !.at = "fields"]), t, w)
<1> USE DEF Initializing
<1> DEFINE n == Len(s)
           r == Append(SubSeq(s, 1, n - 1), [s[n] EXCEPT !.at = "fields"])
<1>1. s[n].class \in Class /\ t # OBJ /\ (Rooted(t) => Rooted(s[n].class))
  BY ChainTyped
<1>2. ~Rooted(t)
  BY <1>1, RootedParent
<1>3. /\ r \in Seq(Frame) /\ Len(r) = n /\ r[n].at = "fields" /\ r[n].class = s[n].class
      /\ InitChain(r, t)
  BY <1>1, GoesOn
<1>4. LastBorn(w[ClassWord])
  BY <1>1 DEF InitWords, LastBorn
<1> HIDE DEF r
<1>5. InitWords(r, t, w)
  BY <1>1, <1>2, <1>3, <1>4 DEF InitWords
<1> QED
  BY <1>3, <1>5 DEF r

(* The root's init clears the count and returns.                           *)
LEMMA RootInit ==
  ASSUME Table, Acyclic, NEW s, NEW t, NEW w, Initializing(s, t, w),
         s[Len(s)].at = "class", s[Len(s)].class = OBJ
  PROVE  LET p == SubSeq(s, 1, Len(s) - 1)
             v == [w EXCEPT ![RefWord] = "zero"]
         IN  IF p = <<>> THEN Live(t, v) ELSE Initializing(p, t, v)
<1> USE DEF Initializing
<1> DEFINE n == Len(s)
           p == SubSeq(s, 1, n - 1)
           v == [w EXCEPT ![RefWord] = "zero"]
<1>1. v \in Memory(t) /\ v[RefWord] = "zero" /\ v[ClassWord] = w[ClassWord]
  BY Header DEF Memory, Content
<1>2. n \in Nat /\ n >= 1
  BY ChainTyped
<1>3. (p = <<>>) = (n = 1)
  BY <1>2, Popped
<1>4. CASE n = 1
  <2>1. t = OBJ
    BY <1>4 DEF InitChain
  <2>2. unrollFields(t) = <<>> /\ Len(<<>>) = 0
    BY <2>1, OnlyRoot
  <2>3. w[ClassWord] = "garbage"
    BY <2>1 DEF InitWords
  <2> HIDE DEF v
  <2>4. Ready(v, unrollFields(t), Len(unrollFields(t)))
    BY <2>2 DEF Ready
  <2>5. Live(t, v)
    BY <1>1, <2>1, <2>3, <2>4 DEF Live, LiveWords
  <2> QED
    BY <1>3, <1>4, <2>5 DEF v
<1>5. CASE n # 1
  <2> DEFINE k == s[n - 1].class
  <2>1. /\ p \in Seq(Frame) /\ p # <<>> /\ p[Len(p)].at = "fields" /\ p[Len(p)].class = k
        /\ k \in Class /\ parent[k] = OBJ /\ InitChain(p, t)
    BY <1>5, ReturnsToChild
  <2>2. w[ClassWord] = k
    <3>1. Len(s) > 1
      <4> HIDE DEF n
      <4>1. n > 1
        BY <1>2, <1>5
      <4> QED
        BY <4>1 DEF n
    <3>2. s[Len(s)].at = "class" /\ Len(s) > 1 => w[ClassWord] = s[Len(s) - 1].class
      BY Zenon DEF InitWords
    <3> QED
      BY <3>1, <3>2
  <2>3. t # OBJ
    BY <2>1, ChainTyped
  <2>4. Above(k) = <<>> /\ Len(<<>>) = 0
    BY <2>1, OnlyRoot, ClassNames DEF Above
  <2> HIDE DEF p, v, k
  <2>5. Ready(v, unrollFields(t), Len(Above(k)))
    BY <2>4 DEF Ready
  <2>6. LastBorn(v[ClassWord])
    BY <1>1, <2>1, <2>2 DEF LastBorn
  <2>7. InitWords(p, t, v)
    BY <1>1, <2>1, <2>3, <2>5, <2>6 DEF InitWords
  <2>8. Initializing(p, t, v)
    BY <1>1, <2>1, <2>7
  <2> QED
    BY <2>1, <2>8 DEF p, v
<1> QED
  BY <1>4, <1>5

(* An init function clears its fields behind those of its parent.          *)
LEMMA ClearsFields ==
  ASSUME Table, Acyclic, NEW t \in AllClass, NEW c \in Class, c \in Ancestors(t),
         Rooted(t), Distinct(t), Rooted(c), NEW w \in Memory(t),
         Ready(w, unrollFields(t), Len(Above(c)))
  PROVE  Ready([i \in DOMAIN w |-> IF i \in Cleared(c) THEN "zero" ELSE w[i]],
               unrollFields(t), Len(unrollFields(c)))
<1> DEFINE u == unrollFields(t)
           k == Len(Above(c))
           n == Len(fields[c])
           v == [i \in DOMAIN w |-> IF i \in Cleared(c) THEN "zero" ELSE w[i]]
<1>1. c \in AllClass
  BY DEF AllClass
<1>2. Above(c) \in Seq(Member(FieldNames)) /\ Extended(unrollFields(c), Above(c), c, fields[c])
  BY FieldsUnrolled
<1>3. k \in Nat /\ n \in Nat /\ Len(unrollFields(c)) = k + n /\ DOMAIN fields[c] = 1 .. n
  BY <1>1, <1>2, LenProperties DEF Extended, Table
<1>4. Len(unrollFields(c)) <= Len(u) /\ \A i \in 1 .. Len(unrollFields(c)) : u[i] = unrollFields(c)[i]
  BY StructPrefix
<1>5. Len(u) \in Nat
  BY Header
<1>6. \A i \in 0 .. Len(u) + 1 : v[i] = IF i \in Cleared(c) THEN "zero" ELSE w[i]
  BY DEF Memory
<1>7. ASSUME NEW j \in 1 .. n PROVE u[k + j].name = fields[c][j]
  <2>1. u[k + j] = [class |-> c, name |-> fields[c][j]]
    <3>1. k + j \in 1 .. Len(unrollFields(c))
      BY <1>3
    <3> QED
      BY <1>2, <1>4, <3>1 DEF Extended
  <2> QED
    BY <2>1
<1> HIDE DEF u, k, n, v
<1>8. ASSUME NEW i \in 1 .. k + n, Kind[u[i].name] # "inline" PROVE v[RefWord + i] # "garbage"
  <2>1. RefWord + i \in 0 .. Len(u) + 1
    BY <1>3, <1>4, <1>5 DEF RefWord
  <2>2. CASE RefWord + i \in Cleared(c)
    BY <1>6, <2>1, <2>2
  <2>3. CASE RefWord + i \notin Cleared(c)
    <3>1. CASE i <= k
      <4>1. i \in 1 .. k
        BY <1>3, <3>1
      <4>2. w[RefWord + i] # "garbage"
        BY <1>8, <4>1 DEF Ready, k, u
      <4> QED
        BY <1>6, <2>1, <2>3, <4>2
    <3>2. CASE ~(i <= k)
      <4> DEFINE j == i - k
                 f == fields[c][j]
      <4>1. j \in 1 .. n /\ k + j = i
        BY <1>3, <3>2
      <4>2. u[i].name = f
        BY <1>7, <4>1
      <4>3. f \in FieldName /\ f \in Range(fields[c])
        <5>1. fields[c] \in Seq(FieldName) /\ j \in DOMAIN fields[c]
          BY <1>3, <4>1 DEF Table
        <5>2. f \in FieldName
          BY <1>3, <4>1, <5>1, ElementOfSeq DEF n
        <5> QED
          BY <5>1, <5>2 DEF Range
      <4>4. Kind[f] \in {"int", "pointer"}
        BY <1>8, <4>2, <4>3, FieldKinds
      <4>5. getFieldPtr(f, c) \in Cleared(c)
        BY <4>3, <4>4 DEF Cleared
      <4>6. getFieldPtr(f, c) = RefWord + (k + j)
        BY <4>1, OwnIndex DEF k, n
      <4> QED
        BY <2>3, <4>1, <4>5, <4>6
    <3> QED
      BY <3>1, <3>2
  <2> QED
    BY <2>2, <2>3
<1> QED
  BY <1>3, <1>8 DEF Ready, u, v

(* What an init function clears is not the class.                          *)
LEMMA ClassIsNotCleared ==
  ASSUME Table, Acyclic, NEW c \in Class
  PROVE  ClassWord \notin Cleared(c)
<1> SUFFICES ASSUME ClassWord \in Cleared(c) PROVE FALSE
  OBVIOUS
<1>1. c \in AllClass
  BY DEF AllClass
<1>2. PICK f \in Range(fields[c]) : getFieldPtr(f, c) = ClassWord
  BY DEF Cleared
<1>3. f \in FieldsOf(c)
  <2>1. fields[c] \in Seq(FieldName) /\ c \in Ancestors(c)
    BY <1>1, Ancestry DEF Table
  <2>2. PICK j \in DOMAIN fields[c] : f = fields[c][j]
    BY DEF Range
  <2>3. f \in FieldName
    BY <2>1, <2>2
  <2> QED
    BY <2>1, <2>3 DEF FieldsOf
<1> QED
  BY <1>1, <1>2, <1>3, BehindHeader DEF ClassWord

(* It returns to the init function of a subclass, or the object is ready.  *)
LEMMA FieldsInit ==
  ASSUME Table, Acyclic, NEW s, NEW t, NEW w, Initializing(s, t, w),
         s[Len(s)].at = "fields"
  PROVE  LET p == SubSeq(s, 1, Len(s) - 1)
             v == [i \in DOMAIN w |-> IF i \in Cleared(s[Len(s)].class) THEN "zero" ELSE w[i]]
         IN  IF p = <<>> THEN Live(t, v) ELSE Initializing(p, t, v)
<1> USE DEF Initializing
<1> DEFINE n == Len(s)
           c == s[n].class
           p == SubSeq(s, 1, n - 1)
           v == [i \in DOMAIN w |-> IF i \in Cleared(c) THEN "zero" ELSE w[i]]
<1>1. n \in Nat /\ n >= 1 /\ c \in Class /\ c \in Ancestors(t) /\ t # OBJ
      /\ (Rooted(t) => Rooted(c))
  BY ChainTyped
<1>2. (p = <<>>) = (n = 1)
  BY <1>1, Popped
<1>3. LastBorn(w[ClassWord]) /\ (Rooted(t) => w[RefWord] = "zero")
  BY DEF InitWords
<1>4. v \in Memory(t)
  BY DEF Memory, Content
<1>5. v[ClassWord] = w[ClassWord]
  BY <1>1, ClassIsNotCleared, Header DEF Memory
<1>6. Rooted(t) => v[RefWord] = "zero"
  BY <1>3, Header DEF Memory
<1>7. Rooted(t) /\ Distinct(t) => Ready(v, unrollFields(t), Len(unrollFields(c)))
  <2> SUFFICES ASSUME Rooted(t), Distinct(t)
               PROVE  Ready(v, unrollFields(t), Len(unrollFields(c)))
    OBVIOUS
  <2>1. Ready(w, unrollFields(t), Len(Above(c)))
    BY DEF InitWords
  <2> QED
    BY <1>1, <2>1, ClearsFields
<1>8. CASE n = 1
  <2>1. c = t
    BY <1>8 DEF InitChain
  <2> HIDE DEF v, c
  <2>2. Live(t, v)
    BY <1>1, <1>3, <1>4, <1>5, <1>6, <1>7, <2>1 DEF Live, LiveWords
  <2> QED
    BY <1>2, <1>8, <2>2 DEF v, c
<1>9. CASE n # 1
  <2> DEFINE k == s[n - 1].class
  <2>1. /\ p \in Seq(Frame) /\ p # <<>> /\ p[Len(p)].at = "fields" /\ p[Len(p)].class = k
        /\ k \in Class /\ parent[k] = c /\ InitChain(p, t)
    BY <1>9, ReturnsToChild
  <2>2. Above(k) = unrollFields(c)
    BY <1>1, <2>1, ClassNames DEF Above
  <2> HIDE DEF p, v, k, c
  <2>3. InitWords(p, t, v)
    BY <1>1, <1>3, <1>5, <1>6, <1>7, <2>1, <2>2 DEF InitWords
  <2>4. Initializing(p, t, v)
    BY <1>4, <2>1, <2>3
  <2> QED
    BY <2>1, <2>4 DEF p, v, c
<1> QED
  BY <1>8, <1>9

(* A store to a field reaches neither part of the header.                  *)
LEMMA FieldStored ==
  ASSUME Table, Acyclic, NEW t, NEW w, Live(t, w), NEW f \in FieldsOf(t)
  PROVE  Live(t, [w EXCEPT ![getFieldPtr(f, t)] = "data"])
<1> USE DEF Live
<1> DEFINE x == getFieldPtr(f, t)
           v == [w EXCEPT ![x] = "data"]
<1>1. x \in Nat /\ x >= 1 /\ (Rooted(t) => x >= 2)
  BY BehindHeader
<1>2. v \in Memory(t)
  BY DEF Memory, Content
<1>3. \A i \in 0 .. Len(unrollFields(t)) + 1 : v[i] = IF i = x THEN "data" ELSE w[i]
  BY DEF Memory
<1> HIDE DEF v, x
<1>4. v[ClassWord] = w[ClassWord]
  BY <1>1, <1>3, Header DEF ClassWord
<1>5. Rooted(t) => v[RefWord] = w[RefWord]
  BY <1>1, <1>3, Header DEF RefWord
<1>6. ASSUME Rooted(t), Distinct(t)
      PROVE  Ready(v, unrollFields(t), Len(unrollFields(t)))
  <2>1. Ready(w, unrollFields(t), Len(unrollFields(t)))
    BY <1>6 DEF LiveWords
  <2>2. \A i \in 1 .. Len(unrollFields(t)) : RefWord + i \in 0 .. Len(unrollFields(t)) + 1
    BY Header DEF RefWord
  <2> QED
    BY <1>3, <2>1, <2>2 DEF Ready
<1>7. LiveWords(t, v)
  BY <1>4, <1>5, <1>6 DEF LiveWords
<1> QED
  BY <1>2, <1>7 DEF v, x

(* The destructor that the header leads to is that of a class next to the  *)
(* root, so that the chain of destructors frees once.                      *)
LEMMA KillsParent ==
  ASSUME Table, NEW s, Killing(s), s[Len(s)].at = "parent", s[Len(s)].class # OBJ
  PROVE  IF parent[s[Len(s)].class] = NoClass
         THEN Killing(Append(SubSeq(s, 1, Len(s) - 1), [s[Len(s)] EXCEPT !.at = "free"]))
         ELSE Killing(Append(Append(SubSeq(s, 1, Len(s) - 1), [s[Len(s)] EXCEPT !.at = "free"]),
                             [class |-> parent[s[Len(s)].class], at |-> "parent"]))
<1>1. PICK k \in Class : LastBorn(k) /\ KillChain(s, k)
  BY DEF Killing
<1> DEFINE f == [class |-> k, at |-> "parent"]
           g == [class |-> k, at |-> "free"]
<1>2. s = <<f>>
  <2>1. CASE s = <<g>>
    <3>1. s[Len(s)] = g
      BY <2>1
    <3> QED
      BY <3>1
  <2>2. CASE s = <<g, [class |-> OBJ, at |-> "parent"]>>
    <3>1. s[Len(s)] = [class |-> OBJ, at |-> "parent"]
      BY <2>2
    <3> QED
      BY <3>1
  <2> QED
    BY <1>1, <2>1, <2>2 DEF KillChain
<1>3. s[Len(s)] = f /\ f.class = k /\ [f EXCEPT !.at = "free"] = g
  BY <1>2
<1>4. SubSeq(s, 1, Len(s) - 1) = <<>>
  <2>1. Len(s) = 1 /\ s \in Seq({f})
    BY <1>2
  <2> HIDE DEF f
  <2> QED
    BY <2>1, Popped
<1>5. parent[k] = NoClass \/ parent[k] = OBJ
  BY <1>1 DEF LastBorn
<1>6. \A x : Append(<<>>, x) = <<x>>
  OBVIOUS
<1>7. ASSUME NEW x, NEW y PROVE Append(Append(<<>>, x), y) = <<x, y>>
  <2> DEFINE S == {x, y}
             r == Append(<<x>>, y)
  <2>1. <<x>> \in Seq(S) /\ Len(<<x>>) = 1 /\ <<x>>[1] = x
    OBVIOUS
  <2>2. r \in Seq(S) /\ Len(r) = 2 /\ r[1] = x /\ r[2] = y
    BY <2>1, AppendProperties
  <2>3. <<x, y>> \in Seq(S) /\ Len(<<x, y>>) = 2 /\ <<x, y>>[1] = x /\ <<x, y>>[2] = y
    OBVIOUS
  <2> HIDE DEF r, S
  <2>4. r = <<x, y>>
    BY <2>2, <2>3, SeqEqual
  <2> QED
    BY <1>6, <2>4 DEF r
<1>8. KillChain(<<g>>, k)
  BY DEF KillChain
<1>9. KillChain(<<g, [class |-> OBJ, at |-> "parent"]>>, k)
  BY DEF KillChain
<1>10. Killing(<<g>>) /\ Killing(<<g, [class |-> OBJ, at |-> "parent"]>>)
  BY <1>1, <1>8, <1>9 DEF Killing
<1> HIDE DEF g, f
<1> QED
  BY <1>3, <1>4, <1>5, <1>6, <1>7, <1>10

(* The destructor of the root returns to it without having freed.          *)
LEMMA RootKill ==
  ASSUME NEW s, Killing(s), s[Len(s)].at = "parent", s[Len(s)].class = OBJ
  PROVE  SubSeq(s, 1, Len(s) - 1) # <<>> /\ Killing(SubSeq(s, 1, Len(s) - 1))
<1>1. PICK k \in Class : LastBorn(k) /\ KillChain(s, k)
  BY DEF Killing
<1> DEFINE f == [class |-> k, at |-> "parent"]
           g == [class |-> k, at |-> "free"]
           o == [class |-> OBJ, at |-> "parent"]
<1>2. s = <<g, o>>
  <2>1. CASE s = <<f>>
    <3>1. s[Len(s)] = f
      BY <2>1
    <3> QED
      BY <3>1, ClassNames
  <2>2. CASE s = <<g>>
    <3>1. s[Len(s)] = g
      BY <2>2
    <3> QED
      BY <3>1
  <2> QED
    BY <1>1, <2>1, <2>2 DEF KillChain
<1>3. SubSeq(s, 1, Len(s) - 1) = <<g>>
  <2> DEFINE p == SubSeq(s, 1, Len(s) - 1)
  <2>1. Len(s) = 2 /\ s \in Seq({g, o}) /\ s[1] = g
    BY <1>2
  <2>2. <<g>> \in Seq({g, o}) /\ Len(<<g>>) = 1 /\ <<g>>[1] = g
    OBVIOUS
  <2> HIDE DEF g, o
  <2>3. p \in Seq({g, o}) /\ Len(p) = 1 /\ p[1] = g
    BY <2>1, Popped
  <2> HIDE DEF p
  <2>4. p = <<g>>
    BY <2>2, <2>3, SeqEqual
  <2> QED
    BY <2>4 DEF p
<1>4. <<g>> # <<>> /\ KillChain(<<g>>, k)
  BY DEF KillChain
<1> QED
  BY <1>1, <1>3, <1>4 DEF Killing

(* It frees and returns, and nobody is left to free again.                 *)
LEMMA FreesLast ==
  ASSUME NEW s, Killing(s), s[Len(s)].at = "free"
  PROVE  SubSeq(s, 1, Len(s) - 1) = <<>>
<1>1. PICK k \in Class : LastBorn(k) /\ KillChain(s, k)
  BY DEF Killing
<1> DEFINE f == [class |-> k, at |-> "parent"]
           g == [class |-> k, at |-> "free"]
           o == [class |-> OBJ, at |-> "parent"]
<1>2. s = <<g>>
  <2>1. CASE s = <<f>>
    <3>1. s[Len(s)] = f
      BY <2>1
    <3> QED
      BY <3>1
  <2>2. CASE s = <<g, o>>
    <3>1. s[Len(s)] = o
      BY <2>2
    <3> QED
      BY <3>1
  <2> QED
    BY <1>1, <2>1, <2>2 DEF KillChain
<1>3. Len(s) = 1 /\ s \in Seq({g})
  BY <1>2
<1> HIDE DEF g
<1> QED
  BY <1>3, Popped

(* What the release of an object does with what is in the header.          *)
LEMMA Released ==
  ASSUME Table, Acyclic, NEW t, NEW w, Live(t, w)
  PROVE  /\ w[RefWord] # "zero" => ~Rooted(t)
         /\ w[ClassWord] \in Class => LastBorn(w[ClassWord])
         /\ w[ClassWord] \notin Class => t = OBJ
<1>1. t = OBJ => w[ClassWord] \notin Class
  BY NoClassIsData DEF Live, LiveWords
<1>2. t # OBJ => LastBorn(w[ClassWord])
  BY DEF Live, LiveWords
<1> QED
  BY <1>1, <1>2 DEF Live, LiveWords, LastBorn

-----------------------------------------------------------------------------
(* Every step keeps the invariant.                                         *)

LEMMA TableStep ==
  ASSUME Table, Acyclic, UNCHANGED table
  PROVE  Table' /\ Acyclic'
<1>1. parent' = parent /\ fields' = fields /\ methods' = methods
  BY DEF table
<1>2. Table'
  BY <1>1 DEF Table
<1>3. Acyclic'
  BY <1>1 DEF Acyclic
<1> QED
  BY <1>2, <1>3

(* What is said of the next state is what is said of its values.           *)
LEMMA ObjectAfter ==
  ASSUME UNCHANGED table, NEW s, NEW t, NEW w, stack' = s, type' = t, words' = w
  PROVE  /\ Initializing(stack, type, words)' = Initializing(s, t, w)
         /\ Live(type, words)' = Live(t, w)
         /\ Killing(stack)' = Killing(s)
         /\ Rooted(type)' = Rooted(t)
<1> USE DEF Ready, LastBorn, Distinct, Rooted, Ancestors, Above, unrollFields, Unroll, Push, Member,
            Memory
<1>1. parent' = parent /\ fields' = fields
  BY DEF table
<1>2. InitChain(stack, type)' = InitChain(s, t)
  BY <1>1, SMT DEF InitChain
<1>3. InitWords(stack, type, words)' = InitWords(s, t, w)
  BY <1>1, SMT DEF InitWords
<1>4. LiveWords(type, words)' = LiveWords(t, w)
  BY <1>1, SMT DEF LiveWords
<1>5. (words \in Memory(type))' = (w \in Memory(t))
  BY <1>1, SMT
<1>6. Killing(stack)' = Killing(s)
  BY <1>1, SMT DEF Killing, KillChain
<1>7. Rooted(type)' = Rooted(t)
  BY <1>1, SMT
<1> QED
  BY <1>2, <1>3, <1>4, <1>5, <1>6, <1>7 DEF Initializing, Live

LEMMA ObjectStep == IInv /\ [Next]_vars => Object'
<1> SUFFICES ASSUME IInv, [Next]_vars PROVE Object'
  OBVIOUS
<1> USE DEF IInv
<1>1. PICK s, t, w : stack' = s /\ type' = t /\ words' = w
  OBVIOUS
<1>2. UNCHANGED table
  BY DEF Next, Generated, New, StoreClassDef, CallParentInit, obj_init, InitFields, StoreField,
         Release, CallParentKill, obj_kill, Free, Wild, vars
<1>3. /\ Initializing(stack, type, words)' = Initializing(s, t, w)
      /\ Live(type, words)' = Live(t, w)
      /\ Killing(stack)' = Killing(s)
      /\ Rooted(type)' = Rooted(t)
  BY <1>1, <1>2, ObjectAfter
<1>4. ASSUME phase' = "init", Initializing(s, t, w), frees' = 0 PROVE Object'
  BY <1>3, <1>4 DEF Object
<1>5. ASSUME phase' = "live", Live(t, w), frees' = 0 PROVE Object'
  BY <1>3, <1>5 DEF Object
<1>6. ASSUME phase' = "kill", Killing(s), frees' = 0 PROVE Object'
  BY <1>3, <1>6 DEF Object
<1>7. ASSUME phase' \in {"leaked", "wild"}, t = OBJ \/ ~Rooted(t), frees' = 0 PROVE Object'
  BY <1>1, <1>3, <1>7 DEF Object
<1>8. ASSUME phase' = "done", frees' = 1 PROVE Object'
  BY <1>8 DEF Object
<1>9. ASSUME NEW c \in Newable, New(c) PROVE Object'
  <2>1. c \in AllClass
    BY NewableClasses
  <2>2. Initializing(s, t, w)
    BY <1>1, <1>9, <2>1, NewObject DEF New
  <2> QED
    BY <1>4, <1>9, <2>2 DEF New
<1>10. CASE StoreClassDef
  <2>1. Initializing(stack, type, words) /\ frees = 0
    BY <1>10 DEF StoreClassDef, Object
  <2>2. Initializing(s, t, w)
    <3>1. /\ s = Append(SubSeq(stack, 1, Len(stack) - 1), [stack[Len(stack)] EXCEPT !.at = "parent"])
          /\ t = type /\ w = [words EXCEPT ![ClassWord] = stack[Len(stack)].class]
          /\ stack[Len(stack)].at = "class" /\ stack[Len(stack)].class # OBJ
      BY <1>1, <1>10, Zenon DEF StoreClassDef, Top, Below
    <3>2. Initializing(Append(SubSeq(stack, 1, Len(stack) - 1),
                              [stack[Len(stack)] EXCEPT !.at = "parent"]), type,
                       [words EXCEPT ![ClassWord] = stack[Len(stack)].class])
      BY <2>1, <3>1, StoresClass, Zenon
    <3> QED
      BY <3>1, <3>2, Zenon
  <2> QED
    BY <1>4, <1>10, <2>1, <2>2 DEF StoreClassDef
<1>11. CASE CallParentInit
  <2>1. Initializing(stack, type, words) /\ frees = 0
    BY <1>11 DEF CallParentInit, Object
  <2>2. Initializing(s, t, w)
    <3>1. CASE parent[Top.class] = NoClass
      BY <1>1, <1>11, <2>1, <3>1, NoParentInit DEF CallParentInit, Top, Below
    <3>2. CASE parent[Top.class] # NoClass
      BY <1>1, <1>11, <2>1, <3>2, CallsInit DEF CallParentInit, Call, Top, Below
    <3> QED
      BY <3>1, <3>2
  <2> QED
    BY <1>4, <1>11, <2>1, <2>2 DEF CallParentInit
<1>12. CASE obj_init
  <2>1. Initializing(stack, type, words) /\ frees = 0
    BY <1>12 DEF obj_init, Object
  <2>2. IF Below = <<>> THEN Live(t, w) ELSE Initializing(s, t, w)
    <3>1. /\ s = Below /\ t = type /\ w = [words EXCEPT ![RefWord] = "zero"]
          /\ stack[Len(stack)].at = "class" /\ stack[Len(stack)].class = OBJ
      BY <1>1, <1>12, Zenon DEF obj_init, Return, Top
    <3>2. IF Below = <<>> THEN Live(type, [words EXCEPT ![RefWord] = "zero"])
          ELSE Initializing(Below, type, [words EXCEPT ![RefWord] = "zero"])
      BY <2>1, <3>1, RootInit, Zenon DEF Below
    <3> QED
      BY <3>1, <3>2, Zenon
  <2> QED
    BY <1>4, <1>5, <1>12, <2>1, <2>2 DEF obj_init, Return
<1>13. CASE InitFields
  <2>1. Initializing(stack, type, words) /\ frees = 0
    BY <1>13 DEF InitFields, Object
  <2>2. IF Below = <<>> THEN Live(t, w) ELSE Initializing(s, t, w)
    BY <1>1, <1>13, <2>1, FieldsInit DEF InitFields, Return, Top, Below
  <2> QED
    BY <1>4, <1>5, <1>13, <2>1, <2>2 DEF InitFields, Return
<1>14. ASSUME NEW f \in FieldName, StoreField(f) PROVE Object'
  <2>1. Live(type, words) /\ frees = 0
    BY <1>14 DEF StoreField, Object
  <2>2. Live(t, w)
    <3>1. /\ f \in FieldsOf(type) /\ t = type
          /\ w = [words EXCEPT ![getFieldPtr(f, type)] = "data"]
      BY <1>1, <1>14, Zenon DEF StoreField
    <3>2. Live(type, [words EXCEPT ![getFieldPtr(f, type)] = "data"])
      BY <2>1, <3>1, FieldStored, Zenon
    <3> QED
      BY <3>1, <3>2, Zenon
  <2> QED
    BY <1>5, <1>14, <2>1, <2>2 DEF StoreField
<1>15. CASE Release
  <2>1. Live(type, words) /\ frees = 0
    BY <1>15 DEF Release, Object
  <2>2. /\ words[RefWord] # "zero" => ~Rooted(type)
        /\ words[ClassWord] \in Class => LastBorn(words[ClassWord])
        /\ words[ClassWord] \notin Class => type = OBJ
    BY <2>1, Released
  <2>3. t = type /\ frees' = 0
    BY <1>1, <1>15, <2>1 DEF Release
  <2>4. CASE words[RefWord] # "zero"
    <3>1. phase' = "leaked"
      BY <1>15, <2>4 DEF Release
    <3> QED
      BY <1>7, <2>2, <2>3, <2>4, <3>1
  <2>5. CASE words[RefWord] = "zero" /\ words[ClassWord] \notin Class
    <3>1. phase' = "wild"
      BY <1>15, <2>5 DEF Release
    <3> QED
      BY <1>7, <2>2, <2>3, <2>5, <3>1
  <2>6. CASE words[RefWord] = "zero" /\ words[ClassWord] \in Class
    <3>1. phase' = "kill"
      BY <1>15, <2>6 DEF Release
    <3>2. s = <<[class |-> words[ClassWord], at |-> "parent"]>>
      BY <1>1, <1>15, <3>1 DEF Release
    <3>3. Killing(s)
      BY <2>2, <2>6, <3>2 DEF Killing, KillChain
    <3> QED
      BY <1>6, <2>3, <3>1, <3>3
  <2> QED
    BY <2>4, <2>5, <2>6
<1>16. CASE CallParentKill
  <2>1. Killing(stack) /\ frees = 0
    BY <1>16 DEF CallParentKill, Object
  <2>2. Killing(s)
    <3>1. CASE parent[Top.class] = NoClass
      BY <1>1, <1>16, <2>1, <3>1, KillsParent DEF CallParentKill, Top, Below
    <3>2. CASE parent[Top.class] # NoClass
      BY <1>1, <1>16, <2>1, <3>2, KillsParent DEF CallParentKill, Call, Top, Below
    <3> QED
      BY <3>1, <3>2
  <2> QED
    BY <1>6, <1>16, <2>1, <2>2 DEF CallParentKill
<1>17. CASE obj_kill
  <2>1. Killing(stack) /\ frees = 0
    BY <1>17 DEF obj_kill, Object
  <2>2. Below # <<>> /\ Killing(s)
    BY <1>1, <1>17, <2>1, RootKill DEF obj_kill, Return, Top, Below
  <2> QED
    BY <1>6, <1>17, <2>1, <2>2 DEF obj_kill, Return
<1>18. CASE Free
  <2>1. Killing(stack) /\ frees = 0
    BY <1>18 DEF Free, Object
  <2>2. Below = <<>>
    BY <1>18, <2>1, FreesLast DEF Free, Top, Below
  <2> QED
    BY <1>8, <1>18, <2>1, <2>2 DEF Free, Return
<1>19. CASE Wild \/ UNCHANGED vars
  <2>1. UNCHANGED object
    BY <1>19 DEF Wild, vars
  <2>2. s = stack /\ t = type /\ w = words /\ phase' = phase /\ frees' = frees
    BY <1>1, <2>1 DEF object
  <2>3. /\ Initializing(stack, type, words)' = Initializing(stack, type, words)
        /\ Live(type, words)' = Live(type, words)
        /\ Killing(stack)' = Killing(stack) /\ Rooted(type)' = Rooted(type)
    BY <1>3, <2>2, Zenon
  <2>4. type' = type /\ phase' = phase /\ frees' = frees
    BY <1>1, <2>2
  <2> QED
    BY <2>3, <2>4 DEF Object
<1> QED
  BY <1>9, <1>10, <1>11, <1>12, <1>13, <1>14, <1>15, <1>16, <1>17, <1>18, <1>19
     DEF Next, Generated

LEMMA KillingTyped ==
  ASSUME NEW s, Killing(s)
  PROVE  s \in Seq(Frame)
<1>1. PICK k \in Class : LastBorn(k) /\ KillChain(s, k)
  BY DEF Killing
<1> DEFINE f == [class |-> k, at |-> "parent"]
           g == [class |-> k, at |-> "free"]
           o == [class |-> OBJ, at |-> "parent"]
<1>2. f \in Frame /\ g \in Frame /\ o \in Frame
  BY DEF Frame, AllClass
<1>3. s = <<f>> \/ s = <<g>> \/ s = <<g, o>>
  BY <1>1, Zenon DEF KillChain
<1> HIDE DEF f, g, o
<1>4. <<f>> \in Seq(Frame) /\ <<g>> \in Seq(Frame) /\ <<g, o>> \in Seq(Frame)
  BY <1>2
<1> QED
  BY <1>3, <1>4, Zenon

(* The types follow from what is said of each phase.                       *)
LEMMA TypeStep == IInv /\ [Next]_vars => TypeOK'
<1> SUFFICES ASSUME IInv, [Next]_vars PROVE TypeOK'
  OBVIOUS
<1> USE DEF IInv
<1>1. Object' /\ UNCHANGED table
  BY ObjectStep DEF Next, Generated, New, StoreClassDef, CallParentInit, obj_init, InitFields,
     StoreField, Release, CallParentKill, obj_kill, Free, Wild, vars
<1>2. Initializing(stack, type, words)'
        => type' \in AllClass /\ stack' \in Seq(Frame) /\ words' \in [DOMAIN words' -> Content]
  BY DEF Initializing, Memory
<1>3. Live(type, words)' => type' \in AllClass /\ words' \in [DOMAIN words' -> Content]
  BY DEF Live, Memory
<1>4. Killing(stack)' => stack' \in Seq(Frame)
  <2>1. PICK s : stack' = s
    OBVIOUS
  <2>2. Killing(stack)' = Killing(s)
    BY <1>1, <2>1, ObjectAfter
  <2> QED
    BY <2>1, <2>2, KillingTyped
<1>5. /\ frees' \in Nat
      /\ phase' = "init" => Initializing(stack, type, words)'
      /\ phase' = "live" => Live(type, words)'
      /\ phase' = "kill" => Killing(stack)'
  BY <1>1 DEF Object
<1>6. ASSUME phase' = "init" PROVE TypeOK'
  BY <1>2, <1>5, <1>6 DEF TypeOK, Phase
<1>7. ASSUME phase' = "live", stack' = <<>> \/ stack' = stack PROVE TypeOK'
  <2>1. <<>> \in Seq(Frame)
    OBVIOUS
  <2>2. stack' \in Seq(Frame)
    BY <1>7, <2>1, Zenon DEF TypeOK
  <2> QED
    BY <1>3, <1>5, <1>7, <2>2 DEF TypeOK, Phase
<1>8. ASSUME phase' \in Phase, type' = type, words' = words, phase' = "kill" \/ stack' = <<>>
      PROVE  TypeOK'
  <2>1. <<>> \in Seq(Frame)
    OBVIOUS
  <2>2. stack' \in Seq(Frame)
    BY <1>4, <1>5, <1>8, <2>1, Zenon
  <2> QED
    BY <1>5, <1>8, <2>2 DEF TypeOK
<1>9. ASSUME NEW c \in Newable, New(c) PROVE TypeOK'
  BY <1>6, <1>9 DEF New
<1>10. CASE StoreClassDef
  BY <1>6, <1>10 DEF StoreClassDef
<1>11. CASE CallParentInit
  BY <1>6, <1>11 DEF CallParentInit
<1>12. CASE obj_init \/ InitFields
  BY <1>6, <1>7, <1>12 DEF obj_init, InitFields, Return
<1>13. ASSUME NEW f \in FieldName, StoreField(f) PROVE TypeOK'
  BY <1>7, <1>13 DEF StoreField
<1>14. CASE Release
  BY <1>8, <1>14 DEF Release, Phase
<1>15. CASE CallParentKill
  BY <1>8, <1>15 DEF CallParentKill, Phase
<1>16. CASE obj_kill \/ Free
  BY <1>8, <1>16 DEF obj_kill, Free, Return, Phase
<1>17. CASE Wild \/ UNCHANGED vars
  BY <1>17 DEF Wild, vars, object, TypeOK
<1> QED
  BY <1>9, <1>10, <1>11, <1>12, <1>13, <1>14, <1>15, <1>16, <1>17 DEF Next, Generated

LEMMA Stepwise == IInv /\ [Next]_vars => IInv' /\ UNCHANGED table
<1>1. [Next]_vars => UNCHANGED table
  BY DEF Next, Generated, New, StoreClassDef, CallParentInit, obj_init, InitFields,
     StoreField, Release, CallParentKill, obj_kill, Free, Wild, vars
<1> QED
  BY <1>1, TableStep, TypeStep, ObjectStep DEF IInv

LEMMA Inductive == Spec => []IInv
  BY Initially, Stepwise, PTL DEF Spec

-----------------------------------------------------------------------------

(* The words of an object and the stack of generated functions that runs   *)
(* over it have their types (LLVMStapleObject.cpp, runtime.ll).            *)
THEOREM LifecycleTypes == Spec => []TypeOK
<1>1. IInv => TypeOK
  BY DEF IInv
<1> QED
  BY <1>1, Inductive, PTL

(* In every hierarchy the memory of an object goes to free exactly once,   *)
(* although the kill function of each class frees: the pointer in the      *)
(* header is that of a class next to the root, whose chain is the shortest *)
(* (createInitFunction and createKillFunction of LLVMStapleObject.cpp).    *)
THEOREM MemoryFreedOnce == Spec => []FreedOnce
<1>1. IInv => FreedOnce
  BY DEF IInv, Object, FreedOnce
<1> QED
  BY <1>1, Inductive, PTL

(* Every word is written when the outermost init function has returned.    *)
LEMMA LiveIsInitialized == IInv => Initialized
<1> SUFFICES ASSUME IInv, phase = "live", type # OBJ, Rooted(type), Distinct(type)
             PROVE  /\ words[ClassWord] \in Class
                    /\ words[RefWord] # "garbage"
                    /\ \A i \in DOMAIN unrollFields(type) :
                         Kind[unrollFields(type)[i].name] # "inline"
                           => words[RefWord + i] # "garbage"
  BY DEF Initialized
<1>1. Live(type, words) /\ type \in AllClass
  BY DEF IInv, Object, Live
<1>2. /\ LastBorn(words[ClassWord]) /\ words[RefWord] = "zero"
      /\ Ready(words, unrollFields(type), Len(unrollFields(type)))
  BY <1>1 DEF Live, LiveWords
<1>3. DOMAIN unrollFields(type) = 1 .. Len(unrollFields(type))
  BY <1>1, FieldsUnrolled, LenProperties DEF IInv
<1> QED
  BY <1>2, <1>3 DEF LastBorn, Ready

(* However many classes and fields there are, the chain of init functions  *)
(* leaves no word but the inline objects with what malloc found in it.     *)
THEOREM ObjectsInitialized == Spec => []Initialized
  BY Inductive, LiveIsInitialized, PTL

(* Releasing an object whose class descends from obj runs its destructor:  *)
(* neither the count nor the class in its header is ever a field of it     *)
(* (stp_release of runtime.ll).                                            *)
THEOREM ReleaseDestroys == Spec => []ReleaseReachesDestructor
<1>1. IInv => ReleaseReachesDestructor
  BY DEF IInv, Object, ReleaseReachesDestructor
<1> QED
  BY <1>1, Inductive, PTL

-----------------------------------------------------------------------------
(* The passes of the compiler and then the program that it generates: the  *)
(* objects live with whatever table the passes have left, methods and any  *)
(* number of fields included.                                              *)

NoObject == phase = "none" /\ type = NoClass /\ words = <<>> /\ stack = <<>> /\ frees = 0

CompileStep == TableNext /\ UNCHANGED object
ProgramStep == Generating /\ Next /\ UNCHANGED <<extends, pass, defined, visited, current>>

Whole ==
  TableInit /\ NoObject /\ [][CompileStep \/ ProgramStep]_<<tableVars, object>>

WholeInv == TableIInv /\ IF Generating THEN IInv ELSE NoObject

LEMMA NoObjectYet == Table /\ Acyclic /\ NoObject => IInv
<1> SUFFICES ASSUME Table, Acyclic, NoObject PROVE IInv
  OBVIOUS
<1>1. TypeOK
  <2>1. <<>> \in Seq(Frame) /\ <<>> \in [DOMAIN <<>> -> Content]
    OBVIOUS
  <2> QED
    BY <2>1 DEF NoObject, TypeOK, Phase
<1>2. Object
  BY DEF NoObject, Object
<1> QED
  BY <1>1, <1>2 DEF IInv

LEMMA WholeStepwise ==
  WholeInv /\ [CompileStep \/ ProgramStep]_<<tableVars, object>> => WholeInv'
<1> SUFFICES ASSUME WholeInv, [CompileStep \/ ProgramStep]_<<tableVars, object>>
             PROVE  WholeInv'
  OBVIOUS
<1>1. CASE UNCHANGED <<tableVars, object>>
  <2>1. UNCHANGED vars
    BY <1>1 DEF tableVars, vars
  <2>2. IInv => IInv'
    BY <2>1, Stepwise
  <2>3. TableIInv' /\ (Generating' <=> Generating) /\ (NoObject => NoObject')
    BY <1>1, TableStepwise DEF WholeInv, tableVars, object, Generating, NoObject
  <2> QED
    BY <2>2, <2>3 DEF WholeInv
<1>2. CASE CompileStep
  <2>1. TableIInv' /\ UNCHANGED object
    BY <1>2, TableStepwise DEF WholeInv, CompileStep
  <2>2. CASE Generating
    <3>1. UNCHANGED tableVars
      BY <1>2, <2>2 DEF CompileStep, TableNext, Generating, DefineClass, SetParent, EndNames,
         AddField, AddMethod, EndMembers, Stopped
    <3>2. UNCHANGED vars /\ Generating'
      BY <2>1, <2>2, <3>1 DEF tableVars, vars, Generating
    <3>3. IInv'
      BY <2>2, <3>2, Stepwise DEF WholeInv
    <3> QED
      BY <2>1, <3>2, <3>3 DEF WholeInv
  <2>3. CASE ~ Generating
    <3>1. NoObject'
      BY <2>1, <2>3 DEF WholeInv, NoObject, object
    <3>2. Generating' => IInv'
      <4>1. (Generating => Table /\ Acyclic)'
        BY <2>1 DEF TableIInv, TableKept
      <4>2. (Table /\ Acyclic /\ NoObject => IInv)'
        BY NoObjectYet, PTL
      <4> QED
        BY <3>1, <4>1, <4>2
    <3> QED
      BY <2>1, <3>1, <3>2 DEF WholeInv
  <2> QED
    BY <2>2, <2>3
<1>3. CASE ProgramStep
  <2>1. IInv' /\ UNCHANGED table
    BY <1>3, Stepwise DEF WholeInv, ProgramStep
  <2>2. UNCHANGED tableVars /\ Generating'
    BY <1>3, <2>1 DEF ProgramStep, tableVars, Generating
  <2>3. TableIInv'
    BY <2>2, TableStepwise DEF WholeInv
  <2> QED
    BY <2>1, <2>2, <2>3 DEF WholeInv
<1> QED
  BY <1>1, <1>2, <1>3

(* For every program that the compiler generates code for, objects are     *)
(* initialised, find their destructors and are freed once: the class table *)
(* of the passes is one that the generated functions need.                 *)
THEOREM ObjectsOfPrograms == Whole => [](Initialized /\ FreedOnce /\ ReleaseReachesDestructor)
<1>1. TableInit /\ NoObject => WholeInv
  <2>1. TableInit => ~ Generating
    BY DEF TableInit, Generating
  <2> QED
    BY <2>1, InductiveInit DEF WholeInv
<1>2. WholeInv => Initialized /\ FreedOnce /\ ReleaseReachesDestructor
  <2>1. CASE Generating
    BY <2>1, LiveIsInitialized DEF WholeInv, IInv, Object, FreedOnce, ReleaseReachesDestructor
  <2>2. CASE ~ Generating
    BY <2>2 DEF WholeInv, NoObject, Initialized, FreedOnce, ReleaseReachesDestructor
  <2> QED
    BY <2>1, <2>2
<1> QED
  BY <1>1, <1>2, WholeStepwise, PTL DEF Whole

=============================================================================
