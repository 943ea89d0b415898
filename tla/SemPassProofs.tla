--------------------------- MODULE SemPassProofs ----------------------------
(***************************************************************************)
(* Names in the semantic pass and in the code generator, for any number of *)
(* functions, methods and statements and `if`s of any depth: both visitors *)
(* keep their types, and a program that is accepted and not ambiguous is   *)
(* generated with the declarations it was checked with.                    *)
(***************************************************************************)
EXTENDS SemPass, FiniteSetTheorems, Induction, TLAPS

LEMMA FunctionIsSeq ==
  ASSUME NEW S, NEW n \in Nat, NEW f \in [1 .. n -> S]
  PROVE  f \in Seq(S) /\ Len(f) = n
<1>1. f \in Seq(S)
  BY SeqDef
<1>2. Len(f) \in Nat /\ DOMAIN f = 1 .. Len(f) /\ DOMAIN f = 1 .. n
  BY <1>1, LenProperties
<1> QED
  BY <1>1, <1>2

(* u is s and then t.                                                      *)
Joins(u, s, t, S) ==
  /\ u \in Seq(S) /\ Len(u) = Len(s) + Len(t)
  /\ \A i \in 1 .. Len(s) : u[i] = s[i]
  /\ \A i \in 1 .. Len(t) : u[Len(s) + i] = t[i]

LEMMA Joined ==
  ASSUME NEW S, NEW s \in Seq(S), NEW t \in Seq(S)
  PROVE  Joins(s \o t, s, t, S)
<1> DEFINE u == s \o t
           m == Len(s)
           n == Len(t)
<1>1. m \in Nat /\ n \in Nat
  BY LenProperties
<1>2. /\ u \in Seq(S) /\ Len(u) = m + n
      /\ \A i \in 1 .. m + n : u[i] = IF i <= m THEN s[i] ELSE t[i - m]
  BY ConcatProperties
<1> HIDE DEF u, m, n
<1>3. ASSUME NEW i \in 1 .. m PROVE u[i] = s[i]
  <2>1. i \in 1 .. m + n /\ i <= m
    BY <1>1
  <2> QED
    BY <1>1, <1>2, <2>1
<1>4. ASSUME NEW i \in 1 .. n PROVE u[m + i] = t[i]
  <2>1. m + i \in 1 .. m + n /\ ~ (m + i <= m) /\ (m + i) - m = i
    BY <1>1
  <2>2. u[m + i] = IF m + i <= m THEN s[m + i] ELSE t[(m + i) - m]
    BY <1>2, <2>1
  <2> QED
    BY <2>1, <2>2
<1> QED
  BY <1>2, <1>3, <1>4 DEF Joins, u, m, n

(* Sets of numbers below a bound have a greatest.                          *)
LEMMA Greatest ==
  ASSUME NEW n \in Nat, NEW T, T \subseteq 0 .. n, T # {}
  PROVE  \E m \in T : \A k \in T : k <= m
<1> DEFINE D == {d \in 0 .. n : n - d \in T}
<1>1. ASSUME NEW k \in T PROVE n - k \in D /\ k \in 0 .. n
  <2>1. k \in 0 .. n
    OBVIOUS
  <2>2. n - k \in 0 .. n /\ n - (n - k) = k
    BY <2>1
  <2> QED
    BY <2>1, <2>2 DEF D
<1>2. D \subseteq Nat /\ D # {}
  <2>1. D \subseteq Nat
    OBVIOUS
  <2> HIDE DEF D
  <2> QED
    BY <1>1, <2>1
<1> HIDE DEF D
<1>3. PICK d \in D : \A e \in D : d <= e
  BY <1>2, Least
<1>4. n - d \in T /\ d \in 0 .. n
  BY DEF D
<1>5. ASSUME NEW k \in T PROVE k <= n - d
  <2>1. d <= n - k /\ k \in 0 .. n
    BY <1>1, <1>3
  <2> QED
    BY <1>4, <2>1
<1> QED
  BY <1>4, <1>5

-----------------------------------------------------------------------------
(* The bodies.                                                             *)

BodySet == Range(Checked)

LEMMA BodyLists ==
  /\ Len(Functions) \in Nat /\ Len(Methods) \in Nat /\ Len(Classes) \in Nat
  /\ Len(Checked) = Len(Methods) + Len(Functions) /\ Len(Generated) = Len(Checked)
  /\ Len(Checked) \in Nat
  /\ \A i \in 1 .. Len(Methods) :
       /\ Checked[i] = [class |-> Methods[i][1], name |-> Methods[i][2]]
       /\ Generated[Len(Functions) + i] = Checked[i]
  /\ \A i \in 1 .. Len(Functions) :
       /\ Checked[Len(Methods) + i] = [class |-> NoClass, name |-> Functions[i]]
       /\ Generated[i] = Checked[Len(Methods) + i]
  /\ BodySet = {Checked[i] : i \in 1 .. Len(Checked)}
<1> DEFINE M == [class : Range(Classes), name : {m[2] : m \in Range(Methods)}]
           F == [class : {NoClass}, name : Range(Functions)]
<1>1. /\ Classes \in Seq(Range(Classes)) /\ Functions \in Seq(Range(Functions))
      /\ Methods \in Seq(Range(Classes) \X {m[2] : m \in Range(Methods)})
  BY Lists
<1>2. /\ Len(Functions) \in Nat /\ Len(Methods) \in Nat /\ Len(Classes) \in Nat
      /\ DOMAIN Functions = 1 .. Len(Functions) /\ DOMAIN Methods = 1 .. Len(Methods)
      /\ \A i \in 1 .. Len(Functions) : Functions[i] \in Range(Functions)
      /\ \A i \in 1 .. Len(Methods) : Methods[i] \in Range(Classes) \X {m[2] : m \in Range(Methods)}
  <2>1. /\ Len(Functions) \in Nat /\ Len(Methods) \in Nat /\ Len(Classes) \in Nat
        /\ DOMAIN Functions = 1 .. Len(Functions) /\ DOMAIN Methods = 1 .. Len(Methods)
    BY <1>1, LenProperties
  <2>2. \A i \in 1 .. Len(Functions) : Functions[i] \in Range(Functions)
    BY <2>1 DEF Range
  <2>3. \A i \in 1 .. Len(Methods) : Methods[i] \in Range(Classes) \X {m[2] : m \in Range(Methods)}
    BY <1>1, ElementOfSeq
  <2> QED
    BY <2>1, <2>2, <2>3
<1>3. /\ MethodBodies = [i \in 1 .. Len(Methods) |-> [class |-> Methods[i][1], name |-> Methods[i][2]]]
      /\ FunctionBodies = [i \in 1 .. Len(Functions) |-> [class |-> NoClass, name |-> Functions[i]]]
  BY <1>2 DEF MethodBodies, FunctionBodies
<1>4. MethodBodies \in Seq(M) /\ Len(MethodBodies) = Len(Methods)
  <2>1. \A i \in 1 .. Len(Methods) : [class |-> Methods[i][1], name |-> Methods[i][2]] \in M
    BY <1>2
  <2>2. MethodBodies \in [1 .. Len(Methods) -> M]
    BY <1>3, <2>1
  <2> HIDE DEF M
  <2> QED
    BY <1>2, <2>2, FunctionIsSeq
<1>5. FunctionBodies \in Seq(F) /\ Len(FunctionBodies) = Len(Functions)
  <2>1. \A i \in 1 .. Len(Functions) : [class |-> NoClass, name |-> Functions[i]] \in F
    BY <1>2
  <2>2. FunctionBodies \in [1 .. Len(Functions) -> F]
    BY <1>3, <2>1
  <2> HIDE DEF F
  <2> QED
    BY <1>2, <2>2, FunctionIsSeq
<1>6. \A i \in 1 .. Len(Methods) : MethodBodies[i] = [class |-> Methods[i][1], name |-> Methods[i][2]]
  BY <1>3
<1>7. \A i \in 1 .. Len(Functions) : FunctionBodies[i] = [class |-> NoClass, name |-> Functions[i]]
  BY <1>3
<1> HIDE DEF M, F
<1>8. MethodBodies \in Seq(M \cup F) /\ FunctionBodies \in Seq(M \cup F)
  BY <1>4, <1>5, SeqMonotonic
<1>9. /\ Checked \in Seq(M \cup F) /\ Len(Checked) = Len(Methods) + Len(Functions)
      /\ \A i \in 1 .. Len(Methods) : Checked[i] = MethodBodies[i]
      /\ \A i \in 1 .. Len(Functions) : Checked[Len(Methods) + i] = FunctionBodies[i]
  <2> DEFINE s == MethodBodies
             t == FunctionBodies
             S == M \cup F
  <2>1. s \in Seq(S) /\ t \in Seq(S) /\ Len(s) = Len(Methods) /\ Len(t) = Len(Functions)
    BY <1>4, <1>5, <1>8
  <2>2. Checked = s \o t
    BY DEF Checked
  <2> HIDE DEF s, t, S
  <2>3. Joins(s \o t, s, t, S)
    BY <2>1, Joined
  <2> QED
    BY <2>1, <2>2, <2>3 DEF Joins, s, t, S
<1>10. /\ Generated \in Seq(M \cup F) /\ Len(Generated) = Len(Functions) + Len(Methods)
       /\ \A i \in 1 .. Len(Functions) : Generated[i] = FunctionBodies[i]
       /\ \A i \in 1 .. Len(Methods) : Generated[Len(Functions) + i] = MethodBodies[i]
  <2> DEFINE s == FunctionBodies
             t == MethodBodies
             S == M \cup F
  <2>1. s \in Seq(S) /\ t \in Seq(S) /\ Len(s) = Len(Functions) /\ Len(t) = Len(Methods)
    BY <1>4, <1>5, <1>8
  <2>2. Generated = s \o t
    BY DEF Generated
  <2> HIDE DEF s, t, S
  <2>3. Joins(s \o t, s, t, S)
    BY <2>1, Joined
  <2> QED
    BY <2>1, <2>2, <2>3 DEF Joins, s, t, S
<1>11. BodySet = {Checked[i] : i \in 1 .. Len(Checked)}
  BY <1>9, LenProperties DEF BodySet, Range
<1>12. \A i \in 1 .. Len(Methods) :
         /\ Checked[i] = [class |-> Methods[i][1], name |-> Methods[i][2]]
         /\ Generated[Len(Functions) + i] = Checked[i]
  BY <1>6, <1>9, <1>10
<1>13. \A i \in 1 .. Len(Functions) :
         /\ Checked[Len(Methods) + i] = [class |-> NoClass, name |-> Functions[i]]
         /\ Generated[i] = Checked[Len(Methods) + i]
  BY <1>7, <1>9, <1>10
<1>14. Len(Generated) = Len(Checked) /\ Len(Checked) \in Nat
  <2> DEFINE m == Len(Methods)
             n == Len(Functions)
             c == Len(Checked)
             g == Len(Generated)
  <2>1. m \in Nat /\ n \in Nat /\ c = m + n /\ g = n + m
    BY <1>2, <1>9, <1>10
  <2> HIDE DEF m, n, c, g
  <2>2. g = c /\ c \in Nat
    BY <2>1
  <2> QED
    BY <2>2 DEF c, g
<1> QED
  BY <1>2, <1>9, <1>11, <1>12, <1>13, <1>14

LEMMA BodiesDiffer ==
  /\ \A i, j \in 1 .. Len(Checked) : Checked[i] = Checked[j] => i = j
  /\ \A i \in 1 .. Len(Checked) : Checked[i] \in BodySet /\ Generated[i] \in BodySet
  /\ \A b \in BodySet :
       \/ b.class = NoClass /\ b.name \in Range(Functions)
       \/ b.class # NoClass /\ b.class \in Range(Classes) /\ <<b.class, b.name>> \in Range(Methods)
<1> DEFINE m == Len(Methods)
           n == Len(Functions)
<1>1. m \in Nat /\ n \in Nat /\ Len(Checked) = m + n
  BY BodyLists
<1>10. \A i \in 1 .. m : /\ Checked[i].class = Methods[i][1] /\ Checked[i].name = Methods[i][2]
                         /\ Generated[n + i] = Checked[i]
  <2> TAKE i \in 1 .. m
  <2>1. /\ Checked[i] = [class |-> Methods[i][1], name |-> Methods[i][2]]
        /\ Generated[n + i] = Checked[i]
    BY BodyLists
  <2> QED
    BY <2>1
<1>11. \A i \in 1 .. n : /\ Checked[m + i].class = NoClass /\ Checked[m + i].name = Functions[i]
                         /\ Generated[i] = Checked[m + i]
  <2> TAKE i \in 1 .. n
  <2>1. /\ Checked[m + i] = [class |-> NoClass, name |-> Functions[i]]
        /\ Generated[i] = Checked[m + i]
    BY BodyLists
  <2> QED
    BY <2>1
<1>12. BodySet = {Checked[i] : i \in 1 .. m + n}
  BY BodyLists
<1>2. /\ DOMAIN Methods = 1 .. m /\ DOMAIN Functions = 1 .. n
      /\ \A i \in 1 .. m : /\ Methods[i] = <<Methods[i][1], Methods[i][2]>>
                           /\ Methods[i][1] \in Range(Classes) /\ Methods[i][1] # NoClass
      /\ \A i \in 1 .. n : Functions[i] \in Range(Functions)
  <2>1. DOMAIN Methods = 1 .. m /\ DOMAIN Functions = 1 .. n
    BY Lists, LenProperties
  <2>2. \A i \in 1 .. m : Methods[i] \in Range(Classes) \X {x[2] : x \in Range(Methods)}
    BY Lists, ElementOfSeq
  <2>3. \A i \in 1 .. n : Functions[i] \in Range(Functions)
    BY <2>1 DEF Range
  <2> QED
    BY <2>1, <2>2, <2>3, Lists
<1>3. /\ \A i, j \in 1 .. m : Methods[i] = Methods[j] => i = j
      /\ \A i, j \in 1 .. n : Functions[i] = Functions[j] => i = j
  BY <1>2, Lists DEF IsInjective
<1>4. \A i \in 1 .. m + n : i \in 1 .. m \/ \E k \in 1 .. n : i = m + k
  <2> TAKE i \in 1 .. m + n
  <2>1. CASE i <= m
    BY <1>1, <2>1
  <2>2. CASE i > m
    <3>1. i - m \in 1 .. n /\ i = m + (i - m)
      BY <1>1, <2>2
    <3> QED
      BY <3>1
  <2> QED
    BY <1>1, <2>1, <2>2
<1>5. \A i \in 1 .. m + n : i \in 1 .. n \/ \E k \in 1 .. m : i = n + k
  <2> TAKE i \in 1 .. m + n
  <2>1. CASE i <= n
    BY <1>1, <2>1
  <2>2. CASE i > n
    <3>1. i - n \in 1 .. m /\ i = n + (i - n)
      BY <1>1, <2>2
    <3> QED
      BY <3>1
  <2> QED
    BY <1>1, <2>1, <2>2
<1>6. /\ \A i \in 1 .. m : i \in 1 .. m + n
      /\ \A i \in 1 .. n : m + i \in 1 .. m + n
  BY <1>1
<1> HIDE DEF m, n
<1>7. \A i, j \in 1 .. Len(Checked) : Checked[i] = Checked[j] => i = j
  <2> SUFFICES ASSUME NEW i \in 1 .. m + n, NEW j \in 1 .. m + n, Checked[i] = Checked[j]
               PROVE  i = j
    BY <1>1
  <2>1. CASE i \in 1 .. m /\ j \in 1 .. m
    <3>1. Methods[i][1] = Methods[j][1] /\ Methods[i][2] = Methods[j][2]
      BY <1>10, <2>1
    <3> QED
      BY <1>2, <1>3, <2>1, <3>1
  <2>2. CASE i \in 1 .. m /\ \E k \in 1 .. n : j = m + k
    BY <1>2, <1>10, <1>11, <2>2
  <2>3. CASE j \in 1 .. m /\ \E k \in 1 .. n : i = m + k
    BY <1>2, <1>10, <1>11, <2>3
  <2>4. CASE (\E k \in 1 .. n : i = m + k) /\ (\E k \in 1 .. n : j = m + k)
    <3>1. PICK k \in 1 .. n : i = m + k
      BY <2>4
    <3>2. PICK l \in 1 .. n : j = m + l
      BY <2>4
    <3>3. Functions[k] = Functions[l]
      BY <1>11, <3>1, <3>2
    <3> QED
      BY <1>3, <3>1, <3>2, <3>3
  <2> QED
    BY <1>4, <2>1, <2>2, <2>3, <2>4
<1>8. \A i \in 1 .. Len(Checked) : Checked[i] \in BodySet /\ Generated[i] \in BodySet
  <2> SUFFICES ASSUME NEW i \in 1 .. m + n PROVE Checked[i] \in BodySet /\ Generated[i] \in BodySet
    BY <1>1
  <2>1. \A k \in 1 .. m + n : Checked[k] \in BodySet
    BY <1>12
  <2>2. CASE i \in 1 .. n
    BY <1>6, <1>11, <2>1, <2>2
  <2>3. CASE \E k \in 1 .. m : i = n + k
    BY <1>6, <1>10, <2>1, <2>3
  <2> QED
    BY <1>5, <2>1, <2>2, <2>3
<1>9. ASSUME NEW b \in BodySet
      PROVE  \/ b.class = NoClass /\ b.name \in Range(Functions)
             \/ b.class # NoClass /\ b.class \in Range(Classes) /\ <<b.class, b.name>> \in Range(Methods)
  <2>1. PICK i \in 1 .. m + n : b = Checked[i]
    BY <1>12
  <2>2. CASE i \in 1 .. m
    <3>1. b.class = Methods[i][1] /\ b.name = Methods[i][2] /\ Methods[i] \in Range(Methods)
      BY <1>2, <1>10, <2>1, <2>2 DEF Range
    <3> QED
      BY <1>2, <2>2, <3>1
  <2>3. CASE \E k \in 1 .. n : i = m + k
    BY <1>2, <1>11, <2>1, <2>3
  <2> QED
    BY <1>4, <2>2, <2>3
<1> QED
  BY <1>7, <1>8, <1>9

-----------------------------------------------------------------------------
(* Stacks of scopes.                                                       *)

Stack(st) == st \in Seq(Range(st)) /\ Len(st) >= 1

(* A scope with more names in it.                                          *)
Under(new, old) ==
  [x \in DOMAIN new \cup DOMAIN old |-> IF x \in DOMAIN new THEN new[x] ELSE old[x]]

LEMMA StackIs ==
  ASSUME NEW st, Stack(st)
  PROVE  /\ Len(st) \in Nat /\ Len(st) >= 1 /\ DOMAIN st = 1 .. Len(st)
         /\ Len(st) \in 1 .. Len(st)
         /\ Range(st) = {st[i] : i \in 1 .. Len(st)}
<1>1. Len(st) \in Nat /\ DOMAIN st = 1 .. Len(st) /\ Len(st) >= 1
  BY LenProperties DEF Stack
<1>2. Range(st) = {st[i] : i \in 1 .. Len(st)}
  BY <1>1 DEF Range
<1> QED
  BY <1>1, <1>2

LEMMA StackOf ==
  ASSUME NEW S, NEW st \in Seq(S), Len(st) >= 1
  PROVE  Stack(st)
  BY SeqOfRange DEF Stack

(* Two stacks of the same scopes.                                          *)
LEMMA SameStack ==
  ASSUME NEW s, Stack(s), NEW t, Stack(t), Len(s) = Len(t), \A i \in 1 .. Len(s) : s[i] = t[i]
  PROVE  s = t
<1> DEFINE S == Range(s) \cup Range(t)
<1>1. s \in Seq(S) /\ t \in Seq(S)
  BY SeqMonotonic DEF Stack
<1> HIDE DEF S
<1> QED
  BY <1>1, SeqEqual

Pushed(t, st) ==
  /\ Stack(t) /\ Len(t) = Len(st) + 1 /\ t[Len(st) + 1] = Empty
  /\ \A i \in 1 .. Len(st) : t[i] = st[i]

LEMMA PushIs ==
  ASSUME NEW st, Stack(st)
  PROVE  Pushed(Push(st), st)
<1> DEFINE S == Range(st) \cup {Empty}
           t == Append(st, Empty)
<1>1. st \in Seq(S) /\ Empty \in S
  BY SeqMonotonic DEF Stack
<1> HIDE DEF S
<1>2. /\ t \in Seq(S) /\ Len(t) = Len(st) + 1
      /\ \A i \in 1 .. Len(st) : t[i] = st[i]
      /\ t[Len(st) + 1] = Empty
  BY <1>1, AppendProperties
<1> HIDE DEF t
<1>3. Stack(t)
  BY <1>2, StackIs, StackOf
<1> QED
  BY <1>2, <1>3 DEF Pushed, Push, t

Uncovered(t, st) ==
  /\ Stack(t) /\ Len(t) = Len(st) - 1
  /\ \A i \in 1 .. Len(st) - 1 : t[i] = st[i]

LEMMA PopIs ==
  ASSUME NEW st, Stack(st), Len(st) >= 2
  PROVE  Uncovered(Pop(st), st)
<1> DEFINE S == Range(st)
           t == SubSeq(st, 1, Len(st) - 1)
<1>1. st \in Seq(S) /\ Len(st) >= 1 /\ Len(st) \in Nat
  BY StackIs DEF Stack
<1> HIDE DEF S
<1>2. t \in Seq(S) /\ Len(t) = Len(st) - 1 /\ \A i \in 1 .. Len(st) - 1 : t[i] = st[i]
  BY <1>1, Popped
<1> HIDE DEF t
<1>3. Stack(t)
  BY <1>1, <1>2, StackOf
<1> QED
  BY <1>2, <1>3 DEF Uncovered, Pop, Front, t

(* The last scope is left.                                                 *)
LEMMA PopLast ==
  ASSUME NEW st, Stack(st), Len(st) = 1
  PROVE  Pop(st) = <<>>
<1>1. st \in Seq(Range(st)) /\ Len(st) >= 1
  BY DEF Stack
<1>2. (SubSeq(st, 1, Len(st) - 1) = <<>>) = (Len(st) = 1)
  BY <1>1, Popped
<1> QED
  BY <1>2 DEF Pop, Front

Defined(t, st, new) ==
  /\ Stack(t) /\ Len(t) = Len(st)
  /\ \A i \in 1 .. Len(st) - 1 : t[i] = st[i]
  /\ t[Len(st)] = Under(new, st[Len(st)])

LEMMA DefineIs ==
  ASSUME NEW st, Stack(st), NEW new
  PROVE  Defined(Define(st, new), st, new)
<1> DEFINE n == Len(st)
           top == Under(new, st[n])
           S == Range(st) \cup {top}
           t == [st EXCEPT ![n] = top]
<1>1. n \in Nat /\ n >= 1 /\ DOMAIN st = 1 .. n /\ n \in 1 .. n
  BY StackIs
<1>2. st \in Seq(S) /\ top \in S
  BY SeqMonotonic DEF Stack
<1>3. Define(st, new) = t
  BY DEF Define, Under
<1> HIDE DEF S, top
<1>4. t \in Seq(S) /\ Len(t) = n /\ \A j \in 1 .. n : t[j] = IF j = n THEN top ELSE st[j]
  BY <1>1, <1>2, ExceptSeq
<1> HIDE DEF t, n
<1>5. Stack(t)
  BY <1>1, <1>4, StackOf
<1>6. \A i \in 1 .. n - 1 : t[i] = st[i]
  <2> TAKE i \in 1 .. n - 1
  <2>1. i \in 1 .. n /\ i # n
    BY <1>1
  <2> QED
    BY <1>4, <2>1
<1>7. t[n] = top
  BY <1>1, <1>4
<1> QED
  BY <1>3, <1>4, <1>5, <1>6, <1>7 DEF Defined, n, top

LEMMA UnderIs ==
  ASSUME NEW new, NEW old
  PROVE  /\ DOMAIN Under(new, old) = DOMAIN new \cup DOMAIN old
         /\ \A x \in DOMAIN new : Under(new, old)[x] = new[x]
         /\ \A x \in DOMAIN old \ DOMAIN new : Under(new, old)[x] = old[x]
  BY DEF Under

LEMMA EmptyIs == DOMAIN Empty = {}
  BY DEF Empty

LEMMA OneIs ==
  ASSUME NEW x, NEW d
  PROVE  DOMAIN One(x, d) = {x} /\ One(x, d)[x] = d
  BY DEF One

-----------------------------------------------------------------------------
(* Names.                                                                  *)

Declared(st, x) == \E i \in 1 .. Len(st) : x \in DOMAIN st[i]

(* i is the innermost scope of st with x.                                  *)
Innermost(st, x, i) ==
  /\ i \in 1 .. Len(st) /\ x \in DOMAIN st[i]
  /\ \A j \in 1 .. Len(st) : j > i => x \notin DOMAIN st[j]

LEMMA HasInnermost ==
  ASSUME NEW st, Stack(st), NEW x, Declared(st, x)
  PROVE  \E i : Innermost(st, x, i)
<1> DEFINE n == Len(st)
           T == {i \in 1 .. n : x \in DOMAIN st[i]}
<1>1. n \in Nat
  BY StackIs
<1>2. T \subseteq 0 .. n /\ T # {}
  BY <1>1 DEF Declared
<1>3. PICK m \in T : \A k \in T : k <= m
  <2> HIDE DEF n, T
  <2> QED
    BY <1>1, <1>2, Greatest
<1>4. \A j \in 1 .. n : j > m => x \notin DOMAIN st[j]
  BY <1>1, <1>3
<1> QED
  BY <1>3, <1>4 DEF Innermost

LEMMA LookupIs ==
  ASSUME NEW st, Stack(st), NEW x
  PROVE  /\ \A i : Innermost(st, x, i) => Lookup(st, x) = st[i][x]
         /\ ~ Declared(st, x) => Lookup(st, x) = Undeclared
<1> DEFINE T == {i \in DOMAIN st : x \in DOMAIN st[i]}
<1>1. Len(st) \in Nat /\ DOMAIN st = 1 .. Len(st)
  BY StackIs
<1>2. ASSUME NEW i, Innermost(st, x, i) PROVE Lookup(st, x) = st[i][x]
  <2>1. i \in T /\ i \in Nat /\ \A j \in T : j \in Nat /\ j <= i
    BY <1>1, <1>2 DEF Innermost
  <2> HIDE DEF T
  <2>2. Max(T) = i
    <3> DEFINE P(m) == m \in T /\ \A j \in T : m >= j
    <3>1. P(i)
      BY <2>1
    <3>2. P(Max(T))
      BY <3>1 DEF Max
    <3>3. Max(T) \in T /\ Max(T) >= i /\ Max(T) <= i /\ Max(T) \in Nat
      BY <2>1, <3>2
    <3> QED
      BY <2>1, <3>3
  <2> QED
    BY <2>1, <2>2 DEF Lookup, T
<1>3. ASSUME ~ Declared(st, x) PROVE Lookup(st, x) = Undeclared
  <2>1. T = {}
    BY <1>1, <1>3 DEF Declared
  <2> QED
    BY <2>1 DEF Lookup
<1> QED
  BY <1>2, <1>3

-----------------------------------------------------------------------------
(* The types in the scopes.                                                *)

Known(t) == t.kind \in {"int", "pointer"} /\ (t.kind = "pointer" => t.to \in Range(Classes))

ScopeTyped(s) ==
  \A x \in DOMAIN s :
    /\ s[x].type.kind \in {"int", "pointer", "field", "function"}
    /\ s[x].type.kind = "pointer" => s[x].type.to \in Range(Classes)

AllTyped(st) == \A s \in Range(st) : ScopeTyped(s)

LEMMA UnderTyped ==
  ASSUME NEW new, ScopeTyped(new), NEW old, ScopeTyped(old)
  PROVE  ScopeTyped(Under(new, old))
<1> DEFINE s == Under(new, old)
<1>1. /\ DOMAIN s = DOMAIN new \cup DOMAIN old
      /\ \A x \in DOMAIN new : s[x] = new[x]
      /\ \A x \in DOMAIN old \ DOMAIN new : s[x] = old[x]
  BY UnderIs
<1> HIDE DEF s
<1>2. ASSUME NEW x \in DOMAIN s
      PROVE  \/ x \in DOMAIN new /\ s[x] = new[x]
             \/ x \in DOMAIN old /\ s[x] = old[x]
  BY <1>1
<1>3. ScopeTyped(s)
  BY <1>2 DEF ScopeTyped
<1> QED
  BY <1>3 DEF s

LEMMA EmptyTyped == ScopeTyped(Empty)
  BY EmptyIs DEF ScopeTyped

LEMMA OneTyped ==
  ASSUME NEW x, NEW t, NEW a,
         t.kind \in {"int", "pointer", "field", "function"},
         t.kind = "pointer" => t.to \in Range(Classes)
  PROVE  ScopeTyped(One(x, Decl(t, a)))
<1>1. Decl(t, a).type = t
  BY DEF Decl
<1>2. DOMAIN One(x, Decl(t, a)) = {x} /\ One(x, Decl(t, a))[x].type = t
  BY <1>1, OneIs
<1> SUFFICES ASSUME NEW y \in DOMAIN One(x, Decl(t, a))
             PROVE  /\ One(x, Decl(t, a))[y].type.kind \in {"int", "pointer", "field", "function"}
                    /\ One(x, Decl(t, a))[y].type.kind = "pointer"
                         => One(x, Decl(t, a))[y].type.to \in Range(Classes)
  BY DEF ScopeTyped
<1>3. y = x
  BY <1>2
<1> QED
  BY <1>2, <1>3

LEMMA FunctionDeclIs ==
  ASSUME NEW f
  PROVE  /\ FunctionDecl(f).type.kind = "function"
         /\ FunctionDecl(f).at = <<"function", f>>
  BY DEF FunctionDecl, Decl, Function

LEMMA ParameterTyped ==
  ASSUME NEW b \in BodySet
  PROVE  ScopeTyped(ParameterOf(b))
<1> DEFINE t == Sig[b.name].type
<1>1. b.name \in Range(Functions) \cup {m[2] : m \in Range(Methods)}
  <2>1. CASE b.name \in Range(Functions)
    BY <2>1
  <2>2. CASE <<b.class, b.name>> \in Range(Methods)
    <3>1. <<b.class, b.name>>[2] = b.name
      OBVIOUS
    <3> QED
      BY <2>2, <3>1
  <2> QED
    BY <2>1, <2>2, BodiesDiffer
<1>2. t \in {IntType} \cup {Pointer(c) : c \in Range(Classes)}
  BY <1>1, Types
<1>3. Known(t)
  <2>1. IntType.kind = "int" /\ \A c : Pointer(c).kind = "pointer" /\ Pointer(c).to = c
    BY DEF IntType, Pointer
  <2> HIDE DEF t
  <2>2. CASE t = IntType
    BY <2>1, <2>2 DEF Known
  <2>3. CASE \E c \in Range(Classes) : t = Pointer(c)
    BY <2>1, <2>3 DEF Known
  <2> QED
    BY <1>2, <2>2, <2>3
<1> HIDE DEF t
<1>4. ScopeTyped(One(Sig[b.name].param, Decl(t, <<"parameter", b>>)))
  BY <1>3, OneTyped DEF Known
<1> QED
  BY <1>4 DEF ParameterOf, t

LEMMA FieldsTyped ==
  ASSUME NEW c
  PROVE  ScopeTyped(Fields(c)) /\ DOMAIN Fields(c) = DOMAIN Field[c]
<1>1. DOMAIN Fields(c) = DOMAIN Field[c]
  BY DEF Fields
<1>2. ASSUME NEW x \in DOMAIN Fields(c) PROVE Fields(c)[x].type.kind = "field"
  BY <1>1 DEF Fields, Decl, FieldOf
<1> QED
  BY <1>1, <1>2 DEF ScopeTyped

LEMMA PushTyped ==
  ASSUME NEW st, Stack(st), AllTyped(st)
  PROVE  AllTyped(Push(st))
<1> DEFINE t == Push(st)
<1>1. Pushed(t, st)
  BY PushIs
<1> HIDE DEF t
<1>2. Range(t) = {t[i] : i \in 1 .. Len(t)} /\ Range(st) = {st[i] : i \in 1 .. Len(st)} /\ Len(st) \in Nat
  BY <1>1, StackIs DEF Pushed
<1>3. ASSUME NEW i \in 1 .. Len(t) PROVE ScopeTyped(t[i])
  <2>1. CASE i = Len(st) + 1
    BY <1>1, <2>1, EmptyTyped DEF Pushed
  <2>2. CASE i # Len(st) + 1
    <3>1. i \in 1 .. Len(st)
      BY <1>1, <1>2, <2>2 DEF Pushed
    <3>2. t[i] = st[i]
      BY <1>1, <3>1 DEF Pushed
    <3> QED
      BY <1>2, <3>1, <3>2 DEF AllTyped
  <2> QED
    BY <2>1, <2>2
<1> QED
  BY <1>2, <1>3 DEF AllTyped, t

LEMMA PopTyped ==
  ASSUME NEW st, Stack(st), AllTyped(st)
  PROVE  AllTyped(Pop(st))
<1> DEFINE t == Pop(st)
<1>1. CASE Len(st) = 1
  <2>1. t = <<>>
    BY <1>1, PopLast
  <2>2. Range(<<>>) = {}
    BY DEF Range
  <2> QED
    BY <2>1, <2>2 DEF AllTyped
<1>2. CASE Len(st) # 1
  <2>1. Len(st) \in Nat /\ Len(st) >= 2
    <3> DEFINE n == Len(st)
    <3>1. n \in Nat /\ n >= 1 /\ n # 1
      BY <1>2, StackIs
    <3> HIDE DEF n
    <3>2. n \in Nat /\ n >= 2
      BY <3>1
    <3> QED
      BY <3>2 DEF n
  <2>2. Uncovered(t, st)
    BY <2>1, PopIs
  <2> HIDE DEF t
  <2>3. Range(t) = {t[i] : i \in 1 .. Len(t)} /\ Range(st) = {st[i] : i \in 1 .. Len(st)}
    BY <2>2, StackIs DEF Uncovered
  <2>4. ASSUME NEW i \in 1 .. Len(t) PROVE ScopeTyped(t[i])
    <3>1. i \in 1 .. Len(st) - 1 /\ i \in 1 .. Len(st)
      BY <2>1, <2>2 DEF Uncovered
    <3>2. t[i] = st[i]
      BY <2>2, <3>1 DEF Uncovered
    <3> QED
      BY <2>3, <3>1, <3>2 DEF AllTyped
  <2> QED
    BY <2>3, <2>4 DEF AllTyped, t
<1> QED
  BY <1>1, <1>2

LEMMA DefineTyped ==
  ASSUME NEW st, Stack(st), AllTyped(st), NEW new, ScopeTyped(new)
  PROVE  AllTyped(Define(st, new))
<1> DEFINE t == Define(st, new)
           n == Len(st)
<1>1. Defined(t, st, new)
  BY DefineIs
<1> HIDE DEF t
<1>2. Range(t) = {t[i] : i \in 1 .. n} /\ Range(st) = {st[i] : i \in 1 .. n} /\ n \in Nat /\ n \in 1 .. n
  BY <1>1, StackIs DEF Defined
<1>3. ASSUME NEW i \in 1 .. n PROVE ScopeTyped(t[i])
  <2>1. CASE i = n
    <3>1. ScopeTyped(st[n])
      BY <1>2 DEF AllTyped
    <3> QED
      BY <1>1, <2>1, <3>1, UnderTyped DEF Defined
  <2>2. CASE i # n
    <3>1. i \in 1 .. n - 1
      BY <1>2, <2>2
    <3>2. t[i] = st[i]
      BY <1>1, <3>1 DEF Defined
    <3> QED
      BY <1>2, <3>2 DEF AllTyped
  <2> QED
    BY <2>1, <2>2
<1> QED
  BY <1>2, <1>3 DEF AllTyped, t

-----------------------------------------------------------------------------
(* A body that is visited without an error.                                *)

(* The outermost scope of the bodies.                                      *)
IsGlobal(s) ==
  DOMAIN s = Range(Functions) /\ \A x \in DOMAIN s : s[x].at = <<"function", x>>

(* The class that is current when bodies are visited.                      *)
LastClass == IF Len(Classes) = 0 THEN NoClass ELSE Classes[Len(Classes)]

Inherited(b) == IF b.class = NoClass THEN {} ELSE DOMAIN Field[LastClass]

(* What body b is entered with.                                            *)
Enters(st, b) ==
  /\ Stack(st) /\ Len(st) = 2 /\ IsGlobal(st[1])
  /\ DOMAIN st[2] = {Sig[b.name].param} \cup Inherited(b)
  /\ st[2][Sig[b.name].param].at = <<"parameter", b>>
  /\ \A x \in DOMAIN st[2] : x # Sig[b.name].param => st[2][x].at = <<"field", LastClass, x>>

Uses == {"assign", "call", "return"}

Meant(means, st) == \A x \in DOMAIN means : Declared(st, x) /\ means[x] = Lookup(st, x).at

Placed(s, st) ==
  /\ s.op \in Uses \cup {"declare", "if", "end"}
  /\ s.op = "end" => Len(st) > 2

(* The statement s is accepted where the scopes are st.                    *)
Sound(s, st) ==
  /\ Placed(s, st)
  /\ s.op = "declare" => Known(s.type)
  /\ s.op \in Uses \cup {"if"} => Meant(s.means, st)

Local(s, b, i) == One(s.name, Decl(s.type, <<"local", b, i>>))

(* The scopes after it, the i-th of body b.                                *)
Follows(t, st, s, b, i) ==
  /\ s.op = "declare" => Defined(t, st, Local(s, b, i))
  /\ s.op = "if" => Pushed(t, st)
  /\ s.op = "end" => Uncovered(t, st)
  /\ s.op \in Uses => t = st

(* at[i] is the scopes after i statements.                                 *)
History(b, code, at) ==
  /\ Enters(at[0], b)
  /\ \A i \in 1 .. Len(code) :
       Sound(code[i], at[i - 1]) /\ Follows(at[i], at[i - 1], code[i], b, i)

Complete(b, code, at) == History(b, code, at) /\ Len(at[Len(code)]) = 2

(* How deep a statement leads.                                             *)
Change(s) == IF s.op = "if" THEN 1 ELSE IF s.op = "end" THEN -1 ELSE 0

Deep(st) == Stack(st) /\ Len(st) >= 2

LEMMA FollowsIs ==
  ASSUME NEW st, Deep(st), NEW t, NEW s, NEW b, NEW i, Placed(s, st), Follows(t, st, s, b, i)
  PROVE  /\ Deep(t) /\ Len(st) \in Nat /\ Len(t) \in Nat /\ Len(t) = Len(st) + Change(s)
         /\ t[1] = st[1]
         /\ \A j \in 1 .. Len(st) - 1 : t[j] = st[j]
         /\ s.op = "if" => t[Len(st)] = st[Len(st)]
<1>1. Len(st) \in Nat /\ Len(st) >= 2 /\ 1 \in 1 .. Len(st) - 1 /\ Len(st) \in 1 .. Len(st)
  BY StackIs DEF Deep
<1>2. CASE s.op = "declare"
  <2>1. Defined(t, st, Local(s, b, i))
    BY <1>2 DEF Follows
  <2> QED
    BY <1>1, <1>2, <2>1 DEF Defined, Change, Deep
<1>3. CASE s.op = "if"
  <2>1. Pushed(t, st)
    BY <1>3 DEF Follows
  <2>2. \A j \in 1 .. Len(st) - 1 : j \in 1 .. Len(st)
    BY <1>1
  <2> QED
    BY <1>1, <1>3, <2>1, <2>2 DEF Pushed, Change, Deep
<1>4. CASE s.op = "end"
  <2>1. Uncovered(t, st) /\ Len(st) > 2
    BY <1>4 DEF Follows, Placed
  <2> QED
    BY <1>1, <1>4, <2>1 DEF Uncovered, Change, Deep
<1>5. CASE s.op \in Uses
  <2>1. t = st /\ Change(s) = 0
    BY <1>5 DEF Follows, Change, Uses
  <2> QED
    BY <1>1, <1>5, <2>1 DEF Deep, Uses
<1> QED
  BY <1>2, <1>3, <1>4, <1>5 DEF Placed

LEMMA HistoryDeep ==
  ASSUME NEW b, NEW code, Len(code) \in Nat, NEW at, History(b, code, at)
  PROVE  \A k \in 0 .. Len(code) : Deep(at[k]) /\ IsGlobal(at[k][1])
<1> DEFINE n == Len(code)
           T == {k \in Nat : k \in 0 .. n => Deep(at[k]) /\ IsGlobal(at[k][1])}
<1>1. 0 \in T
  <2>1. Deep(at[0]) /\ IsGlobal(at[0][1])
    <3> DEFINE st == at[0]
    <3>1. Enters(st, b)
      BY DEF History
    <3> HIDE DEF st
    <3>2. Deep(st) /\ IsGlobal(st[1])
      BY <3>1 DEF Enters, Deep
    <3> QED
      BY <3>2 DEF st
  <2> QED
    BY <2>1
<1>2. ASSUME NEW k \in Nat, k \in T PROVE k + 1 \in T
  <2> SUFFICES ASSUME k + 1 \in 0 .. n PROVE Deep(at[k + 1]) /\ IsGlobal(at[k + 1][1])
    OBVIOUS
  <2>1. k \in 0 .. n /\ k + 1 \in 1 .. n /\ (k + 1) - 1 = k
    OBVIOUS
  <2>2. Deep(at[k]) /\ IsGlobal(at[k][1])
    BY <1>2, <2>1
  <2>3. /\ Sound(code[k + 1], at[(k + 1) - 1])
        /\ Follows(at[k + 1], at[(k + 1) - 1], code[k + 1], b, k + 1)
    BY <2>1 DEF History
  <2>4. Sound(code[k + 1], at[k]) /\ Follows(at[k + 1], at[k], code[k + 1], b, k + 1)
    BY <2>1, <2>3
  <2>5. Deep(at[k + 1]) /\ at[k + 1][1] = at[k][1]
    BY <2>2, <2>4, FollowsIs DEF Sound
  <2> QED
    BY <2>2, <2>5
<1> HIDE DEF T
<1>3. Nat \subseteq T
  BY <1>1, <1>2, SetInduction
<1> QED
  BY <1>3 DEF T

(* One statement of a history.                                             *)
Stepped(b, code, at, i) ==
  /\ i - 1 \in 0 .. Len(code) /\ i \in 0 .. Len(code)
  /\ Deep(at[i - 1]) /\ Deep(at[i])
  /\ Sound(code[i], at[i - 1]) /\ Follows(at[i], at[i - 1], code[i], b, i)
  /\ Len(at[i - 1]) \in Nat /\ Len(at[i]) \in Nat
  /\ Len(at[i]) = Len(at[i - 1]) + Change(code[i])
  /\ \A j \in 1 .. Len(at[i - 1]) - 1 : at[i][j] = at[i - 1][j]
  /\ code[i].op = "if" => at[i][Len(at[i - 1])] = at[i - 1][Len(at[i - 1])]

LEMMA HistoryStep ==
  ASSUME NEW b, NEW code, Len(code) \in Nat, NEW at, History(b, code, at), NEW i \in 1 .. Len(code)
  PROVE  Stepped(b, code, at, i)
<1>1. i - 1 \in 0 .. Len(code) /\ i \in 0 .. Len(code)
  OBVIOUS
<1>2. Deep(at[i - 1]) /\ Deep(at[i])
  BY <1>1, HistoryDeep
<1>3. Sound(code[i], at[i - 1]) /\ Follows(at[i], at[i - 1], code[i], b, i)
  BY DEF History
<1> DEFINE st == at[i - 1]
           t == at[i]
           s == code[i]
<1> HIDE DEF st, t, s
<1>4. Deep(st) /\ Sound(s, st) /\ Follows(t, st, s, b, i)
  BY <1>2, <1>3 DEF st, t, s
<1>5. /\ Len(st) \in Nat /\ Len(t) \in Nat /\ Len(t) = Len(st) + Change(s)
      /\ \A j \in 1 .. Len(st) - 1 : t[j] = st[j]
      /\ s.op = "if" => t[Len(st)] = st[Len(st)]
  BY <1>4, FollowsIs DEF Sound
<1> QED
  BY <1>1, <1>2, <1>3, <1>5 DEF Stepped, st, t, s

(* code, without an error, leads to the scopes st.                         *)
Reaches(b, code, st) == \E at : History(b, code, at) /\ at[Len(code)] = st

(* One statement more.                                                     *)
LEMMA Extended ==
  ASSUME NEW b, NEW S, NEW code \in Seq(S), NEW at, History(b, code, at), NEW s,
         Sound(s, at[Len(code)]), NEW t, Follows(t, at[Len(code)], s, b, Len(code) + 1)
  PROVE  Reaches(b, Append(code, s), t)
<1> DEFINE n == Len(code)
           more == Append(code, s)
           new == [k \in 0 .. n + 1 |-> IF k = n + 1 THEN t ELSE at[k]]
<1>1. n \in Nat
  BY LenProperties
<1>2. Len(more) = n + 1 /\ more[n + 1] = s /\ \A i \in 1 .. n : more[i] = code[i]
  <2>1. code \in Seq(S \cup {s}) /\ s \in S \cup {s}
    BY SeqMonotonic
  <2> QED
    BY <2>1, AppendProperties
<1>3. new[n + 1] = t /\ new[0] = at[0] /\ \A k \in 0 .. n : new[k] = at[k]
  BY <1>1
<1> HIDE DEF more, new, n
<1>4. ASSUME NEW i \in 1 .. n + 1
      PROVE  Sound(more[i], new[i - 1]) /\ Follows(new[i], new[i - 1], more[i], b, i)
  <2>1. CASE i = n + 1
    <3>1. i - 1 = n /\ n \in 0 .. n
      BY <1>1, <2>1
    <3>2. new[i - 1] = at[n] /\ new[i] = t /\ more[i] = s
      BY <1>2, <1>3, <2>1, <3>1
    <3> QED
      BY <2>1, <3>2 DEF n
  <2>2. CASE i # n + 1
    <3>1. i \in 1 .. n /\ i - 1 \in 0 .. n /\ i \in 0 .. n
      BY <1>1, <2>2
    <3>2. new[i - 1] = at[i - 1] /\ new[i] = at[i] /\ more[i] = code[i]
      BY <1>2, <1>3, <3>1
    <3>3. Sound(code[i], at[i - 1]) /\ Follows(at[i], at[i - 1], code[i], b, i)
      BY <3>1 DEF History, n
    <3> QED
      BY <3>2, <3>3
  <2> QED
    BY <2>1, <2>2
<1>5. History(b, more, new)
  BY <1>2, <1>3, <1>4 DEF History
<1>6. History(b, more, new) /\ new[Len(more)] = t
  BY <1>2, <1>3, <1>5
<1> QED
  BY <1>6 DEF Reaches, more

-----------------------------------------------------------------------------
(* The `if` that an "end" belongs to.                                      *)

Count(code, op, i, p) == Cardinality({j \in i .. p : code[j].op = op})

Counts(code, op, i, p) ==
  /\ Count(code, op, i, i - 1) = 0
  /\ Count(code, op, i, p) \in Nat
  /\ Count(code, op, i, p + 1)
       = Count(code, op, i, p) + (IF code[p + 1].op = op THEN 1 ELSE 0)

LEMMA CountIs ==
  ASSUME NEW code, NEW op, NEW i \in Nat, i >= 1, NEW p \in Nat, p + 1 >= i
  PROVE  Counts(code, op, i, p)
<1> DEFINE S(q) == {j \in i .. q : code[j].op = op}
<1>1. S(i - 1) = {}
  OBVIOUS
<1>2. IsFiniteSet(S(p))
  <2>1. IsFiniteSet(i .. p) /\ S(p) \subseteq i .. p
    BY FS_Interval
  <2> HIDE DEF S
  <2> QED
    BY <2>1, FS_Subset
<1>3. p + 1 \notin S(p)
  OBVIOUS
<1>4. CASE code[p + 1].op = op
  <2>1. S(p + 1) = S(p) \cup {p + 1}
    BY <1>4
  <2> HIDE DEF S
  <2> QED
    BY <1>1, <1>2, <1>3, <1>4, <2>1, FS_AddElement, FS_CardinalityType, FS_EmptySet DEF Count, Counts, S
<1>5. CASE code[p + 1].op # op
  <2>1. S(p + 1) = S(p)
    BY <1>5
  <2> HIDE DEF S
  <2>2. Cardinality(S(p)) \in Nat /\ Cardinality(S(p + 1)) = Cardinality(S(p)) + 0
    BY <1>2, <2>1, FS_CardinalityType
  <2> QED
    BY <1>1, <1>5, <2>2, FS_EmptySet DEF Count, Counts, S
<1> QED
  BY <1>4, <1>5

(* The `if`s and ends from i to p are the difference in depth.             *)
Balanced(code, at, i, p) ==
  /\ Count(code, "if", i, p) \in Nat /\ Count(code, "end", i, p) \in Nat
  /\ Count(code, "if", i, p) - Count(code, "end", i, p) = Len(at[p]) - Len(at[i - 1])

LEMMA Balance ==
  ASSUME NEW b, NEW code, Len(code) \in Nat, NEW at, History(b, code, at),
         NEW i \in 1 .. Len(code)
  PROVE  \A p \in i - 1 .. Len(code) : Balanced(code, at, i, p)
<1> DEFINE n == Len(code)
           T == {d \in Nat : (i - 1) + d \in 0 .. n => Balanced(code, at, i, (i - 1) + d)}
<1>1. 0 \in T
  <2>1. (i - 1) + 0 = i - 1 /\ i - 1 \in Nat /\ (i - 1) + 1 >= i /\ i \in Nat /\ i >= 1
    OBVIOUS
  <2>2. Counts(code, "if", i, i - 1) /\ Counts(code, "end", i, i - 1)
    BY <2>1, CountIs
  <2>3. Len(at[i - 1]) \in Nat
    BY HistoryStep DEF Stepped
  <2>4. Balanced(code, at, i, i - 1)
    BY <2>2, <2>3 DEF Balanced, Counts
  <2> QED
    BY <2>1, <2>4
<1>2. ASSUME NEW d \in Nat, d \in T PROVE d + 1 \in T
  <2> DEFINE p == (i - 1) + d
  <2>1. (i - 1) + (d + 1) = p + 1 /\ p \in Nat /\ p + 1 >= i /\ i \in Nat /\ i >= 1
    OBVIOUS
  <2> SUFFICES ASSUME p + 1 \in 0 .. n PROVE Balanced(code, at, i, p + 1)
    BY <2>1
  <2>2. p \in 0 .. n /\ p + 1 \in 1 .. n /\ (p + 1) - 1 = p
    BY <2>1
  <2>3. Balanced(code, at, i, p)
    BY <1>2, <2>2
  <2> HIDE DEF p, T
  <2>4. Counts(code, "if", i, p) /\ Counts(code, "end", i, p)
    BY <2>1, CountIs
  <2>5. /\ Len(at[p]) \in Nat /\ Len(at[p + 1]) \in Nat
        /\ Len(at[p + 1]) = Len(at[p]) + Change(code[p + 1])
    <3> DEFINE q == p + 1
    <3>1. q \in 1 .. Len(code) /\ q - 1 = p
      BY <2>2
    <3> HIDE DEF q
    <3>2. Stepped(b, code, at, q)
      BY <3>1, HistoryStep
    <3> QED
      BY <3>1, <3>2 DEF Stepped, q
  <2>6. Len(at[i - 1]) \in Nat
    BY HistoryStep DEF Stepped
  <2> DEFINE a == Count(code, "if", i, p)
             e == Count(code, "end", i, p)
             a2 == Count(code, "if", i, p + 1)
             e2 == Count(code, "end", i, p + 1)
             u == Len(at[p])
             u2 == Len(at[p + 1])
             w == Len(at[i - 1])
             c == Change(code[p + 1])
  <2>7. a \in Nat /\ e \in Nat /\ u \in Nat /\ u2 \in Nat /\ w \in Nat /\ a - e = u - w /\ u2 = u + c
    BY <2>3, <2>5, <2>6 DEF Balanced
  <2>8. \/ c = 1 /\ a2 = a + 1 /\ e2 = e + 0
        \/ c = -1 /\ a2 = a + 0 /\ e2 = e + 1
        \/ c = 0 /\ a2 = a + 0 /\ e2 = e + 0
    <3>1. CASE code[p + 1].op = "if"
      BY <2>4, <3>1 DEF Change, Counts
    <3>2. CASE code[p + 1].op = "end"
      BY <2>4, <3>2 DEF Change, Counts
    <3>3. CASE code[p + 1].op # "if" /\ code[p + 1].op # "end"
      BY <2>4, <3>3 DEF Change, Counts
    <3> QED
      BY <3>1, <3>2, <3>3
  <2> HIDE DEF a, e, a2, e2, u, u2, w, c
  <2>9. a2 \in Nat /\ e2 \in Nat /\ a2 - e2 = u2 - w
    <3>1. CASE c = 1 /\ a2 = a + 1 /\ e2 = e + 0
      BY <2>7, <3>1
    <3>2. CASE c = -1 /\ a2 = a + 0 /\ e2 = e + 1
      BY <2>7, <3>2
    <3>3. CASE c = 0 /\ a2 = a + 0 /\ e2 = e + 0
      BY <2>7, <3>3
    <3> QED
      BY <2>8, <3>1, <3>2, <3>3
  <2> QED
    BY <2>9 DEF Balanced, a2, e2, u2, w
<1> HIDE DEF T
<1>3. Nat \subseteq T
  BY <1>1, <1>2, SetInduction
<1> SUFFICES ASSUME NEW p \in i - 1 .. n PROVE Balanced(code, at, i, p)
  OBVIOUS
<1>4. p - (i - 1) \in Nat /\ (i - 1) + (p - (i - 1)) = p /\ p \in 0 .. n
  OBVIOUS
<1>5. p - (i - 1) \in T
  BY <1>3, <1>4
<1> QED
  BY <1>4, <1>5 DEF T

(* Statement j + 1 is the last from which the depth is above that after p. *)
Opens(code, at, p, j) ==
  /\ j \in 0 .. p - 2 /\ code[j + 1].op = "if" /\ Len(at[j]) = Len(at[p])
  /\ \A k \in j + 1 .. p - 1 : Len(at[k]) > Len(at[p])

LEMMA HasOpener ==
  ASSUME NEW b, NEW code, Len(code) \in Nat, NEW at, History(b, code, at),
         NEW p \in 1 .. Len(code), code[p].op = "end"
  PROVE  \E j : Opens(code, at, p, j)
<1> DEFINE L == Len(at[p])
           K == {k \in 0 .. p - 1 : Len(at[k]) <= L}
<1>1. L \in Nat /\ L >= 2 /\ Len(at[p - 1]) = L + 1
  <2>1. Stepped(b, code, at, p)
    BY HistoryStep
  <2>2. Deep(at[p]) /\ Change(code[p]) = -1
    BY <2>1 DEF Stepped, Change
  <2> DEFINE u == Len(at[p - 1])
  <2>3. L \in Nat /\ u \in Nat /\ L = u + (-1) /\ L >= 2
    BY <2>1, <2>2 DEF Stepped, Deep
  <2> HIDE DEF u, L
  <2> QED
    BY <2>3 DEF u, L
<1>2. 0 \in K
  <2>1. Enters(at[0], b)
    BY DEF History
  <2>2. Len(at[0]) = 2
    BY <2>1 DEF Enters
  <2>3. 0 \in 0 .. p - 1 /\ Len(at[0]) <= L
    BY <1>1, <2>2
  <2> QED
    BY <2>3
<1>3. PICK j \in K : \A k \in K : k <= j
  <2>1. p - 1 \in Nat /\ K \subseteq 0 .. p - 1 /\ K # {}
    BY <1>2
  <2> HIDE DEF K
  <2> QED
    BY <2>1, Greatest
<1>4. j \in 0 .. p - 1 /\ Len(at[j]) <= L /\ \A k \in 0 .. p - 1 : k > j => ~ (Len(at[k]) <= L)
  BY <1>3
<1> HIDE DEF K, L
<1>5. j \in 0 .. p - 2
  <2>1. ASSUME j = p - 1 PROVE FALSE
    <3>1. L + 1 <= L
      BY <1>1, <1>4, <2>1
    <3> QED
      BY <1>1, <3>1
  <2> QED
    BY <1>4, <2>1
<1>6. \A k \in j + 1 .. p - 1 : Len(at[k]) \in Nat /\ Len(at[k]) > L
  <2> TAKE k \in j + 1 .. p - 1
  <2>1. k \in 0 .. p - 1 /\ k > j /\ k \in 1 .. Len(code)
    BY <1>5
  <2>2. Stepped(b, code, at, k)
    BY <2>1, HistoryStep
  <2>3. Len(at[k]) \in Nat /\ ~ (Len(at[k]) <= L)
    BY <1>4, <2>1, <2>2 DEF Stepped
  <2> QED
    BY <1>1, <2>3
<1> DEFINE q == j + 1
<1>7. q \in 1 .. Len(code) /\ q - 1 = j /\ q \in j + 1 .. p - 1
  BY <1>5
<1> HIDE DEF q
<1>8. Stepped(b, code, at, q)
  BY <1>7, HistoryStep
<1>9. Len(at[j]) \in Nat /\ Len(at[q]) = Len(at[j]) + Change(code[q]) /\ Len(at[q]) \in Nat /\ Len(at[q]) > L
  BY <1>6, <1>7, <1>8 DEF Stepped
<1>10. code[q].op = "if"
  <2>1. CASE code[q].op # "if"
    <3>1. Change(code[q]) \in {0, -1}
      BY <2>1 DEF Change
    <3> DEFINE c == Change(code[q])
               u == Len(at[j])
               v == Len(at[q])
    <3>2. c \in {0, -1} /\ L \in Nat /\ u \in Nat /\ v \in Nat /\ v = u + c /\ v > L /\ u <= L
      BY <1>1, <1>4, <1>9, <3>1
    <3> HIDE DEF c, u, v
    <3>3. FALSE
      BY <3>2
    <3> QED
      BY <3>3
  <2> QED
    BY <2>1
<1>11. Len(at[j]) = L
  <2>1. Change(code[q]) = 1
    BY <1>10 DEF Change
  <2> QED
    BY <1>1, <1>4, <1>9, <2>1
<1>12. \A k \in j + 1 .. p - 1 : Len(at[k]) > L
  BY <1>6
<1> QED
  BY <1>5, <1>10, <1>11, <1>12 DEF Opens, L, q

(* The scopes that are below the block stay what they were.                *)
LEMMA OpenerScopes ==
  ASSUME NEW b, NEW code, Len(code) \in Nat, NEW at, History(b, code, at),
         NEW p \in 1 .. Len(code), code[p].op = "end", NEW j, Opens(code, at, p, j)
  PROVE  at[j] = at[p]
<1> DEFINE L == Len(at[p])
           Same(k) == \A f \in 1 .. L : at[k][f] = at[j][f]
           T == {d \in Nat : (j + 1) + d \in 0 .. p - 1 => Same((j + 1) + d)}
<1>1. /\ j \in 0 .. p - 2 /\ code[j + 1].op = "if" /\ Len(at[j]) = L
      /\ \A k \in j + 1 .. p - 1 : Len(at[k]) > L
  BY DEF Opens
<1>2. Stepped(b, code, at, p) /\ Change(code[p]) = -1
  BY HistoryStep DEF Change
<1>3. L \in Nat /\ Len(at[p - 1]) = L + 1
  <2> DEFINE u == Len(at[p - 1])
  <2>1. L \in Nat /\ u \in Nat /\ L = u + (-1)
    BY <1>2 DEF Stepped
  <2> HIDE DEF u, L
  <2> QED
    BY <2>1 DEF u
<1> HIDE DEF L
<1>4. 0 \in T
  <2> DEFINE q == j + 1
  <2>1. q \in 1 .. Len(code) /\ q - 1 = j /\ q + 0 = q
    BY <1>1
  <2>2. code[q].op = "if"
    BY <1>1
  <2> HIDE DEF q
  <2>3. Stepped(b, code, at, q)
    BY <2>1, HistoryStep
  <2>4. at[q][L] = at[j][L] /\ \A f \in 1 .. L - 1 : at[q][f] = at[j][f]
    BY <1>1, <2>1, <2>2, <2>3 DEF Stepped
  <2>5. \A f \in 1 .. L : f = L \/ f \in 1 .. L - 1
    BY <1>3
  <2>6. Same(q)
    BY <2>4, <2>5
  <2> QED
    BY <2>1, <2>6 DEF q
<1>5. ASSUME NEW d \in Nat, d \in T PROVE d + 1 \in T
  <2> DEFINE k == (j + 1) + d
             q == k + 1
  <2> SUFFICES ASSUME (j + 1) + (d + 1) \in 0 .. p - 1 PROVE Same((j + 1) + (d + 1))
    OBVIOUS
  <2>1. (j + 1) + (d + 1) = q /\ k \in 0 .. p - 1 /\ k \in j + 1 .. p - 1 /\ q \in 1 .. Len(code) /\ q - 1 = k
    BY <1>1
  <2>2. Same(k)
    BY <1>5, <2>1
  <2> HIDE DEF q
  <2>3. Stepped(b, code, at, q)
    BY <2>1, HistoryStep
  <2> HIDE DEF k
  <2>4. Len(at[k]) > L /\ Len(at[k]) \in Nat /\ \A f \in 1 .. Len(at[k]) - 1 : at[q][f] = at[k][f]
    BY <1>1, <2>1, <2>3 DEF Stepped
  <2>5. \A f \in 1 .. L : f \in 1 .. Len(at[k]) - 1
    BY <1>3, <2>4
  <2>6. Same(q)
    BY <2>2, <2>4, <2>5
  <2> QED
    BY <2>1, <2>6
<1> HIDE DEF T
<1>6. Nat \subseteq T
  BY <1>4, <1>5, SetInduction
<1>7. Same(p - 1)
  <2>1. (p - 1) - (j + 1) \in Nat /\ (j + 1) + ((p - 1) - (j + 1)) = p - 1 /\ p - 1 \in 0 .. p - 1
    BY <1>1
  <2>2. (p - 1) - (j + 1) \in T
    BY <1>6, <2>1
  <2> QED
    BY <2>1, <2>2 DEF T
<1>8. \A f \in 1 .. L : at[p][f] = at[p - 1][f]
  <2>1. \A f \in 1 .. L : f \in 1 .. Len(at[p - 1]) - 1
    BY <1>3
  <2> QED
    BY <1>2, <2>1 DEF Stepped
<1>9. Stack(at[j]) /\ Stack(at[p])
  <2>1. j \in 0 .. Len(code) /\ p \in 0 .. Len(code)
    BY <1>1
  <2> QED
    BY <2>1, HistoryDeep DEF Deep
<1>10. \A f \in 1 .. Len(at[j]) : at[j][f] = at[p][f]
  BY <1>1, <1>7, <1>8
<1> QED
  BY <1>1, <1>9, <1>10, SameStack DEF L

(* The statement that the generator takes for the opener is that one.      *)
OpenerOf(code, p) ==
  Max({i \in 1 .. p : code[i].op = "if" /\ Count(code, "if", i, p) - Count(code, "end", i, p) = 0})

IsOpener(code, at, p, o) ==
  o \in 1 .. Len(code) /\ code[o].op = "if" /\ at[o - 1] = at[p]

LEMMA OpenerIs ==
  ASSUME NEW b, NEW code, Len(code) \in Nat, NEW at, History(b, code, at),
         NEW p \in 1 .. Len(code), code[p].op = "end"
  PROVE  IsOpener(code, at, p, OpenerOf(code, p))
<1> DEFINE T == {i \in 1 .. p : code[i].op = "if"
                                /\ Count(code, "if", i, p) - Count(code, "end", i, p) = 0}
<1>1. PICK j : Opens(code, at, p, j)
  BY HasOpener
<1>2. at[j] = at[p]
  BY <1>1, OpenerScopes
<1> DEFINE o == j + 1
<1>3. j \in 0 .. p - 2 /\ o \in 1 .. p /\ o - 1 = j /\ o \in 1 .. Len(code)
  BY <1>1 DEF Opens
<1>4. /\ code[o].op = "if" /\ Len(at[j]) = Len(at[p])
      /\ \A k \in o .. p - 1 : Len(at[k]) > Len(at[p])
  BY <1>1 DEF Opens
<1>5. Len(at[p]) \in Nat
  BY HistoryStep DEF Stepped
<1> HIDE DEF o
<1>6. \A i \in 1 .. p : Balanced(code, at, i, p) /\ Len(at[i - 1]) \in Nat
  <2> TAKE i \in 1 .. p
  <2>1. i \in 1 .. Len(code) /\ p \in i - 1 .. Len(code)
    OBVIOUS
  <2>2. Balanced(code, at, i, p)
    BY <2>1, Balance
  <2>3. Stepped(b, code, at, i)
    BY <2>1, HistoryStep
  <2> QED
    BY <2>2, <2>3 DEF Stepped
<1>7. o \in T
  <2>1. Balanced(code, at, o, p) /\ Len(at[o - 1]) = Len(at[p])
    BY <1>3, <1>4, <1>6
  <2>2. Count(code, "if", o, p) - Count(code, "end", o, p) = 0
    BY <1>5, <2>1 DEF Balanced
  <2> QED
    BY <1>3, <1>4, <2>2
<1>8. ASSUME NEW i \in T PROVE i <= o
  <2>1. i \in 1 .. p /\ Count(code, "if", i, p) - Count(code, "end", i, p) = 0
    OBVIOUS
  <2>2. Balanced(code, at, i, p) /\ Len(at[i - 1]) \in Nat
    BY <1>6, <2>1
  <2>3. Len(at[i - 1]) = Len(at[p])
    <3> DEFINE u == Len(at[p])
               w == Len(at[i - 1])
    <3>1. u \in Nat /\ w \in Nat /\ 0 = u - w
      BY <1>5, <2>1, <2>2 DEF Balanced
    <3> HIDE DEF u, w
    <3>2. u = w
      BY <3>1
    <3> QED
      BY <3>2 DEF u, w
  <2>4. CASE i > o
    <3>1. i - 1 \in o .. p - 1
      BY <1>3, <2>1, <2>4
    <3>2. Len(at[i - 1]) > Len(at[p])
      BY <1>4, <3>1
    <3> QED
      BY <1>5, <2>3, <3>2
  <2> QED
    BY <1>3, <2>1, <2>4
<1>9. T \subseteq Nat
  OBVIOUS
<1> HIDE DEF T
<1>10. Max(T) = o
  <2> DEFINE P(m) == m \in T /\ \A i \in T : m >= i
  <2>1. P(o)
    BY <1>3, <1>7, <1>8, <1>9
  <2>2. P(Max(T))
    BY <2>1 DEF Max
  <2>3. Max(T) \in Nat /\ o \in Nat /\ Max(T) >= o /\ Max(T) <= o
    BY <1>7, <1>8, <1>9, <2>2
  <2> QED
    BY <2>3
<1>11. OpenerOf(code, p) = o
  BY <1>10 DEF OpenerOf, T
<1> QED
  BY <1>2, <1>3, <1>4, <1>11 DEF IsOpener

-----------------------------------------------------------------------------
(* The scopes of the generator, beside those of the semantic pass.         *)

(* The outermost one, with the first k functions.                          *)
Outer(G, k) ==
  /\ DOMAIN G \subseteq Linked
  /\ \A i \in 1 .. k : Functions[i] \in DOMAIN G
  /\ Unambiguous => \A x \in DOMAIN G \cap Range(Functions) : G[x].at = <<"function", x>>

(* That of a body: a name that only the generator has does not hide a      *)
(* function, and one that only the semantic pass has is not found farther  *)
(* out.                                                                    *)
Alike(g, s) ==
  /\ \A x \in DOMAIN g \cap DOMAIN s : g[x].at = s[x].at
  /\ (DOMAIN g \ DOMAIN s) \cap Range(Functions) = {}
  /\ (DOMAIN s \ DOMAIN g) \cap Linked = {}

Matches(g, s) ==
  /\ Stack(g) /\ Len(g) = Len(s)
  /\ Outer(g[1], Len(Functions))
  /\ Unambiguous => Alike(g[2], s[2]) /\ \A i \in 3 .. Len(s) : g[i] = s[i]

LEMMA SameMeaning ==
  ASSUME NEW s, Deep(s), IsGlobal(s[1]), NEW g, Matches(g, s), Unambiguous,
         NEW x, Declared(s, x)
  PROVE  Lookup(g, x).at \in {<<>>, Lookup(s, x).at}
<1>1. PICK i : Innermost(s, x, i)
  BY HasInnermost DEF Deep
<1>2. Lookup(s, x) = s[i][x]
  BY <1>1, LookupIs DEF Deep
<1>3. /\ Len(s) \in Nat /\ Len(s) >= 2 /\ Stack(g) /\ Len(g) = Len(s)
      /\ Outer(g[1], Len(Functions)) /\ Alike(g[2], s[2])
      /\ \A j \in 3 .. Len(s) : g[j] = s[j]
  BY StackIs DEF Deep, Matches
<1>4. /\ i \in 1 .. Len(s) /\ x \in DOMAIN s[i]
      /\ \A j \in 1 .. Len(s) : j > i => x \notin DOMAIN s[j]
  BY <1>1 DEF Innermost
<1>5. \A j \in 3 .. Len(s) : j > i => x \notin DOMAIN g[j]
  <2>1. \A j \in 3 .. Len(s) : j \in 1 .. Len(s)
    OBVIOUS
  <2> QED
    BY <1>3, <1>4, <2>1
<1>6. \A j \in 1 .. Len(s) : j \in {1, 2} \cup 3 .. Len(s)
  BY <1>3
<1>7. ASSUME NEW k, Innermost(g, x, k), g[k][x].at = s[i][x].at
      PROVE  Lookup(g, x).at \in {<<>>, Lookup(s, x).at}
  BY <1>2, <1>3, <1>7, LookupIs
<1>8. CASE i \in 3 .. Len(s)
  <2>1. \A j \in 1 .. Len(s) : j > i => j \in 3 .. Len(s)
    BY <1>8
  <2>2. g[i] = s[i]
    BY <1>3, <1>8
  <2>3. Innermost(g, x, i)
    BY <1>3, <1>4, <1>5, <2>1, <2>2 DEF Innermost
  <2> QED
    BY <1>7, <2>2, <2>3
<1>9. CASE i = 2
  <2>1. \A j \in 1 .. Len(s) : j > 2 => j \in 3 .. Len(s)
    BY <1>3
  <2>2. CASE x \in DOMAIN g[2]
    <3>1. Innermost(g, x, 2)
      BY <1>3, <1>4, <1>5, <1>9, <2>1, <2>2 DEF Innermost
    <3>2. g[2][x].at = s[2][x].at
      BY <1>3, <1>4, <1>9, <2>2 DEF Alike
    <3> QED
      BY <1>7, <1>9, <3>1, <3>2
  <2>3. CASE x \notin DOMAIN g[2]
    <3>1. x \notin DOMAIN g[1]
      BY <1>3, <1>4, <1>9, <2>3 DEF Alike, Outer
    <3>2. \A j \in 3 .. Len(s) : x \notin DOMAIN g[j]
      BY <1>5, <1>9
    <3>3. ~ Declared(g, x)
      BY <1>3, <1>6, <2>3, <3>1, <3>2 DEF Declared
    <3>4. Lookup(g, x) = Undeclared
      BY <1>3, <3>3, LookupIs
    <3>5. Undeclared.at = <<>>
      BY DEF Undeclared, Decl
    <3> QED
      BY <3>4, <3>5
  <2> QED
    BY <2>2, <2>3
<1>10. CASE i = 1
  <2>1. x \in Range(Functions) /\ s[1][x].at = <<"function", x>>
    BY <1>4, <1>10 DEF IsGlobal
  <2>2. x \notin DOMAIN s[2]
    BY <1>3, <1>4, <1>10
  <2>3. x \notin DOMAIN g[2]
    BY <1>3, <2>1, <2>2 DEF Alike
  <2>4. x \in DOMAIN g[1]
    <3>1. PICK k \in 1 .. Len(Functions) : x = Functions[k]
      <4>1. DOMAIN Functions = 1 .. Len(Functions)
        BY Lists, LenProperties
      <4> QED
        BY <2>1, <4>1 DEF Range
    <3> QED
      BY <1>3, <3>1 DEF Outer
  <2>5. g[1][x].at = <<"function", x>>
    BY <1>3, <2>1, <2>4 DEF Outer
  <2>6. \A j \in 3 .. Len(s) : x \notin DOMAIN g[j]
    BY <1>5, <1>10
  <2>7. Innermost(g, x, 1)
    BY <1>3, <1>6, <2>3, <2>4, <2>6 DEF Innermost
  <2> QED
    BY <1>7, <1>10, <2>1, <2>5, <2>7
<1> QED
  BY <1>4, <1>6, <1>8, <1>9, <1>10

LEMMA UnderAlike ==
  ASSUME NEW new, NEW g, NEW s, Alike(g, s)
  PROVE  Alike(Under(new, g), Under(new, s))
<1> DEFINE h == Under(new, g)
           t == Under(new, s)
<1>1. /\ DOMAIN h = DOMAIN new \cup DOMAIN g /\ DOMAIN t = DOMAIN new \cup DOMAIN s
      /\ \A x \in DOMAIN new : h[x] = new[x] /\ t[x] = new[x]
      /\ \A x \in DOMAIN g \ DOMAIN new : h[x] = g[x]
      /\ \A x \in DOMAIN s \ DOMAIN new : t[x] = s[x]
  BY UnderIs
<1> HIDE DEF h, t
<1>2. ASSUME NEW x \in DOMAIN h \cap DOMAIN t PROVE h[x].at = t[x].at
  <2>1. CASE x \in DOMAIN new
    BY <1>1, <2>1
  <2>2. CASE x \notin DOMAIN new
    <3>1. x \in DOMAIN g \cap DOMAIN s /\ h[x] = g[x] /\ t[x] = s[x]
      BY <1>1, <2>2
    <3> QED
      BY <3>1 DEF Alike
  <2> QED
    BY <2>1, <2>2
<1>3. DOMAIN h \ DOMAIN t \subseteq DOMAIN g \ DOMAIN s
  BY <1>1
<1>4. DOMAIN t \ DOMAIN h \subseteq DOMAIN s \ DOMAIN g
  BY <1>1
<1>5. Alike(h, t)
  BY <1>2, <1>3, <1>4 DEF Alike
<1> QED
  BY <1>5 DEF h, t

(* Both visitors come to the same statement.                               *)
LEMMA MatchesFollow ==
  ASSUME NEW s, Deep(s), NEW g, Matches(g, s), NEW c, Sound(c, s), NEW b, NEW i,
         NEW t, Follows(t, s, c, b, i), NEW h, Follows(h, g, c, b, i)
  PROVE  Matches(h, t)
<1>1. /\ Len(s) \in Nat /\ Len(s) >= 2 /\ Stack(g) /\ Len(g) = Len(s)
      /\ Outer(g[1], Len(Functions))
      /\ Unambiguous => Alike(g[2], s[2]) /\ \A j \in 3 .. Len(s) : g[j] = s[j]
  BY StackIs DEF Deep, Matches
<1> DEFINE n == Len(s)
<1>2. n \in Nat /\ n >= 2 /\ 1 \in 1 .. n - 1 /\ 1 \in 1 .. n
  BY <1>1
<1>3. CASE c.op = "declare"
  <2> DEFINE new == Local(c, b, i)
  <2>1. Defined(t, s, new) /\ Defined(h, g, new)
    BY <1>3 DEF Follows
  <2> HIDE DEF new
  <2>2. /\ Stack(t) /\ Stack(h) /\ Len(t) = n /\ Len(h) = n
        /\ \A j \in 1 .. n - 1 : t[j] = s[j] /\ h[j] = g[j]
        /\ t[n] = Under(new, s[n]) /\ h[n] = Under(new, g[n])
    BY <1>1, <2>1 DEF Defined
  <2>3. Outer(h[1], Len(Functions))
    BY <1>1, <1>2, <2>2
  <2>4. ASSUME Unambiguous PROVE Alike(h[2], t[2])
    <3>1. CASE n = 2
      BY <1>1, <2>2, <2>4, <3>1, UnderAlike
    <3>2. CASE n # 2
      <4> HIDE DEF n
      <4>1. 2 \in 1 .. n - 1
        BY <1>2, <3>2
      <4> QED
        BY <1>1, <2>2, <2>4, <4>1
    <3> QED
      BY <3>1, <3>2
  <2>5. ASSUME Unambiguous, NEW j \in 3 .. n PROVE h[j] = t[j]
    <3>1. g[j] = s[j]
      BY <1>1, <2>5
    <3>2. CASE j = n
      BY <2>2, <3>1, <3>2
    <3>3. CASE j # n
      <4>1. j \in 1 .. n - 1
        BY <1>2, <3>3
      <4> QED
        BY <2>2, <3>1, <4>1
    <3> QED
      BY <3>2, <3>3
  <2> HIDE DEF n
  <2> QED
    BY <2>2, <2>3, <2>4, <2>5 DEF Matches
<1>4. CASE c.op = "if"
  <2>1. Pushed(t, s) /\ Pushed(h, g)
    BY <1>4 DEF Follows
  <2>2. /\ Stack(t) /\ Stack(h) /\ Len(t) = n + 1 /\ Len(h) = n + 1
        /\ \A j \in 1 .. n : t[j] = s[j] /\ h[j] = g[j]
        /\ t[n + 1] = Empty /\ h[n + 1] = Empty
    BY <1>1, <2>1 DEF Pushed
  <2>3. 1 \in 1 .. n /\ 2 \in 1 .. n
    BY <1>2
  <2>4. Outer(h[1], Len(Functions)) /\ (Unambiguous => Alike(h[2], t[2]))
    BY <1>1, <2>2, <2>3
  <2>5. ASSUME Unambiguous, NEW j \in 3 .. n + 1 PROVE h[j] = t[j]
    <3>1. CASE j = n + 1
      BY <2>2, <3>1
    <3>2. CASE j # n + 1
      <4>1. j \in 1 .. n /\ j \in 3 .. n
        BY <1>2, <3>2
      <4> QED
        BY <1>1, <2>2, <2>5, <4>1
    <3> QED
      BY <3>1, <3>2
  <2> HIDE DEF n
  <2> QED
    BY <2>2, <2>4, <2>5 DEF Matches
<1>5. CASE c.op = "end"
  <2>1. Uncovered(t, s) /\ Uncovered(h, g) /\ n > 2
    BY <1>5 DEF Follows, Sound, Placed
  <2>2. /\ Stack(t) /\ Stack(h) /\ Len(t) = n - 1 /\ Len(h) = n - 1
        /\ \A j \in 1 .. n - 1 : t[j] = s[j] /\ h[j] = g[j]
    BY <1>1, <2>1 DEF Uncovered
  <2>3. 1 \in 1 .. n - 1 /\ 2 \in 1 .. n - 1
    BY <1>2, <2>1
  <2>4. Outer(h[1], Len(Functions)) /\ (Unambiguous => Alike(h[2], t[2]))
    BY <1>1, <2>2, <2>3
  <2>5. ASSUME Unambiguous, NEW j \in 3 .. n - 1 PROVE h[j] = t[j]
    <3>1. j \in 1 .. n - 1 /\ j \in 3 .. n
      BY <1>2
    <3> QED
      BY <1>1, <2>2, <2>5, <3>1
  <2> HIDE DEF n
  <2> QED
    BY <2>2, <2>4, <2>5 DEF Matches
<1>6. CASE c.op \in Uses
  <2>1. t = s /\ h = g
    BY <1>6 DEF Follows
  <2> QED
    BY <2>1
<1> QED
  BY <1>3, <1>4, <1>5, <1>6 DEF Sound, Placed

LEMMA ParameterIs ==
  ASSUME NEW b
  PROVE  /\ DOMAIN ParameterOf(b) = {Sig[b.name].param}
         /\ ParameterOf(b)[Sig[b.name].param].at = <<"parameter", b>>
<1> DEFINE p == Sig[b.name].param
           d == Decl(Sig[b.name].type, <<"parameter", b>>)
<1>1. ParameterOf(b) = One(p, d)
  BY DEF ParameterOf
<1>2. d.at = <<"parameter", b>>
  BY DEF Decl
<1> HIDE DEF d, p
<1>3. DOMAIN ParameterOf(b) = {p} /\ ParameterOf(b)[p].at = <<"parameter", b>>
  BY <1>1, <1>2, OneIs
<1> QED
  BY <1>3 DEF p

(* The outermost scope with a method's symbol in it.                       *)
Symbol(b) ==
  IF b.class = NoClass THEN Empty
  ELSE One(<<b.class, b.name>>, Decl(Function(b.name), <<"method", b>>))

LEMMA SymbolOuter ==
  ASSUME NEW b \in BodySet, NEW G, Outer(G, Len(Functions))
  PROVE  Outer(Under(Symbol(b), G), Len(Functions)) /\ ScopeTyped(Symbol(b))
<1> DEFINE new == Symbol(b)
           H == Under(new, G)
<1>1. /\ DOMAIN H = DOMAIN new \cup DOMAIN G
      /\ \A x \in DOMAIN new : H[x] = new[x]
      /\ \A x \in DOMAIN G \ DOMAIN new : H[x] = G[x]
  BY UnderIs
<1> HIDE DEF H
<1>2. CASE b.class = NoClass
  <2>1. new = Empty /\ DOMAIN new = {}
    BY <1>2, EmptyIs DEF Symbol
  <2> HIDE DEF new
  <2>2. DOMAIN H = DOMAIN G /\ \A x \in DOMAIN G : H[x] = G[x]
    BY <1>1, <2>1
  <2>3. Outer(H, Len(Functions))
    BY <2>2 DEF Outer
  <2> QED
    BY <2>1, <2>3, EmptyTyped DEF new, H
<1>3. CASE b.class # NoClass
  <2> DEFINE m == <<b.class, b.name>>
             d == Decl(Function(b.name), <<"method", b>>)
  <2>1. m \in Range(Methods) /\ m[2] = b.name
    BY <1>3, BodiesDiffer
  <2>2. d.type.kind = "function"
    BY DEF Decl, Function
  <2>3. new = One(m, d) /\ DOMAIN new = {m}
    BY <1>3, OneIs DEF Symbol
  <2>4. ScopeTyped(new)
    <3>1. ScopeTyped(One(m, Decl(Function(b.name), <<"method", b>>)))
      <4>1. Function(b.name).kind = "function"
        BY DEF Function
      <4> HIDE DEF m
      <4> QED
        BY <4>1, OneTyped
    <3> QED
      BY <2>3, <3>1
  <2> HIDE DEF new, m, d
  <2>5. DOMAIN H \subseteq Linked
    BY <1>1, <2>1, <2>3 DEF Linked, Outer
  <2>6. \A i \in 1 .. Len(Functions) : Functions[i] \in DOMAIN H
    BY <1>1 DEF Outer
  <2>7. ASSUME Unambiguous, NEW x \in DOMAIN H \cap Range(Functions)
        PROVE  H[x].at = <<"function", x>>
    <3>1. m \notin Range(Functions)
      BY <2>1, <2>7 DEF Unambiguous
    <3>2. x \in DOMAIN G \ DOMAIN new
      BY <1>1, <2>3, <2>7, <3>1
    <3>3. H[x] = G[x]
      BY <1>1, <3>2
    <3> QED
      BY <2>7, <3>2, <3>3 DEF Outer
  <2>8. Outer(H, Len(Functions))
    BY <2>5, <2>6, <2>7 DEF Outer
  <2> QED
    BY <2>4, <2>8 DEF H, new
<1> QED
  BY <1>2, <1>3

(* What the generator enters a body with.                                  *)
Own(b) == IF b.class = NoClass THEN Empty
          ELSE One(b.name, Decl(Function(b.name), <<"method", b>>))
Members(b) == IF b.class = NoClass THEN Empty ELSE Fields(b.class)
Parameters(b) == IF b.class = NoClass THEN ParameterOf(b) ELSE Empty

Opened(b) == Under(Parameters(b), Under(Members(b), Under(Own(b), Empty)))

LEMMA OpenedIs ==
  ASSUME NEW b \in BodySet
  PROVE  /\ b.class = NoClass => /\ DOMAIN Opened(b) = {Sig[b.name].param}
                                 /\ Opened(b)[Sig[b.name].param].at = <<"parameter", b>>
         /\ b.class # NoClass => /\ DOMAIN Opened(b) = {b.name} \cup DOMAIN Field[b.class]
                                 /\ \A x \in DOMAIN Field[b.class] :
                                      Opened(b)[x].at = <<"field", b.class, x>>
<1> DEFINE o == Under(Own(b), Empty)
           m == Under(Members(b), o)
<1>1. /\ DOMAIN o = DOMAIN Own(b) \cup DOMAIN Empty
      /\ DOMAIN m = DOMAIN Members(b) \cup DOMAIN o
      /\ \A x \in DOMAIN Members(b) : m[x] = Members(b)[x]
      /\ DOMAIN Opened(b) = DOMAIN Parameters(b) \cup DOMAIN m
      /\ \A x \in DOMAIN Parameters(b) : Opened(b)[x] = Parameters(b)[x]
      /\ \A x \in DOMAIN m \ DOMAIN Parameters(b) : Opened(b)[x] = m[x]
  BY UnderIs DEF Opened
<1> HIDE DEF o, m
<1>2. CASE b.class = NoClass
  <2>1. Own(b) = Empty /\ Members(b) = Empty /\ Parameters(b) = ParameterOf(b)
    BY <1>2 DEF Own, Members, Parameters
  <2> DEFINE p == Sig[b.name].param
  <2>2. DOMAIN ParameterOf(b) = {p} /\ ParameterOf(b)[p].at = <<"parameter", b>>
    BY ParameterIs
  <2> HIDE DEF p
  <2>3. DOMAIN Opened(b) = {p} /\ Opened(b)[p].at = <<"parameter", b>>
    BY <1>1, <2>1, <2>2, EmptyIs
  <2> QED
    BY <1>2, <2>3 DEF p
<1>3. CASE b.class # NoClass
  <2>1. /\ Own(b) = One(b.name, Decl(Function(b.name), <<"method", b>>))
        /\ Members(b) = Fields(b.class) /\ Parameters(b) = Empty
    BY <1>3 DEF Own, Members, Parameters
  <2>2. DOMAIN Own(b) = {b.name}
    BY <2>1, OneIs
  <2>3. /\ DOMAIN Fields(b.class) = DOMAIN Field[b.class]
        /\ \A x \in DOMAIN Field[b.class] : Fields(b.class)[x].at = <<"field", b.class, x>>
    BY DEF Fields, Decl
  <2>4. \A x \in DOMAIN Field[b.class] : Opened(b)[x] = Fields(b.class)[x]
    BY <1>1, <2>1, <2>3, EmptyIs
  <2>5. DOMAIN Opened(b) = {b.name} \cup DOMAIN Field[b.class]
    BY <1>1, <2>1, <2>2, <2>3, EmptyIs
  <2> QED
    BY <1>3, <2>3, <2>4, <2>5
<1> QED
  BY <1>2, <1>3

LEMMA OpenedAlike ==
  ASSUME Unambiguous, NEW b \in BodySet, NEW s, Enters(s, b)
  PROVE  Alike(Opened(b), s[2])
<1> DEFINE g == Opened(b)
           t == s[2]
           p == Sig[b.name].param
<1>1. /\ DOMAIN t = {p} \cup Inherited(b) /\ t[p].at = <<"parameter", b>>
      /\ \A x \in DOMAIN t : x # p => t[x].at = <<"field", LastClass, x>>
  BY DEF Enters
<1> HIDE DEF t, g
<1>2. CASE b.class = NoClass
  <2>1. DOMAIN t = {p}
    BY <1>1, <1>2 DEF Inherited
  <2>2. DOMAIN g = {p} /\ g[p].at = <<"parameter", b>>
    BY <1>2, OpenedIs DEF g
  <2> HIDE DEF p
  <2>3. Alike(g, t)
    BY <1>1, <2>1, <2>2 DEF Alike
  <2> QED
    BY <2>3 DEF g, t
<1>3. CASE b.class # NoClass
  <2> DEFINE c == b.class
             n == b.name
             m == <<c, n>>
             last == Last(Classes)
  <2>1. m \in Range(Methods) /\ c \in Range(Classes) /\ m[1] = c /\ m[2] = n
    BY <1>3, BodiesDiffer
  <2>2. LastClass = last
    <3>1. DOMAIN Classes = 1 .. Len(Classes)
      BY Lists, LenProperties
    <3>2. Len(Classes) # 0
      BY <2>1, <3>1 DEF Range
    <3> QED
      BY <3>2 DEF LastClass, Last
  <2>3. Inherited(b) = DOMAIN Field[last]
    BY <1>3, <2>2 DEF Inherited
  <2>4. DOMAIN g = {n} \cup DOMAIN Field[c] /\ \A x \in DOMAIN Field[c] : g[x].at = <<"field", c, x>>
    BY <1>3, OpenedIs DEF g
  <2>5. /\ c # last => DOMAIN Field[c] \cap Range(Functions) = {}
        /\ Lost(m) \cap (Linked \cup {n} \cup DOMAIN Field[c]) = {}
        /\ n \notin Range(Functions)
        /\ p \in Lost(m)
        /\ c # last => DOMAIN Field[last] \subseteq Lost(m)
    BY <2>1 DEF Unambiguous, Lost
  <2> HIDE DEF c, n, m, last, p
  <2>6. ASSUME NEW x \in DOMAIN g \cap DOMAIN t PROVE g[x].at = t[x].at
    <3>1. x # p /\ x \in DOMAIN Field[last]
      BY <1>1, <2>3, <2>4, <2>5
    <3>2. c = last
      <4>1. x \in {n} \cup DOMAIN Field[c]
        BY <2>4
      <4>2. x \notin Lost(m)
        BY <2>5, <4>1
      <4> QED
        BY <2>5, <3>1, <4>2
    <3>3. g[x].at = <<"field", c, x>> /\ t[x].at = <<"field", last, x>>
      BY <1>1, <2>2, <2>4, <3>1, <3>2
    <3> QED
      BY <3>2, <3>3
  <2>7. (DOMAIN g \ DOMAIN t) \cap Range(Functions) = {}
    <3> SUFFICES ASSUME NEW x \in DOMAIN g, x \notin DOMAIN t PROVE x \notin Range(Functions)
      OBVIOUS
    <3>1. CASE c = last
      <4>1. x = n
        BY <1>1, <2>3, <2>4, <3>1
      <4> QED
        BY <2>5, <4>1
    <3>2. CASE c # last
      BY <2>4, <2>5, <3>2
    <3> QED
      BY <3>1, <3>2
  <2>8. (DOMAIN t \ DOMAIN g) \cap Linked = {}
    <3> SUFFICES ASSUME NEW x \in DOMAIN t, x \notin DOMAIN g PROVE x \notin Linked
      OBVIOUS
    <3>1. x \in Lost(m)
      <4>1. CASE x = p
        BY <2>5, <4>1
      <4>2. CASE x # p
        <5>1. x \in DOMAIN Field[last] /\ c # last
          BY <1>1, <2>3, <2>4, <4>2
        <5> QED
          BY <2>5, <5>1
      <4> QED
        BY <4>1, <4>2
    <3> QED
      BY <2>5, <3>1
  <2>9. Alike(g, t)
    BY <2>6, <2>7, <2>8 DEF Alike
  <2> QED
    BY <2>9 DEF g, t
<1> QED
  BY <1>2, <1>3

LEMMA BeginIs ==
  ASSUME NEW b \in BodySet, NEW G, Stack(G), Len(G) = 1, AllTyped(G),
         Outer(G[1], Len(Functions)),
         NEW st, st = Define(Define(Define(Push(Define(G, Symbol(b))), Own(b)), Members(b)),
                             Parameters(b))
  PROVE  /\ Stack(st) /\ Len(st) = 2 /\ AllTyped(st)
         /\ Outer(st[1], Len(Functions)) /\ st[2] = Opened(b)
<1> DEFINE d1 == Define(G, Symbol(b))
           d2 == Push(d1)
           d3 == Define(d2, Own(b))
           d4 == Define(d3, Members(b))
           d5 == Define(d4, Parameters(b))
<1>1. /\ ScopeTyped(Symbol(b)) /\ ScopeTyped(Own(b)) /\ ScopeTyped(Members(b))
      /\ ScopeTyped(Parameters(b))
  <2>1. ScopeTyped(Own(b))
    <3>1. CASE b.class = NoClass
      BY <3>1, EmptyTyped DEF Own
    <3>2. CASE b.class # NoClass
      <4>1. Own(b) = One(b.name, Decl(Function(b.name), <<"method", b>>))
        BY <3>2 DEF Own
      <4>2. Function(b.name).kind = "function"
        BY DEF Function
      <4> QED
        BY <4>1, <4>2, OneTyped
    <3> QED
      BY <3>1, <3>2
  <2>2. ScopeTyped(Members(b)) /\ ScopeTyped(Parameters(b))
    BY EmptyTyped, FieldsTyped, ParameterTyped DEF Members, Parameters
  <2> QED
    BY <2>1, <2>2, SymbolOuter
<1>2. Defined(d1, G, Symbol(b)) /\ AllTyped(d1)
  BY <1>1, DefineIs, DefineTyped
<1> HIDE DEF d1
<1>3. Stack(d1) /\ Len(d1) = 1 /\ d1[1] = Under(Symbol(b), G[1])
  BY <1>2 DEF Defined
<1>4. Pushed(d2, d1) /\ AllTyped(d2)
  BY <1>2, <1>3, PushIs, PushTyped
<1> HIDE DEF d2
<1>5. Stack(d2) /\ Len(d2) = 2 /\ d2[1] = d1[1] /\ d2[2] = Empty
  <2>1. Len(d1) + 1 = 2 /\ 1 \in 1 .. Len(d1)
    BY <1>3
  <2> QED
    BY <1>4, <2>1 DEF Pushed
<1> DEFINE Grows(u, v, new) == Stack(v) /\ Len(v) = 2 /\ AllTyped(v) /\ v[1] = u[1] /\ v[2] = Under(new, u[2])
<1>6. ASSUME NEW u, Stack(u), Len(u) = 2, AllTyped(u), NEW new, ScopeTyped(new)
      PROVE  Grows(u, Define(u, new), new)
  <2> DEFINE v == Define(u, new)
  <2>1. Defined(v, u, new) /\ AllTyped(v)
    BY <1>6, DefineIs, DefineTyped
  <2> HIDE DEF v
  <2>2. 1 \in 1 .. 2 - 1
    OBVIOUS
  <2>3. Grows(u, v, new)
    BY <1>6, <2>1, <2>2 DEF Defined
  <2> QED
    BY <2>3 DEF v
<1> HIDE DEF Grows
<1>7. Grows(d2, d3, Own(b))
  BY <1>1, <1>4, <1>5, <1>6
<1> HIDE DEF d3
<1>8. Grows(d3, d4, Members(b))
  <2>1. Stack(d3) /\ Len(d3) = 2 /\ AllTyped(d3)
    BY <1>7 DEF Grows
  <2> QED
    BY <1>1, <1>6, <2>1
<1> HIDE DEF d4
<1>9. Grows(d4, d5, Parameters(b))
  <2>1. Stack(d4) /\ Len(d4) = 2 /\ AllTyped(d4)
    BY <1>8 DEF Grows
  <2> QED
    BY <1>1, <1>6, <2>1
<1>10. st = d5
  BY DEF d1, d2, d3, d4
<1> HIDE DEF d5
<1>11. st[1] = Under(Symbol(b), G[1]) /\ st[2] = Opened(b)
  BY <1>3, <1>5, <1>7, <1>8, <1>9, <1>10 DEF Grows, Opened
<1>12. Stack(st) /\ Len(st) = 2 /\ AllTyped(st)
  BY <1>9, <1>10 DEF Grows
<1> QED
  BY <1>11, <1>12, SymbolOuter

(* What the semantic pass enters a body with.                              *)
Seen(b) == IF b.class = NoClass THEN Empty ELSE Fields(LastClass)

LEMMA EnterIs ==
  ASSUME NEW b \in BodySet, NEW G, Stack(G), Len(G) = 1, AllTyped(G), IsGlobal(G[1]),
         NEW st, st = Define(Define(Push(G), Seen(b)), ParameterOf(b))
  PROVE  Enters(st, b) /\ AllTyped(st)
<1> DEFINE d1 == Push(G)
           d2 == Define(d1, Seen(b))
           d3 == Define(d2, ParameterOf(b))
           p == Sig[b.name].param
<1>1. ScopeTyped(Seen(b)) /\ ScopeTyped(ParameterOf(b))
  BY EmptyTyped, FieldsTyped, ParameterTyped DEF Seen
<1>2. Pushed(d1, G) /\ AllTyped(d1)
  BY PushIs, PushTyped
<1> HIDE DEF d1
<1>3. Stack(d1) /\ Len(d1) = 2 /\ d1[1] = G[1] /\ d1[2] = Empty
  <2>1. Len(G) + 1 = 2 /\ 1 \in 1 .. Len(G)
    OBVIOUS
  <2> QED
    BY <1>2, <2>1 DEF Pushed
<1>4. Defined(d2, d1, Seen(b)) /\ AllTyped(d2)
  BY <1>1, <1>2, <1>3, DefineIs, DefineTyped
<1> HIDE DEF d2
<1>5. 1 \in 1 .. 2 - 1
  OBVIOUS
<1>6. Stack(d2) /\ Len(d2) = 2 /\ d2[1] = G[1] /\ d2[2] = Under(Seen(b), Empty)
  BY <1>3, <1>4, <1>5 DEF Defined
<1>7. Defined(d3, d2, ParameterOf(b)) /\ AllTyped(d3)
  BY <1>1, <1>4, <1>6, DefineIs, DefineTyped
<1>8. st = d3
  BY DEF d1, d2
<1> HIDE DEF d3
<1>9. /\ Stack(d3) /\ Len(d3) = 2 /\ d3[1] = G[1]
      /\ d3[2] = Under(ParameterOf(b), Under(Seen(b), Empty))
  BY <1>5, <1>6, <1>7 DEF Defined
<1>10. DOMAIN ParameterOf(b) = {p} /\ ParameterOf(b)[p].at = <<"parameter", b>>
  BY ParameterIs
<1>11. DOMAIN Seen(b) = Inherited(b) /\ \A x \in DOMAIN Seen(b) : Seen(b)[x].at = <<"field", LastClass, x>>
  <2>1. CASE b.class = NoClass
    BY <2>1, EmptyIs DEF Seen, Inherited
  <2>2. CASE b.class # NoClass
    <3>1. Seen(b) = Fields(LastClass) /\ Inherited(b) = DOMAIN Field[LastClass]
      BY <2>2 DEF Seen, Inherited
    <3>2. /\ DOMAIN Fields(LastClass) = DOMAIN Field[LastClass]
          /\ \A x \in DOMAIN Field[LastClass] :
               Fields(LastClass)[x].at = <<"field", LastClass, x>>
      BY DEF Fields, Decl
    <3> QED
      BY <3>1, <3>2
  <2> QED
    BY <2>1, <2>2
<1> DEFINE o == Under(Seen(b), Empty)
           u == Under(ParameterOf(b), o)
<1>12. /\ DOMAIN o = DOMAIN Seen(b) \cup DOMAIN Empty
       /\ \A x \in DOMAIN Seen(b) : o[x] = Seen(b)[x]
       /\ DOMAIN u = DOMAIN ParameterOf(b) \cup DOMAIN o
       /\ \A x \in DOMAIN ParameterOf(b) : u[x] = ParameterOf(b)[x]
       /\ \A x \in DOMAIN o \ DOMAIN ParameterOf(b) : u[x] = o[x]
  BY UnderIs
<1>13. u = d3[2]
  BY <1>9
<1> HIDE DEF o, u, p
<1>14. DOMAIN u = {p} \cup Inherited(b)
  BY <1>10, <1>11, <1>12, EmptyIs
<1>15. u[p].at = <<"parameter", b>>
  BY <1>10, <1>12
<1>16. ASSUME NEW x \in DOMAIN u, x # p PROVE u[x].at = <<"field", LastClass, x>>
  <2>1. x \in DOMAIN Seen(b)
    BY <1>10, <1>12, <1>16, EmptyIs
  <2>2. u[x] = Seen(b)[x]
    BY <1>10, <1>12, <1>16, <2>1
  <2> QED
    BY <1>11, <2>1, <2>2
<1> QED
  BY <1>7, <1>8, <1>9, <1>13, <1>14, <1>15, <1>16 DEF Enters, p

-----------------------------------------------------------------------------
(* The semantic pass accepts an expression only if its names are declared. *)

LEMMA TypedDeclares ==
  ASSUME NEW st, Stack(st), NEW x, Lookup(st, x).type # Null
  PROVE  Declared(st, x)
  BY LookupIs DEF Undeclared, Decl

LEMMA VisitDeclares ==
  ASSUME Stack(scope), NEW e \in Expr, ~ Visit(e).crash, ~ Visit(e).error
  PROVE  \A x \in Names(e) : Declared(scope, x)
<1>1. \/ e = Literal
      \/ \E x \in Variable : e = Read(x)
      \/ \E c \in Constructed : e = [op |-> "new", class |-> c]
      \/ e \in [op : {"call"}, name : Called, arg : Variable]
  BY DEF Expr, Simple
<1>2. CASE e = Literal
  <2>1. Names(e) = {}
    BY <1>2 DEF Names, Literal
  <2> QED
    BY <2>1
<1>3. CASE \E x \in Variable : e = Read(x)
  <2>1. PICK x \in Variable : e = Read(x)
    BY <1>3
  <2>2. Names(e) = {x} /\ e.name = x /\ e # Literal /\ e \in Simple /\ e.op = "read"
    BY <2>1 DEF Names, Read, Literal, Simple
  <2>3. Visit(e) = Typed(Lookup(scope, x).type)
    <3>1. Visit(e) = VisitSimple(e)
      BY <2>2 DEF Visit
    <3> QED
      BY <2>2, <3>1 DEF VisitSimple
  <2>4. Lookup(scope, x).type # Null
    <3> DEFINE u == Lookup(scope, x).type
    <3>1. Typed(u).crash = (u = Null)
      BY DEF Typed
    <3> HIDE DEF u
    <3>2. u # Null
      BY <2>3, <3>1 DEF u
    <3> QED
      BY <3>2 DEF u
  <2> QED
    BY <2>2, <2>4, TypedDeclares
<1>4. CASE \E c \in Constructed : e = [op |-> "new", class |-> c]
  <2>1. Names(e) = {}
    BY <1>4 DEF Names
  <2> QED
    BY <2>1
<1>5. CASE e \in [op : {"call"}, name : Called, arg : Variable]
  <2>1. e.op = "call" /\ e \notin Simple
    BY <1>5 DEF Simple, Literal, Read
  <2>2. Names(e) = {e.name, e.arg}
    BY <2>1 DEF Names
  <2>3. Visit(e) = VisitCall(e)
    BY <2>1 DEF Visit
  <2>4. Lookup(scope, e.name).type.kind = "function"
    <3>1. CASE Lookup(scope, e.name).type.kind # "function"
      <4>1. VisitCall(e).error = TRUE
        BY <3>1 DEF VisitCall
      <4> QED
        BY <2>3, <4>1
    <3> QED
      BY <3>1
  <2>5. VisitCall(e).crash = (Lookup(scope, e.arg).type = Null)
    BY <2>4 DEF VisitCall, Typed
  <2>6. Lookup(scope, e.name).type # Null
    BY <2>4 DEF Null
  <2> QED
    BY <2>2, <2>3, <2>5, <2>6, TypedDeclares
<1> QED
  BY <1>1, <1>2, <1>3, <1>4, <1>5

LEMMA MeaningMeant ==
  ASSUME NEW st, NEW names, \A x \in names : Declared(st, x)
  PROVE  Meant(Meaning(st, names), st)
  BY DEF Meaning, Meant

-----------------------------------------------------------------------------
(* The invariant.                                                          *)

Trees(tr) == DOMAIN tr = BodySet /\ \A b \in BodySet : tr[b] \in Seq(Range(tr[b]))

Untouched(tr, k) == \A i \in 1 .. Len(Checked) : i > k => tr[Checked[i]] = <<>>

(* Body b was visited, or the first k bodies were, without an error.       *)
Written(tr, b) == \E at : Complete(b, tr[b], at)
Visited(tr, k) == \A i \in 1 .. k : Written(tr, Checked[i])

Outermost(st) == Stack(st) /\ Len(st) = 1

AtFunctions ==
  /\ step \in 0 .. Len(Functions)
  /\ Outermost(scope) /\ DOMAIN scope[1] = {Functions[i] : i \in 1 .. step}
  /\ \A x \in DOMAIN scope[1] : scope[1][x].at = <<"function", x>>
  /\ currentClass = NoClass
  /\ Untouched(tree, 0) /\ symbols = <<Empty>>

AtClasses ==
  /\ step \in 0 .. Len(Classes)
  /\ Outermost(scope) /\ IsGlobal(scope[1])
  /\ currentClass = IF step = 0 THEN NoClass ELSE Classes[step]
  /\ Untouched(tree, 0) /\ symbols = <<Empty>>

AtBodies ==
  /\ step \in 0 .. Len(Checked)
  /\ Outermost(scope) /\ IsGlobal(scope[1])
  /\ currentClass = LastClass
  /\ Untouched(tree, step) /\ symbols = <<Empty>>
  /\ ~ errors => Visited(tree, step)

AtBody ==
  /\ step \in 0 .. Len(Checked) - 1
  /\ Deep(scope) /\ IsGlobal(scope[1])
  /\ currentClass = LastClass
  /\ Untouched(tree, step + 1) /\ symbols = <<Empty>>
  /\ ~ errors => Visited(tree, step) /\ Reaches(Body, tree[Body], scope)

AtChecked ==
  /\ symbols = <<Empty>>
  /\ ~ errors => Visited(tree, Len(Checked))

AtForward ==
  /\ step \in 0 .. Len(Functions)
  /\ Visited(tree, Len(Checked))
  /\ Outermost(symbols) /\ Outer(symbols[1], step)

AtGenerate ==
  /\ step \in 0 .. Len(Checked)
  /\ Visited(tree, Len(Checked))
  /\ Outermost(symbols) /\ Outer(symbols[1], Len(Functions))

(* The generator has, after the statements before pc, scopes like those    *)
(* that the semantic pass had there.                                       *)
Follow(b, code, p, st) == \E at : Complete(b, code, at) /\ Matches(st, at[p - 1])

AtEmit ==
  /\ step \in 0 .. Len(Checked) - 1
  /\ Visited(tree, Len(Checked))
  /\ pc \in 1 .. Len(tree[Emitted]) + 1
  /\ Follow(Emitted, tree[Emitted], pc, symbols)

Places ==
  /\ phase = "functions" => AtFunctions
  /\ phase = "classes" => AtClasses
  /\ phase = "bodies" => AtBodies
  /\ phase = "body" => AtBody
  /\ phase = "checked" => AtChecked
  /\ phase = "forward" => AtForward
  /\ phase = "generate" => AtGenerate
  /\ phase = "emit" => AtEmit

IInv == TypeOK /\ Trees(tree) /\ Places /\ ResolutionAgrees

Phases == {"functions", "classes", "bodies", "body", "checked", "crashed",
           "rejected", "forward", "generate", "emit", "done"}

LEMMA TypesNow ==
  ASSUME TypeOK
  PROVE  AllTyped(scope) /\ AllTyped(symbols)
  BY DEF TypeOK, AllTyped, ScopeTyped

LEMMA TypesNext ==
  ASSUME phase' \in Phases, step' \in 0 .. Len(Checked) + Len(Classes),
         AllTyped(scope'), AllTyped(symbols'),
         currentClass' \in Range(Classes) \cup {NoClass}, errors' \in BOOLEAN,
         budget' \in 0 .. MaxStatements, Trees(tree'), agreed' \in BOOLEAN
  PROVE  TypeOK'
  BY DEF TypeOK, Phases, AllTyped, ScopeTyped, Trees, BodySet

(* One Append in the tree.                                                 *)
Wrote(tr2, tr, b, s) ==
  /\ Trees(tr2) /\ tr2[b] = Append(tr[b], s)
  /\ \A c \in BodySet \ {b} : tr2[c] = tr[c]

LEMMA WriteIs ==
  ASSUME NEW tr, Trees(tr), NEW b \in BodySet, NEW s
  PROVE  Wrote([tr EXCEPT ![b] = Append(@, s)], tr, b, s)
<1> DEFINE new == [tr EXCEPT ![b] = Append(@, s)]
           S == Range(tr[b]) \cup {s}
           more == Append(tr[b], s)
<1>1. DOMAIN new = BodySet /\ new[b] = more /\ \A c \in BodySet \ {b} : new[c] = tr[c]
  BY DEF Trees
<1> HIDE DEF new
<1>2. more \in Seq(Range(more))
  <2>1. tr[b] \in Seq(S) /\ s \in S
    BY SeqMonotonic DEF Trees
  <2> HIDE DEF S
  <2>2. more \in Seq(S)
    BY <2>1, AppendProperties
  <2> QED
    BY <2>2, SeqOfRange
<1> HIDE DEF more
<1>3. Trees(new)
  <2> SUFFICES ASSUME NEW c \in BodySet PROVE new[c] \in Seq(Range(new[c]))
    BY <1>1 DEF Trees
  <2>1. CASE c = b
    BY <1>1, <1>2, <2>1
  <2>2. CASE c # b
    <3>1. new[c] = tr[c]
      BY <1>1, <2>2
    <3> QED
      BY <3>1 DEF Trees
  <2> QED
    BY <2>1, <2>2
<1> QED
  BY <1>1, <1>3 DEF Wrote, more, new

LEMMA InitPlaces ==
  ASSUME Init
  PROVE  IInv
<1>1. <<>> \in Seq(Range(<<>>)) /\ scope = <<Empty>> /\ symbols = <<Empty>>
  BY DEF Init
<1>2. /\ Stack(<<Empty>>) /\ Len(<<Empty>>) = 1 /\ <<Empty>>[1] = Empty
  <2> DEFINE e == Empty
  <2> HIDE DEF e
  <2>1. <<e>> \in Seq({e}) /\ Len(<<e>>) = 1 /\ <<e>>[1] = e
    OBVIOUS
  <2> DEFINE w == <<e>>
  <2>2. w \in Seq({e}) /\ Len(w) >= 1
    BY <2>1
  <2> HIDE DEF w
  <2>3. Stack(w)
    BY <2>2, StackOf
  <2> QED
    BY <2>1, <2>3 DEF e, w
<1>3. AllTyped(<<Empty>>)
  <2>1. Range(<<Empty>>) = {<<Empty>>[i] : i \in 1 .. Len(<<Empty>>)}
    BY <1>2, StackIs
  <2> QED
    BY <1>2, <2>1, EmptyTyped DEF AllTyped
<1>4. Trees(tree) /\ Untouched(tree, 0)
  <2>1. tree = [b \in BodySet |-> <<>>]
    BY DEF Init, BodySet
  <2>2. \A b \in BodySet : tree[b] = <<>>
    BY <2>1
  <2>3. \A i \in 1 .. Len(Checked) : Checked[i] \in BodySet
    BY BodiesDiffer
  <2> QED
    BY <1>1, <2>1, <2>2, <2>3 DEF Trees, Untouched
<1>5. TypeOK
  <2>1. Len(Checked) \in Nat /\ Len(Classes) \in Nat /\ MaxStatements \in Nat
    BY BodyLists, BoundNatural
  <2>2. 0 \in 0 .. Len(Checked) + Len(Classes) /\ MaxStatements \in 0 .. MaxStatements
    BY <2>1
  <2> QED
    BY <1>1, <1>3, <1>4, <2>2 DEF Init, TypeOK, AllTyped, ScopeTyped, Trees, BodySet
<1>6. AtFunctions
  <2>1. Len(Functions) \in Nat /\ step = 0 /\ currentClass = NoClass
    BY BodyLists DEF Init
  <2>2. {Functions[i] : i \in 1 .. step} = {}
    BY <2>1
  <2> QED
    BY <1>1, <1>2, <1>4, <2>1, <2>2, EmptyIs DEF AtFunctions, Outermost
<1> QED
  BY <1>4, <1>5, <1>6 DEF Init, IInv, Places, ResolutionAgrees

-----------------------------------------------------------------------------
(* The passes before the bodies.                                           *)

(* Ranges of the steps.                                                    *)
LEMMA Steps ==
  /\ 0 .. Len(Functions) \subseteq 0 .. Len(Checked) + Len(Classes)
  /\ 0 .. Len(Classes) \subseteq 0 .. Len(Checked) + Len(Classes)
  /\ 0 .. Len(Checked) \subseteq 0 .. Len(Checked) + Len(Classes)
  /\ 0 \in 0 .. Len(Functions) /\ 0 \in 0 .. Len(Classes) /\ 0 \in 0 .. Len(Checked)
<1> DEFINE f == Len(Functions)
           m == Len(Methods)
           c == Len(Classes)
           n == Len(Checked)
<1>1. f \in Nat /\ m \in Nat /\ c \in Nat /\ n = m + f
  BY BodyLists
<1> HIDE DEF f, m, c, n
<1>2. /\ 0 .. f \subseteq 0 .. n + c /\ 0 .. c \subseteq 0 .. n + c /\ 0 .. n \subseteq 0 .. n + c
      /\ 0 \in 0 .. f /\ 0 \in 0 .. c /\ 0 \in 0 .. n
  BY <1>1
<1> QED
  BY <1>2 DEF f, m, c, n

LEMMA DefinesFunction ==
  ASSUME IInv, DefineFunction
  PROVE  IInv'
<1> DEFINE f == Functions[step + 1]
           new == One(f, FunctionDecl(f))
<1>1. /\ TypeOK /\ Trees(tree) /\ AtFunctions /\ ResolutionAgrees
      /\ phase' = phase /\ phase = "functions" /\ step < Len(Functions) /\ step' = step + 1
      /\ scope' = Define(scope, new) /\ currentClass' = currentClass /\ errors' = errors
      /\ budget' = budget /\ tree' = tree /\ symbols' = symbols /\ agreed' = agreed
  BY DEF IInv, Places, DefineFunction
<1>2. AllTyped(scope) /\ AllTyped(symbols)
  BY <1>1, TypesNow
<1>3. step' \in 0 .. Len(Functions) /\ step + 1 \in 1 .. step + 1 /\ step \in Nat
  BY <1>1, BodyLists DEF AtFunctions
<1>4. ScopeTyped(new) /\ DOMAIN new = {f} /\ new[f].at = <<"function", f>>
  <2> DEFINE t == Function(f)
  <2>1. FunctionDecl(f) = Decl(t, <<"function", f>>) /\ t.kind = "function"
    BY DEF FunctionDecl, Function
  <2>2. ScopeTyped(One(f, Decl(t, <<"function", f>>)))
    <3> HIDE DEF t, f
    <3> QED
      BY <2>1, OneTyped
  <2>3. FunctionDecl(f).at = <<"function", f>>
    BY FunctionDeclIs
  <2> HIDE DEF t, f
  <2> QED
    BY <2>1, <2>2, <2>3, OneIs
<1> HIDE DEF new, f
<1>5. Stack(scope) /\ Len(scope) = 1
  BY <1>1 DEF AtFunctions, Outermost
<1>6. Defined(scope', scope, new) /\ AllTyped(scope')
  BY <1>1, <1>2, <1>4, <1>5, DefineIs, DefineTyped
<1>7. Stack(scope') /\ Len(scope') = 1 /\ scope'[1] = Under(new, scope[1])
  BY <1>5, <1>6 DEF Defined
<1>8. /\ DOMAIN scope'[1] = {f} \cup DOMAIN scope[1] /\ scope'[1][f] = new[f]
      /\ \A x \in DOMAIN scope[1] : x # f => scope'[1][x] = scope[1][x]
  <2> DEFINE old == scope[1]
             u == Under(new, old)
  <2>1. /\ DOMAIN u = DOMAIN new \cup DOMAIN old
        /\ \A x \in DOMAIN new : u[x] = new[x]
        /\ \A x \in DOMAIN old \ DOMAIN new : u[x] = old[x]
    BY UnderIs
  <2>2. scope'[1] = u
    BY <1>7
  <2> HIDE DEF u, old
  <2>3. DOMAIN u = {f} \cup DOMAIN old /\ u[f] = new[f] /\ \A x \in DOMAIN old : x # f => u[x] = old[x]
    BY <1>4, <2>1
  <2> QED
    BY <2>2, <2>3 DEF old
<1>9. {f} \cup {Functions[i] : i \in 1 .. step} = {Functions[i] : i \in 1 .. step + 1}
  <2>1. 1 .. step + 1 = 1 .. step \cup {step + 1}
    BY <1>3
  <2> QED
    BY <2>1 DEF f
<1>10. AtFunctions'
  <2>1. DOMAIN scope'[1] = {Functions[i] : i \in 1 .. step'}
    BY <1>1, <1>8, <1>9 DEF AtFunctions
  <2>2. ASSUME NEW x \in DOMAIN scope'[1] PROVE scope'[1][x].at = <<"function", x>>
    <3>1. CASE x = f
      BY <1>4, <1>8, <3>1
    <3>2. CASE x # f
      <4>1. x \in DOMAIN scope[1] /\ scope'[1][x] = scope[1][x]
        BY <1>8, <3>2
      <4> QED
        BY <1>1, <4>1 DEF AtFunctions
    <3> QED
      BY <3>1, <3>2
  <2> QED
    BY <1>1, <1>3, <1>7, <2>1, <2>2 DEF AtFunctions, Outermost
<1>11. TypeOK'
  <2>1. /\ phase' \in Phases /\ step' \in 0 .. Len(Checked) + Len(Classes)
        /\ currentClass' \in Range(Classes) \cup {NoClass} /\ errors' \in BOOLEAN
        /\ budget' \in 0 .. MaxStatements /\ Trees(tree') /\ agreed' \in BOOLEAN
        /\ AllTyped(symbols')
    BY <1>1, <1>2, <1>3, Steps DEF TypeOK, Phases
  <2> QED
    BY <1>6, <2>1, TypesNext
<1> QED
  BY <1>1, <1>10, <1>11 DEF IInv, Places, ResolutionAgrees

LEMMA EndsFunctions ==
  ASSUME IInv, EndFunctions
  PROVE  IInv'
<1>1. /\ TypeOK /\ Trees(tree) /\ AtFunctions /\ ResolutionAgrees
      /\ phase' = "classes" /\ step = Len(Functions) /\ step' = 0
      /\ scope' = scope /\ currentClass' = currentClass /\ errors' = errors
      /\ budget' = budget /\ tree' = tree /\ symbols' = symbols /\ agreed' = agreed
  BY DEF IInv, Places, EndFunctions
<1>2. AllTyped(scope) /\ AllTyped(symbols)
  BY <1>1, TypesNow
<1>3. IsGlobal(scope[1])
  <2>1. DOMAIN Functions = 1 .. Len(Functions)
    BY Lists, LenProperties
  <2>2. DOMAIN scope[1] = Range(Functions)
    BY <1>1, <2>1 DEF AtFunctions, Range
  <2> QED
    BY <1>1, <2>2 DEF AtFunctions, IsGlobal
<1>4. AtClasses'
  BY <1>1, <1>3, Steps DEF AtFunctions, AtClasses
<1>5. TypeOK'
  <2>1. /\ phase' \in Phases /\ step' \in 0 .. Len(Checked) + Len(Classes)
        /\ currentClass' \in Range(Classes) \cup {NoClass} /\ errors' \in BOOLEAN
        /\ budget' \in 0 .. MaxStatements /\ Trees(tree') /\ agreed' \in BOOLEAN
        /\ AllTyped(symbols') /\ AllTyped(scope')
    BY <1>1, <1>2, Steps DEF TypeOK, Phases
  <2> QED
    BY <2>1, TypesNext
<1> QED
  BY <1>1, <1>4, <1>5 DEF IInv, Places, ResolutionAgrees

LEMMA VisitsClass ==
  ASSUME IInv, VisitClass
  PROVE  IInv'
<1>1. /\ TypeOK /\ Trees(tree) /\ AtClasses /\ ResolutionAgrees
      /\ phase' = "classes" /\ step < Len(Classes) /\ step' = step + 1
      /\ scope' = scope /\ currentClass' = Classes[step + 1] /\ errors' = errors
      /\ budget' = budget /\ tree' = tree /\ symbols' = symbols /\ agreed' = agreed
  BY DEF IInv, Places, VisitClass
<1>2. AllTyped(scope) /\ AllTyped(symbols)
  BY <1>1, TypesNow
<1>3. step + 1 \in 1 .. Len(Classes) /\ step + 1 \in 0 .. Len(Classes) /\ step + 1 # 0
  BY <1>1, BodyLists DEF AtClasses
<1>4. Classes[step + 1] \in Range(Classes)
  <2>1. DOMAIN Classes = 1 .. Len(Classes)
    BY Lists, LenProperties
  <2> QED
    BY <1>3, <2>1 DEF Range
<1>5. AtClasses'
  BY <1>1, <1>3 DEF AtClasses
<1>6. TypeOK'
  <2>1. /\ phase' \in Phases /\ step' \in 0 .. Len(Checked) + Len(Classes)
        /\ currentClass' \in Range(Classes) \cup {NoClass} /\ errors' \in BOOLEAN
        /\ budget' \in 0 .. MaxStatements /\ Trees(tree') /\ agreed' \in BOOLEAN
        /\ AllTyped(symbols') /\ AllTyped(scope')
    BY <1>1, <1>2, <1>3, <1>4, Steps DEF TypeOK, Phases
  <2> QED
    BY <2>1, TypesNext
<1> QED
  BY <1>1, <1>5, <1>6 DEF IInv, Places, ResolutionAgrees

LEMMA EndsClasses ==
  ASSUME IInv, EndClasses
  PROVE  IInv'
<1>1. /\ TypeOK /\ Trees(tree) /\ AtClasses /\ ResolutionAgrees
      /\ phase' = "bodies" /\ step = Len(Classes) /\ step' = 0
      /\ scope' = scope /\ currentClass' = currentClass /\ errors' = errors
      /\ budget' = budget /\ tree' = tree /\ symbols' = symbols /\ agreed' = agreed
  BY DEF IInv, Places, EndClasses
<1>2. AllTyped(scope) /\ AllTyped(symbols)
  BY <1>1, TypesNow
<1>3. Visited(tree, 0)
  BY DEF Visited
<1>4. AtBodies'
  BY <1>1, <1>3, Steps DEF AtClasses, AtBodies, LastClass
<1>5. TypeOK'
  <2>1. /\ phase' \in Phases /\ step' \in 0 .. Len(Checked) + Len(Classes)
        /\ currentClass' \in Range(Classes) \cup {NoClass} /\ errors' \in BOOLEAN
        /\ budget' \in 0 .. MaxStatements /\ Trees(tree') /\ agreed' \in BOOLEAN
        /\ AllTyped(symbols') /\ AllTyped(scope')
    BY <1>1, <1>2, Steps DEF TypeOK, Phases
  <2> QED
    BY <2>1, TypesNext
<1> QED
  BY <1>1, <1>4, <1>5 DEF IInv, Places, ResolutionAgrees

-----------------------------------------------------------------------------
(* The bodies in the semantic pass.                                        *)

LEMMA EntersBody ==
  ASSUME IInv, EnterBody
  PROVE  IInv'
<1>1. /\ TypeOK /\ Trees(tree) /\ AtBodies /\ ResolutionAgrees
      /\ phase' = "body" /\ step < Len(Checked) /\ step' = step
      /\ currentClass' = currentClass /\ errors' = errors
      /\ budget' = budget /\ tree' = tree /\ symbols' = symbols /\ agreed' = agreed
  BY DEF IInv, Places, EnterBody
<1>2. AllTyped(scope) /\ AllTyped(symbols)
  BY <1>1, TypesNow
<1>3. step \in Nat /\ Len(Checked) \in Nat /\ step + 1 \in 1 .. Len(Checked) /\ step \in 0 .. Len(Checked) - 1
  BY <1>1, BodyLists DEF AtBodies
<1>4. Body \in BodySet
  BY <1>3, BodiesDiffer DEF Body
<1>5. scope' = Define(Define(Push(scope), Seen(Body)), ParameterOf(Body))
  <2>1. currentClass = LastClass
    BY <1>1 DEF AtBodies
  <2> QED
    BY <2>1 DEF EnterBody, Seen
<1>6. Enters(scope', Body) /\ AllTyped(scope')
  BY <1>1, <1>2, <1>4, <1>5, EnterIs DEF AtBodies, Outermost
<1>7. Deep(scope') /\ IsGlobal(scope'[1])
  BY <1>6 DEF Enters, Deep
<1>8. Untouched(tree, step + 1) /\ tree[Body] = <<>>
  <2>1. \A i \in 1 .. Len(Checked) : i > step => tree[Checked[i]] = <<>>
    BY <1>1 DEF AtBodies, Untouched
  <2>2. step + 1 > step /\ \A i \in 1 .. Len(Checked) : i > step + 1 => i > step
    BY <1>3
  <2> QED
    BY <1>3, <2>1, <2>2 DEF Untouched, Body
<1>9. Reaches(Body, tree[Body], scope')
  <2> DEFINE at == [k \in {0} |-> scope']
  <2>1. at[0] = scope' /\ Len(tree[Body]) = 0
    BY <1>8
  <2> HIDE DEF at
  <2>2. History(Body, tree[Body], at)
    BY <1>6, <2>1 DEF History
  <2>3. at[Len(tree[Body])] = scope'
    BY <2>1
  <2> QED
    BY <2>2, <2>3 DEF Reaches
<1>10. AtBody'
  <2>1. Body' = Body
    BY <1>1 DEF Body
  <2> QED
    BY <1>1, <1>3, <1>7, <1>8, <1>9, <2>1 DEF AtBodies, AtBody
<1>11. TypeOK'
  <2>1. /\ phase' \in Phases /\ step' \in 0 .. Len(Checked) + Len(Classes)
        /\ currentClass' \in Range(Classes) \cup {NoClass} /\ errors' \in BOOLEAN
        /\ budget' \in 0 .. MaxStatements /\ Trees(tree') /\ agreed' \in BOOLEAN
        /\ AllTyped(symbols')
    BY <1>1, <1>2 DEF TypeOK, Phases
  <2> QED
    BY <1>6, <2>1, TypesNext
<1> QED
  BY <1>1, <1>10, <1>11 DEF IInv, Places, ResolutionAgrees

LEMMA EndsBody ==
  ASSUME IInv, EndBody
  PROVE  IInv'
<1>1. /\ TypeOK /\ Trees(tree) /\ AtBody /\ ResolutionAgrees
      /\ phase' = "bodies" /\ Len(scope) = 2 /\ step' = step + 1 /\ scope' = Pop(scope)
      /\ currentClass' = currentClass /\ errors' = errors
      /\ budget' = budget /\ tree' = tree /\ symbols' = symbols /\ agreed' = agreed
  BY DEF IInv, Places, EndBody
<1>2. AllTyped(scope) /\ AllTyped(symbols)
  BY <1>1, TypesNow
<1>3. step \in Nat /\ Len(Checked) \in Nat /\ step + 1 \in 1 .. Len(Checked) /\ step + 1 \in 0 .. Len(Checked)
  BY <1>1, BodyLists DEF AtBody
<1>4. Uncovered(scope', scope) /\ AllTyped(scope')
  BY <1>1, <1>2, PopIs, PopTyped DEF AtBody, Deep
<1>5. Outermost(scope') /\ IsGlobal(scope'[1])
  <2>1. Len(scope) - 1 = 1 /\ 1 \in 1 .. Len(scope) - 1
    BY <1>1
  <2> QED
    BY <1>1, <1>4, <2>1 DEF AtBody, Uncovered, Outermost
<1>6. ASSUME ~ errors PROVE Visited(tree, step + 1)
  <2>1. PICK at : History(Body, tree[Body], at) /\ at[Len(tree[Body])] = scope
    BY <1>1, <1>6 DEF AtBody, Reaches
  <2>2. Complete(Body, tree[Body], at)
    BY <1>1, <2>1 DEF Complete
  <2>3. Written(tree, Checked[step + 1])
    BY <2>2 DEF Written, Body
  <2>4. \A i \in 1 .. step + 1 : i = step + 1 \/ i \in 1 .. step
    BY <1>3
  <2> QED
    BY <1>1, <1>6, <2>3, <2>4 DEF AtBody, Visited
<1>7. AtBodies'
  BY <1>1, <1>3, <1>5, <1>6 DEF AtBody, AtBodies
<1>8. TypeOK'
  <2>1. /\ phase' \in Phases /\ step' \in 0 .. Len(Checked) + Len(Classes)
        /\ currentClass' \in Range(Classes) \cup {NoClass} /\ errors' \in BOOLEAN
        /\ budget' \in 0 .. MaxStatements /\ Trees(tree') /\ agreed' \in BOOLEAN
        /\ AllTyped(symbols')
    BY <1>1, <1>2, <1>3, Steps DEF TypeOK, Phases
  <2> QED
    BY <1>4, <2>1, TypesNext
<1> QED
  BY <1>1, <1>7, <1>8 DEF IInv, Places, ResolutionAgrees

LEMMA EndsBodies ==
  ASSUME IInv, EndBodies
  PROVE  IInv'
<1>1. /\ TypeOK /\ Trees(tree) /\ AtBodies /\ ResolutionAgrees
      /\ phase' = "checked" /\ step = Len(Checked) /\ step' = step /\ scope' = Pop(scope)
      /\ currentClass' = NoClass /\ errors' = errors
      /\ budget' = budget /\ tree' = tree /\ symbols' = symbols /\ agreed' = agreed
  BY DEF IInv, Places, EndBodies
<1>2. AllTyped(scope) /\ AllTyped(symbols)
  BY <1>1, TypesNow
<1>3. AllTyped(scope')
  BY <1>1, <1>2, PopTyped DEF AtBodies, Outermost
<1>4. AtChecked'
  BY <1>1 DEF AtBodies, AtChecked
<1>5. TypeOK'
  <2>1. /\ phase' \in Phases /\ step' \in 0 .. Len(Checked) + Len(Classes)
        /\ currentClass' \in Range(Classes) \cup {NoClass} /\ errors' \in BOOLEAN
        /\ budget' \in 0 .. MaxStatements /\ Trees(tree') /\ agreed' \in BOOLEAN
        /\ AllTyped(symbols')
    BY <1>1, <1>2 DEF TypeOK, Phases
  <2> QED
    BY <1>3, <2>1, TypesNext
<1> QED
  BY <1>1, <1>4, <1>5 DEF IInv, Places, ResolutionAgrees

(* A statement that the visitor goes on after, or crashes on.              *)
LEMMA Statements ==
  ASSUME IInv, phase = "body", phase' \in {"body", "crashed"},
         UNCHANGED <<step, currentClass, symbols, agreed>>, budget' \in 0 .. MaxStatements,
         errors' \in BOOLEAN, NEW s, tree' = [tree EXCEPT ![Body] = Append(@, s)],
         Deep(scope'), scope'[1] = scope[1], AllTyped(scope'),
         phase' = "body" /\ ~ errors' =>
           /\ ~ errors /\ Sound(s, scope)
           /\ Follows(scope', scope, s, Body, Len(tree[Body]) + 1)
  PROVE  IInv'
<1>1. /\ TypeOK /\ Trees(tree) /\ AtBody /\ ResolutionAgrees
      /\ step' = step /\ currentClass' = currentClass /\ symbols' = symbols /\ agreed' = agreed
  BY DEF IInv, Places
<1>2. AllTyped(symbols)
  BY <1>1, TypesNow
<1>3. step \in Nat /\ Len(Checked) \in Nat /\ step + 1 \in 1 .. Len(Checked)
  BY <1>1, BodyLists DEF AtBody
<1>4. Body \in BodySet /\ Body = Checked[step + 1]
  BY <1>3, BodiesDiffer DEF Body
<1>5. Wrote(tree', tree, Body, s)
  BY <1>1, <1>4, WriteIs
<1>6. \A i \in 1 .. Len(Checked) : i # step + 1 => tree'[Checked[i]] = tree[Checked[i]]
  <2> TAKE i \in 1 .. Len(Checked)
  <2> HAVE i # step + 1
  <2>1. Checked[i] \in BodySet \ {Body}
    BY <1>3, <1>4, BodiesDiffer
  <2> QED
    BY <1>5, <2>1 DEF Wrote
<1>7. Untouched(tree', step + 1)
  <2>1. \A i \in 1 .. Len(Checked) : i > step + 1 => i # step + 1
    BY <1>3
  <2> QED
    BY <1>1, <1>6, <2>1 DEF AtBody, Untouched
<1>8. Visited(tree, step) => Visited(tree', step)
  <2>1. \A i \in 1 .. step : i \in 1 .. Len(Checked) /\ i # step + 1
    BY <1>3
  <2>2. \A i \in 1 .. step : tree'[Checked[i]] = tree[Checked[i]]
    BY <1>6, <2>1
  <2> QED
    BY <2>2 DEF Visited, Written
<1>9. ASSUME phase' = "body", ~ errors' PROVE Reaches(Body, tree'[Body], scope')
  <2>1. PICK at : History(Body, tree[Body], at) /\ at[Len(tree[Body])] = scope
    BY <1>1, <1>9 DEF AtBody, Reaches
  <2> DEFINE code == tree[Body]
             S == Range(code)
             t == scope'
             b == Body
             st == scope
  <2>2. /\ code \in Seq(S) /\ History(b, code, at) /\ Sound(s, at[Len(code)])
        /\ Follows(t, at[Len(code)], s, b, Len(code) + 1)
    BY <1>1, <1>4, <1>9, <2>1 DEF Trees
  <2>3. tree'[Body] = Append(code, s)
    BY <1>5 DEF Wrote
  <2> HIDE DEF code, S, t, b, st
  <2>4. Reaches(b, Append(code, s), t)
    BY <2>2, Extended
  <2> QED
    BY <2>3, <2>4 DEF t, b
<1>10. phase' = "body" => AtBody'
  <2>1. Body' = Body
    BY <1>1 DEF Body
  <2>2. phase' = "body" /\ ~ errors' => Visited(tree', step) /\ Reaches(Body, tree'[Body], scope')
    BY <1>1, <1>8, <1>9 DEF AtBody
  <2> QED
    BY <1>1, <1>7, <2>1, <2>2 DEF AtBody
<1>11. TypeOK'
  <2>1. /\ phase' \in Phases /\ step' \in 0 .. Len(Checked) + Len(Classes)
        /\ currentClass' \in Range(Classes) \cup {NoClass}
        /\ Trees(tree') /\ agreed' \in BOOLEAN /\ AllTyped(symbols')
    BY <1>1, <1>2, <1>5 DEF TypeOK, Phases, Wrote
  <2> QED
    BY <2>1, TypesNext
<1> QED
  BY <1>1, <1>5, <1>10, <1>11 DEF IInv, Places, ResolutionAgrees, Wrote

LEMMA BodyNow ==
  ASSUME IInv, phase = "body"
  PROVE  /\ Deep(scope) /\ Stack(scope) /\ Len(scope) \in Nat /\ AllTyped(scope)
         /\ errors \in BOOLEAN /\ budget \in 0 .. MaxStatements
  BY TypesNow, StackIs DEF IInv, Places, AtBody, Deep, TypeOK

LEMMA StatementBudget ==
  ASSUME IInv, Statement
  PROVE  budget' \in 0 .. MaxStatements
<1>1. budget \in 0 .. MaxStatements /\ budget > 0 /\ budget' = budget - 1
  BY DEF IInv, TypeOK, Statement
<1> QED
  BY <1>1, BoundNatural

(* The statements with expressions.                                        *)
LEMMA UsesNames ==
  ASSUME IInv, Statement, NEW s, NEW crash \in BOOLEAN, NEW error \in BOOLEAN, NEW names,
         Check(s, crash, error), s.means = Meaning(scope, names),
         ~ crash /\ ~ error => \A x \in names : Declared(scope, x),
         \/ s.op \in Uses /\ scope' = scope
         \/ s.op = "if" /\ scope' = Push(scope)
  PROVE  IInv'
<1>1. /\ phase = "body" /\ UNCHANGED <<step, currentClass, symbols, agreed>>
      /\ phase' = (IF crash THEN "crashed" ELSE phase)
      /\ errors' = (errors \/ error)
      /\ tree' = [tree EXCEPT ![Body] = Append(@, s)]
  BY DEF Statement, Check
<1>2. /\ Deep(scope) /\ Stack(scope) /\ Len(scope) \in Nat /\ AllTyped(scope)
      /\ errors \in BOOLEAN
  BY <1>1, BodyNow
<1>3. budget' \in 0 .. MaxStatements
  BY StatementBudget
<1>4. Follows(scope', scope, s, Body, Len(tree[Body]) + 1) /\ Placed(s, scope)
  <2>1. CASE s.op \in Uses /\ scope' = scope
    BY <2>1 DEF Follows, Placed, Uses
  <2>2. CASE s.op = "if" /\ scope' = Push(scope)
    <3>1. Pushed(scope', scope)
      BY <1>2, <2>2, PushIs
    <3> QED
      BY <2>2, <3>1 DEF Follows, Placed, Uses
  <2> QED
    BY <2>1, <2>2
<1>5. Deep(scope') /\ scope'[1] = scope[1]
  <2> DEFINE t == scope'
             i == Len(tree[Body]) + 1
             b == Body
             st == scope
  <2>1. Deep(st) /\ Placed(s, st) /\ Follows(t, st, s, b, i)
    BY <1>2, <1>4
  <2> HIDE DEF t, i, b, st
  <2>2. Deep(t) /\ t[1] = st[1]
    BY <2>1, FollowsIs
  <2> QED
    BY <2>2 DEF t, st
<1>6. AllTyped(scope')
  BY <1>2, PushTyped
<1>7. ~ crash /\ ~ error => Sound(s, scope)
  <2> SUFFICES ASSUME ~ crash, ~ error PROVE Sound(s, scope)
    OBVIOUS
  <2>1. Meant(s.means, scope)
    BY MeaningMeant
  <2>2. s.op # "declare"
    BY DEF Uses
  <2> QED
    BY <1>4, <2>1, <2>2 DEF Sound
<1>8. phase' \in {"body", "crashed"} /\ errors' \in BOOLEAN
  BY <1>1, <1>2
<1>9. phase' = "body" /\ ~ errors' => ~ crash /\ ~ error /\ ~ errors
  BY <1>1
<1> QED
  BY <1>1, <1>3, <1>4, <1>5, <1>6, <1>7, <1>8, <1>9, Statements

(* The values of Visit.                                                    *)
LEMMA VisitValue ==
  ASSUME NEW e \in Expr
  PROVE  Visit(e).crash \in BOOLEAN /\ Visit(e).error \in BOOLEAN
<1>1. \A t : Typed(t).crash \in BOOLEAN /\ Typed(t).error \in BOOLEAN
  BY DEF Typed
<1>2. CASE e \in Simple
  <2>1. e.op \in {"literal", "read"}
    BY <1>2 DEF Simple, Literal, Read
  <2>2. Visit(e) = VisitSimple(e)
    BY <1>2, <2>1 DEF Visit
  <2> QED
    BY <1>1, <2>2 DEF VisitSimple
<1>3. CASE \E c \in Constructed : e = [op |-> "new", class |-> c]
  <2>1. e.op = "new" /\ e \notin Simple
    <3>1. e.op = "new"
      BY <1>3
    <3>2. \A f \in Simple : f.op # "new"
      BY DEF Simple, Literal, Read
    <3> QED
      BY <3>1, <3>2
  <2>2. Visit(e) = Typed(IF e.class \in Range(Classes) THEN Pointer(e.class) ELSE Null)
    BY <2>1 DEF Visit
  <2> QED
    BY <1>1, <2>2
<1>4. CASE e \in [op : {"call"}, name : Called, arg : Variable]
  <2>1. e.op = "call" /\ e \notin Simple
    BY <1>4 DEF Simple, Literal, Read
  <2>2. Visit(e) = VisitCall(e)
    BY <2>1 DEF Visit
  <2>3. VisitCall(e).crash \in BOOLEAN /\ VisitCall(e).error \in BOOLEAN
    BY DEF VisitCall, Typed
  <2> QED
    BY <2>2, <2>3
<1> QED
  BY <1>2, <1>3, <1>4 DEF Expr

LEMMA Assigns ==
  ASSUME IInv, NEW x \in Variable, NEW e \in Expr, Assign(x, e)
  PROVE  IInv'
<1> DEFINE lhs == Lookup(scope, x).type
           rhs == Visit(e)
           crash == rhs.crash \/ rhs.type = Null \/ lhs = Null
           error == rhs.error \/ (~crash /\ ~Assignable(rhs.type, lhs))
           names == {x} \cup Names(e)
           s == [op |-> "assign", name |-> x, expr |-> e, to |-> lhs, from |-> rhs.type,
                 means |-> Meaning(scope, names)]
<1>1. Statement /\ Check(s, crash, error) /\ scope' = scope
  BY DEF Assign
<1>2. s.op \in Uses /\ s.means = Meaning(scope, names)
  BY DEF Uses
<1>3. phase = "body"
  BY <1>1 DEF Statement
<1>4. Stack(scope)
  BY <1>3, BodyNow
<1>5. ASSUME ~ crash, ~ error PROVE \A y \in names : Declared(scope, y)
  <2>1. ~ Visit(e).crash /\ ~ Visit(e).error /\ Lookup(scope, x).type # Null
    BY <1>5
  <2>2. Declared(scope, x)
    BY <1>4, <2>1, TypedDeclares
  <2>3. \A y \in Names(e) : Declared(scope, y)
    BY <1>4, <2>1, VisitDeclares
  <2> QED
    BY <2>2, <2>3
<1>6. crash \in BOOLEAN /\ error \in BOOLEAN
  BY VisitValue
<1> HIDE DEF s, crash, error, names
<1> QED
  BY <1>1, <1>2, <1>5, <1>6, UsesNames

LEMMA Calls ==
  ASSUME IInv, NEW e \in Expr, Call(e)
  PROVE  IInv'
<1> DEFINE crash == Visit(e).crash
           error == Visit(e).error
           names == Names(e)
           s == [op |-> "call", expr |-> e, means |-> Meaning(scope, names)]
<1>1. Statement /\ Check(s, crash, error) /\ scope' = scope
  BY DEF Call
<1>2. s.op \in Uses /\ s.means = Meaning(scope, names)
  BY DEF Uses
<1>3. phase = "body"
  BY <1>1 DEF Statement
<1>4. Stack(scope)
  BY <1>3, BodyNow
<1>5. ASSUME ~ crash, ~ error PROVE \A y \in names : Declared(scope, y)
  BY <1>4, <1>5, VisitDeclares
<1>6. crash \in BOOLEAN /\ error \in BOOLEAN
  BY VisitValue
<1> HIDE DEF s, crash, error, names
<1> QED
  BY <1>1, <1>2, <1>5, <1>6, UsesNames

LEMMA Returns ==
  ASSUME IInv, NEW e \in Expr, Return(e)
  PROVE  IInv'
<1> DEFINE v == Visit(e)
           crash == v.crash \/ v.type = Null
           error == v.error \/ (~crash /\ ~Assignable(v.type, Sig[Body.name].result))
           names == Names(e)
           s == [op |-> "return", expr |-> e, from |-> v.type,
                 to |-> Sig[Body.name].result, means |-> Meaning(scope, names)]
<1>1. Statement /\ Check(s, crash, error) /\ scope' = scope
  BY DEF Return
<1>2. s.op \in Uses /\ s.means = Meaning(scope, names)
  BY DEF Uses
<1>3. phase = "body"
  BY <1>1 DEF Statement
<1>4. Stack(scope)
  BY <1>3, BodyNow
<1>5. ASSUME ~ crash, ~ error PROVE \A y \in names : Declared(scope, y)
  <2>1. ~ Visit(e).crash /\ ~ Visit(e).error
    BY <1>5
  <2> QED
    BY <1>4, <2>1, VisitDeclares
<1>6. crash \in BOOLEAN /\ error \in BOOLEAN
  BY VisitValue
<1> HIDE DEF s, crash, error, names
<1> QED
  BY <1>1, <1>2, <1>5, <1>6, UsesNames

LEMMA BeginsIf ==
  ASSUME IInv, NEW e \in Expr, BeginIf(e)
  PROVE  IInv'
<1> DEFINE v == Visit(e)
           crash == v.crash \/ v.type = Null
           error == v.error \/ v.type # IntType
           names == Names(e)
           s == [op |-> "if", expr |-> e, means |-> Meaning(scope, names)]
<1>1. Statement /\ Check(s, crash, error) /\ scope' = Push(scope)
  BY DEF BeginIf
<1>2. s.op = "if" /\ s.means = Meaning(scope, names)
  OBVIOUS
<1>3. phase = "body"
  BY <1>1 DEF Statement
<1>4. Stack(scope)
  BY <1>3, BodyNow
<1>5. ASSUME ~ crash, ~ error PROVE \A y \in names : Declared(scope, y)
  <2>1. ~ Visit(e).crash /\ ~ Visit(e).error
    BY <1>5
  <2> QED
    BY <1>4, <2>1, VisitDeclares
<1>6. crash \in BOOLEAN /\ error \in BOOLEAN
  BY VisitValue
<1> HIDE DEF s, crash, error, names
<1> QED
  BY <1>1, <1>2, <1>5, <1>6, UsesNames

LEMMA DeclaresStray ==
  ASSUME IInv, NEW x \in Variable, NEW t \in VarType, DeclareStray(x, t)
  PROVE  IInv'
<1> DEFINE s == [op |-> "declare", name |-> x, type |-> t]
<1>1. /\ Statement /\ phase = "body" /\ UNCHANGED <<step, currentClass, symbols, agreed>>
      /\ phase' = "crashed" /\ scope' = scope
      /\ errors' = (errors \/ FALSE)
      /\ tree' = [tree EXCEPT ![Body] = Append(@, s)]
  BY DEF DeclareStray, Statement, Check
<1>2. Deep(scope) /\ AllTyped(scope) /\ errors \in BOOLEAN
  BY <1>1, BodyNow
<1>3. budget' \in 0 .. MaxStatements
  BY <1>1, StatementBudget
<1> HIDE DEF s
<1>4. /\ phase' \in {"body", "crashed"} /\ phase' # "body" /\ errors' \in BOOLEAN
      /\ Deep(scope') /\ scope'[1] = scope[1] /\ AllTyped(scope')
  BY <1>1, <1>2
<1> QED
  BY <1>1, <1>3, <1>4, Statements

LEMMA Declares ==
  ASSUME IInv, NEW x \in Variable, NEW t \in VarType, Declare(x, t)
  PROVE  IInv'
<1> DEFINE s == [op |-> "declare", name |-> x, type |-> t]
           known == t.kind # "pointer" \/ t.to \in Range(Classes)
           a == <<"local", Body, Len(tree[Body]) + 1>>
           d == Decl(t, a)
<1>1. /\ Statement /\ phase = "body" /\ UNCHANGED <<step, currentClass, symbols, agreed>>
      /\ phase' = phase
      /\ scope' = (IF known THEN Define(scope, One(x, d)) ELSE scope)
      /\ errors' = (errors \/ ~ known)
      /\ tree' = [tree EXCEPT ![Body] = Append(@, s)]
  BY DEF Declare, Statement, Check
<1>2. /\ Deep(scope) /\ Stack(scope) /\ Len(scope) \in Nat /\ AllTyped(scope)
      /\ errors \in BOOLEAN
  BY <1>1, BodyNow
<1>3. budget' \in 0 .. MaxStatements
  BY <1>1, StatementBudget
<1>4. s.op = "declare" /\ Local(s, Body, Len(tree[Body]) + 1) = One(x, d) /\ Placed(s, scope)
  BY DEF Local, Placed, Uses
<1>5. known => Known(t) /\ s.type = t
  BY Types DEF Known
<1>6. known => Defined(scope', scope, One(x, d)) /\ AllTyped(scope')
  <2> SUFFICES ASSUME known PROVE Defined(scope', scope, One(x, d)) /\ AllTyped(scope')
    OBVIOUS
  <2>1. ScopeTyped(One(x, Decl(t, a)))
    <3> HIDE DEF a, known
    <3> QED
      BY <1>5, OneTyped DEF Known
  <2> QED
    BY <1>1, <1>2, <2>1, DefineIs, DefineTyped
<1> HIDE DEF s, known, d, a
<1>7. known => Follows(scope', scope, s, Body, Len(tree[Body]) + 1) /\ Sound(s, scope)
  BY <1>4, <1>5, <1>6 DEF Follows, Sound, Uses
<1>8. Deep(scope') /\ scope'[1] = scope[1] /\ AllTyped(scope')
  <2>1. CASE known
    <3>1. 1 \in 1 .. Len(scope) - 1
      BY <1>2 DEF Deep
    <3> QED
      BY <1>2, <1>6, <2>1, <3>1 DEF Defined, Deep
  <2>2. CASE ~ known
    BY <1>1, <1>2, <2>2
  <2> QED
    BY <2>1, <2>2
<1>9. phase' \in {"body", "crashed"} /\ errors' \in BOOLEAN /\ (~ errors' => known /\ ~ errors)
  BY <1>1, <1>2 DEF known
<1> QED
  BY <1>1, <1>3, <1>7, <1>8, <1>9, Statements

LEMMA EndsIf ==
  ASSUME IInv, EndIf
  PROVE  IInv'
<1> DEFINE s == [op |-> "end"]
<1>1. /\ phase = "body" /\ UNCHANGED <<step, currentClass, symbols, agreed>>
      /\ phase' = phase /\ Len(scope) > 2 /\ scope' = Pop(scope)
      /\ errors' = errors /\ budget' = budget
      /\ tree' = [tree EXCEPT ![Body] = Append(@, s)]
  BY DEF EndIf
<1>2. /\ Deep(scope) /\ Stack(scope) /\ Len(scope) \in Nat /\ Len(scope) >= 2 /\ AllTyped(scope)
      /\ errors \in BOOLEAN /\ budget \in 0 .. MaxStatements
  BY <1>1, BodyNow DEF Deep
<1>3. Uncovered(scope', scope) /\ AllTyped(scope')
  BY <1>1, <1>2, PopIs, PopTyped
<1>4. s.op = "end"
  OBVIOUS
<1> HIDE DEF s
<1>5. Follows(scope', scope, s, Body, Len(tree[Body]) + 1) /\ Sound(s, scope)
  BY <1>1, <1>3, <1>4 DEF Follows, Sound, Placed, Uses
<1>6. Deep(scope') /\ scope'[1] = scope[1]
  <2>1. 1 \in 1 .. Len(scope) - 1 /\ Len(scope) - 1 >= 2
    BY <1>1, <1>2
  <2> QED
    BY <1>3, <2>1 DEF Uncovered, Deep
<1>7. phase' \in {"body", "crashed"} /\ errors' \in BOOLEAN /\ budget' \in 0 .. MaxStatements
  BY <1>1, <1>2
<1> QED
  BY <1>1, <1>3, <1>5, <1>6, <1>7, Statements

-----------------------------------------------------------------------------
(* The bodies in the generator.                                            *)

LEMMA DecidesToGenerate ==
  ASSUME IInv, DecideToGenerate
  PROVE  IInv'
<1>1. /\ TypeOK /\ Trees(tree) /\ AtChecked /\ ResolutionAgrees
      /\ phase' = (IF errors THEN "rejected" ELSE "forward") /\ step' = 0
      /\ scope' = scope /\ currentClass' = currentClass /\ errors' = errors
      /\ budget' = budget /\ tree' = tree /\ symbols' = symbols /\ agreed' = agreed
  BY DEF IInv, Places, DecideToGenerate
<1>2. AllTyped(scope) /\ AllTyped(symbols) /\ errors \in BOOLEAN
  BY <1>1, TypesNow DEF TypeOK
<1>3. Outermost(<<Empty>>) /\ Outer(<<Empty>>[1], 0)
  <2>1. <<Empty>>[1] = Empty
    OBVIOUS
  <2>2. Outer(Empty, 0)
    BY EmptyIs DEF Outer
  <2>3. Outermost(<<Empty>>)
    <3> DEFINE e == Empty
               w == <<e>>
    <3> HIDE DEF e
    <3>1. w \in Seq({e}) /\ Len(w) = 1
      OBVIOUS
    <3> HIDE DEF w
    <3>2. Len(w) >= 1
      BY <3>1
    <3>3. Outermost(w)
      BY <3>1, <3>2, StackOf DEF Outermost
    <3> QED
      BY <3>3 DEF w, e
  <2> QED
    BY <2>1, <2>2, <2>3
<1>4. phase' = "forward" => AtForward'
  <2> SUFFICES ASSUME phase' = "forward" PROVE AtForward'
    OBVIOUS
  <2>1. ~ errors
    BY <1>1
  <2> QED
    BY <1>1, <1>3, <2>1, Steps DEF AtChecked, AtForward
<1>5. phase' \in {"rejected", "forward"}
  BY <1>1
<1>6. TypeOK'
  <2>1. /\ phase' \in Phases /\ step' \in 0 .. Len(Checked) + Len(Classes)
        /\ currentClass' \in Range(Classes) \cup {NoClass} /\ errors' \in BOOLEAN
        /\ budget' \in 0 .. MaxStatements /\ Trees(tree') /\ agreed' \in BOOLEAN
        /\ AllTyped(symbols') /\ AllTyped(scope')
    BY <1>1, <1>2, <1>5, Steps DEF TypeOK, Phases
  <2> QED
    BY <2>1, TypesNext
<1> QED
  BY <1>1, <1>4, <1>5, <1>6 DEF IInv, Places, ResolutionAgrees

LEMMA ForwardDeclares ==
  ASSUME IInv, ForwardDeclare
  PROVE  IInv'
<1> DEFINE f == Functions[step + 1]
           new == [x \in {f, NamespaceName[f]} |-> FunctionDecl(f)]
<1>1. /\ TypeOK /\ Trees(tree) /\ AtForward /\ ResolutionAgrees
      /\ phase' = "forward" /\ step < Len(Functions) /\ step' = step + 1
      /\ scope' = scope /\ currentClass' = currentClass /\ errors' = errors
      /\ budget' = budget /\ tree' = tree /\ symbols' = Define(symbols, new) /\ agreed' = agreed
  BY DEF IInv, Places, ForwardDeclare
<1>2. AllTyped(scope) /\ AllTyped(symbols)
  BY <1>1, TypesNow
<1>3. step \in Nat /\ step' \in 0 .. Len(Functions) /\ step + 1 \in 1 .. Len(Functions)
  BY <1>1, BodyLists DEF AtForward
<1>4. f \in Range(Functions)
  <2>1. DOMAIN Functions = 1 .. Len(Functions)
    BY Lists, LenProperties
  <2> QED
    BY <1>3, <2>1 DEF Range
<1>5. /\ DOMAIN new = {f, NamespaceName[f]}
      /\ \A x \in DOMAIN new : new[x] = FunctionDecl(f)
  OBVIOUS
<1> HIDE DEF new, f
<1>6. FunctionDecl(f).type.kind = "function" /\ FunctionDecl(f).at = <<"function", f>>
  BY FunctionDeclIs
<1>7. ScopeTyped(new)
  BY <1>5, <1>6 DEF ScopeTyped
<1>8. Stack(symbols) /\ Len(symbols) = 1 /\ Outer(symbols[1], step)
  BY <1>1 DEF AtForward, Outermost
<1>9. Defined(symbols', symbols, new) /\ AllTyped(symbols')
  BY <1>1, <1>2, <1>7, <1>8, DefineIs, DefineTyped
<1> DEFINE G == symbols[1]
           H == Under(new, G)
<1>10. Outermost(symbols') /\ symbols'[1] = H
  BY <1>8, <1>9 DEF Defined, Outermost
<1>11. /\ DOMAIN H = DOMAIN new \cup DOMAIN G
       /\ \A x \in DOMAIN new : H[x] = new[x]
       /\ \A x \in DOMAIN G \ DOMAIN new : H[x] = G[x]
  BY UnderIs
<1>12. Outer(G, step)
  BY <1>8
<1> HIDE DEF G, H
<1>13. DOMAIN H \subseteq Linked
  BY <1>4, <1>5, <1>11, <1>12 DEF Outer, Linked
<1>14. \A i \in 1 .. step + 1 : Functions[i] \in DOMAIN H
  <2> TAKE i \in 1 .. step + 1
  <2>1. CASE i = step + 1
    BY <1>5, <1>11, <2>1 DEF f
  <2>2. CASE i # step + 1
    <3>1. i \in 1 .. step
      BY <1>3, <2>2
    <3> QED
      BY <1>11, <1>12, <3>1 DEF Outer
  <2> QED
    BY <2>1, <2>2
<1>15. ASSUME Unambiguous, NEW x \in DOMAIN H \cap Range(Functions)
       PROVE  H[x].at = <<"function", x>>
  <2>1. CASE x \in DOMAIN new
    <3>1. x = f
      BY <1>4, <1>5, <1>15, <2>1 DEF Unambiguous
    <3>2. H[x] = FunctionDecl(f)
      BY <1>5, <1>11, <2>1
    <3> QED
      BY <1>6, <3>1, <3>2
  <2>2. CASE x \notin DOMAIN new
    <3>1. x \in DOMAIN G /\ H[x] = G[x]
      BY <1>11, <2>2
    <3> QED
      BY <1>12, <1>15, <3>1 DEF Outer
  <2> QED
    BY <2>1, <2>2
<1>16. AtForward'
  <2>1. Outer(H, step + 1)
    BY <1>13, <1>14, <1>15 DEF Outer
  <2> QED
    BY <1>1, <1>3, <1>10, <2>1 DEF AtForward
<1>17. TypeOK'
  <2>1. /\ phase' \in Phases /\ step' \in 0 .. Len(Checked) + Len(Classes)
        /\ currentClass' \in Range(Classes) \cup {NoClass} /\ errors' \in BOOLEAN
        /\ budget' \in 0 .. MaxStatements /\ Trees(tree') /\ agreed' \in BOOLEAN
        /\ AllTyped(scope')
    BY <1>1, <1>2, <1>3, Steps DEF TypeOK, Phases
  <2> QED
    BY <1>9, <2>1, TypesNext
<1> QED
  BY <1>1, <1>16, <1>17 DEF IInv, Places, ResolutionAgrees

LEMMA BeginsGenerating ==
  ASSUME IInv, BeginGenerating
  PROVE  IInv'
<1>1. /\ TypeOK /\ Trees(tree) /\ AtForward /\ ResolutionAgrees
      /\ phase' = "generate" /\ step = Len(Functions) /\ step' = 0
      /\ scope' = scope /\ currentClass' = currentClass /\ errors' = errors
      /\ budget' = budget /\ tree' = tree /\ symbols' = symbols /\ agreed' = agreed
  BY DEF IInv, Places, BeginGenerating
<1>2. AllTyped(scope) /\ AllTyped(symbols)
  BY <1>1, TypesNow
<1>3. AtGenerate'
  BY <1>1, Steps DEF AtForward, AtGenerate
<1>4. TypeOK'
  <2>1. /\ phase' \in Phases /\ step' \in 0 .. Len(Checked) + Len(Classes)
        /\ currentClass' \in Range(Classes) \cup {NoClass} /\ errors' \in BOOLEAN
        /\ budget' \in 0 .. MaxStatements /\ Trees(tree') /\ agreed' \in BOOLEAN
        /\ AllTyped(symbols') /\ AllTyped(scope')
    BY <1>1, <1>2, Steps DEF TypeOK, Phases
  <2> QED
    BY <2>1, TypesNext
<1> QED
  BY <1>1, <1>3, <1>4 DEF IInv, Places, ResolutionAgrees

LEMMA EndsGenerating ==
  ASSUME IInv, EndGenerating
  PROVE  IInv'
<1>1. /\ TypeOK /\ Trees(tree) /\ ResolutionAgrees
      /\ phase' = "done" /\ step' = step
      /\ scope' = scope /\ currentClass' = currentClass /\ errors' = errors
      /\ budget' = budget /\ tree' = tree /\ symbols' = symbols /\ agreed' = agreed
  BY DEF IInv, EndGenerating
<1>2. AllTyped(scope) /\ AllTyped(symbols)
  BY <1>1, TypesNow
<1>3. TypeOK'
  <2>1. /\ phase' \in Phases /\ step' \in 0 .. Len(Checked) + Len(Classes)
        /\ currentClass' \in Range(Classes) \cup {NoClass} /\ errors' \in BOOLEAN
        /\ budget' \in 0 .. MaxStatements /\ Trees(tree') /\ agreed' \in BOOLEAN
        /\ AllTyped(symbols') /\ AllTyped(scope')
    BY <1>1, <1>2 DEF TypeOK, Phases
  <2> QED
    BY <2>1, TypesNext
<1> QED
  BY <1>1, <1>3 DEF IInv, Places, ResolutionAgrees

LEMMA EmittedIs ==
  ASSUME Trees(tree), Visited(tree, Len(Checked)), step \in 0 .. Len(Checked) - 1
  PROVE  Emitted \in BodySet /\ Written(tree, Emitted) /\ Len(tree[Emitted]) \in Nat
<1>1. step + 1 \in 1 .. Len(Checked)
  BY BodyLists
<1>2. Emitted \in BodySet
  BY <1>1, BodiesDiffer DEF Emitted
<1>3. BodySet = {Checked[i] : i \in 1 .. Len(Checked)}
  BY BodyLists
<1>4. Written(tree, Emitted)
  BY <1>2, <1>3 DEF Visited
<1>5. Len(tree[Emitted]) \in Nat
  BY <1>2, LenProperties DEF Trees
<1> QED
  BY <1>2, <1>4, <1>5

LEMMA BeginsEmit ==
  ASSUME IInv, BeginEmit
  PROVE  IInv'
<1>1. /\ TypeOK /\ Trees(tree) /\ AtGenerate /\ ResolutionAgrees
      /\ phase' = "emit" /\ step < Len(Generated) /\ step' = step /\ pc' = 1
      /\ scope' = scope /\ currentClass' = currentClass /\ errors' = errors
      /\ budget' = budget /\ tree' = tree /\ agreed' = agreed
  BY DEF IInv, Places, BeginEmit
<1>2. AllTyped(scope) /\ AllTyped(symbols)
  BY <1>1, TypesNow
<1>3. step \in 0 .. Len(Checked) - 1
  BY <1>1, BodyLists DEF AtGenerate
<1>4. Visited(tree, Len(Checked)) /\ Outermost(symbols) /\ Outer(symbols[1], Len(Functions))
  BY <1>1 DEF AtGenerate
<1>5. Emitted \in BodySet /\ Written(tree, Emitted) /\ Len(tree[Emitted]) \in Nat
  BY <1>1, <1>3, <1>4, EmittedIs
<1>6. symbols' = Define(Define(Define(Push(Define(symbols, Symbol(Emitted))), Own(Emitted)),
                               Members(Emitted)), Parameters(Emitted))
  BY DEF BeginEmit, Symbol, Own, Members, Parameters
<1>7. /\ Stack(symbols') /\ Len(symbols') = 2 /\ AllTyped(symbols')
      /\ Outer(symbols'[1], Len(Functions)) /\ symbols'[2] = Opened(Emitted)
  BY <1>2, <1>4, <1>5, <1>6, BeginIs DEF Outermost
<1>8. PICK at : Complete(Emitted, tree[Emitted], at)
  BY <1>5 DEF Written
<1> DEFINE s == at[0]
<1>9. Enters(s, Emitted)
  BY <1>8 DEF Complete, History
<1> HIDE DEF s
<1>10. Matches(symbols', s)
  <2>1. Len(s) = 2 /\ 3 .. Len(s) = {}
    BY <1>9 DEF Enters
  <2>2. Unambiguous => Alike(symbols'[2], s[2])
    BY <1>5, <1>7, <1>9, OpenedAlike
  <2> QED
    BY <1>7, <2>1, <2>2 DEF Matches
<1>11. Follow(Emitted, tree[Emitted], 1, symbols')
  <2>1. at[1 - 1] = s
    BY DEF s
  <2> QED
    BY <1>8, <1>10, <2>1 DEF Follow
<1>12. AtEmit'
  <2>1. Emitted' = Emitted
    BY <1>1 DEF Emitted
  <2>2. 1 \in 1 .. Len(tree[Emitted]) + 1
    BY <1>5
  <2> QED
    BY <1>1, <1>3, <1>4, <1>11, <2>1, <2>2 DEF AtEmit
<1>13. TypeOK'
  <2>1. /\ phase' \in Phases /\ step' \in 0 .. Len(Checked) + Len(Classes)
        /\ currentClass' \in Range(Classes) \cup {NoClass} /\ errors' \in BOOLEAN
        /\ budget' \in 0 .. MaxStatements /\ Trees(tree') /\ agreed' \in BOOLEAN
        /\ AllTyped(scope')
    BY <1>1, <1>2 DEF TypeOK, Phases
  <2> QED
    BY <1>7, <2>1, TypesNext
<1> QED
  BY <1>1, <1>12, <1>13 DEF IInv, Places, ResolutionAgrees

(* The statement at pc, and where the semantic pass came to it.            *)
Beside(b, code, at, p, st) ==
  /\ Complete(b, code, at) /\ Matches(st, at[p - 1]) /\ Stepped(b, code, at, p)
  /\ IsGlobal(at[p - 1][1]) /\ IsGlobal(at[p][1])

LEMMA EmitNow ==
  ASSUME IInv, phase = "emit", pc <= Len(tree[Emitted])
  PROVE  /\ Emitted \in BodySet /\ Len(tree[Emitted]) \in Nat /\ pc \in 1 .. Len(tree[Emitted])
         /\ \E at : Beside(Emitted, tree[Emitted], at, pc, symbols)
         /\ Stack(symbols) /\ Len(symbols) >= 2 /\ AllTyped(symbols)
<1>1. TypeOK /\ Trees(tree) /\ AtEmit
  BY DEF IInv, Places
<1>2. Emitted \in BodySet /\ Len(tree[Emitted]) \in Nat
  BY <1>1, EmittedIs DEF AtEmit
<1>3. pc \in 1 .. Len(tree[Emitted])
  BY <1>1, <1>2 DEF AtEmit
<1> DEFINE code == tree[Emitted]
           b == Emitted
           p == pc
           st == symbols
<1>4. PICK at : Complete(b, code, at) /\ Matches(st, at[p - 1])
  BY <1>1 DEF AtEmit, Follow
<1>5. Len(code) \in Nat /\ p \in 1 .. Len(code)
  BY <1>2, <1>3
<1> HIDE DEF code, b, p, st
<1>6. History(b, code, at)
  BY <1>4 DEF Complete
<1>7. Stepped(b, code, at, p)
  BY <1>5, <1>6, HistoryStep
<1>8. IsGlobal(at[p - 1][1]) /\ IsGlobal(at[p][1])
  <2>1. p - 1 \in 0 .. Len(code) /\ p \in 0 .. Len(code)
    BY <1>5
  <2> QED
    BY <1>5, <1>6, <2>1, HistoryDeep
<1>9. Beside(b, code, at, p, st)
  BY <1>4, <1>7, <1>8 DEF Beside
<1>10. Stack(st) /\ Len(st) >= 2
  BY <1>4, <1>7 DEF Matches, Stepped, Deep
<1> QED
  BY <1>1, <1>2, <1>3, <1>9, <1>10, TypesNow DEF b, code, p, st

(* Any statement of the generator.                                         *)
LEMMA EmitsStatement ==
  ASSUME IInv, phase = "emit", pc <= Len(tree[Emitted]), pc' = pc + 1,
         phase' \in {"emit", "crashed"},
         UNCHANGED <<step, scope, currentClass, errors, budget, tree>>,
         Follows(symbols', symbols, Current, Emitted, pc), AllTyped(symbols'),
         agreed' \in BOOLEAN, ResolutionAgrees'
  PROVE  IInv'
<1>1. TypeOK /\ Trees(tree) /\ AtEmit
  BY DEF IInv, Places
<1>2. /\ step' = step /\ scope' = scope /\ currentClass' = currentClass /\ errors' = errors
      /\ budget' = budget /\ tree' = tree
  OBVIOUS
<1>3. AllTyped(scope)
  BY <1>1, TypesNow
<1>4. Len(tree[Emitted]) \in Nat /\ pc \in 1 .. Len(tree[Emitted])
  BY EmitNow
<1>5. PICK at : Beside(Emitted, tree[Emitted], at, pc, symbols)
  BY EmitNow
<1>6. Follow(Emitted, tree[Emitted], pc + 1, symbols')
  <2> DEFINE b == Emitted
             c == Current
             p == pc
             g == symbols
             h == symbols'
             code == tree[Emitted]
             s == at[p - 1]
             t == at[p]
  <2>1. /\ Complete(b, code, at) /\ Matches(g, s)
        /\ Deep(s) /\ Sound(code[p], s) /\ Follows(t, s, code[p], b, p)
    BY <1>5 DEF Beside, Stepped
  <2>2. c = code[p] /\ Follows(h, g, c, b, p) /\ p \in Nat
    BY <1>4 DEF Current
  <2> HIDE DEF b, c, p, g, h, code, s, t
  <2>3. Matches(h, t)
    BY <2>1, <2>2, MatchesFollow
  <2>4. at[(p + 1) - 1] = t
    BY <2>2 DEF t
  <2>5. Follow(b, code, p + 1, h)
    BY <2>1, <2>3, <2>4 DEF Follow
  <2> QED
    BY <2>5 DEF b, code, p, h
<1>7. phase' = "emit" => AtEmit'
  <2>1. Emitted' = Emitted
    BY <1>2 DEF Emitted
  <2>2. pc + 1 \in 1 .. Len(tree[Emitted]) + 1
    BY <1>4
  <2> QED
    BY <1>1, <1>2, <1>6, <2>1, <2>2 DEF AtEmit
<1>8. TypeOK'
  <2>1. /\ phase' \in Phases /\ step' \in 0 .. Len(Checked) + Len(Classes)
        /\ currentClass' \in Range(Classes) \cup {NoClass} /\ errors' \in BOOLEAN
        /\ budget' \in 0 .. MaxStatements /\ Trees(tree') /\ AllTyped(scope')
    BY <1>1, <1>2, <1>3 DEF TypeOK, Phases
  <2> QED
    BY <2>1, TypesNext
<1> QED
  BY <1>1, <1>2, <1>7, <1>8 DEF IInv, Places

(* A name is found with its meaning or not at all.                         *)
LEMMA Resolves ==
  ASSUME IInv, NEW s, Deep(s), IsGlobal(s[1]), NEW g, Matches(g, s), NEW means, Meant(means, s),
         Resolve(g, means)
  PROVE  phase' \in {"emit", "crashed"} /\ agreed' \in BOOLEAN /\ ResolutionAgrees'
<1>1. /\ phase' = (IF \E x \in DOMAIN means : Meaning(g, DOMAIN means)[x] = <<>>
                   THEN "crashed" ELSE "emit")
      /\ agreed' = (agreed /\ \A x \in DOMAIN means :
                                Meaning(g, DOMAIN means)[x] \in {<<>>, means[x]})
  BY DEF Resolve
<1>2. phase' \in {"emit", "crashed"}
  BY <1>1
<1>3. agreed \in BOOLEAN /\ (Unambiguous => agreed)
  BY DEF IInv, TypeOK, ResolutionAgrees
<1>4. ASSUME Unambiguous, NEW x \in DOMAIN means
      PROVE  Meaning(g, DOMAIN means)[x] \in {<<>>, means[x]}
  <2>1. Declared(s, x) /\ means[x] = Lookup(s, x).at
    BY DEF Meant
  <2>2. Lookup(g, x).at \in {<<>>, Lookup(s, x).at}
    BY <1>4, <2>1, SameMeaning
  <2>3. Meaning(g, DOMAIN means)[x] = Lookup(g, x).at
    BY DEF Meaning
  <2> QED
    BY <2>1, <2>2, <2>3
<1>5. agreed' \in BOOLEAN
  BY <1>1, <1>3
<1>6. Unambiguous => agreed'
  BY <1>1, <1>3, <1>4
<1> QED
  BY <1>2, <1>5, <1>6 DEF ResolutionAgrees

LEMMA EmitsDeclare ==
  ASSUME IInv, EmitDeclare
  PROVE  IInv'
<1>1. /\ phase = "emit" /\ pc <= Len(tree[Emitted]) /\ Current.op = "declare" /\ pc' = pc + 1
      /\ UNCHANGED <<step, scope, currentClass, errors, budget, tree>>
      /\ symbols' = Define(symbols, Local(Current, Emitted, pc))
      /\ phase' = phase /\ agreed' = agreed
  BY DEF EmitDeclare, Emit, Local
<1>2. Stack(symbols) /\ AllTyped(symbols)
  BY <1>1, EmitNow
<1>3. PICK at : Beside(Emitted, tree[Emitted], at, pc, symbols)
  BY <1>1, EmitNow
<1>4. Known(Current.type)
  BY <1>1, <1>3 DEF Beside, Stepped, Sound, Current
<1>5. ScopeTyped(Local(Current, Emitted, pc))
  <2> DEFINE t == Current.type
             a == <<"local", Emitted, pc>>
             x == Current.name
  <2>1. ScopeTyped(One(x, Decl(t, a)))
    <3> HIDE DEF a, x
    <3> QED
      BY <1>4, OneTyped DEF Known
  <2> QED
    BY <2>1 DEF Local
<1>6. Defined(symbols', symbols, Local(Current, Emitted, pc)) /\ AllTyped(symbols')
  BY <1>1, <1>2, <1>5, DefineIs, DefineTyped
<1>7. Follows(symbols', symbols, Current, Emitted, pc)
  BY <1>1, <1>6 DEF Follows, Uses
<1>8. phase' \in {"emit", "crashed"} /\ agreed' \in BOOLEAN /\ ResolutionAgrees'
  BY <1>1 DEF IInv, TypeOK, ResolutionAgrees
<1> QED
  BY <1>1, <1>6, <1>7, <1>8, EmitsStatement

LEMMA EmitsIf ==
  ASSUME IInv, EmitIf
  PROVE  IInv'
<1>1. /\ phase = "emit" /\ pc <= Len(tree[Emitted]) /\ Current.op = "if" /\ pc' = pc + 1
      /\ UNCHANGED <<step, scope, currentClass, errors, budget, tree>>
      /\ symbols' = Push(symbols) /\ phase' = phase /\ agreed' = agreed
  BY DEF EmitIf, Emit
<1>2. Stack(symbols) /\ AllTyped(symbols)
  BY <1>1, EmitNow
<1>3. Pushed(symbols', symbols) /\ AllTyped(symbols')
  BY <1>1, <1>2, PushIs, PushTyped
<1>4. Follows(symbols', symbols, Current, Emitted, pc)
  BY <1>1, <1>3 DEF Follows, Uses
<1>5. phase' \in {"emit", "crashed"} /\ agreed' \in BOOLEAN /\ ResolutionAgrees'
  BY <1>1 DEF IInv, TypeOK, ResolutionAgrees
<1> QED
  BY <1>1, <1>3, <1>4, <1>5, EmitsStatement

LEMMA EmitsUse ==
  ASSUME IInv, EmitUse
  PROVE  IInv'
<1>1. /\ phase = "emit" /\ pc <= Len(tree[Emitted]) /\ Current.op \in Uses /\ pc' = pc + 1
      /\ UNCHANGED <<step, scope, currentClass, errors, budget, tree>>
      /\ symbols' = symbols /\ Resolve(symbols, Current.means)
  BY DEF EmitUse, Emit, Uses
<1>2. Stack(symbols) /\ AllTyped(symbols)
  BY <1>1, EmitNow
<1>3. PICK at : Beside(Emitted, tree[Emitted], at, pc, symbols)
  BY <1>1, EmitNow
<1>4. Meant(Current.means, at[pc - 1])
  BY <1>1, <1>3 DEF Beside, Stepped, Sound, Current
<1>5. Deep(at[pc - 1]) /\ IsGlobal(at[pc - 1][1]) /\ Matches(symbols, at[pc - 1])
  BY <1>3 DEF Beside, Stepped
<1>6. phase' \in {"emit", "crashed"} /\ agreed' \in BOOLEAN /\ ResolutionAgrees'
  <2> DEFINE s == at[pc - 1]
             g == symbols
             means == Current.means
  <2>1. Deep(s) /\ IsGlobal(s[1]) /\ Matches(g, s) /\ Meant(means, s) /\ Resolve(g, means)
    BY <1>1, <1>4, <1>5
  <2> HIDE DEF s, g, means
  <2> QED
    BY <2>1, Resolves
<1>7. Follows(symbols', symbols, Current, Emitted, pc)
  BY <1>1 DEF Follows, Uses
<1> QED
  BY <1>1, <1>2, <1>6, <1>7, EmitsStatement

LEMMA EmitsEnd ==
  ASSUME IInv, EmitEnd
  PROVE  IInv'
<1>1. /\ phase = "emit" /\ pc <= Len(tree[Emitted]) /\ Current.op = "end" /\ pc' = pc + 1
      /\ UNCHANGED <<step, scope, currentClass, errors, budget, tree>>
      /\ symbols' = Pop(symbols) /\ Resolve(symbols', Opener.means)
  BY DEF EmitEnd, Emit
<1>2. /\ Stack(symbols) /\ Len(symbols) >= 2 /\ AllTyped(symbols)
      /\ Len(tree[Emitted]) \in Nat /\ pc \in 1 .. Len(tree[Emitted])
  BY <1>1, EmitNow
<1>3. PICK at : Beside(Emitted, tree[Emitted], at, pc, symbols)
  BY <1>1, EmitNow
<1>4. Uncovered(symbols', symbols) /\ AllTyped(symbols')
  BY <1>1, <1>2, PopIs, PopTyped
<1>5. Follows(symbols', symbols, Current, Emitted, pc)
  BY <1>1, <1>4 DEF Follows, Uses
<1> DEFINE b == Emitted
           code == tree[Emitted]
           p == pc
           g == symbols
           h == symbols'
           s == at[p - 1]
           t == at[p]
           o == OpenerOf(code, p)
<1>6. Opener = code[o]
  BY DEF Opener, OpenerOf, Count
<1>7. /\ History(b, code, at) /\ Matches(g, s) /\ Deep(s) /\ Deep(t) /\ IsGlobal(t[1])
      /\ Sound(code[p], s) /\ Follows(t, s, code[p], b, p)
      /\ Follows(h, g, code[p], b, p) /\ Len(code) \in Nat /\ p \in 1 .. Len(code)
      /\ code[p].op = "end"
  BY <1>1, <1>2, <1>3, <1>5 DEF Beside, Complete, Stepped, Current
<1> HIDE DEF b, code, p, g, h, s, t
<1>8. Matches(h, t)
  BY <1>7, MatchesFollow
<1>9. o \in 1 .. Len(code) /\ code[o].op = "if" /\ at[o - 1] = t
  <2>1. IsOpener(code, at, p, OpenerOf(code, p))
    BY <1>7, OpenerIs
  <2> QED
    BY <2>1 DEF IsOpener, t
<1> HIDE DEF o
<1>10. Meant(code[o].means, t)
  <2>1. Stepped(b, code, at, o)
    BY <1>7, <1>9, HistoryStep
  <2>2. Sound(code[o], at[o - 1])
    BY <2>1 DEF Stepped
  <2> QED
    BY <1>9, <2>2 DEF Sound
<1>11. Resolve(h, code[o].means)
  BY <1>1, <1>6 DEF h
<1>12. phase' \in {"emit", "crashed"} /\ agreed' \in BOOLEAN /\ ResolutionAgrees'
  <2> DEFINE means == code[o].means
  <2>1. Meant(means, t) /\ Resolve(h, means)
    BY <1>10, <1>11
  <2> HIDE DEF means
  <2> QED
    BY <1>7, <1>8, <2>1, Resolves
<1> QED
  BY <1>1, <1>4, <1>5, <1>12, EmitsStatement

LEMMA EndsEmit ==
  ASSUME IInv, EndEmit
  PROVE  IInv'
<1>1. /\ TypeOK /\ Trees(tree) /\ AtEmit /\ ResolutionAgrees
      /\ phase' = "generate" /\ pc > Len(tree[Emitted]) /\ step' = step + 1
      /\ symbols' = Pop(symbols)
      /\ scope' = scope /\ currentClass' = currentClass /\ errors' = errors
      /\ budget' = budget /\ tree' = tree /\ agreed' = agreed
  BY DEF IInv, Places, EndEmit
<1>2. AllTyped(scope) /\ AllTyped(symbols)
  BY <1>1, TypesNow
<1>3. Len(tree[Emitted]) \in Nat
  BY <1>1, EmittedIs DEF AtEmit
<1>4. pc = Len(tree[Emitted]) + 1 /\ pc - 1 = Len(tree[Emitted])
  BY <1>1, <1>3 DEF AtEmit
<1>5. PICK at : Complete(Emitted, tree[Emitted], at) /\ Matches(symbols, at[pc - 1])
  BY <1>1 DEF AtEmit, Follow
<1>6. Stack(symbols) /\ Len(symbols) = 2 /\ Len(symbols) >= 2 /\ Outer(symbols[1], Len(Functions))
  <2>1. Stack(symbols) /\ Len(symbols) = 2 /\ Outer(symbols[1], Len(Functions))
    BY <1>4, <1>5 DEF Complete, Matches
  <2> QED
    BY <2>1
<1>7. Uncovered(symbols', symbols) /\ AllTyped(symbols')
  BY <1>1, <1>2, <1>6, PopIs, PopTyped
<1>8. Outermost(symbols') /\ symbols'[1] = symbols[1]
  <2>1. Len(symbols) - 1 = 1 /\ 1 \in 1 .. Len(symbols) - 1
    BY <1>6
  <2> QED
    BY <1>7, <2>1 DEF Uncovered, Outermost
<1>9. step + 1 \in 0 .. Len(Checked)
  BY <1>1, BodyLists DEF AtEmit
<1>10. AtGenerate'
  BY <1>1, <1>6, <1>8, <1>9 DEF AtEmit, AtGenerate
<1>11. TypeOK'
  <2>1. /\ phase' \in Phases /\ step' \in 0 .. Len(Checked) + Len(Classes)
        /\ currentClass' \in Range(Classes) \cup {NoClass} /\ errors' \in BOOLEAN
        /\ budget' \in 0 .. MaxStatements /\ Trees(tree') /\ agreed' \in BOOLEAN
        /\ AllTyped(scope')
    BY <1>1, <1>2, <1>9, Steps DEF TypeOK, Phases
  <2> QED
    BY <1>7, <2>1, TypesNext
<1> QED
  BY <1>1, <1>10, <1>11 DEF IInv, Places, ResolutionAgrees

LEMMA Stays ==
  ASSUME IInv, UNCHANGED vars
  PROVE  IInv'
  BY DEF IInv, TypeOK, Places, AtFunctions, AtClasses, AtBodies, AtBody, AtChecked, AtForward,
         AtGenerate, AtEmit, Body, Emitted, ResolutionAgrees, vars

-----------------------------------------------------------------------------

LEMMA EveryStep ==
  ASSUME IInv, [Next]_vars
  PROVE  IInv'
<1>1. CASE Analyse
  <2>1. ASSUME NEW x \in Variable, NEW t \in VarType, Declare(x, t) \/ DeclareStray(x, t)
        PROVE  IInv'
    BY <2>1, Declares, DeclaresStray
  <2>2. ASSUME NEW x \in Variable, NEW e \in Expr, Assign(x, e) PROVE IInv'
    BY <2>2, Assigns
  <2>3. ASSUME NEW e \in Expr, Call(e) \/ Return(e) \/ BeginIf(e) PROVE IInv'
    BY <2>3, Calls, Returns, BeginsIf
  <2> QED
    BY <1>1, <2>1, <2>2, <2>3, DefinesFunction, EndsFunctions, VisitsClass, EndsClasses,
       EntersBody, EndsBody, EndsBodies, EndsIf DEF Analyse
<1>2. CASE DecideToGenerate
  BY <1>2, DecidesToGenerate
<1>3. CASE Generate
  BY <1>3, ForwardDeclares, BeginsGenerating, BeginsEmit, EmitsDeclare, EmitsUse, EmitsIf,
     EmitsEnd, EndsEmit, EndsGenerating DEF Generate
<1>4. CASE Stopped \/ UNCHANGED vars
  BY <1>4, Stays DEF Stopped
<1> QED
  BY <1>1, <1>2, <1>3, <1>4 DEF Next

LEMMA PlacesHold == Spec => []IInv
<1>1. Init => IInv
  BY InitPlaces
<1>2. IInv /\ [Next]_vars => IInv'
  BY EveryStep
<1> QED
  BY <1>1, <1>2, PTL DEF Spec

(* The scopes of both visitors have types that are known, and the tree     *)
(* between them has a list of statements for every body.                   *)
THEOREM ScopesAreTyped == Spec => []TypeOK
<1>1. IInv => TypeOK
  BY DEF IInv
<1> QED
  BY <1>1, PlacesHold, PTL

(* What a name meant when the semantic pass accepted the program it means  *)
(* to the generator, or nothing (sempass.cpp, LLVMCodeGenerator.cpp).      *)
THEOREM NamesKeepTheirMeaning == Spec => []ResolutionAgrees
<1>1. IInv => ResolutionAgrees
  BY DEF IInv
<1> QED
  BY <1>1, PlacesHold, PTL

=============================================================================
