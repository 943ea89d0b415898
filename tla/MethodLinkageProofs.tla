------------------------ MODULE MethodLinkageProofs ------------------------
(***************************************************************************)
(* The functions of the LLVM module, for any classes, methods and          *)
(* functions of a program and any order in which code for them is          *)
(* generated: a name that is asked for once has one function with one      *)
(* body, every vtable entry has the method it was declared for, and a call *)
(* finds its function when the module has a reason to have it.             *)
(***************************************************************************)
EXTENDS MethodLinkage, FiniteSetTheorems, Induction

Method == [name : STRING, result : STRING]

(* The program, which no step changes.                                     *)
Program ==
  /\ classes \in [1 .. Cardinality(Class) -> Class]
  /\ Range(classes) = Class
  /\ methods \in [Class -> Seq(Method)]

-----------------------------------------------------------------------------
(* The bodies.                                                             *)

(* How far the list of bodies has come after the first i classes.          *)
Listed(s, i) ==
  /\ s \in Seq([class : {None}, method : STRING] \cup [class : Class, method : Method])
  /\ Len(s) >= Len(Functions)
  /\ \A j \in 1 .. Len(Functions) : s[j] = [class |-> None, method |-> Functions[j]]
  /\ \A j \in 1 .. Len(s) : j > Len(Functions) =>
       \E c \in Class : \E m \in Range(methods[c]) : s[j] = [class |-> c, method |-> m]
  /\ \A k \in 1 .. i : \A m \in Range(methods[classes[k]]) :
       \E j \in 1 .. Len(s) : j > Len(Functions) /\ s[j] = [class |-> classes[k], method |-> m]

LEMMA FunctionsListed ==
  ASSUME Program
  PROVE  Listed([j \in DOMAIN Functions |-> [class |-> None, method |-> Functions[j]]], 0)
<1> DEFINE n == Len(Functions)
           U == [class : {None}, method : STRING] \cup [class : Class, method : Method]
           s == [j \in DOMAIN Functions |-> [class |-> None, method |-> Functions[j]]]
<1>1. n \in Nat /\ DOMAIN Functions = 1 .. n /\ \A j \in 1 .. n : Functions[j] \in STRING
  BY FunctionsTyped, LenProperties, ElementOfSeq
<1>2. \A j \in 1 .. n : s[j] = [class |-> None, method |-> Functions[j]] /\ s[j] \in U
  BY <1>1
<1>3. DOMAIN s = 1 .. n
  BY <1>1
<1> HIDE DEF n, s, U
<1>4. s \in Seq(U) /\ Len(s) = n
  <2>1. s = [j \in 1 .. n |-> s[j]]
    BY <1>3 DEF s
  <2>2. s \in [1 .. n -> U]
    BY <1>2, <2>1
  <2> QED
    BY <1>1, <2>2
<1>5. n >= n /\ (\A j \in 1 .. n : ~ j > n) /\ 1 .. 0 = {}
  BY <1>1
<1> QED
  BY <1>2, <1>4, <1>5 DEF Listed, n, s, U

(* The methods of a class are appended to it.                              *)
LEMMA MethodsListed ==
  ASSUME Program, NEW i \in Nat, i + 1 <= Len(classes), NEW s, Listed(s, i)
  PROVE  Listed(s \o MethodBodies(classes[i + 1]), i + 1)
<1> DEFINE U == [class : {None}, method : STRING] \cup [class : Class, method : Method]
           c == classes[i + 1]
           t == MethodBodies(c)
           n == Len(s)
           p == Len(methods[c])
           f == Len(Functions)
<1>1. c \in Class /\ methods[c] \in Seq(Method)
  <2>1. Cardinality(Class) \in Nat
    BY FinitelyManyClasses, FS_CardinalityType
  <2>2. Len(classes) = Cardinality(Class)
    BY <2>1 DEF Program
  <2>3. i + 1 \in 1 .. Cardinality(Class)
    BY <2>1, <2>2
  <2> QED
    BY <2>3 DEF Program
<1>2. /\ p \in Nat /\ DOMAIN methods[c] = 1 .. p
      /\ \A j \in 1 .. p : methods[c][j] \in Method
  BY <1>1, LenProperties, ElementOfSeq
<1>3. n \in Nat /\ f \in Nat /\ n >= f /\ s \in Seq(U)
  BY FunctionsTyped, LenProperties DEF Listed
<1>4. t \in Seq(U) /\ Len(t) = p /\ \A j \in 1 .. p : t[j] = [class |-> c, method |-> methods[c][j]]
  <2>1. \A j \in 1 .. p : [class |-> c, method |-> methods[c][j]] \in U
    BY <1>1, <1>2
  <2>2. t = [j \in 1 .. p |-> [class |-> c, method |-> methods[c][j]]]
    BY <1>2 DEF MethodBodies
  <2> HIDE DEF t, U, p
  <2>3. t \in [1 .. p -> U]
    BY <2>1, <2>2
  <2> QED
    BY <1>2, <2>2, <2>3
<1>5. Range(methods[c]) = {methods[c][j] : j \in 1 .. p}
  BY <1>2 DEF Range
<1> DEFINE st == s \o t
<1> HIDE DEF t, U, p, n, f
<1>6. /\ st \in Seq(U) /\ Len(st) = n + p
      /\ \A j \in 1 .. n + p : st[j] = IF j <= n THEN s[j] ELSE t[j - n]
  <2>1. s \in Seq(U) /\ t \in Seq(U) /\ Len(s) = n /\ Len(t) = p
    BY <1>3, <1>4 DEF n
  <2> HIDE DEF st
  <2>2. /\ st \in Seq(U) /\ Len(st) = Len(s) + Len(t)
        /\ \A j \in 1 .. Len(s) + Len(t) : st[j] = IF j <= Len(s) THEN s[j] ELSE t[j - Len(s)]
    BY <2>1, ConcatProperties DEF st
  <2> QED
    BY <2>1, <2>2
<1> HIDE DEF st
<1>7. n + p \in Nat /\ n + p >= f
  BY <1>2, <1>3
<1>8. \A j \in 1 .. f : st[j] = [class |-> None, method |-> Functions[j]]
  <2> TAKE j \in 1 .. f
  <2>1. j \in 1 .. n + p /\ j <= n
    BY <1>2, <1>3
  <2>2. s[j] = [class |-> None, method |-> Functions[j]]
    BY DEF Listed, f
  <2> QED
    BY <1>6, <2>1, <2>2
<1>9. ASSUME NEW j \in 1 .. n + p, j > f
      PROVE  \E d \in Class : \E m \in Range(methods[d]) : st[j] = [class |-> d, method |-> m]
  <2>1. CASE j <= n
    <3>1. j \in 1 .. n /\ st[j] = s[j]
      BY <1>3, <1>6, <2>1
    <3>2. \A l \in 1 .. n : l > f =>
            \E d \in Class : \E m \in Range(methods[d]) : s[l] = [class |-> d, method |-> m]
      BY Zenon DEF Listed, n, f
    <3> QED
      BY <1>9, <3>1, <3>2
  <2>2. CASE ~ j <= n
    <3>1. j - n \in 1 .. p /\ st[j] = t[j - n]
      BY <1>2, <1>3, <1>6, <2>2
    <3>2. methods[c][j - n] \in Range(methods[c])
      BY <1>5, <3>1
    <3> QED
      BY <1>1, <1>4, <3>1, <3>2
  <2> QED
    BY <2>1, <2>2
<1>10. ASSUME NEW k \in 1 .. i + 1, NEW m \in Range(methods[classes[k]])
       PROVE  \E j \in 1 .. n + p : j > f /\ st[j] = [class |-> classes[k], method |-> m]
  <2>1. CASE k = i + 1
    <3>1. PICK q \in 1 .. p : m = methods[c][q]
      BY <1>5, <2>1
    <3>2. /\ n + q \in 1 .. n + p /\ ~ (n + q <= n) /\ (n + q) - n = q
          /\ n + q > f
      BY <1>2, <1>3
    <3>3. st[n + q] = t[q]
      BY <1>6, <3>2
    <3> QED
      BY <1>4, <2>1, <3>1, <3>2, <3>3
  <2>2. CASE k # i + 1
    <3>1. k \in 1 .. i
      BY <2>2
    <3>2. PICK j \in 1 .. n : j > f /\ s[j] = [class |-> classes[k], method |-> m]
      BY <3>1 DEF Listed, n, f
    <3>3. j \in 1 .. n + p /\ j <= n
      BY <1>2, <1>3
    <3>4. st[j] = s[j]
      BY <1>6, <3>3
    <3> QED
      BY <3>2, <3>3, <3>4
  <2> QED
    BY <2>1, <2>2
<1>11. Listed(st, i + 1)
  <2>1. 1 .. Len(st) = 1 .. n + p
    BY <1>6
  <2>2. Len(st) >= Len(Functions) /\ st \in Seq(U)
    BY <1>6, <1>7 DEF f
  <2>3. \A j \in 1 .. Len(st) : j > f =>
          \E d \in Class : \E m \in Range(methods[d]) : st[j] = [class |-> d, method |-> m]
    BY <1>9, <2>1
  <2>4. ASSUME NEW k \in 1 .. i + 1, NEW m \in Range(methods[classes[k]])
        PROVE  \E j \in 1 .. Len(st) : j > f /\ st[j] = [class |-> classes[k], method |-> m]
    <3>1. PICK j \in 1 .. n + p : j > f /\ st[j] = [class |-> classes[k], method |-> m]
      BY <1>10, Zenon
    <3> QED
      BY <2>1, <3>1, Zenon
  <2> QED
    BY <1>8, <2>2, <2>3, <2>4, Zenon DEF Listed, U, f
<1>12. st = s \o MethodBodies(classes[i + 1])
  BY DEF st, t
<1> QED
  BY <1>11, <1>12

(* The functions come first, then there is one body for every method.      *)
BodiesListed ==
  /\ Len(Bodies) \in Nat /\ Len(Functions) \in Nat /\ Len(Functions) <= Len(Bodies)
  /\ DOMAIN Bodies = 1 .. Len(Bodies)
  /\ Bodies \in Seq([class : {None}, method : STRING] \cup [class : Class, method : Method])
  /\ \A i \in 1 .. Len(Functions) : Bodies[i] = [class |-> None, method |-> Functions[i]]
  /\ \A i \in 1 .. Len(Bodies) : i > Len(Functions) =>
       \E c \in Class : \E m \in Range(methods[c]) : Bodies[i] = [class |-> c, method |-> m]
  /\ \A c \in Class : \A m \in Range(methods[c]) :
       \E i \in 1 .. Len(Bodies) : i > Len(Functions) /\ Bodies[i] = [class |-> c, method |-> m]

LEMMA BodiesAre == Program => BodiesListed
<1> SUFFICES ASSUME Program PROVE BodiesListed
  OBVIOUS
<1> DEFINE n == Len(classes)
           base == [j \in DOMAIN Functions |-> [class |-> None, method |-> Functions[j]]]
           Loop(f, k) == f = [i \in 0 .. k |-> IF i = 0 THEN base
                                               ELSE f[i - 1] \o MethodBodies(classes[i])]
           T == {k \in Nat : \E f : Loop(f, k)}
           up == CHOOSE f : Loop(f, n)
<1>1. Cardinality(Class) \in Nat /\ n = Cardinality(Class)
  <2>1. Cardinality(Class) \in Nat
    BY FinitelyManyClasses, FS_CardinalityType
  <2> QED
    BY <2>1 DEF Program
<1> HIDE DEF n, base
<1>2. 0 \in T
  <2> DEFINE f == [i \in 0 .. 0 |-> base]
  <2>1. Loop(f, 0)
    OBVIOUS
  <2> HIDE DEF f, Loop
  <2> QED
    BY <2>1
<1>3. ASSUME NEW k \in Nat, k \in T PROVE k + 1 \in T
  <2>1. PICK f : Loop(f, k)
    BY <1>3
  <2> DEFINE h == [i \in 0 .. k + 1 |-> IF i = k + 1 THEN f[k] \o MethodBodies(classes[i]) ELSE f[i]]
  <2>2. ASSUME NEW i \in 0 .. k + 1
        PROVE  h[i] = IF i = 0 THEN base ELSE h[i - 1] \o MethodBodies(classes[i])
    <3>1. CASE i = k + 1
      <4>1. i # 0 /\ i - 1 = k /\ k \in 0 .. k + 1 /\ k # k + 1
        BY <3>1
      <4>2. h[i] = f[k] \o MethodBodies(classes[i]) /\ h[k] = f[k]
        BY <3>1, <4>1
      <4> QED
        BY <4>1, <4>2
    <3>2. CASE i # k + 1
      <4>1. i \in 0 .. k /\ (i # 0 => i - 1 \in 0 .. k + 1 /\ i - 1 # k + 1)
        BY <3>2
      <4>2. h[i] = f[i] /\ (i # 0 => h[i - 1] = f[i - 1])
        BY <3>2, <4>1
      <4>3. f[i] = IF i = 0 THEN base ELSE f[i - 1] \o MethodBodies(classes[i])
        BY <2>1, <4>1
      <4> QED
        BY <4>2, <4>3
    <3> QED
      BY <3>1, <3>2
  <2>3. Loop(h, k + 1)
    <3>1. h = [i \in 0 .. k + 1 |-> h[i]]
      OBVIOUS
    <3> HIDE DEF h
    <3> QED
      BY <2>2, <3>1
  <2> HIDE DEF h, Loop
  <2> QED
    BY <2>3
<1>4. Loop(up, n)
  <2>1. Nat \subseteq T
    <3> HIDE DEF T
    <3> QED
      BY <1>2, <1>3, SetInduction
  <2>2. \E f : Loop(f, n)
    BY <1>1, <2>1
  <2> HIDE DEF Loop
  <2> QED
    BY <2>2
<1>5. Bodies = up[n]
  BY DEF Bodies, n, base
<1> HIDE DEF up
<1>6. up[0] = base /\ \A i \in 1 .. n : up[i] = up[i - 1] \o MethodBodies(classes[i])
  BY <1>1, <1>4
<1> DEFINE S == {i \in Nat : i <= n => Listed(up[i], i)}
<1>7. 0 \in S
  BY <1>6, FunctionsListed DEF base
<1>8. ASSUME NEW i \in Nat, i \in S PROVE i + 1 \in S
  <2> SUFFICES ASSUME i + 1 <= n PROVE Listed(up[i + 1], i + 1)
    OBVIOUS
  <2>1. Listed(up[i], i) /\ i + 1 \in 1 .. n /\ (i + 1) - 1 = i
    BY <1>1, <1>8
  <2>2. up[i + 1] = up[i] \o MethodBodies(classes[i + 1])
    BY <1>6, <2>1
  <2>3. Listed(up[i] \o MethodBodies(classes[i + 1]), i + 1)
    BY <2>1, MethodsListed DEF n
  <2> QED
    BY <2>2, <2>3
<1>9. Listed(Bodies, n)
  <2>1. Nat \subseteq S
    <3> HIDE DEF S
    <3> QED
      BY <1>7, <1>8, SetInduction
  <2> QED
    BY <1>1, <1>5, <2>1
<1>10. ASSUME NEW c \in Class PROVE \E k \in 1 .. n : c = classes[k]
  BY <1>1 DEF Program, Range
<1>11. Len(Bodies) \in Nat /\ DOMAIN Bodies = 1 .. Len(Bodies) /\ Len(Functions) \in Nat
  <2>1. Bodies \in Seq([class : {None}, method : STRING] \cup [class : Class, method : Method])
    BY <1>9 DEF Listed
  <2> QED
    BY <2>1, FunctionsTyped, LenProperties
<1>12. Len(Functions) <= Len(Bodies)
  <2>1. Len(Bodies) >= Len(Functions)
    BY <1>9 DEF Listed
  <2> QED
    BY <1>11, <2>1
<1>13. ASSUME NEW c \in Class, NEW m \in Range(methods[c])
       PROVE  \E i \in 1 .. Len(Bodies) : i > Len(Functions) /\ Bodies[i] = [class |-> c, method |-> m]
  <2>1. PICK k \in 1 .. n : c = classes[k]
    BY <1>10
  <2>2. \A d \in Range(methods[classes[k]]) :
          \E i \in 1 .. Len(Bodies) : i > Len(Functions) /\ Bodies[i] = [class |-> classes[k], method |-> d]
    BY <1>9, Zenon DEF Listed
  <2> QED
    BY <2>1, <2>2, Zenon
<1>14. \A i \in 1 .. Len(Functions) : Bodies[i] = [class |-> None, method |-> Functions[i]]
  BY <1>9, Zenon DEF Listed
<1>15. \A i \in 1 .. Len(Bodies) : i > Len(Functions) =>
         \E c \in Class : \E m \in Range(methods[c]) : Bodies[i] = [class |-> c, method |-> m]
  BY <1>9, Zenon DEF Listed
<1>16. Bodies \in Seq([class : {None}, method : STRING] \cup [class : Class, method : Method])
  BY <1>9 DEF Listed
<1> QED
  BY <1>11, <1>12, <1>13, <1>14, <1>15, <1>16, Zenon DEF BodiesListed

-----------------------------------------------------------------------------
(* Names and who claims them.                                              *)

TypeOf(body) == IF body.class = None THEN FunctionType(body.method)
                ELSE TypeOfMethod(body.class, body.method)

BodyClaim(i) == [name |-> NameOf(Bodies[i]), for |-> "body", of |-> i]
MadeClaim(c, m) == [name |-> SymbolName(c, m), for |-> m, of |-> c]

(* Claims are those of bodies and those of init and kill functions.        *)
LEMMA ClaimsAre ==
  ASSUME BodiesListed
  PROVE  /\ \A i \in 1 .. Len(Bodies) : BodyClaim(i) \in Claims
         /\ \A c \in CacheOwners : MadeClaim(c, "init") \in Claims /\ MadeClaim(c, "kill") \in Claims
         /\ \A p \in Claims :
              \/ \E i \in 1 .. Len(Bodies) : p = BodyClaim(i)
              \/ \E c \in CacheOwners : p = MadeClaim(c, "init") \/ p = MadeClaim(c, "kill")
<1>1. DOMAIN Bodies = 1 .. Len(Bodies)
  BY DEF BodiesListed
<1>2. \A i \in 1 .. Len(Bodies) : BodyClaim(i) \in Claims
  <2> TAKE i \in 1 .. Len(Bodies)
  <2> QED
    BY <1>1 DEF Claims, BodyClaim
<1>3. \A c \in CacheOwners, m \in RootMethods : MadeClaim(c, m) \in Claims
  <2> TAKE c \in CacheOwners, m \in RootMethods
  <2>1. MadeClaim(c, m) \in {[name |-> SymbolName(a, b), for |-> b, of |-> a] : a \in CacheOwners, b \in RootMethods}
    BY DEF MadeClaim
  <2> QED
    BY <2>1 DEF Claims
<1>4. "init" \in RootMethods /\ "kill" \in RootMethods
  BY DEF RootMethods
<1>5. ASSUME NEW p \in Claims
      PROVE  \/ \E i \in 1 .. Len(Bodies) : p = BodyClaim(i)
             \/ \E c \in CacheOwners : p = MadeClaim(c, "init") \/ p = MadeClaim(c, "kill")
  <2>1. \/ \E i \in DOMAIN Bodies : p = BodyClaim(i)
        \/ \E c \in CacheOwners, m \in RootMethods : p = MadeClaim(c, m)
    BY <1>5 DEF Claims, BodyClaim, MadeClaim
  <2>2. \A m \in RootMethods : m = "init" \/ m = "kill"
    BY DEF RootMethods
  <2> QED
    BY <1>1, <2>1, <2>2, Zenon
<1> QED
  BY <1>2, <1>3, <1>4, <1>5, Zenon

(* Two claims to a name that is not contested are the same.                *)
LEMMA OneClaim ==
  ASSUME NEW p \in Claims, NEW q \in Claims, p.name = q.name, ~ Contested(p.name)
  PROVE  p = q
  BY DEF Contested

(* The number of a copy is the least that is free.                         *)
LEMMA CopyIs ==
  ASSUME NEW g, IsFiniteSet(DOMAIN g.module), NEW name
  PROVE  /\ Copy(g, name) \in Nat /\ <<name, Copy(g, name)>> \notin DOMAIN g.module
         /\ Copy(g, name) # 0 => <<name, 0>> \in DOMAIN g.module
<1> DEFINE T == DOMAIN g.module
           n == Cardinality(T)
           f == [k \in 0 .. n |-> <<name, k>>]
           Free == {k \in 0 .. n : <<name, k>> \notin T}
<1>1. n \in Nat
  BY FS_CardinalityType
<1>2. Free # {}
  <2> SUFFICES ASSUME Free = {} PROVE FALSE
    OBVIOUS
  <2>1. f \in [0 .. n -> T]
    OBVIOUS
  <2>2. \A j, k \in 0 .. n : f[j] = f[k] => j = k
    OBVIOUS
  <2>3. IsFiniteSet(0 .. n) /\ Cardinality(0 .. n) = n + 1
    BY <1>1, FS_Interval
  <2>4. n < Cardinality(0 .. n)
    BY <1>1, <2>3
  <2>5. IsFiniteSet(T) /\ Cardinality(T) < Cardinality(0 .. n)
    BY <2>4
  <2> HIDE DEF f, n, T
  <2>6. \E j, k \in 0 .. n : j # k /\ f[j] = f[k]
    <3> DEFINE S == 0 .. n
    <3>1. IsFiniteSet(S) /\ IsFiniteSet(T) /\ Cardinality(T) < Cardinality(S) /\ f \in [S -> T]
      BY <2>1, <2>3, <2>5
    <3> HIDE DEF S, Free
    <3>2. \E j, k \in S : j # k /\ f[j] = f[k]
      BY <3>1, FS_PigeonHole
    <3> QED
      BY <3>2 DEF S
  <2> QED
    BY <2>2, <2>6
<1>3. Free \subseteq Nat
  BY <1>1
<1>4. Copy(g, name) = Min(Free)
  BY DEF Copy
<1>5. Min(Free) \in Free /\ \A k \in Free : Min(Free) <= k
  <2>1. \E k \in Free : \A m \in Free : k <= m
    <3> HIDE DEF Free
    <3> QED
      BY <1>2, <1>3, Least
  <2> HIDE DEF Free
  <2> QED
    BY <2>1 DEF Min
<1>6. <<name, 0>> \notin T => 0 \in Free
  BY <1>1
<1>7. 0 \in Free => Min(Free) = 0
  <2> DEFINE x == Min(Free)
  <2>1. x \in Nat /\ \A k \in Free : x <= k
    BY <1>3, <1>5
  <2> HIDE DEF x, Free
  <2>2. 0 \in Free => x = 0
    BY <2>1
  <2> QED
    BY <2>2 DEF x
<1>8. Min(Free) \in Nat /\ <<name, Min(Free)>> \notin T
  BY <1>3, <1>5
<1> HIDE DEF Free
<1> QED
  BY <1>4, <1>6, <1>7, <1>8

-----------------------------------------------------------------------------
(* The generator's record of the module and the caches.                    *)

Shape(g) == g = [module |-> g.module, init |-> g.init, kill |-> g.kill, defined |-> g.defined]

(* h has every function and every class definition that g has.             *)
Grown(h, g) ==
  /\ DOMAIN g.module \subseteq DOMAIN h.module
  /\ \A c \in CacheOwners : /\ g.init[c] # None => h.init[c] = g.init[c]
                            /\ g.kill[c] # None => h.kill[c] = g.kill[c]
  /\ g.defined \subseteq h.defined

LEMMA GrownTwice ==
  ASSUME NEW f, NEW g, NEW h, Grown(g, f), Grown(h, g)
  PROVE  Grown(h, f)
<1>1. DOMAIN f.module \subseteq DOMAIN h.module
  BY DEF Grown
<1>2. \A c \in CacheOwners : /\ f.init[c] # None => h.init[c] = f.init[c]
                             /\ f.kill[c] # None => h.kill[c] = f.kill[c]
  BY DEF Grown
<1>3. f.defined \subseteq h.defined
  BY DEF Grown
<1> QED
  BY <1>1, <1>2, <1>3 DEF Grown

LEMMA GrownSame == ASSUME NEW g PROVE Grown(g, g)
  BY DEF Grown

(* A function that is put into the module.                                 *)
LEMMA WithIs ==
  ASSUME NEW g, Shape(g), NEW key, NEW type, NEW bodies
  PROVE  LET h == With(g, key, type, bodies)
         IN  /\ Shape(h) /\ h.init = g.init /\ h.kill = g.kill /\ h.defined = g.defined
             /\ DOMAIN h.module = DOMAIN g.module \cup {key}
             /\ h.module[key] = [type |-> type, bodies |-> bodies]
             /\ \A k \in DOMAIN g.module : k # key => h.module[k] = g.module[k]
<1> DEFINE m == [k \in DOMAIN g.module \cup {key} |->
                   IF k = key THEN [type |-> type, bodies |-> bodies] ELSE g.module[k]]
           h == [g EXCEPT !.module = m]
<1>1. With(g, key, type, bodies) = h
  BY DEF With
<1>2. h = [module |-> m, init |-> g.init, kill |-> g.kill, defined |-> g.defined]
  <2> HIDE DEF m
  <2> QED
    BY DEF Shape
<1>3. h.module = m /\ h.init = g.init /\ h.kill = g.kill /\ h.defined = g.defined /\ Shape(h)
  <2> HIDE DEF m, h
  <2> QED
    BY <1>2 DEF Shape
<1>4. /\ DOMAIN m = DOMAIN g.module \cup {key}
      /\ m[key] = [type |-> type, bodies |-> bodies]
      /\ \A k \in DOMAIN g.module : k # key => m[k] = g.module[k]
  OBVIOUS
<1> HIDE DEF m, h
<1> QED
  BY <1>1, <1>3, <1>4

-----------------------------------------------------------------------------
(* What holds of the module and the caches while code is generated.        *)

(* The function of a claim when b bodies have been begun.                  *)
Contents(b, p) ==
  CASE p.for = "body" -> [type |-> TypeOf(Bodies[p.of]), bodies |-> IF p.of <= b THEN 1 ELSE 0]
    [] p.for = "init" -> [type |-> InitType(p.of), bodies |-> BodyOf(p.of)]
    [] p.for = "kill" -> [type |-> KillType, bodies |-> BodyOf(p.of)]

LEMMA ContentsAre ==
  ASSUME NEW b
  PROVE  /\ \A i : Contents(b, BodyClaim(i)) =
                     [type |-> TypeOf(Bodies[i]), bodies |-> IF i <= b THEN 1 ELSE 0]
         /\ \A c : /\ Contents(b, MadeClaim(c, "init")) = [type |-> InitType(c), bodies |-> BodyOf(c)]
                   /\ Contents(b, MadeClaim(c, "kill")) = [type |-> KillType, bodies |-> BodyOf(c)]
  BY DEF Contents, BodyClaim, MadeClaim

(* A function goes back to a claim.  If no other claim wants its name, it  *)
(* is the only function of that name, it is what the claim says, and it is *)
(* the one in the cache.                                                   *)
Accounted(g, b) ==
  \A k \in DOMAIN g.module :
    /\ \E p \in Claims : p.name = k[1]
    /\ \A p \in Claims : p.name = k[1] /\ ~ Contested(k[1]) =>
         /\ k[2] = 0 /\ g.module[k] = Contents(b, p)
         /\ p.for = "init" => g.init[p.of] = k
         /\ p.for = "kill" => g.kill[p.of] = k

(* The names of functions are names with a number, and caches hold names   *)
(* of functions.                                                           *)
Typed(g) ==
  /\ Shape(g)
  /\ IsFiniteSet(DOMAIN g.module)
  /\ \A k \in DOMAIN g.module : k = <<k[1], k[2]>> /\ k[2] \in Nat /\ g.module[k].bodies \in Nat
  /\ g.init \in [CacheOwners -> DOMAIN g.module \cup {None}]
  /\ g.kill \in [CacheOwners -> DOMAIN g.module \cup {None}]
  /\ g.defined \subseteq CacheOwners

Has(g, name) == <<name, 0>> \in DOMAIN g.module

(* The first function of a kill function's name may not be the one in the  *)
(* cache, but there is one.                                                *)
Killable(g) == \A c \in CacheOwners : g.kill[c] # None => Has(g, SymbolName(c, "kill"))

Entered(g, a) ==
  a # OBJ => \A m \in Range(methods[a]) : Virtual(a, m) => Has(g, SymbolName(a, m.name))

VtablesThere(g) ==
  \A c \in g.defined : \A a \in Range(Ancestry[c]) : g.kill[a] # None /\ Entered(g, a)

(* A body has a function to go to.                                         *)
BodiesThere(g, b) == \A i \in 1 .. b : Has(g, NameOf(Bodies[i]))

Good(g, b) ==
  Typed(g) /\ Accounted(g, b) /\ Killable(g) /\ VtablesThere(g) /\ BodiesThere(g, b)

(* No name of a function is null.                                          *)
LEMMA KeysAreNotNull == \A n, k : <<n, k>> # None
  BY DEF None

(* h is g with the function `key`, made for the claim p.                   *)
Adds(h, g, key, p) ==
  /\ DOMAIN h.module = DOMAIN g.module \cup {key}
  /\ \A k \in DOMAIN g.module : k # key => h.module[k] = g.module[k]
  /\ \A c \in CacheOwners : /\ g.init[c] # None => h.init[c] = g.init[c]
                            /\ g.kill[c] # None => h.kill[c] = g.kill[c]
  /\ p \in Claims /\ key = <<p.name, key[2]>>

(* If the name is not contested, it is the first function of it, and as    *)
(* the claim says.                                                         *)
FitsClaim(h, b, key, p) ==
  ~ Contested(p.name) =>
    /\ key[2] = 0 /\ h.module[key] = Contents(b, p)
    /\ p.for = "init" => h.init[p.of] = key
    /\ p.for = "kill" => h.kill[p.of] = key

LEMMA AccountedAfter ==
  ASSUME BodiesListed, NEW g, NEW h, NEW b, NEW d, NEW key, NEW p,
         Typed(g), Accounted(g, b), Adds(h, g, key, p), FitsClaim(h, d, key, p),
         \A q \in Claims : q # p => Contents(d, q) = Contents(b, q)
  PROVE  Accounted(h, d)
<1> SUFFICES ASSUME NEW k \in DOMAIN h.module
             PROVE  /\ \E q \in Claims : q.name = k[1]
                    /\ \A q \in Claims : q.name = k[1] /\ ~ Contested(k[1]) =>
                         /\ k[2] = 0 /\ h.module[k] = Contents(d, q)
                         /\ q.for = "init" => h.init[q.of] = k
                         /\ q.for = "kill" => h.kill[q.of] = k
  BY DEF Accounted
<1>1. p \in Claims /\ key = <<p.name, key[2]>> /\ key[1] = p.name
  BY DEF Adds
<1>2. CASE k = key
  <2>1. ASSUME NEW q \in Claims, q.name = k[1], ~ Contested(k[1]) PROVE q = p
    BY <1>1, <1>2, <2>1, OneClaim
  <2> QED
    BY <1>1, <1>2, <2>1 DEF FitsClaim
<1>3. CASE k # key
  <2>1. k \in DOMAIN g.module /\ h.module[k] = g.module[k] /\ k = <<k[1], k[2]>>
    BY <1>3 DEF Adds, Typed
  <2>2. \E q \in Claims : q.name = k[1]
    BY <2>1 DEF Accounted
  <2> SUFFICES ASSUME NEW q \in Claims, q.name = k[1], ~ Contested(k[1])
               PROVE  /\ k[2] = 0 /\ h.module[k] = Contents(d, q)
                      /\ q.for = "init" => h.init[q.of] = k
                      /\ q.for = "kill" => h.kill[q.of] = k
    BY <2>2
  <2>3. /\ k[2] = 0 /\ g.module[k] = Contents(b, q)
        /\ q.for = "init" => g.init[q.of] = k
        /\ q.for = "kill" => g.kill[q.of] = k
    BY <2>1 DEF Accounted
  <2>4. q # p
    <3> SUFFICES ASSUME q = p PROVE FALSE
      OBVIOUS
    <3>1. key[2] = 0
      BY DEF FitsClaim
    <3> QED
      BY <1>1, <1>3, <2>1, <2>3, <3>1
  <2>5. k # None
    BY <2>1, KeysAreNotNull
  <2>6. q.for \in {"init", "kill"} => q.of \in CacheOwners
    <3>1. \/ \E i \in 1 .. Len(Bodies) : q = BodyClaim(i)
          \/ \E c \in CacheOwners : q = MadeClaim(c, "init") \/ q = MadeClaim(c, "kill")
      BY ClaimsAre
    <3> QED
      BY <3>1 DEF BodyClaim, MadeClaim
  <2> QED
    BY <2>1, <2>3, <2>4, <2>5, <2>6 DEF Adds
<1> QED
  BY <1>2, <1>3

(* The ancestors of a class.                                               *)
LEMMA Ancestors ==
  ASSUME NEW c \in CacheOwners
  PROVE  /\ Len(Ancestry[c]) \in Nat
         /\ \A i \in 1 .. Len(Ancestry[c]) : Ancestry[c][i] \in CacheOwners
         /\ Range(Ancestry[c]) = {Ancestry[c][i] : i \in 1 .. Len(Ancestry[c])}
         /\ Range(Ancestry[c]) \subseteq CacheOwners /\ c \in Range(Ancestry[c])
<1> DEFINE s == Ancestry[c]
<1>1. s \in Seq(CacheOwners) /\ s # <<>> /\ Head(s) = c
  BY Rooted
<1> HIDE DEF s
<1>2. Len(s) \in Nat /\ DOMAIN s = 1 .. Len(s) /\ \A i \in 1 .. Len(s) : s[i] \in CacheOwners
  BY <1>1, LenProperties, ElementOfSeq
<1>3. Len(s) # 0
  BY <1>1, EmptySeq
<1>4. Head(s) = s[1] /\ 1 \in 1 .. Len(s)
  BY <1>1, <1>2, <1>3
<1>5. Range(s) = {s[i] : i \in 1 .. Len(s)}
  BY <1>2 DEF Range
<1> QED
  BY <1>1, <1>2, <1>4, <1>5 DEF s

(* Types, when a function is added.                                        *)
LEMMA TypedAfter ==
  ASSUME NEW g, NEW h, NEW key, NEW p, Typed(g), Shape(h), Adds(h, g, key, p),
         key[2] \in Nat, h.module[key].bodies \in Nat, h.defined \subseteq CacheOwners,
         h.init \in [CacheOwners -> DOMAIN h.module \cup {None}],
         h.kill \in [CacheOwners -> DOMAIN h.module \cup {None}]
  PROVE  Typed(h)
<1>1. IsFiniteSet(DOMAIN h.module)
  BY FS_AddElement DEF Typed, Adds
<1>2. key = <<key[1], key[2]>>
  BY DEF Adds
<1>3. \A k \in DOMAIN h.module : k = <<k[1], k[2]>> /\ k[2] \in Nat /\ h.module[k].bodies \in Nat
  BY <1>2 DEF Typed, Adds
<1> QED
  BY <1>1, <1>3 DEF Typed

(* What has been entered in the vtables stays there.                       *)
LEMMA EnteredKept ==
  ASSUME NEW g, NEW h, Grown(h, g)
  PROVE  /\ \A name : Has(g, name) => Has(h, name)
         /\ \A a : Entered(g, a) => Entered(h, a)
         /\ \A c \in CacheOwners : g.kill[c] # None => h.kill[c] # None
<1>1. \A name : Has(g, name) => Has(h, name)
  BY DEF Has, Grown
<1>2. \A a : Entered(g, a) => Entered(h, a)
  BY <1>1 DEF Entered
<1>3. \A c \in CacheOwners : g.kill[c] # None => h.kill[c] # None
  BY DEF Grown
<1> QED
  BY <1>1, <1>2, <1>3

LEMMA VtablesKept ==
  ASSUME NEW g, NEW h, Grown(h, g), VtablesThere(g), h.defined = g.defined,
         g.defined \subseteq CacheOwners
  PROVE  VtablesThere(h)
<1> SUFFICES ASSUME NEW c \in h.defined, NEW a \in Range(Ancestry[c])
             PROVE  h.kill[a] # None /\ Entered(h, a)
  BY DEF VtablesThere
<1>1. c \in CacheOwners /\ a \in CacheOwners
  BY Ancestors
<1>2. g.kill[a] # None /\ Entered(g, a)
  BY DEF VtablesThere
<1> QED
  BY <1>1, <1>2, EnteredKept

LEMMA BodiesKept ==
  ASSUME NEW g, NEW h, NEW b, Grown(h, g), BodiesThere(g, b)
  PROVE  BodiesThere(h, b)
  BY EnteredKept DEF BodiesThere

LEMMA BodyCounts == \A c : BodyOf(c) \in Nat
  BY DEF BodyOf

(* The kill function of a class, and nothing else.                         *)
LEMMA KillMade ==
  ASSUME BodiesListed, NEW g, NEW b, Good(g, b), NEW c \in CacheOwners
  PROVE  LET h == KillOf(g, c)
         IN  /\ Good(h, b) /\ Grown(h, g) /\ h.kill[c] # None
             /\ h.init = g.init /\ h.defined = g.defined
<1> DEFINE h == KillOf(g, c)
           name == SymbolName(c, "kill")
           key == <<name, Copy(g, name)>>
           w == With(g, key, KillType, BodyOf(c))
           p == MadeClaim(c, "kill")
<1>1. Typed(g) /\ Accounted(g, b) /\ Killable(g) /\ VtablesThere(g) /\ BodiesThere(g, b)
      /\ Shape(g) /\ IsFiniteSet(DOMAIN g.module) /\ g.defined \subseteq CacheOwners
      /\ g.init \in [CacheOwners -> DOMAIN g.module \cup {None}]
      /\ g.kill \in [CacheOwners -> DOMAIN g.module \cup {None}]
  BY DEF Good, Typed
<1>2. CASE g.kill[c] # None
  <2>1. h = g
    BY <1>2 DEF KillOf
  <2> HIDE DEF h
  <2>2. Good(h, b) /\ Grown(h, g) /\ h.kill[c] # None /\ h.init = g.init /\ h.defined = g.defined
    BY <1>2, <2>1, GrownSame
  <2> QED
    BY <2>2 DEF h
<1>3. CASE g.kill[c] = None
  <2>1. h = [w EXCEPT !.kill[c] = key]
    BY <1>3 DEF KillOf
  <2>2. /\ Shape(w) /\ w.init = g.init /\ w.kill = g.kill /\ w.defined = g.defined
        /\ DOMAIN w.module = DOMAIN g.module \cup {key}
        /\ w.module[key] = [type |-> KillType, bodies |-> BodyOf(c)]
        /\ \A k \in DOMAIN g.module : k # key => w.module[k] = g.module[k]
    <3> HIDE DEF key
    <3> QED
      BY <1>1, WithIs
  <2>3. /\ Copy(g, name) \in Nat /\ key \notin DOMAIN g.module
        /\ Copy(g, name) # 0 => <<name, 0>> \in DOMAIN g.module
    BY <1>1, CopyIs
  <2> HIDE DEF h, w
  <2>4. h = [module |-> w.module, init |-> w.init, kill |-> [w.kill EXCEPT ![c] = key], defined |-> w.defined]
    <3>1. w = [module |-> w.module, init |-> w.init, kill |-> w.kill, defined |-> w.defined]
      BY <2>2 DEF Shape
    <3> HIDE DEF key
    <3> QED
      BY <2>1, <3>1
  <2>5. /\ h.module = w.module /\ h.init = g.init /\ h.defined = g.defined
        /\ h.kill = [g.kill EXCEPT ![c] = key] /\ Shape(h)
    <3> DEFINE f == [g.kill EXCEPT ![c] = key]
    <3>1. h = [module |-> w.module, init |-> g.init, kill |-> f, defined |-> g.defined]
      BY <2>2, <2>4
    <3> HIDE DEF f
    <3>2. h.module = w.module /\ h.init = g.init /\ h.defined = g.defined /\ h.kill = f /\ Shape(h)
      BY <3>1 DEF Shape
    <3> QED
      BY <3>2 DEF f
  <2>6. key # None /\ key[1] = name /\ key[2] = Copy(g, name)
    BY KeysAreNotNull
  <2> HIDE DEF key
  <2>7. h.kill[c] = key /\ \A d \in CacheOwners : d # c => h.kill[d] = g.kill[d]
    BY <1>1, <2>5
  <2>8. p \in Claims /\ p.name = name /\ p.for = "kill" /\ p.of = c
    BY ClaimsAre DEF MadeClaim
  <2>9. Adds(h, g, key, p)
    <3>1. key = <<p.name, key[2]>>
      BY <2>6, <2>8 DEF key
    <3> QED
      BY <1>3, <2>2, <2>5, <2>7, <2>8, <3>1 DEF Adds
  <2>10. FitsClaim(h, b, key, p)
    <3> SUFFICES ASSUME ~ Contested(name) PROVE key[2] = 0 /\ h.module[key] = Contents(b, p)
      BY <2>7, <2>8 DEF FitsClaim
    <3>1. <<name, 0>> \notin DOMAIN g.module
      <4> SUFFICES ASSUME <<name, 0>> \in DOMAIN g.module PROVE FALSE
        OBVIOUS
      <4> DEFINE old == <<name, 0>>
      <4>1. old[1] = name /\ old # None /\ old \in DOMAIN g.module
        BY KeysAreNotNull
      <4> HIDE DEF old
      <4>2. g.kill[c] = old
        BY <1>1, <2>8, <4>1 DEF Accounted
      <4> QED
        BY <1>3, <4>1, <4>2
    <3>2. key[2] = 0
      BY <2>3, <2>6, <3>1
    <3>3. h.module[key] = [type |-> KillType, bodies |-> BodyOf(c)]
      BY <2>2, <2>5
    <3> QED
      BY <3>2, <3>3, ContentsAre
  <2>11. Accounted(h, b)
    BY <1>1, <2>9, <2>10, AccountedAfter
  <2>12. Typed(h)
    <3>1. /\ h.init \in [CacheOwners -> DOMAIN h.module \cup {None}]
          /\ h.kill \in [CacheOwners -> DOMAIN h.module \cup {None}]
      BY <1>1, <2>2, <2>5
    <3>2. h.module[key].bodies = BodyOf(c)
      BY <2>2, <2>5
    <3> QED
      BY <1>1, <2>3, <2>5, <2>6, <2>9, <3>1, <3>2, BodyCounts, TypedAfter
  <2>13. Grown(h, g)
    BY <2>2, <2>3, <2>5, <2>9 DEF Grown, Adds
  <2>14. Killable(h)
    <3> SUFFICES ASSUME NEW d \in CacheOwners, h.kill[d] # None PROVE Has(h, SymbolName(d, "kill"))
      BY DEF Killable
    <3>1. CASE d = c
      <4>1. <<name, 0>> \in DOMAIN h.module
        <5>1. Copy(g, name) = 0 => key = <<name, 0>>
          BY DEF key
        <5> QED
          BY <2>2, <2>3, <2>5, <5>1
      <4> QED
        BY <3>1, <4>1 DEF Has
    <3>2. CASE d # c
      BY <1>1, <2>7, <2>13, <3>2, EnteredKept DEF Killable
    <3> QED
      BY <3>1, <3>2
  <2>15. VtablesThere(h)
    BY <1>1, <2>5, <2>13, VtablesKept
  <2>16. BodiesThere(h, b)
    BY <1>1, <2>13, BodiesKept
  <2>17. Good(h, b) /\ h.kill[c] # None
    BY <2>6, <2>7, <2>11, <2>12, <2>14, <2>15, <2>16 DEF Good
  <2> QED
    BY <2>5, <2>13, <2>17 DEF h
<1> QED
  BY <1>2, <1>3

(* An init function that is not there yet.                                 *)
Created(g, c) ==
  LET key == <<SymbolName(c, "init"), Copy(g, SymbolName(c, "init"))>>
  IN  [With(g, key, InitType(c), BodyOf(c)) EXCEPT !.init[c] = key]

LEMMA InitMade ==
  ASSUME BodiesListed, NEW g, NEW b, Good(g, b), NEW c \in CacheOwners, g.init[c] = None
  PROVE  LET h == Created(g, c)
         IN  /\ Good(h, b) /\ Grown(h, g) /\ h.init[c] # None
             /\ h.defined = g.defined /\ \A d \in CacheOwners : d # c => h.init[d] = g.init[d]
<1> DEFINE h == Created(g, c)
           name == SymbolName(c, "init")
           key == <<name, Copy(g, name)>>
           w == With(g, key, InitType(c), BodyOf(c))
           p == MadeClaim(c, "init")
<1>1. Typed(g) /\ Accounted(g, b) /\ Killable(g) /\ VtablesThere(g) /\ BodiesThere(g, b)
      /\ Shape(g) /\ IsFiniteSet(DOMAIN g.module) /\ g.defined \subseteq CacheOwners
      /\ g.init \in [CacheOwners -> DOMAIN g.module \cup {None}]
      /\ g.kill \in [CacheOwners -> DOMAIN g.module \cup {None}]
  BY DEF Good, Typed
<1>2. h = [w EXCEPT !.init[c] = key]
  BY DEF Created
<1>3. /\ Shape(w) /\ w.init = g.init /\ w.kill = g.kill /\ w.defined = g.defined
      /\ DOMAIN w.module = DOMAIN g.module \cup {key}
      /\ w.module[key] = [type |-> InitType(c), bodies |-> BodyOf(c)]
      /\ \A k \in DOMAIN g.module : k # key => w.module[k] = g.module[k]
  <2> HIDE DEF key
  <2> QED
    BY <1>1, WithIs
<1>4. /\ Copy(g, name) \in Nat /\ key \notin DOMAIN g.module
      /\ Copy(g, name) # 0 => <<name, 0>> \in DOMAIN g.module
  BY <1>1, CopyIs
<1> HIDE DEF h, w
<1>5. /\ h.module = w.module /\ h.kill = g.kill /\ h.defined = g.defined
      /\ h.init = [g.init EXCEPT ![c] = key] /\ Shape(h)
  <2> DEFINE f == [g.init EXCEPT ![c] = key]
  <2>1. w = [module |-> w.module, init |-> g.init, kill |-> g.kill, defined |-> g.defined]
    BY <1>3 DEF Shape
  <2>2. h = [module |-> w.module, init |-> [w.init EXCEPT ![c] = key], kill |-> w.kill, defined |-> w.defined]
    <3> HIDE DEF key, f
    <3> QED
      BY <1>2, <2>1
  <2>3. h = [module |-> w.module, init |-> f, kill |-> g.kill, defined |-> g.defined]
    BY <1>3, <2>2
  <2> HIDE DEF f
  <2>4. h.module = w.module /\ h.kill = g.kill /\ h.defined = g.defined /\ h.init = f /\ Shape(h)
    BY <2>3 DEF Shape
  <2> QED
    BY <2>4 DEF f
<1>6. key # None /\ key[1] = name /\ key[2] = Copy(g, name)
  BY KeysAreNotNull
<1> HIDE DEF key
<1>7. h.init[c] = key /\ \A d \in CacheOwners : d # c => h.init[d] = g.init[d]
  BY <1>1, <1>5
<1>8. p \in Claims /\ p.name = name /\ p.for = "init" /\ p.of = c
  BY ClaimsAre DEF MadeClaim
<1>9. Adds(h, g, key, p)
  <2>1. key = <<p.name, key[2]>>
    BY <1>6, <1>8 DEF key
  <2> QED
    BY <1>3, <1>5, <1>7, <1>8, <2>1 DEF Adds
<1>10. FitsClaim(h, b, key, p)
  <2> SUFFICES ASSUME ~ Contested(name) PROVE key[2] = 0 /\ h.module[key] = Contents(b, p)
    BY <1>7, <1>8 DEF FitsClaim
  <2>1. <<name, 0>> \notin DOMAIN g.module
    <3> SUFFICES ASSUME <<name, 0>> \in DOMAIN g.module PROVE FALSE
      OBVIOUS
    <3> DEFINE old == <<name, 0>>
    <3>1. old[1] = name /\ old # None /\ old \in DOMAIN g.module
      BY KeysAreNotNull
    <3> HIDE DEF old
    <3>2. g.init[c] = old
      BY <1>1, <1>8, <3>1 DEF Accounted
    <3> QED
      BY <3>1, <3>2
  <2>2. key[2] = 0
    BY <1>4, <1>6, <2>1
  <2>3. h.module[key] = [type |-> InitType(c), bodies |-> BodyOf(c)]
    BY <1>3, <1>5
  <2> QED
    BY <2>2, <2>3, ContentsAre
<1>11. Accounted(h, b)
  BY <1>1, <1>9, <1>10, AccountedAfter
<1>12. Typed(h)
  <2>1. /\ h.init \in [CacheOwners -> DOMAIN h.module \cup {None}]
        /\ h.kill \in [CacheOwners -> DOMAIN h.module \cup {None}]
    BY <1>1, <1>3, <1>5
  <2>2. h.module[key].bodies = BodyOf(c)
    BY <1>3, <1>5
  <2> QED
    BY <1>1, <1>4, <1>5, <1>6, <1>9, <2>1, <2>2, BodyCounts, TypedAfter
<1>13. Grown(h, g)
  BY <1>3, <1>4, <1>5, <1>9 DEF Grown, Adds
<1>14. Killable(h)
  BY <1>1, <1>5, <1>13, EnteredKept DEF Killable
<1>15. VtablesThere(h) /\ BodiesThere(h, b)
  BY <1>1, <1>5, <1>13, VtablesKept, BodiesKept
<1>16. Good(h, b) /\ h.init[c] # None
  BY <1>6, <1>7, <1>11, <1>12, <1>14, <1>15 DEF Good
<1> QED
  BY <1>5, <1>7, <1>13, <1>16 DEF h

(* A function that is declared for an entry of a vtable, or is there: its  *)
(* body has not been begun.                                                *)
LEMMA EntryMade ==
  ASSUME BodiesListed, NEW g, NEW b \in Nat, Good(g, b), NEW a \in Class, NEW m \in Range(methods[a])
  PROVE  LET h == GetOrInsert(g, SymbolName(a, m.name), TypeOfMethod(a, m))
         IN  /\ Good(h, b) /\ Grown(h, g) /\ Has(h, SymbolName(a, m.name))
             /\ h.init = g.init /\ h.kill = g.kill /\ h.defined = g.defined
<1> DEFINE name == SymbolName(a, m.name)
           type == TypeOfMethod(a, m)
           key == <<name, 0>>
           h == GetOrInsert(g, name, type)
<1>1. Typed(g) /\ Accounted(g, b) /\ Killable(g) /\ VtablesThere(g) /\ BodiesThere(g, b)
      /\ Shape(g) /\ g.defined \subseteq CacheOwners
      /\ g.init \in [CacheOwners -> DOMAIN g.module \cup {None}]
      /\ g.kill \in [CacheOwners -> DOMAIN g.module \cup {None}]
  BY DEF Good, Typed
<1>2. CASE key \in DOMAIN g.module
  <2>1. h = g
    BY <1>2 DEF GetOrInsert
  <2> HIDE DEF h
  <2>2. /\ Good(h, b) /\ Grown(h, g) /\ Has(h, name)
        /\ h.init = g.init /\ h.kill = g.kill /\ h.defined = g.defined
    BY <1>2, <2>1, GrownSame DEF Has
  <2> QED
    BY <2>2 DEF h
<1>3. CASE key \notin DOMAIN g.module
  <2>1. h = With(g, key, type, 0)
    BY <1>3 DEF GetOrInsert
  <2> HIDE DEF h, type
  <2>2. /\ Shape(h) /\ h.init = g.init /\ h.kill = g.kill /\ h.defined = g.defined
        /\ DOMAIN h.module = DOMAIN g.module \cup {key}
        /\ h.module[key] = [type |-> type, bodies |-> 0]
        /\ \A k \in DOMAIN g.module : k # key => h.module[k] = g.module[k]
    <3> HIDE DEF key
    <3> QED
      BY <1>1, <2>1, WithIs
  <2>3. PICK i \in 1 .. Len(Bodies) : i > Len(Functions) /\ Bodies[i] = [class |-> a, method |-> m]
    BY DEF BodiesListed
  <2> DEFINE p == BodyClaim(i)
  <2>4. NameOf(Bodies[i]) = name /\ TypeOf(Bodies[i]) = type
    BY <2>3, ClassNames DEF NameOf, TypeOf, type
  <2>5. p \in Claims /\ p.name = name /\ p.for = "body"
    BY <2>4, ClaimsAre DEF BodyClaim
  <2>6. key[1] = name /\ key[2] = 0
    OBVIOUS
  <2>7. Adds(h, g, key, p)
    <3>1. key = <<p.name, key[2]>>
      BY <2>5
    <3> HIDE DEF key
    <3> QED
      BY <2>2, <2>5, <3>1 DEF Adds
  <2>8. ~ (i <= b)
    <3> SUFFICES ASSUME i <= b PROVE FALSE
      OBVIOUS
    <3>1. i \in 1 .. b
      BY DEF BodiesListed
    <3> QED
      BY <1>1, <1>3, <2>4, <3>1 DEF BodiesThere, Has
  <2>9. Contents(b, p) = [type |-> type, bodies |-> 0]
    BY <2>4, <2>8, ContentsAre
  <2> HIDE DEF p, key
  <2>10. FitsClaim(h, b, key, p)
    BY <2>2, <2>5, <2>6, <2>9 DEF FitsClaim
  <2>11. Accounted(h, b)
    BY <1>1, <2>7, <2>10, AccountedAfter
  <2>12. Typed(h)
    <3>1. /\ h.init \in [CacheOwners -> DOMAIN h.module \cup {None}]
          /\ h.kill \in [CacheOwners -> DOMAIN h.module \cup {None}]
      BY <1>1, <2>2
    <3>2. h.module[key].bodies = 0
      BY <2>2
    <3> QED
      BY <1>1, <2>2, <2>6, <2>7, <3>1, <3>2, TypedAfter
  <2>13. Grown(h, g)
    BY <1>3, <2>2 DEF Grown
  <2>14. Killable(h) /\ VtablesThere(h) /\ BodiesThere(h, b)
    <3>1. Killable(h)
      BY <1>1, <2>2, <2>13, EnteredKept DEF Killable
    <3> QED
      BY <1>1, <2>2, <2>13, <3>1, VtablesKept, BodiesKept
  <2>15. Has(h, name)
    BY <2>2 DEF Has, key
  <2>16. Good(h, b)
    BY <2>11, <2>12, <2>14 DEF Good
  <2> QED
    BY <2>2, <2>13, <2>15, <2>16 DEF h, type
<1> QED
  BY <1>2, <1>3

-----------------------------------------------------------------------------
(* The loops of the generator: each is a recursion over its rounds, and it *)
(* has a value after every round.                                          *)

KillLoop(f, g, s, n) ==
  f = [i \in 0 .. n |-> IF i = 0 THEN g ELSE KillOf(f[i - 1], s[i])]

LEMMA KillRounds ==
  ASSUME NEW g, NEW s, NEW n \in Nat
  PROVE  \E f : KillLoop(f, g, s, n)
<1> DEFINE Loop(f, k) == f = [i \in 0 .. k |-> IF i = 0 THEN g ELSE KillOf(f[i - 1], s[i])]
           T == {k \in Nat : \E f : Loop(f, k)}
<1>1. 0 \in T
  <2> DEFINE f == [i \in 0 .. 0 |-> g]
  <2>1. Loop(f, 0)
    OBVIOUS
  <2> HIDE DEF f, Loop
  <2> QED
    BY <2>1
<1>2. ASSUME NEW k \in Nat, k \in T PROVE k + 1 \in T
  <2>1. PICK f : Loop(f, k)
    BY <1>2
  <2> DEFINE h == [i \in 0 .. k + 1 |-> IF i = k + 1 THEN KillOf(f[k], s[i]) ELSE f[i]]
  <2>2. ASSUME NEW i \in 0 .. k + 1
        PROVE  h[i] = IF i = 0 THEN g ELSE KillOf(h[i - 1], s[i])
    <3>1. CASE i = k + 1
      <4>1. i # 0 /\ i - 1 = k /\ k \in 0 .. k + 1 /\ k # k + 1
        BY <3>1
      <4>2. h[i] = KillOf(f[k], s[i]) /\ h[k] = f[k]
        BY <3>1, <4>1
      <4> QED
        BY <4>1, <4>2
    <3>2. CASE i # k + 1
      <4>1. i \in 0 .. k /\ (i # 0 => i - 1 \in 0 .. k + 1 /\ i - 1 # k + 1)
        BY <3>2
      <4>2. h[i] = f[i] /\ (i # 0 => h[i - 1] = f[i - 1])
        BY <3>2, <4>1
      <4>3. f[i] = IF i = 0 THEN g ELSE KillOf(f[i - 1], s[i])
        BY <2>1, <4>1
      <4> QED
        BY <4>2, <4>3
    <3> QED
      BY <3>1, <3>2
  <2>3. Loop(h, k + 1)
    <3>1. h = [i \in 0 .. k + 1 |-> h[i]]
      OBVIOUS
    <3> HIDE DEF h
    <3> QED
      BY <2>2, <3>1
  <2> HIDE DEF h, Loop
  <2> QED
    BY <2>3
<1>3. Nat \subseteq T
  <2> HIDE DEF T
  <2> QED
    BY <1>1, <1>2, SetInduction
<1>4. \E f : Loop(f, n)
  <2> HIDE DEF Loop
  <2> QED
    BY <1>3
<1> QED
  BY <1>4 DEF KillLoop

EntryLoop(f, g, a, s, n) ==
  f = [i \in 0 .. n |-> IF i = 0 THEN g ELSE Entry(f[i - 1], a, s[i])]

LEMMA EntryRounds ==
  ASSUME NEW g, NEW a, NEW s, NEW n \in Nat
  PROVE  \E f : EntryLoop(f, g, a, s, n)
<1> DEFINE Loop(f, k) == f = [i \in 0 .. k |-> IF i = 0 THEN g ELSE Entry(f[i - 1], a, s[i])]
           T == {k \in Nat : \E f : Loop(f, k)}
<1>1. 0 \in T
  <2> DEFINE f == [i \in 0 .. 0 |-> g]
  <2>1. Loop(f, 0)
    OBVIOUS
  <2> HIDE DEF f, Loop
  <2> QED
    BY <2>1
<1>2. ASSUME NEW k \in Nat, k \in T PROVE k + 1 \in T
  <2>1. PICK f : Loop(f, k)
    BY <1>2
  <2> DEFINE h == [i \in 0 .. k + 1 |-> IF i = k + 1 THEN Entry(f[k], a, s[i]) ELSE f[i]]
  <2>2. ASSUME NEW i \in 0 .. k + 1
        PROVE  h[i] = IF i = 0 THEN g ELSE Entry(h[i - 1], a, s[i])
    <3>1. CASE i = k + 1
      <4>1. i # 0 /\ i - 1 = k /\ k \in 0 .. k + 1 /\ k # k + 1
        BY <3>1
      <4>2. h[i] = Entry(f[k], a, s[i]) /\ h[k] = f[k]
        BY <3>1, <4>1
      <4> QED
        BY <4>1, <4>2
    <3>2. CASE i # k + 1
      <4>1. i \in 0 .. k /\ (i # 0 => i - 1 \in 0 .. k + 1 /\ i - 1 # k + 1)
        BY <3>2
      <4>2. h[i] = f[i] /\ (i # 0 => h[i - 1] = f[i - 1])
        BY <3>2, <4>1
      <4>3. f[i] = IF i = 0 THEN g ELSE Entry(f[i - 1], a, s[i])
        BY <2>1, <4>1
      <4> QED
        BY <4>2, <4>3
    <3> QED
      BY <3>1, <3>2
  <2>3. Loop(h, k + 1)
    <3>1. h = [i \in 0 .. k + 1 |-> h[i]]
      OBVIOUS
    <3> HIDE DEF h
    <3> QED
      BY <2>2, <3>1
  <2> HIDE DEF h, Loop
  <2> QED
    BY <2>3
<1>3. Nat \subseteq T
  <2> HIDE DEF T
  <2> QED
    BY <1>1, <1>2, SetInduction
<1>4. \E f : Loop(f, n)
  <2> HIDE DEF Loop
  <2> QED
    BY <1>3
<1> QED
  BY <1>4 DEF EntryLoop

EntriesLoop(f, g, s, n) ==
  f = [i \in 0 .. n |-> IF i = 0 THEN g ELSE Entries(f[i - 1], s[n - i + 1])]

LEMMA EntriesRounds ==
  ASSUME NEW g, NEW s, NEW n \in Nat
  PROVE  \E f : EntriesLoop(f, g, s, n)
<1> DEFINE Loop(f, k) == f = [i \in 0 .. k |-> IF i = 0 THEN g ELSE Entries(f[i - 1], s[n - i + 1])]
           T == {k \in Nat : \E f : Loop(f, k)}
<1>1. 0 \in T
  <2> DEFINE f == [i \in 0 .. 0 |-> g]
  <2>1. Loop(f, 0)
    OBVIOUS
  <2> HIDE DEF f, Loop
  <2> QED
    BY <2>1
<1>2. ASSUME NEW k \in Nat, k \in T PROVE k + 1 \in T
  <2>1. PICK f : Loop(f, k)
    BY <1>2
  <2> DEFINE h == [i \in 0 .. k + 1 |-> IF i = k + 1 THEN Entries(f[k], s[n - i + 1]) ELSE f[i]]
  <2>2. ASSUME NEW i \in 0 .. k + 1
        PROVE  h[i] = IF i = 0 THEN g ELSE Entries(h[i - 1], s[n - i + 1])
    <3>1. CASE i = k + 1
      <4>1. i # 0 /\ i - 1 = k /\ k \in 0 .. k + 1 /\ k # k + 1
        BY <3>1
      <4>2. h[i] = Entries(f[k], s[n - i + 1]) /\ h[k] = f[k]
        BY <3>1, <4>1
      <4> QED
        BY <4>1, <4>2
    <3>2. CASE i # k + 1
      <4>1. i \in 0 .. k /\ (i # 0 => i - 1 \in 0 .. k + 1 /\ i - 1 # k + 1)
        BY <3>2
      <4>2. h[i] = f[i] /\ (i # 0 => h[i - 1] = f[i - 1])
        BY <3>2, <4>1
      <4>3. f[i] = IF i = 0 THEN g ELSE Entries(f[i - 1], s[n - i + 1])
        BY <2>1, <4>1
      <4> QED
        BY <4>2, <4>3
    <3> QED
      BY <3>1, <3>2
  <2>3. Loop(h, k + 1)
    <3>1. h = [i \in 0 .. k + 1 |-> h[i]]
      OBVIOUS
    <3> HIDE DEF h
    <3> QED
      BY <2>2, <3>1
  <2> HIDE DEF h, Loop
  <2> QED
    BY <2>3
<1>3. Nat \subseteq T
  <2> HIDE DEF T
  <2> QED
    BY <1>1, <1>2, SetInduction
<1>4. \E f : Loop(f, n)
  <2> HIDE DEF Loop
  <2> QED
    BY <1>3
<1> QED
  BY <1>4 DEF EntriesLoop

DefinitionLoop(f, g, s, n) ==
  f = [i \in 0 .. n |-> IF i = 0 THEN g ELSE DefinitionOf(f[i - 1], s[n - i + 1])]

LEMMA DefinitionRounds ==
  ASSUME NEW g, NEW s, NEW n \in Nat
  PROVE  \E f : DefinitionLoop(f, g, s, n)
<1> DEFINE Loop(f, k) == f = [i \in 0 .. k |-> IF i = 0 THEN g ELSE DefinitionOf(f[i - 1], s[n - i + 1])]
           T == {k \in Nat : \E f : Loop(f, k)}
<1>1. 0 \in T
  <2> DEFINE f == [i \in 0 .. 0 |-> g]
  <2>1. Loop(f, 0)
    OBVIOUS
  <2> HIDE DEF f, Loop
  <2> QED
    BY <2>1
<1>2. ASSUME NEW k \in Nat, k \in T PROVE k + 1 \in T
  <2>1. PICK f : Loop(f, k)
    BY <1>2
  <2> DEFINE h == [i \in 0 .. k + 1 |-> IF i = k + 1 THEN DefinitionOf(f[k], s[n - i + 1]) ELSE f[i]]
  <2>2. ASSUME NEW i \in 0 .. k + 1
        PROVE  h[i] = IF i = 0 THEN g ELSE DefinitionOf(h[i - 1], s[n - i + 1])
    <3>1. CASE i = k + 1
      <4>1. i # 0 /\ i - 1 = k /\ k \in 0 .. k + 1 /\ k # k + 1
        BY <3>1
      <4>2. h[i] = DefinitionOf(f[k], s[n - i + 1]) /\ h[k] = f[k]
        BY <3>1, <4>1
      <4> QED
        BY <4>1, <4>2
    <3>2. CASE i # k + 1
      <4>1. i \in 0 .. k /\ (i # 0 => i - 1 \in 0 .. k + 1 /\ i - 1 # k + 1)
        BY <3>2
      <4>2. h[i] = f[i] /\ (i # 0 => h[i - 1] = f[i - 1])
        BY <3>2, <4>1
      <4>3. f[i] = IF i = 0 THEN g ELSE DefinitionOf(f[i - 1], s[n - i + 1])
        BY <2>1, <4>1
      <4> QED
        BY <4>2, <4>3
    <3> QED
      BY <3>1, <3>2
  <2>3. Loop(h, k + 1)
    <3>1. h = [i \in 0 .. k + 1 |-> h[i]]
      OBVIOUS
    <3> HIDE DEF h
    <3> QED
      BY <2>2, <3>1
  <2> HIDE DEF h, Loop
  <2> QED
    BY <2>3
<1>3. Nat \subseteq T
  <2> HIDE DEF T
  <2> QED
    BY <1>1, <1>2, SetInduction
<1>4. \E f : Loop(f, n)
  <2> HIDE DEF Loop
  <2> QED
    BY <1>3
<1> QED
  BY <1>4 DEF DefinitionLoop

InitLoop(f, g, s, n) ==
  f = [i \in 0 .. n |-> IF i = 0 THEN g ELSE InitOf(f[i - 1], s[i])]

LEMMA InitRounds ==
  ASSUME NEW g, NEW s, NEW n \in Nat
  PROVE  \E f : InitLoop(f, g, s, n)
<1> DEFINE Loop(f, k) == f = [i \in 0 .. k |-> IF i = 0 THEN g ELSE InitOf(f[i - 1], s[i])]
           T == {k \in Nat : \E f : Loop(f, k)}
<1>1. 0 \in T
  <2> DEFINE f == [i \in 0 .. 0 |-> g]
  <2>1. Loop(f, 0)
    OBVIOUS
  <2> HIDE DEF f, Loop
  <2> QED
    BY <2>1
<1>2. ASSUME NEW k \in Nat, k \in T PROVE k + 1 \in T
  <2>1. PICK f : Loop(f, k)
    BY <1>2
  <2> DEFINE h == [i \in 0 .. k + 1 |-> IF i = k + 1 THEN InitOf(f[k], s[i]) ELSE f[i]]
  <2>2. ASSUME NEW i \in 0 .. k + 1
        PROVE  h[i] = IF i = 0 THEN g ELSE InitOf(h[i - 1], s[i])
    <3>1. CASE i = k + 1
      <4>1. i # 0 /\ i - 1 = k /\ k \in 0 .. k + 1 /\ k # k + 1
        BY <3>1
      <4>2. h[i] = InitOf(f[k], s[i]) /\ h[k] = f[k]
        BY <3>1, <4>1
      <4> QED
        BY <4>1, <4>2
    <3>2. CASE i # k + 1
      <4>1. i \in 0 .. k /\ (i # 0 => i - 1 \in 0 .. k + 1 /\ i - 1 # k + 1)
        BY <3>2
      <4>2. h[i] = f[i] /\ (i # 0 => h[i - 1] = f[i - 1])
        BY <3>2, <4>1
      <4>3. f[i] = IF i = 0 THEN g ELSE InitOf(f[i - 1], s[i])
        BY <2>1, <4>1
      <4> QED
        BY <4>2, <4>3
    <3> QED
      BY <3>1, <3>2
  <2>3. Loop(h, k + 1)
    <3>1. h = [i \in 0 .. k + 1 |-> h[i]]
      OBVIOUS
    <3> HIDE DEF h
    <3> QED
      BY <2>2, <3>1
  <2> HIDE DEF h, Loop
  <2> QED
    BY <2>3
<1>3. Nat \subseteq T
  <2> HIDE DEF T
  <2> QED
    BY <1>1, <1>2, SetInduction
<1>4. \E f : Loop(f, n)
  <2> HIDE DEF Loop
  <2> QED
    BY <1>3
<1> QED
  BY <1>4 DEF InitLoop

DeclareLoop(f, g, s, n) ==
  f = [i \in 0 .. n |-> IF i = 0 THEN g ELSE Declare(f[i - 1], s[i])]

LEMMA DeclareRounds ==
  ASSUME NEW g, NEW s, NEW n \in Nat
  PROVE  \E f : DeclareLoop(f, g, s, n)
<1> DEFINE Loop(f, k) == f = [i \in 0 .. k |-> IF i = 0 THEN g ELSE Declare(f[i - 1], s[i])]
           T == {k \in Nat : \E f : Loop(f, k)}
<1>1. 0 \in T
  <2> DEFINE f == [i \in 0 .. 0 |-> g]
  <2>1. Loop(f, 0)
    OBVIOUS
  <2> HIDE DEF f, Loop
  <2> QED
    BY <2>1
<1>2. ASSUME NEW k \in Nat, k \in T PROVE k + 1 \in T
  <2>1. PICK f : Loop(f, k)
    BY <1>2
  <2> DEFINE h == [i \in 0 .. k + 1 |-> IF i = k + 1 THEN Declare(f[k], s[i]) ELSE f[i]]
  <2>2. ASSUME NEW i \in 0 .. k + 1
        PROVE  h[i] = IF i = 0 THEN g ELSE Declare(h[i - 1], s[i])
    <3>1. CASE i = k + 1
      <4>1. i # 0 /\ i - 1 = k /\ k \in 0 .. k + 1 /\ k # k + 1
        BY <3>1
      <4>2. h[i] = Declare(f[k], s[i]) /\ h[k] = f[k]
        BY <3>1, <4>1
      <4> QED
        BY <4>1, <4>2
    <3>2. CASE i # k + 1
      <4>1. i \in 0 .. k /\ (i # 0 => i - 1 \in 0 .. k + 1 /\ i - 1 # k + 1)
        BY <3>2
      <4>2. h[i] = f[i] /\ (i # 0 => h[i - 1] = f[i - 1])
        BY <3>2, <4>1
      <4>3. f[i] = IF i = 0 THEN g ELSE Declare(f[i - 1], s[i])
        BY <2>1, <4>1
      <4> QED
        BY <4>2, <4>3
    <3> QED
      BY <3>1, <3>2
  <2>3. Loop(h, k + 1)
    <3>1. h = [i \in 0 .. k + 1 |-> h[i]]
      OBVIOUS
    <3> HIDE DEF h
    <3> QED
      BY <2>2, <3>1
  <2> HIDE DEF h, Loop
  <2> QED
    BY <2>3
<1>3. Nat \subseteq T
  <2> HIDE DEF T
  <2> QED
    BY <1>1, <1>2, SetInduction
<1>4. \E f : Loop(f, n)
  <2> HIDE DEF Loop
  <2> QED
    BY <1>3
<1> QED
  BY <1>4 DEF DeclareLoop

-----------------------------------------------------------------------------
(* What the generator's functions leave behind.                            *)

(* The kill functions of a class and of its ancestors.                     *)
LEMMA KillsMade ==
  ASSUME BodiesListed, NEW g, NEW b, Good(g, b), NEW c \in CacheOwners
  PROVE  LET h == getKillFunction(g, c)
         IN  /\ Good(h, b) /\ Grown(h, g) /\ h.init = g.init /\ h.defined = g.defined
             /\ \A a \in Range(Ancestry[c]) : h.kill[a] # None
<1> DEFINE s == Ancestry[c]
           n == Len(s)
           after == CHOOSE f : KillLoop(f, g, s, n)
           T == {i \in Nat : i <= n =>
                   /\ Good(after[i], b) /\ Grown(after[i], g)
                   /\ after[i].init = g.init /\ after[i].defined = g.defined
                   /\ \A j \in 1 .. i : after[i].kill[s[j]] # None}
<1>1. n \in Nat /\ (\A i \in 1 .. n : s[i] \in CacheOwners) /\ Range(s) = {s[i] : i \in 1 .. n}
  BY Ancestors
<1>2. getKillFunction(g, c) = after[n]
  BY DEF getKillFunction, KillLoop
<1> HIDE DEF s, n
<1>3. KillLoop(after, g, s, n)
  BY <1>1, KillRounds
<1> HIDE DEF after
<1>4. after[0] = g /\ \A i \in 1 .. n : after[i] = KillOf(after[i - 1], s[i])
  BY <1>1, <1>3 DEF KillLoop
<1>5. 0 \in T
  BY <1>4, GrownSame
<1>6. ASSUME NEW i \in Nat, i \in T PROVE i + 1 \in T
  <2> SUFFICES ASSUME i + 1 <= n
               PROVE  /\ Good(after[i + 1], b) /\ Grown(after[i + 1], g)
                      /\ after[i + 1].init = g.init /\ after[i + 1].defined = g.defined
                      /\ \A j \in 1 .. i + 1 : after[i + 1].kill[s[j]] # None
    OBVIOUS
  <2>1. i + 1 \in 1 .. n /\ (i + 1) - 1 = i /\ i <= n
    BY <1>1
  <2> DEFINE x == after[i]
             y == after[i + 1]
  <2>2. /\ Good(x, b) /\ Grown(x, g) /\ x.init = g.init /\ x.defined = g.defined
        /\ \A j \in 1 .. i : x.kill[s[j]] # None
    BY <1>6, <2>1
  <2>3. y = KillOf(x, s[i + 1]) /\ s[i + 1] \in CacheOwners
    BY <1>1, <1>4, <2>1
  <2> HIDE DEF x, y
  <2>4. Good(y, b) /\ Grown(y, x) /\ y.kill[s[i + 1]] # None /\ y.init = x.init /\ y.defined = x.defined
    BY <2>2, <2>3, KillMade
  <2>5. Grown(y, g)
    BY <2>2, <2>4, GrownTwice
  <2>6. ASSUME NEW j \in 1 .. i + 1 PROVE y.kill[s[j]] # None
    <3>1. CASE j = i + 1
      BY <2>4, <3>1, Zenon
    <3>2. CASE j # i + 1
      <4>1. j \in 1 .. i /\ j \in 1 .. n
        BY <1>1, <2>1, <3>2
      <4> QED
        BY <1>1, <2>2, <2>4, <4>1, EnteredKept
    <3> QED
      BY <3>1, <3>2
  <2> QED
    BY <2>2, <2>4, <2>5, <2>6 DEF y
<1>7. n \in T
  <2>1. Nat \subseteq T
    <3> HIDE DEF T
    <3> QED
      BY <1>5, <1>6, SetInduction
  <2> QED
    BY <1>1, <2>1
<1> DEFINE h == after[n]
<1>8. /\ Good(h, b) /\ Grown(h, g) /\ h.init = g.init /\ h.defined = g.defined
      /\ \A j \in 1 .. n : h.kill[s[j]] # None
  BY <1>1, <1>7
<1> HIDE DEF T, h
<1>9. getKillFunction(g, c) = h /\ \A a \in Range(s) : h.kill[a] # None
  BY <1>1, <1>2, <1>8 DEF h
<1> QED
  BY <1>8, <1>9 DEF s

(* The entries of one class.                                               *)
LEMMA EntriesMade ==
  ASSUME Program, BodiesListed, NEW g, NEW b \in Nat, Good(g, b), NEW a \in CacheOwners
  PROVE  LET h == Entries(g, a)
         IN  /\ Good(h, b) /\ Grown(h, g) /\ Entered(h, a)
             /\ h.init = g.init /\ h.kill = g.kill /\ h.defined = g.defined
<1>1. CASE a = OBJ
  <2> DEFINE h == Entries(g, a)
  <2>1. h = g
    BY <1>1 DEF Entries
  <2> HIDE DEF h
  <2>2. /\ Good(h, b) /\ Grown(h, g) /\ Entered(h, a)
        /\ h.init = g.init /\ h.kill = g.kill /\ h.defined = g.defined
    BY <1>1, <2>1, GrownSame DEF Entered
  <2> QED
    BY <2>2 DEF h
<1>2. CASE a # OBJ
  <2> DEFINE s == methods[a]
             n == Len(s)
             after == CHOOSE f : EntryLoop(f, g, a, s, n)
             T == {i \in Nat : i <= n =>
                     /\ Good(after[i], b) /\ Grown(after[i], g) /\ after[i].init = g.init
                     /\ after[i].kill = g.kill /\ after[i].defined = g.defined
                     /\ \A j \in 1 .. i : Virtual(a, s[j]) => Has(after[i], SymbolName(a, s[j].name))}
  <2>1. a \in Class /\ s \in Seq(Method)
    BY <1>2 DEF CacheOwners, Program
  <2>2. n \in Nat /\ DOMAIN s = 1 .. n
    BY <2>1, LenProperties
  <2>3. Range(methods[a]) = {s[i] : i \in 1 .. n}
    BY <2>2 DEF Range
  <2>4. Entries(g, a) = after[n]
    BY <1>2 DEF Entries, EntryLoop
  <2> HIDE DEF n
  <2>12. EntryLoop(after, g, a, s, n)
    BY <2>2, EntryRounds
  <2> HIDE DEF after, s
  <2>5. after[0] = g /\ \A i \in 1 .. n : after[i] = Entry(after[i - 1], a, s[i])
    BY <2>2, <2>12 DEF EntryLoop
  <2>6. 0 \in T
    BY <2>5, GrownSame
  <2>7. ASSUME NEW i \in Nat, i \in T PROVE i + 1 \in T
    <3> SUFFICES ASSUME i + 1 <= n
                 PROVE  /\ Good(after[i + 1], b) /\ Grown(after[i + 1], g) /\ after[i + 1].init = g.init
                        /\ after[i + 1].kill = g.kill /\ after[i + 1].defined = g.defined
                        /\ \A j \in 1 .. i + 1 :
                             Virtual(a, s[j]) => Has(after[i + 1], SymbolName(a, s[j].name))
      OBVIOUS
    <3>1. i + 1 \in 1 .. n /\ (i + 1) - 1 = i /\ i <= n
      BY <2>2
    <3> DEFINE x == after[i]
               y == after[i + 1]
               m == s[i + 1]
    <3>2. /\ Good(x, b) /\ Grown(x, g) /\ x.init = g.init /\ x.kill = g.kill /\ x.defined = g.defined
          /\ \A j \in 1 .. i : Virtual(a, s[j]) => Has(x, SymbolName(a, s[j].name))
      BY <2>7, <3>1
    <3>3. y = Entry(x, a, m) /\ m \in Range(methods[a])
      BY <2>3, <2>5, <3>1
    <3> HIDE DEF x, y, m
    <3>4. /\ Good(y, b) /\ Grown(y, x) /\ y.init = x.init /\ y.kill = x.kill /\ y.defined = x.defined
          /\ Virtual(a, m) => Has(y, SymbolName(a, m.name))
      <4>1. CASE Virtual(a, m)
        <5>1. y = GetOrInsert(x, SymbolName(a, m.name), TypeOfMethod(a, m))
          BY <3>3, <4>1 DEF Entry
        <5> QED
          BY <2>1, <3>2, <3>3, <5>1, EntryMade
      <4>2. CASE ~ Virtual(a, m)
        <5>1. y = x
          BY <3>3, <4>2 DEF Entry
        <5> QED
          BY <3>2, <4>2, <5>1, GrownSame
      <4> QED
        BY <4>1, <4>2
    <3>5. Grown(y, g)
      BY <3>2, <3>4, GrownTwice
    <3>6. ASSUME NEW j \in 1 .. i + 1, Virtual(a, s[j]) PROVE Has(y, SymbolName(a, s[j].name))
      <4>1. CASE j = i + 1
        BY <3>4, <3>6, <4>1 DEF m
      <4>2. CASE j # i + 1
        <5>1. j \in 1 .. i
          BY <4>2
        <5> QED
          BY <3>2, <3>4, <3>6, <5>1, EnteredKept
      <4> QED
        BY <4>1, <4>2
    <3> QED
      BY <3>2, <3>4, <3>5, <3>6 DEF y
  <2>8. n \in T
    <3>1. Nat \subseteq T
      <4> HIDE DEF T
      <4> QED
        BY <2>6, <2>7, SetInduction
    <3> QED
      BY <2>2, <3>1
  <2> DEFINE h == after[n]
  <2>9. /\ Good(h, b) /\ Grown(h, g) /\ h.init = g.init /\ h.kill = g.kill /\ h.defined = g.defined
        /\ \A j \in 1 .. n : Virtual(a, s[j]) => Has(h, SymbolName(a, s[j].name))
    BY <2>2, <2>8
  <2>10. Entries(g, a) = h
    BY <2>4
  <2> HIDE DEF T, h
  <2>11. Entered(h, a)
    BY <2>3, <2>9 DEF Entered
  <2> QED
    BY <2>9, <2>10, <2>11
<1> QED
  BY <1>1, <1>2

(* The entries of a class and of its ancestors.                            *)
LEMMA VtableMade ==
  ASSUME Program, BodiesListed, NEW g, NEW b \in Nat, Good(g, b), NEW c \in CacheOwners
  PROVE  LET h == unrollVtableValues(g, c)
         IN  /\ Good(h, b) /\ Grown(h, g) /\ h.init = g.init /\ h.kill = g.kill
             /\ h.defined = g.defined
             /\ \A a \in Range(Ancestry[c]) : Entered(h, a)
<1> DEFINE s == Ancestry[c]
           n == Len(s)
           after == CHOOSE f : EntriesLoop(f, g, s, n)
           T == {i \in Nat : i <= n =>
                   /\ Good(after[i], b) /\ Grown(after[i], g) /\ after[i].init = g.init
                   /\ after[i].kill = g.kill /\ after[i].defined = g.defined
                   /\ \A j \in 1 .. i : Entered(after[i], s[n - j + 1])}
<1>1. n \in Nat /\ (\A i \in 1 .. n : s[i] \in CacheOwners) /\ Range(s) = {s[i] : i \in 1 .. n}
  BY Ancestors
<1>2. unrollVtableValues(g, c) = after[n]
  BY DEF unrollVtableValues, EntriesLoop
<1> HIDE DEF s, n
<1>3. EntriesLoop(after, g, s, n)
  BY <1>1, EntriesRounds
<1> HIDE DEF after
<1>4. after[0] = g /\ \A i \in 1 .. n : after[i] = Entries(after[i - 1], s[n - i + 1])
  BY <1>1, <1>3 DEF EntriesLoop
<1>5. 0 \in T
  BY <1>4, GrownSame
<1>6. ASSUME NEW i \in Nat, i \in T PROVE i + 1 \in T
  <2> SUFFICES ASSUME i + 1 <= n
               PROVE  /\ Good(after[i + 1], b) /\ Grown(after[i + 1], g) /\ after[i + 1].init = g.init
                      /\ after[i + 1].kill = g.kill /\ after[i + 1].defined = g.defined
                      /\ \A j \in 1 .. i + 1 : Entered(after[i + 1], s[n - j + 1])
    OBVIOUS
  <2>1. i + 1 \in 1 .. n /\ (i + 1) - 1 = i /\ i <= n /\ n - (i + 1) + 1 \in 1 .. n
    BY <1>1
  <2> DEFINE x == after[i]
             y == after[i + 1]
             a == s[n - (i + 1) + 1]
  <2>2. /\ Good(x, b) /\ Grown(x, g) /\ x.init = g.init /\ x.kill = g.kill /\ x.defined = g.defined
        /\ \A j \in 1 .. i : Entered(x, s[n - j + 1])
    BY <1>6, <2>1
  <2>3. y = Entries(x, a) /\ a \in CacheOwners
    BY <1>1, <1>4, <2>1
  <2> HIDE DEF x, y, a
  <2>4. /\ Good(y, b) /\ Grown(y, x) /\ Entered(y, a)
        /\ y.init = x.init /\ y.kill = x.kill /\ y.defined = x.defined
    BY <2>2, <2>3, EntriesMade
  <2>5. Grown(y, g)
    BY <2>2, <2>4, GrownTwice
  <2>6. ASSUME NEW j \in 1 .. i + 1 PROVE Entered(y, s[n - j + 1])
    <3>1. CASE j = i + 1
      BY <2>4, <3>1, Zenon DEF a
    <3>2. CASE j # i + 1
      <4>1. j \in 1 .. i
        BY <3>2
      <4> QED
        BY <2>2, <2>4, <4>1, EnteredKept
    <3> QED
      BY <3>1, <3>2
  <2> QED
    BY <2>2, <2>4, <2>5, <2>6 DEF y
<1>7. n \in T
  <2>1. Nat \subseteq T
    <3> HIDE DEF T
    <3> QED
      BY <1>5, <1>6, SetInduction
  <2> QED
    BY <1>1, <2>1
<1> DEFINE h == after[n]
<1>8. /\ Good(h, b) /\ Grown(h, g) /\ h.init = g.init /\ h.kill = g.kill /\ h.defined = g.defined
      /\ \A j \in 1 .. n : Entered(h, s[n - j + 1])
  BY <1>1, <1>7
<1> HIDE DEF T
<1>9. unrollVtableValues(g, c) = h
  BY <1>2
<1> HIDE DEF h
<1>10. ASSUME NEW a \in Range(s) PROVE Entered(h, a)
  <2>1. PICK i \in 1 .. n : a = s[i]
    BY <1>1
  <2>2. n - i + 1 \in 1 .. n /\ n - (n - i + 1) + 1 = i
    BY <1>1
  <2> QED
    BY <1>8, <2>1, <2>2
<1> QED
  BY <1>8, <1>9, <1>10 DEF s

(* The definition of a class.                                              *)
IsDefined(g, c) == c \in g.defined \/ IsBase(c)

LEMMA DefinitionMade ==
  ASSUME Program, BodiesListed, NEW g, NEW b \in Nat, Good(g, b), NEW c \in CacheOwners
  PROVE  LET h == DefinitionOf(g, c)
         IN  Good(h, b) /\ Grown(h, g) /\ h.init = g.init /\ IsDefined(h, c)
<1> DEFINE h == DefinitionOf(g, c)
<1>1. CASE IsDefined(g, c)
  <2>1. h = g
    BY <1>1 DEF DefinitionOf, IsDefined
  <2> HIDE DEF h
  <2>2. Good(h, b) /\ Grown(h, g) /\ h.init = g.init /\ IsDefined(h, c)
    BY <1>1, <2>1, GrownSame
  <2> QED
    BY <2>2 DEF h
<1>2. CASE ~ IsDefined(g, c)
  <2> DEFINE u == getKillFunction(g, c)
             v == unrollVtableValues(u, c)
             ds == v.defined \cup {c}
  <2>1. h = [v EXCEPT !.defined = ds]
    BY <1>2 DEF DefinitionOf, IsDefined
  <2>2. /\ Good(u, b) /\ Grown(u, g) /\ u.init = g.init /\ u.defined = g.defined
        /\ \A a \in Range(Ancestry[c]) : u.kill[a] # None
    BY KillsMade
  <2> HIDE DEF u
  <2>3. /\ Good(v, b) /\ Grown(v, u) /\ v.init = u.init /\ v.kill = u.kill /\ v.defined = u.defined
        /\ \A a \in Range(Ancestry[c]) : Entered(v, a)
    BY <2>2, VtableMade
  <2> HIDE DEF v, h
  <2>4. /\ Typed(v) /\ Accounted(v, b) /\ Killable(v) /\ VtablesThere(v) /\ BodiesThere(v, b)
        /\ Shape(v) /\ IsFiniteSet(DOMAIN v.module) /\ v.defined \subseteq CacheOwners
    BY <2>3 DEF Good, Typed
  <2>5. /\ h.module = v.module /\ h.init = v.init /\ h.kill = v.kill /\ h.defined = ds /\ Shape(h)
    <3>1. v = [module |-> v.module, init |-> v.init, kill |-> v.kill, defined |-> v.defined]
      BY <2>4 DEF Shape
    <3>2. h = [module |-> v.module, init |-> v.init, kill |-> v.kill, defined |-> ds]
      <4> HIDE DEF ds
      <4> QED
        BY <2>1, <3>1
    <3> HIDE DEF ds
    <3> QED
      BY <3>2 DEF Shape
  <2>6. Typed(h)
    BY <2>4, <2>5 DEF Typed
  <2>7. Accounted(h, b)
    BY <2>4, <2>5 DEF Accounted
  <2>8. Grown(h, v)
    BY <2>5 DEF Grown
  <2>9. Killable(h) /\ BodiesThere(h, b)
    BY <2>4, <2>5 DEF Killable, BodiesThere, Has
  <2>10. VtablesThere(h)
    <3> SUFFICES ASSUME NEW d \in h.defined, NEW a \in Range(Ancestry[d])
                 PROVE  h.kill[a] # None /\ Entered(h, a)
      BY DEF VtablesThere
    <3>1. v.kill[a] # None /\ Entered(v, a)
      <4>1. CASE d = c
        BY <2>2, <2>3, <4>1
      <4>2. CASE d # c
        BY <2>4, <2>5, <4>2 DEF VtablesThere
      <4> QED
        BY <4>1, <4>2
    <3> QED
      BY <2>5, <2>8, <3>1, EnteredKept
  <2>11. Grown(h, g)
    BY <2>2, <2>3, <2>8, GrownTwice
  <2>12. IsDefined(h, c) /\ h.init = g.init /\ Good(h, b)
    BY <2>2, <2>3, <2>5, <2>6, <2>7, <2>9, <2>10 DEF IsDefined, Good
  <2> QED
    BY <2>11, <2>12 DEF h
<1> QED
  BY <1>1, <1>2

LEMMA DefinedKept ==
  ASSUME NEW g, NEW h, Grown(h, g)
  PROVE  \A c : IsDefined(g, c) => IsDefined(h, c)
  BY DEF Grown, IsDefined

(* The definitions of a class and of its ancestors.                        *)
LEMMA DefinitionsMade ==
  ASSUME Program, BodiesListed, NEW g, NEW b \in Nat, Good(g, b), NEW c \in CacheOwners
  PROVE  LET h == getClassDefinition(g, c)
         IN  /\ Good(h, b) /\ Grown(h, g) /\ h.init = g.init
             /\ \A a \in Range(Ancestry[c]) : IsDefined(h, a)
<1> DEFINE s == Ancestry[c]
           n == Len(s)
           after == CHOOSE f : DefinitionLoop(f, g, s, n)
           T == {i \in Nat : i <= n =>
                   /\ Good(after[i], b) /\ Grown(after[i], g) /\ after[i].init = g.init
                   /\ \A j \in 1 .. i : IsDefined(after[i], s[n - j + 1])}
<1>1. n \in Nat /\ (\A i \in 1 .. n : s[i] \in CacheOwners) /\ Range(s) = {s[i] : i \in 1 .. n}
  BY Ancestors
<1>2. getClassDefinition(g, c) = after[n]
  BY DEF getClassDefinition, DefinitionLoop
<1> HIDE DEF s, n
<1>3. DefinitionLoop(after, g, s, n)
  BY <1>1, DefinitionRounds
<1> HIDE DEF after
<1>4. after[0] = g /\ \A i \in 1 .. n : after[i] = DefinitionOf(after[i - 1], s[n - i + 1])
  BY <1>1, <1>3 DEF DefinitionLoop
<1>5. 0 \in T
  BY <1>4, GrownSame
<1>6. ASSUME NEW i \in Nat, i \in T PROVE i + 1 \in T
  <2> SUFFICES ASSUME i + 1 <= n
               PROVE  /\ Good(after[i + 1], b) /\ Grown(after[i + 1], g) /\ after[i + 1].init = g.init
                      /\ \A j \in 1 .. i + 1 : IsDefined(after[i + 1], s[n - j + 1])
    OBVIOUS
  <2>1. i + 1 \in 1 .. n /\ (i + 1) - 1 = i /\ i <= n /\ n - (i + 1) + 1 \in 1 .. n
    BY <1>1
  <2> DEFINE x == after[i]
             y == after[i + 1]
             a == s[n - (i + 1) + 1]
  <2>2. /\ Good(x, b) /\ Grown(x, g) /\ x.init = g.init
        /\ \A j \in 1 .. i : IsDefined(x, s[n - j + 1])
    BY <1>6, <2>1
  <2>3. y = DefinitionOf(x, a) /\ a \in CacheOwners
    BY <1>1, <1>4, <2>1
  <2> HIDE DEF x, y, a
  <2>4. Good(y, b) /\ Grown(y, x) /\ y.init = x.init /\ IsDefined(y, a)
    BY <2>2, <2>3, DefinitionMade
  <2>5. Grown(y, g)
    BY <2>2, <2>4, GrownTwice
  <2>6. ASSUME NEW j \in 1 .. i + 1 PROVE IsDefined(y, s[n - j + 1])
    <3>1. CASE j = i + 1
      BY <2>4, <3>1, Zenon DEF a
    <3>2. CASE j # i + 1
      <4>1. j \in 1 .. i
        BY <3>2
      <4> QED
        BY <2>2, <2>4, <4>1, DefinedKept
    <3> QED
      BY <3>1, <3>2
  <2> QED
    BY <2>2, <2>4, <2>5, <2>6 DEF y
<1>7. n \in T
  <2>1. Nat \subseteq T
    <3> HIDE DEF T
    <3> QED
      BY <1>5, <1>6, SetInduction
  <2> QED
    BY <1>1, <2>1
<1> DEFINE h == after[n]
<1>8. /\ Good(h, b) /\ Grown(h, g) /\ h.init = g.init
      /\ \A j \in 1 .. n : IsDefined(h, s[n - j + 1])
  BY <1>1, <1>7
<1> HIDE DEF T
<1>9. getClassDefinition(g, c) = h
  BY <1>2
<1> HIDE DEF h
<1>10. ASSUME NEW a \in Range(s) PROVE IsDefined(h, a)
  <2>1. PICK i \in 1 .. n : a = s[i]
    BY <1>1
  <2>2. n - i + 1 \in 1 .. n /\ n - (n - i + 1) + 1 = i
    BY <1>1
  <2> QED
    BY <1>8, <2>1, <2>2
<1> QED
  BY <1>8, <1>9, <1>10 DEF s

(* A class with an init function of its own has a definition, and so have  *)
(* its ancestors.                                                          *)
InitDefined(g) ==
  \A c \in CacheOwners : g.init[c] # None /\ ~ IsBase(c) => \A a \in Range(Ancestry[c]) : IsDefined(g, a)

LEMMA InitFunctionMade ==
  ASSUME Program, BodiesListed, NEW g, NEW b \in Nat, Good(g, b), InitDefined(g), NEW c \in CacheOwners
  PROVE  LET h == InitOf(g, c)
         IN  Good(h, b) /\ InitDefined(h) /\ Grown(h, g) /\ h.init[c] # None
<1> DEFINE h == InitOf(g, c)
<1>1. CASE g.init[c] # None
  <2>1. h = g
    BY <1>1 DEF InitOf
  <2> HIDE DEF h
  <2>2. Good(h, b) /\ InitDefined(h) /\ Grown(h, g) /\ h.init[c] # None
    BY <1>1, <2>1, GrownSame
  <2> QED
    BY <2>2 DEF h
<1>2. CASE g.init[c] = None
  <2> DEFINE v == Created(g, c)
  <2>1. h = IF IsBase(c) THEN v ELSE getClassDefinition(v, c)
    BY <1>2 DEF InitOf, Created
  <2>2. /\ Good(v, b) /\ Grown(v, g) /\ v.init[c] # None
        /\ \A d \in CacheOwners : d # c => v.init[d] = g.init[d]
    BY <1>2, InitMade
  <2> HIDE DEF v, h
  <2>3. /\ Good(h, b) /\ Grown(h, v) /\ h.init = v.init
        /\ ~ IsBase(c) => \A a \in Range(Ancestry[c]) : IsDefined(h, a)
    <3>1. CASE IsBase(c)
      BY <2>1, <2>2, <3>1, GrownSame
    <3>2. CASE ~ IsBase(c)
      BY <2>1, <2>2, <3>2, DefinitionsMade
    <3> QED
      BY <3>1, <3>2
  <2>4. Grown(h, g)
    BY <2>2, <2>3, GrownTwice
  <2>5. InitDefined(h)
    <3> SUFFICES ASSUME NEW d \in CacheOwners, h.init[d] # None, ~ IsBase(d),
                        NEW a \in Range(Ancestry[d])
                 PROVE  IsDefined(h, a)
      BY DEF InitDefined
    <3>1. CASE d = c
      BY <2>3, <3>1
    <3>2. CASE d # c
      <4>1. IsDefined(g, a)
        BY <2>2, <2>3, <3>2 DEF InitDefined
      <4> QED
        BY <2>4, <4>1, DefinedKept
    <3> QED
      BY <3>1, <3>2
  <2>6. h.init[c] # None
    BY <2>2, <2>3
  <2> QED
    BY <2>3, <2>4, <2>5, <2>6 DEF h
<1> QED
  BY <1>1, <1>2

(* The init functions of a class and of its ancestors: what `new` needs.   *)
LEMMA InitsMade ==
  ASSUME Program, BodiesListed, NEW g, NEW b \in Nat, Good(g, b), InitDefined(g), NEW c \in CacheOwners
  PROVE  LET h == getInitFunction(g, c)
         IN  /\ Good(h, b) /\ InitDefined(h) /\ Grown(h, g)
             /\ \A a \in Range(Ancestry[c]) : h.init[a] # None
<1> DEFINE s == Ancestry[c]
           n == Len(s)
           after == CHOOSE f : InitLoop(f, g, s, n)
           T == {i \in Nat : i <= n =>
                   /\ Good(after[i], b) /\ InitDefined(after[i]) /\ Grown(after[i], g)
                   /\ \A j \in 1 .. i : after[i].init[s[j]] # None}
<1>1. n \in Nat /\ (\A i \in 1 .. n : s[i] \in CacheOwners) /\ Range(s) = {s[i] : i \in 1 .. n}
  BY Ancestors
<1>2. getInitFunction(g, c) = after[n]
  BY DEF getInitFunction, InitLoop
<1> HIDE DEF s, n
<1>3. InitLoop(after, g, s, n)
  BY <1>1, InitRounds
<1> HIDE DEF after
<1>4. after[0] = g /\ \A i \in 1 .. n : after[i] = InitOf(after[i - 1], s[i])
  BY <1>1, <1>3 DEF InitLoop
<1>5. 0 \in T
  BY <1>4, GrownSame
<1>6. ASSUME NEW i \in Nat, i \in T PROVE i + 1 \in T
  <2> SUFFICES ASSUME i + 1 <= n
               PROVE  /\ Good(after[i + 1], b) /\ InitDefined(after[i + 1]) /\ Grown(after[i + 1], g)
                      /\ \A j \in 1 .. i + 1 : after[i + 1].init[s[j]] # None
    OBVIOUS
  <2>1. i + 1 \in 1 .. n /\ (i + 1) - 1 = i /\ i <= n
    BY <1>1
  <2> DEFINE x == after[i]
             y == after[i + 1]
  <2>2. /\ Good(x, b) /\ InitDefined(x) /\ Grown(x, g)
        /\ \A j \in 1 .. i : x.init[s[j]] # None
    BY <1>6, <2>1
  <2>3. y = InitOf(x, s[i + 1]) /\ s[i + 1] \in CacheOwners
    BY <1>1, <1>4, <2>1
  <2> HIDE DEF x, y
  <2>4. Good(y, b) /\ InitDefined(y) /\ Grown(y, x) /\ y.init[s[i + 1]] # None
    BY <2>2, <2>3, InitFunctionMade
  <2>5. Grown(y, g)
    BY <2>2, <2>4, GrownTwice
  <2>6. ASSUME NEW j \in 1 .. i + 1 PROVE y.init[s[j]] # None
    <3>1. CASE j = i + 1
      BY <2>4, <3>1, Zenon
    <3>2. CASE j # i + 1
      <4>1. j \in 1 .. i /\ j \in 1 .. n
        BY <1>1, <2>1, <3>2
      <4> QED
        BY <1>1, <2>2, <2>4, <4>1 DEF Grown
    <3> QED
      BY <3>1, <3>2
  <2> QED
    BY <2>4, <2>5, <2>6 DEF y
<1>7. n \in T
  <2>1. Nat \subseteq T
    <3> HIDE DEF T
    <3> QED
      BY <1>5, <1>6, SetInduction
  <2> QED
    BY <1>1, <2>1
<1> DEFINE h == after[n]
<1>8. /\ Good(h, b) /\ InitDefined(h) /\ Grown(h, g)
      /\ \A j \in 1 .. n : h.init[s[j]] # None
  BY <1>1, <1>7
<1> HIDE DEF T, h
<1>9. getInitFunction(g, c) = h /\ \A a \in Range(s) : h.init[a] # None
  BY <1>1, <1>2, <1>8 DEF h
<1> QED
  BY <1>8, <1>9 DEF s

-----------------------------------------------------------------------------
(* The declarations of the functions.                                      *)

(* Nothing is there before them.                                           *)
Blank(g) ==
  /\ Shape(g) /\ DOMAIN g.module = {}
  /\ g.init = [c \in CacheOwners |-> None] /\ g.kill = [c \in CacheOwners |-> None]
  /\ g.defined = {}

(* The first i functions are declared.                                     *)
Declared(h, i) ==
  /\ Good(h, 0)
  /\ h.init = [c \in CacheOwners |-> None] /\ h.kill = [c \in CacheOwners |-> None]
  /\ h.defined = {}
  /\ \A k \in DOMAIN h.module : \E j \in 1 .. i : k[1] = FunctionName(Functions[j])
  /\ \A j \in 1 .. i : Has(h, FunctionName(Functions[j]))

LEMMA BlankDeclared == ASSUME NEW g, Blank(g) PROVE Declared(g, 0)
<1>1. IsFiniteSet(DOMAIN g.module)
  BY FS_EmptySet DEF Blank
<1>2. g.init \in [CacheOwners -> DOMAIN g.module \cup {None}]
      /\ g.kill \in [CacheOwners -> DOMAIN g.module \cup {None}]
  BY DEF Blank
<1>3. Typed(g)
  BY <1>1, <1>2 DEF Blank, Typed
<1>4. Accounted(g, 0) /\ VtablesThere(g)
  BY DEF Blank, Accounted, VtablesThere
<1>5. Killable(g)
  BY DEF Blank, Killable
<1>6. BodiesThere(g, 0)
  BY DEF BodiesThere
<1> QED
  BY <1>3, <1>4, <1>5, <1>6 DEF Good, Blank, Declared

LEMMA OneDeclared ==
  ASSUME BodiesListed, NEW g, NEW i \in Nat, i + 1 <= Len(Functions), Declared(g, i)
  PROVE  Declared(Declare(g, Functions[i + 1]), i + 1)
<1> DEFINE f == Functions[i + 1]
           name == FunctionName(f)
           key == <<name, Copy(g, name)>>
           h == Declare(g, f)
           p == BodyClaim(i + 1)
           none == [c \in CacheOwners |-> None]
<1>1. /\ Good(g, 0) /\ g.init = none /\ g.kill = none /\ g.defined = {}
      /\ \A k \in DOMAIN g.module : \E j \in 1 .. i : k[1] = FunctionName(Functions[j])
      /\ \A j \in 1 .. i : Has(g, FunctionName(Functions[j]))
  BY DEF Declared
<1>2. Typed(g) /\ Accounted(g, 0) /\ Shape(g) /\ IsFiniteSet(DOMAIN g.module)
  BY <1>1 DEF Good, Typed
<1>3. i + 1 \in 1 .. Len(Functions) /\ i + 1 \in 1 .. Len(Bodies) /\ ~ (i + 1 <= 0)
  BY DEF BodiesListed
<1>4. Bodies[i + 1] = [class |-> None, method |-> f]
  BY <1>3 DEF BodiesListed
<1>5. NameOf(Bodies[i + 1]) = name /\ TypeOf(Bodies[i + 1]) = FunctionType(f)
  BY <1>4 DEF NameOf, TypeOf
<1>6. /\ Shape(h) /\ h.init = g.init /\ h.kill = g.kill /\ h.defined = g.defined
      /\ DOMAIN h.module = DOMAIN g.module \cup {key}
      /\ h.module[key] = [type |-> FunctionType(f), bodies |-> 0]
      /\ \A k \in DOMAIN g.module : k # key => h.module[k] = g.module[k]
  <2>1. h = With(g, key, FunctionType(f), 0)
    BY DEF Declare
  <2> HIDE DEF key, h, f
  <2> QED
    BY <1>2, <2>1, WithIs
<1>7. /\ Copy(g, name) \in Nat /\ key \notin DOMAIN g.module
      /\ Copy(g, name) # 0 => <<name, 0>> \in DOMAIN g.module
  BY <1>2, CopyIs
<1>8. p \in Claims /\ p.name = name /\ p.for = "body" /\ p.of = i + 1
  BY <1>3, <1>5, ClaimsAre DEF BodyClaim
<1>9. key[1] = name /\ key[2] = Copy(g, name)
  OBVIOUS
<1>10. key = <<p.name, key[2]>>
  BY <1>8
<1>11. Contents(0, p) = [type |-> FunctionType(f), bodies |-> 0]
  BY <1>3, <1>5, ContentsAre
<1>12. Copy(g, name) = 0 => key = <<name, 0>>
  OBVIOUS
<1>13. <<name, 0>>[1] = name
  OBVIOUS
<1> HIDE DEF key, h, p, none, f, name
<1>14. Adds(h, g, key, p)
  BY <1>6, <1>8, <1>10 DEF Adds
<1>15. ASSUME ~ Contested(name) PROVE <<name, 0>> \notin DOMAIN g.module
  <2> SUFFICES ASSUME <<name, 0>> \in DOMAIN g.module PROVE FALSE
    OBVIOUS
  <2>1. PICK j \in 1 .. i : name = FunctionName(Functions[j])
    BY <1>1, <1>13
  <2>2. j \in 1 .. Len(Functions) /\ j \in 1 .. Len(Bodies) /\ j # i + 1
    BY DEF BodiesListed
  <2>3. NameOf(Bodies[j]) = name
    <3>1. Bodies[j] = [class |-> None, method |-> Functions[j]]
      BY <2>2 DEF BodiesListed
    <3> QED
      BY <2>1, <3>1 DEF NameOf
  <2>4. BodyClaim(j) \in Claims /\ BodyClaim(j).name = name /\ BodyClaim(j).of = j
    BY <2>2, <2>3, ClaimsAre DEF BodyClaim
  <2>5. BodyClaim(j) = p
    BY <1>8, <1>15, <2>4, OneClaim
  <2> QED
    BY <1>8, <2>2, <2>4, <2>5
<1>16. FitsClaim(h, 0, key, p)
  BY <1>6, <1>7, <1>8, <1>9, <1>11, <1>15 DEF FitsClaim
<1>17. Accounted(h, 0)
  BY <1>2, <1>14, <1>16, AccountedAfter
<1>18. Typed(h)
  <2>1. /\ h.init \in [CacheOwners -> DOMAIN h.module \cup {None}]
        /\ h.kill \in [CacheOwners -> DOMAIN h.module \cup {None}]
    BY <1>1, <1>6 DEF none
  <2>2. h.module[key].bodies = 0 /\ h.defined \subseteq CacheOwners
    BY <1>1, <1>6
  <2> QED
    BY <1>2, <1>6, <1>7, <1>9, <1>14, <2>1, <2>2, TypedAfter
<1>19. Killable(h) /\ VtablesThere(h) /\ BodiesThere(h, 0)
  <2>1. Killable(h)
    BY <1>1, <1>6 DEF Killable, none
  <2>2. VtablesThere(h)
    BY <1>1, <1>6 DEF VtablesThere
  <2> QED
    BY <2>1, <2>2 DEF BodiesThere
<1>20. Good(h, 0)
  BY <1>17, <1>18, <1>19 DEF Good
<1>21. ASSUME NEW k \in DOMAIN h.module PROVE \E j \in 1 .. i + 1 : k[1] = FunctionName(Functions[j])
  <2>1. CASE k = key
    <3>1. i + 1 \in 1 .. i + 1
      OBVIOUS
    <3> QED
      BY <1>9, <2>1, <3>1 DEF name, f
  <2>2. CASE k # key
    <3>1. PICK j \in 1 .. i : k[1] = FunctionName(Functions[j])
      BY <1>1, <1>6, <2>2
    <3> QED
      BY <3>1
  <2> QED
    BY <2>1, <2>2
<1>22. ASSUME NEW j \in 1 .. i + 1 PROVE Has(h, FunctionName(Functions[j]))
  <2>1. CASE j = i + 1
    <3>1. <<name, 0>> \in DOMAIN h.module
      BY <1>6, <1>7, <1>12
    <3> QED
      BY <2>1, <3>1, Zenon DEF Has, name, f
  <2>2. CASE j # i + 1
    <3>1. j \in 1 .. i
      BY <2>2
    <3> QED
      BY <1>1, <1>6, <3>1 DEF Has
  <2> QED
    BY <2>1, <2>2
<1>23. Declared(h, i + 1)
  BY <1>1, <1>6, <1>20, <1>21, <1>22 DEF Declared, none
<1> QED
  BY <1>23 DEF h, f

(* The declarations of all functions.                                      *)
LEMMA DeclaresMade ==
  ASSUME BodiesListed, NEW g, Blank(g)
  PROVE  LET after[i \in 0 .. Len(Functions)] ==
               IF i = 0 THEN g ELSE Declare(after[i - 1], Functions[i])
         IN  Declared(after[Len(Functions)], Len(Functions))
<1> DEFINE n == Len(Functions)
           after == CHOOSE f : DeclareLoop(f, g, Functions, n)
           T == {i \in Nat : i <= n => Declared(after[i], i)}
<1>1. n \in Nat
  BY DEF BodiesListed
<1>2. DeclareLoop(after, g, Functions, n)
  <2> HIDE DEF n
  <2> QED
    BY <1>1, DeclareRounds
<1> HIDE DEF after
<1>3. after[0] = g /\ \A i \in 1 .. n : after[i] = Declare(after[i - 1], Functions[i])
  <2> HIDE DEF n
  <2> QED
    BY <1>1, <1>2 DEF DeclareLoop
<1>4. 0 \in T
  BY <1>3, BlankDeclared
<1>5. ASSUME NEW i \in Nat, i \in T PROVE i + 1 \in T
  <2> SUFFICES ASSUME i + 1 <= n PROVE Declared(after[i + 1], i + 1)
    OBVIOUS
  <2>1. i + 1 \in 1 .. n /\ (i + 1) - 1 = i /\ i <= n
    BY <1>1
  <2>2. Declared(after[i], i) /\ after[i + 1] = Declare(after[i], Functions[i + 1])
    BY <1>3, <1>5, <2>1
  <2> QED
    BY <2>2, OneDeclared
<1>6. Declared(after[n], n)
  <2>1. Nat \subseteq T
    <3> HIDE DEF T
    <3> QED
      BY <1>4, <1>5, SetInduction
  <2> QED
    BY <1>1, <2>1
<1> QED
  BY <1>6 DEF after, DeclareLoop

-----------------------------------------------------------------------------
(* The same in the next state.                                             *)

(* How many bodies have been begun.                                        *)
Begun == IF outcome \in {"declaring", "between", "done"} THEN step ELSE step + 1

LEMMA SameProgram ==
  ASSUME UNCHANGED <<program, baseFirst>>
  PROVE  /\ classes' = classes /\ methods' = methods /\ baseFirst' = baseFirst
         /\ Bodies' = Bodies /\ Claims' = Claims
<1>1. classes' = classes /\ methods' = methods /\ baseFirst' = baseFirst
  BY DEF program
<1>2. \A c : MethodBodies(c)' = MethodBodies(c)
  BY <1>1 DEF MethodBodies
<1>3. Bodies' = Bodies
  BY <1>1 DEF Bodies, MethodBodies
<1>4. Claims' = Claims
  BY <1>3 DEF Claims
<1> QED
  BY <1>1, <1>3, <1>4

LEMMA GoodNext ==
  ASSUME UNCHANGED <<program, baseFirst>>, NEW h, NEW b, Generated' = h, Begun' = b, Good(h, b)
  PROVE  Good(Generated, Begun)'
<1>1. /\ classes' = classes /\ methods' = methods /\ baseFirst' = baseFirst
      /\ Bodies' = Bodies /\ Claims' = Claims
  BY SameProgram
<1>2. Typed(Generated)'
  BY DEF Good, Typed, Shape
<1>3. Accounted(Generated, Begun)'
  <2> SUFFICES ASSUME NEW k \in (DOMAIN Generated.module)'
               PROVE  /\ \E p \in Claims' : p.name = k[1]
                      /\ \A p \in Claims' : p.name = k[1] /\ ~ Contested(k[1])' =>
                           /\ k[2] = 0 /\ Generated.module'[k] = Contents(Begun, p)'
                           /\ p.for = "init" => Generated.init'[p.of] = k
                           /\ p.for = "kill" => Generated.kill'[p.of] = k
    BY DEF Accounted
  <2>1. Accounted(h, b) /\ k \in DOMAIN h.module
    BY DEF Good
  <2>2. ASSUME NEW p \in Claims PROVE Contents(Begun, p)' = Contents(b, p)
    BY <1>1 DEF Contents, TypeOf, BodyOf, IsBase
  <2>3. Contested(k[1])' <=> Contested(k[1])
    BY <1>1 DEF Contested
  <2> QED
    BY <1>1, <2>1, <2>2, <2>3 DEF Accounted
<1>4. Killable(Generated)' /\ BodiesThere(Generated, Begun)'
  BY <1>1 DEF Good, Killable, BodiesThere, Has
<1>5. VtablesThere(Generated)'
  BY <1>1 DEF Good, VtablesThere, Entered, Has
<1> QED
  BY <1>2, <1>3, <1>4, <1>5 DEF Good

-----------------------------------------------------------------------------
(* The inductive invariant.                                                *)

FunctionsThere(g) == \A i \in 1 .. Len(Functions) : Has(g, FunctionName(Functions[i]))

Steps ==
  /\ step \in 0 .. Len(Bodies) /\ budget \in 0 .. MaxStatements /\ used \subseteq Class
  /\ outcome \in {"declaring", "between", "going", "done",
                   "taken", "uninitialised", "unlinked"}
  /\ outcome \notin {"declaring", "between", "done"} => step < Len(Bodies)
  /\ outcome = "done" => step = Len(Bodies)
  /\ IF outcome = "declaring" THEN step = 0 /\ Blank(Generated) ELSE FunctionsThere(Generated)

(* `new` leaves the definitions of the class and of its ancestors.         *)
UsedDefined == \A d \in used : \A a \in Range(Ancestry[d]) : IsDefined(Generated, a)

(* A call has the function of its name, or the compiler stopped there.     *)
CallsKnown ==
  \A call \in calls :
    LET name == SymbolName(call.class, call.name)
    IN  /\ call.class \in Class
        /\ \/ call.key = <<name, 0>> /\ Has(Generated, name)
           \/ call.key = None /\ ~ Has(Generated, name) /\ outcome = "unlinked"

IInv ==
  /\ Program /\ Steps
  /\ Good(Generated, Begun) /\ InitDefined(Generated)
  /\ UsedDefined /\ CallsKnown

(* Init, kill and vtables are there from the start: there are none.        *)
LEMMA InitHolds == Init => IInv
<1> SUFFICES ASSUME Init PROVE IInv
  OBVIOUS
<1>1. Program
  BY MethodsTyped DEF Init, Program, Method
<1>2. BodiesListed
  BY <1>1, BodiesAre
<1>3. Blank(Generated)
  BY DEF Init, Generated, Blank, Shape
<1>4. step = 0 /\ outcome = "declaring" /\ budget = MaxStatements /\ used = {} /\ calls = {}
  BY DEF Init
<1>5. Begun = 0
  BY <1>4 DEF Begun
<1>6. Good(Generated, Begun) /\ Generated.init = [c \in CacheOwners |-> None]
  BY <1>3, <1>5, BlankDeclared DEF Declared
<1>7. Steps
  <2>1. 0 \in 0 .. Len(Bodies)
    BY <1>2 DEF BodiesListed
  <2>2. MaxStatements \in 0 .. MaxStatements
    BY MaxStatementsBound
  <2> QED
    BY <1>3, <1>4, <2>1, <2>2 DEF Steps
<1>8. InitDefined(Generated)
  BY <1>6 DEF InitDefined
<1>9. UsedDefined /\ CallsKnown
  BY <1>4 DEF UsedDefined, CallsKnown
<1> QED
  BY <1>1, <1>6, <1>7, <1>8, <1>9 DEF IInv

(* What the next state keeps of a module that has only grown.              *)
LEMMA Kept ==
  ASSUME IInv, UNCHANGED <<program, baseFirst>>, NEW h, Generated' = h, Grown(h, Generated)
  PROVE  /\ Program'
         /\ InitDefined(h) => InitDefined(Generated)'
         /\ FunctionsThere(Generated) => FunctionsThere(Generated)'
         /\ UNCHANGED used => UsedDefined'
         /\ UNCHANGED calls /\ outcome # "unlinked" => CallsKnown'
<1>1. /\ classes' = classes /\ methods' = methods /\ baseFirst' = baseFirst
  BY SameProgram
<1>2. Program'
  BY <1>1 DEF IInv, Program
<1>3. InitDefined(h) => InitDefined(Generated)'
  BY <1>1 DEF InitDefined, IsDefined, IsBase
<1>4. FunctionsThere(Generated) => FunctionsThere(Generated)'
  BY DEF FunctionsThere, Has, Grown
<1>5. UNCHANGED used => UsedDefined'
  BY <1>1 DEF IInv, UsedDefined, IsDefined, IsBase, Grown
<1>6. UNCHANGED calls /\ outcome # "unlinked" => CallsKnown'
  BY DEF IInv, CallsKnown, Has, Grown
<1> QED
  BY <1>2, <1>3, <1>4, <1>5, <1>6

(* Nothing is generated.                                                   *)
LEMMA GeneratedKept ==
  ASSUME IInv, UNCHANGED <<program, baseFirst, module, initOf, killOf, defined>>
  PROVE  Generated' = Generated /\ Grown(Generated, Generated)
  BY GrownSame DEF Generated

LEMMA BecomeIs ==
  ASSUME NEW h, Shape(h), Become(h)
  PROVE  Generated' = h
  BY DEF Shape, Become, Generated

-----------------------------------------------------------------------------
(* The steps.                                                              *)

LEMMA DeclareStep == IInv /\ ForwardDeclare => IInv'
<1> SUFFICES ASSUME IInv, ForwardDeclare PROVE IInv'
  OBVIOUS
<1> DEFINE n == Len(Functions)
           r == LET after[i \in 0 .. n] == IF i = 0 THEN Generated ELSE Declare(after[i - 1], Functions[i])
                IN  after[n]
<1>1. /\ outcome = "declaring" /\ outcome' = "between" /\ Become(r)
      /\ UNCHANGED <<program, baseFirst, step, budget, used, calls>>
  BY DEF ForwardDeclare
<1>2. BodiesListed /\ step = 0 /\ Blank(Generated)
  BY <1>1, BodiesAre DEF IInv, Steps
<1>3. Declared(r, n)
  BY <1>2, DeclaresMade
<1> HIDE DEF r, n
<1>4. PICK h : h = r
  OBVIOUS
<1>5. Good(h, 0) /\ Shape(h) /\ h.init = [c \in CacheOwners |-> None]
  BY <1>3, <1>4 DEF Declared, Good, Typed
<1>6. Generated' = h
  BY <1>1, <1>4, <1>5, BecomeIs
<1>7. Grown(h, Generated)
  BY <1>2 DEF Blank, Grown
<1>8. Begun' = 0
  BY <1>1, <1>2 DEF Begun
<1>9. Good(Generated, Begun)'
  BY <1>1, <1>5, <1>6, <1>8, GoodNext
<1>10. InitDefined(h)
  BY <1>5 DEF InitDefined
<1>11. FunctionsThere(h)
  BY <1>3, <1>4 DEF Declared, FunctionsThere, n
<1>12. Steps'
  <2>1. FunctionsThere(Generated)'
    BY <1>6, <1>11 DEF FunctionsThere, Has
  <2>2. Bodies' = Bodies
    BY <1>1, SameProgram
  <2> QED
    BY <1>1, <2>1, <2>2 DEF IInv, Steps
<1> QED
  BY <1>1, <1>6, <1>7, <1>9, <1>10, <1>12, Kept DEF IInv

(* How the module changes when the body after the first b is begun: only   *)
(* functions of its name do.                                               *)
Begins(h, g, b) ==
  LET name == NameOf(Bodies[b + 1])
  IN  /\ Shape(h) /\ h.init = g.init /\ h.kill = g.kill /\ h.defined = g.defined
      /\ DOMAIN h.module = DOMAIN g.module \cup {<<name, 0>>}
      /\ \A k \in DOMAIN g.module : k[1] # name => h.module[k] = g.module[k]
      /\ \A k \in DOMAIN h.module : h.module[k].bodies \in Nat
      /\ ~ Contested(name) =>
           h.module[<<name, 0>>] = [type |-> TypeOf(Bodies[b + 1]), bodies |-> 1]

(* A cache keeps naming functions when functions are added.               *)
LEMMA StillCached ==
  ASSUME NEW S, NEW T, S \subseteq T, NEW f \in [CacheOwners -> S \cup {None}]
  PROVE  f \in [CacheOwners -> T \cup {None}]
OBVIOUS

LEMMA BodyBegun ==
  ASSUME BodiesListed, NEW b \in Nat, b + 1 <= Len(Bodies), NEW g, Good(g, b),
         NEW h, Begins(h, g, b)
  PROVE  Good(h, b + 1) /\ Grown(h, g)
<1> DEFINE name == NameOf(Bodies[b + 1])
           key == <<name, 0>>
           p == BodyClaim(b + 1)
<1>1. /\ Shape(h) /\ h.init = g.init /\ h.kill = g.kill /\ h.defined = g.defined
      /\ DOMAIN h.module = DOMAIN g.module \cup {key}
      /\ \A k \in DOMAIN g.module : k[1] # name => h.module[k] = g.module[k]
      /\ \A k \in DOMAIN h.module : h.module[k].bodies \in Nat
      /\ ~ Contested(name) => h.module[key] = [type |-> TypeOf(Bodies[b + 1]), bodies |-> 1]
  BY DEF Begins
<1>2. /\ Typed(g) /\ Accounted(g, b) /\ Killable(g) /\ VtablesThere(g) /\ BodiesThere(g, b)
      /\ g.defined \subseteq CacheOwners /\ IsFiniteSet(DOMAIN g.module)
      /\ g.init \in [CacheOwners -> DOMAIN g.module \cup {None}]
      /\ g.kill \in [CacheOwners -> DOMAIN g.module \cup {None}]
      /\ \A k \in DOMAIN g.module : k = <<k[1], k[2]>> /\ k[2] \in Nat
  BY DEF Good, Typed
<1>3. b + 1 \in 1 .. Len(Bodies)
  BY DEF BodiesListed
<1>4. p \in Claims /\ p.name = name /\ p.for = "body" /\ p.of = b + 1
  BY <1>3, ClaimsAre DEF BodyClaim
<1>5. key[1] = name /\ key[2] = 0 /\ key = <<name, 0>>
  OBVIOUS
<1>6. Contents(b + 1, p) = [type |-> TypeOf(Bodies[b + 1]), bodies |-> 1]
  <2>1. b + 1 <= b + 1
    OBVIOUS
  <2> QED
    BY <2>1, ContentsAre
<1>7. ASSUME NEW q \in Claims, q # p PROVE Contents(b + 1, q) = Contents(b, q)
  <2>1. CASE \E i \in 1 .. Len(Bodies) : q = BodyClaim(i)
    <3>1. PICK i \in 1 .. Len(Bodies) : q = BodyClaim(i)
      BY <2>1
    <3>2. i # b + 1
      BY <1>7, <3>1
    <3>3. i <= b <=> i <= b + 1
      BY <3>2 DEF BodiesListed
    <3> QED
      BY <3>1, <3>3, ContentsAre
  <2>2. CASE \E c \in CacheOwners : q = MadeClaim(c, "init") \/ q = MadeClaim(c, "kill")
    BY <2>2, ContentsAre
  <2> QED
    BY <2>1, <2>2, ClaimsAre
<1>8. \A k \in DOMAIN h.module : k = <<k[1], k[2]>> /\ k[2] \in Nat
  <2> SUFFICES ASSUME NEW k \in DOMAIN h.module PROVE k = <<k[1], k[2]>> /\ k[2] \in Nat
    OBVIOUS
  <2>1. CASE k = key
    BY <2>1
  <2>2. CASE k # key
    BY <1>1, <1>2, <2>2
  <2> QED
    BY <2>1, <2>2
<1> HIDE DEF key, p, name
<1>9. Accounted(h, b + 1)
  <2> SUFFICES ASSUME NEW k \in DOMAIN h.module
               PROVE  /\ \E q \in Claims : q.name = k[1]
                      /\ \A q \in Claims : q.name = k[1] /\ ~ Contested(k[1]) =>
                           /\ k[2] = 0 /\ h.module[k] = Contents(b + 1, q)
                           /\ q.for = "init" => h.init[q.of] = k
                           /\ q.for = "kill" => h.kill[q.of] = k
    BY DEF Accounted
  <2>1. CASE k[1] = name
    <3>1. ASSUME ~ Contested(k[1]) PROVE k = key
      <4>1. CASE k \in DOMAIN g.module
        <5>1. k[2] = 0
          BY <1>2, <1>4, <2>1, <3>1, <4>1 DEF Accounted
        <5> QED
          BY <1>5, <1>8, <2>1, <5>1
      <4>2. CASE k \notin DOMAIN g.module
        BY <1>1, <4>2
      <4> QED
        BY <4>1, <4>2
    <3>2. ASSUME NEW q \in Claims, q.name = k[1], ~ Contested(k[1]) PROVE q = p
      BY <1>4, <2>1, <3>2, OneClaim
    <3> QED
      BY <1>1, <1>4, <1>5, <1>6, <2>1, <3>1, <3>2
  <2>2. CASE k[1] # name
    <3>1. k \in DOMAIN g.module /\ h.module[k] = g.module[k]
      BY <1>1, <1>5, <2>2
    <3>2. \A q \in Claims : q.name = k[1] => q # p
      BY <1>4, <2>2
    <3> QED
      BY <1>1, <1>2, <1>7, <3>1, <3>2 DEF Accounted
  <2> QED
    BY <2>1, <2>2
<1>10. Typed(h)
  <2>1. h.init = g.init /\ h.kill = g.kill /\ DOMAIN g.module \subseteq DOMAIN h.module
    BY <1>1
  <2>2. h.init \in [CacheOwners -> DOMAIN h.module \cup {None}]
    BY <1>2, <2>1, StillCached
  <2>3. h.kill \in [CacheOwners -> DOMAIN h.module \cup {None}]
    BY <1>2, <2>1, StillCached
  <2>4. IsFiniteSet(DOMAIN h.module)
    <3>1. IsFiniteSet(DOMAIN g.module)
      BY <1>2
    <3>2. IsFiniteSet(DOMAIN g.module \cup {key})
      BY <3>1, FS_AddElement
    <3>3. DOMAIN h.module = DOMAIN g.module \cup {key}
      BY <1>1
    <3> QED
      BY <3>2, <3>3
  <2> QED
    BY <1>1, <1>2, <1>8, <2>2, <2>3, <2>4 DEF Typed
<1>11. Grown(h, g)
  BY <1>1 DEF Grown
<1>12. Killable(h)
  BY <1>1, <1>2, <1>11, EnteredKept DEF Killable
<1>13. VtablesThere(h) /\ BodiesThere(h, b)
  BY <1>1, <1>2, <1>11, VtablesKept, BodiesKept
<1>14. BodiesThere(h, b + 1)
  <2> SUFFICES ASSUME NEW i \in 1 .. b + 1 PROVE Has(h, NameOf(Bodies[i]))
    BY DEF BodiesThere
  <2>1. CASE i = b + 1
    BY <1>1, <2>1, Zenon DEF Has, key, name
  <2>2. CASE i # b + 1
    <3>1. i \in 1 .. b
      BY <2>2
    <3> QED
      BY <1>13, <3>1 DEF BodiesThere
  <2> QED
    BY <2>1, <2>2
<1> QED
  BY <1>9, <1>10, <1>11, <1>12, <1>13, <1>14 DEF Good

(* A function without a rival has no other of its name before it.          *)
LEMMA FirstCopy ==
  ASSUME BodiesListed, NEW i \in 1 .. Len(Functions), ~ Contested(FunctionName(Functions[i]))
  PROVE  mValue(i) = <<FunctionName(Functions[i]), 0>>
<1> DEFINE name == FunctionName(Functions[i])
           before == {j \in 1 .. i - 1 : FunctionName(Functions[j]) = name}
<1>1. before = {}
  <2> SUFFICES ASSUME NEW j \in 1 .. i - 1, FunctionName(Functions[j]) = name PROVE FALSE
    OBVIOUS
  <2>1. j \in 1 .. Len(Functions) /\ j # i /\ j \in 1 .. Len(Bodies) /\ i \in 1 .. Len(Bodies)
    BY DEF BodiesListed
  <2>2. /\ Bodies[i] = [class |-> None, method |-> Functions[i]]
        /\ Bodies[j] = [class |-> None, method |-> Functions[j]]
    BY <2>1 DEF BodiesListed
  <2>3. NameOf(Bodies[i]) = name /\ NameOf(Bodies[j]) = name
    BY <2>2 DEF NameOf
  <2>4. /\ BodyClaim(i) \in Claims /\ BodyClaim(i).name = name /\ BodyClaim(i).of = i
        /\ BodyClaim(j) \in Claims /\ BodyClaim(j).name = name /\ BodyClaim(j).of = j
    BY <2>1, <2>3, ClaimsAre DEF BodyClaim
  <2> QED
    BY <2>1, <2>4, OneClaim
<1>2. Cardinality(before) = 0
  BY <1>1, FS_EmptySet
<1> QED
  BY <1>2 DEF mValue

LEMMA FunctionStep == IInv /\ BeginFunction => IInv'
<1> SUFFICES ASSUME IInv, BeginFunction PROVE IInv'
  OBVIOUS
<1> DEFINE name == NameOf(Bodies[step + 1])
           key == mValue(step + 1)
           g == Generated
           m == [module EXCEPT ![key].bodies = @ + 1]
           h == [module |-> m, init |-> initOf, kill |-> killOf, defined |-> defined]
<1>1. /\ outcome = "between" /\ outcome' = "going" /\ step < Len(Functions) /\ module' = m
      /\ UNCHANGED <<program, baseFirst, initOf, killOf, defined, step, budget, used, calls>>
  BY DEF BeginFunction
<1>2. BodiesListed /\ step \in Nat /\ Good(g, step) /\ FunctionsThere(g) /\ InitDefined(g)
  BY <1>1, BodiesAre DEF IInv, Steps, Begun
<1>3. step + 1 \in 1 .. Len(Functions) /\ step + 1 \in 1 .. Len(Bodies) /\ step < Len(Bodies)
  BY <1>1, <1>2 DEF BodiesListed
<1>4. Bodies[step + 1] = [class |-> None, method |-> Functions[step + 1]]
  BY <1>2, <1>3 DEF BodiesListed
<1>5. name = FunctionName(Functions[step + 1])
  BY <1>4 DEF NameOf
<1>6. <<name, 0>> \in DOMAIN module
  BY <1>2, <1>3, <1>5 DEF FunctionsThere, Has, Generated
<1>7. ~ Contested(name) => key = <<name, 0>>
  BY <1>2, <1>3, <1>5, FirstCopy
<1>8. g.module = module /\ g.init = initOf /\ g.kill = killOf /\ g.defined = defined
  BY DEF Generated
<1>9. Accounted(g, step) /\ Typed(g)
  BY <1>2 DEF Good
<1>10. BodyClaim(step + 1) \in Claims /\ BodyClaim(step + 1).name = name
  BY <1>2, <1>3, ClaimsAre DEF BodyClaim
<1>11. Contents(step, BodyClaim(step + 1)) = [type |-> TypeOf(Bodies[step + 1]), bodies |-> 0]
  <2>1. ~ step + 1 <= step
    BY <1>2
  <2> QED
    BY <2>1, ContentsAre
<1>12. <<name, 0>>[1] = name /\ key[1] = name /\ key = <<name, key[2]>>
  BY <1>5 DEF mValue
<1> HIDE DEF key, name, g
<1>13. ~ Contested(name) => module[key] = [type |-> TypeOf(Bodies[step + 1]), bodies |-> 0]
  BY <1>6, <1>7, <1>8, <1>9, <1>10, <1>11, <1>12 DEF Accounted
<1>14. \A k \in DOMAIN module : module[k].bodies \in Nat
  BY <1>8, <1>9 DEF Typed
<1>15. /\ DOMAIN m = DOMAIN module
       /\ \A k \in DOMAIN module : k # key => m[k] = module[k]
       /\ key \in DOMAIN module => m[key] = [module[key] EXCEPT !.bodies = @ + 1]
  OBVIOUS
<1>16. h.module = m /\ h.init = initOf /\ h.kill = killOf /\ h.defined = defined /\ Shape(h)
  <2> HIDE DEF m
  <2> QED
    BY DEF Shape
<1>17. Generated' = h
  BY <1>1 DEF Generated
<1> HIDE DEF h, m
<1>18. \A k \in DOMAIN module : m[k].bodies \in Nat
  <2> SUFFICES ASSUME NEW k \in DOMAIN module PROVE m[k].bodies \in Nat
    OBVIOUS
  <2>1. CASE k = key
    <3>1. key \in DOMAIN module /\ module[key].bodies \in Nat
      BY <1>14, <2>1
    <3>2. m[key] = [module[key] EXCEPT !.bodies = @ + 1]
      BY <1>15, <3>1
    <3>3. m[key].bodies \in Nat
      BY <3>1, <3>2
    <3> QED
      BY <2>1, <3>3
  <2>2. CASE k # key
    BY <1>14, <1>15, <2>2
  <2> QED
    BY <2>1, <2>2
<1>19. ~ Contested(name) => m[<<name, 0>>] = [type |-> TypeOf(Bodies[step + 1]), bodies |-> 1]
  <2> SUFFICES ASSUME ~ Contested(name)
               PROVE  m[key] = [type |-> TypeOf(Bodies[step + 1]), bodies |-> 1]
    BY <1>7
  <2>1. module[key] = [type |-> TypeOf(Bodies[step + 1]), bodies |-> 0]
    BY <1>13
  <2>2. m[key] = [module[key] EXCEPT !.bodies = @ + 1]
    BY <1>6, <1>7, <1>15
  <2> QED
    BY <2>1, <2>2
<1>20. /\ DOMAIN m = DOMAIN module \cup {<<name, 0>>}
       /\ \A k \in DOMAIN module : k[1] # name => m[k] = module[k]
  BY <1>6, <1>12, <1>15
<1>21. Begins(h, g, step)
  <2>1. /\ DOMAIN h.module = DOMAIN g.module \cup {<<name, 0>>}
        /\ \A k \in DOMAIN g.module : k[1] # name => h.module[k] = g.module[k]
        /\ \A k \in DOMAIN h.module : h.module[k].bodies \in Nat
    BY <1>8, <1>15, <1>16, <1>18, <1>20
  <2> QED
    BY <1>8, <1>16, <1>19, <2>1 DEF Begins, name
<1>22. Good(h, step + 1) /\ Grown(h, g)
  BY <1>2, <1>3, <1>21, BodyBegun
<1>23. Begun' = step + 1
  BY <1>1 DEF Begun
<1>24. Good(Generated, Begun)'
  BY <1>1, <1>17, <1>22, <1>23, GoodNext
<1>25. InitDefined(h)
  BY <1>2, <1>8, <1>16 DEF InitDefined, IsDefined
<1>26. Steps'
  <2>1. FunctionsThere(Generated)'
    BY <1>1, <1>2, <1>17, <1>22, Kept DEF g
  <2>2. Bodies' = Bodies
    BY <1>1, SameProgram
  <2> QED
    BY <1>1, <1>3, <2>1, <2>2 DEF IInv, Steps
<1> QED
  BY <1>1, <1>17, <1>22, <1>24, <1>25, <1>26, Kept DEF IInv, g

LEMMA MethodStep == IInv /\ BeginMethod => IInv'
<1> SUFFICES ASSUME IInv, BeginMethod PROVE IInv'
  OBVIOUS
<1> DEFINE body == Bodies[step + 1]
           name == NameOf(body)
           key == <<name, 0>>
           type == TypeOfMethod(body.class, body.method)
           g == Generated
           v == GetOrInsert(g, key[1], type)
           w == With(v, key, type, v.module[key].bodies + 1)
<1>1. /\ outcome = "between" /\ step >= Len(Functions) /\ step < Len(Bodies)
      /\ UNCHANGED <<program, baseFirst, step, budget, used, calls>>
      /\ IF v.module[key].type = type
         THEN Become(w) /\ outcome' = "going"
         ELSE outcome' = "taken" /\ UNCHANGED <<module, initOf, killOf, defined>>
  BY DEF BeginMethod, Body
<1>2. BodiesListed /\ step \in Nat /\ Good(g, step) /\ FunctionsThere(g) /\ InitDefined(g)
  BY <1>1, BodiesAre DEF IInv, Steps, Begun
<1>3. step + 1 \in 1 .. Len(Bodies) /\ step + 1 > Len(Functions) /\ step + 1 <= Len(Bodies)
  BY <1>1, <1>2 DEF BodiesListed
<1>4. TypeOf(body) = type
  <2>1. PICK c \in Class : \E m \in Range(methods[c]) : body = [class |-> c, method |-> m]
    BY <1>2, <1>3, Zenon DEF BodiesListed
  <2>2. body.class \in Class
    BY <2>1
  <2>3. body.class # None
    BY <2>2, ClassNames
  <2> HIDE DEF body
  <2> QED
    BY <2>3 DEF TypeOf
<1>5. Accounted(g, step) /\ Typed(g) /\ Shape(g)
  BY <1>2 DEF Good, Typed
<1>6. BodyClaim(step + 1) \in Claims /\ BodyClaim(step + 1).name = name
  BY <1>2, <1>3, ClaimsAre DEF BodyClaim
<1>7. Contents(step, BodyClaim(step + 1)) = [type |-> TypeOf(body), bodies |-> 0]
  <2>1. ~ step + 1 <= step
    BY <1>2
  <2> QED
    BY <2>1, ContentsAre
<1>8. key[1] = name /\ key[2] = 0 /\ key = <<name, 0>>
  OBVIOUS
<1>9. v = IF key \in DOMAIN g.module THEN g ELSE With(g, key, type, 0)
  BY <1>8 DEF GetOrInsert
<1>10. Bodies[step + 1] = body /\ NameOf(body) = name
  OBVIOUS
<1> HIDE DEF key, name, type, g, v, w, body
<1>11. /\ Shape(v) /\ v.init = g.init /\ v.kill = g.kill /\ v.defined = g.defined
       /\ DOMAIN v.module = DOMAIN g.module \cup {key}
       /\ \A k \in DOMAIN g.module : k # key => v.module[k] = g.module[k]
       /\ v.module[key].bodies \in Nat
       /\ ~ Contested(name) => v.module[key] = [type |-> type, bodies |-> 0]
       /\ key \notin DOMAIN g.module => v.module[key].type = type
       /\ key \in DOMAIN g.module => v = g
  <2>1. CASE key \in DOMAIN g.module
    <3>1. v = g /\ DOMAIN v.module = DOMAIN g.module \cup {key}
      BY <1>9, <2>1
    <3>2. ~ Contested(name) => g.module[key] = [type |-> type, bodies |-> 0]
      BY <1>4, <1>5, <1>6, <1>7, <1>8, <2>1 DEF Accounted
    <3>3. g.module[key].bodies \in Nat
      BY <1>5, <2>1 DEF Typed
    <3> QED
      BY <1>5, <2>1, <3>1, <3>2, <3>3
  <2>2. CASE key \notin DOMAIN g.module
    <3>1. v = With(g, key, type, 0)
      BY <1>9, <2>2
    <3>2. /\ Shape(v) /\ v.init = g.init /\ v.kill = g.kill /\ v.defined = g.defined
          /\ DOMAIN v.module = DOMAIN g.module \cup {key}
          /\ v.module[key] = [type |-> type, bodies |-> 0]
          /\ \A k \in DOMAIN g.module : k # key => v.module[k] = g.module[k]
      BY <1>5, <3>1, WithIs
    <3> QED
      BY <2>2, <3>2
  <2> QED
    BY <2>1, <2>2
<1>12. CASE v.module[key].type = type
  <2>1. /\ Shape(w) /\ w.init = v.init /\ w.kill = v.kill /\ w.defined = v.defined
        /\ DOMAIN w.module = DOMAIN v.module \cup {key}
        /\ w.module[key] = [type |-> type, bodies |-> v.module[key].bodies + 1]
        /\ \A k \in DOMAIN v.module : k # key => w.module[k] = v.module[k]
    BY <1>11, WithIs DEF w
  <2>2. /\ DOMAIN w.module = DOMAIN g.module \cup {key}
        /\ \A k \in DOMAIN g.module : k # key => w.module[k] = g.module[k]
    BY <1>11, <2>1
  <2>3. /\ w.module[key].bodies \in Nat
        /\ ~ Contested(name) => w.module[key] = [type |-> type, bodies |-> 1]
    BY <1>11, <2>1
  <2>4. Begins(w, g, step)
    <3>1. \A k \in DOMAIN g.module : k[1] # name => w.module[k] = g.module[k]
      BY <1>8, <2>2
    <3>2. \A k \in DOMAIN w.module : w.module[k].bodies \in Nat
      BY <1>5, <2>2, <2>3 DEF Typed
    <3> QED
      BY <1>4, <1>8, <1>10, <1>11, <2>1, <2>2, <2>3, <3>1, <3>2 DEF Begins
  <2>5. Good(w, step + 1) /\ Grown(w, g)
    BY <1>2, <1>3, <2>4, BodyBegun
  <2>6. outcome' = "going" /\ Generated' = w
    BY <1>1, <1>12, <2>1, BecomeIs
  <2>7. Begun' = step + 1
    BY <1>1, <2>6 DEF Begun
  <2>8. Good(Generated, Begun)'
    BY <1>1, <2>5, <2>6, <2>7, GoodNext
  <2>9. InitDefined(w)
    BY <1>2, <1>11, <2>1 DEF InitDefined, IsDefined
  <2>10. Steps'
    <3>1. FunctionsThere(Generated)'
      BY <1>1, <1>2, <2>5, <2>6, Kept DEF g
    <3>2. Bodies' = Bodies
      BY <1>1, SameProgram
    <3> QED
      BY <1>1, <2>6, <3>1, <3>2 DEF IInv, Steps
  <2> QED
    BY <1>1, <2>5, <2>6, <2>8, <2>9, <2>10, Kept DEF IInv, g
<1>13. CASE v.module[key].type # type
  <2>1. outcome' = "taken" /\ UNCHANGED <<module, initOf, killOf, defined>>
    BY <1>1, <1>13
  <2>2. Generated' = Generated /\ Grown(Generated, Generated)
    BY <1>1, <2>1, GeneratedKept
  <2>3. key \in DOMAIN g.module /\ v = g /\ Contested(name)
    <3>1. key \in DOMAIN g.module /\ v = g
      BY <1>11, <1>13
    <3>2. Contested(name)
      BY <1>11, <1>13
    <3> QED
      BY <3>1, <3>2
  <2>4. /\ DOMAIN g.module = DOMAIN g.module \cup {key} /\ Shape(g)
        /\ \A k \in DOMAIN g.module : g.module[k].bodies \in Nat
    BY <1>5, <2>3 DEF Typed
  <2>5. Begins(g, g, step)
    BY <1>8, <1>10, <2>3, <2>4 DEF Begins
  <2>6. Good(g, step + 1)
    BY <1>2, <1>3, <2>5, BodyBegun
  <2>7. Begun' = step + 1
    BY <1>1, <2>1 DEF Begun
  <2>8. Good(Generated, Begun)'
    BY <1>1, <2>2, <2>6, <2>7, GoodNext DEF g
  <2>9. Steps'
    <3>1. FunctionsThere(Generated)'
      BY <1>1, <1>2, <2>2, Kept DEF g
    <3>2. Bodies' = Bodies
      BY <1>1, SameProgram
    <3> QED
      BY <1>1, <2>1, <3>1, <3>2 DEF IInv, Steps
  <2> QED
    BY <1>1, <1>2, <2>2, <2>8, <2>9, Kept DEF IInv, g
<1> QED
  BY <1>12, <1>13

(* A step that generates nothing and begins no body.                       *)
LEMMA SameGenerated ==
  ASSUME IInv, outcome # "declaring", outcome' # "declaring",
         UNCHANGED <<program, baseFirst, module, initOf, killOf, defined>>, Begun' = Begun
  PROVE  /\ Program' /\ Good(Generated, Begun)' /\ InitDefined(Generated)' /\ FunctionsThere(Generated)'
         /\ UNCHANGED used => UsedDefined'
         /\ UNCHANGED calls /\ outcome # "unlinked" => CallsKnown'
         /\ Generated' = Generated /\ Bodies' = Bodies
<1>1. Generated' = Generated /\ Grown(Generated, Generated)
  BY GeneratedKept
<1>2. Good(Generated, Begun) /\ InitDefined(Generated) /\ FunctionsThere(Generated)
  BY DEF IInv, Steps
<1>3. Good(Generated, Begun)'
  BY <1>1, <1>2, GoodNext
<1> QED
  BY <1>1, <1>2, <1>3, Kept, SameProgram

LEMMA EndStep == IInv /\ EndBody => IInv'
<1> SUFFICES ASSUME IInv, EndBody PROVE IInv'
  OBVIOUS
<1>1. /\ outcome = "going" /\ step' = step + 1
      /\ outcome' = (IF step' = Len(Bodies) THEN "done" ELSE "between")
      /\ UNCHANGED <<program, module, initOf, killOf, defined, baseFirst, budget, used, calls>>
  BY DEF EndBody
<1>2. BodiesListed /\ step \in Nat /\ step < Len(Bodies)
  BY <1>1, BodiesAre DEF IInv, Steps
<1>3. Begun = step + 1 /\ Begun' = step + 1
  BY <1>1 DEF Begun
<1>4. step' \in 0 .. Len(Bodies)
  <2>1. Len(Bodies) \in Nat
    BY <1>2 DEF BodiesListed
  <2> QED
    BY <1>1, <1>2, <2>1
<1>5. /\ Program' /\ Good(Generated, Begun)' /\ InitDefined(Generated)' /\ FunctionsThere(Generated)'
      /\ UsedDefined' /\ CallsKnown' /\ Bodies' = Bodies
  BY <1>1, <1>3, SameGenerated
<1>6. Steps'
  BY <1>1, <1>4, <1>5 DEF IInv, Steps
<1> QED
  BY <1>5, <1>6 DEF IInv

LEMMA NewStep ==
  ASSUME IInv, NEW c \in Class, NEW stray \in BOOLEAN, New(c, stray)
  PROVE  IInv'
<1>1. /\ outcome = "going" /\ budget > 0 /\ budget' = budget - 1
      /\ UNCHANGED <<program, baseFirst, step, calls>>
  BY DEF New
<1>2. BodiesListed /\ Program /\ step \in Nat /\ step < Len(Bodies) /\ used \subseteq Class
  BY <1>1, BodiesAre DEF IInv, Steps
<1>3. budget' \in 0 .. MaxStatements
  BY <1>1, MaxStatementsBound DEF IInv, Steps
<1>4. CASE stray
  <2>1. outcome' = "uninitialised" /\ UNCHANGED <<module, initOf, killOf, defined, used>>
    BY <1>4 DEF New
  <2>2. Begun' = Begun
    BY <1>1, <2>1 DEF Begun
  <2>3. /\ Program' /\ Good(Generated, Begun)' /\ InitDefined(Generated)' /\ FunctionsThere(Generated)'
        /\ UsedDefined' /\ CallsKnown' /\ Bodies' = Bodies
    BY <1>1, <2>1, <2>2, SameGenerated
  <2>4. Steps'
    BY <1>1, <1>2, <1>3, <2>1, <2>3 DEF IInv, Steps
  <2> QED
    BY <2>3, <2>4 DEF IInv
<1>5. CASE ~ stray
  <2> DEFINE h == getInitFunction(Generated, c)
  <2>1. Become(h) /\ used' = used \cup {c} /\ outcome' = outcome
    BY <1>5 DEF New
  <2>2. Good(Generated, Begun) /\ InitDefined(Generated) /\ Begun \in Nat /\ c \in CacheOwners
    BY <1>2 DEF IInv, Begun, CacheOwners
  <2>3. /\ Good(h, Begun) /\ InitDefined(h) /\ Grown(h, Generated)
        /\ \A a \in Range(Ancestry[c]) : h.init[a] # None
    BY <1>2, <2>2, InitsMade
  <2> HIDE DEF h
  <2>4. Generated' = h
    BY <2>1, <2>3, BecomeIs DEF Good, Typed
  <2>5. Begun' = Begun
    BY <1>1, <2>1 DEF Begun
  <2>6. Good(Generated, Begun)'
    BY <1>1, <2>3, <2>4, <2>5, GoodNext
  <2>7. /\ Program' /\ InitDefined(Generated)' /\ CallsKnown'
        /\ FunctionsThere(Generated) => FunctionsThere(Generated)'
    BY <1>1, <2>3, <2>4, Kept
  <2>8. Steps'
    <3>1. Bodies' = Bodies
      BY <1>1, SameProgram
    <3> QED
      BY <1>1, <1>2, <1>3, <2>1, <2>7, <3>1 DEF IInv, Steps
  <2>9. UsedDefined'
    <3> SUFFICES ASSUME NEW d \in used \cup {c}, NEW a \in Range(Ancestry[d])
                 PROVE  IsDefined(h, a)
      <4>1. baseFirst' = baseFirst
        BY <1>1
      <4> QED
        BY <2>1, <2>4, <4>1 DEF UsedDefined, IsDefined, IsBase
    <3>1. CASE d \in used
      <4>1. IsDefined(Generated, a)
        BY <3>1 DEF IInv, UsedDefined
      <4> QED
        BY <2>3, <4>1, DefinedKept
    <3>2. CASE d = c
      <4>1. ~ IsBase(c)
        BY ClassNames DEF IsBase
      <4>2. h.init[c] # None
        BY <2>2, <2>3, Ancestors
      <4> QED
        BY <2>2, <2>3, <3>2, <4>1, <4>2 DEF InitDefined
    <3> QED
      BY <3>1, <3>2
  <2> QED
    BY <2>6, <2>7, <2>8, <2>9 DEF IInv
<1> QED
  BY <1>4, <1>5

LEMMA CallStep ==
  ASSUME IInv, NEW c \in Class, NEW m, MethodCall(c, m)
  PROVE  IInv'
<1> DEFINE name == SymbolName(c, m)
           key == <<name, 0>>
<1>1. /\ outcome = "going" /\ budget > 0 /\ budget' = budget - 1
      /\ IF key \in DOMAIN module
         THEN calls' = calls \cup {[class |-> c, name |-> m, key |-> key]} /\ outcome' = outcome
         ELSE calls' = calls \cup {[class |-> c, name |-> m, key |-> None]} /\ outcome' = "unlinked"
      /\ UNCHANGED <<program, module, initOf, killOf, defined, baseFirst, step, used>>
  BY DEF MethodCall
<1>2. outcome' \in {"going", "unlinked"}
  BY <1>1
<1>3. budget' \in 0 .. MaxStatements
  BY <1>1, MaxStatementsBound DEF IInv, Steps
<1>4. Begun' = Begun
  BY <1>1, <1>2 DEF Begun
<1>5. /\ Program' /\ Good(Generated, Begun)' /\ InitDefined(Generated)' /\ FunctionsThere(Generated)'
      /\ UsedDefined' /\ Bodies' = Bodies /\ Generated' = Generated
  BY <1>1, <1>2, <1>4, SameGenerated
<1>6. Steps'
  BY <1>1, <1>2, <1>3, <1>5 DEF IInv, Steps
<1>7. CallsKnown'
  <2>1. Generated.module = module /\ (key \in DOMAIN module <=> Has(Generated, name))
    BY DEF Generated, Has
  <2>2. \A call \in calls : LET n == SymbolName(call.class, call.name)
                            IN  call.class \in Class /\ call.key = <<n, 0>> /\ Has(Generated, n)
    BY <1>1 DEF IInv, CallsKnown
  <2> SUFFICES ASSUME NEW call \in calls'
               PROVE  /\ call.class \in Class
                      /\ \/ call.key = <<SymbolName(call.class, call.name), 0>>
                            /\ Has(Generated, SymbolName(call.class, call.name))
                         \/ call.key = None /\ ~ Has(Generated, SymbolName(call.class, call.name))
                            /\ outcome' = "unlinked"
    BY <1>5 DEF CallsKnown, Has
  <2>3. CASE call \in calls
    BY <2>2, <2>3
  <2>4. CASE call \notin calls
    <3>1. call.class = c /\ call.name = m
      BY <1>1, <2>4
    <3>2. CASE key \in DOMAIN module
      <4>1. call.key = key
        BY <1>1, <2>4, <3>2
      <4> QED
        BY <2>1, <3>1, <3>2, <4>1
    <3>3. CASE key \notin DOMAIN module
      <4>1. call.key = None /\ outcome' = "unlinked"
        BY <1>1, <2>4, <3>3
      <4> QED
        BY <2>1, <3>1, <3>3, <4>1
    <3> QED
      BY <3>2, <3>3
  <2> QED
    BY <2>3, <2>4
<1> QED
  BY <1>5, <1>6, <1>7 DEF IInv

LEMMA StillStep == IInv /\ UNCHANGED vars => IInv'
<1> SUFFICES ASSUME IInv, UNCHANGED vars PROVE IInv'
  OBVIOUS
<1>1. UNCHANGED <<program, module, initOf, killOf, defined, baseFirst, step, budget, used, calls, outcome>>
  BY DEF vars
<1>2. Generated' = Generated /\ Grown(Generated, Generated) /\ Begun' = Begun
  BY <1>1, GeneratedKept DEF Begun
<1>3. Good(Generated, Begun)'
  BY <1>1, <1>2, GoodNext DEF IInv
<1>4. /\ Program' /\ InitDefined(Generated)' /\ UsedDefined'
      /\ FunctionsThere(Generated) => FunctionsThere(Generated)'
  BY <1>1, <1>2, Kept DEF IInv
<1>5. CallsKnown'
  BY <1>1, <1>2 DEF IInv, CallsKnown, Has
<1>6. Steps'
  <2>1. Bodies' = Bodies
    BY <1>1, SameProgram
  <2>2. Blank(Generated) => Blank(Generated)'
    BY <1>2 DEF Blank, Shape
  <2> QED
    BY <1>1, <1>4, <2>1, <2>2 DEF IInv, Steps
<1> QED
  BY <1>3, <1>4, <1>5, <1>6 DEF IInv

(* What every reachable state satisfies.                                   *)
THEOREM Invariant == Spec => []IInv
<1>1. Init => IInv
  BY InitHolds
<1>2. IInv /\ [Next]_vars => IInv'
  <2> SUFFICES ASSUME IInv, [Next]_vars PROVE IInv'
    OBVIOUS
  <2>1. CASE ForwardDeclare
    BY <2>1, DeclareStep
  <2>2. CASE BeginFunction
    BY <2>2, FunctionStep
  <2>3. CASE BeginMethod
    BY <2>3, MethodStep
  <2>4. CASE EndBody
    BY <2>4, EndStep
  <2>5. CASE \E c \in Class, stray \in BOOLEAN : New(c, stray)
    BY <2>5, NewStep
  <2>6. CASE \E c \in Class : \E m \in UNION {MethodsOf(a) : a \in CacheOwners} : MethodCall(c, m)
    BY <2>6, CallStep
  <2>7. CASE UNCHANGED vars
    BY <2>7, StillStep
  <2> QED
    BY <2>1, <2>2, <2>3, <2>4, <2>5, <2>6, <2>7 DEF Next, Stopped
<1> QED
  BY <1>1, <1>2, PTL DEF Spec

-----------------------------------------------------------------------------
(* What the runs check.                                                    *)

(* The caches name functions of the module and the generator is at one of  *)
(* its steps, with any program and in any order.                           *)
THEOREM TypeCorrect == Spec => []TypeOK
<1>1. IInv => TypeOK
  <2> SUFFICES ASSUME IInv PROVE TypeOK
    OBVIOUS
  <2>1. Typed(Generated) /\ Steps /\ CallsKnown
    BY DEF IInv, Good
  <2>2. Generated.module = module /\ Generated.init = initOf /\ Generated.kill = killOf
        /\ Generated.defined = defined
    BY DEF Generated
  <2>3. \A call \in calls : call.key \in Keys \cup {None}
    BY <2>1, <2>2 DEF CallsKnown, Has, Keys
  <2>4. /\ \A k \in Keys : module[k].bodies \in Nat /\ k[2] \in Nat
        /\ initOf \in [CacheOwners -> Keys \cup {None}]
        /\ killOf \in [CacheOwners -> Keys \cup {None}]
        /\ defined \subseteq CacheOwners
    BY <2>1, <2>2 DEF Typed, Keys
  <2> QED
    BY <2>1, <2>3, <2>4 DEF TypeOK, Steps
<1> QED
  BY <1>1, Invariant, PTL

(* A name that only one function or method of the program, or only one     *)
(* generated function, asks for belongs to one function, which is never    *)
(* renamed and never gets a second body, here or from the runtime.         *)
THEOREM EveryNameHasOneBody == Spec => []OneBody
<1>1. IInv => OneBody
  <2> SUFFICES ASSUME IInv, NEW k \in Keys, ~ Contested(k[1]), InRuntime(k[1]) => baseFirst
               PROVE  k[2] = 0 /\ module[k].bodies + (IF InRuntime(k[1]) THEN 1 ELSE 0) <= 1
    BY DEF OneBody
  <2>1. BodiesListed /\ Accounted(Generated, Begun) /\ k \in DOMAIN Generated.module
        /\ Generated.module = module
    BY BodiesAre DEF IInv, Good, Generated, Keys
  <2>2. PICK p \in Claims : p.name = k[1]
    BY <2>1 DEF Accounted
  <2>3. k[2] = 0 /\ module[k] = Contents(Begun, p)
    BY <2>1, <2>2 DEF Accounted
  <2>4. InRuntime(k[1]) => p = MadeClaim(OBJ, "init") \/ p = MadeClaim(OBJ, "kill")
    <3>1. /\ MadeClaim(OBJ, "init") \in Claims /\ MadeClaim(OBJ, "kill") \in Claims
      BY <2>1, ClaimsAre DEF CacheOwners
    <3>2. /\ MadeClaim(OBJ, "init").name = SymbolName(OBJ, "init")
          /\ MadeClaim(OBJ, "kill").name = SymbolName(OBJ, "kill")
      BY DEF MadeClaim
    <3> QED
      BY <2>2, <3>1, <3>2, OneClaim DEF InRuntime, RootMethods
  <2>5. CASE \E i \in 1 .. Len(Bodies) : p = BodyClaim(i)
    <3>1. PICK i \in 1 .. Len(Bodies) : p = BodyClaim(i)
      BY <2>5
    <3>2. p.for = "body"
      BY <3>1 DEF BodyClaim
    <3>3. ~ InRuntime(k[1])
      BY <2>4, <3>2 DEF MadeClaim
    <3>4. module[k].bodies \in {0, 1}
      <4>1. Contents(Begun, BodyClaim(i)) = [type |-> TypeOf(Bodies[i]), bodies |-> IF i <= Begun THEN 1 ELSE 0]
        BY ContentsAre, Zenon
      <4> QED
        BY <2>3, <3>1, <4>1
    <3> QED
      BY <2>3, <3>3, <3>4
  <2>6. CASE \E c \in CacheOwners : p = MadeClaim(c, "init") \/ p = MadeClaim(c, "kill")
    <3>1. PICK c \in CacheOwners : p = MadeClaim(c, "init") \/ p = MadeClaim(c, "kill")
      BY <2>6
    <3>2. module[k].bodies = BodyOf(c)
      BY <2>3, <3>1, ContentsAre
    <3>3. InRuntime(k[1]) => c = OBJ
      BY <2>4, <3>1 DEF MadeClaim
    <3> QED
      BY <2>3, <3>2, <3>3 DEF BodyOf, IsBase
  <2> QED
    BY <2>1, <2>5, <2>6, ClaimsAre
<1> QED
  BY <1>1, Invariant, PTL

(* When the module is complete, every method in the vtable of a class whose *)
(* definition was generated is the method itself, with its body and the    *)
(* type of the entry.                                                      *)
THEOREM VtablesHaveTheirMethods == Spec => []VtablesResolved
<1>1. IInv => VtablesResolved
  <2> SUFFICES ASSUME IInv, outcome = "done", NEW c \in defined,
                      NEW a \in Range(Ancestry[c]) \ {OBJ}, NEW m \in Range(methods[a]),
                      Virtual(a, m), ~ Contested(SymbolName(a, m.name))
               PROVE  LET key == <<SymbolName(a, m.name), 0>>
                      IN  key \in Keys /\ module[key] = [type |-> TypeOfMethod(a, m), bodies |-> 1]
    BY DEF VtablesResolved
  <2>1. /\ BodiesListed /\ Accounted(Generated, Begun) /\ BodiesThere(Generated, Begun)
        /\ Generated.module = module /\ defined \subseteq CacheOwners
    BY BodiesAre DEF IInv, Good, Typed, Generated
  <2>2. Begun = Len(Bodies)
    BY DEF IInv, Steps, Begun
  <2>3. a \in Class /\ a # None
    BY <2>1, Ancestors, ClassNames DEF CacheOwners
  <2>4. PICK i \in 1 .. Len(Bodies) : Bodies[i] = [class |-> a, method |-> m]
    BY <2>1, <2>3 DEF BodiesListed
  <2>5. NameOf(Bodies[i]) = SymbolName(a, m.name) /\ TypeOf(Bodies[i]) = TypeOfMethod(a, m)
    BY <2>3, <2>4 DEF NameOf, TypeOf
  <2> DEFINE name == SymbolName(a, m.name)
             key == <<name, 0>>
             p == BodyClaim(i)
  <2>6. key \in DOMAIN module
    BY <2>1, <2>2, <2>5 DEF BodiesThere, Has
  <2>7. p \in Claims /\ p.name = name
    BY <2>1, <2>5, ClaimsAre DEF BodyClaim
  <2>8. Contents(Begun, p) = [type |-> TypeOfMethod(a, m), bodies |-> 1]
    <3>1. Contents(Begun, p) = [type |-> TypeOf(Bodies[i]), bodies |-> IF i <= Begun THEN 1 ELSE 0]
      BY ContentsAre, Zenon
    <3>2. i <= Begun
      BY <2>1, <2>2 DEF BodiesListed
    <3> QED
      BY <2>5, <3>1, <3>2
  <2>9. key[1] = name
    OBVIOUS
  <2> HIDE DEF key, p, name
  <2>10. module[key] = Contents(Begun, p)
    BY <2>1, <2>6, <2>7, <2>9 DEF Accounted, name
  <2> QED
    BY <2>6, <2>8, <2>10 DEF Keys, key, name
<1> QED
  BY <1>1, Invariant, PTL

(* A call of a class's own method finds no function only if nothing has    *)
(* given the module a reason to have it, and if it finds one, it is the    *)
(* function of that method.                                                *)
THEOREM CallsFindTheirMethods == Spec => []CallsFindMethods
<1>1. IInv => CallsFindMethods
  <2> SUFFICES ASSUME IInv, NEW call \in calls, call.name \in MethodsOf(call.class)
               PROVE  IF call.key = None
                      THEN /\ \A d \in used : call.class \notin Range(Ancestry[d])
                           /\ \A i \in DOMAIN GeneratedBodies :
                                ~ (GeneratedBodies[i].class = call.class
                                     /\ GeneratedBodies[i].method.name = call.name)
                      ELSE ~ Contested(call.key[1]) => \E m \in Range(methods[call.class]) :
                             m.name = call.name /\ module[call.key].type = TypeOfMethod(call.class, m)
    BY DEF CallsFindMethods
  <2> DEFINE c == call.class
             name == SymbolName(call.class, call.name)
             key == <<name, 0>>
             g == Generated
  <2>1. /\ BodiesListed /\ Accounted(g, Begun) /\ BodiesThere(g, Begun) /\ Killable(g)
        /\ VtablesThere(g) /\ UsedDefined /\ Begun \in 0 .. Len(Bodies) /\ used \subseteq Class
    <3>1. BodiesListed /\ Steps /\ Good(g, Begun) /\ UsedDefined
      BY BodiesAre DEF IInv
    <3>2. Begun \in 0 .. Len(Bodies)
      <4>1. Len(Bodies) \in Nat
        BY <3>1 DEF BodiesListed
      <4> QED
        BY <3>1, <4>1 DEF Steps, Begun
    <3> QED
      BY <3>1, <3>2 DEF Good, Steps
  <2>2. /\ c \in Class
        /\ \/ call.key = key /\ Has(g, name)
           \/ call.key = None /\ ~ Has(g, name)
    BY DEF IInv, CallsKnown
  <2>3. c # OBJ /\ c # None /\ c \in CacheOwners
    BY <2>2, ClassNames DEF CacheOwners
  <2>4. PICK m \in Range(methods[c]) : m.name = call.name
    BY <2>3 DEF MethodsOf
  <2>5. CASE call.key = None
    <3>1. ~ Has(g, name)
      BY <2>2, <2>5, KeysAreNotNull
    <3>2. ASSUME NEW d \in used, c \in Range(Ancestry[d]) PROVE FALSE
      <4>1. c \in g.defined
        <5>1. IsDefined(g, c)
          BY <2>1, <3>2 DEF UsedDefined
        <5> QED
          BY <2>3, <5>1 DEF IsDefined, IsBase
      <4>2. g.kill[c] # None /\ Entered(g, c)
        BY <2>1, <2>3, <4>1, Ancestors DEF VtablesThere
      <4>3. CASE m.name = "kill"
        BY <2>1, <2>3, <2>4, <3>1, <4>2, <4>3 DEF Killable
      <4>4. CASE m.name # "kill"
        BY <2>3, <2>4, <3>1, <4>2, <4>4 DEF Entered, Virtual
      <4> QED
        BY <4>3, <4>4
    <3>3. /\ DOMAIN GeneratedBodies = 1 .. Begun
          /\ \A i \in 1 .. Begun : GeneratedBodies[i] = Bodies[i]
      <4>1. GeneratedBodies = SubSeq(Bodies, 1, Begun)
        BY DEF GeneratedBodies, Begun
      <4> QED
        BY <2>1, <4>1, SubSeqProperties DEF BodiesListed
    <3>4. ASSUME NEW i \in 1 .. Begun, Bodies[i].class = c, Bodies[i].method.name = call.name
          PROVE  FALSE
      <4>1. NameOf(Bodies[i]) = name
        BY <2>3, <3>4 DEF NameOf
      <4> QED
        BY <2>1, <3>1, <4>1 DEF BodiesThere
    <3> QED
      BY <2>5, <3>2, <3>3, <3>4
  <2>6. CASE call.key # None
    <3>1. call.key = key /\ key \in DOMAIN module /\ g.module = module /\ key[1] = name
      BY <2>2, <2>6 DEF Has, Generated
    <3>2. PICK i \in 1 .. Len(Bodies) : Bodies[i] = [class |-> c, method |-> m]
      BY <2>1, <2>2, <2>4 DEF BodiesListed
    <3>3. NameOf(Bodies[i]) = name /\ TypeOf(Bodies[i]) = TypeOfMethod(c, m)
      BY <2>3, <2>4, <3>2 DEF NameOf, TypeOf
    <3>4. BodyClaim(i) \in Claims /\ BodyClaim(i).name = name
      BY <2>1, <3>3, ClaimsAre DEF BodyClaim
    <3>5. Contents(Begun, BodyClaim(i)).type = TypeOfMethod(c, m)
      <4>1. Contents(Begun, BodyClaim(i)) = [type |-> TypeOf(Bodies[i]), bodies |-> IF i <= Begun THEN 1 ELSE 0]
        BY ContentsAre, Zenon
      <4> QED
        BY <3>3, <4>1
    <3> HIDE DEF key, name
    <3>6. ASSUME ~ Contested(call.key[1]) PROVE module[call.key].type = TypeOfMethod(c, m)
      <4>1. module[key] = Contents(Begun, BodyClaim(i))
        BY <2>1, <3>1, <3>4, <3>6 DEF Accounted
      <4> QED
        BY <3>1, <3>5, <4>1
    <3> QED
      BY <2>4, <2>6, <3>6
  <2> QED
    BY <2>5, <2>6
<1> QED
  BY <1>1, Invariant, PTL

=============================================================================
