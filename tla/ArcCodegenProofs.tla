-------------------------- MODULE ArcCodegenProofs --------------------------
(***************************************************************************)
(* The reference counting of the compiler, for functions of any length     *)
(* with any variables: the code that it inserts keeps exact counts, frees  *)
(* what the function creates and nothing that is still in use, as long as  *)
(* the function has no `if`; and with `if`s that are not in one another,   *)
(* every basic block has its terminator.                                   *)
(***************************************************************************)
EXTENDS ArcCodegen, FiniteSetTheorems, Induction

-----------------------------------------------------------------------------
(* Instructions, blocks and scopes.                                        *)

Thing == Nat \cup Name

(* The instructions of code with n blocks.                                 *)
Operands(i, n) ==
  /\ i.op \in {"null", "release_var"} => i.on \in Local /\ i.to = Null
  /\ i.op \in {"new", "init", "call", "release"} => i.on \in Value /\ i.to = Null
  /\ i.op = "load" => i.on \in Name /\ i.to \in Value
  /\ i.op \in {"store", "plain_store"} => i.on \in Value /\ i.to \in Name
  /\ i.op = "ret" => i.on \in Value \cup {Null} /\ i.to = Null
  /\ i.op \in {"br", "condbr"} => i.on \in 1 .. n
  /\ i.op = "condbr" => i.to \in 1 .. n

Instruction(n) == {i \in [op : Ops, on : Thing, to : Thing] : Operands(i, n)}

Code(n) == Seq(Instruction(n))
CodeOK(bs) == bs \in Seq(Code(Len(bs))) /\ Len(bs) >= 1

Cleanups == [kind : {"object", "variable"}, on : Thing, bb : Nat]
Scopes == [kind : {"function", "then", "else"}, first : Nat, bb : Nat, then : Nat,
           names : SUBSET Local, cleanups : Seq(Cleanups), closed : BOOLEAN]

(* There is a place for what a cleanup inserts.                            *)
CleanupOK(c, bs) ==
  /\ c.bb \in 1 .. Len(bs)
  /\ c.kind = "object" => c.on \in Value /\ Users(bs[c.bb], c.on) # {}
  /\ c.kind = "variable" => c.on \in Local /\ bs[c.bb] # <<>>

ScopeOK(s, bs) ==
  /\ s.first \in 1 .. Len(bs) /\ s.bb \in 1 .. Len(bs) /\ s.then \in 1 .. Len(bs)
  /\ \A a \in 1 .. Len(s.cleanups) : CleanupOK(s.cleanups[a], bs)

ScopesOK(ss, bs) == ss \in Seq(Scopes) /\ \A n \in 1 .. Len(ss) : ScopeOK(ss[n], bs)

(* The later code has all blocks of the earlier one and whatever the       *)
(* cleanups need.                                                          *)
Keeps(bs, cs) ==
  /\ Len(bs) <= Len(cs)
  /\ \A b \in 1 .. Len(bs) : /\ bs[b] # <<>> => cs[b] # <<>>
                             /\ \A v : Users(bs[b], v) # {} => Users(cs[b], v) # {}

LEMMA Made ==
  ASSUME NEW n \in Nat
  PROVE  /\ \A x \in Local : /\ I("null", x, Null) \in Instruction(n)
                             /\ I("release_var", x, Null) \in Instruction(n)
         /\ \A v \in Value : /\ I("new", v, Null) \in Instruction(n)
                             /\ I("init", v, Null) \in Instruction(n)
                             /\ I("call", v, Null) \in Instruction(n)
                             /\ I("release", v, Null) \in Instruction(n)
                             /\ I("ret", v, Null) \in Instruction(n)
         /\ \A v \in Value, x \in Name : /\ I("load", x, v) \in Instruction(n)
                                       /\ I("store", v, x) \in Instruction(n)
                                       /\ I("plain_store", v, x) \in Instruction(n)
         /\ I("ret", Null, Null) \in Instruction(n)
         /\ \A b \in 1 .. n : I("br", b, Null) \in Instruction(n)
         /\ \A b, c \in 1 .. n : I("condbr", b, c) \in Instruction(n)
<1>1. /\ Local \subseteq Thing /\ Name \subseteq Thing /\ 1 .. n \subseteq Thing
      /\ Null \in Thing /\ Value \subseteq Thing
  BY BoundsNatural DEF Thing, Name, Null, Value
<1>2. ASSUME NEW x \in Local
      PROVE  I("null", x, Null) \in Instruction(n) /\ I("release_var", x, Null) \in Instruction(n)
  BY <1>1 DEF I, Instruction, Operands, Ops
<1>3. ASSUME NEW v \in Value
      PROVE  I("new", v, Null) \in Instruction(n) /\ I("init", v, Null) \in Instruction(n)
  BY <1>1 DEF I, Instruction, Operands, Ops
<1>4. ASSUME NEW v \in Value
      PROVE  I("call", v, Null) \in Instruction(n) /\ I("release", v, Null) \in Instruction(n)
  BY <1>1 DEF I, Instruction, Operands, Ops
<1>5. ASSUME NEW v \in Value \cup {Null} PROVE I("ret", v, Null) \in Instruction(n)
  BY <1>1 DEF I, Instruction, Operands, Ops
<1>6. ASSUME NEW v \in Value, NEW x \in Name
      PROVE  /\ I("load", x, v) \in Instruction(n)
             /\ I("store", v, x) \in Instruction(n)
             /\ I("plain_store", v, x) \in Instruction(n)
  BY <1>1 DEF I, Instruction, Operands, Ops
<1>7. ASSUME NEW b \in 1 .. n, NEW c \in 1 .. n
      PROVE  I("br", b, Null) \in Instruction(n) /\ I("condbr", b, c) \in Instruction(n)
  BY <1>1 DEF I, Instruction, Operands, Ops
<1> QED
  BY <1>2, <1>3, <1>4, <1>5, <1>6, <1>7, Zenon

LEMMA Wider ==
  ASSUME NEW m \in Nat, NEW n \in Nat, m <= n, NEW bs \in Seq(Code(m))
  PROVE  bs \in Seq(Code(n))
<1>1. 1 .. m \subseteq 1 .. n
  OBVIOUS
<1>2. ASSUME NEW i, Operands(i, m) PROVE Operands(i, n)
  BY <1>1, <1>2, Zenon DEF Operands
<1>3. Instruction(m) \subseteq Instruction(n)
  BY <1>2, Zenon DEF Instruction
<1>4. Code(m) \subseteq Code(n)
  BY <1>3, SeqMonotonic DEF Code
<1> QED
  BY <1>4, SeqMonotonic

(* An instruction inserted behind the n-th.                                *)
Inserted(new, old, n, ins) ==
  /\ Len(new) = Len(old) + 1
  /\ \A i \in 1 .. n : new[i] = old[i]
  /\ new[n + 1] = ins
  /\ \A i \in n + 1 .. Len(old) : new[i + 1] = old[i]

LEMMA Insertion ==
  ASSUME NEW S, NEW code \in Seq(S), NEW n \in 0 .. Len(code), NEW ins \in S
  PROVE  /\ InsertAfter(code, n, <<ins>>) \in Seq(S)
         /\ Inserted(InsertAfter(code, n, <<ins>>), code, n, ins)
<1> DEFINE m == Len(code)
           a == SubSeq(code, 1, n)
           z == SubSeq(code, n + 1, m)
<1>1. m \in Nat /\ n \in Nat /\ n <= m /\ \A i \in 1 .. m : code[i] \in S
  BY LenProperties, ElementOfSeq
<1> HIDE DEF m
<1>2. a \in Seq(S) /\ Len(a) = n /\ \A i \in 1 .. n : a[i] = code[i]
  <2>1. \A i \in 1 .. n : code[i] \in S
    BY <1>1
  <2>2. 1 \in Int /\ n \in Int
    BY <1>1
  <2>3. /\ a \in Seq(S) /\ Len(a) = IF 1 <= n THEN n - 1 + 1 ELSE 0
        /\ \A i \in 1 .. n - 1 + 1 : a[i] = code[1 + i - 1]
    BY <2>1, <2>2, SubSeqProperties
  <2>4. (IF 1 <= n THEN n - 1 + 1 ELSE 0) = n /\ n - 1 + 1 = n /\ \A i \in 1 .. n : 1 + i - 1 = i
    BY <1>1
  <2> HIDE DEF a
  <2> QED
    BY <2>3, <2>4
<1>3. z \in Seq(S) /\ Len(z) = m - n /\ \A i \in 1 .. m - n : z[i] = code[n + i]
  <2>1. \A i \in n + 1 .. m : code[i] \in S
    BY <1>1
  <2>2. n + 1 \in Int /\ m \in Int
    BY <1>1
  <2>3. /\ z \in Seq(S) /\ Len(z) = IF n + 1 <= m THEN m - (n + 1) + 1 ELSE 0
        /\ \A i \in 1 .. m - (n + 1) + 1 : z[i] = code[(n + 1) + i - 1]
    BY <2>1, <2>2, SubSeqProperties
  <2>4. /\ (IF n + 1 <= m THEN m - (n + 1) + 1 ELSE 0) = m - n
        /\ m - (n + 1) + 1 = m - n
        /\ \A i \in 1 .. m - n : (n + 1) + i - 1 = n + i
    BY <1>1
  <2> HIDE DEF z
  <2> QED
    BY <2>3, <2>4
<1>4. <<ins>> \in Seq(S) /\ Len(<<ins>>) = 1 /\ <<ins>>[1] = ins
  OBVIOUS
<1> DEFINE o == <<ins>>
           b == a \o o
           r == b \o z
<1> HIDE DEF a, z, o
<1>5. /\ b \in Seq(S) /\ Len(b) = n + 1 /\ b[n + 1] = ins
      /\ \A i \in 1 .. n : b[i] = code[i]
  <2>1. /\ b \in Seq(S) /\ Len(b) = Len(a) + Len(o)
        /\ \A i \in 1 .. Len(a) + Len(o) : b[i] = IF i <= Len(a) THEN a[i] ELSE o[i - Len(a)]
    BY <1>2, <1>4, ConcatProperties DEF o
  <2>2. n + 1 \in 1 .. n + 1 /\ ~(n + 1 <= n) /\ (n + 1) - n = 1 /\ \A i \in 1 .. n : i \in 1 .. n + 1 /\ i <= n
    BY <1>1
  <2> HIDE DEF b
  <2> QED
    BY <1>2, <1>4, <2>1, <2>2 DEF o
<1> HIDE DEF b
<1>6. /\ r \in Seq(S) /\ Len(r) = m + 1
      /\ \A i \in 1 .. m + 1 : r[i] = IF i <= n + 1 THEN b[i] ELSE z[i - (n + 1)]
  <2>1. /\ r \in Seq(S) /\ Len(r) = Len(b) + Len(z)
        /\ \A i \in 1 .. Len(b) + Len(z) : r[i] = IF i <= Len(b) THEN b[i] ELSE z[i - Len(b)]
    BY <1>3, <1>5, ConcatProperties
  <2>2. (n + 1) + (m - n) = m + 1
    BY <1>1
  <2> HIDE DEF r
  <2> QED
    BY <1>3, <1>5, <2>1, <2>2
<1>7. InsertAfter(code, n, <<ins>>) = r
  BY DEF InsertAfter, a, z, o, b, m
<1> HIDE DEF r
<1>8. \A i \in 1 .. n : r[i] = code[i]
  BY <1>1, <1>5, <1>6
<1>9. r[n + 1] = ins
  BY <1>1, <1>5, <1>6
<1>10. ASSUME NEW i \in n + 1 .. m PROVE r[i + 1] = code[i]
  <2>1. i + 1 \in 1 .. m + 1 /\ ~(i + 1 <= n + 1) /\ (i + 1) - (n + 1) = i - n
        /\ i - n \in 1 .. m - n /\ n + (i - n) = i
    BY <1>1
  <2> QED
    BY <1>3, <1>6, <2>1
<1> QED
  BY <1>6, <1>7, <1>8, <1>9, <1>10 DEF Inserted, m

LEMMA Joined ==
  ASSUME NEW S, NEW s \in Seq(S), NEW t \in Seq(S)
  PROVE  /\ s \o t \in Seq(S) /\ Len(s \o t) = Len(s) + Len(t)
         /\ \A i \in 1 .. Len(s) : (s \o t)[i] = s[i]
         /\ \A i \in 1 .. Len(t) : (s \o t)[Len(s) + i] = t[i]
<1> DEFINE r == s \o t
<1>1. /\ r \in Seq(S) /\ Len(r) = Len(s) + Len(t)
      /\ \A i \in 1 .. Len(s) + Len(t) : r[i] = IF i <= Len(s) THEN s[i] ELSE t[i - Len(s)]
  BY ConcatProperties
<1>2. Len(s) \in Nat /\ Len(t) \in Nat
  BY LenProperties
<1> HIDE DEF r
<1>3. ASSUME NEW i \in 1 .. Len(s) PROVE r[i] = s[i]
  <2>1. i \in 1 .. Len(s) + Len(t) /\ i <= Len(s)
    BY <1>2
  <2> QED
    BY <1>1, <2>1
<1>4. ASSUME NEW i \in 1 .. Len(t) PROVE r[Len(s) + i] = t[i]
  <2>1. Len(s) + i \in 1 .. Len(s) + Len(t) /\ ~(Len(s) + i <= Len(s)) /\ (Len(s) + i) - Len(s) = i
    BY <1>2
  <2> QED
    BY <1>1, <2>1
<1> QED
  BY <1>1, <1>3, <1>4 DEF r

-----------------------------------------------------------------------------
(* What the cleanups insert.                                               *)

LEMMA LastUsage ==
  ASSUME NEW S, NEW code \in Seq(S), NEW v, Users(code, v) # {}
  PROVE  /\ getLastUsage(code, v) \in Users(code, v)
         /\ \A j \in Users(code, v) : j <= getLastUsage(code, v)
<1> DEFINE n == Len(code)
           U == Users(code, v)
           T == {n - i : i \in U}
<1>1. n \in Nat /\ U \subseteq 1 .. n
  BY LenProperties DEF Users
<1> HIDE DEF n, U
<1>2. T \subseteq Nat /\ T # {}
  <2>1. U # {}
    BY DEF U
  <2> QED
    BY <1>1, <2>1
<1>3. PICK k \in T : \A m \in T : k <= m
  <2> HIDE DEF T
  <2> QED
    BY <1>2, Least
<1>4. PICK i \in U : k = n - i
  OBVIOUS
<1>5. ASSUME NEW j \in U PROVE j <= i
  <2>1. n - i <= n - j /\ i \in 1 .. n /\ j \in 1 .. n
    BY <1>1, <1>3, <1>4
  <2> QED
    BY <1>1, <2>1
<1>6. getLastUsage(code, v) = CHOOSE x \in U : \A j \in U : j <= x
  BY DEF getLastUsage, U
<1> QED
  BY <1>5, <1>6 DEF U

(* Where a cleanup inserts its instruction, and which.                     *)
Place(code, c) == IF c.kind = "object" THEN getLastUsage(code, c.on) ELSE Len(code) - 1
Insert(c) == I(IF c.kind = "object" THEN "release" ELSE "release_var", c.on, Null)

(* The users of a value are still there behind an insertion.               *)
LEMMA UsersMoved ==
  ASSUME NEW S, NEW new \in Seq(S), NEW old \in Seq(S), NEW n \in 0 .. Len(old), NEW ins,
         Inserted(new, old, n, ins), NEW v, Users(old, v) # {}
  PROVE  Users(new, v) # {}
<1>1. Len(old) \in Nat /\ DOMAIN old = 1 .. Len(old) /\ DOMAIN new = 1 .. Len(new)
  BY LenProperties
<1>2. PICK i \in 1 .. Len(old) : i \in Users(old, v)
  BY <1>1 DEF Users
<1>3. CASE i <= n
  <2>1. i \in 1 .. n /\ i \in 1 .. Len(new)
    BY <1>1, <1>3 DEF Inserted
  <2>2. new[i] = old[i]
    BY <2>1 DEF Inserted
  <2> QED
    BY <1>1, <1>2, <2>1, <2>2 DEF Users
<1>4. CASE ~(i <= n)
  <2>1. i \in n + 1 .. Len(old) /\ i + 1 \in 1 .. Len(new)
    BY <1>1, <1>4 DEF Inserted
  <2>2. new[i + 1] = old[i]
    BY <2>1 DEF Inserted
  <2> QED
    BY <1>1, <1>2, <2>1, <2>2 DEF Users
<1> QED
  BY <1>3, <1>4

LEMMA ScopedOut ==
  ASSUME NEW bs, CodeOK(bs), NEW c \in Cleanups, CleanupOK(c, bs)
  PROVE  LET new == scopeOut(bs, c)
             n == Place(bs[c.bb], c)
         IN  /\ CodeOK(new) /\ Len(new) = Len(bs)
             /\ n \in 0 .. Len(bs[c.bb])
             /\ Inserted(new[c.bb], bs[c.bb], n, Insert(c))
             /\ \A d \in 1 .. Len(bs) : d # c.bb => new[d] = bs[d]
             /\ Keeps(bs, new)
<1> DEFINE b == c.bb
           code == bs[b]
           n == Place(code, c)
           m == Len(bs)
           r == InsertAfter(code, n, <<Insert(c)>>)
           new == scopeOut(bs, c)
<1>1. m \in Nat /\ b \in 1 .. m /\ code \in Code(m)
  <2>1. bs \in Seq(Code(m)) /\ b \in 1 .. m
    BY DEF CodeOK, CleanupOK
  <2> QED
    BY <2>1, LenProperties, ElementOfSeq
<1>2. Len(code) \in Nat /\ DOMAIN code = 1 .. Len(code)
  BY <1>1, LenProperties DEF Code
<1>3. n \in 0 .. Len(code)
  <2>1. CASE c.kind = "object"
    <3>1. Users(code, c.on) # {}
      BY <2>1 DEF CleanupOK
    <3>2. getLastUsage(code, c.on) \in Users(code, c.on)
      BY <1>1, <3>1, LastUsage DEF Code
    <3>3. getLastUsage(code, c.on) \in 1 .. Len(code)
      BY <1>2, <3>2 DEF Users
    <3> QED
      BY <1>2, <2>1, <3>3 DEF Place
  <2>2. CASE c.kind = "variable"
    <3>1. code # <<>>
      BY <2>2 DEF CleanupOK
    <3>2. Len(code) \in Nat \ {0}
      BY <1>1, <3>1, EmptySeq DEF Code
    <3> QED
      BY <2>2, <3>2 DEF Place
  <2> QED
    BY <2>1, <2>2 DEF Cleanups
<1>4. Insert(c) \in Instruction(m)
  <2>1. CASE c.kind = "object"
    <3>1. c.on \in Value
      BY <2>1 DEF CleanupOK
    <3> QED
      BY <1>1, <2>1, <3>1, Made DEF Insert
  <2>2. CASE c.kind = "variable"
    <3>1. c.on \in Local
      BY <2>2 DEF CleanupOK
    <3> QED
      BY <1>1, <2>2, <3>1, Made DEF Insert
  <2> QED
    BY <2>1, <2>2 DEF Cleanups
<1>5. r \in Code(m) /\ Inserted(r, code, n, Insert(c))
  <2> HIDE DEF code, n, m
  <2> QED
    BY <1>1, <1>3, <1>4, Insertion DEF Code
<1>6. new = [bs EXCEPT ![b] = r]
  <2>1. CASE c.kind = "object"
    BY <2>1 DEF scopeOut, Place, Insert
  <2>2. CASE c.kind = "variable"
    BY <2>2 DEF scopeOut, Place, Insert
  <2> QED
    BY <2>1, <2>2 DEF Cleanups
<1>7. /\ new \in Seq(Code(m)) /\ Len(new) = m /\ new[b] = r
      /\ \A d \in 1 .. m : d # b => new[d] = bs[d]
  <2>1. bs \in Seq(Code(m))
    BY DEF CodeOK
  <2> HIDE DEF new, r, code
  <2>2. /\ new \in Seq(Code(m)) /\ Len(new) = Len(bs)
        /\ \A d \in 1 .. Len(bs) : new[d] = IF d = b THEN r ELSE bs[d]
    BY <1>1, <1>5, <1>6, <2>1, ExceptSeq
  <2> QED
    BY <1>1, <2>2
<1>8. CodeOK(new)
  <2>1. m >= 1
    BY DEF CodeOK
  <2> QED
    BY <1>7, <2>1 DEF CodeOK
<1>9. Keeps(bs, new)
  <2>1. r # <<>>
    <3>1. Len(r) = Len(code) + 1
      BY <1>5 DEF Inserted
    <3> HIDE DEF r
    <3> QED
      BY <1>2, <3>1, EmptySeq
  <2>2. \A v : Users(code, v) # {} => Users(r, v) # {}
    <3> HIDE DEF r, code, n
    <3> QED
      BY <1>1, <1>3, <1>5, UsersMoved DEF Code
  <2> HIDE DEF new, r, code
  <2>3. ASSUME NEW d \in 1 .. m
        PROVE  /\ bs[d] # <<>> => new[d] # <<>>
               /\ \A v : Users(bs[d], v) # {} => Users(new[d], v) # {}
    <3>1. CASE d = b
      BY <1>7, <2>1, <2>2, <3>1 DEF code
    <3>2. CASE d # b
      BY <1>7, <3>2
    <3> QED
      BY <3>1, <3>2
  <2>4. Len(bs) <= Len(new)
    BY <1>1, <1>7
  <2> QED
    BY <2>3, <2>4, Zenon DEF Keeps
<1>10. Inserted(new[b], code, n, Insert(c))
  BY <1>5, <1>7
<1> QED
  BY <1>3, <1>7, <1>8, <1>9, <1>10, Zenon

LEMMA KeepsMore ==
  ASSUME NEW as, CodeOK(as), NEW bs, CodeOK(bs), Keeps(as, bs)
  PROVE  /\ \A c : CleanupOK(c, as) => CleanupOK(c, bs)
         /\ \A s : ScopeOK(s, as) => ScopeOK(s, bs)
         /\ \A ss : ScopesOK(ss, as) => ScopesOK(ss, bs)
         /\ \A cs : CodeOK(cs) /\ Keeps(bs, cs) => Keeps(as, cs)
<1> DEFINE m == Len(as)
           n == Len(bs)
<1>1. m \in Nat /\ n \in Nat /\ m <= n
  BY LenProperties DEF CodeOK, Keeps
<1>2. \A b \in 1 .. Len(as) : b \in 1 .. Len(bs)
  <2> HIDE DEF m, n
  <2>1. \A b \in 1 .. m : b \in 1 .. n
    BY <1>1
  <2> QED
    BY <2>1 DEF m, n
<1>3. ASSUME NEW c, CleanupOK(c, as) PROVE CleanupOK(c, bs)
  BY <1>2, <1>3, Zenon DEF CleanupOK, Keeps
<1>4. ASSUME NEW s, ScopeOK(s, as) PROVE ScopeOK(s, bs)
  BY <1>2, <1>3, <1>4, Zenon DEF ScopeOK
<1>5. ASSUME NEW ss, ScopesOK(ss, as) PROVE ScopesOK(ss, bs)
  BY <1>4, <1>5, Zenon DEF ScopesOK
<1>6. ASSUME NEW cs, CodeOK(cs), Keeps(bs, cs) PROVE Keeps(as, cs)
  <2>1. Len(as) <= Len(cs)
    <3> DEFINE k == Len(cs)
    <3>1. k \in Nat /\ n <= k
      BY <1>6, LenProperties DEF CodeOK, Keeps
    <3> HIDE DEF m, n, k
    <3>2. m <= k
      BY <1>1, <3>1
    <3> QED
      BY <3>2 DEF m, k
  <2> QED
    BY <1>2, <1>6, <2>1, Zenon DEF Keeps
<1> QED
  BY <1>3, <1>4, <1>5, <1>6, Zenon

(* The code that the loop over the cleanups of the scope goes through.     *)
CleansThrough(f) ==
  /\ f[0] = blocks
  /\ \A i \in 0 .. Len(Scope.cleanups) :
       CodeOK(f[i]) /\ Len(f[i]) = Len(blocks) /\ Keeps(blocks, f[i])
  /\ \A i \in 1 .. Len(Scope.cleanups) : f[i] = scopeOut(f[i - 1], Scope.cleanups[i])
  /\ doCleanup = f[Len(Scope.cleanups)]

LEMMA CleanupLoop ==
  ASSUME CodeOK(blocks), Scope \in Scopes, ScopeOK(Scope, blocks)
  PROVE  \E f : CleansThrough(f)
<1> DEFINE cs == Scope.cleanups
           n == Len(cs)
           V == {bs \in Seq(Code(Len(blocks))) : Len(bs) = Len(blocks) /\ Keeps(blocks, bs)}
           H == [i \in 1 .. n |-> [bs \in V |-> scopeOut(bs, cs[i])]]
           Loop(f) == f = [i \in 0 .. n |-> IF i = 0 THEN blocks ELSE scopeOut(f[i - 1], cs[i])]
           cleaned == CHOOSE f : Loop(f)
<1>1. /\ n \in Nat /\ \A i \in 1 .. n : cs[i] \in Cleanups
      /\ Len(blocks) \in Nat /\ Len(blocks) >= 1
  <2>1. cs \in Seq(Cleanups) /\ blocks \in Seq(Code(Len(blocks))) /\ Len(blocks) >= 1
    BY DEF Scopes, CodeOK
  <2> HIDE DEF cs
  <2> QED
    BY <2>1, LenProperties, ElementOfSeq
<1>2. \A bs : bs \in V <=> CodeOK(bs) /\ Len(bs) = Len(blocks) /\ Keeps(blocks, bs)
  BY <1>1 DEF CodeOK
<1>3. \A i \in 1 .. n : CleanupOK(cs[i], blocks)
  BY DEF ScopeOK
<1> HIDE DEF V, cs
<1>4. ASSUME NEW i \in 1 .. n, NEW bs \in V PROVE scopeOut(bs, cs[i]) \in V
  <2>1. CodeOK(bs) /\ Len(bs) = Len(blocks) /\ Keeps(blocks, bs)
    BY <1>2
  <2>2. cs[i] \in Cleanups /\ CleanupOK(cs[i], bs)
    BY <1>1, <1>3, <2>1, KeepsMore
  <2>3. CodeOK(scopeOut(bs, cs[i])) /\ Len(scopeOut(bs, cs[i])) = Len(bs) /\ Keeps(bs, scopeOut(bs, cs[i]))
    BY <2>1, <2>2, ScopedOut
  <2>4. Keeps(blocks, scopeOut(bs, cs[i]))
    BY <2>1, <2>3, KeepsMore, Zenon
  <2> QED
    BY <1>2, <2>1, <2>3, <2>4, Zenon
<1>5. H \in [1 .. n -> [V -> V]]
  BY <1>4
<1>6. blocks \in V
  <2>1. Keeps(blocks, blocks)
    BY <1>1 DEF Keeps
  <2> QED
    BY <1>2, <2>1
<1>7. PICK f : Rounds(f, n, V, blocks, H)
  <2> HIDE DEF H, n
  <2> QED
    BY <1>1, <1>5, <1>6, LoopRecursion
<1>8. \A i \in 1 .. n : f[i - 1] \in V /\ f[i] = scopeOut(f[i - 1], cs[i])
  <2> TAKE i \in 1 .. n
  <2>1. i - 1 \in 0 .. n
    BY <1>1
  <2>2. f[i - 1] \in V
    BY <1>7, <2>1 DEF Rounds
  <2> QED
    BY <1>7, <2>2 DEF Rounds
<1>9. Loop(f)
  <2>1. ASSUME NEW i \in 0 .. n
        PROVE  f[i] = IF i = 0 THEN blocks ELSE scopeOut(f[i - 1], cs[i])
    <3>1. i # 0 => i \in 1 .. n
      BY <1>1
    <3> QED
      BY <1>7, <1>8, <3>1 DEF Rounds
  <2> HIDE DEF n
  <2> QED
    BY <1>7, <2>1 DEF Rounds
<1>10. Loop(cleaned)
  <2> HIDE DEF Loop
  <2> QED
    BY <1>9
<1>11. /\ cleaned[0] = blocks
       /\ \A i \in 1 .. n : cleaned[i] = scopeOut(cleaned[i - 1], cs[i])
  <2> HIDE DEF cleaned
  <2> QED
    BY <1>1, <1>10
<1>12. \A i \in 0 .. n : cleaned[i] = f[i]
  <2> DEFINE T == {i \in Nat : i <= n => cleaned[i] = f[i]}
  <2>1. 0 \in T
    BY <1>7, <1>11 DEF Rounds
  <2>2. ASSUME NEW i \in Nat, i \in T PROVE i + 1 \in T
    <3> SUFFICES ASSUME i + 1 <= n PROVE cleaned[i + 1] = f[i + 1]
      OBVIOUS
    <3>1. i + 1 \in 1 .. n /\ (i + 1) - 1 = i /\ i <= n
      BY <1>1
    <3> HIDE DEF cleaned, n
    <3> QED
      BY <1>8, <1>11, <2>2, <3>1
  <2>3. Nat \subseteq T
    <3> HIDE DEF T
    <3> QED
      BY <2>1, <2>2, SetInduction
  <2>4. \A i \in 0 .. n : i \in Nat /\ i <= n
    BY <1>1
  <2> QED
    BY <2>3, <2>4
<1>13. doCleanup = cleaned[n]
  BY DEF doCleanup, cs
<1> HIDE DEF cleaned
<1>14. n \in 0 .. n /\ \A i \in 0 .. n : f[i] \in V
  BY <1>1, <1>7 DEF Rounds
<1>15. CleansThrough(f)
  <2>1. f[0] = blocks /\ doCleanup = f[n]
    BY <1>7, <1>12, <1>13, <1>14 DEF Rounds
  <2> QED
    BY <1>2, <1>8, <1>14, <2>1, Zenon DEF CleansThrough, cs
<1> QED
  BY <1>15

(* What it ends with has the blocks and the places of the code before.     *)
LEMMA CleanedUp ==
  ASSUME CodeOK(blocks), Scope \in Scopes, ScopeOK(Scope, blocks)
  PROVE  CodeOK(doCleanup) /\ Len(doCleanup) = Len(blocks) /\ Keeps(blocks, doCleanup)
<1>1. PICK f : CleansThrough(f)
  BY CleanupLoop
<1>2. Len(Scope.cleanups) \in 0 .. Len(Scope.cleanups)
  <2>1. Scope.cleanups \in Seq(Cleanups)
    BY DEF Scopes
  <2>2. Len(Scope.cleanups) \in Nat
    BY <2>1, LenProperties
  <2> QED
    BY <2>2
<1> QED
  BY <1>1, <1>2, Zenon DEF CleansThrough

-----------------------------------------------------------------------------
(* Types.                                                                  *)

(* Every statement defines at most one value, and costs one of the budget  *)
(* but for the return of the function, which closes it.                    *)
Counters ==
  /\ phase \in {"generate", "crashed", "malformed", "run"} \cup End
  /\ budget \in 0 .. MaxStatements
  /\ declared \subseteq Local
  /\ values \in Value
  /\ phase = "generate" /\ (Len(scopes) > 1 \/ ~Scope.closed) =>
       values + budget <= MaxStatements + 1

(* What the generator does not use: the state of a function to be run.     *)
Untouched ==
  /\ pc = <<1, 1>>
  /\ env = [x \in Name |-> IF x \in Param THEN Caller
                         ELSE IF x \in Field THEN Null ELSE Garbage]
  /\ vals = [v \in Value |-> Garbage]
  /\ refs = [o \in {Caller} |-> 0]
  /\ result = Null

Memory ==
  /\ env \in [Name -> Value \cup {Null, Garbage}]
  /\ vals \in [Value -> Value \cup {Null, Garbage}]
  /\ DOMAIN refs \subseteq Value /\ refs \in [DOMAIN refs -> Nat]
  /\ result \in Value \cup {Null, Garbage}

TypeInv ==
  /\ Counters
  /\ CodeOK(blocks)
  /\ ScopesOK(scopes, blocks)
  /\ Len(scopes) >= 1 => scopes[1].kind = "function"
  /\ phase = "generate" => /\ Len(scopes) >= 1 /\ (Len(scopes) > 1 => Len(blocks) > 1)
                           /\ Untouched
  /\ phase = "run" => /\ pc[1] \in 1 .. Len(blocks) /\ pc[2] \in 1 .. Len(blocks[pc[1]])
                      /\ pc = <<pc[1], pc[2]>>
                      /\ WellFormedModule(blocks)
  /\ Memory

LEMMA ValuesNatural == Value \subseteq Nat /\ Caller \in Value /\ Null \in Nat /\ Null \notin Value
                       /\ Garbage \notin Value /\ Garbage # Null
  BY BoundsNatural DEF Value, Caller, Null, Garbage

(* The current scope.                                                      *)
LEMMA Innermost ==
  ASSUME CodeOK(blocks), ScopesOK(scopes, blocks), Len(scopes) >= 1
  PROVE  /\ Len(scopes) \in Nat /\ Len(blocks) \in Nat /\ Len(blocks) >= 1
         /\ Scope = scopes[Len(scopes)] /\ Scope \in Scopes /\ ScopeOK(Scope, blocks)
         /\ Scope.bb \in 1 .. Len(blocks)
         /\ \A b \in 1 .. Len(blocks) : blocks[b] \in Code(Len(blocks))
<1> DEFINE n == Len(scopes)
<1>1. n \in Nat /\ n \in 1 .. n /\ scopes \in Seq(Scopes)
  BY LenProperties DEF ScopesOK
<1>2. Scope = scopes[n]
  BY DEF Scope, Last
<1>3. scopes[n] \in Scopes /\ ScopeOK(scopes[n], blocks)
  BY <1>1, ElementOfSeq DEF ScopesOK
<1>4. blocks \in Seq(Code(Len(blocks))) /\ Len(blocks) >= 1
  BY DEF CodeOK
<1>5. Len(blocks) \in Nat /\ \A b \in 1 .. Len(blocks) : blocks[b] \in Code(Len(blocks))
  BY <1>4, LenProperties, ElementOfSeq
<1> QED
  BY <1>1, <1>2, <1>3, <1>4, <1>5 DEF ScopeOK

(* The current scope becomes s.                                            *)
LEMMA ScopeReplaced ==
  ASSUME NEW ss, NEW bs, ScopesOK(ss, bs), Len(ss) >= 1, NEW s \in Scopes, ScopeOK(s, bs)
  PROVE  LET r == Append(Front(ss), s)
         IN  /\ ScopesOK(r, bs) /\ Len(r) = Len(ss) /\ Last(r) = s /\ r[Len(ss)] = s
             /\ \A n \in 1 .. Len(ss) - 1 : r[n] = ss[n]
<1> DEFINE r == Append(Front(ss), s)
           m == Len(ss)
<1>1. m \in Nat /\ ss \in Seq(Scopes)
  BY LenProperties DEF ScopesOK
<1>2. /\ r \in Seq(Scopes) /\ Len(r) = m /\ r[m] = s
      /\ \A n \in 1 .. m - 1 : r[n] = ss[n]
  BY <1>1, Replaced DEF Front
<1> HIDE DEF r
<1>3. ASSUME NEW n \in 1 .. m PROVE ScopeOK(r[n], bs)
  <2>1. CASE n = m
    BY <1>2, <2>1
  <2>2. CASE n # m
    <3>1. n \in 1 .. m - 1
      BY <1>1, <2>2
    <3> QED
      BY <1>2, <3>1 DEF ScopesOK
  <2> QED
    BY <2>1, <2>2
<1>4. Last(r) = s
  BY <1>2 DEF Last
<1>5. ScopesOK(r, bs)
  BY <1>2, <1>3 DEF ScopesOK
<1> QED
  BY <1>2, <1>4, <1>5 DEF r

LEMMA ScopePushed ==
  ASSUME NEW ss, NEW bs, ScopesOK(ss, bs), NEW s \in Scopes, ScopeOK(s, bs)
  PROVE  /\ ScopesOK(Append(ss, s), bs) /\ Len(Append(ss, s)) = Len(ss) + 1
         /\ \A n \in 1 .. Len(ss) : Append(ss, s)[n] = ss[n]
         /\ Last(Append(ss, s)) = s
<1> DEFINE r == Append(ss, s)
           m == Len(ss)
<1>1. m \in Nat /\ ss \in Seq(Scopes)
  BY LenProperties DEF ScopesOK
<1>2. /\ r \in Seq(Scopes) /\ Len(r) = m + 1 /\ r[m + 1] = s
      /\ \A n \in 1 .. m : r[n] = ss[n]
  BY <1>1, AppendProperties
<1> HIDE DEF r
<1>3. ASSUME NEW n \in 1 .. m + 1 PROVE ScopeOK(r[n], bs)
  <2>1. CASE n = m + 1
    BY <1>2, <2>1
  <2>2. CASE n # m + 1
    <3>1. n \in 1 .. m
      BY <1>1, <2>2
    <3> QED
      BY <1>2, <3>1 DEF ScopesOK
  <2> QED
    BY <2>1, <2>2
<1>4. Last(r) = s
  BY <1>2 DEF Last
<1>5. ScopesOK(r, bs)
  BY <1>2, <1>3 DEF ScopesOK
<1> QED
  BY <1>2, <1>4, <1>5 DEF r

LEMMA ScopePopped ==
  ASSUME NEW ss, NEW bs, ScopesOK(ss, bs), Len(ss) >= 1
  PROVE  /\ ScopesOK(Front(ss), bs) /\ Len(Front(ss)) = Len(ss) - 1
         /\ \A n \in 1 .. Len(ss) - 1 : Front(ss)[n] = ss[n]
<1> DEFINE r == Front(ss)
           m == Len(ss)
<1>1. m \in Nat /\ ss \in Seq(Scopes)
  BY LenProperties DEF ScopesOK
<1>2. r \in Seq(Scopes) /\ Len(r) = m - 1 /\ \A n \in 1 .. m - 1 : r[n] = ss[n]
  BY <1>1, Popped DEF Front
<1> HIDE DEF r
<1>3. ASSUME NEW n \in 1 .. m - 1 PROVE ScopeOK(r[n], bs)
  <2>1. n \in 1 .. m
    BY <1>1
  <2> QED
    BY <1>2, <2>1 DEF ScopesOK
<1>4. ScopesOK(r, bs)
  BY <1>2, <1>3 DEF ScopesOK
<1> QED
  BY <1>2, <1>4 DEF r

(* The scope gets a cleanup.                                               *)
LEMMA CleanupAdded ==
  ASSUME NEW bs, NEW s \in Scopes, ScopeOK(s, bs), NEW kind, NEW on,
         Cleanup(kind, on) \in Cleanups, CleanupOK(Cleanup(kind, on), bs)
  PROVE  LET r == WithCleanup(s, kind, on)
         IN  /\ r \in Scopes /\ ScopeOK(r, bs)
             /\ r.kind = s.kind /\ r.bb = s.bb /\ r.names = s.names /\ r.closed = s.closed
             /\ r.cleanups = Append(s.cleanups, Cleanup(kind, on))
<1> DEFINE r == WithCleanup(s, kind, on)
           c == Cleanup(kind, on)
           cs == s.cleanups
           ds == Append(cs, c)
           m == Len(cs)
<1>1. cs \in Seq(Cleanups)
  BY DEF Scopes
<1> HIDE DEF c, cs
<1>2. m \in Nat /\ ds \in Seq(Cleanups) /\ Len(ds) = m + 1 /\ ds[m + 1] = c
      /\ \A a \in 1 .. m : ds[a] = cs[a]
  <2>1. c \in Cleanups
    BY DEF c
  <2> QED
    BY <1>1, <2>1, LenProperties, AppendProperties
<1>3. r = [s EXCEPT !.cleanups = ds]
  BY DEF WithCleanup, c, cs
<1> HIDE DEF r, ds
<1>4. r \in Scopes /\ r.cleanups = ds
  BY <1>2, <1>3 DEF Scopes
<1>5. /\ r.kind = s.kind /\ r.bb = s.bb /\ r.names = s.names /\ r.closed = s.closed
      /\ r.first = s.first /\ r.then = s.then
  BY <1>3 DEF Scopes
<1>6. ASSUME NEW a \in 1 .. m + 1 PROVE CleanupOK(ds[a], bs)
  <2>1. CASE a = m + 1
    BY <1>2, <2>1 DEF c
  <2>2. CASE a # m + 1
    <3>1. a \in 1 .. m
      BY <1>2, <2>2
    <3> QED
      BY <1>2, <3>1 DEF ScopeOK, cs
  <2> QED
    BY <2>1, <2>2
<1>7. ScopeOK(r, bs)
  BY <1>2, <1>4, <1>5, <1>6 DEF ScopeOK
<1> QED
  BY <1>4, <1>5, <1>7 DEF r, ds, cs, c

(* Instructions t are appended to block b.                                 *)
AppendedTo(bs, as, b, t) ==
  /\ CodeOK(bs) /\ Len(bs) = Len(as) /\ Keeps(as, bs)
  /\ bs[b] = as[b] \o t /\ bs[b] # <<>>
  /\ \A d \in 1 .. Len(as) : d # b => bs[d] = as[d]
  /\ \A v : Users(t, v) # {} => Users(bs[b], v) # {}

LEMMA Emitted ==
  ASSUME NEW as, CodeOK(as), NEW b \in 1 .. Len(as), NEW t \in Code(Len(as)), t # <<>>
  PROVE  AppendedTo([as EXCEPT ![b] = @ \o t], as, b, t)
<1> DEFINE m == Len(as)
           code == as[b]
           r == code \o t
           bs == [as EXCEPT ![b] = @ \o t]
           S == Instruction(m)
<1>1. /\ m \in Nat /\ m >= 1 /\ as \in Seq(Seq(S)) /\ b \in 1 .. m /\ code \in Seq(S)
      /\ t \in Seq(S)
  <2>1. as \in Seq(Seq(S)) /\ t \in Seq(S) /\ m >= 1
    BY DEF CodeOK, Code
  <2> QED
    BY <2>1, LenProperties, ElementOfSeq
<1> HIDE DEF S
<1>2. /\ r \in Seq(S) /\ Len(r) = Len(code) + Len(t)
      /\ \A i \in 1 .. Len(code) : r[i] = code[i]
      /\ \A i \in 1 .. Len(t) : r[Len(code) + i] = t[i]
  <2>1. code \in Seq(S) /\ t \in Seq(S)
    BY <1>1
  <2> HIDE DEF code
  <2> QED
    BY <2>1, Joined
<1>3. /\ Len(code) \in Nat /\ Len(t) \in Nat /\ Len(t) >= 1
      /\ DOMAIN code = 1 .. Len(code) /\ DOMAIN t = 1 .. Len(t) /\ DOMAIN r = 1 .. Len(r)
  <2>1. Len(t) \in Nat \ {0}
    BY <1>1, EmptySeq
  <2>2. Len(code) \in Nat /\ DOMAIN code = 1 .. Len(code)
    BY <1>1, LenProperties
  <2>3. DOMAIN t = 1 .. Len(t)
    BY <1>1, LenProperties
  <2>4. DOMAIN r = 1 .. Len(r)
    <3> HIDE DEF r
    <3> QED
      BY <1>2, LenProperties
  <2>5. Len(t) \in Nat /\ Len(t) >= 1
    BY <2>1
  <2> QED
    BY <2>2, <2>3, <2>4, <2>5
<1>4. bs = [as EXCEPT ![b] = r]
  OBVIOUS
<1> HIDE DEF r, bs, code
<1>5. /\ bs \in Seq(Seq(S)) /\ Len(bs) = m /\ bs[b] = r
      /\ \A d \in 1 .. m : d # b => bs[d] = as[d]
  <2>1. /\ bs \in Seq(Seq(S)) /\ Len(bs) = Len(as)
        /\ \A d \in 1 .. Len(as) : bs[d] = IF d = b THEN r ELSE as[d]
    <3> DEFINE T == Seq(S)
    <3>1. as \in Seq(T) /\ b \in 1 .. Len(as) /\ r \in T
      BY <1>1, <1>2
    <3> HIDE DEF T, m
    <3>2. bs \in Seq(T) /\ Len(bs) = Len(as)
      BY <1>4, <3>1, ExceptSeq, ZenonT(60)
    <3>3. DOMAIN as = 1 .. Len(as)
      BY <3>1, LenProperties
    <3>4. \A d \in 1 .. Len(as) : bs[d] = IF d = b THEN r ELSE as[d]
      BY <1>4, <3>3
    <3> QED
      BY <3>2, <3>4 DEF T
  <2> QED
    BY <1>1, <2>1
<1>6. CodeOK(bs)
  BY <1>1, <1>5 DEF CodeOK, Code, S
<1>7. r # <<>>
  <2>1. Len(r) # 0
    BY <1>2, <1>3
  <2> QED
    BY <1>2, <2>1, EmptySeq
<1>8. ASSUME NEW v, Users(code, v) # {} PROVE Users(r, v) # {}
  <2>1. PICK i \in 1 .. Len(code) : i \in Users(code, v)
    BY <1>3, <1>8 DEF Users
  <2>2. i \in 1 .. Len(r) /\ r[i] = code[i]
    BY <1>2, <1>3
  <2> QED
    BY <1>3, <2>1, <2>2 DEF Users
<1>9. ASSUME NEW v, Users(t, v) # {} PROVE Users(r, v) # {}
  <2>1. PICK i \in 1 .. Len(t) : i \in Users(t, v)
    BY <1>3, <1>9 DEF Users
  <2>2. Len(code) + i \in 1 .. Len(r) /\ r[Len(code) + i] = t[i]
    BY <1>2, <1>3
  <2> QED
    BY <1>3, <2>1, <2>2 DEF Users
<1>10. Keeps(as, bs)
  <2>1. ASSUME NEW d \in 1 .. m
        PROVE  /\ as[d] # <<>> => bs[d] # <<>>
               /\ \A v : Users(as[d], v) # {} => Users(bs[d], v) # {}
    <3>1. CASE d = b
      BY <1>5, <1>7, <1>8, <3>1 DEF code
    <3>2. CASE d # b
      BY <1>5, <3>2
    <3> QED
      BY <3>1, <3>2
  <2>2. Len(as) <= Len(bs)
    BY <1>1, <1>5
  <2> QED
    BY <2>1, <2>2, Zenon DEF Keeps
<1>11. bs[b] = as[b] \o t
  BY <1>5 DEF r, code
<1> QED
  BY <1>5, <1>6, <1>7, <1>9, <1>10, <1>11, Zenon DEF AppendedTo, bs

(* A block is appended.                                                    *)
LEMMA BlockAdded ==
  ASSUME NEW as, CodeOK(as)
  PROVE  LET bs == Append(as, <<>>)
         IN  /\ CodeOK(bs) /\ Len(bs) = Len(as) + 1 /\ Keeps(as, bs)
             /\ \A d \in 1 .. Len(as) : bs[d] = as[d]
<1> DEFINE m == Len(as)
           bs == Append(as, <<>>)
<1>1. m \in Nat /\ m >= 1 /\ as \in Seq(Code(m + 1))
  <2>1. m \in Nat /\ m >= 1 /\ as \in Seq(Code(m))
    BY LenProperties DEF CodeOK
  <2> HIDE DEF m
  <2>2. m + 1 \in Nat /\ m <= m + 1
    BY <2>1
  <2> QED
    BY <2>1, <2>2, Wider
<1>2. <<>> \in Code(m + 1)
  BY EmptySeq DEF Code
<1>3. /\ bs \in Seq(Code(m + 1)) /\ Len(bs) = m + 1
      /\ \A d \in 1 .. m : bs[d] = as[d]
  <2> DEFINE T == Code(m + 1)
  <2>1. as \in Seq(T) /\ <<>> \in T
    BY <1>1, <1>2
  <2> DEFINE e == <<>>
  <2>2. bs = Append(as, e)
    OBVIOUS
  <2>3. e \in T
    BY <2>1
  <2> HIDE DEF T, bs, e, m
  <2>4. bs \in Seq(T) /\ Len(bs) = Len(as) + 1
    BY <2>1, <2>2, <2>3, AppendProperties
  <2>5. \A d \in 1 .. Len(as) : bs[d] = as[d]
    BY <2>1, <2>2, <2>3, AppendProperties
  <2> QED
    BY <2>4, <2>5 DEF T, m
<1> HIDE DEF bs, m
<1>4. CodeOK(bs) /\ Len(as) <= Len(bs)
  <2>1. m + 1 >= 1 /\ m <= m + 1
    BY <1>1
  <2>2. CodeOK(bs)
    BY <1>3, <2>1 DEF CodeOK
  <2> QED
    BY <1>3, <2>1, <2>2 DEF m
<1>5. Keeps(as, bs)
  BY <1>3, <1>4, Zenon DEF Keeps, m
<1> QED
  BY <1>3, <1>4, <1>5, Zenon DEF bs, m

(* The generator's steps leave this behind.                                *)
Generated ==
  /\ CodeOK(blocks') /\ ScopesOK(scopes', blocks') /\ Len(scopes') >= 1
  /\ scopes'[1].kind = "function"
  /\ Len(scopes') > 1 => Len(blocks') > 1

(* It is enough to know what happens to the current scope, unless a block  *)
(* begins or ends.                                                         *)
LEMMA SameScopes ==
  ASSUME TypeInv, phase = "generate", CodeOK(blocks'), Keeps(blocks, blocks'),
         NEW s \in Scopes, ScopeOK(s, blocks'), s.kind = Scope.kind, scopes' = WithScope(s)
  PROVE  Generated /\ Scope' = s /\ Len(scopes') = Len(scopes)
<1> DEFINE n == Len(scopes)
           m == Len(blocks)
           k == Len(blocks')
<1>1. n \in Nat /\ n >= 1 /\ m \in Nat /\ ScopesOK(scopes, blocks) /\ CodeOK(blocks)
      /\ Scope = scopes[n] /\ (n > 1 => m > 1) /\ scopes[1].kind = "function"
  BY Innermost DEF TypeInv
<1>2. m <= k /\ k \in Nat
  BY LenProperties DEF Keeps, CodeOK
<1>3. ScopesOK(scopes, blocks')
  BY <1>1, KeepsMore
<1>4. /\ ScopesOK(scopes', blocks') /\ Len(scopes') = n /\ Last(scopes') = s
      /\ scopes'[n] = s /\ \A i \in 1 .. n - 1 : scopes'[i] = scopes[i]
  BY <1>1, <1>3, ScopeReplaced DEF WithScope
<1> HIDE DEF n, m, k
<1>5. scopes'[1].kind = "function"
  <2>1. CASE n = 1
    BY <1>1, <1>4, <2>1
  <2>2. CASE n # 1
    <3>1. 1 \in 1 .. n - 1
      BY <1>1, <2>2
    <3> QED
      BY <1>1, <1>4, <3>1
  <2> QED
    BY <2>1, <2>2
<1>6. n > 1 => k > 1
  BY <1>1, <1>2
<1> QED
  BY <1>1, <1>4, <1>5, <1>6 DEF Generated, Scope, n, k

(* The same for a step that leaves the scopes alone.                       *)
LEMMA ScopesKept ==
  ASSUME TypeInv, phase = "generate", CodeOK(blocks'), Keeps(blocks, blocks'),
         UNCHANGED scopes
  PROVE  Generated
<1>1. ScopesOK(scopes, blocks')
  BY KeepsMore DEF TypeInv
<1>2. Len(blocks) \in Nat /\ Len(blocks') \in Nat /\ Len(blocks) <= Len(blocks')
  BY LenProperties DEF TypeInv, CodeOK, Keeps
<1>3. Len(scopes) > 1 => Len(blocks') > 1
  BY <1>2 DEF TypeInv
<1> QED
  BY <1>1, <1>3 DEF TypeInv, Generated

(* A step of the generator that goes on.                                   *)
LEMMA GoesOn ==
  ASSUME TypeInv, phase = "generate", phase' = "generate", UNCHANGED machine, Counters', Generated
  PROVE  TypeInv'
<1>1. Untouched' /\ Memory'
  BY DEF TypeInv, Untouched, Memory, machine
<1> QED
  BY <1>1 DEF TypeInv, Generated

LEMMA StatementCounts ==
  ASSUME TypeInv, Statement, declared' \subseteq Local, values' \in {values, Fresh}
  PROVE  Counters' /\ Fresh \in Value /\ phase' = "generate" /\ phase = "generate" /\ UNCHANGED machine
<1>1. /\ phase = "generate" /\ phase' = "generate" /\ UNCHANGED machine
      /\ budget > 0 /\ budget' = budget - 1 /\ ~Scope.closed
  BY DEF Statement
<1>2. budget \in 0 .. MaxStatements /\ values \in 1 .. MaxStatements + 2
      /\ values + budget <= MaxStatements + 1
  BY <1>1 DEF TypeInv, Counters, Value
<1>3. Fresh = values + 1 /\ values' \in {values, values + 1} /\ MaxStatements \in Nat
  BY BoundsNatural DEF Fresh
<1>4. budget' \in 0 .. MaxStatements /\ values' + budget' <= MaxStatements + 1
  <2>1. CASE values' = values
    BY <1>1, <1>2, <1>3, <2>1
  <2>2. CASE values' = values + 1
    BY <1>1, <1>2, <1>3, <2>2
  <2> QED
    BY <1>3, <2>1, <2>2
<1>5. Fresh \in Value /\ values' \in Value
  BY <1>1, <1>2, <1>3 DEF Value
<1> QED
  BY <1>1, <1>4, <1>5 DEF Counters

LEMMA ReturnCounts ==
  ASSUME TypeInv, ReturnStatement
  PROVE  /\ Fresh \in Value /\ phase' = "generate" /\ phase = "generate" /\ UNCHANGED machine
         /\ values' \in {values, Fresh} /\ Len(scopes') = Len(scopes) /\ Scope'.closed
            => Counters'
<1>1. /\ phase = "generate" /\ phase' = "generate" /\ UNCHANGED machine /\ declared' = declared
      /\ ~Scope.closed
      /\ \/ Len(scopes) = 1 /\ budget' = budget
         \/ Len(scopes) > 1 /\ budget > 0 /\ budget' = budget - 1
  BY DEF ReturnStatement
<1>2. budget \in 0 .. MaxStatements /\ values \in 1 .. MaxStatements + 2
      /\ values + budget <= MaxStatements + 1 /\ declared \subseteq Local
  BY <1>1 DEF TypeInv, Counters, Value
<1>3. Fresh \in Value /\ budget' \in 0 .. MaxStatements
  BY <1>1, <1>2, BoundsNatural DEF Fresh, Value
<1>4. ASSUME values' \in {values, Fresh}, Len(scopes') = Len(scopes), Scope'.closed
      PROVE  Counters'
  <2>1. values' \in Value
    BY <1>2, <1>3, <1>4 DEF Value
  <2>2. ASSUME Len(scopes') > 1 PROVE values' + budget' <= MaxStatements + 1
    <3>1. budget > 0 /\ budget' = budget - 1
      BY <1>1, <1>4, <2>2
    <3>2. values' \in {values, values + 1} /\ MaxStatements \in Nat
      BY <1>4, BoundsNatural DEF Fresh
    <3>3. CASE values' = values
      BY <1>2, <3>1, <3>2, <3>3
    <3>4. CASE values' = values + 1
      BY <1>2, <3>1, <3>2, <3>4
    <3> QED
      BY <3>2, <3>3, <3>4
  <2> QED
    BY <1>1, <1>2, <1>3, <1>4, <2>1, <2>2 DEF Counters
<1> QED
  BY <1>1, <1>3, <1>4

(* What the statements append to the current block.                        *)
Appended(t) ==
  /\ AppendedTo(blocks', blocks, Scope.bb, t)
  /\ Scope \in Scopes /\ ScopeOK(Scope, blocks) /\ ScopeOK(Scope, blocks')
  /\ Scope.bb \in 1 .. Len(blocks')

LEMMA Appends ==
  ASSUME TypeInv, phase = "generate", NEW t \in Code(Len(blocks)), t # <<>>, Emit(t)
  PROVE  Appended(t)
<1>1. /\ CodeOK(blocks) /\ Scope \in Scopes /\ ScopeOK(Scope, blocks)
      /\ Scope.bb \in 1 .. Len(blocks)
  BY Innermost DEF TypeInv
<1>2. blocks' = [blocks EXCEPT ![Scope.bb] = @ \o t]
  BY DEF Emit
<1>3. AppendedTo(blocks', blocks, Scope.bb, t)
  BY <1>1, <1>2, Emitted, Zenon
<1>4. ScopeOK(Scope, blocks')
  BY <1>1, <1>3, KeepsMore DEF AppendedTo
<1> QED
  BY <1>1, <1>3, <1>4 DEF Appended, AppendedTo

(* A `new` operand.                                                        *)
LEMMA NewAppends ==
  ASSUME TypeInv, phase = "generate", Fresh \in Value,
         NEW user \in Instruction(Len(blocks)), NewOperand(user)
  PROVE  /\ Appended(<<I("new", Fresh, Null), I("init", Fresh, Null), user>>)
         /\ values' = Fresh
         /\ Cleanup("object", Fresh) \in Cleanups
         /\ CleanupOK(Cleanup("object", Fresh), blocks')
<1> DEFINE t == <<I("new", Fresh, Null), I("init", Fresh, Null), user>>
           S == Instruction(Len(blocks))
<1>1. Len(blocks) \in Nat /\ Scope.bb \in 1 .. Len(blocks)
  BY Innermost DEF TypeInv
<1>2. I("new", Fresh, Null) \in S /\ I("init", Fresh, Null) \in S
  BY <1>1, Made
<1>3. t \in Seq(S) /\ t # <<>>
  <2>1. user \in S
    OBVIOUS
  <2> HIDE DEF S
  <2> QED
    BY <1>2, <2>1
<1>4. values' = Fresh /\ Emit(t)
  BY DEF NewOperand
<1>5. Appended(t)
  <2> HIDE DEF t
  <2> QED
    BY <1>3, <1>4, Appends DEF Code
<1>6. Users(t, Fresh) # {}
  <2>1. 2 \in DOMAIN t /\ t[2] = I("init", Fresh, Null)
    OBVIOUS
  <2> HIDE DEF t
  <2>2. t[2].op = "init" /\ t[2].on = Fresh
    BY <2>1 DEF I
  <2>3. 2 \in Users(t, Fresh)
    BY <2>1, <2>2 DEF Users
  <2> QED
    BY <2>3
<1>7. Users(blocks'[Scope.bb], Fresh) # {}
  BY <1>5, <1>6 DEF Appended, AppendedTo
<1>8. Cleanup("object", Fresh) \in Cleanups
  BY <1>1, ValuesNatural DEF Cleanup, Cleanups, Thing
<1>9. CleanupOK(Cleanup("object", Fresh), blocks')
  BY <1>5, <1>7 DEF Cleanup, CleanupOK, Appended
<1> QED
  BY <1>4, <1>5, <1>8, <1>9

LEMMA DeclareTypes == ASSUME TypeInv, NEW x \in Name, Declare(x) PROVE TypeInv'
<1> DEFINE t == <<I("null", x, Null)>>
           s == [Scope EXCEPT !.names = @ \cup {x}]
<1>1. /\ Statement /\ x \in Local /\ declared' = declared \cup {x} /\ Emit(t)
      /\ scopes' = WithScope(WithCleanup(s, "variable", x)) /\ values' = values
  BY DEF Declare
<1>2. Counters' /\ phase' = "generate" /\ phase = "generate" /\ UNCHANGED machine
  <2>1. declared' \subseteq Local
    BY <1>1 DEF TypeInv, Counters
  <2> QED
    BY <1>1, <2>1, StatementCounts
<1>3. Len(blocks) \in Nat /\ Scope.bb \in 1 .. Len(blocks)
  BY <1>2, Innermost DEF TypeInv
<1>4. t \in Code(Len(blocks)) /\ t # <<>>
  <2>1. I("null", x, Null) \in Instruction(Len(blocks))
    BY <1>1, <1>3, Made
  <2> QED
    BY <2>1 DEF Code
<1> HIDE DEF t
<1>5. Appended(t)
  BY <1>1, <1>2, <1>4, Appends
<1>6. s \in Scopes /\ ScopeOK(s, blocks') /\ s.kind = Scope.kind
  <2>1. Scope \in Scopes /\ ScopeOK(Scope, blocks')
    BY <1>5 DEF Appended, AppendedTo
  <2>2. /\ s \in Scopes /\ s.kind = Scope.kind /\ s.bb = Scope.bb /\ s.first = Scope.first
        /\ s.then = Scope.then /\ s.cleanups = Scope.cleanups
    BY <1>1, <2>1 DEF Scopes
  <2> HIDE DEF s
  <2> QED
    BY <2>1, <2>2 DEF ScopeOK
<1> HIDE DEF s
<1>7. Cleanup("variable", x) \in Cleanups /\ CleanupOK(Cleanup("variable", x), blocks')
  <2>1. x \in Thing
    BY <1>1 DEF Thing, Name
  <2> QED
    BY <1>1, <1>3, <1>5, <2>1 DEF Appended, AppendedTo, Cleanup, Cleanups, CleanupOK
<1>8. /\ WithCleanup(s, "variable", x) \in Scopes
      /\ ScopeOK(WithCleanup(s, "variable", x), blocks')
      /\ WithCleanup(s, "variable", x).kind = Scope.kind
  BY <1>6, <1>7, CleanupAdded
<1>9. Generated
  BY <1>1, <1>2, <1>5, <1>8, SameScopes DEF Appended, AppendedTo
<1> QED
  BY <1>2, <1>9, GoesOn

LEMMA AssignNewTypes == ASSUME TypeInv, NEW x \in Name, AssignNew(x) PROVE TypeInv'
<1>1. /\ Statement /\ NewOperand(I("store", Fresh, x)) /\ declared' = declared
      /\ scopes' = WithScope(WithCleanup(Scope, "object", Fresh))
  BY DEF AssignNew
<1>2. values' = Fresh
  BY <1>1 DEF NewOperand
<1>3. Counters' /\ Fresh \in Value /\ phase' = "generate" /\ phase = "generate" /\ UNCHANGED machine
  <2>1. declared' \subseteq Local
    BY <1>1 DEF TypeInv, Counters
  <2> QED
    BY <1>1, <1>2, <2>1, StatementCounts
<1>4. I("store", Fresh, x) \in Instruction(Len(blocks))
  BY <1>3, Innermost, Made DEF TypeInv
<1> DEFINE t == <<I("new", Fresh, Null), I("init", Fresh, Null), I("store", Fresh, x)>>
<1>5. /\ Appended(t)
      /\ Cleanup("object", Fresh) \in Cleanups /\ CleanupOK(Cleanup("object", Fresh), blocks')
  BY <1>1, <1>3, <1>4, NewAppends
<1> HIDE DEF t
<1>6. /\ WithCleanup(Scope, "object", Fresh) \in Scopes
      /\ ScopeOK(WithCleanup(Scope, "object", Fresh), blocks')
      /\ WithCleanup(Scope, "object", Fresh).kind = Scope.kind
  BY <1>5, CleanupAdded DEF Appended, AppendedTo
<1>7. Generated
  BY <1>1, <1>3, <1>5, <1>6, SameScopes DEF Appended, AppendedTo
<1> QED
  BY <1>3, <1>7, GoesOn

LEMMA AssignTypes == ASSUME TypeInv, NEW x \in Name, NEW y \in Name, Assign(x, y) PROVE TypeInv'
<1> DEFINE op == IF y \in Field THEN "plain_store" ELSE "store"
           t == <<I("load", y, Fresh), I(op, Fresh, x)>>
<1>1. /\ Statement /\ values' = Fresh /\ Emit(t) /\ UNCHANGED <<declared, scopes>>
  BY DEF Assign
<1>2. Counters' /\ Fresh \in Value /\ phase' = "generate" /\ phase = "generate" /\ UNCHANGED machine
  <2>1. declared' \subseteq Local
    BY <1>1 DEF TypeInv, Counters
  <2> QED
    BY <1>1, <2>1, StatementCounts
<1>3. t \in Code(Len(blocks)) /\ t # <<>>
  <2>1. Len(blocks) \in Nat
    BY <1>2, Innermost DEF TypeInv
  <2>2. I("load", y, Fresh) \in Instruction(Len(blocks))
    BY <1>2, <2>1, Made
  <2>3. I(op, Fresh, x) \in Instruction(Len(blocks))
    <3>1. /\ I("store", Fresh, x) \in Instruction(Len(blocks))
          /\ I("plain_store", Fresh, x) \in Instruction(Len(blocks))
      BY <1>2, <2>1, Made
    <3>2. op = "store" \/ op = "plain_store"
      OBVIOUS
    <3> HIDE DEF op
    <3> QED
      BY <3>1, <3>2
  <2> HIDE DEF op
  <2> QED
    BY <2>2, <2>3 DEF Code
<1> HIDE DEF t
<1>4. Appended(t)
  BY <1>1, <1>2, <1>3, Appends
<1>5. Generated
  BY <1>1, <1>2, <1>4, ScopesKept DEF Appended, AppendedTo
<1> QED
  BY <1>2, <1>5, GoesOn

LEMMA CallWithTypes == ASSUME TypeInv, NEW x \in Name, CallWith(x) PROVE TypeInv'
<1> DEFINE t == <<I("load", x, Fresh), I("call", Fresh, Null)>>
<1>1. /\ Statement /\ values' = Fresh /\ Emit(t) /\ UNCHANGED <<declared, scopes>>
  BY DEF CallWith
<1>2. Counters' /\ Fresh \in Value /\ phase' = "generate" /\ phase = "generate" /\ UNCHANGED machine
  <2>1. declared' \subseteq Local
    BY <1>1 DEF TypeInv, Counters
  <2> QED
    BY <1>1, <2>1, StatementCounts
<1>3. t \in Code(Len(blocks)) /\ t # <<>>
  <2>1. Len(blocks) \in Nat
    BY <1>2, Innermost DEF TypeInv
  <2>2. /\ I("load", x, Fresh) \in Instruction(Len(blocks))
        /\ I("call", Fresh, Null) \in Instruction(Len(blocks))
    BY <1>2, <2>1, Made
  <2> QED
    BY <2>2 DEF Code
<1> HIDE DEF t
<1>4. Appended(t)
  BY <1>1, <1>2, <1>3, Appends
<1>5. Generated
  BY <1>1, <1>2, <1>4, ScopesKept DEF Appended, AppendedTo
<1> QED
  BY <1>2, <1>5, GoesOn

LEMMA CallNewTypes == ASSUME TypeInv, CallNew PROVE TypeInv'
<1>1. /\ Statement /\ NewOperand(I("call", Fresh, Null)) /\ declared' = declared
      /\ scopes' = WithScope(WithCleanup(Scope, "object", Fresh))
  BY DEF CallNew
<1>2. values' = Fresh
  BY <1>1 DEF NewOperand
<1>3. Counters' /\ Fresh \in Value /\ phase' = "generate" /\ phase = "generate" /\ UNCHANGED machine
  <2>1. declared' \subseteq Local
    BY <1>1 DEF TypeInv, Counters
  <2> QED
    BY <1>1, <1>2, <2>1, StatementCounts
<1>4. I("call", Fresh, Null) \in Instruction(Len(blocks))
  BY <1>3, Innermost, Made DEF TypeInv
<1> DEFINE t == <<I("new", Fresh, Null), I("init", Fresh, Null), I("call", Fresh, Null)>>
<1>5. /\ Appended(t)
      /\ Cleanup("object", Fresh) \in Cleanups /\ CleanupOK(Cleanup("object", Fresh), blocks')
  BY <1>1, <1>3, <1>4, NewAppends
<1> HIDE DEF t
<1>6. /\ WithCleanup(Scope, "object", Fresh) \in Scopes
      /\ ScopeOK(WithCleanup(Scope, "object", Fresh), blocks')
      /\ WithCleanup(Scope, "object", Fresh).kind = Scope.kind
  BY <1>5, CleanupAdded DEF Appended, AppendedTo
<1>7. Generated
  BY <1>1, <1>3, <1>5, <1>6, SameScopes DEF Appended, AppendedTo
<1> QED
  BY <1>3, <1>7, GoesOn

(* A scope that a return closes.                                           *)
ClosedScope == [Scope EXCEPT !.closed = TRUE]

LEMMA Closes ==
  ASSUME NEW t, Appended(t)
  PROVE  /\ ClosedScope \in Scopes /\ ScopeOK(ClosedScope, blocks') /\ ClosedScope.closed
         /\ ClosedScope.kind = Scope.kind /\ ClosedScope.bb = Scope.bb
         /\ ClosedScope.names = Scope.names /\ ClosedScope.cleanups = Scope.cleanups
<1> DEFINE s == ClosedScope
<1>1. Scope \in Scopes /\ ScopeOK(Scope, blocks')
  BY DEF Appended
<1>2. /\ s \in Scopes /\ s.kind = Scope.kind /\ s.bb = Scope.bb /\ s.first = Scope.first
      /\ s.then = Scope.then /\ s.cleanups = Scope.cleanups /\ s.names = Scope.names /\ s.closed
  BY <1>1 DEF Scopes, ClosedScope
<1> HIDE DEF s
<1>3. ScopeOK(s, blocks')
  BY <1>1, <1>2 DEF ScopeOK
<1> QED
  BY <1>2, <1>3 DEF s

LEMMA ReturnIntegerTypes == ASSUME TypeInv, ReturnInteger PROVE TypeInv'
<1> DEFINE t == <<I("ret", Null, Null)>>
<1>1. /\ ReturnStatement /\ values' = values /\ Emit(t)
      /\ scopes' = WithScope(ClosedScope)
  BY DEF ReturnInteger, ClosedScope
<1>2. phase' = "generate" /\ phase = "generate" /\ UNCHANGED machine
  BY <1>1, ReturnCounts
<1>3. t \in Code(Len(blocks)) /\ t # <<>>
  <2>1. Len(blocks) \in Nat
    BY <1>2, Innermost DEF TypeInv
  <2>2. I("ret", Null, Null) \in Instruction(Len(blocks))
    BY <2>1, Made
  <2> QED
    BY <2>2 DEF Code
<1> HIDE DEF t
<1>4. Appended(t)
  BY <1>1, <1>2, <1>3, Appends
<1>5. ClosedScope \in Scopes /\ ScopeOK(ClosedScope, blocks') /\ ClosedScope.closed
      /\ ClosedScope.kind = Scope.kind
  BY <1>4, Closes
<1>6. Generated /\ Scope' = ClosedScope /\ Len(scopes') = Len(scopes)
  BY <1>1, <1>2, <1>4, <1>5, SameScopes DEF Appended, AppendedTo
<1>7. Counters'
  BY <1>1, <1>5, <1>6, ReturnCounts
<1> QED
  BY <1>2, <1>6, <1>7, GoesOn

LEMMA ReturnVariableTypes == ASSUME TypeInv, NEW x \in Name, ReturnVariable(x) PROVE TypeInv'
<1> DEFINE t == <<I("load", x, Fresh), I("ret", Fresh, Null)>>
<1>1. /\ ReturnStatement /\ values' = Fresh /\ Emit(t)
      /\ scopes' = WithScope(ClosedScope)
  BY DEF ReturnVariable, ClosedScope
<1>2. Fresh \in Value /\ phase' = "generate" /\ phase = "generate" /\ UNCHANGED machine
  BY <1>1, ReturnCounts
<1>3. t \in Code(Len(blocks)) /\ t # <<>>
  <2>1. Len(blocks) \in Nat
    BY <1>2, Innermost DEF TypeInv
  <2>2. /\ I("load", x, Fresh) \in Instruction(Len(blocks))
        /\ I("ret", Fresh, Null) \in Instruction(Len(blocks))
    BY <1>2, <2>1, Made
  <2> QED
    BY <2>2 DEF Code
<1> HIDE DEF t
<1>4. Appended(t)
  BY <1>1, <1>2, <1>3, Appends
<1>5. ClosedScope \in Scopes /\ ScopeOK(ClosedScope, blocks') /\ ClosedScope.closed
      /\ ClosedScope.kind = Scope.kind
  BY <1>4, Closes
<1>6. Generated /\ Scope' = ClosedScope /\ Len(scopes') = Len(scopes)
  BY <1>1, <1>2, <1>4, <1>5, SameScopes DEF Appended, AppendedTo
<1>7. Counters'
  BY <1>1, <1>5, <1>6, ReturnCounts
<1> QED
  BY <1>2, <1>6, <1>7, GoesOn

LEMMA ReturnNewTypes == ASSUME TypeInv, ReturnNew PROVE TypeInv'
<1>1. /\ ReturnStatement /\ NewOperand(I("ret", Fresh, Null))
      /\ scopes' = WithScope(WithCleanup(ClosedScope, "object", Fresh))
  BY DEF ReturnNew, ClosedScope
<1>2. Fresh \in Value /\ phase' = "generate" /\ phase = "generate" /\ UNCHANGED machine
  BY <1>1, ReturnCounts
<1>3. I("ret", Fresh, Null) \in Instruction(Len(blocks))
  BY <1>2, Innermost, Made DEF TypeInv
<1> DEFINE t == <<I("new", Fresh, Null), I("init", Fresh, Null), I("ret", Fresh, Null)>>
           s == WithCleanup(ClosedScope, "object", Fresh)
<1>4. /\ Appended(t) /\ values' = Fresh
      /\ Cleanup("object", Fresh) \in Cleanups /\ CleanupOK(Cleanup("object", Fresh), blocks')
  BY <1>1, <1>2, <1>3, NewAppends
<1> HIDE DEF t
<1>5. ClosedScope \in Scopes /\ ScopeOK(ClosedScope, blocks') /\ ClosedScope.closed
      /\ ClosedScope.kind = Scope.kind
  BY <1>4, Closes
<1>6. s \in Scopes /\ ScopeOK(s, blocks') /\ s.kind = Scope.kind /\ s.closed = ClosedScope.closed
  BY <1>4, <1>5, CleanupAdded
<1> HIDE DEF s
<1>7. Generated /\ Scope' = s /\ Len(scopes') = Len(scopes)
  <2>1. scopes' = WithScope(s)
    BY <1>1 DEF s
  <2> QED
    BY <1>2, <1>4, <1>6, <2>1, SameScopes DEF Appended, AppendedTo
<1>8. Counters'
  BY <1>1, <1>4, <1>5, <1>6, <1>7, ReturnCounts
<1> QED
  BY <1>2, <1>7, <1>8, GoesOn

(* One instruction is appended to a block, as `if` does when it ends.      *)
LEMMA Ended ==
  ASSUME NEW as, CodeOK(as), NEW b \in 1 .. Len(as), NEW i \in Instruction(Len(as))
  PROVE  AppendedTo([as EXCEPT ![b] = Append(@, i)], as, b, <<i>>)
<1> DEFINE S == Instruction(Len(as))
           code == as[b]
<1>1. code \in Seq(S) /\ i \in S
  BY ElementOfSeq DEF CodeOK, Code
<1> HIDE DEF S, code
<1>2. <<i>> \in Seq(S) /\ <<i>> # <<>>
  BY <1>1
<1>3. Append(code, i) = code \o <<i>>
  BY <1>1, AppendIsConcat
<1>4. AppendedTo([as EXCEPT ![b] = @ \o <<i>>], as, b, <<i>>)
  BY <1>2, Emitted DEF S, Code
<1> QED
  BY <1>3, <1>4, Zenon DEF code

(* A block begins that a scope of its own is for.                          *)
LEMMA NewBlock ==
  ASSUME NEW kind \in {"then", "else"}, NEW b, NEW t, NEW bs, CodeOK(bs),
         b \in 1 .. Len(bs), t \in 1 .. Len(bs)
  PROVE  /\ NewScope(kind, b, t) \in Scopes /\ ScopeOK(NewScope(kind, b, t), bs)
         /\ NewScope(kind, b, t).kind = kind
<1>1. Len(bs) \in Nat
  BY LenProperties DEF CodeOK
<1>2. b \in Nat /\ t \in Nat
  BY <1>1
<1>3. <<>> \in Seq(Cleanups) /\ Len(<<>>) = 0
  BY EmptySeq
<1>4. NewScope(kind, b, t) \in Scopes
  BY <1>2, <1>3 DEF NewScope, Scopes
<1>5. ScopeOK(NewScope(kind, b, t), bs)
  BY <1>3 DEF NewScope, ScopeOK
<1> QED
  BY <1>4, <1>5 DEF NewScope

LEMMA BeginThenTypes == ASSUME TypeInv, BeginThen PROVE TypeInv'
<1> DEFINE m == Len(blocks)
           s == NewScope("then", Len(blocks) + 1, Len(blocks) + 1)
<1>1. /\ Statement /\ blocks' = Append(blocks, <<>>) /\ scopes' = Append(scopes, s)
      /\ declared' = declared /\ values' = values
  BY DEF BeginThen
<1>2. Counters' /\ phase' = "generate" /\ phase = "generate" /\ UNCHANGED machine
  <2>1. declared' \subseteq Local
    BY <1>1 DEF TypeInv, Counters
  <2> QED
    BY <1>1, <2>1, StatementCounts
<1>3. CodeOK(blocks) /\ m \in Nat /\ m >= 1 /\ Len(scopes) \in Nat /\ Len(scopes) >= 1
  BY <1>2, Innermost DEF TypeInv
<1>4. CodeOK(blocks') /\ Len(blocks') = m + 1 /\ Keeps(blocks, blocks')
  BY <1>1, <1>3, BlockAdded
<1>5. s \in Scopes /\ ScopeOK(s, blocks')
  <2>1. m + 1 \in 1 .. Len(blocks')
    BY <1>3, <1>4
  <2> QED
    BY <1>4, <2>1, NewBlock
<1> HIDE DEF s, m
<1>6. ScopesOK(scopes, blocks') /\ scopes[1].kind = "function"
  BY <1>3, <1>4, KeepsMore DEF TypeInv
<1>7. /\ ScopesOK(scopes', blocks') /\ Len(scopes') = Len(scopes) + 1
      /\ \A n \in 1 .. Len(scopes) : scopes'[n] = scopes[n]
  BY <1>1, <1>5, <1>6, ScopePushed
<1>8. Len(scopes') >= 1 /\ scopes'[1].kind = "function" /\ Len(blocks') > 1
  <2>1. 1 \in 1 .. Len(scopes)
    BY <1>3
  <2>2. scopes'[1] = scopes[1]
    BY <1>7, <2>1
  <2> QED
    BY <1>3, <1>4, <1>6, <1>7, <2>2
<1> QED
  BY <1>2, <1>4, <1>7, <1>8, GoesOn DEF Generated

(* The code of the blocks with the releases of the current scope.          *)
LEMMA CleanedScope ==
  ASSUME TypeInv, phase = "generate"
  PROVE  /\ CodeOK(doCleanup) /\ Len(doCleanup) = Len(blocks) /\ Keeps(blocks, doCleanup)
         /\ ScopesOK(scopes, doCleanup) /\ ScopeOK(Scope, doCleanup)
         /\ Scope.bb \in 1 .. Len(blocks) /\ Scope.first \in 1 .. Len(blocks)
         /\ Scope.then \in 1 .. Len(blocks)
<1>1. CodeOK(blocks) /\ ScopesOK(scopes, blocks) /\ Len(scopes) >= 1
  BY DEF TypeInv
<1>2. Scope \in Scopes /\ ScopeOK(Scope, blocks)
  BY <1>1, Innermost
<1>3. CodeOK(doCleanup) /\ Len(doCleanup) = Len(blocks) /\ Keeps(blocks, doCleanup)
  BY <1>1, <1>2, CleanedUp
<1>4. ScopesOK(scopes, doCleanup) /\ ScopeOK(Scope, doCleanup)
  BY <1>1, <1>2, <1>3, KeepsMore
<1> QED
  BY <1>2, <1>3, <1>4 DEF ScopeOK

LEMMA BeginElseTypes == ASSUME TypeInv, BeginElse PROVE TypeInv'
<1> DEFINE m == Len(blocks)
           n == Len(scopes)
           s == NewScope("else", Len(blocks) + 1, Scope.first)
<1>1. /\ phase = "generate" /\ phase' = "generate" /\ UNCHANGED machine
      /\ UNCHANGED <<budget, declared, values>> /\ Scope.kind = "then"
      /\ blocks' = Append(doCleanup, <<>>) /\ scopes' = WithScope(s)
  BY DEF BeginElse
<1>2. /\ CodeOK(blocks) /\ m \in Nat /\ m >= 1 /\ n \in Nat /\ n >= 1
      /\ Scope = scopes[n] /\ ScopesOK(scopes, blocks) /\ scopes[1].kind = "function"
  BY <1>1, Innermost DEF TypeInv
<1>3. n > 1
  <2>1. n # 1
    BY <1>1, <1>2
  <2>2. n \in Nat /\ n >= 1
    BY <1>2
  <2> HIDE DEF n
  <2> QED
    BY <2>1, <2>2
<1>4. CodeOK(doCleanup) /\ Len(doCleanup) = m /\ Keeps(blocks, doCleanup)
      /\ Scope.first \in 1 .. m
  BY <1>1, CleanedScope
<1>5. /\ CodeOK(blocks') /\ Len(blocks') = m + 1 /\ Keeps(doCleanup, blocks')
  BY <1>1, <1>4, BlockAdded
<1>6. ScopesOK(scopes, blocks')
  <2>1. Keeps(blocks, blocks')
    BY <1>2, <1>4, <1>5, KeepsMore, Zenon
  <2> QED
    BY <1>2, <1>5, <2>1, KeepsMore
<1>7. s \in Scopes /\ ScopeOK(s, blocks')
  <2>1. m + 1 \in 1 .. Len(blocks') /\ Scope.first \in 1 .. Len(blocks')
    BY <1>2, <1>4, <1>5
  <2> QED
    BY <1>5, <2>1, NewBlock
<1> HIDE DEF s, m, n
<1>8. /\ ScopesOK(scopes', blocks') /\ Len(scopes') = n
      /\ \A k \in 1 .. n - 1 : scopes'[k] = scopes[k]
  BY <1>1, <1>2, <1>6, <1>7, ScopeReplaced DEF WithScope, n
<1>9. Len(scopes') >= 1 /\ Len(scopes') > 1 /\ scopes'[1].kind = "function" /\ Len(blocks') > 1
  <2>1. 1 \in 1 .. n - 1
    BY <1>2, <1>3
  <2>2. scopes'[1] = scopes[1]
    BY <1>8, <2>1
  <2> QED
    BY <1>2, <1>5, <1>8, <1>3, <2>2
<1>10. Counters'
  BY <1>1, <1>3 DEF TypeInv, Counters, n
<1> QED
  BY <1>1, <1>5, <1>8, <1>9, <1>10, GoesOn DEF Generated

LEMMA EndIfTypes == ASSUME TypeInv, EndIf PROVE TypeInv'
<1> DEFINE m == Len(blocks)
           n == Len(scopes)
           merge == m + 1
           parent == scopes[n - 1]
           else == IF Scope.kind = "else" THEN Scope.first ELSE merge
           i == I("br", merge, Null)
           j == I("condbr", Scope.then, else)
           one == Append(doCleanup, <<>>)
           code == [one EXCEPT ![Scope.then] = Append(@, i)]
           both == IF Scope.kind = "else" THEN [code EXCEPT ![else] = Append(@, i)] ELSE code
           end == [both EXCEPT ![parent.bb] = Append(@, j)]
           s == [parent EXCEPT !.bb = merge]
<1>1. /\ phase = "generate" /\ phase' = "generate" /\ UNCHANGED machine
      /\ UNCHANGED <<budget, declared, values>> /\ n > 1
      /\ blocks' = end /\ scopes' = Append(Front(Front(scopes)), s)
  BY DEF EndIf
<1>2. /\ CodeOK(blocks) /\ m \in Nat /\ m >= 1 /\ n \in Nat
      /\ ScopesOK(scopes, blocks) /\ scopes[1].kind = "function"
  BY <1>1, Innermost DEF TypeInv
<1>3. /\ CodeOK(doCleanup) /\ Len(doCleanup) = m /\ Keeps(blocks, doCleanup)
      /\ Scope.first \in 1 .. m /\ Scope.then \in 1 .. m
  BY <1>1, CleanedScope
<1>4. CodeOK(one) /\ Len(one) = merge /\ Keeps(blocks, one)
  <2>1. CodeOK(one) /\ Len(one) = merge /\ Keeps(doCleanup, one)
    BY <1>3, BlockAdded
  <2> HIDE DEF one
  <2> QED
    BY <1>2, <1>3, <2>1, KeepsMore, Zenon
<1>5. parent \in Scopes /\ ScopeOK(parent, blocks) /\ parent.bb \in 1 .. m
  <2>1. n - 1 \in 1 .. n
    <3>1. n > 1 /\ n \in Nat
      BY <1>1, <1>2
    <3> HIDE DEF n
    <3> QED
      BY <3>1
  <2>2. scopes \in Seq(Scopes) /\ \A k \in 1 .. n : ScopeOK(scopes[k], blocks)
    BY <1>2 DEF ScopesOK
  <2> HIDE DEF n
  <2>3. scopes[n - 1] \in Scopes /\ ScopeOK(scopes[n - 1], blocks)
    BY <2>1, <2>2, ElementOfSeq DEF n
  <2> QED
    BY <2>3 DEF ScopeOK
<1>6. /\ merge \in Nat /\ merge \in 1 .. merge /\ Scope.then \in 1 .. merge /\ else \in 1 .. merge
      /\ parent.bb \in 1 .. merge /\ merge > 1 /\ merge >= 1
  BY <1>2, <1>3, <1>5
<1> HIDE DEF parent, else, one, merge
<1>7. i \in Instruction(merge) /\ j \in Instruction(merge)
  BY <1>6, Made
<1> HIDE DEF i, j
<1>8. CodeOK(code) /\ Len(code) = merge /\ Keeps(blocks, code)
  <2>1. AppendedTo(code, one, Scope.then, <<i>>)
    BY <1>4, <1>6, <1>7, Ended
  <2> HIDE DEF code
  <2> QED
    BY <1>2, <1>4, <2>1, KeepsMore, Zenon DEF AppendedTo
<1>9. CodeOK(both) /\ Len(both) = merge /\ Keeps(blocks, both)
  <2>1. CASE Scope.kind = "else"
    <3> DEFINE two == [code EXCEPT ![else] = Append(@, i)]
    <3>1. AppendedTo(two, code, else, <<i>>)
      <4> HIDE DEF code
      <4> QED
        BY <1>6, <1>7, <1>8, Ended
    <3>2. both = two
      BY <2>1
    <3> HIDE DEF two, both, code
    <3> QED
      BY <1>2, <1>8, <3>1, <3>2, KeepsMore, Zenon DEF AppendedTo
  <2>2. CASE Scope.kind # "else"
    BY <1>8, <2>2
  <2> QED
    BY <2>1, <2>2
<1> HIDE DEF both, code
<1>10. CodeOK(end) /\ Len(end) = merge /\ Keeps(blocks, end)
  <2>1. AppendedTo(end, both, parent.bb, <<j>>)
    BY <1>6, <1>7, <1>9, Ended
  <2> HIDE DEF end
  <2> QED
    BY <1>2, <1>9, <2>1, KeepsMore, Zenon DEF AppendedTo
<1> HIDE DEF end
<1>11. ScopesOK(scopes, blocks') /\ ScopeOK(parent, blocks')
  BY <1>1, <1>2, <1>5, <1>10, KeepsMore
<1>12. s \in Scopes /\ ScopeOK(s, blocks') /\ s.kind = parent.kind
  <2>1. /\ s \in Scopes /\ s.kind = parent.kind /\ s.bb = merge /\ s.first = parent.first
        /\ s.then = parent.then /\ s.cleanups = parent.cleanups
    BY <1>5, <1>6 DEF Scopes
  <2> HIDE DEF s
  <2> QED
    BY <1>1, <1>6, <1>10, <1>11, <2>1 DEF ScopeOK
<1> HIDE DEF s
<1> DEFINE f == Front(scopes)
<1>13. /\ ScopesOK(f, blocks') /\ Len(f) = n - 1 /\ Len(f) >= 1
       /\ \A k \in 1 .. n - 1 : f[k] = scopes[k]
  <2>1. n >= 1
    BY <1>1, <1>2
  <2>2. /\ ScopesOK(f, blocks') /\ Len(f) = n - 1
        /\ \A k \in 1 .. n - 1 : f[k] = scopes[k]
    BY <1>11, <2>1, ScopePopped
  <2> HIDE DEF f, n
  <2> QED
    BY <1>1, <1>2, <2>2
<1> HIDE DEF f
<1>14. /\ ScopesOK(scopes', blocks') /\ Len(scopes') = n - 1 /\ scopes'[n - 1] = s
       /\ \A k \in 1 .. (n - 1) - 1 : scopes'[k] = f[k]
  <2>1. scopes' = Append(Front(f), s)
    BY <1>1 DEF f
  <2> HIDE DEF n
  <2> QED
    BY <1>12, <1>13, <2>1, ScopeReplaced
<1> HIDE DEF n
<1>15. scopes'[1].kind = "function" /\ Len(scopes') >= 1
  <2>1. CASE n - 1 = 1
    <3>1. parent = scopes[1]
      BY <2>1 DEF parent, n
    <3> QED
      BY <1>2, <1>12, <1>14, <2>1, <3>1
  <2>2. CASE n - 1 # 1
    <3>1. 1 \in 1 .. n - 1 /\ 1 \in 1 .. (n - 1) - 1
      BY <1>1, <1>2, <2>2
    <3>2. scopes'[1] = scopes[1]
      BY <1>13, <1>14, <3>1
    <3> QED
      BY <1>1, <1>2, <1>14, <3>2
  <2> QED
    BY <2>1, <2>2
<1>16. Counters'
  BY <1>1 DEF TypeInv, Counters, n
<1>17. Len(blocks') > 1
  BY <1>1, <1>6, <1>10
<1> QED
  BY <1>1, <1>10, <1>14, <1>15, <1>16, <1>17, GoesOn DEF Generated

(* A well-formed block is not empty, and what is not its last instruction  *)
(* is no terminator, and the other way round.                              *)
LEMMA EndsBlock ==
  ASSUME NEW bs, CodeOK(bs), WellFormedModule(bs), NEW b \in 1 .. Len(bs)
  PROVE  /\ Len(bs[b]) \in Nat /\ Len(bs[b]) >= 1
         /\ \A i \in 1 .. Len(bs[b]) :
              bs[b][i].op \in {"ret", "br", "condbr"} <=> i = Len(bs[b])
<1> DEFINE code == bs[b]
           k == Len(code)
<1>1. code \in Code(Len(bs))
  BY ElementOfSeq DEF CodeOK
<1>2. k \in Nat /\ DOMAIN code = 1 .. k
  BY <1>1, LenProperties DEF Code
<1>3. b \in DOMAIN bs
  BY LenProperties DEF CodeOK
<1>4. Terminators(code) = {k}
  BY <1>3 DEF WellFormedModule
<1>5. \A i \in 1 .. k : code[i].op \in {"ret", "br", "condbr"} <=> i \in Terminators(code)
  BY <1>2 DEF Terminators
<1>6. k \in 1 .. k
  BY <1>2, <1>4 DEF Terminators
<1> HIDE DEF k
<1>7. k >= 1
  BY <1>2, <1>6
<1> QED
  BY <1>2, <1>4, <1>5, <1>7 DEF k

LEMMA EndFunctionTypes == ASSUME TypeInv, EndFunction PROVE TypeInv'
<1>1. /\ phase = "generate" /\ Len(scopes) = 1 /\ UNCHANGED <<budget, declared, values, machine>>
      /\ blocks' = doCleanup /\ scopes' = <<>>
      /\ phase' = IF WellFormedModule(doCleanup) THEN "run" ELSE "malformed"
  BY DEF EndFunction
<1>2. CodeOK(blocks')
  BY <1>1, CleanedScope
<1>3. ScopesOK(scopes', blocks') /\ Len(scopes') = 0
  BY <1>1, EmptySeq DEF ScopesOK
<1>4. Counters' /\ phase' \in {"run", "malformed"}
  BY <1>1 DEF TypeInv, Counters
<1>5. Memory' /\ pc' = <<1, 1>>
  BY <1>1 DEF TypeInv, Memory, Untouched, machine
<1>6. ASSUME phase' = "run"
      PROVE  /\ pc[1]' \in 1 .. Len(blocks') /\ pc[2]' \in 1 .. Len(blocks'[pc[1]'])
             /\ pc' = <<pc[1]', pc[2]'>> /\ WellFormedModule(blocks')
  <2>1. WellFormedModule(blocks')
    BY <1>1, <1>6
  <2>2. 1 \in 1 .. Len(blocks')
    <3> DEFINE m == Len(blocks')
    <3>1. m \in Nat /\ m >= 1
      BY <1>2, LenProperties DEF CodeOK
    <3> HIDE DEF m
    <3>2. 1 \in 1 .. m
      BY <3>1
    <3> QED
      BY <3>2 DEF m
  <2>3. 1 \in 1 .. Len(blocks'[1])
    <3> DEFINE k == Len(blocks'[1])
    <3>1. k \in Nat /\ k >= 1
      BY <1>2, <2>1, <2>2, EndsBlock, Zenon
    <3> HIDE DEF k
    <3>2. 1 \in 1 .. k
      BY <3>1
    <3> QED
      BY <3>2 DEF k
  <2> QED
    BY <1>5, <2>1, <2>2, <2>3
<1> QED
  BY <1>2, <1>3, <1>4, <1>5, <1>6 DEF TypeInv

(* The compiler stops before the function is complete.                     *)
LEMMA StopTypes == ASSUME TypeInv, Crash \/ BranchIsNoBlock \/ Stopped PROVE TypeInv'
<1>1. CASE Crash \/ BranchIsNoBlock
  <2>1. phase' = "crashed" /\ UNCHANGED <<generator, machine>>
    BY <1>1 DEF Crash, BranchIsNoBlock
  <2>2. UNCHANGED <<budget, declared, values, blocks, scopes, pc, env, vals, refs, result>>
    BY <2>1 DEF generator, machine
  <2>3. Counters' /\ Memory'
    BY <2>1, <2>2 DEF TypeInv, Counters, Memory
  <2> QED
    BY <2>1, <2>2, <2>3 DEF TypeInv
<1>2. CASE Stopped
  BY <1>2 DEF Stopped, vars, generator, machine, TypeInv, Counters, Memory, Untouched, Scope
<1> QED
  BY <1>1, <1>2

(* The instruction at which a running function is, and what it is about.   *)
LEMMA AtInstruction ==
  ASSUME TypeInv, phase = "run"
  PROVE  /\ Current \in Instruction(Len(blocks)) /\ Operands(Current, Len(blocks))
         /\ pc[1] \in 1 .. Len(blocks)
         /\ pc[2] \in 1 .. Len(blocks[pc[1]]) /\ Len(blocks[pc[1]]) \in Nat
         /\ Current.op \in {"ret", "br", "condbr"} <=> pc[2] = Len(blocks[pc[1]])
<1>1. /\ CodeOK(blocks) /\ pc[1] \in 1 .. Len(blocks) /\ pc[2] \in 1 .. Len(blocks[pc[1]])
      /\ WellFormedModule(blocks)
  BY DEF TypeInv
<1>2. blocks[pc[1]] \in Seq(Instruction(Len(blocks)))
  BY <1>1, ElementOfSeq DEF CodeOK, Code
<1>3. Current \in Instruction(Len(blocks))
  BY <1>1, <1>2, ElementOfSeq DEF Current
<1>4. Operands(Current, Len(blocks))
  BY <1>3 DEF Instruction
<1> QED
  BY <1>1, <1>3, <1>4, EndsBlock DEF Current

(* A step of the running function.                                         *)
LEMMA RunsOn ==
  ASSUME TypeInv, phase = "run", UNCHANGED generator, Memory',
         \/ phase' \in End
         \/ phase' = "run" /\ pc' = <<pc[1], pc[2] + 1>> /\ Current.op \notin {"ret", "br", "condbr"}
         \/ phase' = "run" /\ \E b \in 1 .. Len(blocks) : pc' = <<b, 1>>
  PROVE  TypeInv'
<1>1. UNCHANGED <<budget, declared, values, blocks, scopes>>
  BY DEF generator
<1>2. Counters' /\ phase' # "generate"
  BY <1>1 DEF TypeInv, Counters, End
<1>3. CodeOK(blocks) /\ WellFormedModule(blocks)
  BY DEF TypeInv
<1>4. ASSUME phase' = "run"
      PROVE  /\ pc[1]' \in 1 .. Len(blocks) /\ pc[2]' \in 1 .. Len(blocks[pc[1]'])
             /\ pc' = <<pc[1]', pc[2]'>>
  <2>1. CASE pc' = <<pc[1], pc[2] + 1>> /\ Current.op \notin {"ret", "br", "condbr"}
    <3> DEFINE k == Len(blocks[pc[1]])
    <3>1. pc[1] \in 1 .. Len(blocks) /\ pc[2] \in 1 .. k /\ k \in Nat /\ pc[2] # k
      BY <2>1, AtInstruction
    <3> HIDE DEF k
    <3>2. pc[2] + 1 \in 1 .. k
      BY <3>1
    <3> QED
      BY <2>1, <3>1, <3>2 DEF k
  <2>2. CASE \E b \in 1 .. Len(blocks) : pc' = <<b, 1>>
    <3>1. PICK b \in 1 .. Len(blocks) : pc' = <<b, 1>>
      BY <2>2
    <3> DEFINE k == Len(blocks[b])
    <3>2. k \in Nat /\ k >= 1
      BY <1>3, EndsBlock
    <3> HIDE DEF k
    <3>3. 1 \in 1 .. k
      BY <3>2
    <3> QED
      BY <3>1, <3>3 DEF k
  <2> QED
    BY <1>4, <2>1, <2>2 DEF End
<1> QED
  BY <1>1, <1>2, <1>4 DEF TypeInv

(* Counting in the objects in memory.                                      *)
Counts(rs) == DOMAIN rs \subseteq Value /\ rs \in [DOMAIN rs -> Nat]

LEMMA CountsKept ==
  ASSUME NEW rs, Counts(rs), NEW o
  PROVE  /\ o \in DOMAIN rs => /\ Counts(Retained(rs, o)) /\ DOMAIN Retained(rs, o) = DOMAIN rs
                               /\ \A p \in DOMAIN rs :
                                    Retained(rs, o)[p] = IF p = o THEN rs[p] + 1 ELSE rs[p]
         /\ o = Null \/ o \in DOMAIN rs => Counts(Released(rs, o))
<1>1. /\ o \in DOMAIN rs => /\ Counts(Retained(rs, o)) /\ DOMAIN Retained(rs, o) = DOMAIN rs
                            /\ \A p \in DOMAIN rs :
                                 Retained(rs, o)[p] = IF p = o THEN rs[p] + 1 ELSE rs[p]
  BY DEF Counts, Retained
<1>2. ASSUME o \in DOMAIN rs, o # Null, rs[o] > 0 PROVE Counts(Released(rs, o))
  <2>1. Released(rs, o) = [rs EXCEPT ![o] = @ - 1]
    BY <1>2 DEF Released
  <2>2. rs[o] - 1 \in Nat
    BY <1>2 DEF Counts
  <2> QED
    BY <2>1, <2>2 DEF Counts
<1>3. ASSUME o \in DOMAIN rs, o # Null, ~(rs[o] > 0) PROVE Counts(Released(rs, o))
  <2>1. Released(rs, o) = [p \in DOMAIN rs \ {o} |-> rs[p]]
    BY <1>3 DEF Released
  <2> QED
    BY <2>1 DEF Counts
<1>4. CASE o = Null
  BY <1>1, <1>4 DEF Released
<1> QED
  BY <1>1, <1>2, <1>3, <1>4

(* What the operands of an instruction are.                                *)
LEMMA Operand ==
  ASSUME TypeInv, phase = "run"
  PROVE  /\ Current.op \in {"null", "release_var"} => Current.on \in Local
         /\ Current.op \in {"new", "init", "call", "release"} => Current.on \in Value
         /\ Current.op = "load" => Current.on \in Name /\ Current.to \in Value
         /\ Current.op \in {"store", "plain_store"} => Current.on \in Value /\ Current.to \in Name
         /\ Current.op = "ret" => Current.on \in Value \cup {Null}
         /\ Current.op \in {"br", "condbr"} => Current.on \in 1 .. Len(blocks)
         /\ Current.op = "condbr" => Current.to \in 1 .. Len(blocks)
  BY AtInstruction, Zenon DEF Operands

LEMMA Uses ==
  ASSUME phase = "run", NEW o, Use(o)
  PROVE  \/ phase' \in End
         \/ phase' = "run" /\ pc' = <<pc[1], pc[2] + 1>>
  BY DEF Use, Fail, Advance, End

LEMMA RunTypes == ASSUME TypeInv, Run PROVE TypeInv'
<1>1. phase = "run" /\ UNCHANGED generator
  BY DEF Run, DoNull, DoNew, DoLoad, DoCall, DoStore, DoPlainStore, DoRelease, DoBranch,
         DoReturn, Execute
<1>2. /\ env \in [Name -> Value \cup {Null, Garbage}]
      /\ vals \in [Value -> Value \cup {Null, Garbage}]
      /\ Counts(refs)
      /\ result \in Value \cup {Null, Garbage}
  BY DEF TypeInv, Memory, Counts
<1> DEFINE on == Current.on
           to == Current.to
           op == Current.op
           Next1 == pc' = <<pc[1], pc[2] + 1>>
<1>3. CASE DoNull
  <2>1. op = "null" /\ Advance /\ env' = [env EXCEPT ![on] = Null] /\ UNCHANGED <<vals, refs, result>>
    BY <1>3 DEF DoNull, Execute
  <2>2. Memory'
    BY <1>2, <2>1 DEF Memory, Counts
  <2> QED
    BY <1>1, <2>1, <2>2, RunsOn DEF Advance
<1>4. CASE DoNew
  <2>1. /\ op = "new" /\ Advance /\ vals' = [vals EXCEPT ![on] = on] /\ UNCHANGED <<env, result>>
        /\ refs' = [o \in DOMAIN refs \cup {on} |-> IF o = on THEN 0 ELSE refs[o]]
    BY <1>4 DEF DoNew, Execute
  <2>2. on \in Value
    BY <1>1, <2>1, Operand
  <2> HIDE DEF on
  <2>3. Counts(refs')
    BY <1>2, <2>1, <2>2 DEF Counts
  <2>4. Memory'
    BY <1>2, <2>1, <2>2, <2>3 DEF Memory, Counts
  <2> QED
    BY <1>1, <2>1, <2>4, RunsOn DEF Advance
<1>5. CASE DoLoad
  <2>1. /\ op = "load" /\ Advance /\ vals' = [vals EXCEPT ![to] = env[on]]
        /\ UNCHANGED <<env, refs, result>>
    BY <1>5 DEF DoLoad, Execute
  <2>2. on \in Name /\ to \in Value
    BY <1>1, <2>1, Operand
  <2>3. Memory'
    BY <1>2, <2>1, <2>2 DEF Memory, Counts
  <2> QED
    BY <1>1, <2>1, <2>3, RunsOn DEF Advance
<1>6. CASE DoCall
  <2>1. op \in {"init", "call"} /\ Use(vals[on]) /\ UNCHANGED <<env, vals, refs, result>>
    BY <1>6 DEF DoCall, Execute
  <2>2. Memory'
    BY <1>2, <2>1 DEF Memory, Counts
  <2>3. phase' \in End \/ (phase' = "run" /\ Next1)
    BY <1>1, <2>1, Uses, Zenon
  <2> QED
    BY <1>1, <2>1, <2>2, <2>3, RunsOn
<1>7. CASE DoStore
  <2> DEFINE new == vals[on]
             old == env[to]
  <2>1. /\ op = "store" /\ UNCHANGED <<vals, result>>
        /\ \/ /\ Live(new) /\ (old = Null \/ Live(old))
              /\ refs' = Released(Retained(refs, new), old)
              /\ env' = [env EXCEPT ![to] = new] /\ Advance
           \/ /\ Use(IF Live(new) THEN old ELSE new)
              /\ UNCHANGED <<refs, env>>
    BY <1>7 DEF DoStore, Execute
  <2>2. on \in Value /\ to \in Name
    BY <1>1, <2>1, Operand
  <2>3. new \in Value \cup {Null, Garbage}
    BY <1>2, <2>2
  <2> HIDE DEF new, old
  <2>4. CASE /\ Live(new) /\ (old = Null \/ Live(old))
             /\ refs' = Released(Retained(refs, new), old)
             /\ env' = [env EXCEPT ![to] = new] /\ Advance
    <3>1. Counts(Retained(refs, new)) /\ DOMAIN Retained(refs, new) = DOMAIN refs
      BY <1>2, <2>4, CountsKept DEF Live
    <3>2. Counts(refs')
      BY <2>4, <3>1, CountsKept DEF Live
    <3>3. Memory'
      BY <1>2, <2>1, <2>2, <2>3, <2>4, <3>2 DEF Memory, Counts
    <3> QED
      BY <1>1, <2>1, <2>4, <3>3, RunsOn DEF Advance
  <2>5. CASE Use(IF Live(new) THEN old ELSE new) /\ UNCHANGED <<refs, env>>
    <3>1. Memory'
      BY <1>2, <2>1, <2>5 DEF Memory, Counts
    <3>2. phase' \in End \/ (phase' = "run" /\ Next1)
      BY <1>1, <2>5, Uses, Zenon
    <3> QED
      BY <1>1, <2>1, <3>1, <3>2, RunsOn
  <2> QED
    BY <2>1, <2>4, <2>5
<1>8. CASE DoPlainStore
  <2>1. /\ op = "plain_store" /\ Advance /\ env' = [env EXCEPT ![to] = vals[on]]
        /\ UNCHANGED <<vals, refs, result>>
    BY <1>8 DEF DoPlainStore, Execute
  <2>2. on \in Value /\ to \in Name
    BY <1>1, <2>1, Operand
  <2>3. Memory'
    BY <1>2, <2>1, <2>2 DEF Memory, Counts
  <2> QED
    BY <1>1, <2>1, <2>3, RunsOn DEF Advance
<1>9. CASE DoRelease
  <2> DEFINE o == IF op = "release" THEN vals[on] ELSE env[on]
  <2>1. /\ op \in {"release", "release_var"} /\ UNCHANGED <<env, vals, result>>
        /\ \/ (o = Null \/ Live(o)) /\ refs' = Released(refs, o) /\ Advance
           \/ Use(o) /\ UNCHANGED refs
    BY <1>9 DEF DoRelease, Execute
  <2> HIDE DEF o
  <2>2. CASE (o = Null \/ Live(o)) /\ refs' = Released(refs, o) /\ Advance
    <3>1. Counts(refs')
      BY <1>2, <2>2, CountsKept DEF Live
    <3>2. Memory'
      BY <1>2, <2>1, <3>1 DEF Memory, Counts
    <3> QED
      BY <1>1, <2>1, <2>2, <3>2, RunsOn DEF Advance
  <2>3. CASE Use(o) /\ UNCHANGED refs
    <3>1. Memory'
      BY <1>2, <2>1, <2>3 DEF Memory, Counts
    <3>2. phase' \in End \/ (phase' = "run" /\ Next1)
      BY <1>1, <2>3, Uses, Zenon
    <3> QED
      BY <1>1, <2>1, <3>1, <3>2, RunsOn
  <2> QED
    BY <2>1, <2>2, <2>3
<1>10. CASE DoBranch
  <2>1. /\ op \in {"br", "condbr"} /\ UNCHANGED <<phase, env, vals, refs, result>>
        /\ \E b \in {on, to} : (b = to => op = "condbr" \/ to = on) /\ pc' = <<b, 1>>
    BY <1>10 DEF DoBranch, Execute
  <2>2. \E b \in 1 .. Len(blocks) : pc' = <<b, 1>>
    BY <1>1, <2>1, Operand
  <2>3. Memory'
    BY <1>2, <2>1 DEF Memory, Counts
  <2> QED
    BY <1>1, <2>1, <2>2, <2>3, RunsOn
<1>11. CASE DoReturn
  <2>1. /\ op = "ret" /\ phase' = "returned" /\ UNCHANGED <<env, vals, refs>>
        /\ result' = IF on = Null THEN Null ELSE vals[on]
    BY <1>11 DEF DoReturn, Execute
  <2>2. on \in Value \cup {Null}
    BY <1>1, <2>1, Operand
  <2>3. Memory'
    BY <1>2, <2>1, <2>2 DEF Memory, Counts
  <2> QED
    BY <1>1, <2>1, <2>3, RunsOn DEF End
<1> QED
  BY <1>3, <1>4, <1>5, <1>6, <1>7, <1>8, <1>9, <1>10, <1>11 DEF Run

LEMMA InitTypes == Init => TypeInv
<1> SUFFICES ASSUME Init PROVE TypeInv
  OBVIOUS
<1>1. /\ phase = "generate" /\ budget = MaxStatements /\ declared = {} /\ values = 1
      /\ blocks = << <<>> >> /\ scopes = <<NewScope("function", 1, 1)>> /\ Untouched
  BY DEF Init, Untouched
<1>2. <<>> \in Code(1) /\ <<>> \in Seq(Cleanups) /\ Len(<<>>) = 0
  BY EmptySeq DEF Code
<1>3. CodeOK(blocks) /\ Len(blocks) = 1
  <2> DEFINE T == Code(1)
             e == <<>>
  <2>1. e \in T /\ blocks = <<e>>
    BY <1>1, <1>2
  <2> HIDE DEF T, e
  <2>2. blocks \in Seq(T) /\ Len(blocks) = 1
    BY <2>1
  <2> QED
    BY <2>2 DEF CodeOK, T
<1>4. ScopesOK(scopes, blocks) /\ Len(scopes) = 1 /\ scopes[1].kind = "function"
  <2> DEFINE s == NewScope("function", 1, 1)
  <2>1. s \in Scopes /\ s.kind = "function" /\ s.first = 1 /\ s.bb = 1 /\ s.then = 1
        /\ Len(s.cleanups) = 0
    BY <1>2 DEF NewScope, Scopes
  <2>2. ScopeOK(s, blocks)
    BY <1>3, <2>1 DEF ScopeOK
  <2>3. scopes = <<s>>
    BY <1>1
  <2> HIDE DEF s
  <2>4. scopes \in Seq(Scopes) /\ Len(scopes) = 1 /\ scopes[1] = s
    BY <2>1, <2>3
  <2> QED
    BY <2>1, <2>2, <2>4 DEF ScopesOK
<1>5. Counters
  BY <1>1, <1>4, BoundsNatural DEF Counters, Value
<1>6. Memory
  <2>1. Caller \in Value /\ Null \in Value \cup {Null, Garbage} /\ Caller # Null
    BY ValuesNatural
  <2>2. /\ env \in [Name -> Value \cup {Null, Garbage}] /\ vals \in [Value -> Value \cup {Null, Garbage}]
        /\ result \in Value \cup {Null, Garbage}
    BY <1>1, <2>1 DEF Untouched
  <2>3. DOMAIN refs = {Caller} /\ refs \in [{Caller} -> Nat]
    BY <1>1 DEF Untouched
  <2> QED
    BY <2>1, <2>2, <2>3 DEF Memory
<1> QED
  BY <1>1, <1>3, <1>4, <1>5, <1>6 DEF TypeInv

LEMMA NextTypes == TypeInv /\ [Next]_vars => TypeInv'
<1> SUFFICES ASSUME TypeInv, [Next]_vars PROVE TypeInv'
  OBVIOUS
<1>1. CASE Generate
  BY <1>1, DeclareTypes, AssignNewTypes, CallWithTypes, ReturnVariableTypes, AssignTypes,
     CallNewTypes, ReturnIntegerTypes, ReturnNewTypes, BeginThenTypes, StopTypes,
     BeginElseTypes, EndIfTypes, EndFunctionTypes DEF Generate
<1>2. CASE Run
  BY <1>2, RunTypes
<1>3. CASE Stopped
  BY <1>3, StopTypes
<1>4. CASE UNCHANGED vars
  BY <1>4 DEF vars, generator, machine, TypeInv, Counters, Memory, Untouched, Scope
<1> QED
  BY <1>1, <1>2, <1>3, <1>4 DEF Next

LEMMA TypesFollow == TypeInv => TypeOK
<1> SUFFICES ASSUME TypeInv PROVE TypeOK
  OBVIOUS
<1>1. CodeOK(blocks) /\ DOMAIN blocks = 1 .. Len(blocks) /\ Len(blocks) \in Nat
  BY LenProperties DEF TypeInv, CodeOK
<1>2. ASSUME NEW b \in DOMAIN blocks
      PROVE  /\ DOMAIN blocks[b] = 1 .. Len(blocks[b])
             /\ \A i \in DOMAIN blocks[b] : blocks[b][i] \in Instruction(Len(blocks))
  <2>1. blocks[b] \in Seq(Instruction(Len(blocks)))
    BY <1>1, <1>2, ElementOfSeq DEF CodeOK, Code
  <2> QED
    BY <2>1, LenProperties, ElementOfSeq
<1>3. \A b \in DOMAIN blocks : \A i \in DOMAIN blocks[b] :
        /\ blocks[b][i].op \in Ops
        /\ blocks[b][i].op \in {"null", "release_var"} => blocks[b][i].on \in Local
  BY <1>2 DEF Instruction, Operands
<1>4. \A s \in Range(scopes) : {s.first, s.bb} \subseteq DOMAIN blocks
  <2>1. scopes \in Seq(Scopes) /\ \A n \in 1 .. Len(scopes) : ScopeOK(scopes[n], blocks)
    BY DEF TypeInv, ScopesOK
  <2>2. DOMAIN scopes = 1 .. Len(scopes)
    BY <2>1, LenProperties
  <2> QED
    BY <1>1, <2>1, <2>2 DEF ScopeOK, Range
<1>5. phase = "run" => pc[1] \in DOMAIN blocks /\ pc[2] \in DOMAIN blocks[pc[1]]
  BY <1>1, <1>2 DEF TypeInv
<1>6. DOMAIN refs \subseteq Value /\ \A o \in DOMAIN refs : refs[o] \in Nat
  BY DEF TypeInv, Memory
<1> QED
  BY <1>3, <1>4, <1>5, <1>6 DEF TypeOK, TypeInv, Counters, Memory

LEMMA TypesAlways == Spec => []TypeInv
<1> QED
  BY InitTypes, NextTypes, PTL DEF Spec

(* Whatever statements a function has, however its blocks are nested and   *)
(* wherever the cleanups insert their releases, the generator writes       *)
(* instructions about variables and values that there are, and the         *)
(* function is always at one of them, with counts that are not negative.   *)
THEOREM TypesCorrect == Spec => []TypeOK
<1>1. TypeInv => TypeOK
  BY TypesFollow
<1> QED
  BY <1>1, TypesAlways, PTL

-----------------------------------------------------------------------------
(* The shape of the code of a function without `if`.                       *)

Moves == {"store", "plain_store", "call"}

Before(code, i, op, on) ==
  \E j \in 1 .. Len(code) : j < i /\ code[j].op = op /\ code[j].on = on

Known(code, i, x) == x \in Local => Before(code, i, "null", x)
Loaded(code, i) == i > 1 /\ code[i - 1].op = "load" /\ code[i - 1].to = code[i].on
Origin(ins, v) == (ins.op = "new" /\ ins.on = v) \/ (ins.op = "load" /\ ins.to = v)

(* A variable is only used once it is cleared, an object once it is        *)
(* created, a value that is loaded right after.                            *)
Grounded(code, i) ==
  /\ code[i].op = "load" => Known(code, i, code[i].on)
  /\ code[i].op \in {"store", "plain_store"} => code[i].to \notin Field /\ Known(code, i, code[i].to)
  /\ code[i].op = "init" => Before(code, i, "new", code[i].on)
  /\ code[i].op \in Moves => Loaded(code, i) \/ Before(code, i, "new", code[i].on)
  /\ code[i].op = "ret" => i = Len(code)
  /\ code[i].op \notin {"br", "condbr"}
  /\ code[i].op = "new" => code[i].on # Caller

(* An object is released behind its last user, the variables at the end.   *)
Placed(code, i) ==
  /\ code[i].op = "release" => /\ Before(code, i, "new", code[i].on)
                               /\ \A j \in Users(code, code[i].on) : j < i
  /\ code[i].op = "release_var" =>
       /\ Before(code, i, "null", code[i].on)
       /\ \A j \in 1 .. Len(code) : i < j => code[j].op \in {"release_var", "ret"}

Same(ins, other) ==
  \/ /\ ins.op \in {"null", "release", "release_var"}
     /\ other.op = ins.op /\ other.on = ins.on
  \/ \E v \in Value : Origin(ins, v) /\ Origin(other, v)

Shape(code) ==
  /\ \A i \in 1 .. Len(code) : Grounded(code, i) /\ Placed(code, i)
  /\ \A i, j \in 1 .. Len(code) : Same(code[i], code[j]) => i = j

(* Where an instruction is after an insertion behind the n-th.             *)
Shift(n, i) == IF i <= n THEN i ELSE i + 1

LEMMA Shifted ==
  ASSUME NEW m \in Nat, NEW n \in 0 .. m, NEW new, NEW old, NEW ins,
         Inserted(new, old, n, ins), Len(old) = m
  PROVE  /\ \A i \in 1 .. m : /\ Shift(n, i) \in 1 .. m + 1 /\ Shift(n, i) # n + 1
                              /\ new[Shift(n, i)] = old[i]
                              /\ (Shift(n, i) < n + 1 <=> i <= n)
                              /\ (n + 1 < Shift(n, i) <=> n < i)
         /\ \A k \in 1 .. m + 1 : k = n + 1 \/ \E i \in 1 .. m : k = Shift(n, i)
         /\ \A i, j \in 1 .. m : Shift(n, i) < Shift(n, j) <=> i < j
         /\ Len(new) = m + 1 /\ new[n + 1] = ins /\ n + 1 \in 1 .. m + 1
<1>1. ASSUME NEW i \in 1 .. m
      PROVE  /\ Shift(n, i) \in 1 .. m + 1 /\ Shift(n, i) # n + 1
             /\ new[Shift(n, i)] = old[i]
             /\ (Shift(n, i) < n + 1 <=> i <= n)
             /\ (n + 1 < Shift(n, i) <=> n < i)
  <2>1. CASE i <= n
    BY <2>1 DEF Shift, Inserted
  <2>2. CASE ~(i <= n)
    <3>1. i \in n + 1 .. Len(old)
      BY <2>2
    <3> QED
      BY <2>2, <3>1 DEF Shift, Inserted
  <2> QED
    BY <2>1, <2>2
<1>2. ASSUME NEW k \in 1 .. m + 1, k # n + 1 PROVE \E i \in 1 .. m : k = Shift(n, i)
  <2>1. CASE k <= n
    BY <2>1 DEF Shift
  <2>2. CASE ~(k <= n)
    <3>1. k - 1 \in 1 .. m /\ k = Shift(n, k - 1)
      BY <1>2, <2>2 DEF Shift
    <3> QED
      BY <3>1
  <2> QED
    BY <2>1, <2>2
<1>3. \A i, j \in 1 .. m : Shift(n, i) < Shift(n, j) <=> i < j
  BY DEF Shift
<1>4. Len(new) = m + 1 /\ new[n + 1] = ins /\ n + 1 \in 1 .. m + 1
  BY DEF Inserted
<1> QED
  BY <1>1, <1>2, <1>3, <1>4

(* What comes before an instruction still does.                            *)
LEMMA BeforeShifted ==
  ASSUME NEW m \in Nat, NEW n \in 0 .. m, NEW new, NEW old, NEW ins,
         Inserted(new, old, n, ins), Len(old) = m
  PROVE  /\ \A i \in 1 .. m : \A op, on : Before(old, i, op, on) => Before(new, Shift(n, i), op, on)
         /\ \A op, on : Before(old, n + 1, op, on) => Before(new, n + 1, op, on)
<1>1. ASSUME NEW i \in 1 .. m, NEW op, NEW on, Before(old, i, op, on)
      PROVE  Before(new, Shift(n, i), op, on)
  <2>1. PICK j \in 1 .. m : j < i /\ old[j].op = op /\ old[j].on = on
    BY <1>1 DEF Before
  <2>2. Shift(n, j) \in 1 .. Len(new) /\ Shift(n, j) < Shift(n, i) /\ new[Shift(n, j)] = old[j]
    BY <2>1, Shifted
  <2> QED
    BY <2>1, <2>2 DEF Before
<1>2. ASSUME NEW op, NEW on, Before(old, n + 1, op, on) PROVE Before(new, n + 1, op, on)
  <2>1. PICK j \in 1 .. m : j < n + 1 /\ old[j].op = op /\ old[j].on = on
    BY <1>2 DEF Before
  <2>2. j \in 1 .. n /\ j \in 1 .. m + 1
    BY <2>1
  <2>3. new[j] = old[j] /\ Len(new) = m + 1
    BY <2>2 DEF Inserted
  <2> QED
    BY <2>1, <2>2, <2>3 DEF Before
<1> QED
  BY <1>1, <1>2

(* An instruction that fits keeps the shape of the code.                   *)
Fits(old, n, ins) ==
  /\ n < Len(old) => old[n].op # "load" \/ old[n + 1].op \notin Moves
  /\ n = Len(old) => \A i \in 1 .. Len(old) : old[i].op # "ret"
  /\ \A i \in 1 .. Len(old) :
       /\ old[i].op = "release" => ins.op \in {"release", "release_var"}
       /\ old[i].op = "release_var" /\ i <= n => ins.op \in {"release_var", "ret"}
       /\ ~Same(ins, old[i]) /\ ~Same(old[i], ins)

LEMMA Shaped ==
  ASSUME NEW S, NEW old \in Seq(S), NEW new \in Seq(S), NEW n \in 0 .. Len(old), NEW ins,
         Inserted(new, old, n, ins), Shape(old), Fits(old, n, ins),
         Grounded(new, n + 1), Placed(new, n + 1)
  PROVE  Shape(new)
<1> DEFINE m == Len(old)
           P(i) == Shift(n, i)
<1>1. m \in Nat /\ n \in Nat /\ n \in 0 .. m /\ DOMAIN old = 1 .. m /\ Len(old) = m
  BY LenProperties
<1> HIDE DEF m
<1>2. /\ \A i \in 1 .. m : /\ P(i) \in 1 .. m + 1 /\ P(i) # n + 1 /\ new[P(i)] = old[i]
                           /\ (P(i) < n + 1 <=> i <= n) /\ (n + 1 < P(i) <=> n < i)
      /\ \A k \in 1 .. m + 1 : k = n + 1 \/ \E i \in 1 .. m : k = P(i)
      /\ \A i, j \in 1 .. m : P(i) < P(j) <=> i < j
      /\ Len(new) = m + 1 /\ new[n + 1] = ins
  <2>1. ASSUME NEW i \in 1 .. m
        PROVE  /\ P(i) \in 1 .. m + 1 /\ P(i) # n + 1 /\ new[P(i)] = old[i]
               /\ (P(i) < n + 1 <=> i <= n) /\ (n + 1 < P(i) <=> n < i)
    <3>1. CASE i <= n
      BY <1>1, <3>1 DEF Shift, Inserted
    <3>2. CASE ~(i <= n)
      BY <1>1, <3>2 DEF Shift, Inserted
    <3> QED
      BY <3>1, <3>2
  <2>2. \A k \in 1 .. m + 1 : k = n + 1 \/ \E i \in 1 .. m : k = P(i)
    BY <1>1, Shifted, Zenon
  <2>3. \A i, j \in 1 .. m : P(i) < P(j) <=> i < j
    BY <1>1, Shifted, ZenonT(60)
  <2>4. Len(new) = m + 1 /\ new[n + 1] = ins
    BY <1>1 DEF Inserted
  <2> QED
    BY <2>1, <2>2, <2>3, <2>4
<1>3. DOMAIN new = 1 .. m + 1
  BY <1>2, LenProperties
<1>4. /\ \A i \in 1 .. m : \A op, on : Before(old, i, op, on) => Before(new, P(i), op, on)
  BY <1>1, BeforeShifted
<1>5. \A i \in 1 .. m : P(i) = IF i <= n THEN i ELSE i + 1
  BY DEF Shift
<1> HIDE DEF P
<1>6. \A i \in 1 .. m : i \in Int
  BY <1>1
<1>7. ASSUME NEW i \in 1 .. m, Loaded(old, i), old[i].op \in Moves PROVE Loaded(new, P(i))
  <2>1. i > 1 /\ i - 1 \in 1 .. m /\ old[i - 1].op = "load" /\ old[i - 1].to = old[i].on
    BY <1>1, <1>7 DEF Loaded
  <2>2. i - 1 # n
    <3>1. CASE i - 1 = n
      <4>1. n < m /\ n + 1 = i
        BY <1>1, <2>1, <3>1
      <4> QED
        BY <1>7, <2>1, <3>1, <4>1 DEF Fits, m
    <3> QED
      BY <3>1
  <2>3. P(i - 1) = P(i) - 1 /\ P(i) > 1
    <3>1. P(i) = (IF i <= n THEN i ELSE i + 1) /\ P(i - 1) = (IF i - 1 <= n THEN i - 1 ELSE (i - 1) + 1)
      BY <1>5, <2>1
    <3>2. CASE i <= n
      BY <1>1, <2>1, <3>1, <3>2
    <3>3. CASE ~(i <= n)
      BY <1>1, <2>1, <2>2, <3>1, <3>3
    <3> QED
      BY <3>2, <3>3
  <2> QED
    BY <1>2, <2>1, <2>3 DEF Loaded
<1>8. ASSUME NEW i \in 1 .. m PROVE Grounded(new, P(i))
  <2>1. Grounded(old, i) /\ new[P(i)] = old[i]
    BY <1>2 DEF Shape, m
  <2>2. ASSUME old[i].op = "ret" PROVE P(i) = Len(new)
    <3>1. i = m
      BY <2>1, <2>2 DEF Grounded, m
    <3>2. n # m
      BY <2>2, <3>1 DEF Fits, m
    <3> QED
      BY <1>1, <1>2, <1>5, <3>1, <3>2
  <2>3. \A x : Known(old, i, x) => Known(new, P(i), x)
    BY <1>4 DEF Known
  <2> QED
    BY <1>4, <1>7, <2>1, <2>2, <2>3 DEF Grounded
<1>9. ASSUME NEW i \in 1 .. m PROVE Placed(new, P(i))
  <2>1. Placed(old, i) /\ new[P(i)] = old[i] /\ P(i) \in 1 .. m + 1
    BY <1>2 DEF Shape, m
  <2>2. ASSUME old[i].op = "release", NEW k \in Users(new, old[i].on) PROVE k < P(i)
    <3>1. ins.op \in {"release", "release_var"}
      BY <2>2 DEF Fits, m
    <3>2. k \in 1 .. m + 1 /\ k # n + 1
      BY <1>2, <1>3, <2>2, <3>1 DEF Users
    <3>3. PICK j \in 1 .. m : k = P(j)
      BY <1>2, <3>2
    <3>4. j \in Users(old, old[i].on)
      BY <1>1, <1>2, <2>2, <3>3 DEF Users
    <3>5. j < i
      BY <2>1, <2>2, <3>4 DEF Placed
    <3> QED
      BY <1>2, <3>3, <3>5
  <2>3. ASSUME old[i].op = "release_var", NEW k \in 1 .. m + 1, P(i) < k
        PROVE  new[k].op \in {"release_var", "ret"}
    <3>1. CASE k = n + 1
      <4>1. i <= n
        BY <1>2, <2>3, <3>1
      <4> QED
        BY <1>2, <2>3, <3>1, <4>1 DEF Fits, m
    <3>2. CASE k # n + 1
      <4>1. PICK j \in 1 .. m : k = P(j)
        BY <1>2, <3>2
      <4>2. i < j
        BY <1>2, <2>3, <4>1
      <4> QED
        BY <1>2, <2>1, <2>3, <4>1, <4>2 DEF Placed, m
    <3> QED
      BY <3>1, <3>2
  <2> QED
    BY <1>2, <1>4, <2>1, <2>2, <2>3 DEF Placed
<1>10. \A k \in 1 .. Len(new) : Grounded(new, k) /\ Placed(new, k)
  BY <1>2, <1>8, <1>9
<1>11. ASSUME NEW k \in 1 .. Len(new), NEW l \in 1 .. Len(new), Same(new[k], new[l]) PROVE k = l
  <2>1. CASE k = n + 1 /\ l = n + 1
    BY <2>1
  <2>2. CASE k = n + 1 /\ l # n + 1
    <3>1. PICK j \in 1 .. m : l = P(j)
      BY <1>2, <2>2
    <3> QED
      BY <1>2, <1>11, <2>2, <3>1 DEF Fits, m
  <2>3. CASE k # n + 1 /\ l = n + 1
    <3>1. PICK i \in 1 .. m : k = P(i)
      BY <1>2, <2>3
    <3> QED
      BY <1>2, <1>11, <2>3, <3>1 DEF Fits, m
  <2>4. CASE k # n + 1 /\ l # n + 1
    <3>1. PICK i \in 1 .. m : k = P(i)
      BY <1>2, <2>4
    <3>2. PICK j \in 1 .. m : l = P(j)
      BY <1>2, <2>4
    <3>3. Same(old[i], old[j])
      BY <1>2, <1>11, <3>1, <3>2
    <3> QED
      BY <3>1, <3>2, <3>3 DEF Shape, m
  <2> QED
    BY <2>1, <2>2, <2>3, <2>4
<1> QED
  BY <1>10, <1>11 DEF Shape

-----------------------------------------------------------------------------
(* The cleanups of a function without `if`.                                *)

(* What the instructions of a kind are about.                              *)
Ons(code, op) == {code[i].on : i \in {j \in 1 .. Len(code) : code[j].op = op}}

LEMMA OnsInserted ==
  ASSUME NEW S, NEW old \in Seq(S), NEW new \in Seq(S), NEW n \in 0 .. Len(old), NEW ins,
         Inserted(new, old, n, ins), NEW op
  PROVE  Ons(new, op) = Ons(old, op) \cup (IF ins.op = op THEN {ins.on} ELSE {})
<1> DEFINE m == Len(old)
<1>1. m \in Nat /\ n \in 0 .. m /\ Len(old) = m
  BY LenProperties
<1> HIDE DEF m
<1>2. \A i \in 1 .. m : Shift(n, i) \in 1 .. m + 1 /\ new[Shift(n, i)] = old[i]
  BY <1>1, Shifted
<1>3. \A k \in 1 .. m + 1 : k = n + 1 \/ \E i \in 1 .. m : k = Shift(n, i)
  BY <1>1, Shifted, Zenon
<1>4. Len(new) = m + 1 /\ new[n + 1] = ins /\ n + 1 \in 1 .. m + 1
  BY <1>1 DEF Inserted
<1>5. ASSUME NEW e \in Ons(new, op) PROVE e \in Ons(old, op) \/ (ins.op = op /\ e = ins.on)
  <2>1. PICK k \in 1 .. m + 1 : new[k].op = op /\ new[k].on = e
    BY <1>4 DEF Ons
  <2>2. CASE k = n + 1
    BY <1>4, <2>1, <2>2
  <2>3. CASE k # n + 1
    <3>1. PICK i \in 1 .. m : k = Shift(n, i)
      BY <1>3, <2>3
    <3> QED
      BY <1>1, <1>2, <2>1, <3>1 DEF Ons
  <2> QED
    BY <2>2, <2>3
<1>6. ASSUME NEW e \in Ons(old, op) PROVE e \in Ons(new, op)
  <2>1. PICK i \in 1 .. m : old[i].op = op /\ old[i].on = e
    BY <1>1 DEF Ons
  <2>2. Shift(n, i) \in 1 .. Len(new) /\ new[Shift(n, i)].op = op /\ new[Shift(n, i)].on = e
    BY <1>2, <1>4, <2>1
  <2> QED
    BY <2>2 DEF Ons
<1>7. ins.op = op => ins.on \in Ons(new, op)
  BY <1>4 DEF Ons
<1> QED
  BY <1>5, <1>6, <1>7

(* The code ends in a return, of none of the objects.                      *)
Returns(code, objects) ==
  Len(code) >= 1 /\ code[Len(code)].op = "ret" /\ code[Len(code)].on \notin objects

(* An instruction that is no user adds none.                               *)
LEMMA NoMoreUsers ==
  ASSUME NEW S, NEW old \in Seq(S), NEW new \in Seq(S), NEW m, m = Len(old),
         NEW n \in 0 .. m, NEW ins, NEW v, Inserted(new, old, n, ins)
  PROVE  /\ ins.op # "init" /\ ins.op \notin Moves /\ ins.op # "ret"
         /\ \A j \in Users(old, v) : j <= n
         => \A k \in Users(new, v) : k < n + 1
<1>0. m \in Nat
  BY LenProperties
<1>1. /\ \A i \in 1 .. m : new[Shift(n, i)] = old[i] /\ (Shift(n, i) < n + 1 <=> i <= n)
      /\ \A k \in 1 .. m + 1 : k = n + 1 \/ \E i \in 1 .. m : k = Shift(n, i)
      /\ Len(new) = m + 1 /\ new[n + 1] = ins
  <2>1. \A i \in 1 .. m : /\ Shift(n, i) \in 1 .. m + 1 /\ Shift(n, i) # n + 1
                          /\ new[Shift(n, i)] = old[i]
                          /\ (Shift(n, i) < n + 1 <=> i <= n)
                          /\ (n + 1 < Shift(n, i) <=> n < i)
    BY <1>0, Shifted
  <2>2. \A k \in 1 .. m + 1 : k = n + 1 \/ \E i \in 1 .. m : k = Shift(n, i)
    BY <1>0, Shifted, Zenon
  <2>3. Len(new) = m + 1 /\ new[n + 1] = ins
    BY DEF Inserted
  <2> QED
    BY <2>1, <2>2, <2>3
<1> SUFFICES ASSUME ins.op # "init" /\ ins.op \notin Moves /\ ins.op # "ret",
                    \A j \in Users(old, v) : j <= n,
                    NEW k \in Users(new, v)
             PROVE  k < n + 1
  OBVIOUS
<1>2. k \in 1 .. m + 1 /\ k # n + 1
  BY <1>0, <1>1, LenProperties DEF Users, Moves
<1>3. PICK j \in 1 .. m : k = Shift(n, j)
  BY <1>1, <1>2
<1>4. DOMAIN old = 1 .. m
  BY LenProperties
<1>5. j \in Users(old, v)
  BY <1>1, <1>3, <1>4 DEF Users
<1> QED
  BY <1>1, <1>3, <1>5

(* A release of an object goes behind its last user.                       *)
LEMMA ObjectReleased ==
  ASSUME NEW S, NEW old \in Seq(S), NEW new \in Seq(S), NEW n \in 0 .. Len(old),
         NEW v, NEW objects, v \in objects, Returns(old, objects), Shape(old),
         n \in Users(old, v), \A j \in Users(old, v) : j <= n, v \in Ons(old, "init"), v \notin Ons(old, "release"),
         Inserted(new, old, n, I("release", v, Null))
  PROVE  Shape(new) /\ Returns(new, objects)
<1> DEFINE m == Len(old)
           ins == I("release", v, Null)
<1>0. m \in Nat /\ m >= 1 /\ n \in 0 .. m /\ n \in Int /\ m \in 1 .. m
  BY LenProperties DEF Returns
<1>1. DOMAIN old = 1 .. m /\ DOMAIN new = 1 .. Len(new) /\ Len(old) = m
  BY LenProperties
<1> HIDE DEF m
<1>2. ins.op = "release" /\ ins.on = v
  BY DEF I
<1>3. PICK i \in 1 .. m : old[i].op = "init" /\ old[i].on = v
  BY <1>1 DEF Ons
<1>4. i \in Users(old, v)
  BY <1>1, <1>3 DEF Users
<1>5. n \in Users(old, v) /\ \A j \in Users(old, v) : j <= n
  OBVIOUS
<1>6. /\ old[n].op \in {"init", "call", "store", "plain_store", "ret"} /\ old[n].on = v
      /\ n \in 1 .. m
  BY <1>0, <1>1, <1>5 DEF Users
<1>7. n # m /\ n < m
  <2>1. old[m].on # v
    BY <1>1 DEF Returns
  <2>2. n # m
    BY <1>6, <2>1
  <2> QED
    BY <1>0, <2>2
<1> HIDE DEF ins
<1>8. Fits(old, n, ins)
  <2>1. old[n].op # "load"
    BY <1>6
  <2>2. ASSUME NEW k \in 1 .. m, old[k].op = "release_var", k <= n PROVE FALSE
    <3>1. Placed(old, k) /\ Grounded(old, n)
      BY <1>1, <1>6 DEF Shape
    <3>2. CASE k < n
      <4>1. old[n].op \in {"release_var", "ret"}
        BY <1>1, <1>6, <2>2, <3>1, <3>2 DEF Placed
      <4>2. old[n].op = "ret"
        BY <1>6, <4>1
      <4> QED
        BY <1>1, <1>7, <3>1, <4>2 DEF Grounded
    <3>3. CASE k = n
      BY <1>6, <2>2, <3>3
    <3>4. k < n \/ k = n
      BY <1>0, <2>2
    <3> QED
      BY <3>2, <3>3, <3>4
  <2>3. ASSUME NEW k \in 1 .. m, Same(ins, old[k]) \/ Same(old[k], ins) PROVE FALSE
    <3>1. old[k].op = "release" /\ old[k].on = v
      BY <1>2, <2>3 DEF Same, Origin
    <3> QED
      BY <1>1, <3>1 DEF Ons
  <2> QED
    BY <1>0, <1>1, <1>2, <1>7, <2>1, <2>2, <2>3 DEF Fits
<1>9. Len(new) = m + 1 /\ new[n + 1] = ins
  BY <1>1 DEF Inserted, ins
<1>10. Grounded(new, n + 1)
  BY <1>2, <1>9 DEF Grounded, Moves
<1>11. Before(new, n + 1, "new", v)
  <2>1. Grounded(old, i)
    BY <1>1 DEF Shape
  <2>2. Before(old, i, "new", v)
    BY <1>3, <2>1 DEF Grounded
  <2>3. i < n + 1
    BY <1>0, <1>3, <1>4, <1>5
  <2>4. Before(old, n + 1, "new", v)
    BY <1>1, <2>2, <2>3 DEF Before
  <2> QED
    BY <1>0, <1>1, <2>4, BeforeShifted
<1>12. \A k \in Users(new, v) : k < n + 1
  <2>1. Inserted(new, old, n, ins)
    BY DEF ins
  <2>2. ins.op # "init" /\ ins.op \notin Moves /\ ins.op # "ret"
    BY <1>2 DEF Moves
  <2> QED
    BY <1>0, <1>1, <1>5, <1>9, <2>1, <2>2, NoMoreUsers
<1>13. Placed(new, n + 1)
  BY <1>2, <1>9, <1>11, <1>12 DEF Placed
<1>14. Shape(new)
  <2>1. Inserted(new, old, n, ins)
    BY DEF ins
  <2> QED
    BY <1>8, <1>10, <1>13, <2>1, Shaped
<1>15. Returns(new, objects)
  <2>1. m \in n + 1 .. Len(old)
    BY <1>0, <1>1, <1>7
  <2>2. new[m + 1] = old[m]
    BY <2>1 DEF Inserted
  <2> QED
    BY <1>0, <1>1, <1>9, <2>2 DEF Returns
<1> QED
  BY <1>14, <1>15

(* The release of a variable goes in front of the return.                  *)
LEMMA VariableReleased ==
  ASSUME NEW S, NEW old \in Seq(S), NEW new \in Seq(S), NEW n \in 0 .. Len(old),
         NEW x, NEW objects, Returns(old, objects), Shape(old),
         n = Len(old) - 1, x \in Ons(old, "null"), x \notin Ons(old, "release_var"),
         Inserted(new, old, n, I("release_var", x, Null))
  PROVE  Shape(new) /\ Returns(new, objects)
<1> DEFINE m == Len(old)
           ins == I("release_var", x, Null)
<1>1. DOMAIN old = 1 .. m /\ DOMAIN new = 1 .. Len(new) /\ Len(old) = m /\ n = m - 1
      /\ m \in Nat /\ m >= 1
  BY LenProperties DEF Returns
<1> HIDE DEF m
<1>0. n \in 0 .. m /\ n + 1 = m /\ n < m /\ m \in Nat /\ m \in 1 .. m
  BY <1>1
<1>2. ins.op = "release_var" /\ ins.on = x
  BY DEF I
<1>3. PICK i \in 1 .. m : old[i].op = "null" /\ old[i].on = x
  BY <1>1 DEF Ons
<1>4. old[m].op = "ret"
  BY <1>1 DEF Returns
<1> HIDE DEF ins
<1>5. Fits(old, n, ins)
  <2>1. ASSUME NEW k \in 1 .. m, Same(ins, old[k]) \/ Same(old[k], ins) PROVE FALSE
    <3>1. old[k].op = "release_var" /\ old[k].on = x
      BY <1>2, <2>1 DEF Same, Origin
    <3> QED
      BY <1>1, <3>1 DEF Ons
  <2> QED
    BY <1>0, <1>1, <1>2, <1>4, <2>1 DEF Fits, Moves
<1>6. Len(new) = m + 1 /\ new[n + 1] = ins
  BY <1>1 DEF Inserted, ins
<1>7. Grounded(new, n + 1)
  BY <1>2, <1>6 DEF Grounded, Moves
<1>8. Before(new, n + 1, "null", x)
  <2>1. i < n + 1
    <3>1. i # m
      BY <1>3, <1>4
    <3> QED
      BY <1>0, <3>1
  <2>2. Before(old, n + 1, "null", x)
    BY <1>1, <1>3, <2>1 DEF Before
  <2> QED
    BY <1>0, <1>1, <2>2, BeforeShifted
<1>9. new[m + 1] = old[m]
  <2>1. m \in n + 1 .. Len(old)
    BY <1>0, <1>1
  <2> QED
    BY <2>1 DEF Inserted
<1>10. ASSUME NEW k \in 1 .. Len(new), n + 1 < k PROVE new[k].op \in {"release_var", "ret"}
  <2>1. k = m + 1
    BY <1>0, <1>6, <1>10
  <2> QED
    BY <1>4, <1>9, <2>1
<1>11. Placed(new, n + 1)
  BY <1>2, <1>6, <1>8, <1>10 DEF Placed
<1>12. Shape(new)
  <2>1. Inserted(new, old, n, ins)
    BY DEF ins
  <2> QED
    BY <1>5, <1>7, <1>11, <2>1, Shaped
<1>13. Returns(new, objects)
  BY <1>0, <1>1, <1>4, <1>6, <1>9 DEF Returns
<1> QED
  BY <1>12, <1>13

-----------------------------------------------------------------------------
(* The loop over the cleanups of a function without `if`.                  *)

(* What the first k cleanups release.                                      *)
Done(cs, k, kind) == {cs[a].on : a \in {b \in 1 .. k : cs[b].kind = kind}}

(* The code of such a function when its scope ends: everything that it     *)
(* creates or declares has one cleanup, and none has run.                  *)
Draft(code, cs) ==
  /\ Shape(code)
  /\ Ons(code, "release") = {} /\ Ons(code, "release_var") = {}
  /\ Ons(code, "new") = Done(cs, Len(cs), "object")
  /\ Ons(code, "init") = Done(cs, Len(cs), "object")
  /\ Ons(code, "null") = Done(cs, Len(cs), "variable")
  /\ \A a, b \in 1 .. Len(cs) : cs[a].kind = cs[b].kind /\ cs[a].on = cs[b].on => a = b
  /\ \A a \in 1 .. Len(cs) : cs[a].bb = 1

(* ... and when k of them have.                                            *)
ReleasedSoFar(code, old, cs, k) ==
  /\ Shape(code) /\ Returns(code, Done(cs, Len(cs), "object"))
  /\ \A op \in {"new", "init", "null"} : Ons(code, op) = Ons(old, op)
  /\ Ons(code, "release") = Done(cs, k, "object")
  /\ Ons(code, "release_var") = Done(cs, k, "variable")

LEMMA OneMore ==
  ASSUME NEW cs, NEW k \in Nat, NEW kind
  PROVE  Done(cs, k + 1, kind) =
           Done(cs, k, kind) \cup (IF cs[k + 1].kind = kind THEN {cs[k + 1].on} ELSE {})
<1>1. 1 .. k + 1 = (1 .. k) \cup {k + 1}
  OBVIOUS
<1> QED
  BY <1>1 DEF Done

LEMMA CleanupStep ==
  ASSUME NEW old, NEW cs, Draft(old, cs), NEW k \in Nat, k + 1 \in 1 .. Len(cs),
         Len(cs) \in Nat, cs[k + 1] \in Cleanups,
         NEW bs, CodeOK(bs), Len(bs) = 1, CleanupOK(cs[k + 1], bs), ReleasedSoFar(bs[1], old, cs, k)
  PROVE  ReleasedSoFar(scopeOut(bs, cs[k + 1])[1], old, cs, k + 1)
<1> DEFINE c == cs[k + 1]
           code == bs[1]
           new == scopeOut(bs, c)[1]
           n == Place(code, c)
           objects == Done(cs, Len(cs), "object")
<1>1. c.bb = 1 /\ c.kind \in {"object", "variable"}
  BY DEF Draft, Cleanups
<1>2. /\ CodeOK(scopeOut(bs, c)) /\ Len(scopeOut(bs, c)) = 1
      /\ n \in 0 .. Len(code) /\ Inserted(new, code, n, Insert(c))
  BY <1>1, ScopedOut
<1>3. code \in Code(1) /\ new \in Code(1)
  <2>1. ASSUME NEW as, CodeOK(as), Len(as) = 1 PROVE as[1] \in Code(1)
    <3>1. as \in Seq(Code(1))
      BY <2>1, Zenon DEF CodeOK
    <3>2. 1 \in 1 .. Len(as)
      BY <2>1
    <3> QED
      BY <3>1, <3>2, ElementOfSeq
  <2> HIDE DEF c
  <2> QED
    BY <1>2, <2>1
<1>4. /\ Shape(code) /\ Returns(code, objects)
      /\ \A op \in {"new", "init", "null"} : Ons(code, op) = Ons(old, op)
      /\ Ons(code, "release") = Done(cs, k, "object")
      /\ Ons(code, "release_var") = Done(cs, k, "variable")
  BY DEF ReleasedSoFar
<1>5. /\ Done(cs, k + 1, "object") =
           Done(cs, k, "object") \cup (IF c.kind = "object" THEN {c.on} ELSE {})
      /\ Done(cs, k + 1, "variable") =
           Done(cs, k, "variable") \cup (IF c.kind = "variable" THEN {c.on} ELSE {})
  BY OneMore
<1>6. c.on \in Done(cs, Len(cs), c.kind) /\ c.on \notin Done(cs, k, c.kind)
  <2>1. c.on \in Done(cs, Len(cs), c.kind)
    BY DEF Done
  <2>2. ASSUME NEW a \in 1 .. k, cs[a].kind = c.kind, cs[a].on = c.on PROVE FALSE
    <3>1. a \in 1 .. Len(cs) /\ a # k + 1
      OBVIOUS
    <3> QED
      BY <2>2, <3>1 DEF Draft
  <2> QED
    BY <2>1, <2>2 DEF Done
<1> HIDE DEF c, code, new, n, objects
<1>7. \A op : Ons(new, op) = Ons(code, op) \cup (IF Insert(c).op = op THEN {Insert(c).on} ELSE {})
  <2> TAKE op
  <2> HIDE DEF Insert
  <2> QED
    BY <1>2, <1>3, OnsInserted DEF Code
<1>8. CASE c.kind = "object"
  <2>1. Insert(c) = I("release", c.on, Null) /\ n = getLastUsage(code, c.on)
    BY <1>8 DEF Insert, Place, n
  <2>2. Users(code, c.on) # {}
    BY <1>1, <1>8 DEF CleanupOK, c, code
  <2>3. n \in Users(code, c.on) /\ \A j \in Users(code, c.on) : j <= n
    BY <1>3, <2>1, <2>2, LastUsage DEF Code
  <2>4. c.on \in objects /\ c.on \in Ons(code, "init") /\ c.on \notin Ons(code, "release")
    BY <1>4, <1>6, <1>8 DEF Draft, objects
  <2>5. Inserted(new, code, n, I("release", c.on, Null))
    BY <1>2, <2>1
  <2>6. Shape(new) /\ Returns(new, objects)
    BY <1>2, <1>3, <1>4, <2>3, <2>4, <2>5, ObjectReleased DEF Code
  <2>7. Insert(c).op = "release" /\ Insert(c).on = c.on
    BY <2>1 DEF I
  <2>8. /\ \A op \in {"new", "init", "null"} : Ons(new, op) = Ons(old, op)
        /\ Ons(new, "release") = Done(cs, k + 1, "object")
        /\ Ons(new, "release_var") = Done(cs, k + 1, "variable")
    BY <1>4, <1>5, <1>7, <1>8, <2>7
  <2> QED
    BY <2>6, <2>8 DEF ReleasedSoFar, new, objects, c
<1>9. CASE c.kind = "variable"
  <2>1. Insert(c) = I("release_var", c.on, Null) /\ n = Len(code) - 1
    BY <1>9 DEF Insert, Place, n
  <2>2. c.on \in Ons(code, "null") /\ c.on \notin Ons(code, "release_var")
    BY <1>4, <1>6, <1>9 DEF Draft
  <2>3. Inserted(new, code, n, I("release_var", c.on, Null))
    BY <1>2, <2>1
  <2>4. Shape(new) /\ Returns(new, objects)
    BY <1>2, <1>3, <1>4, <2>1, <2>2, <2>3, VariableReleased DEF Code
  <2>5. Insert(c).op = "release_var" /\ Insert(c).on = c.on
    BY <2>1 DEF I
  <2>6. \A op \in {"new", "init", "null"} : Ons(new, op) = Ons(old, op)
    BY <1>4, <1>7, <2>5, ZenonT(60)
  <2>7. Ons(new, "release") = Done(cs, k + 1, "object")
    BY <1>4, <1>5, <1>7, <1>9, <2>5
  <2>8. Ons(new, "release_var") = Done(cs, k + 1, "variable")
    BY <1>4, <1>5, <1>7, <1>9, <2>5
  <2> QED
    BY <2>4, <2>6, <2>7, <2>8 DEF ReleasedSoFar, new, objects, c
<1> QED
  BY <1>1, <1>8, <1>9
LEMMA Cleaned ==
  ASSUME CodeOK(blocks), Scope \in Scopes, ScopeOK(Scope, blocks), Len(blocks) = 1,
         Draft(blocks[1], Scope.cleanups),
         Returns(blocks[1], Done(Scope.cleanups, Len(Scope.cleanups), "object"))
  PROVE  ReleasedSoFar(doCleanup[1], blocks[1], Scope.cleanups, Len(Scope.cleanups))
<1> DEFINE cs == Scope.cleanups
           n == Len(cs)
           old == blocks[1]
           T(f) == {k \in Nat : k <= n => ReleasedSoFar(f[k][1], old, cs, k)}
<1>1. n \in Nat /\ \A i \in 1 .. n : cs[i] \in Cleanups
  <2>1. cs \in Seq(Cleanups)
    BY DEF Scopes
  <2> HIDE DEF cs
  <2> QED
    BY <2>1, LenProperties, ElementOfSeq
<1>2. PICK f : CleansThrough(f)
  BY CleanupLoop
<1>3. 0 \in T(f)
  <2>1. \A kind : Done(cs, 0, kind) = {}
    BY DEF Done
  <2>2. f[0] = blocks
    BY <1>2 DEF CleansThrough
  <2> QED
    BY <2>1, <2>2 DEF ReleasedSoFar, Draft
<1>4. ASSUME NEW k \in Nat, k \in T(f) PROVE k + 1 \in T(f)
  <2> SUFFICES ASSUME k + 1 <= n PROVE ReleasedSoFar(f[k + 1][1], old, cs, k + 1)
    OBVIOUS
  <2>1. k + 1 \in 1 .. n /\ k \in 0 .. n /\ (k + 1) - 1 = k /\ k <= n
    BY <1>1
  <2>2. CodeOK(f[k]) /\ Len(f[k]) = 1 /\ Keeps(blocks, f[k])
    BY <1>2, <2>1 DEF CleansThrough
  <2>3. f[k + 1] = scopeOut(f[k], cs[k + 1])
    BY <1>2, <2>1 DEF CleansThrough
  <2>4. CleanupOK(cs[k + 1], f[k])
    <3>1. CleanupOK(cs[k + 1], blocks)
      BY <2>1 DEF ScopeOK
    <3> HIDE DEF cs
    <3> QED
      BY <2>2, <3>1, KeepsMore, Zenon
  <2>5. ReleasedSoFar(f[k][1], old, cs, k)
    BY <1>4, <2>1
  <2> HIDE DEF cs, n, old
  <2>6. Draft(old, cs)
    BY DEF old, cs
  <2>7. cs[k + 1] \in Cleanups
    BY <1>1, <2>1
  <2>8. ReleasedSoFar(scopeOut(f[k], cs[k + 1])[1], old, cs, k + 1)
    BY <1>1, <2>1, <2>2, <2>4, <2>5, <2>6, <2>7, CleanupStep DEF n
  <2> QED
    BY <2>3, <2>8
<1>5. n \in T(f)
  <2> HIDE DEF T, n
  <2> QED
    BY <1>1, <1>3, <1>4, SetInduction
<1>6. doCleanup = f[n]
  BY <1>2 DEF CleansThrough
<1> QED
  BY <1>1, <1>5, <1>6

(* Cleanups insert nothing else.                                           *)
LEMMA OpsKept ==
  ASSUME CodeOK(blocks), Scope \in Scopes, ScopeOK(Scope, blocks), Len(blocks) = 1,
         NEW op, op # "release", op # "release_var"
  PROVE  Ons(doCleanup[1], op) = Ons(blocks[1], op)
<1> DEFINE cs == Scope.cleanups
           n == Len(cs)
           T(f) == {k \in Nat : k <= n => Ons(f[k][1], op) = Ons(blocks[1], op)}
<1>1. n \in Nat /\ \A i \in 1 .. n : cs[i] \in Cleanups
  <2>1. cs \in Seq(Cleanups)
    BY DEF Scopes
  <2> HIDE DEF cs
  <2> QED
    BY <2>1, LenProperties, ElementOfSeq
<1>2. PICK f : CleansThrough(f)
  BY CleanupLoop
<1>3. 0 \in T(f)
  BY <1>2 DEF CleansThrough
<1>4. ASSUME NEW k \in Nat, k \in T(f) PROVE k + 1 \in T(f)
  <2> SUFFICES ASSUME k + 1 <= n PROVE Ons(f[k + 1][1], op) = Ons(blocks[1], op)
    OBVIOUS
  <2> DEFINE c == cs[k + 1]
             old == f[k][1]
             new == f[k + 1][1]
  <2>1. k + 1 \in 1 .. n /\ k \in 0 .. n /\ k + 1 \in 0 .. n /\ (k + 1) - 1 = k /\ k <= n
    BY <1>1
  <2>2. /\ CodeOK(f[k]) /\ Len(f[k]) = 1 /\ Keeps(blocks, f[k])
        /\ CodeOK(f[k + 1]) /\ Len(f[k + 1]) = 1
    BY <1>2, <2>1 DEF CleansThrough
  <2>3. f[k + 1] = scopeOut(f[k], c)
    BY <1>2, <2>1 DEF CleansThrough
  <2>4. CleanupOK(c, f[k]) /\ c \in Cleanups
    <3>1. CleanupOK(c, blocks)
      BY <2>1 DEF ScopeOK
    <3> HIDE DEF cs, n
    <3> QED
      BY <1>1, <2>1, <2>2, <3>1, KeepsMore, Zenon
  <2> HIDE DEF c
  <2>5. c.bb = 1
    BY <2>2, <2>4 DEF CleanupOK
  <2>6. Place(old, c) \in 0 .. Len(old) /\ Inserted(new, old, Place(old, c), Insert(c))
    BY <2>2, <2>3, <2>4, <2>5, ScopedOut
  <2>7. old \in Seq(Instruction(1)) /\ new \in Seq(Instruction(1))
    <3>1. ASSUME NEW as, CodeOK(as), Len(as) = 1 PROVE as[1] \in Seq(Instruction(1))
      <4>1. as \in Seq(Code(1))
        BY <3>1, Zenon DEF CodeOK
      <4>2. 1 \in 1 .. Len(as)
        BY <3>1
      <4> QED
        BY <4>1, <4>2, ElementOfSeq DEF Code
    <3> QED
      BY <2>2, <3>1
  <2>8. Insert(c).op # op
    BY DEF Insert, I
  <2> HIDE DEF old, new
  <2>9. Ons(new, op) = Ons(old, op)
    <3>1. Ons(new, op) = Ons(old, op) \cup (IF Insert(c).op = op THEN {Insert(c).on} ELSE {})
      BY <2>6, <2>7, OnsInserted
    <3> QED
      BY <2>8, <3>1
  <2> QED
    BY <1>4, <2>1, <2>9 DEF old, new
<1>5. n \in T(f)
  <2> HIDE DEF T, n
  <2> QED
    BY <1>1, <1>3, <1>4, SetInduction
<1>6. doCleanup = f[n]
  BY <1>2 DEF CleansThrough
<1> QED
  BY <1>1, <1>5, <1>6

-----------------------------------------------------------------------------
(* The statements of a function without `if`, instruction by instruction.  *)

LEMMA OneByOne ==
  ASSUME NEW S, NEW s \in Seq(S), NEW a \in S, NEW b \in S, NEW c \in S
  PROVE  /\ s \o <<a>> = Append(s, a)
         /\ s \o <<a, b>> = Append(Append(s, a), b)
         /\ s \o <<a, b, c>> = Append(Append(Append(s, a), b), c)
<1>1. \A r \in Seq(S), e \in S : Append(r, e) \in Seq(S) /\ r \o <<e>> = Append(r, e)
  <2> TAKE r \in Seq(S), e \in S
  <2>1. Append(r, e) \in Seq(S)
    BY AppendProperties
  <2>2. r \o <<e>> = Append(r, e)
    BY AppendIsConcat
  <2> QED
    BY <2>1, <2>2
<1>2. <<a>> \in Seq(S) /\ <<b>> \in Seq(S) /\ <<c>> \in Seq(S) /\ <<a, b>> \in Seq(S)
  OBVIOUS
<1>3. <<a, b>> = <<a>> \o <<b>> /\ <<a, b, c>> = <<a, b>> \o <<c>>
  <2>1. <<a, b>> = Append(<<a>>, b) /\ <<a, b, c>> = Append(<<a, b>>, c)
    OBVIOUS
  <2> QED
    BY <1>1, <1>2, <2>1
<1> DEFINE A == <<a>>
           B == <<b>>
           C == <<c>>
           AB == <<a, b>>
           ABC == <<a, b, c>>
<1> HIDE DEF A, B, C, AB, ABC
<1>4. s \o AB = (s \o A) \o B
  <2>1. A \in Seq(S) /\ B \in Seq(S) /\ AB = A \o B
    BY <1>2, <1>3 DEF A, B, AB
  <2> QED
    BY <2>1, ConcatAssociative, SMTT(40)
<1>5. s \o ABC = (s \o AB) \o C
  <2>1. AB \in Seq(S) /\ C \in Seq(S) /\ ABC = AB \o C
    BY <1>2, <1>3 DEF C, AB, ABC
  <2> QED
    BY <2>1, ConcatAssociative, SMTT(30)
<1> QED
  BY <1>1, <1>4, <1>5 DEF A, B, C, AB, ABC

(* The values that the code defines.                                       *)
Origins(code) == {v \in Value : \E i \in 1 .. Len(code) : Origin(code[i], v)}

(* Code that no cleanup has come to and no return has ended.               *)
Open(code) ==
  Shape(code) /\ \A op \in {"release", "release_var", "ret"} : Ons(code, op) = {}

(* What may come next.                                                     *)
Accepts(code, ins) ==
  /\ ins.op \in {"null", "new", "load", "init", "call", "store", "plain_store", "ret"}
  /\ ins.op = "null" => ins.on \notin Ons(code, "null")
  /\ ins.op = "new" => ins.on \notin Origins(code) /\ ins.on # Caller
  /\ ins.op = "load" => /\ ins.to \notin Origins(code)
                        /\ ins.on \in Local => ins.on \in Ons(code, "null")
  /\ ins.op \in {"store", "plain_store"} =>
       ins.to \notin Field /\ (ins.to \in Local => ins.to \in Ons(code, "null"))
  /\ ins.op = "init" => ins.on \in Ons(code, "new")
  /\ ins.op \in Moves =>
       \/ ins.on \in Ons(code, "new")
       \/ Len(code) >= 1 /\ code[Len(code)].op = "load" /\ code[Len(code)].to = ins.on

Extended(new, code, ins) ==
  /\ Shape(new)
  /\ Len(new) = Len(code) + 1 /\ new[Len(new)] = ins
  /\ \A op : Ons(new, op) = Ons(code, op) \cup (IF ins.op = op THEN {ins.on} ELSE {})
  /\ Origins(new) = Origins(code) \cup {v \in Value : Origin(ins, v)}

LEMMA Written ==
  ASSUME NEW S, NEW code \in Seq(S), NEW ins \in S, Open(code), Accepts(code, ins)
  PROVE  Append(code, ins) \in Seq(S) /\ Extended(Append(code, ins), code, ins)
<1> DEFINE new == Append(code, ins)
           n == Len(code)
<1>1. /\ n \in Nat /\ new \in Seq(S) /\ Len(new) = n + 1
      /\ \A i \in 1 .. n : new[i] = code[i]
      /\ new[n + 1] = ins
  BY LenProperties, AppendProperties
<1> HIDE DEF new
<1>2. Inserted(new, code, n, ins)
  BY <1>1 DEF Inserted
<1>3. \A op : Ons(new, op) = Ons(code, op) \cup (IF ins.op = op THEN {ins.on} ELSE {})
  <2> TAKE op
  <2>1. n \in 0 .. n
    BY <1>1
  <2> QED
    BY <1>1, <1>2, <2>1, OnsInserted
<1>4. Origins(new) = Origins(code) \cup {v \in Value : Origin(ins, v)}
  <2>1. ASSUME NEW v \in Value, NEW i \in 1 .. n + 1, Origin(new[i], v)
        PROVE  Origin(ins, v) \/ \E j \in 1 .. n : Origin(code[j], v)
    <3>1. i = n + 1 \/ i \in 1 .. n
      BY <1>1
    <3> QED
      BY <1>1, <2>1, <3>1
  <2>2. \A j \in 1 .. n : j \in 1 .. n + 1 /\ new[j] = code[j]
    BY <1>1
  <2>3. n + 1 \in 1 .. n + 1
    BY <1>1
  <2> HIDE DEF n
  <2> QED
    BY <1>1, <2>1, <2>2, <2>3, Zenon DEF Origins, n
<1>5. ASSUME NEW op, NEW on \in Ons(code, op) PROVE Before(new, n + 1, op, on)
  <2>1. PICK i \in 1 .. n : code[i].op = op /\ code[i].on = on
    BY DEF Ons
  <2>2. i \in 1 .. n + 1 /\ i < n + 1
    BY <1>1
  <2> QED
    BY <1>1, <2>1, <2>2 DEF Before
<1>6. Grounded(new, n + 1)
  <2>1. \A x \in Local : x \in Ons(code, "null") => Before(new, n + 1, "null", x)
    BY <1>5
  <2>2. ins.on \in Ons(code, "new") => Before(new, n + 1, "new", ins.on)
    BY <1>5
  <2>3. n >= 1 /\ code[n].op = "load" /\ code[n].to = ins.on => Loaded(new, n + 1)
    BY <1>1 DEF Loaded
  <2>4. ins.op \in Moves => Loaded(new, n + 1) \/ Before(new, n + 1, "new", ins.on)
    BY <2>2, <2>3, Zenon DEF Accepts, n
  <2> HIDE DEF n
  <2>5. new[n + 1] = ins /\ Len(new) = n + 1
    BY <1>1
  <2>6. ins.op \notin {"br", "condbr"}
    BY DEF Accepts
  <2>7. /\ ins.op = "load" => Known(new, n + 1, ins.on)
        /\ ins.op \in {"store", "plain_store"} => ins.to \notin Field /\ Known(new, n + 1, ins.to)
        /\ ins.op = "init" => Before(new, n + 1, "new", ins.on)
        /\ ins.op = "new" => ins.on # Caller
    BY <2>1, <2>2, Zenon DEF Accepts, Known
  <2> QED
    BY <2>4, <2>5, <2>6, <2>7 DEF Grounded
<1>7. ins.op # "release" /\ ins.op # "release_var"
  BY DEF Accepts
<1>8. Placed(new, n + 1)
  BY <1>1, <1>7 DEF Placed
<1>9. \A i \in 1 .. n : /\ code[i].op # "release" /\ code[i].op # "release_var" /\ code[i].op # "ret"
  BY DEF Open, Ons
<1>10. ASSUME NEW i \in 1 .. n, Same(ins, code[i]) \/ Same(code[i], ins) PROVE FALSE
  <2>1. CASE \E v \in Value : Origin(ins, v) /\ Origin(code[i], v)
    <3>1. PICK v \in Value : Origin(ins, v) /\ Origin(code[i], v)
      BY <2>1
    <3>2. v \in Origins(code)
      BY <3>1 DEF Origins
    <3> QED
      BY <3>1, <3>2 DEF Accepts, Origin
  <2>2. CASE ins.op = code[i].op /\ ins.on = code[i].on /\ ins.op \in {"null", "release", "release_var"}
    <3>1. ins.on \in Ons(code, "null")
      BY <1>7, <2>2 DEF Ons
    <3> QED
      BY <1>7, <2>2, <3>1 DEF Accepts
  <2> QED
    BY <1>10, <2>1, <2>2 DEF Same
<1>11. Fits(code, n, ins)
  BY <1>1, <1>9, <1>10 DEF Fits
<1>12. Shape(new)
  <2>1. n \in 0 .. n
    BY <1>1
  <2> QED
    BY <1>1, <1>2, <1>6, <1>8, <1>11, <2>1, Shaped DEF Open
<1> QED
  BY <1>1, <1>3, <1>4, <1>12 DEF Extended, new
LEMMA StaysOpen ==
  ASSUME NEW code, NEW new, NEW ins, Open(code), Extended(new, code, ins),
         ins.op \notin {"release", "release_var", "ret"}
  PROVE  Open(new)
<1>1. ASSUME NEW op \in {"release", "release_var", "ret"} PROVE Ons(new, op) = {}
  <2>1. Ons(new, op) = Ons(code, op) \cup (IF ins.op = op THEN {ins.on} ELSE {})
    BY DEF Extended
  <2>2. Ons(code, op) = {} /\ ins.op # op
    BY DEF Open
  <2> QED
    BY <2>1, <2>2
<1> QED
  BY <1>1 DEF Open, Extended

(* An object is created, initialized and used once.                        *)
LEMMA NewWritten ==
  ASSUME NEW S, NEW code \in Seq(S), Open(code), NEW v \in Value, v \notin Origins(code), v # Caller,
         I("new", v, Null) \in S, I("init", v, Null) \in S,
         NEW user \in S, user.on = v, user.op \in {"store", "call", "ret"},
         user.op = "store" =>
           user.to \notin Field /\ (user.to \in Local => user.to \in Ons(code, "null"))
  PROVE  LET new == code \o <<I("new", v, Null), I("init", v, Null), user>>
         IN  /\ Shape(new)
             /\ \A op : Ons(new, op) = Ons(code, op) \cup
                          (IF op \in {"new", "init", user.op} THEN {v} ELSE {})
             /\ Origins(new) = Origins(code) \cup {v}
<1> DEFINE a == I("new", v, Null)
           b == I("init", v, Null)
           c1 == Append(code, a)
           c2 == Append(c1, b)
           c3 == Append(c2, user)
<1>1. a.op = "new" /\ a.on = v /\ b.op = "init" /\ b.on = v /\ a \in S /\ b \in S
  BY DEF I
<1>2. code \o <<a, b, user>> = c3
  BY <1>1, OneByOne
<1> HIDE DEF a, b
<1>3. Accepts(code, a)
  BY <1>1 DEF Accepts, Moves
<1>4. c1 \in Seq(S) /\ Extended(c1, code, a)
  BY <1>1, <1>3, Written
<1> HIDE DEF c1
<1>5. Open(c1)
  BY <1>1, <1>4, StaysOpen
<1>6. v \in Ons(c1, "new")
  BY <1>1, <1>4 DEF Extended
<1>7. Accepts(c1, b)
  BY <1>1, <1>6 DEF Accepts, Moves
<1>8. c2 \in Seq(S) /\ Extended(c2, c1, b)
  BY <1>1, <1>4, <1>5, <1>7, Written
<1> HIDE DEF c2
<1>9. Open(c2)
  BY <1>1, <1>5, <1>8, StaysOpen
<1>10. v \in Ons(c2, "new")
  BY <1>6, <1>8 DEF Extended
<1>11. user.to \in Local /\ user.to \in Ons(code, "null") => user.to \in Ons(c2, "null")
  <2>1. Ons(code, "null") \subseteq Ons(c1, "null") /\ Ons(c1, "null") \subseteq Ons(c2, "null")
    BY <1>4, <1>8 DEF Extended
  <2> QED
    BY <2>1
<1>12. Accepts(c2, user)
  BY <1>10, <1>11 DEF Accepts, Moves
<1>13. c3 \in Seq(S) /\ Extended(c3, c2, user)
  BY <1>8, <1>9, <1>12, Written
<1> HIDE DEF c3
<1>14. ASSUME NEW op
       PROVE  Ons(c3, op) = Ons(code, op) \cup
                              (IF op \in {"new", "init", user.op} THEN {v} ELSE {})
  <2>1. /\ Ons(c1, op) = Ons(code, op) \cup (IF "new" = op THEN {v} ELSE {})
        /\ Ons(c2, op) = Ons(c1, op) \cup (IF "init" = op THEN {v} ELSE {})
        /\ Ons(c3, op) = Ons(c2, op) \cup (IF user.op = op THEN {v} ELSE {})
    BY <1>1, <1>4, <1>8, <1>13 DEF Extended
  <2> QED
    BY <2>1
<1>15. Origins(c3) = Origins(code) \cup {v}
  <2>1. /\ Origins(c1) = Origins(code) \cup {u \in Value : Origin(a, u)}
        /\ Origins(c2) = Origins(c1) \cup {u \in Value : Origin(b, u)}
        /\ Origins(c3) = Origins(c2) \cup {u \in Value : Origin(user, u)}
    BY <1>4, <1>8, <1>13 DEF Extended
  <2>2. \A u \in Value : /\ Origin(a, u) <=> u = v
                         /\ ~Origin(b, u) /\ ~Origin(user, u)
    BY <1>1 DEF Origin
  <2> QED
    BY <2>1, <2>2
<1> QED
  BY <1>2, <1>13, <1>14, <1>15 DEF Extended, a, b

(* A variable is loaded and its content is used once.                      *)
LEMMA LoadWritten ==
  ASSUME NEW S, NEW code \in Seq(S), Open(code), NEW v \in Value, v \notin Origins(code),
         NEW y, y \in Local => y \in Ons(code, "null"), I("load", y, v) \in S,
         NEW user \in S, user.on = v, user.op \in {"store", "plain_store", "call", "ret"},
         user.op \in {"store", "plain_store"} =>
           user.to \notin Field /\ (user.to \in Local => user.to \in Ons(code, "null"))
  PROVE  LET new == code \o <<I("load", y, v), user>>
         IN  /\ Shape(new)
             /\ \A op : op # "load" => Ons(new, op) = Ons(code, op) \cup
                                         (IF op = user.op THEN {v} ELSE {})
             /\ Origins(new) = Origins(code) \cup {v}
<1> DEFINE a == I("load", y, v)
           c1 == Append(code, a)
           c2 == Append(c1, user)
<1>1. a.op = "load" /\ a.on = y /\ a.to = v /\ a \in S
  BY DEF I
<1>2. code \o <<a, user>> = c2
  BY <1>1, OneByOne
<1> HIDE DEF a
<1>3. Accepts(code, a)
  BY <1>1 DEF Accepts, Moves
<1>4. c1 \in Seq(S) /\ Extended(c1, code, a)
  BY <1>1, <1>3, Written
<1> HIDE DEF c1
<1>5. Open(c1)
  BY <1>1, <1>4, StaysOpen
<1>6. Len(c1) >= 1 /\ c1[Len(c1)].op = "load" /\ c1[Len(c1)].to = v
  BY <1>1, <1>4, LenProperties DEF Extended
<1>7. user.to \in Local /\ user.to \in Ons(code, "null") => user.to \in Ons(c1, "null")
  BY <1>4 DEF Extended
<1>8. Accepts(c1, user)
  BY <1>6, <1>7 DEF Accepts, Moves
<1>9. c2 \in Seq(S) /\ Extended(c2, c1, user)
  BY <1>4, <1>5, <1>8, Written
<1> HIDE DEF c2
<1>10. ASSUME NEW op, op # "load"
       PROVE  Ons(c2, op) = Ons(code, op) \cup (IF op = user.op THEN {v} ELSE {})
  <2>1. /\ Ons(c1, op) = Ons(code, op) \cup (IF "load" = op THEN {y} ELSE {})
        /\ Ons(c2, op) = Ons(c1, op) \cup (IF user.op = op THEN {v} ELSE {})
    BY <1>1, <1>4, <1>9 DEF Extended
  <2> QED
    BY <1>10, <2>1
<1>11. Origins(c2) = Origins(code) \cup {v}
  <2>1. /\ Origins(c1) = Origins(code) \cup {u \in Value : Origin(a, u)}
        /\ Origins(c2) = Origins(c1) \cup {u \in Value : Origin(user, u)}
    BY <1>4, <1>9 DEF Extended
  <2>2. \A u \in Value : (Origin(a, u) <=> u = v) /\ ~Origin(user, u)
    BY <1>1 DEF Origin
  <2> QED
    BY <2>1, <2>2
<1> QED
  BY <1>2, <1>9, <1>10, <1>11 DEF Extended, a

(* The draft with the cleanup c for what the statement creates.            *)
LEMMA DraftExtended ==
  ASSUME NEW code, NEW cs \in Seq(Cleanups), Draft(code, cs),
         NEW c \in Cleanups, c.bb = 1, c.on \notin Done(cs, Len(cs), c.kind),
         NEW new, Shape(new),
         \A op \in {"release", "release_var"} : Ons(new, op) = {},
         \A op \in {"new", "init"} :
           Ons(new, op) = Ons(code, op) \cup (IF c.kind = "object" THEN {c.on} ELSE {}),
         Ons(new, "null") = Ons(code, "null") \cup (IF c.kind = "variable" THEN {c.on} ELSE {})
  PROVE  Draft(new, Append(cs, c))
<1> DEFINE ds == Append(cs, c)
           n == Len(cs)
<1>1. /\ n \in Nat /\ Len(ds) = n + 1 /\ ds[n + 1] = c
      /\ \A i \in 1 .. n : ds[i] = cs[i]
  BY LenProperties, AppendProperties
<1> HIDE DEF ds, n
<1>2. ASSUME NEW kind
      PROVE  Done(ds, Len(ds), kind) = Done(cs, n, kind) \cup (IF c.kind = kind THEN {c.on} ELSE {})
  <2>1. Done(ds, n + 1, kind) = Done(ds, n, kind) \cup (IF c.kind = kind THEN {c.on} ELSE {})
    BY <1>1, OneMore
  <2>2. Done(ds, n, kind) = Done(cs, n, kind)
    BY <1>1 DEF Done
  <2> QED
    BY <1>1, <2>1, <2>2
<1>3. \A a \in 1 .. n + 1 : a = n + 1 \/ a \in 1 .. n
  BY <1>1
<1>4. \A a \in 1 .. Len(ds) : ds[a].bb = 1
  BY <1>1, <1>3 DEF Draft, n
<1>5. ASSUME NEW a \in 1 .. Len(ds), NEW b \in 1 .. Len(ds),
             ds[a].kind = ds[b].kind, ds[a].on = ds[b].on
      PROVE  a = b
  <2>1. \A i \in 1 .. n : ~(cs[i].kind = c.kind /\ cs[i].on = c.on)
    BY DEF Done, n
  <2>2. CASE a \in 1 .. n /\ b \in 1 .. n
    BY <1>1, <1>5, <2>2 DEF Draft, n
  <2>3. CASE a \in 1 .. n /\ b = n + 1
    BY <1>1, <1>5, <2>1, <2>3
  <2>4. CASE a = n + 1 /\ b \in 1 .. n
    BY <1>1, <1>5, <2>1, <2>4
  <2> QED
    BY <1>1, <1>3, <2>2, <2>3, <2>4
<1>6. /\ Ons(code, "new") = Done(cs, n, "object") /\ Ons(code, "init") = Done(cs, n, "object")
      /\ Ons(code, "null") = Done(cs, n, "variable")
  BY DEF Draft, n
<1>7. /\ Ons(new, "new") = Done(ds, Len(ds), "object")
      /\ Ons(new, "init") = Done(ds, Len(ds), "object")
      /\ Ons(new, "null") = Done(ds, Len(ds), "variable")
  <2>1. /\ Done(ds, Len(ds), "object") =
             Done(cs, n, "object") \cup (IF c.kind = "object" THEN {c.on} ELSE {})
        /\ Done(ds, Len(ds), "variable") =
             Done(cs, n, "variable") \cup (IF c.kind = "variable" THEN {c.on} ELSE {})
    BY <1>2
  <2> QED
    BY <1>6, <2>1
<1> QED
  BY <1>4, <1>5, <1>7 DEF Draft, ds
(* What is known of a function without `if` while it is generated.         *)
Drafts ==
  phase = "generate" /\ Len(blocks) = 1 =>
    /\ Draft(blocks[1], Scope.cleanups)
    /\ Scope.names = declared /\ Ons(blocks[1], "null") = declared
    /\ Origins(blocks[1]) \subseteq 1 .. values
    /\ Scope.closed <=> Ons(blocks[1], "ret") # {}

LEMMA InDraft ==
  ASSUME TypeInv, Drafts, phase = "generate", Len(blocks) = 1
  PROVE  /\ blocks[1] \in Seq(Instruction(1)) /\ Scope \in Scopes /\ ScopeOK(Scope, blocks)
         /\ CodeOK(blocks) /\ Scope.bb = 1 /\ Scope.cleanups \in Seq(Cleanups) /\ scopes \in Seq(Scopes)
         /\ Scope = scopes[1] /\ Len(scopes) = 1
         /\ Ons(blocks[1], "new") \subseteq Origins(blocks[1])
         /\ Fresh \notin Origins(blocks[1]) /\ Fresh # Caller
<1>1. CodeOK(blocks) /\ ScopesOK(scopes, blocks) /\ Len(scopes) >= 1 /\ ~(Len(scopes) > 1)
  BY DEF TypeInv
<1>2. /\ Len(scopes) \in Nat /\ Scope = scopes[Len(scopes)] /\ Scope \in Scopes
      /\ ScopeOK(Scope, blocks) /\ Scope.bb \in 1 .. Len(blocks)
      /\ \A b \in 1 .. Len(blocks) : blocks[b] \in Code(Len(blocks))
  BY <1>1, Innermost
<1>3. Len(scopes) = 1 /\ Scope.bb = 1
  BY <1>1, <1>2
<1>4. blocks[1] \in Seq(Instruction(1))
  <2>1. 1 \in 1 .. Len(blocks)
    OBVIOUS
  <2>2. blocks[1] \in Code(Len(blocks))
    BY <1>2, <2>1
  <2>3. blocks[1] \in Code(1)
    BY <2>2
  <2> QED
    BY <2>3 DEF Code
<1>5. Ons(blocks[1], "new") \subseteq Origins(blocks[1])
  <2>1. ASSUME NEW i \in 1 .. Len(blocks[1]), blocks[1][i].op = "new"
        PROVE  blocks[1][i].on \in Value
    <3>1. blocks[1][i] \in Instruction(1)
      BY <1>4, ElementOfSeq
    <3> QED
      BY <2>1, <3>1 DEF Instruction, Operands
  <2> QED
    BY <2>1 DEF Ons, Origins, Origin
<1>6. values \in Nat /\ values >= 1
  BY BoundsNatural DEF TypeInv, Counters, Value
<1>7. Fresh \notin Origins(blocks[1]) /\ Fresh # Caller
  <2>1. Fresh \notin 1 .. values /\ Fresh # Caller
    BY <1>6 DEF Fresh, Caller
  <2>2. Origins(blocks[1]) \subseteq 1 .. values
    BY DEF Drafts
  <2> QED
    BY <2>1, <2>2
<1>8. scopes \in Seq(Scopes) /\ Scope.cleanups \in Seq(Cleanups)
  BY <1>1, <1>2 DEF ScopesOK, Scopes
<1> QED
  BY <1>1, <1>2, <1>3, <1>4, <1>5, <1>7, <1>8

(* Variables are only used once they are declared, and cleared.            *)
LEMMA InScope ==
  ASSUME TypeInv, Drafts, phase = "generate", Len(blocks) = 1
  PROVE  /\ \A x \in Assigned : x \notin Field /\ (x \in Local => x \in Ons(blocks[1], "null"))
         /\ \A x \in Visible : x \in Local => x \in Ons(blocks[1], "null")
<1>1. Scope = scopes[1] /\ Len(scopes) = 1 /\ scopes \in Seq(Scopes)
  BY InDraft
<1>2. Range(scopes) = {Scope}
  <2>1. DOMAIN scopes = 1 .. 1
    BY <1>1, LenProperties
  <2> QED
    BY <1>1, <2>1 DEF Range
<1>3. Scope.names = declared /\ Ons(blocks[1], "null") = declared /\ declared \subseteq Local
  BY DEF Drafts, TypeInv, Counters
<1>4. Assigned = Param \cup declared
  BY <1>2, <1>3 DEF Assigned
<1> QED
  BY <1>3, <1>4, NamesDisjoint DEF Visible

LEMMA EmitsOne ==
  ASSUME TypeInv, TypeInv', phase = "generate", Len(blocks') = 1, NEW t, Emit(t)
  PROVE  Len(blocks) = 1 /\ blocks'[1] = blocks[1] \o t
<1>1. /\ Len(blocks) \in Nat /\ Scope.bb \in 1 .. Len(blocks)
  BY Innermost DEF TypeInv
<1>2. DOMAIN blocks = 1 .. Len(blocks)
  BY LenProperties DEF TypeInv, CodeOK
<1>3. DOMAIN blocks' = 1 .. Len(blocks')
  BY LenProperties DEF TypeInv, CodeOK
<1>4. blocks' = [blocks EXCEPT ![Scope.bb] = @ \o t]
  BY DEF Emit
<1>5. DOMAIN blocks' = DOMAIN blocks
  BY <1>4
<1>6. Len(blocks) = 1
  <2>1. 1 .. Len(blocks) = 1 .. 1
    BY <1>2, <1>3, <1>5
  <2>2. Len(blocks) \in 1 .. Len(blocks)
    BY <1>1
  <2>3. Len(blocks) \in 1 .. 1
    BY <2>1, <2>2
  <2> QED
    BY <2>3
<1>7. Scope.bb = 1
  BY <1>1, <1>6
<1> QED
  BY <1>2, <1>4, <1>6, <1>7

LEMMA ScopeBecomes ==
  ASSUME TypeInv, phase = "generate", NEW s, scopes' = WithScope(s)
  PROVE  Scope' = s
<1> DEFINE S == Scopes \cup {s}
           n == Len(scopes)
<1>1. scopes \in Seq(S) /\ Len(scopes) >= 1 /\ n \in Nat
  <2>1. scopes \in Seq(Scopes) /\ Len(scopes) >= 1
    BY DEF TypeInv, ScopesOK
  <2> QED
    BY <2>1, SeqMonotonic, LenProperties
<1>2. s \in S
  OBVIOUS
<1> HIDE DEF S
<1>3. Len(scopes') = n /\ scopes'[n] = s
  BY <1>1, <1>2, Replaced DEF WithScope, Front
<1> QED
  BY <1>3 DEF Scope, Last

LEMMA CleanupFields ==
  ASSUME NEW s \in Scopes, NEW kind, NEW on
  PROVE  /\ WithCleanup(s, kind, on).names = s.names
         /\ WithCleanup(s, kind, on).closed = s.closed
         /\ WithCleanup(s, kind, on).cleanups = Append(s.cleanups, Cleanup(kind, on))
<1> DEFINE r == WithCleanup(s, kind, on)
           ds == Append(s.cleanups, Cleanup(kind, on))
<1>1. r = [s EXCEPT !.cleanups = ds]
  BY DEF WithCleanup
<1> HIDE DEF r, ds
<1>2. r.names = s.names /\ r.closed = s.closed /\ r.cleanups = ds
  BY <1>1 DEF Scopes
<1> QED
  BY <1>2 DEF r, ds
LEMMA OpenDraft ==
  ASSUME Drafts, phase = "generate", Len(blocks) = 1, ~Scope.closed
  PROVE  Open(blocks[1])
<1>1. /\ Shape(blocks[1]) /\ Ons(blocks[1], "release") = {}
      /\ Ons(blocks[1], "release_var") = {} /\ Ons(blocks[1], "ret") = {}
  BY DEF Drafts, Draft
<1> QED
  BY <1>1 DEF Open

LEMMA NewDrafts ==
  ASSUME TypeInv, TypeInv', Drafts, phase = "generate", Len(blocks') = 1, Fresh \in Value,
         ~Scope.closed, UNCHANGED declared,
         NEW user \in Instruction(1), user.on = Fresh, user.op \in {"store", "call", "ret"},
         user.op = "store" => user.to \in Assigned, NewOperand(user),
         Scope'.names = Scope.names, Scope'.closed <=> user.op = "ret",
         Scope'.cleanups = Append(Scope.cleanups, Cleanup("object", Fresh))
  PROVE  Drafts'
<1> DEFINE t == <<I("new", Fresh, Null), I("init", Fresh, Null), user>>
           code == blocks[1]
           new == blocks'[1]
           cs == Scope.cleanups
           c == Cleanup("object", Fresh)
<1>1. Emit(t) /\ values' = Fresh
  BY DEF NewOperand
<1>2. Len(blocks) = 1 /\ new = code \o t
  <2> HIDE DEF t
  <2> QED
    BY <1>1, EmitsOne
<1>3. /\ code \in Seq(Instruction(1)) /\ Scope.bb = 1 /\ cs \in Seq(Cleanups)
      /\ Ons(code, "new") \subseteq Origins(code) /\ Fresh \notin Origins(code) /\ Fresh # Caller
  BY <1>2, InDraft
<1>4. Open(code)
  BY <1>2, OpenDraft
<1>5. /\ user.op = "store" => user.to \notin Field /\ (user.to \in Local => user.to \in Ons(code, "null"))
  BY <1>2, InScope
<1>6. I("new", Fresh, Null) \in Instruction(1) /\ I("init", Fresh, Null) \in Instruction(1)
  BY Made
<1>7. /\ Shape(new)
      /\ \A op : Ons(new, op) = Ons(code, op) \cup
                   (IF op \in {"new", "init", user.op} THEN {Fresh} ELSE {})
      /\ Origins(new) = Origins(code) \cup {Fresh}
  BY <1>2, <1>3, <1>4, <1>5, <1>6, NewWritten
<1> HIDE DEF t, new
<1>8. /\ Draft(code, cs) /\ Scope.names = declared /\ Ons(code, "null") = declared
      /\ Origins(code) \subseteq 1 .. values /\ Ons(code, "ret") = {}
  BY <1>2 DEF Drafts
<1>9. c.kind = "object" /\ c.on = Fresh /\ c.bb = 1 /\ c \in Cleanups
  BY <1>3, ValuesNatural DEF Cleanup, Cleanups, Thing
<1> HIDE DEF c
<1>10. c.on \notin Done(cs, Len(cs), c.kind)
  BY <1>3, <1>8, <1>9 DEF Draft
<1>11. Draft(new, Append(cs, c))
  <2>1. \A op \in {"release", "release_var"} : Ons(new, op) = {}
    BY <1>7, <1>8 DEF Draft
  <2>2. \A op \in {"new", "init"} :
          Ons(new, op) = Ons(code, op) \cup (IF c.kind = "object" THEN {c.on} ELSE {})
    BY <1>7, <1>9
  <2>3. Ons(new, "null") = Ons(code, "null") \cup (IF c.kind = "variable" THEN {c.on} ELSE {})
    BY <1>7, <1>9
  <2> HIDE DEF code, cs
  <2> QED
    BY <1>3, <1>7, <1>8, <1>9, <1>10, <2>1, <2>2, <2>3, DraftExtended
<1>12. Ons(new, "null") = declared'
  <2>1. "null" \notin {"new", "init", user.op}
    OBVIOUS
  <2>2. Ons(new, "null") = Ons(code, "null") \cup {}
    BY <1>7, <2>1
  <2> QED
    BY <1>8, <2>2
<1>13. Origins(new) \subseteq 1 .. values'
  <2>1. values \in Nat
    BY BoundsNatural DEF TypeInv, Counters, Value
  <2>2. 1 .. values \subseteq 1 .. Fresh /\ Fresh \in 1 .. Fresh
    BY <2>1 DEF Fresh
  <2> QED
    BY <1>1, <1>7, <1>8, <2>2
<1>14. Scope'.closed <=> Ons(new, "ret") # {}
  BY <1>7, <1>8
<1> QED
  BY <1>8, <1>11, <1>12, <1>13, <1>14 DEF Drafts, new, c

LEMMA LoadDrafts ==
  ASSUME TypeInv, TypeInv', Drafts, phase = "generate", Len(blocks') = 1, Fresh \in Value,
         ~Scope.closed, UNCHANGED declared, NEW y \in Visible, y \in Name,
         NEW user \in Instruction(1), user.on = Fresh,
         user.op \in {"store", "plain_store", "call", "ret"},
         user.op \in {"store", "plain_store"} => user.to \in Assigned,
         Emit(<<I("load", y, Fresh), user>>), values' = Fresh,
         Scope'.names = Scope.names, Scope'.closed <=> user.op = "ret",
         Scope'.cleanups = Scope.cleanups
  PROVE  Drafts'
<1> DEFINE t == <<I("load", y, Fresh), user>>
           code == blocks[1]
           new == blocks'[1]
           cs == Scope.cleanups
<1>1. Len(blocks) = 1 /\ new = code \o t
  <2> HIDE DEF t
  <2>1. Emit(t)
    BY DEF t
  <2> QED
    BY <2>1, EmitsOne
<1>2. code \in Seq(Instruction(1)) /\ Fresh \notin Origins(code)
  BY <1>1, InDraft
<1>3. Open(code)
  BY <1>1, OpenDraft
<1>4. /\ user.op \in {"store", "plain_store"} =>
           user.to \notin Field /\ (user.to \in Local => user.to \in Ons(code, "null"))
      /\ y \in Local => y \in Ons(code, "null")
  BY <1>1, InScope
<1>5. I("load", y, Fresh) \in Instruction(1)
  BY Made
<1>6. /\ Shape(new)
      /\ \A op : op # "load" => Ons(new, op) = Ons(code, op) \cup
                                  (IF op = user.op THEN {Fresh} ELSE {})
      /\ Origins(new) = Origins(code) \cup {Fresh}
  BY <1>1, <1>2, <1>3, <1>4, <1>5, LoadWritten
<1> HIDE DEF t, new
<1>7. /\ Draft(code, cs) /\ Scope.names = declared /\ Ons(code, "null") = declared
      /\ Origins(code) \subseteq 1 .. values /\ Ons(code, "ret") = {}
  BY <1>1 DEF Drafts
<1>8. \A op \in {"release", "release_var", "new", "init", "null"} : Ons(new, op) = Ons(code, op)
  BY <1>6, ZenonT(60)
<1>9. Draft(new, cs)
  BY <1>6, <1>7, <1>8 DEF Draft
<1>10. Origins(new) \subseteq 1 .. values'
  <2>1. values \in Nat
    BY BoundsNatural DEF TypeInv, Counters, Value
  <2>2. 1 .. values \subseteq 1 .. Fresh /\ Fresh \in 1 .. Fresh
    BY <2>1 DEF Fresh
  <2> QED
    BY <1>6, <1>7, <2>2
<1>11. Scope'.closed <=> Ons(new, "ret") # {}
  BY <1>6, <1>7
<1> QED
  BY <1>7, <1>8, <1>9, <1>10, <1>11 DEF Drafts, new
LEMMA DeclareDrafts ==
  ASSUME TypeInv, TypeInv', Drafts, Len(blocks') = 1, NEW x \in Name, Declare(x)
  PROVE  Drafts'
<1> DEFINE t == <<I("null", x, Null)>>
           s == [Scope EXCEPT !.names = @ \cup {x}]
           code == blocks[1]
           new == blocks'[1]
           cs == Scope.cleanups
           c == Cleanup("variable", x)
           ins == I("null", x, Null)
<1>1. /\ phase = "generate" /\ ~Scope.closed /\ x \in Local /\ x \notin declared
      /\ declared' = declared \cup {x} /\ values' = values /\ Emit(t)
      /\ scopes' = WithScope(WithCleanup(s, "variable", x))
  BY DEF Declare, Statement
<1>2. Len(blocks) = 1 /\ new = code \o t
  <2> HIDE DEF t
  <2> QED
    BY <1>1, EmitsOne
<1>3. /\ code \in Seq(Instruction(1)) /\ Scope.bb = 1 /\ cs \in Seq(Cleanups) /\ Scope \in Scopes
  BY <1>1, <1>2, InDraft
<1>4. s \in Scopes /\ s.names = Scope.names \cup {x} /\ s.cleanups = cs /\ s.closed = Scope.closed
  BY <1>1, <1>3 DEF Scopes
<1> HIDE DEF s
<1>5. /\ Scope'.names = Scope.names \cup {x} /\ Scope'.closed = Scope.closed
      /\ Scope'.cleanups = Append(cs, c)
  <2>1. Scope' = WithCleanup(s, "variable", x)
    BY <1>1, ScopeBecomes
  <2> QED
    BY <1>4, <2>1, CleanupFields
<1>6. ins \in Instruction(1) /\ ins.op = "null" /\ ins.on = x
  <2>1. ins \in Instruction(1)
    BY <1>1, Made
  <2> QED
    BY <2>1 DEF I
<1>7. /\ Draft(code, cs) /\ Scope.names = declared /\ Ons(code, "null") = declared
      /\ Origins(code) \subseteq 1 .. values /\ Ons(code, "ret") = {}
  BY <1>1, <1>2 DEF Drafts
<1>8. Extended(new, code, ins)
  <2>1. new = Append(code, ins)
    BY <1>2, <1>3, <1>6, OneByOne
  <2>2. Open(code)
    BY <1>1, <1>2, OpenDraft
  <2> HIDE DEF ins, new, code
  <2>3. Accepts(code, ins)
    BY <1>1, <1>6, <1>7 DEF Accepts, Moves
  <2> QED
    BY <1>3, <1>6, <2>1, <2>2, <2>3, Written
<1> HIDE DEF t, new, ins
<1>9. /\ Shape(new)
      /\ \A op : Ons(new, op) = Ons(code, op) \cup (IF op = "null" THEN {x} ELSE {})
      /\ Origins(new) = Origins(code)
  <2>1. \A v \in Value : ~Origin(ins, v)
    BY <1>6 DEF Origin
  <2>2. \A op : Ons(new, op) = Ons(code, op) \cup (IF ins.op = op THEN {ins.on} ELSE {})
    BY <1>8 DEF Extended
  <2> QED
    BY <1>6, <1>8, <2>1, <2>2 DEF Extended
<1>10. c.kind = "variable" /\ c.on = x /\ c.bb = 1 /\ c \in Cleanups
  <2>1. x \in Thing
    BY <1>1 DEF Thing, Name
  <2> QED
    BY <1>3, <2>1 DEF Cleanup, Cleanups
<1> HIDE DEF c
<1>11. c.on \notin Done(cs, Len(cs), c.kind)
  BY <1>1, <1>7, <1>10 DEF Draft
<1>12. Draft(new, Append(cs, c))
  <2>1. \A op \in {"release", "release_var"} : Ons(new, op) = {}
    BY <1>7, <1>9 DEF Draft
  <2>2. \A op \in {"new", "init"} :
          Ons(new, op) = Ons(code, op) \cup (IF c.kind = "object" THEN {c.on} ELSE {})
    BY <1>9, <1>10
  <2>3. Ons(new, "null") = Ons(code, "null") \cup (IF c.kind = "variable" THEN {c.on} ELSE {})
    BY <1>9, <1>10
  <2> HIDE DEF code, cs
  <2> QED
    BY <1>3, <1>7, <1>9, <1>10, <1>11, <2>1, <2>2, <2>3, DraftExtended
<1>13. Ons(new, "null") = declared' /\ Scope'.names = declared'
  BY <1>1, <1>5, <1>7, <1>9
<1>14. Scope'.closed <=> Ons(new, "ret") # {}
  BY <1>1, <1>5, <1>7, <1>9
<1> QED
  BY <1>1, <1>5, <1>7, <1>9, <1>12, <1>13, <1>14 DEF Drafts, new, c

LEMMA StatementDrafts ==
  ASSUME TypeInv, TypeInv', Drafts, Len(blocks') = 1,
         \/ \E x \in Name : Declare(x) \/ AssignNew(x) \/ CallWith(x)
         \/ \E x, y \in Name : Assign(x, y)
         \/ CallNew
  PROVE  Drafts'
<1>1. ASSUME NEW x \in Name, AssignNew(x) PROVE Drafts'
  <2>1. /\ Statement /\ x \in Assigned /\ NewOperand(I("store", Fresh, x)) /\ declared' = declared
        /\ scopes' = WithScope(WithCleanup(Scope, "object", Fresh))
    BY <1>1 DEF AssignNew
  <2>2. values' = Fresh
    BY <2>1 DEF NewOperand
  <2>3. Fresh \in Value /\ phase = "generate" /\ ~Scope.closed
    <3>1. declared' \subseteq Local
      BY <2>1 DEF TypeInv, Counters
    <3> QED
      BY <2>1, <2>2, <3>1, StatementCounts DEF Statement
  <2>4. Scope \in Scopes
    BY <2>3, Innermost DEF TypeInv
  <2>5. /\ Scope'.names = Scope.names /\ Scope'.closed = Scope.closed
        /\ Scope'.cleanups = Append(Scope.cleanups, Cleanup("object", Fresh))
    BY <2>1, <2>3, <2>4, ScopeBecomes, CleanupFields
  <2> DEFINE user == I("store", Fresh, x)
  <2>6. user \in Instruction(1) /\ user.op = "store" /\ user.on = Fresh /\ user.to = x
    <3>1. user \in Instruction(1)
      BY <2>3, Made
    <3> QED
      BY <3>1 DEF I
  <2> HIDE DEF user
  <2>7. NewOperand(user)
    BY <2>1 DEF user
  <2> QED
    BY <2>1, <2>3, <2>5, <2>6, <2>7, NewDrafts
<1>2. ASSUME CallNew PROVE Drafts'
  <2>1. /\ Statement /\ NewOperand(I("call", Fresh, Null)) /\ declared' = declared
        /\ scopes' = WithScope(WithCleanup(Scope, "object", Fresh))
    BY <1>2 DEF CallNew
  <2>2. values' = Fresh
    BY <2>1 DEF NewOperand
  <2>3. Fresh \in Value /\ phase = "generate" /\ ~Scope.closed
    <3>1. declared' \subseteq Local
      BY <2>1 DEF TypeInv, Counters
    <3> QED
      BY <2>1, <2>2, <3>1, StatementCounts DEF Statement
  <2>4. Scope \in Scopes
    BY <2>3, Innermost DEF TypeInv
  <2>5. /\ Scope'.names = Scope.names /\ Scope'.closed = Scope.closed
        /\ Scope'.cleanups = Append(Scope.cleanups, Cleanup("object", Fresh))
    BY <2>1, <2>3, <2>4, ScopeBecomes, CleanupFields
  <2> DEFINE user == I("call", Fresh, Null)
  <2>6. user \in Instruction(1) /\ user.op = "call" /\ user.on = Fresh
    <3>1. user \in Instruction(1)
      BY <2>3, Made
    <3> QED
      BY <3>1 DEF I
  <2> HIDE DEF user
  <2>7. NewOperand(user)
    BY <2>1 DEF user
  <2> QED
    BY <2>1, <2>3, <2>5, <2>6, <2>7, NewDrafts
<1>3. ASSUME NEW x \in Name, CallWith(x) PROVE Drafts'
  <2> DEFINE user == I("call", Fresh, Null)
  <2>1. /\ Statement /\ x \in Visible /\ values' = Fresh /\ Emit(<<I("load", x, Fresh), user>>)
        /\ declared' = declared /\ scopes' = scopes
    BY <1>3 DEF CallWith
  <2>2. Fresh \in Value /\ phase = "generate" /\ ~Scope.closed
    <3>1. declared' \subseteq Local
      BY <2>1 DEF TypeInv, Counters
    <3> QED
      BY <2>1, <3>1, StatementCounts DEF Statement
  <2>3. Scope' = Scope
    BY <2>1 DEF Scope
  <2>4. user \in Instruction(1) /\ user.op = "call" /\ user.on = Fresh
    <3>1. user \in Instruction(1)
      BY <2>2, Made
    <3> QED
      BY <3>1 DEF I
  <2> HIDE DEF user
  <2> QED
    BY <2>1, <2>2, <2>3, <2>4, LoadDrafts
<1>4. ASSUME NEW x \in Name, NEW y \in Name, Assign(x, y) PROVE Drafts'
  <2> DEFINE op == IF y \in Field THEN "plain_store" ELSE "store"
             user == I(op, Fresh, x)
  <2>1. /\ Statement /\ x \in Assigned /\ y \in Visible /\ values' = Fresh
        /\ Emit(<<I("load", y, Fresh), user>>) /\ declared' = declared /\ scopes' = scopes
    BY <1>4 DEF Assign
  <2>2. Fresh \in Value /\ phase = "generate" /\ ~Scope.closed
    <3>1. declared' \subseteq Local
      BY <2>1 DEF TypeInv, Counters
    <3> QED
      BY <2>1, <3>1, StatementCounts DEF Statement
  <2>3. Scope' = Scope
    BY <2>1 DEF Scope
  <2>4. op \in {"store", "plain_store"}
    OBVIOUS
  <2> HIDE DEF op
  <2>5. user \in Instruction(1) /\ user.op = op /\ user.on = Fresh /\ user.to = x
    <3>1. I("store", Fresh, x) \in Instruction(1) /\ I("plain_store", Fresh, x) \in Instruction(1)
      BY <2>2, Made
    <3>2. user.op = op /\ user.on = Fresh /\ user.to = x
      BY DEF I
    <3> QED
      BY <2>4, <3>1, <3>2
  <2> HIDE DEF user
  <2> QED
    BY <2>1, <2>2, <2>3, <2>4, <2>5, LoadDrafts
<1> QED
  BY <1>1, <1>2, <1>3, <1>4, DeclareDrafts
LEMMA ClosedFields ==
  ASSUME Scope \in Scopes
  PROVE  /\ ClosedScope \in Scopes /\ ClosedScope.closed
         /\ ClosedScope.names = Scope.names /\ ClosedScope.cleanups = Scope.cleanups
<1> DEFINE s == ClosedScope
<1>1. s \in Scopes /\ s.cleanups = Scope.cleanups /\ s.names = Scope.names /\ s.closed
  BY DEF Scopes, ClosedScope
<1> QED
  BY <1>1

LEMMA ReturnDrafts ==
  ASSUME TypeInv, TypeInv', Drafts, Len(blocks') = 1,
         ReturnInteger \/ ReturnNew \/ \E x \in Name : ReturnVariable(x)
  PROVE  Drafts'
<1>1. /\ ReturnStatement /\ phase = "generate" /\ ~Scope.closed /\ declared' = declared
      /\ Fresh \in Value
  <2>1. ReturnStatement
    BY DEF ReturnInteger, ReturnNew, ReturnVariable
  <2> QED
    BY <2>1, ReturnCounts DEF ReturnStatement
<1>2. Scope \in Scopes
  BY <1>1, Innermost DEF TypeInv
<1>3. CASE ReturnNew
  <2> DEFINE user == I("ret", Fresh, Null)
  <2>1. NewOperand(user) /\ scopes' = WithScope(WithCleanup(ClosedScope, "object", Fresh))
    BY <1>3 DEF ReturnNew, ClosedScope
  <2>2. /\ Scope'.names = Scope.names /\ Scope'.closed
        /\ Scope'.cleanups = Append(Scope.cleanups, Cleanup("object", Fresh))
    <3>1. Scope' = WithCleanup(ClosedScope, "object", Fresh)
      BY <1>1, <2>1, ScopeBecomes
    <3> QED
      BY <1>2, <3>1, ClosedFields, CleanupFields
  <2>3. user \in Instruction(1) /\ user.op = "ret" /\ user.on = Fresh
    <3>1. user \in Instruction(1)
      BY <1>1, Made
    <3> QED
      BY <3>1 DEF I
  <2> HIDE DEF user
  <2> QED
    BY <1>1, <2>1, <2>2, <2>3, NewDrafts
<1>4. ASSUME NEW x \in Name, ReturnVariable(x) PROVE Drafts'
  <2> DEFINE user == I("ret", Fresh, Null)
  <2>1. /\ x \in Visible /\ values' = Fresh /\ Emit(<<I("load", x, Fresh), user>>)
        /\ scopes' = WithScope(ClosedScope)
    BY <1>4 DEF ReturnVariable, ClosedScope
  <2>2. Scope'.names = Scope.names /\ Scope'.closed /\ Scope'.cleanups = Scope.cleanups
    <3>1. Scope' = ClosedScope
      BY <1>1, <2>1, ScopeBecomes
    <3> QED
      BY <1>2, <3>1, ClosedFields
  <2>3. user \in Instruction(1) /\ user.op = "ret" /\ user.on = Fresh
    <3>1. user \in Instruction(1)
      BY <1>1, Made
    <3> QED
      BY <3>1 DEF I
  <2> HIDE DEF user
  <2> QED
    BY <1>1, <2>1, <2>2, <2>3, LoadDrafts
<1>5. CASE ReturnInteger
  <2> DEFINE ins == I("ret", Null, Null)
             t == <<ins>>
             code == blocks[1]
             new == blocks'[1]
             cs == Scope.cleanups
  <2>1. values' = values /\ Emit(t) /\ scopes' = WithScope(ClosedScope)
    BY <1>5 DEF ReturnInteger, ClosedScope
  <2>2. Scope'.names = Scope.names /\ Scope'.closed /\ Scope'.cleanups = cs
    <3>1. Scope' = ClosedScope
      BY <1>1, <2>1, ScopeBecomes
    <3> QED
      BY <1>2, <3>1, ClosedFields
  <2>3. ins \in Instruction(1) /\ ins.op = "ret" /\ ins.on = Null
    <3>1. ins \in Instruction(1)
      BY Made
    <3> QED
      BY <3>1 DEF I
  <2> HIDE DEF ins
  <2>4. Len(blocks) = 1 /\ new = code \o t
    <3> HIDE DEF t
    <3> QED
      BY <1>1, <2>1, EmitsOne
  <2>5. code \in Seq(Instruction(1))
    BY <1>1, <2>4, InDraft
  <2>6. /\ Draft(code, cs) /\ Scope.names = declared /\ Ons(code, "null") = declared
        /\ Origins(code) \subseteq 1 .. values /\ Ons(code, "ret") = {}
    BY <1>1, <2>4 DEF Drafts
  <2>7. Extended(new, code, ins)
    <3>1. new = Append(code, ins)
      BY <2>3, <2>4, <2>5, OneByOne
    <3>2. Open(code)
      BY <1>1, <2>4, OpenDraft
    <3> HIDE DEF new, code
    <3>3. Accepts(code, ins)
      BY <2>3 DEF Accepts, Moves
    <3> QED
      BY <2>3, <2>5, <3>1, <3>2, <3>3, Written
  <2> HIDE DEF t, new
  <2>8. /\ Shape(new)
        /\ \A op : Ons(new, op) = Ons(code, op) \cup (IF op = "ret" THEN {Null} ELSE {})
        /\ Origins(new) = Origins(code)
    <3>1. \A v \in Value : ~Origin(ins, v)
      BY <2>3 DEF Origin
    <3>2. \A op : Ons(new, op) = Ons(code, op) \cup (IF ins.op = op THEN {ins.on} ELSE {})
      BY <2>7 DEF Extended
    <3> QED
      BY <2>3, <2>7, <3>1, <3>2 DEF Extended
  <2>9. \A op \in {"release", "release_var", "new", "init", "null"} : Ons(new, op) = Ons(code, op)
    BY <2>8
  <2>10. Draft(new, cs)
    BY <2>6, <2>8, <2>9 DEF Draft
  <2>11. Scope'.closed <=> Ons(new, "ret") # {}
    BY <2>2, <2>8
  <2> QED
    BY <1>1, <2>1, <2>2, <2>6, <2>8, <2>9, <2>10, <2>11 DEF Drafts, new
<1> QED
  BY <1>3, <1>4, <1>5

(* An `if` adds blocks.                                                    *)
LEMMA BranchDrafts ==
  ASSUME TypeInv, TypeInv', phase = "generate", BeginThen \/ BeginElse \/ EndIf
  PROVE  Len(blocks') # 1
<1>1. /\ CodeOK(blocks) /\ Scope \in Scopes /\ ScopeOK(Scope, blocks)
      /\ Len(blocks) \in Nat /\ Len(blocks) >= 1
  BY Innermost DEF TypeInv
<1>2. CodeOK(doCleanup) /\ Len(doCleanup) = Len(blocks)
  BY <1>1, CleanedUp
<1>3. ASSUME NEW bs, CodeOK(bs), Len(bs) = Len(blocks) PROVE 2 \in DOMAIN Append(bs, <<>>)
  <2> DEFINE S == Code(Len(bs))
  <2>1. bs \in Seq(S) /\ <<>> \in S
    BY <1>3 DEF CodeOK, Code
  <2> HIDE DEF S
  <2>2. Append(bs, <<>>) \in Seq(S) /\ Len(Append(bs, <<>>)) = Len(bs) + 1
    BY <2>1, AppendProperties
  <2>3. DOMAIN Append(bs, <<>>) = 1 .. Len(bs) + 1
    BY <2>2, LenProperties
  <2> QED
    BY <1>1, <1>3, <2>3
<1>4. 2 \in DOMAIN blocks'
  <2>1. CASE BeginThen
    <3>1. blocks' = Append(blocks, <<>>)
      BY <2>1 DEF BeginThen
    <3> QED
      BY <1>1, <1>3, <3>1
  <2>2. CASE BeginElse
    <3>1. blocks' = Append(doCleanup, <<>>)
      BY <2>2 DEF BeginElse
    <3> QED
      BY <1>2, <1>3, <3>1
  <2>3. CASE EndIf
    <3>1. DOMAIN blocks' = DOMAIN Append(doCleanup, <<>>)
      BY <2>3, Zenon DEF EndIf
    <3> QED
      BY <1>2, <1>3, <3>1
  <2> QED
    BY <2>1, <2>2, <2>3
<1>5. DOMAIN blocks' = 1 .. Len(blocks')
  BY LenProperties DEF TypeInv, CodeOK
<1> QED
  BY <1>4, <1>5

LEMMA InitDrafts == Init => Drafts
<1> SUFFICES ASSUME Init PROVE Drafts
  OBVIOUS
<1>1. /\ blocks = << <<>> >> /\ declared = {} /\ values = 1
      /\ scopes = <<NewScope("function", 1, 1)>>
  BY DEF Init
<1>2. blocks[1] = <<>>
  BY <1>1
<1>3. Scope.names = {} /\ Scope.cleanups = <<>> /\ ~Scope.closed
  <2>1. Scope = NewScope("function", 1, 1)
    BY <1>1 DEF Scope, Last
  <2> QED
    BY <2>1 DEF NewScope
<1>4. Len(<<>>) = 0
  OBVIOUS
<1> DEFINE none == <<>>
<1> HIDE DEF none
<1>5. Len(none) = 0
  BY <1>4 DEF none
<1>6. /\ \A op : Ons(none, op) = {}
      /\ Origins(none) = {} /\ Shape(none)
      /\ \A kind : Done(none, Len(none), kind) = {}
  BY <1>5 DEF Ons, Origins, Shape, Done
<1>7. Draft(none, none)
  <2>1. \A a \in 1 .. Len(none) : FALSE
    BY <1>5
  <2> QED
    BY <1>6, <2>1, Zenon DEF Draft
<1> QED
  BY <1>1, <1>2, <1>3, <1>6, <1>7 DEF Drafts, none

LEMMA DraftsFollow == ASSUME TypeInv, TypeInv', Drafts, [Next]_vars PROVE Drafts'
<1>1. CASE Generate
  <2>1. CASE EndFunction \/ Crash \/ BranchIsNoBlock
    <3>1. phase' # "generate"
      BY <2>1 DEF EndFunction, Crash, BranchIsNoBlock
    <3> QED
      BY <3>1 DEF Drafts
  <2>2. CASE BeginThen \/ BeginElse \/ EndIf
    <3>1. phase = "generate"
      BY <2>2 DEF BeginThen, BeginElse, EndIf, Statement
    <3>2. Len(blocks') # 1
      BY <2>2, <3>1, BranchDrafts
    <3> QED
      BY <3>2 DEF Drafts
  <2>3. CASE ReturnInteger \/ ReturnNew \/ \E x \in Name : ReturnVariable(x)
    <3>1. ASSUME Len(blocks') = 1 PROVE Drafts'
      BY <2>3, <3>1, ReturnDrafts
    <3>2. Len(blocks') # 1 => Drafts'
      BY DEF Drafts
    <3> QED
      BY <3>1, <3>2
  <2>4. CASE \/ \E x \in Name : Declare(x) \/ AssignNew(x) \/ CallWith(x)
             \/ \E x, y \in Name : Assign(x, y)
             \/ CallNew
    <3>1. ASSUME Len(blocks') = 1 PROVE Drafts'
      BY <2>4, <3>1, StatementDrafts
    <3>2. Len(blocks') # 1 => Drafts'
      BY DEF Drafts
    <3> QED
      BY <3>1, <3>2
  <2> QED
    BY <1>1, <2>1, <2>2, <2>3, <2>4 DEF Generate
<1>2. CASE Run
  <2>1. phase = "run"
    BY <1>2 DEF Run, DoNull, DoNew, DoLoad, DoCall, DoStore, DoPlainStore, DoRelease, DoBranch,
                DoReturn, Execute
  <2>2. phase' # "generate"
    BY <1>2, <2>1 DEF Run, DoNull, DoNew, DoLoad, DoCall, DoStore, DoPlainStore, DoRelease,
                      DoBranch, DoReturn, Advance, Fail, Use
  <2> QED
    BY <2>2 DEF Drafts
<1>3. CASE Stopped \/ UNCHANGED vars
  <2>1. /\ phase' = phase /\ blocks' = blocks /\ declared' = declared /\ values' = values
        /\ scopes' = scopes
    BY <1>3 DEF Stopped, vars, generator
  <2>2. Scope' = Scope
    BY <2>1 DEF Scope
  <2> QED
    BY <2>1, <2>2 DEF Drafts
<1> QED
  BY <1>1, <1>2, <1>3 DEF Next

-----------------------------------------------------------------------------
(* The code of a function without `if` that is to be run.                  *)

Final(code) ==
  /\ Shape(code)
  /\ Ons(code, "new") \subseteq Ons(code, "release")
  /\ Ons(code, "null") \subseteq Ons(code, "release_var")

LEMMA EndsFinal ==
  ASSUME TypeInv, Drafts, EndFunction, phase' = "run", Len(blocks') = 1
  PROVE  Final(blocks'[1])
<1> DEFINE code == blocks[1]
           new == doCleanup[1]
           cs == Scope.cleanups
           objects == Done(cs, Len(cs), "object")
<1>1. /\ phase = "generate" /\ Ends /\ ~NoPlaceForRelease /\ blocks' = doCleanup
      /\ WellFormedModule(doCleanup)
  BY Zenon DEF EndFunction
<1>2. CodeOK(blocks) /\ Scope \in Scopes /\ ScopeOK(Scope, blocks)
  BY <1>1, Innermost DEF TypeInv
<1>3. CodeOK(doCleanup) /\ Len(doCleanup) = Len(blocks) /\ Len(blocks) = 1
  BY <1>1, <1>2, CleanedUp
<1>4. /\ code \in Seq(Instruction(1)) /\ Draft(code, cs) /\ cs \in Seq(Cleanups)
      /\ Scope.closed <=> Ons(code, "ret") # {}
  BY <1>1, <1>3, InDraft DEF Drafts
<1>5. DOMAIN doCleanup = 1 .. 1
  BY <1>3, LenProperties DEF CodeOK
<1>6. Terminators(new) = {Len(new)}
  BY <1>1, <1>5 DEF WellFormedModule
<1>7. new \in Seq(Instruction(1))
  <2>1. doCleanup \in Seq(Code(1))
    BY <1>3 DEF CodeOK
  <2>2. 1 \in 1 .. Len(doCleanup)
    BY <1>3
  <2> QED
    BY <2>1, <2>2, ElementOfSeq DEF Code
<1>8. \A i \in 1 .. Len(code) : Grounded(code, i)
  BY <1>4 DEF Draft, Shape
<1>9. Scope.closed
  <2> SUFFICES ASSUME ~Scope.closed PROVE FALSE
    OBVIOUS
  <2>1. Ons(code, "ret") = {}
    BY <1>4
  <2>2. Ons(code, "br") = {} /\ Ons(code, "condbr") = {}
    BY <1>8 DEF Ons, Grounded
  <2>3. Ons(new, "ret") = {} /\ Ons(new, "br") = {} /\ Ons(new, "condbr") = {}
    BY <1>2, <1>3, <2>1, <2>2, OpsKept
  <2>4. DOMAIN new = 1 .. Len(new)
    BY <1>7, LenProperties
  <2> HIDE DEF new
  <2>5. PICK i \in DOMAIN new : new[i].op \in {"ret", "br", "condbr"}
    BY <1>6, Zenon DEF Terminators
  <2>6. new[i].on \in Ons(new, new[i].op)
    BY <2>4 DEF Ons
  <2>7. new[i].op = "ret" \/ new[i].op = "br" \/ new[i].op = "condbr"
    BY <2>5
  <2> QED
    BY <2>3, <2>6, <2>7, Zenon
<1>10. Len(code) >= 1 /\ code[Len(code)].op = "ret"
  <2>1. PICK i \in 1 .. Len(code) : code[i].op = "ret"
    BY <1>4, <1>9 DEF Ons
  <2>2. i = Len(code)
    BY <1>8, <2>1 DEF Grounded
  <2> QED
    BY <2>1, <2>2
<1>11. code[Len(code)].on \notin objects
  <2> SUFFICES ASSUME code[Len(code)].on \in objects PROVE FALSE
    OBVIOUS
  <2>1. PICK a \in 1 .. Len(cs) : cs[a].kind = "object" /\ cs[a].on = code[Len(code)].on
    BY DEF Done
  <2> DEFINE c == cs[a]
             n == Len(code)
  <2>2. c \in Range(cs) /\ c.bb = 1
    <3>1. DOMAIN cs = 1 .. Len(cs)
      BY <1>4, LenProperties
    <3> QED
      BY <1>4, <3>1 DEF Range, Draft
  <2>3. n \in Nat /\ DOMAIN code = 1 .. n
    BY <1>4, LenProperties
  <2>4. n \in Users(code, c.on)
    BY <1>10, <2>1, <2>3 DEF Users
  <2>5. /\ getLastUsage(code, c.on) \in Users(code, c.on)
        /\ \A j \in Users(code, c.on) : j <= getLastUsage(code, c.on)
    <3> HIDE DEF code, c
    <3> QED
      BY <1>4, <2>4, LastUsage
  <2>6. getLastUsage(code, c.on) \in 1 .. n /\ n <= getLastUsage(code, c.on)
    BY <2>3, <2>4, <2>5 DEF Users
  <2>7. getLastUsage(code, c.on) = n
    BY <2>3, <2>6
  <2> QED
    BY <1>1, <2>1, <2>2, <2>7 DEF NoPlaceForRelease
<1>12. ReleasedSoFar(new, code, cs, Len(cs))
  <2>1. Returns(code, objects)
    BY <1>10, <1>11 DEF Returns
  <2> QED
    BY <1>2, <1>3, <1>4, <2>1, Cleaned
<1>13. Final(new)
  BY <1>4, <1>12 DEF ReleasedSoFar, Draft, Final
<1> QED
  BY <1>1, <1>13

(* ... so that the rest is about its code only.                            *)
Program(code) ==
  /\ code \in Seq(Instruction(1))
  /\ Final(code)
  /\ \A i \in 1 .. Len(code) : code[i].op # "plain_store"

Due(code, i, op, on) ==
  \E j \in 1 .. Len(code) : i <= j /\ code[j].op = op /\ code[j].on = on

LEMMA NextInstruction ==
  ASSUME NEW code, Program(code), NEW i \in 1 .. Len(code), NEW op, NEW on
  PROVE  /\ Before(code, i + 1, op, on) <=>
              Before(code, i, op, on) \/ (code[i].op = op /\ code[i].on = on)
         /\ Due(code, i, op, on) <=>
              Due(code, i + 1, op, on) \/ (code[i].op = op /\ code[i].on = on)
<1>1. Len(code) \in Nat
  BY LenProperties DEF Program
<1>2. \A j \in 1 .. Len(code) : (j < i + 1 <=> j < i \/ j = i) /\ (i <= j <=> i + 1 <= j \/ i = j)
  BY <1>1
<1> QED
  BY <1>2 DEF Before, Due

(* No instruction of a kind that happens once comes a second time.         *)
LEMMA Once ==
  ASSUME NEW code, Program(code), NEW i \in 1 .. Len(code)
  PROVE  /\ code[i].op = "null" => ~Before(code, i, "null", code[i].on)
         /\ code[i].op = "new" => ~Before(code, i, "new", code[i].on)
         /\ code[i].op = "load" => ~Before(code, i, "new", code[i].to)
         /\ code[i].op = "release" => ~Due(code, i + 1, "release", code[i].on)
         /\ code[i].op = "release_var" => ~Due(code, i + 1, "release_var", code[i].on)
<1>1. \A j, k \in 1 .. Len(code) : Same(code[j], code[k]) => j = k
  BY DEF Program, Final, Shape
<1>2. Len(code) \in Nat
  BY LenProperties DEF Program
<1>3. code[i] \in Instruction(1)
  BY ElementOfSeq DEF Program
<1>4. \A j \in 1 .. Len(code) : (j < i => j # i) /\ (i + 1 <= j => j # i)
  BY <1>2
<1>5. code[i].op = "null" => ~Before(code, i, "null", code[i].on)
  BY <1>1, <1>4 DEF Before, Same
<1>6. code[i].op = "new" => ~Before(code, i, "new", code[i].on)
  <2>1. code[i].op = "new" => code[i].on \in Value
    BY <1>3 DEF Instruction, Operands
  <2> QED
    BY <1>1, <1>4, <2>1 DEF Before, Same, Origin
<1>7. code[i].op = "load" => ~Before(code, i, "new", code[i].to)
  <2>1. code[i].op = "load" => code[i].to \in Value
    BY <1>3 DEF Instruction, Operands
  <2> QED
    BY <1>1, <1>4, <2>1 DEF Before, Same, Origin
<1>8. code[i].op = "release" => ~Due(code, i + 1, "release", code[i].on)
  BY <1>1, <1>4 DEF Due, Same
<1>9. code[i].op = "release_var" => ~Due(code, i + 1, "release_var", code[i].on)
  BY <1>1, <1>4 DEF Due, Same
<1> QED
  BY <1>5, <1>6, <1>7, <1>8, <1>9

(* What is in use has its release to come.                                 *)
LEMMA StillDue ==
  ASSUME NEW code, Program(code), NEW i \in 1 .. Len(code)
  PROVE  /\ \A x : /\ code[i].op \notin {"release_var", "ret"}
                   /\ Before(code, i, "null", x)
                   => Due(code, i, "release_var", x) /\ Due(code, i + 1, "release_var", x)
         /\ \A v : i \in Users(code, v) /\ Before(code, i, "new", v) => Due(code, i, "release", v)
         /\ code[i].op = "new" => Due(code, i + 1, "release", code[i].on)
<1>1. \A j \in 1 .. Len(code) : Grounded(code, j) /\ Placed(code, j)
  BY DEF Program, Final, Shape
<1>2. Len(code) \in Nat
  BY LenProperties DEF Program
<1>3. ASSUME NEW x, code[i].op \notin {"release_var", "ret"}, Before(code, i, "null", x)
      PROVE  Due(code, i, "release_var", x) /\ Due(code, i + 1, "release_var", x)
  <2>1. x \in Ons(code, "null")
    BY <1>3 DEF Before, Ons
  <2>2. PICK j \in 1 .. Len(code) : code[j].op = "release_var" /\ code[j].on = x
    BY <2>1 DEF Program, Final, Ons
  <2>3. ~(j < i)
    BY <1>1, <1>3, <2>2 DEF Placed
  <2>4. j # i
    BY <1>3, <2>2
  <2>5. i <= j /\ i + 1 <= j
    BY <1>2, <2>3, <2>4
  <2> QED
    BY <2>2, <2>5 DEF Due
<1>4. ASSUME NEW v, i \in Users(code, v), Before(code, i, "new", v) PROVE Due(code, i, "release", v)
  <2>1. v \in Ons(code, "new")
    BY <1>4 DEF Before, Ons
  <2>2. PICK j \in 1 .. Len(code) : code[j].op = "release" /\ code[j].on = v
    BY <2>1 DEF Program, Final, Ons
  <2>3. i < j
    BY <1>1, <1>4, <2>2 DEF Placed
  <2>4. i <= j
    BY <1>2, <2>3
  <2> QED
    BY <2>2, <2>4 DEF Due
<1>5. ASSUME code[i].op = "new" PROVE Due(code, i + 1, "release", code[i].on)
  <2>1. code[i].on \in Ons(code, "new")
    BY <1>5 DEF Ons
  <2>2. PICK j \in 1 .. Len(code) : code[j].op = "release" /\ code[j].on = code[i].on
    BY <2>1 DEF Program, Final, Ons
  <2>3. PICK k \in 1 .. Len(code) : k < j /\ code[k].op = "new" /\ code[k].on = code[i].on
    BY <1>1, <2>2 DEF Placed, Before
  <2>4. code[i].on \in Value
    <3>1. code[i] \in Instruction(1)
      BY ElementOfSeq DEF Program
    <3> QED
      BY <1>5, <3>1 DEF Instruction, Operands
  <2>5. k = i
    <3>1. Same(code[k], code[i])
      BY <1>5, <2>3, <2>4 DEF Same, Origin
    <3> QED
      BY <3>1 DEF Program, Final, Shape
  <2>6. i + 1 <= j
    BY <1>2, <2>3, <2>5
  <2> QED
    BY <2>2, <2>6 DEF Due
<1> QED
  BY <1>3, <1>4, <1>5

(* The caller's object is not created by the function, which does not      *)
(* release it as one of its own.                                           *)
LEMMA NeverCaller ==
  ASSUME NEW code, Program(code), NEW i
  PROVE  ~Before(code, i, "new", Caller) /\ ~Due(code, i, "release", Caller)
<1>1. \A j \in 1 .. Len(code) : Grounded(code, j) /\ Placed(code, j)
  BY DEF Program, Final, Shape
<1>2. \A j \in 1 .. Len(code) : ~(code[j].op = "new" /\ code[j].on = Caller)
  BY <1>1 DEF Grounded
<1>3. \A j : ~Before(code, j, "new", Caller)
  BY <1>2 DEF Before
<1>4. ~Due(code, i, "release", Caller)
  BY <1>1, <1>3 DEF Due, Placed
<1> QED
  BY <1>3, <1>4

-----------------------------------------------------------------------------
(* Counting owners.  The caller owns its object once for all parameters,   *)
(* whose variables count as owners; a count starts from 0.                 *)

Deficit(o) == IF o = Caller THEN Cardinality(Param) ELSE 1

Counted(rs, owners, o) ==
  IF o \in DOMAIN rs THEN rs[o] = Cardinality(owners) - Deficit(o) ELSE owners \cap Name = {}

AllCounted(rs, owned, objects) == \A o \in objects : Counted(rs, owned[o], o)

CountsOK(rs) == DOMAIN rs \subseteq Value /\ \A o \in DOMAIN rs : rs[o] \in Nat
Owned(owned) == \A o \in Value : IsFiniteSet(owned[o])

LEMMA FinitelyManyNames ==
  IsFiniteSet(Local) /\ IsFiniteSet(Param) /\ Cardinality(Param) \in Nat
  /\ \A o : Deficit(o) \in Nat
<1>1. IsFiniteSet(Local) /\ IsFiniteSet(Param)
  BY NamesFinite, FS_Subset DEF Name
<1>2. Cardinality(Param) \in Nat
  BY <1>1, FS_CardinalityType
<1> QED
  BY <1>1, <1>2 DEF Deficit

(* The counts are exact for some of the objects.                           *)
Exact(rs, owned, objects) ==
  CountsOK(rs) /\ Owned(owned) /\ AllCounted(rs, owned, objects) /\ objects \subseteq Value

More(next, owned, n, x) ==
  \A o \in Value : next[o] = IF o = n THEN owned[o] \cup {x} ELSE owned[o]
Less(next, owned, n, x) ==
  \A o \in Value : next[o] = IF o = n THEN owned[o] \ {x} ELSE owned[o]

(* A retain for one more owner.                                            *)
LEMMA Gained ==
  ASSUME NEW rs, NEW owned, NEW objects, Exact(rs, owned, objects),
         NEW n, n \in DOMAIN rs, NEW x, x \notin owned[n], NEW next, More(next, owned, n, x)
  PROVE  Exact(Retained(rs, n), next, objects) /\ DOMAIN Retained(rs, n) = DOMAIN rs
<1>0. /\ CountsOK(rs) /\ Owned(owned) /\ AllCounted(rs, owned, objects) /\ objects \subseteq Value
      /\ \A o \in Value : next[o] = IF o = n THEN owned[o] \cup {x} ELSE owned[o]
  BY Zenon DEF Exact, More
<1>1. /\ DOMAIN Retained(rs, n) = DOMAIN rs /\ n \in Value /\ rs[n] \in Nat
      /\ \A o \in DOMAIN rs : Retained(rs, n)[o] = IF o = n THEN rs[o] + 1 ELSE rs[o]
  BY <1>0 DEF Retained, CountsOK
<1>2. IsFiniteSet(next[n]) /\ Cardinality(next[n]) = Cardinality(owned[n]) + 1
  <2>1. next[n] = owned[n] \cup {x} /\ IsFiniteSet(owned[n])
    BY <1>0, <1>1 DEF Owned
  <2> QED
    BY <2>1, FS_AddElement
<1>3. Cardinality(owned[n]) \in Nat /\ Deficit(n) \in Nat
  <2>1. IsFiniteSet(owned[n])
    BY <1>0, <1>1 DEF Owned
  <2> QED
    BY <2>1, FS_CardinalityType, FinitelyManyNames
<1>4. CountsOK(Retained(rs, n))
  BY <1>0, <1>1 DEF CountsOK
<1>5. Owned(next)
  BY <1>0, <1>2 DEF Owned
<1>6. ASSUME NEW o \in objects PROVE Counted(Retained(rs, n), next[o], o)
  <2>1. Counted(rs, owned[o], o)
    BY <1>0, <1>6 DEF AllCounted
  <2>2. CASE o = n
    BY <1>1, <1>2, <1>3, <2>1, <2>2 DEF Counted
  <2>3. CASE o # n
    <3>1. next[o] = owned[o]
      BY <1>0, <1>6, <2>3
    <3> QED
      BY <1>1, <2>1, <2>3, <3>1 DEF Counted
  <2> QED
    BY <2>2, <2>3
<1> QED
  BY <1>0, <1>1, <1>4, <1>5, <1>6 DEF AllCounted, Exact

(* A release for one owner less.  What is freed had no other owner, and is *)
(* not the caller's object as long as all parameters hold it.              *)
LEMMA Lost ==
  ASSUME NEW rs, NEW owned, NEW objects, Exact(rs, owned, objects),
         NEW o, o \in DOMAIN rs, NEW x, x \in owned[o], NEW next, Less(next, owned, o, x),
         o = Caller /\ o \in objects =>
           Cardinality(Param) <= 1 \/ (x \notin Param /\ Param \subseteq owned[o])
  PROVE  /\ CountsOK(Released(rs, o)) /\ AllCounted(Released(rs, o), next, objects)
         /\ DOMAIN Released(rs, o) \subseteq DOMAIN rs
         /\ \A p \in DOMAIN rs : p # o => p \in DOMAIN Released(rs, o)
         /\ o \in objects /\ o \notin DOMAIN Released(rs, o) => owned[o] = {x}
         /\ o = Caller /\ o \in objects /\ x \notin Param /\ Param \subseteq owned[o]
              => o \in DOMAIN Released(rs, o)
<1> DEFINE new == Released(rs, o)
           s == owned[o]
<1>0. /\ CountsOK(rs) /\ Owned(owned) /\ AllCounted(rs, owned, objects) /\ objects \subseteq Value
      /\ \A p \in Value : next[p] = IF p = o THEN owned[p] \ {x} ELSE owned[p]
  BY Zenon DEF Exact, Less
<1>1. o \in Value /\ rs[o] \in Nat /\ o # Null
  BY <1>0, ValuesNatural DEF CountsOK
<1>2. /\ rs[o] > 0 => /\ DOMAIN new = DOMAIN rs
                      /\ \A p \in DOMAIN rs : new[p] = IF p = o THEN rs[p] - 1 ELSE rs[p]
      /\ ~(rs[o] > 0) => /\ DOMAIN new = DOMAIN rs \ {o}
                         /\ \A p \in DOMAIN rs \ {o} : new[p] = rs[p]
  BY <1>1 DEF Released
<1>3. IsFiniteSet(s) /\ Cardinality(s) \in Nat /\ Deficit(o) \in Nat
  BY <1>0, <1>1, FS_CardinalityType, FinitelyManyNames DEF Owned
<1>4. Cardinality(s \ {x}) = Cardinality(s) - 1
  BY <1>3, FS_RemoveElement
<1> HIDE DEF new
<1>5. CountsOK(new)
  BY <1>0, <1>1, <1>2 DEF CountsOK
<1>6. DOMAIN new \subseteq DOMAIN rs /\ \A p \in DOMAIN rs : p # o => p \in DOMAIN new
  BY <1>2
<1>7. o \in objects => rs[o] = Cardinality(s) - Deficit(o)
  BY <1>0, <1>1 DEF AllCounted, Counted
<1>8. o = Caller /\ o \in objects /\ x \notin Param /\ Param \subseteq s => o \in DOMAIN new
  <2> SUFFICES ASSUME o = Caller, o \in objects, x \notin Param, Param \subseteq s, ~(rs[o] > 0)
               PROVE  FALSE
    BY <1>2
  <2>1. Cardinality(s) = Cardinality(Param)
    BY <1>1, <1>3, <1>7 DEF Deficit
  <2>2. Param = s
    BY <1>3, <2>1, FS_Subset
  <2> QED
    BY <2>2
<1>9. o \in objects /\ o \notin DOMAIN new => s = {x}
  <2> SUFFICES ASSUME o \in objects, o \notin DOMAIN new PROVE s = {x}
    OBVIOUS
  <2>1. ~(rs[o] > 0)
    BY <1>2
  <2>2. Cardinality(s) = Deficit(o)
    BY <1>1, <1>3, <1>7, <2>1
  <2>3. Deficit(o) <= 1
    <3>1. CASE o = Caller
      BY <1>8, <3>1 DEF Deficit
    <3>2. CASE o # Caller
      BY <3>2 DEF Deficit
    <3> QED
      BY <3>1, <3>2
  <2>4. Cardinality(s \ {x}) = 0
    <3>1. Cardinality(s \ {x}) \in Nat
      BY <1>3, FS_RemoveElement, FS_CardinalityType
    <3> QED
      BY <1>3, <1>4, <2>2, <2>3, <3>1
  <2>5. s \ {x} = {}
    BY <1>3, <2>4, FS_RemoveElement, FS_EmptySet
  <2> QED
    BY <2>5
<1>10. ASSUME NEW p \in objects PROVE Counted(new, next[p], p)
  <2>1. Counted(rs, owned[p], p)
    BY <1>0, <1>10 DEF AllCounted
  <2>2. CASE p # o
    <3>1. next[p] = owned[p]
      BY <1>0, <1>10, <2>2
    <3> QED
      BY <1>2, <2>1, <2>2, <3>1 DEF Counted
  <2>3. CASE p = o
    <3>1. next[p] = s \ {x}
      BY <1>0, <1>10, <2>3
    <3>2. CASE rs[o] > 0
      BY <1>1, <1>2, <1>3, <1>4, <1>7, <1>10, <2>3, <3>1, <3>2 DEF Counted
    <3>3. CASE ~(rs[o] > 0)
      <4>1. o \notin DOMAIN new
        BY <1>2, <3>3
      <4>2. s = {x}
        BY <1>9, <1>10, <2>3, <4>1
      <4> QED
        BY <2>3, <3>1, <4>1, <4>2 DEF Counted
    <3> QED
      BY <3>2, <3>3
  <2> QED
    BY <2>2, <2>3
<1>11. AllCounted(new, next, objects)
  BY <1>0, <1>10 DEF AllCounted
<1> QED
  BY <1>5, <1>6, <1>8, <1>9, <1>11 DEF new

(* The owners of o when the i-th instruction of the function is the next.  *)
OwnersAt(code, i, e, o) ==
  {x \in Local : e[x] = o /\ Due(code, i, "release_var", x)}
  \cup {x \in Param : e[x] = o}
  \cup {v \in {o} : Due(code, i, "release", v)}

(* The owner that an instruction puts an end to.                           *)
Dropped(ins, e, o) ==
  (IF ins.op = "release" /\ ins.on = o THEN {o} ELSE {})
  \cup (IF ins.op = "release_var" /\ e[ins.on] = o THEN {ins.on} ELSE {})

LEMMA NamesAreNoValues ==
  Local \subseteq Name /\ Param \subseteq Name /\ Local \cap Param = {}
  /\ \A x \in Name : x \notin Value
  BY NamesFinite, NamesDisjoint DEF Name

LEMMA OwnersFinite ==
  ASSUME NEW code, NEW i, NEW e, NEW o
  PROVE  IsFiniteSet(OwnersAt(code, i, e, o))
<1> DEFINE a == {x \in Local : e[x] = o /\ Due(code, i, "release_var", x)}
           b == {x \in Param : e[x] = o}
           c == {v \in {o} : Due(code, i, "release", v)}
<1>1. a \subseteq Local /\ b \subseteq Param /\ c \subseteq {o}
  OBVIOUS
<1>2. IsFiniteSet({o})
  BY FS_Singleton
<1>3. IsFiniteSet(a) /\ IsFiniteSet(b) /\ IsFiniteSet(c)
  BY <1>1, <1>2, FinitelyManyNames, FS_Subset
<1>4. OwnersAt(code, i, e, o) = (a \cup b) \cup c
  BY DEF OwnersAt
<1> HIDE DEF a, b, c
<1>5. IsFiniteSet(a \cup b)
  BY <1>3, FS_Union
<1> QED
  BY <1>3, <1>4, <1>5, FS_Union

LEMMA OwnersNext ==
  ASSUME NEW code, Program(code), NEW i \in 1 .. Len(code), NEW e, NEW o \in Value
  PROVE  OwnersAt(code, i + 1, e, o) = OwnersAt(code, i, e, o) \ Dropped(code[i], e, o)
<1> DEFINE ins == code[i]
<1>1. \A op, on : Due(code, i, op, on) <=>
                    Due(code, i + 1, op, on) \/ (ins.op = op /\ ins.on = on)
  BY NextInstruction
<1>2. /\ ins.op = "release" => ~Due(code, i + 1, "release", ins.on)
      /\ ins.op = "release_var" => ~Due(code, i + 1, "release_var", ins.on)
  BY Once
<1>3. ins \in Instruction(1)
  BY ElementOfSeq DEF Program
<1>4. ins.op = "release_var" => ins.on \in Local
  BY <1>3 DEF Instruction, Operands
<1> HIDE DEF ins
<1>5. CASE ins.op = "release"
  <2>1. \A x : Due(code, i, "release_var", x) <=> Due(code, i + 1, "release_var", x)
    BY <1>1, <1>5
  <2>2. Dropped(ins, e, o) = IF ins.on = o THEN {o} ELSE {}
    BY <1>5 DEF Dropped
  <2>3. Due(code, i, "release", o) <=> Due(code, i + 1, "release", o) \/ ins.on = o
    BY <1>1, <1>5
  <2> QED
    BY <1>2, <1>5, <2>1, <2>2, <2>3, NamesAreNoValues DEF OwnersAt, ins
<1>6. CASE ins.op = "release_var"
  <2>1. Due(code, i, "release", o) <=> Due(code, i + 1, "release", o)
    BY <1>1, <1>6
  <2>2. Dropped(ins, e, o) = IF e[ins.on] = o THEN {ins.on} ELSE {}
    BY <1>6 DEF Dropped
  <2>3. \A x : Due(code, i, "release_var", x) <=> Due(code, i + 1, "release_var", x) \/ ins.on = x
    BY <1>1, <1>6
  <2> QED
    BY <1>2, <1>4, <1>6, <2>1, <2>2, <2>3, NamesAreNoValues DEF OwnersAt, ins
<1>7. CASE ins.op \notin {"release", "release_var"}
  <2>1. Dropped(ins, e, o) = {}
    BY <1>7 DEF Dropped
  <2>2. /\ \A x : Due(code, i, "release_var", x) <=> Due(code, i + 1, "release_var", x)
        /\ Due(code, i, "release", o) <=> Due(code, i + 1, "release", o)
    BY <1>1, <1>7
  <2> QED
    BY <2>1, <2>2 DEF OwnersAt, ins
<1> QED
  BY <1>5, <1>6, <1>7

-----------------------------------------------------------------------------
(* What holds of the variables e, the values vs and the counts rs when the *)
(* i-th instruction of the function is the next.                           *)

Kept(code) == \A i \in 1 .. Len(code) : code[i].op = "store" => code[i].to \notin Param
Aliasless(code) == Kept(code) \/ Cardinality(Param) <= 1

(* The objects whose counts are exact.                                     *)
Objects(code) == IF Aliasless(code) THEN Value ELSE Value \ {Caller}

Typed(e, vs, rs) ==
  /\ e \in [Name -> Value \cup {Null, Garbage}]
  /\ vs \in [Value -> Value \cup {Null, Garbage}]
  /\ CountsOK(rs)

(* A variable has been written if it has been declared.                    *)
EnvOK(code, i, e) ==
  /\ \A x \in Field : e[x] = Null
  /\ \A x \in Param : e[x] # Garbage
  /\ \A x \in Local : e[x] # Garbage <=> Before(code, i, "null", x)

(* The value of `new` is its object, what was just loaded is still there.  *)
ValsOK(code, i, e, vs) ==
  /\ \A v \in Value : Before(code, i, "new", v) => vs[v] = v
  /\ i > 1 /\ code[i - 1].op = "load" => vs[code[i - 1].to] = e[code[i - 1].on]

(* What is in memory was created, and is there until it is released.       *)
LiveOK(code, i, rs) ==
  /\ \A o \in DOMAIN rs : o = Caller \/ Before(code, i, "new", o)
  /\ \A v \in Value : Before(code, i, "new", v) /\ Due(code, i, "release", v) => v \in DOMAIN rs

CountOK(code, i, e, rs) ==
  AllCounted(rs, [o \in Value |-> OwnersAt(code, i, e, o)], Objects(code))

CallerOK(code, e, rs) == Kept(code) => Caller \in DOMAIN rs /\ \A p \in Param : e[p] = Caller

Data(code, i, e, vs, rs) ==
  /\ EnvOK(code, i, e) /\ ValsOK(code, i, e, vs) /\ LiveOK(code, i, rs)
  /\ CountOK(code, i, e, rs) /\ CallerOK(code, e, rs)

(* An instruction that neither creates nor releases moves nothing.         *)
LEMMA NextKeeps ==
  ASSUME NEW code, Program(code), NEW i \in 1 .. Len(code), NEW e, NEW vs, NEW rs,
         Data(code, i, e, vs, rs)
  PROVE  /\ code[i].op # "null" => EnvOK(code, i + 1, e)
         /\ code[i].op \notin {"new", "load"} => ValsOK(code, i + 1, e, vs)
         /\ code[i].op # "new" => LiveOK(code, i + 1, rs)
         /\ code[i].op \notin {"release", "release_var"} => CountOK(code, i + 1, e, rs)
<1>1. /\ \A op, on : Before(code, i + 1, op, on) <=>
                       Before(code, i, op, on) \/ (code[i].op = op /\ code[i].on = on)
      /\ \A op, on : Due(code, i, op, on) <=>
                       Due(code, i + 1, op, on) \/ (code[i].op = op /\ code[i].on = on)
  BY NextInstruction
<1>2. code[i].op # "null" => EnvOK(code, i + 1, e)
  BY <1>1 DEF Data, EnvOK
<1>3. code[i].op \notin {"new", "load"} => ValsOK(code, i + 1, e, vs)
  <2>1. i \in Int /\ (i + 1) - 1 = i
    BY LenProperties DEF Program
  <2> QED
    BY <1>1, <2>1 DEF Data, ValsOK
<1>4. code[i].op # "new" => LiveOK(code, i + 1, rs)
  BY <1>1 DEF Data, LiveOK
<1>5. ASSUME code[i].op \notin {"release", "release_var"} PROVE CountOK(code, i + 1, e, rs)
  <2>1. ASSUME NEW o \in Value PROVE OwnersAt(code, i + 1, e, o) = OwnersAt(code, i, e, o)
    <3>1. Dropped(code[i], e, o) = {}
      BY <1>5 DEF Dropped
    <3>2. OwnersAt(code, i + 1, e, o) = OwnersAt(code, i, e, o) \ Dropped(code[i], e, o)
      BY OwnersNext
    <3> QED
      BY <3>1, <3>2
  <2>2. [o \in Value |-> OwnersAt(code, i + 1, e, o)] = [o \in Value |-> OwnersAt(code, i, e, o)]
    BY <2>1
  <2> QED
    BY <2>2, Zenon DEF Data, CountOK
<1> QED
  BY <1>2, <1>3, <1>4, <1>5

LEMMA NullKeeps ==
  ASSUME NEW code, Program(code), NEW i \in 1 .. Len(code), NEW e, NEW vs, NEW rs,
         Typed(e, vs, rs), Data(code, i, e, vs, rs), code[i].op = "null"
  PROVE  Data(code, i + 1, [e EXCEPT ![code[i].on] = Null], vs, rs)
<1> DEFINE x == code[i].on
           e2 == [e EXCEPT ![x] = Null]
<1>1. x \in Local /\ x \in Name /\ x \notin Param /\ x \notin Field
  <2>1. code[i] \in Instruction(1)
    BY ElementOfSeq DEF Program
  <2>2. x \in Local
    BY <2>1 DEF Instruction, Operands
  <2> QED
    BY <2>2, NamesDisjoint DEF Name
<1>2. e[x] = Garbage
  BY <1>1, Once DEF Data, EnvOK
<1>3. e2[x] = Null /\ \A y : y # x /\ y \in Name => e2[y] = e[y]
  BY <1>1 DEF Typed
<1>4. \A op, on : Before(code, i + 1, op, on) <=>
                    Before(code, i, op, on) \/ (code[i].op = op /\ code[i].on = on)
  BY NextInstruction
<1>5. ValsOK(code, i + 1, e, vs) /\ LiveOK(code, i + 1, rs) /\ CountOK(code, i + 1, e, rs)
  BY NextKeeps
<1> HIDE DEF e2
<1>6. EnvOK(code, i + 1, e2)
  <2>1. Local \subseteq Name /\ Param \subseteq Name /\ Field \subseteq Name
    BY DEF Name
  <2>2. Garbage # Null
    BY ValuesNatural
  <2>3. \A y \in Local : e2[y] # Garbage <=> Before(code, i + 1, "null", y)
    <3> TAKE y \in Local
    <3>1. CASE y = x
      BY <1>3, <1>4, <2>2, <3>1
    <3>2. CASE y # x
      BY <1>3, <1>4, <2>1, <3>2 DEF Data, EnvOK
    <3> QED
      BY <3>1, <3>2
  <2> QED
    BY <1>1, <1>3, <2>1, <2>3 DEF Data, EnvOK
<1>7. ValsOK(code, i + 1, e2, vs)
  <2>1. i \in Int /\ (i + 1) - 1 = i
    BY LenProperties DEF Program
  <2> QED
    BY <1>5, <2>1 DEF ValsOK
<1>8. CountOK(code, i + 1, e2, rs)
  <2>1. ASSUME NEW o \in Value PROVE OwnersAt(code, i + 1, e2, o) = OwnersAt(code, i + 1, e, o)
    <3>1. o # Null /\ o # Garbage
      BY ValuesNatural
    <3>2. \A y \in Local \cup Param : e2[y] = o <=> e[y] = o
      BY <1>2, <1>3, <3>1 DEF Name
    <3> QED
      BY <3>2 DEF OwnersAt
  <2>2. [o \in Value |-> OwnersAt(code, i + 1, e2, o)] = [o \in Value |-> OwnersAt(code, i + 1, e, o)]
    BY <2>1
  <2> QED
    BY <1>5, <2>2, Zenon DEF CountOK
<1>9. CallerOK(code, e2, rs)
  BY <1>1, <1>3, NamesAreNoValues DEF Data, CallerOK
<1> QED
  BY <1>5, <1>6, <1>7, <1>8, <1>9, Zenon DEF Data, e2
LEMMA NewKeeps ==
  ASSUME NEW code, Program(code), NEW i \in 1 .. Len(code), NEW e, NEW vs, NEW rs,
         Typed(e, vs, rs), Data(code, i, e, vs, rs), code[i].op = "new",
         NEW rs2, rs2 = [o \in DOMAIN rs \cup {code[i].on} |-> IF o = code[i].on THEN 0 ELSE rs[o]]
  PROVE  Data(code, i + 1, e, [vs EXCEPT ![code[i].on] = code[i].on], rs2)
<1> DEFINE n == code[i].on
           vs2 == [vs EXCEPT ![n] = n]
           now == [o \in Value |-> OwnersAt(code, i, e, o)]
           next == [o \in Value |-> OwnersAt(code, i + 1, e, o)]
<1>1. n \in Value /\ n # Caller
  <2>1. code[i] \in Instruction(1) /\ Grounded(code, i)
    BY ElementOfSeq DEF Program, Final, Shape
  <2> QED
    BY <2>1 DEF Instruction, Operands, Grounded
<1>2. /\ \A op, on : Before(code, i + 1, op, on) <=>
                       Before(code, i, op, on) \/ (code[i].op = op /\ code[i].on = on)
      /\ \A op, on : Due(code, i, op, on) <=>
                       Due(code, i + 1, op, on) \/ (code[i].op = op /\ code[i].on = on)
  BY NextInstruction
<1>3. n \notin DOMAIN rs
  BY <1>1, Once DEF Data, LiveOK
<1>4. /\ DOMAIN rs2 = DOMAIN rs \cup {n} /\ rs2[n] = 0
      /\ \A o \in DOMAIN rs : rs2[o] = rs[o]
  BY <1>3
<1>5. EnvOK(code, i + 1, e) /\ CountOK(code, i + 1, e, rs)
  BY NextKeeps
<1>6. ValsOK(code, i + 1, e, vs2)
  <2>1. i \in Int /\ (i + 1) - 1 = i
    BY LenProperties DEF Program
  <2>2. vs2[n] = n /\ \A v \in Value : v # n => vs2[v] = vs[v]
    BY <1>1 DEF Typed
  <2> HIDE DEF vs2
  <2>3. ASSUME NEW v \in Value, Before(code, i + 1, "new", v) PROVE vs2[v] = v
    BY <1>2, <2>2, <2>3 DEF Data, ValsOK
  <2> QED
    BY <2>1, <2>3 DEF ValsOK
<1>7. LiveOK(code, i + 1, rs2)
  BY <1>2, <1>4 DEF Data, LiveOK
<1>8. CountOK(code, i + 1, e, rs2)
  <2>1. AllCounted(rs, next, Objects(code))
    BY <1>5 DEF CountOK
  <2>2. next[n] = {n}
    <3>1. Counted(rs, next[n], n)
      BY <1>1, <2>1 DEF AllCounted, Objects
    <3>2. OwnersAt(code, i + 1, e, n) \cap Name = {}
      BY <1>1, <1>3, <3>1 DEF Counted
    <3>3. Due(code, i + 1, "release", n)
      BY StillDue
    <3> QED
      BY <1>1, <3>2, <3>3, NamesAreNoValues DEF OwnersAt
  <2> HIDE DEF next
  <2>3. ASSUME NEW o \in Objects(code) PROVE Counted(rs2, next[o], o)
    <3>1. CASE o = n
      <4>1. Cardinality(next[n]) = 1 /\ Deficit(n) = 1
        BY <1>1, <2>2, FS_Singleton DEF Deficit
      <4> QED
        BY <1>4, <3>1, <4>1 DEF Counted
    <3>2. CASE o # n
      BY <1>4, <2>1, <2>3, <3>2 DEF AllCounted, Counted
    <3> QED
      BY <3>1, <3>2
  <2>4. AllCounted(rs2, next, Objects(code))
    BY <2>3 DEF AllCounted
  <2> QED
    BY <2>4 DEF CountOK, next
<1>9. CallerOK(code, e, rs2)
  BY <1>4 DEF Data, CallerOK
<1> QED
  BY <1>5, <1>6, <1>7, <1>8, <1>9, Zenon DEF Data

LEMMA LoadKeeps ==
  ASSUME NEW code, Program(code), NEW i \in 1 .. Len(code), NEW e, NEW vs, NEW rs,
         Typed(e, vs, rs), Data(code, i, e, vs, rs), code[i].op = "load"
  PROVE  Data(code, i + 1, e, [vs EXCEPT ![code[i].to] = e[code[i].on]], rs)
<1> DEFINE n == code[i].to
           vs2 == [vs EXCEPT ![n] = e[code[i].on]]
<1>1. n \in Value
  <2>1. code[i] \in Instruction(1)
    BY ElementOfSeq DEF Program
  <2> QED
    BY <2>1 DEF Instruction, Operands
<1>2. \A op, on : Before(code, i + 1, op, on) <=>
                    Before(code, i, op, on) \/ (code[i].op = op /\ code[i].on = on)
  BY NextInstruction
<1>3. EnvOK(code, i + 1, e) /\ LiveOK(code, i + 1, rs) /\ CountOK(code, i + 1, e, rs)
  BY NextKeeps
<1>4. ValsOK(code, i + 1, e, vs2)
  <2>1. i \in Int /\ (i + 1) - 1 = i
    BY LenProperties DEF Program
  <2>2. vs2[n] = e[code[i].on] /\ \A v \in Value : v # n => vs2[v] = vs[v]
    BY <1>1 DEF Typed
  <2>3. ~Before(code, i, "new", n)
    BY Once
  <2> HIDE DEF vs2
  <2>4. ASSUME NEW v \in Value, Before(code, i + 1, "new", v) PROVE vs2[v] = v
    BY <1>2, <2>2, <2>3, <2>4 DEF Data, ValsOK
  <2> QED
    BY <2>1, <2>2, <2>4 DEF ValsOK
<1> QED
  BY <1>3, <1>4, Zenon DEF Data

(* A declared variable holds null or an object that it owns, which is in   *)
(* memory.                                                                 *)
LEMMA VariableHolds ==
  ASSUME NEW code, NEW i, NEW e, NEW vs, NEW rs,
         Typed(e, vs, rs), Data(code, i, e, vs, rs), NEW x \in Name,
         x \in Local => Before(code, i, "null", x) /\ Due(code, i, "release_var", x)
  PROVE  /\ e[x] # Garbage
         /\ e[x] # Null => x \notin Field /\ e[x] \in Value /\ x \in OwnersAt(code, i, e, e[x])
         /\ e[x] # Null /\ (e[x] = Caller => Aliasless(code)) => e[x] \in DOMAIN rs
<1>1. e[x] # Garbage
  BY ValuesNatural DEF Data, EnvOK, Name
<1>2. e[x] \in Value \cup {Null, Garbage} /\ (x \in Field => e[x] = Null)
  BY DEF Typed, Data, EnvOK
<1>3. e[x] # Null => x \notin Field /\ e[x] \in Value /\ x \in OwnersAt(code, i, e, e[x])
  BY <1>1, <1>2 DEF OwnersAt, Name
<1>4. ASSUME e[x] # Null, e[x] = Caller => Aliasless(code) PROVE e[x] \in DOMAIN rs
  <2>1. Counted(rs, OwnersAt(code, i, e, e[x]), e[x])
    BY <1>3, <1>4 DEF Data, CountOK, AllCounted, Objects
  <2> QED
    BY <1>3, <1>4, <2>1 DEF Counted
<1> QED
  BY <1>1, <1>3, <1>4

(* The operand of a call, a store or an initialisation has been written,   *)
(* and is in memory if it is an object.                                    *)
LEMMA Usable ==
  ASSUME NEW code, Program(code), NEW i \in 1 .. Len(code), NEW e, NEW vs, NEW rs,
         Typed(e, vs, rs), Data(code, i, e, vs, rs), code[i].op \in {"init", "call", "store"}
  PROVE  LET w == vs[code[i].on]
         IN  /\ w \in Value \cup {Null}
             /\ w # Null /\ (w = Caller => Aliasless(code)) => w \in DOMAIN rs
<1> DEFINE v == code[i].on
           w == vs[v]
<1>1. Len(code) \in Nat /\ v \in Value /\ w \in Value \cup {Null, Garbage}
  <2>1. code[i] \in Instruction(1)
    BY ElementOfSeq DEF Program
  <2>2. v \in Value
    BY <2>1 DEF Instruction, Operands
  <2> QED
    BY <2>2, LenProperties DEF Program, Typed
<1>2. \A j \in 1 .. Len(code) : Grounded(code, j)
  BY DEF Program, Final, Shape
<1>3. Before(code, i, "new", v) \/ (code[i].op \in Moves /\ Loaded(code, i))
  BY <1>2 DEF Grounded, Moves
<1>4. CASE Before(code, i, "new", v)
  <2>1. i \in Users(code, v)
    <3>1. DOMAIN code = 1 .. Len(code)
      BY LenProperties DEF Program
    <3> QED
      BY <3>1 DEF Users
  <2>2. Due(code, i, "release", v)
    BY <1>4, <2>1, StillDue
  <2>3. w = v /\ v \in DOMAIN rs
    BY <1>1, <1>4, <2>2 DEF Data, ValsOK, LiveOK
  <2> QED
    BY <1>1, <2>3
<1>5. CASE Loaded(code, i)
  <2> DEFINE x == code[i - 1].on
  <2>1. i - 1 \in 1 .. Len(code) /\ code[i - 1].op = "load" /\ code[i - 1].to = v
    BY <1>1, <1>5 DEF Loaded
  <2>2. w = e[x]
    BY <1>5, <2>1 DEF Loaded, Data, ValsOK
  <2>3. x \in Name
    <3>1. code[i - 1] \in Instruction(1)
      BY <2>1, ElementOfSeq DEF Program
    <3> QED
      BY <2>1, <3>1 DEF Instruction, Operands
  <2>4. x \in Local => Before(code, i, "null", x)
    <3>1. \A j \in 1 .. Len(code) : j < i - 1 => j < i
      BY <1>1
    <3> QED
      BY <1>2, <2>1, <3>1 DEF Grounded, Known, Before
  <2>5. x \in Local => Due(code, i, "release_var", x)
    BY <2>4, StillDue
  <2> HIDE DEF x
  <2>6. /\ e[x] # Garbage
        /\ e[x] # Null => x \notin Field /\ e[x] \in Value /\ x \in OwnersAt(code, i, e, e[x])
        /\ e[x] # Null /\ (e[x] = Caller => Aliasless(code)) => e[x] \in DOMAIN rs
    BY <2>3, <2>4, <2>5, VariableHolds
  <2> QED
    BY <1>1, <2>2, <2>6
<1> QED
  BY <1>3, <1>4, <1>5
(* The i-th instruction releases o for its owner x, in the counts rs1 of   *)
(* the owners that it has made so far.                                     *)
Releases(code, i, e, rs, rs1, owned, o, x, e2) ==
  /\ code[i].op # "new"
  /\ DOMAIN rs1 = DOMAIN rs /\ Exact(rs1, owned, Objects(code))
  /\ \A p \in Value : OwnersAt(code, i, e, p) \subseteq owned[p]
  /\ o \in DOMAIN rs /\ o \in Value /\ x \in owned[o]
  /\ x \in Name \/ (x = o /\ ~Due(code, i + 1, "release", o) /\ o # Caller)
  /\ \A p \in Value : OwnersAt(code, i + 1, e2, p) = IF p = o THEN owned[p] \ {x} ELSE owned[p]
  /\ Kept(code) => x \notin Param /\ \A p \in Param : e2[p] = e[p]

LEMMA ReleaseKeeps ==
  ASSUME NEW code, Program(code), NEW i \in 1 .. Len(code), NEW e, NEW vs, NEW rs,
         Data(code, i, e, vs, rs), NEW rs1, NEW owned, NEW o, NEW x, NEW e2,
         Releases(code, i, e, rs, rs1, owned, o, x, e2)
  PROVE  /\ LiveOK(code, i + 1, Released(rs1, o))
         /\ CountOK(code, i + 1, e2, Released(rs1, o))
         /\ CallerOK(code, e2, Released(rs1, o))
<1> DEFINE rs2 == Released(rs1, o)
           next == [p \in Value |-> OwnersAt(code, i + 1, e2, p)]
<1>1. /\ o \in Value /\ o \in DOMAIN rs1 /\ DOMAIN rs1 = DOMAIN rs /\ x \in owned[o]
      /\ Exact(rs1, owned, Objects(code))
      /\ \A p \in Value : OwnersAt(code, i, e, p) \subseteq owned[p]
      /\ \A p \in Value : OwnersAt(code, i + 1, e2, p) = IF p = o THEN owned[p] \ {x} ELSE owned[p]
      /\ x \in Name \/ (x = o /\ ~Due(code, i + 1, "release", o) /\ o # Caller)
      /\ Kept(code) => x \notin Param /\ \A p \in Param : e2[p] = e[p]
      /\ code[i].op # "new"
  BY DEF Releases
<1>2. Kept(code) /\ o = Caller => Param \subseteq owned[o]
  BY <1>1 DEF Data, CallerOK, OwnersAt
<1>3. o = Caller /\ o \in Objects(code) => Cardinality(Param) <= 1 \/ (x \notin Param /\ Param \subseteq owned[o])
  BY <1>1, <1>2 DEF Aliasless, Objects
<1>4. \A p \in Value : next[p] = IF p = o THEN owned[p] \ {x} ELSE owned[p]
  BY <1>1
<1> HIDE DEF next
<1>5. /\ CountsOK(rs2) /\ AllCounted(rs2, next, Objects(code))
      /\ DOMAIN rs2 \subseteq DOMAIN rs1
      /\ \A p \in DOMAIN rs1 : p # o => p \in DOMAIN rs2
      /\ o \in Objects(code) /\ o \notin DOMAIN rs2 => owned[o] = {x}
      /\ o = Caller /\ o \in Objects(code) /\ x \notin Param /\ Param \subseteq owned[o] => o \in DOMAIN rs2
  <2>2. Less(next, owned, o, x)
    BY <1>4 DEF Less
  <2> QED
    BY <1>1, <1>3, <2>2, Lost
<1> HIDE DEF rs2
<1>6. LiveOK(code, i + 1, rs2)
  <2>1. LiveOK(code, i + 1, rs)
    BY <1>1, NextKeeps
  <2>2. ASSUME NEW v \in Value, Before(code, i + 1, "new", v), Due(code, i + 1, "release", v),
               v \notin DOMAIN rs2
        PROVE  FALSE
    <3>1. v \in DOMAIN rs
      BY <2>1, <2>2 DEF LiveOK
    <3>2. v = o
      BY <1>1, <1>5, <2>2, <3>1
    <3>3. v # Caller
      BY <2>2, NeverCaller
    <3>4. owned[o] = {x}
      BY <1>5, <2>2, <3>2, <3>3 DEF Objects
    <3>5. Due(code, i, "release", o)
      BY <2>2, <3>2, NextInstruction
    <3>6. o \in owned[o]
      BY <1>1, <3>5 DEF OwnersAt
    <3>7. x = o
      BY <3>4, <3>6
    <3> QED
      BY <1>1, <2>2, <3>2, <3>7, NamesAreNoValues
  <2> QED
    BY <1>1, <1>5, <2>1, <2>2 DEF LiveOK
<1>7. CountOK(code, i + 1, e2, rs2)
  BY <1>5 DEF CountOK, next
<1>8. CallerOK(code, e2, rs2)
  <2> SUFFICES ASSUME Kept(code) PROVE Caller \in DOMAIN rs2 /\ \A p \in Param : e2[p] = Caller
    BY DEF CallerOK
  <2>1. Caller \in DOMAIN rs /\ \A p \in Param : e[p] = Caller /\ e2[p] = e[p]
    BY <1>1 DEF Data, CallerOK
  <2>2. o = Caller => o \in Objects(code)
    BY <1>1 DEF Aliasless, Objects
  <2> QED
    BY <1>1, <1>2, <1>5, <2>1, <2>2
<1> QED
  BY <1>6, <1>7, <1>8 DEF rs2

(* A store moves a variable from the owners of one object to another's.    *)
LEMMA StoreOwners ==
  ASSUME NEW code, Program(code), NEW i \in 1 .. Len(code), code[i].op = "store",
         NEW e, NEW x \in Name, x \in Param \/ (x \in Local /\ Due(code, i, "release_var", x)),
         NEW new \in Value, NEW e2, e2[x] = new, \A y \in Name : y # x => e2[y] = e[y],
         NEW o \in Value
  PROVE  /\ e[x] = new => OwnersAt(code, i + 1, e2, o) = OwnersAt(code, i, e, o)
         /\ o # new /\ o # e[x] => OwnersAt(code, i + 1, e2, o) = OwnersAt(code, i, e, o)
         /\ o = new => OwnersAt(code, i + 1, e2, o) = OwnersAt(code, i, e, o) \cup {x}
         /\ o # new => OwnersAt(code, i + 1, e2, o) = OwnersAt(code, i, e, o) \ {x}
         /\ x \in OwnersAt(code, i, e, o) <=> e[x] = o
<1> DEFINE now == OwnersAt(code, i, e, o)
           next == OwnersAt(code, i + 1, e2, o)
<1>1. next = OwnersAt(code, i, e2, o) \ Dropped(code[i], e2, o)
  BY OwnersNext
<1>2. Dropped(code[i], e2, o) = {}
  BY DEF Dropped
<1>3. OwnersAt(code, i, e2, o) = IF new = o THEN now \cup {x} ELSE now \ {x}
  BY NamesAreNoValues DEF OwnersAt
<1>4. x \in now <=> e[x] = o
  BY NamesAreNoValues DEF OwnersAt
<1> HIDE DEF now, next
<1>5. /\ o = new => next = now \cup {x}
      /\ o # new => next = now \ {x}
  BY <1>1, <1>2, <1>3
<1>6. (e[x] = new \/ (o # new /\ o # e[x])) => next = now
  <2>1. CASE o = new /\ e[x] = new
    BY <1>4, <1>5, <2>1
  <2>2. CASE o # new /\ e[x] # o
    BY <1>4, <1>5, <2>2
  <2> QED
    BY <2>1, <2>2
<1> QED
  BY <1>4, <1>5, <1>6 DEF now, next

LEMMA StoreKeeps ==
  ASSUME NEW code, Program(code), NEW i \in 1 .. Len(code), NEW e, NEW vs, NEW rs,
         Typed(e, vs, rs), Data(code, i, e, vs, rs), code[i].op = "store",
         NEW new, NEW old, new = vs[code[i].on], old = e[code[i].to],
         new \in DOMAIN rs, old = Null \/ old \in DOMAIN rs
  PROVE  Data(code, i + 1, [e EXCEPT ![code[i].to] = new], vs, Released(Retained(rs, new), old))
<1> DEFINE x == code[i].to
           e2 == [e EXCEPT ![x] = new]
           Now(o) == OwnersAt(code, i, e, o)
           Then(o) == OwnersAt(code, i + 1, e2, o)
           now == [o \in Value |-> Now(o)]
           next == [o \in Value |-> Then(o)]
           more == [o \in Value |-> IF o = new THEN Now(o) \cup {x} ELSE Now(o)]
           rs1 == Retained(rs, new)
           rs2 == Released(rs1, old)
<1>1. x \in Name /\ x \notin Field /\ x \in DOMAIN e /\ new \in Value
  <2>1. code[i] \in Instruction(1) /\ Grounded(code, i)
    BY ElementOfSeq DEF Program, Final, Shape
  <2> QED
    BY <2>1 DEF Instruction, Operands, Grounded, Typed, CountsOK
<1>2. x \in Local => Before(code, i, "null", x) /\ Due(code, i, "release_var", x)
  <2>1. Grounded(code, i)
    BY DEF Program, Final, Shape
  <2> QED
    BY <2>1, StillDue DEF Grounded, Known
<1>3. /\ e[x] # Garbage
      /\ e[x] # Null => x \notin Field /\ e[x] \in Value /\ x \in OwnersAt(code, i, e, e[x])
      /\ e[x] # Null /\ (e[x] = Caller => Aliasless(code)) => e[x] \in DOMAIN rs
  BY <1>1, <1>2, VariableHolds
<1>4. x \in Param \/ (x \in Local /\ Due(code, i, "release_var", x))
  BY <1>1, <1>2 DEF Name
<1>5. e2[x] = new /\ \A y \in Name : y # x => e2[y] = e[y]
  BY <1>1 DEF Typed
<1>6. CountsOK(rs) /\ AllCounted(rs, now, Objects(code)) /\ Objects(code) \subseteq Value
  BY DEF Data, CountOK, Typed, Objects
<1>7. \A o \in Value : IsFiniteSet(Now(o))
  BY OwnersFinite
<1>9. EnvOK(code, i + 1, e2)
  <2>1. Local \subseteq Name /\ Param \subseteq Name /\ Field \subseteq Name
    BY DEF Name
  <2>2. EnvOK(code, i + 1, e)
    BY NextKeeps
  <2>3. new # Garbage
    BY <1>1, ValuesNatural
  <2> HIDE DEF e2
  <2>4. \A y \in Local : e2[y] # Garbage <=> e[y] # Garbage
    BY <1>3, <1>5, <2>1, <2>3
  <2> QED
    BY <1>1, <1>5, <2>1, <2>2, <2>3, <2>4 DEF EnvOK
<1>10. ValsOK(code, i + 1, e2, vs)
  <2>1. i \in Int /\ (i + 1) - 1 = i
    BY LenProperties DEF Program
  <2>2. ValsOK(code, i + 1, e, vs)
    BY NextKeeps
  <2> QED
    BY <2>1, <2>2 DEF ValsOK
<1>11. LiveOK(code, i + 1, rs)
  BY NextKeeps
<1>12. Kept(code) => x \notin Param /\ \A p \in Param : e2[p] = e[p]
  BY <1>5, NamesAreNoValues DEF Kept
<1> HIDE DEF e2, x
<1>13. \A o \in Value :
         /\ old = new => Then(o) = Now(o)
         /\ o # new /\ o # old => Then(o) = Now(o)
         /\ o = new => Then(o) = Now(o) \cup {x}
         /\ o # new => Then(o) = Now(o) \ {x}
         /\ x \in Now(o) <=> old = o
  <2> TAKE o \in Value
  <2>1. old = e[x]
    BY DEF x
  <2> QED
    BY <1>1, <1>4, <1>5, <2>1, StoreOwners
<1> HIDE DEF Now, Then
<1>14. CASE new = old
  <2>1. DOMAIN rs2 = DOMAIN rs /\ \A o \in DOMAIN rs : rs2[o] = rs[o]
    <3>1. rs1[new] = rs[new] + 1 /\ DOMAIN rs1 = DOMAIN rs /\ rs[new] \in Nat
      BY <1>6 DEF Retained, CountsOK
    <3>2. new # Null /\ rs1[new] > 0
      BY <1>1, <3>1, ValuesNatural
    <3>3. rs2 = [rs1 EXCEPT ![new] = @ - 1]
      BY <1>14, <3>2 DEF Released
    <3>4. \A o \in DOMAIN rs : o # new => rs1[o] = rs[o]
      BY DEF Retained
    <3> HIDE DEF rs1, rs2
    <3>5. \A o \in DOMAIN rs : rs2[o] = IF o = new THEN rs1[o] - 1 ELSE rs1[o]
      BY <3>1, <3>3
    <3> QED
      BY <3>1, <3>3, <3>4, <3>5
  <2> HIDE DEF rs2, rs1
  <2>2. LiveOK(code, i + 1, rs2) /\ CallerOK(code, e2, rs2)
    BY <1>11, <1>12, <2>1 DEF LiveOK, Data, CallerOK
  <2>3. next = now
    BY <1>13, <1>14
  <2> HIDE DEF now
  <2>4. AllCounted(rs2, now, Objects(code))
    BY <1>6, <2>1 DEF AllCounted, Counted
  <2>5. CountOK(code, i + 1, e2, rs2)
    BY <2>3, <2>4, Zenon DEF CountOK, next, Then
  <2> QED
    BY <1>9, <1>10, <2>2, <2>5, Zenon DEF Data, e2, x, rs2, rs1
<1>15. ASSUME new # old PROVE Exact(rs1, more, Objects(code)) /\ DOMAIN rs1 = DOMAIN rs
  <2>1. now[new] = Now(new) /\ x \notin Now(new)
    BY <1>1, <1>13, <1>15
  <2>2. More(more, now, new, x)
    BY DEF More
  <2>3. Exact(rs, now, Objects(code))
    BY <1>6, <1>7 DEF Exact, Owned
  <2> HIDE DEF now, more
  <2> QED
    BY <2>1, <2>2, <2>3, Gained
<1>16. CASE new # old /\ old = Null
  <2>1. rs2 = rs1 /\ DOMAIN rs1 = DOMAIN rs
    BY <1>15, <1>16 DEF Released
  <2> HIDE DEF rs1, rs2
  <2>2. LiveOK(code, i + 1, rs2) /\ CallerOK(code, e2, rs2)
    BY <1>11, <1>12, <2>1 DEF LiveOK, Data, CallerOK
  <2>3. next = more
    <3>1. \A o \in Value : o # old
      BY <1>16, ValuesNatural
    <3>2. \A o \in Value : Then(o) = IF o = new THEN Now(o) \cup {x} ELSE Now(o)
      BY <1>13, <3>1
    <3> QED
      BY <3>2
  <2>4. AllCounted(rs2, more, Objects(code))
    BY <1>15, <1>16, <2>1, Zenon DEF Exact
  <2> HIDE DEF more
  <2>5. CountOK(code, i + 1, e2, rs2)
    BY <2>3, <2>4, Zenon DEF CountOK, next, Then
  <2> QED
    BY <1>9, <1>10, <2>2, <2>5, Zenon DEF Data, e2, x, rs2, rs1
<1>17. CASE new # old /\ old # Null
  <2>1. old \in DOMAIN rs /\ old \in Value
    BY <1>6, <1>17 DEF CountsOK
  <2>2. \A o \in Value : Now(o) \subseteq more[o]
    OBVIOUS
  <2>3. x \in more[old]
    BY <1>13, <1>17, <2>1
  <2>4. \A o \in Value : Then(o) = IF o = old THEN more[o] \ {x} ELSE more[o]
    BY <1>13, <1>17
  <2> HIDE DEF more
  <2>5. /\ LiveOK(code, i + 1, rs2) /\ CountOK(code, i + 1, e2, rs2)
        /\ CallerOK(code, e2, rs2)
    <3>1. Exact(rs1, more, Objects(code)) /\ DOMAIN rs1 = DOMAIN rs
      BY <1>15, <1>17
    <3> HIDE DEF rs1
    <3>2. Releases(code, i, e, rs, rs1, more, old, x, e2)
      BY <1>1, <1>12, <2>1, <2>2, <2>3, <2>4, <3>1 DEF Now, Then, Releases
    <3> QED
      BY <3>2, ReleaseKeeps
  <2> QED
    BY <1>9, <1>10, <2>5, Zenon DEF Data, e2, x, rs2, rs1
<1> QED
  BY <1>14, <1>16, <1>17
(* An instruction that does not write variables or values keeps them.      *)
LEMMA ReleasedData ==
  ASSUME NEW code, Program(code), NEW i \in 1 .. Len(code), NEW e, NEW vs, NEW rs,
         Typed(e, vs, rs), Data(code, i, e, vs, rs), code[i].op \in {"release", "release_var"},
         NEW o, o \in DOMAIN rs, NEW x, x \in OwnersAt(code, i, e, o),
         x \in Name \/ (x = o /\ ~Due(code, i + 1, "release", o) /\ o # Caller),
         x \notin Param,
         \A p \in Value : Dropped(code[i], e, p) = IF p = o THEN {x} ELSE {}
  PROVE  Data(code, i + 1, e, vs, Released(rs, o))
<1> DEFINE Now(p) == OwnersAt(code, i, e, p)
           now == [p \in Value |-> Now(p)]
<1>1. code[i].op # "null" /\ code[i].op \notin {"new", "load"} /\ code[i].op # "new"
  OBVIOUS
<1>2. EnvOK(code, i + 1, e) /\ ValsOK(code, i + 1, e, vs)
  BY <1>1, NextKeeps
<1>3. CountsOK(rs) /\ o \in Value
  BY DEF Typed, CountsOK
<1>4. Exact(rs, now, Objects(code))
  <2>1. AllCounted(rs, now, Objects(code)) /\ Objects(code) \subseteq Value
    BY DEF Data, CountOK, Objects
  <2>2. \A p \in Value : IsFiniteSet(Now(p))
    BY OwnersFinite
  <2> HIDE DEF Now
  <2> QED
    BY <1>3, <2>1, <2>2 DEF Exact, Owned
<1>5. \A p \in Value : OwnersAt(code, i + 1, e, p) = IF p = o THEN now[p] \ {x} ELSE now[p]
  <2> TAKE p \in Value
  <2>1. OwnersAt(code, i + 1, e, p) = Now(p) \ Dropped(code[i], e, p)
    BY OwnersNext
  <2>2. Dropped(code[i], e, p) = IF p = o THEN {x} ELSE {}
    OBVIOUS
  <2> HIDE DEF Now
  <2> QED
    BY <2>1, <2>2
<1>6. \A p \in Value : OwnersAt(code, i, e, p) \subseteq now[p]
  OBVIOUS
<1>7. x \in now[o]
  BY <1>3
<1> HIDE DEF now
<1>8. Releases(code, i, e, rs, rs, now, o, x, e)
  BY <1>1, <1>3, <1>4, <1>5, <1>6, <1>7 DEF Releases
<1>9. /\ LiveOK(code, i + 1, Released(rs, o)) /\ CountOK(code, i + 1, e, Released(rs, o))
      /\ CallerOK(code, e, Released(rs, o))
  BY <1>8, ReleaseKeeps
<1> QED
  BY <1>2, <1>9, Zenon DEF Data

(* The object of a `new` is in memory when its release comes.              *)
LEMMA ObjectReleaseKeeps ==
  ASSUME NEW code, Program(code), NEW i \in 1 .. Len(code), NEW e, NEW vs, NEW rs,
         Typed(e, vs, rs), Data(code, i, e, vs, rs), code[i].op = "release",
         NEW o, o = vs[code[i].on]
  PROVE  o \in DOMAIN rs /\ Data(code, i + 1, e, vs, Released(rs, o))
<1> DEFINE v == code[i].on
<1>1. v \in Value /\ Before(code, i, "new", v)
  <2>1. code[i] \in Instruction(1) /\ Placed(code, i)
    BY ElementOfSeq DEF Program, Final, Shape
  <2> QED
    BY <2>1 DEF Instruction, Operands, Placed
<1>2. Due(code, i, "release", v) /\ ~Due(code, i + 1, "release", v)
  BY NextInstruction, Once
<1>3. v # Caller
  BY <1>1, NeverCaller
<1>4. o = v
  BY <1>1 DEF Data, ValsOK
<1>5. v \in DOMAIN rs
  BY <1>1, <1>2 DEF Data, LiveOK
<1>6. v \in OwnersAt(code, i, e, v)
  BY <1>2 DEF OwnersAt
<1>7. v \notin Param
  BY <1>1, NamesAreNoValues
<1>8. \A p \in Value : Dropped(code[i], e, p) = IF p = v THEN {v} ELSE {}
  BY DEF Dropped
<1> HIDE DEF v
<1>9. Data(code, i + 1, e, vs, Released(rs, v))
  BY <1>2, <1>3, <1>5, <1>6, <1>7, <1>8, ReleasedData
<1> QED
  BY <1>4, <1>5, <1>9

(* A declared variable holds null or an object in memory when its release  *)
(* comes.                                                                  *)
LEMMA VariableReleaseKeeps ==
  ASSUME NEW code, Program(code), NEW i \in 1 .. Len(code), NEW e, NEW vs, NEW rs,
         Typed(e, vs, rs), Data(code, i, e, vs, rs), code[i].op = "release_var",
         NEW o, o = e[code[i].on]
  PROVE  /\ o # Garbage
         /\ o # Null /\ (o = Caller => Aliasless(code)) => o \in DOMAIN rs
         /\ o = Null \/ o \in DOMAIN rs => Data(code, i + 1, e, vs, Released(rs, o))
<1> DEFINE x == code[i].on
<1>1. x \in Local /\ x \in Name /\ Before(code, i, "null", x)
  <2>1. code[i] \in Instruction(1) /\ Placed(code, i)
    BY ElementOfSeq DEF Program, Final, Shape
  <2> QED
    BY <2>1 DEF Instruction, Operands, Placed, Name
<1>2. Due(code, i, "release_var", x)
  BY NextInstruction
<1>3. /\ e[x] # Garbage
      /\ e[x] # Null => x \notin Field /\ e[x] \in Value /\ x \in OwnersAt(code, i, e, e[x])
      /\ e[x] # Null /\ (e[x] = Caller => Aliasless(code)) => e[x] \in DOMAIN rs
  BY <1>1, <1>2, VariableHolds
<1>4. \A p \in Value : Dropped(code[i], e, p) = IF p = o THEN {x} ELSE {}
  BY DEF Dropped
<1>5. ASSUME o \in DOMAIN rs PROVE Data(code, i + 1, e, vs, Released(rs, o))
  <2>1. o # Null /\ x \notin Param
    <3>1. o \in Value
      BY <1>5 DEF Typed, CountsOK
    <3> QED
      BY <1>1, <3>1, ValuesNatural, NamesAreNoValues
  <2>2. x \in OwnersAt(code, i, e, o)
    BY <1>3, <2>1
  <2> HIDE DEF x
  <2> QED
    BY <1>1, <1>4, <1>5, <2>1, <2>2, ReleasedData
<1>6. ASSUME o = Null PROVE Data(code, i + 1, e, vs, Released(rs, o))
  <2>1. Released(rs, o) = rs
    BY <1>6 DEF Released
  <2>2. EnvOK(code, i + 1, e) /\ ValsOK(code, i + 1, e, vs) /\ LiveOK(code, i + 1, rs)
    BY NextKeeps
  <2>3. CountOK(code, i + 1, e, rs)
    <3>1. ASSUME NEW p \in Value PROVE OwnersAt(code, i + 1, e, p) = OwnersAt(code, i, e, p)
      <4>1. Dropped(code[i], e, p) = {}
        BY <1>4, <1>6, ValuesNatural
      <4>2. OwnersAt(code, i + 1, e, p) = OwnersAt(code, i, e, p) \ Dropped(code[i], e, p)
        BY OwnersNext
      <4> QED
        BY <4>1, <4>2
    <3>2. [p \in Value |-> OwnersAt(code, i + 1, e, p)] = [p \in Value |-> OwnersAt(code, i, e, p)]
      BY <3>1
    <3> QED
      BY <3>2, Zenon DEF Data, CountOK
  <2>4. CallerOK(code, e, rs)
    BY DEF Data
  <2> QED
    BY <2>1, <2>2, <2>3, <2>4, Zenon DEF Data
<1> QED
  BY <1>3, <1>5, <1>6

-----------------------------------------------------------------------------
(* A function without `if` runs.                                           *)

Running ==
  phase \in {"run", "returned"} /\ Plain =>
    /\ pc[1] = 1 /\ pc[2] \in 1 .. Len(blocks[1])
    /\ Program(blocks[1])
    /\ phase = "returned" => Current.op = "ret"
    /\ Data(blocks[1], pc[2], env, vals, refs)

(* How an instruction of such a function may end.                          *)
Continues == Advance /\ Data(blocks[1], pc[2] + 1, env', vals', refs')
Stops == phase' \in {"null", "freed_memory", "wild"} /\ (phase' = "null" \/ ~Aliasless(blocks[1]))
Returning == phase' = "returned" /\ Current.op = "ret" /\ UNCHANGED <<pc, env, vals, refs>>

LEMMA OneBlock ==
  ASSUME NEW bs, CodeOK(bs), Len(bs) = 1
  PROVE  UNION {Range(bs[b]) : b \in DOMAIN bs} = {bs[1][i] : i \in 1 .. Len(bs[1])}
<1>1. DOMAIN bs = {1} /\ bs[1] \in Seq(Instruction(1))
  <2>1. DOMAIN bs = 1 .. 1 /\ bs[1] \in Code(1)
    BY LenProperties, ElementOfSeq DEF CodeOK
  <2> QED
    BY <2>1 DEF Code
<1>2. DOMAIN bs[1] = 1 .. Len(bs[1])
  BY <1>1, LenProperties
<1> QED
  BY <1>1, <1>2 DEF Range

LEMMA Start ==
  ASSUME NEW code, Program(code)
  PROVE  Data(code, 1, [x \in Name |-> IF x \in Param THEN Caller
                                     ELSE IF x \in Field THEN Null ELSE Garbage],
              [v \in Value |-> Garbage], [o \in {Caller} |-> 0])
<1> DEFINE e == [x \in Name |-> IF x \in Param THEN Caller
                              ELSE IF x \in Field THEN Null ELSE Garbage]
           vs == [v \in Value |-> Garbage]
           rs == [o \in {Caller} |-> 0]
<1>1. \A op, on : ~Before(code, 1, op, on)
  BY LenProperties DEF Program, Before
<1>2. /\ \A x \in Param : e[x] = Caller
      /\ \A x \in Local : e[x] = Garbage
      /\ \A x \in Field : e[x] = Null
  BY NamesDisjoint DEF Name
<1>3. Garbage # Null /\ Garbage \notin Value /\ Caller \in Value
  BY ValuesNatural
<1>4. DOMAIN rs = {Caller} /\ rs[Caller] = 0
  OBVIOUS
<1> HIDE DEF e, rs
<1>5. EnvOK(code, 1, e)
  BY <1>1, <1>2, <1>3 DEF EnvOK
<1>6. ValsOK(code, 1, e, vs)
  BY <1>1 DEF ValsOK
<1>7. LiveOK(code, 1, rs)
  BY <1>1, <1>4 DEF LiveOK
<1>8. CountOK(code, 1, e, rs)
  <2>1. ASSUME NEW o \in Objects(code) PROVE Counted(rs, OwnersAt(code, 1, e, o), o)
    <3>1. o \in Value
      BY <2>1 DEF Objects
    <3>2. CASE o = Caller
      <4>1. ~Due(code, 1, "release", Caller)
        BY NeverCaller
      <4>2. OwnersAt(code, 1, e, Caller) = Param
        BY <1>2, <1>3, <4>1 DEF OwnersAt
      <4>3. Deficit(Caller) = Cardinality(Param) /\ Cardinality(Param) \in Nat
        BY FinitelyManyNames DEF Deficit
      <4> QED
        BY <1>4, <3>2, <4>2, <4>3 DEF Counted
    <3>3. CASE o # Caller
      BY <1>2, <1>3, <1>4, <3>1, <3>3, NamesAreNoValues DEF OwnersAt, Counted
    <3> QED
      BY <3>2, <3>3
  <2> QED
    BY <2>1 DEF CountOK, AllCounted, Objects
<1>9. CallerOK(code, e, rs)
  BY <1>2, <1>4 DEF CallerOK
<1> QED
  BY <1>5, <1>6, <1>7, <1>8, <1>9, Zenon DEF Data, e, vs, rs

LEMMA InRun ==
  ASSUME TypeInv, Running, phase = "run", Plain
  PROVE  /\ Program(blocks[1]) /\ pc[2] \in 1 .. Len(blocks[1]) /\ pc[1] = 1
         /\ Current = blocks[1][pc[2]]
         /\ Data(blocks[1], pc[2], env, vals, refs) /\ Typed(env, vals, refs)
<1>1. Typed(env, vals, refs)
  BY DEF TypeInv, Memory, Typed, CountsOK
<1> QED
  BY <1>1 DEF Running, Current

LEMMA NullRuns ==
  ASSUME TypeInv, Running, phase = "run", Plain, DoNull PROVE Continues
<1>1. Program(blocks[1]) /\ pc[2] \in 1 .. Len(blocks[1]) /\ Current = blocks[1][pc[2]]
      /\ Data(blocks[1], pc[2], env, vals, refs) /\ Typed(env, vals, refs)
  BY InRun
<1>2. /\ Current.op = "null" /\ Advance /\ UNCHANGED <<vals, refs>>
      /\ env' = [env EXCEPT ![Current.on] = Null]
  BY DEF DoNull, Execute
<1>3. Data(blocks[1], pc[2] + 1, [env EXCEPT ![blocks[1][pc[2]].on] = Null], vals, refs)
  BY <1>1, <1>2, NullKeeps
<1> QED
  BY <1>1, <1>2, <1>3, Zenon DEF Continues

LEMMA NewRuns ==
  ASSUME TypeInv, Running, phase = "run", Plain, DoNew PROVE Continues
<1> DEFINE code == blocks[1]
           i == pc[2]
<1>1. Program(code) /\ i \in 1 .. Len(code) /\ Current = code[i]
      /\ Data(code, i, env, vals, refs) /\ Typed(env, vals, refs)
  BY InRun
<1>2. /\ code[i].op = "new" /\ Advance /\ UNCHANGED env
      /\ vals' = [vals EXCEPT ![code[i].on] = code[i].on]
      /\ refs' = [o \in DOMAIN refs \cup {code[i].on} |-> IF o = code[i].on THEN 0 ELSE refs[o]]
  BY <1>1, Zenon DEF DoNew, Execute
<1> HIDE DEF code, i
<1>3. Data(code, i + 1, env, [vals EXCEPT ![code[i].on] = code[i].on], refs')
  BY <1>1, <1>2, NewKeeps
<1> QED
  BY <1>2, <1>3, Zenon DEF Continues, code, i

LEMMA LoadRuns ==
  ASSUME TypeInv, Running, phase = "run", Plain, DoLoad PROVE Continues
<1> DEFINE code == blocks[1]
           i == pc[2]
<1>1. Program(code) /\ i \in 1 .. Len(code) /\ Current = code[i]
      /\ Data(code, i, env, vals, refs) /\ Typed(env, vals, refs)
  BY InRun
<1>2. /\ code[i].op = "load" /\ Advance /\ UNCHANGED <<env, refs>>
      /\ vals' = [vals EXCEPT ![code[i].to] = env[code[i].on]]
  BY <1>1, Zenon DEF DoLoad, Execute
<1> HIDE DEF code, i
<1>3. Data(code, i + 1, env, [vals EXCEPT ![code[i].to] = env[code[i].on]], refs)
  BY <1>1, <1>2, LoadKeeps
<1> QED
  BY <1>2, <1>3, Zenon DEF Continues, code, i

LEMMA CallRuns ==
  ASSUME TypeInv, Running, phase = "run", Plain, DoCall PROVE Continues \/ Stops
<1> DEFINE code == blocks[1]
           i == pc[2]
           w == vals[code[i].on]
<1>1. Program(code) /\ i \in 1 .. Len(code) /\ Current = code[i]
      /\ Data(code, i, env, vals, refs) /\ Typed(env, vals, refs)
  BY InRun
<1>2. code[i].op \in {"init", "call"} /\ Use(w) /\ UNCHANGED <<env, vals, refs>>
  BY <1>1 DEF DoCall, Execute
<1> HIDE DEF code, i
<1>3. w \in Value \cup {Null} /\ (w # Null /\ (w = Caller => Aliasless(code)) => w \in DOMAIN refs)
  BY <1>1, <1>2, Usable
<1>4. Data(code, i + 1, env, vals, refs)
  <2>1. EnvOK(code, i + 1, env) /\ ValsOK(code, i + 1, env, vals) /\ LiveOK(code, i + 1, refs)
        /\ CountOK(code, i + 1, env, refs)
    BY <1>1, <1>2, NextKeeps
  <2>2. CallerOK(code, env, refs)
    BY <1>1 DEF Data
  <2> QED
    BY <2>1, <2>2, Zenon DEF Data
<1>5. w # Garbage
  BY <1>3, ValuesNatural
<1>6. CASE w = Null
  BY <1>2, <1>5, <1>6 DEF Use, Fail, Stops
<1>7. CASE w # Null /\ w \in DOMAIN refs
  <2>1. Advance
    BY <1>2, <1>5, <1>7 DEF Use, Live
  <2> QED
    BY <1>2, <1>4, <2>1, Zenon DEF Continues, code, i
<1>8. CASE w # Null /\ w \notin DOMAIN refs
  BY <1>2, <1>3, <1>5, <1>8 DEF Use, Live, Fail, Stops, code
<1> QED
  BY <1>6, <1>7, <1>8

LEMMA StoreRuns ==
  ASSUME TypeInv, Running, phase = "run", Plain, DoStore PROVE Continues \/ Stops
<1> DEFINE code == blocks[1]
           i == pc[2]
           x == code[i].to
           new == vals[code[i].on]
           old == env[x]
<1>1. Program(code) /\ i \in 1 .. Len(code) /\ Current = code[i]
      /\ Data(code, i, env, vals, refs) /\ Typed(env, vals, refs)
  BY InRun
<1>2. /\ code[i].op = "store" /\ UNCHANGED vals
      /\ IF Live(new) /\ (old = Null \/ Live(old))
         THEN /\ refs' = Released(Retained(refs, new), old)
              /\ env' = [env EXCEPT ![x] = new]
              /\ Advance
         ELSE Use(IF Live(new) THEN old ELSE new)
  BY <1>1 DEF DoStore, Execute
<1> HIDE DEF code, i
<1>3. new \in Value \cup {Null} /\ (new # Null /\ (new = Caller => Aliasless(code)) => new \in DOMAIN refs)
  BY <1>1, <1>2, Usable
<1>4. /\ old # Garbage
      /\ old # Null /\ (old = Caller => Aliasless(code)) => old \in DOMAIN refs
  <2>1. code[i] \in Instruction(1) /\ Grounded(code, i)
    BY <1>1, ElementOfSeq DEF Program, Final, Shape
  <2>2. x \in Name /\ (x \in Local => Before(code, i, "null", x))
    BY <1>2, <2>1 DEF Instruction, Operands, Grounded, Known
  <2>3. x \in Local => Due(code, i, "release_var", x)
    BY <1>1, <1>2, <2>2, StillDue
  <2> HIDE DEF x
  <2> QED
    BY <1>1, <2>2, <2>3, VariableHolds
<1>5. CASE Live(new) /\ (old = Null \/ Live(old))
  <2>1. Data(code, i + 1, [env EXCEPT ![x] = new], vals, Released(Retained(refs, new), old))
    BY <1>1, <1>2, <1>5, StoreKeeps DEF Live
  <2> QED
    BY <1>2, <1>5, <2>1, Zenon DEF Continues, code, i
<1>6. CASE ~(Live(new) /\ (old = Null \/ Live(old)))
  <2> DEFINE w == IF Live(new) THEN old ELSE new
  <2>1. Use(w) /\ w # Garbage /\ w \notin DOMAIN refs
    BY <1>2, <1>3, <1>4, <1>6, ValuesNatural DEF Live
  <2>2. w # Null => ~Aliasless(code)
    BY <1>3, <1>4, <1>6 DEF Live
  <2> HIDE DEF w
  <2> QED
    BY <2>1, <2>2 DEF Use, Live, Fail, Stops, code
<1> QED
  BY <1>5, <1>6

LEMMA ReleaseRuns ==
  ASSUME TypeInv, Running, phase = "run", Plain, DoRelease PROVE Continues \/ Stops
<1> DEFINE code == blocks[1]
           i == pc[2]
           o == IF code[i].op = "release" THEN vals[code[i].on] ELSE env[code[i].on]
<1>1. Program(code) /\ i \in 1 .. Len(code) /\ Current = code[i]
      /\ Data(code, i, env, vals, refs) /\ Typed(env, vals, refs)
  BY InRun
<1>2. /\ code[i].op \in {"release", "release_var"} /\ UNCHANGED <<env, vals>>
      /\ IF o = Null \/ Live(o) THEN refs' = Released(refs, o) /\ Advance ELSE Use(o)
  BY <1>1 DEF DoRelease, Execute
<1> HIDE DEF code, i
<1>3. /\ o # Garbage
      /\ o # Null /\ (o = Caller => Aliasless(code)) => o \in DOMAIN refs
      /\ o = Null \/ o \in DOMAIN refs => Data(code, i + 1, env, vals, Released(refs, o))
  <2>1. CASE code[i].op = "release"
    <3>1. o = vals[code[i].on]
      BY <2>1
    <3> HIDE DEF o
    <3>2. o \in DOMAIN refs /\ Data(code, i + 1, env, vals, Released(refs, o))
      BY <1>1, <2>1, <3>1, ObjectReleaseKeeps
    <3>3. o # Garbage
      BY <1>1, <3>2, ValuesNatural DEF Typed, CountsOK
    <3> QED
      BY <3>2, <3>3
  <2>2. CASE code[i].op = "release_var"
    <3>1. o = env[code[i].on]
      BY <2>2
    <3> HIDE DEF o
    <3> QED
      BY <1>1, <2>2, <3>1, VariableReleaseKeeps
  <2> QED
    BY <1>2, <2>1, <2>2
<1> HIDE DEF o
<1>4. CASE o = Null \/ Live(o)
  <2>1. Data(code, i + 1, env, vals, Released(refs, o))
    BY <1>3, <1>4 DEF Live
  <2> QED
    BY <1>2, <1>4, <2>1, Zenon DEF Continues, code, i
<1>5. CASE ~(o = Null \/ Live(o))
  BY <1>2, <1>3, <1>5 DEF Use, Live, Fail, Stops, code
<1> QED
  BY <1>4, <1>5

LEMMA RunStep ==
  ASSUME TypeInv, Running, phase = "run", Plain, Run PROVE Continues \/ Stops \/ Returning
<1>1. Program(blocks[1]) /\ pc[2] \in 1 .. Len(blocks[1]) /\ Current = blocks[1][pc[2]]
  BY InRun
<1>2. Current.op \notin {"plain_store", "br", "condbr"}
  BY <1>1 DEF Program, Final, Shape, Grounded
<1>3. ~DoPlainStore /\ ~DoBranch
  BY <1>2 DEF DoPlainStore, DoBranch, Execute
<1>4. ASSUME DoReturn PROVE Returning
  BY <1>4 DEF DoReturn, Execute, Returning
<1> QED
  BY <1>3, <1>4, NullRuns, NewRuns, LoadRuns, CallRuns, StoreRuns, ReleaseRuns DEF Run
LEMMA PlainCode ==
  ASSUME NEW bs, CodeOK(bs), Len(bs) = 1
  PROVE  /\ bs[1] \in Seq(Instruction(1))
         /\ \A op : (\A ins \in UNION {Range(bs[b]) : b \in DOMAIN bs} : ins.op # op) <=>
                    \A i \in 1 .. Len(bs[1]) : bs[1][i].op # op
         /\ (\A ins \in UNION {Range(bs[b]) : b \in DOMAIN bs} : ins.op = "store" => ins.to \notin Param)
              <=> Kept(bs[1])
<1>1. bs[1] \in Seq(Instruction(1))
  BY ElementOfSeq DEF CodeOK, Code
<1>2. UNION {Range(bs[b]) : b \in DOMAIN bs} = {bs[1][i] : i \in 1 .. Len(bs[1])}
  BY OneBlock
<1> QED
  BY <1>1, <1>2 DEF Kept

LEMMA InitRuns == Init => Running /\ SafeIfPlain
  BY DEF Init, Running, SafeIfPlain, MemorySafe

(* The function starts as it was generated, ...                            *)
LEMMA Starts ==
  ASSUME TypeInv, TypeInv', Drafts, EndFunction PROVE Running' /\ SafeIfPlain'
<1>1. /\ phase = "generate" /\ phase' \in {"run", "malformed"} /\ UNCHANGED <<pc, env, vals, refs>>
  BY DEF EndFunction, machine
<1>2. SafeIfPlain'
  BY <1>1 DEF SafeIfPlain, MemorySafe
<1>3. Running'
  <2> SUFFICES ASSUME phase' = "run", Plain'
               PROVE  /\ pc'[1] = 1 /\ pc'[2] \in 1 .. Len(blocks'[1])
                      /\ Program(blocks'[1])
                      /\ Data(blocks'[1], pc'[2], env', vals', refs')
    BY <1>1 DEF Running
  <2>1. CodeOK(blocks') /\ Len(blocks') = 1
    BY DEF TypeInv, Plain
  <2>2. \A i \in 1 .. Len(blocks'[1]) : blocks'[1][i].op # "plain_store"
    BY <2>1, PlainCode DEF Plain, Instructions
  <2>3. Program(blocks'[1])
    BY <2>1, <2>2, PlainCode, EndsFinal DEF Program
  <2>4. Untouched
    BY <1>1 DEF TypeInv
  <2>5. pc'[1] = 1 /\ pc'[2] = 1
    BY <1>1, <2>4 DEF Untouched
  <2>6. pc'[2] \in 1 .. Len(blocks'[1])
    BY <2>5 DEF TypeInv
  <2>7. Data(blocks'[1], 1, env', vals', refs')
    BY <1>1, <2>3, <2>4, Start, Zenon DEF Untouched
  <2> QED
    BY <2>3, <2>5, <2>6, <2>7
<1> QED
  BY <1>2, <1>3

(* ... no other step of the compiler starts it, ...                        *)
LEMMA Waits ==
  ASSUME Generate, ~EndFunction
  PROVE  phase = "generate" /\ phase' \in {"generate", "crashed"}
<1>1. Statement => phase = "generate" /\ phase' = phase
  BY DEF Statement
<1>2. ReturnStatement => phase = "generate" /\ phase' = phase
  BY DEF ReturnStatement
<1>3. ASSUME \E x \in Name : Declare(x) \/ AssignNew(x) \/ CallWith(x) \/ ReturnVariable(x)
      PROVE  phase = "generate" /\ phase' = phase
  BY <1>1, <1>2, <1>3 DEF Declare, AssignNew, CallWith, ReturnVariable
<1>4. ASSUME \E x, y \in Name : Assign(x, y) PROVE phase = "generate" /\ phase' = phase
  BY <1>1, <1>4 DEF Assign
<1>5. ASSUME CallNew \/ ReturnInteger \/ ReturnNew PROVE phase = "generate" /\ phase' = phase
  BY <1>1, <1>2, <1>5 DEF CallNew, ReturnInteger, ReturnNew
<1>6. ASSUME BeginThen PROVE phase = "generate" /\ phase' = phase
  BY <1>1, <1>6 DEF BeginThen
<1>7. ASSUME BeginElse PROVE phase = "generate" /\ phase' = phase
  BY <1>7 DEF BeginElse
<1>8. ASSUME EndIf PROVE phase = "generate" /\ phase' = phase
  BY <1>8, Zenon DEF EndIf
<1>9. ASSUME Crash \/ BranchIsNoBlock PROVE phase = "generate" /\ phase' = "crashed"
  BY <1>9 DEF Crash, BranchIsNoBlock
<1> QED
  BY <1>3, <1>4, <1>5, <1>6, <1>7, <1>8, <1>9 DEF Generate

(* ... and each instruction keeps what holds of it.                        *)
LEMMA Runs ==
  ASSUME TypeInv, TypeInv', Running, SafeIfPlain, Run PROVE Running' /\ SafeIfPlain'
<1>1. phase = "run" /\ UNCHANGED <<budget, declared, values, blocks, scopes>>
  BY DEF Run, DoNull, DoNew, DoLoad, DoCall, DoStore, DoPlainStore, DoRelease, DoBranch,
         DoReturn, Execute, generator
<1>2. Plain' = Plain
  BY <1>1 DEF Plain, Instructions
<1>3. CASE ~Plain
  BY <1>2, <1>3 DEF Running, SafeIfPlain
<1>4. CASE Plain
  <2>1. CASE Continues
    <3>1. phase' = "run" /\ pc' = <<pc[1], pc[2] + 1>>
          /\ Data(blocks[1], pc[2] + 1, env', vals', refs')
      BY <1>1, <2>1 DEF Continues, Advance
    <3>2. pc[1] = 1 /\ Program(blocks[1])
      BY <1>1, <1>4 DEF Running
    <3>3. pc'[1] = 1 /\ pc'[2] = pc[2] + 1 /\ blocks' = blocks
      BY <1>1, <3>1, <3>2
    <3>4. pc'[2] \in 1 .. Len(blocks'[1])
      BY <3>1, <3>3 DEF TypeInv
    <3>5. Running'
      BY <3>1, <3>2, <3>3, <3>4 DEF Running
    <3>6. SafeIfPlain'
      BY <3>1 DEF SafeIfPlain, MemorySafe
    <3> QED
      BY <3>5, <3>6
  <2>2. CASE Stops
    <3>1. Running'
      BY <2>2 DEF Stops, Running
    <3>2. (ParametersKept \/ Cardinality(Param) <= 1) <=> Aliasless(blocks[1])
      <4>1. CodeOK(blocks) /\ Len(blocks) = 1
        BY <1>4 DEF TypeInv, Plain
      <4>2. ParametersKept <=> Kept(blocks[1])
        BY <4>1, PlainCode, Zenon DEF ParametersKept, Instructions
      <4> QED
        BY <4>2 DEF Aliasless
    <3>3. ParametersKept' = ParametersKept
      BY <1>1 DEF ParametersKept, Instructions
    <3>4. SafeIfPlain'
      BY <2>2, <3>2, <3>3 DEF Stops, SafeIfPlain, MemorySafe
    <3> QED
      BY <3>1, <3>4
  <2>3. CASE Returning
    <3>1. Running'
      BY <1>1, <1>4, <2>3 DEF Returning, Running, Current
    <3>2. SafeIfPlain'
      BY <2>3 DEF Returning, SafeIfPlain, MemorySafe
    <3> QED
      BY <3>1, <3>2
  <2> QED
    BY <1>1, <1>4, <2>1, <2>2, <2>3, RunStep
<1> QED
  BY <1>3, <1>4

Inv == TypeInv /\ Drafts /\ Running /\ SafeIfPlain

LEMMA Inductive == Inv /\ [Next]_vars => Inv'
<1> SUFFICES ASSUME Inv, [Next]_vars PROVE Inv'
  OBVIOUS
<1>1. TypeInv /\ Drafts /\ Running /\ SafeIfPlain
  BY DEF Inv
<1>2. TypeInv'
  BY <1>1, NextTypes
<1>3. Drafts'
  BY <1>1, <1>2, DraftsFollow
<1>4. Running' /\ SafeIfPlain'
  <2>1. CASE EndFunction
    BY <1>1, <1>2, <2>1, Starts
  <2>2. CASE Generate /\ ~EndFunction
    <3>1. phase' \in {"generate", "crashed"}
      BY <2>2, Waits
    <3> QED
      BY <3>1 DEF Running, SafeIfPlain, MemorySafe
  <2>3. CASE Run
    BY <1>1, <1>2, <2>3, Runs
  <2>4. CASE Stopped \/ UNCHANGED vars
    <3>1. UNCHANGED <<phase, blocks, pc, env, vals, refs>>
      BY <2>4 DEF Stopped, vars, generator, machine
    <3> QED
      BY <1>1, <3>1 DEF Running, SafeIfPlain, MemorySafe, Plain, ParametersKept, Instructions, Current
  <2> QED
    BY <2>1, <2>2, <2>3, <2>4 DEF Next
<1> QED
  BY <1>2, <1>3, <1>4 DEF Inv

LEMMA InvAlways == Spec => []Inv
<1>1. Init => Inv
  BY InitTypes, InitDrafts, InitRuns DEF Inv
<1> QED
  BY <1>1, Inductive, PTL DEF Spec

-----------------------------------------------------------------------------
(* What the function promises when it ends.                                *)

LEMMA Pendings ==
  ASSUME TypeInv, Running, phase \in {"run", "returned"}, Plain
  PROVE  \A o : OwnersOf(o) = OwnersAt(blocks[1], pc[2], env, o)
<1> DEFINE code == blocks[1]
           i == pc[2]
<1>1. code \in Seq(Instruction(1))
  BY DEF Running, Program
<1>2. DOMAIN code = 1 .. Len(code) /\ i \in 1 .. Len(code) /\ Len(code) \in Nat
  BY <1>1, LenProperties DEF Running
<1>3. \A j \in 1 .. Len(code) : code[j] \in Instruction(1)
  BY <1>1, ElementOfSeq
<1> HIDE DEF code, i
<1>4. \A j \in 1 .. Len(code) : j >= i <=> i <= j
  BY <1>2
<1>5. ASSUME NEW op \in {"release", "release_var"}, NEW on, NEW j \in 1 .. Len(code)
      PROVE  code[j] = I(op, on, Null) <=> code[j].op = op /\ code[j].on = on
  <2>1. code[j] \in Instruction(1)
    BY <1>3
  <2>2. I(op, on, Null).op = op /\ I(op, on, Null).on = on
    BY DEF I
  <2>3. code[j].op = op => code[j] = I(op, code[j].on, Null)
    BY <2>1 DEF Instruction, Operands, I
  <2> QED
    BY <2>2, <2>3
<1>6. \A op \in {"release", "release_var"} : \A on :
        Pending(I(op, on, Null)) <=> Due(code, i, op, on)
  <2> TAKE op \in {"release", "release_var"}
  <2> TAKE on
  <2>1. Pending(I(op, on, Null)) <=> \E j \in 1 .. Len(code) : j >= i /\ code[j] = I(op, on, Null)
    BY <1>2 DEF Pending, code, i
  <2> QED
    BY <1>4, <1>5, <2>1 DEF Due
<1>7. /\ \A x : Pending(I("release_var", x, Null)) <=> Due(code, i, "release_var", x)
      /\ \A v : Pending(I("release", v, Null)) <=> Due(code, i, "release", v)
  BY <1>6
<1> QED
  BY <1>7 DEF OwnersOf, OwnersAt, code, i

(* Nothing is to be released when the function returns.                    *)
LEMMA AtReturn ==
  ASSUME TypeInv, Running, phase = "returned", Plain
  PROVE  /\ \A o : OwnersAt(blocks[1], pc[2], env, o) = {x \in Param : env[x] = o}
         /\ Data(blocks[1], pc[2], env, vals, refs)
         /\ ParametersKept => Kept(blocks[1])
<1> DEFINE code == blocks[1]
           i == pc[2]
<1>1. /\ Program(code) /\ code[i].op = "ret" /\ i \in 1 .. Len(code)
      /\ Data(code, i, env, vals, refs)
  BY DEF Running, Current
<1>2. CodeOK(blocks) /\ Len(blocks) = 1
  BY DEF TypeInv, Plain
<1>3. ParametersKept => Kept(code)
  BY <1>2, PlainCode, Zenon DEF ParametersKept, Instructions
<1> HIDE DEF code, i
<1>4. i = Len(code) /\ Len(code) \in Nat
  BY <1>1, LenProperties DEF Program, Final, Shape, Grounded
<1>5. \A j \in 1 .. Len(code) : i <= j => j = i
  BY <1>4
<1>6. \A on : ~Due(code, i, "release_var", on) /\ ~Due(code, i, "release", on)
  BY <1>1, <1>5 DEF Due
<1>7. \A o : OwnersAt(code, i, env, o) = {x \in Param : env[x] = o}
  BY <1>6 DEF OwnersAt
<1> QED
  BY <1>1, <1>3, <1>7 DEF code, i

LEMMA CountsFollow == Inv => CountsAreOwners
<1> SUFFICES ASSUME Inv, phase = "run", Plain, NEW o \in DOMAIN refs \ {Caller}
             PROVE  refs[o] = Cardinality(OwnersOf(o)) - 1
  BY DEF CountsAreOwners
<1>1. TypeInv /\ Running
  BY DEF Inv
<1>2. o \in Objects(blocks[1])
  BY <1>1 DEF TypeInv, Memory, Objects
<1>3. Counted(refs, OwnersAt(blocks[1], pc[2], env, o), o)
  <2>1. AllCounted(refs, [p \in Value |-> OwnersAt(blocks[1], pc[2], env, p)], Objects(blocks[1]))
    BY <1>1 DEF Running, Data, CountOK
  <2> QED
    BY <1>2, <2>1 DEF AllCounted, Objects
<1>4. OwnersOf(o) = OwnersAt(blocks[1], pc[2], env, o)
  BY <1>1, Pendings
<1> QED
  BY <1>3, <1>4 DEF Counted, Deficit

LEMMA ReturnFrees == Inv => NothingLeaks /\ CallerKeepsItsObject
<1> SUFFICES ASSUME Inv, phase = "returned", Plain, ParametersKept
             PROVE  DOMAIN refs \subseteq {Caller} /\ Caller \in DOMAIN refs /\ refs[Caller] = 0
  BY DEF NothingLeaks, CallerKeepsItsObject, Live
<1> DEFINE code == blocks[1]
           Own(o) == OwnersAt(code, pc[2], env, o)
<1>1. TypeInv /\ Running
  BY DEF Inv
<1>2. /\ \A o : Own(o) = {x \in Param : env[x] = o}
      /\ Data(code, pc[2], env, vals, refs) /\ Kept(code)
  BY <1>1, AtReturn
<1>3. Caller \in DOMAIN refs /\ \A p \in Param : env[p] = Caller
  BY <1>2 DEF Data, CallerOK
<1>4. DOMAIN refs \subseteq Value /\ refs \in [DOMAIN refs -> Nat]
  BY <1>1 DEF TypeInv, Memory
<1>5. ASSUME NEW o \in DOMAIN refs PROVE refs[o] = Cardinality(Own(o)) - Deficit(o)
  <2>1. o \in Value /\ o \in Objects(code)
    BY <1>2, <1>4 DEF Objects, Aliasless
  <2> QED
    BY <1>2, <2>1 DEF Data, CountOK, AllCounted, Counted
<1>6. Own(Caller) = Param
  BY <1>2, <1>3
<1>7. refs[Caller] = 0
  BY <1>3, <1>5, <1>6, FinitelyManyNames DEF Deficit
<1>8. ASSUME NEW o \in DOMAIN refs, o # Caller PROVE FALSE
  <2>1. Own(o) = {}
    BY <1>2, <1>3, <1>8
  <2>2. Cardinality(Own(o)) = 0
    BY <2>1, FS_EmptySet
  <2>3. refs[o] = 0 - 1
    BY <1>5, <1>8, <2>2 DEF Deficit
  <2>4. refs[o] \in Nat
    BY <1>4
  <2> QED
    BY <2>3, <2>4
<1> QED
  BY <1>3, <1>7, <1>8

(* A function without `if` and without an assignment from a field, of any  *)
(* length, with any variables and any parameters (at most one if it        *)
(* assigns to a parameter), never reaches an object that has been freed or *)
(* a variable that was not written: the places that the cleanups choose    *)
(* for their releases are late enough.                                     *)
THEOREM ReleasesAreLate == Spec => []SafeIfPlain
<1>1. Inv => SafeIfPlain
  BY DEF Inv
<1> QED
  BY <1>1, InvAlways, PTL

(* In such a function, at every instruction, the count of every object     *)
(* that it created is one less than the number of its owners: no path of   *)
(* stp_retain, stp_release and stp_storeStrong calls counts one too many   *)
(* or too few.                                                             *)
THEOREM CountsExact == Spec => []CountsAreOwners
  BY InvAlways, CountsFollow, PTL

(* When such a function has returned, and did not assign to its            *)
(* parameters, everything that it created is freed.                        *)
THEOREM EverythingFreed == Spec => []NothingLeaks
<1>1. Inv => NothingLeaks
  BY ReturnFrees
<1> QED
  BY <1>1, InvAlways, PTL

(* ... and the object of its caller is in memory, with the count that the  *)
(* caller left on it, however often the function stored it in variables.   *)
THEOREM CallerUnharmed == Spec => []CallerKeepsItsObject
<1>1. Inv => CallerKeepsItsObject
  BY ReturnFrees
<1> QED
  BY <1>1, InvAlways, PTL

-----------------------------------------------------------------------------
(* Basic blocks that nothing ends yet, and those that their last           *)
(* instruction ends.                                                       *)
Ending == {"ret", "br", "condbr"}
Unended(code) == \A i \in 1 .. Len(code) : code[i].op \notin Ending
Terminated(code) ==
  Len(code) >= 1 /\ \A i \in 1 .. Len(code) : code[i].op \in Ending <=> i = Len(code)

LEMMA WellFormedBlocks ==
  ASSUME NEW bs, CodeOK(bs), \A b \in 1 .. Len(bs) : Terminated(bs[b])
  PROVE  WellFormedModule(bs)
<1>1. DOMAIN bs = 1 .. Len(bs)
  BY LenProperties DEF CodeOK
<1> SUFFICES ASSUME NEW b \in 1 .. Len(bs) PROVE Terminators(bs[b]) = {Len(bs[b])}
  BY <1>1 DEF WellFormedModule
<1> DEFINE code == bs[b]
           k == Len(code)
<1>2. k \in Nat /\ DOMAIN code = 1 .. k
  <2>1. code \in Code(Len(bs))
    BY ElementOfSeq DEF CodeOK
  <2> QED
    BY <2>1, LenProperties DEF Code
<1>3. k >= 1 /\ \A i \in 1 .. k : code[i].op \in Ending <=> i = k
  BY DEF Terminated
<1> HIDE DEF k
<1>4. k \in 1 .. k
  BY <1>2, <1>3
<1>5. Terminators(code) = {k}
  <2> HIDE DEF code
  <2> QED
    BY <1>2, <1>3, <1>4 DEF Terminators, Ending
<1> QED
  BY <1>5 DEF k

(* A release ends no block, and leaves the last instruction the last.      *)
LEMMA ReleaseEndsNothing ==
  ASSUME NEW S, NEW old \in Seq(S), NEW new \in Seq(S), NEW m, m = Len(old),
         NEW n \in 0 .. m, NEW ins, Inserted(new, old, n, ins), ins.op \notin Ending
  PROVE  /\ Unended(old) => Unended(new)
         /\ Terminated(old) /\ n < Len(old) =>
              Terminated(new) /\ new[Len(new)] = old[Len(old)]
<1>1. m \in Nat /\ Len(new) = m + 1
  BY LenProperties DEF Inserted
<1>2. /\ \A i \in 1 .. m : new[Shift(n, i)] = old[i]
      /\ \A k \in 1 .. m + 1 : k = n + 1 \/ \E i \in 1 .. m : k = Shift(n, i)
      /\ new[n + 1] = ins
  <2>1. \A i \in 1 .. m : /\ Shift(n, i) \in 1 .. m + 1 /\ Shift(n, i) # n + 1
                          /\ new[Shift(n, i)] = old[i]
                          /\ (Shift(n, i) < n + 1 <=> i <= n)
                          /\ (n + 1 < Shift(n, i) <=> n < i)
    BY <1>1, Shifted
  <2>2. \A k \in 1 .. m + 1 : k = n + 1 \/ \E i \in 1 .. m : k = Shift(n, i)
    BY <1>1, Shifted, ZenonT(60)
  <2> QED
    BY <2>1, <2>2 DEF Inserted
<1>3. \A k \in 1 .. m + 1 : new[k] = ins \/ \E i \in 1 .. m : k = Shift(n, i) /\ new[k] = old[i]
  BY <1>2
<1>4. Unended(old) => Unended(new)
  BY <1>1, <1>3 DEF Unended
<1>5. ASSUME Terminated(old), n < m
      PROVE  Terminated(new) /\ new[m + 1] = old[m]
  <2>1. m >= 1 /\ \A i \in 1 .. m : old[i].op \in Ending <=> i = m
    BY <1>1, <1>5 DEF Terminated
  <2>2. new[m + 1] = old[m] /\ old[m].op \in Ending
    <3>1. m \in 1 .. m /\ Shift(n, m) = m + 1
      BY <1>1, <1>5, <2>1 DEF Shift
    <3> QED
      BY <1>2, <2>1, <3>1
  <2>3. ASSUME NEW k \in 1 .. m + 1, k # m + 1 PROVE new[k].op \notin Ending
    <3>1. CASE k = n + 1
      BY <1>2, <3>1
    <3>2. CASE \E i \in 1 .. m : k = Shift(n, i)
      <4>1. PICK i \in 1 .. m : k = Shift(n, i)
        BY <3>2
      <4>2. i # m
        BY <1>1, <1>5, <2>3, <4>1 DEF Shift
      <4> QED
        BY <1>2, <2>1, <4>1, <4>2
    <3> QED
      BY <1>2, <3>1, <3>2
  <2>4. m + 1 >= 1
    BY <1>1
  <2> QED
    BY <1>1, <2>2, <2>3, <2>4 DEF Terminated
<1> QED
  BY <1>1, <1>4, <1>5

(* The releases that end a scope are all put in front of the ends of their *)
(* blocks, if no object is last used by the end of its block.              *)
LEMMA CleanupsEndNothing ==
  ASSUME CodeOK(blocks), Scope \in Scopes, ScopeOK(Scope, blocks), ~NoPlaceForRelease
  PROVE  \A b \in 1 .. Len(blocks) :
           /\ Unended(blocks[b]) => Unended(doCleanup[b])
           /\ Terminated(blocks[b]) => Terminated(doCleanup[b])
<1> DEFINE cs == Scope.cleanups
           n == Len(cs)
           m == Len(blocks)
           KeptEnd(new, old) == Terminated(new) /\ new[Len(new)] = old[Len(old)]
           P(bs) ==
             \A b \in 1 .. m : /\ Unended(blocks[b]) => Unended(bs[b])
                               /\ Terminated(blocks[b]) => KeptEnd(bs[b], blocks[b])
           T(f) == {k \in Nat : k <= n => P(f[k])}
<1>1. n \in Nat /\ \A i \in 1 .. n : cs[i] \in Cleanups
  <2>1. cs \in Seq(Cleanups)
    BY DEF Scopes
  <2> HIDE DEF cs
  <2> QED
    BY <2>1, LenProperties, ElementOfSeq
<1>2. PICK f : CleansThrough(f)
  BY CleanupLoop
<1>3. 0 \in T(f)
  BY <1>2 DEF CleansThrough
<1>4. ASSUME NEW k \in Nat, k \in T(f) PROVE k + 1 \in T(f)
  <2> SUFFICES ASSUME k + 1 <= n, NEW b \in 1 .. m
               PROVE  /\ Unended(blocks[b]) => Unended(f[k + 1][b])
                      /\ Terminated(blocks[b]) => KeptEnd(f[k + 1][b], blocks[b])
    OBVIOUS
  <2> DEFINE c == cs[k + 1]
             old == f[k][b]
             new == f[k + 1][b]
  <2>1. k + 1 \in 1 .. n /\ k \in 0 .. n /\ k + 1 \in 0 .. n /\ (k + 1) - 1 = k /\ k <= n
    BY <1>1
  <2>2. /\ CodeOK(f[k]) /\ Len(f[k]) = m /\ Keeps(blocks, f[k])
        /\ CodeOK(f[k + 1]) /\ Len(f[k + 1]) = m
    BY <1>2, <2>1 DEF CleansThrough
  <2>3. f[k + 1] = scopeOut(f[k], c)
    BY <1>2, <2>1 DEF CleansThrough
  <2>4. CleanupOK(c, f[k]) /\ c \in Cleanups /\ CleanupOK(c, blocks)
    <3>1. CleanupOK(c, blocks)
      BY <2>1 DEF ScopeOK
    <3> HIDE DEF cs, n
    <3> QED
      BY <1>1, <2>1, <2>2, <3>1, KeepsMore, Zenon
  <2>5. c.kind = "object" => getLastUsage(blocks[c.bb], c.on) # Len(blocks[c.bb])
    <3>1. c \in Range(cs)
      <4>1. cs \in Seq(Cleanups)
        BY DEF Scopes
      <4>2. DOMAIN cs = 1 .. n
        BY <4>1, LenProperties
      <4> QED
        BY <2>1, <4>2 DEF Range
    <3> QED
      BY <3>1 DEF NoPlaceForRelease
  <2> HIDE DEF c
  <2>6. /\ Unended(blocks[b]) => Unended(old)
        /\ Terminated(blocks[b]) => KeptEnd(old, blocks[b])
    <3>1. P(f[k])
      <4> HIDE DEF P, n
      <4> QED
        BY <1>4, <2>1, Zenon
    <3> QED
      BY <3>1
  <2>7. CASE b # c.bb
    <3>1. new = old
      BY <2>2, <2>3, <2>4, <2>7, ScopedOut
    <3> HIDE DEF new, old
    <3> QED
      BY <2>6, <3>1 DEF new
  <2>8. CASE b = c.bb
    <3> DEFINE S == Instruction(m)
    <3>1. Place(old, c) \in 0 .. Len(old) /\ Inserted(new, old, Place(old, c), Insert(c))
      BY <2>2, <2>3, <2>4, <2>8, ScopedOut
    <3>2. old \in Seq(S) /\ new \in Seq(S) /\ blocks[b] \in Seq(S)
      BY <2>2, ElementOfSeq DEF CodeOK, Code
    <3>3. Insert(c).op \notin Ending
      BY DEF Insert, I, Ending
    <3>4. ASSUME Terminated(blocks[b]), KeptEnd(old, blocks[b]) PROVE Place(old, c) < Len(old)
      <4>1. Len(old) \in Nat /\ Len(old) >= 1
        BY <3>2, <3>4, LenProperties DEF Terminated
      <4>2. CASE c.kind # "object"
        BY <4>1, <4>2 DEF Place
      <4>3. CASE c.kind = "object"
        <5> DEFINE code == blocks[b]
        <5>1. Users(code, c.on) # {} /\ Users(old, c.on) # {}
          BY <2>4, <2>8, <4>3 DEF CleanupOK
        <5>2. Len(code) \notin Users(code, c.on)
          <6>1. /\ getLastUsage(code, c.on) \in Users(code, c.on)
                /\ \A j \in Users(code, c.on) : j <= getLastUsage(code, c.on)
            BY <3>2, <5>1, LastUsage
          <6>2. getLastUsage(code, c.on) \in 1 .. Len(code) /\ Len(code) \in Nat
            BY <3>2, <6>1, LenProperties DEF Users
          <6>3. getLastUsage(code, c.on) # Len(code)
            BY <2>5, <2>8, <4>3
          <6> QED
            BY <6>1, <6>2, <6>3
        <5>3. Len(old) \notin Users(old, c.on)
          <6>1. DOMAIN old = 1 .. Len(old) /\ DOMAIN code = 1 .. Len(code)
            BY <3>2, LenProperties
          <6>2. Len(code) \in 1 .. Len(code)
            <7> DEFINE size == Len(code)
            <7>1. size \in Nat
              BY <3>2, LenProperties
            <7>2. size >= 1
              BY <3>4 DEF Terminated
            <7> HIDE DEF size
            <7>3. size \in 1 .. size
              BY <7>1, <7>2
            <7> QED
              BY <7>3 DEF size
          <6>3. old[Len(old)] = code[Len(code)]
            BY <3>4
          <6> QED
            BY <5>2, <6>1, <6>2, <6>3 DEF Users
        <5>4. getLastUsage(old, c.on) \in Users(old, c.on)
          BY <3>2, <5>1, LastUsage
        <5>5. getLastUsage(old, c.on) \in 1 .. Len(old)
          BY <3>2, <5>4, LenProperties DEF Users
        <5> HIDE DEF old
        <5> QED
          BY <4>1, <4>3, <5>3, <5>4, <5>5 DEF Place
      <4> QED
        BY <4>2, <4>3
    <3> HIDE DEF old, new, S
    <3>5. /\ Unended(old) => Unended(new)
          /\ Terminated(old) /\ Place(old, c) < Len(old) =>
               Terminated(new) /\ new[Len(new)] = old[Len(old)]
      BY <3>1, <3>2, <3>3, ReleaseEndsNothing
    <3> QED
      BY <2>6, <3>4, <3>5 DEF new
  <2> QED
    BY <2>7, <2>8
<1>5. n \in T(f)
  <2> HIDE DEF T, n
  <2> QED
    BY <1>1, <1>3, <1>4, SetInduction
<1>6. doCleanup = f[n]
  BY <1>2 DEF CleansThrough
<1>7. P(f[n])
  <2>1. n <= n
    BY <1>1
  <2> HIDE DEF P, n
  <2> QED
    BY <1>5, <2>1, Zenon
<1> QED
  BY <1>6, <1>7

-----------------------------------------------------------------------------
(* What is open while a function without nested `if`s is generated.        *)

Structured == MaxNesting <= 1 /\ Returned \cap {"nothing", "in_if"} = {}

(* The blocks that something will still be appended to.                    *)
OpenBlocks ==
  IF Len(scopes) = 1
  THEN IF scopes[1].closed THEN {} ELSE {scopes[1].bb}
  ELSE {scopes[1].bb, scopes[2].bb, scopes[2].then}

Nested ==
  \/ Len(scopes) = 1
  \/ /\ Len(scopes) = 2
     /\ ~scopes[1].closed /\ ~scopes[2].closed
     /\ scopes[2].first = scopes[2].bb
     /\ scopes[1].bb \notin {scopes[2].bb, scopes[2].then}
     /\ scopes[2].kind # "function"
     /\ scopes[2].kind = "then" <=> scopes[2].then = scopes[2].bb

EndsAre(bs, open) ==
  \A b \in 1 .. Len(bs) : IF b \in open THEN Unended(bs[b]) ELSE Terminated(bs[b])

BlocksInv ==
  /\ phase # "malformed"
  /\ phase = "generate" => Nested /\ EndsAre(blocks, OpenBlocks)

(* What is appended to a block ends it if it ends with a terminator.       *)
LEMMA Lengthened ==
  ASSUME NEW S, NEW code \in Seq(S), NEW t \in Seq(S), Unended(code)
  PROVE  /\ Unended(t) => Unended(code \o t)
         /\ Terminated(t) => Terminated(code \o t)
<1> DEFINE m == Len(code)
           k == Len(t)
           r == code \o t
<1>1. /\ m \in Nat /\ k \in Nat /\ Len(r) = m + k
      /\ \A i \in 1 .. m : r[i] = code[i]
      /\ \A i \in 1 .. k : r[m + i] = t[i]
  BY Joined, LenProperties
<1>2. \A i \in 1 .. m : code[i].op \notin Ending
  BY DEF Unended
<1> HIDE DEF m, k, r
<1>3. \A j \in 1 .. m + k : j \in 1 .. m \/ \E i \in 1 .. k : j = m + i
  <2> TAKE j \in 1 .. m + k
  <2>1. j \in 1 .. m \/ (j - m \in 1 .. k /\ j = m + (j - m))
    BY <1>1
  <2> QED
    BY <2>1
<1>4. ASSUME Unended(t) PROVE Unended(r)
  <2>1. \A i \in 1 .. k : t[i].op \notin Ending
    BY <1>4 DEF Unended, k
  <2>2. \A j \in 1 .. m + k : r[j].op \notin Ending
    BY <1>1, <1>2, <1>3, <2>1
  <2> QED
    BY <1>1, <2>2 DEF Unended
<1>5. ASSUME Terminated(t) PROVE Terminated(r)
  <2>1. k >= 1 /\ \A i \in 1 .. k : t[i].op \in Ending <=> i = k
    BY <1>5 DEF Terminated, k
  <2>2. ASSUME NEW j \in 1 .. m + k PROVE r[j].op \in Ending <=> j = m + k
    <3>1. CASE j \in 1 .. m
      BY <1>1, <1>2, <2>1, <3>1
    <3>2. CASE \E i \in 1 .. k : j = m + i
      <4>1. PICK i \in 1 .. k : j = m + i
        BY <3>2
      <4>2. r[j] = t[i] /\ (i = k <=> j = m + k)
        BY <1>1, <4>1
      <4> QED
        BY <2>1, <4>2
    <3> QED
      BY <1>3, <3>1, <3>2
  <2>3. m + k >= 1
    BY <1>1, <2>1
  <2> QED
    BY <1>1, <2>2, <2>3 DEF Terminated
<1> QED
  BY <1>4, <1>5 DEF r

(* One block of a function is lengthened.                                  *)
LEMMA BlockLengthened ==
  ASSUME NEW old, CodeOK(old), NEW b \in 1 .. Len(old), NEW T, NEW t \in Seq(T), NEW open,
         EndsAre(old, open), b \in open
  PROVE  LET bs == [old EXCEPT ![b] = @ \o t]
         IN  /\ Len(bs) = Len(old)
             /\ Unended(t) => EndsAre(bs, open)
             /\ Terminated(t) => EndsAre(bs, open \ {b})
<1> DEFINE m == Len(old)
           bs == [old EXCEPT ![b] = @ \o t]
           S == Instruction(m) \cup T
           code == old[b]
<1>1. DOMAIN old = 1 .. m /\ old \in Seq(Code(m)) /\ m \in Nat
  BY LenProperties DEF CodeOK
<1>2. code \in Seq(S) /\ t \in Seq(S)
  <2>1. code \in Seq(Instruction(m))
    BY <1>1, ElementOfSeq DEF Code
  <2>2. Seq(Instruction(m)) \subseteq Seq(S) /\ Seq(T) \subseteq Seq(S)
    BY SeqMonotonic
  <2> HIDE DEF S
  <2> QED
    BY <2>1, <2>2
<1>3. Len(bs) = m /\ \A d \in 1 .. m : bs[d] = IF d = b THEN code \o t ELSE old[d]
  <2> DEFINE r == code \o t
  <2>1. bs = [old EXCEPT ![b] = r]
    OBVIOUS
  <2> HIDE DEF r
  <2>2. Len([old EXCEPT ![b] = r]) = m
    <3> DEFINE U == Code(m) \cup {r}
    <3>1. old \in Seq(U) /\ r \in U
      BY <1>1, SeqMonotonic
    <3> HIDE DEF U, m
    <3>2. Len([old EXCEPT ![b] = r]) = Len(old)
      BY <3>1, ExceptSeq, ZenonT(60)
    <3> QED
      BY <3>2 DEF m
  <2>3. \A d \in 1 .. m : [old EXCEPT ![b] = r][d] = IF d = b THEN r ELSE old[d]
    BY <1>1
  <2> QED
    BY <2>1, <2>2, <2>3 DEF r
<1>4. Unended(code)
  BY DEF EndsAre
<1>5. /\ Unended(t) => Unended(code \o t)
      /\ Terminated(t) => Terminated(code \o t)
  BY <1>2, <1>4, Lengthened
<1> HIDE DEF bs
<1>6. \A d \in 1 .. m : IF d \in open THEN Unended(old[d]) ELSE Terminated(old[d])
  BY DEF EndsAre
<1> HIDE DEF m, code
<1>7. Unended(t) => EndsAre(bs, open)
  BY <1>3, <1>5, <1>6 DEF EndsAre
<1>8. Terminated(t) => EndsAre(bs, open \ {b})
  BY <1>3, <1>5, <1>6 DEF EndsAre
<1> QED
  BY <1>3, <1>7, <1>8 DEF bs, m

LEMMA OneAppended ==
  ASSUME NEW S, NEW seq \in Seq(S), NEW elt, NEW next, next = Len(seq) + 1
  PROVE  /\ Len(Append(seq, elt)) = next /\ Append(seq, elt)[next] = elt
         /\ \A n \in 1 .. Len(seq) : Append(seq, elt)[n] = seq[n]
<1> DEFINE U == S \cup {elt}
<1>1. seq \in Seq(U) /\ elt \in U
  BY SeqMonotonic
<1> HIDE DEF U
<1> QED
  BY <1>1, AppendProperties

(* The current scope is one of the two.                                    *)
LEMMA CurrentBlock ==
  ASSUME TypeInv, BlocksInv, phase = "generate", ~Scope.closed
  PROVE  /\ Scope.bb \in OpenBlocks /\ Scope.bb \in 1 .. Len(blocks) /\ CodeOK(blocks)
         /\ Len(scopes) \in {1, 2} /\ Scope = scopes[Len(scopes)]
         /\ EndsAre(blocks, OpenBlocks)
<1>1. /\ Scope.bb \in 1 .. Len(blocks) /\ CodeOK(blocks)
      /\ Scope = scopes[Len(scopes)]
  BY Innermost DEF TypeInv
<1>2. Len(scopes) \in {1, 2} /\ EndsAre(blocks, OpenBlocks)
  BY DEF BlocksInv, Nested
<1>3. Scope.bb \in OpenBlocks
  BY <1>1, <1>2 DEF OpenBlocks
<1> QED
  BY <1>1, <1>2, <1>3

(* A statement goes on with the block of its scope.                        *)
SameEnds(r, s) ==
  /\ r.kind = s.kind /\ r.first = s.first /\ r.bb = s.bb /\ r.then = s.then
  /\ r.closed <=> s.closed

LEMMA StatementEnds ==
  ASSUME TypeInv, BlocksInv, phase = "generate", phase' = "generate", ~Scope.closed,
         NEW T, NEW t \in Seq(T), Unended(t), Emit(t),
         Len(scopes') = Len(scopes),
         \A n \in 1 .. Len(scopes) : SameEnds(scopes'[n], scopes[n])
  PROVE  BlocksInv'
<1>1. /\ Scope.bb \in OpenBlocks /\ Scope.bb \in 1 .. Len(blocks) /\ CodeOK(blocks)
      /\ Len(scopes) \in {1, 2} /\ Scope = scopes[Len(scopes)]
      /\ EndsAre(blocks, OpenBlocks)
  BY CurrentBlock
<1>2. EndsAre(blocks', OpenBlocks)
  BY <1>1, BlockLengthened, Zenon DEF Emit
<1>3. /\ SameEnds(scopes'[1], scopes[1])
      /\ Len(scopes) = 2 => SameEnds(scopes'[2], scopes[2])
  BY <1>1
<1>4. OpenBlocks' = OpenBlocks
  <2>1. CASE Len(scopes) = 1
    <3>1. scopes'[1].closed <=> scopes[1].closed
      BY <1>3 DEF SameEnds
    <3>2. scopes'[1].bb = scopes[1].bb
      BY <1>3 DEF SameEnds
    <3> QED
      BY <2>1, <3>1, <3>2, Zenon DEF OpenBlocks
  <2>2. CASE Len(scopes) = 2
    <3>1. /\ scopes'[1].bb = scopes[1].bb
          /\ scopes'[2].bb = scopes[2].bb /\ scopes'[2].then = scopes[2].then
      BY <1>3, <2>2 DEF SameEnds
    <3>2. Len(scopes) # 1 /\ Len(scopes') # 1
      BY <2>2
    <3> QED
      BY <3>1, <3>2, Zenon DEF OpenBlocks
  <2> QED
    BY <1>1, <2>1, <2>2
<1>5. Nested'
  BY <1>1, <1>3 DEF BlocksInv, Nested, SameEnds
<1> QED
  BY <1>2, <1>4, <1>5 DEF BlocksInv

(* A return ends the only one.                                             *)
LEMMA ReturnEnds ==
  ASSUME TypeInv, BlocksInv, Structured, ReturnStatement, phase' = "generate",
         NEW T, NEW t \in Seq(T), Terminated(t), Emit(t),
         Len(scopes') = Len(scopes), Scope'.closed, Scope' = scopes'[Len(scopes)]
  PROVE  BlocksInv'
<1>1. phase = "generate" /\ ~Scope.closed /\ Len(scopes) = 1
  BY DEF ReturnStatement, Structured
<1>2. /\ Scope.bb \in OpenBlocks /\ Scope.bb \in 1 .. Len(blocks) /\ CodeOK(blocks)
      /\ Scope = scopes[1] /\ EndsAre(blocks, OpenBlocks)
  BY <1>1, CurrentBlock
<1>3. EndsAre(blocks', OpenBlocks \ {Scope.bb})
  BY <1>2, BlockLengthened, Zenon DEF Emit
<1>4. OpenBlocks' = {} /\ OpenBlocks = {Scope.bb}
  BY <1>1, <1>2 DEF OpenBlocks
<1> QED
  BY <1>1, <1>3, <1>4 DEF BlocksInv, Nested

(* The statements.                                                         *)
LEMMA StatementsEnd ==
  ASSUME TypeInv, TypeInv', BlocksInv,
         \/ \E x \in Name : Declare(x) \/ AssignNew(x) \/ CallWith(x)
         \/ \E x, y \in Name : Assign(x, y)
         \/ CallNew
  PROVE  BlocksInv'
<1>1. Statement
  BY DEF Declare, AssignNew, CallWith, Assign, CallNew
<1>2. phase = "generate" /\ phase' = "generate" /\ ~Scope.closed
  BY <1>1 DEF Statement
<1>3. /\ ScopesOK(scopes, blocks) /\ Len(scopes) >= 1 /\ Scope = scopes[Len(scopes)]
      /\ Scope \in Scopes /\ Len(scopes) \in {1, 2}
  BY <1>2, CurrentBlock, Innermost DEF TypeInv
<1>4. ASSUME NEW s, SameEnds(s, Scope), scopes' = WithScope(s)
      PROVE  /\ Len(scopes') = Len(scopes)
             /\ \A n \in 1 .. Len(scopes) : SameEnds(scopes'[n], scopes[n])
  <2> DEFINE f == Front(scopes)
             k == Len(scopes)
  <2>1. /\ f \in Seq(Scopes) /\ Len(f) = k - 1 /\ k \in Nat
        /\ \A n \in 1 .. k - 1 : f[n] = scopes[n]
    <3>1. /\ ScopesOK(f, blocks) /\ Len(f) = k - 1
          /\ \A n \in 1 .. k - 1 : f[n] = scopes[n]
      BY <1>3, ScopePopped
    <3>2. k \in Nat
      BY <1>3
    <3> QED
      BY <3>1, <3>2 DEF ScopesOK
  <2> HIDE DEF f, k
  <2>2. /\ Len(Append(f, s)) = k /\ Append(f, s)[k] = s
        /\ \A n \in 1 .. k - 1 : Append(f, s)[n] = f[n]
    <3>1. Len(f) + 1 = k
      BY <2>1
    <3> QED
      BY <2>1, <3>1, OneAppended
  <2>3. scopes' = Append(f, s)
    BY <1>4 DEF WithScope, f
  <2>4. \A n \in 1 .. k : n = k \/ n \in 1 .. k - 1
    BY <2>1
  <2>5. \A n \in 1 .. k : SameEnds(scopes[n], scopes[n])
    BY DEF SameEnds
  <2> QED
    BY <1>3, <1>4, <2>1, <2>2, <2>3, <2>4, <2>5 DEF k
<1>5. ASSUME UNCHANGED scopes
      PROVE  /\ Len(scopes') = Len(scopes)
             /\ \A n \in 1 .. Len(scopes) : SameEnds(scopes'[n], scopes[n])
  BY <1>5 DEF SameEnds
<1>6. \A kind, on : SameEnds(WithCleanup(Scope, kind, on), Scope)
  BY <1>3 DEF SameEnds, WithCleanup, Scopes
<1>7. ASSUME NEW user, user.op \notin Ending, NewOperand(user),
             scopes' = WithScope(WithCleanup(Scope, "object", Fresh))
      PROVE  BlocksInv'
  <2> DEFINE a == I("new", Fresh, Null)
             b == I("init", Fresh, Null)
             t == <<a, b, user>>
  <2>1. t \in Seq({a, b, user}) /\ Unended(t) /\ Emit(t)
    BY <1>7 DEF Unended, Ending, NewOperand, I
  <2>2. /\ Len(scopes') = Len(scopes)
        /\ \A n \in 1 .. Len(scopes) : SameEnds(scopes'[n], scopes[n])
    BY <1>4, <1>6, <1>7
  <2> HIDE DEF t, a, b
  <2> QED
    BY <1>2, <2>1, <2>2, StatementEnds
<1>8. ASSUME NEW a, NEW b, a.op \notin Ending, b.op \notin Ending, Emit(<<a, b>>),
             UNCHANGED scopes
      PROVE  BlocksInv'
  <2> DEFINE t == <<a, b>>
  <2>1. t \in Seq({a, b}) /\ Unended(t) /\ Emit(t)
    BY <1>8 DEF Unended
  <2> HIDE DEF t
  <2> QED
    BY <1>2, <1>5, <1>8, <2>1, StatementEnds
<1>9. ASSUME NEW x \in Name, Declare(x) PROVE BlocksInv'
  <2> DEFINE a == I("null", x, Null)
             t == <<a>>
             s == [Scope EXCEPT !.names = @ \cup {x}]
  <2>1. t \in Seq({a}) /\ Unended(t) /\ Emit(t)
    BY <1>9 DEF Unended, Ending, Declare, I
  <2>2. s \in Scopes /\ SameEnds(s, Scope)
    BY <1>3, <1>9 DEF Declare, SameEnds, Scopes
  <2>3. SameEnds(WithCleanup(s, "variable", x), Scope)
    BY <2>2 DEF SameEnds, WithCleanup, Scopes
  <2>4. scopes' = WithScope(WithCleanup(s, "variable", x))
    BY <1>9 DEF Declare
  <2>5. /\ Len(scopes') = Len(scopes)
        /\ \A n \in 1 .. Len(scopes) : SameEnds(scopes'[n], scopes[n])
    BY <1>4, <2>3, <2>4
  <2> HIDE DEF t, a
  <2> QED
    BY <1>2, <2>1, <2>5, StatementEnds
<1>10. ASSUME NEW x \in Name, NEW y \in Name, Assign(x, y) PROVE BlocksInv'
  BY <1>8, <1>10 DEF Assign, Ending, I
<1>11. ASSUME NEW x \in Name, CallWith(x) PROVE BlocksInv'
  BY <1>8, <1>11 DEF CallWith, Ending, I
<1>12. ASSUME NEW x \in Name, AssignNew(x) PROVE BlocksInv'
  BY <1>7, <1>12 DEF AssignNew, Ending, I
<1>13. ASSUME CallNew PROVE BlocksInv'
  BY <1>7, <1>13 DEF CallNew, Ending, I
<1> QED
  BY <1>9, <1>10, <1>11, <1>12, <1>13

(* The returns.                                                            *)
LEMMA ReturnsEnd ==
  ASSUME TypeInv, TypeInv', BlocksInv, Structured,
         ReturnInteger \/ (\E x \in Name : ReturnVariable(x)) \/ ReturnNew
  PROVE  BlocksInv'
<1>1. ReturnStatement
  BY DEF ReturnInteger, ReturnVariable, ReturnNew
<1>2. phase = "generate" /\ phase' = "generate" /\ Len(scopes) = 1
  BY <1>1 DEF ReturnStatement, Structured
<1>3. Scope = scopes[1] /\ Scope \in Scopes /\ ScopesOK(scopes, blocks)
  BY <1>2, Innermost DEF TypeInv
<1>4. ASSUME NEW s, s.closed, scopes' = WithScope(s)
      PROVE  Len(scopes') = Len(scopes) /\ Scope'.closed /\ Scope' = scopes'[Len(scopes)]
  <2> DEFINE f == Front(scopes)
  <2>1. f \in Seq(Scopes) /\ Len(f) = 0
    <3>1. ScopesOK(f, blocks) /\ Len(f) = Len(scopes) - 1
      <4>1. Len(scopes) >= 1
        BY <1>2
      <4> QED
        BY <1>3, <4>1, ScopePopped
    <3> QED
      BY <1>2, <3>1 DEF ScopesOK
  <2> HIDE DEF f
  <2>2. Len(Append(f, s)) = 1 /\ Append(f, s)[1] = s
    <3>1. Len(f) + 1 = 1
      BY <2>1
    <3> QED
      BY <2>1, <3>1, OneAppended
  <2>3. scopes' = Append(f, s)
    BY <1>4 DEF WithScope, f
  <2> QED
    BY <1>2, <1>4, <2>2, <2>3 DEF Scope, Last
<1>5. ClosedScope.closed
  BY <1>3 DEF ClosedScope, Scopes
<1>6. CASE ReturnInteger
  <2> DEFINE a == I("ret", Null, Null)
             t == <<a>>
  <2>1. t \in Seq({a}) /\ Terminated(t) /\ Emit(t)
    BY <1>6 DEF Terminated, Ending, ReturnInteger, I
  <2>2. Len(scopes') = Len(scopes) /\ Scope'.closed /\ Scope' = scopes'[Len(scopes)]
    BY <1>4, <1>5, <1>6 DEF ReturnInteger, ClosedScope
  <2> HIDE DEF t, a
  <2> QED
    BY <1>1, <1>2, <2>1, <2>2, ReturnEnds
<1>7. ASSUME NEW x \in Name, ReturnVariable(x) PROVE BlocksInv'
  <2> DEFINE a == I("load", x, Fresh)
             b == I("ret", Fresh, Null)
             t == <<a, b>>
  <2>1. t \in Seq({a, b}) /\ Terminated(t) /\ Emit(t)
    BY <1>7 DEF Terminated, Ending, ReturnVariable, I
  <2>2. Len(scopes') = Len(scopes) /\ Scope'.closed /\ Scope' = scopes'[Len(scopes)]
    BY <1>4, <1>5, <1>7 DEF ReturnVariable, ClosedScope
  <2> HIDE DEF t, a, b
  <2> QED
    BY <1>1, <1>2, <2>1, <2>2, ReturnEnds
<1>8. CASE ReturnNew
  <2> DEFINE a == I("new", Fresh, Null)
             b == I("init", Fresh, Null)
             c == I("ret", Fresh, Null)
             t == <<a, b, c>>
             s == WithCleanup(ClosedScope, "object", Fresh)
  <2>1. t \in Seq({a, b, c}) /\ Terminated(t) /\ Emit(t)
    BY <1>8 DEF Terminated, Ending, ReturnNew, NewOperand, I
  <2>2. s.closed
    BY <1>3 DEF ClosedScope, WithCleanup, Scopes
  <2>3. Len(scopes') = Len(scopes) /\ Scope'.closed /\ Scope' = scopes'[Len(scopes)]
    BY <1>4, <1>8, <2>2 DEF ReturnNew, ClosedScope
  <2> HIDE DEF t, a, b, c
  <2> QED
    BY <1>1, <1>2, <2>1, <2>3, ReturnEnds
<1> QED
  BY <1>6, <1>7, <1>8

(* The blocks of an `if`.                                                  *)
LEMMA BlockOpens ==
  ASSUME NEW old, CodeOK(old), NEW open, open \subseteq 1 .. Len(old), EndsAre(old, open)
  PROVE  EndsAre(Append(old, <<>>), open \cup {Len(old) + 1})
<1> DEFINE m == Len(old)
           bs == Append(old, <<>>)
<1>1. Len(bs) = m + 1 /\ \A d \in 1 .. m : bs[d] = old[d]
  BY BlockAdded
<1>2. m \in Nat /\ bs[m + 1] = <<>>
  <2>1. old \in Seq(Code(m)) /\ m \in Nat
    BY LenProperties DEF CodeOK
  <2> DEFINE e == <<>>
             k == Len(old) + 1
             C == Code(m)
  <2>2. Append(old, e)[k] = e
    <3>1. old \in Seq(C)
      BY <2>1
    <3> HIDE DEF e, C
    <3> QED
      BY <3>1, OneAppended
  <2> QED
    BY <2>1, <2>2
<1>3. Unended(<<>>)
  BY EmptySeq DEF Unended
<1>4. \A d \in 1 .. m : IF d \in open THEN Unended(old[d]) ELSE Terminated(old[d])
  BY DEF EndsAre
<1> HIDE DEF bs, m
<1>5. ASSUME NEW d \in 1 .. m + 1
      PROVE  IF d \in open \cup {m + 1} THEN Unended(bs[d]) ELSE Terminated(bs[d])
  <2>1. CASE d = m + 1
    BY <1>2, <1>3, <2>1
  <2>2. CASE d \in 1 .. m
    <3>1. d # m + 1
      BY <1>2, <2>2
    <3> QED
      BY <1>1, <1>4, <2>2, <3>1
  <2> QED
    BY <1>2, <2>1, <2>2
<1>6. EndsAre(bs, open \cup {m + 1})
  BY <1>1, <1>5 DEF EndsAre
<1> QED
  BY <1>6 DEF bs, m

LEMMA OpensInside ==
  ASSUME TypeInv, BlocksInv, phase = "generate"
  PROVE  OpenBlocks \subseteq 1 .. Len(blocks)
<1>1. Len(scopes) \in {1, 2} /\ \A n \in 1 .. Len(scopes) : ScopeOK(scopes[n], blocks)
  BY DEF TypeInv, ScopesOK, BlocksInv, Nested
<1>2. ScopeOK(scopes[1], blocks) /\ (Len(scopes) = 2 => ScopeOK(scopes[2], blocks))
  BY <1>1
<1> QED
  BY <1>1, <1>2 DEF OpenBlocks, ScopeOK

LEMMA BeginThenEnds ==
  ASSUME TypeInv, BlocksInv, Structured, BeginThen PROVE BlocksInv'
<1> DEFINE m == Len(blocks)
           s == NewScope("then", m + 1, m + 1)
<1>1. /\ phase = "generate" /\ phase' = "generate" /\ ~Scope.closed /\ Len(scopes) <= MaxNesting
      /\ blocks' = Append(blocks, <<>>) /\ scopes' = Append(scopes, s)
  BY DEF BeginThen, Statement
<1>2. /\ CodeOK(blocks) /\ EndsAre(blocks, OpenBlocks) /\ Scope = scopes[Len(scopes)]
      /\ Scope.bb \in 1 .. m /\ Len(scopes) \in {1, 2} /\ scopes \in Seq(Scopes) /\ m \in Nat
  BY <1>1, CurrentBlock, LenProperties DEF TypeInv, ScopesOK, CodeOK
<1>3. Len(scopes) = 1
  BY <1>1, <1>2, BoundsNatural DEF Structured
<1>4. EndsAre(blocks', OpenBlocks \cup {m + 1})
  BY <1>1, <1>2, OpensInside, BlockOpens
<1>5. /\ s.kind = "then" /\ s.first = m + 1 /\ s.bb = m + 1 /\ s.then = m + 1 /\ ~s.closed
  BY DEF NewScope
<1> HIDE DEF s
<1>6. Len(scopes') = 2 /\ scopes'[1] = scopes[1] /\ scopes'[2] = s
  <2>1. Len(scopes) + 1 = 2 /\ 1 \in 1 .. Len(scopes)
    BY <1>3
  <2> QED
    BY <1>1, <1>2, <2>1, OneAppended
<1>7. OpenBlocks = {scopes[1].bb} /\ OpenBlocks' = {scopes[1].bb, m + 1} /\ scopes[1].bb # m + 1
  BY <1>1, <1>2, <1>3, <1>5, <1>6 DEF OpenBlocks
<1>8. Nested'
  BY <1>1, <1>2, <1>3, <1>5, <1>6, <1>7 DEF Nested
<1>9. OpenBlocks \cup {m + 1} = OpenBlocks'
  BY <1>7
<1> QED
  BY <1>1, <1>4, <1>8, <1>9 DEF BlocksInv

(* What the cleanups of the current scope leave.                           *)
LEMMA CleanedEnds ==
  ASSUME TypeInv, BlocksInv, phase = "generate", ~NoPlaceForRelease
  PROVE  /\ CodeOK(doCleanup) /\ Len(doCleanup) = Len(blocks)
         /\ EndsAre(doCleanup, OpenBlocks)
<1>1. CodeOK(doCleanup) /\ Len(doCleanup) = Len(blocks)
  BY CleanedScope
<1>2. CodeOK(blocks) /\ Scope \in Scopes /\ ScopeOK(Scope, blocks)
  BY Innermost DEF TypeInv
<1>3. \A b \in 1 .. Len(blocks) : /\ Unended(blocks[b]) => Unended(doCleanup[b])
                                  /\ Terminated(blocks[b]) => Terminated(doCleanup[b])
  BY <1>2, CleanupsEndNothing
<1>4. EndsAre(blocks, OpenBlocks)
  BY DEF BlocksInv
<1> QED
  BY <1>1, <1>3, <1>4 DEF EndsAre

LEMMA BeginElseEnds ==
  ASSUME TypeInv, BlocksInv, BeginElse PROVE BlocksInv'
<1> DEFINE m == Len(blocks)
           old == scopes[2]
           s == NewScope("else", m + 1, Scope.first)
<1>1. /\ phase = "generate" /\ phase' = "generate" /\ Scope.kind = "then" /\ ~NoPlaceForRelease
      /\ blocks' = Append(doCleanup, <<>>) /\ scopes' = WithScope(s)
  BY DEF BeginElse
<1>2. /\ CodeOK(doCleanup) /\ Len(doCleanup) = m /\ EndsAre(doCleanup, OpenBlocks)
      /\ OpenBlocks \subseteq 1 .. m /\ m \in Nat
  BY <1>1, CleanedEnds, OpensInside, LenProperties DEF TypeInv, CodeOK
<1>3. /\ ScopesOK(scopes, blocks) /\ Scope = scopes[Len(scopes)] /\ scopes[1].kind = "function"
  BY <1>1, Innermost DEF TypeInv
<1>4. /\ Len(scopes) = 2 /\ Scope = old /\ ~scopes[1].closed /\ old.first = old.bb /\ old.then = old.bb
      /\ scopes[1].bb # old.bb
  BY <1>1, <1>3 DEF BlocksInv, Nested
<1>5. EndsAre(blocks', OpenBlocks \cup {m + 1})
  BY <1>1, <1>2, BlockOpens
<1>6. /\ s.kind = "else" /\ s.first = m + 1 /\ s.bb = m + 1 /\ s.then = old.bb /\ ~s.closed
  BY <1>4 DEF NewScope
<1> HIDE DEF s
<1>7. Len(scopes') = 2 /\ scopes'[1] = scopes[1] /\ scopes'[2] = s
  <2> DEFINE f == Front(scopes)
  <2> DEFINE C == Scopes
  <2>1. f \in Seq(C) /\ Len(f) = 1 /\ f[1] = scopes[1]
    <3>1. ScopesOK(f, blocks) /\ Len(f) = Len(scopes) - 1
          /\ \A n \in 1 .. Len(scopes) - 1 : f[n] = scopes[n]
      <4>1. Len(scopes) >= 1
        BY <1>4
      <4> QED
        BY <1>3, <4>1, ScopePopped
    <3> HIDE DEF f
    <3> QED
      BY <1>4, <3>1 DEF ScopesOK
  <2>2. scopes' = Append(f, s)
    BY <1>1 DEF WithScope
  <2> HIDE DEF f, old, C
  <2>3. 1 \in 1 .. Len(f)
    BY <2>1
  <2>4. /\ Len(Append(f, s)) = 2 /\ Append(f, s)[2] = s
        /\ \A n \in 1 .. Len(f) : Append(f, s)[n] = f[n]
    <3> DEFINE k == Len(f) + 1
    <3>1. k = 2
      BY <2>1
    <3>2. f \in Seq(C)
      BY <2>1
    <3>3. /\ Len(Append(f, s)) = k /\ Append(f, s)[k] = s
          /\ \A n \in 1 .. Len(f) : Append(f, s)[n] = f[n]
      <4> HIDE DEF f, s
      <4> QED
        BY <3>2, OneAppended
    <3> QED
      BY <3>1, <3>3, Zenon
  <2> QED
    BY <2>1, <2>2, <2>3, <2>4
<1>8. /\ OpenBlocks = {scopes[1].bb, old.bb} /\ OpenBlocks' = {scopes[1].bb, m + 1, old.bb}
      /\ scopes[1].bb # m + 1 /\ old.bb # m + 1
  <2>1. OpenBlocks = {scopes[1].bb, old.bb}
    BY <1>4 DEF OpenBlocks
  <2>2. OpenBlocks' = {scopes[1].bb, m + 1, old.bb}
    BY <1>6, <1>7 DEF OpenBlocks
  <2> HIDE DEF old
  <2> QED
    BY <1>2, <2>1, <2>2
<1>9. Nested'
  BY <1>1, <1>4, <1>6, <1>7, <1>8 DEF Nested
<1>10. OpenBlocks \cup {m + 1} = OpenBlocks'
  BY <1>8
<1> QED
  BY <1>1, <1>5, <1>9, <1>10 DEF BlocksInv

(* A terminator ends an open block.                                        *)
LEMMA BlockEnded ==
  ASSUME NEW bs, CodeOK(bs), NEW b \in 1 .. Len(bs), NEW open, EndsAre(bs, open), b \in open,
         NEW ins \in Instruction(Len(bs)), ins.op \in Ending
  PROVE  LET r == [bs EXCEPT ![b] = Append(@, ins)]
         IN  CodeOK(r) /\ Len(r) = Len(bs) /\ EndsAre(r, open \ {b})
<1> DEFINE r == [bs EXCEPT ![b] = Append(@, ins)]
           t == <<ins>>
<1>1. t \in Seq({ins}) /\ Terminated(t)
  BY DEF Terminated
<1>2. r = [bs EXCEPT ![b] = @ \o t]
  <2> DEFINE U == Instruction(Len(bs))
  <2>1. bs[b] \in Seq(U) /\ ins \in U
    BY ElementOfSeq DEF CodeOK, Code
  <2> HIDE DEF U
  <2>2. Append(bs[b], ins) = bs[b] \o t
    BY <2>1, AppendIsConcat
  <2> HIDE DEF t
  <2> QED
    BY <2>2
<1>3. CodeOK(r)
  BY Ended, Zenon DEF AppendedTo
<1> HIDE DEF t, r
<1>4. /\ Len([bs EXCEPT ![b] = @ \o t]) = Len(bs)
      /\ Terminated(t) => EndsAre([bs EXCEPT ![b] = @ \o t], open \ {b})
  BY <1>1, BlockLengthened
<1>5. Len(r) = Len(bs) /\ EndsAre(r, open \ {b})
  BY <1>1, <1>2, <1>4
<1> QED
  BY <1>3, <1>5 DEF r

LEMMA EndIfEnds ==
  ASSUME TypeInv, TypeInv', BlocksInv, EndIf PROVE BlocksInv'
<1> DEFINE m == Len(blocks)
           merge == m + 1
           top == scopes[2]
           parent == scopes[1]
           else == IF top.kind = "else" THEN top.first ELSE merge
           i == I("br", merge, Null)
           j == I("condbr", top.then, else)
           one == Append(doCleanup, <<>>)
           code == [one EXCEPT ![top.then] = Append(@, i)]
           both == IF top.kind = "else" THEN [code EXCEPT ![else] = Append(@, i)] ELSE code
           end == [both EXCEPT ![parent.bb] = Append(@, j)]
           s == [parent EXCEPT !.bb = merge]
<1>1. phase = "generate" /\ phase' = "generate" /\ Len(scopes) > 1 /\ ~NoPlaceForRelease
  BY DEF EndIf
<1>2. /\ ScopesOK(scopes, blocks) /\ Scope = scopes[Len(scopes)] /\ scopes[1].kind = "function"
      /\ CodeOK(blocks) /\ CodeOK(blocks') /\ m \in Nat
  BY <1>1, Innermost DEF TypeInv
<1>3. /\ Len(scopes) = 2 /\ Scope = top /\ ~parent.closed /\ ~top.closed /\ top.first = top.bb
      /\ parent.bb # top.bb /\ parent.bb # top.then
      /\ top.kind = "then" <=> top.then = top.bb
      /\ top.kind \in {"then", "else"}
  <2>1. top \in Scopes
    BY <1>1, <1>2, ElementOfSeq DEF ScopesOK, BlocksInv, Nested
  <2>2. top.kind \in {"function", "then", "else"}
    BY <2>1 DEF Scopes
  <2>5. Nested
    BY <1>1 DEF BlocksInv
  <2>6. Len(scopes) # 1
    <3> DEFINE k == Len(scopes)
    <3>1. k \in Nat /\ k > 1
      BY <1>1, <1>2, LenProperties DEF ScopesOK
    <3> HIDE DEF k
    <3>2. k # 1
      BY <3>1
    <3> QED
      BY <3>2, Zenon DEF k
  <2>3. Nested /\ Len(scopes) # 1
    BY <2>5, <2>6
  <2>4. Len(scopes) = 2
    BY <2>3 DEF Nested
  <2> HIDE DEF top, parent
  <2> QED
    BY <1>2, <2>2, <2>3, <2>4 DEF Nested, top, parent
<1>4. blocks' = end /\ scopes' = Append(Front(Front(scopes)), s)
  <2>1. Len(scopes) - 1 = 1 /\ Scope = top
    BY <1>3
  <2> QED
    BY <2>1, Zenon DEF EndIf
<1>5. /\ CodeOK(doCleanup) /\ Len(doCleanup) = m /\ EndsAre(doCleanup, OpenBlocks)
      /\ OpenBlocks \subseteq 1 .. m
  BY <1>1, CleanedEnds, OpensInside
<1>6. /\ OpenBlocks = {parent.bb, top.bb, top.then}
      /\ parent.bb \in 1 .. m /\ top.bb \in 1 .. m /\ top.then \in 1 .. m
  BY <1>3, <1>5 DEF OpenBlocks
<1> HIDE DEF m
<1>7. /\ CodeOK(one) /\ Len(one) = merge /\ EndsAre(one, OpenBlocks \cup {merge})
      /\ \A b \in OpenBlocks : b \in 1 .. merge /\ b # merge
  <2>1. CodeOK(one) /\ Len(one) = merge
    BY <1>5, BlockAdded
  <2>2. EndsAre(one, OpenBlocks \cup {merge})
    BY <1>5, BlockOpens
  <2>3. \A b \in 1 .. m : b \in 1 .. merge /\ b # merge
    BY <1>2 DEF m
  <2> QED
    BY <1>5, <2>1, <2>2, <2>3
<1> HIDE DEF merge, one
<1>8. i \in Instruction(merge) /\ j \in Instruction(merge)
  <2>1. /\ merge \in Nat /\ merge \in 1 .. merge /\ top.then \in 1 .. merge
        /\ else \in 1 .. merge
    <3>1. merge \in Nat /\ merge \in 1 .. merge /\ top.then \in 1 .. merge /\ top.bb \in 1 .. merge
      BY <1>2, <1>6 DEF m, merge
    <3> QED
      BY <1>3, <3>1
  <2> HIDE DEF top, else
  <2> QED
    BY <2>1, Made
<1>9. i.op \in Ending /\ j.op \in Ending
  BY DEF I, Ending
<1> HIDE DEF i, j
<1>10. CodeOK(code) /\ Len(code) = merge /\ EndsAre(code, (OpenBlocks \cup {merge}) \ {top.then})
  <2>1. top.then \in 1 .. Len(one) /\ top.then \in OpenBlocks \cup {merge}
    BY <1>6, <1>7
  <2> HIDE DEF top
  <2> QED
    BY <1>7, <1>8, <1>9, <2>1, BlockEnded
<1> HIDE DEF code
<1>11. CodeOK(both) /\ Len(both) = merge /\ EndsAre(both, {parent.bb, merge})
  <2>1. /\ parent.bb # merge /\ top.bb # merge /\ top.then # merge
        /\ parent.bb \in 1 .. merge /\ top.bb \in 1 .. merge
    BY <1>6, <1>7
  <2>2. CASE top.kind = "else"
    <3> DEFINE two == [code EXCEPT ![else] = Append(@, i)]
    <3>1. else = top.bb /\ top.then # top.bb
      BY <1>3, <2>2
    <3>2. else \in (OpenBlocks \cup {merge}) \ {top.then} /\ else \in 1 .. merge
      BY <1>6, <2>1, <3>1
    <3>3. ((OpenBlocks \cup {merge}) \ {top.then}) \ {else} = {parent.bb, merge}
      <4> HIDE DEF else, top, parent
      <4> QED
        BY <1>3, <1>6, <2>1, <3>1
    <3>4. both = two
      BY <2>2
    <3> HIDE DEF else, top, both
    <3>5. CodeOK(two) /\ Len(two) = merge
          /\ EndsAre(two, ((OpenBlocks \cup {merge}) \ {top.then}) \ {else})
      BY <1>8, <1>9, <1>10, <3>2, BlockEnded
    <3> HIDE DEF two
    <3> QED
      BY <3>3, <3>4, <3>5
  <2>3. CASE top.kind # "else"
    <3>1. top.then = top.bb
      BY <1>3, <2>3
    <3>2. (OpenBlocks \cup {merge}) \ {top.then} = {parent.bb, merge}
      <4> HIDE DEF top, parent
      <4> QED
        BY <1>3, <1>6, <2>1, <3>1
    <3>3. both = code
      BY <2>3
    <3> HIDE DEF both, top
    <3> QED
      BY <1>10, <3>2, <3>3
  <2> QED
    BY <2>2, <2>3
<1> HIDE DEF both, else
<1>12. Len(end) = merge /\ EndsAre(end, {merge})
  <2>1. parent.bb \in 1 .. merge /\ parent.bb # merge
    BY <1>6, <1>7
  <2>2. {parent.bb, merge} \ {parent.bb} = {merge}
    BY <2>1
  <2> HIDE DEF parent
  <2>3. Len(end) = merge /\ EndsAre(end, {parent.bb, merge} \ {parent.bb})
    BY <1>8, <1>9, <1>11, <2>1, BlockEnded
  <2> HIDE DEF end
  <2> QED
    BY <2>2, <2>3
<1> HIDE DEF end
<1>13. Len(scopes') = 1 /\ scopes'[1] = s
  <2> DEFINE f == Front(scopes)
             g == Front(f)
             C == Scopes
  <2>1. ScopesOK(f, blocks) /\ Len(f) = 1
    <3>1. Len(scopes) >= 1
      BY <1>3
    <3>2. ScopesOK(f, blocks) /\ Len(f) = Len(scopes) - 1
      BY <1>2, <3>1, ScopePopped
    <3> HIDE DEF f
    <3> QED
      BY <1>3, <3>2
  <2> HIDE DEF f
  <2>2. g \in Seq(C) /\ Len(g) = 0
    <3>1. Len(f) >= 1
      BY <2>1
    <3>2. ScopesOK(g, blocks) /\ Len(g) = Len(f) - 1
      BY <2>1, <3>1, ScopePopped
    <3> HIDE DEF g
    <3> QED
      BY <2>1, <3>2 DEF ScopesOK
  <2>3. scopes' = Append(g, s)
    BY <1>4 DEF f
  <2> HIDE DEF g, s, C
  <2> DEFINE k == Len(g) + 1
  <2>4. k = 1
    BY <2>2
  <2>5. Len(Append(g, s)) = k /\ Append(g, s)[k] = s
    BY <2>2, OneAppended
  <2> QED
    BY <2>3, <2>4, <2>5, Zenon
<1>14. s.bb = merge /\ ~s.closed
  <2>1. parent \in Scopes
    <3>1. 1 \in 1 .. Len(scopes)
      BY <1>3
    <3> QED
      BY <1>2, <3>1, ElementOfSeq DEF ScopesOK
  <2> HIDE DEF parent
  <2> QED
    BY <1>3, <2>1 DEF Scopes
<1> HIDE DEF s
<1>15. OpenBlocks' = {merge} /\ Nested'
  BY <1>13, <1>14 DEF OpenBlocks, Nested
<1> QED
  BY <1>1, <1>4, <1>12, <1>15 DEF BlocksInv

(* A function that returns has no open block.                              *)
LEMMA EndFunctionEnds ==
  ASSUME TypeInv, BlocksInv, Structured, EndFunction PROVE BlocksInv'
<1>1. /\ phase = "generate" /\ Len(scopes) = 1 /\ Ends /\ ~NoPlaceForRelease
      /\ phase' = IF WellFormedModule(doCleanup) THEN "run" ELSE "malformed"
  BY DEF EndFunction
<1>2. Scope = scopes[1]
  BY <1>1, Innermost DEF TypeInv
<1>3. Scope.closed
  <2> DEFINE k == Len(scopes)
  <2>1. k = 1
    BY <1>1
  <2>2. ~(k > 1)
    <3> HIDE DEF k
    <3> QED
      BY <2>1
  <2> HIDE DEF k
  <2> QED
    BY <1>1, <2>2 DEF Ends, Structured, k
<1>4. OpenBlocks = {}
  BY <1>1, <1>2, <1>3 DEF OpenBlocks
<1>5. CodeOK(doCleanup) /\ EndsAre(doCleanup, OpenBlocks)
  BY <1>1, CleanedEnds
<1>6. \A b \in 1 .. Len(doCleanup) : Terminated(doCleanup[b])
  BY <1>4, <1>5 DEF EndsAre
<1>7. WellFormedModule(doCleanup)
  BY <1>5, <1>6, WellFormedBlocks
<1> QED
  BY <1>1, <1>7 DEF BlocksInv

LEMMA RestEnds ==
  ASSUME BlocksInv, TypeInv, Crash \/ BranchIsNoBlock \/ Stopped \/ Run \/ UNCHANGED vars
  PROVE  BlocksInv'
<1>1. CASE Crash \/ BranchIsNoBlock
  BY <1>1 DEF Crash, BranchIsNoBlock, BlocksInv
<1>2. CASE Stopped \/ UNCHANGED vars
  <2>1. UNCHANGED <<phase, blocks, scopes>>
    BY <1>2 DEF Stopped, vars, generator
  <2> QED
    BY <2>1 DEF BlocksInv, Nested, EndsAre, OpenBlocks
<1>3. CASE Run
  <2>1. phase = "run"
    BY <1>3 DEF Run, DoNull, DoNew, DoLoad, DoCall, DoStore, DoPlainStore, DoRelease,
                DoBranch, DoReturn, Execute
  <2>2. phase' \in {"run", "wild", "null", "freed_memory", "returned"}
    BY <1>3, <2>1 DEF Run, DoNull, DoNew, DoLoad, DoCall, DoStore, DoPlainStore, DoRelease,
                DoBranch, DoReturn, Use, Advance, Fail
  <2> QED
    BY <2>2 DEF BlocksInv
<1> QED
  BY <1>1, <1>2, <1>3

LEMMA InitEnds == ASSUME Init PROVE BlocksInv
<1> DEFINE e == <<>>
           b == <<e>>
           s == NewScope("function", 1, 1)
<1>1. phase = "generate" /\ blocks = b /\ scopes = <<s>>
  BY DEF Init
<1>2. s.bb = 1 /\ ~s.closed
  BY DEF NewScope
<1>3. Unended(e)
  BY EmptySeq DEF Unended
<1> HIDE DEF s, e
<1>4. Len(b) = 1 /\ b[1] = e /\ Len(scopes) = 1 /\ scopes[1] = s
  BY <1>1
<1>5. OpenBlocks = {1} /\ Nested
  BY <1>2, <1>4 DEF OpenBlocks, Nested
<1>6. EndsAre(b, {1})
  BY <1>3, <1>4 DEF EndsAre
<1> QED
  BY <1>1, <1>5, <1>6 DEF BlocksInv

LEMMA NextEnds ==
  ASSUME TypeInv, TypeInv', BlocksInv, Structured, [Next]_vars PROVE BlocksInv'
<1>1. \/ \E x \in Name : Declare(x) \/ AssignNew(x) \/ CallWith(x)
      \/ \E x, y \in Name : Assign(x, y)
      \/ CallNew
      \/ ReturnInteger \/ (\E x \in Name : ReturnVariable(x)) \/ ReturnNew
      \/ BeginThen \/ BeginElse \/ EndIf \/ EndFunction
      \/ Crash \/ BranchIsNoBlock \/ Stopped \/ Run \/ UNCHANGED vars
  BY DEF Next, Generate
<1> QED
  BY <1>1, StatementsEnd, ReturnsEnd, BeginThenEnds, BeginElseEnds, EndIfEnds, EndFunctionEnds,
     RestEnds

(* Whatever its statements and its `if`s, if none of them is in another    *)
(* and none returns, and the function returns in the end, the generator    *)
(* leaves every basic block with exactly one terminator, its last          *)
(* instruction: the branches that it appends after the cleanups go to      *)
(* blocks that nothing has ended, and the cleanups insert in front of what *)
(* ends a block.                                                           *)
THEOREM ModulesWellFormed == ASSUME Structured PROVE Spec => []BlocksTerminated
<1>1. Init => BlocksInv
  BY InitEnds
<1>2. TypeInv /\ TypeInv' /\ BlocksInv /\ [Next]_vars => BlocksInv'
  BY NextEnds
<1>3. BlocksInv => BlocksTerminated
  BY DEF BlocksInv, BlocksTerminated
<1> QED
  BY <1>1, <1>2, <1>3, TypesAlways, PTL DEF Spec

=============================================================================
