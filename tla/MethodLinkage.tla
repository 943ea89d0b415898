--------------------------- MODULE MethodLinkage ---------------------------
(***************************************************************************)
(* Which functions the LLVM module has at which moment: those that the     *)
(* generator declares and defines for the functions and methods of the     *)
(* program (codegen/LLVMCodeGenerator.cpp), and the init and kill          *)
(* functions and vtable entries that LLVMStapleObject.cpp adds on demand   *)
(* and caches.  A method call looks its function up in the module by name. *)
(***************************************************************************)
EXTENDS Naturals, Sequences, FiniteSets, SequencesExt, FiniteSetsExt

CONSTANTS
  OBJ,             \* the root class, STP_OBJ_CLASS
  Ancestry,        \* Ancestry[c]: c, its parent, and so on to OBJ
  Class,           \* the classes of the program
  MethodTables,    \* the choices for the methods of every class but OBJ, each a
                   \* function to the sequence of them, as [name, result]
  Functions,       \* the functions of the program in their order
  Alias,           \* names that createClassSymbolName and "_" make equal
  MaxStatements    \* bound: statements of the program

CacheOwners == Class \cup {OBJ}

(* A null llvm::Function*, which is no function's name and number.         *)
None == <<>>

ASSUME FinitelyManyClasses == IsFiniteSet(Class)
ASSUME ClassNames == OBJ \notin Class /\ None \notin Class
ASSUME Rooted ==
  \A c \in CacheOwners :
    Ancestry[c] \in Seq(CacheOwners) \ {<<>>} /\ Head(Ancestry[c]) = c /\ Last(Ancestry[c]) = OBJ
ASSUME MethodsTyped == MethodTables \subseteq [Class -> Seq([name : STRING, result : STRING])]
ASSUME FunctionsTyped == Functions \in Seq(STRING)
ASSUME MaxStatementsBound == MaxStatements \in Nat

(* The name of class c followed by "_m", and of a function in its package. *)
SymbolName(c, m) == IF <<c, m>> \in DOMAIN Alias THEN Alias[<<c, m>>] ELSE <<c, m>>
FunctionName(f) == IF <<"function", f>> \in DOMAIN Alias THEN Alias[<<"function", f>>]
                   ELSE <<"function", f>>

(* The LLVM type of a method is its result and the class of `this`: its    *)
(* StapleFunction has no parameters (stapletype.h:57).                     *)
TypeOfMethod(c, m) == <<m.result, c>>
InitType(c) == <<"void", c>>
KillType == <<"void", OBJ>>
FunctionType(f) == <<"function", f>>

VARIABLES
  classes,       \* the classes in the order of their declarations
  methods,       \* their methods
  module,        \* the functions: [type, bodies] by name and number of the copy
  initOf,        \* mInitFunction of each class
  killOf,        \* mKillFunction
  defined,       \* the classes whose mClassDefValue and vtable are there
  baseFirst,     \* whether STP_OBJ_CLASS was set when the Cache was created
  step,          \* bodies generated
  budget,        \* statements left
  used,          \* the classes that `new` was generated for
  calls,         \* the functions called, with class and method of each
  outcome        \* "going", "done", or why the compiler crashed

program == <<classes, methods>>
vars == <<program, module, initOf, killOf, defined, baseFirst, step, budget, used, calls, outcome>>

(* The constructor of CompilerContext: a static init and a virtual kill.   *)
RootMethods == {"init", "kill"}
MethodsOf(c) == IF c = OBJ THEN RootMethods ELSE {m.name : m \in Range(methods[c])}

(* Functions before the methods of the classes.                            *)
MethodBodies(c) == [j \in DOMAIN methods[c] |-> [class |-> c, method |-> methods[c][j]]]

Bodies ==
  LET upTo[i \in 0 .. Len(classes)] ==
        IF i = 0 THEN [j \in DOMAIN Functions |-> [class |-> None, method |-> Functions[j]]]
                 ELSE upTo[i - 1] \o MethodBodies(classes[i])
  IN  upTo[Len(classes)]

NameOf(body) == IF body.class = None THEN FunctionName(body.method)
                ELSE SymbolName(body.class, body.method.name)

(* The caches and the module together, as the generator's functions pass   *)
(* them on.                                                                *)
Generated == [module |-> module, init |-> initOf, kill |-> killOf, defined |-> defined]

-----------------------------------------------------------------------------
(* LLVM's Module.                                                          *)

(* Function::Create: a name that is taken gets a number.                   *)
Copy(g, name) == Min({k \in 0 .. Cardinality(DOMAIN g.module) : <<name, k>> \notin DOMAIN g.module})

With(g, key, type, bodies) ==
  [g EXCEPT !.module = [k \in DOMAIN @ \cup {key} |->
     IF k = key THEN [type |-> type, bodies |-> bodies] ELSE @[k]]]

(* getOrInsertFunction, for a constant that may be of another type.        *)
GetOrInsert(g, name, type) ==
  IF <<name, 0>> \in DOMAIN g.module THEN g ELSE With(g, <<name, 0>>, type, 0)

-----------------------------------------------------------------------------
(* LLVMStapleObject, and LLVMBaseObject, which declares what the runtime   *)
(* defines.  The Cache maps STP_OBJ_CLASS to an LLVMBaseObject; if it is   *)
(* created before that variable is set, by the order of static             *)
(* initialisation, OBJ is given an object like the other classes.          *)

IsBase(c) == c = OBJ /\ baseFirst
BodyOf(c) == IF IsBase(c) THEN 0 ELSE 1

(* A mistake for the checks to catch: Function::Create without the module. *)
KillOf_Detached(g, c) ==
  IF g.kill[c] # None THEN g
  ELSE [g EXCEPT !.kill[c] = <<SymbolName(c, "kill"), Copy(g, SymbolName(c, "kill"))>>]

KillOf(g, c) ==
  IF g.kill[c] # None THEN g
  ELSE LET key == <<SymbolName(c, "kill"), Copy(g, SymbolName(c, "kill"))>>
       IN  [With(g, key, KillType, BodyOf(c)) EXCEPT !.kill[c] = key]

(* A function's own is created before that of the parent, which it calls.  *)
getKillFunction(g, c) ==
  LET after[i \in 0 .. Len(Ancestry[c])] ==
        IF i = 0 THEN g ELSE KillOf(after[i - 1], Ancestry[c][i])
  IN  after[Len(Ancestry[c])]

Virtual(c, m) == c # OBJ /\ m.name # "kill"

Entry(g, a, m) ==
  IF Virtual(a, m) THEN GetOrInsert(g, SymbolName(a, m.name), TypeOfMethod(a, m)) ELSE g

(* The entries of class a, and those of c with its ancestors' before them. *)
Entries(g, a) ==
  LET after[j \in 0 .. Len(methods[a])] ==
        IF j = 0 THEN g ELSE Entry(after[j - 1], a, methods[a][j])
  IN  IF a = OBJ THEN g ELSE after[Len(methods[a])]

unrollVtableValues(g, c) ==
  LET n == Len(Ancestry[c])
      after[i \in 0 .. n] == IF i = 0 THEN g ELSE Entries(after[i - 1], Ancestry[c][n - i + 1])
  IN  after[n]

(* A mistake for the checks to catch: the vtable is left for later.        *)
DefinitionOf_NoVtable(g, c) ==
  IF c \in g.defined \/ IsBase(c) THEN g
  ELSE [getKillFunction(g, c) EXCEPT !.defined = @ \cup {c}]

DefinitionOf(g, c) ==
  IF c \in g.defined \/ IsBase(c) THEN g
  ELSE [unrollVtableValues(getKillFunction(g, c), c) EXCEPT !.defined = @ \cup {c}]

(* The parent's definition is built first.                                 *)
getClassDefinition(g, c) ==
  LET n == Len(Ancestry[c])
      after[i \in 0 .. n] == IF i = 0 THEN g ELSE DefinitionOf(after[i - 1], Ancestry[c][n - i + 1])
  IN  after[n]

(* A mistake for the checks to catch: the function is not cached.          *)
InitOf_Uncached(g, c) ==
  LET key == <<SymbolName(c, "init"), Copy(g, SymbolName(c, "init"))>>
      created == With(g, key, InitType(c), BodyOf(c))
  IN  IF IsBase(c) THEN created ELSE getClassDefinition(created, c)

InitOf(g, c) ==
  IF g.init[c] # None THEN g
  ELSE LET key == <<SymbolName(c, "init"), Copy(g, SymbolName(c, "init"))>>
           created == [With(g, key, InitType(c), BodyOf(c)) EXCEPT !.init[c] = key]
       IN  IF IsBase(c) THEN created ELSE getClassDefinition(created, c)

getInitFunction(g, c) ==
  LET after[i \in 0 .. Len(Ancestry[c])] ==
        IF i = 0 THEN g ELSE InitOf(after[i - 1], Ancestry[c][i])
  IN  after[Len(Ancestry[c])]

-----------------------------------------------------------------------------

Init ==
  /\ classes \in {s \in [1 .. Cardinality(Class) -> Class] : Range(s) = Class}
  /\ methods \in MethodTables
  /\ module = [k \in {} |-> None]
  /\ initOf = [c \in CacheOwners |-> None]
  /\ killOf = [c \in CacheOwners |-> None]
  /\ defined = {}
  /\ baseFirst \in BOOLEAN
  /\ step = 0
  /\ budget = MaxStatements
  /\ used = {}
  /\ calls = {}
  /\ outcome = "declaring"

Become(g) ==
  /\ module' = g.module
  /\ initOf' = g.init
  /\ killOf' = g.kill
  /\ defined' = g.defined

Declare(g, f) == With(g, <<FunctionName(f), Copy(g, FunctionName(f))>>, FunctionType(f), 0)

(* LLVMFunctionForwardDeclVisitor: all functions are declared first.       *)
ForwardDeclare ==
  /\ outcome = "declaring"
  /\ LET after[i \in 0 .. Len(Functions)] ==
           IF i = 0 THEN Generated ELSE Declare(after[i - 1], Functions[i])
     IN  Become(after[Len(Functions)])
  /\ outcome' = "between"
  /\ UNCHANGED <<program, baseFirst, step, budget, used, calls>>

Body == Bodies[step + 1]

(* What ForwardDeclare has left in mValues for function i of the program: a *)
(* copy if there are functions of its name before it.                      *)
mValue(i) ==
  LET name == FunctionName(Functions[i])
  IN  <<name, Cardinality({j \in 1 .. i - 1 : FunctionName(Functions[j]) = name})>>

(* visit(NFunction): the function is known from its declaration.           *)
BeginFunction ==
  /\ outcome = "between" /\ step < Len(Functions)
  /\ module' = [module EXCEPT ![mValue(step + 1)].bodies = @ + 1]
  /\ outcome' = "going"
  /\ UNCHANGED <<program, initOf, killOf, defined, baseFirst, step, budget, used, calls>>

(* A mistake for the checks to catch: a new function for the method.       *)
BeginMethod_Create ==
  /\ outcome = "between" /\ step >= Len(Functions) /\ step < Len(Bodies)
  /\ LET name == NameOf(Body)
     IN  Become(With(Generated, <<name, Copy(Generated, name)>>,
                     TypeOfMethod(Body.class, Body.method), 1))
  /\ outcome' = "going"
  /\ UNCHANGED <<program, baseFirst, step, budget, used, calls>>

(* visit(NMethodFunction): the function may be there from a vtable.  One   *)
(* of another type comes as a bitcast, which is no Function; one with a    *)
(* body gets a second one behind it.                                       *)
BeginMethod ==
  /\ outcome = "between" /\ step >= Len(Functions) /\ step < Len(Bodies)
  /\ LET key == <<NameOf(Body), 0>>
         type == TypeOfMethod(Body.class, Body.method)
         g == GetOrInsert(Generated, key[1], type)
     IN  IF g.module[key].type = type
         THEN /\ Become(With(g, key, type, g.module[key].bodies + 1))
              /\ outcome' = "going"
         ELSE /\ outcome' = "taken"
              /\ UNCHANGED <<module, initOf, killOf, defined>>
  /\ UNCHANGED <<program, baseFirst, step, budget, used, calls>>

EndBody ==
  /\ outcome = "going"
  /\ step' = step + 1
  /\ outcome' = IF step' = Len(Bodies) THEN "done" ELSE "between"
  /\ UNCHANGED <<program, module, initOf, killOf, defined, baseFirst, budget, used, calls>>

(* new C: LLVMStapleObject's constructor leaves mClassNameValue,           *)
(* mClassDefValue and mClassVTableValue unset; `stray` is that they are    *)
(* found not to be null.                                                   *)
New(c, stray) ==
  /\ outcome = "going" /\ budget > 0
  /\ budget' = budget - 1
  /\ stray => ~ Range(Ancestry[c]) \ {OBJ} \subseteq defined
  /\ IF stray
     THEN outcome' = "uninitialised" /\ UNCHANGED <<module, initOf, killOf, defined, used>>
     ELSE /\ Become(getInitFunction(Generated, c))
          /\ used' = used \cup {c}
          /\ UNCHANGED outcome
  /\ UNCHANGED <<program, baseFirst, step, calls>>

(* x.m() for an x of class c.  The semantic pass has found m in c or one of *)
(* its ancestors; the function is looked up under the name of c.           *)
MethodCall(c, m) ==
  /\ outcome = "going" /\ budget > 0
  /\ \E a \in Range(Ancestry[c]) : m \in MethodsOf(a)
  /\ budget' = budget - 1
  /\ LET key == <<SymbolName(c, m), 0>>
     IN  IF key \in DOMAIN module
         THEN calls' = calls \cup {[class |-> c, name |-> m, key |-> key]} /\ UNCHANGED outcome
         ELSE calls' = calls \cup {[class |-> c, name |-> m, key |-> None]} /\ outcome' = "unlinked"
  /\ UNCHANGED <<program, module, initOf, killOf, defined, baseFirst, step, used>>

Stopped ==
  outcome \in {"done", "taken", "uninitialised", "unlinked"} /\ UNCHANGED vars

Next ==
  \/ ForwardDeclare \/ BeginFunction \/ BeginMethod \/ EndBody
  \/ \E c \in Class, stray \in BOOLEAN : New(c, stray)
  \/ \E c \in Class : \E m \in UNION {MethodsOf(a) : a \in CacheOwners} : MethodCall(c, m)
  \/ Stopped

Spec == Init /\ [][Next]_vars

-----------------------------------------------------------------------------
(* Properties.                                                             *)

Keys == DOMAIN module

(* The module maps names to functions, the caches name functions of it,    *)
(* and the generator is at one of its steps.                               *)
TypeOK ==
  /\ \A k \in Keys : module[k].bodies \in Nat /\ k[2] \in Nat
  /\ initOf \in [CacheOwners -> Keys \cup {None}]
  /\ killOf \in [CacheOwners -> Keys \cup {None}]
  /\ defined \subseteq CacheOwners /\ used \subseteq Class
  /\ step \in 0 .. Len(Bodies) /\ budget \in 0 .. MaxStatements
  /\ \A call \in calls : call.key \in Keys \cup {None}
  /\ outcome \in {"declaring", "between", "going", "done",
                   "taken", "uninitialised", "unlinked"}

(* Everything that wants to be a function of its own: the bodies of the    *)
(* program and what is generated for every class.                          *)
Claims ==
  {[name |-> NameOf(Bodies[i]), for |-> "body", of |-> i] : i \in DOMAIN Bodies}
    \cup {[name |-> SymbolName(c, m), for |-> m, of |-> c] : c \in CacheOwners, m \in RootMethods}

Contested(name) == \E p, q \in Claims : p # q /\ p.name = name /\ q.name = name

(* The runtime library defines obj_init and obj_kill.                      *)
InRuntime(name) == name \in {SymbolName(OBJ, m) : m \in RootMethods}

(* Init, kill and method functions are made by whoever needs them first,   *)
(* and again by whoever generates them.  As long as the program does not   *)
(* ask for a name twice, nothing is renamed and no function gets a second  *)
(* body, in this module or from the runtime it is linked with.             *)
OneBody ==
  \A k \in Keys : ~ Contested(k[1]) /\ (InRuntime(k[1]) => baseFirst) =>
    k[2] = 0 /\ module[k].bodies + (IF InRuntime(k[1]) THEN 1 ELSE 0) <= 1

(* A vtable is built from declarations, often before the methods are       *)
(* generated.  When the module is complete, every one of them has its body *)
(* and the type it was declared with.                                      *)
VtablesResolved ==
  outcome = "done" =>
    \A c \in defined : \A a \in Range(Ancestry[c]) \ {OBJ} : \A m \in Range(methods[a]) :
      Virtual(a, m) /\ ~ Contested(SymbolName(a, m.name)) =>
        LET key == <<SymbolName(a, m.name), 0>>
        IN  key \in Keys /\ module[key] = [type |-> TypeOfMethod(a, m), bodies |-> 1]

GeneratedBodies ==
  SubSeq(Bodies, 1, IF outcome \in {"declaring", "between", "done"} THEN step ELSE step + 1)

(* A call of a class's own method finds the function of that class and     *)
(* method if an object of the class or of a subclass was created by code   *)
(* generated before, which makes the vtable, or the method itself was.     *)
CallsFindMethods ==
  \A call \in calls : call.name \in MethodsOf(call.class) =>
    IF call.key = None
    THEN /\ \A d \in used : call.class \notin Range(Ancestry[d])
         /\ \A i \in DOMAIN GeneratedBodies :
              ~ (GeneratedBodies[i].class = call.class /\ GeneratedBodies[i].method.name = call.name)
    ELSE ~ Contested(call.key[1]) => \E m \in Range(methods[call.class]) :
           m.name = call.name /\ module[call.key].type = TypeOfMethod(call.class, m)

=============================================================================
