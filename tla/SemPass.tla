------------------------------ MODULE SemPass ------------------------------
(***************************************************************************)
(* The bodies of functions and methods in the semantic pass (sempass.cpp)  *)
(* and, for the programs it accepts, again in the code generator           *)
(* (codegen/LLVMCodeGenerator.cpp).  The two visitors walk over the same   *)
(* tree, in different orders, each with a stack of scopes of its own; the  *)
(* generator takes the types that the semantic pass found and looks up the *)
(* names again.                                                            *)
(*                                                                         *)
(* A behaviour chooses the statements of the bodies while the semantic     *)
(* pass visits them, then lets the generator visit what was chosen.        *)
(***************************************************************************)
EXTENDS Naturals, Sequences, FiniteSets, SequencesExt, FiniteSetsExt

CONSTANTS
  Classes,         \* the classes of the program in their order
  Field,           \* Field[c] maps the names of c's own fields to types
  Functions,       \* the names of the functions in their order
  Methods,         \* <<class, name>> of the methods, in their order
  Sig,             \* Sig[f] is the parameter and result of f or method f
  NamespaceName,   \* createNamespaceSymbolName: f behind its package
  Variable,        \* names of local variables
  VarType,         \* types of local variables, with Unknown names among them
  Constructed,     \* names in `new` expressions
  Called,          \* names in calls
  MaxStatements,   \* bound: statements of the program
  NoClass          \* the null StapleClass*

(* Integers of every width: isAssignable does not tell them apart.          *)
IntType == [kind |-> "int"]
Pointer(c) == [kind |-> "pointer", to |-> c]
FieldOf(t) == [kind |-> "field", of |-> t]
Function(f) == [kind |-> "function", name |-> f]
Null == [kind |-> "null"]

(* What a name is declared as, and the declaration: the type alone does    *)
(* not say whether two uses mean the same.                                 *)
Decl(type, at) == [type |-> type, at |-> at]
Undeclared == Decl(Null, <<>>)

(* The lists of a program.  A body is known by its class and name, so that *)
(* there are no two of one name.                                           *)
ASSUME Lists ==
  /\ Classes \in Seq(Range(Classes)) /\ NoClass \notin Range(Classes)
  /\ Functions \in Seq(Range(Functions)) /\ IsInjective(Functions)
  /\ Methods \in Seq(Range(Classes) \X {m[2] : m \in Range(Methods)}) /\ IsInjective(Methods)

(* Unknown types are those of variables; one in a signature is an error    *)
(* before any body is visited.                                             *)
ASSUME Types ==
  /\ \A t \in VarType : t.kind \in {"int", "pointer"}
  /\ \A f \in Range(Functions) \cup {m[2] : m \in Range(Methods)} :
       Sig[f].type \in {IntType} \cup {Pointer(c) : c \in Range(Classes)}

(* Statements and expressions of the bodies.  Functions have one parameter *)
(* and are only called; arguments are names of variables.                  *)
ASSUME VariablesOnly == Variable \cap Range(Functions) = {}
ASSUME BoundNatural == MaxStatements \in Nat

Literal == [op |-> "literal"]
Read(x) == [op |-> "read", name |-> x]
Simple == {Literal} \cup {Read(x) : x \in Variable}
Expr == Simple
        \cup {[op |-> "new", class |-> c] : c \in Constructed}
        \cup [op : {"call"}, name : Called, arg : Variable]

FunctionBodies == [i \in DOMAIN Functions |-> [class |-> NoClass, name |-> Functions[i]]]
MethodBodies == [i \in DOMAIN Methods |-> [class |-> Methods[i][1], name |-> Methods[i][2]]]

(* The order in which each visitor comes to the bodies.                    *)
Checked == MethodBodies \o FunctionBodies
Generated == FunctionBodies \o MethodBodies

VARIABLES
  phase,          \* the pass of the compiler, or how it ended
  step,           \* how many functions, classes or bodies the pass has done
  scope,          \* the scopes of the semantic pass, innermost last
  currentClass,   \* its class
  errors,         \* whether it has logged an error (numErrors > 0)
  budget,         \* statements left
  tree,           \* tree[b] is what was visited in body b, with its meaning
  symbols,        \* the scopes of the generator, innermost last
  pc,             \* the statement of the body that the generator comes to
  agreed          \* whether every name had the meaning it was checked with

vars == <<phase, step, scope, currentClass, errors, budget, tree, symbols, pc, agreed>>

(* The types of the scopes of both visitors, of the tree between them, and *)
(* of their places in it.                                                  *)
TypeOK ==
  /\ phase \in {"functions", "classes", "bodies", "body", "checked", "crashed",
                "rejected", "forward", "generate", "emit", "done"}
  /\ step \in 0 .. Len(Checked) + Len(Classes)   \* of whichever list is visited
  /\ \A s \in Range(scope) \cup Range(symbols) : \A x \in DOMAIN s :
       LET t == s[x].type
       IN  /\ t.kind \in {"int", "pointer", "field", "function"}
           /\ t.kind = "pointer" => t.to \in Range(Classes)
  /\ currentClass \in Range(Classes) \cup {NoClass}
  /\ errors \in BOOLEAN
  /\ budget \in 0 .. MaxStatements
  /\ DOMAIN tree = Range(Checked)
  /\ agreed \in BOOLEAN

Empty == [x \in {} |-> Undeclared]

Init ==
  /\ phase = "functions"
  /\ step = 0
  /\ scope = <<Empty>>
  /\ currentClass = NoClass
  /\ errors = FALSE
  /\ budget = MaxStatements
  /\ tree = [b \in Range(Checked) |-> <<>>]
  /\ symbols = <<Empty>>
  /\ pc = 1
  /\ agreed = TRUE

-----------------------------------------------------------------------------
(* Scopes, of both visitors.                                               *)

Lookup(st, x) ==
  LET hits == {i \in DOMAIN st : x \in DOMAIN st[i]}
  IN  IF hits = {} THEN Undeclared ELSE st[Max(hits)][x]

Define(st, new) ==
  [st EXCEPT ![Len(st)] =
     [x \in DOMAIN new \cup DOMAIN @ |-> IF x \in DOMAIN new THEN new[x] ELSE @[x]]]

Push(st) == Append(st, Empty)
Pop(st) == Front(st)

One(x, d) == [y \in {x} |-> d]
FunctionDecl(f) == Decl(Function(f), <<"function", f>>)
ParameterOf(b) ==
  One(Sig[b.name].param, Decl(Sig[b.name].type, <<"parameter", b>>))
Fields(c) == [x \in DOMAIN Field[c] |-> Decl(FieldOf(Field[c][x]), <<"field", c, x>>)]

-----------------------------------------------------------------------------
(* The passes before the bodies.                                           *)

(* "First pass global functions": all are in the outermost scope before    *)
(* any body is visited.                                                    *)
DefineFunction ==
  /\ phase = "functions"
  /\ step < Len(Functions)
  /\ scope' = Define(scope, One(Functions[step + 1], FunctionDecl(Functions[step + 1])))
  /\ step' = step + 1
  /\ UNCHANGED <<phase, currentClass, errors, budget, tree, symbols, pc, agreed>>

EndFunctions ==
  /\ phase = "functions"
  /\ step = Len(Functions)
  /\ phase' = "classes"
  /\ step' = 0
  /\ UNCHANGED <<scope, currentClass, errors, budget, tree, symbols, pc, agreed>>

(* "Class fields and methods" (see ClassTable) makes each class current.   *)
VisitClass ==
  /\ phase = "classes"
  /\ step < Len(Classes)
  /\ currentClass' = Classes[step + 1]
  /\ step' = step + 1
  /\ UNCHANGED <<phase, scope, errors, budget, tree, symbols, pc, agreed>>

EndClasses ==
  /\ phase = "classes"
  /\ step = Len(Classes)
  /\ phase' = "bodies"
  /\ step' = 0
  /\ UNCHANGED <<scope, currentClass, errors, budget, tree, symbols, pc, agreed>>

-----------------------------------------------------------------------------
(* The bodies, in the semantic pass.                                       *)

Body == Checked[step + 1]

(* A method's body sees the fields of the class that is current, which is  *)
(* still the one that the pass over fields came to last.                   *)
EnterBody ==
  /\ phase = "bodies"
  /\ step < Len(Checked)
  /\ LET members == IF Body.class = NoClass THEN Empty ELSE Fields(currentClass)
     IN  scope' = Define(Define(Push(scope), members), ParameterOf(Body))
  /\ phase' = "body"
  /\ UNCHANGED <<step, currentClass, errors, budget, tree, symbols, pc, agreed>>

EndBody ==
  /\ phase = "body"
  /\ Len(scope) = 2
  /\ scope' = Pop(scope)
  /\ phase' = "bodies"
  /\ step' = step + 1
  /\ UNCHANGED <<currentClass, errors, budget, tree, symbols, pc, agreed>>

EndBodies ==
  /\ phase = "bodies"
  /\ step = Len(Checked)
  /\ scope' = Pop(scope)
  /\ currentClass' = NoClass
  /\ phase' = "checked"
  /\ UNCHANGED <<step, errors, budget, tree, symbols, pc, agreed>>

(* rhs->isAssignable(lhs), for types that are not null.                    *)
Assignable(rhs, lhs) ==
  LET value == IF rhs.kind = "field" THEN rhs.of ELSE rhs
  IN  \/ value = IntType /\ lhs \in {IntType, FieldOf(IntType)}
      \/ value.kind = "pointer" /\ lhs = value

(* The visits of expressions: their type, whether an error is logged, and  *)
(* whether the compiler dereferences a null pointer on the way.  A name    *)
(* that is not declared has the null type, which NLoad, NNew and           *)
(* NFunctionCall give to dyn_cast, and a call of what is no function is    *)
(* left without a type.                                                    *)
Typed(t) == [type |-> t, error |-> FALSE, crash |-> t = Null]

VisitSimple(e) == IF e = Literal THEN Typed(IntType) ELSE Typed(Lookup(scope, e.name).type)

VisitCall(e) ==
  LET callee == Lookup(scope, e.name).type
      arg == Typed(Lookup(scope, e.arg).type)
  IN  IF callee.kind = "function"
      THEN [type |-> Sig[callee.name].result,
            crash |-> arg.crash,
            error |-> ~arg.crash /\ ~Assignable(arg.type, Sig[callee.name].type)]
      ELSE [type |-> Null, crash |-> callee = Null, error |-> TRUE]

Visit(e) ==
  CASE e \in Simple -> VisitSimple(e)
    [] e.op = "new" -> Typed(IF e.class \in Range(Classes) THEN Pointer(e.class) ELSE Null)
    [] e.op = "call" -> VisitCall(e)

(* The declarations that an expression means.                              *)
Names(e) == CASE e.op = "read" -> {e.name}
              [] e.op = "call" -> {e.name, e.arg}
              [] OTHER -> {}

Meaning(st, names) == [x \in names |-> Lookup(st, x).at]

Statement ==
  /\ phase = "body"
  /\ budget > 0
  /\ budget' = budget - 1
  /\ UNCHANGED <<step, currentClass, symbols, pc, agreed>>

(* The statement s is checked: the compiler crashes, or goes on with it.   *)
Check(s, crash, error) ==
  /\ phase' = IF crash THEN "crashed" ELSE phase
  /\ errors' = (errors \/ error)
  /\ tree' = [tree EXCEPT ![Body] = Append(@, s)]

Declare_Unchecked(x, t) ==     \* a mistake for the checks to catch
  /\ Statement
  /\ Check([op |-> "declare", name |-> x, type |-> t], FALSE, FALSE)
  /\ scope' = Define(scope, One(x, Decl(t, <<"local", Body, Len(tree[Body]) + 1>>)))

(* T x;  not defined if the type is unknown.  The node's assignmentExpr is *)
(* not initialised (node.h:399), and visited if it happens not to be null. *)
DeclareStray(x, t) ==
  /\ Statement
  /\ Check([op |-> "declare", name |-> x, type |-> t], TRUE, FALSE)
  /\ UNCHANGED scope

Declare(x, t) ==
  /\ Statement
  /\ LET known == t.kind # "pointer" \/ t.to \in Range(Classes)
         d == Decl(t, <<"local", Body, Len(tree[Body]) + 1>>)
     IN  /\ Check([op |-> "declare", name |-> x, type |-> t], FALSE, ~known)
         /\ scope' = IF known THEN Define(scope, One(x, d)) ELSE scope

(* x = e;  isAssignable is called on and with types that may be null.      *)
Assign(x, e) ==
  /\ Statement
  /\ LET lhs == Lookup(scope, x).type
         rhs == Visit(e)
         crash == rhs.crash \/ rhs.type = Null \/ lhs = Null
     IN  Check([op |-> "assign", name |-> x, expr |-> e, to |-> lhs, from |-> rhs.type,
                means |-> Meaning(scope, {x} \cup Names(e))],
               crash, rhs.error \/ (~crash /\ ~Assignable(rhs.type, lhs)))
  /\ UNCHANGED scope

(* f(a);                                                                   *)
Call(e) ==
  /\ Statement
  /\ e.op = "call"
  /\ Check([op |-> "call", expr |-> e, means |-> Meaning(scope, Names(e))],
           Visit(e).crash, Visit(e).error)
  /\ UNCHANGED scope

(* return e;                                                               *)
Return(e) ==
  /\ Statement
  /\ LET v == Visit(e)
         crash == v.crash \/ v.type = Null
     IN  Check([op |-> "return", expr |-> e, from |-> v.type,
                to |-> Sig[Body.name].result, means |-> Meaning(scope, Names(e))],
               crash, v.error \/ (~crash /\ ~Assignable(v.type, Sig[Body.name].result)))
  /\ UNCHANGED scope

(* if(e) {  An integer field is not a StapleInt, and refused.              *)
BeginIf(e) ==
  /\ Statement
  /\ LET v == Visit(e)
         crash == v.crash \/ v.type = Null
     IN  Check([op |-> "if", expr |-> e, means |-> Meaning(scope, Names(e))],
               crash, v.error \/ v.type # IntType)
  /\ scope' = Push(scope)

(* }                                                                       *)
EndIf ==
  /\ phase = "body"
  /\ Len(scope) > 2
  /\ scope' = Pop(scope)
  /\ tree' = [tree EXCEPT ![Body] = Append(@, [op |-> "end"])]
  /\ UNCHANGED <<phase, step, currentClass, errors, budget, symbols, pc, agreed>>

-----------------------------------------------------------------------------
(* The driver stops after errors; otherwise the generator starts.          *)

DecideToGenerate ==
  /\ phase = "checked"
  /\ phase' = IF errors THEN "rejected" ELSE "forward"
  /\ step' = 0
  /\ UNCHANGED <<scope, currentClass, errors, budget, tree, symbols, pc, agreed>>

-----------------------------------------------------------------------------
(* The bodies, in the code generator.                                      *)

(* A function is defined by its name and by its name in the package.       *)
ForwardDeclare ==
  /\ phase = "forward"
  /\ step < Len(Functions)
  /\ LET f == Functions[step + 1]
     IN  symbols' = Define(symbols,
                      [x \in {f, NamespaceName[f]} |-> FunctionDecl(f)])
  /\ step' = step + 1
  /\ UNCHANGED <<phase, scope, currentClass, errors, budget, tree, pc, agreed>>

BeginGenerating ==
  /\ phase = "forward"
  /\ step = Len(Functions)
  /\ phase' = "generate"
  /\ step' = 0
  /\ UNCHANGED <<scope, currentClass, errors, budget, tree, symbols, pc, agreed>>

Emitted == Generated[step + 1]

(* A method is defined by class and name for those that follow; it sees    *)
(* its own name, and the fields of the class it is in.  Its parameters are *)
(* not there: a StapleMethodFunction has none (stapletype.h:57), and the   *)
(* generator goes by that type.                                            *)
BeginEmit ==
  /\ phase = "generate"
  /\ step < Len(Generated)
  /\ LET b == Emitted
         own == IF b.class = NoClass THEN Empty
                ELSE One(b.name, Decl(Function(b.name), <<"method", b>>))
         members == IF b.class = NoClass THEN Empty ELSE Fields(b.class)
         linked == IF b.class = NoClass THEN Empty
                   ELSE One(<<b.class, b.name>>, Decl(Function(b.name), <<"method", b>>))
         params == IF b.class = NoClass THEN ParameterOf(b) ELSE Empty
     IN  symbols' = Define(Define(Define(Push(Define(symbols, linked)), own), members), params)
  /\ phase' = "emit"
  /\ pc' = 1
  /\ UNCHANGED <<step, scope, currentClass, errors, budget, tree, agreed>>

Current == tree[Emitted][pc]

Emit(op) ==
  /\ phase = "emit"
  /\ pc <= Len(tree[Emitted])
  /\ Current.op = op
  /\ pc' = pc + 1
  /\ UNCHANGED <<step, scope, currentClass, errors, budget, tree>>

(* Names are looked up in st; the value of one that is not found is null,  *)
(* and LLVM crashes on it.                                                 *)
Resolve(st, means) ==
  LET found == Meaning(st, DOMAIN means)
  IN  /\ phase' = IF \E x \in DOMAIN means : found[x] = <<>> THEN "crashed" ELSE "emit"
      /\ agreed' = (agreed /\ \A x \in DOMAIN means : found[x] \in {<<>>, means[x]})

EmitDeclare ==
  /\ Emit("declare")
  /\ symbols' = Define(symbols, One(Current.name,
                  Decl(Current.type, <<"local", Emitted, pc>>)))
  /\ UNCHANGED <<phase, agreed>>

EmitUse ==
  /\ \E op \in {"assign", "call", "return"} : Emit(op)
  /\ Resolve(symbols, Current.means)
  /\ UNCHANGED symbols

(* The block comes before the condition.                                   *)
EmitIf ==
  /\ Emit("if")
  /\ symbols' = Push(symbols)
  /\ UNCHANGED <<phase, agreed>>

(* The `if` that the "end" at pc belongs to.                               *)
Opener ==
  LET code == tree[Emitted]
      Depth(i) == Cardinality({j \in i .. pc : code[j].op = "if"})
                  - Cardinality({j \in i .. pc : code[j].op = "end"})
  IN  code[Max({i \in 1 .. pc : code[i].op = "if" /\ Depth(i) = 0})]

(* A mistake for the checks to catch: the condition is looked up before    *)
(* the block is left.                                                      *)
EmitEnd_InBlock ==
  /\ Emit("end")
  /\ symbols' = Pop(symbols)
  /\ Resolve(symbols, Opener.means)

(* `}` after which the condition of the `if` is generated, too.              *)
EmitEnd ==
  /\ Emit("end")
  /\ symbols' = Pop(symbols)
  /\ Resolve(symbols', Opener.means)

EndEmit ==
  /\ phase = "emit"
  /\ pc > Len(tree[Emitted])
  /\ symbols' = Pop(symbols)
  /\ phase' = "generate"
  /\ step' = step + 1
  /\ UNCHANGED <<scope, currentClass, errors, budget, tree, pc, agreed>>

EndGenerating ==
  /\ phase = "generate"
  /\ step = Len(Generated)
  /\ phase' = "done"
  /\ UNCHANGED <<step, scope, currentClass, errors, budget, tree, symbols, pc, agreed>>

Stopped == phase \in {"crashed", "rejected", "done"} /\ UNCHANGED vars

-----------------------------------------------------------------------------

Analyse ==
  \/ DefineFunction \/ EndFunctions \/ VisitClass \/ EndClasses
  \/ EnterBody \/ EndBody \/ EndBodies
  \/ \E x \in Variable, t \in VarType : Declare(x, t) \/ DeclareStray(x, t)
  \/ \E x \in Variable, e \in Expr : Assign(x, e)
  \/ \E e \in Expr : Call(e) \/ Return(e) \/ BeginIf(e)
  \/ EndIf

Generate ==
  \/ ForwardDeclare \/ BeginGenerating \/ BeginEmit
  \/ EmitDeclare \/ EmitUse \/ EmitIf \/ EmitEnd
  \/ EndEmit \/ EndGenerating

Next == Analyse \/ DecideToGenerate \/ Generate \/ Stopped

Spec == Init /\ [][Next]_vars

-----------------------------------------------------------------------------

(* Programs of which each visitor knows the names in another way, and the  *)
(* other's way leads elsewhere, are these: a function's name in its        *)
(* package is another function's name; or what a method is checked with,   *)
(* its parameters and the fields of the last class, or a function it names *)
(* is hidden by what it is generated with, its class's fields, its own     *)
(* name and the symbols of functions and methods.                          *)
Linked == Range(Functions) \cup {NamespaceName[f] : f \in Range(Functions)} \cup Range(Methods)

Lost(m) == {Sig[m[2]].param}
           \cup IF m[1] = Last(Classes) THEN {} ELSE DOMAIN Field[Last(Classes)]

Unambiguous ==
  /\ \A f \in Range(Functions) : NamespaceName[f] \in Range(Functions) => NamespaceName[f] = f
  /\ \A m \in Range(Methods) :
       /\ m[1] # Last(Classes) => DOMAIN Field[m[1]] \cap Range(Functions) = {}
       /\ Lost(m) \cap (Linked \cup {m[2]} \cup DOMAIN Field[m[1]]) = {}
       /\ {m, m[2]} \cap Range(Functions) = {}

(* In the programs that are accepted, a name means to the generator the    *)
(* declaration that the semantic pass has checked it with, or nothing, and *)
(* then the compiler crashes instead of compiling something else.          *)
ResolutionAgrees == Unambiguous => agreed

(* README.md:40-45: a method reads and assigns the fields of its class, in *)
(* whatever order the classes are declared.                                *)
MethodsSeeTheirFields ==
  phase = "body" /\ Body.class # NoClass /\ tree[Body] = <<>> =>
    \A x \in DOMAIN Field[Body.class] \ {Sig[Body.name].param} :
      Lookup(scope, x).at = <<"field", Body.class, x>>

=============================================================================
