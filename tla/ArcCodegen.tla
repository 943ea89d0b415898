----------------------------- MODULE ArcCodegen ----------------------------
(***************************************************************************)
(* The reference counting that the compiler adds to a function: what       *)
(* codegen/LLVMCodeGenerator.cpp emits for local variables, `new`,         *)
(* assignments, calls, `if` and `return`, where the cleanups of a scope    *)
(* insert their releases, and what the function then does when it runs.    *)
(*                                                                         *)
(* A behaviour first chooses the statements of a function, one by one, as  *)
(* the visitor walks over them, and then executes the instructions.  The   *)
(* cleanups decide where to insert while the code around that place may    *)
(* not be there yet: an object is released after the instruction that is   *)
(* its last user so far, a variable before the instruction that is the     *)
(* last one so far of the basic block that declared it.                    *)
(***************************************************************************)
EXTENDS Integers, Sequences, FiniteSets, SequencesExt

CONSTANTS
  Local,           \* names of local variables of type pointer to class
  Param,           \* names of parameters of that type
  Field,           \* names of fields of that type, of `this` in a method
  MaxStatements,   \* bound: statements in the function, but for its own return
  MaxNesting,      \* bound: depth of `if` statements in one another
  Returned         \* what the program returns, and where

ASSUME NamesDisjoint == Local \cap Param = {} /\ Field \cap (Local \cup Param) = {}
ASSUME BoundsNatural == MaxStatements \in Nat /\ MaxNesting \in Nat
ASSUME ReturnKinds ==
  Returned \subseteq {"integer", "variable", "new_object", "nothing", "in_if"}

Name == Local \cup Param \cup Field

(* Objects and the values of instructions share one numbering: the value   *)
(* of an instruction `new` is the object that it creates.                  *)
Null == 0
Caller == 1                        \* the object the caller passes and owns
Value == 1 .. MaxStatements + 2
Garbage == -1                      \* the content of memory never written

ASSUME NamesFinite == IsFiniteSet(Name) /\ Name \cap Value = {}

VARIABLES
  phase,     \* "generate", "run", or how the compiler or the function ended
  budget,    \* statements left
  declared,  \* the local variables declared so far
  values,    \* the number of values so far
  blocks,    \* blocks[b] is the sequence of instructions of basic block b
  scopes,    \* the stack of CodeGenBlock, innermost last
  pc,        \* the instruction to execute: block and index
  env,       \* the content of the alloca of each variable
  vals,      \* the result of each instruction that has one
  refs,      \* the reference counts of the objects in memory
  result     \* the object returned, if any

generator == <<budget, declared, values, blocks, scopes>>
machine == <<pc, env, vals, refs, result>>
vars == <<phase, generator, machine>>

End == {"returned", "freed_memory", "null", "wild"}

(* An instruction is about a value, a variable or a block: `on`, and `to`   *)
(* what it defines, stores into or may branch to as well.                  *)
Ops == {"null", "new", "load", "init", "call", "store", "plain_store", "ret",
        "release", "release_var", "br", "condbr"}

(* The blocks hold known instructions about variables and values that there *)
(* are, scopes are about existing blocks, a running function is at one of  *)
(* its instructions, and counts do not go below zero: stp_release frees    *)
(* before that.                                                            *)
TypeOK ==
  /\ phase \in {"generate", "crashed", "malformed", "run"} \cup End
  /\ budget \in 0 .. MaxStatements
  /\ declared \subseteq Local
  /\ values \in Value
  /\ \A b \in DOMAIN blocks : \A i \in DOMAIN blocks[b] :
       /\ blocks[b][i].op \in Ops
       /\ blocks[b][i].op \in {"null", "release_var"} => blocks[b][i].on \in Local
  /\ \A s \in Range(scopes) : {s.first, s.bb} \subseteq DOMAIN blocks
  /\ phase = "run" => pc[1] \in DOMAIN blocks /\ pc[2] \in DOMAIN blocks[pc[1]]
  /\ env \in [Name -> Value \cup {Null, Garbage}]
  /\ vals \in [Value -> Value \cup {Null, Garbage}]
  /\ DOMAIN refs \subseteq Value /\ \A o \in DOMAIN refs : refs[o] \in Nat
  /\ result \in Value \cup {Null, Garbage}

-----------------------------------------------------------------------------
(* Generating code.                                                        *)

NewScope(kind, b, thenBB) ==
  [kind |-> kind, first |-> b, bb |-> b, then |-> thenBB,
   names |-> {}, cleanups |-> <<>>, closed |-> FALSE]

(* The parameters are stored to allocas of their own, without a retain.    *)
(* The fields are as the init function leaves them: the semantic pass lets *)
(* no pointer be stored in a field (StaplePointer::isAssignable).          *)
Init ==
  /\ phase = "generate"
  /\ budget = MaxStatements
  /\ declared = {}
  /\ values = 1
  /\ blocks = << <<>> >>
  /\ scopes = <<NewScope("function", 1, 1)>>
  /\ pc = <<1, 1>>
  /\ env = [x \in Name |-> IF x \in Param THEN Caller
                         ELSE IF x \in Field THEN Null ELSE Garbage]
  /\ vals = [v \in Value |-> Garbage]
  /\ refs = [o \in {Caller} |-> 0]
  /\ result = Null

Scope == Last(scopes)
WithScope(s) == Append(Front(scopes), s)
Assigned == Param \cup UNION {s.names : s \in Range(scopes)}
Visible == Assigned \cup Field

I(op, on, to) == [op |-> op, on |-> on, to |-> to]

(* A statement may come next, and is appended to the current block.  What  *)
(* follows a return in its block is left out.                              *)
Statement ==
  /\ phase = "generate"
  /\ budget > 0
  /\ ~Scope.closed
  /\ budget' = budget - 1
  /\ UNCHANGED <<phase, machine>>

ReturnStatement ==
  /\ phase = "generate"
  /\ ~Scope.closed
  /\ \/ Len(scopes) = 1 /\ UNCHANGED budget
     \/ Len(scopes) > 1 /\ "in_if" \in Returned /\ budget > 0 /\ budget' = budget - 1
  /\ UNCHANGED <<phase, declared, machine>>

Emit(code) == blocks' = [blocks EXCEPT ![Scope.bb] = @ \o code]

Cleanup(kind, on) == [kind |-> kind, on |-> on, bb |-> Scope.bb]
WithCleanup(s, kind, on) == [s EXCEPT !.cleanups = Append(@, Cleanup(kind, on))]

(* T* x;  The alloca is cleared, and released when the scope ends.         *)
Declare(x) ==
  /\ Statement
  /\ x \in Local \ declared
  /\ declared' = declared \cup {x}
  /\ Emit(<<I("null", x, Null)>>)
  /\ scopes' = WithScope(WithCleanup([Scope EXCEPT !.names = @ \cup {x}], "variable", x))
  /\ UNCHANGED values

Fresh == values + 1

(* `new T` as an operand: the object is released when the scope ends.      *)
NewOperand(user) ==
  /\ values' = Fresh
  /\ Emit(<<I("new", Fresh, Null), I("init", Fresh, Null), user>>)

(* A mistake for the checks to catch: no cleanup.                          *)
AssignNew_Plain(x) ==
  /\ Statement
  /\ x \in Assigned
  /\ NewOperand(I("store", Fresh, x))
  /\ UNCHANGED <<declared, scopes>>

(* x = new T;                                                              *)
AssignNew(x) ==
  /\ Statement
  /\ x \in Assigned
  /\ NewOperand(I("store", Fresh, x))
  /\ scopes' = WithScope(WithCleanup(Scope, "object", Fresh))
  /\ UNCHANGED declared

(* x = y;  The type of a field that is read is a StapleField and not the   *)
(* StaplePointer that visit(NAssignment) asks for: it is stored as it is.  *)
Assign(x, y) ==
  /\ Statement
  /\ x \in Assigned /\ y \in Visible
  /\ values' = Fresh
  /\ Emit(<<I("load", y, Fresh), I(IF y \in Field THEN "plain_store" ELSE "store", Fresh, x)>>)
  /\ UNCHANGED <<declared, scopes>>

(* f(new T);                                                               *)
CallNew ==
  /\ Statement
  /\ NewOperand(I("call", Fresh, Null))
  /\ scopes' = WithScope(WithCleanup(Scope, "object", Fresh))
  /\ UNCHANGED declared

(* f(x);  The callee reads the object it is given.                         *)
CallWith(x) ==
  /\ Statement
  /\ x \in Visible
  /\ values' = Fresh
  /\ Emit(<<I("load", x, Fresh), I("call", Fresh, Null)>>)
  /\ UNCHANGED <<declared, scopes>>

(* return 0;                                                               *)
ReturnInteger ==
  /\ ReturnStatement
  /\ "integer" \in Returned
  /\ Emit(<<I("ret", Null, Null)>>)
  /\ scopes' = WithScope([Scope EXCEPT !.closed = TRUE])
  /\ UNCHANGED values

(* return x;                                                               *)
ReturnVariable(x) ==
  /\ ReturnStatement
  /\ "variable" \in Returned
  /\ x \in Visible
  /\ values' = Fresh
  /\ Emit(<<I("load", x, Fresh), I("ret", Fresh, Null)>>)
  /\ scopes' = WithScope([Scope EXCEPT !.closed = TRUE])

(* return new T;                                                           *)
ReturnNew ==
  /\ ReturnStatement
  /\ "new_object" \in Returned
  /\ NewOperand(I("ret", Fresh, Null))
  /\ scopes' = WithScope(WithCleanup([Scope EXCEPT !.closed = TRUE], "object", Fresh))

-----------------------------------------------------------------------------
(* The end of a scope: each cleanup inserts a release, in their order.     *)

InsertAfter(code, n, new) == SubSeq(code, 1, n) \o new \o SubSeq(code, n + 1, Len(code))

Users(code, v) ==
  {i \in DOMAIN code : code[i].op \in {"init", "call", "store", "plain_store", "ret"}
                         /\ code[i].on = v}

(* ReleaseObj goes before the instruction that follows the last user; the  *)
(* builder gets a null pointer if there is none.                           *)
getLastUsage(code, v) == CHOOSE i \in Users(code, v) : \A j \in Users(code, v) : j <= i

(* Mistakes for the checks to catch: releasing an object as soon as it is  *)
(* initialised; a variable in front of its block, or behind it.            *)
scopeOut_Early(bs, c) ==
  LET code == bs[c.bb]
      first == CHOOSE i \in Users(code, c.on) : code[i].op = "init"
  IN  [bs EXCEPT ![c.bb] =
         IF c.kind = "object"
         THEN InsertAfter(code, first, <<I("release", c.on, Null)>>)
         ELSE InsertAfter(code, Len(code) - 1, <<I("release_var", c.on, Null)>>)]

scopeOut_AtEnd(bs, c) ==
  LET code == bs[c.bb]
  IN  [bs EXCEPT ![c.bb] =
         IF c.kind = "object"
         THEN InsertAfter(code, getLastUsage(code, c.on), <<I("release", c.on, Null)>>)
         ELSE Append(code, I("release_var", c.on, Null))]

(* ScopeVarRelease goes before the last instruction of its block.          *)
scopeOut(bs, c) ==
  LET code == bs[c.bb]
  IN  [bs EXCEPT ![c.bb] =
         IF c.kind = "object"
         THEN InsertAfter(code, getLastUsage(code, c.on), <<I("release", c.on, Null)>>)
         ELSE InsertAfter(code, Len(code) - 1, <<I("release_var", c.on, Null)>>)]

doCleanup ==
  LET cleaned[i \in 0 .. Len(Scope.cleanups)] ==
        IF i = 0 THEN blocks ELSE scopeOut(cleaned[i - 1], Scope.cleanups[i])
  IN  cleaned[Len(Scope.cleanups)]

(* The block of an `if` ends anywhere, a function at its return, if any.   *)
Ends == Len(scopes) > 1 \/ Scope.closed \/ "nothing" \in Returned

(* The last user of an object ends its block: the compiler crashes.        *)
NoPlaceForRelease ==
  \E c \in Range(Scope.cleanups) :
    c.kind = "object" /\ getLastUsage(blocks[c.bb], c.on) = Len(blocks[c.bb])

Crash ==
  /\ phase = "generate"
  /\ Ends
  /\ NoPlaceForRelease
  /\ phase' = "crashed"
  /\ UNCHANGED <<generator, machine>>

(* An `if` begins with its blocks; its condition is generated after them.  *)
BeginThen ==
  /\ Statement
  /\ Len(scopes) <= MaxNesting
  /\ blocks' = Append(blocks, <<>>)
  /\ scopes' = Append(scopes, NewScope("then", Len(blocks) + 1, Len(blocks) + 1))
  /\ UNCHANGED <<declared, values>>

(* A branch that is not a block has no basic block for a value, nor a      *)
(* value at all (but for a declaration): the compiler crashes.             *)
BranchIsNoBlock ==
  /\ phase = "generate" /\ budget > 0 /\ ~Scope.closed
  /\ Len(scopes) <= MaxNesting
  /\ phase' = "crashed"
  /\ UNCHANGED <<generator, machine>>

BeginElse ==
  /\ phase = "generate"
  /\ Scope.kind = "then"
  /\ ~NoPlaceForRelease
  /\ blocks' = Append(doCleanup, <<>>)
  /\ scopes' = WithScope(NewScope("else", Len(blocks) + 1, Scope.first))
  /\ UNCHANGED <<phase, budget, declared, values, machine>>

(* The branches to the merge block are appended to the block each branch   *)
(* began with, the condition to the block that the parent has come to.     *)
EndIf ==
  /\ phase = "generate"
  /\ Len(scopes) > 1
  /\ ~NoPlaceForRelease
  /\ LET merge == Len(blocks) + 1
         parent == scopes[Len(scopes) - 1]
         else == IF Scope.kind = "else" THEN Scope.first ELSE merge
         code == [Append(doCleanup, <<>>) EXCEPT
                    ![Scope.then] = Append(@, I("br", merge, Null))]
         both == IF Scope.kind = "else"
                 THEN [code EXCEPT ![else] = Append(@, I("br", merge, Null))]
                 ELSE code
     IN  /\ blocks' = [both EXCEPT ![parent.bb] = Append(@, I("condbr", Scope.then, else))]
         /\ scopes' = Append(Front(Front(scopes)), [parent EXCEPT !.bb = merge])
  /\ UNCHANGED <<phase, budget, declared, values, machine>>

Terminators(code) == {i \in DOMAIN code : code[i].op \in {"ret", "br", "condbr"}}
WellFormedModule(bs) == \A b \in DOMAIN bs : Terminators(bs[b]) = {Len(bs[b])}

(* Nothing else ends the last block; the module is written unverified.     *)
EndFunction ==
  /\ phase = "generate"
  /\ Len(scopes) = 1
  /\ Ends
  /\ ~NoPlaceForRelease
  /\ blocks' = doCleanup
  /\ scopes' = <<>>
  /\ phase' = IF WellFormedModule(doCleanup) THEN "run" ELSE "malformed"
  /\ UNCHANGED <<budget, declared, values, machine>>

-----------------------------------------------------------------------------
(* Running the function.  The runtime's operations are those of            *)
(* StapleRuntime, one call at a time.                                      *)

Current == blocks[pc[1]][pc[2]]

Execute(op) ==
  /\ phase = "run"
  /\ Current.op = op
  /\ UNCHANGED generator

Advance == pc' = <<pc[1], pc[2] + 1>> /\ UNCHANGED phase
Fail(how) == phase' = how /\ UNCHANGED pc

Live(o) == o \in DOMAIN refs

(* Mistakes for the checks to catch: a store without a retain; a release   *)
(* that does not free.                                                     *)
Retained_Not(rs, o) == rs
Released_Only(rs, o) == IF o = Null THEN rs ELSE [rs EXCEPT ![o] = @ - 1]

(* Counts from 0: the last release finds a count of 0 and frees.           *)
Retained(rs, o) == [rs EXCEPT ![o] = @ + 1]
Released(rs, o) ==
  IF o = Null THEN rs
  ELSE IF rs[o] > 0 THEN [rs EXCEPT ![o] = @ - 1]
  ELSE [p \in DOMAIN rs \ {o} |-> rs[p]]

(* Going on with object o, or not.                                         *)
Use(o) == IF o = Garbage THEN Fail("wild")
          ELSE IF o = Null THEN Fail("null")
          ELSE IF Live(o) THEN Advance ELSE Fail("freed_memory")

DoNull ==
  /\ Execute("null")
  /\ env' = [env EXCEPT ![Current.on] = Null]
  /\ Advance
  /\ UNCHANGED <<vals, refs, result>>

DoNew ==
  /\ Execute("new")
  /\ vals' = [vals EXCEPT ![Current.on] = Current.on]
  /\ refs' = [o \in DOMAIN refs \cup {Current.on} |-> IF o = Current.on THEN 0 ELSE refs[o]]
  /\ Advance
  /\ UNCHANGED <<env, result>>

DoLoad ==
  /\ Execute("load")
  /\ vals' = [vals EXCEPT ![Current.to] = env[Current.on]]
  /\ Advance
  /\ UNCHANGED <<env, refs, result>>

DoCall ==
  /\ Execute("init") \/ Execute("call")
  /\ Use(vals[Current.on])
  /\ UNCHANGED <<env, vals, refs, result>>

(* stp_storeStrong: retain the new, release the old.                       *)
DoStore ==
  /\ Execute("store")
  /\ LET new == vals[Current.on]
         old == env[Current.to]
     IN  IF Live(new) /\ (old = Null \/ Live(old))
         THEN /\ refs' = Released(Retained(refs, new), old)
              /\ env' = [env EXCEPT ![Current.to] = new]
              /\ Advance
         ELSE /\ Use(IF Live(new) THEN old ELSE new)
              /\ UNCHANGED <<refs, env>>
  /\ UNCHANGED <<vals, result>>

DoPlainStore ==
  /\ Execute("plain_store")
  /\ env' = [env EXCEPT ![Current.to] = vals[Current.on]]
  /\ Advance
  /\ UNCHANGED <<vals, refs, result>>

DoRelease ==
  /\ Execute("release") \/ Execute("release_var")
  /\ LET o == IF Current.op = "release" THEN vals[Current.on] ELSE env[Current.on]
     IN  IF o = Null \/ Live(o)
         THEN refs' = Released(refs, o) /\ Advance
         ELSE Use(o) /\ UNCHANGED refs
  /\ UNCHANGED <<env, vals, result>>

DoBranch ==
  /\ Execute("br") \/ Execute("condbr")
  /\ \E b \in IF Current.op = "br" THEN {Current.on} ELSE {Current.on, Current.to} :
       pc' = <<b, 1>>
  /\ UNCHANGED <<phase, env, vals, refs, result>>

DoReturn ==
  /\ Execute("ret")
  /\ phase' = "returned"
  /\ result' = IF Current.on = Null THEN Null ELSE vals[Current.on]
  /\ UNCHANGED <<pc, env, vals, refs>>

Stopped == phase \notin {"generate", "run"} /\ UNCHANGED vars

Generate ==
  \/ \E x \in Name : Declare(x) \/ AssignNew(x) \/ CallWith(x) \/ ReturnVariable(x)
  \/ \E x, y \in Name : Assign(x, y)
  \/ CallNew \/ ReturnInteger \/ ReturnNew
  \/ BeginThen \/ BranchIsNoBlock \/ BeginElse \/ EndIf \/ EndFunction \/ Crash

Run ==
  \/ DoNull \/ DoNew \/ DoLoad \/ DoCall \/ DoStore \/ DoPlainStore
  \/ DoRelease \/ DoBranch \/ DoReturn

Next == Generate \/ Run \/ Stopped

Spec == Init /\ [][Next]_vars

-----------------------------------------------------------------------------
(* README.md:57-60 promises that ARC "relieves the programmer from         *)
(* worrying about managing memory explicitly": ...                         *)

(* ... no instruction reaches an object that a release has freed, or a     *)
(* pointer that nobody wrote.                                              *)
MemorySafe == phase \notin {"freed_memory", "wild"}

(* The code keeps that promise, and the following ones, for functions      *)
(* without `if`, whose releases it misplaces, that assign no field (null)  *)
(* to a variable, which is stored without releasing what was there.        *)
Instructions == UNION {Range(blocks[b]) : b \in DOMAIN blocks}
Plain ==
  Len(blocks) = 1 /\ \A i \in Instructions : i.op # "plain_store"

(* A parameter is not retained for the function, so that an assignment to  *)
(* it releases what the caller owns, and another parameter may hold.       *)
ParametersKept == \A i \in Instructions : i.op = "store" => i.to \notin Param

(* Releases placed before later code is known never come too early in such *)
(* a function.                                                             *)
SafeIfPlain == Plain /\ (ParametersKept \/ Cardinality(Param) <= 1) => MemorySafe

(* A function that returns has freed the objects it created, ...           *)
NothingLeaks ==
  phase = "returned" /\ result = Null /\ Plain /\ ParametersKept => DOMAIN refs \subseteq {Caller}

(* ... and not the one it was given, which has the count that its caller   *)
(* left on it.                                                             *)
CallerKeepsItsObject ==
  phase = "returned" /\ Plain /\ ParametersKept => Live(Caller) /\ refs[Caller] = 0

(* Every basic block ends in its only terminator if no `if` is in another  *)
(* and none returns: otherwise what the compiler writes is no program.     *)
BlocksTerminated == phase # "malformed"

(* While such a function runs, the count of an object that it creates is   *)
(* one less than the number of its owners: the variables that hold it and  *)
(* are still to be released, the parameters that hold it, and the          *)
(* temporary that it was created in.                                       *)
Pending(release) ==
  \E i \in DOMAIN blocks[1] : i >= pc[2] /\ blocks[1][i] = release

OwnersOf(o) ==
  {x \in Local : env[x] = o /\ Pending(I("release_var", x, Null))}
  \cup {x \in Param : env[x] = o}
  \cup {v \in {o} : Pending(I("release", v, Null))}

CountsAreOwners ==
  phase = "run" /\ Plain => \A o \in DOMAIN refs \ {Caller} :
                              refs[o] = Cardinality(OwnersOf(o)) - 1

=============================================================================
