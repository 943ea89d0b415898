# A verification development for Staple

Staple is a small object-oriented language with a compiler in C++ that emits
LLVM IR and a runtime in hand-written LLVM assembly. Objects are reference
counted: the compiler inserts the retains and releases (ARC), the runtime
executes them. This directory holds TLA+ models of the compiler, from its command
line to the functions it emits, and of the runtime, TLC configurations that
check them on small instances, and TLAPS proofs for every instance.

    tlc -config Runtime.cfg MCStapleRuntime.tla           # one run
    tlapm StapleRuntimeProofs.tla                         # the proofs

Paths and lines below are those of the repository (`compiler/src/...` is
`src/compiler/src/...` in `PROJECT.json`, which also maps every definition to
the lines it models).

## 1. Inventory

| part | files | state | operations | hard because | correct when |
|---|---|---|---|---|---|
| runtime library | `runtime/src/runtime.ll` | the count and class pointer in each object, the variables of the program | `stp_retain`, `stp_release`, `stp_storeStrong`, `obj_init`, `obj_kill` | several threads; a pointer is loaded, then counted, then overwritten, in separate steps; 32-bit count and null test | no access to freed memory, every object destroyed once, after its last owner, and in the end |
| compiler context and class table | `compilercontext.cpp`, `types/stapletype.cpp`, `sempass/Pass1ClassVisitor.h` | classes with parent, fields, methods | `defineClass`, `lookupClassName`, `setParent`, `addField`, `addMethod`, `getField`, `getMethod`, `isAssignable` | filled in passes, in the order of the declarations; names may be forward references or missing | every name means the same wherever it is used |
| semantic pass | `sempass.cpp` | scopes, current class, current function, type of each tree node, number of errors | one visit per node kind | state carried from one visit to the next; null types; errors that crash before they are logged | what it accepts can be generated; what it rejects is reported |
| object code generation | `codegen/LLVMStapleObject.cpp` | per class: struct, vtable, class definition, init and kill functions, cached | `getObjectType`, `getFieldPtr`, `getVtableType`, `getClassVTableValue`, `getInitFunction`, `getKillFunction` | four walks over the hierarchy that must count alike; functions that call their parent's | one layout, objects initialised, destroyed by their own chain and freed once |
| function code generation | `codegen/LLVMCodeGenerator.cpp` | basic blocks, insertion points, stack of scopes with their cleanups | one visit per node kind, `push`, `pop`, `scopeOut` | cleanups insert into blocks that later statements go on filling | the emitted function is well formed, counts what it owns and touches nothing freed |
| types | `types/stapletype.h`, `types/stapletype.cpp` | none: types are values | `isAssignable` of every type, `getLLVMType` | a relation by cases that is not symmetric, does not compare widths, and has one case without a return; a field is a type of its own | what it admits can be stored |
| parser, scanner, tree | `parser.y`, `tokens.l`, `node.h` | the input buffer, the tree | reading, scanning, grammar actions | the loop of main asks the file where the scanner is; every parse starts a new tree | the tree is the whole file |
| driver | `main.cpp` | phases and exit codes | parse, check, generate, write | errors in one phase must stop the next; four ways of reporting them | no output for a program with an error, and none that is a part of the program |
| command-line options | `optionparser.h` | two arrays sized by one pass and filled by another, lists in them | `Stats`, `Parser`, `Option::append`, `workhorse` | the passes must agree on every argument; an argument may be a value or an option | no write behind an array, options in order, the input file is found |
| first code generator | `codegen.cpp`, `codegen.h`, `codegen/objecthelper.hpp` | | | no build file compiles `codegen.cpp`, the only file that includes the others | (not modelled) |
| build | `Makefile`, `easybake.mk`, `easybake/` | | | rules | (not modelled) |

How they interact: the parser gives the driver a tree; the semantic pass fills
the class table and the type table of the tree, and resolves uses of pointers to
`NLoad` nodes; the code generator walks the tree again, asks the object generator
for layouts, init and kill functions, and emits calls to the runtime; compiled
code runs in threads that share only the objects and the runtime.

`PROJECT.json` lists under "hazards", line by line, what can go wrong in this code
where a test would hardly find it; the properties below are chosen for them.

## 2. Plan

1. **StapleRuntime** with **Ownership** as its abstract specification: *done, proved.*
2. **ClassLayout** and **ClassTable** (which extends it): *done; every invariant
   proved.*
3. **ObjectLifecycle** (extends ClassLayout): *done; every invariant proved.*
4. **ArcCodegen**: *done for functions and methods with locals, parameters, fields,
   `if`, `return`, calls; every invariant proved.*
5. **SemPass**: *done for functions and methods with locals, `if`, `return`, calls; every
   invariant proved.*
6. **StapleTypes** and **Expressions** (which extends it): *done; every invariant
   proved.*
7. **MethodLinkage**: *done; every invariant proved.*
8. **OptionParser** and **Driver** (which extends it): *done; every invariant proved.*

## 3. What is modelled

### StapleRuntime, Ownership

*State.* `slot` is the pointer in each variable or temporary; `status` and `refs` are
the objects (`refs` is the i32 of `%obj`, one less than the number of owners);
`pc`, `dest`, `src`, `val`, `victim` are the program counter and the registers of the
runtime call that each thread is in; `fault` is a null dereference.
*Actions.* `New` is the code of `visit(NNew)` up to `obj_init`; `BeginStore` and
`BeginRelease` are the calls the compiler emits for an assignment and for the end
of a scope. From there each action is one atomic step of the assembly:
`stp_retain`, `LoadDest`, `stp_release` (the `atomicrmw` and its test), `Destroy`,
`FinishStore`; `RetainNull` and `ReleaseNull` are the null cases.
*Abstraction.* The runtime accesses variables with plain loads and stores, so a
program that races on a *variable* has no defined behaviour; `BeginStore` and
`BeginRelease` exclude exactly that (`BeingStored`, `BeingRead`) and leave every
race on counts and objects. An object is not reallocated after free, so that a
late access to it is visible. The pointers from object to object are variables
like any other. The destructor is one step here; ObjectLifecycle opens it.
*Ownership* says what counting promises: objects are created with an owner, owners
are added only while there is one, the last one to leave starts the destruction,
which happens once.

### ClassLayout, ClassTable

`ClassLayout` has the table (`parent`, `fields`, `methods`) and, as operators with the
names of the functions, the walks over it. Walks are recursive functions over
the parent pointers; the three unroll functions of the code are one walk (`Unroll`) around one
loop (`Push`), applied to fields or methods and to the members that each of them
keeps. No program can declare a field named `class`, which is a keyword
(KeywordIsNoField). `ClassTable` is `visit(NCompileUnit)`: names first, then, class by
class in any order, the parent, the fields and the methods. A cycle of parents makes the
walks of the compiler recurse without end: phase "overflow". Field types and
method signatures play no role in the layout and are left out; each class is
declared once; there is no `package` (the second lookup of `lookupClassName`). The specification of
`ClassTable` has names of its own (TableInit, TableNext, TableSpec, TableTypeOK), so that one module can
compose it with the programs of ObjectLifecycle.

### ObjectLifecycle

One object, word by word: `words[i]` is the word at GEP index i, `stack` the chain of
generated init or kill functions in progress. `Init` takes every table that the
semantic pass can leave, including classes whose parent does not exist; a class is not one of
the three names for the content of a word (NoClassIsData). Initialized speaks of every word of
the struct, and not only of those an index leads to; `Release` is the release of the last owner: it reads the count and the class pointer
where the runtime reads them. Only integer fields are stored to: the semantic
pass rejects assignments to pointer fields (`StaplePointer::isAssignable`).

### ArcCodegen

A behaviour first *generates* a function: each action is a statement and appends
what its visitor emits (`blocks`), with the stack of `CodeGenBlock`s in `scopes`; the
actions that end a scope run its cleanups in order, which insert releases behind
the last user of a temporary or before the last instruction of the block that
declared a variable. Then it *executes* the function, one instruction per step, on
objects with counts. `store` is a call of `stp_storeStrong`, taken as one step: the
interleaving inside it is StapleRuntime's subject. `plain_store` is what
`visit(NAssignment)` emits when the right side is a field, whose type is a StapleField
and not the pointer in it: neither a retain nor a release. Fields are null, as init
left them, because the semantic pass rejects every assignment of a pointer to a
field (`StaplePointer::isAssignable`). Outcomes: "returned", "freed_memory", "wild" (an alloca
that nobody wrote), "null" (the RetainNull of StapleRuntime, or a call on a null
pointer), and for the compiler "crashed" and "malformed" (a basic block without its
one terminator at the end; the driver writes the module without running LLVM's
verifier). `BranchIsNoBlock` is an `else if`: its value is null, and the compiler crashes
at `LLVMCodeGenerator.cpp:605-607`. `doCleanup` is a recursive function over the
cleanups of the scope. A value is numbered when its instruction is generated; there are at most two
more than statements, the caller's object and one of the return, which is not counted as a
statement. All parameters hold the one object of the caller, as a call `f(x, x)` would pass it: with
two of them, an assignment to one leaves the other with a freed object, so that
SafeIfPlain asks for ParametersKept or for at most one parameter. Left out: statements after a return in the same
block, blocks that are not a branch of an `if`, integer computations, member accesses.

### SemPass

One compilation, from the first visit of the semantic pass to the last of the
generator. `scope` and `symbols` are the two stacks of scopes (`Scope` in sempass.cpp,
`CodeGenBlock` in the generator); a scope maps a name to a declaration, its type and
the place it was made at, so that two declarations of one type differ. The
statements are chosen while the semantic pass visits them and kept in `tree`,
each with the types it found and with the meaning of its names; the generator then
visits functions first and methods second, the other way round than the semantic
pass, and looks the names up again (`agreed`; a name that is not found crashes the
compiler). `Check` is an error, after which the pass goes on, or a crash, where the
code gives a null type to `dyn_cast` or calls isAssignable on it. `DeclareStray` is a declaration
whose member `assignment` the parser left unset and that is visited as a pointer.
The parameters of a method are dropped in the generator: `getLLVMType` of its StapleFunction
sees none (`stapletype.h:57`). `DecideToGenerate` is `main`. Left out: `this`, member accesses,
method calls and arithmetic, which are Expressions' subject, `else` (one more block
like the first), prototypes, which are functions without a body, and the number of
arguments, which nobody checks. `isAssignable` does not compare the widths of
integers, so they are one type, IntType. `Unambiguous` says of a program what ResolutionAgrees asks
of it: the name of a function in its package is not the name of another function; what the semantic pass
alone sees in a method, its parameter and the fields of the last class if that is not its own (`Lost`), has no
namesake among what the generator sees there, which is the fields of its class, its own name and the symbols of
functions and methods (`Linked`); and these fields and names are not those of functions. The instance for TLC is
unambiguous. Assumptions on the constants: the lists of classes, functions and methods are sequences, and the last
two without repetitions (Lists); signatures have known types, variables may have unknown ones (Types);
no variable has the name of a function (VariablesOnly).

### StapleTypes, Expressions

`StapleTypes` has all types as values (a base, a number of stars, an array's size, whether
it is a field) with `Assignable` and `LLVMType`; `u` in `Assignable` stands for the answer of
`StapleVoidType::isAssignable`, which has no return statement. `Expressions` is one statement in both
visitors. A statement is built from its leaves: the nodes that wait for a parent are on
`stack`, each with the entry that the semantic pass makes in `typeTable` and the one that
the generator makes in `mValues`; an action is the visit of one kind of node, by both.
Which node may stand where is the grammar (`place`). `errors` is the counter of SemPass,
`broken` that the generator got a null value or one of the wrong LLVM type, and `gap` is
the first construct in the statement that the semantic pass does not check; the
`Gaps` are named in the module: on each of them some statement makes the compiler crash, or
is accepted and then generated wrongly. The properties say that there is no other. One of them
is a type that getLLVMType has no case for, which TLC's instance cannot tell from others
and the proof asked for. Assumptions on the constants: the names of functions, variables and classes
are distinct (NamesDistinct), declarations use types of the language (NamesDeclared) and
signatures have the shape that the parser builds (Signatures).

### MethodLinkage

The LLVM `module` as a map from a name and the number of its copy (LLVM renames a
second function of a name) to a type and a number of bodies, with the caches of
LLVMStapleObject (`initOf`, `killOf`, `defined`). An action is what generates a body or what a
statement of it needs: `New` calls getInitFunction, which walks to the root class and
fills vtables on the way; `MethodCall` looks the function up by name. The walks and loops are recursive
functions, as in ClassLayout. `None` is the null `llvm::Function*`. Nothing rejects two functions of one
name; each keeps the copy that its declaration created (`mValue`). `baseFirst` is the order in
which the linker runs two static initialisers, on which it depends whether the root
class is one that the runtime defines. `Contested` is what the properties ask about a name: that two bodies of the
program, or a body and a generated function, claim it. Outcomes that crash the compiler: "taken"
(a function of another type comes back as a cast), "uninitialised" (members of the
cache that nobody wrote), "unlinked" (a call of a null function).

### OptionParser, Driver

`OptionParser` is `workhorse` with its two actions, `Stats` (pass "count") and `Parser` (pass "store"): one
action per kind of argument and per letter of a group. An argument is a record of what
the code tells apart, a text is named by the place where it starts, and the lists are the
pointers of `Option::append` with the tag bit that marks an end. ListsKeepOrder follows those
pointers: the options of one kind are linked in the order in which the pass stored them. `Driver` extends it with `main`: the input file is a sequence of
declarations, characters that are no token and syntax errors; `Refill` is fread into the
scanner's buffer, with every split, and sets `eof` when it comes back short; an unknown
token ends the parse. What the passes find is left open (`doSemPass`, `CompilerCrashes`).

## 4. The runs

| run | checks | bounds, and why they are enough |
|---|---|---|
| runtime | TypeOK, AccessesLive, NoDangling, CountIsOwners, ImplementsOwnership, OrphansDestroyed | 2 threads, 2 variables, 1 temporary, 3 objects of which one has an address that truncates to zero. Two threads give every pair of racing steps, the count wraps at 5 = its maximum number of owners |
| class_table | TableTypeOK, FieldIndexesRight, SubclassesCompatible, VtablesBuildable, ForwardParents | 3 classes in every order and hierarchy, names that no class has, 2 field names with up to 3 fields, a method name and `kill` with up to 2 methods: shadowing across two levels, chains of length 4 with `obj` |
| lifecycle | TypeOK, FreedOnce, Initialized, ReleaseReachesDestructor, KilledIsFreed | every hierarchy of 3 classes with at most 1 field each, of each kind (integer, pointer, object by value); `new obj` included |
| arc | TypeOK, SafeIfPlain, NothingLeaks, CallerKeepsItsObject, CountsAreOwners, BlocksTerminated | 2 locals, a parameter, a field, every sequence of up to 4 statements and a return: a variable stored, stored again from another one, and passed on; `if` with and without else, not nested |
| sem_pass | TypeOK, ResolutionAgrees | 2 functions, 1 method in the last of 2 classes, 2 variables of which one is also a field and a parameter, calls of the second function and of a variable, 3 statements: a block, a declaration in it that hides another, and a use |
| expressions | TypeOK, ValuesFollowTypes, AcceptedIsLowered, CrashesAreReported | every statement that fits a stack of 2 nodes (chains of any length: the types repeat), 2 classes, 4 functions (one of them vararg, one void), 8 variables of all kinds of type, fields, a method, `this`, an unknown name |
| linkage | TypeOK, OneBody, VtablesResolved, CallsFindMethods | a class and its subclass declared in either order, 3 functions of which two have one name, 5 tables of methods (overriding; a method named init; one named kill; a name like another function's symbol; two methods of one name), 4 statements spread over all bodies in every way: both orders of a vtable and a method it names, of a class and its ancestor, and of each with a call |
| driver | ArraysLargeEnough, ListsKeepOrder, InputIsFirstNonOption, OutputIsWholeProgram | command lines of up to 3 arguments, groups of up to 2 letters, so that one option occurs four times; files of up to 3 items, read in every split |
| arc_if | MemorySafe fails | an `if` allowed |
| lifecycle_identity | HeaderNamesType fails | as lifecycle, without fields |
| sem_pass_fields | MethodsSeeTheirFields fails | as sem_pass, with the class of the method declared first |
| expr_member | MembersCanBeRead fails | as expressions |

What the passing runs show: the runtime's counting is right under every
interleaving of race-free programs; the walks over the class table agree for every
order of declaration; chains of destructors free once; the two visitors agree on
every name of an unambiguous program and, outside the named gaps, on every type; functions that are
made on demand are made once; a function without branches manages the memory of its
locals and temporaries exactly; and an output file is written only for a whole
program without errors. The conditions in these statements (`Plain`, `ParametersKept`,
`Unambiguous`, `Contested`, `gap = "none"`, `warned`) are where the code does not keep them.

*Fairness.* `FairSpec` of StapleRuntime is weak fairness of the steps of a thread that
is inside the runtime: `runtime.ll` has no loops and no locks, so a thread that the
operating system schedules finishes its call. Nothing is assumed of the program's
next call. `FairSpec` of ObjectLifecycle is weak fairness of the generated init and kill
functions, straight-line code. The other specifications have no liveness.

### Divergences

The failing runs are disagreements between the code and what the repository says of
it; `PROJECT.json` ("findings") quotes the lines.

* `sem_pass_fields`: the bodies of all methods are checked against the fields of the
  class declared last (`sempass.cpp:157-161`); in the example of README.md, where Node
  follows LinkedList, `head` is then not declared and the compiler crashes.
* `lifecycle_identity`: the parent's init stores its class pointer over the object's
  own. FreedOnce holds *because* of it: with the pointer of the object's own class
  the chain of kill functions would call free once per class. The two have to be
  repaired together.
* `arc_if`: the releases of variables declared around or in an `if`.
* `expr_member`: a member that is read through a variable, as in `test.stp`.

More that the models show and no run is spent on; each is an instance away:

* NoFault of StapleRuntime: `x = y` with `y` still null crashes in `stp_retain`, which
  has no null check (`runtime.ll:46`).
* NoLeak of StapleRuntime, with an object in `LowZero` and all variables released:
  `stp_release` tests the low 32 bits of a 64-bit pointer (`runtime.ll:25`).
* HeadersSafe of ClassTable: a class that extends an unknown name is accepted without
  an error (`sempass.cpp:131`), and its first field lies on the reference count.
* VtablesComplete of ClassTable, with a method `kill` in a class: in the vtable's type,
  not in its value (`LLVMStapleObject.cpp:317`); building the vtable aborts.
* NeverWild of ObjectLifecycle: `new obj` leaves the class pointer unwritten.
* SafeIfPlain holds with "variable" in `Returned` only because nothing uses the returned
  pointer: the variable has been released before the return, and with it an object
  that nobody else owns. `return new T` crashes the
  compiler (phase "crashed").
* BlocksTerminated with "nothing" or "in_if" in `Returned`: a function without a return
  statement, as `add` in README.md:40, has no terminator, and one with a return in an
  `if` has two in one block. With MaxNesting 2: the branch that ends an `if` goes to the
  block the `if` began with, which an inner `if` has already ended.
* SafeIfPlain without its condition on parameters, with two of them: `p = new T` frees the
  object that `q` still holds if the caller passed it twice.
* CallerKeepsItsObject and NothingLeaks without ParametersKept: assigning to a
  parameter releases the caller's object. NothingLeaks without Plain: assigning a field
  to a variable loses the object that the variable held.
* ResolutionAgrees without Unambiguous, with a method of the same name as a function: the generator
  defines the method's name in its body (`LLVMCodeGenerator.cpp:387`), so that the body
  calls itself instead of the function it was checked with. With a function whose
  NamespaceName is the name of another, `foo` and `_foo`, one hides the other. With a
  method whose parameter is named like a field or a function: the generator drops it.
* OneBody without `Contested`: a method named `init` gets a second body. CallsFindMethods for
  inherited methods: the function is looked up under the name of the subclass, where none is.
* OutputIsWholeProgram without `warned`: a character that is no token ends the program, and
  what came before it is compiled. `NoInput` of Driver: an option without an input file
  makes main dereference null.

## 5. The proofs

`StapleRuntimeProofs` proves for any finite sets of threads, variables and temporaries, any
set of objects and any width of the count that has room for all owners
(assumptions ThreadsFinite, SlotsFinite, PlacesDistinct, NullIsNothing,
LowZeroObjects, OwnersFit of StapleRuntime):

| theorem | statement |
|---|---|
| TypeCorrect | Spec => []TypeOK |
| CountCorrect | Spec => []CountIsOwners |
| NothingDangles | Spec => []NoDangling |
| AccessesSafe | Spec => []AccessesLive |
| RefinesOwnership | Spec => ImplementsOwnership |

The inductive invariant conjoins three things. The types. The *discipline* of calls: which
registers are set at which program counter, and that no two calls work on one
variable; without it a step could not say which owner it adds or removes. And
CountIsOwners, where `Owners(o)` counts the variables that will release o and the
calls in progress that hold it. That last definition is the crux: a variable stops
owning the moment its pointer has been released, although it still holds the bits,
and a call starts owning when it has retained. The lemmas Owners... say how each
step changes the set of owners, the lemmas Count... carry that to its
cardinality. The other invariants follow from "an object with an owner is
live"; the refinement follows because each step adds, moves or removes one owner.

`Induction` has what the proofs about hierarchies, lists and loops share. The theorems of the
library on induction and recursion take operators, which no installed prover can instantiate;
here the property is a *set* and the step a *function*, so that first-order provers suffice.
SetInduction and Least are induction and the least element of the naturals; a set with a parent function is a
`Forest` when no non-empty subset is closed under it (ForestInduction; it is how
ClassLayout says that the hierarchy has no cycle); ForestRecursion and LoopRecursion
say that a recursive function over a forest, or over a range of numbers, exists and satisfies its
equation, from which the equation of each walk of the model follows.

The first half of `ObjectProofs` proves, to begin with, for every table without a cycle of parents (assumptions
ClassNames, KeywordIsNoField, FieldKinds): the index of a field is its place in the struct
(IndexesRight), the struct of an ancestor is a prefix (LayoutsCompatible), and the vtable's values fit its type
(VtablesFit). Each is an induction over the hierarchy: what the two walks have found at the
parent agrees (InPlace, Extended), and the loop over one class keeps it so. Then it
carries these to the table that the passes of the compiler leave behind, for any
sets of classes, fields and methods and any bounds (besides the above, TypoIsNoClass):

| theorem | statement |
|---|---|
| TableTypes | TableSpec => []TableTypeOK |
| ParentsResolved | TableSpec => []ForwardParents |
| IndexesAgree | TableSpec => []FieldIndexesRight |
| SubclassesFit | TableSpec => []SubclassesCompatible |
| VtablesCanBeBuilt | TableSpec => []VtablesBuildable |

The inductive invariant adds to the types that no class is visited while names are
still being defined, so that a lookup and the finished table agree, and that `obj` keeps the members
and the missing parent it was created with: every walk starts from them.

The second half proves for every hierarchy and any fields of any kind (NewableClasses,
OwnFieldsBound, NoClassIsData):

| theorem | statement |
|---|---|
| LifecycleTypes | Spec => []TypeOK |
| MemoryFreedOnce | Spec => []FreedOnce |
| ObjectsInitialized | Spec => []Initialized |
| ReleaseDestroys | Spec => []ReleaseReachesDestructor |
| ObjectsOfPrograms | Whole => [](Initialized /\ FreedOnce /\ ReleaseReachesDestructor) |

`Spec` starts from a table with no methods and a bounded number of fields, for TLC's sake. `Whole` is the composition:
it starts where `TableSpec` does, takes the steps of the compiler's passes, and when they have reached the code
generator those of an object of the generated program. The theorem hence speaks of every table that the passes leave
behind, whatever was declared and in whatever order, and it needs what both invariants say: the
one of the passes hands over a table with walks that end and members where `obj` has them.

The invariants say nothing of the functions in progress, so the inductive one must. `InitChain`: the
stack is a path in the hierarchy from the class of the object upwards, each function waiting for the one of
its parent. `InitWords`: a function that begins finds the class of its caller in the header; one
that comes to its fields finds there a class next to the root (`LastBorn`), a cleared count, and all
fields of its ancestors ready. `KillChain`: the destructors in progress are that of a class next to the
root and, above it, the one of the root, which does not free; hence one free. That an init
function clears exactly its own words in an object of any subclass (OwnIndex, ClearsFields) rests on the layout
lemmas and on Distinct: with a name declared twice, the index leads to the first.

`ExpressionsProofs` proves for expressions of any depth over any classes, functions and variables
(assumptions NamesDistinct, Signatures, NamesDeclared, DepthNatural):

| theorem | statement |
|---|---|
| TypesCorrect | Spec => []TypeOK |
| VisitorsAgree | Spec => []ValuesFollowTypes |
| AcceptedLowers | Spec => []AcceptedIsLowered |
| CrashesReported | Spec => []CrashesAreReported |

The inductive invariant relates, for each node on the stack, the type that the semantic pass
gave it to the LLVM type of its value (`Sound`), as long as no error is reported and no gap is met; it has one
lemma per visit.

`DriverProofs` proves for command lines of any length and files of any content, read in any split
(assumptions ArgumentsTyped, LengthNatural, NoneDistinct, ItemsNatural):

| theorem | statement |
|---|---|
| ArraysSuffice | Spec => []ArraysLargeEnough |
| ListsInOrder | Spec => []ListsKeepOrder |
| InputFound | Spec => []InputIsFirstNonOption |
| OutputIsComplete | Spec => []OutputIsWholeProgram |

The inductive invariant has the two passes agree on the prefix they have read
(`Sized`), the pointers of the options stored so far form one list per kind
(`Threaded`), the walk over the arguments agree with the recursive description (`Walk`), and the
scanner's position agree with the items of the file (`MainInv`).

`ArcCodegenProofs` proves for functions of any length, with any finite sets of variables,
parameters and fields (assumptions NamesDisjoint, BoundsNatural, ReturnKinds, NamesFinite):

| theorem | statement |
|---|---|
| TypesCorrect | Spec => []TypeOK |
| ReleasesAreLate | Spec => []SafeIfPlain |
| CountsExact | Spec => []CountsAreOwners |
| EverythingFreed | Spec => []NothingLeaks |
| CallerUnharmed | Spec => []CallerKeepsItsObject |
| ModulesWellFormed | Structured => (Spec => []BlocksTerminated) |

The first invariant, TypeInv, is about everything that can be generated, `if`s included: scopes and
cleanups are about blocks that exist, each object that has a cleanup has a user in its block,
so that getLastUsage finds one, and an insertion keeps it so (Inserted, ScopedOut).

The other invariants but the last are about functions of one block. They come in two halves, because the releases are
not where they will be while the code is drafted. `Drafts` says of the code so far what the
cleanups will rely on: every object that was created and every variable that was declared has exactly one
cleanup (Draft), an operand is created or loaded right before its user and a variable is cleared
before it is used (Shape, of Grounded, Placed and Same). When the function ends, a loop over the cleanups (CleanupLoop)
turns the draft into a `Final` program: each object is released once, behind all
its users, each variable once, behind everything but the return. `Running` is then the
invariant of the execution, with the conjuncts of `Data` for the next instruction: which variables are
written (EnvOK), that an operand is a live object or null (ValsOK, LiveOK), that the count of an object is the
number of its owners less one (CountOK), and that the caller's object stays with its parameters (CallerOK).
An owner is a variable or a temporary whose release is *still to come*, so that the
position in the code is part of the count; without LiveOK, a step could not exclude that it finds the object of
a temporary freed, and without CountOK not that a release frees too early. CountOK is claimed for the
caller's object only if no parameter is assigned to, or there is at most one.

`Structured` is the condition of the last theorem: `if`s are not in one another and do not return, and
the function returns. Its invariant, BlocksInv, names the blocks that are still
open (OpenBlocks) and says that exactly the others end in their only terminator. The cleanups insert at
no end (CleanupsEndNothing); the branches at the end of an `if` are appended to the block that each
branch *began* with, which is open only because no inner `if` has moved on from it. That is where the
condition is needed.

`MethodLinkageProofs` proves for any classes with any methods, any functions and any equality of names
(assumptions FinitelyManyClasses, ClassNames, Rooted, MethodsTyped, FunctionsTyped, MaxStatementsBound):

| theorem | statement |
|---|---|
| TypeCorrect | Spec => []TypeOK |
| EveryNameHasOneBody | Spec => []OneBody |
| VtablesHaveTheirMethods | Spec => []VtablesResolved |
| CallsFindTheirMethods | Spec => []CallsFindMethods |

Whether a function has one body depends on who has asked for it so far, in three caches and in the module
itself. The inductive invariant says it per function and not per step: `Contents(b, p)` is what the
function of the claim p must be when b bodies have been begun, and `Accounted` says that every function
of the module goes back to a claim and, if nobody else claims its name, is exactly that, is the copy number 0, and is the
one in the cache. Without the last part, a step could not exclude that a kill function is made again under a name that is
there. `Killable` and `VtablesThere` keep what later steps rely on: a class with a kill function has it in the module, and
a class with a definition has those of its ancestors and all entries of its vtable; `BodiesThere`, that what was begun is
there. All five together are `Good`. It is kept by one function of the generator after the other (KillOf, Entry,
DefinitionOf, InitOf), by a loop over the methods or ancestors (LoopRecursion) around each, and so by the steps. The
walks only add functions (`Grown`), so what was there for a vtable or a call stays there.

`SemPassProofs` proves for any numbers of classes, functions, methods and statements, with `if`s of any
depth (assumptions Lists, Types, VariablesOnly, BoundNatural):

| theorem | statement |
|---|---|
| ScopesAreTyped | Spec => []TypeOK |
| NamesKeepTheirMeaning | Spec => []ResolutionAgrees |

The two visitors never have their scopes at the same time: the semantic pass has dropped those of all bodies before
the generator begins with the first, and only `tree` is left. The invariant therefore says of each body
that was accepted that a *history* of scopes exists, one stack after each statement, which begins with what the semantic
pass enters the body with and in which the statement found its names declared (`Sound`, `Follows`). In the
generator, the stack after a statement then `Matches` the one in the history: the scopes of blocks are
the same; those of the body are `Alike`, where a name that only one visitor has is not a function, or not
a symbol; the outermost has all functions (`Outer`) and, besides them, only what is in Linked. SameMeaning
concludes from a match that a lookup finds the same declaration, or nothing. The last two parts are where Unambiguous is
needed. The condition of an `if` is looked up after its block, so that the generator's stack at an
"end" has to match the history at the `if` it belongs to. The model finds that `if` by
counting; that the count leads to the statement which pushed the scope is a part of
its own (Balance, HasOpener, OpenerScopes). `Places` says which of this holds in which phase.

Only model-checked: the liveness properties KilledIsFreed and OrphansDestroyed (TLAPS does
not handle fairness and ENABLED here). Every invariant of the passing runs is proved.

## 6. Not modelled

The automata that bison and flex generate, and the memory of their semantic values
(`parser.y:238` deletes a name and uses it); the text of the usage message and the modes of the
option parser that `main` does not ask for; debug information; the text of generated
names beyond which of them are equal; `StapleMethodFunction::isAssignable`, which nothing
calls; the build rules; and the first code generator, which is in no build file.
