-------------------------- MODULE ObjectLifecycle --------------------------
(***************************************************************************)
(* The life of one object in memory: malloc, the chain of init functions,  *)
(* stores to its fields, the release of its last owner, and the chain of   *)
(* kill functions that the class pointer in its header leads to            *)
(* (codegen/LLVMStapleObject.cpp, runtime/src/runtime.ll).                 *)
(*                                                                         *)
(* Every kill function first calls the one of its parent class and then    *)
(* free, so a chain of them would free an object once per class.  What     *)
(* prevents it is a second oddity: every init function stores its own      *)
(* class before it calls its parent's, so the pointer that stays in the    *)
(* header is that of the class next to the root.                           *)
(***************************************************************************)
EXTENDS ClassLayout

CONSTANTS
  Newable,       \* the classes that the program instantiates
  MaxOwnFields   \* bound: the fields that one class declares

ASSUME NewableClasses == Newable \subseteq AllClass
ASSUME OwnFieldsBound == MaxOwnFields \in Nat

VARIABLES
  phase,   \* the stage of the object's life
  type,    \* the class in the `new` expression
  words,   \* words[i] is the content of the word at GEP index i
  stack,   \* the init or kill functions in progress, innermost last
  frees    \* how often the memory has been given to free

object == <<phase, type, words, stack, frees>>
vars == <<table, object>>

Phase == {"none", "init", "live", "kill", "done", "leaked", "wild"}

Frame == [class : AllClass, at : {"class", "parent", "fields", "free"}]

(* "garbage" is whatever malloc found in the memory, "zero" an integer or  *)
(* pointer that init has cleared, "data" what the program stored.          *)
Content == Class \cup {"garbage", "zero", "data"}

ASSUME NoClassIsData == Class \cap {"garbage", "zero", "data"} = {}

(* The types of the words of the object and of the chain of generated      *)
(* functions that runs over them.                                          *)
TypeOK ==
  /\ phase \in Phase
  /\ type \in AllClass \cup {NoClass}
  /\ words \in [DOMAIN words -> Content]
  /\ stack \in Seq(Frame)
  /\ frees \in Nat

(* The tables that the semantic pass can leave (see ClassTable); with a    *)
(* cycle the compiler does not get as far as generating code.              *)
Init ==
  /\ parent \in [AllClass -> AllClass \cup {NoClass}]
  /\ parent[OBJ] = NoClass
  /\ \E own \in [Class -> SeqOf(FieldName, MaxOwnFields)] :
       fields = [c \in AllClass |-> IF c = OBJ THEN <<"class">> ELSE own[c]]
  /\ methods = [c \in AllClass |-> IF c = OBJ THEN <<"init", "kill">> ELSE <<>>]
  /\ Acyclic
  /\ phase = "none"
  /\ type = NoClass
  /\ words = <<>>
  /\ stack = <<>>
  /\ frees = 0

-----------------------------------------------------------------------------

Top == stack[Len(stack)]
Below == SubSeq(stack, 1, Len(stack) - 1)

(* A call: the innermost frame goes on at `at` when the callee returns.    *)
Call(at, callee) == Append(Append(Below, [Top EXCEPT !.at = at]), callee)

(* Functions return; the last of them ends the stage.                      *)
Return(next) ==
  /\ stack' = Below
  /\ phase' = IF Below = <<>> THEN next ELSE phase

(* `new c`: malloc of the size of c's struct, then c's init function.      *)
New(c) ==
  /\ phase \in {"none", "done", "leaked"}
  /\ type' = c
  /\ words' = [i \in 0 .. Len(getObjectType(c)) - 1 |-> "garbage"]
  /\ stack' = <<[class |-> c, at |-> "class"]>>
  /\ phase' = "init"
  /\ frees' = 0
  /\ UNCHANGED table

(* An init function begins by storing the class definition of its class.   *)
StoreClassDef ==
  /\ phase = "init"
  /\ Top.at = "class"
  /\ Top.class # OBJ
  /\ words' = [words EXCEPT ![ClassWord] = Top.class]
  /\ stack' = Append(Below, [Top EXCEPT !.at = "parent"])
  /\ UNCHANGED <<table, phase, type, frees>>

(* The mistake of not testing the parent for null.                         *)
CallParentInit_Always ==
  /\ phase = "init"
  /\ Top.at = "parent"
  /\ stack' = Call("fields", [class |-> parent[Top.class], at |-> "class"])
  /\ UNCHANGED <<table, phase, type, words, frees>>

CallParentInit ==
  /\ phase = "init"
  /\ Top.at = "parent"
  /\ stack' = IF parent[Top.class] = NoClass
              THEN Append(Below, [Top EXCEPT !.at = "fields"])
              ELSE Call("fields", [class |-> parent[Top.class], at |-> "class"])
  /\ UNCHANGED <<table, phase, type, words, frees>>

(* runtime.ll: the root's init clears the reference count, nothing else.   *)
obj_init ==
  /\ phase = "init"
  /\ Top.at = "class"
  /\ Top.class = OBJ
  /\ words' = [words EXCEPT ![RefWord] = "zero"]
  /\ Return("live")
  /\ UNCHANGED <<table, type, frees>>

(* The words an init function clears: integers and pointers, by the index  *)
(* that getField computes for their name.                                  *)
Cleared(c) ==
  {getFieldPtr(f, c) : f \in {n \in Range(fields[c]) : Kind[n] \in {"int", "pointer"}}}

(* Mistakes for the checks to catch: storing the class definition last;    *)
(* leaving pointers alone.                                                 *)
InitFields_ThenClass ==
  /\ phase = "init"
  /\ Top.at = "fields"
  /\ words' = [i \in DOMAIN words |-> IF i = ClassWord THEN Top.class
                                      ELSE IF i \in Cleared(Top.class) THEN "zero"
                                      ELSE words[i]]
  /\ Return("live")
  /\ UNCHANGED <<table, type, frees>>

InitFields_OnlyInts ==
  /\ phase = "init"
  /\ Top.at = "fields"
  /\ words' = [i \in DOMAIN words |->
                 IF \E f \in Range(fields[Top.class]) :
                      Kind[f] = "int" /\ getFieldPtr(f, Top.class) = i
                 THEN "zero" ELSE words[i]]
  /\ Return("live")
  /\ UNCHANGED <<table, type, frees>>

InitFields ==
  /\ phase = "init"
  /\ Top.at = "fields"
  /\ words' = [i \in DOMAIN words |-> IF i \in Cleared(Top.class) THEN "zero"
                                                                  ELSE words[i]]
  /\ Return("live")
  /\ UNCHANGED <<table, type, frees>>

-----------------------------------------------------------------------------

(* The program stores to a field of the object.  The semantic pass accepts *)
(* only assignments to integer fields: a pointer is not assignable to the  *)
(* StapleField that the type of the left-hand side is.                     *)
StoreField(f) ==
  /\ phase = "live"
  /\ f \in FieldsOf(type)
  /\ Kind[f] = "int"
  /\ words' = [words EXCEPT ![getFieldPtr(f, type)] = "data"]
  /\ UNCHANGED <<table, phase, type, stack, frees>>

(* stp_release by the last owner: when the count is zero, the destructor   *)
(* is the first entry in the vtable of the class in the header.  A header  *)
(* that holds no class sends the program to an arbitrary address; a count  *)
(* that is not zero leaves the object to nobody.                           *)
Release ==
  /\ phase = "live"
  /\ phase' = CASE words[RefWord] # "zero" -> "leaked"
                [] words[RefWord] = "zero" /\ words[ClassWord] \in Class -> "kill"
                [] OTHER -> "wild"
  /\ stack' = IF phase' = "kill"
              THEN <<[class |-> words[ClassWord], at |-> "parent"]>>
              ELSE <<>>
  /\ UNCHANGED <<table, type, words, frees>>

(* The mistake of leaving the object to the parent's destructor.           *)
CallParentKill_Instead ==
  /\ phase = "kill"
  /\ Top.at = "parent"
  /\ Top.class # OBJ
  /\ stack' = IF parent[Top.class] = NoClass
              THEN Append(Below, [Top EXCEPT !.at = "free"])
              ELSE Append(Below, [class |-> parent[Top.class], at |-> "parent"])
  /\ UNCHANGED <<table, phase, type, words, frees>>

CallParentKill ==
  /\ phase = "kill"
  /\ Top.at = "parent"
  /\ Top.class # OBJ
  /\ stack' = IF parent[Top.class] = NoClass
              THEN Append(Below, [Top EXCEPT !.at = "free"])
              ELSE Call("free", [class |-> parent[Top.class], at |-> "parent"])
  /\ UNCHANGED <<table, phase, type, words, frees>>

(* runtime.ll: the root's destructor does nothing. *)
obj_kill ==
  /\ phase = "kill"
  /\ Top.at = "parent"
  /\ Top.class = OBJ
  /\ Return("done")
  /\ UNCHANGED <<table, type, words, frees>>

Free ==
  /\ phase = "kill"
  /\ Top.at = "free"
  /\ frees' = frees + 1
  /\ Return("done")
  /\ UNCHANGED <<table, type, words>>

Wild == phase = "wild" /\ UNCHANGED vars

-----------------------------------------------------------------------------

Generated ==
  \/ StoreClassDef
  \/ CallParentInit
  \/ obj_init
  \/ InitFields
  \/ CallParentKill
  \/ obj_kill
  \/ Free

Next ==
  \/ \E c \in Newable : New(c)
  \/ Generated
  \/ \E f \in FieldName : StoreField(f)
  \/ Release
  \/ Wild

Spec == Init /\ [][Next]_vars

(* The functions of the compiler are straight-line code that runs on.      *)
FairSpec == Spec /\ WF_vars(Generated)

-----------------------------------------------------------------------------

(* However long the chain of kill functions, the memory of an object goes  *)
(* to free exactly once.                                                   *)
FreedOnce ==
  /\ frees <= 1
  /\ phase = "done" => frees = 1

Distinct(c) == \A d, e \in Ancestors(c) :
  \A i \in DOMAIN fields[d], j \in DOMAIN fields[e] :
    fields[d][i] = fields[e][j] => d = e /\ i = j

(* After the chain of init functions no integer, no pointer and no part of *)
(* the header still has what malloc found there, provided the class        *)
(* descends from obj (and is not obj itself, whose init stores no class)   *)
(* and no field name is used twice on the way: the second of two fields    *)
(* with the same name is a word that no index leads to.                    *)
Initialized ==
  phase = "live" /\ type # OBJ /\ Rooted(type) /\ Distinct(type) =>
    LET members == unrollFields(type)
    IN  /\ words[ClassWord] \in Class
        /\ words[RefWord] # "garbage"
        /\ \A i \in DOMAIN members :
             Kind[members[i].name] # "inline" => words[RefWord + i] # "garbage"

(* Releasing an object that descends from obj ends in its destructor: its  *)
(* count is the one obj_init cleared, which no field store can reach.      *)
ReleaseReachesDestructor ==
  phase \in {"leaked", "wild"} => type = OBJ \/ ~Rooted(type)

(* Every object of such a class that is being destroyed is freed.          *)
KilledIsFreed == phase = "kill" ~> phase = "done" /\ frees = 1

(* runtime/README.md:9-14 and 31: the first word of an object is its       *)
(* class struct, through which stp_release finds the destructor ...        *)
NeverWild == phase # "wild"

(* ... and each class type has its own vtable: the class in the header of  *)
(* a constructed object is the one it was constructed as.                  *)
HeaderNamesType ==
  phase = "live" /\ type # OBJ /\ Rooted(type) => words[ClassWord] = type

=============================================================================
