---------------------------- MODULE ClassLayout ----------------------------
(***************************************************************************)
(* The class table of the compiler (types/stapletype.cpp) and what the     *)
(* code generator derives from it: the struct of an object, the index of a *)
(* field in that struct, and the types and values of the vtable            *)
(* (codegen/LLVMStapleObject.cpp).                                         *)
(*                                                                         *)
(* The compiler computes the index of a field and the struct it indexes by *)
(* two different walks over the class hierarchy, and the type and the      *)
(* value of a vtable by two more; the properties say when they agree.      *)
(***************************************************************************)
EXTENDS Naturals, Sequences, FiniteSets, SequencesExt

CONSTANTS
  Class,       \* classes declared by the program
  OBJ,         \* the root class, STP_OBJ_CLASS
  NoClass,     \* the null StapleClass*
  FieldName,   \* field names the program uses
  MethodName,  \* method names the program uses
  Kind         \* Kind[f] is "int", "pointer" or "inline" (an object by value)

ASSUME ClassNames == OBJ \notin Class /\ NoClass \notin Class \cup {OBJ}
ASSUME KeywordIsNoField == "class" \notin FieldName
ASSUME FieldKinds == Kind \in [FieldName -> {"int", "pointer", "inline"}]

VARIABLES
  parent,   \* parent[c] is mParent
  fields,   \* fields[c] is mFields, as a sequence of names
  methods   \* methods[c] is mMethods, as a sequence of names

table == <<parent, fields, methods>>

AllClass == Class \cup {OBJ}

(* The compiler walks up parent pointers; a walk that meets a cycle        *)
(* overflows the stack of the compiler, and nothing is generated.          *)
Acyclic ==
  ~ \E S \in SUBSET AllClass \ {{}} : \A c \in S : parent[c] \in S

-----------------------------------------------------------------------------

(* Of the methods, only obj's init is Static. *)
Virtual(c, m) == ~(c = OBJ /\ m = "init")

(* The loop of a walk that is at class d: of its members, those in `kept`  *)
(* go behind what the walk has found in the ancestors.                     *)
Push(above, d, members, kept) ==
  LET push[i \in 0 .. Len(members)] ==
        IF i = 0 THEN above
        ELSE LET member == [class |-> d, name |-> members[i]]
             IN  IF member \in kept THEN Append(push[i - 1], member) ELSE push[i - 1]
  IN  push[Len(members)]

(* What a walk over the ancestors of c collects, the root's part first.    *)
Unroll(members, kept, c) ==
  LET unroll[d \in AllClass] ==
        Push(IF parent[d] = NoClass THEN <<>> ELSE unroll[parent[d]],
             d, members[d], kept)
  IN  unroll[c]

(* getField(name, index): the ancestors are searched first; the index      *)
(* counts every field passed on the way.                                   *)
getField(name, start, c) ==
  LET get[d \in AllClass] ==
        LET up == IF parent[d] = NoClass THEN [class |-> NoClass, index |-> start]
                                         ELSE get[parent[d]]
            here == SelectInSeq(fields[d], LAMBDA f : f = name)
        IN  CASE up.class # NoClass -> up
              [] up.class = NoClass /\ here > 0 ->
                   [class |-> d, index |-> up.index + here - 1]
              [] up.class = NoClass /\ here = 0 ->
                   [up EXCEPT !.index = @ + Len(fields[d])]
  IN  get[c]

(* Mistakes for the checks to catch: an index that counts only one of the  *)
(* two header words; own fields searched first.                            *)
getFieldPtr_FromZero(name, c) == getField(name, 0, c).index
getFieldPtr_OwnFirst(name, c) ==
  LET own == SelectInSeq(fields[c], LAMBDA f : f = name)
  IN  IF own > 0 THEN own + 1 ELSE getField(name, 1, c).index

(* The GEP index of a field: "start at index 1 to account for the ref      *)
(* counter"; obj's own field "class" accounts for the other header word.   *)
getFieldPtr(name, c) == getField(name, 1, c).index

Member(Name) == [class : AllClass, name : Name]

unrollFields(c) ==
  Unroll(fields, {w \in Member(FieldName \cup {"class"}) : w.name # "class"}, c)

(* The struct of an object: the word at GEP index i is element i + 1.      *)
getObjectType(c) ==
  <<[class |-> OBJ, name |-> "class"], [class |-> OBJ, name |-> "refcount"]>>
  \o unrollFields(c)

ClassWord == 0
RefWord == 1

(* The types of the vtable: every virtual method.                          *)
VirtualMethod ==
  {w \in Member(MethodName \cup {"init", "kill"}) : Virtual(w.class, w.name)}

unrollVtable(c) == Unroll(methods, VirtualMethod, c)

(* The mistake of giving the destructor a second entry.                    *)
unrollVtableValues_WithKill(c) == Unroll(methods, VirtualMethod, c)

(* Its values: every virtual method not named kill ...                     *)
unrollVtableValues(c) ==
  Unroll(methods, {w \in VirtualMethod : w.name # "kill"}, c)

(* ... after the destructor, whose argument is an obj* in every class.     *)
getClassVTableValue(c) ==
  <<[class |-> OBJ, name |-> "kill"]>> \o unrollVtableValues(c)

-----------------------------------------------------------------------------

Ancestors(c) ==
  LET up[d \in AllClass] == {d} \cup IF parent[d] = NoClass THEN {} ELSE up[parent[d]]
  IN  up[c]

Rooted(c) == OBJ \in Ancestors(c)

(* The names of the fields that an object of class c has.                  *)
FieldsOf(c) == {f \in FieldName : \E d \in Ancestors(c) : f \in Range(fields[d])}

(* The index that getField computes is the place of the field in the       *)
(* struct that unrollFields builds: both walks count alike.  A name that   *)
(* is declared twice means the declaration closest to the root.            *)
FieldAtItsIndex ==
  \A c \in Class : Rooted(c) =>
    \A f \in FieldsOf(c) :
      LET place == SelectInSeq(unrollFields(c), LAMBDA w : w.name = f)
      IN  place > 0 /\ getFieldPtr(f, c) = RefWord + place

(* Code compiled for a class runs on objects of its subclasses (a parent's *)
(* init does): the struct of the parent is a prefix of theirs, and a field *)
(* has the same index in both.                                             *)
PrefixLayout ==
  \A c \in AllClass : \A a \in Ancestors(c) :
    /\ IsPrefix(getObjectType(a), getObjectType(c))
    /\ \A f \in FieldsOf(a) : getFieldPtr(f, a) = getFieldPtr(f, c)

NoUserKill(c) == \A d \in Ancestors(c) \ {OBJ} : "kill" \notin Range(methods[d])

(* ConstantStruct::get aborts the compiler unless the values of a vtable   *)
(* are those its type asks for: as many, each a function on the same class.*)
VtableFitsItsType ==
  \A c \in Class : Rooted(c) /\ NoUserKill(c) =>
    getClassVTableValue(c) = unrollVtable(c)

(* runtime/README.md:31 says that the vtable of a class holds its virtual  *)
(* functions, without exception for one that is named kill.                *)
VtableHoldsVirtuals ==
  \A c \in Class : Rooted(c) =>
    \A m \in Range(methods[c]) :
      [class |-> c, name |-> m] \in Range(getClassVTableValue(c))

(* runtime/README.md:8-14 puts the class and the count before the other    *)
(* members of an object: no field may be reached at their place.           *)
HeaderIsNoField ==
  \A c \in Class : \A f \in FieldsOf(c) : getFieldPtr(f, c) > RefWord

=============================================================================
