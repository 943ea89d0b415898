----------------------------- MODULE ClassTable ----------------------------
(***************************************************************************)
(* How the semantic pass fills the class table (visit(NCompileUnit) in     *)
(* sempass.cpp): one pass defines the names of all classes, a second gives *)
(* each class its parent, its fields and then its methods.  The layout     *)
(* properties of ClassLayout are about the table it leaves behind.         *)
(***************************************************************************)
EXTENDS ClassLayout

CONSTANTS
  Typo,         \* a name in an `extends` clause that no class has
  MaxFields,    \* bound: fields of all classes together
  MaxMethods    \* bound: methods of all classes together

ASSUME TypoIsNoClass == Typo \notin AllClass \cup {NoClass}

VARIABLES
  extends,    \* extends[c] is the name in c's declaration (mExtends)
  pass,       \* "names", "members", then "codegen" or "overflow"
  defined,    \* the keys of mClasses
  visited,    \* the classes whose declaration the second pass has entered
  current     \* the currentClass of the second pass

tableVars == <<table, extends, pass, defined, visited, current>>

(* The types of the table and of the two passes that fill it.              *)
TableTypeOK ==
  /\ parent \in [AllClass -> AllClass \cup {NoClass}]
  /\ fields \in [AllClass -> Seq(FieldName \cup {"class"})]
  /\ methods \in [AllClass -> Seq(MethodName \cup {"init", "kill"})]
  /\ extends \in [Class -> AllClass \cup {Typo}]
  /\ pass \in {"names", "members", "codegen", "overflow"}
  /\ defined \subseteq AllClass
  /\ visited \subseteq defined
  /\ current \in visited \cup {NoClass}

TableInit ==
  /\ parent = [c \in AllClass |-> NoClass]
  /\ fields = [c \in AllClass |-> IF c = OBJ THEN <<"class">> ELSE <<>>]
  /\ methods = [c \in AllClass |-> IF c = OBJ THEN <<"init", "kill">> ELSE <<>>]
  /\ extends \in [Class -> AllClass \cup {Typo}]
  /\ pass = "names"
  /\ defined = {OBJ}
  /\ visited = {}
  /\ current = NoClass

(* Pass1ClassVisitor: a class of the program gets its name. *)
DefineClass(c) ==
  /\ pass = "names"
  /\ c \notin defined
  /\ defined' = defined \cup {c}
  /\ UNCHANGED <<table, extends, pass, visited, current>>

EndNames ==
  /\ pass = "names"
  /\ pass' = "members"
  /\ UNCHANGED <<table, extends, defined, visited, current>>

(* Mistakes for the checks to catch: taking the name for a class;          *)
(* resolving parents before all names are defined.                        *)
lookupClassName_Unchecked(name) == name
lookupClassName_Backward(name) ==
  IF name \in visited \cup {OBJ} THEN name ELSE NoClass

(* A null result for a name that is not defined, and no error for it. *)
lookupClassName(name) == IF name \in defined THEN name ELSE NoClass

(* The second pass enters the declaration of c. *)
SetParent(c) ==
  /\ pass = "members"
  /\ c \in defined \ (visited \cup {OBJ})
  /\ current' = c
  /\ visited' = visited \cup {c}
  /\ parent' = [parent EXCEPT ![c] = lookupClassName(extends[c])]
  /\ UNCHANGED <<fields, methods, extends, pass, defined>>

Total(members) == FoldFunction(LAMBDA s, n : Len(s) + n, 0, members)

(* Fields come first in the loops over a declaration ... *)
AddField(f) ==
  /\ pass = "members"
  /\ current # NoClass
  /\ methods[current] = <<>>
  /\ Total(fields) - 1 < MaxFields
  /\ fields' = [fields EXCEPT ![current] = Append(@, f)]
  /\ UNCHANGED <<parent, methods, extends, pass, defined, visited, current>>

(* ... then its methods, every one Virtual. *)
AddMethod(m) ==
  /\ pass = "members"
  /\ current # NoClass
  /\ Total(methods) - 2 < MaxMethods
  /\ methods' = [methods EXCEPT ![current] = Append(@, m)]
  /\ UNCHANGED <<parent, fields, extends, pass, defined, visited, current>>

(* With a cycle of parents the first walk over the table never returns.    *)
EndMembers ==
  /\ pass = "members"
  /\ defined = visited \cup {OBJ}
  /\ pass' = IF Acyclic THEN "codegen" ELSE "overflow"
  /\ UNCHANGED <<table, extends, defined, visited, current>>

Stopped == pass \in {"codegen", "overflow"} /\ UNCHANGED tableVars

TableNext ==
  \/ \E c \in Class : DefineClass(c) \/ SetParent(c)
  \/ EndNames
  \/ \E f \in FieldName : AddField(f)
  \/ \E m \in MethodName : AddMethod(m)
  \/ EndMembers
  \/ Stopped

TableSpec == TableInit /\ [][TableNext]_tableVars

-----------------------------------------------------------------------------
(* The code generator starts on a table for which ...                      *)

Generating == pass = "codegen"

(* ... fields are where getField says;                                     *)
FieldIndexesRight == Generating => FieldAtItsIndex

(* ... objects of a subclass can be used by the code of its ancestors;     *)
SubclassesCompatible == Generating => PrefixLayout

(* ... vtables can be built.                                               *)
VtablesBuildable == Generating => VtableFitsItsType

(* ... every class has the parent it names, whether that is declared       *)
(* before it or after it.                                                  *)
ForwardParents ==
  Generating => \A c \in visited : extends[c] \in defined => parent[c] = extends[c]

(* And what the repository says of the runtime's data, which not every     *)
(* program it accepts respects: a vtable holds all virtual methods, and    *)
(* the header of an object is out of the reach of its fields.              *)
VtablesComplete == Generating => VtableHoldsVirtuals
HeadersSafe == Generating => HeaderIsNoField

=============================================================================
