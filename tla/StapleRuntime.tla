--------------------------- MODULE StapleRuntime ---------------------------
(***************************************************************************)
(* The reference-counting runtime that compiled Staple programs link to    *)
(* (runtime/src/runtime.ll): stp_retain, stp_release and stp_storeStrong,  *)
(* run by several threads, with the calls the compiler emits for `new`,    *)
(* for an assignment and for the end of a variable's scope.                *)
(*                                                                         *)
(* The runtime touches the count with atomicrmw and the variables with     *)
(* plain loads and stores.  The model therefore takes programs whose       *)
(* *variables* are free of data races (BeginStore and BeginRelease wait    *)
(* for a variable another call is working on), and lets threads race on    *)
(* everything else: counts, destruction, and objects shared by variables.  *)
(***************************************************************************)
EXTENDS Naturals, FiniteSets

CONSTANTS
  Thread,      \* threads that execute compiled code
  Var,         \* variables and fields of a class type
  Temp,        \* temporaries: the results of `new` expressions
  Obj,         \* objects malloc can return
  Null,        \* the null pointer
  LowZero,     \* objects at an address whose low 32 bits are all zero
  RefModulus   \* the count is an i32: 2^32 in the program

Slot == Var \cup Temp

ASSUME ThreadsFinite == IsFiniteSet(Thread)
ASSUME SlotsFinite == IsFiniteSet(Slot)
ASSUME PlacesDistinct == Slot \cap Thread = {}
ASSUME NullIsNothing == Null \notin Obj \cup Slot \cup Thread
ASSUME LowZeroObjects == LowZero \subseteq Obj
(* An object cannot have more owners than the count has values.            *)
ASSUME OwnersFit ==
  /\ RefModulus \in Nat \ {0}
  /\ Cardinality(Slot) + Cardinality(Thread) <= RefModulus

VARIABLES
  slot,     \* slot[s] is the pointer stored in s
  status,   \* status[o]: "unborn" before malloc, "dead" after free
  refs,     \* refs[o] is the i32 of object o: its owners minus one
  pc,       \* pc[t] is the next step of the call that t is executing
  dest,     \* dest[t] is the place that call stores to, or Null
  src,      \* src[t] is the place its value was read from, until retained
  val,      \* val[t] is the pointer that the call stores
  victim,   \* victim[t] is the pointer that the call releases
  fault     \* TRUE once a thread has dereferenced a null pointer

vars == <<slot, status, refs, pc, dest, src, val, victim, fault>>

PC == {"idle", "retain", "load", "sub", "destroy", "store"}

(* The types of the variables, headers and registers; the count is an      *)
(* unsigned number below RefModulus.                                       *)
TypeOK ==
  /\ slot \in [Slot -> Obj \cup {Null}]
  /\ status \in [Obj -> {"unborn", "live", "dead"}]
  /\ refs \in [Obj -> 0 .. RefModulus - 1]
  /\ pc \in [Thread -> PC]
  /\ dest \in [Thread -> Slot \cup {Null}]
  /\ src \in [Thread -> Slot \cup {Null}]
  /\ val \in [Thread -> Obj \cup {Null}]
  /\ victim \in [Thread -> Obj \cup {Null}]
  /\ fault \in BOOLEAN

Init ==
  /\ slot = [s \in Slot |-> Null]
  /\ status = [o \in Obj |-> "unborn"]
  /\ refs = [o \in Obj |-> 0]
  /\ pc = [t \in Thread |-> "idle"]
  /\ dest = [t \in Thread |-> Null]
  /\ src = [t \in Thread |-> Null]
  /\ val = [t \in Thread |-> Null]
  /\ victim = [t \in Thread |-> Null]
  /\ fault = FALSE

-----------------------------------------------------------------------------

(* atomicrmw add and sub on an i32. *)
Incremented(n) == IF n = RefModulus - 1 THEN 0 ELSE n + 1
Decremented_NoWrap(n) == n - 1    \* a mistake for the checks to catch
Decremented(n) == IF n = 0 THEN RefModulus - 1 ELSE n - 1
(* stp_release compares `ptrtoint %obj* %value to i32` with zero. *)
TruncatesToZero(p) == p = Null \/ p \in LowZero

(* What race freedom of the variables forbids to other calls. *)
BeingStored(s) == \E t \in Thread : dest[t] = s
BeingRead(s) == \E t \in Thread : src[t] = s

(* The mistake of starting the count at one. *)
New_CountsFromOne(t, s, o) ==
  /\ ~fault /\ pc[t] = "idle"
  /\ slot[s] = Null /\ ~BeingStored(s) /\ ~BeingRead(s) /\ status[o] = "unborn"
  /\ slot' = [slot EXCEPT ![s] = o]
  /\ status' = [status EXCEPT ![o] = "live"]
  /\ refs' = [refs EXCEPT ![o] = 1]
  /\ UNCHANGED <<pc, dest, src, val, victim, fault>>

(* `new C` in thread t: malloc, obj_init sets the count to 0, and the      *)
(* result stays in temporary s until the end of its block.                 *)
New(t, s, o) ==
  /\ ~fault
  /\ pc[t] = "idle"
  /\ slot[s] = Null
  /\ ~BeingStored(s) /\ ~BeingRead(s)
  /\ status[o] = "unborn"
  /\ slot' = [slot EXCEPT ![s] = o]
  /\ status' = [status EXCEPT ![o] = "live"]
  /\ refs' = [refs EXCEPT ![o] = 0]
  /\ UNCHANGED <<pc, dest, src, val, victim, fault>>

(* `d = s`: the value is loaded from s and stp_storeStrong is called. *)
BeginStore(t, d, s) ==
  /\ ~fault
  /\ pc[t] = "idle"
  /\ ~BeingStored(d) /\ ~BeingRead(d) /\ ~BeingStored(s)
  /\ pc' = [pc EXCEPT ![t] = "retain"]
  /\ dest' = [dest EXCEPT ![t] = d]
  /\ src' = [src EXCEPT ![t] = s]
  /\ val' = [val EXCEPT ![t] = slot[s]]
  /\ UNCHANGED <<slot, status, refs, victim, fault>>

(* Variable or temporary s goes out of scope: stp_release(load s).  It is  *)
(* the tail of stp_storeStrong with nothing to store; s is null when its   *)
(* declaration is next executed.                                           *)
BeginRelease(t, s) ==
  /\ ~fault
  /\ pc[t] = "idle"
  /\ ~BeingStored(s) /\ ~BeingRead(s)
  /\ pc' = [pc EXCEPT ![t] = "sub"]
  /\ dest' = [dest EXCEPT ![t] = s]
  /\ victim' = [victim EXCEPT ![t] = slot[s]]
  /\ UNCHANGED <<slot, status, refs, src, val, fault>>

-----------------------------------------------------------------------------

(* The mistake of storing without retaining. *)
stp_retain_Dropped(t) ==
  /\ ~fault /\ pc[t] = "retain" /\ val[t] # Null
  /\ pc' = [pc EXCEPT ![t] = "load"]
  /\ src' = [src EXCEPT ![t] = Null]
  /\ UNCHANGED <<slot, status, refs, dest, val, victim, fault>>

(* stp_retain of an object: one atomic increment. *)
stp_retain(t) ==
  /\ ~fault
  /\ pc[t] = "retain"
  /\ val[t] # Null
  /\ refs' = [refs EXCEPT ![val[t]] = Incremented(@)]
  /\ pc' = [pc EXCEPT ![t] = "load"]
  /\ src' = [src EXCEPT ![t] = Null]
  /\ UNCHANGED <<slot, status, dest, val, victim, fault>>

(* stp_retain has no null check: it increments the word at null + 8. *)
RetainNull(t) ==
  /\ ~fault
  /\ pc[t] = "retain"
  /\ val[t] = Null
  /\ fault' = TRUE
  /\ UNCHANGED <<slot, status, refs, pc, dest, src, val, victim>>

(* stp_storeStrong loads the old value of its destination. *)
LoadDest(t) ==
  /\ ~fault
  /\ pc[t] = "load"
  /\ pc' = [pc EXCEPT ![t] = "sub"]
  /\ victim' = [victim EXCEPT ![t] = slot[dest[t]]]
  /\ UNCHANGED <<slot, status, refs, dest, src, val, fault>>

(* stp_release of what it takes to be a null pointer does nothing. *)
ReleaseNull(t) ==
  /\ ~fault
  /\ pc[t] = "sub"
  /\ TruncatesToZero(victim[t])
  /\ pc' = [pc EXCEPT ![t] = "store"]
  /\ UNCHANGED <<slot, status, refs, dest, src, val, victim, fault>>

(* The mistake of destroying when the count reaches zero. *)
stp_release_AtZero(t) ==
  /\ ~fault /\ pc[t] = "sub" /\ ~TruncatesToZero(victim[t])
  /\ refs' = [refs EXCEPT ![victim[t]] = Decremented(@)]
  /\ pc' = [pc EXCEPT ![t] = IF refs[victim[t]] = 1 THEN "destroy" ELSE "store"]
  /\ UNCHANGED <<slot, status, dest, src, val, victim, fault>>

(* stp_release of an object: one atomic decrement; the thread that took    *)
(* the count below zero is the one that destroys.                          *)
stp_release(t) ==
  /\ ~fault
  /\ pc[t] = "sub"
  /\ ~TruncatesToZero(victim[t])
  /\ refs' = [refs EXCEPT ![victim[t]] = Decremented(@)]
  /\ pc' = [pc EXCEPT ![t] = IF refs[victim[t]] = 0 THEN "destroy" ELSE "store"]
  /\ UNCHANGED <<slot, status, dest, src, val, victim, fault>>

(* The destructor in the class of the victim ends in free. *)
Destroy(t) ==
  /\ ~fault
  /\ pc[t] = "destroy"
  /\ status' = [status EXCEPT ![victim[t]] = "dead"]
  /\ pc' = [pc EXCEPT ![t] = "store"]
  /\ UNCHANGED <<slot, refs, dest, src, val, victim, fault>>

(* Only now does stp_storeStrong overwrite its destination. *)
FinishStore(t) ==
  /\ ~fault
  /\ pc[t] = "store"
  /\ slot' = [slot EXCEPT ![dest[t]] = val[t]]
  /\ pc' = [pc EXCEPT ![t] = "idle"]
  /\ dest' = [dest EXCEPT ![t] = Null]
  /\ val' = [val EXCEPT ![t] = Null]
  /\ victim' = [victim EXCEPT ![t] = Null]
  /\ UNCHANGED <<status, refs, src, fault>>

(* After the segmentation fault nothing happens any more. *)
Crashed == fault /\ UNCHANGED vars

-----------------------------------------------------------------------------

RuntimeStep(t) ==
  \/ stp_retain(t)
  \/ RetainNull(t)
  \/ LoadDest(t)
  \/ ReleaseNull(t)
  \/ stp_release(t)
  \/ Destroy(t)
  \/ FinishStore(t)

ProgramStep(t) ==
  \/ \E s \in Temp, o \in Obj : New(t, s, o)
  \/ \E d \in Var, s \in Slot : BeginStore(t, d, s)
  \/ \E s \in Slot : BeginRelease(t, s)

Next ==
  \/ \E t \in Thread : RuntimeStep(t) \/ ProgramStep(t)
  \/ Crashed

(* A thread inside the runtime is never blocked, so the scheduler lets it  *)
(* finish its call.  Nothing obliges the program to make the next one.     *)
Fairness == \A t \in Thread : WF_vars(RuntimeStep(t))

Spec == Init /\ [][Next]_vars
FairSpec == Spec /\ Fairness

-----------------------------------------------------------------------------

(* A place whose pointer has been released but not yet overwritten, or     *)
(* whose scope has ended, still holds the bits and owns nothing.           *)
Consumed(s) == \E t \in Thread : dest[t] = s /\ pc[t] \in {"destroy", "store"}

Holding(t) == pc[t] \in {"load", "sub", "destroy", "store"}

(* The owners of o: the places that will release it, and the calls that    *)
(* have retained it and have not stored it yet.                            *)
Owners(o) == {s \in Slot : slot[s] = o /\ ~Consumed(s)}
             \cup {t \in Thread : val[t] = o /\ Holding(t)}

Destroyers(o) == {t \in Thread : pc[t] = "destroy" /\ victim[t] = o}

Counted == Obj \ LowZero

(* Whatever the interleaving, the runtime reads and writes the header of   *)
(* an object (count or class pointer) only between its malloc and its      *)
(* free.  The dangerous window is the one between loading a pointer and    *)
(* the atomic instruction that uses it.                                    *)
AccessesLive ==
  \A t \in Thread :
    /\ pc[t] = "retain" /\ val[t] # Null => status[val[t]] = "live"
    /\ pc[t] \in {"sub", "destroy"} /\ victim[t] # Null
          => status[victim[t]] = "live"

(* No variable or temporary of the program is left pointing to freed       *)
(* memory, except while the call that released it is about to overwrite it.*)
NoDangling ==
  \A s \in Slot : slot[s] # Null /\ ~Consumed(s) => status[slot[s]] = "live"

(* The i32 of a live object is always one less than the number of its      *)
(* owners, counting calls in progress; when nobody owns it, the count has  *)
(* gone below zero and exactly one thread is about to destroy it.          *)
CountIsOwners ==
  \A o \in Counted :
    IF status[o] = "live" /\ Owners(o) # {}
    THEN refs[o] = Cardinality(Owners(o)) - 1 /\ Destroyers(o) = {}
    ELSE /\ Owners(o) = {}
         /\ status[o] # "live" => Destroyers(o) = {}
         /\ status[o] = "live" => /\ refs[o] = RefModulus - 1
                                  /\ \E t \in Thread : Destroyers(o) = {t}

(* The counts implement ownership: an object is destroyed once, after its  *)
(* last owner is gone, and an object that nobody owns is not revived.      *)
Own == INSTANCE Ownership WITH
  Obj <- Counted,
  Ref <- Slot \cup Thread,
  owners <- [o \in Counted |-> Owners(o)],
  phase <- [o \in Counted |->
              IF status[o] = "live" /\ Owners(o) = {} THEN "dying" ELSE status[o]]

ImplementsOwnership == Own!Spec

(* An object that lost its last owner is freed by the thread that took the *)
(* count below zero, unless the process has crashed.                       *)
OrphansDestroyed ==
  \A o \in Counted :
    (status[o] = "live" /\ Owners(o) = {}) ~> (status[o] = "dead" \/ fault)

-----------------------------------------------------------------------------

(* README.md:57-60 says that reference counting relieves the programmer    *)
(* from managing memory.  Two things the program can observe against it:   *)

(* ... no memory is lost: between calls, every live object has an owner.   *)
NoLeak ==
  (\A t \in Thread : pc[t] = "idle")
    => \A o \in Obj : status[o] = "live" => Owners(o) # {}

(* ... an assignment between variables never crashes.                      *)
NoFault == ~fault

=============================================================================
