----------------------------- MODULE Ownership -----------------------------
(***************************************************************************)
(* What automatic reference counting promises, without saying how it       *)
(* counts.  An object is created with one owner, gains and loses owners,   *)
(* is condemned when it loses the last one and is destroyed exactly once,  *)
(* after that.  StapleRuntime implements this specification.               *)
(***************************************************************************)

CONSTANTS
  Obj,    \* objects that can ever be created
  Ref     \* places that can own an object: variables, temporaries, callers

VARIABLES
  phase,  \* phase[o] is the stage of the life of object o
  owners  \* owners[o] is the set of places that own o

vars == <<phase, owners>>

Phase == {"unborn", "live", "dying", "dead"}

(* The types of the abstract state.                                        *)
TypeOK ==
  /\ phase \in [Obj -> Phase]
  /\ owners \in [Obj -> SUBSET Ref]

Init ==
  /\ phase = [o \in Obj |-> "unborn"]
  /\ owners = [o \in Obj |-> {}]

(* A new object belongs to the place that created it. *)
Create(o, r) ==
  /\ phase[o] = "unborn"
  /\ phase' = [phase EXCEPT ![o] = "live"]
  /\ owners' = [owners EXCEPT ![o] = {r}]

(* Only an object that still has an owner can gain one. *)
Acquire(o, r) ==
  /\ phase[o] = "live"
  /\ r \notin owners[o]
  /\ owners' = [owners EXCEPT ![o] = @ \cup {r}]
  /\ UNCHANGED phase

(* Ownership passes from one place to another without being counted. *)
Transfer(o, r, q) ==
  /\ r \in owners[o]
  /\ owners' = [owners EXCEPT ![o] = (@ \ {r}) \cup {q}]
  /\ UNCHANGED phase

(* Losing the last owner condemns the object. *)
Drop(o, r) ==
  /\ r \in owners[o]
  /\ owners' = [owners EXCEPT ![o] = @ \ {r}]
  /\ phase' = IF owners[o] = {r} THEN [phase EXCEPT ![o] = "dying"]
                                 ELSE phase

Destroy(o) ==
  /\ phase[o] = "dying"
  /\ phase' = [phase EXCEPT ![o] = "dead"]
  /\ UNCHANGED owners

Next ==
  \E o \in Obj :
    \/ Destroy(o)
    \/ \E r \in Ref : Create(o, r) \/ Acquire(o, r) \/ Drop(o, r)
    \/ \E r, q \in Ref : Transfer(o, r, q)

Spec == Init /\ [][Next]_vars

=============================================================================
