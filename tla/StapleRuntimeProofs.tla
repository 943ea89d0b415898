------------------------ MODULE StapleRuntimeProofs ------------------------
(***************************************************************************)
(* The theorems about StapleRuntime, for any number of threads, variables, *)
(* temporaries and objects.                                                *)
(***************************************************************************)
EXTENDS StapleRuntime, FiniteSetTheorems, TLAPS

(* What a call in progress knows, beyond the types.                        *)
CallOK(t) ==
  /\ pc[t] = "idle" <=> dest[t] = Null
  /\ pc[t] = "retain" <=> src[t] # Null
  /\ pc[t] = "idle" => val[t] = Null
  /\ pc[t] = "retain" => val[t] = slot[src[t]]
  /\ pc[t] = "load" => val[t] \in Obj
  /\ pc[t] \in {"sub", "destroy", "store"} => victim[t] = slot[dest[t]]
  /\ pc[t] = "destroy" => victim[t] \in Counted

(* Race freedom of the variables, as an invariant.                         *)
Exclusive(t, u) ==
  /\ dest[t] # Null /\ dest[t] = dest[u] => t = u
  /\ src[t] # Null /\ src[t] = dest[u] => t = u

(* No pointer points to memory that has not been allocated, and the object *)
(* that stp_release takes for null is never freed.                         *)
Born ==
  /\ \A s \in Slot : slot[s] # Null => status[slot[s]] # "unborn"
  /\ \A t \in Thread : val[t] # Null => status[val[t]] # "unborn"
  /\ \A o \in LowZero : status[o] # "dead"

Discipline ==
  /\ \A t \in Thread : CallOK(t)
  /\ \A t, u \in Thread : Exclusive(t, u)
  /\ Born

(* The inductive invariant.                                                *)
IInv == TypeOK /\ Discipline /\ CountIsOwners

-----------------------------------------------------------------------------

LEMMA TypeStep == TypeOK /\ Discipline /\ [Next]_vars => TypeOK'
<1> SUFFICES ASSUME TypeOK, Discipline, [Next]_vars
             PROVE  TypeOK'
  OBVIOUS
<1> USE DEF TypeOK, PC
<1>1. ASSUME NEW t \in Thread, NEW s \in Temp, NEW o \in Obj, New(t, s, o)
      PROVE  TypeOK'
  BY <1>1, OwnersFit DEF New, Slot
<1>2. ASSUME NEW t \in Thread, NEW d \in Var, NEW s \in Slot, BeginStore(t, d, s)
      PROVE  TypeOK'
  BY <1>2 DEF BeginStore, Slot
<1>3. ASSUME NEW t \in Thread, NEW s \in Slot, BeginRelease(t, s)
      PROVE  TypeOK'
  BY <1>3 DEF BeginRelease
<1>4. ASSUME NEW t \in Thread, stp_retain(t)
      PROVE  TypeOK'
  BY <1>4, OwnersFit DEF stp_retain, Incremented
<1>5. ASSUME NEW t \in Thread, RetainNull(t)
      PROVE  TypeOK'
  BY <1>5 DEF RetainNull
<1>6. ASSUME NEW t \in Thread, LoadDest(t)
      PROVE  TypeOK'
  BY <1>6 DEF LoadDest, Discipline, CallOK
<1>7. ASSUME NEW t \in Thread, ReleaseNull(t)
      PROVE  TypeOK'
  BY <1>7 DEF ReleaseNull
<1>8. ASSUME NEW t \in Thread, stp_release(t)
      PROVE  TypeOK'
  BY <1>8, OwnersFit DEF stp_release, Decremented, TruncatesToZero
<1>9. ASSUME NEW t \in Thread, Destroy(t)
      PROVE  TypeOK'
  BY <1>9 DEF Destroy
<1>10. ASSUME NEW t \in Thread, FinishStore(t)
       PROVE  TypeOK'
  BY <1>10 DEF FinishStore
<1>11. CASE UNCHANGED vars
  BY <1>11 DEF vars
<1> QED
  BY <1>1, <1>2, <1>3, <1>4, <1>5, <1>6, <1>7, <1>8, <1>9, <1>10, <1>11
     DEF Next, ProgramStep, RuntimeStep, Crashed

LEMMA DisciplineStep == TypeOK /\ Discipline /\ [Next]_vars => Discipline'
<1> SUFFICES ASSUME TypeOK, Discipline, [Next]_vars
             PROVE  Discipline'
  OBVIOUS
<1> USE NullIsNothing, LowZeroObjects
    DEF TypeOK, PC, Discipline, CallOK, Exclusive, Born
<1>1. ASSUME NEW t \in Thread, NEW s \in Temp, NEW o \in Obj, New(t, s, o)
      PROVE  Discipline'
  BY <1>1 DEF New, Slot, BeingStored, BeingRead
<1>2. ASSUME NEW t \in Thread, NEW d \in Var, NEW s \in Slot, BeginStore(t, d, s)
      PROVE  Discipline'
  BY <1>2 DEF BeginStore, Slot, BeingStored, BeingRead
<1>3. ASSUME NEW t \in Thread, NEW s \in Slot, BeginRelease(t, s)
      PROVE  Discipline'
  BY <1>3 DEF BeginRelease, BeingStored, BeingRead
<1>4. ASSUME NEW t \in Thread, stp_retain(t)
      PROVE  Discipline'
  BY <1>4 DEF stp_retain
<1>5. ASSUME NEW t \in Thread, RetainNull(t)
      PROVE  Discipline'
  BY <1>5 DEF RetainNull
<1>6. ASSUME NEW t \in Thread, LoadDest(t)
      PROVE  Discipline'
  BY <1>6 DEF LoadDest
<1>7. ASSUME NEW t \in Thread, ReleaseNull(t)
      PROVE  Discipline'
  BY <1>7 DEF ReleaseNull
<1>8. ASSUME NEW t \in Thread, stp_release(t)
      PROVE  Discipline'
  BY <1>8 DEF stp_release, TruncatesToZero, Counted
<1>9. ASSUME NEW t \in Thread, Destroy(t)
      PROVE  Discipline'
  BY <1>9 DEF Destroy, Counted
<1>10. ASSUME NEW t \in Thread, FinishStore(t)
       PROVE  Discipline'
  BY <1>10 DEF FinishStore
<1>11. CASE UNCHANGED vars
  BY <1>11 DEF vars
<1> QED
  BY <1>1, <1>2, <1>3, <1>4, <1>5, <1>6, <1>7, <1>8, <1>9, <1>10, <1>11
     DEF Next, ProgramStep, RuntimeStep, Crashed

-----------------------------------------------------------------------------
(* What each step does to the owners of an object: the detailed steps are  *)
(* an acquisition, a transfer, a loss, or nothing at all.                  *)

LEMMA OwnersNew ==
  ASSUME TypeOK, Discipline,
         NEW t \in Thread, NEW s \in Temp, NEW n \in Obj, New(t, s, n),
         NEW o \in Counted
  PROVE  Owners(o)' = IF o = n THEN Owners(o) \cup {s} ELSE Owners(o)
<1> QED
  BY NullIsNothing
     DEF TypeOK, New, Slot, Owners, Consumed, Holding, Counted, BeingStored

LEMMA OwnersRetain ==
  ASSUME TypeOK, Discipline, NEW t \in Thread, stp_retain(t), NEW o \in Counted
  PROVE  /\ o = val[t] => src[t] \in Owners(o) /\ t \notin Owners(o)
         /\ Owners(o)' = IF o = val[t] THEN Owners(o) \cup {t} ELSE Owners(o)
<1> USE NullIsNothing, PlacesDistinct
        DEF TypeOK, Discipline, CallOK, Exclusive, stp_retain,
            Owners, Consumed, Holding, Counted
<1>1. o = val[t] => src[t] \in Owners(o) /\ t \notin Owners(o)
  OBVIOUS
<1>2. Owners(o)' = IF o = val[t] THEN Owners(o) \cup {t} ELSE Owners(o)
  OBVIOUS
<1> QED
  BY <1>1, <1>2

LEMMA OwnersRelease ==
  ASSUME TypeOK, Discipline, NEW t \in Thread, stp_release(t), NEW o \in Counted
  PROVE  /\ o = victim[t] => dest[t] \in Owners(o)
         /\ Owners(o)' = IF o = victim[t] THEN Owners(o) \ {dest[t]} ELSE Owners(o)
<1> USE NullIsNothing, PlacesDistinct
        DEF TypeOK, Discipline, CallOK, Exclusive, stp_release, TruncatesToZero,
            Owners, Consumed, Holding, Counted
<1>1. o = victim[t] => dest[t] \in Owners(o)
  OBVIOUS
<1>2. Owners(o)' = IF o = victim[t] THEN Owners(o) \ {dest[t]} ELSE Owners(o)
  OBVIOUS
<1> QED
  BY <1>1, <1>2

LEMMA OwnersFinish ==
  ASSUME TypeOK, Discipline, NEW t \in Thread, FinishStore(t), NEW o \in Counted
  PROVE  /\ o = val[t] => t \in Owners(o) /\ dest[t] \notin Owners(o)
         /\ Owners(o)' = IF o = val[t] THEN (Owners(o) \ {t}) \cup {dest[t]}
                                       ELSE Owners(o)
<1> USE NullIsNothing, PlacesDistinct
        DEF TypeOK, Discipline, CallOK, Exclusive, FinishStore,
            Owners, Consumed, Holding, Counted
<1>1. o = val[t] => t \in Owners(o) /\ dest[t] \notin Owners(o)
  OBVIOUS
<1>2. Owners(o)' = IF o = val[t] THEN (Owners(o) \ {t}) \cup {dest[t]}
                                 ELSE Owners(o)
  OBVIOUS
<1> QED
  BY <1>1, <1>2

(* The steps that move no ownership.                                       *)
Quiet(t) ==
  \/ \E d \in Var, s \in Slot : BeginStore(t, d, s)
  \/ \E s \in Slot : BeginRelease(t, s)
  \/ RetainNull(t)
  \/ LoadDest(t)
  \/ ReleaseNull(t)
  \/ Destroy(t)

LEMMA OwnersQuiet ==
  ASSUME TypeOK, Discipline, NEW t \in Thread, Quiet(t), NEW o \in Counted
  PROVE  Owners(o)' = Owners(o)
<1> USE NullIsNothing, PlacesDistinct
        DEF TypeOK, Discipline, CallOK, Exclusive, Owners, Consumed, Holding, Counted
<1>1. ASSUME NEW d \in Var, NEW s \in Slot, BeginStore(t, d, s)
      PROVE  Owners(o)' = Owners(o)
  BY <1>1 DEF BeginStore, BeingStored
<1>2. ASSUME NEW s \in Slot, BeginRelease(t, s)
      PROVE  Owners(o)' = Owners(o)
  BY <1>2 DEF BeginRelease
<1>3. CASE RetainNull(t)
  BY <1>3 DEF RetainNull
<1>4. CASE LoadDest(t)
  BY <1>4 DEF LoadDest
<1>5. CASE ReleaseNull(t)
  BY <1>5 DEF ReleaseNull, TruncatesToZero
<1>6. CASE Destroy(t)
  BY <1>6 DEF Destroy
<1> QED
  BY <1>1, <1>2, <1>3, <1>4, <1>5, <1>6 DEF Quiet

-----------------------------------------------------------------------------
(* The count is the number of owners.                                      *)

LEMMA OwnersBounded ==
  ASSUME NEW O \in SUBSET (Slot \cup Thread)
  PROVE  /\ IsFiniteSet(O)
         /\ Cardinality(O) \in 0 .. RefModulus
         /\ Cardinality(O) = 0 <=> O = {}
<1>1. /\ IsFiniteSet(Slot \cup Thread)
      /\ Cardinality(Slot \cup Thread)
           = Cardinality(Slot) + Cardinality(Thread) - Cardinality(Slot \cap Thread)
  BY SlotsFinite, ThreadsFinite, FS_Union
<1>2. Cardinality(Slot \cap Thread) = 0
  BY PlacesDistinct, FS_EmptySet
<1>3. /\ Cardinality(Slot) \in Nat
      /\ Cardinality(Thread) \in Nat
  BY SlotsFinite, ThreadsFinite, FS_CardinalityType
<1>4. IsFiniteSet(O) /\ Cardinality(O) <= Cardinality(Slot \cup Thread)
  BY <1>1, FS_Subset
<1>5. Cardinality(O) \in Nat /\ Cardinality(Slot \cup Thread) <= RefModulus
  BY <1>1, <1>2, <1>3, <1>4, OwnersFit, FS_CardinalityType
<1>6. Cardinality(O) = 0 <=> O = {}
  BY <1>4, FS_EmptySet
<1>7. Cardinality(O) \in 0 .. RefModulus
  BY <1>1, <1>2, <1>3, <1>4, <1>5, OwnersFit
<1> QED
  BY <1>4, <1>6, <1>7

(* CountIsOwners for one object.                                           *)
CountOK(o) ==
  IF status[o] = "live" /\ Owners(o) # {}
  THEN refs[o] = Cardinality(Owners(o)) - 1 /\ Destroyers(o) = {}
  ELSE /\ Owners(o) = {}
       /\ status[o] # "live" => Destroyers(o) = {}
       /\ status[o] = "live" => /\ refs[o] = RefModulus - 1
                                /\ \E t \in Thread : Destroyers(o) = {t}

LEMMA CountNew ==
  ASSUME TypeOK, Discipline,
         NEW t \in Thread, NEW s \in Temp, NEW n \in Obj, New(t, s, n),
         NEW o \in Counted, CountOK(o)
  PROVE  CountOK(o)'
<1>1. Destroyers(o)' = Destroyers(o)
  BY DEF New, Destroyers
<1>2. CASE o = n
  <2>1. Owners(o) = {} /\ Destroyers(o) = {}
    BY <1>2 DEF New, CountOK
  <2>2. Owners(o)' = {s}
    BY <1>2, <2>1, OwnersNew
  <2>3. refs'[o] = 0 /\ status'[o] = "live"
    BY <1>2 DEF New, TypeOK, Counted
  <2>4. Cardinality({s}) = 1
    BY FS_Singleton
  <2> QED
    BY <1>1, <2>1, <2>2, <2>3, <2>4 DEF CountOK
<1>3. CASE o # n
  <2>1. Owners(o)' = Owners(o)
    BY <1>3, OwnersNew
  <2>2. refs'[o] = refs[o] /\ status'[o] = status[o]
    BY <1>3 DEF New, TypeOK, Counted
  <2> QED
    BY <1>1, <2>1, <2>2 DEF CountOK
<1> QED
  BY <1>2, <1>3

LEMMA CountRetain ==
  ASSUME TypeOK, Discipline, NEW t \in Thread, stp_retain(t),
         NEW o \in Counted, CountOK(o)
  PROVE  CountOK(o)'
<1>1. Destroyers(o)' = Destroyers(o)
  BY DEF stp_retain, Destroyers, TypeOK
<1>2. CASE o = val[t]
  <2>1. src[t] \in Owners(o) /\ t \notin Owners(o) /\ Owners(o)' = Owners(o) \cup {t}
    BY <1>2, OwnersRetain
  <2>2. refs[o] = Cardinality(Owners(o)) - 1 /\ Destroyers(o) = {} /\ status[o] = "live"
    BY <2>1 DEF CountOK
  <2>3. Owners(o) \in SUBSET (Slot \cup Thread) /\ Owners(o)' \in SUBSET (Slot \cup Thread)
    BY <2>1 DEF Owners
  <2>4. IsFiniteSet(Owners(o)) /\ Cardinality(Owners(o)') = Cardinality(Owners(o)) + 1
    BY <2>1, <2>3, OwnersBounded, FS_AddElement
  <2>5. Cardinality(Owners(o)) \in 0 .. RefModulus /\ Cardinality(Owners(o)') \in 0 .. RefModulus
    BY <2>3, OwnersBounded
  <2>6. refs'[o] = Incremented(refs[o]) /\ status'[o] = status[o]
    BY <1>2 DEF stp_retain, TypeOK, Counted
  <2>7. refs'[o] = Cardinality(Owners(o)') - 1
    BY <2>2, <2>4, <2>5, <2>6, OwnersFit DEF Incremented
  <2> QED
    BY <1>1, <2>1, <2>2, <2>6, <2>7 DEF CountOK
<1>3. CASE o # val[t]
  <2>1. Owners(o)' = Owners(o)
    BY <1>3, OwnersRetain
  <2>2. refs'[o] = refs[o] /\ status'[o] = status[o]
    BY <1>3 DEF stp_retain, TypeOK, Counted
  <2> QED
    BY <1>1, <2>1, <2>2 DEF CountOK
<1> QED
  BY <1>2, <1>3

LEMMA CountRelease ==
  ASSUME TypeOK, Discipline, NEW t \in Thread, stp_release(t),
         NEW o \in Counted, CountOK(o)
  PROVE  CountOK(o)'
<1>1. Destroyers(o)' = IF o = victim[t] /\ refs[o] = 0 THEN Destroyers(o) \cup {t}
                                                       ELSE Destroyers(o)
  BY DEF stp_release, Destroyers, TypeOK
<1>2. CASE o = victim[t]
  <2>1. dest[t] \in Owners(o) /\ Owners(o)' = Owners(o) \ {dest[t]}
    BY <1>2, OwnersRelease
  <2>2. refs[o] = Cardinality(Owners(o)) - 1 /\ Destroyers(o) = {} /\ status[o] = "live"
    BY <2>1 DEF CountOK
  <2>3. Owners(o) \in SUBSET (Slot \cup Thread) /\ Owners(o)' \in SUBSET (Slot \cup Thread)
    BY <2>1 DEF Owners
  <2>4. IsFiniteSet(Owners(o)) /\ Cardinality(Owners(o)') = Cardinality(Owners(o)) - 1
    BY <2>1, <2>3, OwnersBounded, FS_RemoveElement
  <2>5. /\ Cardinality(Owners(o)) \in 0 .. RefModulus
        /\ Cardinality(Owners(o)') \in 0 .. RefModulus
        /\ Cardinality(Owners(o)') = 0 <=> Owners(o)' = {}
    BY <2>3, OwnersBounded
  <2>6. refs'[o] = Decremented(refs[o]) /\ status'[o] = status[o]
    BY <1>2 DEF stp_release, TypeOK, Counted
  <2>7. CASE refs[o] = 0
    <3>1. Owners(o)' = {} /\ Destroyers(o)' = {t}
      BY <1>1, <1>2, <2>2, <2>4, <2>5, <2>7
    <3>2. refs'[o] = RefModulus - 1
      BY <2>6, <2>7 DEF Decremented
    <3> QED
      BY <2>2, <2>6, <3>1, <3>2 DEF CountOK
  <2>8. CASE refs[o] # 0
    <3>1. Owners(o)' # {} /\ Destroyers(o)' = {}
      BY <1>1, <2>2, <2>4, <2>5, <2>8
    <3>2. refs'[o] = Cardinality(Owners(o)') - 1
      BY <2>2, <2>4, <2>5, <2>6, <2>8 DEF Decremented
    <3> QED
      BY <2>2, <2>6, <3>1, <3>2 DEF CountOK
  <2> QED
    BY <2>7, <2>8
<1>3. CASE o # victim[t]
  <2>1. Owners(o)' = Owners(o)
    BY <1>3, OwnersRelease
  <2>2. refs'[o] = refs[o] /\ status'[o] = status[o]
    BY <1>3 DEF stp_release, TypeOK, Counted
  <2> QED
    BY <1>1, <1>3, <2>1, <2>2 DEF CountOK
<1> QED
  BY <1>2, <1>3

LEMMA CountDestroy ==
  ASSUME TypeOK, Discipline, NEW t \in Thread, Destroy(t),
         NEW o \in Counted, CountOK(o)
  PROVE  CountOK(o)'
<1>1. Owners(o)' = Owners(o)
  BY OwnersQuiet DEF Quiet
<1>2. CASE o = victim[t]
  <2>1. t \in Destroyers(o)
    BY <1>2 DEF Destroy, Destroyers
  <2>2. Owners(o) = {} /\ Destroyers(o) = {t}
    BY <2>1 DEF CountOK
  <2>3. Destroyers(o)' = {} /\ status'[o] = "dead"
    BY <1>2, <2>2 DEF Destroy, Destroyers, TypeOK, Counted
  <2> QED
    BY <1>1, <2>2, <2>3 DEF CountOK
<1>3. CASE o # victim[t]
  <2>1. Destroyers(o)' = Destroyers(o)
    BY <1>3 DEF Destroy, Destroyers, TypeOK
  <2>2. refs'[o] = refs[o] /\ status'[o] = status[o]
    BY <1>3 DEF Destroy, TypeOK, Counted
  <2> QED
    BY <1>1, <2>1, <2>2 DEF CountOK
<1> QED
  BY <1>2, <1>3

LEMMA CountFinish ==
  ASSUME TypeOK, Discipline, NEW t \in Thread, FinishStore(t),
         NEW o \in Counted, CountOK(o)
  PROVE  CountOK(o)'
<1>1. Destroyers(o)' = Destroyers(o) /\ refs' = refs /\ status' = status
  BY DEF FinishStore, Destroyers, TypeOK
<1>2. CASE o = val[t]
  <2>1. /\ t \in Owners(o) /\ dest[t] \notin Owners(o)
        /\ Owners(o)' = (Owners(o) \ {t}) \cup {dest[t]}
    BY <1>2, OwnersFinish
  <2>2. Owners(o) \in SUBSET (Slot \cup Thread)
    BY DEF Owners
  <2>3. IsFiniteSet(Owners(o)) /\ Cardinality(Owners(o)) \in Nat
    BY <2>2, OwnersBounded
  <2>4. /\ IsFiniteSet(Owners(o) \ {t})
        /\ Cardinality(Owners(o) \ {t}) = Cardinality(Owners(o)) - 1
    BY <2>1, <2>3, FS_RemoveElement
  <2>5. Cardinality(Owners(o)') = Cardinality(Owners(o) \ {t}) + 1
    BY <2>1, <2>4, FS_AddElement
  <2>6. Cardinality(Owners(o)') = Cardinality(Owners(o))
    BY <2>3, <2>4, <2>5
  <2> QED
    BY <1>1, <2>1, <2>6 DEF CountOK
<1>3. CASE o # val[t]
  BY <1>1, <1>3, OwnersFinish DEF CountOK
<1> QED
  BY <1>2, <1>3

LEMMA CountOther ==
  ASSUME TypeOK, Discipline, NEW t \in Thread, Quiet(t), ~Destroy(t),
         NEW o \in Counted, CountOK(o)
  PROVE  CountOK(o)'
<1>1. Owners(o)' = Owners(o)
  BY OwnersQuiet
<1>2. Destroyers(o)' = Destroyers(o)
  BY DEF Quiet, Destroyers, TypeOK,
         BeginStore, BeginRelease, RetainNull, LoadDest, ReleaseNull
<1>3. refs' = refs /\ status' = status
  BY DEF Quiet, BeginStore, BeginRelease, RetainNull, LoadDest, ReleaseNull
<1> QED
  BY <1>1, <1>2, <1>3 DEF CountOK

LEMMA CountStep == IInv /\ [Next]_vars => CountIsOwners'
<1> SUFFICES ASSUME IInv, [Next]_vars, NEW o \in Counted
             PROVE  CountOK(o)'
  BY DEF CountIsOwners, CountOK, Counted
<1>1. TypeOK /\ Discipline /\ CountOK(o)
  BY DEF IInv, CountIsOwners, CountOK
<1>2. ASSUME NEW t \in Thread, RuntimeStep(t) \/ ProgramStep(t)
      PROVE  CountOK(o)'
  BY <1>1, <1>2, CountNew, CountRetain, CountRelease, CountDestroy, CountFinish, CountOther
     DEF RuntimeStep, ProgramStep, Quiet
<1>3. CASE UNCHANGED vars
  BY <1>1, <1>3 DEF vars, CountOK, Owners, Consumed, Holding, Destroyers
<1> QED
  BY <1>2, <1>3 DEF Next, Crashed

-----------------------------------------------------------------------------
(* The theorems.                                                           *)

LEMMA InductiveInit == Init => IInv
<1> SUFFICES ASSUME Init
             PROVE  IInv
  OBVIOUS
<1>1. TypeOK
  <2>1. 0 \in 0 .. RefModulus - 1
    BY OwnersFit
  <2> QED
    BY <2>1 DEF Init, TypeOK, PC
<1>2. Discipline
  BY NullIsNothing, LowZeroObjects DEF Init, Discipline, CallOK, Exclusive, Born
<1>3. \A o \in Counted : Owners(o) = {} /\ Destroyers(o) = {} /\ status[o] = "unborn"
  BY NullIsNothing DEF Init, Owners, Consumed, Holding, Destroyers, Counted
<1> QED
  BY <1>1, <1>2, <1>3 DEF IInv, CountIsOwners

(* IInv holds in every reachable state.                                    *)
THEOREM Inductive == Spec => []IInv
<1>1. IInv /\ [Next]_vars => IInv'
  BY TypeStep, DisciplineStep, CountStep DEF IInv
<1> QED
  BY InductiveInit, <1>1, PTL DEF Spec

(* The variables of StapleRuntime keep their types: in particular the      *)
(* atomic instructions are only ever given the address of an object.       *)
THEOREM TypeCorrect == Spec => []TypeOK
<1>1. IInv => TypeOK
  BY DEF IInv
<1> QED
  BY <1>1, Inductive, PTL

(* The count kept by stp_retain and stp_release is the number of owners,   *)
(* for any number of threads and any interleaving.                         *)
THEOREM CountCorrect == Spec => []CountIsOwners
<1>1. IInv => CountIsOwners
  BY DEF IInv
<1> QED
  BY <1>1, Inductive, PTL

(* A pointer in a place that owns something points to a live object.       *)
LEMMA OwnedIsLive ==
  ASSUME IInv, NEW s \in Slot, slot[s] # Null, ~Consumed(s)
  PROVE  status[slot[s]] = "live"
<1>1. CASE slot[s] \in Counted
  <2>1. s \in Owners(slot[s])
    BY DEF Owners
  <2> QED
    BY <1>1, <2>1 DEF IInv, CountIsOwners
<1>2. CASE slot[s] \in LowZero
  BY <1>2 DEF IInv, TypeOK, Discipline, Born
<1> QED
  BY <1>1, <1>2 DEF IInv, TypeOK, Counted

(* No variable or temporary dangles outside the call that overwrites it.   *)
THEOREM NothingDangles == Spec => []NoDangling
<1>1. IInv => NoDangling
  BY OwnedIsLive DEF NoDangling
<1> QED
  BY <1>1, Inductive, PTL

(* stp_retain, stp_release and the destructor call only ever touch objects *)
(* that have been allocated and not freed.                                 *)
THEOREM AccessesSafe == Spec => []AccessesLive
<1>1. ASSUME IInv, NEW t \in Thread, pc[t] = "retain", val[t] # Null
      PROVE  status[val[t]] = "live"
  <2>1. src[t] \in Slot /\ slot[src[t]] = val[t] /\ ~Consumed(src[t])
    BY <1>1 DEF IInv, TypeOK, Discipline, CallOK, Exclusive, Consumed
  <2> QED
    BY <1>1, <2>1, OwnedIsLive
<1>2. ASSUME IInv, NEW t \in Thread, pc[t] = "sub", victim[t] # Null
      PROVE  status[victim[t]] = "live"
  <2>1. dest[t] \in Slot /\ slot[dest[t]] = victim[t] /\ ~Consumed(dest[t])
    BY <1>2 DEF IInv, TypeOK, Discipline, CallOK, Exclusive, Consumed
  <2> QED
    BY <1>2, <2>1, OwnedIsLive
<1>3. ASSUME IInv, NEW t \in Thread, pc[t] = "destroy"
      PROVE  status[victim[t]] = "live"
  <2>1. victim[t] \in Counted /\ t \in Destroyers(victim[t])
    BY <1>3 DEF IInv, Discipline, CallOK, Destroyers
  <2> QED
    BY <1>3, <2>1 DEF IInv, CountIsOwners
<1>4. IInv => AccessesLive
  BY <1>1, <1>2, <1>3 DEF AccessesLive
<1> QED
  BY <1>4, Inductive, PTL

-----------------------------------------------------------------------------
(* The implementation of Ownership.                                        *)

(* The stage of the life of o, as Ownership names it.                      *)
PhaseOf(o) == IF status[o] = "live" /\ Owners(o) = {} THEN "dying" ELSE status[o]

OwnersMap == [o \in Counted |-> Owners(o)]
PhaseMap == [o \in Counted |-> PhaseOf(o)]

LEMMA ImplementsInit == Init => Own!Init
<1> SUFFICES ASSUME Init
             PROVE  Own!Init
  OBVIOUS
<1>1. \A o \in Counted : Owners(o) = {} /\ status[o] = "unborn"
  BY NullIsNothing DEF Init, Owners, Consumed, Holding, Counted
<1> QED
  BY <1>1 DEF Own!Init

(* A step that changes neither the owners nor the stage of any counted     *)
(* object is a stuttering step.                                            *)
LEMMA Stutter ==
  ASSUME \A o \in Counted : Owners(o)' = Owners(o), status' = status
  PROVE  UNCHANGED Own!vars
<1> QED
  BY DEF Own!vars, Counted

LEMMA ImplementsNew ==
  ASSUME IInv, IInv',
         NEW t \in Thread, NEW s \in Temp, NEW n \in Obj, New(t, s, n)
  PROVE  [Own!Next]_Own!vars
<1> USE DEF IInv
<1>1. \A o \in Counted : Owners(o)' = IF o = n THEN Owners(o) \cup {s} ELSE Owners(o)
  BY OwnersNew
<1>2. status[n] = "unborn" /\ status' = [status EXCEPT ![n] = "live"]
  BY DEF New
<1>3. CASE n \in Counted
  <2>1. Owners(n) = {}
    BY <1>2, <1>3 DEF CountIsOwners
  <2>2. Own!Create(n, s)
    <3>1. s \in Slot /\ n \in DOMAIN status
      BY DEF TypeOK, Slot, Counted
    <3>2. Owners(n)' = {s}
      BY <1>1, <1>3, <2>1
    <3>3. ASSUME NEW o \in Counted, o # n
          PROVE  Owners(o)' = Owners(o) /\ status'[o] = status[o]
      BY <1>1, <1>2, <3>1, <3>3
    <3>4. status'[n] = "live"
      BY <1>2, <3>1
    <3> QED
      BY <1>2, <1>3, <2>1, <3>2, <3>3, <3>4 DEF Own!Create
  <2>3. s \in Slot
    BY DEF Slot
  <2>4. Own!Next
    BY <1>3, <2>2, <2>3, Zenon DEF Own!Next
  <2> QED
    BY <2>4
<1>4. CASE n \notin Counted
  BY <1>1, <1>2, <1>4 DEF Own!vars, TypeOK, Counted
<1> QED
  BY <1>3, <1>4

LEMMA ImplementsRetain ==
  ASSUME IInv, IInv', NEW t \in Thread, stp_retain(t)
  PROVE  [Own!Next]_Own!vars
<1> USE DEF IInv
<1>1. \A o \in Counted :
        /\ o = val[t] => src[t] \in Owners(o) /\ t \notin Owners(o)
        /\ Owners(o)' = IF o = val[t] THEN Owners(o) \cup {t} ELSE Owners(o)
  BY OwnersRetain
<1>2. status' = status
  BY DEF stp_retain
<1>3. ASSUME NEW v \in Counted, v = val[t]
      PROVE  Own!Next
  <2>1. status[v] = "live" /\ Owners(v) # {} /\ t \notin Owners(v)
    BY <1>1, <1>3 DEF CountIsOwners
  <2>2. \A o \in Counted : Owners(o)' = IF o = v THEN Owners(o) \cup {t} ELSE Owners(o)
    BY <1>1, <1>3
  <2>3. Own!Acquire(v, t)
    BY <1>2, <2>1, <2>2 DEF Own!Acquire, Counted
  <2> QED
    BY <2>3 DEF Own!Next
<1>4. CASE val[t] \notin Counted
  BY <1>1, <1>2, <1>4, Stutter
<1> QED
  BY <1>3, <1>4

LEMMA ImplementsRelease ==
  ASSUME IInv, IInv', NEW t \in Thread, stp_release(t)
  PROVE  Own!Next
<1> USE DEF IInv
<1>1. PICK v \in Counted, d \in Slot : v = victim[t] /\ d = dest[t]
  BY DEF stp_release, TruncatesToZero, TypeOK, Discipline, CallOK, Counted
<1>2. d \in Owners(v) /\ status[v] = "live"
  BY <1>1, OwnersRelease DEF CountIsOwners
<1>3. \A o \in Counted : Owners(o)' = IF o = v THEN Owners(o) \ {d} ELSE Owners(o)
  BY <1>1, OwnersRelease
<1>4. status' = status
  BY DEF stp_release
<1>5. OwnersMap' = [OwnersMap EXCEPT ![v] = @ \ {d}]
  BY <1>3 DEF OwnersMap, Counted
<1>6. PhaseMap' = IF Owners(v) = {d} THEN [PhaseMap EXCEPT ![v] = "dying"] ELSE PhaseMap
  <2>1. \A o \in Counted \ {v} : PhaseOf(o)' = PhaseOf(o)
    BY <1>3, <1>4 DEF PhaseOf
  <2>2. CASE Owners(v) = {d}
    <3>1. PhaseOf(v)' = "dying"
      BY <1>2, <1>3, <1>4, <2>2 DEF PhaseOf
    <3> QED
      BY <2>1, <2>2, <3>1 DEF PhaseMap, Counted
  <2>3. CASE Owners(v) # {d}
    <3>1. PhaseOf(v)' = PhaseOf(v)
      BY <1>2, <1>3, <1>4, <2>3 DEF PhaseOf
    <3> QED
      BY <2>1, <2>3, <3>1 DEF PhaseMap, Counted
  <2> QED
    BY <2>2, <2>3
<1>7. Own!Drop(v, d)
  BY <1>2, <1>5, <1>6 DEF Own!Drop, OwnersMap, PhaseMap, PhaseOf
<1> QED
  BY <1>7 DEF Own!Next

LEMMA ImplementsDestroy ==
  ASSUME IInv, IInv', NEW t \in Thread, Destroy(t)
  PROVE  Own!Next
<1> USE DEF IInv
<1>1. PICK v \in Counted : v = victim[t] /\ t \in Destroyers(v)
  BY DEF Destroy, Discipline, CallOK, Destroyers
<1>2. status[v] = "live" /\ Owners(v) = {}
  BY <1>1 DEF CountIsOwners
<1>3. \A o \in Counted : Owners(o)' = Owners(o)
  BY OwnersQuiet DEF Quiet
<1>4. status' = [status EXCEPT ![v] = "dead"]
  BY <1>1 DEF Destroy
<1>5. Own!Destroy(v)
  BY <1>2, <1>3, <1>4 DEF Own!Destroy, TypeOK, Counted
<1> QED
  BY <1>5 DEF Own!Next

LEMMA ImplementsFinish ==
  ASSUME IInv, IInv', NEW t \in Thread, FinishStore(t)
  PROVE  [Own!Next]_Own!vars
<1> USE DEF IInv
<1>1. \A o \in Counted :
        /\ o = val[t] => t \in Owners(o) /\ dest[t] \notin Owners(o)
        /\ Owners(o)' = IF o = val[t] THEN (Owners(o) \ {t}) \cup {dest[t]}
                                      ELSE Owners(o)
  BY OwnersFinish
<1>2. status' = status
  BY DEF FinishStore
<1>3. ASSUME NEW v \in Counted, v = val[t]
      PROVE  Own!Next
  <2>1. PICK d \in Slot : d = dest[t]
    BY DEF FinishStore, TypeOK, Discipline, CallOK
  <2>2. /\ t \in Owners(v)
        /\ \A o \in Counted : Owners(o)' = IF o = v THEN (Owners(o) \ {t}) \cup {d}
                                                    ELSE Owners(o)
    BY <1>1, <1>3, <2>1
  <2>3. \A o \in Counted : PhaseOf(o)' = PhaseOf(o)
    BY <1>2, <2>2 DEF PhaseOf
  <2>4. Own!Transfer(v, t, d)
    BY <2>2, <2>3 DEF Own!Transfer, PhaseOf, Counted
  <2> QED
    BY <2>4 DEF Own!Next
<1>4. CASE val[t] \notin Counted
  BY <1>1, <1>2, <1>4, Stutter
<1> QED
  BY <1>3, <1>4

(* StapleRuntime implements Ownership: whatever the threads do, an object  *)
(* is destroyed at most once, only after its last owner is gone, and never *)
(* acquired again after that.                                              *)
THEOREM RefinesOwnership == Spec => ImplementsOwnership
<1>1. ASSUME IInv, IInv', [Next]_vars
      PROVE  [Own!Next]_Own!vars
  <2>1. ASSUME NEW t \in Thread, Quiet(t), ~Destroy(t)
        PROVE  [Own!Next]_Own!vars
    <3>1. \A o \in Counted : Owners(o)' = Owners(o)
      BY <1>1, <2>1, OwnersQuiet DEF IInv
    <3>2. status' = status
      BY <2>1 DEF Quiet, BeginStore, BeginRelease, RetainNull, LoadDest, ReleaseNull
    <3> QED
      BY <3>1, <3>2, Stutter
  <2>2. ASSUME NEW t \in Thread, RuntimeStep(t) \/ ProgramStep(t)
        PROVE  [Own!Next]_Own!vars
    BY <1>1, <2>1, <2>2, ImplementsNew, ImplementsRetain, ImplementsRelease,
       ImplementsDestroy, ImplementsFinish
       DEF RuntimeStep, ProgramStep, Quiet
  <2>3. CASE UNCHANGED vars
    BY <2>3, Stutter DEF vars, Owners, Consumed, Holding
  <2> QED
    BY <1>1, <2>2, <2>3 DEF Next, Crashed
<1> QED
  BY Inductive, ImplementsInit, <1>1, PTL DEF Spec, ImplementsOwnership, Own!Spec

=============================================================================
