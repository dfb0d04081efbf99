--------------------------- MODULE ParkingProofs ----------------------------
(* Safety of Parker and Waker for any number of wakers.                    *)
EXTENDS Parking, TLAPS

\* WakeDelivered and ParkerOutlivesStore together are inductive: the second
\* says that no store is pending when the next round begins.
Inv == TypeOK /\ WakeDelivered /\ ParkerOutlivesStore

\* The first round starts with nothing pending.
LEMMA ParkingInit == Init => Inv
BY DEF Init, Inv, TypeOK, WakeDelivered, ParkerOutlivesStore, InPark

\* Every step of the sleeper and of the wakers preserves the invariant.
LEMMA ParkingStep == Inv /\ [Next]_vars => Inv'
<1> SUFFICES ASSUME Inv, [Next]_vars PROVE Inv'
  OBVIOUS
<1> USE DEF Inv, TypeOK, WakeDelivered, ParkerOutlivesStore, InPark
<1>1. CASE CheckFlag
  BY <1>1 DEF CheckFlag
<1>2. CASE Unparked
  BY <1>2 DEF Unparked
<1>3. CASE SpuriousReturn
  BY <1>3 DEF SpuriousReturn
<1>4. ASSUME NEW w \in Wakers, Prepare(w) PROVE Inv'
  BY <1>4 DEF Prepare
<1>5. ASSUME NEW w \in Wakers, Wake(w) PROVE Inv'
  <2>1. CASE waking[w] = "store"
    BY <1>5, <2>1 DEF Wake
  <2>2. CASE waking[w] = "unpark"
    BY <1>5, <2>2 DEF Wake
  <2> QED
    BY <1>5, <2>1, <2>2 DEF Wake
<1>6. CASE UNCHANGED vars
  BY <1>6 DEF vars
<1> QED
  BY <1>1, <1>2, <1>3, <1>4, <1>5, <1>6 DEF Next

\* Type correctness of Parker and Waker.
THEOREM ParkingTypeCorrect == Spec => []TypeOK
<1>1. Inv => TypeOK
  BY DEF Inv
<1> QED
  BY ParkingInit, ParkingStep, <1>1, PTL DEF Spec

\* A raised flag never goes unnoticed by a parked thread.
THEOREM ParkingWakeDelivered == Spec => []WakeDelivered
<1>1. Inv => WakeDelivered
  BY DEF Inv
<1> QED
  BY ParkingInit, ParkingStep, <1>1, PTL DEF Spec

\* wake() only ever writes to the Parker of a thread that is inside park().
THEOREM ParkingParkerOutlivesStore == Spec => []ParkerOutlivesStore
<1>1. Inv => ParkerOutlivesStore
  BY DEF Inv
<1> QED
  BY ParkingInit, ParkingStep, <1>1, PTL DEF Spec

\* Every step is one of AbstractPark or invisible: a wake takes effect at once
\* and for the round it is meant for, and park() returns for no other reason.
\* This is what lets the other modules take a wake, and a park(), for one step.
THEOREM ParkingRefinement == Spec => ImplementsSafely
<1>1. Init => Park!AbsInit
  BY DEF Init, Park!AbsInit, Phase, InPark
<1>2. Inv /\ [Next]_vars => [Park!AbsNext]_Phase
  <2> SUFFICES ASSUME Inv, [Next]_vars PROVE Park!AbsNext \/ UNCHANGED Phase
    OBVIOUS
  <2> USE DEF Inv, TypeOK, ParkerOutlivesStore, InPark, Phase
  <2>a. Park!Sleep("sleeper") \/ Park!Rouse("sleeper") \/ Park!Return("sleeper")
          => Park!AbsNext
    BY DEF Park!AbsNext
  <2>1. CASE CheckFlag
    <3>1. CASE should_wakeup
      BY <2>1, <2>a, <3>1 DEF CheckFlag, Park!Return
    <3>2. CASE ~should_wakeup
      BY <2>1, <3>2 DEF CheckFlag
    <3> QED
      BY <3>1, <3>2
  <2>2. CASE Unparked \/ SpuriousReturn
    BY <2>2 DEF Unparked, SpuriousReturn
  <2>3. ASSUME NEW w \in Wakers, Prepare(w) PROVE Park!AbsNext
    BY <2>3, <2>a DEF Prepare, Park!Sleep
  <2>4. ASSUME NEW w \in Wakers, Wake(w) PROVE Park!AbsNext \/ UNCHANGED Phase
    <3>1. CASE waking[w] = "store"
      BY <2>4, <2>a, <3>1 DEF Wake, Park!Rouse
    <3>2. CASE waking[w] = "unpark"
      BY <2>4, <3>2 DEF Wake
    <3> QED
      BY <2>4, <3>1, <3>2 DEF Wake
  <2>5. CASE UNCHANGED vars
    BY <2>5 DEF vars
  <2> QED
    BY <2>1, <2>2, <2>3, <2>4, <2>5 DEF Next
<1> QED
  BY ParkingInit, ParkingStep, <1>1, <1>2, PTL DEF Spec, ImplementsSafely, Park!AbsSpec
=============================================================================
