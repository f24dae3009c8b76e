-------------------------- MODULE SemaphoreProofs ---------------------------
(***************************************************************************)
(* Theorems about Semaphore, for any number of threads and of calls: as    *)
(* long as the program makes no timed calls, permits are neither made up   *)
(* nor lost, and no wake-up is lost.                                       *)
(***************************************************************************)
EXTENDS Semaphore, FiniteSetTheorems, TLAPS

\* Nobody is in a timed wait.
NoTimedCalls == ~usesTimed => timed = {} /\ timedWoken = {}

SafetyInv == TypeOK /\ NoTimedCalls /\ PermitsAccountedFor /\ NoStrandedWaiter

LEMMA InitialCountNat == InitialCount \in Nat
BY ConstantsAssumption DEF InitialCount

LEMMA WokenFinite ==
  ASSUME TypeOK
  PROVE  IsFiniteSet(woken) /\ Cardinality(woken) \in Nat
BY ThreadsAssumption, FS_Subset, FS_CardinalityType DEF TypeOK

LEMMA InitSafe == Init => SafetyInv
<1> SUFFICES ASSUME Init PROVE SafetyInv
  OBVIOUS
<1>1. TypeOK
  BY InitialCountNat, ConstantsAssumption DEF Init, TypeOK
<1>2. NoTimedCalls /\ PermitsAccountedFor /\ NoStrandedWaiter
  BY InitialCountNat DEF Init, NoTimedCalls, PermitsAccountedFor, NoStrandedWaiter
<1> QED
  BY <1>1, <1>2 DEF SafetyInv

\* Threads and counters, whatever the program calls.
LEMMA TypeKept == TypeOK /\ [Next]_vars => TypeOK'
<1> SUFFICES ASSUME TypeOK, [Next]_vars PROVE TypeOK'
  OBVIOUS
<1>0. usesTimed' \in BOOLEAN
  BY DEF TypeOK, Next, vars
<1> USE <1>0, ConstantsAssumption DEF TypeOK
<1>1. ASSUME NEW t \in Threads, Release(t) PROVE TypeOK'
  BY <1>1 DEF Release
<1>2. ASSUME NEW t \in Threads, Acquire(t) PROVE TypeOK'
  BY <1>2 DEF Acquire, TakePermit
<1>3. ASSUME NEW t \in Threads, AcquireWaits(t) PROVE TypeOK'
  BY <1>3 DEF AcquireWaits, MayAcquire, Ready, Busy
<1>4. ASSUME NEW t \in Threads, WakeUp(t) PROVE TypeOK'
  BY <1>4 DEF WakeUp, TakePermit
<1>5. ASSUME NEW t \in Threads, WakeUpWaits(t) PROVE TypeOK'
  BY <1>5 DEF WakeUpWaits
<1>6. ASSUME NEW t \in Threads, SpuriousWakeUp(t) PROVE TypeOK'
  BY <1>6 DEF SpuriousWakeUp
<1>7. ASSUME NEW t \in Threads, TryFor(t) PROVE TypeOK'
  BY <1>7 DEF TryFor, TakePermit, MayAcquire, Ready, Busy
<1>8. ASSUME NEW t \in Threads, TimedWakeUp(t) PROVE TypeOK'
  BY <1>8 DEF TimedWakeUp, TakePermit
<1>9. ASSUME NEW t \in Threads, Timeout(t) PROVE TypeOK'
  BY <1>9 DEF Timeout, TakePermit
<1>10. CASE UNCHANGED vars
  BY <1>10 DEF vars, fields
<1> QED
  BY <1>1, <1>2, <1>3, <1>4, <1>5, <1>6, <1>7, <1>8, <1>9, <1>10 DEF Next

LEMMA NextSafe == SafetyInv /\ [Next]_vars => SafetyInv'
<1> SUFFICES ASSUME SafetyInv, [Next]_vars
             PROVE  NoTimedCalls' /\ PermitsAccountedFor' /\ NoStrandedWaiter'
  BY TypeKept DEF SafetyInv
<1>c. usesTimed \in BOOLEAN /\ usesTimed' = usesTimed
  BY DEF SafetyInv, TypeOK, Next, vars
<1> SUFFICES ASSUME ~usesTimed
             PROVE  NoTimedCalls' /\ PermitsAccountedFor' /\ NoStrandedWaiter'
  BY <1>c DEF NoTimedCalls, PermitsAccountedFor, NoStrandedWaiter
<1>0. ~usesTimed'
  BY <1>c
<1>a. TypeOK /\ NoTimedCalls /\ PermitsAccountedFor /\ NoStrandedWaiter
  BY DEF SafetyInv
<1>b. /\ IsFiniteSet(woken) /\ Cardinality(woken) \in Nat
      /\ InitialCount \in Nat
      /\ count \in Int /\ count >= 0 /\ released \in Nat /\ taken \in Nat
  BY <1>a, WokenFinite, InitialCountNat, ConstantsAssumption
  DEF TypeOK, PermitsAccountedFor
<1> USE DEF NoTimedCalls, PermitsAccountedFor
<1>1. ASSUME NEW t \in Threads, Release(t)
      PROVE  NoTimedCalls' /\ PermitsAccountedFor' /\ NoStrandedWaiter'
  <2>1. NoTimedCalls' /\ PermitsAccountedFor'
    <3>1. NoTimedCalls'
      BY <1>1, <1>a DEF Release
    <3>2. count' = count + 1 /\ released' = released + 1 /\ taken' = taken
      BY <1>1 DEF Release
    <3>3. count = InitialCount + released - taken
      BY <1>a
    <3>4. count + 1 = InitialCount + (released + 1) - taken /\ count + 1 >= 0
      BY <3>3, <1>b
    <3>5. PermitsAccountedFor'
      BY <3>2, <3>4 DEF InitialCount
    <3> QED
      BY <3>1, <3>5
  <2>2. CASE waiting = {}
    <3>1. waiting' = {}
      BY <1>1, <1>a, <2>2 DEF Release
    <3> QED
      BY <2>1, <3>1 DEF NoStrandedWaiter
  <2>3. CASE waiting # {}
    <3>1. PICK w \in waiting : woken' = woken \cup {w} /\ count' = count + 1
      BY <1>1, <1>a, <2>3 DEF Release
    <3>2. w \notin woken
      BY <1>a DEF TypeOK
    <3>3. Cardinality(woken') = Cardinality(woken) + 1
      BY <1>b, <3>1, <3>2, FS_AddElement
    <3> QED
      BY <2>1, <1>a, <1>b, <2>3, <3>1, <3>3 DEF NoStrandedWaiter
  <2> QED
    BY <2>1, <2>2, <2>3
<1>2. ASSUME NEW t \in Threads, Acquire(t)
      PROVE  NoTimedCalls' /\ PermitsAccountedFor' /\ NoStrandedWaiter'
  BY <1>2, <1>a, <1>b DEF Acquire, TakePermit, NoStrandedWaiter
<1>3. ASSUME NEW t \in Threads, AcquireWaits(t)
      PROVE  NoTimedCalls' /\ PermitsAccountedFor' /\ NoStrandedWaiter'
  BY <1>3, <1>a, <1>b DEF AcquireWaits, NoStrandedWaiter
<1>4. ASSUME NEW t \in Threads, WakeUp(t)
      PROVE  NoTimedCalls' /\ PermitsAccountedFor' /\ NoStrandedWaiter'
  <2>1. Cardinality(woken') = Cardinality(woken) - 1
    BY <1>4, <1>b, FS_RemoveElement DEF WakeUp
  <2> QED
    BY <1>4, <1>a, <1>b, <2>1 DEF WakeUp, TakePermit, NoStrandedWaiter
<1>5. ASSUME NEW t \in Threads, WakeUpWaits(t)
      PROVE  NoTimedCalls' /\ PermitsAccountedFor' /\ NoStrandedWaiter'
  <2>1. IsFiniteSet(woken') /\ woken' = woken \ {t}
    BY <1>5, <1>b, FS_RemoveElement DEF WakeUpWaits
  <2>2. Cardinality(woken') \in Nat
    BY <2>1, FS_CardinalityType
  <2> QED
    BY <1>5, <1>a, <2>2 DEF WakeUpWaits, NoStrandedWaiter
<1>6. ASSUME NEW t \in Threads, SpuriousWakeUp(t)
      PROVE  NoTimedCalls' /\ PermitsAccountedFor' /\ NoStrandedWaiter'
  <2>1. t \in waiting /\ woken' = woken \cup {t} /\ UNCHANGED <<count, timed, timedWoken, released, taken>>
    BY <1>6, <1>a DEF SpuriousWakeUp
  <2>2. Cardinality(woken') = Cardinality(woken) + 1
    BY <1>a, <1>b, <2>1, FS_AddElement DEF TypeOK
  <2> QED
    BY <1>a, <1>b, <2>1, <2>2 DEF NoStrandedWaiter
<1>7. \A t \in Threads : ~TryFor(t) /\ ~TimedWakeUp(t) /\ ~Timeout(t)
  BY <1>a DEF TryFor, TimedWakeUp, Timeout
<1>8. CASE UNCHANGED vars
  BY <1>8, <1>a DEF vars, fields, NoStrandedWaiter
<1> QED
  BY <1>1, <1>2, <1>3, <1>4, <1>5, <1>6, <1>7, <1>8 DEF Next

LEMMA Safe == Spec => []SafetyInv
BY InitSafe, NextSafe, PTL DEF Spec

\* Threads, counters and permits keep their types, whatever the program calls.
THEOREM TypeCorrect == Spec => []TypeOK
<1>1. SafetyInv => TypeOK
  BY DEF SafetyInv
<1> QED
  BY <1>1, Safe, PTL

\* Without timed calls the counter is the initial permits and the released ones
\* less those taken, and never negative.
THEOREM PermitsConserved == Spec => []PermitsAccountedFor
<1>1. SafetyInv => PermitsAccountedFor
  BY DEF SafetyInv
<1> QED
  BY <1>1, Safe, PTL

\* release notifies one thread only, and still no permit is left lying while a
\* thread sleeps that nobody is going to wake.
THEOREM NoWakeUpLost == Spec => []NoStrandedWaiter
<1>1. SafetyInv => NoStrandedWaiter
  BY DEF SafetyInv
<1> QED
  BY <1>1, Safe, PTL

=============================================================================
