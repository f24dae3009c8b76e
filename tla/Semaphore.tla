----------------------------- MODULE Semaphore ------------------------------
(***************************************************************************)
(* counting_semaphore of src/src/lib/include/public/llama-cpp/compat/      *)
(* semaphore: the stand-in for std::counting_semaphore on toolchains that  *)
(* have none, made of a counter, a mutex and a condition variable.         *)
(*                                                                         *)
(* Every access to _count is made with _mutex held, so a critical section  *)
(* is one action; a wait ends one and the wake-up begins another.          *)
(*                                                                         *)
(* External (std::condition_variable): notify_one wakes one of the threads *)
(* that wait, if any; a thread may also wake up for no reason.             *)
(***************************************************************************)
EXTENDS Integers, FiniteSets

CONSTANTS
  Threads,
  Desired,        \* the constructor's argument
  LeastMaxValue,  \* the template's argument
  MaxReleases,    \* bound: calls of release
  MaxTaken        \* bound: permits taken, as the counter may go below zero

ASSUME ConstantsAssumption ==
  /\ Desired \in Int
  /\ LeastMaxValue \in Nat
  /\ MaxReleases \in Nat
  /\ MaxTaken \in Nat

ASSUME ThreadsAssumption == IsFiniteSet(Threads)

VARIABLES
  usesTimed, \* whether the program calls try_acquire_for / _until: never changes
  count,     \* _count
  waiting,   \* threads blocked in the wait of acquire
  woken,     \* threads that left it and have not locked _mutex yet
  timed,     \* threads blocked in wait_for or wait_until
  timedWoken,\* threads that left one of them before the timeout
  released,  \* completed calls of release
  taken      \* permits handed out

fields == <<count, waiting, woken, timed, timedWoken, released, taken>>

vars == <<usesTimed, fields>>

\* A value out of range leaves the semaphore locked.
InitialCount == IF Desired \in 0 .. LeastMaxValue THEN Desired ELSE 0

Busy     == waiting \cup woken \cup timed \cup timedWoken
Ready(t) == t \notin Busy

\* A call that may take a permit is begun only within the bound.
MayAcquire(t) == Ready(t) /\ taken + Cardinality(Busy) < MaxTaken

Init ==
  /\ usesTimed \in BOOLEAN
  /\ count = InitialCount
  /\ waiting = {} /\ woken = {} /\ timed = {} /\ timedWoken = {}
  /\ released = 0
  /\ taken = 0

TakePermit ==
  /\ count' = count - 1
  /\ taken' = taken + 1
  /\ UNCHANGED released

\* Faulty variants of actions, each with one slip a maintainer could make, stand
\* before the action they vary.
ReleaseSilently(t) ==
  /\ Ready(t)
  /\ released < MaxReleases
  /\ count' = count + 1
  /\ released' = released + 1
  /\ UNCHANGED <<waiting, woken, timed, timedWoken, taken>>

ReleaseNotifiesFirst(t) ==
  /\ Ready(t)
  /\ released < MaxReleases
  /\ count' = count + 1
  /\ released' = released + 1
  /\ IF count = 0 /\ waiting # {}
       THEN \E w \in waiting :
              /\ waiting' = waiting \ {w}
              /\ woken' = woken \cup {w}
       ELSE UNCHANGED <<waiting, woken>>
  /\ UNCHANGED <<timed, timedWoken, taken>>

\* release: one more permit, and one waiting thread is woken.
Release(t) ==
  /\ Ready(t)
  /\ released < MaxReleases
  /\ count' = count + 1
  /\ released' = released + 1
  /\ \/ /\ waiting \cup timed = {}
        /\ UNCHANGED <<waiting, woken, timed, timedWoken>>
     \/ \E w \in waiting :
          /\ waiting' = waiting \ {w}
          /\ woken' = woken \cup {w}
          /\ UNCHANGED <<timed, timedWoken>>
     \/ \E w \in timed :
          /\ timed' = timed \ {w}
          /\ timedWoken' = timedWoken \cup {w}
          /\ UNCHANGED <<waiting, woken>>
  /\ UNCHANGED taken

\* acquire and try_acquire with a permit at hand; try_acquire without one
\* changes nothing.
Acquire(t) ==
  /\ MayAcquire(t)
  /\ count # 0
  /\ TakePermit
  /\ UNCHANGED <<waiting, woken, timed, timedWoken>>

\* acquire without a permit: _mutex is given up and the wait begins at once.
AcquireWaits(t) ==
  /\ MayAcquire(t)
  /\ count = 0
  /\ waiting' = waiting \cup {t}
  /\ UNCHANGED <<count, woken, timed, timedWoken, released, taken>>

WakeUpUnchecked(t) ==
  /\ t \in woken
  /\ TakePermit
  /\ woken' = woken \ {t}
  /\ UNCHANGED <<waiting, timed, timedWoken>>

\* A woken thread finds a permit, which nobody took before it.
WakeUp(t) ==
  /\ t \in woken
  /\ count # 0
  /\ TakePermit
  /\ woken' = woken \ {t}
  /\ UNCHANGED <<waiting, timed, timedWoken>>

\* A woken thread finds none and waits again.
WakeUpWaits(t) ==
  /\ t \in woken
  /\ count = 0
  /\ woken' = woken \ {t}
  /\ waiting' = waiting \cup {t}
  /\ UNCHANGED <<count, timed, timedWoken, released, taken>>

\* A wait ends though nobody called release.
SpuriousWakeUp(t) ==
  \/ /\ t \in waiting
     /\ waiting' = waiting \ {t}
     /\ woken' = woken \cup {t}
     /\ UNCHANGED <<count, timed, timedWoken, released, taken>>
  \/ /\ t \in timed
     /\ timed' = timed \ {t}
     /\ timedWoken' = timedWoken \cup {t}
     /\ UNCHANGED <<count, waiting, woken, released, taken>>

----------------------------------------------------------------------------
(* try_acquire_for and try_acquire_until.  The predicate they pass to the  *)
(* wait is `!_count`: they go on when the counter is zero.                 *)

TryFor(t) ==
  /\ usesTimed
  /\ MayAcquire(t)
  /\ \/ count = 0 /\ TakePermit /\ UNCHANGED timed
     \/ count # 0 /\ timed' = timed \cup {t} /\ UNCHANGED <<count, released, taken>>
  /\ UNCHANGED <<waiting, woken, timedWoken>>

TimedWakeUp(t) ==
  /\ t \in timedWoken
  /\ timedWoken' = timedWoken \ {t}
  /\ \/ count = 0 /\ TakePermit /\ UNCHANGED timed
     \/ count # 0 /\ timed' = timed \cup {t} /\ UNCHANGED <<count, released, taken>>
  /\ UNCHANGED <<waiting, woken>>

\* The time is up: the predicate is evaluated a last time.
Timeout(t) ==
  /\ t \in timed
  /\ timed' = timed \ {t}
  /\ \/ count = 0 /\ TakePermit
     \/ count # 0 /\ UNCHANGED <<count, released, taken>>
  /\ UNCHANGED <<waiting, woken, timedWoken>>

----------------------------------------------------------------------------
Next ==
  /\ UNCHANGED usesTimed
  /\ \E t \in Threads :
       \/ Release(t)
       \/ Acquire(t)
       \/ AcquireWaits(t)
       \/ WakeUp(t)
       \/ WakeUpWaits(t)
       \/ SpuriousWakeUp(t)
       \/ TryFor(t)
       \/ TimedWakeUp(t)
       \/ Timeout(t)

Spec == Init /\ [][Next]_vars

\* A thread that was woken gets _mutex in the end and goes on.
FairSpec == Spec /\ \A t \in Threads : WF_fields(WakeUp(t) \/ WakeUpWaits(t))

----------------------------------------------------------------------------
(* Properties.                                                             *)

\* Types of the fields; a thread is in one place at a time.
TypeOK ==
  /\ usesTimed \in BOOLEAN
  /\ count \in Int
  /\ waiting \subseteq Threads /\ woken \subseteq Threads
  /\ timed \subseteq Threads /\ timedWoken \subseteq Threads
  /\ waiting \cap woken = {} /\ timed \cap timedWoken = {}
  /\ (waiting \cup woken) \cap (timed \cup timedWoken) = {}
  /\ released \in 0 .. MaxReleases
  /\ taken \in Nat

\* No permit is made up or lost as long as the program makes no timed calls:
\* those handed out never exceed the initial ones and the released ones, and the
\* difference is the counter.
PermitsAccountedFor ==
  ~usesTimed => count = InitialCount + released - taken /\ count >= 0

\* No wake-up is lost: while a thread sleeps, every permit that is available
\* has a woken thread on its way to it, although release notifies one thread
\* only and permits can be snatched by threads that never waited.
NoStrandedWaiter == ~usesTimed /\ waiting # {} => count <= Cardinality(woken)

\* Permits do not stay unused while threads are blocked.
PermitsGetUsed ==
  (~usesTimed /\ count > 0 /\ waiting \cup woken # {}) ~>
    (count = 0 \/ waiting \cup woken = {})

\* The comment at _count: the semaphore is "Initialized as locked", so nobody
\* gets past it before somebody has released it.
LockedUntilReleased == Desired = 0 => taken <= released

=============================================================================
