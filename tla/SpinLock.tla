------------------------------ MODULE SpinLock -------------------------------
(***************************************************************************)
(* The lock of lc_thread.c: lc_spin_lock, lc_spin_trylock, lc_spin_unlock  *)
(* and the builtins they are made of.  The other modules take a critical   *)
(* section for one step; this one says what that rests on.                 *)
(*                                                                         *)
(* The critical sections are those in which an id is drawn, `++next` in    *)
(* session_new, task_new and channel_new: a load and a store.  The store   *)
(* may stay in the store buffer of its processor, visible to its own       *)
(* thread only, until a barrier.  A compare-and-swap is a full barrier; of *)
(* the exchange of lc_spin_unlock, __sync_lock_test_and_set, the compiler  *)
(* promises an acquire barrier, which x86 makes a full one and other       *)
(* machines do not.                                                        *)
(***************************************************************************)
EXTENDS Integers

CONSTANTS
  Thread,
  FullExchange,  \* whether the exchange is a full barrier
  Modulus        \* bound of the model: ids are counted modulo it, so that threads never stop

ASSUME SpinLockAssumption ==
  /\ FullExchange \in BOOLEAN
  /\ Modulus \in Nat /\ Modulus > 1

VARIABLES
  s,       \* the lock: 0 or 1
  memory,  \* next, as the memory has it
  stored,  \* stored[t]: whether a store of t is in its buffer
  buffer,  \* buffer[t]: that store
  loaded,  \* loaded[t]: what t has read
  pc,      \* pc[t]: where thread t is
  done     \* done[t]: critical sections t has been through

lockVars == <<s, memory, stored, buffer, loaded, pc, done>>

Number == 0..Modulus - 1

LockPhase == {"out", "spin", "load", "store", "unlock"}

LockTypeOK ==
  /\ s \in {0, 1}
  /\ memory \in Number
  /\ stored \in [Thread -> BOOLEAN] /\ buffer \in [Thread -> Number]
  /\ loaded \in [Thread -> Number]
  /\ pc \in [Thread -> LockPhase]
  /\ done \in [Thread -> Number]

\* lc_spin_init.
LockInit ==
  /\ s = 0
  /\ memory = 0
  /\ stored = [t \in Thread |-> FALSE] /\ buffer = [t \in Thread |-> 0]
  /\ loaded = [t \in Thread |-> 0]
  /\ pc = [t \in Thread |-> "out"]
  /\ done = [t \in Thread |-> 0]

Goto(t, p) == pc' = [pc EXCEPT ![t] = p]

\* A store reaches the memory when the processor likes.
Drain(t) ==
  /\ stored[t]
  /\ memory' = buffer[t]
  /\ stored' = [stored EXCEPT ![t] = FALSE]
  /\ UNCHANGED <<s, buffer, loaded, pc, done>>

\* lc_spin_lock begins.
Lock(t) ==
  /\ pc[t] = "out"
  /\ Goto(t, "spin")
  /\ UNCHANGED <<s, memory, stored, buffer, loaded, done>>

\* A mutant of Swap: what it finds in the lock is not compared.
SwapBlind(t) ==
  /\ ~ stored[t]
  /\ s' = 1
  /\ Goto(t, "load")
  /\ UNCHANGED <<memory, stored, buffer, loaded, done>>

\* atomic_int_cas(&s->s, 0, 1), where it succeeds.
Swap(t) ==
  /\ ~ stored[t]
  /\ s = 0
  /\ s' = 1
  /\ Goto(t, "load")
  /\ UNCHANGED <<memory, stored, buffer, loaded, done>>

\* The loop of lc_spin_lock; a swap that fails changes nothing.
Spin(t) == pc[t] = "spin" /\ Swap(t)

\* lc_spin_trylock, where it succeeds.
TryLock(t) == pc[t] = "out" /\ Swap(t)

\* ++next: the load, in which a thread sees its own store ...
Load(t) ==
  /\ pc[t] = "load"
  /\ loaded' = [loaded EXCEPT ![t] = IF stored[t] THEN buffer[t] ELSE memory]
  /\ Goto(t, "store")
  /\ UNCHANGED <<s, memory, stored, buffer, done>>

\* ... and the store.
Store(t) ==
  /\ pc[t] = "store"
  /\ stored' = [stored EXCEPT ![t] = TRUE]
  /\ buffer' = [buffer EXCEPT ![t] = (loaded[t] + 1) % Modulus]
  /\ done' = [done EXCEPT ![t] = (@ + 1) % Modulus]
  /\ Goto(t, "unlock")
  /\ UNCHANGED <<s, memory, loaded>>

\* A mutant of Unlock: a plain store, which may overtake the one before it.
UnlockPlain(t) ==
  /\ pc[t] = "unlock"
  /\ s' = 0
  /\ Goto(t, "out")
  /\ UNCHANGED <<memory, stored, buffer, loaded, done>>

\* Another: the lock is not released.
UnlockForgotten(t) ==
  /\ pc[t] = "unlock"
  /\ FullExchange => ~ stored[t]
  /\ Goto(t, "out")
  /\ UNCHANGED <<s, memory, stored, buffer, loaded, done>>

\* lc_spin_unlock: atomic_int_tas(&s->s, 0).
Unlock(t) ==
  /\ pc[t] = "unlock"
  /\ FullExchange => ~ stored[t]
  /\ s' = 0
  /\ Goto(t, "out")
  /\ UNCHANGED <<memory, stored, buffer, loaded, done>>

-----------------------------------------------------------------------------
LockStep(t) == Spin(t) \/ Load(t) \/ Store(t) \/ Unlock(t)

LockNext == \E t \in Thread : Drain(t) \/ Lock(t) \/ TryLock(t) \/ LockStep(t)

LockSpec == LockInit /\ [][LockNext]_lockVars

\* Threads are scheduled and stores reach the memory.  Whether a thread that
\* spins ever meets the lock while it is free is left to chance.
FairLockSpec == LockSpec /\ \A t \in Thread : WF_lockVars(LockStep(t)) /\ WF_lockVars(Drain(t))

-----------------------------------------------------------------------------
Inside(t) == pc[t] \in {"load", "store", "unlock"}

\* No two threads are in a critical section, and the lock is taken while one is.
MutualExclusion ==
  /\ \A t, u \in Thread : Inside(t) /\ Inside(u) => t = u
  /\ s = 1 <=> \E t \in Thread : Inside(t)

\* While somebody waits for the lock, somebody gets it.
LockHandedOn == (\E t \in Thread : pc[t] = "spin") ~> (\E t \in Thread : pc[t] = "load")

\* Everybody who waits for the lock gets it.
NobodyStarves == \A t \in Thread : pc[t] = "spin" ~> pc[t] = "load"

\* No id is drawn twice: with its lock, `++next` is one step.
SharedValue == IF \E t \in Thread : stored[t] THEN buffer[CHOOSE t \in Thread : stored[t]] ELSE memory
Sections == INSTANCE Atomic WITH value <- SharedValue
AtomicSpec == Sections!Spec

=============================================================================
