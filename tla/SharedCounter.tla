--------------------------- MODULE SharedCounter ---------------------------
(***************************************************************************)
(* The three counter programs of project1: two threads change a shared     *)
(* counter N times each, without a lock (step1_race.c), under a semaphore  *)
(* (step2_semaphore.c) or under a test-and-set lock (spinlock.c).          *)
(*                                                                         *)
(* A step of 100 in the first two programs counts as 1.  sched_yield only  *)
(* invites a switch, which may happen between any two steps here.          *)
(***************************************************************************)
EXTENDS Integers

CONSTANT N      \* the iterations of a thread

ASSUME IterationsAssumption == N \in Nat

VARIABLES
  prog,         \* the program that runs
  g,            \* the shared counter: g, or shared_value
  s,            \* the value of the semaphore
  flag,         \* the flag of the spinlock
  at,           \* where each thread stands
  done,         \* the iterations whose store is done
  tmp           \* each thread's register copy of g

counterVars == <<prog, g, s, flag, at, done, tmp>>

Threads == {1, 2}

\* Mutant: sub_worker adds like the loop it was copied from.
DeltaCopied(t) == 1

\* Thread 2 of the first two programs is sub_worker.
Delta(t) == IF t = 2 /\ prog # "spinlock" THEN -1 ELSE 1

CounterInit ==
  /\ prog \in {"race", "semaphore", "spinlock"}
  /\ g = 0 /\ s = 1 /\ flag = 0
  /\ at = [t \in Threads |-> "loop"]
  /\ done = [t \in Threads |-> 0]
  /\ tmp = [t \in Threads |-> 0]

Goto(t, label) == at' = [at EXCEPT ![t] = label]

\* Mutant: the value is not tested.
PUntested(t) ==
  /\ prog = "semaphore" /\ at[t] = "loop" /\ done[t] < N
  /\ s' = IF s > 0 THEN s - 1 ELSE 0
  /\ Goto(t, "load")
  /\ UNCHANGED <<prog, g, flag, done, tmp>>

\* sem_wait: takes the semaphore when it is not 0.
P(t) ==
  /\ prog = "semaphore" /\ at[t] = "loop" /\ done[t] < N
  /\ s > 0 /\ s' = s - 1
  /\ Goto(t, "load")
  /\ UNCHANGED <<prog, g, flag, done, tmp>>

\* Mutant: a flag nobody sets.
LockForgotten(t) ==
  /\ prog = "spinlock" /\ at[t] = "loop" /\ done[t] < N
  /\ flag = 0
  /\ Goto(t, "load")
  /\ UNCHANGED <<prog, g, s, flag, done, tmp>>

\* One round of the busy waiting.  While the flag is 1 it changes nothing.
spinlock_lock(t) ==
  /\ prog = "spinlock" /\ at[t] = "loop" /\ done[t] < N
  /\ flag' = 1
  /\ IF flag = 0 THEN Goto(t, "load") ELSE UNCHANGED at
  /\ UNCHANGED <<prog, g, s, done, tmp>>

\* tmp = g.  Nothing makes the compiler read g again in the loop of
\* step1_race.c: with -O2 gcc reads it once.  sem_wait and the atomic builtins
\* forbid this in the other two programs.
Load(t) ==
  /\ \/ at[t] = "load"
     \/ prog = "race" /\ at[t] = "loop" /\ done[t] < N
  /\ \/ tmp' = [tmp EXCEPT ![t] = g]
     \/ prog = "race" /\ done[t] > 0 /\ UNCHANGED tmp
  /\ Goto(t, "store")
  /\ UNCHANGED <<prog, g, s, flag, done>>

\* g = tmp + 100 (or - 100, or + 1), and the end of the iteration if no lock
\* is to be released.
Store(t) ==
  /\ at[t] = "store"
  /\ g' = tmp[t] + Delta(t)
  /\ tmp' = [tmp EXCEPT ![t] = g']
  /\ done' = [done EXCEPT ![t] = @ + 1]
  /\ Goto(t, IF prog = "race" THEN "loop" ELSE "release")
  /\ UNCHANGED <<prog, s, flag>>

\* Mutant: the last iteration leaves the loop before V.
VForgotten(t) ==
  /\ prog = "semaphore" /\ at[t] = "release"
  /\ s' = IF done[t] = N THEN s ELSE s + 1
  /\ Goto(t, "loop")
  /\ UNCHANGED <<prog, g, flag, done, tmp>>

\* sem_post.
V(t) ==
  /\ prog = "semaphore" /\ at[t] = "release"
  /\ s' = s + 1
  /\ Goto(t, "loop")
  /\ UNCHANGED <<prog, g, flag, done, tmp>>

spinlock_unlock(t) ==
  /\ prog = "spinlock" /\ at[t] = "release"
  /\ flag' = 0
  /\ Goto(t, "loop")
  /\ UNCHANGED <<prog, g, s, done, tmp>>

Step(t) == P(t) \/ spinlock_lock(t) \/ Load(t) \/ Store(t) \/ V(t) \/ spinlock_unlock(t)

CounterNext == \E t \in Threads : Step(t)

\* The scheduler runs each thread that can run; a thread in sem_wait can run
\* while the semaphore is not 0.
CounterSpec ==
  CounterInit /\ [][CounterNext]_counterVars /\ \A t \in Threads : WF_counterVars(Step(t))

\* main returns from both pthread_join.
Joined == \A t \in Threads : at[t] = "loop" /\ done[t] = N

-----------------------------------------------------------------------------

TypeOK ==
  /\ prog \in {"race", "semaphore", "spinlock"}
  /\ g \in Int /\ s \in Nat /\ flag \in {0, 1}
  /\ at \in [Threads -> {"loop", "load", "store", "release"}]
  /\ done \in [Threads -> 0 .. N]
  /\ tmp \in [Threads -> Int]

InSection(t) == prog # "race" /\ at[t] # "loop"

\* At most one thread is between P and V, or between lock and unlock, of the
\* programs that have them (step2_semaphore.c, spinlock.c).
MutualExclusion == ~(InSection(1) /\ InSection(2))

\* No update is lost under a lock: the counter is, at every moment, what the
\* iterations done so far add up to; 0 and 2N at the end, as the programs'
\* printed lines expect.
NoLostUpdate ==
  prog # "race" => g = Delta(1) * done[1] + Delta(2) * done[2]

\* What a race can do to g: updates are lost, never invented.  The counter of
\* step1_race.c stays between minus the subtractions and the additions done.
RaceLosesOnly ==
  prog = "race" => -done[2] <= g /\ g <= done[1]

\* Both threads leave their loops, so that main can join them: nobody keeps
\* the semaphore or the lock.
Terminates == <>Joined
=============================================================================
