----------------------------- MODULE LockProofs -----------------------------
(***************************************************************************)
(* What the locks of the exercises give, for all numbers of iterations.    *)
(* The three counter programs of project1 (SharedCounter): mutual          *)
(* exclusion, no update lost under a lock, none invented by a race.  The   *)
(* pipe program of project2 (PipePair), for every size of the pipe: what   *)
(* the parent has read when it exits is all that was written, and under    *)
(* the lock one child's characters after the other's.                      *)
(***************************************************************************)
EXTENDS SharedCounter, PipePair, SequenceTheorems, FiniteSetTheorems, TLAPS

-----------------------------------------------------------------------------
(* SharedCounter *)

\* The iteration a thread is in is still to be counted, and a program without
\* a lock has none to release.
Pending ==
  \A t \in Threads :
    /\ at[t] \in {"load", "store"} => done[t] < N
    /\ prog = "race" => at[t] \in {"loop", "store"}

\* The semaphore, or the flag, says whether somebody is in the section.
LockTellsHolder ==
  /\ prog = "semaphore" => s = IF InSection(1) \/ InSection(2) THEN 0 ELSE 1
  /\ prog = "spinlock" => flag = IF InSection(1) \/ InSection(2) THEN 1 ELSE 0

\* Under a lock, what a thread has loaded is still what the counter holds.
LoadedIsCurrent ==
  \A t \in Threads : prog # "race" /\ at[t] = "store" => tmp[t] = g

\* In a race, a register holds a value that g once had.
RegistersBounded ==
  prog = "race" => \A t \in Threads : -done[2] <= tmp[t] /\ tmp[t] <= done[1]

Locked == LockTellsHolder /\ MutualExclusion /\ LoadedIsCurrent /\ NoLostUpdate
Raced == RegistersBounded /\ RaceLosesOnly

CounterInv == TypeOK /\ Pending /\ Locked /\ Raced

LEMMA CounterInitEstablishes == CounterInit => CounterInv
  BY IterationsAssumption
  DEF CounterInit, CounterInv, TypeOK, Pending, Locked, Raced, LockTellsHolder, MutualExclusion,
      LoadedIsCurrent, NoLostUpdate, RegistersBounded, RaceLosesOnly, InSection,
      Threads, Delta

\* TypeOK and Pending do not need the lock.
LEMMA TypesKept ==
  ASSUME TypeOK, Pending, [CounterNext]_counterVars
  PROVE  TypeOK' /\ Pending'
<1> USE IterationsAssumption DEF TypeOK, Pending, Threads
<1>1. ASSUME NEW t \in Threads, P(t) PROVE TypeOK' /\ Pending'
  BY <1>1 DEF P, Goto
<1>2. ASSUME NEW t \in Threads, spinlock_lock(t) PROVE TypeOK' /\ Pending'
  BY <1>2 DEF spinlock_lock, Goto
<1>3. ASSUME NEW t \in Threads, Load(t) PROVE TypeOK' /\ Pending'
  BY <1>3 DEF Load, Goto
<1>4. ASSUME NEW t \in Threads, Store(t) PROVE TypeOK' /\ Pending'
  BY <1>4 DEF Store, Goto, Delta
<1>5. ASSUME NEW t \in Threads, V(t) PROVE TypeOK' /\ Pending'
  BY <1>5 DEF V, Goto
<1>6. ASSUME NEW t \in Threads, spinlock_unlock(t) PROVE TypeOK' /\ Pending'
  BY <1>6 DEF spinlock_unlock, Goto
<1>7. CASE UNCHANGED counterVars
  BY <1>7 DEF counterVars
<1> QED
  BY <1>1, <1>2, <1>3, <1>4, <1>5, <1>6, <1>7 DEF CounterNext, Step

\* A thread enters only while nobody is in, and alone changes the counter.
LEMMA LockKept ==
  ASSUME CounterInv, [CounterNext]_counterVars
  PROVE  Locked'
<1> USE DEF CounterInv, TypeOK, Pending, Locked, LockTellsHolder, MutualExclusion,
            LoadedIsCurrent, NoLostUpdate, InSection, Threads, Goto, Delta
<1>1. ASSUME NEW t \in Threads, P(t) PROVE Locked'
  BY <1>1 DEF P
<1>2. ASSUME NEW t \in Threads, spinlock_lock(t) PROVE Locked'
  BY <1>2 DEF spinlock_lock
<1>3. ASSUME NEW t \in Threads, Load(t) PROVE Locked'
  BY <1>3 DEF Load
<1>4. ASSUME NEW t \in Threads, Store(t) PROVE Locked'
  BY <1>4 DEF Store
<1>5. ASSUME NEW t \in Threads, V(t) PROVE Locked'
  BY <1>5 DEF V
<1>6. ASSUME NEW t \in Threads, spinlock_unlock(t) PROVE Locked'
  BY <1>6 DEF spinlock_unlock
<1>7. CASE UNCHANGED counterVars
  BY <1>7 DEF counterVars
<1> QED
  BY <1>1, <1>2, <1>3, <1>4, <1>5, <1>6, <1>7 DEF CounterNext, Step

\* In a race only Load and Store move, and both keep the bounds.
LEMMA RaceKept ==
  ASSUME CounterInv, [CounterNext]_counterVars
  PROVE  Raced'
<1> USE DEF CounterInv, TypeOK, Raced, RegistersBounded, RaceLosesOnly, Threads, Goto
<1>1. ASSUME NEW t \in Threads, P(t) PROVE Raced'
  BY <1>1 DEF P
<1>2. ASSUME NEW t \in Threads, spinlock_lock(t) PROVE Raced'
  BY <1>2 DEF spinlock_lock
<1>3. ASSUME NEW t \in Threads, Load(t) PROVE Raced'
  BY <1>3 DEF Load
<1>4. ASSUME NEW t \in Threads, Store(t) PROVE Raced'
  BY <1>4 DEF Store, Delta
<1>5. ASSUME NEW t \in Threads, V(t) PROVE Raced'
  BY <1>5 DEF V
<1>6. ASSUME NEW t \in Threads, spinlock_unlock(t) PROVE Raced'
  BY <1>6 DEF spinlock_unlock
<1>7. CASE UNCHANGED counterVars
  BY <1>7 DEF counterVars
<1> QED
  BY <1>1, <1>2, <1>3, <1>4, <1>5, <1>6, <1>7 DEF CounterNext, Step

LEMMA CounterInvHolds == CounterSpec => []CounterInv
<1>1. CounterInv /\ [CounterNext]_counterVars => CounterInv'
  BY TypesKept, LockKept, RaceKept DEF CounterInv
<1> QED
  BY CounterInitEstablishes, <1>1, PTL DEF CounterSpec

\* Every variable keeps its type (step1_race.c, step2_semaphore.c, spinlock.c).
THEOREM CounterTypes == CounterSpec => []TypeOK
  BY CounterInvHolds, PTL DEF CounterInv

\* The semaphore of step2_semaphore.c and the test-and-set flag of spinlock.c
\* let one thread at a time into the section.
THEOREM MutualExclusionHolds == CounterSpec => []MutualExclusion
  BY CounterInvHolds, PTL DEF CounterInv, Locked

\* Under either lock the counter is exactly the sum of the iterations done.
THEOREM NoLostUpdateHolds == CounterSpec => []NoLostUpdate
  BY CounterInvHolds, PTL DEF CounterInv, Locked

\* Without a lock (step1_race.c) the counter stays between minus the
\* subtractions and the additions done, in whatever order the threads run and
\* whether or not the compiler reads it again in each iteration.
THEOREM RaceLosesOnlyHolds == CounterSpec => []RaceLosesOnly
  BY CounterInvHolds, PTL DEF CounterInv, Raced

\* When both threads have left their loops, step2_semaphore.c prints 0 and
\* spinlock.c prints 2N.
THEOREM FinalValue ==
  CounterSpec => [](Joined => /\ prog = "semaphore" => g = 0
                              /\ prog = "spinlock" => g = 2 * N)
<1>1. CounterInv => (Joined => /\ prog = "semaphore" => g = 0
                               /\ prog = "spinlock" => g = 2 * N)
  BY IterationsAssumption
  DEF CounterInv, Locked, NoLostUpdate, Joined, Delta, Threads
<1> QED
  BY CounterInvHolds, <1>1, PTL

-----------------------------------------------------------------------------
(* PipePair *)

Labels == {"unborn", "fork", "lock", "write", "sleep", "wait", "read", "exited"}

Types ==
  /\ use_lock \in BOOLEAN /\ capacity \in Nat
  /\ pc \in [{0, 1, 2} -> Labels]
  /\ i \in [Children -> 0 .. Count]
  /\ fd \in Seq(Children) /\ InPipe \in Seq(Children)
  /\ holder \subseteq Children /\ reaped \subseteq Children

\* A child has written nothing before it has the lock and everything after.
Written(c) ==
  /\ pc[c] \in {"unborn", "lock", "write", "sleep", "exited"}
  /\ pc[c] \in {"unborn", "lock"} => i[c] = 0
  /\ pc[c] = "write" => i[c] < Count
  /\ pc[c] \in {"sleep", "exited"} => i[c] = Count

\* The parent reads when both children have exited, and exits when the pipe is
\* empty.
ParentWaits ==
  /\ \A c \in reaped : pc[c] = "exited"
  /\ pc[Parent] \in {"fork", "wait", "read", "exited"}
  /\ pc[Parent] \in {"read", "exited"} => reaped = Children
  /\ pc[Parent] = "exited" => fd = << >>

\* Every character written is in the pipe or read, once.
NoneLost ==
  /\ Len(InPipe) + Len(fd) = i[1] + i[2]
  /\ \A c \in Children : Cardinality(Places(c, Stream)) = i[c]

\* The lock has one holder, the child that writes or sleeps.
OneHolder ==
  use_lock => /\ \A c \in Children : pc[c] \in {"write", "sleep"} => c \in holder
              /\ \A c, d \in holder : c = d

\* One child's characters come first, and all of them before the other's.
Runs ==
  use_lock =>
    \E c \in Children :
      /\ \A k \in 1 .. Len(Stream) : Stream[k] = c <=> k <= i[c]
      /\ \A d \in Children \ {c} : i[d] > 0 => i[c] = Count

IInv == /\ Types /\ (\A c \in Children : Written(c))
        /\ ParentWaits /\ NoneLost /\ OneHolder /\ Runs


-----------------------------------------------------------------------------

\* Writing d adds one place to those of d.
LEMMA PlacesOfAppend ==
  ASSUME NEW u \in Seq(Children), NEW c \in Children, NEW d \in Children
  PROVE  /\ Cardinality(Places(c, u)) \in Nat
         /\ Cardinality(Places(c, Append(u, d)))
              = Cardinality(Places(c, u)) + (IF c = d THEN 1 ELSE 0)
<1>1. Len(u) \in Nat
  BY LenProperties
<1>2. IsFiniteSet(Places(c, u)) /\ Len(u) + 1 \notin Places(c, u)
  <2>1. IsFiniteSet(1 .. Len(u))
    BY <1>1, FS_Interval
  <2>2. Places(c, u) \subseteq 1 .. Len(u)
    BY DEF Places
  <2> QED
    BY <1>1, <2>1, <2>2, FS_Subset
<1>3. Places(c, Append(u, d)) = Places(c, u) \cup (IF c = d THEN {Len(u) + 1} ELSE {})
  <2>1. /\ Len(Append(u, d)) = Len(u) + 1
        /\ \A k \in 1 .. Len(u) : Append(u, d)[k] = u[k]
        /\ Append(u, d)[Len(u) + 1] = d
    BY AppendProperties
  <2> QED
    BY <1>1, <2>1 DEF Places
<1>4. Cardinality(Places(c, u)) \in Nat
  BY <1>2, FS_CardinalityType
<1>5. CASE c = d
  BY <1>2, <1>3, <1>4, <1>5, FS_AddElement
<1>6. CASE c # d
  BY <1>3, <1>4, <1>6
<1> QED
  BY <1>4, <1>5, <1>6

\* A read of n characters, and what is left in the pipe.
LEMMA ReadTypes ==
  ASSUME NEW S, NEW u \in Seq(S), NEW t \in Seq(S), NEW n \in 0 .. Len(t)
  PROVE  /\ SubSeq(t, 1, n) \in Seq(S)
         /\ u \o SubSeq(t, 1, n) \in Seq(S)
         /\ Len(u \o SubSeq(t, 1, n)) = Len(u) + n
         /\ SubSeq(t, n + 1, Len(t)) \in Seq(S)
         /\ Len(SubSeq(t, n + 1, Len(t))) = Len(t) - n
<1>1. Len(t) \in Nat /\ n \in Nat /\ \A k \in 1 .. Len(t) : t[k] \in S
  BY LenProperties, ElementOfSeq
<1>2. SubSeq(t, 1, n) \in Seq(S) /\ Len(SubSeq(t, 1, n)) = n
  BY <1>1, SubSeqProperties
<1>3. SubSeq(t, n + 1, Len(t)) \in Seq(S) /\ Len(SubSeq(t, n + 1, Len(t))) = Len(t) - n
  <2>1. \A k \in n + 1 .. Len(t) : t[k] \in S
    BY <1>1
  <2> QED
    BY <1>1, <2>1, SubSeqProperties
<1> QED
  BY <1>2, <1>3, ConcatProperties

\* It moves the first n characters of the pipe and changes no order.
LEMMA ReadKeepsOrder ==
  ASSUME NEW S, NEW u \in Seq(S), NEW t \in Seq(S), NEW n \in 0 .. Len(t)
  PROVE  (u \o SubSeq(t, 1, n)) \o SubSeq(t, n + 1, Len(t)) = u \o t
<1>1. SubSeq(t, 1, n) \o SubSeq(t, n + 1, Len(t)) = t
  <2>1. 1 \in 1 .. Len(t) + 1 /\ n \in 1 - 1 .. Len(t) /\ Len(t) \in n .. Len(t)
    BY LenProperties
  <2>2. SubSeq(t, 1, n) \o SubSeq(t, n + 1, Len(t)) = SubSeq(t, 1, Len(t))
    BY <2>1, ConcatAdjacentSubSeq, Zenon
  <2> QED
    BY <2>2, SubSeqFull
<1>2. SubSeq(t, 1, n) \in Seq(S) /\ SubSeq(t, n + 1, Len(t)) \in Seq(S)
  BY ReadTypes
<1>3. \A a, b \in Seq(S) : (u \o a) \o b = u \o (a \o b)
  BY ConcatAssociative
<1>4. (u \o SubSeq(t, 1, n)) \o SubSeq(t, n + 1, Len(t))
        = u \o (SubSeq(t, 1, n) \o SubSeq(t, n + 1, Len(t)))
  BY <1>2, <1>3
<1> QED
  BY <1>1, <1>4

LEMMA StreamType ==
  ASSUME Types
  PROVE  /\ Len(fd) \in Nat /\ Len(InPipe) \in Nat
         /\ Stream \in Seq(Children) /\ Len(Stream) = Len(InPipe) + Len(fd)
  BY LenProperties, ConcatProperties DEF Types, Stream


-----------------------------------------------------------------------------

LEMMA InitEstablishes == Init => IInv
<1> SUFFICES ASSUME Init PROVE IInv
  OBVIOUS
<1>1. Types /\ Stream = << >> /\ Len(Stream) = 0
  BY CountAssumption DEF Init, Types, Labels, Children, Parent, Stream
<1>2. \A c \in Children : Cardinality(Places(c, Stream)) = 0
  BY <1>1, FS_EmptySet DEF Places
<1>3. \A c \in Children : Written(c)
  BY DEF Init, Written, Children, Parent
<1>4. ParentWaits /\ OneHolder
  BY DEF Init, ParentWaits, OneHolder, Children, Parent
<1>5. NoneLost
  BY <1>2 DEF Init, NoneLost, Children
<1>6. Runs
  BY <1>1 DEF Init, Runs, Children
<1> QED
  BY <1>1, <1>3, <1>4, <1>5, <1>6 DEF IInv

\* A step that leaves the characters and their numbers alone.
LEMMA StreamKept ==
  ASSUME IInv, Types', UNCHANGED <<use_lock, i, fd, InPipe>>
  PROVE  NoneLost' /\ Runs'
  BY DEF IInv, NoneLost, Runs, Stream

LEMMA ForkKeeps == ASSUME IInv, Fork PROVE IInv'
<1> USE DEF IInv, Children, Parent
<1>1. PICK c \in Children :
        /\ pc[c] = "unborn" /\ \A d \in 1 .. c - 1 : pc[d] # "unborn"
        /\ pc' = [pc EXCEPT ![c] = "lock", ![Parent] = IF c = 2 THEN "wait" ELSE @]
  BY DEF Fork
<1>2. pc[Parent] = "fork" /\ UNCHANGED <<use_lock, capacity, i, fd, holder, reaped, InPipe>>
  BY DEF Fork
<1>3. Types'
  BY <1>1, <1>2 DEF Types, Labels
<1>4. \A d \in Children : Written(d)'
  BY <1>1, <1>2 DEF Types, Written
<1>5. ParentWaits' /\ OneHolder'
  BY <1>1, <1>2 DEF Types, ParentWaits, OneHolder
<1> QED
  BY <1>2, <1>3, <1>4, <1>5, StreamKept

LEMMA LockKeeps == ASSUME IInv, NEW c \in Children, Lock(c) PROVE IInv'
<1> USE DEF IInv, Children, Parent, Lock, At
<1>1. Types'
  BY DEF Types, Labels
<1>2. \A d \in Children : Written(d)'
  BY CountAssumption DEF Types, Written
<1>3. ParentWaits'
  BY DEF Types, ParentWaits
<1>4. OneHolder'
  BY DEF Types, OneHolder
<1> QED
  BY <1>1, <1>2, <1>3, <1>4, StreamKept

LEMMA SleepKeeps == ASSUME IInv, NEW c \in Children, Sleep(c) PROVE IInv'
<1> USE DEF IInv, Children, Parent, Sleep, At
<1>1. Types'
  BY DEF Types, Labels
<1>2. \A d \in Children : Written(d)'
  BY DEF Types, Written
<1>3. ParentWaits'
  BY DEF Types, ParentWaits
<1>4. OneHolder'
  BY DEF Types, OneHolder
<1> QED
  BY <1>1, <1>2, <1>3, <1>4, StreamKept

LEMMA WaitKeeps == ASSUME IInv, Wait PROVE IInv'
<1> USE DEF IInv, Children, Parent, Wait
<1>1. Types'
  BY DEF Types, Labels
<1>2. \A d \in Children : Written(d)'
  BY DEF Types, Written
<1>3. ParentWaits'
  BY DEF Types, ParentWaits
<1>4. OneHolder'
  BY DEF Types, OneHolder
<1> QED
  BY <1>1, <1>2, <1>3, <1>4, StreamKept

LEMMA WriteKeeps == ASSUME IInv, NEW c \in Children, Write(c) PROVE IInv'
<1>1. /\ pc[c] = "write" /\ fd' = Append(fd, c) /\ i' = [i EXCEPT ![c] = @ + 1]
      /\ pc' = [pc EXCEPT ![c] = IF i'[c] = Count THEN "sleep" ELSE "write"]
      /\ UNCHANGED <<use_lock, capacity, holder, reaped, InPipe>>
  BY DEF Write
<1>2. Types /\ (\A d \in Children : Written(d)) /\ i[c] < Count /\ c \in {1, 2}
  BY <1>1 DEF IInv, Written, Children
<1>3. Types'
  <2>1. i'[c] \in 0 .. Count
    BY <1>1, <1>2, CountAssumption DEF Types
  <2>2. fd' \in Seq(Children)
    BY <1>1, <1>2, AppendProperties DEF Types
  <2> QED
    BY <1>1, <1>2, <2>1, <2>2 DEF Types, Labels
<1>4. \A d \in Children : Written(d)'
  BY <1>1, <1>2, CountAssumption DEF Types, Written, Children
<1>5. ParentWaits'
  <2>1. c \notin reaped /\ pc[Parent] \notin {"read", "exited"}
    BY <1>1, <1>2 DEF IInv, ParentWaits
  <2> QED
    BY <1>1, <1>2, <2>1 DEF IInv, ParentWaits, Types, Children, Parent
<1>6. OneHolder'
  BY <1>1, <1>2 DEF IInv, OneHolder, Types, Children, Parent
<1>7. Stream \in Seq(Children) /\ Stream' = Append(Stream, c)
  <2>1. Stream' = InPipe \o (fd \o <<c>>)
    BY <1>1, <1>2, AppendIsConcat DEF Stream, Types
  <2>2. Stream' = Stream \o <<c>>
    <3>1. <<c>> \in Seq(Children)
      OBVIOUS
    <3> QED
      BY <1>2, <2>1, <3>1, ConcatAssociative DEF Stream, Types
  <2> QED
    BY <1>2, <2>2, StreamType, AppendIsConcat
<1>8. NoneLost'
  <2>1. Len(fd') = Len(fd) + 1 /\ Len(fd) \in Nat /\ Len(InPipe) \in Nat
    BY <1>1, <1>2, AppendProperties, LenProperties DEF Types
  <2>2. ASSUME NEW d \in Children PROVE Cardinality(Places(d, Stream')) = i'[d]
    <3>1. Cardinality(Places(d, Append(Stream, c)))
            = Cardinality(Places(d, Stream)) + (IF d = c THEN 1 ELSE 0)
      BY <1>7, PlacesOfAppend
    <3>2. Cardinality(Places(d, Stream)) = i[d]
      BY DEF IInv, NoneLost
    <3>3. i'[d] = i[d] + (IF d = c THEN 1 ELSE 0)
      BY <1>1, <1>2 DEF Types
    <3> QED
      BY <1>7, <3>1, <3>2, <3>3
  <2>3. Len(InPipe') + Len(fd') = i'[1] + i'[2]
    BY <1>1, <1>2, <2>1 DEF IInv, NoneLost, Types, Children
  <2> QED
    BY <2>2, <2>3 DEF NoneLost
<1>9. Runs'
  <2> SUFFICES ASSUME use_lock
               PROVE  \E f \in Children :
                        /\ \A k \in 1 .. Len(Stream') : Stream'[k] = f <=> k <= i'[f]
                        /\ \A d \in Children \ {f} : i'[d] > 0 => i'[f] = Count
    BY <1>1 DEF Runs, Stream
  <2>1. \A d \in Children \ {c} : i[d] = 0 \/ i[d] = Count
    BY <1>1, <1>2 DEF IInv, OneHolder, Written, Children
  <2>2. PICK f \in Children :
          /\ \A k \in 1 .. Len(Stream) : Stream[k] = f <=> k <= i[f]
          /\ \A d \in Children \ {f} : i[d] > 0 => i[f] = Count
    BY DEF IInv, Runs
  <2>3. /\ Len(Stream) \in Nat /\ Len(Stream) = i[1] + i[2]
        /\ Len(Stream') = Len(Stream) + 1
        /\ \A k \in 1 .. Len(Stream) : Stream'[k] = Stream[k]
        /\ Stream'[Len(Stream) + 1] = c
    BY <1>2, <1>7, StreamType, LenProperties, AppendProperties DEF IInv, NoneLost
  <2>4. \A d \in Children : i[d] \in 0 .. Count
    BY <1>2 DEF Types
  <2>5. CASE f = c
    <3>1. \A d \in Children \ {c} : i[d] = 0
      BY <1>2, <2>2, <2>4, <2>5, CountAssumption
    <3>2. Len(Stream) = i[c]
      BY <1>2, <2>3, <2>4, <3>1 DEF Children
    <3>3. ASSUME NEW k \in 1 .. Len(Stream') PROVE Stream'[k] = c <=> k <= i'[c]
      <4>1. i'[c] = i[c] + 1 /\ i[c] \in Nat
        BY <1>1, <1>2, CountAssumption DEF Types
      <4> QED
        BY <2>2, <2>3, <2>5, <3>2, <4>1
    <3>4. \A d \in Children \ {c} : ~(i'[d] > 0)
      BY <1>1, <1>2, <3>1 DEF Types
    <3> QED
      BY <3>3, <3>4
  <2>6. CASE f # c /\ i[f] = Count
    <3>1. \A k \in 1 .. Len(Stream') : Stream'[k] = f <=> k <= i'[f]
      <4>1. i'[f] = i[f] /\ i[f] \in Nat /\ i[c] \in Nat /\ i[f] <= Len(Stream)
        BY <1>1, <1>2, <2>2, <2>3, <2>4, <2>6, CountAssumption DEF Types, Children
      <4> QED
        BY <2>2, <2>3, <2>6, <4>1
    <3>2. i'[f] = Count
      BY <1>1, <1>2, <2>6 DEF Types
    <3> QED
      BY <3>1, <3>2
  <2>7. CASE f # c /\ i[f] = 0
    <3>1. i[c] = 0 /\ Len(Stream) = 0
      BY <1>2, <2>2, <2>3, <2>4, <2>7, CountAssumption DEF Children
    <3>2. \A k \in 1 .. Len(Stream') : Stream'[k] = c <=> k <= i'[c]
      BY <1>1, <1>2, <2>3, <3>1 DEF Types
    <3>3. \A d \in Children \ {c} : ~(i'[d] > 0)
      BY <1>1, <1>2, <2>7 DEF Types, Children
    <3> QED
      BY <3>2, <3>3
  <2> QED
    BY <2>1, <2>5, <2>6, <2>7
<1> QED
  BY <1>3, <1>4, <1>5, <1>6, <1>8, <1>9 DEF IInv

LEMMA ReadKeeps == ASSUME IInv, Read PROVE IInv'
<1>1. PICK n \in 0 .. 2 * Count - Len(InPipe) :
        /\ n <= Len(fd) /\ (n = 0 => fd = << >>)
        /\ InPipe' = InPipe \o SubSeq(fd, 1, n) /\ fd' = SubSeq(fd, n + 1, Len(fd))
        /\ pc' = [pc EXCEPT ![Parent] = IF n = 0 \/ Len(InPipe') = 2 * Count
                                       THEN "exited" ELSE "read"]
  BY DEF Read
<1>2. pc[Parent] = "read" /\ UNCHANGED <<use_lock, capacity, i, holder, reaped>>
  BY DEF Read
<1>3. /\ Types /\ Len(fd) \in Nat /\ Len(InPipe) \in Nat /\ n \in 0 .. Len(fd)
      /\ fd \in Seq(Children) /\ InPipe \in Seq(Children)
  <2>1. Types /\ fd \in Seq(Children) /\ InPipe \in Seq(Children)
    BY DEF IInv, Types
  <2>2. Len(fd) \in Nat /\ Len(InPipe) \in Nat
    BY <2>1, LenProperties
  <2> QED
    BY <1>1, <2>1, <2>2
<1>4. /\ InPipe' \in Seq(Children) /\ Len(InPipe') = Len(InPipe) + n
      /\ fd' \in Seq(Children) /\ Len(fd') = Len(fd) - n
      /\ Stream' = Stream
  <2>1. /\ InPipe \o SubSeq(fd, 1, n) \in Seq(Children)
        /\ Len(InPipe \o SubSeq(fd, 1, n)) = Len(InPipe) + n
        /\ SubSeq(fd, n + 1, Len(fd)) \in Seq(Children)
        /\ Len(SubSeq(fd, n + 1, Len(fd))) = Len(fd) - n
    BY <1>3, ReadTypes
  <2>2. (InPipe \o SubSeq(fd, 1, n)) \o SubSeq(fd, n + 1, Len(fd)) = InPipe \o fd
    BY <1>3, ReadKeepsOrder
  <2> QED
    BY <1>1, <2>1, <2>2, Zenon DEF Stream
<1>5. Types'
  BY <1>1, <1>2, <1>4 DEF IInv, Types, Labels, Parent
<1>6. \A c \in Children : Written(c)'
  BY <1>1, <1>2, <1>3 DEF IInv, Written, Types, Children, Parent
<1>7. \A c \in Children : i[c] = Count
  BY <1>2 DEF IInv, ParentWaits, Written, Children
<1>8. ParentWaits'
  <2>1. pc'[Parent] \in {"read", "exited"} /\ \A c \in Children : pc'[c] = pc[c]
    BY <1>1, <1>3 DEF Types, Children, Parent
  <2>2. ASSUME pc'[Parent] = "exited" PROVE fd' = << >>
    <3>1. n = 0 \/ Len(InPipe') = 2 * Count
      BY <1>1, <1>3, <2>2 DEF Types, Parent
    <3>2. Len(InPipe) + Len(fd) = 2 * Count
      BY <1>7, CountAssumption DEF IInv, NoneLost, Children
    <3>3. Len(fd') = 0
      BY <1>1, <1>3, <1>4, <3>1, <3>2, CountAssumption, EmptySeq
    <3> QED
      BY <1>4, <3>3, EmptySeq
  <2> QED
    BY <1>2, <2>1, <2>2 DEF IInv, ParentWaits, Types
<1>9. OneHolder'
  BY <1>1, <1>2, <1>3 DEF IInv, OneHolder, Types, Children, Parent
<1>10. NoneLost' /\ Runs'
  <2>1. Len(InPipe') + Len(fd') = Len(InPipe) + Len(fd)
    BY <1>3, <1>4
  <2> QED
    BY <1>2, <1>4, <2>1 DEF IInv, NoneLost, Runs
<1> QED
  BY <1>5, <1>6, <1>8, <1>9, <1>10 DEF IInv

LEMMA InvariantHolds == Spec => []IInv
<1>1. ASSUME IInv, [Next]_vars PROVE IInv'
  <2>1. CASE UNCHANGED vars
    BY <1>1, <2>1
    DEF vars, IInv, Types, Written, ParentWaits, NoneLost, OneHolder, Runs, Stream
  <2> QED
    BY <1>1, <2>1, ForkKeeps, LockKeeps, SleepKeeps, WaitKeeps, WriteKeeps, ReadKeeps
    DEF Next, Child
<1> QED
  BY InitEstablishes, <1>1, PTL DEF Spec

\* --lock of pipe_communication.c: the parent counts one switch at most, for
\* every WRITE_COUNT, every size of the pipe and every interleaving.
THEOREM LockedRunsHolds == Spec => []LockedRuns
<1>1. ASSUME IInv PROVE LockedRuns
  <2> SUFFICES ASSUME use_lock, NEW k \in Switches, NEW m \in Switches PROVE k = m
    BY DEF LockedRuns
  <2>1. PICK c \in Children : \A n \in 1 .. Len(Stream) : Stream[n] = c <=> n <= i[c]
    BY <1>1 DEF IInv, Runs
  <2>2. Len(Stream) \in Nat /\ \A n \in 1 .. Len(Stream) : Stream[n] \in {1, 2}
    BY <1>1, StreamType, LenProperties, ElementOfSeq DEF IInv, Children
  <2>3. i[c] \in Nat /\ c \in {1, 2}
    BY <1>1 DEF IInv, Types, Children
  <2>4. ASSUME NEW n \in Switches PROVE n = i[c] + 1
    <3>1. n \in 2 .. Len(Stream) /\ Stream[n] # Stream[n - 1]
      BY DEF Switches
    <3>2. n \in 1 .. Len(Stream) /\ n - 1 \in 1 .. Len(Stream)
      BY <2>2, <3>1
    <3>3. ~(n <= i[c] <=> n - 1 <= i[c])
      BY <2>1, <2>2, <2>3, <3>1, <3>2
    <3> QED
      BY <2>2, <2>3, <3>1, <3>3
  <2> QED
    BY <2>4
<1> QED
  BY InvariantHolds, <1>1, PTL

\* The loop around read in pipe_communication.c returns each child's WRITE_COUNT
\* characters, however many bytes one read gives.
THEOREM AllReadHolds == Spec => []AllRead
<1>1. ASSUME IInv PROVE AllRead
  <2> SUFFICES ASSUME pc[Parent] = "exited", NEW c \in Children
               PROVE  Cardinality(Places(c, InPipe)) = Count
    BY DEF AllRead
  <2>1. fd = << >> /\ i[c] = Count
    BY <1>1 DEF IInv, ParentWaits, Written
  <2>2. Stream = InPipe
    BY <1>1, <2>1, ConcatEmptySeq DEF IInv, Types, Stream
  <2> QED
    BY <1>1, <2>1, <2>2 DEF IInv, NoneLost
<1> QED
  BY InvariantHolds, <1>1, PTL
=============================================================================
