------------------------------ MODULE PipePair ------------------------------
(***************************************************************************)
(* The pipe program of project2 (pipe_communication.c): two children write *)
(* their character Count times each, with or without a lock on the pipe;   *)
(* the parent waits for both and then reads everything.                    *)
(***************************************************************************)
EXTENDS Integers, Sequences, FiniteSets

CONSTANTS Count,        \* WRITE_COUNT
          Capacities    \* what a pipe may hold, in bytes (65536 on Linux)

ASSUME CountAssumption == Count \in Nat \ {0} /\ Capacities \subseteq Nat \ {0}

VARIABLES
  use_lock,     \* --lock or --nolock
  capacity,     \* what this pipe holds
  pc,           \* where each process stands
  i,            \* the characters each child has written
  fd,           \* the contents of the pipe
  holder,       \* the children that hold the lock on it
  reaped,       \* the children the parent has waited for
  InPipe        \* what the parent has read

vars == <<use_lock, capacity, pc, i, fd, holder, reaped, InPipe>>

Children == {1, 2}
Parent == 0

Init ==
  /\ use_lock \in BOOLEAN /\ capacity \in Capacities
  /\ pc = [p \in Children \cup {Parent} |-> IF p = Parent THEN "fork" ELSE "unborn"]
  /\ i = [c \in Children |-> 0]
  /\ fd = << >> /\ holder = {} /\ reaped = {} /\ InPipe = << >>

At(p, from, to) == pc[p] = from /\ pc' = [pc EXCEPT ![p] = to]

\* Child 1 runs while child 2 is still to be born.
Fork ==
  /\ pc[Parent] = "fork"
  /\ \E c \in Children :
       /\ pc[c] = "unborn" /\ \A d \in 1 .. c - 1 : pc[d] # "unborn"
       /\ pc' = [pc EXCEPT ![c] = "lock", ![Parent] = IF c = 2 THEN "wait" ELSE @]
  /\ UNCHANGED <<use_lock, capacity, i, fd, holder, reaped, InPipe>>

\* Mutant: a lock that is tried, and not waited for.
TryLock(c) ==
  /\ At(c, "lock", "write")
  /\ holder' = IF use_lock /\ holder = {} THEN {c} ELSE holder
  /\ UNCHANGED <<use_lock, capacity, i, fd, reaped, InPipe>>

\* lockf(F_LOCK) waits until nobody else holds the lock.
Lock(c) ==
  /\ At(c, "lock", "write")
  /\ use_lock => holder = {}
  /\ holder' = IF use_lock THEN {c} ELSE holder
  /\ UNCHANGED <<use_lock, capacity, i, fd, reaped, InPipe>>

\* write waits while the pipe is full.
Write(c) ==
  /\ pc[c] = "write" /\ Len(fd) < capacity
  /\ fd' = Append(fd, c)
  /\ i' = [i EXCEPT ![c] = @ + 1]
  /\ pc' = [pc EXCEPT ![c] = IF i'[c] = Count THEN "sleep" ELSE "write"]
  /\ UNCHANGED <<use_lock, capacity, holder, reaped, InPipe>>

\* Mutant: the child does wait until its characters are read.
SleepUntilRead(c) ==
  /\ At(c, "sleep", "exited") /\ fd = << >>
  /\ holder' = holder \ {c}
  /\ UNCHANGED <<use_lock, capacity, i, fd, reaped, InPipe>>

\* The child sleeps for a time that matters to nobody, gives the lock back and
\* exits.
Sleep(c) ==
  /\ At(c, "sleep", "exited")
  /\ holder' = holder \ {c}
  /\ UNCHANGED <<use_lock, capacity, i, fd, reaped, InPipe>>

Child(c) == Lock(c) \/ Write(c) \/ Sleep(c)

Wait ==
  /\ pc[Parent] = "wait"
  /\ \E c \in Children \ reaped :
       /\ pc[c] = "exited" /\ reaped' = reaped \cup {c}
       /\ pc' = [pc EXCEPT ![Parent] = IF reaped' = Children THEN "read" ELSE "wait"]
  /\ UNCHANGED <<use_lock, capacity, i, fd, holder, InPipe>>

\* Mutant: the second read overwrites the first.
ReadToStart ==
  /\ pc[Parent] = "read"
  /\ \E n \in 0 .. Len(fd) :
       /\ n = 0 => fd = << >>
       /\ InPipe' = SubSeq(fd, 1, n) /\ fd' = SubSeq(fd, n + 1, Len(fd))
       /\ pc' = [pc EXCEPT ![Parent] = IF n = 0 THEN "exited" ELSE "read"]
  /\ UNCHANGED <<use_lock, capacity, i, holder, reaped>>

\* One read: at least one byte, at most what is missing; nothing at the end of
\* the pipe, which no writer holds any more.
Read ==
  /\ pc[Parent] = "read"
  /\ \E n \in 0 .. 2 * Count - Len(InPipe) :
       /\ n <= Len(fd) /\ (n = 0 => fd = << >>)
       /\ InPipe' = InPipe \o SubSeq(fd, 1, n) /\ fd' = SubSeq(fd, n + 1, Len(fd))
       /\ pc' = [pc EXCEPT ![Parent] = IF n = 0 \/ Len(InPipe') = 2 * Count
                                       THEN "exited" ELSE "read"]
  /\ UNCHANGED <<use_lock, capacity, i, holder, reaped>>

Next == Fork \/ Wait \/ Read \/ \E c \in Children : Child(c)

\* The scheduler runs every process that can run.
Spec ==
  /\ Init /\ [][Next]_vars
  /\ WF_vars(Fork \/ Wait \/ Read) /\ \A c \in Children : WF_vars(Child(c))

-----------------------------------------------------------------------------

\* The characters so far, in the order they came into the pipe.
Stream == InPipe \o fd
Switches == {k \in 2 .. Len(Stream) : Stream[k] # Stream[k - 1]}

\* With the lock the children do not interleave: the parent counts one switch.
LockedRuns == use_lock => \A k, m \in Switches : k = m

\* Where the character of child c stands in s.
Places(c, s) == {k \in 1 .. Len(s) : s[k] = c}

\* Nothing is lost or doubled between the writers and the parent, however many
\* bytes each read returns.
AllRead ==
  pc[Parent] = "exited" =>
    \A c \in Children : Cardinality(Places(c, InPipe)) = Count

\* The parent reads only when both writers are gone (pipe_communication.c:92),
\* so the pipe has to hold all they write: then everybody ends, with or without
\* the lock.
EndsIfPipeHoldsAll == 2 * Count <= capacity => <>(pc[Parent] = "exited")
=============================================================================
