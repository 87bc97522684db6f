----------------------------- MODULE MemoryPool -----------------------------
(***************************************************************************)
(* What memsim.c promises its user, without addresses: a pool of memory    *)
(* from which processes get what they ask for, and that refuses a request  *)
(* it compacts for only when less than that is free.                       *)
(***************************************************************************)
EXTENDS Integers, Functions

CONSTANTS Capacities,   \* the sizes memory can be given
          Requests      \* the sizes that can be asked for

VARIABLES
  capacity,     \* all the memory there is
  held,         \* held[p]: what process p holds
  seq,          \* the number of processes so far, the last one's number
  slice,        \* the least remainder worth keeping
  compacting,   \* may processes be moved to make room?
  lossy,        \* the host could not keep track of some memory
  reply         \* to the last request: what was asked, what was got

vars == <<capacity, held, seq, slice, compacting, lossy, reply>>

NoReply == [asked |-> 0, got |-> 0]
Unheld == capacity - SumFunction(held)

Init ==
  /\ capacity \in Capacities
  /\ held = << >> /\ seq = 0 /\ slice \in Nat
  /\ compacting = TRUE /\ lossy \in BOOLEAN
  /\ reply = NoReply

\* The process gets what it asks for, or that and a remainder below slice.
Give(n, got) ==
  /\ got <= Unheld
  /\ got = n \/ (n < got /\ got - n < slice)
  /\ seq' = seq + 1
  /\ held' = [p \in DOMAIN held \cup {seq'} |-> IF p = seq' THEN got ELSE held[p]]
  /\ reply' = [asked |-> n, got |-> got]
  /\ lossy' \in {lossy, FALSE}
  /\ UNCHANGED <<capacity, slice, compacting>>

Refuse(n) ==
  /\ compacting /\ ~lossy' => n > Unheld
  /\ seq' = seq + 1
  /\ reply' = [asked |-> n, got |-> 0]
  /\ lossy' \in {lossy, TRUE}
  /\ UNCHANGED <<capacity, held, slice, compacting>>

\* A number is used up by a request that makes no sense.
Skip ==
  /\ seq' = seq + 1 /\ reply' = NoReply
  /\ UNCHANGED <<capacity, held, slice, compacting, lossy>>

Release(p) ==
  /\ held' = Restrict(held, DOMAIN held \ {p})
  /\ reply' = NoReply
  /\ lossy' \in {lossy, TRUE}
  /\ UNCHANGED <<capacity, seq, slice, compacting>>

\* The size of memory changes only while nobody holds any.
Resize ==
  /\ held = << >>
  /\ capacity' \in Capacities /\ lossy' \in {lossy, FALSE} /\ reply' = NoReply
  /\ UNCHANGED <<held, seq, slice, compacting>>

Configure ==
  /\ slice' \in Nat /\ compacting' \in BOOLEAN /\ reply' = NoReply
  /\ UNCHANGED <<capacity, held, seq, lossy>>

Next ==
  \/ \E n \in Requests : Refuse(n)
  \/ \E n \in Requests, got \in 1 .. capacity : Give(n, got)
  \/ \E p \in DOMAIN held : Release(p)
  \/ Skip \/ Resize \/ Configure

Spec == Init /\ [][Next]_vars
=============================================================================
