------------------------------ MODULE SoftInt ------------------------------
(***************************************************************************)
(* The soft interrupts of project2 (softint.c): a parent waits for a       *)
(* signal from the keyboard or from its alarm, passes one on to each of    *)
(* two children, and waits for them to end.                                *)
(*                                                                         *)
(* The model begins when the parent has set its handlers and its alarm.  A *)
(* signal is pending until its receiver runs the handler, which it may do  *)
(* between any two of its steps.  Keys do not matter to the children: they *)
(* inherit the parent's handler and then ignore them.                      *)
(***************************************************************************)
EXTENDS Integers

CONSTANT MaxKeys        \* bound on the keys pressed

VARIABLES
  pc,           \* where each process stands
  pending,      \* the signals sent to it and not handled
  flag,         \* its flag: parent_tripped, child1_got, child2_got
  handler,      \* has it set the handler that raises the flag?
  ready,        \* the bytes in ready_pipe
  got,          \* the bytes the parent has read
  alarm,        \* will the alarm still ring?
  keys,         \* the keys pressed so far
  missed        \* history: who raised the flag after testing it, before pausing

vars == <<pc, pending, flag, handler, ready, got, alarm, keys, missed>>

Children == {"child1", "child2"}
Processes == Children \cup {"parent"}

Init ==
  /\ pc = [p \in Processes |-> IF p = "parent" THEN "fork1" ELSE "unborn"]
  /\ pending = [p \in Processes |-> {}]
  /\ flag = [p \in Processes |-> FALSE]
  /\ handler = [p \in Processes |-> p = "parent"]
  /\ ready = 0 /\ got = 0 /\ alarm = TRUE /\ keys = 0 /\ missed = {}

Goto(p, label) == pc' = [pc EXCEPT ![p] = label]
At(p, from, to) == pc[p] = from /\ Goto(p, to)
Ended(p) == pc[p] \in {"exited", "killed"}

-----------------------------------------------------------------------------

Key ==
  /\ keys < MaxKeys /\ keys' = keys + 1
  /\ \E key \in {"SIGINT", "SIGQUIT"} : pending' = [pending EXCEPT !["parent"] = @ \cup {key}]
  /\ UNCHANGED <<pc, flag, handler, ready, got, alarm, missed>>

Ring ==
  /\ alarm /\ alarm' = FALSE
  /\ pending' = [pending EXCEPT !["parent"] = @ \cup {"SIGALRM"}]
  /\ UNCHANGED <<pc, flag, handler, ready, got, keys, missed>>

\* Mutant: only the signal that raises the flag ends the pause.
HandleWakesOnce(p) ==
  /\ ~Ended(p) /\ \E sig \in pending[p] : pending' = [pending EXCEPT ![p] = @ \ {sig}]
  /\ IF handler[p]
       THEN /\ flag' = [flag EXCEPT ![p] = TRUE]
            /\ IF pc[p] = "pause" /\ ~flag[p] THEN Goto(p, "test") ELSE UNCHANGED pc
            /\ missed' = IF pc[p] = "call" /\ ~flag[p] THEN missed \cup {p} ELSE missed
       ELSE Goto(p, "killed") /\ UNCHANGED <<flag, missed>>
  /\ UNCHANGED <<handler, ready, got, alarm, keys>>

\* A signal reaches its process: the handler raises the flag, and pause returns
\* if the process is in it.  Without a handler the signal ends the process.
Handle(p) ==
  /\ ~Ended(p) /\ \E sig \in pending[p] : pending' = [pending EXCEPT ![p] = @ \ {sig}]
  /\ IF handler[p]
       THEN /\ flag' = [flag EXCEPT ![p] = TRUE]
            /\ IF pc[p] = "pause" THEN Goto(p, "test") ELSE UNCHANGED pc
            /\ missed' = IF pc[p] = "call" /\ ~flag[p] THEN missed \cup {p} ELSE missed
       ELSE Goto(p, "killed") /\ UNCHANGED <<flag, missed>>
  /\ UNCHANGED <<handler, ready, got, alarm, keys>>

\* while (!*flag) pause(): the flag is tested, and then pause is called.  A
\* pause that finds a signal pending returns at once, which Handle models.
WaitFlag(p, next) ==
  /\ \/ pc[p] = "test" /\ Goto(p, IF flag[p] THEN next ELSE "call")
     \/ At(p, "call", "pause")
  /\ UNCHANGED <<pending, flag, handler, ready, got, alarm, keys, missed>>

-----------------------------------------------------------------------------

SetHandler(c) ==
  /\ At(c, "born", "handling")
  /\ handler' = [handler EXCEPT ![c] = TRUE]
  /\ UNCHANGED <<pending, flag, ready, got, alarm, keys, missed>>

Report(c) ==
  /\ At(c, "handling", "test")
  /\ ready' = ready + 1
  /\ UNCHANGED <<pending, flag, handler, got, alarm, keys, missed>>

Child(c) == SetHandler(c) \/ Report(c) \/ WaitFlag(c, "exited")

-----------------------------------------------------------------------------

Fork ==
  /\ \/ pc["parent"] = "fork1" /\ pc' = [pc EXCEPT !["parent"] = "fork2", !["child1"] = "born"]
     \/ pc["parent"] = "fork2" /\ pc' = [pc EXCEPT !["parent"] = "read", !["child2"] = "born"]
  /\ UNCHANGED <<pending, flag, handler, ready, got, alarm, keys, missed>>

\* Mutant: one byte is enough.
ReadOneByte ==
  /\ pc["parent"] = "read" /\ ready > 0
  /\ ready' = 0 /\ got' = got + ready
  /\ Goto("parent", "test")
  /\ UNCHANGED <<pending, flag, handler, alarm, keys, missed>>

\* read blocks until a byte is there and takes as many as there are; a signal
\* restarts it.  The parent goes on when it has both.
Read ==
  /\ pc["parent"] = "read" /\ ready > 0
  /\ ready' = 0 /\ got' = got + ready
  /\ IF got' = 2 THEN Goto("parent", "test") ELSE UNCHANGED pc
  /\ UNCHANGED <<pending, flag, handler, alarm, keys, missed>>

\* Mutant: both signals go to one child.
SignalSecond(c) == pending' = [pending EXCEPT !["child2"] = @ \cup {"SIGUSR"}]

Signal(c) == pending' = [pending EXCEPT ![c] = @ \cup {"SIGUSR"}]

\* Child 2 first, as in "17, then 16".
Kill ==
  /\ \/ At("parent", "kill2", "kill1") /\ Signal("child2")
     \/ At("parent", "kill1", "wait1") /\ Signal("child1")
  /\ UNCHANGED <<flag, handler, ready, got, alarm, keys, missed>>

WaitPid ==
  /\ \/ Ended("child1") /\ At("parent", "wait1", "wait2")
     \/ Ended("child2") /\ At("parent", "wait2", "exited")
  /\ UNCHANGED <<pending, flag, handler, ready, got, alarm, keys, missed>>

Parent == Fork \/ Read \/ WaitFlag("parent", "kill2") \/ Kill \/ WaitPid

Next ==
  \/ Key \/ Ring
  \/ \E p \in Processes : Handle(p)
  \/ \E c \in Children : Child(c)
  \/ Parent

\* The scheduler runs every process, a signal is handled at last, the alarm
\* rings.  Nobody has to press a key.
Spec ==
  /\ Init /\ [][Next]_vars
  /\ WF_vars(Ring) /\ WF_vars(Parent)
  /\ \A p \in Processes : WF_vars(Handle(p))
  /\ \A c \in Children : WF_vars(Child(c))

-----------------------------------------------------------------------------

\* No child is ended by the signal itself: the parent sends it only after the
\* child has set its handler, whatever the keys and the alarm do meanwhile.
NobodyKilled == \A p \in Processes : pc[p] # "killed"

AllEnded == \A p \in Processes : pc[p] = "exited"

\* Everybody ends, unless a signal was handled after a test of the flag and
\* before the pause that follows it (softint.c:68).
EndsUnlessMissed == <>(AllEnded \/ missed # {})

\* A parent that missed a key does not wait for ever: the alarm wakes it while
\* it is still to ring.
AlarmWakes == (pc["parent"] = "pause" /\ alarm) ~> (pc["parent"] = "kill2")

\* softint.c:11-12: after at most 5 seconds a trigger comes, and then children
\* and parent end.
Finishes == <>AllEnded
=============================================================================
