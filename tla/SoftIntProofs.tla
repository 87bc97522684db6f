--------------------------- MODULE SoftIntProofs ---------------------------
(***************************************************************************)
(* No process of the soft interrupt program is ended by a signal, however  *)
(* many keys are pressed and whenever the alarm rings.  The argument       *)
(* follows the bytes of ready_pipe: a child writes its byte after it has   *)
(* set its handler, and the parent signals after it has read two.          *)
(***************************************************************************)
EXTENDS SoftInt, TLAPS

\* Where the child has written its byte, and where the parent has read both.
Reported(c) == pc[c] \in {"test", "call", "pause", "exited"}
Afterwards == {"test", "call", "pause", "kill2", "kill1", "wait1", "wait2", "exited"}
Byte(c) == IF Reported(c) THEN 1 ELSE 0

Types ==
  /\ pc \in [Processes -> {"unborn", "born", "handling", "fork1", "fork2", "read"} \cup Afterwards]
  /\ pending \in [Processes -> SUBSET {"SIGINT", "SIGQUIT", "SIGALRM", "SIGUSR"}]
  /\ flag \in [Processes -> BOOLEAN] /\ handler \in [Processes -> BOOLEAN]
  /\ ready \in Nat /\ got \in Nat

\* A child begins when it is forked, and sets its handler before anything else.
HandlerFirst ==
  /\ handler["parent"]
  /\ \A c \in Children :
       /\ pc[c] \in {"unborn", "born", "handling"} \/ Reported(c)
       /\ pc[c] \notin {"unborn", "born"} => handler[c]
  /\ pc["parent"] = "fork1" => pc["child1"] = "unborn"
  /\ pc["parent"] \in {"fork1", "fork2"} => pc["child2"] = "unborn"

\* A byte of the pipe is a child that has reported, and the parent needs two.
BothBytes ==
  /\ ready + got = Byte("child1") + Byte("child2")
  /\ pc["parent"] \in {"fork1", "fork2", "read"} \cup Afterwards
  /\ pc["parent"] \in Afterwards => got = 2

\* A child is signalled when the parent has read both bytes.
SignalledLate == \A c \in Children : pending[c] # {} => pc["parent"] \in Afterwards

IInv == Types /\ HandlerFirst /\ BothBytes /\ SignalledLate

-----------------------------------------------------------------------------

\* A process with a signal pending has a handler for it.
LEMMA PendingHandled ==
  ASSUME IInv, NEW p \in Processes, pending[p] # {}
  PROVE  handler[p]
<1>1. CASE p = "parent"
  BY <1>1 DEF IInv, HandlerFirst
<1>2. CASE p \in Children
  <2>1. got = 2 /\ ready >= 0
    BY <1>2 DEF IInv, SignalledLate, BothBytes, Types
  <2>2. Reported("child1") /\ Reported("child2")
    BY <2>1 DEF IInv, BothBytes, Byte, Types
  <2> QED
    BY <1>2, <2>2 DEF IInv, HandlerFirst, Reported, Children
<1> QED
  BY <1>1, <1>2 DEF Processes

\* The program begins with its handlers set and nobody forked.
LEMMA InitEstablishes == Init => IInv
<1> SUFFICES ASSUME Init PROVE IInv
  OBVIOUS
<1>1. \A p \in Processes : (p = "parent") \in BOOLEAN
  BY Zenon
<1>2. handler \in [Processes -> BOOLEAN]
  BY <1>1, Zenon DEF Init
<1>3. Types
  BY <1>2 DEF Init, Types
<1>4. HandlerFirst /\ BothBytes /\ SignalledLate
  BY DEF Init, HandlerFirst, BothBytes, SignalledLate, Byte, Reported,
         Processes, Children, Afterwards
<1> QED
  BY <1>3, <1>4 DEF IInv

\* The handler moves its process only from pause to test.
LEMMA HandlePreserves ==
  ASSUME IInv, NEW p \in Processes, Handle(p)
  PROVE  IInv'
<1>1. handler[p]
  BY PendingHandled DEF Handle
<1>2. /\ pc' = pc \/ (pc[p] = "pause" /\ pc' = [pc EXCEPT ![p] = "test"])
      /\ flag' = [flag EXCEPT ![p] = TRUE]
      /\ handler' = handler /\ ready' = ready /\ got' = got
  BY <1>1 DEF Handle, Goto
<1>3. PICK sig \in pending[p] : pending' = [pending EXCEPT ![p] = @ \ {sig}]
  BY DEF Handle
<1>4. Types'
  BY <1>2, <1>3 DEF IInv, Types, Afterwards
<1>5. /\ \A q \in Processes : pc'[q] = pc[q] \/ (pc[q] = "pause" /\ pc'[q] = "test")
  BY <1>2 DEF IInv, Types
<1>6. \A c \in Children : Reported(c)' = Reported(c) /\ Byte(c)' = Byte(c)
  BY <1>5 DEF Reported, Byte, Processes
<1>7. HandlerFirst'
  BY <1>2, <1>5, <1>6 DEF IInv, HandlerFirst, Processes, Children, Reported
<1>8. BothBytes'
  BY <1>2, <1>5, <1>6 DEF IInv, BothBytes, Processes, Children, Afterwards
<1>9. SignalledLate'
  BY <1>3, <1>5 DEF IInv, SignalledLate, Types, Processes, Children, Afterwards
<1> QED
  BY <1>4, <1>7, <1>8, <1>9 DEF IInv

\* Waiting for a flag keeps a child among those that have reported, and a
\* parent among its later steps.
LEMMA WaitFlagPreserves ==
  ASSUME IInv, NEW p \in Processes, NEW next \in {"exited", "kill2"},
         p = "parent" <=> next = "kill2", WaitFlag(p, next)
  PROVE  IInv'
<1>1. PICK l \in {"call", "pause", next} : pc' = [pc EXCEPT ![p] = l]
  BY DEF WaitFlag, At, Goto
<1>2. pc[p] \in {"test", "call"} /\ UNCHANGED <<pending, flag, handler, ready, got>>
  BY DEF WaitFlag, At
<1>3. Types'
  BY <1>1, <1>2 DEF IInv, Types, Afterwards
<1>4. \A q \in Processes : pc'[q] = IF q = p THEN l ELSE pc[q]
  BY <1>1 DEF IInv, Types
<1>5. \A c \in Children : Reported(c)' = Reported(c) /\ Byte(c)' = Byte(c)
  BY <1>1, <1>2, <1>4 DEF Reported, Byte, Processes, Children
<1>6. HandlerFirst'
  BY <1>1, <1>2, <1>4, <1>5 DEF IInv, HandlerFirst, Processes, Children, Reported
<1>7. BothBytes'
  BY <1>1, <1>2, <1>4, <1>5 DEF IInv, BothBytes, Processes, Children, Afterwards
<1>8. SignalledLate'
  BY <1>1, <1>2, <1>4 DEF IInv, SignalledLate, Processes, Children, Afterwards
<1> QED
  BY <1>3, <1>6, <1>7, <1>8 DEF IInv

\* Every step of the program keeps the invariant.
LEMMA NextPreserves ==
  ASSUME IInv, [Next]_vars
  PROVE  IInv'
<1> USE DEF IInv, At, Goto
<1>1. CASE Key \/ Ring
  <2>1. /\ pc' = pc /\ flag' = flag /\ handler' = handler /\ ready' = ready /\ got' = got
        /\ \E sig \in {"SIGINT", "SIGQUIT", "SIGALRM"} :
             pending' = [pending EXCEPT !["parent"] = @ \cup {sig}]
    BY <1>1 DEF Key, Ring
  <2>2. Types'
    BY <2>1 DEF Types
  <2>3. SignalledLate'
    BY <2>1 DEF SignalledLate, Types, Processes, Children
  <2> QED
    BY <2>1, <2>2, <2>3 DEF HandlerFirst, BothBytes, Byte, Reported
<1>2. CASE \E p \in Processes : Handle(p)
  BY <1>2, HandlePreserves
<1>3. CASE \E c \in Children : SetHandler(c)
  <2>1. PICK c \in Children : SetHandler(c)
    BY <1>3
  <2>2. /\ pc[c] = "born" /\ pc' = [pc EXCEPT ![c] = "handling"]
        /\ handler' = [handler EXCEPT ![c] = TRUE]
        /\ UNCHANGED <<pending, flag, ready, got>>
    BY <2>1 DEF SetHandler
  <2>3. Types'
    BY <2>2 DEF Types, Processes
  <2>4. HandlerFirst' /\ BothBytes' /\ SignalledLate'
    BY <2>2 DEF Types, HandlerFirst, BothBytes, SignalledLate, Byte, Reported,
                Processes, Children, Afterwards
  <2> QED
    BY <2>3, <2>4
<1>4. CASE \E c \in Children : Report(c)
  <2>1. PICK c \in Children : Report(c)
    BY <1>4
  <2>2. /\ pc[c] = "handling" /\ pc' = [pc EXCEPT ![c] = "test"] /\ ready' = ready + 1
        /\ UNCHANGED <<pending, flag, handler, got>>
    BY <2>1 DEF Report
  <2>3. Types'
    BY <2>2 DEF Types, Processes, Afterwards
  <2>4. HandlerFirst' /\ BothBytes' /\ SignalledLate'
    BY <2>2 DEF Types, HandlerFirst, BothBytes, SignalledLate, Byte, Reported,
                Processes, Children, Afterwards
  <2> QED
    BY <2>3, <2>4
<1>5. CASE \/ \E c \in Children : WaitFlag(c, "exited")
           \/ WaitFlag("parent", "kill2")
  BY <1>5, WaitFlagPreserves DEF Processes, Children
<1>6. CASE Fork
  <2>1. \E to \in {"fork2", "read"}, c \in Children :
          /\ pc["parent"] = IF to = "fork2" THEN "fork1" ELSE "fork2"
          /\ c = IF to = "fork2" THEN "child1" ELSE "child2"
          /\ pc' = [pc EXCEPT !["parent"] = to, ![c] = "born"]
    BY <1>6 DEF Fork, Children
  <2>2. UNCHANGED <<pending, flag, handler, ready, got>>
    BY <1>6 DEF Fork
  <2>3. Types'
    BY <2>1, <2>2 DEF Types, Processes
  <2>4. HandlerFirst' /\ BothBytes' /\ SignalledLate'
    BY <2>1, <2>2 DEF Types, HandlerFirst, BothBytes, SignalledLate, Byte, Reported,
                      Processes, Children, Afterwards
  <2> QED
    BY <2>3, <2>4
<1>7. CASE Read
  <2>1. /\ pc["parent"] = "read" /\ ready' = 0 /\ got' = got + ready
        /\ pc' = IF got' = 2 THEN [pc EXCEPT !["parent"] = "test"] ELSE pc
        /\ UNCHANGED <<pending, flag, handler>>
    BY <1>7 DEF Read
  <2>2. Types'
    BY <2>1 DEF Types, Processes, Afterwards
  <2>3. \A c \in Children : pc'[c] = pc[c]
    BY <2>1 DEF Types, Processes, Children
  <2>4. HandlerFirst' /\ SignalledLate'
    BY <2>1, <2>3 DEF Types, HandlerFirst, SignalledLate, Reported,
                      Processes, Children, Afterwards
  <2>5. BothBytes'
    BY <2>1, <2>3 DEF Types, BothBytes, Byte, Reported, Processes, Children, Afterwards
  <2> QED
    BY <2>2, <2>4, <2>5
<1>8. CASE Kill
  <2>1. \E c \in Children : pending' = [pending EXCEPT ![c] = @ \cup {"SIGUSR"}]
    BY <1>8 DEF Kill, Signal, Children
  <2>2. \E l \in {"kill1", "wait1"} : pc' = [pc EXCEPT !["parent"] = l]
    BY <1>8 DEF Kill
  <2>3. pc["parent"] \in {"kill2", "kill1"} /\ UNCHANGED <<flag, handler, ready, got>>
    BY <1>8 DEF Kill
  <2>4. Types'
    BY <2>1, <2>2, <2>3 DEF Types, Processes, Children, Afterwards
  <2>5. HandlerFirst' /\ BothBytes'
    BY <2>2, <2>3 DEF Types, HandlerFirst, BothBytes, Byte, Reported,
                      Processes, Children, Afterwards
  <2>6. SignalledLate'
    BY <2>2 DEF Types, SignalledLate, Processes, Children, Afterwards
  <2> QED
    BY <2>4, <2>5, <2>6
<1>9. CASE WaitPid
  <2>1. \E l \in {"wait2", "exited"} : pc' = [pc EXCEPT !["parent"] = l]
    BY <1>9 DEF WaitPid
  <2>2. pc["parent"] \in {"wait1", "wait2"} /\ UNCHANGED <<pending, flag, handler, ready, got>>
    BY <1>9 DEF WaitPid
  <2>3. Types'
    BY <2>1, <2>2 DEF Types, Processes, Afterwards
  <2>4. HandlerFirst' /\ BothBytes' /\ SignalledLate'
    BY <2>1, <2>2 DEF Types, HandlerFirst, BothBytes, SignalledLate, Byte, Reported,
                      Processes, Children, Afterwards
  <2> QED
    BY <2>3, <2>4
<1>10. CASE UNCHANGED vars
  BY <1>10 DEF vars, Types, HandlerFirst, BothBytes, SignalledLate, Byte, Reported
<1> QED
  BY <1>1, <1>2, <1>3, <1>4, <1>5, <1>6, <1>7, <1>8, <1>9, <1>10
  DEF Next, Child, Parent

\* The invariant leaves no process ended by a signal.
LEMMA IInvImplies == IInv => NobodyKilled
BY DEF IInv, Types, NobodyKilled, Afterwards

\* However many keys are pressed, and whenever they and the alarm come, no child
\* is ended by the signal it waits for and the parent by none: the handler is
\* always set before the first signal arrives.
THEOREM NobodyKilledHolds == Spec => []NobodyKilled
<1>1. Spec => []IInv
  BY InitEstablishes, NextPreserves, PTL DEF Spec
<1> QED
  BY <1>1, IInvImplies, PTL
=============================================================================
