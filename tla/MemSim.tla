------------------------------- MODULE MemSim -------------------------------
(***************************************************************************)
(* The memory allocation simulator of project2 (memsim.c): areas of        *)
(* memory, free or allocated to a process, under first, best or worst fit, *)
(* with compaction.  An action is a choice from the menu, or a turn of the *)
(* loop that merges free blocks.                                           *)
(*                                                                         *)
(* A list is the set of its blocks: the code leaves the free list sorted   *)
(* by rearrange after each operation, so the set and the order it was last *)
(* sorted by ("order") are the list; the allocated list's order is only    *)
(* displayed.                                                              *)
(*                                                                         *)
(* malloc may fail where the code tests for it, MaxFails times.            *)
(***************************************************************************)
EXTENDS Integers, FiniteSetsExt

CONSTANTS
  Sizes,        \* the memory sizes a user enters; the default is one of them
  DefaultSize,
  Requests,     \* the sizes a user asks for
  Slices,       \* the values of MIN_SLICE
  MaxPids,      \* bound on the requests
  MaxFails      \* bound on the failing calls of malloc

ASSUME SizesAssumption ==
  /\ Sizes \subseteq Nat \ {0} /\ DefaultSize \in Sizes
  /\ Requests \subseteq Nat \ {0}
  /\ Slices \subseteq Nat

VARIABLES
  free,           \* the free blocks, [start, size]
  order,          \* the algorithm they were last sorted for
  cur,            \* the start of the block the loop of merge_free_adjacent is at
  allocs,         \* the allocated blocks, [pid, start, size]
  mem_size, ma_algorithm, pid_seq, lock_set_size, MIN_SLICE, AUTO_COMPACT,
  fails,          \* failing calls of malloc so far
  lossy,          \* history: one lost memory, and no list was rebuilt since
  reply           \* to the last request: what was asked, what was got

lists == <<free, order, allocs>>        \* and cur, which only a kill and the loop change
settings == <<mem_size, ma_algorithm, lock_set_size, MIN_SLICE, AUTO_COMPACT>>
vars == <<lists, cur, settings, pid_seq, fails, lossy, reply>>

NULL == -1      \* no loop is running

NoReply == [asked |-> 0, got |-> 0]

Area(start, end) == [start |-> start, size |-> end - start]
End(b) == b.start + b.size
Ends(S) == {End(b) : b \in S}
Starts(S) == {b.start : b \in S}

MallocFails == fails < MaxFails /\ fails' = fails + 1

-----------------------------------------------------------------------------

\* sort_free_by_addr, sort_free_by_size_asc, sort_free_by_size_desc.
Before(alg, a, b) ==
  CASE alg = "FF" -> a.start < b.start
    [] alg = "BF" -> a.size < b.size \/ (a.size = b.size /\ a.start < b.start)
    [] alg = "WF" -> a.size > b.size \/ (a.size = b.size /\ a.start < b.start)

\* The blocks of the list F that are large enough, and the first of them.
Fitting(F, n) == {b \in F : b.size >= n}
FirstFitting(F, ord, n) ==
  {b \in Fitting(F, n) : \A c \in Fitting(F, n) \ {b} : Before(ord, b, c)}

\* Mutant: the remainder begins where the block began.
CutAtStart(F, b, got) ==
  (F \ {b}) \cup (IF got = b.size THEN {} ELSE {[b EXCEPT !.size = @ - got]})

\* What is left of F when got of block b is taken.
Cut(F, b, got) ==
  (F \ {b}) \cup (IF got = b.size THEN {} ELSE {Area(b.start + got, End(b))})

\* A remainder below MIN_SLICE goes to the process.
Granted(b, n) == IF b.size - n < MIN_SLICE THEN b.size ELSE n

\* The next block of the list F, sorted by address, after c.
NextInList(F, c) ==
  {v \in F : c.start < v.start /\ \A w \in F : c.start < w.start => v.start <= w.start}

\* compact_memory moves every block down to the end of the one before it.
Packings(A) ==
  {to \in [A -> 0 .. mem_size] :
     /\ \A a \in A : to[a] <= a.start
     /\ \A a \in A : to[a] \in {0} \cup {to[b] + b.size : b \in A}
     /\ \A a, b \in A : a.start < b.start => to[a] + a.size <= to[b]}

Packed(A, to) == {[a EXCEPT !.start = to[a]] : a \in A}

\* All the memory behind the last block of A.
Tail(A) ==
  {Area(top, mem_size) : top \in
     {e \in Ends(A) \cup {0} : e < mem_size /\ \A a \in A : End(a) <= e}}

sum_free_memory(F) == MapThenSumSet(LAMBDA b : b.size, F)

-----------------------------------------------------------------------------

Init ==
  /\ mem_size = DefaultSize
  /\ \/ free = {Area(0, DefaultSize)} /\ fails = 0 /\ lossy = FALSE
     \/ free = {} /\ fails = 1 /\ lossy = TRUE
  /\ order = "FF" /\ cur = NULL /\ allocs = {}
  /\ ma_algorithm = "FF" /\ pid_seq = 0 /\ lock_set_size = FALSE
  /\ MIN_SLICE \in Slices /\ AUTO_COMPACT = TRUE
  /\ reply = NoReply

set_mem_size(size) ==
  /\ ~lock_set_size
  /\ mem_size' = size
  /\ \/ free' = {Area(0, size)} /\ lossy' = FALSE /\ UNCHANGED fails
     \/ free = {} /\ MallocFails /\ UNCHANGED <<free, lossy>>
  /\ reply' = NoReply
  /\ UNCHANGED <<order, allocs, ma_algorithm, lock_set_size, MIN_SLICE, AUTO_COMPACT, pid_seq>>

set_algorithm(alg) ==
  /\ ma_algorithm' = alg /\ order' = alg
  /\ lock_set_size' = TRUE /\ reply' = NoReply
  /\ UNCHANGED <<free, allocs, mem_size, MIN_SLICE, AUTO_COMPACT, pid_seq, fails, lossy>>

set_min_slice(v) ==
  /\ MIN_SLICE' = v /\ reply' = NoReply
  /\ UNCHANGED <<lists, mem_size, ma_algorithm, lock_set_size, AUTO_COMPACT, pid_seq, fails, lossy>>

toggle_auto_compact ==
  /\ AUTO_COMPACT' = ~AUTO_COMPACT /\ reply' = NoReply
  /\ UNCHANGED <<lists, mem_size, ma_algorithm, lock_set_size, MIN_SLICE, pid_seq, fails, lossy>>

\* Every call of new_process that gets a control block uses up a number.
NextPid == pid_seq < MaxPids /\ pid_seq' = pid_seq + 1

new_process_invalid ==
  /\ NextPid /\ reply' = NoReply
  /\ UNCHANGED <<lists, settings, fails, lossy>>

\* The process gets its memory from the free list F, sorted by ord, while the
\* allocated list is A.
AllocateFrom(F, ord, A, n) ==
  \E b \in FirstFitting(F, ord, n) : \E got \in {Granted(b, n)} :
    /\ free' = Cut(F, b, got)
    /\ allocs' = A \cup {[pid |-> pid_seq', start |-> b.start, size |-> got]}
    /\ order' = ma_algorithm
    /\ lock_set_size' = TRUE
    /\ reply' = [asked |-> n, got |-> got]
    /\ UNCHANGED <<mem_size, ma_algorithm, MIN_SLICE, AUTO_COMPACT>>

new_process(n) ==
  /\ NextPid /\ Fitting(free, n) # {}
  /\ AllocateFrom(free, order, allocs, n)
  /\ UNCHANGED <<fails, lossy>>

\* Mutant: no compaction for the last unit.
WorthCompactingMore(n) == AUTO_COMPACT /\ sum_free_memory(free) > n

\* No single block is enough: is compaction on, and enough memory free?
WorthCompacting(n) == AUTO_COMPACT /\ sum_free_memory(free) >= n

\* Mutant: compacts whenever it is allowed to.
CompactEagerly(n) ==
  /\ NextPid /\ WorthCompacting(n)
  /\ \E to \in Packings(allocs) :
       AllocateFrom(Tail(Packed(allocs, to)), ma_algorithm, Packed(allocs, to), n)
  /\ lossy' = FALSE /\ UNCHANGED fails

\* compact_memory, and allocate_mem again.
new_process_compacts(n) ==
  /\ NextPid /\ Fitting(free, n) = {} /\ WorthCompacting(n)
  /\ \E to \in Packings(allocs) :
       AllocateFrom(Tail(Packed(allocs, to)), ma_algorithm, Packed(allocs, to), n)
  /\ lossy' = FALSE /\ UNCHANGED fails

\* compact_memory has moved the processes and freed the list when malloc fails.
new_process_compaction_fails(n) ==
  /\ NextPid /\ Fitting(free, n) = {} /\ WorthCompacting(n)
  /\ \E to \in Packings(allocs) : allocs' = Packed(allocs, to)
  /\ free' = {} /\ MallocFails /\ lossy' = TRUE
  /\ reply' = [asked |-> n, got |-> 0]
  /\ UNCHANGED <<order, settings>>

new_process_refused(n) ==
  /\ NextPid /\ Fitting(free, n) = {} /\ ~WorthCompacting(n)
  /\ reply' = [asked |-> n, got |-> 0]
  /\ UNCHANGED <<lists, settings, fails, lossy>>

\* free_mem up to the merge, and dispose, which takes the process off the other
\* list.  When free_mem cannot get a list node, dispose forgets the block all the same.
kill_process(a) ==
  /\ allocs' = allocs \ {a}
  /\ \/ /\ free' = free \cup {Area(a.start, End(a))} /\ order' = "FF"
        /\ \E c \in free' : cur' = c.start /\ \A d \in free' : c.start <= d.start
        /\ UNCHANGED <<fails, lossy>>
     \/ MallocFails /\ lossy' = TRUE /\ UNCHANGED <<free, order, cur>>
  /\ lock_set_size' = TRUE /\ reply' = NoReply
  /\ UNCHANGED <<mem_size, ma_algorithm, MIN_SLICE, AUTO_COMPACT, pid_seq>>

\* Mutant: the block keeps its size.
SwallowKeepsSize(c, v) ==
  /\ End(c) = v.start
  /\ free' = free \ {v} /\ UNCHANGED <<order, cur>>

\* Mutant: the loop moves on after a merge, too.
SwallowAndMoveOn(c, v) ==
  /\ End(c) = v.start
  /\ free' = (free \ {c, v}) \cup {Area(c.start, End(v))}
  /\ LET rest == NextInList(free, v)
     IN  cur' = IF rest = {} THEN c.start ELSE Min(Starts(rest))
  /\ UNCHANGED order

\* One turn of the loop of merge_free_adjacent, at block c with block v next: c
\* swallows v and the loop stays there,
Swallow(c, v) ==
  /\ End(c) = v.start
  /\ free' = (free \ {c, v}) \cup {Area(c.start, End(v))} /\ UNCHANGED <<order, cur>>

\* or it moves on.
MoveOn(c, v) == End(c) # v.start /\ cur' = v.start /\ UNCHANGED <<free, order>>

\* Mutant: the list stays sorted by address.
LeaveAddrOrder == cur' = NULL /\ UNCHANGED <<free, order>>

\* The loop has ended, free_mem sorts the list for the algorithm chosen.
rearrange == cur' = NULL /\ order' = ma_algorithm /\ UNCHANGED free

merge_free_adjacent ==
  /\ \E c \in free :
       /\ c.start = cur
       /\ \/ \E v \in NextInList(free, c) : Swallow(c, v) \/ MoveOn(c, v)
          \/ NextInList(free, c) = {} /\ rearrange
  /\ UNCHANGED <<allocs, settings, pid_seq, fails, lossy, reply>>

Choice ==
  \/ \E size \in Sizes : set_mem_size(size)
  \/ \E alg \in {"FF", "BF", "WF"} : set_algorithm(alg)
  \/ \E v \in Slices : set_min_slice(v)
  \/ toggle_auto_compact
  \/ new_process_invalid
  \/ \E n \in Requests : \/ new_process(n)
                         \/ new_process_compacts(n)
                         \/ new_process_compaction_fails(n)
                         \/ new_process_refused(n)

Next ==
  \/ cur = NULL /\ Choice /\ UNCHANGED cur
  \/ cur = NULL /\ \E a \in allocs : kill_process(a)
  \/ merge_free_adjacent

Spec == Init /\ [][Next]_vars

-----------------------------------------------------------------------------

Block == [start : Nat, size : Nat \ {0}]

TypeOK ==
  /\ free \subseteq Block
  /\ allocs \subseteq [pid : 1 .. pid_seq, start : Nat, size : Nat \ {0}]
  /\ order \in {"FF", "BF", "WF"} /\ ma_algorithm \in {"FF", "BF", "WF"}
  /\ mem_size \in Sizes /\ pid_seq \in Nat /\ MIN_SLICE \in Nat
  /\ lock_set_size \in BOOLEAN /\ AUTO_COMPACT \in BOOLEAN /\ lossy \in BOOLEAN
  /\ fails \in Nat /\ cur \in {NULL} \cup Starts(free)

Apart(a, b) == End(a) <= b.start \/ End(b) <= a.start

\* No unit of memory has two owners, none lies outside of memory, and no two
\* processes have one number, whatever was allocated, freed, merged and compacted,
\* and also after malloc failed.
Disjoint ==
  /\ \A b \in free \cup allocs : End(b) <= mem_size
  /\ \A a, b \in free : a # b => Apart(a, b)
  /\ \A a, b \in allocs : a # b => Apart(a, b) /\ a.pid # b.pid
  /\ \A a \in free, b \in allocs : Apart(a, b)

\* Every unit is free or a process's, unless malloc failed in kill_process or
\* compact_memory (memsim.c:283, 260); the next compaction finds it again.
NothingLost ==
  ~lossy => \A x \in 0 .. mem_size - 1 :
              \E b \in free \cup allocs : b.start <= x /\ x < End(b)

\* When the loop of merge_free_adjacent has ended, and ever after until the next
\* kill, no two free blocks touch: one pass merges all neighbours, also both around
\* a block that is freed between them.
Coalesced == cur = NULL => \A a, b \in free : End(a) # b.start

\* The first block that fits is the one the chosen algorithm means: the lowest,
\* the smallest, the largest.  (While the loop runs nothing is allocated.)
FirstIsBest == cur = NULL =>
  \A n \in Requests : \A b \in FirstFitting(free, order, n), c \in Fitting(free, n) :
    /\ ma_algorithm = "FF" => b.start <= c.start
    /\ ma_algorithm = "BF" => b.size <= c.size
    /\ ma_algorithm = "WF" => b.size >= c.size

\* A process is moved only for a request that no single block could satisfy,
\* only downwards, and keeps its size.
MovedOnlyByNeed ==
  [][\A a \in allocs, b \in allocs' :
       a.pid = b.pid /\ a # b =>
         /\ b.size = a.size /\ b.start < a.start
         /\ AUTO_COMPACT /\ reply'.asked > 0
         /\ \A c \in free : c.size < reply'.asked]_vars

\* memsim.c keeps the promises of MemoryPool: with compaction a request is
\* refused only when less memory than that is free.
HeldBy(p) == (CHOOSE a \in allocs : a.pid = p).size
Pool == INSTANCE MemoryPool WITH
          Capacities <- Sizes, capacity <- mem_size, seq <- pid_seq,
          held <- [p \in {a.pid : a \in allocs} |-> HeldBy(p)],
          slice <- MIN_SLICE, compacting <- AUTO_COMPACT
Implements == Pool!Spec
=============================================================================
