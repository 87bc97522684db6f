---------------------------- MODULE MemSimProofs ----------------------------
(***************************************************************************)
(* memsim.c never hands out a unit of memory twice, and it is the pool     *)
(* that MemoryPool describes, for every size of memory, every request,     *)
(* every MIN_SLICE, and malloc failing at any of its calls.                *)
(***************************************************************************)
EXTENDS MemSim, SetLemmas, TLAPS

Records == [pid : Nat, start : Nat, size : Nat \ {0}]

\* Lists F and A that share a memory of m units, each unit at most once.
Sound(F, A, m) ==
  /\ F \subseteq Block /\ A \subseteq Records
  /\ \A b \in F \cup A : End(b) <= m
  /\ \A a, b \in F : a # b => Apart(a, b)
  /\ \A a, b \in A : a # b => Apart(a, b) /\ a.pid # b.pid
  /\ \A a \in F, b \in A : Apart(a, b)

Untouching(F) == \A a, b \in F : End(a) # b.start

\* Before the first allocation there is nothing to protect; set_mem_size may
\* build the free list anew.
EmptyUntilLocked == ~lock_set_size => allocs = {}

\* What the loop of merge_free_adjacent has done so far: no block that it has passed
\* touches another, and when it is not running, no block at all.
Passed == \A a, b \in free : (cur = NULL \/ a.start < cur) => End(a) # b.start

IInv == TypeOK /\ Sound(free, allocs, mem_size) /\ Passed /\ EmptyUntilLocked

LEMMA InvImplies == IInv => TypeOK /\ Disjoint /\ Coalesced
  BY DEF IInv, Sound, Disjoint, Passed, Coalesced

LEMMA Resting == cur = NULL => (Passed <=> Untouching(free))
  BY DEF Passed, Untouching

-----------------------------------------------------------------------------

\* Taking the lower part of a free block for a process.
LEMMA CutSound ==
  ASSUME NEW F, NEW A, NEW m \in Nat, Sound(F, A, m), Untouching(F),
         NEW b \in F, NEW got \in 1 .. b.size, NEW p \in Nat,
         \A a \in A : a.pid # p
  PROVE  /\ Sound(Cut(F, b, got), A \cup {[pid |-> p, start |-> b.start, size |-> got]}, m)
         /\ Untouching(Cut(F, b, got))
<1> DEFINE new == [pid |-> p, start |-> b.start, size |-> got]
           rest == Area(b.start + got, End(b))
<1>1. b \in Block /\ b.start \in Nat /\ b.size \in Nat \ {0} /\ End(b) = b.start + b.size
  BY DEF Sound, Block, End
<1>2. new \in Records /\ new.start = b.start /\ End(new) = b.start + got /\ End(new) <= End(b)
  BY <1>1 DEF Records, End
<1>3. got # b.size => rest \in Block /\ rest.start = b.start + got /\ End(rest) = End(b)
  <2>1. rest = [start |-> b.start + got, size |-> b.size - got]
    BY <1>1 DEF Area
  <2>2. got # b.size => b.size - got \in Nat \ {0}
    BY <1>1
  <2> QED
    BY <1>1, <2>1, <2>2 DEF Block, End
<1>4. \A c \in Cut(F, b, got) : (c \in F /\ c # b) \/ (got # b.size /\ c = rest)
  BY DEF Cut
<1>5. \A c \in F : c \in Block /\ c.start \in Nat /\ c.size \in Nat \ {0} /\ End(c) = c.start + c.size
  BY DEF Sound, Block, End
<1>6. \A a \in A : a.start \in Nat /\ a.size \in Nat \ {0} /\ End(a) = a.start + a.size /\ Apart(b, a)
  BY DEF Sound, Records, End
<1>7. \A c \in F : c # b => Apart(b, c)
  BY DEF Sound
<1>8. \A c \in F : c # b => Apart(c, new) /\ (got # b.size => Apart(c, rest) /\ Apart(rest, c))
  BY <1>1, <1>2, <1>3, <1>5, <1>7 DEF Apart
<1>9. \A a \in A : Apart(new, a) /\ Apart(a, new) /\ (got # b.size => Apart(rest, a))
  BY <1>1, <1>2, <1>3, <1>6 DEF Apart
<1>10. got # b.size => Apart(rest, new)
  BY <1>1, <1>2, <1>3 DEF Apart
<1>11. Cut(F, b, got) \subseteq Block
  BY <1>3, <1>4, <1>5
<1>12. \A c \in Cut(F, b, got) \cup A \cup {new} : End(c) <= m
  BY <1>1, <1>2, <1>3, <1>4, <1>5 DEF Sound
<1>13. \A c, d \in Cut(F, b, got) : c # d => Apart(c, d)
  BY <1>4, <1>8 DEF Sound
<1>14. \A c \in Cut(F, b, got), a \in A \cup {new} : Apart(c, a)
  BY <1>4, <1>8, <1>9, <1>10 DEF Sound
<1>15. \A a, c \in A \cup {new} : a # c => Apart(a, c) /\ a.pid # c.pid
  BY <1>9 DEF Sound
<1>16. Untouching(Cut(F, b, got))
  <2> SUFFICES ASSUME NEW c \in Cut(F, b, got), NEW d \in Cut(F, b, got)
               PROVE  End(c) # d.start
    BY DEF Untouching
  <2>1. CASE c \in F /\ d \in F
    BY <2>1 DEF Untouching
  <2>2. CASE got # b.size /\ c = rest /\ d \in F
    BY <2>2, <1>3 DEF Untouching
  <2>3. CASE got # b.size /\ d = rest /\ c \in F /\ c # b
    BY <2>3, <1>1, <1>3, <1>5, <1>7 DEF Apart
  <2>4. CASE got # b.size /\ c = rest /\ d = rest
    BY <2>4, <1>1, <1>3
  <2> QED
    BY <1>4, <2>1, <2>2, <2>3, <2>4
<1>17. A \cup {new} \subseteq Records
  BY <1>2 DEF Sound
<1> QED
  BY <1>11, <1>12, <1>13, <1>14, <1>15, <1>16, <1>17 DEF Sound

-----------------------------------------------------------------------------

\* A block is known by its two ends.
LEMMA BlockEqual ==
  ASSUME NEW y \in Block, NEW z \in Block, y.start = z.start, End(y) = End(z)
  PROVE  y = z
<1>1. y.start \in Nat /\ y.size \in Nat /\ z.start \in Nat /\ z.size \in Nat
  BY DEF Block
<1>2. y.size = z.size
  BY <1>1 DEF End
<1>3. y = [start |-> y.start, size |-> y.size] /\ z = [start |-> z.start, size |-> z.size]
  BY DEF Block
<1> QED
  BY <1>2, <1>3

\* A freed block put into the free list.
LEMMA InsertSound ==
  ASSUME NEW F, NEW A, NEW m \in Nat, Sound(F, A, m), NEW a \in A
  PROVE  Sound(F \cup {Area(a.start, End(a))}, A \ {a}, m)
<1> DEFINE x == Area(a.start, End(a))
<1>1. a.start \in Nat /\ a.size \in Nat \ {0} /\ End(a) = a.start + a.size
  BY DEF Sound, Records, End
<1>2. x = [start |-> a.start, size |-> a.size]
  BY <1>1 DEF Area
<1>3. x \in Block /\ x.start = a.start /\ End(x) = End(a)
  BY <1>1, <1>2 DEF Block, End
<1> HIDE DEF x
<1>4. \A b : (Apart(b, a) <=> Apart(b, x)) /\ (Apart(a, b) <=> Apart(x, b))
  BY <1>3 DEF Apart
<1>5. \A b \in F : Apart(b, x) /\ Apart(x, b)
  BY <1>4 DEF Sound, Apart
<1>6. \A b \in A \ {a} : Apart(x, b)
  BY <1>4 DEF Sound
<1>7. End(x) <= m
  BY <1>3 DEF Sound
<1>8. F \cup {x} \subseteq Block /\ A \ {a} \subseteq Records
  BY <1>3 DEF Sound
<1>9. Sound(F \cup {x}, A \ {a}, m)
  BY <1>5, <1>6, <1>7, <1>8 DEF Sound
<1> QED
  BY <1>9 DEF x

\* Block c and the block v that begins where it ends, as one.
LEMMA SwallowSound ==
  ASSUME NEW F, NEW A, NEW m \in Nat, Sound(F, A, m),
         NEW c \in F, NEW v \in F, End(c) = v.start
  PROVE  /\ Sound((F \ {c, v}) \cup {Area(c.start, End(v))}, A, m)
         /\ Area(c.start, End(v)).start = c.start /\ End(Area(c.start, End(v))) = End(v)
<1> DEFINE y == Area(c.start, End(v))
           G == F \ {c, v}
<1>1. \A b \in F \cup A : b.start \in Nat /\ b.size \in Nat \ {0} /\ End(b) = b.start + b.size
  BY DEF Sound, Block, Records, End
<1>2. /\ c.start < v.start /\ v.start < End(v) /\ End(c) = v.start
      /\ c.start \in Nat /\ v.start \in Nat /\ End(v) \in Nat
  <2>1. /\ c.start \in Nat /\ c.size \in Nat \ {0} /\ v.start = c.start + c.size
        /\ v.start \in Nat /\ v.size \in Nat \ {0} /\ End(v) = v.start + v.size
    BY <1>1
  <2> QED
    BY <2>1
<1>3. y = [start |-> c.start, size |-> End(v) - c.start] /\ End(v) - c.start \in Nat \ {0}
  BY <1>2 DEF Area
<1>4. y \in Block /\ y.start = c.start /\ End(y) = End(v)
  BY <1>2, <1>3 DEF Block, End
<1> HIDE DEF y
<1>5. ASSUME NEW b \in F \cup A, Apart(b, c) \/ Apart(c, b), Apart(b, v) \/ Apart(v, b)
      PROVE  Apart(b, y) /\ Apart(y, b)
  <2>1. b.start < End(b) /\ b.start \in Nat /\ End(b) \in Nat
    BY <1>1
  <2>2. End(b) <= c.start \/ End(v) <= b.start
    BY <1>2, <1>5, <2>1 DEF Apart
  <2> QED
    BY <1>4, <2>2 DEF Apart
<1>6. \A b \in G : Apart(b, y) /\ Apart(y, b)
  BY <1>5 DEF Sound
<1>7. \A b \in A : Apart(y, b)
  BY <1>5 DEF Sound
<1>8. End(y) <= m
  BY <1>4 DEF Sound
<1>9. G \cup {y} \subseteq Block
  BY <1>4 DEF Sound
<1>10. Sound(G \cup {y}, A, m)
  BY <1>6, <1>7, <1>8, <1>9 DEF Sound
<1> QED
  BY <1>4, <1>10 DEF y

\* Two free blocks do not begin at one place.
LEMMA StartsDiffer ==
  ASSUME NEW F, NEW A, NEW m \in Nat, Sound(F, A, m), NEW b \in F, NEW c \in F,
         b.start = c.start
  PROVE  b = c
<1>1. \A d \in F : d.start \in Nat /\ d.size \in Nat \ {0} /\ End(d) = d.start + d.size
  BY DEF Sound, Block, End
<1> QED
  BY <1>1 DEF Sound, Apart

\* The block after c, if there is one above c.
LEMMA NextExists ==
  ASSUME NEW F, F \subseteq Block, NEW c \in F, NEW w \in F, c.start < w.start
  PROVE  NextInList(F, c) # {}
<1> DEFINE T == {u.start : u \in {d \in F : c.start < d.start}}
<1>1. T \subseteq Nat /\ w.start \in T
  BY DEF Block
<1>2. \A d \in F : c.start < d.start => d.start \in T
  OBVIOUS
<1>3. \A n \in T : \E d \in F : c.start < d.start /\ n = d.start
  OBVIOUS
<1> HIDE DEF T
<1>4. PICK n \in T : \A k \in T : n <= k
  BY <1>1, LeastElement
<1>5. PICK v \in F : c.start < v.start /\ n = v.start
  BY <1>3, <1>4
<1>6. v \in NextInList(F, c)
  BY <1>2, <1>4, <1>5 DEF NextInList
<1> QED
  BY <1>6

\* Compaction.
LEMMA PackSound ==
  ASSUME NEW A, mem_size \in Nat, Sound({}, A, mem_size), NEW to \in Packings(A)
  PROVE  /\ Sound({}, Packed(A, to), mem_size)
         /\ Sound(Tail(Packed(A, to)), Packed(A, to), mem_size)
         /\ Untouching(Tail(Packed(A, to)))
         /\ \A c \in Packed(A, to) : \E a \in A : c.pid = a.pid
<1> DEFINE P == Packed(A, to)
<1>1. \A a \in A : /\ a \in Records /\ a.start \in Nat /\ a.size \in Nat \ {0}
                    /\ a.pid \in Nat /\ End(a) = a.start + a.size /\ End(a) <= mem_size
  BY DEF Sound, Records, End
<1>2. \A a \in A : to[a] \in Nat /\ to[a] <= a.start
  BY DEF Packings
<1>3. \A a, b \in A : a.start < b.start => to[a] + a.size <= to[b]
  BY DEF Packings
<1>4. \A c \in P : \E a \in A : c = [pid |-> a.pid, start |-> to[a], size |-> a.size]
  BY <1>1 DEF Packed, Records
<1>5. \A c \in P : /\ c \in Records /\ c.start \in Nat /\ c.size \in Nat \ {0}
                    /\ End(c) = c.start + c.size /\ End(c) <= mem_size
  BY <1>1, <1>2, <1>4 DEF Records, End
<1>6. ASSUME NEW c \in P, NEW d \in P, c # d PROVE Apart(c, d) /\ c.pid # d.pid
  <2>1. PICK a \in A : c = [pid |-> a.pid, start |-> to[a], size |-> a.size]
    BY <1>4
  <2>2. PICK b \in A : d = [pid |-> b.pid, start |-> to[b], size |-> b.size]
    BY <1>4
  <2>3. a # b
    BY <1>6, <2>1, <2>2
  <2>4. Apart(a, b) /\ a.pid # b.pid
    BY <2>3 DEF Sound
  <2>5. a.start < b.start \/ b.start < a.start
    <3>1. /\ a.start \in Nat /\ a.size \in Nat \ {0} /\ End(a) = a.start + a.size
          /\ b.start \in Nat /\ b.size \in Nat \ {0} /\ End(b) = b.start + b.size
      BY <1>1
    <3>2. End(a) <= b.start \/ End(b) <= a.start
      BY <2>4 DEF Apart
    <3> QED
      BY <3>1, <3>2
  <2>6. End(c) = to[a] + a.size /\ End(d) = to[b] + b.size
    BY <2>1, <2>2 DEF End
  <2>7. End(c) <= d.start \/ End(d) <= c.start
    BY <1>3, <2>1, <2>2, <2>5, <2>6
  <2> QED
    BY <2>1, <2>2, <2>4, <2>7 DEF Apart
<1>7. \A c \in P : \E a \in A : c.pid = a.pid
  BY <1>4
<1>8. Sound({}, P, mem_size)
  BY <1>5, <1>6 DEF Sound
<1>9. \A t \in Tail(P) : \E e \in Ends(P) \cup {0} :
        t = Area(e, mem_size) /\ e < mem_size /\ \A c \in P : End(c) <= e
  BY DEF Tail
<1>10. \A e \in Ends(P) \cup {0} : e \in Nat
  BY <1>5 DEF Ends
<1>11. \A t \in Tail(P) : /\ t \in Block /\ End(t) = mem_size
                           /\ t.start \in Ends(P) \cup {0} /\ t.start < mem_size
                           /\ \A c \in P : End(c) <= t.start
  BY <1>9, <1>10 DEF Area, Block, End
<1>12. \A t, u \in Tail(P) : t = u
  <2> SUFFICES ASSUME NEW t \in Tail(P), NEW u \in Tail(P) PROVE t = u
    OBVIOUS
  <2>1. t.start = u.start
    BY <1>5, <1>10, <1>11 DEF Ends
  <2> QED
    BY <1>11, <2>1, BlockEqual
<1>13. Untouching(Tail(P))
  BY <1>11, <1>12 DEF Untouching
<1>14. \A t \in Tail(P), c \in P : Apart(t, c)
  BY <1>11 DEF Apart
<1>15. Sound(Tail(P), P, mem_size)
  BY <1>5, <1>6, <1>11, <1>12, <1>14 DEF Sound
<1> QED
  BY <1>7, <1>8, <1>13, <1>15

-----------------------------------------------------------------------------

LEMMA InitEstablishes == Init => IInv
<1> SUFFICES ASSUME Init PROVE IInv
  OBVIOUS
<1>1. DefaultSize \in Nat \ {0} /\ DefaultSize \in Sizes /\ Slices \subseteq Nat
  BY SizesAssumption
<1>2. Area(0, DefaultSize) = [start |-> 0, size |-> DefaultSize]
  BY <1>1 DEF Area
<1>3. free \subseteq {Area(0, DefaultSize)} /\ allocs = {} /\ mem_size = DefaultSize
  BY DEF Init
<1>4. TypeOK
  <2>1. free \subseteq Block
    BY <1>1, <1>2, <1>3 DEF Block
  <2>2. lossy \in BOOLEAN /\ lock_set_size \in BOOLEAN /\ AUTO_COMPACT \in BOOLEAN
    BY DEF Init
  <2>3. fails \in Nat /\ pid_seq \in Nat /\ MIN_SLICE \in Nat
    BY <1>1 DEF Init
  <2> QED
    BY <1>1, <1>3, <2>1, <2>2, <2>3 DEF Init, TypeOK
<1>5. \A b \in free : /\ b = Area(0, DefaultSize) /\ b \in Block /\ b.start = 0
                      /\ End(b) = DefaultSize
  BY <1>1, <1>2, <1>3 DEF Block, End
<1>6. Passed
  BY <1>1, <1>5 DEF Passed
<1>7. Sound(free, allocs, mem_size)
  BY <1>1, <1>3, <1>5 DEF Sound
<1> QED
  BY <1>3, <1>4, <1>6, <1>7 DEF IInv, EmptyUntilLocked

\* A request that gets its memory from sound lists leaves them sound.
LEMMA AllocateKeeps ==
  ASSUME IInv, cur' = NULL, NEW F, NEW A, NEW ord, NEW n \in Requests,
         Sound(F, A, mem_size), Untouching(F),
         \A c \in A : \E a \in allocs : c.pid = a.pid,
         NextPid, AllocateFrom(F, ord, A, n),
         fails' \in Nat, lossy' \in BOOLEAN
  PROVE  IInv'
<1>1. PICK b \in FirstFitting(F, ord, n) : \E got \in {Granted(b, n)} :
        /\ free' = Cut(F, b, got)
        /\ allocs' = A \cup {[pid |-> pid_seq', start |-> b.start, size |-> got]}
        /\ order' = ma_algorithm /\ lock_set_size' = TRUE
        /\ UNCHANGED <<mem_size, ma_algorithm, MIN_SLICE, AUTO_COMPACT>>
  BY DEF AllocateFrom
<1> DEFINE got == Granted(b, n)
<1>2. b \in F /\ b.size >= n /\ b.size \in Nat \ {0} /\ n \in Nat \ {0}
  BY SizesAssumption DEF FirstFitting, Fitting, Sound, Block
<1>3. got \in 1 .. b.size
  BY <1>1, <1>2 DEF Granted
<1>4. mem_size \in Nat /\ pid_seq \in Nat /\ pid_seq' = pid_seq + 1
  BY SizesAssumption DEF IInv, TypeOK, NextPid
<1>5. \A a \in allocs : a.pid \in 1 .. pid_seq
  BY DEF IInv, TypeOK
<1>6. \A c \in A : c.pid \in 1 .. pid_seq
  BY <1>5
<1>7. Sound(free', allocs', mem_size) /\ Untouching(free')
  <2>1. pid_seq' \in Nat /\ \A c \in A : c.pid # pid_seq'
    BY <1>4, <1>6
  <2>2. /\ Sound(Cut(F, b, got), A \cup {[pid |-> pid_seq', start |-> b.start, size |-> got]}, mem_size)
        /\ Untouching(Cut(F, b, got))
    BY <1>2, <1>3, <1>4, <2>1, CutSound
  <2> QED
    BY <1>1, <2>2
<1>8. allocs' \subseteq [pid : 1 .. pid_seq', start : Nat, size : Nat \ {0}]
  <2> SUFFICES ASSUME NEW c \in allocs'
               PROVE  c \in [pid : 1 .. pid_seq', start : Nat, size : Nat \ {0}]
    OBVIOUS
  <2>1. c \in Records
    BY <1>7 DEF Sound
  <2>2. c.pid \in 1 .. pid_seq'
    BY <1>1, <1>4, <1>6
  <2> QED
    BY <2>1, <2>2 DEF Records
<1>9. TypeOK'
  BY <1>1, <1>4, <1>7, <1>8 DEF TypeOK, IInv, Sound
<1> QED
  BY <1>1, <1>7, <1>9 DEF IInv, EmptyUntilLocked, Sound, Untouching, Passed

LEMMA KillKeeps ==
  ASSUME IInv, cur = NULL, NEW a \in allocs, kill_process(a)
  PROVE  IInv'
<1>1. mem_size \in Nat /\ pid_seq \in Nat
  BY SizesAssumption DEF IInv, TypeOK
<1>2. /\ allocs' = allocs \ {a} /\ lock_set_size' = TRUE
      /\ UNCHANGED <<mem_size, ma_algorithm, MIN_SLICE, AUTO_COMPACT, pid_seq>>
  BY DEF kill_process
<1>3. Sound(free, allocs \ {a}, mem_size)
  BY DEF IInv, Sound
<1>4. Sound(free \cup {Area(a.start, End(a))}, allocs \ {a}, mem_size)
  BY <1>1, InsertSound DEF IInv
<1>5. \/ free' = free /\ cur' = NULL
      \/ /\ free' = free \cup {Area(a.start, End(a))}
         /\ \E c \in free' : cur' = c.start /\ \A d \in free' : c.start <= d.start
  BY DEF kill_process
<1>6. Sound(free', allocs', mem_size)
  BY <1>2, <1>3, <1>4, <1>5
<1>7. cur' \in {NULL} \cup Starts(free') /\ Passed'
  <2>1. CASE free' = free /\ cur' = NULL
    BY <2>1 DEF IInv, Passed
  <2>2. ASSUME NEW c \in free', cur' = c.start, \A d \in free' : c.start <= d.start
        PROVE  cur' \in Starts(free') /\ Passed'
    <3>1. \A d \in free' : d.start \in Nat
      BY <1>6 DEF Sound, Block
    <3>2. c.start # NULL /\ \A d \in free' : ~(d.start < c.start)
      BY <2>2, <3>1 DEF NULL
    <3> QED
      BY <2>2, <3>2 DEF Starts, Passed
  <2> QED
    BY <1>5, <2>1, <2>2
<1>8. fails' \in Nat /\ lossy' \in BOOLEAN /\ order' \in {"FF", "BF", "WF"}
  <2>1. fails' \in Nat
    BY DEF kill_process, MallocFails, IInv, TypeOK
  <2>2. lossy' \in BOOLEAN
    BY DEF kill_process, IInv, TypeOK
  <2>3. order' \in {"FF", "BF", "WF"}
    BY DEF kill_process, IInv, TypeOK
  <2> QED
    BY <2>1, <2>2, <2>3
<1>9. TypeOK'
  BY <1>2, <1>6, <1>7, <1>8 DEF TypeOK, IInv, Sound
<1> QED
  BY <1>2, <1>6, <1>7, <1>9 DEF IInv, EmptyUntilLocked, Sound

\* A turn of the loop.
LEMMA MergeKeeps ==
  ASSUME IInv, merge_free_adjacent
  PROVE  IInv'
<1>1. mem_size \in Nat /\ Sound(free, allocs, mem_size)
  BY SizesAssumption DEF IInv, TypeOK
<1>2. /\ allocs' = allocs /\ UNCHANGED <<settings, pid_seq, fails, lossy>>
  BY DEF merge_free_adjacent
<1>3. PICK c \in free :
        /\ c.start = cur
        /\ \/ \E v \in NextInList(free, c) : Swallow(c, v) \/ MoveOn(c, v)
           \/ NextInList(free, c) = {} /\ rearrange
  BY DEF merge_free_adjacent
<1>4. \A b \in free : b.start \in Nat /\ b.size \in Nat \ {0} /\ End(b) = b.start + b.size
  BY <1>1 DEF Sound, Block, End
<1>5. cur # NULL /\ cur \in Nat
  BY <1>3, <1>4 DEF NULL
<1>6. \A a, b \in free : a.start < c.start => End(a) # b.start
  BY <1>3 DEF IInv, Passed
<1>7. \A a, b \in free : a.start = b.start => a = b
  BY <1>1, StartsDiffer
<1>8. \A a, b \in free : a # b => Apart(a, b)
  BY <1>1 DEF Sound
<1>9. ASSUME NEW v \in NextInList(free, c), Swallow(c, v)
      PROVE  /\ Sound(free', allocs', mem_size) /\ Passed'
             /\ cur' \in {NULL} \cup Starts(free') /\ order' \in {"FF", "BF", "WF"}
  <2> DEFINE y == Area(c.start, End(v))
  <2>1. v \in free /\ End(c) = v.start /\ cur' = cur /\ order' = order
    BY <1>9 DEF NextInList, Swallow
  <2>2. Sound((free \ {c, v}) \cup {y}, allocs, mem_size) /\ y.start = c.start /\ End(y) = End(v)
    BY <1>1, <2>1, SwallowSound
  <2>3. free' = (free \ {c, v}) \cup {y}
    BY <1>9 DEF Swallow
  <2> HIDE DEF y
  <2>4. \A b \in free' : b \in free \/ b = y
    BY <2>3
  <2>5. \A a, b \in free' : a.start < c.start => End(a) # b.start
    <3> SUFFICES ASSUME NEW a \in free', NEW b \in free', a.start < c.start
                 PROVE  End(a) # b.start
      OBVIOUS
    <3>1. a \in free
      BY <1>4, <2>2, <2>4
    <3> QED
      BY <1>6, <2>2, <2>4, <3>1
  <2>6. Passed'
    BY <1>3, <1>5, <2>1, <2>5 DEF Passed
  <2>7. cur' \in Starts(free')
    BY <1>3, <2>1, <2>2, <2>3 DEF Starts
  <2> QED
    BY <1>2, <2>1, <2>2, <2>3, <2>6, <2>7 DEF IInv, TypeOK
<1>10. ASSUME NEW v \in NextInList(free, c), MoveOn(c, v)
       PROVE  /\ Sound(free', allocs', mem_size) /\ Passed'
              /\ cur' \in {NULL} \cup Starts(free') /\ order' \in {"FF", "BF", "WF"}
  <2>1. /\ v \in free /\ c.start < v.start /\ \A w \in free : c.start < w.start => v.start <= w.start
        /\ End(c) # v.start /\ free' = free /\ cur' = v.start /\ order' = order
    BY <1>10 DEF NextInList, MoveOn
  <2>2. ASSUME NEW a \in free, NEW b \in free, a.start < v.start, End(a) = b.start PROVE FALSE
    <3>1. a.start <= c.start
      BY <1>4, <2>1, <2>2
    <3>2. a = c
      BY <1>4, <1>6, <1>7, <2>2, <3>1
    <3>3. v.start <= b.start
      BY <1>4, <2>1, <2>2, <3>2
    <3>4. End(c) <= v.start
      BY <1>4, <1>8, <2>1 DEF Apart
    <3> QED
      BY <1>4, <2>1, <2>2, <3>2, <3>3, <3>4
  <2>3. Passed'
    <3>1. v.start # NULL
      BY <1>4, <2>1 DEF NULL
    <3> QED
      BY <2>1, <2>2, <3>1 DEF Passed
  <2> QED
    BY <1>1, <1>2, <2>1, <2>3 DEF Starts, IInv, TypeOK
<1>11. ASSUME NextInList(free, c) = {}, rearrange
       PROVE  /\ Sound(free', allocs', mem_size) /\ Passed'
              /\ cur' \in {NULL} \cup Starts(free') /\ order' \in {"FF", "BF", "WF"}
  <2>1. free' = free /\ cur' = NULL /\ order' = ma_algorithm
    BY <1>11 DEF rearrange
  <2>2. \A b \in free : b.start <= c.start
    <3> SUFFICES ASSUME NEW b \in free, c.start < b.start PROVE FALSE
      BY <1>4
    <3>1. free \subseteq Block
      BY <1>1 DEF Sound
    <3> QED
      BY <1>11, <3>1, NextExists
  <2>3. ASSUME NEW a \in free, NEW b \in free, End(a) = b.start PROVE FALSE
    <3>1. a = c
      BY <1>4, <1>6, <1>7, <2>2, <2>3
    <3> QED
      BY <1>4, <2>2, <2>3, <3>1
  <2> QED
    BY <1>1, <1>2, <2>1, <2>3 DEF Passed, IInv, TypeOK
<1>12. /\ Sound(free', allocs', mem_size) /\ Passed'
       /\ cur' \in {NULL} \cup Starts(free') /\ order' \in {"FF", "BF", "WF"}
  BY <1>3, <1>9, <1>10, <1>11
<1>13. TypeOK'
  BY <1>2, <1>12 DEF IInv, TypeOK, settings, Sound
<1> QED
  BY <1>2, <1>12, <1>13 DEF IInv, EmptyUntilLocked, settings, Sound

LEMMA CompactionKeeps ==
  ASSUME IInv, cur' = NULL, NEW n \in Requests,
         new_process_compacts(n) \/ new_process_compaction_fails(n)
  PROVE  IInv'
<1>1. mem_size \in Nat /\ pid_seq \in Nat /\ pid_seq' = pid_seq + 1 /\ NextPid
  BY SizesAssumption
  DEF IInv, TypeOK, new_process_compacts, new_process_compaction_fails, NextPid
<1>2. PICK to \in Packings(allocs) :
        \/ /\ AllocateFrom(Tail(Packed(allocs, to)), ma_algorithm, Packed(allocs, to), n)
           /\ lossy' = FALSE /\ UNCHANGED fails
        \/ /\ allocs' = Packed(allocs, to) /\ free' = {}
           /\ MallocFails /\ lossy' = TRUE /\ UNCHANGED <<order, settings>>
  BY DEF new_process_compacts, new_process_compaction_fails
<1>3. Sound({}, allocs, mem_size)
  BY DEF IInv, Sound
<1>4. /\ Sound({}, Packed(allocs, to), mem_size)
      /\ Sound(Tail(Packed(allocs, to)), Packed(allocs, to), mem_size)
      /\ Untouching(Tail(Packed(allocs, to)))
      /\ \A c \in Packed(allocs, to) : \E a \in allocs : c.pid = a.pid
  BY <1>1, <1>3, PackSound
<1>5. CASE AllocateFrom(Tail(Packed(allocs, to)), ma_algorithm, Packed(allocs, to), n)
           /\ lossy' = FALSE /\ UNCHANGED fails
  <2>1. fails' \in Nat /\ lossy' \in BOOLEAN
    BY <1>5 DEF IInv, TypeOK
  <2> QED
    BY <1>1, <1>4, <1>5, <2>1, AllocateKeeps
<1>6. CASE /\ allocs' = Packed(allocs, to) /\ free' = {}
           /\ MallocFails /\ lossy' = TRUE /\ UNCHANGED <<order, settings>>
  <2>1. \A c \in allocs' : c \in Records /\ c.pid \in 1 .. pid_seq
    BY <1>4, <1>6 DEF IInv, TypeOK, Sound
  <2>2. allocs' \subseteq [pid : 1 .. pid_seq', start : Nat, size : Nat \ {0}]
    BY <1>1, <2>1 DEF Records
  <2>3. TypeOK'
    BY <1>1, <1>6, <2>2 DEF IInv, TypeOK, settings, MallocFails
  <2>4. Sound(free', allocs', mem_size') /\ Untouching(free')
    BY <1>4, <1>6 DEF settings, Untouching
  <2>5. EmptyUntilLocked'
    BY <1>4, <1>6 DEF IInv, EmptyUntilLocked, settings
  <2> QED
    BY <2>3, <2>4, <2>5 DEF IInv, Sound, Untouching, Passed
<1> QED
  BY <1>2, <1>5, <1>6

LEMMA StepKeeps == IInv /\ [Next]_vars => IInv'
<1> SUFFICES ASSUME IInv, [Next]_vars PROVE IInv'
  OBVIOUS
<1> DEFINE Rests == cur = NULL /\ cur' = NULL
<1>0. Rests => Untouching(free) /\ (Untouching(free') => Passed')
  BY DEF IInv, Passed, Untouching
<1>1. ASSUME Rests, NEW size \in Sizes, set_mem_size(size) PROVE IInv'
  <2>1. size \in Nat \ {0} /\ allocs = {} /\ allocs' = {} /\ mem_size' = size
    BY <1>1, SizesAssumption DEF set_mem_size, IInv, EmptyUntilLocked
  <2>2. Area(0, size) = [start |-> 0, size |-> size]
    BY <2>1 DEF Area
  <2>3. \A b \in free' : b = Area(0, size) /\ b \in Block /\ b.start = 0 /\ End(b) = size
    BY <1>1, <2>1, <2>2 DEF set_mem_size, Block, End
  <2>4. Untouching(free') /\ Sound(free', allocs', size)
    BY <2>1, <2>3 DEF Untouching, Sound
  <2>5. TypeOK'
    <3>1. fails' \in Nat
      BY <1>1 DEF set_mem_size, MallocFails, IInv, TypeOK
    <3>2. lossy' \in BOOLEAN
      BY <1>1 DEF set_mem_size, IInv, TypeOK
    <3> QED
      BY <1>1, <2>1, <2>3, <3>1, <3>2 DEF set_mem_size, IInv, TypeOK
  <2> QED
    BY <1>0, <1>1, <2>1, <2>4, <2>5 DEF IInv, EmptyUntilLocked, Sound
<1>2. ASSUME Rests, NEW alg \in {"FF", "BF", "WF"}, set_algorithm(alg) PROVE IInv'
  BY <1>2 DEF set_algorithm, IInv, TypeOK, Sound, Passed, EmptyUntilLocked
<1>3. ASSUME Rests, NEW v \in Slices, set_min_slice(v) PROVE IInv'
  BY <1>3, SizesAssumption
  DEF set_min_slice, lists, IInv, TypeOK, Sound, Passed, EmptyUntilLocked
<1>4. ASSUME Rests, toggle_auto_compact PROVE IInv'
  BY <1>4 DEF toggle_auto_compact, lists, IInv, TypeOK, Sound, Passed, EmptyUntilLocked
<1>5. ASSUME Rests, NextPid, UNCHANGED <<lists, settings, fails, lossy>> PROVE IInv'
  <2>1. pid_seq \in Nat /\ pid_seq' = pid_seq + 1
    BY <1>5 DEF NextPid, IInv, TypeOK
  <2>2. TypeOK'
    BY <1>5, <2>1 DEF lists, settings, IInv, TypeOK
  <2> QED
    BY <1>5, <2>2 DEF lists, settings, IInv, Sound, Passed, EmptyUntilLocked
<1>6. ASSUME Rests, NEW n \in Requests, new_process(n) PROVE IInv'
  <2>1. fails' \in Nat /\ lossy' \in BOOLEAN
    BY <1>6 DEF new_process, IInv, TypeOK
  <2>2. \A c \in allocs : \E a \in allocs : c.pid = a.pid
    OBVIOUS
  <2> QED
    BY <1>0, <1>6, <2>1, <2>2, AllocateKeeps DEF new_process, IInv
<1>7. ASSUME cur = NULL, NEW a \in allocs, kill_process(a) PROVE IInv'
  BY <1>7, KillKeeps
<1>8. CASE UNCHANGED vars
  BY <1>8 DEF vars, lists, settings, IInv, TypeOK, Sound, Passed, EmptyUntilLocked
<1>9. ASSUME cur = NULL, Choice, UNCHANGED cur PROVE IInv'
  BY <1>1, <1>2, <1>3, <1>4, <1>5, <1>6, <1>9, CompactionKeeps
  DEF Choice, new_process_invalid, new_process_refused
<1> QED
  BY <1>7, <1>8, <1>9, MergeKeeps DEF Next

LEMMA InvariantHolds == Spec => []IInv
  BY InitEstablishes, StepKeeps, PTL DEF Spec

\* Every variable keeps its type (memsim.c:28-37).
THEOREM MemSimTypes == Spec => []TypeOK
  BY InvariantHolds, PTL DEF IInv

\* No unit of memory is handed out twice or lies outside of memory, and no pid
\* is used twice: memsim.c, whatever its user and malloc do.
THEOREM DisjointHolds == Spec => []Disjoint
  BY InvariantHolds, InvImplies, PTL

\* One pass of the loop of merge_free_adjacent leaves no two neighbours, wherever a
\* block is freed, and no other operation makes new ones.
THEOREM CoalescedHolds == Spec => []Coalesced
  BY InvariantHolds, InvImplies, PTL

-----------------------------------------------------------------------------

\* The free list is sorted for the chosen algorithm when the loop does not run: every
\* operation that changes either sorts it again.
Sorted == cur = NULL => order = ma_algorithm

LEMMA SortedKept == IInv /\ Sorted /\ [Next]_vars => Sorted'
<1> SUFFICES ASSUME IInv, Sorted, [Next]_vars PROVE Sorted'
  OBVIOUS
<1>1. ASSUME NEW F, NEW A, NEW ord, NEW n, AllocateFrom(F, ord, A, n) PROVE Sorted'
  BY <1>1 DEF AllocateFrom, Sorted
<1>2. ASSUME NEW n, new_process(n) \/ new_process_compacts(n) PROVE Sorted'
  BY <1>1, <1>2 DEF new_process, new_process_compacts
<1>3. ASSUME cur = NULL, Choice, UNCHANGED cur PROVE Sorted'
  BY <1>2, <1>3
  DEF Sorted, Choice, lists, settings, set_mem_size, set_algorithm, set_min_slice,
      toggle_auto_compact, new_process_invalid, new_process_compaction_fails,
      new_process_refused
<1>4. ASSUME cur = NULL, NEW a \in allocs, kill_process(a) PROVE Sorted'
  <2>1. \A d \in free' : d.start \in Nat
    <3>1. IInv'
      BY <1>4, KillKeeps
    <3> QED
      BY <3>1 DEF IInv, Sound, Block
  <2> QED
    BY <1>4, <2>1 DEF kill_process, Sorted, NULL
<1>5. ASSUME merge_free_adjacent PROVE Sorted'
  <2>1. \A d \in free : d.start # NULL
    BY DEF IInv, Sound, Block, NULL
  <2> QED
    BY <1>5, <2>1 DEF merge_free_adjacent, Swallow, MoveOn, rearrange, NextInList,
                      Sorted, settings
<1>6. CASE UNCHANGED vars
  BY <1>6 DEF Sorted, vars, lists, settings
<1> QED
  BY <1>3, <1>4, <1>5, <1>6 DEF Next

\* The block a request takes is the best of those that fit, as the chosen
\* algorithm understands it, after any sequence of choices from the menu.
THEOREM FirstIsBestHolds == Spec => []FirstIsBest
<1>1. Init => Sorted
  BY DEF Init, Sorted
<1>2. TypeOK /\ Sorted => FirstIsBest
  <2> SUFFICES ASSUME TypeOK, Sorted, cur = NULL, NEW n \in Requests,
                      NEW b \in FirstFitting(free, order, n), NEW c \in Fitting(free, n)
               PROVE  /\ ma_algorithm = "FF" => b.start <= c.start
                      /\ ma_algorithm = "BF" => b.size <= c.size
                      /\ ma_algorithm = "WF" => b.size >= c.size
    BY DEF FirstIsBest
  <2>1. /\ b.start \in Nat /\ b.size \in Nat /\ c.start \in Nat /\ c.size \in Nat
    BY DEF FirstFitting, Fitting, TypeOK, Block
  <2>2. b = c \/ Before(order, b, c)
    BY DEF FirstFitting
  <2>3. ASSUME Before("FF", b, c) PROVE b.start <= c.start
    BY <2>1, <2>3 DEF Before
  <2>4. ASSUME Before("BF", b, c) PROVE b.size <= c.size
    BY <2>1, <2>4 DEF Before
  <2>5. ASSUME Before("WF", b, c) PROVE b.size >= c.size
    BY <2>1, <2>5 DEF Before
  <2> QED
    BY <2>1, <2>2, <2>3, <2>4, <2>5 DEF Sorted
<1> QED
  BY <1>1, <1>2, SortedKept, InvariantHolds, MemSimTypes, PTL DEF Spec

-----------------------------------------------------------------------------

\* Every unit of a memory of m units is in a block of F or of A.
Covers(F, A, m) ==
  \A x \in 0 .. m - 1 : \E b \in F \cup A : b.start <= x /\ x < End(b)

\* What is cut off goes to the process, what is left stays.
LEMMA CutCovers ==
  ASSUME NEW F, NEW A, NEW m \in Nat, Sound(F, A, m), Covers(F, A, m),
         NEW b \in F, NEW got \in 1 .. b.size, NEW p
  PROVE  Covers(Cut(F, b, got), A \cup {[pid |-> p, start |-> b.start, size |-> got]}, m)
<1> DEFINE new == [pid |-> p, start |-> b.start, size |-> got]
           rest == Area(b.start + got, End(b))
<1> SUFFICES ASSUME NEW x \in 0 .. m - 1
             PROVE  \E c \in Cut(F, b, got) \cup (A \cup {new}) : c.start <= x /\ x < End(c)
  BY DEF Covers
<1>1. b.start \in Nat /\ b.size \in Nat \ {0} /\ End(b) = b.start + b.size
  BY DEF Sound, Block, End
<1>2. PICK c \in F \cup A : c.start <= x /\ x < End(c)
  BY DEF Covers
<1>3. CASE c # b
  BY <1>2, <1>3 DEF Cut
<1>4. CASE c = b
  <2>1. new.start = b.start /\ End(new) = b.start + got
    BY DEF End
  <2>2. rest.start = b.start + got /\ End(rest) = End(b)
    BY <1>1 DEF Area, End
  <2>3. got # b.size => rest \in Cut(F, b, got)
    BY DEF Cut
  <2>4. CASE x < b.start + got
    BY <1>2, <1>4, <2>1, <2>4
  <2>5. CASE b.start + got <= x
    <3>1. got # b.size
      BY <1>1, <1>2, <1>4, <2>5
    <3> QED
      BY <1>2, <1>4, <2>2, <2>3, <2>5, <3>1
  <2> QED
    BY <1>1, <2>4, <2>5
<1> QED
  BY <1>3, <1>4

\* A freed block covers what its process had.
LEMMA InsertCovers ==
  ASSUME NEW F, NEW A, NEW m, Sound(F, A, m), Covers(F, A, m), NEW a \in A
  PROVE  Covers(F \cup {Area(a.start, End(a))}, A \ {a}, m)
<1> DEFINE x == Area(a.start, End(a))
<1>1. x.start = a.start /\ End(x) = End(a)
  <2>1. a.start \in Nat /\ a.size \in Nat
    BY DEF Sound, Records
  <2> QED
    BY <2>1 DEF Area, End
<1> HIDE DEF x
<1>2. Covers(F \cup {x}, A \ {a}, m)
  BY <1>1 DEF Covers
<1> QED
  BY <1>2 DEF x

\* Two blocks as one cover what they covered.
LEMMA SwallowCovers ==
  ASSUME NEW F, NEW A, NEW m \in Nat, Sound(F, A, m), Covers(F, A, m),
         NEW c \in F, NEW v \in F, End(c) = v.start
  PROVE  Covers((F \ {c, v}) \cup {Area(c.start, End(v))}, A, m)
<1> DEFINE y == Area(c.start, End(v))
           G == F \ {c, v}
<1>1. y.start = c.start /\ End(y) = End(v)
  BY SwallowSound
<1> HIDE DEF y
<1>2. /\ c.start \in Nat /\ v.start \in Nat /\ End(c) = v.start
      /\ c.start < v.start /\ v.start < End(v) /\ End(v) \in Nat
  BY DEF Sound, Block, End
<1>3. ASSUME NEW x \in 0 .. m - 1 PROVE \E b \in (G \cup {y}) \cup A : b.start <= x /\ x < End(b)
  <2>1. PICK b \in F \cup A : b.start <= x /\ x < End(b)
    BY DEF Covers
  <2>2. CASE b \in {c, v}
    <3>1. y.start <= x /\ x < End(y)
      BY <1>1, <1>2, <2>1, <2>2
    <3> QED
      BY <3>1
  <2>3. CASE b \notin {c, v}
    BY <2>1, <2>3
  <2> QED
    BY <2>2, <2>3
<1>4. Covers(G \cup {y}, A, m)
  BY <1>3 DEF Covers
<1> QED
  BY <1>4 DEF y

\* Compaction leaves no gap: the processes fill memory from its beginning, the
\* tail is free.
LEMMA PackCovers ==
  ASSUME NEW A, mem_size \in Nat, Sound({}, A, mem_size), NEW to \in Packings(A)
  PROVE  Covers(Tail(Packed(A, to)), Packed(A, to), mem_size)
<1> DEFINE P == Packed(A, to)
           tops == Ends(P) \cup {0}
<1>1. \A a \in A : /\ a \in Records /\ a.start \in Nat /\ a.size \in Nat \ {0}
                   /\ to[a] \in Nat /\ to[a] \in {0} \cup {to[b] + b.size : b \in A}
  BY DEF Sound, Records, Packings
<1>2. \A c \in P : \E a \in A : c = [pid |-> a.pid, start |-> to[a], size |-> a.size]
  BY <1>1 DEF Packed, Records
<1>3. \A a \in A : \E c \in P : c.start = to[a] /\ c.size = a.size /\ End(c) = to[a] + a.size
  <2> SUFFICES ASSUME NEW a \in A
               PROVE  \E c \in P : c.start = to[a] /\ c.size = a.size /\ End(c) = to[a] + a.size
    OBVIOUS
  <2>1. [a EXCEPT !.start = to[a]] = [pid |-> a.pid, start |-> to[a], size |-> a.size]
    BY <1>1 DEF Records
  <2> DEFINE c == [a EXCEPT !.start = to[a]]
  <2>2. c \in P
    BY DEF Packed
  <2>3. c.start = to[a] /\ c.size = a.size /\ End(c) = to[a] + a.size
    BY <2>1 DEF End
  <2> QED
    BY <2>2, <2>3
<1>4. \A c \in P : /\ c.start \in tops
                   /\ c.start \in Nat /\ c.size \in Nat \ {0} /\ End(c) = c.start + c.size
  <2> SUFFICES ASSUME NEW c \in P
               PROVE  /\ c.start \in tops
                      /\ c.start \in Nat /\ c.size \in Nat \ {0} /\ End(c) = c.start + c.size
    OBVIOUS
  <2>1. PICK a \in A : c = [pid |-> a.pid, start |-> to[a], size |-> a.size]
    BY <1>2
  <2>2. to[a] = 0 \/ \E b \in A : to[a] = to[b] + b.size
    BY <1>1
  <2>3. to[a] \in tops
    BY <1>3, <2>2 DEF Ends
  <2> QED
    BY <1>1, <2>1, <2>3 DEF End
<1>5. tops \subseteq Nat
  BY <1>4 DEF Ends
<1> SUFFICES ASSUME NEW x \in 0 .. mem_size - 1
             PROVE  \E b \in Tail(P) \cup P : b.start <= x /\ x < End(b)
  BY DEF Covers
<1>6. CASE \E e \in tops : x < e
  <2> DEFINE above == {e \in tops : x < e}
  <2>1. PICK e \in above : \A k \in above : e <= k
    BY <1>5, <1>6, LeastElement
  <2>2. PICK c \in P : e = End(c)
    BY <2>1 DEF Ends
  <2>3. c.start <= x
    <3>1. c.start \in tops /\ c.start \in Nat /\ c.start < e
      BY <1>4, <2>2
    <3>2. c.start \notin above
      BY <1>5, <2>1, <3>1
    <3> QED
      BY <3>1, <3>2
  <2> QED
    BY <2>1, <2>2, <2>3
<1>7. CASE \A e \in tops : e <= x
  <2> DEFINE bounds == {n \in Nat : \A e \in tops : e <= n}
  <2>1. PICK n \in bounds : \A k \in bounds : n <= k
    <3>1. x \in bounds
      BY <1>7
    <3> QED
      BY <3>1, LeastElement
  <2>2. n \in tops
    <3> SUFFICES ASSUME n \notin tops PROVE FALSE
      OBVIOUS
    <3>1. \A e \in tops : e <= n - 1
      BY <1>5, <2>1
    <3>2. n - 1 \in bounds
      BY <2>1, <3>1
    <3> QED
      BY <2>1, <3>2
  <2>3. n <= x
    BY <1>7, <2>1
  <2>4. Area(n, mem_size) \in Tail(P)
    <3>1. n < mem_size
      BY <2>1, <2>3
    <3>2. \A c \in P : End(c) <= n
      BY <2>1 DEF Ends
    <3> QED
      BY <2>2, <3>1, <3>2 DEF Tail
  <2>5. Area(n, mem_size).start = n /\ End(Area(n, mem_size)) = mem_size
    BY <2>1 DEF Area, End
  <2> QED
    BY <2>3, <2>4, <2>5
<1> QED
  BY <1>5, <1>6, <1>7

-----------------------------------------------------------------------------

Accounted == ~lossy => Covers(free, allocs, mem_size)

\* A request leaves nothing unaccounted for, if its lists begin so.
LEMMA AllocateAccounts ==
  ASSUME IInv, NEW F, NEW A, NEW ord, NEW n \in Requests,
         Sound(F, A, mem_size), Covers(F, A, mem_size),
         AllocateFrom(F, ord, A, n)
  PROVE  Covers(free, allocs, mem_size)'
<1>1. PICK b \in FirstFitting(F, ord, n) : \E got \in {Granted(b, n)} :
        /\ free' = Cut(F, b, got)
        /\ allocs' = A \cup {[pid |-> pid_seq', start |-> b.start, size |-> got]}
        /\ UNCHANGED mem_size
  BY DEF AllocateFrom
<1> DEFINE got == Granted(b, n)
<1>2. b \in F /\ b.size >= n /\ b.size \in Nat \ {0} /\ n \in Nat \ {0}
  BY SizesAssumption DEF FirstFitting, Fitting, Sound, Block
<1>3. got \in 1 .. b.size
  BY <1>2 DEF Granted
<1>4. mem_size \in Nat
  BY SizesAssumption DEF IInv, TypeOK
<1>5. Covers(Cut(F, b, got), A \cup {[pid |-> pid_seq', start |-> b.start, size |-> got]}, mem_size)
  BY <1>2, <1>3, <1>4, CutCovers
<1> QED
  BY <1>1, <1>5 DEF Covers

LEMMA AccountedKept == IInv /\ Accounted /\ [Next]_vars => Accounted'
<1> SUFFICES ASSUME IInv, Accounted, [Next]_vars PROVE Accounted'
  OBVIOUS
<1>1. mem_size \in Nat /\ Sound(free, allocs, mem_size)
  BY SizesAssumption DEF IInv, TypeOK
<1>2. CASE UNCHANGED <<free, allocs, mem_size, lossy>>
  BY <1>2 DEF Accounted, Covers
<1>3. ASSUME NEW size \in Sizes, set_mem_size(size), free' = {Area(0, size)} PROVE Accounted'
  <2>1. size \in Nat \ {0} /\ mem_size' = size
    BY <1>3, SizesAssumption DEF set_mem_size
  <2>2. Area(0, size).start = 0 /\ End(Area(0, size)) = size
    BY <2>1 DEF Area, End
  <2> QED
    BY <1>3, <2>1, <2>2 DEF Accounted, Covers
<1>4. ASSUME NEW size \in Sizes, set_mem_size(size), free = {}, UNCHANGED <<free, lossy>> PROVE Accounted'
  <2>1. allocs = {} /\ 0 \in 0 .. mem_size - 1
    BY <1>4, SizesAssumption DEF set_mem_size, IInv, EmptyUntilLocked, TypeOK
  <2>2. lossy
    BY <1>4, <2>1 DEF Accounted, Covers
  <2> QED
    BY <1>4, <2>2 DEF Accounted
<1>5. ASSUME NEW n \in Requests, new_process(n) PROVE Accounted'
  BY <1>1, <1>5, AllocateAccounts DEF new_process, Accounted
<1>6. ASSUME NEW n \in Requests, new_process_compacts(n) PROVE Accounted'
  <2>1. PICK to \in Packings(allocs) :
          AllocateFrom(Tail(Packed(allocs, to)), ma_algorithm, Packed(allocs, to), n)
    BY <1>6 DEF new_process_compacts
  <2>2. Sound({}, allocs, mem_size)
    BY <1>1 DEF Sound
  <2> QED
    BY <1>1, <2>1, <2>2, PackSound, PackCovers, AllocateAccounts DEF Accounted
<1>7. ASSUME NEW n \in Requests, new_process_compaction_fails(n) PROVE Accounted'
  BY <1>7 DEF new_process_compaction_fails, Accounted
<1>8. ASSUME NEW a \in allocs, kill_process(a) PROVE Accounted'
  BY <1>1, <1>8, InsertCovers DEF kill_process, Accounted
<1>9. ASSUME merge_free_adjacent PROVE Accounted'
  <2>1. UNCHANGED <<allocs, mem_size, lossy>>
    BY <1>9 DEF merge_free_adjacent, settings
  <2>2. CASE UNCHANGED free
    BY <1>2, <2>1, <2>2
  <2>3. ASSUME NEW c \in free, NEW v \in NextInList(free, c), Swallow(c, v) PROVE Accounted'
    <3>1. v \in free /\ End(c) = v.start /\ free' = (free \ {c, v}) \cup {Area(c.start, End(v))}
      BY <2>3 DEF NextInList, Swallow
    <3>2. ~lossy => Covers((free \ {c, v}) \cup {Area(c.start, End(v))}, allocs, mem_size)
      BY <1>1, <3>1, SwallowCovers DEF Accounted
    <3> QED
      BY <2>1, <3>1, <3>2 DEF Accounted
  <2> QED
    BY <1>9, <2>2, <2>3 DEF merge_free_adjacent, MoveOn, rearrange
<1> QED
  BY <1>2, <1>3, <1>4, <1>5, <1>6, <1>7, <1>8, <1>9
  DEF Next, Choice, vars, lists, settings, set_mem_size, set_algorithm, set_min_slice,
      toggle_auto_compact, new_process_invalid, new_process_refused

LEMMA AccountedHolds == Spec => []Accounted
<1>1. Init => Accounted
  <2>1. DefaultSize \in Nat \ {0}
    BY SizesAssumption
  <2>2. Area(0, DefaultSize).start = 0 /\ End(Area(0, DefaultSize)) = DefaultSize
    BY <2>1 DEF Area, End
  <2> QED
    BY <2>1, <2>2 DEF Init, Accounted, Covers
<1> QED
  BY <1>1, AccountedKept, InvariantHolds, PTL DEF Spec

\* Every unit of memory is in some block, free or allocated, unless malloc has
\* failed since a list was last built: no cut, merge or compaction loses any.
THEOREM NothingLostHolds == Spec => []NothingLost
<1>1. Accounted => NothingLost
  BY DEF Accounted, Covers, NothingLost
<1> QED
  BY <1>1, AccountedHolds, PTL

-----------------------------------------------------------------------------

\* A process that is not where it was has been moved by a compaction, for a
\* request that no free block could satisfy, towards the beginning of memory.
Moves(a, b, n) ==
  /\ b.size = a.size /\ b.start < a.start
  /\ AUTO_COMPACT /\ n > 0
  /\ \A c \in free : c.size < n

\* compact_memory itself: it moves processes down, and none for nothing.
LEMMA PackMoves ==
  ASSUME IInv, NEW n \in Requests, Fitting(free, n) = {}, WorthCompacting(n),
         NEW to \in Packings(allocs), NEW a \in allocs, NEW b \in Packed(allocs, to),
         a.pid = b.pid, a # b
  PROVE  Moves(a, b, n)
<1>1. PICK c \in allocs : b = [c EXCEPT !.start = to[c]]
  BY DEF Packed
<1>2. \A r \in allocs : r \in Records
  BY DEF IInv, Sound
<1>3. b = [pid |-> c.pid, start |-> to[c], size |-> c.size]
      /\ c = [pid |-> c.pid, start |-> c.start, size |-> c.size]
  BY <1>1, <1>2 DEF Records
<1>4. a = c
  BY <1>3 DEF IInv, Sound
<1>5. to[a] <= a.start /\ to[a] \in Nat /\ a.start \in Nat
  BY <1>2 DEF Packings, Records
<1>6. to[a] # a.start
  BY <1>3, <1>4
<1>7. \A f \in free : f.size < n
  BY SizesAssumption DEF Fitting, IInv, TypeOK, Block
<1>8. AUTO_COMPACT /\ n > 0
  BY SizesAssumption DEF WorthCompacting
<1> QED
  BY <1>3, <1>4, <1>5, <1>6, <1>7, <1>8 DEF Moves

\* No process is ever moved but by a compaction that a request makes necessary,
\* and it keeps its size.
THEOREM MovedOnlyByNeedHolds == Spec => MovedOnlyByNeed
<1> DEFINE Step == \A a \in allocs, b \in allocs' :
                     a.pid = b.pid /\ a # b => Moves(a, b, reply'.asked)
<1>1. ASSUME IInv, [Next]_vars PROVE Step \/ UNCHANGED vars
  <2> SUFFICES ASSUME Next, NEW a \in allocs, NEW b \in allocs', a.pid = b.pid, a # b
               PROVE  Moves(a, b, reply'.asked)
    BY <1>1
  <2>1. b \notin allocs
    BY <1>1 DEF IInv, Sound
  <2>2. pid_seq \in Nat /\ a.pid \in 1 .. pid_seq
    BY <1>1 DEF IInv, TypeOK
  <2>3. ASSUME NEW n \in Requests, new_process(n) PROVE FALSE
    <3>1. b \in allocs \/ b.pid = pid_seq'
      BY <2>3 DEF new_process, AllocateFrom
    <3>2. pid_seq' = pid_seq + 1
      BY <2>3 DEF new_process, NextPid
    <3> QED
      BY <2>1, <2>2, <3>1, <3>2
  <2>4. ASSUME NEW n \in Requests, new_process_compacts(n) PROVE Moves(a, b, reply'.asked)
    <3>1. PICK to \in Packings(allocs) :
            AllocateFrom(Tail(Packed(allocs, to)), ma_algorithm, Packed(allocs, to), n)
      BY <2>4 DEF new_process_compacts
    <3>2. b \in Packed(allocs, to) \/ b.pid = pid_seq'
      BY <3>1 DEF AllocateFrom
    <3>3. pid_seq' = pid_seq + 1
      BY <2>4 DEF new_process_compacts, NextPid
    <3>4. b \in Packed(allocs, to)
      BY <2>2, <3>2, <3>3
    <3>5. reply'.asked = n
      BY <3>1 DEF AllocateFrom
    <3> QED
      BY <1>1, <2>4, <3>4, <3>5, PackMoves DEF new_process_compacts
  <2>5. ASSUME NEW n \in Requests, new_process_compaction_fails(n)
        PROVE  Moves(a, b, reply'.asked)
    <3>1. PICK to \in Packings(allocs) : allocs' = Packed(allocs, to)
      BY <2>5 DEF new_process_compaction_fails
    <3>2. reply'.asked = n
      BY <2>5 DEF new_process_compaction_fails
    <3> QED
      BY <1>1, <2>5, <3>1, <3>2, PackMoves DEF new_process_compaction_fails
  <2> QED
    BY <2>1, <2>3, <2>4, <2>5
    DEF Next, Choice, merge_free_adjacent, lists, set_mem_size, set_algorithm, set_min_slice, toggle_auto_compact,
        new_process_invalid, new_process_refused, kill_process
<1>2. ASSUME IInv, [Next]_vars PROVE [Step]_vars
  BY <1>1, <1>2
<1>3. Spec => [][Step]_vars
  BY <1>2, InvariantHolds, PTL DEF Spec
<1> QED
  BY <1>3, PTL DEF MovedOnlyByNeed, Moves

-----------------------------------------------------------------------------
(* The pool that MemSim implements. *)

\* The units of memory of a block, and of all blocks of a list.
Units(b) == b.start .. End(b) - 1
AllUnits(S) == UNION {Units(b) : b \in S}

\* What the processes of list A hold, as MemoryPool sees it.
Held(A) == [p \in {a.pid : a \in A} |-> (CHOOSE a \in A : a.pid = p).size]

LEMMA HeldIs ==
  ASSUME NEW A, \A a, c \in A : a.pid = c.pid => a = c
  PROVE  /\ DOMAIN Held(A) = {a.pid : a \in A}
         /\ \A a \in A : (CHOOSE c \in A : c.pid = a.pid) = a /\ Held(A)[a.pid] = a.size
<1>1. ASSUME NEW a \in A PROVE (CHOOSE c \in A : c.pid = a.pid) = a
  OBVIOUS
<1>2. DOMAIN Held(A) = {a.pid : a \in A}
  BY DEF Held
<1>3. ASSUME NEW a \in A PROVE Held(A)[a.pid] = a.size
  BY <1>1 DEF Held
<1> QED
  BY <1>1, <1>2, <1>3

\* A block of a sound list, its units, and the list's length.
LEMMA UnitsOfBlock ==
  ASSUME NEW b, b.start \in Nat, b.size \in Nat
  PROVE  IsFiniteSet(Units(b)) /\ Cardinality(Units(b)) = b.size
<1>1. End(b) = b.start + b.size
  BY DEF End
<1>2. b.start \in Int /\ End(b) - 1 \in Int /\ (b.start > End(b) - 1 => b.size = 0)
      /\ (End(b) - 1) - b.start + 1 = b.size
  BY <1>1
<1> QED
  BY <1>2, FS_Interval DEF Units

LEMMA UnitsApart ==
  ASSUME NEW a, NEW b, a.start \in Nat, a.size \in Nat, b.start \in Nat, b.size \in Nat,
         Apart(a, b)
  PROVE  Units(a) \cap Units(b) = {}
BY DEF Apart, End, Units

\* A list whose blocks begin at different units of a finite memory is finite.
LEMMA ListFinite ==
  ASSUME NEW S, NEW m \in Nat, \A b \in S : b.start \in 0 .. m,
         \A a, b \in S : a.start = b.start => a = b
  PROVE  IsFiniteSet(S)
<1> DEFINE f == [b \in S |-> b.start]
<1>1. f \in Injection(S, 0 .. m)
  BY DEF Injection, IsInjective
<1>2. IsFiniteSet(0 .. m)
  BY FS_Interval
<1> QED
  BY <1>1, <1>2, FS_Injection

\* The loop of memsim.c that adds up the free list.
LEMMA FreeFold ==
  ASSUME NEW F, \E h : SumOn(SUBSET F, [b \in F |-> b.size], h)
  PROVE  \E h : SumOn(SUBSET F, [b \in F |-> b.size], h) /\ sum_free_memory(F) = h[F]
<1> DEFINE Adds(h) == h = [s \in SUBSET F |->
                            IF s = {} THEN 0 ELSE One(s).size + h[s \ {One(s)}]]
<1>1. \A s \in SUBSET F : s # {} => One(s) \in F /\ [b \in F |-> b.size][One(s)] = One(s).size
  BY DEF One
<1>2. \A h : SumOn(SUBSET F, [b \in F |-> b.size], h) <=> Adds(h)
  BY <1>1 DEF SumOn
<1>3. \E h : Adds(h) /\ sum_free_memory(F) = h[F]
  <2>1. PICK h : Adds(h)
    BY <1>2
  <2> QED
    BY <2>1 DEF sum_free_memory, MapThenSumSet, MapThenFoldSet, One
<1> QED
  BY <1>2, <1>3

\* The sum MemoryPool takes of what is held.
LEMMA HeldFold ==
  ASSUME NEW f, \E h : SumOn(SUBSET DOMAIN f, f, h)
  PROVE  \E h : SumOn(SUBSET DOMAIN f, f, h) /\ Pool!SumFunction(f) = h[DOMAIN f]
BY DEF Pool!SumFunction, Pool!SumFunctionOnSet, Pool!FoldFunctionOnSet, Pool!MapThenFoldSet,
       SumOn, One

\* What the pool calls unheld.
LEMMA UnheldIs == Pool!Unheld = mem_size - Pool!SumFunction(Held(allocs))
BY DEF Pool!Unheld, Held, HeldBy

\* The sizes of a sound list add up to the units of its blocks.
LEMMA FreeSum ==
  ASSUME NEW F, NEW A, NEW m \in Nat, Sound(F, A, m)
  PROVE  IsFiniteSet(AllUnits(F)) /\ sum_free_memory(F) = Cardinality(AllUnits(F))
<1> DEFINE f == [b \in F |-> b.size]
           U == [b \in F |-> Units(b)]
<1>1. \A b \in F : /\ b.start \in Nat /\ b.size \in Nat \ {0} /\ End(b) = b.start + b.size
                   /\ b.start \in 0 .. m
  BY DEF Sound, Block, End
<1>2. \A a, b \in F : a # b => Apart(a, b)
  BY DEF Sound
<1>3. \A a, b \in F : a.start = b.start => a = b
  BY <1>1, <1>2 DEF Apart
<1>4. IsFiniteSet(F)
  BY <1>1, <1>3, ListFinite
<1>5. \A b \in F : IsFiniteSet(U[b]) /\ f[b] = Cardinality(U[b])
  BY <1>1, UnitsOfBlock
<1>6. \A a, b \in F : a # b => U[a] \cap U[b] = {}
  BY <1>1, <1>2, UnitsApart
<1>7. PICK h : SumOn(SUBSET F, f, h) /\ sum_free_memory(F) = h[F]
  BY <1>4, SumExists, FreeFold
<1>8. AllUnits(F) = Unite(U, F)
  BY DEF AllUnits, Unite
<1> HIDE DEF f, U
<1>9. IsFiniteSet(Unite(U, F)) /\ h[F] = Cardinality(Unite(U, F))
  BY <1>4, <1>5, <1>6, <1>7, SumIsUnion
<1> QED
  BY <1>7, <1>8, <1>9

LEMMA HeldSum ==
  ASSUME NEW F, NEW A, NEW m \in Nat, Sound(F, A, m)
  PROVE  IsFiniteSet(AllUnits(A)) /\ Pool!SumFunction(Held(A)) = Cardinality(AllUnits(A))
<1> DEFINE f == Held(A)
           D == {a.pid : a \in A}
           U == [p \in D |-> Units(CHOOSE a \in A : a.pid = p)]
<1>1. \A b \in A : /\ b.start \in Nat /\ b.size \in Nat \ {0} /\ End(b) = b.start + b.size
                   /\ b.start \in 0 .. m
  BY DEF Sound, Records, End
<1>2. \A a, b \in A : a # b => Apart(a, b) /\ a.pid # b.pid
  BY DEF Sound
<1>3. \A a, b \in A : a.start = b.start => a = b
  BY <1>1, <1>2 DEF Apart
<1>4. IsFiniteSet(A)
  BY <1>1, <1>3, ListFinite
<1>5. IsFiniteSet(D)
  <2>1. [p \in D |-> CHOOSE a \in A : a.pid = p] \in Injection(D, A)
    BY DEF Injection, IsInjective
  <2> QED
    BY <1>4, <2>1, FS_Injection
<1>6. DOMAIN f = D /\ \A a \in A : (CHOOSE c \in A : c.pid = a.pid) = a /\ f[a.pid] = a.size
  BY <1>2, HeldIs
<1>7. \A a \in A : U[a.pid] = Units(a)
  BY <1>6
<1>8. \A p \in D : IsFiniteSet(U[p]) /\ f[p] = Cardinality(U[p])
  BY <1>1, <1>6, <1>7, UnitsOfBlock
<1>9. \A p, q \in D : p # q => U[p] \cap U[q] = {}
  BY <1>1, <1>2, <1>7, UnitsApart
<1>10. AllUnits(A) = Unite(U, D)
  <2>1. \A x : x \in AllUnits(A) => x \in Unite(U, D)
    <3> SUFFICES ASSUME NEW x \in AllUnits(A) PROVE x \in Unite(U, D)
      OBVIOUS
    <3>1. PICK a \in A : x \in Units(a)
      BY DEF AllUnits
    <3>2. a.pid \in D /\ x \in U[a.pid]
      BY <3>1, <1>7
    <3> HIDE DEF D, U
    <3> QED
      BY <3>2 DEF Unite
  <2>2. \A x : x \in Unite(U, D) => x \in AllUnits(A)
    <3> SUFFICES ASSUME NEW x \in Unite(U, D) PROVE x \in AllUnits(A)
      OBVIOUS
    <3>1. PICK p \in D : x \in U[p]
      BY DEF Unite
    <3>2. PICK a \in A : p = a.pid
      BY <3>1
    <3>3. x \in Units(a)
      BY <3>1, <3>2, <1>7
    <3> QED
      BY <3>3 DEF AllUnits
  <2> QED
    BY <2>1, <2>2
<1> HIDE DEF f, U, D
<1>11. PICK h : SumOn(SUBSET D, f, h) /\ Pool!SumFunction(f) = h[D]
  BY <1>5, <1>6, SumExists, HeldFold
<1>12. IsFiniteSet(Unite(U, D)) /\ h[D] = Cardinality(Unite(U, D))
  BY <1>5, <1>8, <1>9, <1>11, SumIsUnion
<1>13. IsFiniteSet(AllUnits(A)) /\ Pool!SumFunction(f) = Cardinality(AllUnits(A))
  BY <1>10, <1>11, <1>12
<1> QED
  BY <1>13 DEF f

\* Free and held memory share the memory there is, and are all of it when none
\* is lost.
LEMMA SharesSum ==
  ASSUME NEW F, NEW A, NEW m \in Nat, Sound(F, A, m)
  PROVE  /\ sum_free_memory(F) \in Nat /\ Pool!SumFunction(Held(A)) \in Nat
         /\ sum_free_memory(F) + Pool!SumFunction(Held(A)) <= m
         /\ Covers(F, A, m) => sum_free_memory(F) + Pool!SumFunction(Held(A)) = m
<1> DEFINE X == AllUnits(F)
           Y == AllUnits(A)
<1>1. \A b \in F \cup A : b.start \in Nat /\ b.size \in Nat \ {0} /\ End(b) = b.start + b.size
                          /\ End(b) <= m
  BY DEF Sound, Block, Records, End
<1>2. /\ IsFiniteSet(X) /\ sum_free_memory(F) = Cardinality(X)
      /\ IsFiniteSet(Y) /\ Pool!SumFunction(Held(A)) = Cardinality(Y)
  BY FreeSum, HeldSum
<1>3. X \cap Y = {}
  <2>1. \A a \in F, b \in A : Units(a) \cap Units(b) = {}
    BY <1>1, UnitsApart DEF Sound
  <2> QED
    BY <2>1 DEF AllUnits
<1>4. X \cup Y \subseteq 0 .. m - 1
  BY <1>1 DEF AllUnits, Units
<1>5. ASSUME Covers(F, A, m) PROVE 0 .. m - 1 \subseteq X \cup Y
  <2> SUFFICES ASSUME NEW x \in 0 .. m - 1 PROVE x \in X \cup Y
    OBVIOUS
  <2>1. PICK b \in F \cup A : b.start <= x /\ x < End(b)
    BY <1>5 DEF Covers
  <2>2. x \in Units(b)
    BY <2>1, <1>1 DEF Units
  <2> QED
    BY <2>1, <2>2 DEF AllUnits
<1> HIDE DEF X, Y
<1>6. /\ Cardinality(X) \in Nat /\ Cardinality(Y) \in Nat
      /\ IsFiniteSet(X \cup Y) /\ Cardinality(X \cup Y) = Cardinality(X) + Cardinality(Y)
  BY <1>2, <1>3, ApartUnion, FS_CardinalityType
<1>7. IsFiniteSet(0 .. m - 1) /\ Cardinality(0 .. m - 1) = m
  BY FS_Interval
<1>8. Cardinality(X \cup Y) <= m
  BY <1>4, <1>7, FS_Subset
<1>9. Covers(F, A, m) => Cardinality(X \cup Y) = m
  BY <1>4, <1>5, <1>7
<1> QED
  BY <1>2, <1>6, <1>8, <1>9

\* A free block is no larger than what nobody holds.
LEMMA BlockUnheld ==
  ASSUME NEW F, NEW A, NEW m \in Nat, Sound(F, A, m), NEW b \in F
  PROVE  b.size <= m - Pool!SumFunction(Held(A))
<1>1. Sound({b}, A, m)
  BY DEF Sound
<1>2. b.start \in Nat /\ b.size \in Nat
  BY DEF Sound, Block
<1>3. sum_free_memory({b}) = b.size
  <2>1. sum_free_memory({b}) = Cardinality(AllUnits({b}))
    BY <1>1, FreeSum
  <2>2. AllUnits({b}) = Units(b)
    BY DEF AllUnits
  <2> QED
    BY <2>1, <2>2, <1>2, UnitsOfBlock
<1> QED
  BY <1>1, <1>2, <1>3, SharesSum

\* Compaction leaves every process what it holds.
LEMMA PackedHeld ==
  ASSUME NEW A, mem_size \in Nat, Sound({}, A, mem_size), NEW to \in Packings(A)
  PROVE  Held(Packed(A, to)) = Held(A)
<1> DEFINE P == Packed(A, to)
<1>1. \A a \in A : a \in Records
  BY DEF Sound
<1>2. \A a, b \in A : a.pid = b.pid => a = b
  BY DEF Sound
<1>3. \A c \in P : \E a \in A : c = [pid |-> a.pid, start |-> to[a], size |-> a.size]
  BY <1>1 DEF Packed, Records
<1>4. ASSUME NEW a \in A PROVE \E c \in P : c.pid = a.pid /\ c.size = a.size
  <2>1. [a EXCEPT !.start = to[a]] \in P
    BY DEF Packed
  <2>2. a \in Records
    BY <1>1
  <2>3. [a EXCEPT !.start = to[a]].pid = a.pid /\ [a EXCEPT !.start = to[a]].size = a.size
    BY <2>2 DEF Records
  <2> HIDE DEF P
  <2> QED
    BY <2>1, <2>3
<1>5. \A c, d \in P : c.pid = d.pid => c = d
  BY <1>2, <1>3
<1>6. {c.pid : c \in P} = {a.pid : a \in A}
  BY <1>3, <1>4
<1> HIDE DEF P
<1>7. /\ DOMAIN Held(P) = {c.pid : c \in P} /\ DOMAIN Held(A) = {a.pid : a \in A}
      /\ \A c \in P : Held(P)[c.pid] = c.size
      /\ \A a \in A : Held(A)[a.pid] = a.size
  BY <1>2, <1>5, HeldIs
<1>8. \A p \in DOMAIN Held(A) : Held(P)[p] = Held(A)[p]
  <2> SUFFICES ASSUME NEW p \in DOMAIN Held(A) PROVE Held(P)[p] = Held(A)[p]
    OBVIOUS
  <2>1. PICK a \in A : p = a.pid
    BY <1>7
  <2>2. PICK c \in P : c.pid = a.pid /\ c.size = a.size
    BY <1>4
  <2> QED
    BY <2>1, <2>2, <1>7
<1>9. Held(P) = Held(A)
  BY <1>6, <1>7, <1>8 DEF Held
<1> QED
  BY <1>9 DEF P

\* A process that gets memory, and one that gives it back.
LEMMA HeldGrows ==
  ASSUME NEW A, \A a, c \in A : a.pid = c.pid => a = c,
         NEW new, \A a \in A : a.pid # new.pid
  PROVE  Held(A \cup {new}) = [p \in DOMAIN Held(A) \cup {new.pid} |->
                                IF p = new.pid THEN new.size ELSE Held(A)[p]]
<1> DEFINE B == A \cup {new}
           f == [p \in DOMAIN Held(A) \cup {new.pid} |->
                   IF p = new.pid THEN new.size ELSE Held(A)[p]]
<1>1. \A a, c \in B : a.pid = c.pid => a = c
  OBVIOUS
<1>2. {a.pid : a \in B} = {a.pid : a \in A} \cup {new.pid}
  OBVIOUS
<1>3. new \in B /\ A \subseteq B /\ \A b \in B : b = new \/ b \in A
  OBVIOUS
<1> HIDE DEF B
<1>4. /\ DOMAIN Held(A) = {a.pid : a \in A}
      /\ \A a \in A : Held(A)[a.pid] = a.size
  BY HeldIs
<1>5. /\ DOMAIN Held(B) = {a.pid : a \in B}
      /\ \A a \in B : Held(B)[a.pid] = a.size
  BY <1>1, HeldIs
<1>6. DOMAIN Held(B) = DOMAIN f
  BY <1>2, <1>4, <1>5
<1>7. ASSUME NEW p \in DOMAIN Held(B) PROVE Held(B)[p] = f[p]
  <2>1. PICK b \in B : p = b.pid
    BY <1>5
  <2>2. Held(B)[p] = b.size
    BY <2>1, <1>5
  <2>3. CASE b = new
    BY <2>1, <2>2, <2>3, <1>6
  <2>4. CASE b \in A
    BY <2>1, <2>2, <2>4, <1>4, <1>6
  <2> QED
    BY <2>3, <2>4, <1>3
<1>8. Held(B) = f
  BY <1>6, <1>7 DEF Held
<1> QED
  BY <1>8 DEF B

LEMMA HeldShrinks ==
  ASSUME NEW A, \A a, c \in A : a.pid = c.pid => a = c, NEW x \in A
  PROVE  Held(A \ {x}) = Pool!Restrict(Held(A), DOMAIN Held(A) \ {x.pid})
<1> DEFINE B == A \ {x}
           f == [p \in DOMAIN Held(A) \ {x.pid} |-> Held(A)[p]]
<1>1. B \subseteq A /\ x \notin B /\ \A a \in A : a = x \/ a \in B
  OBVIOUS
<1> HIDE DEF B
<1>2. /\ DOMAIN Held(A) = {a.pid : a \in A}
      /\ \A a \in A : Held(A)[a.pid] = a.size
  BY HeldIs
<1>3. /\ DOMAIN Held(B) = {a.pid : a \in B}
      /\ \A a \in B : Held(B)[a.pid] = a.size
  BY <1>1, HeldIs
<1>4. \A b \in B : b.pid # x.pid
  BY <1>1
<1>5. DOMAIN Held(B) = DOMAIN f
  BY <1>1, <1>2, <1>3, <1>4
<1>6. \A p \in DOMAIN Held(B) : Held(B)[p] = f[p]
  BY <1>1, <1>2, <1>3, <1>5
<1>7. Held(B) = f
  BY <1>5, <1>6 DEF Held
<1> QED
  BY <1>7 DEF B, Pool!Restrict

-----------------------------------------------------------------------------

\* The actions of MemoryPool, in the terms of MemSim.
LEMMA PoolGives ==
  ASSUME NEW n, NEW got,
         got <= mem_size - Pool!SumFunction(Held(allocs)),
         got = n \/ (n < got /\ got - n < MIN_SLICE),
         pid_seq' = pid_seq + 1,
         Held(allocs)' = [p \in DOMAIN Held(allocs) \cup {pid_seq'} |->
                            IF p = pid_seq' THEN got ELSE Held(allocs)[p]],
         reply' = [asked |-> n, got |-> got],
         lossy' \in {lossy, FALSE},
         UNCHANGED <<mem_size, MIN_SLICE, AUTO_COMPACT>>
  PROVE  Pool!Give(n, got)
BY UnheldIs DEF Pool!Give, Held, HeldBy

LEMMA PoolRefuses ==
  ASSUME NEW n,
         AUTO_COMPACT /\ ~lossy' => n > mem_size - Pool!SumFunction(Held(allocs)),
         pid_seq' = pid_seq + 1, UNCHANGED Held(allocs),
         reply' = [asked |-> n, got |-> 0],
         lossy' \in {lossy, TRUE},
         UNCHANGED <<mem_size, MIN_SLICE, AUTO_COMPACT>>
  PROVE  Pool!Refuse(n)
BY UnheldIs DEF Pool!Refuse, Held, HeldBy

LEMMA PoolReleases ==
  ASSUME NEW p,
         Held(allocs)' = Pool!Restrict(Held(allocs), DOMAIN Held(allocs) \ {p}),
         reply' = NoReply, lossy' \in {lossy, TRUE},
         UNCHANGED <<mem_size, pid_seq, MIN_SLICE, AUTO_COMPACT>>
  PROVE  Pool!Release(p)
BY DEF Pool!Release, Held, HeldBy, NoReply, Pool!NoReply

LEMMA PoolSkips ==
  ASSUME pid_seq' = pid_seq + 1, reply' = NoReply, UNCHANGED Held(allocs),
         UNCHANGED <<mem_size, MIN_SLICE, AUTO_COMPACT, lossy>>
  PROVE  Pool!Skip
BY DEF Pool!Skip, Held, HeldBy, NoReply, Pool!NoReply

LEMMA PoolResizes ==
  ASSUME Held(allocs) = << >>, UNCHANGED Held(allocs), mem_size' \in Sizes,
         lossy' \in {lossy, FALSE}, reply' = NoReply,
         UNCHANGED <<pid_seq, MIN_SLICE, AUTO_COMPACT>>
  PROVE  Pool!Resize
BY DEF Pool!Resize, Held, HeldBy, NoReply, Pool!NoReply

LEMMA PoolIsConfigured ==
  ASSUME MIN_SLICE' \in Nat, AUTO_COMPACT' \in BOOLEAN, reply' = NoReply,
         UNCHANGED Held(allocs), UNCHANGED <<mem_size, pid_seq, lossy>>
  PROVE  Pool!Configure
BY DEF Pool!Configure, Held, HeldBy, NoReply, Pool!NoReply

\* Nobody holds anything.
LEMMA HeldNothing == Held({}) = << >>
BY DEF Held

\* A request that gets memory from the lists F and A is the pool's Give.
LEMMA AllocateGives ==
  ASSUME IInv, NEW F, NEW A, NEW ord, NEW n \in Requests,
         Sound(F, A, mem_size), Held(A) = Held(allocs),
         \A a \in A : \E c \in allocs : a.pid = c.pid,
         NextPid, AllocateFrom(F, ord, A, n), lossy' \in {lossy, FALSE}
  PROVE  \E got \in 1 .. mem_size : Pool!Give(n, got)
<1>1. PICK b \in FirstFitting(F, ord, n) : \E got \in {Granted(b, n)} :
        /\ allocs' = A \cup {[pid |-> pid_seq', start |-> b.start, size |-> got]}
        /\ reply' = [asked |-> n, got |-> got]
        /\ UNCHANGED <<mem_size, MIN_SLICE, AUTO_COMPACT>>
  BY DEF AllocateFrom
<1> DEFINE got == Granted(b, n)
           new == [pid |-> pid_seq', start |-> b.start, size |-> got]
<1>2. b \in F /\ b.size >= n /\ b.size \in Nat \ {0} /\ n \in Nat \ {0} /\ b \in Block
  BY SizesAssumption DEF FirstFitting, Fitting, Sound, Block
<1>3. mem_size \in Nat /\ pid_seq \in Nat /\ pid_seq' = pid_seq + 1 /\ MIN_SLICE \in Nat
  BY SizesAssumption DEF IInv, TypeOK, NextPid
<1>4. /\ got = n \/ (n < got /\ got - n < MIN_SLICE)
      /\ got \in 1 .. b.size
  BY <1>2, <1>3 DEF Granted
<1>5. b.size <= mem_size - Pool!SumFunction(Held(A))
  BY <1>2, <1>3, BlockUnheld
<1>6. Pool!SumFunction(Held(A)) \in Nat
  BY <1>3, SharesSum
<1>7. /\ got <= mem_size - Pool!SumFunction(Held(allocs))
      /\ got \in 1 .. mem_size
  BY <1>2, <1>3, <1>4, <1>5, <1>6
<1>8. \A a \in A : a.pid # new.pid
  BY <1>3 DEF IInv, TypeOK
<1>9. \A a, c \in A : a.pid = c.pid => a = c
  BY DEF Sound
<1>10. allocs' = A \cup {new} /\ new.pid = pid_seq' /\ new.size = got
       /\ reply' = [asked |-> n, got |-> got]
       /\ UNCHANGED <<mem_size, MIN_SLICE, AUTO_COMPACT>>
  BY <1>1
<1> HIDE DEF new, got
<1>11. Held(A \cup {new}) = [p \in DOMAIN Held(A) \cup {new.pid} |->
                               IF p = new.pid THEN new.size ELSE Held(A)[p]]
  BY <1>8, <1>9, HeldGrows
<1>12. Held(allocs)' = Held(A \cup {new})
  BY <1>10 DEF Held
<1>13. Held(allocs)' = [p \in DOMAIN Held(allocs) \cup {pid_seq'} |->
                          IF p = pid_seq' THEN got ELSE Held(allocs)[p]]
  BY <1>10, <1>11, <1>12
<1>14. ASSUME NEW g \in 1 .. mem_size, g = got PROVE Pool!Give(n, g)
  <2>1. /\ g <= mem_size - Pool!SumFunction(Held(allocs))
        /\ g = n \/ (n < g /\ g - n < MIN_SLICE)
        /\ reply' = [asked |-> n, got |-> g]
        /\ Held(allocs)' = [p \in DOMAIN Held(allocs) \cup {pid_seq'} |->
                              IF p = pid_seq' THEN g ELSE Held(allocs)[p]]
    BY <1>4, <1>7, <1>10, <1>13, <1>14
  <2> QED
    BY <1>3, <1>10, <2>1, PoolGives
<1> QED
  BY <1>7, <1>14

\* Every step of memsim.c is one of the pool, or none it can see.
LEMMA StepImplements ==
  ASSUME IInv, Accounted, [Next]_vars
  PROVE  [Pool!Next]_Pool!vars
<1>1. mem_size \in Nat /\ mem_size \in Sizes /\ pid_seq \in Nat /\ MIN_SLICE \in Nat
      /\ Sound(free, allocs, mem_size) /\ AUTO_COMPACT \in BOOLEAN
  BY SizesAssumption DEF IInv, TypeOK
<1>2. allocs' = allocs => UNCHANGED Held(allocs)
  BY DEF Held
<1>3. Sound({}, allocs, mem_size)
  BY <1>1 DEF Sound
<1>4. ASSUME NEW size \in Sizes, set_mem_size(size) PROVE Pool!Resize
  <2>1. allocs = {} /\ Held(allocs) = << >>
    BY <1>4, HeldNothing DEF set_mem_size, IInv, EmptyUntilLocked
  <2> QED
    BY <1>2, <1>4, <2>1, PoolResizes DEF set_mem_size
<1>5. ASSUME NEW alg \in {"FF", "BF", "WF"}, set_algorithm(alg) PROVE Pool!Configure
  BY <1>1, <1>2, <1>5, PoolIsConfigured DEF set_algorithm
<1>6. ASSUME NEW v \in Slices, set_min_slice(v) PROVE Pool!Configure
  BY <1>1, <1>2, <1>6, SizesAssumption, PoolIsConfigured DEF set_min_slice, lists
<1>7. ASSUME toggle_auto_compact PROVE Pool!Configure
  BY <1>1, <1>2, <1>7, PoolIsConfigured DEF toggle_auto_compact, lists
<1>8. ASSUME new_process_invalid PROVE Pool!Skip
  BY <1>2, <1>8, PoolSkips DEF new_process_invalid, NextPid, lists, settings
<1>9. ASSUME NEW n \in Requests, new_process(n)
      PROVE  \E got \in 1 .. mem_size : Pool!Give(n, got)
  BY <1>1, <1>9, AllocateGives DEF new_process
<1>10. ASSUME NEW n \in Requests, new_process_compacts(n)
       PROVE  \E got \in 1 .. mem_size : Pool!Give(n, got)
  <2>1. PICK to \in Packings(allocs) :
          AllocateFrom(Tail(Packed(allocs, to)), ma_algorithm, Packed(allocs, to), n)
    BY <1>10 DEF new_process_compacts
  <2>2. /\ Sound(Tail(Packed(allocs, to)), Packed(allocs, to), mem_size)
        /\ \A c \in Packed(allocs, to) : \E a \in allocs : c.pid = a.pid
    BY <1>1, <1>3, PackSound
  <2>3. Held(Packed(allocs, to)) = Held(allocs)
    BY <1>1, <1>3, PackedHeld
  <2> QED
    BY <1>10, <2>1, <2>2, <2>3, AllocateGives DEF new_process_compacts
<1>11. ASSUME NEW n \in Requests, new_process_compaction_fails(n) PROVE Pool!Refuse(n)
  <2>1. PICK to \in Packings(allocs) : allocs' = Packed(allocs, to)
    BY <1>11 DEF new_process_compaction_fails
  <2> DEFINE A == Packed(allocs, to)
  <2>2. Held(A) = Held(allocs) /\ allocs' = A
    BY <1>1, <1>3, <2>1, PackedHeld
  <2> HIDE DEF A
  <2>3. Held(allocs') = Held(A)
    BY <2>2, Zenon
  <2>4. UNCHANGED Held(allocs)
    <3>1. Held(allocs)' = Held(allocs')
      BY DEF Held
    <3> QED
      BY <2>2, <2>3, <3>1, Zenon
  <2> QED
    BY <1>11, <2>4, PoolRefuses DEF new_process_compaction_fails, NextPid, settings
<1>12. ASSUME NEW n \in Requests, new_process_refused(n) PROVE Pool!Refuse(n)
  <2>1. UNCHANGED <<allocs, mem_size, MIN_SLICE, AUTO_COMPACT, lossy>> /\ pid_seq' = pid_seq + 1
        /\ reply' = [asked |-> n, got |-> 0] /\ ~WorthCompacting(n)
    BY <1>12 DEF new_process_refused, NextPid, lists, settings
  <2>2. ASSUME AUTO_COMPACT, ~lossy PROVE n > mem_size - Pool!SumFunction(Held(allocs))
    <3>1. n > sum_free_memory(free)
      <4>1. sum_free_memory(free) \in Nat /\ n \in Nat
        BY <1>1, SharesSum, SizesAssumption
      <4> QED
        BY <4>1, <2>1, <2>2 DEF WorthCompacting
    <3>2. /\ sum_free_memory(free) \in Nat /\ Pool!SumFunction(Held(allocs)) \in Nat
          /\ sum_free_memory(free) + Pool!SumFunction(Held(allocs)) = mem_size
      BY <1>1, <2>2, SharesSum DEF Accounted
    <3> QED
      BY <3>1, <3>2, <1>1
  <2> QED
    BY <1>2, <2>1, <2>2, PoolRefuses
<1>13. ASSUME NEW a \in allocs, kill_process(a) PROVE Pool!Release(a.pid) /\ a.pid \in DOMAIN Held(allocs)
  <2>1. \A b, c \in allocs : b.pid = c.pid => b = c
    BY <1>1 DEF Sound
  <2>2. Held(allocs \ {a}) = Pool!Restrict(Held(allocs), DOMAIN Held(allocs) \ {a.pid})
    BY <2>1, HeldShrinks
  <2>3. Held(allocs)' = Held(allocs \ {a})
    BY <1>13 DEF kill_process, Held
  <2>4. a.pid \in DOMAIN Held(allocs)
    BY DEF Held
  <2> QED
    BY <1>13, <2>2, <2>3, <2>4, PoolReleases DEF kill_process
<1>14. CASE UNCHANGED vars
  <2>1. UNCHANGED Pool!vars
    BY <1>14 DEF vars, lists, settings, Pool!vars, HeldBy
  <2> QED
    BY <2>1
<1>15. CASE merge_free_adjacent
  <2>1. UNCHANGED Pool!vars
    BY <1>15 DEF merge_free_adjacent, settings, Pool!vars, HeldBy
  <2> QED
    BY <2>1
<1>16. CASE Next /\ ~merge_free_adjacent
  <2>1. \/ \E n \in Requests : Pool!Refuse(n)
        \/ \E n \in Requests, got \in 1 .. mem_size : Pool!Give(n, got)
        \/ \E p \in DOMAIN Held(allocs) : Pool!Release(p)
        \/ Pool!Skip \/ Pool!Resize \/ Pool!Configure
    BY <1>4, <1>5, <1>6, <1>7, <1>8, <1>9, <1>10, <1>11, <1>12, <1>13, <1>16 DEF Next, Choice
  <2>2. DOMAIN Held(allocs) = DOMAIN [p \in {a.pid : a \in allocs} |-> HeldBy(p)]
    BY DEF Held
  <2> QED
    BY <2>1, <2>2 DEF Pool!Next
<1> QED
  BY <1>14, <1>15, <1>16

LEMMA InitImplements == Init => Pool!Init
<1> SUFFICES ASSUME Init PROVE Pool!Init
  OBVIOUS
<1>1. allocs = {} /\ Held(allocs) = << >>
  BY HeldNothing DEF Init
<1>2. [p \in {a.pid : a \in allocs} |-> HeldBy(p)] = Held(allocs)
  BY DEF Held, HeldBy
<1> QED
  BY <1>1, <1>2, SizesAssumption DEF Init, Pool!Init, NoReply, Pool!NoReply

\* memsim.c is a pool of memory: with compaction it refuses a request only when less than
\* that is free, what a process gets is what it asked for and at most a small remainder,
\* and it holds that until it is ended, wherever it is moved.
THEOREM ImplementsHolds == Spec => Implements
<1>1. IInv /\ Accounted /\ [Next]_vars => [Pool!Next]_Pool!vars
  BY StepImplements
<1> QED
  BY <1>1, InitImplements, InvariantHolds, AccountedHolds, PTL DEF Spec, Implements, Pool!Spec
=============================================================================
