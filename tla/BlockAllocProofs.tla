-------------------------- MODULE BlockAllocProofs --------------------------
(***************************************************************************)
(* Proofs about BlockAlloc, for every number of blocks, inodes and crashes *)
(* and for both layouts of g_sb and g_gd.                                  *)
(***************************************************************************)
EXTENDS BlockAlloc, FiniteSetTheorems, TLAPS

-----------------------------------------------------------------------------
(* The inductive invariant. *)

Allocating == op = "write" /\ pc \in {"sb", "gd", "zero", "link"}

\* Which function runs at which pc, and what "use" and "mind" then are.
Phase ==
  /\ op = "none" <=> pc = "idle"
  /\ pc \in {"map", "leaf", "zero", "link"} => op = "write"
  /\ pc = "free" => op = "truncate"
  /\ Allocating => new \in bbm /\ use \in {"direct", "table", "leaf"}
  /\ Allocating /\ use = "table" => mind = NilBlock
  /\ Allocating /\ use = "leaf" => mind # NilBlock
  /\ pc = "leaf" => mind # NilBlock
  /\ pc = "link" => use = "leaf"
  /\ op = "truncate" /\ pc \in {"sb", "gd"} => bbm # Blocks

\* How the running function's copy of the inode relates to the image.
Copy ==
  ~reused =>
    /\ op = "write" =>
         /\ direct[cur] \subseteq mdir /\ ind[cur] \in {NilBlock, mind}
         /\ mdir \cap Entered(mind) = {} /\ mind \notin mdir \cup Entered(mind)
         /\ Reach(mdir, mind) \ Refs(cur) \subseteq bbm
         /\ \A j \in Inodes \ {cur} : Reach(mdir, mind) \cap Refs(j) = {}
    /\ Allocating => /\ new \notin Reach(mdir, mind)
                     /\ \A i \in Inodes : new \notin Refs(i)
    /\ op = "truncate" => todo \subseteq Refs(cur)

IInv == TypeOK /\ Phase /\ Ownership /\ Copy /\ CounterDrift

-----------------------------------------------------------------------------
(* Types *)

\* Every step leaves values of the C types in the variables (fs.h: superblock_t,
\* group_desc_t, inode_t).
LEMMA TypeStep == TypeOK /\ Phase /\ [Next]_vars => TypeOK'
<1> SUFFICES ASSUME TypeOK, Phase, [Next]_vars
             PROVE  TypeOK'
  OBVIOUS
<1> USE WordAssumption DEF TypeOK
<1>c. Count(sb) \in 0..Word - 1 /\ Count(gd) \in 0..Word - 1
  BY DEF Count, Inc, Dec
<1>1. CASE \E i \in Inodes : StartWrite(i)
  BY <1>1 DEF StartWrite, counters, inode, history
<1>2. CASE \E i \in Inodes : StartTruncate(i)
  BY <1>2 DEF StartTruncate, Refs, Reach, Entered, counters, inode, history
<1>3. CASE \E b \in Blocks, u \in {"direct", "table", "leaf"} : AllocBit(u, b)
  BY <1>3 DEF AllocBit, counters, inode
<1>4. CASE \E b \in Blocks : WriteData(b)
  BY <1>4 DEF WriteData, counters, inode, mem, history
<1>5. CASE \E b \in Blocks : FreeBit(b)
  BY <1>5 DEF FreeBit, counters, inode, history
<1>6. CASE AllocFail
  BY <1>6 DEF AllocFail, Return, counters, inode, history
<1>7. CASE ZeroBlock
  BY <1>7 DEF ZeroBlock, Phase, Allocating, counters, inode, history
<1>8. CASE LinkTable
  BY <1>8 DEF LinkTable, Phase, Allocating, counters, inode, mem, history
<1>9. CASE FinishWrite
  BY <1>9 DEF FinishWrite, Return, counters, history
<1>10. CASE ClearInode
  BY <1>10 DEF ClearInode, Return, counters
<1>11. CASE WriteSb
  BY <1>11, <1>c DEF WriteSb, inode, mem, history
<1>12. CASE WriteGd
  BY <1>12, <1>c DEF WriteGd, inode, mem, history
<1>13. CASE Crash
  BY <1>13 DEF Crash, Return, inode
<1>14. CASE UNCHANGED vars
  BY <1>14 DEF vars, counters, inode, mem, history
<1> QED
  BY <1>1, <1>2, <1>3, <1>4, <1>5, <1>6, <1>7, <1>8, <1>9, <1>10, <1>11, <1>12,
     <1>13, <1>14 DEF Next

\* The program counter and the function agree, so that the counters are moved
\* in the right direction and a block is entered where it was allocated for.
LEMMA PhaseStep == TypeOK /\ Phase /\ [Next]_vars => Phase'
<1> SUFFICES ASSUME TypeOK, Phase, [Next]_vars
             PROVE  Phase'
  OBVIOUS
<1> USE DEF Phase, Allocating
<1>1. CASE \E i \in Inodes : StartWrite(i)
  BY <1>1 DEF StartWrite
<1>2. CASE \E i \in Inodes : StartTruncate(i)
  BY <1>2 DEF StartTruncate
<1>3. CASE \E b \in Blocks, u \in {"direct", "table", "leaf"} : AllocBit(u, b)
  BY <1>3 DEF AllocBit
<1>4. CASE \E b \in Blocks : WriteData(b)
  BY <1>4 DEF WriteData, mem
<1>5. CASE \E b \in Blocks : FreeBit(b)
  BY <1>5 DEF FreeBit, TypeOK
<1>6. CASE AllocFail
  BY <1>6 DEF AllocFail, Return
<1>7. CASE ZeroBlock
  BY <1>7, BlocksAssumption DEF ZeroBlock, TypeOK
<1>8. CASE LinkTable
  BY <1>8 DEF LinkTable, mem
<1>9. CASE FinishWrite
  BY <1>9 DEF FinishWrite, Return
<1>10. CASE ClearInode
  BY <1>10 DEF ClearInode, Return
<1>11. CASE WriteSb
  BY <1>11 DEF WriteSb, mem
<1>12. CASE WriteGd
  BY <1>12 DEF WriteGd, mem, TypeOK
<1>13. CASE Crash
  BY <1>13 DEF Crash, Return
<1>14. CASE UNCHANGED vars
  BY <1>14 DEF vars, mem
<1> QED
  BY <1>1, <1>2, <1>3, <1>4, <1>5, <1>6, <1>7, <1>8, <1>9, <1>10, <1>11, <1>12,
     <1>13, <1>14 DEF Next

-----------------------------------------------------------------------------
(* Who holds what *)

Held == Ownership /\ Copy

\* A step that changes neither what the inodes reach nor the bitmap nor reused,
\* and leaves no function running, keeps the ownership.
LEMMA HeldIdle ==
  ASSUME Held, UNCHANGED <<bbm, direct, ind, table, reused>>, op' = "none",
         pc' = "idle", Loose \subseteq Loose'
  PROVE  Held'
BY DEF Held, Ownership, Copy, Allocating, Refs, Reach, Entered

\* Starting to write: the copy is the inode itself.
LEMMA HeldStartWrite ==
  ASSUME TypeOK, Phase, Held, NEW i \in Inodes, StartWrite(i)
  PROVE  Held'
<1> SUFFICES ASSUME ~reused
             PROVE  Held'
  BY DEF Held, Ownership, Copy, StartWrite, history
<1> USE DEF StartWrite, counters, inode, history
<1>1. Ownership
  BY DEF Held
<1>2. /\ \A j \in Inodes : Refs(j)' = Refs(j) /\ Entered(ind[j])' = Entered(ind[j])
      /\ Reach(mdir, mind)' = Refs(i) /\ Entered(mind)' = Entered(ind[i])
  BY DEF Refs, Reach, Entered
<1>3. Ownership'
  BY <1>1, <1>2 DEF Ownership, Loose, Phase
<1>4. Copy'
  BY <1>1, <1>2 DEF Ownership, Copy, Allocating
<1> QED
  BY <1>3, <1>4 DEF Held

\* alloc_block takes a block that is not marked, so no inode has it and the copy
\* does not.
LEMMA HeldAllocBit ==
  ASSUME TypeOK, Phase, Held, NEW u, NEW b \in Blocks, AllocBit(u, b)
  PROVE  Held'
<1> SUFFICES ASSUME ~reused'
             PROVE  Held'
  BY DEF Held, Ownership, Copy
<1> USE DEF AllocBit, counters, inode
<1>1. Ownership /\ Copy /\ ~reused
  BY DEF Held
<1>2. \A i \in Inodes : b \notin Refs(i) /\ Refs(i)' = Refs(i)
  BY DEF Refs, Reach, Entered
<1>3. Reach(mdir, mind)' = Reach(mdir, mind) /\ Entered(mind)' = Entered(mind)
  BY DEF Reach, Entered
<1>4. b \notin Reach(mdir, mind)
  BY <1>1, <1>2 DEF Copy, TypeOK
<1>5. Ownership'
  BY <1>1, <1>2 DEF Ownership, Loose, Entered
<1>6. Copy'
  BY <1>1, <1>2, <1>3, <1>4 DEF Copy, Allocating, TypeOK
<1> QED
  BY <1>5, <1>6 DEF Held

\* Clearing a new block cannot hit a block that is read as an indirect block.
LEMMA HeldZeroBlock ==
  ASSUME TypeOK, Phase, Held, ZeroBlock
  PROVE  Held'
<1> SUFFICES ASSUME ~reused
             PROVE  Held'
  BY DEF Held, Ownership, Copy, ZeroBlock, history
<1> USE DEF ZeroBlock, counters, inode, history
<1>1. Ownership /\ Copy /\ op = "write" /\ Allocating
  BY DEF Held, Phase, Allocating
<1>2. /\ new \notin Reach(mdir, mind) /\ new \in Blocks /\ new # NilBlock
      /\ \A i \in Inodes : new \notin Refs(i)
  BY <1>1, BlocksAssumption DEF Copy, Phase, TypeOK
<1>3. \A i \in Inodes : Refs(i)' = Refs(i) /\ Entered(ind[i])' = Entered(ind[i])
  BY <1>2 DEF Refs, Reach, Entered, TypeOK
<1>4. Ownership'
  BY <1>1, <1>3 DEF Ownership, Loose
<1>5. CASE use = "direct"
  <2>1. Entered(mind)' = Entered(mind) /\ Reach(mdir, mind)' = Reach(mdir, mind) \cup {new}
    BY <1>2, <1>5 DEF Reach, Entered, TypeOK
  <2> QED
    BY <1>1, <1>2, <1>3, <1>4, <1>5, <2>1 DEF Held, Copy, Allocating, Phase, TypeOK, Reach
<1>6. CASE use = "table"
  <2>1. Entered(mind)' = {} /\ Reach(mdir, mind)' = mdir \cup {new}
    BY <1>2, <1>6 DEF Reach, Entered, TypeOK
  <2> QED
    BY <1>1, <1>2, <1>3, <1>4, <1>6, <2>1 DEF Held, Copy, Allocating, Phase, TypeOK, Reach
<1>7. CASE use = "leaf"
  <2>1. Entered(mind)' = Entered(mind) /\ Reach(mdir, mind)' = Reach(mdir, mind)
    BY <1>2, <1>7 DEF Reach, Entered, TypeOK
  <2> QED
    BY <1>1, <1>2, <1>3, <1>4, <1>7, <2>1 DEF Held, Copy, Allocating, TypeOK
<1> QED
  BY <1>5, <1>6, <1>7

\* Entering the new block in the indirect block changes what this inode reaches
\* and no other.
LEMMA HeldLinkTable ==
  ASSUME TypeOK, Phase, Held, LinkTable
  PROVE  Held'
<1> SUFFICES ASSUME ~reused
             PROVE  Held'
  BY DEF Held, Ownership, Copy, LinkTable, history
<1> USE DEF LinkTable, counters, inode, mem, history
<1>1. Ownership /\ Copy /\ op = "write" /\ Allocating /\ mind \in Blocks
  BY DEF Held, Phase, Allocating, TypeOK
<1>2. /\ new \notin Reach(mdir, mind) /\ new \in bbm /\ mind # NilBlock
      /\ \A i \in Inodes : new \notin Refs(i)
  BY <1>1, BlocksAssumption DEF Copy, Phase
<1>3. \A j \in Inodes \ {cur} :
        Refs(j)' = Refs(j) /\ Entered(ind[j])' = Entered(ind[j])
  BY <1>1, <1>2 DEF Copy, Refs, Reach, Entered, TypeOK
<1>4. /\ Entered(mind)' = Entered(mind) \cup {new}
      /\ Reach(mdir, mind)' = Reach(mdir, mind) \cup {new}
  BY <1>1, <1>2 DEF Reach, Entered, TypeOK
<1>5. /\ Entered(ind[cur])' = Entered(ind[cur]) \cup (IF ind[cur] = NilBlock THEN {} ELSE {new})
      /\ Refs(cur)' = Refs(cur) \cup (IF ind[cur] = NilBlock THEN {} ELSE {new})
  BY <1>1, <1>2 DEF Copy, Refs, Reach, Entered, TypeOK
<1>6. new # ind[cur] /\ new \notin direct[cur]
  BY <1>2, BlocksAssumption DEF Refs, Reach, TypeOK
<1>7. Ownership'
  BY <1>1, <1>2, <1>3, <1>5, <1>6 DEF Ownership, Loose, TypeOK
<1>8. Copy'
  BY <1>1, <1>2, <1>3, <1>4, <1>5 DEF Copy, Allocating, TypeOK, Reach
<1> QED
  BY <1>7, <1>8 DEF Held

\* Data goes to blocks of the copy, which are nobody's indirect block.
LEMMA WriteDataReused ==
  ASSUME TypeOK, Phase, Held, NEW b \in Blocks, WriteData(b)
  PROVE  reused
<1> SUFFICES ASSUME ~reused
             PROVE  FALSE
  OBVIOUS
<1>1. Copy /\ op = "write" /\ b # NilBlock /\ b \in Reach(mdir, mind)
  BY BlocksAssumption DEF Held, Phase, WriteData, Reach
<1>2. b # mind
  BY <1>1 DEF Copy, WriteData
<1>3. PICK i \in Inodes : b = ind[i]
  BY <1>2 DEF WriteData
<1>4. b \in Refs(i)
  BY <1>1, <1>3 DEF Refs, Reach
<1>5. i = cur
  BY <1>1, <1>4 DEF Copy
<1> QED
  BY <1>1, <1>2, <1>3, <1>5 DEF Copy

\* The inode now reaches what its copy did.
LEMMA HeldFinishWrite ==
  ASSUME TypeOK, Phase, Held, FinishWrite
  PROVE  Held'
<1> SUFFICES ASSUME ~reused
             PROVE  Held'
  BY DEF Held, Ownership, Copy, FinishWrite, history
<1> USE DEF FinishWrite, Return, counters, history
<1>1. Ownership /\ Copy /\ op = "write"
  BY DEF Held, Phase
<1>2. Refs(cur)' = Reach(mdir, mind) /\ Entered(ind[cur])' = Entered(mind)
  BY DEF Refs, Reach, Entered, TypeOK
<1>3. \A j \in Inodes \ {cur} :
        Refs(j)' = Refs(j) /\ Entered(ind[j])' = Entered(ind[j])
  BY DEF Refs, Reach, Entered, TypeOK
<1>4. cur \notin torn => Reach(mdir, mind) \subseteq bbm
  BY <1>1 DEF Ownership, Copy, Loose, TypeOK
<1>5. Ownership'
  BY <1>1, <1>2, <1>3, <1>4 DEF Ownership, Copy, Loose, TypeOK
<1> QED
  BY <1>5 DEF Held, Copy, Allocating

\* inode_truncate frees blocks of its own inode only.
LEMMA HeldStartTruncate ==
  ASSUME TypeOK, Phase, Held, NEW i \in Inodes, StartTruncate(i)
  PROVE  Held'
<1> SUFFICES ASSUME ~reused
             PROVE  Held'
  BY DEF Held, Ownership, Copy, StartTruncate, history
<1> USE DEF StartTruncate, counters, inode, history
<1>1. Ownership
  BY DEF Held
<1>2. /\ \A j \in Inodes : Refs(j)' = Refs(j) /\ Entered(ind[j])' = Entered(ind[j])
  BY DEF Refs, Reach, Entered
<1>3. Ownership'
  BY <1>1, <1>2 DEF Ownership, Loose, Phase
<1>4. Copy'
  BY <1>2 DEF Copy, Allocating
<1> QED
  BY <1>3, <1>4 DEF Held

LEMMA HeldFreeBit ==
  ASSUME TypeOK, Phase, Held, NEW b \in Blocks, FreeBit(b)
  PROVE  Held'
<1> SUFFICES ASSUME ~reused
             PROVE  Held'
  BY DEF Held, Ownership, Copy, FreeBit, history
<1> USE DEF FreeBit, counters, inode, history
<1>1. Ownership /\ Copy /\ op = "truncate" /\ cur \in Inodes
  BY DEF Held, Phase, TypeOK
<1>2. \A j \in Inodes : Refs(j)' = Refs(j) /\ Entered(ind[j])' = Entered(ind[j])
  BY DEF Refs, Reach, Entered
<1>3. b \in Refs(cur)
  BY <1>1 DEF Copy, NextToFree
<1>4. Ownership'
  BY <1>1, <1>2, <1>3 DEF Ownership, Loose
<1>5. Copy'
  BY <1>1, <1>2 DEF Copy, Allocating, TypeOK
<1> QED
  BY <1>4, <1>5 DEF Held

\* Once all its blocks are free, the inode is cleared and reaches none.
LEMMA HeldClearInode ==
  ASSUME TypeOK, Phase, Held, ClearInode
  PROVE  Held'
<1> SUFFICES ASSUME ~reused
             PROVE  Held'
  BY DEF Held, Ownership, Copy, ClearInode
<1> USE DEF ClearInode, Return, counters
<1>1. Ownership /\ op = "truncate" /\ cur \in Inodes
  BY DEF Held, Phase, TypeOK
<1>2. Refs(cur)' = {} /\ Entered(ind[cur])' = {}
  BY DEF Refs, Reach, Entered, TypeOK
<1>3. \A j \in Inodes \ {cur} :
        Refs(j)' = Refs(j) /\ Entered(ind[j])' = Entered(ind[j])
  BY DEF Refs, Reach, Entered, TypeOK
<1>4. direct[cur]' = {} /\ ind[cur]' = NilBlock
  BY DEF TypeOK
<1>5. Ownership'
  BY <1>1, <1>2, <1>3, <1>4 DEF Ownership, Loose, TypeOK
<1> QED
  BY <1>5 DEF Held, Copy, Allocating

\* No step, a crash included, gives a block two places or frees one that an
\* inode outside a truncate reaches.
LEMMA HeldStep == TypeOK /\ Phase /\ Held /\ [Next]_vars => Held'
<1> SUFFICES ASSUME TypeOK, Phase, Held, [Next]_vars
             PROVE  Held'
  OBVIOUS
<1>1. CASE \E i \in Inodes : StartWrite(i)
  BY <1>1, HeldStartWrite
<1>2. CASE \E i \in Inodes : StartTruncate(i)
  BY <1>2, HeldStartTruncate
<1>3. CASE \E b \in Blocks, u \in {"direct", "table", "leaf"} : AllocBit(u, b)
  BY <1>3, HeldAllocBit
<1>4. CASE \E b \in Blocks : WriteData(b)
  <2>1. reused
    BY <1>4, WriteDataReused
  <2>2. reused' = reused
    BY <1>4 DEF WriteData, history
  <2> QED
    BY <2>1, <2>2 DEF Held, Ownership, Copy
<1>5. CASE \E b \in Blocks : FreeBit(b)
  BY <1>5, HeldFreeBit
<1>6. CASE AllocFail
  BY <1>6, HeldIdle DEF AllocFail, Return, Loose, Phase, inode, history
<1>7. CASE ZeroBlock
  BY <1>7, HeldZeroBlock
<1>8. CASE LinkTable
  BY <1>8, HeldLinkTable
<1>9. CASE FinishWrite
  BY <1>9, HeldFinishWrite
<1>10. CASE ClearInode
  BY <1>10, HeldClearInode
<1>11. CASE WriteSb
  BY <1>11 DEF WriteSb, Phase, Held, Ownership, Copy, Allocating, Loose, Refs, Reach,
     Entered, inode, mem, history
<1>12. CASE WriteGd
  BY <1>12 DEF WriteGd, Phase, Held, Ownership, Copy, Allocating, Loose, Refs, Reach,
     Entered, inode, mem, history
<1>13. CASE Crash
  BY <1>13, HeldIdle DEF Crash, Return, Loose, inode
<1>14. CASE UNCHANGED vars
  BY <1>14 DEF vars, Held, Ownership, Copy, Allocating, Loose, Refs, Reach, Entered,
     inode, mem, history
<1> QED
  BY <1>1, <1>2, <1>3, <1>4, <1>5, <1>6, <1>7, <1>8, <1>9, <1>10, <1>11, <1>12,
     <1>13, <1>14 DEF Next

-----------------------------------------------------------------------------
(* The counters *)

\* The number of clear bits is within the device, and one bit moves it by one.
LEMMA FreeRange ==
  ASSUME NEW S \in SUBSET Blocks
  PROVE  /\ Cardinality(Blocks) \in Nat
         /\ Cardinality(Blocks \ S) \in 0..Cardinality(Blocks)
         /\ \A b \in Blocks \ S :
              /\ Cardinality(Blocks \ S) >= 1
              /\ Cardinality(Blocks \ (S \cup {b})) = Cardinality(Blocks \ S) - 1
<1>1. IsFiniteSet(Blocks) /\ IsFiniteSet(Blocks \ S)
  BY BlocksAssumption, FS_Subset
<1>2. /\ Cardinality(Blocks) \in Nat
      /\ Cardinality(Blocks \ S) \in Nat /\ Cardinality(Blocks \ S) <= Cardinality(Blocks)
  BY <1>1, FS_CardinalityType, FS_Subset
<1>3. ASSUME NEW b \in Blocks \ S
      PROVE  /\ Cardinality(Blocks \ S) >= 1
             /\ Cardinality(Blocks \ (S \cup {b})) = Cardinality(Blocks \ S) - 1
  <2>1. Blocks \ (S \cup {b}) = (Blocks \ S) \ {b}
    OBVIOUS
  <2>2. Cardinality((Blocks \ S) \ {b}) = Cardinality(Blocks \ S) - 1
    BY <1>1, <1>3, FS_RemoveElement
  <2>3. Cardinality((Blocks \ S) \ {b}) \in Nat
    BY <1>1, FS_CardinalityType, FS_RemoveElement
  <2> QED
    BY <1>2, <2>1, <2>2, <2>3
<1> QED
  BY <1>2, <1>3

\* What fs_format counts.
DataBlocks == Cardinality(Blocks) + Unrecorded

\* Counting goes from one number of free blocks to the next, also where the
\* counter wraps around.
LEMMA CountWraps ==
  ASSUME NEW n \in 0..DataBlocks, NEW k \in -MaxCrashes..MaxCrashes
  PROVE  /\ n < DataBlocks => Inc(Wrap(n + k)) = Wrap((n + 1) + k)
         /\ n > 0 => Dec(Wrap(n + k)) = Wrap((n - 1) + k)
<1>0. Cardinality(Blocks) \in Nat
  BY FreeRange
<1>1. DataBlocks \in Nat
  BY <1>0, WordAssumption DEF DataBlocks
<1>2. n \in Int /\ k \in Int /\ n <= DataBlocks
      /\ k <= MaxCrashes /\ -MaxCrashes <= k /\ n >= 0
      /\ MaxCrashes + DataBlocks < Word /\ Word \in Nat /\ MaxCrashes \in Nat
  BY <1>0, <1>1, WordAssumption DEF DataBlocks
<1> HIDE DEF DataBlocks
<1>3. ASSUME n < DataBlocks
      PROVE  Inc(Wrap(n + k)) = Wrap((n + 1) + k)
  BY <1>1, <1>2, <1>3 DEF Inc, Wrap
<1>4. ASSUME n > 0
      PROVE  Dec(Wrap(n + k)) = Wrap((n - 1) + k)
  BY <1>1, <1>2, <1>4 DEF Dec, Wrap
<1> QED
  BY <1>3, <1>4

\* While a counter lags behind the bitmap, "Before" is a number of blocks, and
\* the step it lags by leads from there to the present number.
LEMMA BeforeRange ==
  ASSUME TypeOK, Phase, pc \in {"sb", "gd"}
  PROVE  /\ Before \in 0..DataBlocks /\ Free \in 0..DataBlocks
         /\ \A k \in -MaxCrashes..MaxCrashes :
              Count(Wrap(Before + k)) = Wrap(Free + k)
<1>1. Free \in 0..DataBlocks /\ DataBlocks \in Nat
  BY FreeRange, WordAssumption DEF TypeOK, Free, DataBlocks
<1>2. CASE op = "truncate"
  <2>1. PICK b \in Blocks : b \notin bbm
    BY <1>2 DEF Phase, TypeOK
  <2>2. Free >= 1
    <3>1. /\ Cardinality(Blocks \ bbm) >= 1
          /\ Cardinality(Blocks \ bbm) \in 0..Cardinality(Blocks) /\ Cardinality(Blocks) \in Nat
      BY <2>1, FreeRange DEF TypeOK
    <3> QED
      BY <3>1, WordAssumption DEF Free
  <2>3. Before \in 0..DataBlocks /\ Before < DataBlocks /\ Before + 1 = Free
    BY <1>1, <1>2, <2>2 DEF Before
  <2>4. \A k \in -MaxCrashes..MaxCrashes : Inc(Wrap(Before + k)) = Wrap(Free + k)
    BY <2>3, CountWraps
  <2> QED
    BY <1>1, <1>2, <2>3, <2>4 DEF Count
<1>3. CASE op # "truncate"
  <2>1. new \in bbm /\ new \in Blocks
    BY <1>3 DEF Phase, Allocating, TypeOK
  <2>2. Free < DataBlocks
    <3> DEFINE S == bbm \ {new}
    <3>1. S \in SUBSET Blocks /\ new \in Blocks \ S /\ S \cup {new} = bbm
      BY <2>1 DEF TypeOK
    <3>2. Cardinality(Blocks \ S) \in 0..Cardinality(Blocks)
          /\ Cardinality(Blocks \ (S \cup {new})) = Cardinality(Blocks \ S) - 1
      BY <3>1, FreeRange
    <3>3. Cardinality(Blocks) \in Nat
      BY FreeRange
    <3>4. Cardinality(Blocks \ bbm) < Cardinality(Blocks) /\ Cardinality(Blocks \ bbm) \in Int
      BY <3>1, <3>2, <3>3
    <3> QED
      BY <3>3, <3>4, WordAssumption DEF Free, DataBlocks
  <2>3. Before \in 0..DataBlocks /\ Before > 0 /\ Before - 1 = Free
    BY <1>1, <1>3, <2>2 DEF Before
  <2>4. \A k \in -MaxCrashes..MaxCrashes : Dec(Wrap(Before + k)) = Wrap(Free + k)
    BY <2>3, CountWraps
  <2> QED
    BY <1>1, <1>3, <2>3, <2>4 DEF Count
<1> QED
  BY <1>2, <1>3

\* A step between two states outside the counting code that leaves the bitmap
\* and the counters alone.
LEMMA DriftUnchanged ==
  ASSUME CounterDrift, UNCHANGED <<bbm, sb, gd, tail, crashes>>,
         pc \notin {"sb", "gd"}, pc' \notin {"sb", "gd"}
  PROVE  CounterDrift'
BY DEF CounterDrift, Near, Wrap, Free

\* Once the bit is on the device the counters lag by one, by the number they
\* agreed with before.
LEMMA DriftBit ==
  ASSUME CounterDrift, UNCHANGED <<sb, gd, tail, crashes>>,
         pc \notin {"sb", "gd"}, pc' = "sb", Before' = Free
  PROVE  CounterDrift'
BY DEF CounterDrift, Near, Wrap

LEMMA DriftAllocBit ==
  ASSUME TypeOK, Phase, CounterDrift, NEW u, NEW b \in Blocks, AllocBit(u, b)
  PROVE  CounterDrift'
<1>1. Free' = Free - 1 /\ Free \in Int
  BY FreeRange, WordAssumption DEF AllocBit, TypeOK, Free
<1>2. Before' = Free
  BY <1>1 DEF AllocBit, Before
<1> QED
  BY <1>2, DriftBit DEF AllocBit, counters

LEMMA DriftFreeBit ==
  ASSUME TypeOK, Phase, CounterDrift, NEW b \in Blocks, FreeBit(b)
  PROVE  CounterDrift'
<1>1. CASE b \in bbm
  <2> DEFINE S == bbm \ {b}
  <2>1. S \in SUBSET Blocks /\ b \in Blocks \ S /\ S \cup {b} = bbm /\ bbm' = S
    BY <1>1 DEF TypeOK, FreeBit
  <2>2. Cardinality(Blocks \ S) \in Nat
        /\ Cardinality(Blocks \ (S \cup {b})) = Cardinality(Blocks \ S) - 1
    BY <2>1, FreeRange
  <2>3. Free' = Free + 1 /\ Free \in Int
    BY <2>1, <2>2, WordAssumption DEF Free
  <2>4. Before' = Free
    BY <2>3 DEF FreeBit, Before, Phase
  <2> QED
    BY <1>1, <2>4, DriftBit DEF FreeBit, counters, history
<1>2. CASE b \notin bbm
  BY <1>2, DriftUnchanged DEF FreeBit, counters, history
<1> QED
  BY <1>1, <1>2

LEMMA DriftWriteSb ==
  ASSUME TypeOK, Phase, CounterDrift, WriteSb
  PROVE  CounterDrift'
<1>1. Near(sb, Before) /\ Near(gd, Before) /\ Near(tail, Before) /\ pc = "sb"
  BY DEF CounterDrift, WriteSb
<1>2. Near(sb', Free)
  <2>1. PICK k \in -crashes..crashes : sb = Wrap(Before + k)
    BY <1>1 DEF Near
  <2>2. k \in -MaxCrashes..MaxCrashes
    BY <2>1, WordAssumption DEF TypeOK
  <2>3. sb' = Wrap(Free + k)
    BY <1>1, <2>1, <2>2, BeforeRange DEF WriteSb
  <2> QED
    BY <2>1, <2>3 DEF Near
<1> QED
  BY <1>1, <1>2 DEF CounterDrift, WriteSb, Near, Wrap, Free, Before, history

LEMMA DriftWriteGd ==
  ASSUME TypeOK, Phase, CounterDrift, WriteGd
  PROVE  CounterDrift'
<1>1. Near(sb, Free) /\ Near(gd, Before) /\ pc = "gd"
  BY DEF CounterDrift, WriteGd
<1>2. Near(gd', Free)
  <2>1. PICK k \in -crashes..crashes : gd = Wrap(Before + k)
    BY <1>1 DEF Near
  <2>2. k \in -MaxCrashes..MaxCrashes
    BY <2>1, WordAssumption DEF TypeOK
  <2>3. gd' = Wrap(Free + k)
    BY <1>1, <2>1, <2>2, BeforeRange DEF WriteGd
  <2> QED
    BY <2>1, <2>3 DEF Near
<1> QED
  BY <1>1, <1>2 DEF CounterDrift, WriteGd, Near, Wrap, Free, history

\* A crash makes the lag of a counter permanent, at the price of one crash.
LEMMA DriftCrash ==
  ASSUME TypeOK, Phase, CounterDrift, Crash
  PROVE  CounterDrift'
<1>1. /\ crashes \in Nat /\ crashes' = crashes + 1 /\ pc' = "idle"
      /\ Free' = Free /\ Free \in Int
  BY FreeRange, WordAssumption DEF Crash, Return, TypeOK, Free
<1>2. ASSUME NEW c, Near(c, Free)
      PROVE  \E k \in -(crashes + 1)..crashes + 1 : c = Wrap(Free + k)
  BY <1>1, <1>2 DEF Near
<1>3. ASSUME NEW c, Near(c, Before)
      PROVE  \E k \in -(crashes + 1)..crashes + 1 : c = Wrap(Free + k)
  <2>1. PICK k \in -crashes..crashes : c = Wrap(Before + k)
    BY <1>3 DEF Near
  <2>2. CASE op = "truncate"
    <3>1. Before + k = Free + (k - 1) /\ k - 1 \in -(crashes + 1)..crashes + 1
      BY <1>1, <2>2 DEF Before
    <3> QED
      BY <2>1, <3>1
  <2>3. CASE op # "truncate"
    <3>1. Before + k = Free + (k + 1) /\ k + 1 \in -(crashes + 1)..crashes + 1
      BY <1>1, <2>3 DEF Before
    <3> QED
      BY <2>1, <3>1
  <2> QED
    BY <2>2, <2>3
<1>4. \A c \in {sb, gd, tail} : Near(c, Free) \/ Near(c, Before)
  BY DEF CounterDrift
<1>5. \A c \in {sb, gd, tail} : \E k \in -(crashes + 1)..crashes + 1 : c = Wrap(Free + k)
  BY <1>2, <1>3, <1>4
<1>6. {sb', gd', tail'} \subseteq {sb, gd, tail}
  BY DEF Crash
<1> QED
  BY <1>1, <1>5, <1>6 DEF CounterDrift, Near, Wrap

\* Every step keeps the counters within the number of crashes of the bitmap.
LEMMA DriftStep == TypeOK /\ Phase /\ CounterDrift /\ [Next]_vars => CounterDrift'
<1> SUFFICES ASSUME TypeOK, Phase, CounterDrift, [Next]_vars
             PROVE  CounterDrift'
  OBVIOUS
<1>1. CASE \E i \in Inodes : StartWrite(i)
  BY <1>1, DriftUnchanged DEF StartWrite, counters, history
<1>2. CASE \E i \in Inodes : StartTruncate(i)
  BY <1>2, DriftUnchanged DEF StartTruncate, counters, history
<1>3. CASE \E b \in Blocks, u \in {"direct", "table", "leaf"} : AllocBit(u, b)
  BY <1>3, DriftAllocBit
<1>4. CASE \E b \in Blocks : WriteData(b)
  BY <1>4, DriftUnchanged DEF WriteData, counters, history
<1>5. CASE \E b \in Blocks : FreeBit(b)
  BY <1>5, DriftFreeBit
<1>6. CASE AllocFail
  BY <1>6, DriftUnchanged DEF AllocFail, Return, counters, history
<1>7. CASE ZeroBlock
  BY <1>7, DriftUnchanged DEF ZeroBlock, counters, history
<1>8. CASE LinkTable
  BY <1>8, DriftUnchanged DEF LinkTable, counters, history
<1>9. CASE FinishWrite
  BY <1>9, DriftUnchanged DEF FinishWrite, Return, counters, history
<1>10. CASE ClearInode
  BY <1>10, DriftUnchanged DEF ClearInode, Return, counters
<1>11. CASE WriteSb
  BY <1>11, DriftWriteSb
<1>12. CASE WriteGd
  BY <1>12, DriftWriteGd
<1>13. CASE Crash
  BY <1>13, DriftCrash
<1>14. CASE UNCHANGED vars
  BY <1>14 DEF vars, counters, history, CounterDrift, Near, Wrap, Free, Before
<1> QED
  BY <1>1, <1>2, <1>3, <1>4, <1>5, <1>6, <1>7, <1>8, <1>9, <1>10, <1>11, <1>12,
     <1>13, <1>14 DEF Next

-----------------------------------------------------------------------------
(* The theorems *)

\* After a format all inodes are empty and the counters say what they should.
LEMMA InitIInv == Init => IInv
<1> SUFFICES ASSUME Init
             PROVE  IInv
  OBVIOUS
<1>1. Cardinality(Blocks) \in Nat /\ Blocks \ {} = Blocks
  BY FreeRange
<1>2. TypeOK
  <2>1. DataBlocks \in 0..Word - 1 /\ 0 \in 0..MaxCrashes
    BY <1>1, WordAssumption DEF DataBlocks
  <2> QED
    BY <2>1 DEF Init, TypeOK, DataBlocks
<1>3. Phase /\ Copy
  BY DEF Init, Phase, Copy, Allocating
<1>4. Ownership
  BY DEF Init, Ownership, Refs, Reach, Entered
<1>5. Free = DataBlocks /\ bbm = {} /\ pc = "idle" /\ crashes = 0
  BY <1>1 DEF Init, Free, DataBlocks
<1>6. Near(DataBlocks, Free)
  BY <1>1, <1>5, WordAssumption DEF Near, Wrap, DataBlocks
<1>7. CounterDrift
  BY <1>5, <1>6 DEF Init, CounterDrift, DataBlocks
<1> QED
  BY <1>2, <1>3, <1>4, <1>7 DEF IInv

\* IInv holds throughout.
THEOREM Invariance == Spec => []IInv
<1>1. IInv /\ [Next]_vars => IInv'
  BY TypeStep, PhaseStep, HeldStep, DriftStep DEF IInv, Held
<1> QED
  BY InitIInv, <1>1, PTL DEF Spec

\* The image keeps its types (fs.h), whatever crashes.
THEOREM TypeCorrect == Spec => []TypeOK
<1>1. IInv => TypeOK
  BY DEF IInv
<1> QED
  BY Invariance, <1>1, PTL

\* No block has two owners, and all owned blocks are marked, until a block of an
\* interrupted inode_truncate is handed out: map_bn_for_write, dir_add and
\* inode_truncate order their writes well enough for all other crashes.
THEOREM OwnershipHolds == Spec => []Ownership
<1>1. IInv => Ownership
  BY DEF IInv
<1> QED
  BY Invariance, <1>1, PTL

\* free_blocks of superblock and group descriptor stay within the number of
\* crashes of the clear bits and the blocks without a bit, modulo 2^32 (bitmap.c).
THEOREM CounterDriftHolds == Spec => []CounterDrift
<1>1. IInv => CounterDrift
  BY DEF IInv
<1> QED
  BY Invariance, <1>1, PTL

\* The first block handed out that an inode still reaches is one of an inode
\* whose inode_truncate was cut.
THEOREM ReuseHolds == Spec => ReuseOnlyAfterTornTruncate
<1>1. IInv /\ [Next]_vars =>
        [~reused /\ reused' => \E i \in torn : new' \in Refs(i)]_vars
  <2> SUFFICES ASSUME IInv, Next, ~reused, reused'
               PROVE  \E i \in torn : new' \in Refs(i)
    OBVIOUS
  <2>1. PICK b \in Blocks, u \in {"direct", "table", "leaf"} : AllocBit(u, b)
    BY DEF Next, StartWrite, StartTruncate, WriteData, FreeBit, AllocFail, ZeroBlock,
       LinkTable, FinishWrite, ClearInode, WriteSb, WriteGd, Crash, history
  <2>2. PICK i \in Inodes : b \in Refs(i)
    BY <2>1 DEF AllocBit
  <2>3. b \notin bbm /\ new' = b /\ Loose = torn
    BY <2>1 DEF AllocBit, Loose
  <2>4. i \in torn
    BY <2>2, <2>3 DEF IInv, Ownership
  <2> QED
    BY <2>2, <2>3, <2>4
<1> QED
  BY Invariance, <1>1, PTL DEF Spec, ReuseOnlyAfterTornTruncate

\* An indirect block in use keeps its pointers.
THEOREM TablesKeptHolds == Spec => TablesKept
<1>1. IInv /\ [Next]_vars =>
        [\A i \in Inodes :
           (~reused' /\ ind[i] # NilBlock) => table[ind[i]] \subseteq table'[ind[i]]]_vars
  <2> SUFFICES ASSUME IInv, Next, ~reused', NEW i \in Inodes, ind[i] # NilBlock
               PROVE  table[ind[i]] \subseteq table'[ind[i]]
    OBVIOUS
  <2>1. CASE ZeroBlock
    <3>1. ~reused /\ Allocating /\ new \notin Refs(i)
      BY <2>1 DEF ZeroBlock, history, IInv, Phase, Copy, Allocating
    <3>2. new # ind[i]
      BY <3>1 DEF Refs, Reach
    <3> QED
      BY <2>1, <3>2 DEF ZeroBlock, IInv, TypeOK
  <2>2. CASE LinkTable
    BY <2>2 DEF LinkTable, IInv, TypeOK
  <2>3. ASSUME NEW b \in Blocks, WriteData(b)
        PROVE  FALSE
    <3>1. reused
      BY <2>3, WriteDataReused DEF IInv, Held
    <3>2. reused' = reused
      BY <2>3 DEF WriteData, history
    <3> QED
      BY <3>1, <3>2
  <2>4. CASE UNCHANGED table
    BY <2>4
  <2> QED
    BY <2>1, <2>2, <2>3, <2>4 DEF Next, StartWrite, StartTruncate, AllocBit, FreeBit,
       AllocFail, FinishWrite, ClearInode, WriteSb, WriteGd, Crash, history
<1> QED
  BY Invariance, <1>1, PTL DEF Spec, TablesKept
=============================================================================
