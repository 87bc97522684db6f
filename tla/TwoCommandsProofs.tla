-------------------------- MODULE TwoCommandsProofs --------------------------
(***************************************************************************)
(* Commands that overlap, for any number of processes, commands, files,    *)
(* inodes and blocks: what they leave alone, and what one of them that     *)
(* changes something and others that only read leave sound.                *)
(***************************************************************************)
EXTENDS TwoCommands, SetLemmas, SequenceTheorems

-----------------------------------------------------------------------------
(* The lists of steps.  Which step may follow which tells what a process    *)
(* has just read when it comes to a step that writes.                       *)

Steps ==
  {"read root", "look up", "imap", "take inode", "drop inode", "bmap", "take block",
   "drop block", "clear block", "table", "write inode", "dir", "enter name",
   "remove name", "read inode to write", "read inode to read",
   "read inode to truncate", "write data", "test block", "test inode"}

Follows(s, t) ==
  \/ s = "read root" /\ t \in {"look up", "dir"}
  \/ s = "imap" /\ t \in {"take inode", "drop inode"}
  \/ s = "bmap" /\ t \in {"take block", "drop block"}
  \/ s = "dir" /\ t \in {"enter name", "remove name"}
  \/ s = "table" /\ t = "write inode"
  \/ s \in {"take inode", "drop block", "enter name", "remove name", "write data",
            "read inode to read", "read inode to truncate"} /\ t = "table"
  \/ s = "write inode" /\ t \in {"read root", "read inode to write", "test inode"}
  \/ s = "drop inode" /\ t = "read root"
  \/ s = "take block" /\ t = "clear block"
  \/ s \in {"clear block", "read inode to write"} /\ t = "write data"
  \/ s = "test block" /\ t = "bmap"
  \/ s = "test inode" /\ t = "imap"

Chain(s) == s \in Seq(Steps) /\ \A i \in 1 .. Len(s) - 1 : Follows(s[i], s[i + 1])

LEMMA NotEmpty ==
  ASSUME NEW s \in Seq(Steps), Len(s) >= 1
  PROVE  s # <<>>
BY EmptySeq, LenProperties

LEMMA NilChain == Chain(<<>>)
BY DEF Chain

LEMMA HeadFirst ==
  ASSUME NEW s, Chain(s), s # <<>>
  PROVE  Head(s) = s[1]
BY HeadTailProperties DEF Chain

\* A step leaves a list of the same kind.
LEMMA Advance ==
  ASSUME NEW s, Chain(s), s # <<>>
  PROVE  /\ Chain(Tail(s)) /\ Head(s) \in Steps
         /\ Tail(s) # <<>> => Follows(Head(s), Head(Tail(s)))
         /\ Len(s) >= 2 => Tail(s) # <<>> /\ Head(Tail(s)) = s[2]
<1>1. s \in Seq(Steps) /\ Len(s) \in Nat \ {0}
  BY EmptySeq, LenProperties DEF Chain
<1>2. /\ Tail(s) \in Seq(Steps) /\ Len(Tail(s)) = Len(s) - 1
      /\ \A i \in 1 .. Len(s) - 1 : Tail(s)[i] = s[i + 1]
  BY <1>1, HeadTailProperties
<1>3. Head(s) = s[1] /\ Head(s) \in Steps
  BY <1>1, HeadTailProperties
<1>4. Tail(s) # <<>> => Head(Tail(s)) = Tail(s)[1] /\ Len(Tail(s)) \in Nat \ {0}
  BY <1>2, EmptySeq, LenProperties, HeadTailProperties
<1>5. Chain(Tail(s))
  BY <1>1, <1>2 DEF Chain
<1>6. Tail(s) # <<>> => Follows(Head(s), Head(Tail(s)))
  BY <1>1, <1>2, <1>3, <1>4 DEF Chain
<1>7. ASSUME Len(s) >= 2 PROVE Tail(s) # <<>> /\ Head(Tail(s)) = s[2]
  <2>1. Tail(s) # <<>>
    <3>1. Len(Tail(s)) >= 1
      BY <1>1, <1>2, <1>7
    <3> QED
      BY <1>2, <3>1, NotEmpty
  <2>2. 1 \in 1 .. Len(s) - 1
    BY <1>1, <1>7
  <2> QED
    BY <1>2, <1>4, <2>1, <2>2
<1> QED
  BY <1>3, <1>5, <1>6, <1>7

\* Two lists in a row.
LEMMA Joined ==
  ASSUME NEW s, NEW t, Chain(s), Chain(t), s # <<>>,
         t # <<>> => Follows(s[Len(s)], t[1])
  PROVE  /\ Chain(s \o t) /\ s \o t # <<>> /\ (s \o t)[1] = s[1]
         /\ Len(s \o t) = Len(s) + Len(t)
         /\ \A i \in 1 .. Len(s) : (s \o t)[i] = s[i]
         /\ t # <<>> => (s \o t)[Len(s \o t)] = t[Len(t)]
<1>1. /\ s \in Seq(Steps) /\ Len(s) \in Nat \ {0}
      /\ t \in Seq(Steps) /\ Len(t) \in Nat /\ (t # <<>> => Len(t) # 0)
  BY EmptySeq, LenProperties DEF Chain
<1>2. /\ s \o t \in Seq(Steps) /\ Len(s \o t) = Len(s) + Len(t)
      /\ \A i \in 1 .. Len(s) + Len(t) :
           (s \o t)[i] = IF i <= Len(s) THEN s[i] ELSE t[i - Len(s)]
  BY <1>1, ConcatProperties
<1>3. Chain(s \o t)
  <2> SUFFICES ASSUME NEW i \in 1 .. Len(s) + Len(t) - 1
               PROVE  Follows((s \o t)[i], (s \o t)[i + 1])
    BY <1>2 DEF Chain
  <2>1. CASE i < Len(s)
    BY <1>1, <1>2, <2>1 DEF Chain
  <2>2. CASE i = Len(s)
    BY <1>1, <1>2, <2>2, EmptySeq
  <2>3. CASE i > Len(s)
    <3>1. i - Len(s) \in 1 .. Len(t) - 1 /\ (i + 1) - Len(s) = (i - Len(s)) + 1
      BY <1>1, <2>3
    <3>2. (s \o t)[i] = t[i - Len(s)] /\ (s \o t)[i + 1] = t[(i - Len(s)) + 1]
      BY <1>1, <1>2, <2>3, <3>1
    <3> QED
      BY <3>1, <3>2 DEF Chain
  <2> QED
    BY <1>1, <2>1, <2>2, <2>3
<1>4. s \o t # <<>>
  BY <1>1, <1>2, EmptySeq
<1> QED
  BY <1>1, <1>2, <1>3, <1>4

\* What may be known of a list: where it begins and ends.
FromTo(s, a, b) ==
  Chain(s) /\ s # <<>> /\ Len(s) >= 2 /\ s[1] = a /\ s[Len(s)] = b

\* Short lists.
LEMMA Single ==
  ASSUME NEW a \in Steps
  PROVE  Chain(<<a>>) /\ <<a>> # <<>> /\ Len(<<a>>) = 1 /\ <<a>>[1] = a
<1>1. <<a>> \in Seq(Steps) /\ Len(<<a>>) = 1
  OBVIOUS
<1> QED
  BY <1>1 DEF Chain

LEMMA Pair ==
  ASSUME NEW a \in Steps, NEW b \in Steps, Follows(a, b)
  PROVE  FromTo(<<a, b>>, a, b) /\ <<a, b>>[2] = b
<1> DEFINE s == <<a, b>>
<1>1. s \in Seq(Steps) /\ Len(s) = 2 /\ s[1] = a /\ s[2] = b
  OBVIOUS
<1>2. \A i \in 1 .. 2 - 1 : i = 1 /\ i + 1 = 2
  OBVIOUS
<1> HIDE DEF s
<1>3. Chain(s) /\ s # <<>>
  BY <1>1, <1>2, NotEmpty DEF Chain
<1>4. FromTo(s, a, b)
  BY <1>1, <1>3 DEF FromTo
<1> QED
  BY <1>1, <1>4 DEF s

LEMMA Triple ==
  ASSUME NEW a \in Steps, NEW b \in Steps, NEW c \in Steps, Follows(a, b), Follows(b, c)
  PROVE  FromTo(<<a, b, c>>, a, c)
<1> DEFINE s == <<a, b, c>>
<1>1. s \in Seq(Steps) /\ Len(s) = 3 /\ s[1] = a /\ s[2] = b /\ s[3] = c
  OBVIOUS
<1> HIDE DEF s
<1>2. \A i \in 1 .. 3 - 1 : Follows(s[i], s[i + 1])
  <2>1. Follows(s[1], s[1 + 1]) /\ Follows(s[2], s[2 + 1])
    BY <1>1
  <2>2. \A i \in 1 .. 3 - 1 : i = 1 \/ i = 2
    OBVIOUS
  <2> QED
    BY <2>1, <2>2
<1>3. Chain(s)
  BY <1>1, <1>2 DEF Chain
<1>4. s # <<>>
  BY <1>1, NotEmpty
<1>5. FromTo(s, a, c)
  BY <1>1, <1>3, <1>4 DEF FromTo
<1> QED
  BY <1>5 DEF s

LEMMA FromToJoined ==
  ASSUME NEW s, NEW t, NEW a, NEW b, NEW c, NEW d,
         FromTo(s, a, b), FromTo(t, c, d), Follows(b, c)
  PROVE  FromTo(s \o t, a, d) /\ (s \o t)[2] = s[2]
<1>1. /\ Chain(s) /\ Chain(t) /\ s # <<>> /\ t # <<>>
      /\ s[Len(s)] = b /\ t[1] = c /\ s[1] = a /\ t[Len(t)] = d
      /\ Len(s) >= 2 /\ Len(t) >= 2
  BY DEF FromTo
<1>2. Len(s) \in Nat /\ Len(t) \in Nat
  BY <1>1, LenProperties DEF Chain
<1>3. Follows(s[Len(s)], t[1])
  BY <1>1
<1>4. /\ Chain(s \o t) /\ s \o t # <<>> /\ (s \o t)[1] = s[1]
      /\ Len(s \o t) = Len(s) + Len(t)
      /\ \A i \in 1 .. Len(s) : (s \o t)[i] = s[i]
      /\ (s \o t)[Len(s \o t)] = t[Len(t)]
  BY <1>1, <1>3, Joined
<1>5. (s \o t)[2] = s[2] /\ Len(s \o t) >= 2
  BY <1>1, <1>2, <1>4
<1> QED
  BY <1>1, <1>4, <1>5 DEF FromTo

\* A list put before what is left to do.
LEMMA Before ==
  ASSUME NEW s, NEW t, NEW a, NEW b, FromTo(s, a, b), Chain(t),
         t # <<>> => Follows(b, Head(t))
  PROVE  Chain(s \o t) /\ s \o t \in Seq(Steps) /\ Head(s \o t) = a
<1>1. Chain(s) /\ s # <<>> /\ s[Len(s)] = b /\ s[1] = a
  BY DEF FromTo
<1>2. t # <<>> => Follows(s[Len(s)], t[1])
  BY <1>1, HeadFirst
<1>3. Chain(s \o t) /\ s \o t # <<>> /\ (s \o t)[1] = a
  BY <1>1, <1>2, Joined
<1> QED
  BY <1>3, HeadFirst DEF Chain

LEMMA OneBefore ==
  ASSUME NEW a \in Steps, NEW t, NEW c, NEW d, FromTo(t, c, d), Follows(a, c)
  PROVE  FromTo(<<a>> \o t, a, d)
<1> DEFINE s == <<a>>
<1>1. Chain(s) /\ s # <<>> /\ Len(s) = 1 /\ s[1] = a
  BY Single
<1> HIDE DEF s
<1>2. Chain(t) /\ t # <<>> /\ Len(t) >= 2 /\ t[1] = c /\ t[Len(t)] = d
  BY DEF FromTo
<1>3. Follows(s[Len(s)], t[1])
  BY <1>1, <1>2
<1>4. /\ Chain(s \o t) /\ s \o t # <<>> /\ (s \o t)[1] = s[1]
      /\ Len(s \o t) = Len(s) + Len(t) /\ (s \o t)[Len(s \o t)] = t[Len(t)]
  BY <1>1, <1>2, <1>3, Joined
<1>5. Len(s \o t) >= 2
  BY <1>1, <1>2, <1>4, LenProperties DEF Chain
<1>6. FromTo(s \o t, a, d)
  BY <1>1, <1>2, <1>4, <1>5 DEF FromTo
<1> QED
  BY <1>6 DEF s

\* The lists the commands are made of.
LEMMA Parts ==
  /\ FromTo(WriteInode, "table", "write inode")
  /\ FromTo(AllocInode, "imap", "take inode") /\ AllocInode[2] = "take inode"
  /\ FromTo(AllocBlock, "bmap", "clear block")
  /\ FromTo(FreeBlock, "test block", "drop block")
  /\ FromTo(FreeInode, "test inode", "drop inode")
  /\ FromTo(<<"read root", "dir", "enter name">>, "read root", "enter name")
  /\ FromTo(<<"read root", "dir", "remove name">>, "read root", "remove name")
  /\ FromTo(<<"read inode to write", "write data">>, "read inode to write", "write data")
  /\ FromTo(<<"read root", "look up">>, "read root", "look up")
<1>1. /\ Follows("table", "write inode") /\ Follows("imap", "take inode")
      /\ Follows("read inode to write", "write data") /\ Follows("read root", "look up")
  BY DEF Follows
<1>2. /\ Follows("bmap", "take block") /\ Follows("take block", "clear block")
      /\ Follows("test block", "bmap") /\ Follows("bmap", "drop block")
      /\ Follows("test inode", "imap") /\ Follows("imap", "drop inode")
      /\ Follows("read root", "dir") /\ Follows("dir", "enter name")
      /\ Follows("dir", "remove name")
  BY DEF Follows
<1>3. {"table", "write inode", "imap", "take inode", "read inode to write", "write data",
       "read root", "look up"} \subseteq Steps
  BY DEF Steps
<1>4. {"bmap", "take block", "clear block", "test block", "drop block", "test inode",
       "imap", "drop inode", "read root", "dir", "enter name", "remove name"} \subseteq Steps
  BY DEF Steps
<1>5. FromTo(WriteInode, "table", "write inode")
  BY <1>1, <1>3, Pair DEF WriteInode
<1>6. FromTo(AllocInode, "imap", "take inode") /\ AllocInode[2] = "take inode"
  BY <1>1, <1>3, Pair DEF AllocInode
<1>7. FromTo(<<"read inode to write", "write data">>, "read inode to write", "write data")
  BY <1>1, <1>3, Pair
<1>8. FromTo(<<"read root", "look up">>, "read root", "look up")
  BY <1>1, <1>3, Pair
<1>9. FromTo(AllocBlock, "bmap", "clear block")
  BY <1>2, <1>4, Triple DEF AllocBlock
<1>10. FromTo(FreeBlock, "test block", "drop block")
  BY <1>2, <1>4, Triple DEF FreeBlock
<1>11. FromTo(FreeInode, "test inode", "drop inode")
  BY <1>2, <1>4, Triple DEF FreeInode
<1>12. FromTo(<<"read root", "dir", "enter name">>, "read root", "enter name")
  BY <1>2, <1>4, Triple
<1>13. FromTo(<<"read root", "dir", "remove name">>, "read root", "remove name")
  BY <1>2, <1>4, Triple
<1> QED
  BY <1>5, <1>6, <1>7, <1>8, <1>9, <1>10, <1>11, <1>12, <1>13

\* What a command does first when its file is there, and when it is missing.
LEMMA Beginnings ==
  ASSUME NEW cmd \in Commands
  PROVE  /\ Chain(Found[cmd]) /\ Chain(Missing[cmd])
         /\ Found[cmd] # <<>> =>
              Found[cmd][1] \in {"read inode to write", "read inode to read",
                                 "read inode to truncate"}
         /\ Missing[cmd] # <<>> =>
              /\ Missing[cmd][1] = "imap" /\ Missing[cmd][2] = "take inode"
              /\ Len(Missing[cmd]) >= 2
<1>1. /\ Follows("enter name", "table") /\ Follows("remove name", "table")
      /\ Follows("write data", "table") /\ Follows("take inode", "table")
      /\ Follows("write inode", "read root") /\ Follows("write inode", "read inode to write")
      /\ Follows("write inode", "test inode") /\ Follows("drop inode", "read root")
      /\ Follows("read inode to read", "table") /\ Follows("read inode to truncate", "table")
  BY DEF Follows
<1>2. "read inode to read" \in Steps /\ "read inode to truncate" \in Steps
  BY DEF Steps
<1>3. FromTo(DirAdd, "read root", "write inode")
  BY <1>1, Parts, FromToJoined DEF DirAdd
<1>4. FromTo(DirRemove, "read root", "write inode")
  BY <1>1, Parts, FromToJoined DEF DirRemove
<1>5. FromTo(WriteFile, "read inode to write", "write inode")
  BY <1>1, Parts, FromToJoined DEF WriteFile
<1>6. FromTo(CreateFile, "imap", "write inode") /\ CreateFile[2] = "take inode"
  <2>1. FromTo(AllocInode \o WriteInode, "imap", "write inode")
        /\ (AllocInode \o WriteInode)[2] = "take inode"
    BY <1>1, Parts, FromToJoined
  <2> QED
    BY <1>1, <1>3, <2>1, FromToJoined DEF CreateFile
<1>7. FromTo(CreateFile \o WriteFile, "imap", "write inode")
      /\ (CreateFile \o WriteFile)[2] = "take inode"
  BY <1>1, <1>5, <1>6, FromToJoined
<1>8. ASSUME NEW a \in Steps, Follows(a, "table") PROVE FromTo(<<a>> \o WriteInode, a, "write inode")
  BY <1>8, Parts, OneBefore
<1>9. FromTo(ReadFile, "read inode to read", "write inode")
  BY <1>1, <1>2, <1>8 DEF ReadFile
<1>10. FromTo(DeleteFile, "read inode to truncate", "write inode")
  <2>1. FromTo(<<"read inode to truncate">> \o WriteInode, "read inode to truncate", "write inode")
    BY <1>1, <1>2, <1>8
  <2>2. FromTo(<<"read inode to truncate">> \o WriteInode \o FreeInode,
               "read inode to truncate", "drop inode")
    BY <1>1, <2>1, Parts, FromToJoined
  <2> QED
    BY <1>1, <1>4, <2>2, FromToJoined DEF DeleteFile
<1>11. Chain(<<>>)
  BY DEF Chain
<1>12. CASE cmd = "create"
  <2>1. Found[cmd] = <<>> /\ Missing[cmd] = CreateFile
    BY <1>12 DEF Found, Missing
  <2> QED
    BY <1>6, <1>11, <2>1 DEF FromTo
<1>13. CASE cmd = "writef"
  <2>1. Found[cmd] = WriteFile /\ Missing[cmd] = CreateFile \o WriteFile
    BY <1>13 DEF Found, Missing
  <2> QED
    BY <1>5, <1>7, <2>1 DEF FromTo
<1>14. CASE cmd = "readf"
  <2>1. Found[cmd] = ReadFile /\ Missing[cmd] = <<>>
    BY <1>14 DEF Found, Missing
  <2> QED
    BY <1>9, <1>11, <2>1 DEF FromTo
<1>15. CASE cmd = "delete"
  <2>1. Found[cmd] = DeleteFile /\ Missing[cmd] = <<>>
    BY <1>15 DEF Found, Missing
  <2> QED
    BY <1>10, <1>11, <2>1 DEF FromTo
<1> QED
  BY <1>12, <1>13, <1>14, <1>15 DEF Commands

-----------------------------------------------------------------------------
(* Types, and what a process knows of the step it comes to.                 *)

Inode == [size : Nat, blk : Blocks \cup {NilBlock}]
Entry == [name : Names, ino : Inodes \ {RootIno}] \cup {NoEntry}
ImapType == {m \in SUBSET Inodes : RootIno \in m}
Image == [imap : ImapType, bmap : SUBSET Blocks, table : [Inodes -> Inode],
          dir : [Slots -> Entry], data : [Blocks -> Names \cup {"zeros"}]]
Buffer == [imap : SUBSET Inodes, bmap : SUBSET Blocks,
           table : [Inodes -> Inode] \cup {<<>>}, dir : [Slots -> Entry] \cup {<<>>}]
Memory == [cmd : Commands \cup {"none"}, name : Names \cup {"none"}, todo : Seq(Steps),
           buf : Buffer, ino : {0} \cup (Inodes \ {RootIno}), at : {0} \cup Inodes,
           in : Inode, old : Blocks \cup {NilBlock}]

Now(m) == Head(m.todo)

\* An inode is known before anything is done to it; the root's inode is in memory
\* while its entries are changed, and not while blocks are; and a step that writes
\* a block back has just read it.
Control(m) ==
  /\ m.cmd \in Commands /\ m.name \in Names
  /\ m.ino = 0 =>
       \/ Now(m) \in {"look up", "take inode"}
       \/ Now(m) = "read root" /\ Len(m.todo) >= 2 /\ m.todo[2] = "look up"
       \/ Now(m) = "imap" /\ Len(m.todo) >= 2 /\ m.todo[2] = "take inode"
  /\ Now(m) \in {"dir", "enter name", "remove name"} => m.at = RootIno
  /\ Now(m) \in {"test block", "bmap", "take block", "drop block", "clear block",
                 "write data"} => m.at # RootIno
  /\ Now(m) = "write inode" => m.buf.table \in [Inodes -> Inode]
  /\ Now(m) \in {"take inode", "drop inode"} => RootIno \in m.buf.imap
  /\ Now(m) \in {"enter name", "remove name"} => m.buf.dir \in [Slots -> Entry]

Ready(m) == m \in Memory /\ Chain(m.todo) /\ (m.todo # <<>> => Control(m))

Types ==
  /\ disk \in Image /\ calm \in Image
  /\ process \in [Processes -> Memory] /\ \A p \in Processes : Ready(process[p])
  /\ starts \in [Targets -> Nat] /\ since \in Seq(Commands \X Targets)

-----------------------------------------------------------------------------

LEMMA Numbers ==
  /\ RootIno \in Inodes /\ Inodes \subseteq Nat \ {0} /\ Slots \subseteq Nat
  /\ Blocks \subseteq Nat \ {0} /\ Cardinality(Names) \in Nat
  /\ Targets \subseteq Names /\ "none" \notin Names
<1>1. Cardinality(Names) \in Nat
  BY InputAssumption, FS_CardinalityType
<1>2. RootIno \in RootIno .. Cardinality(Names) + 1
  BY <1>1 DEF RootIno
<1> QED
  BY <1>1, <1>2, InputAssumption

LEMMA IdleReady == Idle \in Memory /\ Ready(Idle) /\ NoBuffer \in Buffer /\ NoInode \in Inode
<1>1. NoBuffer \in Buffer
  BY DEF NoBuffer, Buffer
<1>2. NoInode \in Inode
  BY DEF NoInode, Inode
<1>3. <<>> \in Seq(Steps) /\ Chain(<<>>)
  BY DEF Chain
<1>4. Idle \in Memory /\ Idle.todo = <<>>
  BY <1>1, <1>2, <1>3 DEF Idle, Memory
<1> QED
  BY <1>1, <1>2, <1>3, <1>4 DEF Ready

\* A process at a step has a list of steps left.
LEMMA AtStep ==
  ASSUME Types, NEW p \in Processes, NEW step, At(p, step)
  PROVE  /\ process[p] \in Memory /\ Control(process[p]) /\ Now(process[p]) = step
         /\ Chain(Rest(p)) /\ Rest(p) \in Seq(Steps)
         /\ Rest(p) # <<>> => Follows(step, Head(Rest(p)))
         /\ Len(process[p].todo) >= 2 =>
              Rest(p) # <<>> /\ Head(Rest(p)) = process[p].todo[2]
<1>1. /\ process[p] \in Memory /\ Ready(process[p]) /\ process[p].todo # <<>>
      /\ Head(process[p].todo) = step
  BY DEF Types, At
<1>2. Chain(process[p].todo) /\ Control(process[p])
  BY <1>1 DEF Ready
<1> QED
  BY <1>1, <1>2, Advance DEF Rest, Now, Chain

\* What is left to prove of a step: the memory it leaves is ready to go on.
LEMMA ContinueReady ==
  ASSUME Types, NEW p \in Processes, NEW me, NEW rest, Continue(p, me, rest),
         rest # <<>> => Ready([me EXCEPT !.todo = rest])
  PROVE  process' \in [Processes -> Memory] /\ \A q \in Processes : Ready(process'[q])
<1>1. PICK m : m \in Memory /\ Ready(m) /\ process' = [process EXCEPT ![p] = m]
  <2>1. CASE rest = <<>>
    BY <2>1, IdleReady DEF Continue
  <2>2. CASE rest # <<>>
    BY <2>2 DEF Continue, Ready
  <2> QED
    BY <2>1, <2>2
<1>2. process \in [Processes -> Memory] /\ \A q \in Processes : Ready(process[q])
  BY DEF Types
<1> QED
  BY <1>1, <1>2

-----------------------------------------------------------------------------
(* The steps keep the types.                                                *)

\* A step of a command leaves these alone.
HistorySame == UNCHANGED <<starts, calm, since>>

LEMMA StepTypes ==
  ASSUME Types, NEW p \in Processes, NEW me, NEW rest, Continue(p, me, rest),
         rest # <<>> => Ready([me EXCEPT !.todo = rest]),
         disk' \in Image, HistorySame
  PROVE  Types'
<1>1. process' \in [Processes -> Memory] /\ \A q \in Processes : Ready(process'[q])
  BY ContinueReady
<1>2. calm' \in Image /\ starts' \in [Targets -> Nat] /\ since' \in Seq(Commands \X Targets)
  BY DEF Types, HistorySame
<1> QED
  BY <1>1, <1>2 DEF Types, Ready, Control, Now

LEMMA ReadRootTypes ==
  ASSUME Types, NEW p \in Processes, ReadRoot(p), HistorySame
  PROVE  Types'
<1> DEFINE me == process[p]
           rest == Rest(p)
           n == [me EXCEPT !.in = disk.table[RootIno], !.at = RootIno]
           m == [n EXCEPT !.todo = rest]
<1>1. At(p, "read root") /\ Continue(p, n, rest) /\ UNCHANGED disk
  BY DEF ReadRoot, ReadOnly
<1>2. /\ me \in Memory /\ Control(me) /\ Now(me) = "read root"
      /\ Chain(rest) /\ rest \in Seq(Steps)
      /\ rest # <<>> => Follows("read root", Head(rest))
      /\ Len(me.todo) >= 2 => rest # <<>> /\ Head(rest) = me.todo[2]
  BY <1>1, AtStep
<1>3. disk \in Image /\ disk.table[RootIno] \in Inode
  BY Numbers DEF Types, Image
<1>4. /\ m \in Memory /\ m.todo = rest /\ m.at = RootIno /\ m.ino = me.ino
      /\ m.cmd = me.cmd /\ m.name = me.name
  BY <1>2, <1>3, Numbers DEF Memory
<1>5. rest # <<>> => Control(m)
  BY <1>2, <1>4 DEF Control, Follows, Now
<1>6. rest # <<>> => Ready(m)
  BY <1>2, <1>4, <1>5 DEF Ready
<1> QED
  BY <1>1, <1>3, <1>6, StepTypes

LEMMA LookUpTypes ==
  ASSUME Types, NEW p \in Processes, LookUp(p), HistorySame
  PROVE  Types'
<1> DEFINE me == process[p]
           found == EntriesOf(disk.dir, me.in.size, me.name)
<1>1. At(p, "look up") /\ UNCHANGED disk
  BY DEF LookUp, ReadOnly
<1>2. me \in Memory /\ Control(me)
  BY <1>1, AtStep
<1>3. me.cmd \in Commands /\ me.name \in Names
  BY <1>2 DEF Control
<1>4. disk \in Image
  BY DEF Types
<1>5. CASE found = {}
  <2> DEFINE m == [me EXCEPT !.todo = Missing[me.cmd]]
  <2>1. Continue(p, me, Missing[me.cmd])
    BY <1>5 DEF LookUp, ReadOnly
  <2>2. /\ Chain(Missing[me.cmd]) /\ Missing[me.cmd] \in Seq(Steps)
        /\ Missing[me.cmd] # <<>> =>
              /\ Missing[me.cmd][1] = "imap" /\ Missing[me.cmd][2] = "take inode"
              /\ Len(Missing[me.cmd]) >= 2
    BY <1>3, Beginnings DEF Chain
  <2>3. /\ m \in Memory /\ m.todo = Missing[me.cmd] /\ m.ino = me.ino
        /\ m.cmd = me.cmd /\ m.name = me.name
    BY <1>2, <2>2 DEF Memory
  <2>4. ASSUME m.todo # <<>> PROVE Control(m)
    <3>1. Now(m) = "imap" /\ m.todo[2] = "take inode" /\ Len(m.todo) >= 2
      BY <2>2, <2>3, <2>4, HeadFirst DEF Now
    <3>2. m.at = me.at
      BY <1>2 DEF Memory
    <3> QED
      BY <1>3, <2>3, <3>1 DEF Control
  <2>5. m.todo # <<>> => Ready(m)
    BY <2>2, <2>3, <2>4 DEF Ready
  <2> QED
    BY <1>1, <1>4, <2>1, <2>3, <2>5, StepTypes
<1>6. CASE found # {}
  <2> DEFINE x == disk.dir[Min(found)].ino
             n == [me EXCEPT !.ino = x]
             m == [n EXCEPT !.todo = Found[me.cmd]]
  <2>1. Continue(p, n, Found[me.cmd])
    BY <1>6 DEF LookUp, ReadOnly
  <2>2. x \in Inodes \ {RootIno} /\ x # 0
    <3>1. found \subseteq Slots /\ \A k \in found : disk.dir[k].name = me.name
      BY DEF EntriesOf
    <3>2. Min(found) \in found
      BY <1>6, <3>1, Numbers, MinProperty
    <3>3. disk.dir[Min(found)] \in Entry /\ disk.dir[Min(found)].name # "none"
      BY <1>3, <1>4, <3>1, <3>2, Numbers DEF Image
    <3> QED
      BY <3>3, Numbers DEF Entry, NoEntry
  <2>3. /\ Chain(Found[me.cmd]) /\ Found[me.cmd] \in Seq(Steps)
        /\ Found[me.cmd] # <<>> =>
             Found[me.cmd][1] \in {"read inode to write", "read inode to read",
                                    "read inode to truncate"}
    BY <1>3, Beginnings DEF Chain
  <2>4. /\ m \in Memory /\ m.todo = Found[me.cmd] /\ m.ino = x
        /\ m.cmd = me.cmd /\ m.name = me.name
    BY <1>2, <2>2, <2>3 DEF Memory
  <2>5. ASSUME m.todo # <<>> PROVE Control(m)
    <3>1. Now(m) \in {"read inode to write", "read inode to read", "read inode to truncate"}
      BY <2>3, <2>4, <2>5, HeadFirst DEF Now
    <3> QED
      BY <1>3, <2>2, <2>4, <3>1 DEF Control
  <2>6. m.todo # <<>> => Ready(m)
    BY <2>3, <2>4, <2>5 DEF Ready
  <2> QED
    BY <1>1, <1>4, <2>1, <2>4, <2>6, StepTypes
<1> QED
  BY <1>5, <1>6

LEMMA ReadInodeTypes ==
  ASSUME Types, NEW p \in Processes, ReadInode(p), HistorySame
  PROVE  Types'
<1> DEFINE me == process[p]
           rest == Rest(p)
           x == disk.table[me.ino]
           n == [me EXCEPT !.in = x, !.at = me.ino]
<1>1. disk \in Image
  BY DEF Types
<1>2. ASSUME NEW step \in {"read inode to write", "read inode to read",
                           "read inode to truncate"}, At(p, step)
      PROVE  /\ me \in Memory /\ me.cmd \in Commands /\ me.name \in Names
             /\ me.ino \in Inodes \ {RootIno} /\ me.ino # 0 /\ x \in Inode
             /\ Chain(rest) /\ rest \in Seq(Steps)
             /\ rest # <<>> => Follows(step, Head(rest))
  <2>1. /\ me \in Memory /\ Control(me) /\ Now(me) = step
        /\ Chain(rest) /\ rest \in Seq(Steps)
        /\ rest # <<>> => Follows(step, Head(rest))
    BY <1>2, AtStep
  <2>2. me.cmd \in Commands /\ me.name \in Names /\ me.ino # 0
    BY <2>1 DEF Control
  <2>3. me.ino \in Inodes \ {RootIno}
    BY <2>1, <2>2 DEF Memory
  <2>4. x \in Inode
    BY <1>1, <2>3 DEF Image
  <2> QED
    BY <2>1, <2>2, <2>3, <2>4
<1>3. ASSUME NEW m \in Memory, m.cmd \in Commands, m.name \in Names,
             m.ino # 0, m.at # RootIno, Chain(m.todo),
             m.todo # <<>> => Now(m) \in {"bmap", "write data", "test block", "table"}
      PROVE  m.todo # <<>> => Ready(m)
  BY <1>3 DEF Ready, Control
<1>4. CASE At(p, "read inode to write")
  <2> DEFINE list == (IF x.blk = NilBlock THEN AllocBlock ELSE <<>>) \o rest
             m == [n EXCEPT !.todo = list]
  <2>1. Continue(p, n, list) /\ UNCHANGED disk
    BY <1>4 DEF ReadInode, ReadOnly, At
  <2>2. /\ me \in Memory /\ me.cmd \in Commands /\ me.name \in Names
        /\ me.ino \in Inodes \ {RootIno} /\ me.ino # 0 /\ x \in Inode
        /\ Chain(rest) /\ rest \in Seq(Steps)
        /\ rest # <<>> => Follows("read inode to write", Head(rest))
    BY <1>2, <1>4
  <2>3. Chain(list) /\ list \in Seq(Steps)
        /\ (list # <<>> => Head(list) \in {"bmap", "write data"})
    <3>1. rest # <<>> => Head(rest) = "write data" /\ Follows("clear block", Head(rest))
      BY <2>2 DEF Follows
    <3>2. CASE x.blk = NilBlock
      BY <2>2, <3>1, <3>2, Parts, Before
    <3>3. CASE x.blk # NilBlock
      BY <2>2, <3>1, <3>3, ConcatEmptySeq
    <3> QED
      BY <3>2, <3>3
  <2> HIDE DEF list
  <2>4. /\ m \in Memory /\ m.todo = list /\ m.ino = me.ino /\ m.at = me.ino
        /\ m.cmd = me.cmd /\ m.name = me.name
    BY <2>2, <2>3 DEF Memory
  <2>5. m.todo # <<>> => Ready(m)
    BY <1>3, <2>2, <2>3, <2>4 DEF Now
  <2> QED
    BY <1>1, <2>1, <2>4, <2>5, StepTypes
<1>5. CASE At(p, "read inode to read")
  <2> DEFINE list == IF x.size = 0 THEN <<>> ELSE rest
             m == [n EXCEPT !.todo = list]
  <2>1. Continue(p, n, list) /\ UNCHANGED disk
    BY <1>5 DEF ReadInode, ReadOnly, At
  <2>2. /\ me \in Memory /\ me.cmd \in Commands /\ me.name \in Names
        /\ me.ino \in Inodes \ {RootIno} /\ me.ino # 0 /\ x \in Inode
        /\ Chain(rest) /\ rest \in Seq(Steps)
        /\ rest # <<>> => Follows("read inode to read", Head(rest))
    BY <1>2, <1>5
  <2>3. Chain(list) /\ list \in Seq(Steps) /\ (list # <<>> => Head(list) = "table")
    <3>1. rest # <<>> => Head(rest) = "table"
      BY <2>2 DEF Follows
    <3>2. Chain(<<>>) /\ <<>> \in Seq(Steps)
      BY DEF Chain
    <3>3. list = <<>> \/ list = rest
      OBVIOUS
    <3> HIDE DEF list, rest
    <3> QED
      BY <2>2, <3>1, <3>2, <3>3
  <2> HIDE DEF list
  <2>4. /\ m \in Memory /\ m.todo = list /\ m.ino = me.ino /\ m.at = me.ino
        /\ m.cmd = me.cmd /\ m.name = me.name
    BY <2>2, <2>3 DEF Memory
  <2>5. m.todo # <<>> => Ready(m)
    BY <1>3, <2>2, <2>3, <2>4 DEF Now
  <2> QED
    BY <1>1, <2>1, <2>4, <2>5, StepTypes
<1>6. CASE At(p, "read inode to truncate")
  <2> DEFINE list == (IF x.blk = NilBlock THEN <<>> ELSE FreeBlock) \o rest
             o == [n EXCEPT !.in = NoInode, !.old = x.blk]
             m == [o EXCEPT !.todo = list]
  <2>1. Continue(p, o, list) /\ UNCHANGED disk
    BY <1>6 DEF ReadInode, ReadOnly, At
  <2>2. /\ me \in Memory /\ me.cmd \in Commands /\ me.name \in Names
        /\ me.ino \in Inodes \ {RootIno} /\ me.ino # 0 /\ x \in Inode
        /\ Chain(rest) /\ rest \in Seq(Steps)
        /\ rest # <<>> => Follows("read inode to truncate", Head(rest))
    BY <1>2, <1>6
  <2>3. Chain(list) /\ list \in Seq(Steps)
        /\ (list # <<>> => Head(list) \in {"test block", "table"})
    <3>1. rest # <<>> => Head(rest) = "table" /\ Follows("drop block", Head(rest))
      BY <2>2 DEF Follows
    <3>2. CASE x.blk # NilBlock
      BY <2>2, <3>1, <3>2, Parts, Before
    <3>3. CASE x.blk = NilBlock
      BY <2>2, <3>1, <3>3, ConcatEmptySeq
    <3> QED
      BY <3>2, <3>3
  <2> HIDE DEF list
  <2>4. /\ m \in Memory /\ m.todo = list /\ m.ino = me.ino /\ m.at = me.ino
        /\ m.cmd = me.cmd /\ m.name = me.name
    BY <2>2, <2>3, IdleReady DEF Memory, Inode
  <2>5. m.todo # <<>> => Ready(m)
    BY <1>3, <2>2, <2>3, <2>4 DEF Now
  <2> QED
    BY <1>1, <2>1, <2>4, <2>5, StepTypes
<1> QED
  BY <1>4, <1>5, <1>6 DEF ReadInode

LEMMA ReadBlockTypes ==
  ASSUME Types, NEW p \in Processes, ReadBlock(p), HistorySame
  PROVE  Types'
<1> DEFINE me == process[p]
           rest == Rest(p)
<1>1. PICK b \in {"imap", "bmap", "table", "dir"} :
        /\ At(p, b) /\ UNCHANGED disk
        /\ Continue(p, [me EXCEPT !.buf = [NoBuffer EXCEPT ![b] = disk[b]]], rest)
  BY DEF ReadBlock, ReadOnly
<1> DEFINE buf == [NoBuffer EXCEPT ![b] = disk[b]]
           n == [me EXCEPT !.buf = buf]
           m == [n EXCEPT !.todo = rest]
<1>2. /\ me \in Memory /\ Control(me) /\ Now(me) = b
      /\ Chain(rest) /\ rest \in Seq(Steps)
      /\ rest # <<>> => Follows(b, Head(rest))
      /\ Len(me.todo) >= 2 => rest # <<>> /\ Head(rest) = me.todo[2]
  BY <1>1, AtStep
<1>3. disk \in Image
  BY DEF Types
<1>4. /\ disk.imap \in ImapType /\ disk.bmap \in SUBSET Blocks
      /\ disk.table \in [Inodes -> Inode] /\ disk.dir \in [Slots -> Entry]
  BY <1>3 DEF Image
<1>5. buf \in Buffer /\ buf[b] = disk[b]
  <2>1. CASE b = "imap"
    BY <1>4, <2>1 DEF NoBuffer, Buffer, ImapType
  <2>2. CASE b = "bmap"
    BY <1>4, <2>2 DEF NoBuffer, Buffer
  <2>3. CASE b = "table"
    BY <1>4, <2>3 DEF NoBuffer, Buffer
  <2>4. CASE b = "dir"
    BY <1>4, <2>4 DEF NoBuffer, Buffer
  <2> QED
    BY <2>1, <2>2, <2>3, <2>4
<1> HIDE DEF buf
<1>6. /\ m \in Memory /\ m.todo = rest /\ m.ino = me.ino /\ m.at = me.at /\ m.buf = buf
      /\ m.cmd = me.cmd /\ m.name = me.name
  BY <1>2, <1>5 DEF Memory
<1>7. ASSUME rest # <<>> PROVE Control(m)
  <2>1. Now(m) = Head(rest) /\ Follows(b, Now(m))
    BY <1>2, <1>6, <1>7 DEF Now
  <2>2. CASE b = "imap"
    <3>1. Now(m) \in {"take inode", "drop inode"}
      BY <2>1, <2>2 DEF Follows
    <3>2. RootIno \in m.buf.imap
      BY <1>4, <1>5, <1>6, <2>2 DEF ImapType
    <3>3. m.ino = 0 => Now(m) = "take inode"
      BY <1>2, <1>6, <1>7, <2>1, <2>2 DEF Control
    <3> QED
      BY <1>2, <1>6, <3>1, <3>2, <3>3 DEF Control
  <2>3. CASE b = "bmap"
    <3>1. Now(m) \in {"take block", "drop block"}
      BY <2>1, <2>3 DEF Follows
    <3> QED
      BY <1>2, <1>6, <2>3, <3>1 DEF Control
  <2>4. CASE b = "table"
    <3>1. Now(m) = "write inode"
      BY <2>1, <2>4 DEF Follows
    <3> QED
      BY <1>2, <1>4, <1>5, <1>6, <2>4, <3>1 DEF Control
  <2>5. CASE b = "dir"
    <3>1. Now(m) \in {"enter name", "remove name"}
      BY <2>1, <2>5 DEF Follows
    <3> QED
      BY <1>2, <1>4, <1>5, <1>6, <2>5, <3>1 DEF Control
  <2> QED
    BY <2>2, <2>3, <2>4, <2>5
<1>8. rest # <<>> => Ready(m)
  BY <1>2, <1>6, <1>7 DEF Ready
<1> QED
  BY <1>1, <1>3, <1>8, StepTypes DEF buf

\* The step after one that writes needs nothing that was read.
LEMMA WrittenReady ==
  ASSUME NEW step \in {"write inode", "take inode", "take block", "clear block", "write data",
                       "drop block", "drop inode", "enter name", "remove name"},
         NEW n \in Memory, n.cmd \in Commands, n.name \in Names, n.ino # 0,
         step \in {"take block", "clear block"} => n.at # RootIno,
         NEW rest, Chain(rest), rest # <<>> => Follows(step, Head(rest))
  PROVE  rest # <<>> => Ready([n EXCEPT !.todo = rest])
<1> DEFINE m == [n EXCEPT !.todo = rest]
<1>1. rest \in Seq(Steps)
  BY DEF Chain
<1>2. /\ m \in Memory /\ m.todo = rest /\ m.ino = n.ino /\ m.at = n.at
      /\ m.cmd = n.cmd /\ m.name = n.name
  BY <1>1 DEF Memory
<1>3. ASSUME rest # <<>> PROVE Control(m)
  <2>1. Now(m) \in {"read root", "read inode to write", "test inode", "table", "clear block",
                    "write data"}
    BY <1>2, <1>3 DEF Now, Follows
  <2>2. Now(m) \in {"clear block", "write data"} => m.at # RootIno
    BY <1>2, <1>3 DEF Now, Follows
  <2> QED
    BY <1>2, <2>1, <2>2 DEF Control
<1> QED
  BY <1>2, <1>3 DEF Ready

LEMMA FailTypes ==
  ASSUME Types, NEW p \in Processes, Fail(p), HistorySame
  PROVE  Types'
<1>1. Continue(p, Idle, <<>>) /\ disk' \in Image
  BY DEF Fail, ReadOnly, Types
<1> QED
  BY <1>1, StepTypes

LEMMA WriteTableTypes ==
  ASSUME Types, NEW p \in Processes, WriteTable(p), HistorySame
  PROVE  Types'
<1> DEFINE me == process[p]
           rest == Rest(p)
           im == [disk EXCEPT !.table = [me.buf.table EXCEPT ![me.at] = me.in]]
<1>1. At(p, "write inode") /\ disk' = im /\ Continue(p, me, rest)
  BY DEF WriteTable, Write
<1>2. /\ me \in Memory /\ Control(me) /\ Now(me) = "write inode"
      /\ Chain(rest) /\ (rest # <<>> => Follows("write inode", Head(rest)))
  BY <1>1, AtStep
<1>3. /\ me.cmd \in Commands /\ me.name \in Names /\ me.ino # 0
      /\ me.buf.table \in [Inodes -> Inode]
  BY <1>2 DEF Control
<1>4. disk \in Image /\ me.in \in Inode
  BY <1>2 DEF Types, Memory
<1>5. im \in Image
  BY <1>3, <1>4 DEF Image
<1>6. rest # <<>> => Ready([me EXCEPT !.todo = rest])
  BY <1>2, <1>3, WrittenReady
<1> QED
  BY <1>1, <1>5, <1>6, StepTypes

LEMMA TakeInodeTypes ==
  ASSUME Types, NEW p \in Processes, TakeInode(p), HistorySame
  PROVE  Types'
<1> DEFINE me == process[p]
           rest == Rest(p)
           free == Inodes \ me.buf.imap
           x == Min(free)
           im == [disk EXCEPT !.imap = me.buf.imap \cup {x}]
           n == [me EXCEPT !.ino = x, !.at = x, !.in = NoInode]
<1>1. CASE free = {}
  BY <1>1, FailTypes DEF TakeInode
<1>2. CASE free # {}
  <2>1. At(p, "take inode") /\ disk' = im /\ Continue(p, n, rest)
    BY <1>2 DEF TakeInode, Write
  <2>2. /\ me \in Memory /\ Control(me) /\ Now(me) = "take inode"
        /\ Chain(rest) /\ (rest # <<>> => Follows("take inode", Head(rest)))
    BY <2>1, AtStep
  <2>3. me.cmd \in Commands /\ me.name \in Names /\ RootIno \in me.buf.imap
    BY <2>2 DEF Control
  <2>4. x \in Inodes \ {RootIno} /\ x # 0
    <3>1. free \in SUBSET Nat
      BY Numbers
    <3>2. x \in free
      BY <1>2, <3>1, MinProperty
    <3> QED
      BY <2>3, <3>2, Numbers
  <2>5. disk \in Image /\ me.buf.imap \in SUBSET Inodes
    BY <2>2 DEF Types, Memory, Buffer
  <2>6. im \in Image
    <3>1. me.buf.imap \cup {x} \in ImapType
      BY <2>3, <2>4, <2>5 DEF ImapType
    <3> QED
      BY <2>5, <3>1 DEF Image
  <2>7. n \in Memory /\ n.cmd = me.cmd /\ n.name = me.name /\ n.ino = x
    BY <2>2, <2>4, IdleReady DEF Memory
  <2> HIDE DEF n, im, x
  <2>8. rest # <<>> => Ready([n EXCEPT !.todo = rest])
    BY <2>2, <2>3, <2>4, <2>7, WrittenReady
  <2> QED
    BY <2>1, <2>6, <2>8, StepTypes
<1> QED
  BY <1>1, <1>2

LEMMA TakeBlockTypes ==
  ASSUME Types, NEW p \in Processes, TakeBlock(p), HistorySame
  PROVE  Types'
<1> DEFINE me == process[p]
           rest == Rest(p)
           free == Blocks \ me.buf.bmap
           x == Min(free)
           im == [disk EXCEPT !.bmap = me.buf.bmap \cup {x}]
           n == [me EXCEPT !.in.blk = x]
<1>1. CASE free = {}
  BY <1>1, FailTypes DEF TakeBlock
<1>2. CASE free # {}
  <2>1. At(p, "take block") /\ disk' = im /\ Continue(p, n, rest)
    BY <1>2 DEF TakeBlock, Write
  <2>2. /\ me \in Memory /\ Control(me) /\ Now(me) = "take block"
        /\ Chain(rest) /\ (rest # <<>> => Follows("take block", Head(rest)))
    BY <2>1, AtStep
  <2>3. me.cmd \in Commands /\ me.name \in Names /\ me.ino # 0 /\ me.at # RootIno
    BY <2>2 DEF Control
  <2>4. x \in Blocks
    <3>1. free \in SUBSET Nat
      BY Numbers
    <3> QED
      BY <1>2, <3>1, MinProperty
  <2>5. disk \in Image /\ me.buf.bmap \in SUBSET Blocks /\ me.in \in Inode
    BY <2>2 DEF Types, Memory, Buffer
  <2>6. im \in Image
    BY <2>4, <2>5 DEF Image
  <2>7. [me.in EXCEPT !.blk = x] \in Inode
    BY <2>4, <2>5 DEF Inode
  <2>8. n \in Memory /\ n.cmd = me.cmd /\ n.name = me.name /\ n.ino = me.ino /\ n.at = me.at
    BY <2>2, <2>7 DEF Memory
  <2> HIDE DEF n, im, x
  <2>9. rest # <<>> => Ready([n EXCEPT !.todo = rest])
    BY <2>2, <2>3, <2>8, WrittenReady
  <2> QED
    BY <2>1, <2>6, <2>9, StepTypes
<1> QED
  BY <1>1, <1>2

LEMMA WriteDataTypes ==
  ASSUME Types, NEW p \in Processes, WriteData(p), HistorySame
  PROVE  Types'
<1> DEFINE me == process[p]
           rest == Rest(p)
           Im(d) == [disk EXCEPT !.data[me.in.blk] = d]
<1>1. ASSUME NEW d \in Names \cup {"zeros"} PROVE Im(d) \in Image
  <2>1. disk \in Image
    BY DEF Types
  <2> QED
    BY <2>1 DEF Image
<1>2. CASE At(p, "clear block")
  <2>1. disk' = Im("zeros") /\ Continue(p, me, rest)
    BY <1>2 DEF WriteData, Write, At
  <2>2. /\ me \in Memory /\ Control(me) /\ Now(me) = "clear block"
        /\ Chain(rest) /\ (rest # <<>> => Follows("clear block", Head(rest)))
    BY <1>2, AtStep
  <2>3. me.cmd \in Commands /\ me.name \in Names /\ me.ino # 0 /\ me.at # RootIno
    BY <2>2 DEF Control
  <2>4. rest # <<>> => Ready([me EXCEPT !.todo = rest])
    BY <2>2, <2>3, WrittenReady
  <2>5. Im("zeros") \in Image
    BY <1>1
  <2> QED
    BY <2>1, <2>4, <2>5, StepTypes
<1>3. CASE At(p, "write data")
  <2> DEFINE n == [me EXCEPT !.in.size = 1]
  <2>1. disk' = Im(me.name) /\ Continue(p, n, rest)
    BY <1>3 DEF WriteData, Write, At
  <2>2. /\ me \in Memory /\ Control(me) /\ Now(me) = "write data"
        /\ Chain(rest) /\ (rest # <<>> => Follows("write data", Head(rest)))
    BY <1>3, AtStep
  <2>3. me.cmd \in Commands /\ me.name \in Names /\ me.ino # 0
    BY <2>2 DEF Control
  <2>4. me.in \in Inode /\ [me.in EXCEPT !.size = 1] \in Inode
    BY <2>2 DEF Memory, Inode
  <2>5. n \in Memory /\ n.cmd = me.cmd /\ n.name = me.name /\ n.ino = me.ino
    BY <2>2, <2>4 DEF Memory
  <2>6. rest # <<>> => Ready([n EXCEPT !.todo = rest])
    BY <2>2, <2>3, <2>5, WrittenReady
  <2>7. Im(me.name) \in Image
    BY <1>1, <2>3
  <2> QED
    BY <2>1, <2>6, <2>7, StepTypes
<1> QED
  BY <1>2, <1>3 DEF WriteData

\* The rest of a list behind its first two steps.
LEMMA SkipTwo ==
  ASSUME NEW s, Chain(s)
  PROVE  /\ Chain(SubSeq(s, 3, Len(s))) /\ SubSeq(s, 3, Len(s)) \in Seq(Steps)
         /\ SubSeq(s, 3, Len(s)) # <<>> =>
              /\ s # <<>>
              /\ \E step : Follows(Head(s), step) /\ Follows(step, Head(SubSeq(s, 3, Len(s))))
<1> DEFINE t == SubSeq(s, 3, Len(s))
<1>1. s \in Seq(Steps) /\ Len(s) \in Nat /\ \A i \in 1 .. Len(s) : s[i] \in Steps
  BY LenProperties DEF Chain
<1>2. /\ t \in Seq(Steps) /\ Len(t) = IF 3 <= Len(s) THEN Len(s) - 3 + 1 ELSE 0
      /\ \A i \in 1 .. Len(s) - 3 + 1 : t[i] = s[3 + i - 1]
  BY <1>1, SubSeqProperties
<1> HIDE DEF t
<1>3. Chain(t)
  <2>1. ASSUME NEW i \in 1 .. Len(t) - 1 PROVE Follows(t[i], t[i + 1])
    <3>1. /\ i + 2 \in 1 .. Len(s) - 1 /\ i \in 1 .. Len(s) - 3 + 1
          /\ i + 1 \in 1 .. Len(s) - 3 + 1 /\ 3 + i - 1 = i + 2 /\ 3 + (i + 1) - 1 = i + 2 + 1
      BY <1>1, <1>2
    <3>2. t[i] = s[i + 2] /\ t[i + 1] = s[i + 2 + 1]
      BY <1>2, <3>1
    <3> QED
      BY <3>1, <3>2, Zenon DEF Chain
  <2> QED
    BY <1>2, <2>1, Zenon DEF Chain
<1>4. ASSUME t # <<>> PROVE s # <<>> /\ Follows(Head(s), s[2]) /\ Follows(s[2], Head(t))
  <2>1. Len(t) \in Nat \ {0}
    BY <1>2, <1>4, EmptySeq, LenProperties
  <2>2. Len(s) >= 3 /\ t[1] = s[3]
    BY <1>1, <1>2, <2>1
  <2>3. s # <<>>
    BY <1>1, <2>2, EmptySeq
  <2>4. Head(s) = s[1] /\ Head(t) = s[3]
    BY <1>3, <1>4, <2>2, <2>3, HeadFirst
  <2>5. Follows(s[1], s[1 + 1]) /\ Follows(s[2], s[2 + 1])
    BY <1>1, <2>2 DEF Chain
  <2> QED
    BY <2>3, <2>4, <2>5
<1> QED
  BY <1>2, <1>3, <1>4 DEF t

LEMMA TestBitTypes ==
  ASSUME Types, NEW p \in Processes, TestBit(p), HistorySame
  PROVE  Types'
<1> DEFINE me == process[p]
           rest == Rest(p)
           skip == SubSeq(rest, 3, Len(rest))
<1>1. PICK step \in {"test block", "test inode"} :
        /\ At(p, step) /\ UNCHANGED disk
        /\ Continue(p, me, rest) \/ Continue(p, me, skip)
  BY DEF TestBit, ReadOnly
<1>2. /\ me \in Memory /\ Control(me) /\ Now(me) = step
      /\ Chain(rest) /\ rest \in Seq(Steps)
      /\ rest # <<>> => Follows(step, Head(rest))
  BY <1>1, AtStep
<1>3. /\ me.cmd \in Commands /\ me.name \in Names /\ me.ino # 0
      /\ step = "test block" => me.at # RootIno
  BY <1>2 DEF Control
<1>4. /\ Chain(skip) /\ skip \in Seq(Steps)
      /\ skip # <<>> =>
           /\ rest # <<>>
           /\ \E next : Follows(Head(rest), next) /\ Follows(next, Head(skip))
  BY <1>2, SkipTwo
<1> HIDE DEF me, rest, skip
<1>5. skip # <<>> => Head(skip) \in {"clear block", "table", "read root"}
  <2>1. rest # <<>> => Head(rest) \in {"bmap", "imap"}
    BY <1>2 DEF Follows
  <2>2. \A next : Follows("bmap", next) => next \in {"take block", "drop block"}
    BY DEF Follows
  <2>3. \A next : Follows("imap", next) => next \in {"take inode", "drop inode"}
    BY DEF Follows
  <2>4. \A t : Follows("take block", t) \/ Follows("drop block", t) =>
                 t \in {"clear block", "table"}
    BY DEF Follows
  <2>5. \A t : Follows("take inode", t) \/ Follows("drop inode", t) =>
                 t \in {"table", "read root"}
    BY DEF Follows
  <2> QED
    BY <1>4, <2>1, <2>2, <2>3, <2>4, <2>5
<1>6. skip # <<>> /\ step = "test inode" => Head(skip) \in {"table", "read root"}
  <2>1. step = "test inode" /\ rest # <<>> => Head(rest) = "imap"
    BY <1>2 DEF Follows
  <2>2. \A next : Follows("imap", next) => next \in {"take inode", "drop inode"}
    BY DEF Follows
  <2>3. \A t : Follows("take inode", t) \/ Follows("drop inode", t) =>
                 t \in {"table", "read root"}
    BY DEF Follows
  <2> QED
    BY <1>4, <2>1, <2>2, <2>3
<1>7. ASSUME NEW list \in Seq(Steps), Chain(list), list # <<>>,
             \/ step = "test inode" /\ Head(list) \in {"imap", "table", "read root"}
             \/ step = "test block" /\ Head(list) \in {"bmap", "clear block", "table", "read root"}
      PROVE  Ready([me EXCEPT !.todo = list])
  <2> DEFINE m == [me EXCEPT !.todo = list]
  <2>1. /\ m \in Memory /\ m.todo = list /\ m.ino = me.ino /\ m.at = me.at
        /\ m.cmd = me.cmd /\ m.name = me.name
    BY <1>2, <1>7 DEF Memory
  <2>2. Control(m)
    BY <1>3, <1>7, <2>1 DEF Control, Now
  <2> QED
    BY <1>7, <2>1, <2>2 DEF Ready
<1>8. rest # <<>> => Ready([me EXCEPT !.todo = rest])
  <2>1. rest # <<>> => \/ step = "test inode" /\ Head(rest) = "imap"
                       \/ step = "test block" /\ Head(rest) = "bmap"
    BY <1>2 DEF Follows
  <2> QED
    BY <1>2, <1>7, <2>1
<1>9. skip # <<>> => Ready([me EXCEPT !.todo = skip])
  BY <1>4, <1>5, <1>6, <1>7
<1>10. disk' \in Image
  BY <1>1 DEF Types
<1> QED
  BY <1>1, <1>8, <1>9, <1>10, StepTypes

LEMMA DropBitTypes ==
  ASSUME Types, NEW p \in Processes, DropBit(p), HistorySame
  PROVE  Types'
<1> DEFINE me == process[p]
           rest == Rest(p)
<1>1. PICK step \in {"drop block", "drop inode"} :
        /\ At(p, step) /\ Continue(p, me, rest)
        /\ disk' = IF step = "drop block"
                   THEN [disk EXCEPT !.bmap = me.buf.bmap \ {me.old}]
                   ELSE [disk EXCEPT !.imap = me.buf.imap \ {me.ino}]
  BY DEF DropBit, Write
<1>2. /\ me \in Memory /\ Control(me) /\ Now(me) = step
      /\ Chain(rest) /\ (rest # <<>> => Follows(step, Head(rest)))
  BY <1>1, AtStep
<1>3. /\ me.cmd \in Commands /\ me.name \in Names /\ me.ino # 0
      /\ step = "drop inode" => RootIno \in me.buf.imap
  BY <1>2 DEF Control
<1>4. /\ disk \in Image /\ me.buf.bmap \in SUBSET Blocks /\ me.buf.imap \in SUBSET Inodes
      /\ me.ino # RootIno
  BY <1>2, Numbers DEF Types, Memory, Buffer, RootIno
<1>5. disk' \in Image
  <2>1. CASE step = "drop block"
    BY <1>1, <1>4, <2>1 DEF Image
  <2>2. CASE step = "drop inode"
    <3>1. me.buf.imap \ {me.ino} \in ImapType
      BY <1>3, <1>4, <2>2 DEF ImapType
    <3> QED
      BY <1>1, <1>4, <2>2, <3>1 DEF Image
  <2> QED
    BY <2>1, <2>2
<1>6. rest # <<>> => Ready([me EXCEPT !.todo = rest])
  BY <1>2, <1>3, WrittenReady
<1> QED
  BY <1>1, <1>5, <1>6, StepTypes

LEMMA ChangeNameTypes ==
  ASSUME Types, NEW p \in Processes, ChangeName(p), HistorySame
  PROVE  Types'
<1> DEFINE me == process[p]
           rest == Rest(p)
           found == EntriesOf(me.buf.dir, me.in.size, me.name)
           Im(k, e) == [disk EXCEPT !.dir = [me.buf.dir EXCEPT ![k] = e]]
<1>1. CASE Fail(p)
  BY <1>1, FailTypes
<1>2. CASE At(p, "enter name") /\ ~ Fail(p)
  <2> DEFINE e == [name |-> me.name, ino |-> me.ino]
             n == [me EXCEPT !.in.size = @ + 1]
             im == Im(me.in.size, e)
  <2>1. disk' = im /\ Continue(p, n, rest)
    BY <1>2 DEF ChangeName, Write, At
  <2>2. /\ me \in Memory /\ Control(me) /\ Now(me) = "enter name"
        /\ Chain(rest) /\ (rest # <<>> => Follows("enter name", Head(rest)))
    BY <1>2, AtStep
  <2>3. me.cmd \in Commands /\ me.name \in Names /\ me.ino # 0
        /\ me.buf.dir \in [Slots -> Entry]
    BY <2>2 DEF Control
  <2>4. disk \in Image /\ e \in Entry
    BY <2>2, <2>3 DEF Types, Memory, Entry
  <2>5. im \in Image
    BY <2>3, <2>4 DEF Image
  <2>6. me.in \in Inode /\ [me.in EXCEPT !.size = @ + 1] \in Inode
    <3>1. me.in \in Inode
      BY <2>2 DEF Memory
    <3> QED
      BY <3>1 DEF Inode
  <2>7. n \in Memory /\ n.cmd = me.cmd /\ n.name = me.name /\ n.ino = me.ino
    BY <2>2, <2>6 DEF Memory
  <2> HIDE DEF n, im, e
  <2>8. rest # <<>> => Ready([n EXCEPT !.todo = rest])
    BY <2>2, <2>3, <2>7, WrittenReady
  <2> QED
    BY <2>1, <2>5, <2>8, StepTypes
<1>3. CASE At(p, "remove name") /\ ~ Fail(p)
  <2> DEFINE im == Im(Min(found), NoEntry)
  <2>1. disk' = im /\ Continue(p, me, rest)
    BY <1>3 DEF ChangeName, Write, At
  <2>2. /\ me \in Memory /\ Control(me) /\ Now(me) = "remove name"
        /\ Chain(rest) /\ (rest # <<>> => Follows("remove name", Head(rest)))
    BY <1>3, AtStep
  <2>3. me.cmd \in Commands /\ me.name \in Names /\ me.ino # 0
        /\ me.buf.dir \in [Slots -> Entry]
    BY <2>2 DEF Control
  <2>4. im \in Image
    BY <2>3 DEF Types, Image, Entry
  <2>5. rest # <<>> => Ready([me EXCEPT !.todo = rest])
    BY <2>2, <2>3, WrittenReady
  <2> QED
    BY <2>1, <2>4, <2>5, StepTypes
<1> QED
  BY <1>1, <1>2, <1>3 DEF ChangeName

LEMMA StepKeepsTypes ==
  ASSUME Types, NEW p \in Processes, Step(p), HistorySame
  PROVE  Types'
BY ReadRootTypes, LookUpTypes, ReadInodeTypes, ReadBlockTypes, WriteTableTypes, TakeInodeTypes,
   TakeBlockTypes, WriteDataTypes, TestBitTypes, DropBitTypes, ChangeNameTypes DEF Step

LEMMA StartTypes ==
  ASSUME Types, NEW p \in Processes, NEW cmd \in Commands, NEW name \in Targets,
         Start(p, cmd, name)
  PROVE  Types'
<1> DEFINE n == [Idle EXCEPT !.cmd = cmd, !.name = name]
           list == <<"read root", "look up">>
           m == [n EXCEPT !.todo = list]
<1>1. Continue(p, n, list) /\ UNCHANGED disk
  BY DEF Start
<1>2. /\ Chain(list) /\ list # <<>> /\ Len(list) >= 2 /\ list[1] = "read root"
      /\ list[2] = "look up" /\ Head(list) = "read root"
  BY Parts, HeadFirst DEF FromTo
<1> HIDE DEF list
<1>3. /\ m \in Memory /\ m.todo = list /\ m.cmd = cmd /\ m.name = name /\ m.at = 0
      /\ m.ino = 0
  <2>1. list \in Seq(Steps) /\ name \in Names
    BY <1>2, Numbers DEF Chain
  <2> QED
    BY <2>1, IdleReady DEF Memory, Idle
<1>4. Control(m)
  BY <1>2, <1>3, Numbers DEF Control, Now
<1>5. Ready(m)
  BY <1>2, <1>3, <1>4 DEF Ready
<1>6. process' \in [Processes -> Memory] /\ \A q \in Processes : Ready(process'[q])
  BY <1>1, <1>5, ContinueReady
<1>7. disk' \in Image /\ calm' \in Image
  BY DEF Start, Types
<1>8. starts' \in [Targets -> Nat]
  <2>1. starts' = [starts EXCEPT ![name] = @ + 1] /\ starts \in [Targets -> Nat]
    BY DEF Start, Types
  <2> QED
    BY <2>1
<1>9. since' \in Seq(Commands \X Targets)
  <2> DEFINE C == Commands \X Targets
             c == <<cmd, name>>
  <2>1. since \in Seq(C) /\ c \in C
    BY DEF Types
  <2>2. since' = <<c>> \/ since' = Append(since, c)
    BY DEF Start
  <2> HIDE DEF C, c
  <2>3. <<c>> \in Seq(C) /\ Append(since, c) \in Seq(C)
    BY <2>1, AppendProperties
  <2>4. since' \in Seq(C)
    BY <2>2, <2>3
  <2> QED
    BY <2>4 DEF C
<1> QED
  BY <1>6, <1>7, <1>8, <1>9 DEF Types, Ready, Control, Now

\* The members of a finite set in some order.
LEMMA InOrder ==
  ASSUME NEW S, IsFiniteSet(S)
  PROVE  /\ SetToSeq(S) \in Seq(S) /\ Len(SetToSeq(S)) = Cardinality(S)
         /\ DOMAIN SetToSeq(S) = 1 .. Cardinality(S) /\ Cardinality(S) \in Nat
         /\ \A j, k \in 1 .. Cardinality(S) : SetToSeq(S)[j] = SetToSeq(S)[k] => j = k
         /\ \A x \in S : \E j \in 1 .. Cardinality(S) : SetToSeq(S)[j] = x
<1> DEFINE n == Cardinality(S)
           f == SetToSeq(S)
<1>1. n \in Nat /\ \E g \in [1 .. n -> S] : IsInjective(g)
  BY FS_CardinalityType DEF ExistsBijection, Bijection, Injection
<1>2. f \in [1 .. n -> S] /\ IsInjective(f)
  BY <1>1 DEF SetToSeq
<1>3. f \in Injection(1 .. n, S)
  BY <1>2 DEF Injection
<1>4. Cardinality(1 .. n) = n
  <2>1. Cardinality(1 .. n) = IF 1 > n THEN 0 ELSE n - 1 + 1
    BY <1>1, FS_Interval
  <2> QED
    BY <1>1, <2>1
<1>5. f \in Surjection(1 .. n, S)
  BY <1>3, <1>4, FS_Injection
<1>6. \A x \in S : \E j \in 1 .. n : f[j] = x
  BY <1>5 DEF Surjection
<1> HIDE DEF f, n
<1>7. f \in Seq(S) /\ Len(f) = n /\ DOMAIN f = 1 .. n
  BY <1>1, <1>2
<1> QED
  BY <1>1, <1>2, <1>6, <1>7 DEF IsInjective, f, n

LEMMA InitTypes == Init => Types
<1> SUFFICES ASSUME Init PROVE Types
  OBVIOUS
<1>1. PICK files \in SUBSET Targets, written \in SUBSET Targets :
        written \subseteq files /\ disk = ImageOf(files \cup Others, written \cup Others)
  BY DEF Init
<1> DEFINE F == files \cup Others
           W == written \cup Others
           f == SetToSeq(F)
           w == SetToSeq(W)
           c == Cardinality(Names)
<1>2. IsFiniteSet(F) /\ IsFiniteSet(W) /\ Cardinality(F) <= c /\ Cardinality(W) <= c /\ c \in Nat
  <2>1. IsFiniteSet(Names) /\ F \in SUBSET Names /\ W \in SUBSET Names
    BY InputAssumption DEF Others
  <2> QED
    BY <2>1, FS_Subset, FS_CardinalityType
<1>3. F \subseteq Names /\ W \subseteq F
  BY <1>1, Numbers DEF Others
<1>4. /\ Len(f) \in 0 .. c /\ DOMAIN f = 1 .. Len(f) /\ \A j \in DOMAIN f : f[j] \in F
      /\ Len(w) \in 0 .. c /\ DOMAIN w = 1 .. Len(w) /\ \A j \in DOMAIN w : w[j] \in W
      /\ \A x \in W : \E j \in DOMAIN w : w[j] = x
  <2>1. ASSUME NEW S, IsFiniteSet(S), Cardinality(S) <= c
        PROVE  /\ Len(SetToSeq(S)) \in 0 .. c /\ DOMAIN SetToSeq(S) = 1 .. Len(SetToSeq(S))
               /\ \A j \in DOMAIN SetToSeq(S) : SetToSeq(S)[j] \in S
               /\ \A x \in S : \E j \in DOMAIN SetToSeq(S) : SetToSeq(S)[j] = x
    <3> DEFINE s == SetToSeq(S)
    <3>1. /\ s \in Seq(S) /\ Len(s) = Cardinality(S) /\ DOMAIN s = 1 .. Cardinality(S)
          /\ Cardinality(S) \in Nat
          /\ \A x \in S : \E j \in 1 .. Cardinality(S) : s[j] = x
      BY <2>1, InOrder
    <3> HIDE DEF c, s
    <3>2. Len(s) \in 0 .. c
      BY <1>2, <2>1, <3>1
    <3>3. \A j \in DOMAIN s : s[j] \in S
      BY <3>1, ElementOfSeq
    <3> QED
      BY <3>1, <3>2, <3>3 DEF s
  <2>2. IsFiniteSet(F) /\ Cardinality(F) <= c /\ IsFiniteSet(W) /\ Cardinality(W) <= c
    BY <1>2
  <2> HIDE DEF c, F, W
  <2> QED
    BY <2>1, <2>2
<1> DEFINE BlockOf(n) == IF n \in W THEN CHOOSE b \in DOMAIN w : w[b] = n ELSE NilBlock
           InodeOf(n) == [size |-> IF n \in W THEN 1 ELSE 0, blk |-> BlockOf(n)]
           imap == RootIno .. RootIno + Len(f)
           bmap == 1 .. Len(w)
           table == [i \in Inodes |->
                       IF i = RootIno THEN [size |-> Len(f), blk |-> NilBlock]
                       ELSE IF i - 1 \in DOMAIN f THEN InodeOf(f[i - 1]) ELSE NoInode]
           dir == [k \in Slots |-> IF k + 1 \in DOMAIN f THEN [name |-> f[k + 1], ino |-> k + 2]
                                   ELSE NoEntry]
           data == [b \in Blocks |-> IF b \in DOMAIN w THEN w[b] ELSE "zeros"]
<1>5. disk = [imap |-> imap, bmap |-> bmap, table |-> table, dir |-> dir, data |-> data]
  BY <1>1 DEF ImageOf
<1> HIDE DEF f, w, c
<1>6. imap \in ImapType
  <2>1. imap \subseteq RootIno .. c + 1 /\ RootIno \in imap
    BY <1>2, <1>4 DEF RootIno
  <2> QED
    BY <2>1, InputAssumption DEF ImapType, c
<1>7. bmap \in SUBSET Blocks
  <2>1. bmap \subseteq 1 .. c
    BY <1>2, <1>4
  <2> QED
    BY <2>1, InputAssumption DEF c
<1>8. table \in [Inodes -> Inode]
  <2>1. \A n \in F : InodeOf(n) \in Inode
    BY <1>4, <1>7 DEF Inode
  <2>2. [size |-> Len(f), blk |-> NilBlock] \in Inode
    BY <1>2, <1>4 DEF Inode
  <2> HIDE DEF InodeOf
  <2> QED
    BY <1>4, <2>1, <2>2, IdleReady
<1>9. dir \in [Slots -> Entry]
  <2>1. ASSUME NEW k \in Slots, k + 1 \in DOMAIN f
        PROVE  [name |-> f[k + 1], ino |-> k + 2] \in Entry
    <3>1. k \in Nat /\ k + 2 \in 2 .. c + 1
      BY <1>2, <1>4, <2>1, Numbers
    <3>2. k + 2 \in RootIno .. c + 1 /\ k + 2 # RootIno
      BY <3>1 DEF RootIno
    <3>3. f[k + 1] \in Names
      BY <1>3, <1>4, <2>1
    <3> QED
      BY <3>2, <3>3, InputAssumption DEF Entry, c
  <2>2. NoEntry \in Entry
    BY DEF Entry
  <2> QED
    BY <2>1, <2>2
<1>10. data \in [Blocks -> Names \cup {"zeros"}]
  BY <1>3, <1>4
<1> HIDE DEF imap, bmap, table, dir, data
<1>11. disk \in Image
  BY <1>5, <1>6, <1>7, <1>8, <1>9, <1>10 DEF Image
<1>12. process \in [Processes -> Memory] /\ \A p \in Processes : Ready(process[p])
  BY IdleReady DEF Init
<1>13. starts \in [Targets -> Nat] /\ since \in Seq(Commands \X Targets) /\ calm \in Image
  BY <1>11 DEF Init
<1> QED
  BY <1>11, <1>12, <1>13 DEF Types

\* The types, and that a step that changes a block of the image is always done with
\* a copy of the right block in memory and on behalf of an inode that is known.
THEOREM TypesHold == Spec => []Types
<1>1. ASSUME Types, [Next]_vars PROVE Types'
  <2>1. CASE UNCHANGED vars
    BY <1>1, <2>1 DEF vars, Types, Ready, Control, Now
  <2>2. ASSUME NEW p \in Processes, NEW cmd \in Commands, NEW name \in Targets,
               Start(p, cmd, name)
        PROVE  Types'
    BY <1>1, <2>2, StartTypes
  <2>3. ASSUME NEW p \in Processes, Step(p), UNCHANGED <<starts, calm, since>>
        PROVE  Types'
    BY <1>1, <2>3, StepKeepsTypes DEF HistorySame
  <2> QED
    BY <1>1, <2>1, <2>2, <2>3 DEF Next
<1> QED
  BY InitTypes, <1>1, PTL DEF Spec

-----------------------------------------------------------------------------
(* The files no running command is given.  c is the image when no command   *)
(* was running last, N the names that no command was given since then.      *)

OldSlots(c, N) == {k \in Files(c) : c.dir[k].name \in N}
OldInodes(c, N) == {c.dir[k].ino : k \in OldSlots(c, N)}
OldBlocks(c, N) == {c.table[i].blk : i \in OldInodes(c, N)} \ {NilBlock}

\* The parts of an image, on disk or in memory, in which the files of N are as in c.
KeepsImap(m, c, N) == OldInodes(c, N) \subseteq m
KeepsBmap(m, c, N) == OldBlocks(c, N) \subseteq m
KeepsTable(t, c, N) ==
  /\ \A i \in OldInodes(c, N) : t[i] = c.table[i]
  /\ \A i \in Inodes \ OldInodes(c, N) : t[i].blk \notin OldBlocks(c, N)
  /\ t[RootIno].size >= c.table[RootIno].size
KeepsDir(d, c, N) ==
  /\ \A k \in OldSlots(c, N) : d[k] = c.dir[k]
  /\ \A k \in Slots \ OldSlots(c, N) :
       d[k].name \notin N /\ d[k].ino \notin OldInodes(c, N)
Keeps(im, c, N) ==
  /\ KeepsImap(im.imap, c, N) /\ KeepsBmap(im.bmap, c, N)
  /\ KeepsTable(im.table, c, N) /\ KeepsDir(im.dir, c, N)
  /\ \A b \in OldBlocks(c, N) : im.data[b] = c.data[b]

\* A process has none of them in its hands, and a block that it is about to write
\* back has them as they were.
Harmless(m, c, N) ==
  m.todo # <<>> =>
    /\ m.name \notin N
    /\ m.ino \notin OldInodes(c, N) /\ m.at \notin OldInodes(c, N)
    /\ m.in.blk \notin OldBlocks(c, N) /\ m.old \notin OldBlocks(c, N)
    /\ m.at = RootIno => m.in.size >= c.table[RootIno].size
    /\ Now(m) \in {"take inode", "drop inode"} => KeepsImap(m.buf.imap, c, N)
    /\ Now(m) \in {"take block", "drop block"} => KeepsBmap(m.buf.bmap, c, N)
    /\ Now(m) = "write inode" => KeepsTable(m.buf.table, c, N)
    /\ Now(m) \in {"enter name", "remove name"} => KeepsDir(m.buf.dir, c, N)

Kept(c, N) == Keeps(disk, c, N) /\ \A p \in Processes : Harmless(process[p], c, N)

\* The names that are given to no command since no command was running last.
Untouched == Names \ {s[2] : s \in ToSet(since)}
Epoch == Clean(calm) => Kept(calm, Untouched)

LEMMA OldFacts ==
  ASSUME NEW c \in Image, NEW N \in SUBSET Names
  PROVE  /\ OldInodes(c, N) \subseteq Inodes \ {RootIno}
         /\ OldBlocks(c, N) \subseteq Blocks
         /\ NilBlock \notin OldBlocks(c, N) /\ 0 \notin OldInodes(c, N)
         /\ OldSlots(c, N) \subseteq Slots
         /\ \A k \in OldSlots(c, N) : k < c.table[RootIno].size
         /\ "none" \notin N
<1>1. ASSUME NEW k \in OldSlots(c, N)
      PROVE  /\ k \in Slots /\ k < c.table[RootIno].size
             /\ c.dir[k].ino \in Inodes \ {RootIno}
  <2>1. k \in Slots /\ k < c.table[RootIno].size /\ c.dir[k] # NoEntry
    BY DEF OldSlots, Files
  <2>2. c.dir[k] \in Entry
    BY <2>1 DEF Image
  <2> QED
    BY <2>1, <2>2 DEF Entry
<1>2. OldInodes(c, N) \subseteq Inodes \ {RootIno}
  BY <1>1 DEF OldInodes
<1>3. \A i \in Inodes : c.table[i].blk \in Blocks \cup {NilBlock}
  BY DEF Image, Inode
<1>4. OldBlocks(c, N) \subseteq Blocks
  BY <1>2, <1>3 DEF OldBlocks
<1> QED
  BY <1>1, <1>2, <1>4, Numbers DEF OldBlocks

LEMMA IdleHarmless ==
  ASSUME NEW c, NEW N
  PROVE  Harmless(Idle, c, N)
BY DEF Harmless, Idle

LEMMA StepKept ==
  ASSUME Types, NEW c, NEW N, Kept(c, N), NEW p \in Processes, NEW me, NEW rest,
         Continue(p, me, rest),
         rest # <<>> => Harmless([me EXCEPT !.todo = rest], c, N),
         Keeps(disk', c, N)
  PROVE  Kept(c, N)'
<1>1. PICK m : Harmless(m, c, N) /\ process' = [process EXCEPT ![p] = m]
  <2>1. CASE rest = <<>>
    BY <2>1, IdleHarmless DEF Continue
  <2>2. CASE rest # <<>>
    BY <2>2 DEF Continue
  <2> QED
    BY <2>1, <2>2
<1>2. \A q \in Processes : Harmless(process'[q], c, N)
  BY <1>1 DEF Kept, Types
<1> QED
  BY <1>2 DEF Kept, Harmless, Now

\* What a process at a step may rely on.
LEMMA AtStepKept ==
  ASSUME Types, NEW c \in Image, NEW N \in SUBSET Names, Kept(c, N),
         NEW p \in Processes, NEW step, At(p, step)
  PROVE  /\ process[p].name \notin N
         /\ process[p].ino \notin OldInodes(c, N) /\ process[p].at \notin OldInodes(c, N)
         /\ process[p].in.blk \notin OldBlocks(c, N)
         /\ process[p].old \notin OldBlocks(c, N)
         /\ process[p].at = RootIno => process[p].in.size >= c.table[RootIno].size
         /\ step \in {"take inode", "drop inode"} => KeepsImap(process[p].buf.imap, c, N)
         /\ step \in {"take block", "drop block"} => KeepsBmap(process[p].buf.bmap, c, N)
         /\ step = "write inode" => KeepsTable(process[p].buf.table, c, N)
         /\ step \in {"enter name", "remove name"} => KeepsDir(process[p].buf.dir, c, N)
<1>1. Harmless(process[p], c, N) /\ process[p].todo # <<>> /\ Now(process[p]) = step
  BY DEF Kept, At, Now
<1> QED
  BY <1>1 DEF Harmless

\* Before every step that writes a block back there is one that reads it; before the
\* others nothing has to be known of what is in memory.
Plain == Steps \ {"take inode", "drop inode", "take block", "drop block", "write inode",
                  "enter name", "remove name"}

LEMMA PlainHarmless ==
  ASSUME NEW c, NEW N, NEW n \in Memory, n.name \notin N,
         n.ino \notin OldInodes(c, N), n.at \notin OldInodes(c, N),
         n.in.blk \notin OldBlocks(c, N), n.old \notin OldBlocks(c, N),
         n.at = RootIno => n.in.size >= c.table[RootIno].size,
         NEW rest, Chain(rest), rest # <<>> => Head(rest) \in Plain
  PROVE  rest # <<>> => Harmless([n EXCEPT !.todo = rest], c, N)
<1> DEFINE m == [n EXCEPT !.todo = rest]
<1>1. /\ m.todo = rest /\ m.ino = n.ino /\ m.at = n.at /\ m.in = n.in /\ m.old = n.old
      /\ m.name = n.name
  BY DEF Memory
<1> HIDE DEF m
<1>2. Harmless(m, c, N) \/ rest = <<>>
  BY <1>1 DEF Harmless, Now, Plain
<1> QED
  BY <1>2 DEF m

LEMMA PlainNext ==
  ASSUME NEW step \in Steps \ {"imap", "bmap", "table", "dir"}, NEW t, Follows(step, t)
  PROVE  t \in Plain
BY DEF Follows, Plain, Steps

LEMMA FailKept ==
  ASSUME Types, NEW c, NEW N, Kept(c, N), NEW p \in Processes, Fail(p)
  PROVE  Kept(c, N)'
<1>1. Continue(p, Idle, <<>>) /\ Keeps(disk', c, N)
  BY DEF Fail, ReadOnly, Kept
<1> QED
  BY <1>1, StepKept

LEMMA ReadRootKept ==
  ASSUME Types, NEW c \in Image, NEW N \in SUBSET Names, Kept(c, N),
         NEW p \in Processes, ReadRoot(p)
  PROVE  Kept(c, N)'
<1> DEFINE me == process[p]
           rest == Rest(p)
           n == [me EXCEPT !.in = disk.table[RootIno], !.at = RootIno]
<1>1. At(p, "read root") /\ Continue(p, n, rest) /\ UNCHANGED disk
  BY DEF ReadRoot, ReadOnly
<1>2. me \in Memory /\ Chain(rest) /\ (rest # <<>> => Follows("read root", Head(rest)))
  BY <1>1, AtStep
<1>3. rest # <<>> => Head(rest) \in Plain
  BY <1>2, PlainNext DEF Steps
<1>4. /\ me.name \notin N /\ me.ino \notin OldInodes(c, N)
      /\ me.old \notin OldBlocks(c, N)
  BY <1>1, AtStepKept
<1>5. /\ RootIno \in Inodes \ OldInodes(c, N)
      /\ disk.table[RootIno].blk \notin OldBlocks(c, N)
      /\ disk.table[RootIno].size >= c.table[RootIno].size
  BY OldFacts, Numbers DEF Kept, Keeps, KeepsTable
<1>6. /\ n \in Memory /\ n.name = me.name /\ n.ino = me.ino /\ n.old = me.old
      /\ n.at = RootIno /\ n.in = disk.table[RootIno]
  BY <1>2, Numbers DEF Memory, Types, Image
<1> HIDE DEF n
<1>7. rest # <<>> => Harmless([n EXCEPT !.todo = rest], c, N)
  BY <1>2, <1>3, <1>4, <1>5, <1>6, PlainHarmless
<1> QED
  BY <1>1, <1>7, StepKept DEF Kept

LEMMA LookUpKept ==
  ASSUME Types, NEW c \in Image, NEW N \in SUBSET Names, Kept(c, N),
         NEW p \in Processes, LookUp(p)
  PROVE  Kept(c, N)'
<1> DEFINE me == process[p]
           found == EntriesOf(disk.dir, me.in.size, me.name)
<1>1. At(p, "look up") /\ UNCHANGED disk
  BY DEF LookUp, ReadOnly
<1>2. me \in Memory /\ me.cmd \in Commands
  BY <1>1, AtStep DEF Control
<1>3. /\ me.name \notin N
      /\ me.ino \notin OldInodes(c, N) /\ me.at \notin OldInodes(c, N)
      /\ me.in.blk \notin OldBlocks(c, N) /\ me.old \notin OldBlocks(c, N)
      /\ me.at = RootIno => me.in.size >= c.table[RootIno].size
  BY <1>1, AtStepKept
<1>4. CASE found = {}
  <2> DEFINE list == Missing[me.cmd]
  <2>1. Continue(p, me, list)
    BY <1>4 DEF LookUp, ReadOnly
  <2>2. Chain(list) /\ (list # <<>> => Head(list) \in Plain)
    BY <1>2, Beginnings, HeadFirst DEF Plain, Steps
  <2> HIDE DEF list
  <2>3. list # <<>> => Harmless([me EXCEPT !.todo = list], c, N)
    BY <1>2, <1>3, <2>2, PlainHarmless
  <2> QED
    BY <1>1, <2>1, <2>3, StepKept DEF Kept
<1>5. CASE found # {}
  <2> DEFINE list == Found[me.cmd]
             k == Min(found)
             n == [me EXCEPT !.ino = disk.dir[k].ino]
  <2>1. Continue(p, n, list)
    BY <1>5 DEF LookUp, ReadOnly
  <2>2. Chain(list) /\ (list # <<>> => Head(list) \in Plain)
    BY <1>2, Beginnings, HeadFirst DEF Plain, Steps
  <2>3. k \in Slots /\ disk.dir[k].name = me.name
    <3>1. found \in SUBSET Slots /\ \A j \in found : disk.dir[j].name = me.name
      BY DEF EntriesOf
    <3>2. Min(found) \in found
      BY <1>5, <3>1, Numbers, MinProperty
    <3> QED
      BY <3>1, <3>2
  <2>4. disk.dir[k].ino \notin OldInodes(c, N)
    <3>1. KeepsDir(disk.dir, c, N)
      BY DEF Kept, Keeps
    <3>2. k \notin OldSlots(c, N)
      BY <1>3, <2>3, <3>1 DEF KeepsDir, OldSlots
    <3> QED
      BY <2>3, <3>1, <3>2 DEF KeepsDir
  <2>5. disk.dir[k].ino \in {0} \cup (Inodes \ {RootIno})
    <3>1. disk.dir[k] \in Entry
      BY <2>3 DEF Types, Image
    <3> QED
      BY <3>1 DEF Entry, NoEntry
  <2> HIDE DEF list, k
  <2>6. /\ n \in Memory /\ n.name = me.name /\ n.ino = disk.dir[k].ino /\ n.old = me.old
        /\ n.at = me.at /\ n.in = me.in
    BY <1>2, <2>5 DEF Memory
  <2> HIDE DEF n
  <2>7. list # <<>> => Harmless([n EXCEPT !.todo = list], c, N)
    BY <1>3, <2>2, <2>4, <2>6, PlainHarmless
  <2> QED
    BY <1>1, <2>1, <2>7, StepKept DEF Kept
<1> QED
  BY <1>4, <1>5

LEMMA ReadInodeKept ==
  ASSUME Types, NEW c \in Image, NEW N \in SUBSET Names, Kept(c, N),
         NEW p \in Processes, ReadInode(p)
  PROVE  Kept(c, N)'
<1> DEFINE me == process[p]
           rest == Rest(p)
           x == disk.table[me.ino]
           n == [me EXCEPT !.in = x, !.at = me.ino]
           o == [n EXCEPT !.in = NoInode, !.old = x.blk]
           ToWrite == (IF x.blk = NilBlock THEN AllocBlock ELSE <<>>) \o rest
           ToFree == (IF x.blk = NilBlock THEN <<>> ELSE FreeBlock) \o rest
<1>1. PICK step \in {"read inode to write", "read inode to read", "read inode to truncate"} :
        At(p, step)
  BY DEF ReadInode
<1>2. /\ me \in Memory /\ Control(me) /\ Now(me) = step /\ Chain(rest)
      /\ rest # <<>> => Follows(step, Head(rest))
  BY <1>1, AtStep
<1>3. me.ino \in Inodes \ {RootIno} /\ x \in Inode
  <2>1. me.ino # 0
    BY <1>2 DEF Control
  <2> QED
    BY <1>2, <2>1 DEF Memory, Types, Image
<1>4. /\ me.name \notin N /\ me.ino \notin OldInodes(c, N) /\ me.old \notin OldBlocks(c, N)
  BY <1>1, AtStepKept
<1>5. x.blk \notin OldBlocks(c, N)
  BY <1>3, <1>4 DEF Kept, Keeps, KeepsTable
<1>6. /\ n \in Memory /\ n.name = me.name /\ n.ino = me.ino /\ n.old = me.old
      /\ n.at = me.ino /\ n.in = x
  BY <1>2, <1>3 DEF Memory
<1>7. /\ o \in Memory /\ o.name = me.name /\ o.ino = me.ino /\ o.old = x.blk
      /\ o.at = me.ino /\ o.in = NoInode
  BY <1>2, <1>3, IdleReady DEF Memory, Inode
<1>8. NoInode.blk \notin OldBlocks(c, N)
  BY OldFacts DEF NoInode
<1>9. ASSUME NEW m \in {n, o}, NEW list, Continue(p, m, list), UNCHANGED disk,
             Chain(list), list # <<>> => Head(list) \in Plain
      PROVE  Kept(c, N)'
  <2>1. list # <<>> => Harmless([m EXCEPT !.todo = list], c, N)
    <3>1. /\ m \in Memory /\ m.name \notin N
          /\ m.ino \notin OldInodes(c, N) /\ m.at \notin OldInodes(c, N)
          /\ m.in.blk \notin OldBlocks(c, N) /\ m.old \notin OldBlocks(c, N)
          /\ m.at # RootIno
      BY <1>3, <1>4, <1>5, <1>6, <1>7, <1>8
    <3> HIDE DEF n, o
    <3> QED
      BY <1>9, <3>1, PlainHarmless
  <2> QED
    BY <1>9, <2>1, StepKept DEF Kept
<1> HIDE DEF n, o
<1>10. CASE step = "read inode to write"
  <2>1. Continue(p, n, ToWrite) /\ UNCHANGED disk
    BY <1>1, <1>10 DEF ReadInode, ReadOnly, At, n
  <2>2. rest # <<>> => Head(rest) = "write data" /\ Follows("clear block", Head(rest))
    BY <1>2, <1>10 DEF Follows
  <2>3. Chain(ToWrite) /\ (ToWrite # <<>> => Head(ToWrite) \in {"bmap", "write data"})
    <3>1. CASE x.blk = NilBlock
      BY <1>2, <2>2, <3>1, Parts, Before
    <3>2. CASE x.blk # NilBlock
      BY <1>2, <2>2, <3>2, ConcatEmptySeq DEF Chain
    <3> QED
      BY <3>1, <3>2
  <2> HIDE DEF ToWrite
  <2> QED
    BY <1>9, <2>1, <2>3 DEF Plain, Steps
<1>11. CASE step = "read inode to read"
  <2> DEFINE list == IF x.size = 0 THEN <<>> ELSE rest
  <2>1. Continue(p, n, list) /\ UNCHANGED disk
    BY <1>1, <1>11 DEF ReadInode, ReadOnly, At, n
  <2>2. rest # <<>> => Head(rest) = "table"
    BY <1>2, <1>11 DEF Follows
  <2>3. Chain(list) /\ (list # <<>> => Head(list) = "table")
    <3>1. Chain(<<>>)
      BY NilChain
    <3>2. list = <<>> \/ list = rest
      OBVIOUS
    <3> HIDE DEF list, rest
    <3> QED
      BY <1>2, <2>2, <3>1, <3>2
  <2> HIDE DEF list
  <2> QED
    BY <1>9, <2>1, <2>3 DEF Plain, Steps
<1>12. CASE step = "read inode to truncate"
  <2>1. Continue(p, o, ToFree) /\ UNCHANGED disk
    BY <1>1, <1>12 DEF ReadInode, ReadOnly, At, n, o
  <2>2. rest # <<>> => Head(rest) = "table" /\ Follows("drop block", Head(rest))
    BY <1>2, <1>12 DEF Follows
  <2>3. Chain(ToFree) /\ (ToFree # <<>> => Head(ToFree) \in {"test block", "table"})
    <3>1. CASE x.blk # NilBlock
      BY <1>2, <2>2, <3>1, Parts, Before
    <3>2. CASE x.blk = NilBlock
      BY <1>2, <2>2, <3>2, ConcatEmptySeq DEF Chain
    <3> QED
      BY <3>1, <3>2
  <2> HIDE DEF ToFree
  <2> QED
    BY <1>9, <2>1, <2>3 DEF Plain, Steps
<1> QED
  BY <1>1, <1>10, <1>11, <1>12

LEMMA ReadBlockKept ==
  ASSUME Types, NEW c \in Image, NEW N \in SUBSET Names, Kept(c, N),
         NEW p \in Processes, ReadBlock(p)
  PROVE  Kept(c, N)'
<1> DEFINE me == process[p]
           rest == Rest(p)
<1>1. PICK b \in {"imap", "bmap", "table", "dir"} :
        /\ At(p, b) /\ UNCHANGED disk
        /\ Continue(p, [me EXCEPT !.buf = [NoBuffer EXCEPT ![b] = disk[b]]], rest)
  BY DEF ReadBlock, ReadOnly
<1> DEFINE buf == [NoBuffer EXCEPT ![b] = disk[b]]
           n == [me EXCEPT !.buf = buf]
           m == [n EXCEPT !.todo = rest]
<1>2. me \in Memory /\ Chain(rest) /\ (rest # <<>> => Follows(b, Head(rest)))
  BY <1>1, AtStep
<1>3. /\ me.name \notin N
      /\ me.ino \notin OldInodes(c, N) /\ me.at \notin OldInodes(c, N)
      /\ me.in.blk \notin OldBlocks(c, N) /\ me.old \notin OldBlocks(c, N)
      /\ me.at = RootIno => me.in.size >= c.table[RootIno].size
  BY <1>1, AtStepKept
<1>4. buf[b] = disk[b]
  BY DEF NoBuffer
<1>5. /\ m.todo = rest /\ m.name = me.name /\ m.ino = me.ino /\ m.at = me.at
      /\ m.in = me.in /\ m.old = me.old /\ m.buf = buf
  BY <1>2 DEF Memory
<1>6. Keeps(disk, c, N)
  BY DEF Kept
<1> HIDE DEF m, buf
<1>7. ASSUME rest # <<>> PROVE Harmless(m, c, N)
  <2>1. Now(m) = Head(rest)
    BY <1>5 DEF Now
  <2>2. Now(m) \in {"take inode", "drop inode"} => KeepsImap(m.buf.imap, c, N)
    <3>1. Now(m) \in {"take inode", "drop inode"} => b = "imap"
      BY <1>2, <1>7, <2>1 DEF Follows
    <3> QED
      BY <1>4, <1>5, <1>6, <3>1 DEF Keeps
  <2>3. Now(m) \in {"take block", "drop block"} => KeepsBmap(m.buf.bmap, c, N)
    <3>1. Now(m) \in {"take block", "drop block"} => b = "bmap"
      BY <1>2, <1>7, <2>1 DEF Follows
    <3> QED
      BY <1>4, <1>5, <1>6, <3>1 DEF Keeps
  <2>4. Now(m) = "write inode" => KeepsTable(m.buf.table, c, N)
    <3>1. Now(m) = "write inode" => b = "table"
      BY <1>2, <1>7, <2>1 DEF Follows
    <3> QED
      BY <1>4, <1>5, <1>6, <3>1 DEF Keeps
  <2>5. Now(m) \in {"enter name", "remove name"} => KeepsDir(m.buf.dir, c, N)
    <3>1. Now(m) \in {"enter name", "remove name"} => b = "dir"
      BY <1>2, <1>7, <2>1 DEF Follows
    <3> QED
      BY <1>4, <1>5, <1>6, <3>1 DEF Keeps
  <2> QED
    BY <1>3, <1>5, <2>2, <2>3, <2>4, <2>5 DEF Harmless
<1> QED
  BY <1>1, <1>6, <1>7, StepKept DEF m, buf

LEMMA WriteTableKept ==
  ASSUME Types, NEW c \in Image, NEW N \in SUBSET Names, Kept(c, N),
         NEW p \in Processes, WriteTable(p)
  PROVE  Kept(c, N)'
<1> DEFINE me == process[p]
           rest == Rest(p)
           t == [me.buf.table EXCEPT ![me.at] = me.in]
           im == [disk EXCEPT !.table = t]
<1>1. At(p, "write inode") /\ disk' = im /\ Continue(p, me, rest)
  BY DEF WriteTable, Write
<1>2. /\ me \in Memory /\ Control(me) /\ Now(me) = "write inode" /\ Chain(rest)
      /\ rest # <<>> => Follows("write inode", Head(rest))
  BY <1>1, AtStep
<1>3. rest # <<>> => Head(rest) \in Plain
  BY <1>2, PlainNext DEF Steps
<1>4. /\ me.name \notin N
      /\ me.ino \notin OldInodes(c, N) /\ me.at \notin OldInodes(c, N)
      /\ me.in.blk \notin OldBlocks(c, N) /\ me.old \notin OldBlocks(c, N)
      /\ me.at = RootIno => me.in.size >= c.table[RootIno].size
      /\ KeepsTable(me.buf.table, c, N)
  BY <1>1, AtStepKept
<1>5. rest # <<>> => Harmless([me EXCEPT !.todo = rest], c, N)
  BY <1>2, <1>3, <1>4, PlainHarmless
<1>6. KeepsTable(t, c, N)
  <2>1. me.buf.table \in [Inodes -> Inode] /\ OldInodes(c, N) \subseteq Inodes
    BY <1>2, OldFacts DEF Control
  <2>2. \A i \in Inodes : t[i] = IF i = me.at THEN me.in ELSE me.buf.table[i]
    BY <2>1
  <2> HIDE DEF t
  <2> QED
    BY <1>4, <2>1, <2>2, Numbers DEF KeepsTable
<1>7. Keeps(im, c, N)
  <2>1. /\ im.table = t /\ im.imap = disk.imap /\ im.bmap = disk.bmap /\ im.dir = disk.dir
        /\ im.data = disk.data
    BY DEF Types, Image
  <2> QED
    BY <1>6, <2>1 DEF Keeps, Kept
<1> QED
  BY <1>1, <1>5, <1>7, StepKept

LEMMA TakeInodeKept ==
  ASSUME Types, NEW c \in Image, NEW N \in SUBSET Names, Kept(c, N),
         NEW p \in Processes, TakeInode(p)
  PROVE  Kept(c, N)'
<1> DEFINE me == process[p]
           rest == Rest(p)
           free == Inodes \ me.buf.imap
           x == Min(free)
           im == [disk EXCEPT !.imap = me.buf.imap \cup {x}]
           n == [me EXCEPT !.ino = x, !.at = x, !.in = NoInode]
<1>1. CASE free = {}
  BY <1>1, FailKept DEF TakeInode
<1>2. CASE free # {}
  <2>1. At(p, "take inode") /\ disk' = im /\ Continue(p, n, rest)
    BY <1>2 DEF TakeInode, Write
  <2>2. /\ me \in Memory /\ Control(me) /\ Now(me) = "take inode" /\ Chain(rest)
        /\ rest # <<>> => Follows("take inode", Head(rest))
    BY <2>1, AtStep
  <2>3. rest # <<>> => Head(rest) \in Plain
    BY <2>2, PlainNext DEF Steps
  <2>4. /\ me.name \notin N /\ me.old \notin OldBlocks(c, N)
        /\ OldInodes(c, N) \subseteq me.buf.imap
    BY <2>1, AtStepKept DEF KeepsImap
  <2>5. x \in Inodes /\ x \notin me.buf.imap /\ x # RootIno
    <3>1. free \in SUBSET Nat
      BY Numbers
    <3>2. x \in free
      BY <1>2, <3>1, MinProperty
    <3> QED
      BY <2>2, <3>2 DEF Control
  <2>6. NoInode.blk \notin OldBlocks(c, N)
    BY OldFacts DEF NoInode
  <2>7. /\ n \in Memory /\ n.name = me.name /\ n.ino = x /\ n.at = x /\ n.in = NoInode
        /\ n.old = me.old
    BY <2>2, <2>5, IdleReady DEF Memory
  <2>8. Keeps(im, c, N)
    <3>1. /\ im.imap = me.buf.imap \cup {x} /\ im.bmap = disk.bmap /\ im.table = disk.table
          /\ im.dir = disk.dir /\ im.data = disk.data
      BY DEF Types, Image
    <3> QED
      BY <2>4, <3>1 DEF Keeps, Kept, KeepsImap
  <2> HIDE DEF n, im, x
  <2>9. rest # <<>> => Harmless([n EXCEPT !.todo = rest], c, N)
    BY <2>2, <2>3, <2>4, <2>5, <2>6, <2>7, PlainHarmless
  <2> QED
    BY <2>1, <2>8, <2>9, StepKept
<1> QED
  BY <1>1, <1>2

LEMMA TakeBlockKept ==
  ASSUME Types, NEW c \in Image, NEW N \in SUBSET Names, Kept(c, N),
         NEW p \in Processes, TakeBlock(p)
  PROVE  Kept(c, N)'
<1> DEFINE me == process[p]
           rest == Rest(p)
           free == Blocks \ me.buf.bmap
           x == Min(free)
           im == [disk EXCEPT !.bmap = me.buf.bmap \cup {x}]
           n == [me EXCEPT !.in.blk = x]
<1>1. CASE free = {}
  BY <1>1, FailKept DEF TakeBlock
<1>2. CASE free # {}
  <2>1. At(p, "take block") /\ disk' = im /\ Continue(p, n, rest)
    BY <1>2 DEF TakeBlock, Write
  <2>2. /\ me \in Memory /\ Control(me) /\ Now(me) = "take block" /\ Chain(rest)
        /\ rest # <<>> => Follows("take block", Head(rest))
    BY <2>1, AtStep
  <2>3. rest # <<>> => Head(rest) \in Plain
    BY <2>2, PlainNext DEF Steps
  <2>4. /\ me.name \notin N /\ me.old \notin OldBlocks(c, N)
        /\ me.ino \notin OldInodes(c, N) /\ me.at \notin OldInodes(c, N)
        /\ OldBlocks(c, N) \subseteq me.buf.bmap
    BY <2>1, AtStepKept DEF KeepsBmap
  <2>5. x \in Blocks /\ x \notin me.buf.bmap /\ me.at # RootIno
    <3>1. free \in SUBSET Nat
      BY Numbers
    <3>2. x \in free
      BY <1>2, <3>1, MinProperty
    <3> QED
      BY <2>2, <3>2 DEF Control
  <2>6. me.in \in Inode /\ [me.in EXCEPT !.blk = x] \in Inode
        /\ [me.in EXCEPT !.blk = x].blk = x
    BY <2>2, <2>5 DEF Memory, Inode
  <2>7. /\ n \in Memory /\ n.name = me.name /\ n.ino = me.ino /\ n.at = me.at
        /\ n.in = [me.in EXCEPT !.blk = x] /\ n.old = me.old
    BY <2>2, <2>6 DEF Memory
  <2>8. Keeps(im, c, N)
    <3>1. /\ im.bmap = me.buf.bmap \cup {x} /\ im.imap = disk.imap /\ im.table = disk.table
          /\ im.dir = disk.dir /\ im.data = disk.data
      BY DEF Types, Image
    <3> QED
      BY <2>4, <3>1 DEF Keeps, Kept, KeepsBmap
  <2> HIDE DEF n, im, x
  <2>9. n.in.blk \notin OldBlocks(c, N)
    BY <2>4, <2>5, <2>6, <2>7
  <2>10. rest # <<>> => Harmless([n EXCEPT !.todo = rest], c, N)
    BY <2>2, <2>3, <2>4, <2>5, <2>7, <2>9, PlainHarmless
  <2> QED
    BY <2>1, <2>8, <2>10, StepKept
<1> QED
  BY <1>1, <1>2

LEMMA WriteDataKept ==
  ASSUME Types, NEW c \in Image, NEW N \in SUBSET Names, Kept(c, N),
         NEW p \in Processes, WriteData(p)
  PROVE  Kept(c, N)'
<1> DEFINE me == process[p]
           rest == Rest(p)
           Im(d) == [disk EXCEPT !.data[me.in.blk] = d]
           n == [me EXCEPT !.in.size = 1]
<1>1. PICK step \in {"clear block", "write data"}, d \in Names \cup {"zeros"} :
        /\ At(p, step) /\ disk' = Im(d)
        /\ Continue(p, IF step = "clear block" THEN me ELSE n, rest)
  <2>1. CASE At(p, "clear block")
    BY <2>1 DEF WriteData, Write, At
  <2>2. CASE At(p, "write data")
    <3>1. me.name \in Names
      BY <2>2, AtStep DEF Control
    <3> QED
      BY <2>2, <3>1 DEF WriteData, Write, At
  <2> QED
    BY <2>1, <2>2 DEF WriteData
<1>2. /\ me \in Memory /\ Control(me) /\ Now(me) = step /\ Chain(rest)
      /\ rest # <<>> => Follows(step, Head(rest))
  BY <1>1, AtStep
<1>3. rest # <<>> => Head(rest) \in Plain
  BY <1>2, PlainNext DEF Steps
<1>4. /\ me.name \notin N
      /\ me.ino \notin OldInodes(c, N) /\ me.at \notin OldInodes(c, N)
      /\ me.in.blk \notin OldBlocks(c, N) /\ me.old \notin OldBlocks(c, N)
  BY <1>1, AtStepKept
<1>5. me.at # RootIno
  BY <1>2 DEF Control
<1>6. /\ n \in Memory /\ n.name = me.name /\ n.ino = me.ino /\ n.at = me.at
      /\ n.in.blk = me.in.blk /\ n.old = me.old
  <2>1. me.in \in Inode
    BY <1>2 DEF Memory
  <2>2. [me.in EXCEPT !.size = 1] \in Inode /\ [me.in EXCEPT !.size = 1].blk = me.in.blk
    BY <2>1 DEF Inode
  <2>3. n.in = [me.in EXCEPT !.size = 1]
    BY <1>2 DEF Memory
  <2> QED
    BY <1>2, <2>2, <2>3 DEF Memory
<1>7. Keeps(Im(d), c, N)
  <2>1. /\ Im(d).imap = disk.imap /\ Im(d).bmap = disk.bmap /\ Im(d).table = disk.table
        /\ Im(d).dir = disk.dir /\ Im(d).data = [disk.data EXCEPT ![me.in.blk] = d]
    BY DEF Types, Image
  <2>2. \A b \in OldBlocks(c, N) : Im(d).data[b] = disk.data[b]
    BY <1>4, <2>1, OldFacts DEF Types, Image
  <2> QED
    BY <2>1, <2>2 DEF Keeps, Kept
<1> HIDE DEF n, Im
<1>8. rest # <<>> => Harmless([n EXCEPT !.todo = rest], c, N)
  BY <1>2, <1>3, <1>4, <1>5, <1>6, PlainHarmless
<1>9. rest # <<>> => Harmless([me EXCEPT !.todo = rest], c, N)
  BY <1>2, <1>3, <1>4, <1>5, PlainHarmless
<1>10. CASE step = "clear block"
  BY <1>1, <1>7, <1>9, <1>10, StepKept
<1>11. CASE step = "write data"
  BY <1>1, <1>7, <1>8, <1>11, StepKept
<1> QED
  BY <1>10, <1>11

LEMMA TestBitKept ==
  ASSUME Types, NEW c \in Image, NEW N \in SUBSET Names, Kept(c, N),
         NEW p \in Processes, TestBit(p)
  PROVE  Kept(c, N)'
<1> DEFINE me == process[p]
           rest == Rest(p)
           skip == SubSeq(rest, 3, Len(rest))
<1>1. PICK step \in {"test block", "test inode"} :
        /\ At(p, step) /\ UNCHANGED disk
        /\ Continue(p, me, rest) \/ Continue(p, me, skip)
  BY DEF TestBit, ReadOnly
<1>2. me \in Memory /\ Chain(rest) /\ (rest # <<>> => Follows(step, Head(rest)))
  BY <1>1, AtStep
<1>3. Chain(skip) /\ (skip # <<>> =>
        rest # <<>> /\ \E next : Follows(Head(rest), next) /\ Follows(next, Head(skip)))
  BY <1>2, SkipTwo
<1>4. /\ me.name \notin N
      /\ me.ino \notin OldInodes(c, N) /\ me.at \notin OldInodes(c, N)
      /\ me.in.blk \notin OldBlocks(c, N) /\ me.old \notin OldBlocks(c, N)
      /\ me.at = RootIno => me.in.size >= c.table[RootIno].size
  BY <1>1, AtStepKept
<1> HIDE DEF me, rest, skip
<1>5. rest # <<>> => Head(rest) \in {"bmap", "imap"}
  BY <1>2 DEF Follows
<1>6. skip # <<>> => Head(skip) \in Plain
  <2>1. \A next : Follows("bmap", next) \/ Follows("imap", next) =>
                    next \in {"take block", "drop block", "take inode", "drop inode"}
    BY DEF Follows
  <2>2. \A next \in {"take block", "drop block", "take inode", "drop inode"} :
          \A t : Follows(next, t) => t \in Plain
    BY PlainNext DEF Steps
  <2> QED
    BY <1>3, <1>5, <2>1, <2>2
<1>7. rest # <<>> => Harmless([me EXCEPT !.todo = rest], c, N)
  BY <1>2, <1>4, <1>5, PlainHarmless DEF Plain, Steps
<1>8. skip # <<>> => Harmless([me EXCEPT !.todo = skip], c, N)
  BY <1>2, <1>3, <1>4, <1>6, PlainHarmless
<1>9. Keeps(disk', c, N)
  BY <1>1 DEF Kept
<1> QED
  BY <1>1, <1>7, <1>8, <1>9, StepKept

LEMMA DropBitKept ==
  ASSUME Types, NEW c \in Image, NEW N \in SUBSET Names, Kept(c, N),
         NEW p \in Processes, DropBit(p)
  PROVE  Kept(c, N)'
<1> DEFINE me == process[p]
           rest == Rest(p)
<1>1. PICK step \in {"drop block", "drop inode"} :
        /\ At(p, step) /\ Continue(p, me, rest)
        /\ disk' = IF step = "drop block"
                   THEN [disk EXCEPT !.bmap = me.buf.bmap \ {me.old}]
                   ELSE [disk EXCEPT !.imap = me.buf.imap \ {me.ino}]
  BY DEF DropBit, Write
<1>2. me \in Memory /\ Chain(rest) /\ (rest # <<>> => Follows(step, Head(rest)))
  BY <1>1, AtStep
<1>3. rest # <<>> => Head(rest) \in Plain
  BY <1>2, PlainNext DEF Steps
<1>4. /\ me.name \notin N
      /\ me.ino \notin OldInodes(c, N) /\ me.at \notin OldInodes(c, N)
      /\ me.in.blk \notin OldBlocks(c, N) /\ me.old \notin OldBlocks(c, N)
      /\ me.at = RootIno => me.in.size >= c.table[RootIno].size
      /\ step = "drop block" => OldBlocks(c, N) \subseteq me.buf.bmap
      /\ step = "drop inode" => OldInodes(c, N) \subseteq me.buf.imap
  BY <1>1, AtStepKept DEF KeepsImap, KeepsBmap
<1>5. rest # <<>> => Harmless([me EXCEPT !.todo = rest], c, N)
  BY <1>2, <1>3, <1>4, PlainHarmless
<1>6. Keeps(disk', c, N)
  <2>1. CASE step = "drop block"
    <3>1. /\ disk'.bmap = me.buf.bmap \ {me.old} /\ disk'.imap = disk.imap
          /\ disk'.table = disk.table /\ disk'.dir = disk.dir /\ disk'.data = disk.data
      BY <1>1, <2>1 DEF Types, Image
    <3> QED
      BY <1>4, <2>1, <3>1 DEF Keeps, Kept, KeepsBmap
  <2>2. CASE step = "drop inode"
    <3>1. /\ disk'.imap = me.buf.imap \ {me.ino} /\ disk'.bmap = disk.bmap
          /\ disk'.table = disk.table /\ disk'.dir = disk.dir /\ disk'.data = disk.data
      BY <1>1, <2>2 DEF Types, Image
    <3> QED
      BY <1>4, <2>2, <3>1 DEF Keeps, Kept, KeepsImap
  <2> QED
    BY <2>1, <2>2
<1> QED
  BY <1>1, <1>5, <1>6, StepKept

LEMMA Longer ==
  ASSUME NEW in \in Inode
  PROVE  /\ [in EXCEPT !.size = @ + 1] \in Inode
         /\ [in EXCEPT !.size = @ + 1].blk = in.blk
         /\ [in EXCEPT !.size = @ + 1].size = in.size + 1
BY DEF Inode

LEMMA Beyond ==
  ASSUME NEW size \in Nat, NEW old \in Nat, size >= old
  PROVE  size + 1 >= old /\ ~ size < old
OBVIOUS

LEMMA ChangeNameKept ==
  ASSUME Types, NEW c \in Image, NEW N \in SUBSET Names, Kept(c, N),
         NEW p \in Processes, ChangeName(p)
  PROVE  Kept(c, N)'
<1> DEFINE me == process[p]
           rest == Rest(p)
           found == EntriesOf(me.buf.dir, me.in.size, me.name)
           new == [name |-> me.name, ino |-> me.ino]
           n == [me EXCEPT !.in.size = @ + 1]
           Dir(k, e) == [me.buf.dir EXCEPT ![k] = e]
           Im(k, e) == [disk EXCEPT !.dir = Dir(k, e)]
<1>1. CASE Fail(p)
  BY <1>1, FailKept
<1>2. CASE ~ Fail(p)
  <2>1. PICK step \in {"enter name", "remove name"} :
          /\ At(p, step)
          /\ step = "enter name" => /\ me.in.size \in Slots /\ disk' = Im(me.in.size, new)
                                    /\ Continue(p, n, rest)
          /\ step = "remove name" => /\ found # {} /\ disk' = Im(Min(found), NoEntry)
                                     /\ Continue(p, me, rest)
    <3>1. CASE At(p, "enter name")
      BY <1>2, <3>1 DEF ChangeName, Write, At
    <3>2. CASE At(p, "remove name")
      BY <1>2, <3>2 DEF ChangeName, Write, At
    <3> QED
      BY <3>1, <3>2 DEF ChangeName
  <2>2. /\ me \in Memory /\ Control(me) /\ Now(me) = step /\ Chain(rest)
        /\ rest # <<>> => Follows(step, Head(rest))
    BY <2>1, AtStep
  <2>3. rest # <<>> => Head(rest) \in Plain
    BY <2>2, PlainNext DEF Steps
  <2>4. /\ me.name \notin N
        /\ me.ino \notin OldInodes(c, N) /\ me.at \notin OldInodes(c, N)
        /\ me.in.blk \notin OldBlocks(c, N) /\ me.old \notin OldBlocks(c, N)
        /\ me.at = RootIno => me.in.size >= c.table[RootIno].size
        /\ KeepsDir(me.buf.dir, c, N)
    BY <2>1, AtStepKept
  <2>5. me.at = RootIno /\ me.buf.dir \in [Slots -> Entry] /\ me.in \in Inode
    BY <2>2 DEF Control, Memory
  <2>6. c.table[RootIno].size \in Nat /\ me.in.size \in Nat
    BY <2>5, Numbers DEF Image, Inode
  <2>7. ASSUME NEW k \in Slots \ OldSlots(c, N), NEW e, e.name \notin N,
               e.ino \notin OldInodes(c, N)
        PROVE  Keeps(Im(k, e), c, N)
    <3>1. \A j \in Slots : Dir(k, e)[j] = IF j = k THEN e ELSE me.buf.dir[j]
      BY <2>5
    <3>2. KeepsDir(Dir(k, e), c, N)
      <4> HIDE DEF Dir
      <4> QED
        BY <2>4, <2>7, <3>1, OldFacts DEF KeepsDir
    <3>3. /\ Im(k, e).dir = Dir(k, e) /\ Im(k, e).imap = disk.imap /\ Im(k, e).bmap = disk.bmap
          /\ Im(k, e).table = disk.table /\ Im(k, e).data = disk.data
      BY DEF Types, Image
    <3> HIDE DEF Im, Dir
    <3> QED
      BY <3>2, <3>3 DEF Keeps, Kept
  <2>8. CASE step = "enter name"
    <3>1. /\ n \in Memory /\ n.name = me.name /\ n.ino = me.ino /\ n.at = me.at
          /\ n.in.blk = me.in.blk /\ n.old = me.old /\ n.in.size = me.in.size + 1
      <4>1. /\ [me.in EXCEPT !.size = @ + 1] \in Inode
            /\ [me.in EXCEPT !.size = @ + 1].blk = me.in.blk
            /\ [me.in EXCEPT !.size = @ + 1].size = me.in.size + 1
        BY <2>5, Longer
      <4>2. n.in = [me.in EXCEPT !.size = @ + 1]
        BY <2>2 DEF Memory
      <4> QED
        BY <2>2, <4>1, <4>2 DEF Memory
    <3> DEFINE z == me.in.size
               old == c.table[RootIno].size
    <3>2. z \in Slots \ OldSlots(c, N)
      <4>1. z \in Nat /\ old \in Nat /\ z >= old /\ z \in Slots
        BY <2>1, <2>4, <2>5, <2>6, <2>8
      <4>2. z \in OldSlots(c, N) => z < old
        BY OldFacts
      <4> QED
        BY <4>1, <4>2, Beyond
    <3>3. new.name = me.name /\ new.ino = me.ino
      OBVIOUS
    <3> HIDE DEF n, Im, new
    <3>4. Keeps(disk', c, N)
      BY <2>1, <2>4, <2>7, <2>8, <3>2, <3>3
    <3>5. n.at = RootIno => n.in.size >= c.table[RootIno].size
      <4>1. z \in Nat /\ old \in Nat /\ z >= old
        BY <2>4, <2>5, <2>6
      <4>2. n.in.size = z + 1
        BY <3>1
      <4> QED
        BY <4>1, <4>2, Beyond
    <3>6. rest # <<>> => Harmless([n EXCEPT !.todo = rest], c, N)
      BY <2>2, <2>3, <2>4, <3>1, <3>5, PlainHarmless
    <3> QED
      BY <2>1, <2>8, <3>4, <3>6, StepKept
  <2>9. CASE step = "remove name"
    <3>1. Min(found) \in found /\ found \subseteq Slots
          /\ \A j \in found : me.buf.dir[j].name = me.name
      <4>1. found \in SUBSET Slots /\ \A j \in found : me.buf.dir[j].name = me.name
        BY DEF EntriesOf
      <4> QED
        BY <2>1, <2>9, <4>1, Numbers, MinProperty
    <3>2. Min(found) \in Slots \ OldSlots(c, N)
      BY <2>4, <3>1 DEF KeepsDir, OldSlots
    <3>3. NoEntry.name \notin N /\ NoEntry.ino \notin OldInodes(c, N)
      BY OldFacts DEF NoEntry
    <3> HIDE DEF Im, found
    <3>4. Keeps(disk', c, N)
      BY <2>1, <2>7, <2>9, <3>2, <3>3
    <3>5. rest # <<>> => Harmless([me EXCEPT !.todo = rest], c, N)
      BY <2>2, <2>3, <2>4, PlainHarmless
    <3> QED
      BY <2>1, <2>9, <3>4, <3>5, StepKept
  <2> QED
    BY <2>8, <2>9
<1> QED
  BY <1>1, <1>2

LEMMA StepKeeps ==
  ASSUME Types, NEW c \in Image, NEW N \in SUBSET Names, Kept(c, N),
         NEW p \in Processes, Step(p)
  PROVE  Kept(c, N)'
BY ReadRootKept, LookUpKept, ReadInodeKept, ReadBlockKept, WriteTableKept, TakeInodeKept,
   TakeBlockKept, WriteDataKept, TestBitKept, DropBitKept, ChangeNameKept DEF Step

-----------------------------------------------------------------------------
(* A command that is started: within a time in which commands run, the names *)
(* left alone become fewer; after a calm one, a new time begins.            *)

LEMMA FewerOld ==
  ASSUME NEW c, NEW N, NEW M \in SUBSET N
  PROVE  /\ OldSlots(c, M) \subseteq OldSlots(c, N)
         /\ OldInodes(c, M) \subseteq OldInodes(c, N)
         /\ OldBlocks(c, M) \subseteq OldBlocks(c, N)
         /\ OldInodes(c, N) \subseteq InodesNamed(c)
<1>1. OldSlots(c, M) \subseteq OldSlots(c, N) /\ OldSlots(c, N) \subseteq Files(c)
  BY DEF OldSlots
<1>2. OldInodes(c, M) \subseteq OldInodes(c, N) /\ OldInodes(c, N) \subseteq InodesNamed(c)
  BY <1>1 DEF OldInodes, InodesNamed
<1> QED
  BY <1>1, <1>2 DEF OldBlocks

\* In a clean image, the files of some names share nothing with the others.
LEMMA Apart ==
  ASSUME NEW c \in Image, Clean(c), NEW N \in SUBSET Names
  PROVE  /\ \A k \in Slots \ OldSlots(c, N) :
              c.dir[k].name \notin N /\ c.dir[k].ino \notin OldInodes(c, N)
         /\ \A i \in Inodes \ OldInodes(c, N) : c.table[i].blk \notin OldBlocks(c, N)
<1>1. ASSUME NEW k \in Slots \ OldSlots(c, N)
      PROVE  c.dir[k].name \notin N /\ c.dir[k].ino \notin OldInodes(c, N)
  <2>1. CASE k \in Files(c)
    <3>1. c.dir[k].name \notin N
      BY <1>1, <2>1 DEF OldSlots
    <3>2. \A j \in OldSlots(c, N) : c.dir[j].ino # c.dir[k].ino
      BY <1>1, <2>1 DEF OldSlots, Clean, Sound
    <3> QED
      BY <3>1, <3>2 DEF OldInodes
  <2>2. CASE k \notin Files(c)
    <3>1. c.dir[k] = NoEntry
      <4>1. k \in Nat /\ c.table[RootIno].size \in Nat
        BY Numbers DEF Image, Inode
      <4>2. k < c.table[RootIno].size \/ k >= c.table[RootIno].size
        BY <4>1
      <4> QED
        BY <2>2, <4>2 DEF Files, Clean, NothingBehind
    <3> QED
      BY <3>1, OldFacts DEF NoEntry
  <2> QED
    BY <2>1, <2>2
<1>2. ASSUME NEW i \in Inodes \ OldInodes(c, N)
      PROVE  c.table[i].blk \notin OldBlocks(c, N)
  <2>1. CASE i \in InodesNamed(c)
    <3>1. \A j \in OldInodes(c, N) :
            c.table[i].blk # NilBlock => c.table[i].blk # c.table[j].blk
      BY <1>2, <2>1, FewerOld DEF Clean, Sound
    <3> QED
      BY <3>1 DEF OldBlocks
  <2>2. CASE i \notin InodesNamed(c)
    BY <2>2, OldFacts DEF Clean, Cleared
  <2> QED
    BY <2>1, <2>2
<1> QED
  BY <1>1, <1>2

LEMMA KeepsFewer ==
  ASSUME NEW c \in Image, Clean(c), NEW N \in SUBSET Names, NEW M \in SUBSET N
  PROVE  /\ \A m : KeepsImap(m, c, N) => KeepsImap(m, c, M)
         /\ \A m : KeepsBmap(m, c, N) => KeepsBmap(m, c, M)
         /\ \A t : KeepsTable(t, c, N) => KeepsTable(t, c, M)
         /\ \A d : KeepsDir(d, c, N) => KeepsDir(d, c, M)
         /\ \A im : Keeps(im, c, N) => Keeps(im, c, M)
         /\ \A m : Harmless(m, c, N) => Harmless(m, c, M)
<1>1. /\ OldSlots(c, M) \subseteq OldSlots(c, N)
      /\ OldInodes(c, M) \subseteq OldInodes(c, N)
      /\ OldBlocks(c, M) \subseteq OldBlocks(c, N)
  BY FewerOld
<1>2. /\ \A k \in Slots \ OldSlots(c, M) :
           c.dir[k].name \notin M /\ c.dir[k].ino \notin OldInodes(c, M)
      /\ \A i \in Inodes \ OldInodes(c, M) : c.table[i].blk \notin OldBlocks(c, M)
  BY Apart
<1>3. \A m : KeepsImap(m, c, N) => KeepsImap(m, c, M)
  BY <1>1 DEF KeepsImap
<1>4. \A m : KeepsBmap(m, c, N) => KeepsBmap(m, c, M)
  BY <1>1 DEF KeepsBmap
<1>5. \A t : KeepsTable(t, c, N) => KeepsTable(t, c, M)
  <2> SUFFICES ASSUME NEW t, KeepsTable(t, c, N) PROVE KeepsTable(t, c, M)
    OBVIOUS
  <2>1. \A i \in Inodes \ OldInodes(c, M) : t[i].blk \notin OldBlocks(c, M)
    <3> SUFFICES ASSUME NEW i \in Inodes \ OldInodes(c, M)
                 PROVE  t[i].blk \notin OldBlocks(c, M)
      OBVIOUS
    <3>1. CASE i \in OldInodes(c, N)
      BY <1>2, <3>1 DEF KeepsTable
    <3>2. CASE i \notin OldInodes(c, N)
      BY <1>1, <3>2 DEF KeepsTable
    <3> QED
      BY <3>1, <3>2
  <2> QED
    BY <1>1, <2>1 DEF KeepsTable
<1>6. \A d : KeepsDir(d, c, N) => KeepsDir(d, c, M)
  <2> SUFFICES ASSUME NEW d, KeepsDir(d, c, N) PROVE KeepsDir(d, c, M)
    OBVIOUS
  <2>1. ASSUME NEW k \in Slots \ OldSlots(c, M)
        PROVE  d[k].name \notin M /\ d[k].ino \notin OldInodes(c, M)
    <3>1. CASE k \in OldSlots(c, N)
      BY <1>2, <3>1 DEF KeepsDir
    <3>2. CASE k \notin OldSlots(c, N)
      BY <1>1, <3>2 DEF KeepsDir
    <3> QED
      BY <3>1, <3>2
  <2> QED
    BY <1>1, <2>1 DEF KeepsDir
<1>7. \A im : Keeps(im, c, N) => Keeps(im, c, M)
  BY <1>1, <1>3, <1>4, <1>5, <1>6 DEF Keeps
<1>8. \A m : Harmless(m, c, N) => Harmless(m, c, M)
  BY <1>1, <1>3, <1>4, <1>5, <1>6 DEF Harmless
<1> QED
  BY <1>3, <1>4, <1>5, <1>6, <1>7, <1>8

\* A clean image keeps the files of every set of names as they are in it.
LEMMA CleanKeeps ==
  ASSUME NEW c \in Image, Clean(c), NEW N \in SUBSET Names
  PROVE  Keeps(c, c, N)
<1>1. OldInodes(c, N) \subseteq c.imap
  BY FewerOld DEF Clean, Sound
<1>2. OldBlocks(c, N) \subseteq c.bmap
  <2>1. OldBlocks(c, N) \subseteq BlocksNamed(c)
    BY FewerOld DEF OldBlocks, BlocksNamed
  <2> QED
    BY <2>1 DEF Clean, Sound
<1>3. KeepsTable(c.table, c, N)
  <2>1. c.table[RootIno].size \in Nat
    BY Numbers DEF Image, Inode
  <2> QED
    BY <2>1, Apart DEF KeepsTable
<1>4. KeepsDir(c.dir, c, N)
  BY Apart DEF KeepsDir
<1> QED
  BY <1>1, <1>2, <1>3, <1>4 DEF Keeps, KeepsImap, KeepsBmap

LEMMA AppendedTo ==
  ASSUME NEW S, NEW s \in Seq(S), NEW e \in S
  PROVE  ToSet(s) \subseteq ToSet(Append(s, e))
<1>1. /\ Len(s) \in Nat /\ DOMAIN s = 1 .. Len(s)
      /\ Append(s, e) \in Seq(S) /\ Len(Append(s, e)) = Len(s) + 1
      /\ \A i \in 1 .. Len(s) : Append(s, e)[i] = s[i]
  BY AppendProperties, LenProperties
<1>2. DOMAIN Append(s, e) = 1 .. Len(s) + 1
  BY <1>1, LenProperties
<1>3. 1 .. Len(s) \subseteq 1 .. Len(s) + 1
  BY <1>1
<1> QED
  BY <1>1, <1>2, <1>3 DEF ToSet

LEMMA StartKeeps ==
  ASSUME Types, Epoch, NEW p \in Processes, NEW cmd \in Commands, NEW name \in Targets,
         Start(p, cmd, name)
  PROVE  Epoch'
<1> DEFINE n == [Idle EXCEPT !.cmd = cmd, !.name = name]
           list == <<"read root", "look up">>
           M == Untouched'
<1> SUFFICES ASSUME Clean(calm') PROVE Kept(calm, Untouched)'
  BY DEF Epoch, Clean, Sound, Cleared, NothingBehind, Files, InodesNamed, BlocksNamed
<1>1. Continue(p, n, list) /\ disk' = disk
  BY DEF Start
<1>2. disk \in Image /\ calm \in Image /\ M \in SUBSET Names /\ Untouched \in SUBSET Names
  BY DEF Types, Untouched
<1>3. name \notin M
  <2>1. since \in Seq(Commands \X Targets)
    BY DEF Types
  <2>2. <<cmd, name>> \in ToSet(since')
    <3>1. CASE since' = <<<<cmd, name>>>>
      BY <3>1 DEF ToSet
    <3>2. CASE since' = Append(since, <<cmd, name>>)
      BY <2>1, <3>2 DEF ToSet
    <3> QED
      BY <3>1, <3>2 DEF Start
  <2> QED
    BY <2>2 DEF Untouched
<1>4. ASSUME NEW c \in Image PROVE Harmless([n EXCEPT !.todo = list], c, M)
  <2>1. list # <<>> /\ Head(list) = "read root" /\ Chain(list)
    BY Parts, HeadFirst DEF FromTo
  <2>2. 0 \notin OldInodes(c, M) /\ NilBlock \notin OldBlocks(c, M)
    BY <1>2, OldFacts
  <2>3. /\ n \in Memory /\ n.name = name /\ n.ino = 0 /\ n.at = 0 /\ n.in.blk = NilBlock
        /\ n.old = NilBlock
    <3>1. name \in Names
      BY Numbers
    <3> QED
      BY <3>1, IdleReady DEF Idle, Memory, NoInode
  <2>4. Head(list) \in Plain
    BY <2>1 DEF Plain, Steps
  <2>5. n.at # RootIno
    BY <2>3 DEF RootIno
  <2> HIDE DEF list, n, M
  <2>6. list # <<>> => Harmless([n EXCEPT !.todo = list], c, M)
    BY <1>3, <2>1, <2>2, <2>3, <2>4, <2>5, PlainHarmless
  <2> QED
    BY <2>1, <2>6
<1>5. process' = [process EXCEPT ![p] = [n EXCEPT !.todo = list]]
  BY <1>1, NotEmpty, Parts DEF Continue, FromTo
<1> HIDE DEF n, list
<1>6. ASSUME Keeps(disk, calm', M),
             \A q \in Processes \ {p} : Harmless(process[q], calm', M)
      PROVE  Kept(calm, Untouched)'
  <2>1. calm' \in Image
    BY <1>2 DEF Start
  <2>2. ASSUME NEW q \in Processes PROVE Harmless(process'[q], calm', M)
    <3>1. CASE q = p
      BY <1>4, <1>5, <2>1, <3>1 DEF Types
    <3>2. CASE q # p
      BY <1>5, <1>6, <3>2 DEF Types
    <3> QED
      BY <3>1, <3>2
  <2> QED
    BY <1>1, <1>6, <2>2 DEF Kept, Harmless, Now
<1>7. CASE \A q \in Processes : process[q].todo = <<>>
  <2>1. calm' = disk
    BY <1>7 DEF Start
  <2>2. Keeps(disk, calm', M)
    BY <1>2, <2>1, CleanKeeps
  <2>3. \A q \in Processes \ {p} : Harmless(process[q], calm', M)
    BY <1>7 DEF Harmless
  <2> QED
    BY <1>6, <2>2, <2>3
<1>8. CASE ~ \A q \in Processes : process[q].todo = <<>>
  <2>1. calm' = calm /\ since' = Append(since, <<cmd, name>>)
    BY <1>8 DEF Start
  <2>2. M \in SUBSET Untouched
    <3>1. ToSet(since) \subseteq ToSet(since')
      <4>1. since \in Seq(Commands \X Targets) /\ <<cmd, name>> \in Commands \X Targets
        BY DEF Types
      <4> QED
        BY <2>1, <4>1, AppendedTo
    <3> QED
      BY <3>1 DEF Untouched
  <2>3. Clean(calm) /\ Kept(calm, Untouched)
    BY <2>1 DEF Epoch
  <2> HIDE DEF M
  <2>4. Keeps(disk, calm', M) /\ \A q \in Processes : Harmless(process[q], calm', M)
    BY <1>2, <2>1, <2>2, <2>3, KeepsFewer DEF Kept
  <2> QED
    BY <1>6, <2>4 DEF M
<1> QED
  BY <1>7, <1>8

LEMMA InitEpoch == Init => Epoch
<1> SUFFICES ASSUME Init, Clean(calm) PROVE Kept(calm, Untouched)
  BY DEF Epoch
<1>1. calm = disk /\ calm \in Image /\ Untouched \in SUBSET Names
  BY InitTypes DEF Init, Types, Untouched
<1>2. \A q \in Processes : Harmless(process[q], calm, Untouched)
  BY IdleHarmless DEF Init
<1> QED
  BY <1>1, <1>2, CleanKeeps DEF Kept

\* While calm stays, what is left alone stays the same names.
LEMMA SameEpoch ==
  ASSUME Types, Epoch, UNCHANGED <<calm, since>>,
         \A c \in Image : \A N \in SUBSET Names : Kept(c, N) => Kept(c, N)'
  PROVE  Epoch'
<1>1. calm' = calm /\ Untouched' = Untouched /\ calm \in Image /\ Untouched \in SUBSET Names
  BY DEF Types, Untouched
<1>2. ASSUME Clean(calm) PROVE Kept(calm, Untouched)'
  <2>1. PICK c \in Image, N \in SUBSET Names : c = calm /\ N = Untouched
    BY <1>1
  <2>2. Kept(c, N)
    BY <1>2, <2>1 DEF Epoch
  <2>3. Kept(c, N)'
    BY <2>2
  <2>4. calm' = c /\ Untouched' = N
    BY <1>1, <2>1
  <2> QED
    BY <2>3, <2>4 DEF Kept, Harmless, Now
<1> QED
  BY <1>1, <1>2 DEF Epoch, Clean, Sound, Cleared, NothingBehind, Files, InodesNamed, BlocksNamed

LEMMA StepEpoch ==
  ASSUME Types, Epoch, NEW p \in Processes, Step(p), HistorySame
  PROVE  Epoch'
<1>1. UNCHANGED <<calm, since>>
  BY DEF HistorySame
<1> QED
  BY <1>1, StepKeeps, SameEpoch

LEMMA StutterEpoch ==
  ASSUME Types, Epoch, UNCHANGED vars
  PROVE  Epoch'
<1>1. disk' = disk /\ process' = process /\ UNCHANGED <<calm, since>>
  BY DEF vars
<1>2. ASSUME NEW c \in Image, NEW N \in SUBSET Names, Kept(c, N)
      PROVE  Kept(c, N)'
  <2>1. Keeps(disk', c, N)
    BY <1>1, <1>2 DEF Kept
  <2>2. \A p \in Processes : Harmless(process'[p], c, N)
    BY <1>1, <1>2 DEF Kept
  <2> QED
    BY <2>1, <2>2 DEF Kept, Harmless, Now
<1> QED
  BY <1>1, <1>2, SameEpoch

\* Files that are kept are seen as they were.
LEMMA KeptSeen ==
  ASSUME NEW c \in Image, NEW im \in Image, Sound(c), NEW N \in SUBSET Names, Keeps(im, c, N),
         NEW n \in N
  PROVE  FilesOf(im, n) = FilesOf(c, n)
<1> DEFINE Slot(x) == {j \in Files(x) : x.dir[j].name = n}
<1>1. Slot(im) = Slot(c)
  <2>1. ASSUME NEW j \in Slot(c) PROVE j \in Slot(im)
    <3>1. j \in OldSlots(c, N)
      BY DEF OldSlots
    <3>2. j \in Slots /\ im.dir[j] = c.dir[j] /\ c.dir[j] # NoEntry
      BY <3>1, OldFacts DEF Keeps, KeepsDir, Files
    <3>3. j < c.table[RootIno].size /\ c.table[RootIno].size <= im.table[RootIno].size
      BY <3>1, OldFacts DEF Keeps, KeepsTable
    <3>4. j \in Nat /\ c.table[RootIno].size \in Nat /\ im.table[RootIno].size \in Nat
      BY <3>2, Numbers DEF Image, Inode
    <3>5. j < im.table[RootIno].size
      BY <3>3, <3>4
    <3> QED
      BY <3>2, <3>5 DEF Files
  <2>2. ASSUME NEW j \in Slot(im) PROVE j \in Slot(c)
    <3>1. j \in OldSlots(c, N)
      BY DEF Files, Keeps, KeepsDir
    <3> QED
      BY <3>1 DEF OldSlots, Keeps, KeepsDir
  <2> QED
    BY <2>1, <2>2
<1> DEFINE Used(x, i) == {x.table[i].blk} \ {NilBlock}
           File(x, k) ==
             [slot |-> k, ino |-> x.dir[k].ino, inode |-> x.table[x.dir[k].ino],
              data |-> {x.data[b] : b \in Used(x, x.dir[k].ino)},
              marked |-> x.dir[k].ino \in x.imap /\ Used(x, x.dir[k].ino) \subseteq x.bmap]
<1>2. ASSUME NEW k \in Slot(c) PROVE File(im, k) = File(c, k)
  <2> DEFINE i == c.dir[k].ino
  <2>1. k \in OldSlots(c, N) /\ im.dir[k] = c.dir[k] /\ i \in OldInodes(c, N)
    BY DEF OldSlots, OldInodes, Keeps, KeepsDir
  <2>2. im.table[i] = c.table[i] /\ i \in im.imap /\ i \in c.imap
    BY <2>1, FewerOld DEF Keeps, KeepsTable, KeepsImap, Sound
  <2>3. Used(c, i) \subseteq OldBlocks(c, N) /\ Used(c, i) \subseteq BlocksNamed(c)
    BY <2>1, FewerOld DEF OldBlocks, BlocksNamed
  <2>4. Used(c, i) \subseteq im.bmap /\ Used(c, i) \subseteq c.bmap
    BY <2>3 DEF Keeps, KeepsBmap, Sound
  <2>5. \A b \in Used(c, i) : im.data[b] = c.data[b]
    BY <2>3 DEF Keeps
  <2>6. Used(im, i) = Used(c, i)
    BY <2>2
  <2> HIDE DEF Used, i
  <2>7. {im.data[b] : b \in Used(im, i)} = {c.data[b] : b \in Used(c, i)}
    BY <2>5, <2>6
  <2>8. /\ (i \in im.imap /\ Used(im, i) \subseteq im.bmap) = TRUE
        /\ (i \in c.imap /\ Used(c, i) \subseteq c.bmap) = TRUE
    BY <2>2, <2>4, <2>6
  <2> QED
    BY <2>1, <2>2, <2>7, <2>8 DEF i
<1>3. FilesOf(im, n) = {File(im, k) : k \in Slot(im)} /\ FilesOf(c, n) = {File(c, k) : k \in Slot(c)}
  BY DEF FilesOf
<1> HIDE DEF File, Slot
<1> QED
  BY <1>1, <1>2, <1>3

\* However commands overlap, for every number of processes, commands and files: a
\* file that none of them is given keeps its name, inode, blocks and contents, if
\* the image was clean when the first of them started.
THEOREM BystandersSafeHolds == Spec => []BystandersSafe
<1>1. ASSUME Types, Epoch, [Next]_vars PROVE Epoch'
  <2>1. CASE UNCHANGED vars
    BY <1>1, <2>1, StutterEpoch
  <2>2. ASSUME NEW p \in Processes, NEW cmd \in Commands, NEW name \in Targets,
               Start(p, cmd, name)
        PROVE  Epoch'
    BY <1>1, <2>2, StartKeeps
  <2>3. ASSUME NEW p \in Processes, Step(p), UNCHANGED <<starts, calm, since>>
        PROVE  Epoch'
    BY <1>1, <2>3, StepEpoch DEF HistorySame
  <2> QED
    BY <1>1, <2>1, <2>2, <2>3 DEF Next
<1>2. Types /\ Epoch => BystandersSafe
  <2> SUFFICES ASSUME Types, Epoch, Clean(calm), NEW n \in Untouched
               PROVE  FilesOf(disk, n) = FilesOf(calm, n)
    BY DEF BystandersSafe, Untouched
  <2>1. Untouched \in SUBSET Names /\ disk \in Image /\ calm \in Image /\ Sound(calm)
    BY DEF Untouched, Types, Clean
  <2>2. Keeps(disk, calm, Untouched)
    BY DEF Epoch, Kept
  <2> QED
    BY <2>1, <2>2, KeptSeen
<1> QED
  BY TypesHold, InitEpoch, <1>1, <1>2, PTL DEF Spec

-----------------------------------------------------------------------------
(* One command that changes something, and others that read.  A reader puts *)
(* back what it has read, so any version of an inode that is still in some  *)
(* memory can come back.  The invariant speaks of all of them at once.      *)

\* The versions of inode i: the one on disk, those in the copies of an inode, and
\* those in the copies of the table that are about to be written back.
Own(m, i, v) ==
  m.todo # <<>> /\ \/ m.at = i /\ v = m.in
                   \/ Now(m) = "write inode" /\ v = m.buf.table[i]
Version(im, ps, i, v) == v = im.table[i] \/ \E p \in Processes : Own(ps[p], i, v)

\* The entries that some version of the root directory has.
Reached(im, ps, k) ==
  k \in Slots /\ im.dir[k] # NoEntry /\ \E r : Version(im, ps, RootIno, r) /\ k < r.size

\* Sound, whichever versions come together.
AnyMix(im, ps) ==
  /\ \A k : Reached(im, ps, k) => im.dir[k].ino \in im.imap
  /\ \A k, v : Reached(im, ps, k) /\ Version(im, ps, im.dir[k].ino, v) =>
       v.blk \in im.bmap \cup {NilBlock}
  /\ \A j, k : Reached(im, ps, j) /\ Reached(im, ps, k) /\ j # k =>
       /\ im.dir[j].ino # im.dir[k].ino
       /\ \A v, w : Version(im, ps, im.dir[j].ino, v) /\ Version(im, ps, im.dir[k].ino, w)
                    /\ v.blk # NilBlock => v.blk # w.blk

\* Inodes and names as in c, but for inode x.
SameBut(c, im, ps, x) ==
  im.dir = c.dir
  /\ \A i \in Inodes \ {x} : \A v : Version(im, ps, i, v) => v = c.table[i]
AsBefore(c, im, ps) == SameBut(c, im, ps, 0) /\ im.imap = c.imap /\ im.bmap = c.bmap

SameMaps(im, new) == new.imap = im.imap /\ new.bmap = im.bmap /\ new.dir = im.dir
NoNew(im, ps, new, qs) ==
  \A i \in Inodes : \A v : Version(new, qs, i, v) => Version(im, ps, i, v)
OneNew(im, ps, new, qs, x, u) ==
  \A i \in Inodes : \A v : Version(new, qs, i, v) => Version(im, ps, i, v) \/ (i = x /\ v = u)

LEMMA VersionsAdded ==
  ASSUME NEW im, NEW ps \in [Processes -> Memory], NEW new, NEW qs, NEW p \in Processes, NEW m,
         qs = [ps EXCEPT ![p] = m], NEW x, NEW u,
         \A i \in Inodes : Version(im, ps, i, new.table[i]),
         m.todo # <<>> /\ m.at \in Inodes =>
           Version(im, ps, m.at, m.in) \/ (m.at = x /\ m.in = u),
         m.todo # <<>> /\ Now(m) = "write inode" =>
           \A i \in Inodes : Version(im, ps, i, m.buf.table[i])
  PROVE  OneNew(im, ps, new, qs, x, u)
<1> SUFFICES ASSUME NEW i \in Inodes, NEW v, Version(new, qs, i, v)
             PROVE  Version(im, ps, i, v) \/ (i = x /\ v = u)
  BY DEF OneNew
<1>1. CASE v = new.table[i]
  BY <1>1
<1>2. ASSUME NEW q \in Processes, Own(qs[q], i, v)
      PROVE  Version(im, ps, i, v) \/ (i = x /\ v = u)
  <2>1. CASE q = p
    <3>1. qs[q] = m
      BY <2>1
    <3> QED
      BY <1>2, <3>1 DEF Own
  <2>2. CASE q # p
    <3>1. qs[q] = ps[q]
      BY <2>2
    <3> QED
      BY <1>2, <3>1 DEF Version
  <2> QED
    BY <2>1, <2>2
<1> QED
  BY <1>1, <1>2 DEF Version

LEMMA VersionsKept ==
  ASSUME NEW im, NEW ps \in [Processes -> Memory], NEW new, NEW qs, NEW p \in Processes, NEW m,
         qs = [ps EXCEPT ![p] = m],
         \A i \in Inodes : Version(im, ps, i, new.table[i]),
         m.todo # <<>> /\ m.at \in Inodes => Version(im, ps, m.at, m.in),
         m.todo # <<>> /\ Now(m) = "write inode" =>
           \A i \in Inodes : Version(im, ps, i, m.buf.table[i])
  PROVE  NoNew(im, ps, new, qs)
<1>1. OneNew(im, ps, new, qs, 0, NoInode)
  BY VersionsAdded
<1> QED
  BY <1>1, Numbers DEF OneNew, NoNew

\* Fewer versions are no worse.
LEMMA FewerReached ==
  ASSUME NEW im, NEW ps, NEW new, NEW qs, NoNew(im, ps, new, qs), new.dir = im.dir,
         NEW k, Reached(new, qs, k)
  PROVE  Reached(im, ps, k)
BY Numbers DEF Reached, NoNew

LEMMA EntryInode ==
  ASSUME NEW im \in Image, NEW ps, NEW k, Reached(im, ps, k)
  PROVE  im.dir[k].ino \in Inodes \ {RootIno}
<1>1. k \in Slots /\ im.dir[k] # NoEntry
  BY DEF Reached
<1>2. im.dir[k] \in Entry
  BY <1>1 DEF Image
<1> QED
  BY <1>1, <1>2 DEF Entry

LEMMA FewerMixes ==
  ASSUME NEW im \in Image, NEW ps, NEW new, NEW qs, AnyMix(im, ps),
         NoNew(im, ps, new, qs), SameMaps(im, new)
  PROVE  AnyMix(new, qs)
<1>1. new.imap = im.imap /\ new.bmap = im.bmap /\ new.dir = im.dir
  BY DEF SameMaps
<1>2. ASSUME NEW k, Reached(new, qs, k)
      PROVE  /\ Reached(im, ps, k)
             /\ \A v : Version(new, qs, im.dir[k].ino, v) => Version(im, ps, im.dir[k].ino, v)
  <2>1. Reached(im, ps, k)
    BY <1>1, <1>2, FewerReached
  <2>2. im.dir[k].ino \in Inodes
    BY <2>1, EntryInode
  <2> QED
    BY <2>1, <2>2 DEF NoNew
<1> QED
  BY <1>1, <1>2 DEF AnyMix

LEMMA FewerSame ==
  ASSUME NEW c, NEW im, NEW ps, NEW new, NEW qs, NEW x, SameBut(c, im, ps, x),
         NoNew(im, ps, new, qs), new.dir = im.dir
  PROVE  SameBut(c, new, qs, x)
BY DEF SameBut, NoNew

\* While the image is as it was, it is sound in any mix.
LEMMA BeforeMixes ==
  ASSUME NEW c \in Image, Sound(c), NEW im, NEW ps, AsBefore(c, im, ps)
  PROVE  AnyMix(im, ps)
<1>1. /\ im.dir = c.dir /\ im.imap = c.imap /\ im.bmap = c.bmap
      /\ \A i \in Inodes : \A v : Version(im, ps, i, v) => v = c.table[i]
  BY Numbers DEF AsBefore, SameBut
<1>2. ASSUME NEW k, Reached(im, ps, k)
      PROVE  /\ k \in Files(c) /\ c.dir[k].ino \in Inodes
             /\ \A v : Version(im, ps, c.dir[k].ino, v) => v = c.table[c.dir[k].ino]
  <2>1. k \in Slots /\ c.dir[k] # NoEntry /\ k < c.table[RootIno].size
    BY <1>1, <1>2, Numbers DEF Reached
  <2>2. c.dir[k] \in Entry
    BY <2>1 DEF Image
  <2> QED
    BY <1>1, <2>1, <2>2 DEF Files, Entry
<1>3. \A k \in Files(c) : c.dir[k].ino \in InodesNamed(c)
  BY DEF InodesNamed
<1>4. \A i \in InodesNamed(c) : i \in c.imap /\ c.table[i].blk \in c.bmap \cup {NilBlock}
  BY DEF Sound, BlocksNamed
<1>5. \A j, k \in Files(c) : j # k =>
        /\ c.dir[j].ino # c.dir[k].ino
        /\ c.table[c.dir[j].ino].blk # NilBlock =>
             c.table[c.dir[j].ino].blk # c.table[c.dir[k].ino].blk
  BY <1>3 DEF Sound
<1>6. \A k : Reached(im, ps, k) => im.dir[k].ino \in im.imap
  BY <1>1, <1>2, <1>3, <1>4
<1>7. \A k, v : Reached(im, ps, k) /\ Version(im, ps, im.dir[k].ino, v) =>
        v.blk \in im.bmap \cup {NilBlock}
  BY <1>1, <1>2, <1>3, <1>4
<1>8. ASSUME NEW j, NEW k, Reached(im, ps, j), Reached(im, ps, k), j # k
      PROVE  /\ im.dir[j].ino # im.dir[k].ino
             /\ \A v, w : Version(im, ps, im.dir[j].ino, v) /\ Version(im, ps, im.dir[k].ino, w)
                          /\ v.blk # NilBlock => v.blk # w.blk
  BY <1>1, <1>2, <1>5, <1>8
<1> QED
  BY <1>6, <1>7, <1>8 DEF AnyMix

\* What is sound in any mix is sound.
LEMMA MixSound ==
  ASSUME NEW im \in Image, NEW ps, AnyMix(im, ps)
  PROVE  Sound(im)
<1>1. \A i : Version(im, ps, i, im.table[i])
  BY DEF Version
<1>2. ASSUME NEW k \in Files(im) PROVE Reached(im, ps, k)
  BY <1>1 DEF Reached, Files
<1>3. \A j, k \in Files(im) : j # k =>
        /\ im.dir[j].ino # im.dir[k].ino
        /\ im.table[im.dir[j].ino].blk # NilBlock =>
             im.table[im.dir[j].ino].blk # im.table[im.dir[k].ino].blk
  BY <1>1, <1>2 DEF AnyMix
<1>4. \A k \in Files(im) :
        im.dir[k].ino \in im.imap /\ im.table[im.dir[k].ino].blk \in im.bmap \cup {NilBlock}
  BY <1>1, <1>2 DEF AnyMix
<1>5. \A i \in InodesNamed(im) : \E k \in Files(im) : i = im.dir[k].ino
  BY DEF InodesNamed
<1> QED
  BY <1>3, <1>4, <1>5 DEF Sound, BlocksNamed

-----------------------------------------------------------------------------
(* What is left to do, in the part that matters here.                        *)

OnlyIn(s, S) == \A k \in 1 .. Len(s) : s[k] \in S

\* The steps of S, then t, then steps of T.
Until(s, t, S, T) ==
  \E k \in 1 .. Len(s) :
    s[k] = t /\ \A j \in 1 .. Len(s) : (j < k => s[j] \in S) /\ (k < j => s[j] \in T)

Reading == {"read root", "look up", "read inode to read", "table", "write inode"}
Storing == {"table", "write inode", "read inode to write", "bmap", "take block",
            "clear block", "write data"}
Entering == {"table", "write inode", "read root", "dir"}
Removing == {"read inode to truncate", "table", "write inode", "test block", "bmap",
             "drop block", "test inode", "imap", "drop inode", "read root", "dir"}
ToEnter(s) == Until(s, "enter name", Entering, Storing)
ToRemove(s) == Until(s, "remove name", Removing, Storing)
ToCreate(s) ==
  \E a, k \in 1 .. Len(s) :
    /\ a < k /\ s[a] = "take inode" /\ s[k] = "enter name"
    /\ \A j \in 1 .. Len(s) : /\ j < a => s[j] = "imap"
                              /\ a < j /\ j < k => s[j] \in Entering
                              /\ k < j => s[j] \in Storing

LEMMA Taken ==
  ASSUME NEW s \in Seq(Steps), s # <<>>
  PROVE  /\ Len(s) \in Nat \ {0} /\ Head(s) = s[1] /\ Tail(s) \in Seq(Steps)
         /\ Len(Tail(s)) = Len(s) - 1 /\ \A i \in 1 .. Len(s) - 1 : Tail(s)[i] = s[i + 1]
<1>1. Len(s) \in Nat \ {0}
  BY EmptySeq, LenProperties
<1> QED
  BY <1>1, HeadTailProperties

LEMMA RestOnly ==
  ASSUME NEW S, NEW s \in Seq(Steps), s # <<>>, OnlyIn(s, S)
  PROVE  Head(s) \in S /\ OnlyIn(Tail(s), S)
<1>1. /\ Len(s) \in Nat \ {0} /\ Head(s) = s[1]
      /\ Len(Tail(s)) = Len(s) - 1 /\ \A i \in 1 .. Len(s) - 1 : Tail(s)[i] = s[i + 1]
  BY Taken
<1> QED
  BY <1>1 DEF OnlyIn

LEMMA RestUntil ==
  ASSUME NEW S, NEW T, NEW t, NEW s \in Seq(Steps), s # <<>>, Until(s, t, S, T)
  PROVE  \/ Head(s) = t /\ OnlyIn(Tail(s), T)
         \/ Head(s) \in S /\ Until(Tail(s), t, S, T)
<1>1. /\ Len(s) \in Nat \ {0} /\ Head(s) = s[1]
      /\ Len(Tail(s)) = Len(s) - 1 /\ \A i \in 1 .. Len(s) - 1 : Tail(s)[i] = s[i + 1]
  BY Taken
<1>2. PICK k \in 1 .. Len(s) :
        s[k] = t /\ \A j \in 1 .. Len(s) : (j < k => s[j] \in S) /\ (k < j => s[j] \in T)
  BY DEF Until
<1>3. CASE k = 1
  BY <1>1, <1>2, <1>3 DEF OnlyIn
<1>4. CASE k # 1
  <2>1. k - 1 \in 1 .. Len(Tail(s)) /\ Tail(s)[k - 1] = t /\ Head(s) \in S
    BY <1>1, <1>2, <1>4
  <2>2. ASSUME NEW j \in 1 .. Len(Tail(s))
        PROVE  (j < k - 1 => Tail(s)[j] \in S) /\ (k - 1 < j => Tail(s)[j] \in T)
    <3>1. j + 1 \in 1 .. Len(s) /\ Tail(s)[j] = s[j + 1]
      BY <1>1
    <3>2. (j + 1 < k => s[j + 1] \in S) /\ (k < j + 1 => s[j + 1] \in T)
      BY <1>2, <3>1
    <3> QED
      BY <1>1, <3>1, <3>2
  <2> QED
    BY <2>1, <2>2 DEF Until
<1> QED
  BY <1>3, <1>4

LEMMA RestCreate ==
  ASSUME NEW s \in Seq(Steps), s # <<>>, ToCreate(s)
  PROVE  \/ Head(s) = "imap" /\ ToCreate(Tail(s))
         \/ Head(s) = "take inode" /\ ToEnter(Tail(s))
<1>1. /\ Len(s) \in Nat \ {0} /\ Head(s) = s[1]
      /\ Len(Tail(s)) = Len(s) - 1 /\ \A i \in 1 .. Len(s) - 1 : Tail(s)[i] = s[i + 1]
  BY Taken
<1>2. PICK a \in 1 .. Len(s), k \in 1 .. Len(s) :
        /\ a < k /\ s[a] = "take inode" /\ s[k] = "enter name"
        /\ \A j \in 1 .. Len(s) : /\ j < a => s[j] = "imap"
                                  /\ a < j /\ j < k => s[j] \in Entering
                                  /\ k < j => s[j] \in Storing
  BY DEF ToCreate
<1> DEFINE n == Len(s)
<1>3. n \in Nat \ {0} /\ a \in 1 .. n /\ k \in 1 .. n /\ a < k
  BY <1>1, <1>2
<1> HIDE DEF n
<1>4. /\ k - 1 \in 1 .. n - 1 /\ (k - 1) + 1 = k /\ a - 1 < k - 1 /\ 1 \in 1 .. n
      /\ a # 1 => a - 1 \in 1 .. n - 1 /\ (a - 1) + 1 = a /\ 1 < a
  BY <1>3
<1>5. k - 1 \in 1 .. Len(Tail(s)) /\ Tail(s)[k - 1] = "enter name"
  BY <1>1, <1>2, <1>4 DEF n
<1>6. ASSUME NEW j \in 1 .. Len(Tail(s))
      PROVE  /\ j < a - 1 => Tail(s)[j] = "imap"
             /\ a - 1 < j /\ j < k - 1 => Tail(s)[j] \in Entering
             /\ k - 1 < j => Tail(s)[j] \in Storing
  <2>1. j + 1 \in 1 .. Len(s) /\ Tail(s)[j] = s[j + 1]
    BY <1>1
  <2>2. /\ j + 1 < a => s[j + 1] = "imap"
        /\ a < j + 1 /\ j + 1 < k => s[j + 1] \in Entering
        /\ k < j + 1 => s[j + 1] \in Storing
    BY <1>2, <2>1
  <2> QED
    BY <1>1, <2>1, <2>2
<1>7. CASE a = 1
  <2>1. \A j \in 1 .. Len(Tail(s)) : (j < k - 1 => Tail(s)[j] \in Entering)
                                     /\ (k - 1 < j => Tail(s)[j] \in Storing)
    BY <1>6, <1>7
  <2> QED
    BY <1>1, <1>2, <1>5, <1>7, <2>1 DEF ToEnter, Until
<1>8. CASE a # 1
  <2>1. a - 1 \in 1 .. Len(Tail(s)) /\ Tail(s)[a - 1] = "take inode" /\ a - 1 < k - 1
        /\ Head(s) = "imap"
    <3>1. s[1] = "imap"
      BY <1>2, <1>8, <1>4 DEF n
    <3> QED
      BY <1>1, <1>2, <1>8, <1>4, <3>1 DEF n
  <2> QED
    BY <1>5, <1>6, <2>1 DEF ToCreate
<1> QED
  BY <1>7, <1>8

LEMMA JoinedOnly ==
  ASSUME NEW S, NEW s \in Seq(Steps), NEW t \in Seq(Steps), OnlyIn(s, S), OnlyIn(t, S)
  PROVE  OnlyIn(s \o t, S)
<1>1. /\ Len(s) \in Nat /\ Len(t) \in Nat /\ Len(s \o t) = Len(s) + Len(t)
      /\ \A i \in 1 .. Len(s) + Len(t) :
           (s \o t)[i] = IF i <= Len(s) THEN s[i] ELSE t[i - Len(s)]
  BY LenProperties, ConcatProperties
<1> QED
  BY <1>1 DEF OnlyIn

LEMMA JoinedUntil ==
  ASSUME NEW S, NEW T, NEW m, NEW s \in Seq(Steps), NEW t \in Seq(Steps),
         OnlyIn(s, S), Until(t, m, S, T)
  PROVE  Until(s \o t, m, S, T)
<1>1. /\ Len(s) \in Nat /\ Len(t) \in Nat /\ Len(s \o t) = Len(s) + Len(t)
      /\ \A i \in 1 .. Len(s) + Len(t) :
           (s \o t)[i] = IF i <= Len(s) THEN s[i] ELSE t[i - Len(s)]
  BY LenProperties, ConcatProperties
<1>2. PICK k \in 1 .. Len(t) :
        t[k] = m /\ \A j \in 1 .. Len(t) : (j < k => t[j] \in S) /\ (k < j => t[j] \in T)
  BY DEF Until
<1>3. Len(s) + k \in 1 .. Len(s \o t) /\ (s \o t)[Len(s) + k] = m
  BY <1>1, <1>2
<1>4. ASSUME NEW j \in 1 .. Len(s \o t)
      PROVE  /\ j < Len(s) + k => (s \o t)[j] \in S
             /\ Len(s) + k < j => (s \o t)[j] \in T
  <2>1. CASE j <= Len(s)
    BY <1>1, <1>2, <2>1 DEF OnlyIn
  <2>2. CASE ~ (j <= Len(s))
    <3>1. j - Len(s) \in 1 .. Len(t) /\ (s \o t)[j] = t[j - Len(s)]
      BY <1>1, <2>2
    <3> QED
      BY <1>1, <1>2, <3>1
  <2> QED
    BY <2>1, <2>2
<1> QED
  BY <1>3, <1>4 DEF Until

LEMMA UntilJoined ==
  ASSUME NEW S, NEW T, NEW m, NEW s \in Seq(Steps), NEW t \in Seq(Steps),
         Until(s, m, S, T), OnlyIn(t, T)
  PROVE  Until(s \o t, m, S, T)
<1>1. /\ Len(s) \in Nat /\ Len(t) \in Nat /\ Len(s \o t) = Len(s) + Len(t)
      /\ \A i \in 1 .. Len(s) + Len(t) :
           (s \o t)[i] = IF i <= Len(s) THEN s[i] ELSE t[i - Len(s)]
  BY LenProperties, ConcatProperties
<1>2. PICK k \in 1 .. Len(s) :
        s[k] = m /\ \A j \in 1 .. Len(s) : (j < k => s[j] \in S) /\ (k < j => s[j] \in T)
  BY DEF Until
<1>3. k \in 1 .. Len(s \o t) /\ (s \o t)[k] = m
  BY <1>1, <1>2
<1>4. ASSUME NEW j \in 1 .. Len(s \o t)
      PROVE  /\ j < k => (s \o t)[j] \in S
             /\ k < j => (s \o t)[j] \in T
  <2>1. CASE j <= Len(s)
    BY <1>1, <1>2, <2>1
  <2>2. CASE ~ (j <= Len(s))
    <3>1. j - Len(s) \in 1 .. Len(t) /\ (s \o t)[j] = t[j - Len(s)] /\ k < j
      BY <1>1, <2>2
    <3> QED
      BY <1>1, <3>1 DEF OnlyIn
  <2> QED
    BY <2>1, <2>2
<1> QED
  BY <1>3, <1>4 DEF Until

LEMMA Shifted ==
  ASSUME NEW l \in Nat, NEW n \in Nat, NEW a \in 1 .. l, NEW k \in 1 .. n
  PROVE  /\ a \in 1 .. l + n /\ l + k \in 1 .. l + n /\ a < l + k
         /\ a <= l /\ ~ (l + k <= l) /\ (l + k) - l = k
         /\ \A j \in 1 .. l + n :
              /\ j <= l => j \in 1 .. l /\ ~ (l + k < j)
              /\ ~ (j <= l) => /\ j - l \in 1 .. n /\ ~ (j < a)
                               /\ j < l + k => j - l < k
                               /\ l + k < j => k < j - l
OBVIOUS

LEMMA CreateJoined ==
  ASSUME NEW s \in Seq(Steps), NEW t \in Seq(Steps),
         Until(s, "take inode", {"imap"}, Entering), ToEnter(t)
  PROVE  ToCreate(s \o t)
<1> DEFINE l == Len(s)
           n == Len(t)
           u == s \o t
<1>1. /\ l \in Nat /\ n \in Nat /\ Len(u) = l + n
      /\ \A i \in 1 .. l + n : u[i] = IF i <= l THEN s[i] ELSE t[i - l]
  BY LenProperties, ConcatProperties
<1>2. PICK a \in 1 .. l :
        s[a] = "take inode"
        /\ \A j \in 1 .. l : (j < a => s[j] \in {"imap"}) /\ (a < j => s[j] \in Entering)
  BY DEF Until
<1>3. PICK k \in 1 .. n :
        t[k] = "enter name"
        /\ \A j \in 1 .. n : (j < k => t[j] \in Entering) /\ (k < j => t[j] \in Storing)
  BY DEF ToEnter, Until
<1>4. l \in Nat /\ n \in Nat /\ a \in 1 .. l /\ k \in 1 .. n
  BY <1>1, <1>2, <1>3
<1> HIDE DEF l, n, u
<1>5. /\ a \in 1 .. l + n /\ l + k \in 1 .. l + n /\ a < l + k
      /\ a <= l /\ ~ (l + k <= l) /\ (l + k) - l = k
      /\ \A j \in 1 .. l + n :
           /\ j <= l => j \in 1 .. l /\ ~ (l + k < j)
           /\ ~ (j <= l) => /\ j - l \in 1 .. n /\ ~ (j < a)
                            /\ j < l + k => j - l < k
                            /\ l + k < j => k < j - l
  BY <1>4, Shifted
<1>6. u[a] = "take inode" /\ u[l + k] = "enter name"
  BY <1>1, <1>2, <1>3, <1>5
<1>7. ASSUME NEW j \in 1 .. l + n
      PROVE  /\ j < a => u[j] = "imap"
             /\ a < j /\ j < l + k => u[j] \in Entering
             /\ l + k < j => u[j] \in Storing
  <2>1. CASE j <= l
    <3>1. j \in 1 .. l /\ ~ (l + k < j)
      BY <1>5, <2>1
    <3>2. u[j] = s[j]
      BY <1>1, <2>1
    <3> QED
      BY <1>2, <3>1, <3>2
  <2>2. CASE ~ (j <= l)
    <3>1. /\ j - l \in 1 .. n /\ ~ (j < a)
          /\ j < l + k => j - l < k
          /\ l + k < j => k < j - l
      BY <1>5, <2>2
    <3>2. u[j] = t[j - l]
      BY <1>1, <2>2
    <3> QED
      BY <1>3, <3>1, <3>2
  <2> QED
    BY <2>1, <2>2
<1>8. ToCreate(u)
  BY <1>1, <1>5, <1>6, <1>7 DEF ToCreate
<1> QED
  BY <1>8 DEF u

LEMMA CreateThen ==
  ASSUME NEW s \in Seq(Steps), NEW t \in Seq(Steps), ToCreate(s), OnlyIn(t, Storing)
  PROVE  ToCreate(s \o t)
<1> DEFINE l == Len(s)
           u == s \o t
<1>1. /\ l \in Nat /\ Len(t) \in Nat /\ Len(u) = l + Len(t)
      /\ \A i \in 1 .. l + Len(t) : u[i] = IF i <= l THEN s[i] ELSE t[i - l]
  BY LenProperties, ConcatProperties
<1>2. PICK a \in 1 .. l, k \in 1 .. l :
        /\ a < k /\ s[a] = "take inode" /\ s[k] = "enter name"
        /\ \A j \in 1 .. l : /\ j < a => s[j] = "imap"
                             /\ a < j /\ j < k => s[j] \in Entering
                             /\ k < j => s[j] \in Storing
  BY DEF ToCreate
<1> HIDE DEF l, u
<1>3. a \in 1 .. l /\ k \in 1 .. l /\ a < k
  BY <1>2
<1>4. a \in 1 .. l + Len(t) /\ k \in 1 .. l + Len(t) /\ a <= l /\ k <= l
  BY <1>1, <1>3
<1>5. u[a] = "take inode" /\ u[k] = "enter name"
  BY <1>1, <1>2, <1>4
<1>6. ASSUME NEW j \in 1 .. l + Len(t)
      PROVE  /\ j < a => u[j] = "imap"
             /\ a < j /\ j < k => u[j] \in Entering
             /\ k < j => u[j] \in Storing
  <2>1. CASE j <= l
    <3>1. u[j] = s[j] /\ j \in 1 .. l
      BY <1>1, <2>1
    <3>2. /\ j < a => s[j] = "imap"
          /\ a < j /\ j < k => s[j] \in Entering
          /\ k < j => s[j] \in Storing
      BY <1>2, <1>3, <3>1
    <3> QED
      BY <1>3, <3>1, <3>2
  <2>2. CASE ~ (j <= l)
    <3>1. j - l \in 1 .. Len(t) /\ u[j] = t[j - l] /\ ~ (j < a) /\ ~ (j < k)
      BY <1>1, <1>4, <2>2
    <3> QED
      BY <3>1 DEF OnlyIn
  <2> QED
    BY <2>1, <2>2
<1>7. ToCreate(u)
  BY <1>1, <1>3, <1>4, <1>5, <1>6 DEF ToCreate
<1> QED
  BY <1>7 DEF u

\* Lists of one, two and three steps.
LEMMA ShortLists ==
  ASSUME NEW S, NEW T, NEW a, NEW b, NEW c
  PROVE  /\ a \in S => OnlyIn(<<a>>, S)
         /\ a \in S /\ b \in S => OnlyIn(<<a, b>>, S)
         /\ a \in S /\ b \in S /\ c \in S => OnlyIn(<<a, b, c>>, S)
         /\ a \in S => Until(<<a, b>>, b, S, T)
         /\ a \in S /\ b \in S => Until(<<a, b, c>>, c, S, T)
<1>1. a \in S => OnlyIn(<<a>>, S)
  <2> DEFINE s == <<a>>
  <2>1. Len(s) = 1 /\ s[1] = a
    OBVIOUS
  <2> HIDE DEF s
  <2>2. a \in S => OnlyIn(s, S)
    BY <2>1 DEF OnlyIn
  <2> QED
    BY <2>2 DEF s
<1>2. /\ a \in S /\ b \in S => OnlyIn(<<a, b>>, S)
      /\ a \in S => Until(<<a, b>>, b, S, T)
  <2> DEFINE s == <<a, b>>
  <2>1. Len(s) = 2 /\ s[1] = a /\ s[2] = b
    OBVIOUS
  <2> HIDE DEF s
  <2>2. a \in S /\ b \in S => OnlyIn(s, S)
    BY <2>1 DEF OnlyIn
  <2>3. 2 \in 1 .. Len(s) /\ \A j \in 1 .. Len(s) : (j < 2 => j = 1) /\ ~ (2 < j)
    BY <2>1
  <2>4. a \in S => Until(s, b, S, T)
    BY <2>1, <2>3 DEF Until
  <2> QED
    BY <2>2, <2>4 DEF s
<1>3. /\ a \in S /\ b \in S /\ c \in S => OnlyIn(<<a, b, c>>, S)
      /\ a \in S /\ b \in S => Until(<<a, b, c>>, c, S, T)
  <2> DEFINE s == <<a, b, c>>
  <2>1. Len(s) = 3 /\ s[1] = a /\ s[2] = b /\ s[3] = c
    OBVIOUS
  <2> HIDE DEF s
  <2>2. a \in S /\ b \in S /\ c \in S => OnlyIn(s, S)
    BY <2>1 DEF OnlyIn
  <2>3. 3 \in 1 .. Len(s) /\ \A j \in 1 .. Len(s) : (j < 3 => j \in {1, 2}) /\ ~ (3 < j)
    BY <2>1
  <2>4. a \in S /\ b \in S => Until(s, c, S, T)
    BY <2>1, <2>3 DEF Until
  <2> QED
    BY <2>2, <2>4 DEF s
<1> QED
  BY <1>1, <1>2, <1>3

\* The lists of steps again, by what they contain.
LEMMA Contents ==
  /\ OnlyIn(<<"read root", "look up">>, Reading) /\ OnlyIn(ReadFile, Reading)
  /\ OnlyIn(AllocBlock, Storing) /\ OnlyIn(WriteFile, Storing) /\ OnlyIn(FreeBlock, Removing)
  /\ ToRemove(DeleteFile) /\ ToCreate(CreateFile) /\ ToCreate(CreateFile \o WriteFile)
<1>1. /\ WriteInode \in Seq(Steps) /\ AllocInode \in Seq(Steps) /\ WriteFile \in Seq(Steps)
      /\ FreeInode \in Seq(Steps) /\ CreateFile \in Seq(Steps) /\ DirAdd \in Seq(Steps)
      /\ <<"read root", "dir", "enter name">> \in Seq(Steps) /\ DirRemove \in Seq(Steps)
      /\ <<"read root", "dir", "remove name">> \in Seq(Steps)
      /\ <<"read inode to write", "write data">> \in Seq(Steps)
      /\ <<"read inode to read">> \in Seq(Steps)
      /\ <<"read inode to truncate">> \in Seq(Steps)
  BY DEF WriteInode, AllocInode, WriteFile, FreeInode, CreateFile, DirAdd, DirRemove, Steps
<1>2. /\ {"table", "write inode"} \subseteq Reading \cap Storing \cap Entering \cap Removing
      /\ {"read root", "look up", "read inode to read"} \subseteq Reading
      /\ {"bmap", "take block", "clear block", "read inode to write", "write data"}
            \subseteq Storing
      /\ {"read root", "dir"} \subseteq Entering \cap Removing
      /\ {"test block", "bmap", "drop block", "test inode", "imap", "drop inode",
          "read inode to truncate"} \subseteq Removing
  BY DEF Reading, Storing, Entering, Removing
<1>3. /\ OnlyIn(WriteInode, Reading) /\ OnlyIn(WriteInode, Storing)
      /\ OnlyIn(WriteInode, Entering) /\ OnlyIn(WriteInode, Removing)
  BY <1>2, ShortLists DEF WriteInode
<1>4. OnlyIn(<<"read root", "look up">>, Reading)
  BY <1>2, ShortLists
<1>5. OnlyIn(ReadFile, Reading)
  <2>1. OnlyIn(<<"read inode to read">>, Reading)
    BY <1>2, ShortLists
  <2> QED
    BY <1>1, <1>3, <2>1, JoinedOnly DEF ReadFile
<1>6. OnlyIn(AllocBlock, Storing) /\ OnlyIn(FreeBlock, Removing) /\ OnlyIn(FreeInode, Removing)
  BY <1>2, ShortLists DEF AllocBlock, FreeBlock, FreeInode
<1>7. OnlyIn(WriteFile, Storing)
  <2>1. OnlyIn(<<"read inode to write", "write data">>, Storing)
    BY <1>2, ShortLists
  <2> QED
    BY <1>1, <1>3, <2>1, JoinedOnly DEF WriteFile
<1>8. ToRemove(DeleteFile)
  <2>1. OnlyIn(<<"read inode to truncate">>, Removing)
    BY <1>2, ShortLists
  <2>2. /\ <<"read inode to truncate">> \o WriteInode \in Seq(Steps)
        /\ <<"read inode to truncate">> \o WriteInode \o FreeInode \in Seq(Steps)
    BY <1>1, ConcatProperties
  <2>3. OnlyIn(<<"read inode to truncate">> \o WriteInode, Removing)
    BY <1>1, <1>3, <2>1, JoinedOnly
  <2>4. OnlyIn(<<"read inode to truncate">> \o WriteInode \o FreeInode, Removing)
    BY <1>1, <1>6, <2>2, <2>3, JoinedOnly
  <2>5. ToRemove(<<"read root", "dir", "remove name">>)
    BY <1>2, ShortLists DEF ToRemove
  <2>6. ToRemove(DirRemove)
    BY <1>1, <1>3, <2>5, UntilJoined DEF ToRemove, DirRemove
  <2> QED
    BY <1>1, <2>2, <2>4, <2>6, JoinedUntil DEF ToRemove, DeleteFile
<1>9. ToCreate(CreateFile)
  <2>1. ToEnter(<<"read root", "dir", "enter name">>)
    BY <1>2, ShortLists DEF ToEnter
  <2>2. ToEnter(DirAdd)
    BY <1>1, <1>3, <2>1, UntilJoined DEF ToEnter, DirAdd
  <2>3. Until(AllocInode, "take inode", {"imap"}, Entering)
    BY ShortLists DEF AllocInode
  <2>4. Until(AllocInode \o WriteInode, "take inode", {"imap"}, Entering)
    BY <1>1, <1>3, <2>3, UntilJoined
  <2>5. AllocInode \o WriteInode \in Seq(Steps)
    BY <1>1, ConcatProperties
  <2> QED
    BY <1>1, <2>2, <2>4, <2>5, CreateJoined DEF CreateFile
<1>10. ToCreate(CreateFile \o WriteFile)
  BY <1>1, <1>7, <1>9, CreateThen
<1> QED
  BY <1>4, <1>5, <1>6, <1>7, <1>8, <1>9, <1>10

-----------------------------------------------------------------------------
(* Steps that show no version that was not there and leave the maps alone.   *)

\* The memory a step leaves.
Left(m, n, rest) ==
  /\ m.todo = rest
  /\ rest # <<>> =>
       /\ m.cmd = n.cmd /\ m.name = n.name /\ m.ino = n.ino /\ m.at = n.at
       /\ m.in = n.in /\ m.buf = n.buf /\ m.old = n.old

LEMMA Settled ==
  ASSUME Types, NEW p \in Processes, NEW n \in Memory, NEW rest \in Seq(Steps),
         Continue(p, n, rest)
  PROVE  \E m \in Memory :
           process' = [process EXCEPT ![p] = m] /\ process'[p] = m /\ Left(m, n, rest)
<1>1. process \in [Processes -> Memory]
  BY DEF Types
<1>2. CASE rest = <<>>
  <2>1. process' = [process EXCEPT ![p] = Idle]
    BY <1>2 DEF Continue
  <2>2. Idle \in Memory /\ Idle.todo = rest
    BY <1>2, IdleReady DEF Idle
  <2> QED
    BY <1>1, <1>2, <2>1, <2>2 DEF Left
<1>3. CASE rest # <<>>
  <2> DEFINE m == [n EXCEPT !.todo = rest]
  <2>1. process' = [process EXCEPT ![p] = m]
    BY <1>3 DEF Continue
  <2>2. /\ m \in Memory /\ m.todo = rest /\ m.cmd = n.cmd /\ m.name = n.name
        /\ m.ino = n.ino /\ m.at = n.at /\ m.in = n.in /\ m.buf = n.buf /\ m.old = n.old
    BY DEF Memory
  <2> HIDE DEF m
  <2>3. process'[p] = m
    BY <1>1, <2>1
  <2> QED
    BY <2>1, <2>2, <2>3 DEF Left
<1> QED
  BY <1>2, <1>3

\* A map that is about to be written back is as it is on disk.
Fresh(im, buf, step) ==
  /\ step \in {"take inode", "drop inode"} => buf.imap = im.imap
  /\ step \in {"take block", "drop block"} => buf.bmap = im.bmap
  /\ step \in {"enter name", "remove name"} => buf.dir = im.dir
Current(im, m) == m.todo # <<>> => Fresh(im, m.buf, Now(m))

\* A process goes on with the same command and file.
Carries(m, n) ==
  n.todo # <<>> => n.cmd = m.cmd /\ n.name = m.name /\ n.ino = m.ino /\ n.old = m.old
Quiet(p) ==
  /\ SameMaps(disk, disk') /\ NoNew(disk, process, disk', process')
  /\ Current(disk', process'[p])

LEMMA QuietContinue ==
  ASSUME Types, NEW p \in Processes, NEW n \in Memory, NEW rest \in Seq(Steps),
         Continue(p, n, rest), SameMaps(disk, disk'),
         \A i \in Inodes : Version(disk, process, i, disk'.table[i]),
         n.at \in Inodes => Version(disk, process, n.at, n.in),
         rest # <<>> /\ Head(rest) = "write inode" =>
           \A i \in Inodes : Version(disk, process, i, n.buf.table[i]),
         rest # <<>> => Fresh(disk, n.buf, Head(rest))
  PROVE  /\ Quiet(p) /\ Carries(n, process'[p]) /\ process'[p].todo = rest
         /\ rest # <<>> => process'[p].at = n.at
<1>1. PICK m \in Memory :
        process' = [process EXCEPT ![p] = m] /\ process'[p] = m /\ Left(m, n, rest)
  BY Settled
<1>2. process \in [Processes -> Memory]
  BY DEF Types
<1>3. m.todo # <<>> /\ m.at \in Inodes => Version(disk, process, m.at, m.in)
  BY <1>1 DEF Left
<1>4. m.todo # <<>> /\ Now(m) = "write inode" =>
        \A i \in Inodes : Version(disk, process, i, m.buf.table[i])
  BY <1>1 DEF Left, Now
<1>5. NoNew(disk, process, disk', process')
  BY <1>1, <1>2, <1>3, <1>4, VersionsKept
<1>6. Current(disk', m)
  BY <1>1 DEF Left, Current, Fresh, SameMaps, Now
<1> QED
  BY <1>1, <1>5, <1>6 DEF Left, Quiet, Carries

\* What is in memory is a version.
LEMMA OwnVersion ==
  ASSUME NEW im, NEW ps, NEW p \in Processes, ps[p].todo # <<>>
  PROVE  /\ Version(im, ps, ps[p].at, ps[p].in)
         /\ Now(ps[p]) = "write inode" => \A i : Version(im, ps, i, ps[p].buf.table[i])
         /\ \A i : Version(im, ps, i, im.table[i])
BY DEF Version, Own

\* Before every step that writes a map back there is one that reads it.
Unread == {"take inode", "drop inode", "take block", "drop block", "enter name", "remove name"}

LEMMA FreshNext ==
  ASSUME NEW im, NEW buf, NEW step, step \notin Unread
  PROVE  Fresh(im, buf, step)
BY DEF Fresh, Unread

LEMMA UnreadNext ==
  ASSUME NEW step, NEW t, Follows(step, t), step \notin {"imap", "bmap", "dir", "table"}
  PROVE  t \notin Unread /\ t # "write inode"
BY DEF Follows, Unread

LEMMA ReadRootQuiet ==
  ASSUME Types, NEW p \in Processes, ReadRoot(p)
  PROVE  /\ Quiet(p) /\ Carries(process[p], process'[p]) /\ process'[p].todo = Rest(p)
         /\ process'[p].todo # <<>> => process'[p].at = RootIno
<1> DEFINE me == process[p]
           rest == Rest(p)
           n == [me EXCEPT !.in = disk.table[RootIno], !.at = RootIno]
<1>1. At(p, "read root") /\ Continue(p, n, rest) /\ disk' = disk
  BY DEF ReadRoot, ReadOnly
<1>2. /\ me \in Memory /\ rest \in Seq(Steps)
      /\ rest # <<>> => Follows("read root", Head(rest))
  BY <1>1, AtStep
<1>3. disk.table[RootIno] \in Inode
  BY Numbers DEF Types, Image
<1>4. /\ n \in Memory /\ n.cmd = me.cmd /\ n.name = me.name /\ n.ino = me.ino /\ n.old = me.old
      /\ n.at = RootIno /\ n.in = disk.table[RootIno] /\ n.buf = me.buf
  BY <1>2, <1>3, Numbers DEF Memory
<1>5. rest # <<>> => Head(rest) \notin Unread /\ Head(rest) # "write inode"
  BY <1>2, UnreadNext
<1>6. \A i : Version(disk, process, i, disk.table[i])
  BY DEF Version
<1> HIDE DEF n
<1>7. SameMaps(disk, disk')
  BY <1>1 DEF SameMaps
<1>8. /\ Quiet(p) /\ Carries(n, process'[p]) /\ process'[p].todo = rest
      /\ rest # <<>> => process'[p].at = n.at
  BY <1>1, <1>2, <1>4, <1>5, <1>6, <1>7, FreshNext, QuietContinue
<1> QED
  BY <1>4, <1>8 DEF Carries

LEMMA ReadBlockQuiet ==
  ASSUME Types, NEW p \in Processes, ReadBlock(p)
  PROVE  Quiet(p) /\ Carries(process[p], process'[p]) /\ process'[p].todo = Rest(p)
<1> DEFINE me == process[p]
           rest == Rest(p)
<1>1. PICK b \in {"imap", "bmap", "table", "dir"} :
        /\ At(p, b) /\ disk' = disk
        /\ Continue(p, [me EXCEPT !.buf = [NoBuffer EXCEPT ![b] = disk[b]]], rest)
  BY DEF ReadBlock, ReadOnly
<1> DEFINE buf == [NoBuffer EXCEPT ![b] = disk[b]]
           n == [me EXCEPT !.buf = buf]
<1>2. /\ me \in Memory /\ rest \in Seq(Steps) /\ me.todo # <<>>
      /\ rest # <<>> => Follows(b, Head(rest))
  BY <1>1, AtStep DEF At
<1>3. /\ disk.imap \in SUBSET Inodes /\ disk.bmap \in SUBSET Blocks
      /\ disk.table \in [Inodes -> Inode] /\ disk.dir \in [Slots -> Entry]
  BY DEF Types, Image, ImapType
<1>4. /\ buf \in Buffer
      /\ b = "imap" => buf.imap = disk.imap
      /\ b = "bmap" => buf.bmap = disk.bmap
      /\ b = "table" => buf.table = disk.table
      /\ b = "dir" => buf.dir = disk.dir
  BY <1>3 DEF NoBuffer, Buffer
<1> HIDE DEF buf
<1>5. /\ n \in Memory /\ n.cmd = me.cmd /\ n.name = me.name /\ n.ino = me.ino /\ n.old = me.old
      /\ n.at = me.at /\ n.in = me.in /\ n.buf = buf
  BY <1>2, <1>4 DEF Memory
<1> HIDE DEF n
<1>6. rest # <<>> /\ Head(rest) = "write inode" => b = "table"
  BY <1>2 DEF Follows
<1>7. rest # <<>> => Fresh(disk, buf, Head(rest))
  BY <1>2, <1>4 DEF Follows, Fresh
<1>8. /\ \A i : Version(disk, process, i, disk.table[i])
      /\ Version(disk, process, me.at, me.in)
  BY <1>2, OwnVersion
<1>9. SameMaps(disk, disk')
  BY <1>1 DEF SameMaps
<1>10. rest # <<>> /\ Head(rest) = "write inode" =>
         \A i \in Inodes : Version(disk, process, i, n.buf.table[i])
  BY <1>4, <1>5, <1>6, <1>8
<1>11. Continue(p, n, rest)
  BY <1>1 DEF n, buf
<1>12. Quiet(p) /\ Carries(n, process'[p]) /\ process'[p].todo = rest
  BY <1>1, <1>2, <1>5, <1>7, <1>8, <1>9, <1>10, <1>11, QuietContinue
<1> QED
  BY <1>5, <1>12 DEF Carries

LEMMA WriteTableQuiet ==
  ASSUME Types, NEW p \in Processes, WriteTable(p)
  PROVE  Quiet(p) /\ Carries(process[p], process'[p]) /\ process'[p].todo = Rest(p)
<1> DEFINE me == process[p]
           rest == Rest(p)
           im == [disk EXCEPT !.table = [me.buf.table EXCEPT ![me.at] = me.in]]
<1>1. At(p, "write inode") /\ disk' = im /\ Continue(p, me, rest)
  BY DEF WriteTable, Write
<1>2. /\ me \in Memory /\ Control(me) /\ Now(me) = "write inode" /\ rest \in Seq(Steps)
      /\ me.todo # <<>> /\ (rest # <<>> => Follows("write inode", Head(rest)))
  BY <1>1, AtStep DEF At
<1>3. me.buf.table \in [Inodes -> Inode]
  BY <1>2 DEF Control
<1>4. SameMaps(disk, im) /\ im.table = [me.buf.table EXCEPT ![me.at] = me.in]
  BY DEF SameMaps, Types, Image
<1> HIDE DEF im
<1>5. /\ Version(disk, process, me.at, me.in)
      /\ \A i : Version(disk, process, i, me.buf.table[i])
  BY <1>2, OwnVersion
<1>6. ASSUME NEW i \in Inodes PROVE Version(disk, process, i, im.table[i])
  <2>1. CASE i = me.at
    BY <1>3, <1>4, <1>5, <2>1
  <2>2. CASE i # me.at
    BY <1>3, <1>4, <1>5, <2>2
  <2> QED
    BY <2>1, <2>2
<1>7. rest # <<>> => Head(rest) \notin Unread /\ Head(rest) # "write inode"
  BY <1>2, UnreadNext
<1> QED
  BY <1>1, <1>2, <1>4, <1>5, <1>6, <1>7, FreshNext, QuietContinue

LEMMA FailQuiet ==
  ASSUME Types, NEW p \in Processes, Fail(p)
  PROVE  Quiet(p) /\ process'[p].todo = <<>>
<1>1. Continue(p, Idle, <<>>) /\ disk' = disk /\ <<>> \in Seq(Steps)
  BY DEF Fail, ReadOnly
<1>2. \A i : Version(disk, process, i, disk.table[i])
  BY DEF Version
<1>3. SameMaps(disk, disk') /\ Idle \in Memory /\ Idle.at \notin Inodes
  BY <1>1, Numbers, IdleReady DEF SameMaps, Idle
<1> QED
  BY <1>1, <1>2, <1>3, QuietContinue

LEMMA SkipUntil ==
  ASSUME NEW S, NEW T, NEW t, NEW s \in Seq(Steps), Until(s, t, S, T),
         \A i \in 1 .. Len(s) : i <= 2 => s[i] # t
  PROVE  Until(SubSeq(s, 3, Len(s)), t, S, T)
<1> DEFINE u == SubSeq(s, 3, Len(s))
<1>1. Len(s) \in Nat /\ \A i \in 1 .. Len(s) : s[i] \in Steps
  BY LenProperties
<1>2. PICK k \in 1 .. Len(s) :
        s[k] = t /\ \A j \in 1 .. Len(s) : (j < k => s[j] \in S) /\ (k < j => s[j] \in T)
  BY DEF Until
<1>3. k \in Nat /\ k >= 3 /\ Len(s) >= 3
  BY <1>1, <1>2
<1>4. Len(u) = Len(s) - 3 + 1 /\ \A i \in 1 .. Len(s) - 3 + 1 : u[i] = s[3 + i - 1]
  BY <1>1, <1>3, SubSeqProperties
<1> HIDE DEF u
<1>5. Len(u) = Len(s) - 2 /\ \A i \in 1 .. Len(u) : i + 2 \in 1 .. Len(s) /\ u[i] = s[i + 2]
  <2>1. Len(u) = Len(s) - 2
    BY <1>1, <1>4
  <2>2. ASSUME NEW i \in 1 .. Len(u) PROVE i + 2 \in 1 .. Len(s) /\ u[i] = s[i + 2]
    <3>1. i \in 1 .. Len(s) - 3 + 1 /\ 3 + i - 1 = i + 2 /\ i + 2 \in 1 .. Len(s)
      BY <1>1, <2>1
    <3> QED
      BY <1>4, <3>1
  <2> QED
    BY <2>1, <2>2
<1>6. k - 2 \in 1 .. Len(u) /\ u[k - 2] = t
  <2>1. k - 2 \in 1 .. Len(u) /\ (k - 2) + 2 = k
    BY <1>1, <1>2, <1>3, <1>5
  <2> QED
    BY <1>2, <1>5, <2>1
<1>7. ASSUME NEW j \in 1 .. Len(u)
      PROVE  (j < k - 2 => u[j] \in S) /\ (k - 2 < j => u[j] \in T)
  <2>1. (j < k - 2 => j + 2 < k) /\ (k - 2 < j => k < j + 2)
    BY <1>1, <1>3, <1>5
  <2> QED
    BY <1>2, <1>5, <2>1
<1>8. Until(u, t, S, T)
  BY <1>6, <1>7 DEF Until
<1> QED
  BY <1>8 DEF u

LEMMA LookUpQuiet ==
  ASSUME Types, NEW p \in Processes, LookUp(p)
  PROVE  LET me == process[p]
             found == EntriesOf(disk.dir, me.in.size, me.name)
             m == process'[p]
         IN  /\ Quiet(p) /\ (m.todo # <<>> => m.cmd = me.cmd /\ m.name = me.name /\ m.old = me.old)
             /\ found = {} =>
                  m.todo = Missing[me.cmd] /\ (m.todo # <<>> => m.ino = me.ino)
             /\ found # {} =>
                  m.todo = Found[me.cmd] /\ (m.todo # <<>> => m.ino = disk.dir[Min(found)].ino)
<1> DEFINE me == process[p]
           found == EntriesOf(disk.dir, me.in.size, me.name)
<1>1. At(p, "look up") /\ disk' = disk
  BY DEF LookUp, ReadOnly
<1>2. me \in Memory /\ Control(me) /\ me.todo # <<>>
  BY <1>1, AtStep DEF At
<1>3. me.cmd \in Commands /\ me.name \in Names
  BY <1>2 DEF Control
<1>4. /\ Version(disk, process, me.at, me.in)
      /\ \A i : Version(disk, process, i, disk.table[i])
  BY <1>2, OwnVersion
<1>5. SameMaps(disk, disk')
  BY <1>1 DEF SameMaps
<1>6. CASE found = {}
  <2> DEFINE rest == Missing[me.cmd]
  <2>1. Continue(p, me, rest)
    BY <1>6 DEF LookUp, ReadOnly
  <2>2. Chain(rest) /\ rest \in Seq(Steps) /\ (rest # <<>> => rest[1] = "imap")
    BY <1>3, Beginnings DEF Chain
  <2>3. rest # <<>> => Head(rest) \notin Unread /\ Head(rest) # "write inode"
    BY <2>2, HeadFirst DEF Unread
  <2>4. Quiet(p) /\ Carries(me, process'[p]) /\ process'[p].todo = rest
    <3> HIDE DEF rest, found
    <3>1. \A i \in Inodes : Version(disk, process, i, disk'.table[i])
      BY <1>1, <1>4
    <3>2. rest # <<>> => Fresh(disk, me.buf, Head(rest))
      BY <2>3, FreshNext
    <3> HIDE DEF me
    <3> QED
      BY <1>2, <1>4, <1>5, <2>1, <2>2, <2>3, <3>1, <3>2, QuietContinue
  <2> QED
    BY <1>6, <2>4 DEF Carries
<1>7. CASE found # {}
  <2> DEFINE x == disk.dir[Min(found)].ino
             n == [me EXCEPT !.ino = x]
             rest == Found[me.cmd]
  <2>1. Continue(p, n, rest)
    BY <1>7 DEF LookUp, ReadOnly
  <2>2. x \in Inodes \ {RootIno} /\ x # 0
    <3>1. found \subseteq Slots /\ \A k \in found : disk.dir[k].name = me.name
      BY DEF EntriesOf
    <3>2. Min(found) \in found
      BY <1>7, <3>1, Numbers, MinProperty
    <3>3. disk.dir[Min(found)] \in Entry /\ disk.dir[Min(found)].name # "none"
      BY <1>3, <3>1, <3>2, Numbers DEF Types, Image
    <3> QED
      BY <3>3, Numbers DEF Entry, NoEntry
  <2>3. /\ Chain(rest) /\ rest \in Seq(Steps)
        /\ rest # <<>> => rest[1] \in {"read inode to write", "read inode to read",
                                       "read inode to truncate"}
    BY <1>3, Beginnings DEF Chain
  <2>4. rest # <<>> => Head(rest) \notin Unread /\ Head(rest) # "write inode"
    BY <2>3, HeadFirst DEF Unread
  <2> HIDE DEF x
  <2>5. /\ n \in Memory /\ n.cmd = me.cmd /\ n.name = me.name /\ n.ino = x /\ n.old = me.old
        /\ n.at = me.at /\ n.in = me.in
    BY <1>2, <2>2 DEF Memory
  <2> HIDE DEF n
  <2>6. Quiet(p) /\ Carries(n, process'[p]) /\ process'[p].todo = rest
    BY <1>1, <1>4, <1>5, <2>1, <2>3, <2>4, <2>5, FreshNext, QuietContinue
  <2> QED
    BY <1>7, <2>5, <2>6 DEF Carries, x
<1> QED
  BY <1>6, <1>7

\* An inode is read to be written or read.
LEMMA ReadInodeQuiet ==
  ASSUME Types, NEW p \in Processes, ReadInode(p), ~ At(p, "read inode to truncate")
  PROVE  /\ Quiet(p) /\ Carries(process[p], process'[p])
         /\ At(p, "read inode to write") => process'[p].todo \in {Rest(p), AllocBlock \o Rest(p)}
         /\ At(p, "read inode to read") => process'[p].todo \in {<<>>, Rest(p)}
<1> DEFINE me == process[p]
           rest == Rest(p)
           in == disk.table[me.ino]
           n == [me EXCEPT !.in = in, !.at = me.ino]
           Wanted(step, list) ==
             /\ At(p, step) /\ disk' = disk /\ Continue(p, n, list)
             /\ step = "read inode to write" =>
                  list = (IF in.blk = NilBlock THEN AllocBlock ELSE <<>>) \o rest
             /\ step = "read inode to read" => list = IF in.size = 0 THEN <<>> ELSE rest
<1>1. PICK step \in {"read inode to write", "read inode to read"} : \E list : Wanted(step, list)
  BY DEF ReadInode, ReadOnly
<1>2. PICK list : Wanted(step, list)
  BY <1>1
<1>3. /\ me \in Memory /\ Control(me) /\ Chain(rest) /\ rest \in Seq(Steps) /\ Now(me) = step
      /\ rest # <<>> => Follows(step, Head(rest))
  BY <1>1, <1>2, AtStep
<1>4. me.ino \in Inodes /\ in \in Inode
  <2>1. me.ino # 0
    BY <1>1, <1>2, <1>3 DEF Control
  <2>2. me.ino \in Inodes
    BY <1>3, <2>1 DEF Memory
  <2> QED
    BY <2>2 DEF Types, Image
<1>5. /\ n \in Memory /\ n.cmd = me.cmd /\ n.name = me.name /\ n.ino = me.ino /\ n.old = me.old
      /\ n.at = me.ino /\ n.in = in
  BY <1>3, <1>4 DEF Memory
<1>6. \A i : Version(disk, process, i, disk.table[i])
  BY DEF Version
<1>7. Version(disk, process, n.at, n.in) /\ SameMaps(disk, disk')
  BY <1>1, <1>2, <1>5, <1>6 DEF SameMaps
<1>8. CASE step = "read inode to write"
  <2>1. list = AllocBlock \o rest \/ list = rest
    BY <1>1, <1>2, <1>3, <1>8, ConcatEmptySeq
  <2>2. rest # <<>> => Head(rest) = "write data" /\ Follows("clear block", Head(rest))
    BY <1>3, <1>8 DEF Follows
  <2>3. AllocBlock \o rest \in Seq(Steps) /\ Head(AllocBlock \o rest) = "bmap"
    BY <1>3, <2>2, Parts, Before
  <2>4. /\ list \in Seq(Steps)
        /\ list # <<>> => Head(list) \notin Unread /\ Head(list) # "write inode"
    BY <1>3, <2>1, <2>2, <2>3 DEF Unread
  <2> HIDE DEF n, in
  <2>5. Quiet(p) /\ Carries(n, process'[p]) /\ process'[p].todo = list
    BY <1>1, <1>2, <1>5, <1>6, <1>7, <2>4, FreshNext, QuietContinue
  <2>6. ~ At(p, "read inode to read")
    BY <1>1, <1>2, <1>8 DEF At
  <2> QED
    BY <1>5, <2>1, <2>5, <2>6 DEF Carries
<1>9. CASE step = "read inode to read"
  <2>1. list = <<>> \/ list = rest
    BY <1>1, <1>2, <1>9
  <2>2. rest # <<>> => Head(rest) = "table"
    BY <1>3, <1>9 DEF Follows
  <2>3. <<>> \in Seq(Steps)
    BY NilChain DEF Chain
  <2>4. /\ list \in Seq(Steps)
        /\ list # <<>> => Head(list) \notin Unread /\ Head(list) # "write inode"
    BY <1>3, <2>1, <2>2, <2>3 DEF Unread
  <2> HIDE DEF n, in
  <2>5. Quiet(p) /\ Carries(n, process'[p]) /\ process'[p].todo = list
    BY <1>1, <1>2, <1>5, <1>6, <1>7, <2>4, FreshNext, QuietContinue
  <2>6. ~ At(p, "read inode to write")
    BY <1>1, <1>2, <1>9 DEF At
  <2> QED
    BY <1>5, <2>1, <2>5, <2>6 DEF Carries
<1> QED
  BY <1>1, <1>2, <1>8, <1>9

\* A block is filled with zeros.
LEMMA ClearBlockQuiet ==
  ASSUME Types, NEW p \in Processes, WriteData(p), At(p, "clear block")
  PROVE  Quiet(p) /\ Carries(process[p], process'[p]) /\ process'[p].todo = Rest(p)
<1> DEFINE me == process[p]
           rest == Rest(p)
<1>1. disk' = [disk EXCEPT !.data[me.in.blk] = "zeros"] /\ Continue(p, me, rest)
  BY DEF WriteData, Write, At
<1>2. /\ me \in Memory /\ rest \in Seq(Steps) /\ me.todo # <<>>
      /\ rest # <<>> => Follows("clear block", Head(rest))
  BY AtStep DEF At
<1>3. SameMaps(disk, disk') /\ disk'.table = disk.table
  BY <1>1 DEF SameMaps, Types, Image
<1>4. /\ Version(disk, process, me.at, me.in)
      /\ \A i : Version(disk, process, i, disk'.table[i])
  BY <1>2, <1>3, OwnVersion
<1>5. rest # <<>> => Head(rest) \notin Unread /\ Head(rest) # "write inode"
  BY <1>2, UnreadNext
<1> QED
  BY <1>1, <1>2, <1>3, <1>4, <1>5, FreshNext, QuietContinue

LEMMA TestBitQuiet ==
  ASSUME Types, NEW p \in Processes, TestBit(p)
  PROVE  /\ Quiet(p) /\ Carries(process[p], process'[p])
         /\ process'[p].todo \in {Rest(p), SubSeq(Rest(p), 3, Len(Rest(p)))}
<1> DEFINE me == process[p]
           rest == Rest(p)
           skip == SubSeq(rest, 3, Len(rest))
<1>1. PICK step \in {"test block", "test inode"}, list \in {rest, skip} :
        At(p, step) /\ disk' = disk /\ Continue(p, me, list)
  BY DEF TestBit, ReadOnly
<1>2. /\ me \in Memory /\ Chain(rest) /\ rest \in Seq(Steps) /\ me.todo # <<>>
      /\ rest # <<>> => Follows(step, Head(rest))
  BY <1>1, AtStep DEF At
<1>3. /\ Chain(skip) /\ skip \in Seq(Steps)
      /\ skip # <<>> =>
           /\ rest # <<>>
           /\ \E next : Follows(Head(rest), next) /\ Follows(next, Head(skip))
  BY <1>2, SkipTwo
<1> HIDE DEF skip
<1>4. rest # <<>> => Head(rest) \in {"bmap", "imap"}
  BY <1>2 DEF Follows
<1>5. skip # <<>> => Head(skip) \in {"clear block", "table", "read root"}
  <2>1. \A next : Follows("bmap", next) \/ Follows("imap", next) =>
          next \in {"take block", "drop block", "take inode", "drop inode"}
    BY DEF Follows
  <2>2. \A next \in {"take block", "drop block", "take inode", "drop inode"} : \A t :
          Follows(next, t) => t \in {"clear block", "table", "read root"}
    BY DEF Follows
  <2> QED
    BY <1>3, <1>4, <2>1, <2>2
<1>6. list # <<>> => Head(list) \notin Unread /\ Head(list) # "write inode"
  <2>1. \A a \in {"bmap", "imap", "clear block", "table", "read root"} :
          a \notin Unread /\ a # "write inode"
    BY DEF Unread
  <2>2. list # <<>> => Head(list) \in {"bmap", "imap", "clear block", "table", "read root"}
    <3>1. CASE list = rest
      BY <1>4, <3>1
    <3>2. CASE list = skip
      BY <1>5, <3>2
    <3> QED
      BY <1>1, <3>1, <3>2
  <2> QED
    BY <2>1, <2>2
<1>7. /\ Version(disk, process, me.at, me.in)
      /\ \A i : Version(disk, process, i, disk.table[i])
  BY <1>2, OwnVersion
<1>8. SameMaps(disk, disk')
  BY <1>1 DEF SameMaps
<1>9. list \in Seq(Steps)
  BY <1>1, <1>2, <1>3
<1>10. Quiet(p) /\ Carries(me, process'[p]) /\ process'[p].todo = list
  BY <1>1, <1>2, <1>6, <1>7, <1>8, <1>9, FreshNext, QuietContinue
<1> QED
  BY <1>1, <1>10 DEF skip

-----------------------------------------------------------------------------
(* The phases of a command that changes something, from the image c that     *)
(* was there when it started, and the mixes each of them leaves.             *)

\* Inode x is marked and empty, and has no name yet.
Made(c, im, ps, x) ==
  /\ SameBut(c, im, ps, x) /\ x \in Inodes \ c.imap
  /\ im.imap = c.imap \cup {x} /\ im.bmap = c.bmap
  /\ \A v : Version(im, ps, x, v) => v.blk = NilBlock

\* Inode x, the first with this name, is being freed, and its block, old.
First(c, name, x) ==
  LET f == EntriesOf(c.dir, c.table[RootIno].size, name)
  IN  f # {} /\ x = c.dir[Min(f)].ino
Undone(c, im, ps, x, old) ==
  /\ SameBut(c, im, ps, x) /\ x \in Inodes \ {RootIno}
  /\ c.imap \ {x} \subseteq im.imap /\ c.bmap \ {c.table[x].blk} \subseteq im.bmap
  /\ old \in {NilBlock, c.table[x].blk}
  /\ \A v : Version(im, ps, x, v) => v \in {c.table[x], NoInode}

\* Of files that were there before, all the same.
OldFile(c, im, ps, k) ==
  /\ k \in Files(c) /\ im.dir[k] = c.dir[k] /\ c.dir[k].ino \in im.imap
  /\ c.table[c.dir[k].ino].blk \in im.bmap \cup {NilBlock}
  /\ \A v : Version(im, ps, c.dir[k].ino, v) => v = c.table[c.dir[k].ino]

LEMMA OldMixes ==
  ASSUME NEW c, Sound(c), NEW im, NEW ps,
         \A k : Reached(im, ps, k) => OldFile(c, im, ps, k)
  PROVE  AnyMix(im, ps)
<1>1. \A k \in Files(c) : c.dir[k].ino \in InodesNamed(c)
  BY DEF InodesNamed
<1>2. \A j, k \in Files(c) : j # k =>
        /\ c.dir[j].ino # c.dir[k].ino
        /\ c.table[c.dir[j].ino].blk # NilBlock =>
             c.table[c.dir[j].ino].blk # c.table[c.dir[k].ino].blk
  BY <1>1 DEF Sound
<1>3. \A k : Reached(im, ps, k) => im.dir[k].ino \in im.imap
  BY DEF OldFile
<1>4. \A k, v : Reached(im, ps, k) /\ Version(im, ps, im.dir[k].ino, v) =>
        v.blk \in im.bmap \cup {NilBlock}
  BY DEF OldFile
<1>5. ASSUME NEW j, NEW k, Reached(im, ps, j), Reached(im, ps, k), j # k
      PROVE  /\ im.dir[j].ino # im.dir[k].ino
             /\ \A v, w : Version(im, ps, im.dir[j].ino, v) /\ Version(im, ps, im.dir[k].ino, w)
                          /\ v.blk # NilBlock => v.blk # w.blk
  <2>1. OldFile(c, im, ps, j) /\ OldFile(c, im, ps, k)
    BY <1>5
  <2> QED
    BY <1>2, <1>5, <2>1 DEF OldFile
<1> QED
  BY <1>3, <1>4, <1>5 DEF AnyMix

\* What is marked.
LEMMA Marked ==
  ASSUME NEW c, Sound(c), NEW k \in Files(c)
  PROVE  c.dir[k].ino \in c.imap /\ c.table[c.dir[k].ino].blk \in c.bmap \cup {NilBlock}
BY DEF Sound, InodesNamed, BlocksNamed

LEMMA SameReached ==
  ASSUME NEW c \in Image, NEW im, NEW ps, NEW x, x # RootIno, SameBut(c, im, ps, x)
  PROVE  /\ \A r : Version(im, ps, RootIno, r) => r = c.table[RootIno]
         /\ \A k : Reached(im, ps, k) => k \in Files(c)
         /\ \A k \in Files(c) : c.dir[k].ino # x =>
              \A v : Version(im, ps, c.dir[k].ino, v) => v = c.table[c.dir[k].ino]
<1>1. \A r : Version(im, ps, RootIno, r) => r = c.table[RootIno]
  BY Numbers DEF SameBut
<1>2. \A k : Reached(im, ps, k) => k \in Files(c)
  BY <1>1 DEF Reached, Files, SameBut
<1>3. ASSUME NEW k \in Files(c), c.dir[k].ino # x
      PROVE  \A v : Version(im, ps, c.dir[k].ino, v) => v = c.table[c.dir[k].ino]
  <2>1. c.dir[k] \in Entry /\ c.dir[k] # NoEntry
    BY DEF Files, Image
  <2>2. c.dir[k].ino \in Inodes
    BY <2>1 DEF Entry
  <2> QED
    BY <1>3, <2>2 DEF SameBut
<1> QED
  BY <1>1, <1>2, <1>3

LEMMA MadeMixes ==
  ASSUME NEW c \in Image, Sound(c), NEW im, NEW ps, NEW x, Made(c, im, ps, x)
  PROVE  AnyMix(im, ps) /\ x # RootIno
<1>1. SameBut(c, im, ps, x) /\ x \notin c.imap /\ c.imap \subseteq im.imap /\ im.bmap = c.bmap
  BY DEF Made
<1>2. x # RootIno
  BY <1>1 DEF Image, ImapType
<1>3. im.dir = c.dir
  BY <1>1 DEF SameBut
<1>4. AnyMix(im, ps)
  <2> SUFFICES ASSUME NEW k, Reached(im, ps, k)
               PROVE  OldFile(c, im, ps, k)
    BY OldMixes
  <2>1. k \in Files(c)
    BY <1>1, <1>2, SameReached
  <2>2. c.dir[k].ino \in c.imap /\ c.table[c.dir[k].ino].blk \in c.bmap \cup {NilBlock}
    BY <2>1, Marked
  <2>3. c.dir[k].ino # x
    BY <1>1, <2>2
  <2>4. \A v : Version(im, ps, c.dir[k].ino, v) => v = c.table[c.dir[k].ino]
    BY <1>1, <1>2, <2>1, <2>3, SameReached
  <2> QED
    BY <1>1, <1>3, <2>1, <2>2, <2>4 DEF OldFile
<1> QED
  BY <1>2, <1>4

\* A name is entered for an inode that is marked and empty.
EntersAt(c, new, x, s, u) ==
  /\ s = c.table[RootIno].size /\ u.size = s + 1 /\ new.dir[s].ino = x
  /\ \A k \in Slots \ {s} : new.dir[k] = c.dir[k]

LEMMA EnteredMixes ==
  ASSUME NEW c \in Image, Sound(c), NEW im, NEW ps, NEW x, Made(c, im, ps, x),
         NEW new, NEW qs, NEW u, OneNew(im, ps, new, qs, RootIno, u), NEW s,
         EntersAt(c, new, x, s, u), new.imap = im.imap, new.bmap = im.bmap
  PROVE  AnyMix(new, qs)
<1>1. SameBut(c, im, ps, x) /\ x \in Inodes \ c.imap /\ x # RootIno
  BY MadeMixes DEF Made
<1>2. /\ s = c.table[RootIno].size /\ s \in Nat /\ u.size = s + 1 /\ new.dir[s].ino = x
      /\ \A k \in Slots \ {s} : new.dir[k] = c.dir[k]
  BY Numbers DEF EntersAt, Image, Inode
<1>3. ASSUME NEW r, Version(new, qs, RootIno, r) PROVE r.size \in {s, s + 1}
  <2>1. Version(im, ps, RootIno, r) \/ r = u
    BY <1>3, Numbers DEF OneNew
  <2>2. Version(im, ps, RootIno, r) => r = c.table[RootIno]
    BY <1>1, SameReached
  <2> QED
    BY <1>2, <2>1, <2>2
<1>4. ASSUME NEW k, Reached(new, qs, k), k # s
      PROVE  k \in Files(c) /\ new.dir[k] = c.dir[k]
  <2>1. PICK r : k \in Slots /\ new.dir[k] # NoEntry /\ k < r.size /\ r.size \in {s, s + 1}
    BY <1>3, <1>4 DEF Reached
  <2>2. k < s
    BY <1>2, <1>4, <2>1, Numbers
  <2> QED
    BY <1>2, <1>4, <2>1, <2>2 DEF Files
<1>5. \A v : Version(new, qs, x, v) => v.blk = NilBlock
  BY <1>1 DEF OneNew, Made
<1>6. ASSUME NEW k \in Files(c)
      PROVE  /\ c.dir[k].ino # x /\ c.dir[k].ino \in new.imap
             /\ c.table[c.dir[k].ino].blk \in new.bmap \cup {NilBlock}
             /\ \A v : Version(new, qs, c.dir[k].ino, v) => v = c.table[c.dir[k].ino]
  <2>1. c.dir[k].ino \in c.imap /\ c.table[c.dir[k].ino].blk \in c.bmap \cup {NilBlock}
    BY Marked
  <2>2. c.dir[k].ino \in Inodes \ {RootIno}
    <3>1. c.dir[k] \in Entry /\ c.dir[k] # NoEntry
      BY DEF Files, Image
    <3> QED
      BY <3>1 DEF Entry
  <2>3. c.dir[k].ino # x
    BY <1>1, <2>1
  <2>4. \A v : Version(new, qs, c.dir[k].ino, v) => Version(im, ps, c.dir[k].ino, v)
    BY <2>2 DEF OneNew
  <2>5. \A v : Version(im, ps, c.dir[k].ino, v) => v = c.table[c.dir[k].ino]
    BY <1>1, <2>2, <2>3 DEF SameBut
  <2> QED
    BY <2>1, <2>3, <2>4, <2>5 DEF Made
<1>7. x \in new.imap
  BY DEF Made
<1>8. ASSUME NEW k, Reached(new, qs, k)
      PROVE  /\ new.dir[k].ino \in new.imap
             /\ \A v : Version(new, qs, new.dir[k].ino, v) => v.blk \in new.bmap \cup {NilBlock}
  BY <1>2, <1>4, <1>5, <1>6, <1>7, <1>8
<1>9. ASSUME NEW j, NEW k, Reached(new, qs, j), Reached(new, qs, k), j # k
       PROVE  /\ new.dir[j].ino # new.dir[k].ino
              /\ \A v, w : Version(new, qs, new.dir[j].ino, v)
                           /\ Version(new, qs, new.dir[k].ino, w)
                           /\ v.blk # NilBlock => v.blk # w.blk
  <2>1. CASE j = s
    BY <1>2, <1>4, <1>5, <1>6, <1>9, <2>1
  <2>2. CASE k = s
    BY <1>2, <1>4, <1>5, <1>6, <1>9, <2>2
  <2>3. CASE j # s /\ k # s
    <3>1. /\ j \in Files(c) /\ k \in Files(c) /\ new.dir[j] = c.dir[j] /\ new.dir[k] = c.dir[k]
      BY <1>4, <1>9, <2>3
    <3>2. c.dir[j].ino \in InodesNamed(c) /\ c.dir[k].ino \in InodesNamed(c)
      BY <3>1 DEF InodesNamed
    <3>3. /\ c.dir[j].ino # c.dir[k].ino
          /\ c.table[c.dir[j].ino].blk # NilBlock =>
               c.table[c.dir[j].ino].blk # c.table[c.dir[k].ino].blk
      BY <1>9, <3>1, <3>2 DEF Sound
    <3> QED
      BY <1>6, <3>1, <3>3
  <2> QED
    BY <2>1, <2>2, <2>3
<1> QED
  BY <1>8, <1>9 DEF AnyMix

\* The first file of a name is taken from the directory.
LEMMA RemovedMixes ==
  ASSUME NEW c \in Image, Sound(c), NEW im, NEW ps, NEW x, NEW old, Undone(c, im, ps, x, old),
         NEW f \in Files(c), x = c.dir[f].ino,
         NEW new, NEW qs, NoNew(im, ps, new, qs), new.dir = [c.dir EXCEPT ![f] = NoEntry],
         new.imap = im.imap, new.bmap = im.bmap
  PROVE  AnyMix(new, qs)
<1>1. /\ SameBut(c, im, ps, x) /\ c.imap \ {x} \subseteq im.imap
      /\ c.bmap \ {c.table[x].blk} \subseteq im.bmap
  BY DEF Undone
<1>2. c.dir \in [Slots -> Entry] /\ f \in Slots
  BY DEF Image, Files
<1>3. ASSUME NEW k \in Files(c) PROVE c.dir[k].ino \in Inodes \ {RootIno}
  <2>1. c.dir[k] \in Entry /\ c.dir[k] # NoEntry
    BY DEF Files, Image
  <2> QED
    BY <2>1 DEF Entry
<1>4. x # RootIno
  BY <1>3
<1>5. ASSUME NEW k, Reached(new, qs, k) PROVE OldFile(c, new, qs, k)
  <2>1. PICK r : k \in Slots /\ new.dir[k] # NoEntry /\ Version(new, qs, RootIno, r) /\ k < r.size
    BY <1>5 DEF Reached
  <2>2. k # f /\ new.dir[k] = c.dir[k]
    BY <1>2, <2>1
  <2>3. Version(im, ps, RootIno, r)
    BY <2>1, Numbers DEF NoNew
  <2>4. r = c.table[RootIno]
    BY <1>1, <1>4, <2>3, SameReached
  <2>5. k \in Files(c)
    BY <2>1, <2>2, <2>4 DEF Files
  <2>6. c.dir[k].ino \in c.imap /\ c.table[c.dir[k].ino].blk \in c.bmap \cup {NilBlock}
    BY <2>5, Marked
  <2>7. c.dir[k].ino # x /\ (c.table[c.dir[k].ino].blk # NilBlock =>
                               c.table[c.dir[k].ino].blk # c.table[x].blk)
    <3>1. c.dir[k].ino \in InodesNamed(c) /\ x \in InodesNamed(c)
      BY <2>5 DEF InodesNamed
    <3> QED
      BY <2>2, <2>5, <3>1 DEF Sound
  <2>8. ASSUME NEW v, Version(new, qs, c.dir[k].ino, v) PROVE v = c.table[c.dir[k].ino]
    <3>1. c.dir[k].ino \in Inodes
      BY <1>3, <2>5
    <3>2. Version(im, ps, c.dir[k].ino, v)
      BY <2>8, <3>1 DEF NoNew
    <3> QED
      BY <1>1, <2>7, <3>1, <3>2 DEF SameBut
  <2> QED
    BY <1>1, <2>2, <2>5, <2>6, <2>7, <2>8 DEF OldFile
<1> QED
  BY <1>5, OldMixes

\* A file gets a block that was free, or is written, and keeps its block.
LEMMA StoredMixes ==
  ASSUME NEW im \in Image, NEW ps, AnyMix(im, ps), NEW new, NEW qs, NEW x, x # RootIno, NEW u,
         OneNew(im, ps, new, qs, x, u), new.dir = im.dir, new.imap = im.imap,
         im.bmap \subseteq new.bmap,
         \/ \E v : Version(im, ps, x, v) /\ v.blk = u.blk
         \/ u.blk \in new.bmap \ (im.bmap \cup {NilBlock})
  PROVE  AnyMix(new, qs)
<1>1. ASSUME NEW k, Reached(new, qs, k)
      PROVE  Reached(im, ps, k) /\ im.dir[k].ino \in Inodes
  <2>1. Reached(im, ps, k)
    BY <1>1, Numbers DEF Reached, OneNew
  <2> QED
    BY <2>1, EntryInode
<1>2. ASSUME NEW i \in Inodes, NEW v, Version(new, qs, i, v)
      PROVE  Version(im, ps, i, v) \/ (i = x /\ v = u)
  BY <1>2 DEF OneNew
<1>3. ASSUME NEW k, Reached(new, qs, k), NEW v, Version(new, qs, new.dir[k].ino, v)
      PROVE  /\ v.blk \in new.bmap \cup {NilBlock}
             /\ \/ \E w : Version(im, ps, im.dir[k].ino, w) /\ w.blk = v.blk
                \/ /\ im.dir[k].ino = x /\ v.blk \notin im.bmap \cup {NilBlock}
  <2>1. Reached(im, ps, k) /\ im.dir[k].ino \in Inodes
    BY <1>1, <1>3
  <2>2. \/ \E w : Version(im, ps, im.dir[k].ino, w) /\ w.blk = v.blk
        \/ im.dir[k].ino = x /\ v.blk \in new.bmap \ (im.bmap \cup {NilBlock})
    BY <1>2, <1>3, <2>1
  <2>3. \A w : Version(im, ps, im.dir[k].ino, w) => w.blk \in im.bmap \cup {NilBlock}
    BY <2>1 DEF AnyMix
  <2> QED
    BY <2>2, <2>3
<1>4. \A k : Reached(new, qs, k) => new.dir[k].ino \in new.imap
  BY <1>1 DEF AnyMix
<1>5. ASSUME NEW j, NEW k, Reached(new, qs, j), Reached(new, qs, k), j # k
      PROVE  /\ new.dir[j].ino # new.dir[k].ino
             /\ \A v, w : Version(new, qs, new.dir[j].ino, v)
                          /\ Version(new, qs, new.dir[k].ino, w)
                          /\ v.blk # NilBlock => v.blk # w.blk
  <2>1. Reached(im, ps, j) /\ Reached(im, ps, k)
    BY <1>1, <1>5
  <2>2. /\ im.dir[j].ino # im.dir[k].ino
        /\ \A v, w : Version(im, ps, im.dir[j].ino, v) /\ Version(im, ps, im.dir[k].ino, w)
                     /\ v.blk # NilBlock => v.blk # w.blk
    BY <1>5, <2>1 DEF AnyMix
  <2>3. /\ \A v : Version(im, ps, im.dir[j].ino, v) => v.blk \in im.bmap \cup {NilBlock}
        /\ \A v : Version(im, ps, im.dir[k].ino, v) => v.blk \in im.bmap \cup {NilBlock}
    BY <2>1 DEF AnyMix
  <2>4. ASSUME NEW v, NEW w, Version(new, qs, new.dir[j].ino, v),
               Version(new, qs, new.dir[k].ino, w), v.blk # NilBlock
        PROVE  v.blk # w.blk
    <3>1. \/ \E a : Version(im, ps, im.dir[j].ino, a) /\ a.blk = v.blk
          \/ im.dir[j].ino = x /\ v.blk \notin im.bmap \cup {NilBlock}
      BY <1>3, <1>5, <2>4
    <3>2. \/ \E b : Version(im, ps, im.dir[k].ino, b) /\ b.blk = w.blk
          \/ im.dir[k].ino = x /\ w.blk \notin im.bmap \cup {NilBlock}
      BY <1>3, <1>5, <2>4
    <3> QED
      BY <2>2, <2>3, <2>4, <3>1, <3>2
  <2> QED
    BY <2>2, <2>4
<1> QED
  BY <1>3, <1>4, <1>5 DEF AnyMix

\* A command that changes something: before it has marked an inode; while it makes
\* one; while it frees one; and while it stores what it writes.
Early(c, im, ps, m) ==
  /\ m.ino = 0 /\ m.old = NilBlock /\ AsBefore(c, im, ps)
  /\ Now(m) = "look up" => m.at = RootIno
  /\ Now(m) \in {"imap", "take inode"} => ToCreate(m.todo)
Making(c, im, ps, m) == Made(c, im, ps, m.ino) /\ ToEnter(m.todo)
Freeing(c, im, ps, m) ==
  First(c, m.name, m.ino) /\ Undone(c, im, ps, m.ino, m.old) /\ ToRemove(m.todo)
Keeping(im, ps, m) == AnyMix(im, ps) /\ OnlyIn(m.todo, Storing)

Stage(c, im, ps, m) ==
  /\ m.cmd # "readf" /\ Current(im, m)
  /\ Early(c, im, ps, m) \/ Making(c, im, ps, m) \/ Freeing(c, im, ps, m) \/ Keeping(im, ps, m)
Went(c, im, ps, m) == IF m.todo = <<>> THEN AnyMix(im, ps) ELSE Stage(c, im, ps, m)

\* What a quiet step, of whatever process, leaves of the image.
LEMMA QuietImage ==
  ASSUME NEW c, NEW im \in Image, NEW ps, NEW new, NEW qs,
         SameMaps(im, new), NoNew(im, ps, new, qs)
  PROVE  /\ AsBefore(c, im, ps) => AsBefore(c, new, qs)
         /\ \A x : Made(c, im, ps, x) => Made(c, new, qs, x)
         /\ \A x, old : Undone(c, im, ps, x, old) => Undone(c, new, qs, x, old)
         /\ AnyMix(im, ps) => AnyMix(new, qs)
<1>1. new.imap = im.imap /\ new.bmap = im.bmap /\ new.dir = im.dir
  BY DEF SameMaps
<1>2. \A x : SameBut(c, im, ps, x) => SameBut(c, new, qs, x)
  BY <1>1 DEF SameBut, NoNew
<1>3. AsBefore(c, im, ps) => AsBefore(c, new, qs)
  BY <1>1, <1>2 DEF AsBefore
<1>4. ASSUME NEW x, Made(c, im, ps, x) PROVE Made(c, new, qs, x)
  BY <1>1, <1>2, <1>4 DEF Made, NoNew
<1>5. ASSUME NEW x, NEW old, Undone(c, im, ps, x, old) PROVE Undone(c, new, qs, x, old)
  BY <1>1, <1>2, <1>5 DEF Undone, NoNew
<1>6. AnyMix(im, ps) => AnyMix(new, qs)
  BY FewerMixes
<1> QED
  BY <1>3, <1>4, <1>5, <1>6

\* A quiet step of another process.
LEMMA StageKept ==
  ASSUME NEW c, NEW im \in Image, NEW ps, NEW new, NEW qs, NEW m,
         SameMaps(im, new), NoNew(im, ps, new, qs), Stage(c, im, ps, m)
  PROVE  Stage(c, new, qs, m)
<1>1. Current(new, m)
  BY DEF Stage, Current, Fresh, SameMaps
<1>2. Early(c, im, ps, m) => Early(c, new, qs, m)
  BY QuietImage DEF Early
<1>3. Making(c, im, ps, m) => Making(c, new, qs, m)
  BY QuietImage DEF Making
<1>4. Freeing(c, im, ps, m) => Freeing(c, new, qs, m)
  BY QuietImage DEF Freeing
<1>5. Keeping(im, ps, m) => Keeping(new, qs, m)
  BY QuietImage DEF Keeping
<1> QED
  BY <1>1, <1>2, <1>3, <1>4, <1>5 DEF Stage

\* The command at a step is at that step.
LEMMA StepAt ==
  ASSUME NEW p \in Processes, Step(p)
  PROVE  LET s == Now(process[p])
         IN  /\ process[p].todo # <<>>
             /\ \/ s = "read root" /\ ReadRoot(p)
                \/ s = "look up" /\ LookUp(p)
                \/ s \in {"read inode to write", "read inode to read", "read inode to truncate"}
                   /\ ReadInode(p)
                \/ s \in {"imap", "bmap", "table", "dir"} /\ ReadBlock(p)
                \/ s = "write inode" /\ WriteTable(p)
                \/ s \in {"clear block", "write data"} /\ WriteData(p)
                \/ s = "take inode" /\ TakeInode(p)
                \/ s = "take block" /\ TakeBlock(p)
                \/ s \in {"test block", "test inode"} /\ TestBit(p)
                \/ s \in {"drop block", "drop inode"} /\ DropBit(p)
                \/ s \in {"enter name", "remove name"} /\ ChangeName(p)
<1> DEFINE s == Now(process[p])
<1>1. CASE ReadRoot(p)
  BY <1>1 DEF ReadRoot, At, Now
<1>2. CASE LookUp(p)
  BY <1>2 DEF LookUp, At, Now
<1>3. CASE ReadInode(p)
  BY <1>3 DEF ReadInode, At, Now
<1>4. CASE ReadBlock(p)
  BY <1>4 DEF ReadBlock, At, Now
<1>5. CASE WriteTable(p)
  BY <1>5 DEF WriteTable, At, Now
<1>6. CASE WriteData(p)
  BY <1>6 DEF WriteData, At, Now
<1>7. CASE TakeInode(p)
  BY <1>7 DEF TakeInode, At, Now
<1>8. CASE TakeBlock(p)
  BY <1>8 DEF TakeBlock, At, Now
<1>9. CASE TestBit(p)
  BY <1>9 DEF TestBit, At, Now
<1>10. CASE DropBit(p)
  BY <1>10 DEF DropBit, At, Now
<1>11. CASE ChangeName(p)
  BY <1>11 DEF ChangeName, At, Now
<1> QED
  BY <1>1, <1>2, <1>3, <1>4, <1>5, <1>6, <1>7, <1>8, <1>9, <1>10, <1>11 DEF Step

\* A step that shows one version that was not there.
LEMMA NewContinue ==
  ASSUME Types, NEW p \in Processes, NEW n \in Memory, NEW rest \in Seq(Steps),
         Continue(p, n, rest), NEW x, NEW u,
         \A i \in Inodes : Version(disk, process, i, disk'.table[i]),
         n.at \in Inodes => Version(disk, process, n.at, n.in) \/ (n.at = x /\ n.in = u),
         rest # <<>> => Head(rest) \notin Unread /\ Head(rest) # "write inode"
  PROVE  /\ OneNew(disk, process, disk', process', x, u)
         /\ Left(process'[p], n, rest) /\ Current(disk', process'[p])
<1>1. PICK m \in Memory :
        process' = [process EXCEPT ![p] = m] /\ process'[p] = m /\ Left(m, n, rest)
  BY Settled
<1>2. process \in [Processes -> Memory]
  BY DEF Types
<1>3. m.todo # <<>> /\ m.at \in Inodes =>
        Version(disk, process, m.at, m.in) \/ (m.at = x /\ m.in = u)
  BY <1>1 DEF Left
<1>4. m.todo # <<>> /\ Now(m) = "write inode" =>
        \A i \in Inodes : Version(disk, process, i, m.buf.table[i])
  BY <1>1 DEF Left, Now
<1>5. OneNew(disk, process, disk', process', x, u)
  BY <1>1, <1>2, <1>3, <1>4, VersionsAdded
<1>6. Current(disk', m)
  BY <1>1, FreshNext DEF Left, Current, Now
<1> QED
  BY <1>1, <1>5, <1>6

\* A list that ends with a change of the directory is not at its end.
LEMMA NotDone ==
  /\ ~ ToEnter(<<>>) /\ ~ ToRemove(<<>>) /\ ~ ToCreate(<<>>)
<1>1. Len(<<>>) = 0
  OBVIOUS
<1> QED
  BY <1>1 DEF ToEnter, ToRemove, ToCreate, Until

LEMMA StepFacts ==
  ASSUME Types, NEW p \in Processes, Step(p)
  PROVE  LET me == process[p]
         IN  /\ me \in Memory /\ Control(me) /\ me.todo # <<>> /\ At(p, Now(me))
             /\ me.todo \in Seq(Steps) /\ Chain(Rest(p)) /\ Rest(p) \in Seq(Steps)
             /\ Rest(p) # <<>> => Follows(Now(me), Head(Rest(p)))
             /\ disk \in Image
<1>1. At(p, Now(process[p]))
  BY StepAt DEF At, Now
<1>2. process[p] \in Memory /\ process[p].todo \in Seq(Steps) /\ disk \in Image
  BY DEF Types, Memory
<1> QED
  BY <1>1, <1>2, AtStep DEF At

\* An inode is taken.
LEMMA TakeInodeMakes ==
  ASSUME Types, NEW p \in Processes, TakeInode(p), NEW c \in Image, Sound(c), Cleared(c),
         Current(disk, process[p]), AsBefore(c, disk, process)
  PROVE  \/ process'[p].todo = <<>> /\ Quiet(p)
         \/ /\ Made(c, disk', process', process'[p].ino) \/ process'[p].todo = <<>>
            /\ process'[p].todo = Rest(p) /\ Current(disk', process'[p])
            /\ Rest(p) # <<>> => process'[p].cmd = process[p].cmd
<1> DEFINE me == process[p]
           rest == Rest(p)
           free == Inodes \ me.buf.imap
           x == Min(free)
           n == [me EXCEPT !.ino = x, !.at = x, !.in = NoInode]
<1>1. At(p, "take inode") /\ me.todo # <<>> /\ Now(me) = "take inode"
  BY DEF TakeInode, At, Now
<1>2. /\ me \in Memory /\ rest \in Seq(Steps)
      /\ rest # <<>> => Follows("take inode", Head(rest))
  BY <1>1, AtStep
<1>3. me.buf.imap = c.imap /\ disk.imap = c.imap /\ disk.bmap = c.bmap
  BY <1>1 DEF Current, Fresh, AsBefore
<1>4. CASE free = {}
  <2>1. Fail(p)
    BY <1>4 DEF TakeInode
  <2> QED
    BY <2>1, FailQuiet
<1>5. CASE free # {}
  <2>1. /\ disk' = [disk EXCEPT !.imap = me.buf.imap \cup {x}] /\ Continue(p, n, rest)
    BY <1>5 DEF TakeInode, Write
  <2>2. x \in Inodes \ c.imap
    <3>1. free \subseteq Nat
      BY Numbers
    <3>2. Min(free) \in free
      BY <1>5, <3>1, MinProperty
    <3> QED
      BY <1>3, <3>2
  <2>3. /\ disk'.imap = c.imap \cup {x} /\ disk'.bmap = disk.bmap /\ disk'.dir = disk.dir
        /\ disk'.table = disk.table
    BY <1>3, <2>1 DEF Types, Image
  <2> HIDE DEF x
  <2>4. /\ n \in Memory /\ n.cmd = me.cmd /\ n.ino = x /\ n.at = x /\ n.in = NoInode
    <3>1. x \in Inodes \ {RootIno}
      BY <2>2 DEF Image, ImapType
    <3> QED
      BY <1>2, <3>1, IdleReady DEF Memory
  <2> HIDE DEF n
  <2>5. \A i \in Inodes : Version(disk, process, i, disk'.table[i])
    BY <2>3 DEF Version
  <2>6. rest # <<>> => Head(rest) \notin Unread /\ Head(rest) # "write inode"
    BY <1>2, UnreadNext
  <2>7. /\ OneNew(disk, process, disk', process', x, NoInode)
        /\ Left(process'[p], n, rest) /\ Current(disk', process'[p])
    BY <1>2, <2>1, <2>4, <2>5, <2>6, NewContinue
  <2>8. c.table[x].blk = NilBlock
    <3>1. x \notin InodesNamed(c)
      BY <2>2 DEF Sound
    <3> QED
      BY <2>2, <3>1 DEF Cleared
  <2>9. Made(c, disk', process', x)
    <3>1. SameBut(c, disk', process', x)
      BY <2>3, <2>7, Numbers DEF AsBefore, SameBut, OneNew
    <3>2. \A v : Version(disk', process', x, v) => v = c.table[x] \/ v = NoInode
      BY <2>2, <2>7, Numbers DEF AsBefore, SameBut, OneNew
    <3> QED
      BY <1>3, <2>2, <2>3, <2>8, <3>1, <3>2 DEF Made, NoInode
  <2> QED
    BY <2>4, <2>7, <2>9 DEF Left
<1> QED
  BY <1>4, <1>5

LEMMA EarlyStep ==
  ASSUME Types, NEW p \in Processes, Step(p), NEW c \in Image, Sound(c), Cleared(c),
         Stage(c, disk, process, process[p]), Early(c, disk, process, process[p])
  PROVE  Went(c, disk', process', process'[p])
<1> DEFINE me == process[p]
           m == process'[p]
           rest == Rest(p)
<1>1. /\ me \in Memory /\ Control(me) /\ me.todo # <<>> /\ At(p, Now(me))
      /\ me.todo \in Seq(Steps) /\ disk \in Image
      /\ rest # <<>> => Follows(Now(me), Head(rest))
  BY StepFacts
<1>2. /\ me.cmd \in {"create", "writef", "delete"} /\ Current(disk, me) /\ me.ino = 0
      /\ me.old = NilBlock /\ AsBefore(c, disk, process)
      /\ Now(me) = "look up" => me.at = RootIno
      /\ Now(me) \in {"imap", "take inode"} => ToCreate(me.todo)
  BY <1>1 DEF Stage, Early, Control, Commands
<1>3. Quiet(p) => AsBefore(c, disk', process') /\ AnyMix(disk', process') /\ Current(disk', m)
  <2>1. Quiet(p) => AsBefore(c, disk', process')
    BY <1>1, <1>2, QuietImage DEF Quiet
  <2> QED
    BY <2>1, BeforeMixes DEF Quiet
<1>4. CASE ReadRoot(p)
  <2>1. /\ Quiet(p) /\ Carries(me, m) /\ m.todo = rest
        /\ m.todo # <<>> => m.at = RootIno
    BY <1>4, ReadRootQuiet
  <2>2. Now(me) = "read root"
    BY <1>4 DEF ReadRoot, At, Now
  <2>3. m.todo # <<>> => Now(m) \in {"look up", "dir"}
    BY <1>1, <2>1, <2>2 DEF Follows, Now
  <2>4. m.todo # <<>> => Early(c, disk', process', m)
    BY <1>2, <1>3, <2>1, <2>3 DEF Early, Carries
  <2> QED
    BY <1>2, <1>3, <2>1, <2>4 DEF Went, Stage, Carries
<1>5. CASE LookUp(p)
  <2> DEFINE found == EntriesOf(disk.dir, me.in.size, me.name)
  <2>1. /\ Quiet(p)
        /\ m.todo # <<>> => m.cmd = me.cmd /\ m.name = me.name /\ m.old = me.old
        /\ found = {} => m.todo = Missing[me.cmd] /\ (m.todo # <<>> => m.ino = me.ino)
        /\ found # {} =>
             m.todo = Found[me.cmd] /\ (m.todo # <<>> => m.ino = disk.dir[Min(found)].ino)
    BY <1>5, LookUpQuiet
  <2>2. me.at = RootIno /\ Now(me) = "look up"
    BY <1>2, <1>5 DEF LookUp, At, Now
  <2>3. CASE m.todo = <<>>
    BY <1>3, <2>1, <2>3 DEF Went
  <2>4. CASE m.todo # <<>> /\ found = {}
    <3>1. ToCreate(m.todo)
      <4>1. /\ Missing["create"] = CreateFile /\ Missing["delete"] = <<>>
            /\ Missing["writef"] = CreateFile \o WriteFile
        BY DEF Missing
      <4>2. m.todo = CreateFile \/ m.todo = CreateFile \o WriteFile
        BY <1>2, <2>1, <2>4, <4>1
      <4> QED
        BY <4>2, Contents
    <3>2. Now(m) # "look up"
      <4>1. Missing[me.cmd][1] = "imap" /\ Chain(Missing[me.cmd])
        BY <1>2, <2>1, <2>4, Beginnings DEF Commands
      <4> QED
        BY <2>1, <2>4, <4>1, HeadFirst DEF Now
    <3>3. Early(c, disk', process', m)
      BY <1>2, <1>3, <2>1, <2>4, <3>1, <3>2 DEF Early
    <3> QED
      BY <1>2, <1>3, <2>1, <2>4, <3>3 DEF Went, Stage
  <2>5. CASE m.todo # <<>> /\ found # {} /\ me.cmd = "writef"
    <3>1. m.todo = WriteFile
      BY <2>1, <2>5 DEF Found
    <3>2. Keeping(disk', process', m)
      BY <1>3, <2>1, <3>1, Contents DEF Keeping
    <3> QED
      BY <1>2, <1>3, <2>1, <2>5, <3>2 DEF Went, Stage
  <2>6. CASE m.todo # <<>> /\ found # {} /\ me.cmd = "delete"
    <3>1. ToRemove(m.todo)
      <4>1. m.todo = DeleteFile
        BY <2>1, <2>6 DEF Found
      <4> QED
        BY <4>1, Contents
    <3>2. me.in = c.table[RootIno] /\ disk.dir = c.dir
      <4>1. Version(disk, process, RootIno, me.in)
        BY <1>1, <2>2, OwnVersion
      <4> QED
        BY <1>2, <4>1, Numbers DEF AsBefore, SameBut
    <3>3. First(c, me.name, m.ino)
      BY <2>1, <2>6, <3>2 DEF First
    <3>4. m.ino \in Inodes \ {RootIno}
      <4>1. found \subseteq Slots /\ \A k \in found : disk.dir[k].name = me.name
        BY DEF EntriesOf
      <4>2. Min(found) \in found
        BY <2>6, <4>1, Numbers, MinProperty
      <4>3. disk.dir[Min(found)] \in Entry /\ disk.dir[Min(found)].name # "none"
        BY <1>1, <4>1, <4>2, Numbers DEF Image, Control
      <4> QED
        BY <2>1, <2>6, <4>3, Numbers DEF Entry, NoEntry
    <3>5. Undone(c, disk', process', m.ino, m.old)
      BY <1>2, <1>3, <2>1, <2>6, <3>4, Numbers DEF AsBefore, SameBut, Undone
    <3>6. Freeing(c, disk', process', m)
      BY <2>1, <2>6, <3>1, <3>3, <3>5 DEF Freeing
    <3> QED
      BY <1>2, <1>3, <2>1, <2>6, <3>6 DEF Went, Stage
  <2>7. me.cmd = "create" /\ found # {} => m.todo = <<>>
    BY <2>1 DEF Found
  <2> QED
    BY <1>2, <2>3, <2>4, <2>5, <2>6, <2>7
<1>6. CASE Now(me) = "imap" /\ ReadBlock(p)
  <2>1. Quiet(p) /\ Carries(me, m) /\ m.todo = rest
    BY <1>6, ReadBlockQuiet
  <2>2. ToCreate(rest)
    BY <1>1, <1>2, <1>6, RestCreate DEF Now, Rest
  <2>3. m.todo # <<>> => Now(m) # "look up"
    BY <1>1, <1>6, <2>1 DEF Follows, Now
  <2>4. m.todo # <<>> => Early(c, disk', process', m)
    BY <1>2, <1>3, <2>1, <2>2, <2>3 DEF Early, Carries
  <2> QED
    BY <1>2, <1>3, <2>1, <2>4 DEF Went, Stage, Carries
<1>7. CASE Now(me) = "take inode" /\ TakeInode(p)
  <2>1. ToEnter(rest) /\ rest # <<>>
    BY <1>1, <1>2, <1>7, RestCreate, NotDone DEF Now, Rest
  <2>2. \/ m.todo = <<>> /\ Quiet(p)
        \/ /\ Made(c, disk', process', m.ino)
           /\ m.todo = rest /\ Current(disk', m) /\ m.cmd = me.cmd
    BY <1>2, <1>7, <2>1, TakeInodeMakes
  <2>3. CASE m.todo = <<>> /\ Quiet(p)
    BY <1>3, <2>3 DEF Went
  <2>4. CASE /\ Made(c, disk', process', m.ino)
             /\ m.todo = rest /\ Current(disk', m) /\ m.cmd = me.cmd
    <3>1. Making(c, disk', process', m)
      BY <2>1, <2>4 DEF Making
    <3> QED
      BY <1>2, <2>1, <2>4, <3>1 DEF Went, Stage
  <2> QED
    BY <2>2, <2>3, <2>4
<1>8. Now(me) \in {"look up", "take inode", "read root", "imap"}
  BY <1>1, <1>2 DEF Control
<1>9. \/ ReadRoot(p) \/ LookUp(p) \/ (Now(me) = "imap" /\ ReadBlock(p))
      \/ (Now(me) = "take inode" /\ TakeInode(p))
  BY <1>8, StepAt
<1> QED
  BY <1>4, <1>5, <1>6, <1>7, <1>9

\* A new name is entered.
EnterName(p) == ChangeName(p) /\ At(p, "enter name")

LEMMA EnterNameKeeps ==
  ASSUME Types, NEW p \in Processes, EnterName(p),
         NEW c \in Image, Sound(c), Current(disk, process[p]),
         Made(c, disk, process, process[p].ino)
  PROVE  /\ AnyMix(disk', process') /\ Current(disk', process'[p])
         /\ \/ process'[p].todo = <<>>
            \/ process'[p].todo = Rest(p) /\ process'[p].cmd = process[p].cmd
<1> DEFINE me == process[p]
           rest == Rest(p)
           s == me.in.size
           u == [me.in EXCEPT !.size = @ + 1]
           n == [me EXCEPT !.in = u]
           e == [name |-> me.name, ino |-> me.ino]
           new == [disk EXCEPT !.dir = [me.buf.dir EXCEPT ![s] = e]]
<1>1. /\ me \in Memory /\ Control(me) /\ Now(me) = "enter name" /\ rest \in Seq(Steps)
      /\ me.todo # <<>> /\ disk \in Image
      /\ rest # <<>> => Follows("enter name", Head(rest))
  BY AtStep DEF EnterName, At, Types
<1>2. me.at = RootIno /\ me.buf.dir = disk.dir
  BY <1>1 DEF Control, Current, Fresh
<1>3. AnyMix(disk, process) /\ me.ino # RootIno /\ SameBut(c, disk, process, me.ino)
  BY MadeMixes DEF Made
<1>4. me.in = c.table[RootIno] /\ disk.dir = c.dir
  <2>1. Version(disk, process, RootIno, me.in)
    BY <1>1, <1>2, OwnVersion
  <2> QED
    BY <1>3, <2>1, Numbers DEF SameBut
<1>5. CASE s \notin Slots
  <2>1. Fail(p)
    BY <1>5 DEF EnterName, ChangeName, At
  <2>2. Quiet(p) /\ process'[p].todo = <<>>
    BY <2>1, FailQuiet
  <2> QED
    BY <1>1, <1>3, <2>2, FewerMixes DEF Quiet
<1>6. CASE s \in Slots
  <2>1. disk' = new /\ Continue(p, n, rest)
    BY <1>6 DEF EnterName, ChangeName, Write, At
  <2>2. /\ new.dir = [c.dir EXCEPT ![s] = [name |-> me.name, ino |-> me.ino]]
        /\ new.table = disk.table /\ new.imap = disk.imap /\ new.bmap = disk.bmap
    BY <1>1, <1>2, <1>4 DEF Image
  <2> HIDE DEF new
  <2>3. u \in Inode /\ u.size = s + 1
    <3>1. me.in \in Inode
      BY <1>1 DEF Memory
    <3> QED
      BY <3>1, Longer
  <2> HIDE DEF u
  <2>4. n \in Memory /\ n.cmd = me.cmd /\ n.at = RootIno /\ n.in = u
    BY <1>1, <1>2, <2>3 DEF Memory
  <2> HIDE DEF n
  <2>5. \A i \in Inodes : Version(disk, process, i, disk'.table[i])
    BY <2>1, <2>2 DEF Version
  <2>6. rest # <<>> => Head(rest) \notin Unread /\ Head(rest) # "write inode"
    BY <1>1, UnreadNext
  <2>7. /\ OneNew(disk, process, disk', process', RootIno, u)
        /\ Left(process'[p], n, rest) /\ Current(disk', process'[p])
    BY <1>1, <2>1, <2>4, <2>5, <2>6, NewContinue
  <2>8. EntersAt(c, disk', me.ino, s, u) /\ disk'.imap = disk.imap /\ disk'.bmap = disk.bmap
    <3>1. c.dir \in [Slots -> Entry] /\ s \in Slots /\ s = c.table[RootIno].size
      BY <1>4, <1>6 DEF Image
    <3> HIDE DEF s
    <3>2. /\ disk'.dir[s] = [name |-> me.name, ino |-> me.ino]
          /\ \A k \in Slots \ {s} : disk'.dir[k] = c.dir[k]
      BY <2>1, <2>2, <3>1
    <3>3. disk'.dir[s].ino = me.ino
      BY <3>2
    <3>4. EntersAt(c, disk', me.ino, s, u)
      BY <2>3, <3>1, <3>2, <3>3 DEF EntersAt
    <3> QED
      BY <2>1, <2>2, <3>4
  <2>9. AnyMix(disk', process')
    <3> HIDE DEF s
    <3> QED
      BY <2>7, <2>3, <2>8, EnteredMixes
  <2> QED
    BY <2>4, <2>7, <2>9 DEF Left
<1> QED
  BY <1>5, <1>6

LEMMA MakingStep ==
  ASSUME Types, NEW p \in Processes, Step(p), NEW c \in Image, Sound(c),
         Stage(c, disk, process, process[p]), Making(c, disk, process, process[p])
  PROVE  Went(c, disk', process', process'[p])
<1> DEFINE me == process[p]
           m == process'[p]
           rest == Rest(p)
<1>1. /\ me \in Memory /\ Control(me) /\ me.todo # <<>> /\ At(p, Now(me))
      /\ me.todo \in Seq(Steps) /\ disk \in Image
  BY StepFacts
<1>2. /\ me.cmd # "readf" /\ Current(disk, me) /\ Made(c, disk, process, me.ino)
      /\ ToEnter(me.todo)
  BY DEF Stage, Making
<1>3. \/ Now(me) = "enter name" /\ OnlyIn(rest, Storing)
      \/ Now(me) \in Entering /\ ToEnter(rest) /\ rest # <<>>
  BY <1>1, <1>2, RestUntil, NotDone DEF ToEnter, Now, Rest
<1>4. CASE Now(me) = "enter name" /\ OnlyIn(rest, Storing)
  <2>1. EnterName(p)
    BY <1>1, <1>4, StepAt DEF EnterName
  <2>2. /\ AnyMix(disk', process') /\ Current(disk', m)
        /\ m.todo = <<>> \/ (m.todo = rest /\ m.cmd = me.cmd)
    BY <1>2, <2>1, EnterNameKeeps
  <2> QED
    BY <1>2, <1>4, <2>2 DEF Went, Stage, Keeping
<1>5. CASE Now(me) \in Entering /\ ToEnter(rest) /\ rest # <<>>
  <2>1. ReadRoot(p) \/ ReadBlock(p) \/ WriteTable(p)
    BY <1>5, StepAt DEF Entering
  <2>2. Quiet(p) /\ Carries(me, m) /\ m.todo = rest
    BY <2>1, ReadRootQuiet, ReadBlockQuiet, WriteTableQuiet
  <2>3. Made(c, disk', process', me.ino)
    <3>1. SameMaps(disk, disk') /\ NoNew(disk, process, disk', process')
      BY <2>2 DEF Quiet
    <3>2. \A x : Made(c, disk, process, x) => Made(c, disk', process', x)
      BY <1>1, <3>1, QuietImage
    <3> QED
      BY <1>2, <3>2
  <2> QED
    BY <1>2, <1>5, <2>2, <2>3 DEF Went, Stage, Making, Quiet, Carries
<1> QED
  BY <1>3, <1>4, <1>5

\* The inode is emptied in memory.
Truncate(p) == ReadInode(p) /\ At(p, "read inode to truncate")

LEMMA TruncateFrees ==
  ASSUME Types, NEW p \in Processes, Truncate(p), NEW c,
         Undone(c, disk, process, process[p].ino, process[p].old)
  PROVE  LET m == process'[p]
         IN  /\ m.todo \in {Rest(p), FreeBlock \o Rest(p)} /\ Current(disk', m)
             /\ m.todo # <<>> =>
                  /\ m.cmd = process[p].cmd /\ m.name = process[p].name /\ m.ino = process[p].ino
                  /\ Undone(c, disk', process', m.ino, m.old)
<1> DEFINE me == process[p]
           rest == Rest(p)
           in == disk.table[me.ino]
           list == (IF in.blk = NilBlock THEN <<>> ELSE FreeBlock) \o rest
           n == [me EXCEPT !.in = NoInode, !.at = me.ino, !.old = in.blk]
<1>1. /\ me \in Memory /\ Control(me) /\ Now(me) = "read inode to truncate" /\ disk \in Image
      /\ Chain(rest) /\ rest \in Seq(Steps)
      /\ rest # <<>> => Follows("read inode to truncate", Head(rest))
  BY AtStep DEF Truncate, Types
<1>2. me.ino \in Inodes \ {RootIno}
  BY DEF Undone
<1>3. in \in Inode /\ Version(disk, process, me.ino, in)
  BY <1>1, <1>2 DEF Image, Version
<1> HIDE DEF in
<1>4. /\ n \in Memory /\ n.cmd = me.cmd /\ n.name = me.name /\ n.ino = me.ino /\ n.at = me.ino
      /\ n.in = NoInode /\ n.old = in.blk
  BY <1>1, <1>2, <1>3, IdleReady DEF Memory, Inode
<1>5. Continue(p, n, list) /\ disk' = disk
  <2>1. [[[me EXCEPT !.in = disk.table[me.ino], !.at = me.ino] EXCEPT !.in = NoInode,
           !.old = disk.table[me.ino].blk] EXCEPT !.todo = list] = [n EXCEPT !.todo = list]
    BY <1>1 DEF Memory, in
  <2>2. /\ Continue(p, [[me EXCEPT !.in = disk.table[me.ino], !.at = me.ino] EXCEPT
                          !.in = NoInode, !.old = disk.table[me.ino].blk], list)
        /\ disk' = disk
    BY DEF Truncate, ReadInode, ReadOnly, At, in
  <2> QED
    BY <2>1, <2>2 DEF Continue
<1>6. /\ list \in {rest, FreeBlock \o rest} /\ list \in Seq(Steps)
      /\ list # <<>> => Head(list) \in {"test block", "table"}
  <2>1. rest # <<>> => Head(rest) = "table" /\ Follows("drop block", Head(rest))
    BY <1>1 DEF Follows
  <2>2. FreeBlock \o rest \in Seq(Steps) /\ Head(FreeBlock \o rest) = "test block"
    BY <1>1, <2>1, Parts, Before
  <2>3. list = rest \/ list = FreeBlock \o rest
    BY <1>1, ConcatEmptySeq
  <2> QED
    BY <1>1, <2>1, <2>2, <2>3
<1> HIDE DEF list, n
<1>7. list # <<>> => Head(list) \notin Unread /\ Head(list) # "write inode"
  BY <1>6 DEF Unread
<1>8. \A i \in Inodes : Version(disk, process, i, disk'.table[i])
  BY <1>5 DEF Version
<1>9. /\ OneNew(disk, process, disk', process', me.ino, NoInode)
      /\ Left(process'[p], n, list) /\ Current(disk', process'[p])
  BY <1>4, <1>5, <1>6, <1>7, <1>8, NewContinue
<1>10. Undone(c, disk', process', me.ino, in.blk)
  <2>1. SameBut(c, disk', process', me.ino)
    BY <1>5, <1>9 DEF Undone, SameBut, OneNew
  <2>2. ASSUME NEW v, Version(disk', process', me.ino, v) PROVE v \in {c.table[me.ino], NoInode}
    BY <1>2, <1>9, <2>2 DEF Undone, OneNew
  <2>3. in.blk \in {NilBlock, c.table[me.ino].blk}
    BY <1>3 DEF Undone, NoInode
  <2> QED
    BY <1>5, <2>1, <2>2, <2>3 DEF Undone
<1> QED
  BY <1>4, <1>6, <1>9, <1>10 DEF Left

\* A bit is cleared.
LEMMA DropBitFrees ==
  ASSUME Types, NEW p \in Processes, DropBit(p), Current(disk, process[p]), NEW c,
         Undone(c, disk, process, process[p].ino, process[p].old)
  PROVE  LET m == process'[p]
         IN  /\ m.todo = Rest(p) /\ Current(disk', m)
             /\ m.todo # <<>> =>
                  /\ m.cmd = process[p].cmd /\ m.name = process[p].name /\ m.ino = process[p].ino
                  /\ Undone(c, disk', process', m.ino, m.old)
<1> DEFINE me == process[p]
           rest == Rest(p)
<1>1. PICK step \in {"drop block", "drop inode"} :
        /\ At(p, step) /\ Continue(p, me, rest)
        /\ step = "drop block" => disk' = [disk EXCEPT !.bmap = me.buf.bmap \ {me.old}]
        /\ step = "drop inode" => disk' = [disk EXCEPT !.imap = me.buf.imap \ {me.ino}]
  BY DEF DropBit, Write
<1>2. /\ me \in Memory /\ me.todo # <<>> /\ Now(me) = step /\ disk \in Image /\ rest \in Seq(Steps)
      /\ rest # <<>> => Follows(step, Head(rest))
  BY <1>1, AtStep DEF At, Types
<1>3. /\ disk'.table = disk.table /\ disk'.dir = disk.dir
      /\ disk.imap \ {me.ino} \subseteq disk'.imap /\ disk.bmap \ {me.old} \subseteq disk'.bmap
  <2>1. CASE step = "drop block"
    BY <1>1, <1>2, <2>1 DEF Current, Fresh, Image
  <2>2. CASE step = "drop inode"
    BY <1>1, <1>2, <2>2 DEF Current, Fresh, Image
  <2> QED
    BY <1>1, <2>1, <2>2
<1>4. \A i \in Inodes : Version(disk, process, i, disk'.table[i])
  BY <1>3 DEF Version
<1>5. Version(disk, process, me.at, me.in)
  BY <1>2, OwnVersion
<1>6. rest # <<>> => Head(rest) \notin Unread /\ Head(rest) # "write inode"
  BY <1>1, <1>2, UnreadNext
<1>7. /\ OneNew(disk, process, disk', process', 0, NoInode)
      /\ Left(process'[p], me, rest) /\ Current(disk', process'[p])
  BY <1>1, <1>2, <1>4, <1>5, <1>6, NewContinue
<1>8. NoNew(disk, process, disk', process')
  BY <1>7, Numbers DEF OneNew, NoNew
<1>9. Undone(c, disk', process', me.ino, me.old)
  <2>1. SameBut(c, disk', process', me.ino)
    BY <1>3, <1>8 DEF Undone, SameBut, NoNew
  <2>2. \A v : Version(disk', process', me.ino, v) => v \in {c.table[me.ino], NoInode}
    BY <1>8 DEF Undone, NoNew
  <2>3. c.imap \ {me.ino} \subseteq disk'.imap
    BY <1>3 DEF Undone
  <2>4. c.bmap \ {c.table[me.ino].blk} \subseteq disk'.bmap
    <3>1. c.bmap \ {c.table[me.ino].blk} \subseteq disk.bmap /\ NilBlock \notin disk.bmap
      BY <1>2, Numbers DEF Undone, Image, NilBlock
    <3> QED
      BY <1>3, <3>1 DEF Undone
  <2> QED
    BY <2>1, <2>2, <2>3, <2>4 DEF Undone
<1> QED
  BY <1>7, <1>9 DEF Left

\* The name is removed.
RemoveName(p) == ChangeName(p) /\ At(p, "remove name")

LEMMA RemoveNameKeeps ==
  ASSUME Types, NEW p \in Processes, RemoveName(p),
         NEW c \in Image, Sound(c), Current(disk, process[p]),
         First(c, process[p].name, process[p].ino),
         Undone(c, disk, process, process[p].ino, process[p].old)
  PROVE  /\ AnyMix(disk', process') /\ Current(disk', process'[p])
         /\ process'[p].todo = Rest(p)
         /\ process'[p].todo # <<>> => process'[p].cmd = process[p].cmd
<1> DEFINE me == process[p]
           rest == Rest(p)
           found == EntriesOf(me.buf.dir, me.in.size, me.name)
           f == Min(found)
<1>1. /\ me \in Memory /\ Control(me) /\ Now(me) = "remove name" /\ rest \in Seq(Steps)
      /\ me.todo # <<>> /\ disk \in Image
      /\ rest # <<>> => Follows("remove name", Head(rest))
  BY AtStep DEF RemoveName, At, Types
<1>2. me.at = RootIno /\ me.buf.dir = disk.dir
  BY <1>1 DEF Control, Current, Fresh
<1>3. SameBut(c, disk, process, me.ino) /\ me.ino # RootIno
  BY DEF Undone
<1>4. me.in = c.table[RootIno] /\ disk.dir = c.dir
  <2>1. Version(disk, process, RootIno, me.in)
    BY <1>1, <1>2, OwnVersion
  <2> QED
    BY <1>3, <2>1, Numbers DEF SameBut
<1>5. found # {} /\ me.ino = c.dir[f].ino
  BY <1>2, <1>4 DEF First
<1>6. f \in Files(c)
  <2>1. /\ found \subseteq Slots
        /\ \A k \in found : k < c.table[RootIno].size /\ c.dir[k].name = me.name
    BY <1>2, <1>4 DEF EntriesOf
  <2>2. f \in found
    BY <1>5, <2>1, Numbers, MinProperty
  <2>3. c.dir[f].name # "none"
    BY <1>1, <2>1, <2>2, Numbers DEF Control
  <2> QED
    BY <2>1, <2>2, <2>3 DEF Files, NoEntry
<1>7. disk' = [disk EXCEPT !.dir = [me.buf.dir EXCEPT ![f] = NoEntry]] /\ Continue(p, me, rest)
  BY <1>5 DEF RemoveName, ChangeName, Write, At
<1> HIDE DEF f
<1>8. /\ disk'.dir = [c.dir EXCEPT ![f] = NoEntry]
      /\ disk'.table = disk.table /\ disk'.imap = disk.imap /\ disk'.bmap = disk.bmap
  BY <1>1, <1>2, <1>4, <1>7 DEF Image
<1>9. \A i \in Inodes : Version(disk, process, i, disk'.table[i])
  BY <1>8 DEF Version
<1>10. Version(disk, process, me.at, me.in)
  BY <1>1, OwnVersion
<1>11. rest # <<>> => Head(rest) \notin Unread /\ Head(rest) # "write inode"
  BY <1>1, UnreadNext
<1>12. /\ OneNew(disk, process, disk', process', 0, NoInode)
       /\ Left(process'[p], me, rest) /\ Current(disk', process'[p])
  BY <1>1, <1>7, <1>9, <1>10, <1>11, NewContinue
<1>13. NoNew(disk, process, disk', process')
  BY <1>12, Numbers DEF OneNew, NoNew
<1>14. AnyMix(disk', process')
  BY <1>5, <1>6, <1>8, <1>13, RemovedMixes DEF f
<1> QED
  BY <1>12, <1>14 DEF Left

LEMMA FreeingStep ==
  ASSUME Types, NEW p \in Processes, Step(p), NEW c \in Image, Sound(c),
         Stage(c, disk, process, process[p]), Freeing(c, disk, process, process[p])
  PROVE  Went(c, disk', process', process'[p])
<1> DEFINE me == process[p]
           m == process'[p]
           rest == Rest(p)
           skip == SubSeq(rest, 3, Len(rest))
<1>1. /\ me \in Memory /\ Control(me) /\ me.todo # <<>> /\ At(p, Now(me))
      /\ me.todo \in Seq(Steps) /\ Chain(rest) /\ rest \in Seq(Steps) /\ disk \in Image
      /\ rest # <<>> => Follows(Now(me), Head(rest))
  BY StepFacts
<1>2. /\ me.cmd # "readf" /\ Current(disk, me) /\ First(c, me.name, me.ino)
      /\ Undone(c, disk, process, me.ino, me.old) /\ ToRemove(me.todo)
  BY DEF Stage, Freeing
<1>3. \/ Now(me) = "remove name" /\ OnlyIn(rest, Storing)
      \/ Now(me) \in Removing /\ ToRemove(rest)
  BY <1>1, <1>2, RestUntil DEF ToRemove, Now, Rest
<1>4. CASE Now(me) = "remove name" /\ OnlyIn(rest, Storing)
  <2>1. RemoveName(p)
    BY <1>1, <1>4, StepAt DEF RemoveName
  <2>2. /\ AnyMix(disk', process') /\ Current(disk', m) /\ m.todo = rest
        /\ m.todo # <<>> => m.cmd = me.cmd
    BY <1>2, <2>1, RemoveNameKeeps
  <2> QED
    BY <1>2, <1>4, <2>2 DEF Went, Stage, Keeping
<1>5. ASSUME m.todo # <<>> => m.cmd = me.cmd /\ m.name = me.name /\ m.ino = me.ino,
             ToRemove(m.todo), Current(disk', m),
             m.todo # <<>> => Undone(c, disk', process', m.ino, m.old)
      PROVE  Went(c, disk', process', m)
  <2>1. m.todo # <<>>
    BY <1>5, NotDone
  <2> QED
    BY <1>2, <1>5, <2>1 DEF Went, Stage, Freeing
<1>6. ASSUME Quiet(p), Carries(me, m), ToRemove(m.todo)
      PROVE  Went(c, disk', process', m)
  <2>1. SameMaps(disk, disk') /\ NoNew(disk, process, disk', process') /\ Current(disk', m)
    BY <1>6 DEF Quiet
  <2>2. \A x, old : Undone(c, disk, process, x, old) => Undone(c, disk', process', x, old)
    BY <1>1, <2>1, QuietImage
  <2>3. m.todo # <<>> => m.cmd = me.cmd /\ m.name = me.name /\ m.ino = me.ino /\ m.old = me.old
    BY <1>6 DEF Carries
  <2> QED
    BY <1>2, <1>5, <1>6, <2>1, <2>2, <2>3
<1>7. CASE Now(me) \in Removing /\ ToRemove(rest)
  <2>1. CASE ReadRoot(p) \/ ReadBlock(p) \/ WriteTable(p)
    <3>1. Quiet(p) /\ Carries(me, m) /\ m.todo = rest
      BY <2>1, ReadRootQuiet, ReadBlockQuiet, WriteTableQuiet
    <3> QED
      BY <1>6, <1>7, <3>1
  <2>2. CASE TestBit(p)
    <3>1. Quiet(p) /\ Carries(me, m) /\ m.todo \in {rest, skip}
      BY <2>2, TestBitQuiet
    <3>2. Now(me) \in {"test block", "test inode"}
      BY <2>2 DEF TestBit, At, Now
    <3>3. \A i \in 1 .. Len(rest) : i <= 2 => rest[i] # "remove name"
      <4>1. Len(rest) \in Nat /\ (Len(rest) >= 1 => rest # <<>>)
        BY <1>1, NotEmpty, LenProperties
      <4>2. rest # <<>> => rest[1] \in {"bmap", "imap"}
        BY <1>1, <3>2, HeadFirst DEF Follows
      <4>3. Len(rest) >= 2 => Follows(rest[1], rest[1 + 1])
        BY <1>1, <4>1 DEF Chain
      <4>4. \A t : Follows("bmap", t) \/ Follows("imap", t) => t # "remove name"
        BY DEF Follows
      <4>5. Len(rest) >= 2 => rest[2] # "remove name"
        <5>1. Len(rest) >= 2 => rest # <<>> /\ Follows(rest[1], rest[2])
          BY <4>1, <4>3
        <5> QED
          BY <4>2, <4>4, <5>1
      <4>6. rest # <<>> => rest[1] # "remove name"
        BY <4>2
      <4> HIDE DEF rest
      <4>7. ASSUME NEW i \in 1 .. Len(rest), i <= 2
            PROVE  Len(rest) >= 1 /\ (i = 1 \/ (i = 2 /\ Len(rest) >= 2))
        BY <4>1, <4>7
      <4> QED
        BY <4>1, <4>5, <4>6, <4>7
    <3>4. ToRemove(skip)
      BY <1>1, <1>7, <3>3, SkipUntil DEF ToRemove
    <3> QED
      BY <1>6, <1>7, <3>1, <3>4
  <2>3. CASE DropBit(p)
    <3>1. /\ m.todo = rest /\ Current(disk', m)
          /\ m.todo # <<>> =>
               /\ m.cmd = me.cmd /\ m.name = me.name /\ m.ino = me.ino
               /\ Undone(c, disk', process', m.ino, m.old)
      BY <1>2, <2>3, DropBitFrees
    <3> QED
      BY <1>5, <1>7, <3>1
  <2>4. CASE Truncate(p)
    <3>1. /\ m.todo \in {rest, FreeBlock \o rest} /\ Current(disk', m)
          /\ m.todo # <<>> =>
               /\ m.cmd = me.cmd /\ m.name = me.name /\ m.ino = me.ino
               /\ Undone(c, disk', process', m.ino, m.old)
      BY <1>2, <2>4, TruncateFrees
    <3>2. FreeBlock \in Seq(Steps)
      BY Parts DEF FromTo, Chain
    <3>3. ToRemove(FreeBlock \o rest)
      BY <1>1, <1>7, <3>2, Contents, JoinedUntil DEF ToRemove
    <3> QED
      BY <1>5, <1>7, <3>1, <3>3
  <2>5. \/ ReadRoot(p) \/ ReadBlock(p) \/ WriteTable(p) \/ TestBit(p) \/ DropBit(p)
        \/ Truncate(p)
    BY <1>1, <1>7, StepAt DEF Removing, Truncate
  <2> QED
    BY <2>1, <2>2, <2>3, <2>4, <2>5
<1> QED
  BY <1>3, <1>4, <1>7

\* A block is taken.
LEMMA TakeBlockKeeps ==
  ASSUME Types, NEW p \in Processes, TakeBlock(p), Current(disk, process[p]),
         AnyMix(disk, process)
  PROVE  /\ AnyMix(disk', process') /\ Current(disk', process'[p])
         /\ process'[p].todo \in {<<>>, Rest(p)}
         /\ process'[p].todo # <<>> => process'[p].cmd = process[p].cmd
<1> DEFINE me == process[p]
           rest == Rest(p)
           free == Blocks \ me.buf.bmap
           x == Min(free)
           u == [me.in EXCEPT !.blk = x]
           n == [me EXCEPT !.in = u]
<1>1. /\ me \in Memory /\ Control(me) /\ Now(me) = "take block" /\ rest \in Seq(Steps)
      /\ me.todo # <<>> /\ disk \in Image
      /\ rest # <<>> => Follows("take block", Head(rest))
  BY AtStep DEF TakeBlock, At, Types
<1>2. me.at # RootIno /\ me.buf.bmap = disk.bmap
  BY <1>1 DEF Control, Current, Fresh
<1>3. CASE free = {}
  <2>1. Fail(p)
    BY <1>3 DEF TakeBlock
  <2>2. Quiet(p) /\ process'[p].todo = <<>>
    BY <2>1, FailQuiet
  <2> QED
    BY <1>1, <2>2, FewerMixes DEF Quiet
<1>4. CASE free # {}
  <2>1. disk' = [disk EXCEPT !.bmap = me.buf.bmap \cup {x}] /\ Continue(p, n, rest)
    BY <1>4 DEF TakeBlock, Write
  <2>2. x \in Blocks \ disk.bmap /\ x # NilBlock
    <3>1. free \subseteq Nat
      BY Numbers
    <3>2. Min(free) \in free
      BY <1>4, <3>1, MinProperty
    <3> QED
      BY <1>2, <3>2, Numbers DEF NilBlock
  <2>3. /\ disk'.bmap = disk.bmap \cup {x} /\ disk'.imap = disk.imap /\ disk'.dir = disk.dir
        /\ disk'.table = disk.table
    BY <1>1, <1>2, <2>1 DEF Image
  <2> HIDE DEF x
  <2>4. u \in Inode /\ u.blk = x
    BY <1>1, <2>2 DEF Memory, Inode
  <2> HIDE DEF u
  <2>5. n \in Memory /\ n.cmd = me.cmd /\ n.at = me.at /\ n.in = u
    BY <1>1, <2>4 DEF Memory
  <2> HIDE DEF n
  <2>6. \A i \in Inodes : Version(disk, process, i, disk'.table[i])
    BY <2>3 DEF Version
  <2>7. rest # <<>> => Head(rest) \notin Unread /\ Head(rest) # "write inode"
    BY <1>1, UnreadNext
  <2>8. /\ OneNew(disk, process, disk', process', me.at, u)
        /\ Left(process'[p], n, rest) /\ Current(disk', process'[p])
    BY <1>1, <2>1, <2>5, <2>6, <2>7, NewContinue
  <2>9. u.blk \in disk'.bmap \ (disk.bmap \cup {NilBlock})
    BY <2>2, <2>3, <2>4
  <2>10. AnyMix(disk', process')
    BY <1>1, <1>2, <2>3, <2>8, <2>9, StoredMixes
  <2> QED
    BY <2>5, <2>8, <2>10 DEF Left
<1> QED
  BY <1>3, <1>4

\* A file is written.
Store(p) == WriteData(p) /\ At(p, "write data")

LEMMA StoreKeeps ==
  ASSUME Types, NEW p \in Processes, Store(p), AnyMix(disk, process)
  PROVE  /\ AnyMix(disk', process') /\ Current(disk', process'[p])
         /\ process'[p].todo = Rest(p)
         /\ process'[p].todo # <<>> => process'[p].cmd = process[p].cmd
<1> DEFINE me == process[p]
           rest == Rest(p)
           u == [me.in EXCEPT !.size = 1]
           n == [me EXCEPT !.in = u]
<1>1. /\ me \in Memory /\ Control(me) /\ Now(me) = "write data" /\ rest \in Seq(Steps)
      /\ me.todo # <<>> /\ disk \in Image
      /\ rest # <<>> => Follows("write data", Head(rest))
  BY AtStep DEF Store, At, Types
<1>2. me.at # RootIno
  BY <1>1 DEF Control
<1>3. disk' = [disk EXCEPT !.data[me.in.blk] = me.name] /\ Continue(p, n, rest)
  BY DEF Store, WriteData, Write, At
<1>4. /\ disk'.bmap = disk.bmap /\ disk'.imap = disk.imap /\ disk'.dir = disk.dir
      /\ disk'.table = disk.table
  BY <1>1, <1>3 DEF Image
<1>5. u \in Inode /\ u.blk = me.in.blk
  BY <1>1 DEF Memory, Inode
<1> HIDE DEF u
<1>6. n \in Memory /\ n.cmd = me.cmd /\ n.at = me.at /\ n.in = u
  BY <1>1, <1>5 DEF Memory
<1> HIDE DEF n
<1>7. \A i \in Inodes : Version(disk, process, i, disk'.table[i])
  BY <1>4 DEF Version
<1>8. rest # <<>> => Head(rest) \notin Unread /\ Head(rest) # "write inode"
  BY <1>1, UnreadNext
<1>9. /\ OneNew(disk, process, disk', process', me.at, u)
      /\ Left(process'[p], n, rest) /\ Current(disk', process'[p])
  BY <1>1, <1>3, <1>6, <1>7, <1>8, NewContinue
<1>10. Version(disk, process, me.at, me.in)
  BY <1>1, OwnVersion
<1>11. AnyMix(disk', process')
  BY <1>1, <1>2, <1>4, <1>5, <1>9, <1>10, StoredMixes
<1> QED
  BY <1>6, <1>9, <1>11 DEF Left

LEMMA KeepingStep ==
  ASSUME Types, NEW p \in Processes, Step(p), NEW c,
         Stage(c, disk, process, process[p]), Keeping(disk, process, process[p])
  PROVE  Went(c, disk', process', process'[p])
<1> DEFINE me == process[p]
           m == process'[p]
           rest == Rest(p)
<1>1. /\ me \in Memory /\ Control(me) /\ me.todo # <<>> /\ At(p, Now(me))
      /\ me.todo \in Seq(Steps) /\ rest \in Seq(Steps) /\ disk \in Image
  BY StepFacts
<1>2. /\ me.cmd # "readf" /\ Current(disk, me) /\ AnyMix(disk, process) /\ OnlyIn(me.todo, Storing)
  BY DEF Stage, Keeping
<1>3. Now(me) \in Storing /\ OnlyIn(rest, Storing)
  BY <1>1, <1>2, RestOnly DEF Now, Rest
<1>4. ASSUME AnyMix(disk', process'), Current(disk', m), m.todo # <<>> => m.cmd = me.cmd,
             OnlyIn(m.todo, Storing)
      PROVE  Went(c, disk', process', m)
  BY <1>2, <1>4 DEF Went, Stage, Keeping
<1>5. OnlyIn(<<>>, Storing)
  BY DEF OnlyIn
<1>6. CASE ReadBlock(p) \/ WriteTable(p) \/ (WriteData(p) /\ At(p, "clear block"))
  <2>1. Quiet(p) /\ Carries(me, m) /\ m.todo = rest
    BY <1>6, ReadBlockQuiet, WriteTableQuiet, ClearBlockQuiet
  <2> QED
    BY <1>1, <1>2, <1>3, <1>4, <2>1, FewerMixes DEF Quiet, Carries
<1>7. CASE ReadInode(p) /\ At(p, "read inode to write")
  <2>1. ~ At(p, "read inode to truncate")
    BY <1>7 DEF At
  <2>2. Quiet(p) /\ Carries(me, m) /\ m.todo \in {rest, AllocBlock \o rest}
    BY <1>7, <2>1, ReadInodeQuiet
  <2>3. AllocBlock \in Seq(Steps)
    BY Parts DEF FromTo, Chain
  <2>4. OnlyIn(AllocBlock \o rest, Storing)
    BY <1>1, <1>3, <2>3, Contents, JoinedOnly
  <2> QED
    BY <1>1, <1>2, <1>3, <1>4, <2>2, <2>4, FewerMixes DEF Quiet, Carries
<1>8. CASE TakeBlock(p)
  <2>1. /\ AnyMix(disk', process') /\ Current(disk', m) /\ m.todo \in {<<>>, rest}
        /\ m.todo # <<>> => m.cmd = me.cmd
    BY <1>2, <1>8, TakeBlockKeeps
  <2> QED
    BY <1>3, <1>4, <1>5, <2>1
<1>9. CASE Store(p)
  <2>1. /\ AnyMix(disk', process') /\ Current(disk', m) /\ m.todo = rest
        /\ m.todo # <<>> => m.cmd = me.cmd
    BY <1>2, <1>9, StoreKeeps
  <2> QED
    BY <1>3, <1>4, <2>1
<1>10. \/ ReadBlock(p) \/ WriteTable(p) \/ (WriteData(p) /\ At(p, "clear block"))
       \/ (ReadInode(p) /\ At(p, "read inode to write")) \/ TakeBlock(p) \/ Store(p)
  BY <1>1, <1>3, StepAt DEF Storing, Store
<1> QED
  BY <1>6, <1>7, <1>8, <1>9, <1>10

\* A step of the command that changes something.
LEMMA WriterStep ==
  ASSUME Types, NEW p \in Processes, Step(p), NEW c \in Image, Sound(c), Cleared(c),
         Stage(c, disk, process, process[p])
  PROVE  Went(c, disk', process', process'[p])
<1>1. \/ Early(c, disk, process, process[p]) \/ Making(c, disk, process, process[p])
      \/ Freeing(c, disk, process, process[p]) \/ Keeping(disk, process, process[p])
  BY DEF Stage
<1> QED
  BY <1>1, EarlyStep, MakingStep, FreeingStep, KeepingStep

-----------------------------------------------------------------------------
(* Commands that only read.                                                  *)

Reads(m) == m.todo # <<>> => m.cmd = "readf" /\ OnlyIn(m.todo, Reading)

LEMMA ReaderStep ==
  ASSUME Types, NEW p \in Processes, Step(p), Reads(process[p])
  PROVE  Quiet(p) /\ Reads(process'[p])
<1> DEFINE me == process[p]
           m == process'[p]
           rest == Rest(p)
<1>1. /\ me.todo # <<>> /\ me.todo \in Seq(Steps) /\ Control(me)
  BY StepFacts
<1>2. me.cmd = "readf" /\ OnlyIn(me.todo, Reading)
  BY <1>1 DEF Reads
<1>3. Now(me) \in Reading /\ OnlyIn(rest, Reading)
  BY <1>1, <1>2, RestOnly DEF Now, Rest
<1>4. OnlyIn(<<>>, Reading)
  BY DEF OnlyIn
<1>5. CASE ReadRoot(p) \/ ReadBlock(p) \/ WriteTable(p)
  <2>1. Quiet(p) /\ Carries(me, m) /\ m.todo = rest
    BY <1>5, ReadRootQuiet, ReadBlockQuiet, WriteTableQuiet
  <2> QED
    BY <1>2, <1>3, <2>1 DEF Carries, Reads
<1>6. CASE LookUp(p)
  <2>1. /\ Quiet(p) /\ (m.todo # <<>> => m.cmd = me.cmd)
        /\ m.todo = Missing[me.cmd] \/ m.todo = Found[me.cmd]
    BY <1>6, LookUpQuiet
  <2>2. Missing[me.cmd] = <<>> /\ Found[me.cmd] = ReadFile
    BY <1>2 DEF Missing, Found
  <2> QED
    BY <1>2, <1>4, <2>1, <2>2, Contents DEF Reads
<1>7. CASE At(p, "read inode to read") /\ ReadInode(p)
  <2>1. ~ At(p, "read inode to truncate")
    BY <1>7 DEF At
  <2>2. Quiet(p) /\ Carries(me, m) /\ m.todo \in {<<>>, rest}
    BY <1>7, <2>1, ReadInodeQuiet
  <2> QED
    BY <1>2, <1>3, <1>4, <2>2 DEF Carries, Reads
<1>8. \/ ReadRoot(p) \/ LookUp(p) \/ ReadBlock(p) \/ WriteTable(p)
      \/ At(p, "read inode to read") /\ ReadInode(p)
  BY <1>1, <1>3, StepAt DEF Reading, At, Now
<1> QED
  BY <1>5, <1>6, <1>7, <1>8

-----------------------------------------------------------------------------
(* Commands that overlap when one of them at most changes something.         *)

Goes(p) == \E me, rest : Continue(p, me, rest)

\* A step of one process leaves the others as they are.
LEMMA OthersStay ==
  ASSUME Types, NEW p \in Processes, Goes(p)
  PROVE  \A q \in Processes \ {p} : process'[q] = process[q]
BY DEF Goes, Continue, Types

LEMMA StepGoes ==
  ASSUME NEW p \in Processes, Step(p)
  PROVE  Goes(p)
<1> DEFINE me == process[p]
<1>1. CASE ReadRoot(p)
  BY <1>1 DEF ReadRoot, ReadOnly, Goes
<1>2. CASE LookUp(p)
  BY <1>2 DEF LookUp, ReadOnly, Goes
<1>3. CASE ReadInode(p)
  BY <1>3 DEF ReadInode, ReadOnly, Goes
<1>4. CASE ReadBlock(p)
  BY <1>4 DEF ReadBlock, ReadOnly, Goes
<1>5. CASE WriteTable(p)
  BY <1>5 DEF WriteTable, Write, Goes
<1>6. CASE WriteData(p)
  BY <1>6 DEF WriteData, Write, Goes
<1>7. CASE TakeInode(p)
  BY <1>7 DEF TakeInode, Write, Fail, ReadOnly, Goes
<1>8. CASE TakeBlock(p)
  BY <1>8 DEF TakeBlock, Write, Fail, ReadOnly, Goes
<1>9. CASE TestBit(p)
  BY <1>9 DEF TestBit, ReadOnly, Goes
<1>10. CASE DropBit(p)
  BY <1>10 DEF DropBit, Write, Goes
<1>11. CASE ChangeName(p)
  BY <1>11 DEF ChangeName, Write, Fail, ReadOnly, Goes
<1> QED
  BY <1>1, <1>2, <1>3, <1>4, <1>5, <1>6, <1>7, <1>8, <1>9, <1>10, <1>11 DEF Step

\* Before the command that changes something, while it runs, and after it.
AllRead(ps) == \A q \in Processes : Reads(ps[q])
Writing(c, im, ps, w) ==
  /\ ps[w].todo # <<>> /\ Stage(c, im, ps, ps[w])
  /\ \A q \in Processes \ {w} : Reads(ps[q])
Held(c, im, ps, changed) ==
  \/ ~ changed /\ AsBefore(c, im, ps) /\ AllRead(ps)
  \/ changed /\ AnyMix(im, ps) /\ AllRead(ps)
  \/ changed /\ \E w \in Processes : Writing(c, im, ps, w)

\* A quiet step of a process that only reads, its first one too.
LEMMA QuietHeld ==
  ASSUME Types, NEW p \in Processes, Quiet(p), Goes(p), Reads(process[p]), Reads(process'[p]),
         NEW c, NEW changed \in BOOLEAN, Held(c, disk, process, changed)
  PROVE  Held(c, disk', process', changed)
<1>1. disk \in Image /\ SameMaps(disk, disk') /\ NoNew(disk, process, disk', process')
  BY DEF Types, Quiet
<1>2. \A q \in Processes \ {p} : process'[q] = process[q]
  BY OthersStay
<1>3. AllRead(process) => AllRead(process')
  BY <1>2 DEF AllRead
<1>4. AsBefore(c, disk, process) => AsBefore(c, disk', process')
  BY <1>1, QuietImage
<1>5. AnyMix(disk, process) => AnyMix(disk', process')
  BY <1>1, FewerMixes
<1>6. ASSUME NEW w \in Processes, Writing(c, disk, process, w)
      PROVE  Writing(c, disk', process', w)
  <2>1. w # p
    BY <1>6 DEF Writing, Stage, Reads
  <2>2. Stage(c, disk', process', process[w])
    BY <1>1, <1>6, StageKept DEF Writing
  <2> QED
    BY <1>2, <1>6, <2>1, <2>2 DEF Writing
<1> QED
  BY <1>3, <1>4, <1>5, <1>6 DEF Held

LEMMA StepHeld ==
  ASSUME Types, NEW p \in Processes, Step(p), NEW c \in Image, Sound(c), Cleared(c),
         NEW changed \in BOOLEAN, Held(c, disk, process, changed)
  PROVE  Held(c, disk', process', changed)
<1>1. Goes(p) /\ process[p].todo # <<>>
  BY StepGoes, StepFacts
<1>2. CASE Reads(process[p])
  BY <1>1, <1>2, ReaderStep, QuietHeld
<1>3. CASE ~ Reads(process[p])
  <2>1. changed /\ Writing(c, disk, process, p)
    BY <1>3 DEF Held, AllRead, Writing
  <2>2. Went(c, disk', process', process'[p])
    BY <2>1, WriterStep DEF Writing
  <2>3. \A q \in Processes \ {p} : Reads(process'[q])
    BY <1>1, <2>1, OthersStay DEF Writing
  <2>4. CASE process'[p].todo = <<>>
    <3>1. AnyMix(disk', process') /\ AllRead(process')
      BY <2>2, <2>3, <2>4 DEF Went, AllRead, Reads
    <3> QED
      BY <2>1, <3>1 DEF Held
  <2>5. CASE process'[p].todo # <<>>
    <3>1. Writing(c, disk', process', p)
      BY <2>2, <2>3, <2>5 DEF Went, Writing
    <3> QED
      BY <2>1, <3>1 DEF Held
  <2> QED
    BY <2>4, <2>5
<1> QED
  BY <1>2, <1>3

\* The first memory of a command.
LEMMA StartQuiet ==
  ASSUME Types, NEW p \in Processes, NEW cmd \in Commands, NEW name \in Targets,
         Start(p, cmd, name)
  PROVE  LET m == process'[p]
         IN  /\ Quiet(p) /\ Goes(p) /\ m.todo # <<>> /\ OnlyIn(m.todo, Reading)
             /\ Now(m) = "read root" /\ m.cmd = cmd /\ m.ino = 0 /\ m.old = NilBlock
<1> DEFINE n == [Idle EXCEPT !.cmd = cmd, !.name = name]
           list == <<"read root", "look up">>
           m == process'[p]
<1>1. Continue(p, n, list) /\ disk' = disk
  BY DEF Start
<1>2. Chain(list) /\ list # <<>> /\ Head(list) = "read root" /\ list \in Seq(Steps)
  BY Parts, HeadFirst DEF FromTo, Chain
<1>3. OnlyIn(list, Reading)
  BY Contents
<1> HIDE DEF list
<1>4. n \in Memory /\ n.cmd = cmd /\ n.ino = 0 /\ n.at = 0 /\ n.old = NilBlock
  <2>1. name \in Names
    BY Numbers
  <2> QED
    BY <2>1, IdleReady DEF Idle, Memory
<1> HIDE DEF n
<1>5. Head(list) \notin Unread /\ Head(list) # "write inode"
  BY <1>2 DEF Unread
<1>6. 0 \notin Inodes /\ SameMaps(disk, disk')
  BY <1>1, Numbers DEF SameMaps
<1>7. \A i \in Inodes : Version(disk, process, i, disk'.table[i])
  BY <1>1 DEF Version
<1>8. Quiet(p) /\ Carries(n, m) /\ m.todo = list
  BY <1>1, <1>2, <1>4, <1>5, <1>6, <1>7, FreshNext, QuietContinue
<1>9. Goes(p)
  BY <1>1 DEF Goes
<1> QED
  BY <1>2, <1>3, <1>4, <1>8, <1>9 DEF Carries, Now

\* A command that changes something, started while others read at most.
LEMMA WriterHeld ==
  ASSUME Types, NEW p \in Processes, NEW cmd \in Commands, NEW name \in Targets,
         Start(p, cmd, name), cmd # "readf", NEW c,
         AsBefore(c, disk, process), AllRead(process)
  PROVE  Held(c, disk', process', TRUE)
<1> DEFINE m == process'[p]
<1>1. /\ Quiet(p) /\ Goes(p) /\ m.todo # <<>>
      /\ Now(m) = "read root" /\ m.cmd = cmd /\ m.ino = 0 /\ m.old = NilBlock
  BY StartQuiet
<1>2. AsBefore(c, disk', process')
  BY <1>1, QuietImage DEF Types, Quiet
<1>3. Early(c, disk', process', m)
  BY <1>1, <1>2 DEF Early
<1>4. Stage(c, disk', process', m)
  BY <1>1, <1>3 DEF Stage, Quiet
<1>5. \A q \in Processes \ {p} : Reads(process'[q])
  BY <1>1, OthersStay DEF AllRead
<1> QED
  BY <1>1, <1>4, <1>5 DEF Held, Writing

\* Where no command runs, the image is as it is.
LEMMA CalmHeld ==
  ASSUME \A q \in Processes : process[q].todo = <<>>
  PROVE  AsBefore(disk, disk, process) /\ AllRead(process)
<1>1. \A i, v : Version(disk, process, i, v) => v = disk.table[i]
  BY DEF Version, Own
<1> QED
  BY <1>1 DEF AsBefore, SameBut, AllRead, Reads

\* Of the commands in a list, whether one changes something, and whether one at most does.
Changes(s) == \E k \in DOMAIN s : s[k][1] # "readf"
AloneIn(s) == \A j, k \in DOMAIN s : "readf" \notin {s[j][1], s[k][1]} => j = k

LEMMA OneMore ==
  ASSUME NEW S, NEW s \in Seq(S), NEW e \in S
  PROVE  /\ Changes(Append(s, e)) <=> Changes(s) \/ e[1] # "readf"
         /\ AloneIn(Append(s, e)) => AloneIn(s) /\ (e[1] # "readf" => ~ Changes(s))
         /\ Changes(<<e>>) <=> e[1] # "readf"
<1> DEFINE t == Append(s, e)
<1>1. /\ Len(s) \in Nat /\ DOMAIN s = 1 .. Len(s) /\ DOMAIN t = 1 .. Len(s) + 1
      /\ \A i \in 1 .. Len(s) : t[i] = s[i]
      /\ t[Len(s) + 1] = e
  BY AppendProperties, LenProperties
<1> HIDE DEF t
<1>2. /\ DOMAIN t = DOMAIN s \cup {Len(s) + 1} /\ Len(s) + 1 \notin DOMAIN s
      /\ \A i \in DOMAIN s : t[i] = s[i]
  BY <1>1
<1>3. Changes(t) <=> Changes(s) \/ e[1] # "readf"
  BY <1>1, <1>2 DEF Changes
<1>4. AloneIn(t) => AloneIn(s)
  BY <1>2 DEF AloneIn
<1>5. AloneIn(t) /\ e[1] # "readf" => ~ Changes(s)
  BY <1>1, <1>2 DEF AloneIn, Changes
<1>6. Changes(<<e>>) <=> e[1] # "readf"
  BY DEF Changes
<1> QED
  BY <1>3, <1>4, <1>5, <1>6 DEF t

OwnEpoch ==
  Sound(calm) /\ Cleared(calm) /\ AloneIn(since) => Held(calm, disk, process, Changes(since))

LEMMA StartOwns ==
  ASSUME Types, OwnEpoch, NEW p \in Processes, NEW cmd \in Commands, NEW name \in Targets,
         Start(p, cmd, name), Sound(calm'), Cleared(calm'), AloneIn(since')
  PROVE  Held(calm', disk', process', Changes(since'))
<1> DEFINE e == <<cmd, name>>
           m == process'[p]
<1>1. e \in Commands \X Targets /\ since \in Seq(Commands \X Targets) /\ e[1] = cmd
  BY DEF Types
<1> HIDE DEF e
<1>2. /\ Quiet(p) /\ Goes(p) /\ OnlyIn(m.todo, Reading) /\ m.cmd = cmd
  BY StartQuiet
<1>3. cmd = "readf" => Reads(process'[p])
  BY <1>2 DEF Reads
<1>4. process[p].todo = <<>> /\ Reads(process[p])
  BY DEF Start, Reads
<1>5. Changes(since) \in BOOLEAN
  BY DEF Changes
<1>6. CASE \A q \in Processes : process[q].todo = <<>>
  <2>1. calm' = disk /\ since' = <<e>>
    BY <1>6 DEF Start, e
  <2>2. Changes(since') <=> cmd # "readf"
    BY <1>1, <2>1, OneMore
  <2>3. AsBefore(disk, disk, process) /\ AllRead(process)
    BY <1>6, CalmHeld
  <2>4. CASE cmd = "readf"
    <3>1. Held(disk, disk, process, FALSE)
      BY <2>3 DEF Held
    <3>2. Held(disk, disk', process', FALSE)
      BY <1>2, <1>3, <1>4, <2>4, <3>1, QuietHeld
    <3> QED
      BY <2>1, <2>2, <2>4, <3>2 DEF Held
  <2>5. CASE cmd # "readf"
    <3>1. Held(disk, disk', process', TRUE)
      BY <2>3, <2>5, WriterHeld
    <3> QED
      BY <2>1, <2>2, <2>5, <3>1 DEF Held
  <2> QED
    BY <2>4, <2>5
<1>7. CASE ~ \A q \in Processes : process[q].todo = <<>>
  <2>1. calm' = calm /\ since' = Append(since, e)
    BY <1>7 DEF Start, e
  <2>2. /\ Changes(since') <=> Changes(since) \/ cmd # "readf"
        /\ AloneIn(since) /\ (cmd # "readf" => ~ Changes(since))
    BY <1>1, <2>1, OneMore
  <2>3. Held(calm, disk, process, Changes(since))
    BY <2>1, <2>2 DEF OwnEpoch
  <2>4. CASE cmd = "readf"
    <3>1. Held(calm, disk', process', Changes(since))
      BY <1>2, <1>3, <1>4, <1>5, <2>3, <2>4, QuietHeld
    <3> QED
      BY <2>1, <2>2, <2>4, <3>1 DEF Held
  <2>5. CASE cmd # "readf"
    <3>1. AsBefore(calm, disk, process) /\ AllRead(process)
      BY <2>2, <2>3, <2>5 DEF Held
    <3>2. Held(calm, disk', process', TRUE)
      BY <2>5, <3>1, WriterHeld
    <3> QED
      BY <2>1, <2>2, <2>5, <3>2 DEF Held
  <2> QED
    BY <2>4, <2>5
<1> QED
  BY <1>6, <1>7

LEMMA OwnsInit == Init => OwnEpoch
<1> SUFFICES ASSUME Init PROVE Held(calm, disk, process, Changes(since))
  BY DEF OwnEpoch
<1>1. /\ calm = disk /\ since = <<>>
      /\ \A q \in Processes : process[q].todo = <<>>
  BY DEF Init, Idle
<1>2. AsBefore(disk, disk, process) /\ AllRead(process)
  BY <1>1, CalmHeld
<1>3. ~ Changes(since)
  BY <1>1 DEF Changes
<1> QED
  BY <1>1, <1>2, <1>3 DEF Held

\* For every number of processes, commands, files, inodes and blocks: while one command
\* that changes something overlaps with any number of commands that only read, no two
\* owners of an inode or a block come about and none that is marked free, although each
\* reader puts back the inode, and the block of the inode table, that it read before.
THEOREM OneWriterOwnsHolds == Spec => []OneWriterOwns
<1>1. ASSUME Types, OwnEpoch, [Next]_vars PROVE OwnEpoch'
  <2> SUFFICES ASSUME Sound(calm'), Cleared(calm'), AloneIn(since')
               PROVE  Held(calm', disk', process', Changes(since'))
    BY DEF OwnEpoch, Sound, Cleared, Files, InodesNamed, BlocksNamed, AloneIn, Changes, Held,
           AsBefore, SameBut, AnyMix, AllRead, Reads, Writing, Stage
  <2>1. CASE UNCHANGED vars
    BY <1>1, <2>1 DEF vars, OwnEpoch
  <2>2. ASSUME NEW p \in Processes, NEW cmd \in Commands, NEW name \in Targets,
               Start(p, cmd, name)
        PROVE  Held(calm', disk', process', Changes(since'))
    BY <1>1, <2>2, StartOwns
  <2>3. ASSUME NEW p \in Processes, Step(p), UNCHANGED <<starts, calm, since>>
        PROVE  Held(calm', disk', process', Changes(since'))
    <3>1. calm' = calm /\ since' = since /\ calm \in Image
      BY <1>1, <2>3 DEF Types
    <3>2. Held(calm, disk, process, Changes(since)) /\ Changes(since) \in BOOLEAN
      BY <1>1, <3>1 DEF OwnEpoch, Changes
    <3>3. Held(calm, disk', process', Changes(since))
      BY <1>1, <2>3, <3>1, <3>2, StepHeld
    <3> QED
      BY <3>1, <3>3
  <2> QED
    BY <1>1, <2>1, <2>2, <2>3 DEF Next
<1>2. ASSUME Types, OwnEpoch PROVE OneWriterOwns
  <2> SUFFICES ASSUME \A p \in Processes : process[p].todo = <<>>,
                      Sound(calm), Cleared(calm), AloneIn(since)
               PROVE  Sound(disk)
    BY DEF OneWriterOwns, OneWriter, AloneIn
  <2>1. disk \in Image /\ calm \in Image /\ Held(calm, disk, process, Changes(since))
    BY <1>2 DEF Types, OwnEpoch
  <2>2. AnyMix(disk, process)
    BY <2>1, BeforeMixes DEF Held, Writing
  <2> QED
    BY <2>1, <2>2, MixSound
<1> QED
  BY TypesHold, OwnsInit, <1>1, <1>2, PTL DEF Spec
==============================================================================
