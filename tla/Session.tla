------------------------------- MODULE Session -------------------------------
(***************************************************************************)
(* Accounts and the login session of mini_ext2 (security.c): /.users holds *)
(* one line per account, /.session who is logged in.  Every command is a   *)
(* process that mounts, restores the session, does its work and exits; it  *)
(* can be killed in between.                                               *)
(*                                                                         *)
(* A file is its owner, mode, lines and blocks.  fs_write writes its data  *)
(* before it writes the inode with the new size, so each call of it shows  *)
(* at once as a line at the end of the file, or as nothing when it finds   *)
(* no block.                                                               *)
(*                                                                         *)
(* A line of /.users is written "name:pass:uid", with words that may have  *)
(* a ':' themselves, and read as parse_line splits it.  So a line is kept  *)
(* as what is read of it.  Words have no blank, they are not empty, and    *)
(* short enough for the line buffers of security.c.                        *)
(***************************************************************************)
EXTENDS CallContext, FiniteSets

CONSTANTS Names, Passwords,          \* the words that are entered
          Split,         \* the fields of a word, what is between the ':' in it
          Number,        \* what atoi makes of a field
          Long,          \* the fields with MAX_USER_LEN characters or more
          LongThird,     \* the texts after the second ':' with 16 or more
          Weight,        \* the room a field takes, with the character after it
          PerBlock,      \* the room in a block
          MaxFree,       \* bound on the free blocks
          Modes,         \* what chmod is called with
          MaxLines,      \* bound on the lines of /.users
          MaxUid,        \* bound on the uids in it
          MaxCuts        \* bound on the number of commands killed half way

Words == Names \cup Passwords
Plain(w) == Split[w] = <<w>>
Fields == UNION {ToSet(Split[w]) : w \in Words}

\* What parse_line reads of a line written with these fields, then the uid: all
\* after the second ':' is the third part, and its uid the number it begins with.
Line(fields, uid) ==
  LET words == SubSeq(fields, 3, Len(fields))
  IN  [name |-> fields[1], pass |-> fields[2],
       third |-> [words |-> words, number |-> uid],
       uid |-> IF words = <<>> THEN uid ELSE Number[words[1]]]
Account(name, pass, uid) == Line(<<name, pass>>, uid)

WordsWeight(words) == SumFunction([k \in DOMAIN words |-> Weight[words[k]]])
LineWeight(line) ==
  Weight[line.name] + (IF "pass" \in DOMAIN line
                       THEN Weight[line.pass] + WordsWeight(line.third.words) ELSE 0)

ASSUME InputAssumption ==
  /\ "root" \in Names \cap Passwords /\ Plain("root") /\ "root" \notin Long
  /\ \A w \in Words : Split[w] \in Seq(Fields) \ {<<>>} /\ (w \in Fields => Plain(w))
  /\ \A f \in Fields : Number[f] \in Nat /\ Weight[f] \in Nat \ {0}
  /\ \A t \in LongThird : t.words # <<>>
  /\ {MaxLines, MaxUid, MaxCuts} \subseteq Nat /\ MaxFree \in Nat \ {0} /\ PerBlock \in Nat
  /\ \A n \in Names, p \in Passwords : \A f \in {Split[n], <<Head(Split[n])>>} :
       LineWeight(Line(f \o Split[p], 0)) <= PerBlock

VARIABLES disk,          \* the two files, and the room on the device
          cuts,          \* number of commands killed so far
          spoiled,       \* a word of Long was entered, or a password was changed
                         \* with no block left (history)
          colons         \* a word with ':' was entered (history)
vars == <<disk, cuts, spoiled, colons>>

\* "held" are the blocks a file has, "free" those of the device, "room" tells
\* whether there is an inode and a slot in the root directory for one more.
NoFile == [exists |-> FALSE, uid |-> 0, mode |-> {}, lines |-> <<>>, held |-> 0]
NoFiles == [users |-> NoFile, session |-> NoFile, free |-> MaxFree, room |-> TRUE]

-----------------------------------------------------------------------------
(* Files, as fs_open, fs_write and write_inode show them. *)

Exists(c, f) == Cur(c)[f].exists
Lines(c, f) == Cur(c)[f].lines

\* fs_open for writing creates the file, owned by the user, if it is missing.
OpenW(c, f, uid) ==
  IF ~Exists(c, f)
  THEN IF Cur(c).room
       THEN DevWrite(c, [Cur(c) EXCEPT ![f] =
              [NoFile EXCEPT !.exists = TRUE, !.uid = uid, !.mode = DefaultMode]])
       ELSE Ret(c, FS_ENOSPC)
  ELSE Ret(c, IF perm_can_write(Cur(c)[f], uid) THEN FS_OK ELSE FS_EPERM)

OpenR(c, f, uid) ==
  Ret(c, IF ~Exists(c, f) THEN FS_ENOENT
         ELSE IF perm_can_read(Cur(c)[f], uid) THEN FS_OK ELSE FS_EPERM)

\* The size, not the blocks.
SetSizeZero(c, f) == DevWrite(c, [Cur(c) EXCEPT ![f].lines = <<>>])

SizeOf(lines) == SumFunction([k \in DOMAIN lines |-> LineWeight(lines[k])])
BlocksFor(lines) == (SizeOf(lines) + PerBlock - 1) \div PerBlock

\* fs_write at the end of the file: one more block at most.
AddLine(c, f, line) ==
  LET lines == Append(Lines(c, f), line)
      held == Max({Cur(c)[f].held, BlocksFor(lines)})
      free == Cur(c).free - (held - Cur(c)[f].held)
  IN  IF free < 0 THEN Ret(c, FS_ENOSPC)
      ELSE DevWrite(c, [Cur(c) EXCEPT ![f].lines = lines, ![f].held = held,
                                      !.free = free])

-----------------------------------------------------------------------------
(* security.c *)

Root == [name |-> "root", uid |-> 0]

\* parse_line refuses a line with a part too long.
Parses(line) ==
  line.name \notin Long /\ line.pass \notin Long /\ line.third \notin LongThird

\* Where the accounts are in a list.
Entries(lines) == {k \in DOMAIN lines : Parses(lines[k])}

\* Runs before the session is restored, that is, as root.
users_bootstrap(c) ==
  IF Exists(c, "users") THEN Ret(c, FS_OK)
  ELSE IfOk(OpenW(c, "users", 0),
            LAMBDA fd : AddLine(fd, "users", Account("root", "root", 0)))

\* Runs as root, too.  Anything wrong with the file means root.
session_load(c) ==
  IF ~Exists(c, "session") \/ Lines(c, "session") = <<>> THEN Root
  ELSE Head(Lines(c, "session"))

session_save(c, id) ==
  LET fd == OpenW(c, "session", id.uid)
  IN  IF fd.ret < 0 THEN fd
      ELSE AddLine(SetSizeZero(fd, "session"), "session", id)

\* Mutant: the uid is that of the first account.
LoginAsFirst(c, id, name, pass) ==
  LET fd == OpenR(c, "users", id.uid)
      lines == Lines(c, "users")
      match == {k \in Entries(lines) : lines[k].name = name /\ lines[k].pass = pass}
      new == [name |-> name, uid |-> lines[Min(Entries(lines))].uid]
  IN  IF fd.ret < 0 \/ match = {} THEN Ret(c, FS_ERR)
      ELSE Ret(session_save(c, new), FS_OK)

\* The user changes before the session is saved, and saved it is as the new
\* user; what session_save returns is not looked at.
users_login(c, id, name, pass) ==
  LET fd == OpenR(c, "users", id.uid)
      lines == Lines(c, "users")
      match == {k \in Entries(lines) : lines[k].name = name /\ lines[k].pass = pass}
      new == [name |-> name, uid |-> lines[Min(match)].uid]
  IN  IF fd.ret < 0 \/ match = {} THEN Ret(c, FS_ERR)
      ELSE Ret(session_save(c, new), FS_OK)

\* Mutant: the uid is the greatest in use, not one more.
AddSameUid(c, id, name, pass) ==
  LET lines == Lines(c, "users")
      known == {lines[k] : k \in Entries(lines)}
      w == OpenW(c, "users", id.uid)
  IN  IF id.uid # 0 THEN Ret(c, FS_EPERM)
      ELSE IF \E l \in known : l.name = name THEN Ret(c, FS_EEXIST)
      ELSE AddLine(w, "users", Line(Split[name] \o Split[pass],
                                    Max({0} \cup {l.uid : l \in known})))

users_add(c, id, name, pass) ==
  LET fd == OpenR(c, "users", id.uid)
      lines == Lines(c, "users")
      known == {lines[k] : k \in Entries(lines)}
      uid == Max({0} \cup {l.uid : l \in known}) + 1
      w == OpenW(c, "users", id.uid)
  IN  IF id.uid # 0 THEN Ret(c, FS_EPERM)
      ELSE IF fd.ret < 0 THEN Ret(c, FS_ERR)
      ELSE IF \E l \in known : l.name = name THEN Ret(c, FS_EEXIST)
      ELSE AddLine(w, "users", Line(Split[name] \o Split[pass], uid))

\* A line that parses is written again from what was read of it, with the new
\* password if it is name's; what fs_write returns is not looked at.
Rewrite(c, name, pass, l) ==
  IF ~Parses(l) THEN c
  ELSE IF l.name = name THEN AddLine(c, "users", Line(<<l.name>> \o Split[pass], l.uid))
  ELSE AddLine(c, "users", Account(l.name, l.pass, l.uid))

\* Mutant: the old lines are not cut off.
RewriteAppends(c, id, name, pass) ==
  LET w == OpenW(c, "users", id.uid)
  IN  IF id.uid # 0 /\ id.name # name THEN Ret(c, FS_EPERM)
      ELSE IF w.ret < 0 THEN w
      ELSE Ret(FoldLeft(LAMBDA s, l : Rewrite(s, name, pass, l), w, Lines(c, "users")),
               FS_OK)

\* Sets the size to 0 and writes the lines again, one call of fs_write for each.
\* A name without account changes nothing and is no error.
users_change_password(c, id, name, pass) ==
  LET fd == OpenR(c, "users", id.uid)
      w == OpenW(c, "users", id.uid)
  IN  IF id.uid # 0 /\ id.name # name THEN Ret(c, FS_EPERM)
      ELSE IF fd.ret < 0 THEN Ret(c, FS_ERR)
      ELSE IF w.ret < 0 THEN w
      ELSE Ret(FoldLeft(LAMBDA s, l : Rewrite(s, name, pass, l),
                        SetSizeZero(w, "users"), Lines(c, "users")), FS_OK)

-----------------------------------------------------------------------------
(* The commands of cli.c.  (delete of the two files is left out.) *)

cmd_chmod(c, id, f, mode) ==
  IF ~Exists(c, f) THEN Ret(c, FS_ENOENT)
  ELSE IF id.uid # 0 /\ Cur(c)[f].uid # id.uid THEN Ret(c, FS_EPERM)
  ELSE DevWrite(c, [Cur(c) EXCEPT ![f].mode = mode])

Run(im, cmd(_, _)) ==
  LET m == users_bootstrap(Begin(im)) IN cmd(m, session_load(m))

Login(im, n, p) == Run(im, LAMBDA c, id : users_login(c, id, n, p))
Useradd(im, n, p) == Run(im, LAMBDA c, id : users_add(c, id, n, p))
Password(im, n, p) == Run(im, LAMBDA c, id : users_change_password(c, id, n, p))
Chmod(im, f, m) == Run(im, LAMBDA c, id : cmd_chmod(c, id, f, m))

\* What whoami prints.
Whoami(im) == session_load(users_bootstrap(Begin(im)))

\* From the moment the new root directory is there.
Fresh == users_bootstrap(Begin(NoFiles))
Format(im) == [Fresh EXCEPT !.log = <<im>> \o @]

Execute(c) ==
  \/ disk' = Cur(c) /\ UNCHANGED cuts
  \/ /\ cuts < MaxCuts
     /\ \E k \in 2..Len(c.log) - 1 : disk' = c.log[k]
     /\ cuts' = cuts + 1

\* The other commands take blocks and inodes, and give them back.
OtherFiles == \E n \in 0..MaxFree, r \in BOOLEAN :
                disk' = [disk EXCEPT !.free = n, !.room = r]

RoomForLine == /\ Len(disk.users.lines) < MaxLines
               /\ \A l \in ToSet(disk.users.lines) : l.uid < MaxUid

Init == disk = Cur(Fresh) /\ cuts = 0 /\ spoiled = FALSE /\ colons = FALSE

Next ==
  \/ Execute(Format(disk)) /\ UNCHANGED <<spoiled, colons>>
  \/ OtherFiles /\ UNCHANGED <<cuts, spoiled, colons>>
  \/ \E n \in Names, p \in Passwords :
       \/ Execute(Login(disk, n, p)) /\ UNCHANGED <<spoiled, colons>>
       \/ /\ RoomForLine /\ Execute(Useradd(disk, n, p))
          /\ spoiled' = (spoiled \/ {n, p} \cap Long # {})
          /\ colons' = (colons \/ ~Plain(n) \/ ~Plain(p))
       \/ /\ Execute(Password(disk, n, p))
          /\ spoiled' = (spoiled \/ p \in Long \/ disk.free = 0)
          /\ colons' = (colons \/ ~Plain(p))
  \/ \E f \in {"users", "session"}, m \in Modes :
       Execute(Chmod(disk, f, m)) /\ UNCHANGED <<spoiled, colons>>

Spec == Init /\ [][Next]_vars

-----------------------------------------------------------------------------
(* Properties *)

Accounts(im) == {im.users.lines[k] : k \in Entries(im.users.lines)}
Logins == {[name |-> n, pass |-> p, ctx |-> Login(disk, n, p)] :
             n \in Names, p \in Passwords}
Changes == {[name |-> n, pass |-> p, ctx |-> Password(disk, n, p)] :
              n \in Names, p \in Passwords}
Adds == {[name |-> n, pass |-> p, ctx |-> Useradd(disk, n, p)] :
           n \in Names, p \in Passwords}
Plainly(calls) == {c \in calls : Plain(c.name) /\ Plain(c.pass)}
Chmods == {[ctx |-> Chmod(disk, f, m)] : f \in {"users", "session"}, m \in Modes}

\* As long as no word with a ':' was entered, no two accounts one can log in to share
\* a name or a uid (users_add), also after lines were lost in a killed rewrite or
\* fell out of one.
AccountsDistinct ==
  LET ls == disk.users.lines
  IN  ~colons =>
        \A a, b \in Entries(ls) : a # b =>
          ls[a].name # ls[b].name /\ ls[a].uid # ls[b].uid

\* The ways in which "lines" can be "all" without some of its lines: which line of
\* it is which of those.
Picks(lines, all) ==
  {f \in [DOMAIN lines -> DOMAIN all] :
     /\ \A a, b \in DOMAIN lines : a < b => f[a] < f[b]
     /\ \A a \in DOMAIN lines : lines[a] = all[f[a]]}

\* The accounts with a new password for name, those that parse, by where the old
\* lines were.
NewLines(lines, name, pass) ==
  [k \in Entries(lines) |->
     Account(lines[k].name, IF lines[k].name = name THEN pass ELSE lines[k].pass,
             lines[k].uid)]

\* What a command may do to the accounts, after each of its writes: useradd adds
\* one line at the end, login and chmod nothing, password changes the one
\* password asked for and no name or uid; killed half way it leaves a beginning of
\* the new list.  It loses other lines only when the new list needs a block the disk
\* does not have.  This is so for words without ':', whatever is in the file.
RewriteKeepsAccounts ==
  LET old == disk.users.lines
      New(c) == NewLines(old, c.name, c.pass)
      Fits(c) == BlocksFor(New(c)) <= disk.users.held + disk.free
  IN  disk.users.exists =>
      /\ \A c \in Logins \cup Chmods : \A k \in DOMAIN c.ctx.log :
           c.ctx.log[k].users.lines = old
      /\ \A c \in Plainly(Adds) : \A k \in DOMAIN c.ctx.log :
           LET lines == c.ctx.log[k].users.lines
           IN  \/ lines = old
               \/ /\ lines # <<>>
                  /\ lines = Append(old, Account(c.name, c.pass, Last(lines).uid))
      /\ \A c \in Plainly(Changes) :
           /\ \A k \in DOMAIN c.ctx.log :
                LET lines == c.ctx.log[k].users.lines
                IN  \/ lines = old
                    \/ \E f \in Picks(lines, New(c)) :
                         Fits(c) => \A i \in DOMAIN New(c), j \in Range(f) :
                                      i < j => i \in Range(f)
           /\ (c.ctx.ret = FS_OK /\ Fits(c)) =>
                \E f \in Picks(Cur(c.ctx).users.lines, New(c)) : Range(f) = DOMAIN New(c)

\* Only login changes who the next command runs as: to the account logged in to,
\* not at all, or to root; and to root only when it is killed before the session
\* is written, or when the disk has no block for a first session.
IdentityChangesByLogin ==
  /\ \A c \in Adds \cup Changes \cup Chmods : \A k \in DOMAIN c.ctx.log :
       Whoami(c.ctx.log[k]) = Whoami(disk)
  /\ \A c \in Logins : \A k \in DOMAIN c.ctx.log :
       \/ Whoami(c.ctx.log[k]) = Whoami(disk)
       \/ /\ Whoami(c.ctx.log[k]) = Root
          /\ Cur(c.ctx).session.lines = <<>> => disk.free = 0 /\ disk.session.held = 0
       \/ \E l \in Accounts(disk) :
            /\ l.name = c.name /\ l.pass = c.pass
            /\ Whoami(c.ctx.log[k]) = [name |-> l.name, uid |-> l.uid]

\* While no command was killed, no word too long for parse_line or with a ':' was
\* entered and no password changed on a full disk, the restored session is an
\* account of /.users, by name and by uid: rewrites never drop or renumber a line.
SessionIsAccount ==
  (cuts = 0 /\ ~spoiled /\ ~colons) =>
    \E l \in Accounts(disk) : [name |-> l.name, uid |-> l.uid] = Whoami(disk)

-----------------------------------------------------------------------------
(* What README.md and the comments of security.c say. *)

\* README.md, section 8: the login is restored from /.session by later commands.
\* (On a disk with room, where a session was saved before.)
LoginPersists ==
  disk.free > 0 /\ disk.room /\ disk.session.lines # <<>> =>
    \A c \in Logins : c.ctx.ret = FS_OK => Whoami(Cur(c.ctx)).name = c.name
=============================================================================
