---------------------------- MODULE SessionProofs ----------------------------
(***************************************************************************)
(* What holds of every Session, whatever the words and the room on the     *)
(* device: only login changes who the next command runs as; a password     *)
(* without ':' changes no name and no uid, and loses a line only when the  *)
(* new list needs a block that is not there.  While no word with a ':' was *)
(* entered no two accounts share a name or a uid; and while nothing was    *)
(* killed or spoiled either, the restored session is an account.           *)
(*                                                                         *)
(* A command is a context, and Contexts(I) are those whose images are all  *)
(* in I: that a command keeps something is stated as: it leads from        *)
(* Contexts(I) to Contexts(I).                                             *)
(***************************************************************************)
EXTENDS Session, SetLemmas

NameFields == {Head(Split[n]) : n \in Names}
Thirds == [words : Seq(Fields), number : Nat]
UserLines ==
  {l \in [name : NameFields, pass : Fields, third : Thirds, uid : Nat] :
     LineWeight(l) <= PerBlock}
SessionLines == [name : NameFields, uid : Nat]
FilesOf(L) == [exists : BOOLEAN, uid : Nat, mode : Modes \cup {DefaultMode, {}},
               lines : Seq(L), held : Nat]
Images == [users : FilesOf(UserLines), session : FilesOf(SessionLines), free : Nat,
           room : BOOLEAN]
Contexts(I) == [log : Seq(I) \ {<<>>}, ret : Int]

-----------------------------------------------------------------------------
(* Contexts *)

LEMMA CurIn ==
  ASSUME NEW I, NEW c \in Contexts(I)
  PROVE  Cur(c) \in I /\ \A k \in DOMAIN c.log : c.log[k] \in I
BY DEF Contexts, Cur, Last

LEMMA BeginIn ==
  ASSUME NEW I, NEW im \in I
  PROVE  Begin(im) \in Contexts(I) /\ Cur(Begin(im)) = im /\ Begin(im).ret = 0
BY DEF Contexts, Begin, Cur, Last, FS_OK

LEMMA RetIn ==
  ASSUME NEW I, NEW c \in Contexts(I), NEW r \in Int
  PROVE  /\ Ret(c, r) \in Contexts(I) /\ Cur(Ret(c, r)) = Cur(c)
         /\ Ret(c, r).ret = r /\ Ret(c, r).log = c.log
BY DEF Contexts, Ret, Cur, Last

LEMMA Written ==
  ASSUME NEW S, NEW c \in [log : S, ret : Int], NEW l \in S
  PROVE  LET d == [c EXCEPT !.log = l, !.ret = 0]
         IN  d \in [log : S, ret : Int] /\ d.log = l /\ d.ret = 0
<1> DEFINE e == [c EXCEPT !.log = l]
           d == [e EXCEPT !.ret = 0]
<1>1. e \in [log : S, ret : Int] /\ e.log = l
  OBVIOUS
<1> HIDE DEF e
<1>2. d \in [log : S, ret : Int] /\ d.log = l /\ d.ret = 0
  BY <1>1
<1>3. [c EXCEPT !.log = l, !.ret = 0] = d
  BY DEF e
<1> HIDE DEF d
<1> QED
  BY <1>2, <1>3

LEMMA DevWriteIn ==
  ASSUME NEW I, NEW c \in Contexts(I), NEW im \in I
  PROVE  /\ DevWrite(c, im) \in Contexts(I) /\ Cur(DevWrite(c, im)) = im
         /\ DevWrite(c, im).ret = 0
<1> DEFINE d == DevWrite(c, im)
           l == Append(c.log, im)
<1>1. c \in [log : Seq(I), ret : Int] /\ l \in Seq(I)
  BY DEF Contexts
<1>2. d = [c EXCEPT !.log = l, !.ret = 0]
  BY Zenon DEF DevWrite, FS_OK
<1>3. l # <<>> /\ l[Len(l)] = im
  BY DEF Contexts
<1> HIDE DEF l, d
<1>4. d \in [log : Seq(I), ret : Int] /\ d.log = l /\ d.ret = 0
  BY <1>1, <1>2, Written
<1>5. d \in Contexts(I) /\ Cur(d) = im /\ d.ret = 0
  BY <1>1, <1>3, <1>4 DEF Contexts, Cur, Last
<1> QED
  BY <1>5 DEF d

\* What is in a smaller set is in a larger one.
LEMMA ContextsMono ==
  ASSUME NEW I, NEW J, I \subseteq J
  PROVE  Contexts(I) \subseteq Contexts(J)
BY DEF Contexts

-----------------------------------------------------------------------------
(* The room that lines take *)

\* The room of a line, or of a word of it, unit by unit.
Row(k, n) == {<<k, u>> : u \in 1 .. n}

LEMMA RowSize ==
  ASSUME NEW k, NEW n \in Nat
  PROVE  IsFiniteSet(Row(k, n)) /\ Cardinality(Row(k, n)) = n
<1>1. IsFiniteSet(1 .. n) /\ Cardinality(1 .. n) = n
  BY FS_Interval
<1>2. [u \in 1 .. n |-> <<k, u>>] \in Bijection(1 .. n, Row(k, n))
  BY DEF Row, Bijection, Injection, Surjection, IsInjective
<1>3. ExistsBijection(1 .. n, Row(k, n))
  BY <1>2 DEF ExistsBijection
<1> QED
  BY <1>1, <1>3, FS_Bijection

\* A sum is a fold.
LEMMA SizeFold ==
  ASSUME NEW f, \E h : SumOn(SUBSET DOMAIN f, f, h)
  PROVE  \E h : SumOn(SUBSET DOMAIN f, f, h) /\ SumFunction(f) = h[DOMAIN f]
BY DEF SumFunction, SumFunctionOnSet, FoldFunctionOnSet, MapThenFoldSet, SumOn, One

\* It counts the units.
LEMMA SumIsUnits ==
  ASSUME NEW D, IsFiniteSet(D), NEW f \in [D -> Nat]
  PROVE  /\ IsFiniteSet(UNION {Row(k, f[k]) : k \in D})
         /\ SumFunction(f) = Cardinality(UNION {Row(k, f[k]) : k \in D})
         /\ SumFunction(f) \in Nat /\ (D = {} => SumFunction(f) = 0)
<1> DEFINE U == [k \in D |-> Row(k, f[k])]
<1>1. \A k \in D : IsFiniteSet(U[k]) /\ f[k] = Cardinality(U[k])
  BY RowSize
<1>2. \A j, k \in D : j # k => U[j] \cap U[k] = {}
  BY DEF Row
<1>3. UNION {Row(k, f[k]) : k \in D} = Unite(U, D)
  BY DEF Unite
<1>4. DOMAIN f = D
  OBVIOUS
<1> HIDE DEF U
<1>5. PICK h : SumOn(SUBSET D, f, h) /\ SumFunction(f) = h[D]
  BY <1>4, SumExists, SizeFold
<1>6. IsFiniteSet(Unite(U, D)) /\ h[D] = Cardinality(Unite(U, D))
  BY <1>1, <1>2, <1>5, SumIsUnion
<1>7. D = {} => Cardinality(Unite(U, D)) = 0
  <2>1. D = {} => Unite(U, D) = {}
    BY DEF Unite
  <2> QED
    BY <2>1, FS_EmptySet, Zenon
<1> QED
  BY <1>3, <1>5, <1>6, <1>7, FS_CardinalityType

LEMMA FieldsIn == \A f \in Fields : Number[f] \in Nat /\ Weight[f] \in Nat \ {0}
BY InputAssumption, Zenon

LEMMA WordsWeightIn ==
  ASSUME NEW words \in Seq(Fields)
  PROVE  WordsWeight(words) \in Nat /\ WordsWeight(<<>>) = 0
<1>1. ASSUME NEW w \in Seq(Fields) PROVE WordsWeight(w) \in Nat
  <2> DEFINE D == DOMAIN w
             f == [k \in D |-> Weight[w[k]]]
  <2>1. D = 1 .. Len(w) /\ Len(w) \in Nat /\ \A k \in D : w[k] \in Fields
    OBVIOUS
  <2>2. \A k \in D : Weight[w[k]] \in Nat
    BY <2>1, FieldsIn
  <2>3. IsFiniteSet(D)
    <3>1. IsFiniteSet(1 .. Len(w))
      BY <2>1, FS_Interval
    <3> QED
      BY <2>1, <3>1, Zenon
  <2>4. f \in [D -> Nat]
    BY <2>2
  <2> HIDE DEF D, f
  <2>5. SumFunction(f) \in Nat
    BY <2>3, <2>4, SumIsUnits
  <2> QED
    BY <2>5 DEF WordsWeight, f, D
<1>2. WordsWeight(<<>>) = 0
  <2> DEFINE w == <<>>
             f == [k \in DOMAIN w |-> Weight[w[k]]]
             D == DOMAIN f
  <2>1. D = {} /\ IsFiniteSet(D) /\ f \in [D -> Nat]
    <3>1. DOMAIN w = {}
      OBVIOUS
    <3>2. D = {}
      BY <3>1
    <3>3. f \in [D -> Nat]
      BY <3>2
    <3>4. IsFiniteSet(D)
      BY <3>2, FS_EmptySet, Zenon
    <3> QED
      BY <3>2, <3>3, <3>4
  <2>2. WordsWeight(w) = SumFunction(f)
    BY DEF WordsWeight
  <2> HIDE DEF f, D
  <2>3. SumFunction(f) = 0
    BY <2>1, SumIsUnits, Zenon
  <2> QED
    BY <2>2, <2>3
<1> QED
  BY <1>1, <1>2

-----------------------------------------------------------------------------
(* Words and lines *)

LEMMA WordsIn ==
  /\ \A w \in Words : Split[w] \in Seq(Fields) /\ Len(Split[w]) \in Nat \ {0}
  /\ \A n \in Names : Head(Split[n]) \in NameFields
  /\ NameFields \subseteq Fields
  /\ \A w \in Words : Plain(w) => w \in Fields /\ (w \in Names => w \in NameFields)
<1>1. \A w \in Words : Split[w] \in Seq(Fields) /\ Split[w] # <<>>
  BY InputAssumption
<1>2. \A w \in Words : Len(Split[w]) \in Nat \ {0} /\ Head(Split[w]) \in Fields
  BY <1>1
<1>3. \A w : Head(<<w>>) = w
  OBVIOUS
<1> QED
  BY <1>1, <1>2, <1>3 DEF NameFields, Plain, Words

LEMMA TwoWords == ASSUME NEW m, NEW q PROVE <<m>> \o <<q>> = <<m, q>>
<1> DEFINE S == {m, q}
           r == <<m>> \o <<q>>
           t == <<m, q>>
<1>1. <<m>> \in Seq(S) /\ <<q>> \in Seq(S) /\ Len(<<m>>) = 1 /\ Len(<<q>>) = 1
  OBVIOUS
<1>2. t \in Seq(S) /\ Len(t) = 2 /\ t[1] = m /\ t[2] = q
  OBVIOUS
<1> HIDE DEF S, t
<1>3. ASSUME NEW a \in Seq(S), NEW b \in Seq(S)
      PROVE  /\ a \o b \in Seq(S) /\ Len(a \o b) = Len(a) + Len(b)
             /\ \A i \in 1 .. Len(a) + Len(b) :
                  (a \o b)[i] = IF i <= Len(a) THEN a[i] ELSE b[i - Len(a)]
  OBVIOUS
<1>4. r \in Seq(S) /\ Len(r) = 2 /\ r[1] = m /\ r[2] = q
  BY <1>1, <1>3
<1> HIDE DEF r
<1>5. r = t
  BY <1>2, <1>4
<1> QED
  BY <1>5 DEF r, t

\* The fields of a word, after a name or after the fields of a name.
LEMMA SplitLine ==
  ASSUME NEW n \in NameFields, NEW p \in Passwords
  PROVE  /\ <<n>> \o Split[p] \in Seq(Fields) /\ Len(<<n>> \o Split[p]) >= 2
         /\ (<<n>> \o Split[p])[1] = n
         /\ Plain(p) => <<n>> \o Split[p] = <<n, p>>
         /\ LineWeight(Line(<<n>> \o Split[p], 0)) <= PerBlock
<1>1. p \in Words /\ Split[p] \in Seq(Fields) /\ Len(Split[p]) \in Nat \ {0} /\ n \in Fields
  BY WordsIn DEF Words
<1>2. PICK m \in Names : n = Head(Split[m])
  BY DEF NameFields
<1>3. LineWeight(Line(<<n>> \o Split[p], 0)) <= PerBlock
  BY <1>2, InputAssumption
<1>4. Plain(p) => <<n>> \o Split[p] = <<n, p>>
  <2>1. <<n>> \o <<p>> = <<n, p>>
    BY TwoWords
  <2> QED
    BY <2>1 DEF Plain
<1> DEFINE q == Split[p]
<1>5. q \in Seq(Fields) /\ Len(q) >= 1
  BY <1>1
<1> HIDE DEF q
<1>6. /\ <<n>> \o q \in Seq(Fields) /\ Len(<<n>> \o q) >= 2 /\ (<<n>> \o q)[1] = n
  BY <1>1, <1>5
<1> QED
  BY <1>3, <1>4, <1>6 DEF q

LEMMA SplitAdded ==
  ASSUME NEW n \in Names, NEW p \in Passwords
  PROVE  /\ Split[n] \o Split[p] \in Seq(Fields) /\ Len(Split[n] \o Split[p]) >= 2
         /\ (Split[n] \o Split[p])[1] \in NameFields
         /\ (Plain(n) /\ Plain(p)) => Split[n] \o Split[p] = <<n, p>>
         /\ LineWeight(Line(Split[n] \o Split[p], 0)) <= PerBlock
<1> DEFINE m == Split[n]
           q == Split[p]
<1>1. /\ m \in Seq(Fields) /\ Len(m) \in Nat \ {0} /\ Head(m) \in NameFields
      /\ q \in Seq(Fields) /\ Len(q) \in Nat \ {0}
  BY WordsIn DEF Words
<1>2. LineWeight(Line(m \o q, 0)) <= PerBlock
  BY InputAssumption
<1>3. (Plain(n) /\ Plain(p)) => m \o q = <<n, p>>
  <2>1. <<n>> \o <<p>> = <<n, p>>
    BY TwoWords
  <2> QED
    BY <2>1 DEF Plain
<1> HIDE DEF m, q
<1>4. m \o q \in Seq(Fields) /\ Len(m \o q) >= 2 /\ (m \o q)[1] = Head(m)
  BY <1>1
<1> QED
  BY <1>1, <1>2, <1>3, <1>4 DEF m, q

\* What is read of a line that fits.
LEMMA LineIs ==
  ASSUME NEW fields \in Seq(Fields), Len(fields) >= 2, fields[1] \in NameFields,
         NEW uid \in Nat, LineWeight(Line(fields, 0)) <= PerBlock
  PROVE  Line(fields, uid) \in UserLines /\ Line(fields, uid).name = fields[1]
<1> DEFINE words == SubSeq(fields, 3, Len(fields))
           l == Line(fields, uid)
           u == IF words = <<>> THEN uid ELSE Number[words[1]]
<1>1. words \in Seq(Fields) /\ fields[2] \in Fields
  OBVIOUS
<1>2. l = [name |-> fields[1], pass |-> fields[2],
           third |-> [words |-> words, number |-> uid], uid |-> u]
  BY DEF Line
<1> HIDE DEF words
<1>3. u \in Nat
  <2>1. words # <<>> => words[1] \in Fields
    BY <1>1
  <2> QED
    BY <2>1, InputAssumption
<1> HIDE DEF u
<1>4. /\ l \in [name : NameFields, pass : Fields, third : Thirds, uid : Nat]
      /\ l.name = fields[1]
  BY <1>1, <1>2, <1>3 DEF Thirds
<1>5. LineWeight(l) = LineWeight(Line(fields, 0))
  BY DEF LineWeight, Line
<1> HIDE DEF l
<1>6. l \in UserLines
  BY <1>4, <1>5 DEF UserLines
<1> QED
  BY <1>4, <1>6 DEF l

LEMMA AccountIs ==
  ASSUME NEW name, NEW pass, NEW uid
  PROVE  /\ Account(name, pass, uid)
              = [name |-> name, pass |-> pass,
                 third |-> [words |-> <<>>, number |-> uid], uid |-> uid]
         /\ Parses(Account(name, pass, uid)) <=> name \notin Long /\ pass \notin Long
         /\ LineWeight(Account(name, pass, uid))
              = Weight[name] + (Weight[pass] + WordsWeight(<<>>))
<1> DEFINE l == Account(name, pass, uid)
           r == [name |-> name, pass |-> pass,
                 third |-> [words |-> <<>>, number |-> uid], uid |-> uid]
<1>1. SubSeq(<<name, pass>>, 3, Len(<<name, pass>>)) = <<>>
  OBVIOUS
<1>2. <<name, pass>>[1] = name /\ <<name, pass>>[2] = pass
  OBVIOUS
<1>3. l = r
  BY <1>1, <1>2, Zenon DEF Account, Line
<1>4. /\ r.name = name /\ r.pass = pass /\ r.uid = uid
      /\ r.third = [words |-> <<>>, number |-> uid] /\ r.third.words = <<>>
      /\ "pass" \in DOMAIN r
  OBVIOUS
<1> HIDE DEF l, r
<1>5. l.third \notin LongThird
  BY <1>3, <1>4, InputAssumption
<1>6. Parses(l) <=> name \notin Long /\ pass \notin Long
  BY <1>3, <1>4, <1>5 DEF Parses
<1>7. LineWeight(l) = Weight[name] + (Weight[pass] + WordsWeight(<<>>))
  BY <1>3, <1>4 DEF LineWeight
<1>8. l = r /\ (Parses(l) <=> name \notin Long /\ pass \notin Long)
  BY <1>3, <1>6
<1> QED
  BY <1>7, <1>8, Zenon DEF l, r

\* A line written again from what was read of it takes no more room.
LEMMA AccountIn ==
  ASSUME NEW l \in UserLines
  PROVE  /\ Account(l.name, l.pass, l.uid) \in UserLines
         /\ LineWeight(Account(l.name, l.pass, l.uid)) \in Nat /\ LineWeight(l) \in Nat
         /\ LineWeight(l) >= 1
         /\ LineWeight(Account(l.name, l.pass, l.uid)) <= LineWeight(l)
<1> DEFINE a == Account(l.name, l.pass, l.uid)
<1>1. /\ l.name \in NameFields /\ l.pass \in Fields /\ l.uid \in Nat
      /\ l.third.words \in Seq(Fields) /\ "pass" \in DOMAIN l
      /\ LineWeight(l) <= PerBlock
  BY DEF UserLines, Thirds
<1>2. l.name \in Fields
  BY <1>1, WordsIn
<1> DEFINE m == Weight[l.name]
           p == Weight[l.pass]
           t == WordsWeight(l.third.words)
           e == WordsWeight(<<>>)
<1>3. m \in Nat \ {0} /\ p \in Nat \ {0} /\ t \in Nat /\ e = 0 /\ PerBlock \in Nat
  BY <1>1, <1>2, WordsWeightIn, InputAssumption
<1>4. LineWeight(l) = m + (p + t)
  BY <1>1 DEF LineWeight
<1>5. /\ LineWeight(a) = m + (p + e)
      /\ a = [name |-> l.name, pass |-> l.pass,
              third |-> [words |-> <<>>, number |-> l.uid], uid |-> l.uid]
  BY AccountIs, Zenon
<1> HIDE DEF a, m, p, t, e
<1>6. /\ LineWeight(a) \in Nat /\ LineWeight(l) \in Nat /\ LineWeight(l) >= 1
      /\ LineWeight(a) <= LineWeight(l) /\ LineWeight(a) <= PerBlock
  BY <1>1, <1>3, <1>4, <1>5
<1>7. a \in [name : NameFields, pass : Fields, third : Thirds, uid : Nat]
  <2>1. <<>> \in Seq(Fields)
    OBVIOUS
  <2> QED
    BY <1>1, <1>5, <2>1 DEF Thirds
<1>8. a \in UserLines
  BY <1>6, <1>7 DEF UserLines
<1> QED
  BY <1>6, <1>8 DEF a

LEMMA RootWord ==
  /\ "root" \in Names /\ "root" \in Passwords /\ Plain("root") /\ "root" \in NameFields
  /\ "root" \notin Long
<1>1. "root" \in Names /\ "root" \in Passwords /\ Plain("root") /\ "root" \notin Long
  BY InputAssumption
<1>2. "root" \in Words
  BY <1>1 DEF Words
<1> QED
  BY <1>1, <1>2, WordsIn

\* A name leaves room for "root".
LEMMA NameHasRoom ==
  ASSUME NEW n \in NameFields
  PROVE  /\ Weight[n] \in Nat \ {0} /\ Weight["root"] \in Nat \ {0} /\ PerBlock \in Nat
         /\ Weight[n] + Weight["root"] <= PerBlock
<1>1. n \in Fields /\ "root" \in Fields
  BY WordsIn, RootWord
<1>2. Weight[n] \in Nat \ {0} /\ Weight["root"] \in Nat \ {0} /\ PerBlock \in Nat
  BY <1>1, InputAssumption
<1>3. LineWeight(Line(<<n, "root">>, 0)) <= PerBlock
  BY SplitLine, RootWord
<1>4. LineWeight(Line(<<n, "root">>, 0)) = Weight[n] + (Weight["root"] + WordsWeight(<<>>))
  <2>1. Line(<<n, "root">>, 0) = Account(n, "root", 0)
    BY DEF Account
  <2>2. LineWeight(Account(n, "root", 0)) = Weight[n] + (Weight["root"] + WordsWeight(<<>>))
    BY AccountIs, Zenon
  <2> QED
    BY <2>1, <2>2
<1>5. WordsWeight(<<>>) = 0
  <2>1. <<>> \in Seq(Fields)
    OBVIOUS
  <2> QED
    BY <2>1, WordsWeightIn
<1> QED
  BY <1>2, <1>3, <1>4, <1>5

LEMMA BlockHasRoom == PerBlock \in Nat /\ PerBlock >= 2
BY RootWord, NameHasRoom

\* BlocksFor rounds up.
LEMMA RoundUp ==
  ASSUME NEW n \in Nat, NEW p \in Nat, p >= 2
  PROVE  /\ (n + p - 1) \div p \in Nat
         /\ n <= p => (n + p - 1) \div p <= 1
         /\ n >= 1 => (n + p - 1) \div p >= 1
         /\ \A k \in Nat : k <= n => (k + p - 1) \div p <= (n + p - 1) \div p
         /\ ((n + p) + p - 1) \div p = (n + p - 1) \div p + 1
OBVIOUS

LEMMA WeightOf ==
  ASSUME NEW l \in UserLines \cup SessionLines
  PROVE  LineWeight(l) \in Nat /\ LineWeight(l) >= 1 /\ LineWeight(l) <= PerBlock
<1>1. CASE l \in UserLines
  BY <1>1, AccountIn DEF UserLines
<1>2. CASE l \in SessionLines
  <2>1. l.name \in NameFields /\ "pass" \notin DOMAIN l
    BY <1>2 DEF SessionLines
  <2>2. /\ Weight[l.name] \in Nat \ {0} /\ Weight["root"] \in Nat \ {0} /\ PerBlock \in Nat
        /\ Weight[l.name] + Weight["root"] <= PerBlock
    BY <2>1, NameHasRoom
  <2> QED
    BY <2>1, <2>2 DEF LineWeight
<1> QED
  BY <1>1, <1>2

Units(lines) == UNION {Row(k, LineWeight(lines[k])) : k \in DOMAIN lines}

\* What has a name and so a weight.
WeighedLines == UserLines \cup SessionLines

LEMMA SizeIsUnits ==
  ASSUME NEW D, IsFiniteSet(D), NEW lines \in [D -> WeighedLines]
  PROVE  IsFiniteSet(Units(lines)) /\ SizeOf(lines) = Cardinality(Units(lines))
<1> DEFINE f == [k \in D |-> LineWeight(lines[k])]
<1>1. \A k \in D : LineWeight(lines[k]) \in Nat
  BY WeightOf DEF WeighedLines
<1>2. f \in [D -> Nat] /\ \A k \in D : f[k] = LineWeight(lines[k])
  BY <1>1
<1>3. SizeOf(lines) = SumFunction(f)
  BY DEF SizeOf
<1>4. Units(lines) = UNION {Row(k, f[k]) : k \in D}
  BY <1>2 DEF Units
<1> HIDE DEF f
<1> QED
  BY <1>2, <1>3, <1>4, SumIsUnits

LEMMA SeqIsFunction ==
  ASSUME NEW l \in Seq(UserLines) \cup Seq(SessionLines)
  PROVE  IsFiniteSet(DOMAIN l) /\ l \in [DOMAIN l -> WeighedLines] /\ l \in Seq(WeighedLines)
<1>1. l \in Seq(WeighedLines)
  BY DEF WeighedLines
<1>2. DOMAIN l = 1 .. Len(l) /\ Len(l) \in Nat
  BY <1>1
<1>3. l \in [DOMAIN l -> WeighedLines]
  BY <1>1
<1>4. IsFiniteSet(1 .. Len(l))
  BY <1>2, FS_Interval
<1>5. IsFiniteSet(DOMAIN l)
  BY <1>2, <1>4, Zenon
<1> QED
  BY <1>1, <1>3, <1>5, Zenon

\* Lines that weigh no more than others but for one of them.
LEMMA SizeBound ==
  ASSUME NEW D, IsFiniteSet(D), NEW A \in [D -> WeighedLines],
         NEW E, IsFiniteSet(E), NEW B \in [E -> WeighedLines],
         NEW j, \A k \in D : k # j => k \in E /\ LineWeight(A[k]) <= LineWeight(B[k])
  PROVE  SizeOf(A) \in Nat /\ SizeOf(B) \in Nat /\ SizeOf(A) <= SizeOf(B) + PerBlock
<1> DEFINE R == Row(j, PerBlock)
<1>1. /\ IsFiniteSet(Units(A)) /\ SizeOf(A) = Cardinality(Units(A))
      /\ IsFiniteSet(Units(B)) /\ SizeOf(B) = Cardinality(Units(B))
  BY SizeIsUnits
<1>2. IsFiniteSet(R) /\ Cardinality(R) = PerBlock /\ PerBlock \in Nat
  BY RowSize, BlockHasRoom
<1>3. Units(A) \subseteq Units(B) \cup R
  <2> SUFFICES ASSUME NEW k \in D, NEW u \in 1 .. LineWeight(A[k])
               PROVE  <<k, u>> \in Units(B) \cup R
    BY DEF Units, Row
  <2>1. CASE k = j
    <3>1. LineWeight(A[k]) \in Nat /\ LineWeight(A[k]) <= PerBlock
      BY WeightOf DEF WeighedLines
    <3>2. u \in 1 .. PerBlock
      BY <3>1, <1>2
    <3> QED
      BY <2>1, <3>2 DEF Row
  <2>2. CASE k # j
    <3>1. k \in DOMAIN B /\ LineWeight(A[k]) <= LineWeight(B[k])
      BY <2>2
    <3>2. LineWeight(A[k]) \in Nat /\ LineWeight(B[k]) \in Nat
      BY <3>1, WeightOf DEF WeighedLines
    <3>3. u \in 1 .. LineWeight(B[k])
      BY <3>1, <3>2
    <3> QED
      BY <3>1, <3>3 DEF Units, Row
  <2> QED
    BY <2>1, <2>2
<1> HIDE DEF R
<1>4. /\ Cardinality(Units(A)) \in Nat /\ Cardinality(Units(B)) \in Nat
      /\ Cardinality(Units(B) \cap R) \in Nat /\ IsFiniteSet(Units(B) \cup R)
      /\ Cardinality(Units(B) \cup R)
           = Cardinality(Units(B)) + Cardinality(R) - Cardinality(Units(B) \cap R)
  <2>1. IsFiniteSet(Units(B) \cap R)
    BY <1>1, FS_Subset
  <2> QED
    BY <1>1, <1>2, <2>1, FS_CardinalityType, FS_Union
<1>5. Cardinality(Units(A)) <= Cardinality(Units(B) \cup R)
  BY <1>3, <1>4, FS_Subset
<1>6. Cardinality(Units(B) \cup R) \in Nat
  BY <1>4, FS_CardinalityType
<1> QED
  BY <1>1, <1>2, <1>4, <1>5, <1>6

\* Some of the lines take no more room than all of them.
LEMMA SizePicked ==
  ASSUME NEW D, IsFiniteSet(D), NEW A \in [D -> WeighedLines],
         NEW E, IsFiniteSet(E), NEW B \in [E -> WeighedLines],
         NEW f \in [D -> E], \A a, b \in D : a # b => f[a] # f[b],
         \A a \in D : LineWeight(A[a]) = LineWeight(B[f[a]])
  PROVE  SizeOf(A) \in Nat /\ SizeOf(B) \in Nat /\ SizeOf(A) <= SizeOf(B)
<1> DEFINE g == [x \in Units(A) |-> <<f[x[1]], x[2]>>]
<1>1. /\ IsFiniteSet(Units(A)) /\ SizeOf(A) = Cardinality(Units(A))
      /\ IsFiniteSet(Units(B)) /\ SizeOf(B) = Cardinality(Units(B))
  BY SizeIsUnits
<1>2. ASSUME NEW x \in Units(A)
      PROVE  /\ x = <<x[1], x[2]>> /\ x[1] \in D /\ g[x] = <<f[x[1]], x[2]>>
             /\ g[x] \in Units(B)
  <2>1. PICK k \in D : x \in Row(k, LineWeight(A[k]))
    BY DEF Units
  <2>2. PICK u \in 1 .. LineWeight(A[k]) : x = <<k, u>>
    BY <2>1 DEF Row
  <2>3. x[1] = k /\ x[2] = u
    BY <2>2
  <2>4. <<f[k], u>> \in Units(B)
    <3>1. f[k] \in DOMAIN B /\ u \in 1 .. LineWeight(B[f[k]])
      OBVIOUS
    <3> QED
      BY <3>1 DEF Units, Row
  <2> QED
    BY <2>2, <2>3, <2>4
<1>3. ASSUME NEW x \in Units(A), NEW y \in Units(A), g[x] = g[y] PROVE x = y
  <2>1. f[x[1]] = f[y[1]] /\ x[2] = y[2]
    BY <1>2, <1>3
  <2>2. x[1] = y[1]
    BY <1>2, <2>1
  <2>3. x = <<x[1], x[2]>> /\ y = <<y[1], y[2]>>
    BY <1>2
  <2>4. <<x[1], x[2]>> = <<y[1], y[2]>>
    BY <2>1, <2>2
  <2> HIDE DEF g
  <2> QED
    BY <2>3, <2>4, Zenon
<1>4. g \in Injection(Units(A), Units(B))
  BY <1>2, <1>3 DEF Injection, IsInjective
<1> HIDE DEF g
<1>5. Cardinality(Units(A)) <= Cardinality(Units(B))
  BY <1>1, <1>4, FS_Injection
<1> QED
  BY <1>1, <1>5, FS_CardinalityType

LEMMA NoLines == SizeOf(<<>>) = 0 /\ BlocksFor(<<>>) = 0
<1>1. Units(<<>>) = {} /\ <<>> \in [{} -> WeighedLines] /\ IsFiniteSet({})
  BY FS_EmptySet DEF Units
<1>2. SizeOf(<<>>) = 0
  BY <1>1, SizeIsUnits, FS_EmptySet
<1>3. (0 + PerBlock - 1) \div PerBlock = 0
  BY BlockHasRoom
<1> QED
  BY <1>2, <1>3 DEF BlocksFor

LEMMA BlocksForIn ==
  ASSUME NEW D, IsFiniteSet(D), NEW lines \in [D -> WeighedLines]
  PROVE  SizeOf(lines) \in Nat /\ BlocksFor(lines) \in Nat
<1>1. SizeOf(lines) \in Nat
  BY SizeIsUnits, FS_CardinalityType
<1> QED
  BY <1>1, RoundUp, BlockHasRoom DEF BlocksFor

\* One line more, or one that grew, takes one block more at most.
LEMMA OneMoreBlock ==
  ASSUME NEW D, IsFiniteSet(D), NEW A \in [D -> WeighedLines],
         NEW E, IsFiniteSet(E), NEW B \in [E -> WeighedLines],
         NEW j, \A k \in D : k # j => k \in E /\ LineWeight(A[k]) <= LineWeight(B[k])
  PROVE  BlocksFor(A) <= BlocksFor(B) + 1
<1> DEFINE a == SizeOf(A)
           b == SizeOf(B)
<1>1. a \in Nat /\ b \in Nat /\ a <= b + PerBlock /\ b + PerBlock \in Nat
  <2>1. a \in Nat /\ b \in Nat /\ a <= b + PerBlock
    BY SizeBound, Zenon
  <2> HIDE DEF a, b
  <2> QED
    BY <2>1, BlockHasRoom
<1> HIDE DEF a, b
<1>2. (a + PerBlock - 1) \div PerBlock <= ((b + PerBlock) + PerBlock - 1) \div PerBlock
  BY <1>1, RoundUp, BlockHasRoom
<1>3. ((b + PerBlock) + PerBlock - 1) \div PerBlock = (b + PerBlock - 1) \div PerBlock + 1
  BY <1>1, RoundUp, BlockHasRoom
<1> QED
  BY <1>2, <1>3 DEF BlocksFor, a, b

LEMMA BlocksPicked ==
  ASSUME NEW D, IsFiniteSet(D), NEW A \in [D -> WeighedLines],
         NEW E, IsFiniteSet(E), NEW B \in [E -> WeighedLines],
         NEW f \in [D -> E], \A a, b \in D : a # b => f[a] # f[b],
         \A a \in D : LineWeight(A[a]) = LineWeight(B[f[a]])
  PROVE  BlocksFor(A) <= BlocksFor(B)
<1> DEFINE a == SizeOf(A)
           b == SizeOf(B)
<1>1. a \in Nat /\ b \in Nat /\ a <= b
  BY SizePicked
<1> HIDE DEF a, b
<1>2. (a + PerBlock - 1) \div PerBlock <= (b + PerBlock - 1) \div PerBlock
  BY <1>1, RoundUp, BlockHasRoom
<1> QED
  BY <1>2 DEF BlocksFor, a, b

-----------------------------------------------------------------------------
(* The calls that write a file *)

Both == {"users", "session"}

\* The image when fs_open has created f, or found it there.
NewFile(uid) == [NoFile EXCEPT !.exists = TRUE, !.uid = uid, !.mode = DefaultMode]
Opened(im, f, uid) == IF im[f].exists THEN im ELSE [im EXCEPT ![f] = NewFile(uid)]
Emptied(im, f) == [im EXCEPT ![f].lines = <<>>]

\* The image with one more line in f, if the blocks are there.
HeldFor(im, f, line) == Max({im[f].held, BlocksFor(Append(im[f].lines, line))})
LeftFor(im, f, line) == im.free - (HeldFor(im, f, line) - im[f].held)
Longer(im, f, line) ==
  [im EXCEPT ![f].lines = Append(im[f].lines, line), ![f].held = HeldFor(im, f, line),
             !.free = LeftFor(im, f, line)]

LEMMA OpenWIs ==
  ASSUME NEW I, NEW c \in Contexts(I), NEW f, NEW uid, Opened(Cur(c), f, uid) \in I
  PROVE  /\ OpenW(c, f, uid) \in Contexts(I)
         /\ OpenW(c, f, uid).ret >= 0 => Cur(OpenW(c, f, uid)) = Opened(Cur(c), f, uid)
         /\ OpenW(c, f, uid).ret < 0 => Cur(OpenW(c, f, uid)) = Cur(c)
         /\ Exists(c, f) \/ OpenW(c, f, uid).ret < 0 => OpenW(c, f, uid).log = c.log
         /\ (uid = 0 /\ Exists(c, f)) => OpenW(c, f, uid).ret = 0
<1>1. CASE ~Exists(c, f) /\ Cur(c).room
  <2>1. OpenW(c, f, uid) = DevWrite(c, Opened(Cur(c), f, uid))
    BY <1>1, Zenon DEF OpenW, Opened, NewFile, Exists
  <2>2. /\ DevWrite(c, Opened(Cur(c), f, uid)) \in Contexts(I)
        /\ Cur(DevWrite(c, Opened(Cur(c), f, uid))) = Opened(Cur(c), f, uid)
        /\ DevWrite(c, Opened(Cur(c), f, uid)).ret = 0
    BY DevWriteIn
  <2> QED
    BY <1>1, <2>1, <2>2
<1>2. CASE ~Exists(c, f) /\ ~Cur(c).room
  <2>1. OpenW(c, f, uid) = Ret(c, FS_ENOSPC) /\ FS_ENOSPC \in Int /\ FS_ENOSPC < 0
    BY <1>2 DEF OpenW, FS_ENOSPC
  <2> QED
    BY <1>2, <2>1, RetIn
<1>3. CASE Exists(c, f)
  <2> DEFINE r == IF perm_can_write(Cur(c)[f], uid) THEN FS_OK ELSE FS_EPERM
  <2>1. OpenW(c, f, uid) = Ret(c, r) /\ r \in Int /\ (uid = 0 => r = 0)
    BY <1>3 DEF OpenW, FS_OK, FS_EPERM, perm_can_write
  <2>2. Opened(Cur(c), f, uid) = Cur(c)
    BY <1>3 DEF Opened, Exists
  <2> HIDE DEF r
  <2> QED
    BY <1>3, <2>1, <2>2, RetIn
<1> QED
  BY <1>1, <1>2, <1>3

LEMMA AddLineIs ==
  ASSUME NEW I, NEW c \in Contexts(I), NEW f, NEW line,
         ~(LeftFor(Cur(c), f, line) < 0) => Longer(Cur(c), f, line) \in I
  PROVE  /\ AddLine(c, f, line) \in Contexts(I)
         /\ ~(LeftFor(Cur(c), f, line) < 0) => Cur(AddLine(c, f, line)) = Longer(Cur(c), f, line)
         /\ LeftFor(Cur(c), f, line) < 0 => Cur(AddLine(c, f, line)) = Cur(c)
<1>1. CASE LeftFor(Cur(c), f, line) < 0
  <2>1. AddLine(c, f, line) = Ret(c, FS_ENOSPC) /\ FS_ENOSPC \in Int
    BY <1>1 DEF AddLine, LeftFor, HeldFor, Lines, FS_ENOSPC
  <2> QED
    BY <1>1, <2>1, RetIn
<1>2. CASE ~(LeftFor(Cur(c), f, line) < 0)
  <2>1. AddLine(c, f, line) = DevWrite(c, Longer(Cur(c), f, line))
    BY <1>2, Zenon DEF AddLine, LeftFor, HeldFor, Longer, Lines
  <2> QED
    BY <1>2, <2>1, DevWriteIn
<1> QED
  BY <1>1, <1>2

LEMMA SetSizeZeroIs ==
  ASSUME NEW I, NEW c \in Contexts(I), NEW f, Emptied(Cur(c), f) \in I
  PROVE  /\ SetSizeZero(c, f) \in Contexts(I)
         /\ Cur(SetSizeZero(c, f)) = Emptied(Cur(c), f)
<1>1. SetSizeZero(c, f) = DevWrite(c, Emptied(Cur(c), f))
  BY Zenon DEF SetSizeZero, Emptied
<1> QED
  BY <1>1, DevWriteIn

-----------------------------------------------------------------------------
(* What the images are afterwards *)

LEMMA NewFileIs ==
  ASSUME NEW L, NEW uid \in Nat
  PROVE  /\ NoFile \in FilesOf(L) /\ NewFile(uid) \in FilesOf(L)
         /\ NewFile(uid).exists /\ NewFile(uid).lines = <<>> /\ NewFile(uid).held = 0
<1> DEFINE a == [NoFile EXCEPT !.exists = TRUE]
           b == [a EXCEPT !.uid = uid]
           d == [b EXCEPT !.mode = DefaultMode]
<1>1. <<>> \in Seq(L) /\ {} \in Modes \cup {DefaultMode, {}}
      /\ DefaultMode \in Modes \cup {DefaultMode, {}}
  OBVIOUS
<1>2. NoFile \in FilesOf(L) /\ NoFile.lines = <<>> /\ NoFile.held = 0
  BY <1>1 DEF NoFile, FilesOf
<1>3. NewFile(uid) = d
  BY DEF NewFile
<1> HIDE DEF d
<1>4. a \in FilesOf(L) /\ a.lines = <<>> /\ a.held = 0 /\ a.exists
  BY <1>2 DEF FilesOf
<1> HIDE DEF a
<1>5. b \in FilesOf(L) /\ b.lines = <<>> /\ b.held = 0 /\ b.exists
  BY <1>4 DEF FilesOf
<1> HIDE DEF b
<1>6. d \in FilesOf(L) /\ d.lines = <<>> /\ d.held = 0 /\ d.exists
  BY <1>1, <1>5 DEF FilesOf, d
<1> QED
  BY <1>2, <1>3, <1>6

LEMMA UsersOpened ==
  ASSUME NEW im \in Images, NEW uid \in Nat
  PROVE  LET o == Opened(im, "users", uid)
         IN  /\ o \in Images /\ o.session = im.session /\ o.free = im.free
             /\ o.users.exists
             /\ im.users.exists => o = im
             /\ ~im.users.exists => o.users.lines = <<>> /\ o.users.held = 0
<1> DEFINE o == Opened(im, "users", uid)
           n == NewFile(uid)
<1>1. n \in FilesOf(UserLines) /\ n.lines = <<>> /\ n.held = 0 /\ n.exists
  BY NewFileIs
<1>2. o = IF im.users.exists THEN im ELSE [im EXCEPT !.users = n]
  BY DEF Opened, Images
<1> HIDE DEF o, n
<1>3. /\ o \in Images /\ o.session = im.session /\ o.free = im.free
      /\ o.users.exists
      /\ im.users.exists => o = im
      /\ ~im.users.exists => o.users.lines = <<>> /\ o.users.held = 0
  BY <1>1, <1>2 DEF Images
<1> QED
  BY <1>3 DEF o

LEMMA SessionOpened ==
  ASSUME NEW im \in Images, NEW uid \in Nat
  PROVE  LET o == Opened(im, "session", uid)
         IN  /\ o \in Images /\ o.users = im.users /\ o.free = im.free
             /\ o.session.exists
             /\ im.session.exists => o = im
             /\ ~im.session.exists => o.session.lines = <<>> /\ o.session.held = 0
<1> DEFINE o == Opened(im, "session", uid)
           n == NewFile(uid)
<1>1. n \in FilesOf(SessionLines) /\ n.lines = <<>> /\ n.held = 0 /\ n.exists
  BY NewFileIs
<1>2. o = IF im.session.exists THEN im ELSE [im EXCEPT !.session = n]
  BY DEF Opened, Images
<1> HIDE DEF o, n
<1>3. /\ o \in Images /\ o.users = im.users /\ o.free = im.free
      /\ o.session.exists
      /\ im.session.exists => o = im
      /\ ~im.session.exists => o.session.lines = <<>> /\ o.session.held = 0
  BY <1>1, <1>2 DEF Images
<1> QED
  BY <1>3 DEF o

LEMMA UsersEmptied ==
  ASSUME NEW im \in Images
  PROVE  LET o == Emptied(im, "users")
         IN  /\ o \in Images /\ o.session = im.session /\ o.free = im.free
             /\ o.users.exists = im.users.exists /\ o.users.lines = <<>>
             /\ o.users.held = im.users.held
<1> DEFINE o == Emptied(im, "users")
           x == im.users
           u == [x EXCEPT !.lines = <<>>]
<1>1. /\ u \in FilesOf(UserLines) /\ u.lines = <<>> /\ u.held = im.users.held
      /\ u.exists = im.users.exists
  <2>1. x \in FilesOf(UserLines) /\ <<>> \in Seq(UserLines)
    BY DEF Images
  <2> HIDE DEF x
  <2>2. /\ u \in FilesOf(UserLines) /\ u.lines = <<>> /\ u.held = x.held
        /\ u.exists = x.exists
    BY <2>1 DEF FilesOf
  <2> QED
    BY <2>2 DEF x
<1>2. o = [im EXCEPT !.users = u]
  BY DEF Emptied, Images
<1> HIDE DEF o, u
<1>3. /\ o \in Images /\ o.session = im.session /\ o.free = im.free
      /\ o.users.exists = im.users.exists /\ o.users.lines = <<>>
      /\ o.users.held = im.users.held
  BY <1>1, <1>2 DEF Images
<1> QED
  BY <1>3 DEF o

LEMMA SessionEmptied ==
  ASSUME NEW im \in Images
  PROVE  LET o == Emptied(im, "session")
         IN  /\ o \in Images /\ o.users = im.users /\ o.free = im.free
             /\ o.session.exists = im.session.exists /\ o.session.lines = <<>>
             /\ o.session.held = im.session.held
<1> DEFINE o == Emptied(im, "session")
           x == im.session
           u == [x EXCEPT !.lines = <<>>]
<1>1. /\ u \in FilesOf(SessionLines) /\ u.lines = <<>> /\ u.held = im.session.held
      /\ u.exists = im.session.exists
  <2>1. x \in FilesOf(SessionLines) /\ <<>> \in Seq(SessionLines)
    BY DEF Images
  <2> HIDE DEF x
  <2>2. /\ u \in FilesOf(SessionLines) /\ u.lines = <<>> /\ u.held = x.held
        /\ u.exists = x.exists
    BY <2>1 DEF FilesOf
  <2> QED
    BY <2>2 DEF x
<1>2. o = [im EXCEPT !.session = u]
  BY DEF Emptied, Images
<1> HIDE DEF o, u
<1>3. /\ o \in Images /\ o.users = im.users /\ o.free = im.free
      /\ o.session.exists = im.session.exists /\ o.session.lines = <<>>
      /\ o.session.held = im.session.held
  BY <1>1, <1>2 DEF Images
<1> QED
  BY <1>3 DEF o

LEMMA MaxOfTwo ==
  ASSUME NEW a \in Nat, NEW b \in Nat
  PROVE  Max({a, b}) \in {a, b} /\ Max({a, b}) >= a /\ Max({a, b}) >= b
<1>1. IsFiniteSet({a} \cup {b}) /\ {a} \cup {b} = {a, b}
  BY FS_Singleton, FS_AddElement
<1>2. {a, b} \subseteq Nat /\ {a, b} # {} /\ IsFiniteSet({a, b})
  BY <1>1
<1> QED
  BY <1>2, MaxProperty

\* The blocks after a line is added: no fewer than before, and enough.
LEMMA UsersHeldFor ==
  ASSUME NEW im \in Images, NEW line \in UserLines
  PROVE  LET h == HeldFor(im, "users", line)
             b == BlocksFor(Append(im.users.lines, line))
         IN  /\ h \in Nat /\ b \in Nat /\ h >= im.users.held /\ h >= b
             /\ h = im.users.held \/ h = b
             /\ LeftFor(im, "users", line) = im.free - (h - im.users.held)
             /\ LeftFor(im, "users", line) \in Int
<1> DEFINE e == im.users.held
           b == BlocksFor(Append(im.users.lines, line))
           h == HeldFor(im, "users", line)
<1>1. e \in Nat /\ Append(im.users.lines, line) \in Seq(UserLines) /\ im.free \in Nat
  BY DEF Images, FilesOf
<1>2. /\ IsFiniteSet(DOMAIN Append(im.users.lines, line))
      /\ Append(im.users.lines, line) \in [DOMAIN Append(im.users.lines, line) -> WeighedLines]
  BY <1>1, SeqIsFunction
<1>3. b \in Nat
  BY <1>2, BlocksForIn
<1>4. h = Max({e, b}) /\ LeftFor(im, "users", line) = im.free - (h - e)
  BY DEF HeldFor, LeftFor, Images
<1> HIDE DEF e, b, h
<1>5. h \in {e, b} /\ h >= e /\ h >= b
  BY <1>1, <1>3, <1>4, MaxOfTwo
<1>6. /\ h \in Nat /\ b \in Nat /\ h >= e /\ h >= b
      /\ h = e \/ h = b
      /\ LeftFor(im, "users", line) = im.free - (h - e)
      /\ LeftFor(im, "users", line) \in Int
  BY <1>1, <1>3, <1>4, <1>5
<1> QED
  BY <1>6 DEF e, b, h

LEMMA UsersLonger ==
  ASSUME NEW im \in Images, NEW line \in UserLines, ~(LeftFor(im, "users", line) < 0)
  PROVE  LET o == Longer(im, "users", line)
         IN  /\ o \in Images /\ o.session = im.session
             /\ o.users.exists = im.users.exists
             /\ o.users.lines = Append(im.users.lines, line)
             /\ o.users.held = HeldFor(im, "users", line)
             /\ o.free = LeftFor(im, "users", line)
<1> DEFINE o == Longer(im, "users", line)
           x == im.users
           l == Append(im.users.lines, line)
           h == HeldFor(im, "users", line)
           f == LeftFor(im, "users", line)
           u == [x EXCEPT !.lines = l]
           v == [u EXCEPT !.held = h]
           a == [im EXCEPT !.users = v]
           d == [a EXCEPT !.free = f]
<1>1. x \in FilesOf(UserLines) /\ l \in Seq(UserLines)
  BY DEF Images, FilesOf
<1>2. h \in Nat /\ f \in Nat
  BY UsersHeldFor DEF Images
<1>3. o = d
  BY DEF Longer, Images
<1> HIDE DEF l, h, f, x, o
<1>4. u \in FilesOf(UserLines) /\ u.lines = l /\ u.exists = x.exists
  BY <1>1 DEF FilesOf
<1> HIDE DEF u
<1>5. /\ v \in FilesOf(UserLines) /\ v.lines = l /\ v.exists = x.exists
      /\ v.held = h
  BY <1>2, <1>4 DEF FilesOf
<1> HIDE DEF v
<1>6. a \in Images /\ a.users = v /\ a.session = im.session
  BY <1>5 DEF Images
<1> HIDE DEF a
<1>7. d \in Images /\ d.users = v /\ d.session = im.session /\ d.free = f
  BY <1>2, <1>6 DEF Images
<1> HIDE DEF d
<1>8. /\ o \in Images /\ o.session = im.session /\ o.users.exists = x.exists
      /\ o.users.lines = l /\ o.users.held = h /\ o.free = f
  BY <1>3, <1>5, <1>7
<1> QED
  BY <1>8 DEF l, h, f, x, o

\* The blocks after a line is added: no fewer than before, and enough.
LEMMA SessionHeldFor ==
  ASSUME NEW im \in Images, NEW line \in SessionLines
  PROVE  LET h == HeldFor(im, "session", line)
             b == BlocksFor(Append(im.session.lines, line))
         IN  /\ h \in Nat /\ b \in Nat /\ h >= im.session.held /\ h >= b
             /\ h = im.session.held \/ h = b
             /\ LeftFor(im, "session", line) = im.free - (h - im.session.held)
             /\ LeftFor(im, "session", line) \in Int
<1> DEFINE e == im.session.held
           b == BlocksFor(Append(im.session.lines, line))
           h == HeldFor(im, "session", line)
<1>1. e \in Nat /\ Append(im.session.lines, line) \in Seq(SessionLines) /\ im.free \in Nat
  BY DEF Images, FilesOf
<1>2. /\ IsFiniteSet(DOMAIN Append(im.session.lines, line))
      /\ Append(im.session.lines, line) \in [DOMAIN Append(im.session.lines, line) -> WeighedLines]
  BY <1>1, SeqIsFunction
<1>3. b \in Nat
  BY <1>2, BlocksForIn
<1>4. h = Max({e, b}) /\ LeftFor(im, "session", line) = im.free - (h - e)
  BY DEF HeldFor, LeftFor, Images
<1> HIDE DEF e, b, h
<1>5. h \in {e, b} /\ h >= e /\ h >= b
  BY <1>1, <1>3, <1>4, MaxOfTwo
<1>6. /\ h \in Nat /\ b \in Nat /\ h >= e /\ h >= b
      /\ h = e \/ h = b
      /\ LeftFor(im, "session", line) = im.free - (h - e)
      /\ LeftFor(im, "session", line) \in Int
  BY <1>1, <1>3, <1>4, <1>5
<1> QED
  BY <1>6 DEF e, b, h

LEMMA SessionLonger ==
  ASSUME NEW im \in Images, NEW line \in SessionLines, ~(LeftFor(im, "session", line) < 0)
  PROVE  LET o == Longer(im, "session", line)
         IN  /\ o \in Images /\ o.users = im.users
             /\ o.session.exists = im.session.exists
             /\ o.session.lines = Append(im.session.lines, line)
             /\ o.session.held = HeldFor(im, "session", line)
             /\ o.free = LeftFor(im, "session", line)
<1> DEFINE o == Longer(im, "session", line)
           x == im.session
           l == Append(im.session.lines, line)
           h == HeldFor(im, "session", line)
           f == LeftFor(im, "session", line)
           u == [x EXCEPT !.lines = l]
           v == [u EXCEPT !.held = h]
           a == [im EXCEPT !.session = v]
           d == [a EXCEPT !.free = f]
<1>1. x \in FilesOf(SessionLines) /\ l \in Seq(SessionLines)
  BY DEF Images, FilesOf
<1>2. h \in Nat /\ f \in Nat
  BY SessionHeldFor DEF Images
<1>3. o = d
  BY DEF Longer, Images
<1> HIDE DEF l, h, f, x, o
<1>4. u \in FilesOf(SessionLines) /\ u.lines = l /\ u.exists = x.exists
  BY <1>1 DEF FilesOf
<1> HIDE DEF u
<1>5. /\ v \in FilesOf(SessionLines) /\ v.lines = l /\ v.exists = x.exists
      /\ v.held = h
  BY <1>2, <1>4 DEF FilesOf
<1> HIDE DEF v
<1>6. a \in Images /\ a.session = v /\ a.users = im.users
  BY <1>5 DEF Images
<1> HIDE DEF a
<1>7. d \in Images /\ d.session = v /\ d.users = im.users /\ d.free = f
  BY <1>2, <1>6 DEF Images
<1> HIDE DEF d
<1>8. /\ o \in Images /\ o.users = im.users /\ o.session.exists = x.exists
      /\ o.session.lines = l /\ o.session.held = h /\ o.free = f
  BY <1>3, <1>5, <1>7
<1> QED
  BY <1>8 DEF l, h, f, x, o

-----------------------------------------------------------------------------
(* What every image keeps *)

Distinct(lines) ==
  \A a, b \in Entries(lines) :
    a # b => lines[a].name # lines[b].name /\ lines[a].uid # lines[b].uid

\* Nobody's session is there before the accounts are.  v tells whether a word with a
\* ':' was entered: if not, no two accounts share a name or a uid.
Good(v) == {im \in Images : /\ v = FALSE => Distinct(im.users.lines)
                            /\ im.session.exists => im.users.exists
                            /\ ~im.users.exists => im.users.lines = <<>>}

\* Who a command that finds this image runs as.
Id(im) == IF ~im.session.exists \/ im.session.lines = <<>> THEN Root
          ELSE Head(im.session.lines)
SameId(v, d) == {im \in Good(v) : Id(im) = Id(d)}

LEMMA IdIn ==
  ASSUME NEW im \in Images
  PROVE  Id(im) \in SessionLines /\ Id(im).name \in NameFields /\ Id(im).uid \in Nat
<1>1. Root \in SessionLines
  BY RootWord DEF Root, SessionLines
<1>2. im.session.lines \in Seq(SessionLines)
  BY DEF Images, FilesOf
<1>3. Id(im) \in SessionLines
  BY <1>1, <1>2 DEF Id
<1> QED
  BY <1>3 DEF SessionLines

LEMMA LoadIs ==
  ASSUME NEW c
  PROVE  session_load(c) = Id(Cur(c))
BY DEF session_load, Id, Exists, Lines

LEMMA GoodIs ==
  ASSUME NEW v, NEW d \in Good(v)
  PROVE  /\ d \in SameId(v, d) /\ d \in Images
         /\ SameId(v, d) \subseteq Good(v) /\ Good(v) \subseteq Images
         /\ d.users.lines \in Seq(UserLines) /\ d.users.exists \in BOOLEAN
BY DEF Good, SameId, Images, FilesOf

LEMMA DistinctAppend ==
  ASSUME NEW l \in Seq(UserLines), NEW x \in UserLines, Distinct(l),
         \A k \in Entries(l) : l[k].name # x.name /\ l[k].uid # x.uid
  PROVE  Distinct(Append(l, x))
<1> DEFINE r == Append(l, x)
<1>1. \A k \in DOMAIN r : (k \in DOMAIN l /\ r[k] = l[k]) \/ (k = Len(l) + 1 /\ r[k] = x)
  OBVIOUS
<1>2. \A k \in Entries(r) :
        (k \in Entries(l) /\ r[k] = l[k]) \/ (k = Len(l) + 1 /\ r[k] = x)
  BY <1>1, Zenon DEF Entries
<1> HIDE DEF r
<1>3. Distinct(r)
  BY <1>2 DEF Distinct
<1> QED
  BY <1>3 DEF r

\* A new line in /.users.
LEMMA UsersAdd ==
  ASSUME NEW v, NEW d \in Good(v), NEW c \in Contexts(SameId(v, d)), Exists(c, "users"),
         NEW x \in UserLines,
         v = FALSE => \A k \in Entries(Lines(c, "users")) :
           Lines(c, "users")[k].name # x.name /\ Lines(c, "users")[k].uid # x.uid
  PROVE  AddLine(c, "users", x) \in Contexts(SameId(v, d))
<1> DEFINE im == Cur(c)
           o == Longer(im, "users", x)
<1>1. im \in SameId(v, d) /\ im \in Images /\ im.users.exists
  BY CurIn DEF Exists, SameId, Good, Images
<1>2. Lines(c, "users") = im.users.lines /\ im.users.lines \in Seq(UserLines)
  BY <1>1 DEF Lines, Images, FilesOf
<1> HIDE DEF im
<1>3. ASSUME ~(LeftFor(im, "users", x) < 0) PROVE o \in SameId(v, d)
  <2>1. /\ o \in Images /\ o.session = im.session /\ o.users.exists = im.users.exists
        /\ o.users.lines = Append(im.users.lines, x)
    BY <1>1, <1>3, UsersLonger
  <2> HIDE DEF o
  <2>2. v = FALSE => Distinct(im.users.lines)
    BY <1>1 DEF SameId, Good
  <2>3. v = FALSE => Distinct(o.users.lines)
    BY <1>2, <2>1, <2>2, DistinctAppend
  <2> QED
    BY <1>1, <2>1, <2>3 DEF SameId, Good, Id
<1>4. ~(LeftFor(Cur(c), "users", x) < 0) => Longer(Cur(c), "users", x) \in SameId(v, d)
  BY <1>3 DEF im
<1> QED
  BY <1>4, AddLineIs

LEMMA UsersOpen ==
  ASSUME NEW v, NEW d \in Good(v), NEW c \in Contexts(SameId(v, d)), NEW uid \in Nat
  PROVE  /\ OpenW(c, "users", uid) \in Contexts(SameId(v, d))
         /\ OpenW(c, "users", uid).ret >= 0 => Exists(OpenW(c, "users", uid), "users")
         /\ (OpenW(c, "users", uid).ret >= 0 /\ ~Exists(c, "users"))
               => Lines(OpenW(c, "users", uid), "users") = <<>>
<1> DEFINE im == Cur(c)
           o == Opened(im, "users", uid)
<1>1. im \in SameId(v, d) /\ im \in Images /\ im["users"] = im.users
  BY CurIn DEF SameId, Good, Images
<1> HIDE DEF im
<1>2. /\ o \in Images /\ o.session = im.session /\ o.users.exists
      /\ im.users.exists => o = im
      /\ ~im.users.exists => o.users.lines = <<>>
  BY <1>1, UsersOpened
<1>3. o["users"] = o.users
  BY <1>2 DEF Images
<1> HIDE DEF o
<1>4. Entries(<<>>) = {}
  BY DEF Entries
<1>5. o \in SameId(v, d)
  BY <1>1, <1>2, <1>4 DEF SameId, Good, Id, Distinct
<1>6. Opened(Cur(c), "users", uid) = o
  BY DEF im, o
<1>7. /\ OpenW(c, "users", uid) \in Contexts(SameId(v, d))
      /\ OpenW(c, "users", uid).ret >= 0 => Cur(OpenW(c, "users", uid)) = o
  BY <1>5, <1>6, OpenWIs
<1> QED
  BY <1>1, <1>2, <1>3, <1>7 DEF Exists, Lines, im

\* The account every new list begins with.
RootLine == Account("root", "root", 0)

LEMMA RootLineIs ==
  /\ RootLine \in UserLines /\ RootLine.name = "root" /\ RootLine.uid = 0
  /\ Root \in SessionLines /\ Root.name = "root" /\ Root.uid = 0
  /\ [name |-> RootLine.name, uid |-> RootLine.uid] = Root
<1> DEFINE r == RootLine
<1>1. r.name = "root" /\ r.uid = 0
  <2>1. r = [name |-> "root", pass |-> "root",
             third |-> [words |-> <<>>, number |-> 0], uid |-> 0]
    BY AccountIs, Zenon DEF RootLine
  <2> QED
    BY <2>1
<1>2. r \in UserLines
  <2> DEFINE f == <<"root">> \o Split["root"]
  <2>1. /\ f \in Seq(Fields) /\ Len(f) >= 2 /\ f[1] = "root" /\ f = <<"root", "root">>
        /\ LineWeight(Line(f, 0)) <= PerBlock
    BY RootWord, SplitLine
  <2> HIDE DEF f
  <2>2. Line(f, 0) \in UserLines
    BY <2>1, RootWord, LineIs
  <2> QED
    BY <2>1, <2>2 DEF RootLine, Account
<1> HIDE DEF r
<1>3. Root \in SessionLines /\ Root.name = "root" /\ Root.uid = 0
  BY RootWord DEF Root, SessionLines
<1>4. [name |-> r.name, uid |-> r.uid] = Root
  BY <1>1 DEF Root
<1> QED
  BY <1>1, <1>2, <1>3, <1>4 DEF r

\* users_bootstrap leaves what is there, or writes root's line or nothing.
LEMMA BootstrapKeeps ==
  ASSUME NEW v, NEW d \in Good(v)
  PROVE  LET m == users_bootstrap(Begin(d))
         IN  /\ m \in Contexts(SameId(v, d)) /\ Cur(m) \in Good(v) /\ Id(Cur(m)) = Id(d)
             /\ d.users.exists => m.log = <<d>> /\ Cur(m) = d
             /\ ~d.users.exists =>
                  \A k \in DOMAIN Cur(m).users.lines : Cur(m).users.lines[k] = RootLine
<1> DEFINE c == Begin(d)
           m == users_bootstrap(c)
           w == OpenW(c, "users", 0)
           a == AddLine(w, "users", RootLine)
<1>1. d \in SameId(v, d) /\ d \in Images /\ d["users"] = d.users
  BY GoodIs DEF Images
<1>2. c \in Contexts(SameId(v, d)) /\ Cur(c) = d /\ c.log = <<d>>
  BY <1>1, BeginIn DEF Begin
<1>3. Exists(c, "users") <=> d.users.exists
  BY <1>1, <1>2 DEF Exists
<1>4. m = IF Exists(c, "users") THEN Ret(c, FS_OK) ELSE IF w.ret < 0 THEN w ELSE a
  BY DEF users_bootstrap, IfOk, RootLine
<1> HIDE DEF c, m
<1>5. /\ w \in Contexts(SameId(v, d))
      /\ w.ret >= 0 => Exists(w, "users")
      /\ (w.ret >= 0 /\ ~Exists(c, "users")) => Lines(w, "users") = <<>>
  BY <1>2, UsersOpen
<1>6. w.ret \in Int
  BY <1>5 DEF Contexts
<1>7. CASE d.users.exists
  <2>1. m = Ret(c, 0) /\ 0 \in Int
    BY <1>3, <1>4, <1>7 DEF FS_OK
  <2>2. m \in Contexts(SameId(v, d)) /\ m.log = <<d>> /\ Cur(m) = d
    BY <1>2, <2>1, RetIn
  <2> QED
    BY <1>7, <2>2 DEF m, c
<1>8. CASE ~d.users.exists /\ w.ret < 0
  <2>1. m = w
    BY <1>3, <1>4, <1>8
  <2>2. Opened(d, "users", 0) \in Images
    BY <1>1, UsersOpened
  <2>3. Cur(m) = d
    <3>1. c \in Contexts(Images \cup SameId(v, d)) /\ Opened(Cur(c), "users", 0) \in Images \cup SameId(v, d)
      BY <1>2, <2>2, ContextsMono
    <3> QED
      BY <1>2, <1>8, <2>1, <3>1, OpenWIs
  <2>4. d.users.lines = <<>>
    BY <1>8 DEF Good
  <2>5. /\ m \in Contexts(SameId(v, d)) /\ Cur(m) \in Good(v) /\ Id(Cur(m)) = Id(d)
        /\ \A k \in DOMAIN Cur(m).users.lines : Cur(m).users.lines[k] = RootLine
    BY <1>5, <2>1, <2>3, <2>4
  <2> QED
    BY <1>8, <2>5 DEF m, c
<1>9. CASE ~d.users.exists /\ ~(w.ret < 0)
  <2> DEFINE im == Cur(w)
  <2>1. m = a
    BY <1>3, <1>4, <1>9
  <2>2. Exists(w, "users") /\ Lines(w, "users") = <<>>
    BY <1>3, <1>5, <1>6, <1>9
  <2>3. RootLine \in UserLines
    BY RootLineIs
  <2>4. Entries(<<>>) = {}
    BY DEF Entries
  <2>5. a \in Contexts(SameId(v, d))
    BY <1>5, <2>2, <2>3, <2>4, UsersAdd
  <2>6. im \in Images /\ im["users"].lines = <<>> /\ im["users"] = im.users
    BY <1>5, <2>2, CurIn DEF SameId, Good, Lines, Images
  <2> HIDE DEF im
  <2>7. ~(LeftFor(im, "users", RootLine) < 0) =>
          /\ Longer(im, "users", RootLine) \in Images
          /\ Longer(im, "users", RootLine).users.lines = Append(im.users.lines, RootLine)
    BY <2>3, <2>6, UsersLonger
  <2>8. w \in Contexts(Images)
    BY <1>5, ContextsMono, GoodIs, Zenon
  <2>9. \/ Cur(a) = im
        \/ /\ ~(LeftFor(im, "users", RootLine) < 0)
           /\ Cur(a) = Longer(im, "users", RootLine)
    BY <2>7, <2>8, AddLineIs DEF im
  <2>10. \A k \in DOMAIN Cur(a).users.lines : Cur(a).users.lines[k] = RootLine
    BY <2>6, <2>7, <2>9
  <2>11. Cur(m) \in SameId(v, d)
    BY <2>1, <2>5, CurIn
  <2>12. /\ m \in Contexts(SameId(v, d)) /\ Cur(m) \in Good(v) /\ Id(Cur(m)) = Id(d)
         /\ \A k \in DOMAIN Cur(m).users.lines : Cur(m).users.lines[k] = RootLine
    BY <2>1, <2>5, <2>10, <2>11 DEF SameId
  <2> QED
    BY <1>9, <2>12 DEF m, c
<1> QED
  BY <1>7, <1>8, <1>9

LEMMA WhoamiIs ==
  ASSUME NEW v, NEW d \in Good(v)
  PROVE  Whoami(d) = Id(d)
BY BootstrapKeeps, LoadIs DEF Whoami

\* What a command starts from.
LEMMA RunIs ==
  ASSUME NEW v, NEW d \in Good(v)
  PROVE  LET m == users_bootstrap(Begin(d)) IN session_load(m) = Id(d)
BY BootstrapKeeps, LoadIs

-----------------------------------------------------------------------------
(* The commands keep what every image keeps *)

LEMMA OpenRIs ==
  ASSUME NEW I, NEW c \in Contexts(I), NEW f, NEW uid
  PROVE  /\ OpenR(c, f, uid) \in Contexts(I) /\ Cur(OpenR(c, f, uid)) = Cur(c)
         /\ ~(OpenR(c, f, uid).ret < 0) => Exists(c, f)
<1> DEFINE r == IF ~Exists(c, f) THEN FS_ENOENT
                ELSE IF perm_can_read(Cur(c)[f], uid) THEN FS_OK ELSE FS_EPERM
<1>1. r \in Int /\ (~(r < 0) => Exists(c, f))
  BY DEF FS_ENOENT, FS_OK, FS_EPERM
<1>2. OpenR(c, f, uid) = Ret(c, r)
  BY DEF OpenR
<1> HIDE DEF r
<1> QED
  BY <1>1, <1>2, RetIn

LEMMA Codes ==
  /\ FS_OK \in Int /\ FS_ERR \in Int /\ FS_ENOENT \in Int /\ FS_EPERM \in Int
  /\ FS_EEXIST \in Int
BY DEF FS_OK, FS_ERR, FS_ENOENT, FS_EPERM, FS_EEXIST

LEMMA EntriesIn ==
  ASSUME NEW lines \in Seq(UserLines), NEW k \in Entries(lines)
  PROVE  /\ k \in 1 .. Len(lines) /\ k \in DOMAIN lines /\ lines[k] \in UserLines
         /\ lines[k].uid \in Nat /\ lines[k].name \in NameFields /\ Parses(lines[k])
<1>1. k \in DOMAIN lines /\ Parses(lines[k])
  BY DEF Entries
<1>2. k \in 1 .. Len(lines) /\ lines[k] \in UserLines
  BY <1>1
<1> QED
  BY <1>1, <1>2 DEF UserLines

\* The uid useradd gives is more than any in use.
LEMMA FreshUid ==
  ASSUME NEW lines \in Seq(UserLines)
  PROVE  LET uid == Max({0} \cup {l.uid : l \in {lines[k] : k \in Entries(lines)}}) + 1
         IN  uid \in Nat /\ \A k \in Entries(lines) : lines[k].uid < uid
<1> DEFINE E == Entries(lines)
           T == {0} \cup {l.uid : l \in {lines[k] : k \in E}}
           D == 0 .. Len(lines)
           f == [k \in D |-> IF k = 0 THEN 0 ELSE lines[k].uid]
           R == {f[k] : k \in D}
<1>1. \A k \in E : k \in 1 .. Len(lines) /\ lines[k].uid \in Nat
  BY EntriesIn
<1> HIDE DEF E
<1>2. \A t \in T : t = 0 \/ \E k \in E : t = lines[k].uid
  OBVIOUS
<1>3. \A k \in E : lines[k].uid \in T
  OBVIOUS
<1>4. 0 \in T
  OBVIOUS
<1> HIDE DEF T
<1>5. IsFiniteSet(D)
  BY FS_Interval
<1>6. f \in Surjection(D, R)
  BY DEF Surjection
<1>7. 0 \in D /\ f[0] = 0
  OBVIOUS
<1>8. \A k \in E : k \in D /\ f[k] = lines[k].uid
  BY <1>1
<1>9. T \subseteq R
  BY <1>2, <1>7, <1>8
<1>10. T \subseteq Nat
  BY <1>1, <1>2
<1> HIDE DEF R, f, D
<1>11. IsFiniteSet(T)
  BY <1>5, <1>6, <1>9, FS_Surjection, FS_Subset
<1>12. Max(T) \in Nat /\ \A k \in E : Max(T) >= lines[k].uid
  BY <1>3, <1>4, <1>10, <1>11, MaxProperty
<1>13. Max(T) + 1 \in Nat /\ \A k \in E : lines[k].uid < Max(T) + 1
  BY <1>1, <1>12
<1> QED
  BY <1>13 DEF T, E

\* The line that useradd writes.
LEMMA AddedIs ==
  ASSUME NEW n \in Names, NEW p \in Passwords, NEW uid \in Nat
  PROVE  LET x == Line(Split[n] \o Split[p], uid)
         IN  /\ x \in UserLines
             /\ (Plain(n) /\ Plain(p)) =>
                  x = Account(n, p, uid) /\ x.name = n /\ x.uid = uid
<1> DEFINE f == Split[n] \o Split[p]
<1>1. /\ f \in Seq(Fields) /\ Len(f) >= 2 /\ f[1] \in NameFields
      /\ (Plain(n) /\ Plain(p)) => f = <<n, p>>
      /\ LineWeight(Line(f, 0)) <= PerBlock
  BY SplitAdded
<1> HIDE DEF f
<1>2. Line(f, uid) \in UserLines
  BY <1>1, LineIs
<1>3. (Plain(n) /\ Plain(p)) => Line(f, uid) = Account(n, p, uid)
  BY <1>1 DEF Account
<1>4. Account(n, p, uid).name = n /\ Account(n, p, uid).uid = uid
  <2>1. Account(n, p, uid) = [name |-> n, pass |-> p,
                              third |-> [words |-> <<>>, number |-> uid], uid |-> uid]
    BY AccountIs, Zenon
  <2> QED
    BY <2>1
<1> QED
  BY <1>2, <1>3, <1>4 DEF f

LEMMA AddKeeps ==
  ASSUME NEW v, NEW d \in Good(v), NEW c \in Contexts(SameId(v, d)), NEW id \in SessionLines,
         NEW n \in Names, NEW p \in Passwords, v = FALSE => Plain(n) /\ Plain(p)
  PROVE  users_add(c, id, n, p) \in Contexts(SameId(v, d))
<1> DEFINE fd == OpenR(c, "users", id.uid)
           lines == Lines(c, "users")
           known == {lines[k] : k \in Entries(lines)}
           uid == Max({0} \cup {l.uid : l \in known}) + 1
           w == OpenW(c, "users", id.uid)
           x == Line(Split[n] \o Split[p], uid)
           a == AddLine(w, "users", x)
<1>1. /\ Ret(c, FS_EPERM) \in Contexts(SameId(v, d)) /\ Ret(c, FS_ERR) \in Contexts(SameId(v, d))
      /\ Ret(c, FS_EEXIST) \in Contexts(SameId(v, d))
  BY RetIn, Codes
<1>2. lines \in Seq(UserLines)
  <2>1. Cur(c) \in Images /\ Cur(c)["users"] = Cur(c).users
    BY CurIn DEF SameId, Good, Images
  <2> QED
    BY <2>1 DEF Lines, Images, FilesOf
<1>3. ASSUME id.uid = 0, ~(fd.ret < 0), ~\E l \in known : l.name = n
      PROVE  a \in Contexts(SameId(v, d))
  <2>1. Exists(c, "users")
    BY <1>3, OpenRIs
  <2>2. w \in Contexts(SameId(v, d)) /\ w.ret = 0
    <3>1. Opened(Cur(c), "users", id.uid) = Cur(c) /\ Cur(c) \in SameId(v, d)
      BY <2>1, CurIn DEF Opened, Exists
    <3> QED
      BY <1>3, <2>1, <3>1, OpenWIs
  <2>3. Cur(w) = Cur(c)
    <3>1. Opened(Cur(c), "users", id.uid) = Cur(c) /\ Cur(c) \in SameId(v, d)
      BY <2>1, CurIn DEF Opened, Exists
    <3> QED
      BY <2>2, <3>1, OpenWIs
  <2>4. Exists(w, "users") /\ Lines(w, "users") = lines
    BY <2>1, <2>3 DEF Exists, Lines
  <2> HIDE DEF lines, w
  <2>5. uid \in Nat /\ \A k \in Entries(lines) : lines[k].uid < uid
    BY <1>2, FreshUid
  <2>6. \A k \in Entries(lines) : lines[k] \in known
    OBVIOUS
  <2>7. \A k \in Entries(lines) : lines[k].name # n
    BY <1>3, <2>6, Zenon
  <2>8. \A k \in Entries(lines) : lines[k].uid \in Nat
    BY <1>2, EntriesIn
  <2> HIDE DEF known, uid
  <2>9. x \in UserLines /\ (v = FALSE => x.name = n /\ x.uid = uid)
    BY <2>5, AddedIs
  <2> HIDE DEF x
  <2>10. v = FALSE => \A k \in Entries(Lines(w, "users")) :
           Lines(w, "users")[k].name # x.name /\ Lines(w, "users")[k].uid # x.uid
    BY <2>4, <2>5, <2>7, <2>8, <2>9
  <2> QED
    BY <2>2, <2>4, <2>9, <2>10, UsersAdd
<1>4. users_add(c, id, n, p) =
        IF id.uid # 0 THEN Ret(c, FS_EPERM)
        ELSE IF fd.ret < 0 THEN Ret(c, FS_ERR)
        ELSE IF \E l \in known : l.name = n THEN Ret(c, FS_EEXIST)
        ELSE a
  BY DEF users_add
<1> HIDE DEF a, known, fd
<1> QED
  BY <1>1, <1>3, <1>4, Zenon

LEMMA UseraddKeeps ==
  ASSUME NEW v, NEW d \in Good(v), NEW n \in Names, NEW p \in Passwords,
         v = FALSE => Plain(n) /\ Plain(p)
  PROVE  Useradd(d, n, p) \in Contexts(SameId(v, d))
<1> DEFINE m == users_bootstrap(Begin(d))
<1>1. Useradd(d, n, p) = users_add(m, session_load(m), n, p)
  BY DEF Useradd, Run
<1>2. m \in Contexts(SameId(v, d)) /\ session_load(m) = Id(d)
  BY BootstrapKeeps, RunIs
<1>3. Id(d) \in SessionLines
  BY GoodIs, IdIn
<1> HIDE DEF m
<1> QED
  BY <1>1, <1>2, <1>3, AddKeeps

-----------------------------------------------------------------------------
(* The loop of users_change_password *)

\* g is the recursive function by which FoldLeft runs the loop over the lines at
\* the positions in s, for the s of S.
RewriteOn(S, name, pass, base, lines, g) ==
  g = [s \in S |-> IF s = {} THEN base
                   ELSE Rewrite(g[s \ {Max(s)}], name, pass, lines[Max(s)])]

LEMMA RewriteExists ==
  ASSUME NEW D, D \subseteq Nat, IsFiniteSet(D), NEW name, NEW pass, NEW base, NEW lines
  PROVE  \E g : RewriteOn(SUBSET D, name, pass, base, lines, g)
<1> DEFINE Upto(n) == {s \in SUBSET D : Cardinality(s) <= n}
           T == {n \in Nat : \A g : ~RewriteOn(Upto(n), name, pass, base, lines, g)}
<1>1. \A s \in SUBSET D : IsFiniteSet(s) /\ Cardinality(s) \in Nat
  BY FS_Subset, FS_CardinalityType
<1>2. ASSUME NEW s \in SUBSET D, s # {}
      PROVE  /\ Max(s) \in s /\ s \ {Max(s)} \in SUBSET D
             /\ Cardinality(s \ {Max(s)}) = Cardinality(s) - 1
             /\ Cardinality(s) # 0
  <2>1. Max(s) \in s
    BY <1>1, <1>2, MaxProperty
  <2> QED
    BY <1>1, <1>2, <2>1, FS_RemoveElement, FS_EmptySet
<1>3. ASSUME T # {} PROVE FALSE
  <2>1. PICK n \in T : \A k \in T : n <= k
    BY <1>3, LeastElement
  <2>2. n # 0
    <3>1. \A s \in Upto(0) : s = {}
      BY <1>1, FS_EmptySet
    <3>2. RewriteOn(Upto(0), name, pass, base, lines, [s \in Upto(0) |-> base])
      BY <3>1 DEF RewriteOn
    <3> QED
      BY <3>2, <2>1
  <2>3. n - 1 \in Nat /\ n - 1 \notin T
    <3>1. n - 1 \in Nat /\ ~(n <= n - 1)
      BY <2>1, <2>2
    <3> QED
      BY <2>1, <3>1, Zenon
  <2>4. PICK g : RewriteOn(Upto(n - 1), name, pass, base, lines, g)
    BY <2>3
  <2> DEFINE h == [s \in Upto(n) |-> IF s = {} THEN base
                     ELSE Rewrite(g[s \ {Max(s)}], name, pass, lines[Max(s)])]
  <2>5. ASSUME NEW s \in Upto(n - 1) PROVE s \in Upto(n) /\ h[s] = g[s]
    <3>1. s \in SUBSET D /\ Cardinality(s) \in Nat /\ Cardinality(s) <= n - 1 /\ n \in Nat
      BY <1>1, <2>1
    <3>2. s \in Upto(n)
      BY <3>1
    <3> QED
      BY <2>4, <3>2 DEF RewriteOn
  <2>6. \A s \in Upto(n) : s # {} => s \ {Max(s)} \in Upto(n - 1)
    BY <1>1, <1>2, <2>3
  <2>7. RewriteOn(Upto(n), name, pass, base, lines, h)
    BY <2>5, <2>6 DEF RewriteOn
  <2> QED
    BY <2>7, <2>1
<1>4. Cardinality(D) \in Nat /\ Cardinality(D) \notin T
  BY <1>1, <1>3
<1>5. \A s \in SUBSET D : Cardinality(s) <= Cardinality(D)
  BY FS_Subset
<1>6. Upto(Cardinality(D)) = SUBSET D
  BY <1>5
<1> QED
  BY <1>4, <1>6

\* The whole loop, and the contexts it goes through: h[k] after k lines.
Loop(name, pass, base, lines) == FoldLeft(LAMBDA s, l : Rewrite(s, name, pass, l), base, lines)

LEMMA LoopFold ==
  ASSUME NEW name, NEW pass, NEW base, NEW lines,
         \E g : RewriteOn(SUBSET DOMAIN lines, name, pass, base, lines, g)
  PROVE  \E g : /\ RewriteOn(SUBSET DOMAIN lines, name, pass, base, lines, g)
                /\ Loop(name, pass, base, lines) = g[DOMAIN lines]
BY DEF Loop, FoldLeft, MapThenFoldSet, RewriteOn

LEMMA MaxOfFirst ==
  ASSUME NEW k \in Nat \ {0}
  PROVE  Max(1 .. k) = k /\ (1 .. k) \ {k} = 1 .. k - 1 /\ 1 .. k # {}
<1>1. IsFiniteSet(1 .. k) /\ 1 .. k \subseteq Nat /\ k \in 1 .. k
  BY FS_Interval
<1>2. Max(1 .. k) \in 1 .. k /\ Max(1 .. k) >= k
  BY <1>1, MaxProperty
<1> QED
  BY <1>2

GoesThrough(h, name, pass, base, lines) ==
  /\ h[0] = base
  /\ \A k \in 1 .. Len(lines) : h[k] = Rewrite(h[k - 1], name, pass, lines[k])
  /\ Loop(name, pass, base, lines) = h[Len(lines)]

LEMMA LoopSteps ==
  ASSUME NEW name, NEW pass, NEW base, NEW lines \in Seq(UserLines)
  PROVE  \E h : GoesThrough(h, name, pass, base, lines)
<1> DEFINE D == DOMAIN lines
           n == Len(lines)
<1>1. D = 1 .. n /\ n \in Nat
  OBVIOUS
<1>2. D \subseteq Nat /\ IsFiniteSet(D)
  BY <1>1, FS_Interval
<1> HIDE DEF D, n
<1>3. PICK g : /\ RewriteOn(SUBSET D, name, pass, base, lines, g)
               /\ Loop(name, pass, base, lines) = g[D]
  BY <1>2, RewriteExists, LoopFold DEF D
<1> DEFINE h == [k \in 0 .. n |-> g[1 .. k]]
<1>4. h[0] = base
  <2>1. 1 .. 0 = {} /\ {} \in SUBSET D /\ 0 \in 0 .. n
    BY <1>1
  <2> QED
    BY <1>3, <2>1 DEF RewriteOn
<1>5. ASSUME NEW k \in 1 .. n PROVE h[k] = Rewrite(h[k - 1], name, pass, lines[k])
  <2>1. k \in Nat \ {0} /\ k \in 0 .. n /\ k - 1 \in 0 .. n /\ 1 .. k \in SUBSET D
    BY <1>1
  <2>2. Max(1 .. k) = k /\ (1 .. k) \ {k} = 1 .. k - 1 /\ 1 .. k # {}
    BY <2>1, MaxOfFirst
  <2>3. g[1 .. k] = Rewrite(g[1 .. k - 1], name, pass, lines[k])
    BY <1>3, <2>1, <2>2 DEF RewriteOn
  <2> QED
    BY <2>1, <2>3
<1>6. Loop(name, pass, base, lines) = h[n]
  BY <1>1, <1>3
<1>7. GoesThrough(h, name, pass, base, lines)
  BY <1>4, <1>5, <1>6 DEF GoesThrough, n
<1> QED
  BY <1>7

\* The line that Rewrite writes for l.
Changed(l, name, pass) ==
  IF l.name = name THEN Line(<<l.name>> \o Split[pass], l.uid)
  ELSE Account(l.name, l.pass, l.uid)

LEMMA ChangedIs ==
  ASSUME NEW l \in UserLines, NEW name, NEW pass \in Passwords
  PROVE  /\ Changed(l, name, pass) \in UserLines
         /\ Plain(pass) =>
              /\ Changed(l, name, pass)
                   = Account(l.name, IF l.name = name THEN pass ELSE l.pass, l.uid)
              /\ Changed(l, name, pass).name = l.name /\ Changed(l, name, pass).uid = l.uid
              /\ Changed(l, name, pass).pass = IF l.name = name THEN pass ELSE l.pass
<1> DEFINE x == Changed(l, name, pass)
           f == <<l.name>> \o Split[pass]
<1>1. l.name \in NameFields /\ l.uid \in Nat
  BY DEF UserLines
<1>2. /\ f \in Seq(Fields) /\ Len(f) >= 2 /\ f[1] = l.name
      /\ Plain(pass) => f = <<l.name, pass>>
      /\ LineWeight(Line(f, 0)) <= PerBlock
  BY <1>1, SplitLine
<1>3. x = IF l.name = name THEN Line(f, l.uid) ELSE Account(l.name, l.pass, l.uid)
  BY DEF Changed
<1> HIDE DEF x, f
<1>4. Line(f, l.uid) \in UserLines
  BY <1>1, <1>2, LineIs
<1>5. x \in UserLines
  BY <1>3, <1>4, AccountIn
<1>6. Plain(pass) => x = Account(l.name, IF l.name = name THEN pass ELSE l.pass, l.uid)
  BY <1>2, <1>3, Zenon DEF Account
<1>7. \A q : /\ Account(l.name, q, l.uid).name = l.name /\ Account(l.name, q, l.uid).pass = q
             /\ Account(l.name, q, l.uid).uid = l.uid
  <2> TAKE q
  <2>1. Account(l.name, q, l.uid)
          = [name |-> l.name, pass |-> q,
             third |-> [words |-> <<>>, number |-> l.uid], uid |-> l.uid]
    BY AccountIs, Zenon
  <2> QED
    BY <2>1
<1> QED
  BY <1>5, <1>6, <1>7 DEF x

\* After k lines of the old list, the new one has accounts of theirs, unless a word
\* with a ':' was entered.
Built(v, s, d, lines, k) ==
  /\ s \in Contexts(SameId(v, d)) /\ Exists(s, "users")
  /\ v = FALSE => \A a \in DOMAIN Lines(s, "users") : \E m \in Entries(lines) :
       /\ m <= k
       /\ Lines(s, "users")[a].name = lines[m].name
       /\ Lines(s, "users")[a].uid = lines[m].uid

LEMMA RewriteBuilds ==
  ASSUME NEW v, NEW d \in Good(v), NEW lines \in Seq(UserLines),
         NEW name \in Names, NEW pass \in Passwords,
         v = FALSE => Plain(pass) /\ Distinct(lines), NEW k \in 1 .. Len(lines),
         NEW s, Built(v, s, d, lines, k - 1)
  PROVE  Built(v, Rewrite(s, name, pass, lines[k]), d, lines, k)
<1> DEFINE l == lines[k]
           x == Changed(l, name, pass)
           r == Rewrite(s, name, pass, l)
           im == Cur(s)
           old == im.users.lines
<1>1. l \in UserLines /\ k \in DOMAIN lines /\ k \in Nat
  OBVIOUS
<1>2. \A m \in Entries(lines) : m \in Nat
  BY EntriesIn
<1>3. CASE ~Parses(l)
  <2>1. r = s
    BY <1>3 DEF Rewrite
  <2>2. \A m \in Entries(lines) : m <= k - 1 => m <= k
    BY <1>1, <1>2
  <2>3. Built(v, s, d, lines, k)
    BY <2>2 DEF Built
  <2> QED
    BY <2>1, <2>3
<1>4. CASE Parses(l)
  <2>1. k \in Entries(lines)
    BY <1>1, <1>4 DEF Entries
  <2>2. r = AddLine(s, "users", x)
    BY <1>4 DEF Rewrite, Changed
  <2>3. x \in UserLines /\ (v = FALSE => x.name = l.name /\ x.uid = l.uid)
    BY <1>1, ChangedIs
  <2>4. s \in Contexts(SameId(v, d)) /\ Exists(s, "users")
    BY DEF Built
  <2>5. im \in Images /\ im["users"] = im.users /\ im.users.exists
    BY <2>4, CurIn DEF SameId, Good, Images, Exists
  <2>6. Lines(s, "users") = old /\ old \in Seq(UserLines)
    BY <2>5 DEF Lines, Images, FilesOf
  <2>7. v = FALSE => \A a \in DOMAIN old : \E m \in Entries(lines) :
          m <= k - 1 /\ old[a].name = lines[m].name /\ old[a].uid = lines[m].uid
    BY <2>6 DEF Built
  <2> HIDE DEF old, x, l, r
  <2>8. \A a \in Entries(old) : a \in DOMAIN old
    BY DEF Entries
  <2>9. v = FALSE => \A a \in DOMAIN old : old[a].name # x.name /\ old[a].uid # x.uid
    <3> SUFFICES ASSUME v = FALSE, NEW a \in DOMAIN old
                 PROVE  old[a].name # x.name /\ old[a].uid # x.uid
      OBVIOUS
    <3>1. PICK m \in Entries(lines) :
            m <= k - 1 /\ old[a].name = lines[m].name /\ old[a].uid = lines[m].uid
      BY <2>7
    <3>2. m # k
      BY <1>1, <1>2, <3>1
    <3>3. lines[m].name # lines[k].name /\ lines[m].uid # lines[k].uid
      BY <2>1, <3>2 DEF Distinct
    <3> QED
      BY <2>3, <3>1, <3>3 DEF l
  <2>10. r \in Contexts(SameId(v, d))
    BY <2>2, <2>3, <2>4, <2>6, <2>8, <2>9, UsersAdd
  <2> HIDE DEF im
  <2>11. ~(LeftFor(im, "users", x) < 0) =>
           /\ Longer(im, "users", x) \in Images
           /\ Longer(im, "users", x).users.lines = Append(im.users.lines, x)
           /\ Longer(im, "users", x).users.exists
           /\ Longer(im, "users", x)["users"] = Longer(im, "users", x).users
    BY <2>3, <2>5, UsersLonger DEF Images
  <2>12. s \in Contexts(Images)
    BY <2>4, ContextsMono, GoodIs, Zenon
  <2>13. \/ Cur(r) = im
         \/ /\ ~(LeftFor(im, "users", x) < 0)
            /\ Cur(r) = Longer(im, "users", x)
    BY <2>2, <2>11, <2>12, AddLineIs DEF im
  <2> DEFINE new == Lines(r, "users")
  <2>14. Exists(r, "users") /\ (new = old \/ new = Append(old, x))
    BY <2>5, <2>11, <2>13 DEF Exists, Lines, old
  <2> HIDE DEF new
  <2>15. \A a \in DOMAIN new : (a \in DOMAIN old /\ new[a] = old[a]) \/ new[a] = x
    BY <2>6, <2>14
  <2>16. ASSUME v = FALSE, NEW a \in DOMAIN new
         PROVE  \E m \in Entries(lines) :
                  m <= k /\ new[a].name = lines[m].name /\ new[a].uid = lines[m].uid
    <3>1. CASE new[a] = x
      <4>1. k <= k
        BY <1>1
      <4> QED
        BY <2>1, <2>3, <2>16, <3>1, <4>1 DEF l
    <3>2. CASE a \in DOMAIN old /\ new[a] = old[a]
      <4>1. PICK m \in Entries(lines) :
              m <= k - 1 /\ old[a].name = lines[m].name /\ old[a].uid = lines[m].uid
        BY <2>7, <2>16, <3>2
      <4>2. m <= k
        BY <1>1, <1>2, <4>1
      <4> QED
        BY <3>2, <4>1, <4>2
    <3> QED
      BY <2>15, <3>1, <3>2
  <2> QED
    BY <2>10, <2>14, <2>16, Zenon DEF Built, new, r, l
<1> QED
  BY <1>3, <1>4

LEMMA LoopKeeps ==
  ASSUME NEW v, NEW d \in Good(v), NEW base \in Contexts(SameId(v, d)), Exists(base, "users"),
         Lines(base, "users") = <<>>, NEW lines \in Seq(UserLines),
         NEW name \in Names, NEW pass \in Passwords,
         v = FALSE => Plain(pass) /\ Distinct(lines)
  PROVE  Loop(name, pass, base, lines) \in Contexts(SameId(v, d))
<1> DEFINE n == Len(lines)
<1>0. PICK h : GoesThrough(h, name, pass, base, lines)
  BY LoopSteps
<1>1. /\ h[0] = base
      /\ \A k \in 1 .. n : h[k] = Rewrite(h[k - 1], name, pass, lines[k])
      /\ Loop(name, pass, base, lines) = h[n]
  BY <1>0 DEF GoesThrough
<1>2. n \in Nat
  OBVIOUS
<1> DEFINE T == {k \in 0 .. n : ~Built(v, h[k], d, lines, k)}
<1>3. ASSUME T # {} PROVE FALSE
  <2>1. PICK k \in T : \A j \in T : k <= j
    <3>1. T \subseteq Nat
      OBVIOUS
    <3> QED
      BY <1>3, <3>1, LeastElement
  <2>2. CASE k = 0
    <3>1. \A a \in DOMAIN Lines(base, "users") : FALSE
      OBVIOUS
    <3>2. Built(v, base, d, lines, 0)
      BY <3>1 DEF Built
    <3> QED
      BY <1>1, <2>1, <2>2, <3>2
  <2>3. CASE k # 0
    <3>1. k \in 1 .. n /\ k - 1 \in 0 .. n /\ ~(k <= k - 1)
      BY <1>2, <2>1, <2>3
    <3>2. Built(v, h[k - 1], d, lines, k - 1)
      BY <2>1, <3>1, Zenon
    <3>3. Built(v, h[k], d, lines, k)
      BY <1>1, <3>1, <3>2, RewriteBuilds
    <3> QED
      BY <2>1, <3>3
  <2> QED
    BY <2>2, <2>3
<1>4. Built(v, h[n], d, lines, n)
  BY <1>2, <1>3
<1> QED
  BY <1>1, <1>4 DEF Built

LEMMA PasswordKeeps ==
  ASSUME NEW v, NEW d \in Good(v), NEW c \in Contexts(SameId(v, d)), NEW id \in SessionLines,
         NEW n \in Names, NEW p \in Passwords, v = FALSE => Plain(p)
  PROVE  users_change_password(c, id, n, p) \in Contexts(SameId(v, d))
<1> DEFINE fd == OpenR(c, "users", id.uid)
           w == OpenW(c, "users", id.uid)
           z == SetSizeZero(w, "users")
           lines == Lines(c, "users")
           im == Cur(w)
           e == Emptied(im, "users")
<1>1. /\ Ret(c, FS_EPERM) \in Contexts(SameId(v, d)) /\ Ret(c, FS_ERR) \in Contexts(SameId(v, d))
  BY RetIn, Codes
<1>2. id.uid \in Nat
  BY DEF SessionLines
<1>3. /\ w \in Contexts(SameId(v, d)) /\ w.ret \in Int
      /\ w.ret >= 0 => Exists(w, "users")
  BY <1>2, UsersOpen DEF Contexts
<1>4. lines \in Seq(UserLines) /\ (v = FALSE => Plain(p) /\ Distinct(lines))
  <2>1. /\ Cur(c) \in Images /\ Cur(c)["users"] = Cur(c).users
        /\ v = FALSE => Distinct(Cur(c).users.lines)
    BY CurIn DEF SameId, Good, Images
  <2> QED
    BY <2>1 DEF Lines, Images, FilesOf
<1> HIDE DEF lines, w
<1>5. ASSUME ~(w.ret < 0) PROVE Ret(Loop(n, p, z, lines), FS_OK) \in Contexts(SameId(v, d))
  <2>1. Exists(w, "users")
    BY <1>3, <1>5
  <2>2. im \in SameId(v, d) /\ im \in Images /\ im["users"] = im.users /\ im.users.exists
    BY <1>3, <2>1, CurIn DEF SameId, Good, Images, Exists
  <2> HIDE DEF im
  <2>3. /\ e \in Images /\ e.session = im.session
        /\ e.users.exists = im.users.exists /\ e.users.lines = <<>>
    BY <2>2, UsersEmptied
  <2> HIDE DEF e
  <2>4. Distinct(<<>>)
    BY DEF Distinct, Entries
  <2>5. e \in SameId(v, d) /\ e["users"] = e.users
    BY <2>2, <2>3, <2>4 DEF SameId, Good, Id, Images
  <2>6. z \in Contexts(SameId(v, d)) /\ Cur(z) = e
    BY <1>3, <2>5, SetSizeZeroIs DEF im, e
  <2>7. Exists(z, "users") /\ Lines(z, "users") = <<>>
    BY <2>2, <2>3, <2>5, <2>6 DEF Exists, Lines
  <2> HIDE DEF z
  <2>8. Loop(n, p, z, lines) \in Contexts(SameId(v, d))
    BY <1>4, <2>6, <2>7, LoopKeeps
  <2> QED
    BY <2>8, RetIn, Codes
<1>6. users_change_password(c, id, n, p) =
        IF id.uid # 0 /\ id.name # n THEN Ret(c, FS_EPERM)
        ELSE IF fd.ret < 0 THEN Ret(c, FS_ERR)
        ELSE IF w.ret < 0 THEN w
        ELSE Ret(Loop(n, p, z, lines), FS_OK)
  BY DEF users_change_password, Loop, w, lines
<1> HIDE DEF fd, z
<1> QED
  BY <1>1, <1>3, <1>5, <1>6, Zenon

LEMMA PasswdKeeps ==
  ASSUME NEW v, NEW d \in Good(v), NEW n \in Names, NEW p \in Passwords,
         v = FALSE => Plain(p)
  PROVE  Password(d, n, p) \in Contexts(SameId(v, d))
<1> DEFINE m == users_bootstrap(Begin(d))
<1>1. Password(d, n, p) = users_change_password(m, session_load(m), n, p)
  BY DEF Password, Run
<1>2. m \in Contexts(SameId(v, d)) /\ session_load(m) = Id(d)
  BY BootstrapKeeps, RunIs
<1>3. Id(d) \in SessionLines
  BY GoodIs, IdIn
<1> HIDE DEF m
<1> QED
  BY <1>1, <1>2, <1>3, PasswordKeeps

LEMMA ChmodKeeps ==
  ASSUME NEW v, NEW d \in Good(v), NEW f \in Both, NEW mode \in Modes
  PROVE  Chmod(d, f, mode) \in Contexts(SameId(v, d))
<1> DEFINE m == users_bootstrap(Begin(d))
           im == Cur(m)
           o == [im EXCEPT ![f].mode = mode]
<1>1. m \in Contexts(SameId(v, d)) /\ im \in SameId(v, d) /\ im \in Images
  <2>1. m \in Contexts(SameId(v, d))
    BY BootstrapKeeps
  <2> QED
    BY <2>1, CurIn DEF SameId, Good
<1>2. Chmod(d, f, mode) = cmd_chmod(m, session_load(m), f, mode)
  BY DEF Chmod, Run
<1> HIDE DEF m
<1>3. cmd_chmod(m, session_load(m), f, mode)
        \in {Ret(m, FS_ENOENT), Ret(m, FS_EPERM), DevWrite(m, o)}
  BY DEF cmd_chmod
<1> HIDE DEF im
<1>4. o \in SameId(v, d)
  <2> DEFINE x == im[f]
             u == [x EXCEPT !.mode = mode]
  <2>1. CASE f = "users"
    <3>1. x \in FilesOf(UserLines) /\ x = im.users
      BY <1>1, <2>1 DEF Images
    <3>2. o = [im EXCEPT !.users = u]
      BY <1>1, <2>1 DEF Images
    <3> HIDE DEF x, o
    <3>3. u \in FilesOf(UserLines) /\ u.lines = x.lines /\ u.exists = x.exists
      BY <3>1 DEF FilesOf
    <3> HIDE DEF u
    <3>4. o \in Images /\ o.users = u /\ o.session = im.session
      BY <1>1, <3>2, <3>3 DEF Images
    <3> QED
      BY <1>1, <3>1, <3>3, <3>4 DEF SameId, Good, Id
  <2>2. CASE f = "session"
    <3>1. x \in FilesOf(SessionLines) /\ x = im.session
      BY <1>1, <2>2 DEF Images
    <3>2. o = [im EXCEPT !.session = u]
      BY <1>1, <2>2 DEF Images
    <3> HIDE DEF x, o
    <3>3. u \in FilesOf(SessionLines) /\ u.lines = x.lines /\ u.exists = x.exists
      BY <3>1 DEF FilesOf
    <3> HIDE DEF u
    <3>4. o \in Images /\ o.session = u /\ o.users = im.users
      BY <1>1, <3>2, <3>3 DEF Images
    <3> QED
      BY <1>1, <3>1, <3>3, <3>4 DEF SameId, Good, Id
  <2> QED
    BY <2>1, <2>2 DEF Both
<1> HIDE DEF o
<1> QED
  BY <1>1, <1>2, <1>3, <1>4, RetIn, Codes, DevWriteIn

-----------------------------------------------------------------------------
(* login *)

\* What saving the session of id shows.
Saved(v, im, id) == {o \in Good(v) : Id(o) \in {Id(im), Root, id}}
Straight(v, im, id) == {o \in Good(v) : Id(o) \in {Id(im), id}}

LEMMA OneLine ==
  ASSUME NEW id \in UserLines \cup SessionLines
  PROVE  BlocksFor(Append(<<>>, id)) \in Nat /\ BlocksFor(Append(<<>>, id)) <= 1
<1> DEFINE a == Append(<<>>, id)
           b == <<>>
<1>1. /\ a \in [{1} -> WeighedLines] /\ b \in [{} -> WeighedLines]
      /\ \A k \in {1} : k # 1 => k \in {} /\ LineWeight(a[k]) <= LineWeight(b[k])
  BY DEF WeighedLines
<1>2. IsFiniteSet({1}) /\ IsFiniteSet({})
  BY FS_Singleton, FS_EmptySet
<1> HIDE DEF a, b
<1>3. BlocksFor(a) <= BlocksFor(b) + 1
  BY <1>1, <1>2, OneMoreBlock
<1>4. BlocksFor(b) = 0 /\ BlocksFor(a) \in Nat
  BY <1>1, <1>2, NoLines, BlocksForIn DEF b
<1>5. BlocksFor(a) \in Nat /\ BlocksFor(a) <= 1
  BY <1>3, <1>4
<1> QED
  BY <1>5 DEF a

LEMMA StillRoom ==
  ASSUME NEW h \in Nat, NEW b \in Nat, NEW e \in Nat, NEW f \in Nat, h = e \/ h = b,
         b <= e + f
  PROVE  ~(f - (h - e) < 0)
OBVIOUS

LEMMA NoBlockLeft ==
  ASSUME NEW h \in Nat, NEW b \in Nat, NEW e \in Nat, NEW f \in Nat, b <= 1, h = e \/ h = b,
         f - (h - e) < 0
  PROVE  f = 0 /\ e = 0
OBVIOUS

LEMMA SaveShows ==
  ASSUME NEW v, NEW im \in Good(v), im.users.exists,
         NEW c \in Contexts(SameId(v, im)), Cur(c) = im,
         NEW id \in SessionLines
  PROVE  /\ session_save(c, id) \in Contexts(Saved(v, im, id))
         /\ \/ session_save(c, id) \in Contexts(Straight(v, im, id))
            \/ Cur(session_save(c, id)).session.lines = <<>> =>
                 im.free = 0 /\ im.session.held = 0
<1> DEFINE fd == OpenW(c, "session", id.uid)
           z == SetSizeZero(fd, "session")
           a == AddLine(z, "session", id)
           o == Opened(im, "session", id.uid)
           e == Emptied(o, "session")
           l == Longer(e, "session", id)
           left == LeftFor(e, "session", id)
<1>1. session_save(c, id) = IF fd.ret < 0 THEN fd ELSE a
  BY DEF session_save
<1>2. im \in Images /\ im["session"] = im.session /\ id.uid \in Nat
  BY GoodIs DEF SessionLines, Images
<1>3. /\ o \in Images /\ o.users = im.users /\ o.free = im.free
      /\ o.session.exists
      /\ im.session.exists => o = im
      /\ ~im.session.exists => o.session.lines = <<>> /\ o.session.held = 0
  BY <1>2, SessionOpened
<1> HIDE DEF o
<1>4. /\ e \in Images /\ e.users = im.users /\ e.free = im.free
      /\ e.session.exists /\ e.session.lines = <<>>
      /\ e.session.held = o.session.held
  BY <1>3, SessionEmptied
<1> HIDE DEF e
<1>5. ~(left < 0) =>
        /\ l \in Images /\ l.users = im.users /\ l.session.exists
        /\ l.session.lines = Append(<<>>, id)
  BY <1>4, SessionLonger
<1>6. left < 0 => e.free = 0 /\ e.session.held = 0
  <2> DEFINE h == HeldFor(e, "session", id)
             b == BlocksFor(Append(e.session.lines, id))
  <2>1. /\ h \in Nat /\ b \in Nat
        /\ h = e.session.held \/ h = b
        /\ left = e.free - (h - e.session.held)
    BY <1>4, SessionHeldFor
  <2>2. e.free \in Nat /\ e.session.held \in Nat
    BY <1>4 DEF Images, FilesOf
  <2>3. b <= 1
    BY <1>4, OneLine
  <2> HIDE DEF h, b
  <2> QED
    BY <2>1, <2>2, <2>3, NoBlockLeft
<1> HIDE DEF l, left
<1>7. /\ Id(o) = Id(im) /\ Id(e) = Root /\ (~(left < 0) => Id(l) = id)
      /\ ~im.session.exists => Id(im) = Root
  <2>1. Append(<<>>, id) # <<>> /\ Head(Append(<<>>, id)) = id
    OBVIOUS
  <2> QED
    BY <1>3, <1>4, <1>5, <2>1 DEF Id
<1>8. o \in Good(v) /\ e \in Good(v) /\ (~(left < 0) => l \in Good(v))
  BY <1>3, <1>4, <1>5 DEF Good
<1>9. ASSUME NEW J, SameId(v, im) \subseteq J, o \in J, e \in J, ~(left < 0) => l \in J
      PROVE  session_save(c, id) \in Contexts(J)
  <2>1. c \in Contexts(J)
    BY <1>9, ContextsMono
  <2>2. /\ fd \in Contexts(J) /\ fd.ret \in Int
        /\ fd.ret >= 0 => Cur(fd) = o
    <3>1. Opened(Cur(c), "session", id.uid) = o
      BY DEF o
    <3>2. fd \in Contexts(J) /\ (fd.ret >= 0 => Cur(fd) = o)
      BY <1>9, <2>1, <3>1, OpenWIs
    <3> QED
      BY <3>2 DEF Contexts
  <2> HIDE DEF fd
  <2>3. ASSUME ~(fd.ret < 0) PROVE a \in Contexts(J)
    <3>1. Emptied(Cur(fd), "session") = e
      BY <2>2, <2>3 DEF e
    <3>2. z \in Contexts(J) /\ Cur(z) = e
      BY <1>9, <2>2, <3>1, SetSizeZeroIs
    <3> HIDE DEF z
    <3>3. ~(LeftFor(Cur(z), "session", id) < 0) => Longer(Cur(z), "session", id) \in J
      BY <1>9, <3>2 DEF l, left
    <3> QED
      BY <3>2, <3>3, AddLineIs
  <2> QED
    BY <1>1, <2>2, <2>3
<1>10. session_save(c, id) \in Contexts(Saved(v, im, id))
  <2>1. /\ SameId(v, im) \subseteq Saved(v, im, id) /\ o \in Saved(v, im, id) /\ e \in Saved(v, im, id)
        /\ ~(left < 0) => l \in Saved(v, im, id)
    BY <1>7, <1>8 DEF SameId, Saved
  <2> QED
    BY <1>9, <2>1
<1>11. CASE ~im.session.exists
  <2>1. /\ SameId(v, im) \subseteq Straight(v, im, id) /\ o \in Straight(v, im, id)
        /\ e \in Straight(v, im, id) /\ (~(left < 0) => l \in Straight(v, im, id))
    BY <1>7, <1>8, <1>11 DEF SameId, Straight
  <2> QED
    BY <1>9, <1>10, <2>1
<1>12. CASE im.session.exists /\ fd.ret < 0
  <2>1. fd.log = c.log /\ fd.ret \in Int
    <3>1. Opened(Cur(c), "session", id.uid) \in Good(v) \cup SameId(v, im)
      BY <1>8 DEF o
    <3>2. c \in Contexts(Good(v) \cup SameId(v, im))
      BY ContextsMono
    <3>3. fd \in Contexts(Good(v) \cup SameId(v, im)) /\ fd.log = c.log
      BY <1>12, <3>1, <3>2, OpenWIs
    <3> QED
      BY <3>3 DEF Contexts
  <2>2. fd \in Contexts(SameId(v, im))
    <3>1. fd \in [log : Seq(Good(v) \cup SameId(v, im)) \ {<<>>}, ret : Int]
      <4>1. Opened(Cur(c), "session", id.uid) \in Good(v) \cup SameId(v, im)
        BY <1>8 DEF o
      <4>2. c \in Contexts(Good(v) \cup SameId(v, im))
        BY ContextsMono
      <4> QED
        BY <4>1, <4>2, OpenWIs DEF Contexts
    <3> QED
      BY <2>1, <3>1 DEF Contexts
  <2>3. SameId(v, im) \subseteq Straight(v, im, id)
    BY DEF SameId, Straight
  <2>4. session_save(c, id) \in Contexts(Straight(v, im, id))
    BY <1>1, <1>12, <2>2, <2>3, ContextsMono
  <2> QED
    BY <1>10, <2>4
<1>13. CASE im.session.exists /\ ~(fd.ret < 0)
  <2> DEFINE J == Saved(v, im, id)
  <2>1. c \in Contexts(Images \cup SameId(v, im)) /\ Opened(Cur(c), "session", id.uid) = o
    BY ContextsMono DEF o
  <2>2. /\ fd \in Contexts(Images \cup SameId(v, im)) /\ fd.ret \in Int
        /\ fd.ret >= 0 => Cur(fd) = o
    <3>1. /\ fd \in Contexts(Images \cup SameId(v, im))
          /\ fd.ret >= 0 => Cur(fd) = o
      BY <1>3, <2>1, OpenWIs
    <3> QED
      BY <3>1 DEF Contexts
  <2> HIDE DEF fd
  <2>3. Emptied(Cur(fd), "session") = e
    BY <1>13, <2>2 DEF e
  <2>4. z \in Contexts(Images \cup SameId(v, im)) /\ Cur(z) = e
    BY <1>4, <2>2, <2>3, SetSizeZeroIs
  <2> HIDE DEF z
  <2>5. LeftFor(Cur(z), "session", id) = left /\ Longer(Cur(z), "session", id) = l
    BY <2>4 DEF l, left
  <2>6. ~(left < 0) => Cur(a) = l
    BY <1>5, <2>4, <2>5, AddLineIs
  <2>7. Append(<<>>, id) # <<>>
    OBVIOUS
  <2>8. ASSUME Cur(a).session.lines = <<>> PROVE im.free = 0 /\ im.session.held = 0
    <3>1. left < 0
      BY <1>5, <2>6, <2>7, <2>8
    <3> QED
      BY <1>3, <1>4, <1>6, <1>13, <3>1
  <2> HIDE DEF a
  <2> QED
    BY <1>1, <1>10, <1>13, <2>8
<1> QED
  BY <1>11, <1>12, <1>13

LEMMA LoginShows ==
  ASSUME NEW v, NEW d \in Good(v), NEW n \in Names, NEW p \in Passwords
  PROVE  /\ Login(d, n, p) \in Contexts(Good(v))
         /\ \/ Login(d, n, p) \in Contexts(SameId(v, d))
            \/ \E l \in Accounts(d) :
                 /\ l.name = n /\ l.pass = p /\ l \in UserLines /\ d.users.exists
                 /\ Login(d, n, p) \in Contexts(Saved(v, d, [name |-> l.name, uid |-> l.uid]))
                 /\ \/ Login(d, n, p) \in Contexts(Straight(v, d, [name |-> l.name, uid |-> l.uid]))
                    \/ Cur(Login(d, n, p)).session.lines = <<>> =>
                         d.free = 0 /\ d.session.held = 0
<1> DEFINE c == users_bootstrap(Begin(d))
           im == Cur(c)
           lines == im.users.lines
           fd == OpenR(c, "users", Id(d).uid)
           match == {k \in Entries(lines) : lines[k].name = n /\ lines[k].pass = p}
           new == [name |-> n, uid |-> lines[Min(match)].uid]
           s == session_save(c, new)
<1>1. /\ c \in Contexts(SameId(v, d)) /\ im \in Good(v) /\ Id(im) = Id(d)
      /\ d.users.exists => im = d
      /\ ~d.users.exists => \A k \in DOMAIN lines : lines[k] = RootLine
  BY BootstrapKeeps
<1>2. im \in Images /\ im["users"] = im.users /\ lines \in Seq(UserLines)
  BY <1>1 DEF Good, Images, FilesOf
<1>3. Login(d, n, p) = IF fd.ret < 0 \/ match = {} THEN Ret(c, FS_ERR) ELSE Ret(s, FS_OK)
  <2>1. Login(d, n, p) = users_login(c, Id(d), n, p)
    BY LoadIs, <1>1 DEF Login, Run
  <2>2. Lines(c, "users") = lines
    BY <1>2 DEF Lines
  <2> QED
    BY <2>1, <2>2 DEF users_login
<1>4. SameId(v, d) \subseteq Good(v) /\ SameId(v, im) = SameId(v, d)
  BY <1>1 DEF SameId
<1>5. CASE fd.ret < 0 \/ match = {}
  <2>1. Ret(c, FS_ERR) \in Contexts(SameId(v, d))
    BY <1>1, RetIn, Codes
  <2>2. Login(d, n, p) \in Contexts(SameId(v, d))
    BY <1>3, <1>5, <2>1
  <2> QED
    BY <1>4, <2>2, ContextsMono
<1>6. CASE ~(fd.ret < 0) /\ match # {}
  <2> DEFINE k == Min(match)
             l == lines[k]
  <2>1. k \in match
    <3>1. match \subseteq Nat
      BY <1>2, EntriesIn
    <3> QED
      BY <1>6, <3>1, MinProperty
  <2>2. k \in Entries(lines) /\ l.name = n /\ l.pass = p
    BY <2>1
  <2>3. im.users.exists
    BY <1>1, <1>2, <1>6, OpenRIs DEF Exists
  <2> HIDE DEF match, k
  <2>4. l \in UserLines /\ k \in DOMAIN lines
    BY <1>2, <2>2, EntriesIn
  <2>5. new = [name |-> l.name, uid |-> l.uid] /\ new \in SessionLines
    BY <2>2, <2>4 DEF UserLines, SessionLines, k
  <2>6. Login(d, n, p) = Ret(s, 0)
    BY <1>3, <1>6 DEF FS_OK
  <2> HIDE DEF c, new
  <2>7. /\ s \in Contexts(Saved(v, im, new))
        /\ \/ s \in Contexts(Straight(v, im, new))
           \/ Cur(s).session.lines = <<>> => im.free = 0 /\ im.session.held = 0
    BY <1>1, <1>4, <2>3, <2>5, SaveShows
  <2> HIDE DEF s, im
  <2>8. /\ Login(d, n, p) \in Contexts(Saved(v, im, new))
        /\ \/ Login(d, n, p) \in Contexts(Straight(v, im, new))
           \/ Cur(Login(d, n, p)).session.lines = <<>> => im.free = 0 /\ im.session.held = 0
    BY <2>6, <2>7, RetIn
  <2>9. Login(d, n, p) \in Contexts(Good(v))
    <3>1. Saved(v, im, new) \subseteq Good(v)
      BY DEF Saved
    <3> QED
      BY <2>8, <3>1, ContextsMono
  <2>10. CASE d.users.exists
    <3>1. im = d /\ l \in Accounts(d)
      BY <1>1, <2>2, <2>10 DEF Accounts
    <3> HIDE DEF l
    <3> QED
      BY <2>2, <2>4, <2>5, <2>8, <2>9, <2>10, <3>1
  <2>11. CASE ~d.users.exists
    <3>1. l = RootLine
      BY <1>1, <2>4, <2>11
    <3>2. new = Root
      BY <2>5, <3>1, RootLineIs
    <3>3. Id(d) = Root
      BY <2>11 DEF Good, Id
    <3>4. Saved(v, im, new) \subseteq SameId(v, d)
      BY <1>1, <3>2, <3>3 DEF Saved, SameId
    <3>5. Login(d, n, p) \in Contexts(SameId(v, d))
      BY <2>8, <3>4, ContextsMono
    <3> QED
      BY <2>9, <3>5
  <2> QED
    BY <2>10, <2>11
<1> QED
  BY <1>5, <1>6

-----------------------------------------------------------------------------
(* What every reachable disk keeps *)

LEMMA FreshIs ==
  ASSUME NEW v
  PROVE  NoFiles \in Good(v) /\ Fresh \in Contexts(Good(v))
<1>1. NoFiles \in Images /\ NoFiles.users = NoFile /\ NoFiles.session = NoFile
  <2>1. NoFile \in FilesOf(UserLines) /\ NoFile \in FilesOf(SessionLines)
    BY NewFileIs
  <2>2. MaxFree \in Nat
    BY InputAssumption
  <2> QED
    BY <2>1, <2>2 DEF NoFiles, Images
<1>2. NoFiles \in Good(v)
  BY <1>1 DEF Good, NoFile, Distinct, Entries
<1>3. Fresh \in Contexts(SameId(v, NoFiles))
  BY <1>2, BootstrapKeeps DEF Fresh
<1> QED
  BY <1>2, <1>3, GoodIs, ContextsMono

\* A log with one more image in front.
LEMMA Preceded ==
  ASSUME NEW S, NEW x \in S, NEW b \in Seq(S), b # <<>>
  PROVE  /\ <<x>> \o b \in Seq(S) /\ <<x>> \o b # <<>>
         /\ (<<x>> \o b)[Len(<<x>> \o b)] = b[Len(b)]
<1>1. ASSUME NEW a \in Seq(S) PROVE a \o b \in Seq(S) /\ Len(a \o b) = Len(a) + Len(b)
  OBVIOUS
<1>2. <<x>> \in Seq(S) /\ Len(<<x>>) = 1 /\ Len(b) \in Nat /\ Len(b) >= 1
  OBVIOUS
<1>3. <<x>> \o b \in Seq(S) /\ Len(<<x>> \o b) = 1 + Len(b)
  BY <1>1, <1>2
<1>4. <<x>> \o b # <<>>
  BY <1>2, <1>3
<1>5. ASSUME NEW a \in Seq(S), NEW i \in 1 .. Len(a) + Len(b)
      PROVE  (a \o b)[i] = IF i <= Len(a) THEN a[i] ELSE b[i - Len(a)]
  OBVIOUS
<1>6. 1 + Len(b) \in 1 .. Len(<<x>>) + Len(b) /\ ~(1 + Len(b) <= Len(<<x>>))
      /\ 1 + Len(b) - Len(<<x>>) = Len(b)
  BY <1>2
<1>7. (<<x>> \o b)[1 + Len(b)] = b[Len(b)]
  BY <1>2, <1>5, <1>6
<1> QED
  BY <1>3, <1>4, <1>7

LEMMA FormatKeeps ==
  ASSUME NEW v, NEW d \in Good(v)
  PROVE  Format(d) \in Contexts(Good(v)) /\ Cur(Format(d)) = Cur(Fresh)
<1> DEFINE b == Fresh.log
           l == <<d>> \o b
           f == Format(d)
<1>1. Fresh \in [log : Seq(Good(v)) \ {<<>>}, ret : Int]
  BY FreshIs DEF Contexts
<1>2. b \in Seq(Good(v)) /\ b # <<>>
  BY <1>1
<1>3. f = [Fresh EXCEPT !.log = l]
  BY DEF Format
<1> HIDE DEF b, f
<1>4. l \in Seq(Good(v)) /\ l # <<>> /\ l[Len(l)] = b[Len(b)]
  BY <1>2, Preceded
<1> HIDE DEF l
<1>5. f \in [log : Seq(Good(v)) \ {<<>>}, ret : Int] /\ f.log = l
  BY <1>1, <1>3, <1>4
<1>6. f \in Contexts(Good(v)) /\ Cur(f) = Cur(Fresh)
  BY <1>4, <1>5 DEF Contexts, Cur, Last, b
<1> QED
  BY <1>6 DEF f

LEMMA ExecuteKeeps ==
  ASSUME NEW J, NEW c \in Contexts(J), Execute(c)
  PROVE  disk' \in J
<1>1. CASE disk' = Cur(c)
  BY <1>1, CurIn
<1>2. CASE \E k \in 2 .. Len(c.log) - 1 : disk' = c.log[k]
  <2>1. PICK k \in 2 .. Len(c.log) - 1 : disk' = c.log[k]
    BY <1>2
  <2>2. k \in DOMAIN c.log
    BY DEF Contexts
  <2> QED
    BY <2>1, <2>2, CurIn
<1> QED
  BY <1>1, <1>2 DEF Execute

LEMMA CommandsKeep ==
  ASSUME NEW v, NEW d \in Good(v)
  PROVE  /\ \A n \in Names, p \in Passwords :
              /\ Login(d, n, p) \in Contexts(Good(v))
              /\ (v = FALSE => Plain(n) /\ Plain(p)) => Useradd(d, n, p) \in Contexts(Good(v))
              /\ (v = FALSE => Plain(p)) => Password(d, n, p) \in Contexts(Good(v))
         /\ \A f \in {"users", "session"}, m \in Modes : Chmod(d, f, m) \in Contexts(Good(v))
<1>1. Contexts(SameId(v, d)) \subseteq Contexts(Good(v))
  BY GoodIs, ContextsMono
<1> QED
  BY <1>1, LoginShows, UseraddKeeps, PasswdKeeps, ChmodKeeps DEF Both

\* What was promised with a ':' holds without one.
LEMMA GoodLess == ASSUME NEW v PROVE Good(FALSE) \subseteq Good(v)
BY DEF Good

\* The part of the inductive invariant that kills and long words do not break.
DiskGood == colons \in BOOLEAN /\ disk \in Good(colons)

\* The disk stays Good: types, distinct accounts while no word has a ':', and no session
\* before the accounts are there (users_bootstrap, users_add, users_change_password,
\* session_save).
THEOREM GoodHolds == Spec => []DiskGood
<1>1. Init => DiskGood
  BY FreshIs, CurIn DEF Init, DiskGood
<1>2. DiskGood /\ [Next]_vars => DiskGood'
  <2> SUFFICES ASSUME colons \in BOOLEAN, disk \in Good(colons), [Next]_vars
               PROVE  colons' \in BOOLEAN /\ disk' \in Good(colons')
    BY DEF DiskGood
  <2>1. CASE Execute(Format(disk)) /\ UNCHANGED <<spoiled, colons>>
    BY <2>1, FormatKeeps, ExecuteKeeps
  <2>2. CASE OtherFiles /\ UNCHANGED <<cuts, spoiled, colons>>
    <3>1. PICK n \in 0 .. MaxFree, r \in BOOLEAN :
            disk' = [disk EXCEPT !.free = n, !.room = r]
      BY <2>2 DEF OtherFiles
    <3> DEFINE a == [disk EXCEPT !.free = n]
               b == [a EXCEPT !.room = r]
    <3>2. disk \in Images /\ n \in Nat /\ disk' = b
      BY <3>1, InputAssumption DEF Good
    <3>3. a \in Images /\ a.users = disk.users /\ a.session = disk.session
      BY <3>2 DEF Images
    <3> HIDE DEF a
    <3>4. b \in Images /\ b.users = disk.users /\ b.session = disk.session
      BY <3>3 DEF Images
    <3> HIDE DEF b
    <3>5. disk' \in Good(colons)
      BY <3>2, <3>4 DEF Good
    <3> QED
      BY <2>2, <3>5
  <2>3. ASSUME NEW n \in Names, NEW p \in Passwords, Execute(Login(disk, n, p)),
               UNCHANGED colons
        PROVE  disk' \in Good(colons')
    BY <2>3, CommandsKeep, ExecuteKeeps
  <2>4. ASSUME NEW n \in Names, NEW p \in Passwords, Execute(Useradd(disk, n, p)),
               colons' = (colons \/ ~Plain(n) \/ ~Plain(p))
        PROVE  colons' \in BOOLEAN /\ disk' \in Good(colons')
    <3>1. /\ colons' \in BOOLEAN /\ (colons' = FALSE => colons = FALSE)
          /\ colons' = FALSE => Plain(n) /\ Plain(p)
      BY <2>4, Zenon
    <3>2. disk \in Good(colons')
      <4>1. colons' = colons \/ colons = FALSE
        BY <3>1, Zenon
      <4> QED
        BY <4>1, GoodLess
    <3> QED
      BY <2>4, <3>1, <3>2, CommandsKeep, ExecuteKeeps
  <2>5. ASSUME NEW n \in Names, NEW p \in Passwords, Execute(Password(disk, n, p)),
               colons' = (colons \/ ~Plain(p))
        PROVE  colons' \in BOOLEAN /\ disk' \in Good(colons')
    <3>1. /\ colons' \in BOOLEAN /\ (colons' = FALSE => colons = FALSE)
          /\ colons' = FALSE => Plain(p)
      BY <2>5, Zenon
    <3>2. disk \in Good(colons')
      <4>1. colons' = colons \/ colons = FALSE
        BY <3>1, Zenon
      <4> QED
        BY <4>1, GoodLess
    <3> QED
      BY <2>5, <3>1, <3>2, CommandsKeep, ExecuteKeeps
  <2>6. ASSUME NEW f \in {"users", "session"}, NEW m \in Modes, Execute(Chmod(disk, f, m)),
               UNCHANGED colons
        PROVE  disk' \in Good(colons')
    BY <2>6, CommandsKeep, ExecuteKeeps
  <2>7. CASE UNCHANGED vars
    BY <2>7 DEF vars
  <2> QED
    BY <2>1, <2>2, <2>3, <2>4, <2>5, <2>6, <2>7 DEF Next
<1> QED
  BY <1>1, <1>2, PTL DEF Spec

\* While no word with a ':' was entered, no two accounts one can log in to share a
\* name or a uid, whatever was killed on the way (users_add, users_change_password).
THEOREM AccountsDistinctHolds == Spec => []AccountsDistinct
<1>1. DiskGood => AccountsDistinct
  <2> SUFFICES ASSUME colons = FALSE, disk \in Good(colons)
               PROVE  Distinct(disk.users.lines)
    BY DEF DiskGood, Distinct, AccountsDistinct
  <2> QED
    BY DEF Good
<1> QED
  BY <1>1, GoodHolds, PTL

\* Only login changes who the next command runs as, and where it makes him root
\* by accident it was killed or the disk was full (session_save).
THEOREM IdentityChangesByLoginHolds == Spec => []IdentityChangesByLogin
<1>1. DiskGood => IdentityChangesByLogin
  <2> SUFFICES ASSUME disk \in Good(colons) PROVE IdentityChangesByLogin
    BY DEF DiskGood
  <2> DEFINE v == TRUE
             J == SameId(v, disk)
  <2>0. disk \in Good(v)
    BY DEF Good
  <2> HIDE DEF v
  <2>1. /\ Whoami(disk) = Id(disk) /\ \A im \in Good(v) : Whoami(im) = Id(im)
        /\ J \subseteq Good(v)
    BY <2>0, WhoamiIs, GoodIs
  <2>2. ASSUME NEW c \in Contexts(J), NEW k \in DOMAIN c.log
        PROVE  Whoami(c.log[k]) = Whoami(disk)
    <3>1. c.log[k] \in J
      BY CurIn
    <3> QED
      BY <2>1, <3>1 DEF SameId
  <2>3. ASSUME NEW c \in Adds \cup Changes \cup Chmods PROVE c.ctx \in Contexts(J)
    <3>0. v # FALSE
      BY DEF v
    <3>1. CASE c \in Adds
      <4>1. PICK n \in Names, p \in Passwords :
              c = [name |-> n, pass |-> p, ctx |-> Useradd(disk, n, p)]
        BY <3>1 DEF Adds
      <4>2. Useradd(disk, n, p) \in Contexts(J)
        BY <2>0, <3>0, UseraddKeeps
      <4> QED
        BY <4>1, <4>2
    <3>2. CASE c \in Changes
      <4>1. PICK n \in Names, p \in Passwords :
              c = [name |-> n, pass |-> p, ctx |-> Password(disk, n, p)]
        BY <3>2 DEF Changes
      <4>2. Password(disk, n, p) \in Contexts(J)
        BY <2>0, <3>0, PasswdKeeps
      <4> QED
        BY <4>1, <4>2
    <3>3. CASE c \in Chmods
      BY <2>0, <3>3, ChmodKeeps DEF Chmods, Both
    <3> QED
      BY <3>1, <3>2, <3>3
  <2>4. ASSUME NEW c \in Logins, NEW k \in DOMAIN c.ctx.log
        PROVE  \/ Whoami(c.ctx.log[k]) = Whoami(disk)
               \/ /\ Whoami(c.ctx.log[k]) = Root
                  /\ Cur(c.ctx).session.lines = <<>> => disk.free = 0 /\ disk.session.held = 0
               \/ \E l \in Accounts(disk) :
                    /\ l.name = c.name /\ l.pass = c.pass
                    /\ Whoami(c.ctx.log[k]) = [name |-> l.name, uid |-> l.uid]
    <3>1. PICK n \in Names, p \in Passwords :
            c = [name |-> n, pass |-> p, ctx |-> Login(disk, n, p)]
      BY DEF Logins
    <3> DEFINE s == Login(disk, n, p)
    <3>2. c.name = n /\ c.pass = p /\ c.ctx = s
      BY <3>1
    <3>3. CASE s \in Contexts(J)
      BY <2>2, <3>2, <3>3
    <3>4. CASE \E l \in Accounts(disk) :
                 /\ l.name = n /\ l.pass = p
                 /\ s \in Contexts(Saved(v, disk, [name |-> l.name, uid |-> l.uid]))
                 /\ \/ s \in Contexts(Straight(v, disk, [name |-> l.name, uid |-> l.uid]))
                    \/ Cur(s).session.lines = <<>> => disk.free = 0 /\ disk.session.held = 0
      <4>1. PICK l \in Accounts(disk) :
                 /\ l.name = n /\ l.pass = p
                 /\ s \in Contexts(Saved(v, disk, [name |-> l.name, uid |-> l.uid]))
                 /\ \/ s \in Contexts(Straight(v, disk, [name |-> l.name, uid |-> l.uid]))
                    \/ Cur(s).session.lines = <<>> => disk.free = 0 /\ disk.session.held = 0
        BY <3>4, Zenon
      <4> DEFINE id == [name |-> l.name, uid |-> l.uid]
                 im == c.ctx.log[k]
      <4>2. im \in Saved(v, disk, id)
        BY <3>2, <4>1, CurIn
      <4>3. s \in Contexts(Straight(v, disk, id)) => im \in Straight(v, disk, id)
        BY <3>2, CurIn
      <4> HIDE DEF im, s, id
      <4>4. Whoami(im) = Id(im) /\ Id(im) \in {Id(disk), Root, id}
        BY <2>1, <4>2 DEF Saved
      <4>5. s \in Contexts(Straight(v, disk, id)) => Id(im) \in {Id(disk), id}
        BY <4>3 DEF Straight
      <4>6. \/ Whoami(im) = Whoami(disk)
            \/ Whoami(im) = Root /\ s \notin Contexts(Straight(v, disk, id))
            \/ Whoami(im) = id
        BY <2>1, <4>4, <4>5
      <4> QED
        BY <3>2, <4>1, <4>6 DEF im, id
    <3> QED
      BY <2>0, <3>3, <3>4, LoginShows
  <2> QED
    BY <2>2, <2>3, <2>4, Zenon DEF IdentityChangesByLogin
<1> QED
  BY <1>1, GoodHolds, PTL

-----------------------------------------------------------------------------
(* While nothing was killed or spoiled *)

\* id is one of these accounts.
Has(lines, id) == \E k \in DOMAIN lines : lines[k].name = id.name /\ lines[k].uid = id.uid

Whole(im) ==
  /\ im.users.exists
  /\ \A k \in DOMAIN im.users.lines : Parses(im.users.lines[k])
  /\ Has(im.users.lines, Root)
  /\ Has(im.users.lines, Id(im))
  /\ BlocksFor(im.users.lines) <= im.users.held

\* The accounts are as they were.
SameUsers(d) == {o \in Images : /\ o.users.exists /\ o.users.lines = d.users.lines
                                /\ o.users.held = d.users.held}

LEMMA WholeSameUsers ==
  ASSUME NEW d, Whole(d), NEW o \in SameUsers(d), Id(o) = Id(d) \/ Has(d.users.lines, Id(o))
  PROVE  Whole(o)
BY DEF Whole, SameUsers

LEMMA SaveSameUsers ==
  ASSUME NEW d, NEW c \in Contexts(SameUsers(d)), NEW id \in SessionLines
  PROVE  session_save(c, id) \in Contexts(SameUsers(d))
<1> DEFINE J == SameUsers(d)
           fd == OpenW(c, "session", id.uid)
           z == SetSizeZero(fd, "session")
           a == AddLine(z, "session", id)
           im == Cur(c)
           o == Opened(im, "session", id.uid)
           e == Emptied(o, "session")
           l == Longer(e, "session", id)
<1>1. session_save(c, id) = IF fd.ret < 0 THEN fd ELSE a
  BY DEF session_save
<1>2. im \in J /\ im \in Images /\ id.uid \in Nat
  BY CurIn DEF SameUsers, SessionLines
<1> HIDE DEF im
<1>3. o \in Images /\ o.users = im.users
  BY <1>2, SessionOpened
<1> HIDE DEF o
<1>4. e \in Images /\ e.users = im.users
  BY <1>3, SessionEmptied
<1> HIDE DEF e
<1>5. ~(LeftFor(e, "session", id) < 0) => l \in Images /\ l.users = im.users
  BY <1>4, SessionLonger
<1> HIDE DEF l
<1>6. o \in J /\ e \in J /\ (~(LeftFor(e, "session", id) < 0) => l \in J)
  BY <1>2, <1>3, <1>4, <1>5 DEF SameUsers
<1>7. fd \in Contexts(J) /\ (fd.ret >= 0 => Cur(fd) = o) /\ fd.ret \in Int
  <2>1. Opened(Cur(c), "session", id.uid) = o
    BY DEF o, im
  <2>2. fd \in Contexts(J) /\ (fd.ret >= 0 => Cur(fd) = o)
    BY <1>6, <2>1, OpenWIs
  <2> QED
    BY <2>2 DEF Contexts
<1> HIDE DEF fd
<1>8. ASSUME ~(fd.ret < 0) PROVE a \in Contexts(J)
  <2>1. Emptied(Cur(fd), "session") = e
    BY <1>7, <1>8 DEF e
  <2>2. z \in Contexts(J) /\ Cur(z) = e
    BY <1>6, <1>7, <2>1, SetSizeZeroIs
  <2> HIDE DEF z
  <2>3. ~(LeftFor(Cur(z), "session", id) < 0) => Longer(Cur(z), "session", id) \in J
    BY <1>6, <2>2 DEF l
  <2> QED
    BY <2>2, <2>3, AddLineIs
<1> QED
  BY <1>1, <1>7, <1>8

\* What a command begins with when the accounts are there.
LEMMA BeginsHere ==
  ASSUME NEW v, NEW d \in Good(v), d.users.exists
  PROVE  LET m == users_bootstrap(Begin(d))
         IN  /\ m \in Contexts({d}) /\ Cur(m) = d /\ session_load(m) = Id(d)
             /\ m \in Contexts(SameUsers(d)) /\ d \in SameUsers(d)
             /\ Lines(m, "users") = d.users.lines /\ Exists(m, "users")
<1> DEFINE m == users_bootstrap(Begin(d))
<1>1. m \in Contexts(SameId(v, d)) /\ m.log = <<d>> /\ Cur(m) = d /\ session_load(m) = Id(d)
  BY BootstrapKeeps, RunIs
<1> HIDE DEF m
<1>2. m \in Contexts({d})
  <2>1. <<d>> \in Seq({d}) \ {<<>>}
    OBVIOUS
  <2>2. m \in [log : Seq(SameId(v, d)) \ {<<>>}, ret : Int]
    BY <1>1 DEF Contexts
  <2> QED
    BY <1>1, <2>1, <2>2 DEF Contexts
<1>3. d \in SameUsers(d) /\ d["users"] = d.users
  BY GoodIs DEF SameUsers, Images
<1>4. m \in Contexts(SameUsers(d))
  BY <1>2, <1>3, ContextsMono
<1>5. Lines(m, "users") = d.users.lines /\ Exists(m, "users")
  BY <1>1, <1>3 DEF Lines, Exists
<1> QED
  BY <1>1, <1>2, <1>3, <1>4, <1>5 DEF m

LEMMA LoginSameUsers ==
  ASSUME NEW v, NEW d \in Good(v), d.users.exists, NEW n \in Names, NEW p \in Passwords
  PROVE  Login(d, n, p) \in Contexts(SameUsers(d))
<1> DEFINE m == users_bootstrap(Begin(d))
           fd == OpenR(m, "users", Id(d).uid)
           lines == d.users.lines
           match == {k \in Entries(lines) : lines[k].name = n /\ lines[k].pass = p}
           new == [name |-> n, uid |-> lines[Min(match)].uid]
           s == session_save(m, new)
<1>1. /\ m \in Contexts(SameUsers(d)) /\ session_load(m) = Id(d)
      /\ Lines(m, "users") = lines
  BY BeginsHere
<1>2. Login(d, n, p) = users_login(m, session_load(m), n, p)
  BY DEF Login, Run
<1> HIDE DEF m
<1>3. Login(d, n, p) = IF fd.ret < 0 \/ match = {} THEN Ret(m, FS_ERR) ELSE Ret(s, FS_OK)
  BY <1>1, <1>2 DEF users_login
<1>4. ASSUME match # {} PROVE new \in SessionLines
  <2>1. Min(match) \in match
    <3>1. match \subseteq Nat
      BY GoodIs, EntriesIn
    <3> QED
      BY <1>4, <3>1, MinProperty
  <2>2. Min(match) \in Entries(lines) /\ lines[Min(match)].name = n
    BY <2>1
  <2> HIDE DEF match
  <2>3. lines[Min(match)].uid \in Nat /\ n \in NameFields
    BY <2>2, GoodIs, EntriesIn
  <2> QED
    BY <2>3 DEF SessionLines
<1> HIDE DEF fd, match
<1>5. match # {} => s \in Contexts(SameUsers(d))
  BY <1>1, <1>4, SaveSameUsers
<1> QED
  BY <1>1, <1>3, <1>5, RetIn, Codes

LEMMA ChmodSameUsers ==
  ASSUME NEW v, NEW d \in Good(v), d.users.exists, NEW f \in Both, NEW mode \in Modes
  PROVE  Chmod(d, f, mode) \in Contexts(SameUsers(d))
<1> DEFINE m == users_bootstrap(Begin(d))
           o == [d EXCEPT ![f].mode = mode]
<1>1. m \in Contexts(SameUsers(d)) /\ Cur(m) = d
  BY BeginsHere
<1>2. Chmod(d, f, mode) = cmd_chmod(m, session_load(m), f, mode)
  BY DEF Chmod, Run
<1> HIDE DEF m
<1>3. cmd_chmod(m, session_load(m), f, mode)
        \in {Ret(m, FS_ENOENT), Ret(m, FS_EPERM), DevWrite(m, o)}
  BY <1>1 DEF cmd_chmod
<1>4. d \in Images
  BY GoodIs
<1>5. o \in SameUsers(d)
  <2> DEFINE x == d[f]
             u == [x EXCEPT !.mode = mode]
  <2>1. CASE f = "users"
    <3>1. x \in FilesOf(UserLines) /\ x = d.users
      BY <1>4, <2>1 DEF Images
    <3>2. o = [d EXCEPT !.users = u]
      BY <1>4, <2>1 DEF Images
    <3> HIDE DEF x, o
    <3>3. /\ u \in FilesOf(UserLines) /\ u.lines = x.lines /\ u.exists = x.exists
          /\ u.held = x.held
      BY <3>1 DEF FilesOf
    <3> HIDE DEF u
    <3>4. o \in Images /\ o.users = u
      BY <1>4, <3>2, <3>3 DEF Images
    <3> QED
      BY <3>1, <3>3, <3>4 DEF SameUsers
  <2>2. CASE f = "session"
    <3>1. x \in FilesOf(SessionLines) /\ x = d.session
      BY <1>4, <2>2 DEF Images
    <3>2. o = [d EXCEPT !.session = u]
      BY <1>4, <2>2 DEF Images
    <3> HIDE DEF x, o
    <3>3. u \in FilesOf(SessionLines)
      BY <3>1 DEF FilesOf
    <3> HIDE DEF u
    <3>4. o \in Images /\ o.users = d.users
      BY <1>4, <3>2, <3>3 DEF Images
    <3> QED
      BY <3>4 DEF SameUsers
  <2> QED
    BY <2>1, <2>2 DEF Both
<1> HIDE DEF o
<1> QED
  BY <1>1, <1>2, <1>3, <1>5, RetIn, Codes, DevWriteIn

\* A line that parses at the end, with the blocks it needs.
LEMMA WholeLonger ==
  ASSUME NEW im \in Images, Whole(im), NEW x \in UserLines, Parses(x),
         ~(LeftFor(im, "users", x) < 0)
  PROVE  Whole(Longer(im, "users", x))
<1> DEFINE o == Longer(im, "users", x)
           l == im.users.lines
           r == Append(l, x)
<1>1. /\ o.session = im.session /\ o.users.exists = im.users.exists
      /\ o.users.lines = r /\ o.users.held = HeldFor(im, "users", x)
  BY UsersLonger
<1>2. HeldFor(im, "users", x) >= BlocksFor(r)
  BY UsersHeldFor
<1>3. BlocksFor(o.users.lines) <= o.users.held
  <2>1. HeldFor(im, "users", x) \in Nat /\ BlocksFor(r) \in Nat
    BY UsersHeldFor
  <2> HIDE DEF o, r
  <2> QED
    BY <1>1, <1>2, <2>1
<1> HIDE DEF o
<1>4. l \in Seq(UserLines)
  BY DEF Images, FilesOf
<1> HIDE DEF l
<1>5. \A k \in DOMAIN r : (k \in DOMAIN l /\ r[k] = l[k]) \/ r[k] = x
  BY <1>4
<1>6. \A k \in DOMAIN l : k \in DOMAIN r /\ r[k] = l[k]
  BY <1>4
<1> HIDE DEF r
<1>7. Id(o) = Id(im)
  BY <1>1 DEF Id
<1>8. \A id : Has(l, id) => Has(r, id)
  BY <1>6 DEF Has
<1>9. im.users.exists /\ (\A k \in DOMAIN l : Parses(l[k])) /\ Has(l, Root) /\ Has(l, Id(im))
  BY DEF Whole, l
<1>10. \A k \in DOMAIN r : Parses(r[k])
  BY <1>5, <1>9
<1>11. Whole(o)
  BY <1>1, <1>3, <1>7, <1>8, <1>9, <1>10 DEF Whole
<1> QED
  BY <1>11 DEF o

LEMMA UseraddWhole ==
  ASSUME NEW v, NEW d \in Good(v), Whole(d), NEW n \in Names \ Long, NEW p \in Passwords \ Long,
         Plain(n), Plain(p)
  PROVE  Whole(Cur(Useradd(d, n, p)))
<1> DEFINE m == users_bootstrap(Begin(d))
           lines == d.users.lines
           uid == Max({0} \cup {l.uid : l \in {lines[k] : k \in Entries(lines)}}) + 1
           w == OpenW(m, "users", Id(d).uid)
           x == Line(Split[n] \o Split[p], uid)
           a == AddLine(w, "users", x)
<1>1. /\ m \in Contexts({d}) /\ Cur(m) = d /\ session_load(m) = Id(d)
      /\ Lines(m, "users") = lines /\ Exists(m, "users") /\ d \in Images
  BY BeginsHere, GoodIs DEF Whole
<1>2. Useradd(d, n, p) = users_add(m, session_load(m), n, p)
  BY DEF Useradd, Run
<1> HIDE DEF m
<1>3. Useradd(d, n, p) \in {Ret(m, FS_EPERM), Ret(m, FS_ERR), Ret(m, FS_EEXIST), a}
  BY <1>1, <1>2 DEF users_add
<1>4. lines \in Seq(UserLines)
  BY GoodIs
<1>5. uid \in Nat
  BY <1>4, FreshUid
<1> HIDE DEF uid
<1>6. x \in UserLines /\ Parses(x)
  <2>1. x \in UserLines /\ x = Account(n, p, uid)
    BY <1>5, AddedIs
  <2> HIDE DEF x
  <2> QED
    BY <2>1, AccountIs
<1> HIDE DEF x
<1>7. w \in Contexts({d}) /\ Cur(w) = d
  <2>1. Opened(Cur(m), "users", Id(d).uid) = d
    BY <1>1 DEF Opened, Exists
  <2> QED
    BY <1>1, <2>1, OpenWIs, CurIn
<1> HIDE DEF w
<1>8. Whole(Cur(a))
  <2>1. w \in Contexts({d, Longer(d, "users", x)})
    BY <1>7, ContextsMono
  <2>2. Cur(a) = d \/ (~(LeftFor(d, "users", x) < 0) /\ Cur(a) = Longer(d, "users", x))
    BY <1>7, <2>1, AddLineIs
  <2> QED
    BY <1>1, <1>6, <2>2, WholeLonger
<1> HIDE DEF a
<1>9. Cur(Ret(m, FS_EPERM)) = d /\ Cur(Ret(m, FS_ERR)) = d /\ Cur(Ret(m, FS_EEXIST)) = d
  BY <1>1, RetIn, Codes
<1> QED
  BY <1>3, <1>8, <1>9

LEMMA ChmodWhole ==
  ASSUME NEW v, NEW d \in Good(v), Whole(d), NEW f \in Both, NEW mode \in Modes
  PROVE  Whole(Cur(Chmod(d, f, mode)))
<1>1. Chmod(d, f, mode) \in Contexts(SameUsers(d)) /\ Chmod(d, f, mode) \in Contexts(SameId(v, d))
  BY ChmodSameUsers, ChmodKeeps DEF Whole
<1>2. Cur(Chmod(d, f, mode)) \in SameUsers(d) /\ Cur(Chmod(d, f, mode)) \in SameId(v, d)
  BY <1>1, CurIn
<1> QED
  BY <1>2, WholeSameUsers DEF SameId

LEMMA LoginWhole ==
  ASSUME NEW v, NEW d \in Good(v), Whole(d), NEW n \in Names, NEW p \in Passwords
  PROVE  Whole(Cur(Login(d, n, p)))
<1> DEFINE c == Login(d, n, p)
           im == Cur(c)
<1>1. im \in SameUsers(d)
  BY LoginSameUsers, CurIn DEF Whole
<1>2. Id(im) = Id(d) \/ Has(d.users.lines, Id(im))
  <2>1. CASE c \in Contexts(SameId(v, d))
    BY <2>1, CurIn DEF SameId
  <2>2. ASSUME NEW l \in Accounts(d), c \in Contexts(Saved(v, d, [name |-> l.name, uid |-> l.uid]))
        PROVE  Id(im) = Id(d) \/ Has(d.users.lines, Id(im))
    <3> DEFINE id == [name |-> l.name, uid |-> l.uid]
    <3>1. im \in Saved(v, d, id)
      BY <2>2, CurIn
    <3>2. Id(im) \in {Id(d), Root, id}
      BY <3>1 DEF Saved
    <3>3. Has(d.users.lines, id)
      BY DEF Accounts, Entries, Has
    <3> HIDE DEF im, id
    <3> QED
      BY <3>2, <3>3 DEF Whole
  <2> QED
    BY <2>1, <2>2, LoginShows
<1> QED
  BY <1>1, <1>2, WholeSameUsers

LEMMA FormatWhole == Whole(Cur(Fresh))
<1> DEFINE c == Begin(NoFiles)
           o == Opened(NoFiles, "users", 0)
           w == OpenW(c, "users", 0)
           a == AddLine(w, "users", RootLine)
           l == Longer(o, "users", RootLine)
<1>1. NoFiles \in Images
  BY FreshIs DEF Good
<1>2. c \in Contexts(Images) /\ Cur(c) = NoFiles
  BY <1>1, BeginIn
<1>3. /\ ~NoFiles.users.exists /\ ~NoFiles.session.exists /\ NoFiles.room
      /\ NoFiles.free = MaxFree /\ NoFiles["users"] = NoFiles.users
  BY DEF NoFiles, NoFile
<1>4. /\ o \in Images /\ o.session = NoFiles.session /\ o.free = MaxFree
      /\ o.users.exists /\ o.users.lines = <<>> /\ o.users.held = 0
  BY <1>1, <1>3, UsersOpened
<1> HIDE DEF c, o
<1>5. w \in Contexts(Images) /\ Cur(w) = o /\ w.ret = 0
  <2>1. ~Exists(c, "users") /\ Cur(c).room
    BY <1>2, <1>3 DEF Exists
  <2>2. w = DevWrite(c, o)
    <3>1. ~Cur(c)["users"].exists
      BY <2>1 DEF Exists
    <3>2. w = DevWrite(c, Opened(Cur(c), "users", 0))
      BY <2>1, <3>1, Zenon DEF OpenW, Opened, NewFile
    <3> QED
      BY <1>2, <3>2, Zenon DEF o
  <2> QED
    BY <1>2, <1>4, <2>2, DevWriteIn
<1>6. Fresh = a
  <2>1. ~Exists(c, "users") /\ ~(w.ret < 0)
    BY <1>2, <1>3, <1>5 DEF Exists
  <2> QED
    BY <2>1 DEF Fresh, users_bootstrap, IfOk, RootLine, c
<1> HIDE DEF w
<1>7. ~(LeftFor(o, "users", RootLine) < 0)
  <2> DEFINE h == HeldFor(o, "users", RootLine)
             b == BlocksFor(Append(o.users.lines, RootLine))
  <2>1. /\ h \in Nat /\ b \in Nat
        /\ h = o.users.held \/ h = b
        /\ LeftFor(o, "users", RootLine) = o.free - (h - o.users.held)
    BY <1>4, RootLineIs, UsersHeldFor
  <2>2. b <= 1
    BY <1>4, RootLineIs, OneLine
  <2>3. MaxFree \in Nat /\ MaxFree # 0
    BY InputAssumption
  <2> DEFINE e == o.users.held
             left == LeftFor(o, "users", RootLine)
  <2>4. e = 0 /\ o.free = MaxFree
    BY <1>4
  <2>5. left = o.free - (h - e) /\ (h = e \/ h = b)
    BY <2>1
  <2> HIDE DEF h, b, e, left
  <2>6. h \in Nat /\ b \in Nat /\ e \in Nat /\ o.free \in Nat /\ b <= e + o.free
    <3>1. h \in Nat /\ b \in Nat
      BY <2>1
    <3>2. e \in Nat /\ o.free \in Nat /\ e = 0 /\ 1 <= o.free
      BY <2>3, <2>4
    <3>3. b <= 1
      BY <2>2
    <3> QED
      BY <3>1, <3>2, <3>3
  <2>7. ~(left < 0)
    BY <2>5, <2>6, StillRoom
  <2> QED
    BY <2>7 DEF left
<1>8. /\ l \in Images /\ l.session = NoFiles.session /\ l.users.exists
      /\ l.users.lines = Append(<<>>, RootLine)
      /\ BlocksFor(l.users.lines) <= l.users.held
  <2>1. /\ l \in Images /\ l.session = o.session /\ l.users.exists = o.users.exists
        /\ l.users.lines = Append(o.users.lines, RootLine)
        /\ l.users.held = HeldFor(o, "users", RootLine)
    BY <1>4, <1>7, RootLineIs, UsersLonger
  <2>2. /\ HeldFor(o, "users", RootLine) \in Nat
        /\ BlocksFor(Append(o.users.lines, RootLine)) \in Nat
        /\ HeldFor(o, "users", RootLine) >= BlocksFor(Append(o.users.lines, RootLine))
    BY <1>4, RootLineIs, UsersHeldFor
  <2> HIDE DEF l
  <2> QED
    BY <1>4, <2>1, <2>2
<1>9. Cur(a) = l
  <2>1. ~(LeftFor(Cur(w), "users", RootLine) < 0) => Longer(Cur(w), "users", RootLine) \in Images
    BY <1>5, <1>8
  <2> QED
    BY <1>5, <1>7, <2>1, AddLineIs
<1> HIDE DEF l
<1>10. Id(l) = Root
  BY <1>3, <1>8 DEF Id
<1>11. /\ \A k \in DOMAIN l.users.lines : l.users.lines[k] = RootLine
       /\ 1 \in DOMAIN l.users.lines /\ l.users.lines[1] = RootLine
  BY <1>8
<1>12. Has(l.users.lines, Root)
  BY <1>11, RootLineIs DEF Has
<1>13. Parses(RootLine)
  BY RootWord, AccountIs DEF RootLine
<1> QED
  BY <1>6, <1>8, <1>9, <1>10, <1>11, <1>12, <1>13 DEF Whole

-----------------------------------------------------------------------------
(* What password leaves of the accounts *)

LEMMA NewLinesIs ==
  ASSUME NEW lines \in Seq(UserLines), NEW name \in Names, NEW pass \in Passwords, Plain(pass)
  PROVE  LET new == NewLines(lines, name, pass)
         IN  /\ DOMAIN new = Entries(lines) /\ Entries(lines) \subseteq Nat
             /\ IsFiniteSet(Entries(lines))
             /\ new \in [Entries(lines) -> UserLines]
             /\ new \in [Entries(lines) -> WeighedLines]
             /\ \A k \in Entries(lines) : new[k] = Changed(lines[k], name, pass)
<1> DEFINE E == Entries(lines)
           new == NewLines(lines, name, pass)
<1>1. \A k \in E : k \in DOMAIN lines /\ k \in Nat /\ lines[k] \in UserLines
  BY EntriesIn
<1>2. E \subseteq DOMAIN lines /\ E \subseteq Nat /\ IsFiniteSet(E)
  BY <1>1, SeqIsFunction, FS_Subset
<1>3. \A k \in E : Changed(lines[k], name, pass)
        = Account(lines[k].name, IF lines[k].name = name THEN pass ELSE lines[k].pass,
                  lines[k].uid)
  BY <1>1, ChangedIs
<1>4. /\ new = [k \in E |-> Changed(lines[k], name, pass)]
      /\ DOMAIN new = E /\ \A k \in E : new[k] = Changed(lines[k], name, pass)
  BY <1>3, Zenon DEF NewLines
<1> HIDE DEF E, new
<1>5. \A k \in E : Changed(lines[k], name, pass) \in UserLines
  BY <1>1, ChangedIs
<1>6. new \in [E -> UserLines] /\ new \in [E -> WeighedLines]
  BY <1>4, <1>5 DEF WeighedLines
<1> QED
  BY <1>2, <1>4, <1>6 DEF E, new

\* Some of the lines, and one that comes after them.
LEMMA PickOneMore ==
  ASSUME NEW l \in Seq(UserLines), NEW new, DOMAIN new \subseteq Nat,
         NEW f \in Picks(l, new), NEW k \in DOMAIN new, \A a \in DOMAIN l : f[a] < k
  PROVE  \E g \in Picks(Append(l, new[k]), new) : Range(g) = Range(f) \cup {k}
<1> DEFINE r == Append(l, new[k])
           g == [a \in DOMAIN r |-> IF a = Len(l) + 1 THEN k ELSE f[a]]
<1>1. /\ DOMAIN l = 1 .. Len(l) /\ DOMAIN r = 1 .. Len(l) + 1 /\ Len(l) \in Nat
      /\ \A a \in DOMAIN l : r[a] = l[a] /\ a # Len(l) + 1
  OBVIOUS
<1>2. r[Len(l) + 1] = new[k]
  OBVIOUS
<1>3. \A a \in DOMAIN r : a = Len(l) + 1 \/ a \in DOMAIN l
  BY <1>1
<1>4. /\ f \in [DOMAIN l -> DOMAIN new]
      /\ \A a, b \in DOMAIN l : a < b => f[a] < f[b]
      /\ \A a \in DOMAIN l : l[a] = new[f[a]]
  BY DEF Picks
<1> HIDE DEF r
<1>5. /\ Len(l) + 1 \in DOMAIN r /\ g[Len(l) + 1] = k
      /\ \A a \in DOMAIN l : a \in DOMAIN r /\ g[a] = f[a]
  BY <1>1
<1>6. g \in [DOMAIN r -> DOMAIN new]
  BY <1>1, <1>3, <1>4
<1>7. DOMAIN g = DOMAIN r
  OBVIOUS
<1> HIDE DEF g
<1>8. ASSUME NEW a \in DOMAIN r, NEW b \in DOMAIN r, a < b PROVE g[a] < g[b]
  <2>1. a # Len(l) + 1
    BY <1>1, <1>8
  <2>2. a \in DOMAIN l /\ g[a] = f[a]
    BY <1>3, <1>5, <2>1
  <2>3. CASE b = Len(l) + 1
    BY <1>5, <2>2, <2>3
  <2>4. CASE b # Len(l) + 1
    BY <1>3, <1>4, <1>5, <1>8, <2>2, <2>4
  <2> QED
    BY <2>3, <2>4
<1>9. \A a \in DOMAIN r : r[a] = new[g[a]]
  BY <1>1, <1>2, <1>3, <1>4, <1>5
<1>10. Range(g) = Range(f) \cup {k}
  BY <1>3, <1>4, <1>5, <1>7 DEF Range
<1> QED
  BY <1>6, <1>8, <1>9, <1>10 DEF Picks, r

LEMMA PicksFit ==
  ASSUME NEW l \in Seq(UserLines), NEW E, E \subseteq Nat, IsFiniteSet(E),
         NEW new \in [E -> WeighedLines], NEW f \in Picks(l, new)
  PROVE  BlocksFor(l) <= BlocksFor(new)
<1>1. /\ f \in [DOMAIN l -> E]
      /\ \A a, b \in DOMAIN l : a < b => f[a] < f[b]
      /\ \A a \in DOMAIN l : LineWeight(l[a]) = LineWeight(new[f[a]])
  BY DEF Picks
<1>2. DOMAIN l \subseteq Nat
  OBVIOUS
<1>3. \A a, b \in DOMAIN l : a # b => f[a] # f[b]
  <2> SUFFICES ASSUME NEW a \in DOMAIN l, NEW b \in DOMAIN l, a # b PROVE f[a] # f[b]
    OBVIOUS
  <2>1. a < b \/ b < a
    BY <1>2
  <2>2. f[a] \in Nat /\ f[b] \in Nat
    BY <1>1
  <2> QED
    BY <1>1, <2>1, <2>2
<1>4. IsFiniteSet(DOMAIN l) /\ l \in [DOMAIN l -> WeighedLines]
  BY SeqIsFunction
<1> QED
  BY <1>1, <1>3, <1>4, BlocksPicked

Fits(d, new) == BlocksFor(new) <= d.users.held + d.free

\* Those of the new lines that are there are the first ones.
Beginning(f, new) == \A i \in DOMAIN new, j \in Range(f) : i < j => i \in Range(f)

\* What the disk of d may be on the way.
Changing(d, new) ==
  {o \in Images : \/ o.users.lines = d.users.lines
                  \/ \E f \in Picks(o.users.lines, new) : Fits(d, new) => Beginning(f, new)}

\* After k lines of the old list, those of the new one that are there, and the
\* blocks for them: all of them, when there is the room.
Picked(s, d, new, k) ==
  /\ s \in Contexts(Changing(d, new)) /\ Exists(s, "users")
  /\ Cur(s).users.held + Cur(s).free = d.users.held + d.free
  /\ BlocksFor(Lines(s, "users")) <= Cur(s).users.held
  /\ \E f \in Picks(Lines(s, "users"), new) :
       /\ \A a \in DOMAIN Lines(s, "users") : f[a] <= k
       /\ Fits(d, new) => \A e \in DOMAIN new : e <= k => e \in Range(f)

LEMMA RewritePicks ==
  ASSUME NEW v, NEW d \in Good(v), NEW name \in Names, NEW pass \in Passwords, Plain(pass),
         NEW k \in 1 .. Len(d.users.lines), NEW s,
         Picked(s, d, NewLines(d.users.lines, name, pass), k - 1)
  PROVE  Picked(Rewrite(s, name, pass, d.users.lines[k]), d,
                NewLines(d.users.lines, name, pass), k)
<1> DEFINE lines == d.users.lines
           new == NewLines(lines, name, pass)
           E == Entries(lines)
           l == lines[k]
           x == Changed(l, name, pass)
           r == Rewrite(s, name, pass, l)
           im == Cur(s)
           old == im.users.lines
           J == Changing(d, new)
           fits == Fits(d, new)
<1>1. lines \in Seq(UserLines) /\ d \in Images /\ d.users.held \in Nat /\ d.free \in Nat
  BY GoodIs DEF Images, FilesOf
<1>2. l \in UserLines /\ k \in DOMAIN lines /\ k \in Nat
  BY <1>1
<1>3. /\ DOMAIN new = E /\ E \subseteq Nat /\ IsFiniteSet(E)
      /\ new \in [E -> UserLines] /\ new \in [E -> WeighedLines]
      /\ \A e \in E : new[e] = Changed(lines[e], name, pass)
  BY <1>1, NewLinesIs
<1>4. s \in Contexts(J) /\ Exists(s, "users") /\ im \in Images /\ im["users"] = im.users
  BY CurIn DEF Picked, Changing, Images
<1>5. /\ old = Lines(s, "users") /\ old \in Seq(UserLines) /\ im.users.exists
      /\ im.users.held \in Nat /\ im.free \in Nat
  BY <1>4 DEF Lines, Exists, Images, FilesOf
<1>6. /\ im.users.held + im.free = d.users.held + d.free
      /\ BlocksFor(old) <= im.users.held
  BY <1>5 DEF Picked
<1>7. PICK f \in Picks(old, new) :
        /\ \A a \in DOMAIN old : f[a] <= k - 1
        /\ fits => \A e \in DOMAIN new : e <= k - 1 => e \in Range(f)
  BY <1>5 DEF Picked
<1>8. f \in [DOMAIN old -> E]
  BY <1>3, <1>7 DEF Picks
<1>9. \A a \in DOMAIN old : f[a] \in Nat /\ f[a] <= k /\ f[a] < k
  BY <1>2, <1>3, <1>7, <1>8
<1>10. \A e \in E : e <= k => e <= k - 1 \/ e = k
  BY <1>2, <1>3
<1> HIDE DEF im, old, lines, new, E, fits
<1>11. CASE ~Parses(l)
  <2>1. r = s
    BY <1>11 DEF Rewrite
  <2>2. k \notin E
    BY <1>11 DEF Entries, E
  <2>3. fits => \A e \in DOMAIN new : e <= k => e \in Range(f)
    BY <1>3, <1>7, <1>10, <2>2
  <2>4. Picked(s, d, new, k)
    BY <1>4, <1>5, <1>6, <1>7, <1>9, <2>3, Zenon DEF Picked, fits, im
  <2> QED
    BY <2>1, <2>4 DEF lines, new
<1>12. CASE Parses(l)
  <2>1. k \in E /\ new[k] = x
    BY <1>2, <1>3, <1>12 DEF Entries, E
  <2>2. r = AddLine(s, "users", x)
    BY <1>12 DEF Rewrite, Changed
  <2>3. x \in UserLines
    BY <1>2, ChangedIs
  <2> HIDE DEF x, r, l
  <2> DEFINE h == HeldFor(im, "users", x)
             b == BlocksFor(Append(old, x))
             left == LeftFor(im, "users", x)
             o == Longer(im, "users", x)
  <2>4. PICK g \in Picks(Append(old, x), new) : Range(g) = Range(f) \cup {k}
    BY <1>3, <1>5, <1>7, <1>9, <2>1, PickOneMore
  <2>5. /\ h \in Nat /\ b \in Nat /\ h >= im.users.held /\ h >= b
        /\ h = im.users.held \/ h = b
        /\ left = im.free - (h - im.users.held) /\ left \in Int
    BY <1>4, <2>3, UsersHeldFor DEF old
  <2>6. Append(old, x) \in Seq(UserLines)
    BY <1>5, <2>3
  <2>7. b <= BlocksFor(new) /\ BlocksFor(new) \in Nat
    BY <1>3, <2>4, <2>6, PicksFit, BlocksForIn
  <2>8. fits => ~(left < 0)
    <3> SUFFICES ASSUME fits PROVE ~(left < 0)
      OBVIOUS
    <3>1. BlocksFor(new) <= d.users.held + d.free
      BY DEF fits, Fits
    <3> DEFINE e == im.users.held
               q == im.free
               t == d.users.held + d.free
               n == BlocksFor(new)
    <3>2. e + q = t /\ n <= t /\ b <= n /\ e \in Nat /\ q \in Nat /\ n \in Nat /\ t \in Nat
      BY <1>1, <1>5, <1>6, <2>7, <3>1
    <3>3. left = q - (h - e) /\ (h = e \/ h = b) /\ h \in Nat /\ b \in Nat
      BY <2>5
    <3> HIDE DEF e, q, t, n, left, h, b
    <3>4. b <= e + q
      BY <3>2, <3>3
    <3> QED
      BY <3>2, <3>3, <3>4, StillRoom
  <2>9. CASE left < 0
    <3>1. s \in Contexts(Images)
      BY <1>4, ContextsMono DEF Changing
    <3>2. r \in Contexts(J) /\ Cur(r) = im
      BY <1>4, <2>2, <2>9, AddLineIs DEF im
    <3>3. ~fits
      BY <2>8, <2>9
    <3>4. Exists(r, "users") /\ Lines(r, "users") = old
      BY <1>4, <1>5, <3>2 DEF Exists, Lines, im
    <3> QED
      BY <1>5, <1>6, <1>7, <1>9, <3>2, <3>3, <3>4, Zenon DEF Picked, fits, lines, new, r, l
  <2>10. CASE ~(left < 0)
    <3>1. /\ o \in Images /\ o.users.exists = im.users.exists
          /\ o.users.lines = Append(old, x) /\ o.users.held = h /\ o.free = left
          /\ o["users"] = o.users
      BY <1>4, <2>3, <2>10, UsersLonger DEF old, Images
    <3>2. \A a \in DOMAIN Append(old, x) : g[a] <= k
      <4>1. g \in [DOMAIN Append(old, x) -> DOMAIN new]
        BY <2>4 DEF Picks
      <4>2. ASSUME NEW a \in DOMAIN Append(old, x) PROVE g[a] <= k
        <5>1. g[a] \in Range(f) \cup {k}
          BY <2>4, <4>1 DEF Range
        <5>2. \A j \in Range(f) : j <= k
          BY <1>8, <1>9 DEF Range
        <5> QED
          BY <1>2, <5>1, <5>2
      <4> QED
        BY <4>2
    <3>3. fits => \A e \in DOMAIN new : e <= k => e \in Range(g)
      BY <1>3, <1>7, <1>10, <2>4
    <3>4. fits => Beginning(g, new)
      <4>1. ASSUME NEW i \in DOMAIN new, NEW j \in Range(g), i < j PROVE i <= k
        <5>1. j \in Nat /\ j <= k
          <6>1. j \in Range(f) \cup {k}
            BY <2>4
          <6> QED
            BY <1>2, <1>8, <1>9, <6>1 DEF Range
        <5> QED
          BY <1>2, <1>3, <4>1, <5>1
      <4> QED
        BY <3>3, <4>1 DEF Beginning
    <3> HIDE DEF o, left, h
    <3>5. o \in J
      BY <2>4, <3>1, <3>4 DEF Changing, fits
    <3>6. r \in Contexts(J) /\ Cur(r) = o
      BY <1>4, <2>2, <2>10, <3>5, AddLineIs DEF im, left, o
    <3>7. Exists(r, "users") /\ Lines(r, "users") = Append(old, x)
      BY <1>5, <3>1, <3>6 DEF Exists, Lines
    <3>8. o.users.held + o.free = d.users.held + d.free
      <4> DEFINE e == im.users.held
                 q == im.free
                 t == d.users.held + d.free
      <4>1. e + q = t /\ e \in Nat /\ q \in Nat /\ left = q - (h - e) /\ h \in Nat
        BY <1>5, <1>6, <2>5
      <4> HIDE DEF e, q, t
      <4>2. h + left = t
        BY <4>1
      <4> QED
        BY <3>1, <4>2 DEF t
    <3>9. BlocksFor(Append(old, x)) <= o.users.held
      BY <2>5, <3>1 DEF h
    <3> QED
      BY <2>4, <3>2, <3>3, <3>6, <3>7, <3>8, <3>9, Zenon DEF Picked, fits, lines, new, r, l
  <2> QED
    BY <2>9, <2>10
<1> QED
  BY <1>11, <1>12

LEMMA LoopPicks ==
  ASSUME NEW v, NEW d \in Good(v), NEW name \in Names, NEW pass \in Passwords, Plain(pass), NEW base,
         Picked(base, d, NewLines(d.users.lines, name, pass), 0)
  PROVE  Picked(Loop(name, pass, base, d.users.lines), d,
                NewLines(d.users.lines, name, pass), Len(d.users.lines))
<1> DEFINE lines == d.users.lines
           n == Len(lines)
           new == NewLines(lines, name, pass)
<1>1. lines \in Seq(UserLines) /\ n \in Nat
  BY GoodIs
<1> HIDE DEF lines
<1>0. PICK h : GoesThrough(h, name, pass, base, lines)
  BY <1>1, LoopSteps
<1>2. /\ h[0] = base
      /\ \A k \in 1 .. n : h[k] = Rewrite(h[k - 1], name, pass, lines[k])
      /\ Loop(name, pass, base, lines) = h[n]
  BY <1>0 DEF GoesThrough
<1>3. \A k \in 1 .. n : Picked(h[k - 1], d, new, k - 1) => Picked(h[k], d, new, k)
  BY <1>2, RewritePicks DEF lines
<1> HIDE DEF n, new
<1> DEFINE T == {k \in 0 .. n : ~Picked(h[k], d, new, k)}
<1>4. ASSUME T # {} PROVE FALSE
  <2>1. PICK k \in T : \A j \in T : k <= j
    <3>1. T \subseteq Nat
      OBVIOUS
    <3> QED
      BY <1>4, <3>1, LeastElement
  <2>2. CASE k = 0
    BY <1>2, <2>1, <2>2 DEF new, lines
  <2>3. CASE k # 0
    <3>1. k \in 1 .. n /\ k - 1 \in 0 .. n /\ ~(k <= k - 1)
      BY <1>1, <2>1, <2>3
    <3>2. Picked(h[k - 1], d, new, k - 1)
      BY <2>1, <3>1, Zenon
    <3>3. Picked(h[k], d, new, k)
      BY <1>3, <3>1, <3>2
    <3> QED
      BY <2>1, <3>3
  <2> QED
    BY <2>2, <2>3
<1>5. Picked(h[n], d, new, n)
  BY <1>1, <1>4
<1> QED
  BY <1>2, <1>5 DEF n, new, lines

\* password changes nothing, or goes through the whole loop.
LEMMA PasswordShows ==
  ASSUME NEW v, NEW d \in Good(v), d.users.exists, NEW name \in Names,
         NEW pass \in Passwords, Plain(pass)
  PROVE  LET c == Password(d, name, pass)
             new == NewLines(d.users.lines, name, pass)
         IN  /\ c \in Contexts(Changing(d, new))
             /\ \/ Cur(c) = d /\ c.ret # FS_OK
                \/ \E s : Picked(s, d, new, Len(d.users.lines)) /\ Cur(s) = Cur(c)
<1> DEFINE lines == d.users.lines
           new == NewLines(lines, name, pass)
           J == Changing(d, new)
           m == users_bootstrap(Begin(d))
           id == Id(d)
           fd == OpenR(m, "users", id.uid)
           w == OpenW(m, "users", id.uid)
           z == SetSizeZero(w, "users")
           e == Emptied(d, "users")
           s == Loop(name, pass, z, lines)
           c == Password(d, name, pass)
<1>1. /\ m \in Contexts({d}) /\ Cur(m) = d /\ session_load(m) = id
      /\ Lines(m, "users") = lines /\ Exists(m, "users")
      /\ d \in Images /\ lines \in Seq(UserLines) /\ d.users.held \in Nat /\ d["users"] = d.users
  BY BeginsHere, GoodIs DEF Images, FilesOf
<1>2. c = users_change_password(m, session_load(m), name, pass)
  BY DEF Password, Run
<1>3. c = IF id.uid # 0 /\ id.name # name THEN Ret(m, FS_EPERM)
          ELSE IF fd.ret < 0 THEN Ret(m, FS_ERR)
          ELSE IF w.ret < 0 THEN w
          ELSE Ret(s, FS_OK)
  BY <1>1, <1>2 DEF users_change_password, Loop
<1> HIDE DEF m, fd, c
<1>4. {d} \subseteq J /\ m \in Contexts(J)
  <2>1. {d} \subseteq J
    BY <1>1 DEF Changing
  <2> HIDE DEF J
  <2> QED
    BY <1>1, <2>1, ContextsMono
<1>5. w \in Contexts(J) /\ Cur(w) = d /\ w.ret \in Int
  <2>1. Opened(Cur(m), "users", id.uid) = d
    BY <1>1 DEF Opened, Exists
  <2>2. w \in Contexts({d})
    BY <1>1, <2>1, OpenWIs
  <2> HIDE DEF J, w
  <2>3. w \in Contexts(J)
    BY <1>4, <2>2, ContextsMono
  <2> QED
    BY <2>2, <2>3, CurIn DEF Contexts
<1> HIDE DEF w
<1>6. /\ e \in Images /\ e.free = d.free /\ e.users.exists /\ e.users.lines = <<>>
      /\ e.users.held = d.users.held /\ e["users"] = e.users
  BY <1>1, UsersEmptied DEF Images
<1> HIDE DEF e, new
<1> DEFINE f == [a \in {} |-> 0]
<1>7. f \in Picks(<<>>, new) /\ DOMAIN f = {} /\ Range(f) = {} /\ DOMAIN <<>> = {}
  BY DEF Picks, Range
<1> HIDE DEF f
<1>8. e \in J
  BY <1>6, <1>7 DEF Changing, Beginning
<1>9. z \in Contexts(J) /\ Cur(z) = e
  BY <1>5, <1>8, SetSizeZeroIs DEF e
<1> HIDE DEF z
<1>10. Picked(z, d, new, 0)
  <2>1. Exists(z, "users") /\ Lines(z, "users") = <<>>
    BY <1>6, <1>9 DEF Exists, Lines
  <2>2. \A k \in DOMAIN new : ~(k <= 0)
    <3>1. DOMAIN new \subseteq DOMAIN lines
      BY DEF new, NewLines, Entries
    <3>2. DOMAIN lines = 1 .. Len(lines)
      BY <1>1
    <3> QED
      BY <3>1, <3>2
  <2>3. BlocksFor(<<>>) <= Cur(z).users.held
    BY <1>1, <1>6, <1>9, NoLines
  <2>4. Cur(z).users.held + Cur(z).free = d.users.held + d.free
    BY <1>6, <1>9
  <2> QED
    BY <1>7, <1>9, <2>1, <2>2, <2>3, <2>4 DEF Picked
<1>11. Picked(s, d, new, Len(lines))
  BY <1>10, LoopPicks DEF new
<1> HIDE DEF s
<1>12. s \in Contexts(J)
  BY <1>11 DEF Picked
<1>13. /\ Cur(Ret(m, FS_EPERM)) = d /\ Ret(m, FS_EPERM).ret # FS_OK
       /\ Ret(m, FS_EPERM) \in Contexts(J)
       /\ Cur(Ret(m, FS_ERR)) = d /\ Ret(m, FS_ERR).ret # FS_OK
       /\ Ret(m, FS_ERR) \in Contexts(J)
       /\ Cur(Ret(s, FS_OK)) = Cur(s) /\ Ret(s, FS_OK) \in Contexts(J)
  <2>1. FS_EPERM # FS_OK /\ FS_ERR # FS_OK
    BY DEF FS_EPERM, FS_ERR, FS_OK
  <2> HIDE DEF J
  <2>2. ASSUME NEW x \in Contexts(J), NEW r \in Int
        PROVE  Cur(Ret(x, r)) = Cur(x) /\ Ret(x, r).ret = r /\ Ret(x, r) \in Contexts(J)
    BY RetIn
  <2> QED
    BY <1>1, <1>4, <1>12, <2>1, <2>2, Codes, Zenon
<1>14. w.ret < 0 => w.ret # FS_OK
  BY <1>5 DEF FS_OK
<1> HIDE DEF J
<1>15. /\ c \in Contexts(J)
       /\ \/ Cur(c) = d /\ c.ret # FS_OK
          \/ \E t : Picked(t, d, new, Len(lines)) /\ Cur(t) = Cur(c)
  <2>1. c \in {Ret(m, FS_EPERM), Ret(m, FS_ERR), Ret(s, FS_OK)} \/ (c = w /\ w.ret < 0)
    BY <1>3
  <2> QED
    BY <1>5, <1>11, <1>13, <1>14, <2>1
<1> QED
  BY <1>15 DEF J, c, new

\* With the room for one block more, no line is lost.
LEMMA OneBlockFits ==
  ASSUME NEW d \in Good(FALSE), Whole(d), d.free # 0,
         NEW name \in Names, NEW pass \in Passwords, Plain(pass)
  PROVE  Fits(d, NewLines(d.users.lines, name, pass))
<1> DEFINE lines == d.users.lines
           new == NewLines(lines, name, pass)
           E == Entries(lines)
           D == DOMAIN lines
<1>1. /\ lines \in Seq(UserLines) /\ Distinct(lines)
      /\ d.users.held \in Nat /\ d.free \in Nat /\ BlocksFor(lines) <= d.users.held
  BY GoodIs DEF Good, Images, FilesOf, Whole
<1>2. /\ IsFiniteSet(E) /\ new \in [E -> WeighedLines]
      /\ \A k \in E : new[k] = Changed(lines[k], name, pass)
  BY <1>1, NewLinesIs
<1>3. IsFiniteSet(D) /\ lines \in [D -> WeighedLines]
  BY <1>1, SeqIsFunction
<1>4. \A k \in E : /\ k \in D
                   /\ lines[k].name # name => LineWeight(new[k]) <= LineWeight(lines[k])
  <2>1. ASSUME NEW k \in E, lines[k].name # name
        PROVE  LineWeight(new[k]) <= LineWeight(lines[k])
    <3>1. lines[k] \in UserLines
      BY <1>1, EntriesIn
    <3>2. new[k] = Account(lines[k].name, lines[k].pass, lines[k].uid)
      BY <1>2, <2>1 DEF Changed
    <3> QED
      BY <3>1, <3>2, AccountIn
  <2> QED
    BY <2>1 DEF Entries
<1> DEFINE j == CHOOSE k \in E : lines[k].name = name
<1>5. ASSUME NEW k \in E, k # j PROVE lines[k].name # name
  <2> SUFFICES ASSUME lines[k].name = name PROVE FALSE
    OBVIOUS
  <2>1. j \in E /\ lines[j].name = name
    OBVIOUS
  <2> HIDE DEF j
  <2> QED
    BY <1>1, <1>5, <2>1 DEF Distinct
<1> HIDE DEF j, E, D, lines, new
<1>6. \A k \in E : k # j => k \in D /\ LineWeight(new[k]) <= LineWeight(lines[k])
  <2>1. ASSUME NEW k \in E, k # j PROVE k \in D /\ LineWeight(new[k]) <= LineWeight(lines[k])
    <3>1. lines[k].name # name
      BY <1>5, <2>1
    <3> QED
      BY <1>4, <2>1, <3>1
  <2> QED
    BY <2>1
<1>7. BlocksFor(new) <= BlocksFor(lines) + 1
  BY <1>2, <1>3, <1>6, OneMoreBlock
<1>8. BlocksFor(new) \in Nat /\ BlocksFor(lines) \in Nat
  BY <1>2, <1>3, BlocksForIn
<1>9. BlocksFor(new) <= d.users.held + d.free
  <2> DEFINE a == BlocksFor(new)
             b == BlocksFor(lines)
             h == d.users.held
             q == d.free
  <2>1. a \in Nat /\ b \in Nat /\ h \in Nat /\ q \in Nat /\ q # 0 /\ a <= b + 1 /\ b <= h
    BY <1>1, <1>7, <1>8
  <2> HIDE DEF a, b, h, q
  <2>2. a <= h + q
    BY <2>1
  <2> QED
    BY <2>2 DEF a, h, q
<1> QED
  BY <1>9 DEF Fits, new, lines

LEMMA PasswordWhole ==
  ASSUME NEW d \in Good(FALSE), Whole(d), d.free # 0, NEW name \in Names,
         NEW pass \in Passwords \ Long, Plain(pass)
  PROVE  Whole(Cur(Password(d, name, pass)))
<1> DEFINE lines == d.users.lines
           new == NewLines(lines, name, pass)
           E == Entries(lines)
           o == Cur(Password(d, name, pass))
<1>1. lines \in Seq(UserLines) /\ d.users.exists /\ \A k \in DOMAIN lines : Parses(lines[k])
  BY GoodIs DEF Whole
<1>2. /\ DOMAIN new = E
      /\ \A k \in E : new[k] = Changed(lines[k], name, pass)
  BY <1>1, NewLinesIs
<1>3. E = DOMAIN lines /\ DOMAIN lines = 1 .. Len(lines)
  BY <1>1 DEF Entries
<1>4. ASSUME NEW k \in E
      PROVE  Parses(new[k]) /\ new[k].name = lines[k].name /\ new[k].uid = lines[k].uid
  <2>1. lines[k] \in UserLines /\ Parses(lines[k])
    BY <1>1, <1>3
  <2> DEFINE q == IF lines[k].name = name THEN pass ELSE lines[k].pass
  <2>2. /\ new[k].name = lines[k].name /\ new[k].uid = lines[k].uid
        /\ new[k] = Account(lines[k].name, q, lines[k].uid)
    BY <1>2, <2>1, ChangedIs
  <2>3. lines[k].name \notin Long /\ q \notin Long
    BY <2>1 DEF Parses
  <2> HIDE DEF q
  <2>4. Parses(Account(lines[k].name, q, lines[k].uid))
    BY <2>3, AccountIs, Zenon
  <2>5. Parses(new[k])
    BY <2>2, <2>4, Zenon
  <2> QED
    BY <2>2, <2>5
<1>5. o \in Images /\ o["users"] = o.users /\ Id(o) = Id(d)
  <2>1. Password(d, name, pass) \in Contexts(SameId(FALSE, d))
    BY PasswdKeeps
  <2>2. o \in SameId(FALSE, d)
    BY <2>1, CurIn
  <2> QED
    BY <2>2 DEF SameId, Good, Images
<1>6. Fits(d, new)
  BY OneBlockFits
<1>7. \/ o = d
      \/ \E s : Picked(s, d, new, Len(lines)) /\ Cur(s) = o
  BY <1>1, PasswordShows
<1> HIDE DEF o, new, E
<1>8. ASSUME NEW s, Picked(s, d, new, Len(lines)), Cur(s) = o
      PROVE  Whole(o)
  <2>1. /\ o.users.exists /\ BlocksFor(o.users.lines) <= o.users.held
        /\ Lines(s, "users") = o.users.lines
    BY <1>5, <1>8 DEF Picked, Exists, Lines
  <2> DEFINE l == o.users.lines
  <2>2. PICK f \in Picks(l, new) : \A e \in DOMAIN new : e <= Len(lines) => e \in Range(f)
    BY <1>6, <1>8, <2>1 DEF Picked
  <2>3. /\ f \in [DOMAIN l -> E] /\ \A a \in DOMAIN l : l[a] = new[f[a]]
    BY <1>2, <2>2 DEF Picks
  <2> HIDE DEF l
  <2>4. \A a \in DOMAIN l : Parses(l[a])
    BY <1>4, <2>3
  <2>5. ASSUME NEW id, Has(lines, id) PROVE Has(l, id)
    <3>1. PICK k \in DOMAIN lines : lines[k].name = id.name /\ lines[k].uid = id.uid
      BY <2>5 DEF Has
    <3>2. k \in E /\ k \in Range(f)
      BY <1>1, <1>2, <1>3, <2>2
    <3>3. PICK a \in DOMAIN l : f[a] = k
      BY <2>3, <3>2 DEF Range
    <3>4. l[a].name = id.name /\ l[a].uid = id.uid
      BY <1>4, <2>3, <3>1, <3>2, <3>3
    <3> QED
      BY <3>4 DEF Has
  <2>6. Has(l, Root) /\ Has(l, Id(o))
    BY <1>5, <2>5 DEF Whole
  <2> QED
    BY <2>1, <2>4, <2>6 DEF Whole, l
<1> QED
  BY <1>7, <1>8 DEF o

\* Without kills, and with the words parse_line takes, the accounts stay whole.
AccountsWhole ==
  /\ cuts \in Nat
  /\ spoiled \in BOOLEAN
  /\ (cuts = 0 /\ ~spoiled /\ colons = FALSE) => Whole(disk)

LEMMA Uncut ==
  ASSUME NEW c, cuts \in Nat, Execute(c)
  PROVE  cuts' \in Nat /\ (cuts' = 0 => cuts = 0 /\ disk' = Cur(c))
BY DEF Execute

\* Whole is inductive next to Good (users_add, users_change_password, session_save).
THEOREM WholeHolds == Spec => []AccountsWhole
<1>1. Init => AccountsWhole
  <2> SUFFICES ASSUME Init PROVE AccountsWhole
    OBVIOUS
  <2>1. cuts = 0 /\ spoiled = FALSE /\ disk = Cur(Fresh)
    BY DEF Init
  <2>2. Whole(disk)
    BY <2>1, FormatWhole, Zenon
  <2> QED
    BY <2>1, <2>2 DEF AccountsWhole
<1>2. DiskGood /\ AccountsWhole /\ [Next]_vars => AccountsWhole'
  <2> SUFFICES ASSUME colons \in BOOLEAN, disk \in Good(colons), AccountsWhole, [Next]_vars
               PROVE  AccountsWhole'
    BY DEF DiskGood
  <2>1. /\ cuts \in Nat /\ spoiled \in BOOLEAN
        /\ cuts = 0 /\ ~spoiled /\ colons = FALSE => Whole(disk)
    BY DEF AccountsWhole
  <2>2. ASSUME NEW c, Execute(c), spoiled' \in BOOLEAN, ~spoiled' => ~spoiled,
               colons' = FALSE => colons = FALSE,
               ~spoiled' /\ colons' = FALSE /\ Whole(disk) => Whole(Cur(c))
        PROVE  AccountsWhole'
    BY <2>1, <2>2, Uncut DEF AccountsWhole
  <2>3. CASE Execute(Format(disk)) /\ UNCHANGED <<spoiled, colons>>
    <3>1. Whole(Cur(Format(disk)))
      BY FormatKeeps, FormatWhole
    <3> QED
      BY <2>1, <2>2, <2>3, <3>1
  <2>4. CASE OtherFiles /\ UNCHANGED <<cuts, spoiled, colons>>
    <3>1. PICK n \in 0 .. MaxFree, r \in BOOLEAN :
            disk' = [disk EXCEPT !.free = n, !.room = r]
      BY <2>4 DEF OtherFiles
    <3> DEFINE a == [disk EXCEPT !.free = n]
               b == [a EXCEPT !.room = r]
    <3>2. disk \in Images /\ disk' = b
      BY <3>1 DEF Good
    <3>3. DOMAIN a = DOMAIN disk /\ a.users = disk.users /\ a.session = disk.session
      BY <3>2 DEF Images
    <3> HIDE DEF a
    <3>4. b.users = disk.users /\ b.session = disk.session
      BY <3>3
    <3> HIDE DEF b
    <3>5. Whole(disk) => Whole(disk')
      BY <3>2, <3>4 DEF Whole, Id
    <3> QED
      BY <2>1, <2>4, <3>5 DEF AccountsWhole
  <2>5. ASSUME NEW n \in Names, NEW p \in Passwords, Execute(Login(disk, n, p)),
               UNCHANGED <<spoiled, colons>>
        PROVE  AccountsWhole'
    BY <2>1, <2>2, <2>5, LoginWhole
  <2>6. ASSUME NEW n \in Names, NEW p \in Passwords, Execute(Useradd(disk, n, p)),
               spoiled' = (spoiled \/ {n, p} \cap Long # {}),
               colons' = (colons \/ ~Plain(n) \/ ~Plain(p))
        PROVE  AccountsWhole'
    <3>1. ASSUME ~spoiled', colons' = FALSE, Whole(disk)
          PROVE  Whole(Cur(Useradd(disk, n, p)))
      <4>1. n \in Names \ Long /\ p \in Passwords \ Long
        BY <2>6, <3>1
      <4>2. Plain(n) /\ Plain(p)
        BY <2>6, <3>1, Zenon
      <4> QED
        BY <3>1, <4>1, <4>2, UseraddWhole
    <3>2. spoiled' \in BOOLEAN /\ (~spoiled' => ~spoiled) /\ (colons' = FALSE => colons = FALSE)
      <4>1. colons' = FALSE => colons = FALSE
        BY <2>6, Zenon
      <4> QED
        BY <2>1, <2>6, <4>1
    <3> QED
      BY <2>2, <2>6, <3>1, <3>2
  <2>7. ASSUME NEW n \in Names, NEW p \in Passwords, Execute(Password(disk, n, p)),
               spoiled' = (spoiled \/ p \in Long \/ disk.free = 0),
               colons' = (colons \/ ~Plain(p))
        PROVE  AccountsWhole'
    <3>0. (colons' = FALSE => colons = FALSE) /\ (colons' = FALSE => Plain(p))
      BY <2>7, Zenon
    <3>1. ASSUME ~spoiled', colons' = FALSE, Whole(disk)
          PROVE  Whole(Cur(Password(disk, n, p)))
      <4>1. p \in Passwords \ Long /\ disk.free # 0
        BY <2>7, <3>1
      <4>2. Plain(p) /\ disk \in Good(FALSE)
        BY <3>0, <3>1
      <4> QED
        BY <3>1, <4>1, <4>2, PasswordWhole
    <3>2. spoiled' \in BOOLEAN /\ (~spoiled' => ~spoiled) /\ (colons' = FALSE => colons = FALSE)
      BY <2>1, <2>7, <3>0
    <3> QED
      BY <2>2, <2>7, <3>1, <3>2
  <2>8. ASSUME NEW f \in {"users", "session"}, NEW m \in Modes, Execute(Chmod(disk, f, m)),
               UNCHANGED <<spoiled, colons>>
        PROVE  AccountsWhole'
    BY <2>1, <2>2, <2>8, ChmodWhole DEF Both
  <2>9. CASE UNCHANGED vars
    BY <2>1, <2>9 DEF vars, AccountsWhole
  <2> QED
    BY <2>3, <2>4, <2>5, <2>6, <2>7, <2>8, <2>9 DEF Next
<1> QED
  BY <1>1, <1>2, GoodHolds, PTL DEF Spec

\* While no command was killed, no word too long or with a ':' was entered and no
\* password changed on a full disk, who the next command runs as is an account of /.users
\* (session_save and session_load, users_change_password).
THEOREM SessionIsAccountHolds == Spec => []SessionIsAccount
<1>1. DiskGood /\ AccountsWhole => SessionIsAccount
  <2> SUFFICES ASSUME disk \in Good(colons), Whole(disk)
               PROVE  \E l \in Accounts(disk) : [name |-> l.name, uid |-> l.uid] = Whoami(disk)
    BY DEF DiskGood, AccountsWhole, SessionIsAccount
  <2>1. PICK k \in DOMAIN disk.users.lines :
          /\ disk.users.lines[k].name = Id(disk).name
          /\ disk.users.lines[k].uid = Id(disk).uid
    BY DEF Whole, Has
  <2>2. disk.users.lines[k] \in Accounts(disk)
    BY DEF Accounts, Entries, Whole
  <2>3. Id(disk) \in SessionLines /\ Whoami(disk) = Id(disk)
    BY GoodIs, IdIn, WhoamiIs
  <2>4. Id(disk) = [name |-> Id(disk).name, uid |-> Id(disk).uid]
    BY <2>3 DEF SessionLines
  <2> QED
    BY <2>1, <2>2, <2>3, <2>4
<1> QED
  BY <1>1, GoodHolds, WholeHolds, PTL

-----------------------------------------------------------------------------
(* What the commands may do to the accounts *)

\* One line at the end, or nothing.
Added(d, n, p) ==
  {o \in Images : \/ o.users.lines = d.users.lines
                  \/ /\ o.users.lines # <<>>
                     /\ o.users.lines
                          = Append(d.users.lines, Account(n, p, Last(o.users.lines).uid))}

LEMMA UseraddShows ==
  ASSUME NEW v, NEW d \in Good(v), d.users.exists, NEW n \in Names, NEW p \in Passwords, Plain(n), Plain(p)
  PROVE  Useradd(d, n, p) \in Contexts(Added(d, n, p))
<1> DEFINE J == Added(d, n, p)
           m == users_bootstrap(Begin(d))
           lines == d.users.lines
           uid == Max({0} \cup {l.uid : l \in {lines[k] : k \in Entries(lines)}}) + 1
           w == OpenW(m, "users", Id(d).uid)
           x == Line(Split[n] \o Split[p], uid)
           a == AddLine(w, "users", x)
           o == Longer(d, "users", x)
<1>1. /\ m \in Contexts({d}) /\ Cur(m) = d /\ session_load(m) = Id(d)
      /\ Lines(m, "users") = lines /\ Exists(m, "users")
      /\ d \in Images /\ lines \in Seq(UserLines)
  BY BeginsHere, GoodIs
<1>2. Useradd(d, n, p) = users_add(m, session_load(m), n, p)
  BY DEF Useradd, Run
<1> HIDE DEF m
<1>3. Useradd(d, n, p) \in {Ret(m, FS_EPERM), Ret(m, FS_ERR), Ret(m, FS_EEXIST), a}
  BY <1>1, <1>2 DEF users_add
<1>4. uid \in Nat
  BY <1>1, FreshUid
<1> HIDE DEF uid
<1>5. x \in UserLines /\ x.uid = uid /\ x = Account(n, p, x.uid)
  <2>1. x \in UserLines /\ x = Account(n, p, uid) /\ x.uid = uid
    BY <1>4, AddedIs
  <2> HIDE DEF x
  <2> QED
    BY <2>1, Zenon
<1> HIDE DEF x
<1>6. d \in J
  BY <1>1 DEF Added
<1>7. w \in Contexts({d}) /\ Cur(w) = d
  <2>1. Opened(Cur(m), "users", Id(d).uid) = d
    BY <1>1 DEF Opened, Exists
  <2> QED
    BY <1>1, <2>1, OpenWIs, CurIn
<1> HIDE DEF w
<1>8. ~(LeftFor(d, "users", x) < 0) => o \in J
  <2> SUFFICES ASSUME ~(LeftFor(d, "users", x) < 0) PROVE o \in J
    OBVIOUS
  <2>1. o \in Images /\ o.users.lines = Append(lines, x)
    BY <1>1, <1>5, UsersLonger
  <2> HIDE DEF o
  <2>2. Append(lines, x) # <<>> /\ Last(Append(lines, x)) = x
    BY <1>1, <1>5 DEF Last
  <2> HIDE DEF lines
  <2>3. o.users.lines # <<>> /\ Last(o.users.lines) = x
    BY <2>1, <2>2
  <2>4. o.users.lines = Append(lines, Account(n, p, Last(o.users.lines).uid))
    BY <1>5, <2>1, <2>3, Zenon
  <2> QED
    BY <2>1, <2>3, <2>4 DEF Added, lines
<1> HIDE DEF o, J
<1>9. m \in Contexts(J) /\ w \in Contexts(J)
  <2>1. {d} \subseteq J
    BY <1>6
  <2> QED
    BY <1>1, <1>7, <2>1, ContextsMono
<1>10. a \in Contexts(J)
  <2>1. ~(LeftFor(Cur(w), "users", x) < 0) => Longer(Cur(w), "users", x) \in J
    BY <1>7, <1>8 DEF o
  <2> QED
    BY <1>9, <2>1, AddLineIs
<1> HIDE DEF a
<1>11. Useradd(d, n, p) \in Contexts(J)
  BY <1>3, <1>9, <1>10, RetIn, Codes
<1> QED
  BY <1>11 DEF J

\* What a command may do to the accounts, after each of its writes, for words without
\* ':': other lines are lost only when the new list needs a block the disk does not have (security.c).
THEOREM RewriteKeepsAccountsHolds == Spec => []RewriteKeepsAccounts
<1>1. DiskGood => RewriteKeepsAccounts
  <2> SUFFICES ASSUME disk \in Good(colons), disk.users.exists PROVE RewriteKeepsAccounts
    BY DEF DiskGood, RewriteKeepsAccounts
  <2> DEFINE old == disk.users.lines
             New(c) == NewLines(old, c.name, c.pass)
  <2>1. ASSUME NEW c \in Logins \cup Chmods, NEW k \in DOMAIN c.ctx.log
        PROVE  c.ctx.log[k].users.lines = old
    <3>1. c.ctx \in Contexts(SameUsers(disk))
      <4>1. CASE c \in Logins
        BY <4>1, LoginSameUsers DEF Logins
      <4>2. CASE c \in Chmods
        BY <4>2, ChmodSameUsers DEF Chmods, Both
      <4> QED
        BY <4>1, <4>2
    <3> QED
      BY <3>1, CurIn DEF SameUsers
  <2>2. ASSUME NEW c \in Plainly(Adds), NEW k \in DOMAIN c.ctx.log
        PROVE  LET lines == c.ctx.log[k].users.lines
               IN  \/ lines = old
                   \/ /\ lines # <<>>
                      /\ lines = Append(old, Account(c.name, c.pass, Last(lines).uid))
    <3>1. PICK n \in Names, p \in Passwords :
            c = [name |-> n, pass |-> p, ctx |-> Useradd(disk, n, p)]
      BY DEF Adds, Plainly
    <3>2. c.name = n /\ c.pass = p /\ c.ctx \in Contexts(Added(disk, n, p))
      BY <3>1, UseraddShows DEF Plainly
    <3> DEFINE o == c.ctx.log[k]
    <3>3. o \in Added(disk, c.name, c.pass)
      BY <3>2, CurIn
    <3> QED
      BY <3>3 DEF Added
  <2>3. ASSUME NEW c \in Plainly(Changes)
        PROVE  /\ c.ctx \in Contexts(Changing(disk, New(c)))
               /\ \/ c.ctx.ret # FS_OK
                  \/ \E s : Picked(s, disk, New(c), Len(old)) /\ Cur(s) = Cur(c.ctx)
    <3>1. PICK n \in Names, p \in Passwords :
            c = [name |-> n, pass |-> p, ctx |-> Password(disk, n, p)]
      BY DEF Changes, Plainly
    <3>2. c.name = n /\ c.pass = p /\ c.ctx = Password(disk, n, p) /\ Plain(p)
      BY <3>1 DEF Plainly
    <3>3. LET d == Password(disk, n, p)
              new == NewLines(old, n, p)
          IN  /\ d \in Contexts(Changing(disk, new))
              /\ \/ Cur(d) = disk /\ d.ret # FS_OK
                 \/ \E s : Picked(s, disk, new, Len(old)) /\ Cur(s) = Cur(d)
      BY <3>2, PasswordShows
    <3> QED
      BY <3>2, <3>3
  <2>4. ASSUME NEW c \in Plainly(Changes), NEW k \in DOMAIN c.ctx.log
        PROVE  LET lines == c.ctx.log[k].users.lines
               IN  \/ lines = old
                   \/ \E f \in Picks(lines, New(c)) :
                        BlocksFor(New(c)) <= disk.users.held + disk.free
                          => \A i \in DOMAIN New(c), j \in Range(f) :
                               i < j => i \in Range(f)
    <3> DEFINE o == c.ctx.log[k]
    <3>1. o \in Changing(disk, New(c))
      BY <2>3, CurIn
    <3> HIDE DEF New, o
    <3>2. \/ o.users.lines = old
          \/ \E f \in Picks(o.users.lines, New(c)) :
               BlocksFor(New(c)) <= disk.users.held + disk.free
                 => \A i \in DOMAIN New(c), j \in Range(f) : i < j => i \in Range(f)
      BY <3>1 DEF Changing, Fits, Beginning
    <3> QED
      BY <3>2 DEF o
  <2>5. ASSUME NEW c \in Plainly(Changes), c.ctx.ret = FS_OK,
               BlocksFor(New(c)) <= disk.users.held + disk.free
        PROVE  \E f \in Picks(Cur(c.ctx).users.lines, New(c)) : Range(f) = DOMAIN New(c)
    <3>1. PICK s : Picked(s, disk, New(c), Len(old)) /\ Cur(s) = Cur(c.ctx)
      BY <2>3, <2>5
    <3>2. DOMAIN New(c) \subseteq 1 .. Len(old)
      <4>1. DOMAIN old = 1 .. Len(old)
        BY GoodIs
      <4> QED
        BY <4>1 DEF NewLines, Entries
    <3>3. Cur(s) \in Images
      BY <3>1, CurIn DEF Picked, Changing
    <3>4. Lines(s, "users") = Cur(c.ctx).users.lines
      BY <3>1, <3>3 DEF Lines, Images
    <3> HIDE DEF New
    <3>5. PICK f \in Picks(Cur(c.ctx).users.lines, New(c)) :
            \A e \in DOMAIN New(c) : e <= Len(old) => e \in Range(f)
      BY <2>5, <3>1, <3>4 DEF Picked, Fits
    <3>6. Range(f) \subseteq DOMAIN New(c)
      BY DEF Picks, Range
    <3>7. \A e \in DOMAIN New(c) : e <= Len(old)
      BY <3>2
    <3> QED
      BY <3>5, <3>6, <3>7
  <2> QED
    BY <2>1, <2>2, <2>4, <2>5, Zenon DEF RewriteKeepsAccounts
<1> QED
  BY <1>1, GoodHolds, PTL
==============================================================================
