---------------------------- MODULE SmsLogProofs ----------------------------
(***************************************************************************)
(* Proofs about the SMS observation window of module SmsLog, for every     *)
(* size of the files, budget of a read and number of lines and sessions,   *)
(* on a file system that does not give the number of a removed file to a   *)
(* new one: a read during which the collector is quiet is exact, no read   *)
(* shows another session's lines, and a boundary is given up only when its *)
(* file is gone.                                                           *)
(***************************************************************************)
EXTENDS SmsLog, SequenceTheorems, WellFoundedInduction, TLAPS

-----------------------------------------------------------------------------
(* The invariant.                                                           *)

Cursors == [inode : Inodes \cup {NoFile}, offset : Nat, anchor : Seq(Nat)]
SessionRecords ==
    [start : Cursors, end : Cursors, ended : BOOLEAN, from : Nat, upto : Nat,
     state : {"none", "starting", "running", "stopped", "boundary_lost"}]

\* A name refers to at most one of the files given out so far.
StoreOk ==
    /\ data \in [Inodes -> Seq(Nat)] /\ history \in Seq(Nat) /\ lines \in Nat
    /\ used \subseteq Inodes
    /\ dir = [current |-> dir.current, backup |-> dir.backup]
    /\ dir.current \in used \cup {NoFile} /\ dir.backup \in used \cup {NoFile}
    /\ dir.current = dir.backup => dir.current = NoFile

\* The collector renames only after the removal, and writes to a file.
SinkOk ==
    /\ sink \in {"idle", "remove", "rename", "open", "body", "newline"}
    /\ sink = "rename" => dir.backup = NoFile
    /\ sink \in {"body", "newline"} => dir.current # NoFile

\* Files only grow, so a mark stays where it was made.
CursorOk(c) ==
    /\ c \in Cursors /\ c.inode \in used
    /\ Len(c.anchor) <= c.offset
    /\ Valid(c, c.inode)

\* What was received since b, what its file holds after the mark, what the
\* current file holds.
Since(b, n) == SubSeq(history, b.from + 1, n)
Rest(b) == SubSeq(data[b.start.inode], b.start.offset + 1, Len(data[b.start.inode]))
Now == IF dir.current = NoFile THEN <<>> ELSE data[dir.current]

After(b, u) == \E h \in b.from + 1 .. Len(history) : history[h] = u
OnlyAfter(b, i, n) == \A p \in n + 1 .. Len(data[i]) : After(b, data[i][p])

\* While the file of the mark has a name the two names hold all since the mark;
\* whatever becomes of it, later files hold later units only.
BoundaryOk(b) ==
    /\ CursorOk(b.start)
    /\ b.from \in 0 .. Len(history)
    /\ b.start.inode = dir.current => Since(b, Len(history)) = Rest(b)
    /\ b.start.inode = dir.backup => Since(b, Len(history)) = Rest(b) \o Now
    /\ OnlyAfter(b, b.start.inode, b.start.offset)
    /\ dir.current \notin {NoFile, b.start.inode} => OnlyAfter(b, dir.current, 0)

\* What a stopped session holds, as long as its first file can be read.
FrozenOk ==
    /\ CursorOk(session.end) /\ session.upto \in session.from .. Len(history)
    /\ session.end.inode = session.start.inode =>
          /\ session.start.offset <= session.end.offset
          /\ Since(session, session.upto) =
                SubSeq(data[session.start.inode], session.start.offset + 1,
                       session.end.offset)
    /\ session.end.inode # session.start.inode =>
          /\ session.start.inode # dir.current
          /\ session.start.inode = dir.backup => session.end.inode = dir.current
          /\ session.start.inode \in {dir.backup} \cup Opened =>
                Since(session, session.upto) =
                   Rest(session)
                     \o SubSeq(data[session.end.inode], 1, session.end.offset)

SessionOk ==
    /\ mark \in SessionRecords /\ session \in SessionRecords
    /\ mark.upto <= Len(history) /\ session.upto <= Len(history)
    /\ mark # NoSession =>
          /\ session = NoSession /\ BoundaryOk(mark)
          /\ ~mark.ended /\ mark.end = NoCursor
    /\ session # NoSession => session.state # "none" /\ BoundaryOk(session)
    /\ session.state \in {"starting", "running"} =>
          ~session.ended /\ session.end = NoCursor
    /\ session.state = "stopped" =>
          session.ended /\ session.end # NoCursor /\ FrozenOk

Reading == reader.pc \in {"backup", "current", "span"}
Gone(i) == i \notin {dir.current, dir.backup}
Moved == session.state = "stopped" /\ session.end.inode # session.start.inode

\* The reader's open files, of which a second one was current when opened.
ReadOk ==
    /\ reader \in [pc : {"idle", "backup", "current", "span", "done"},
                   attempt : {1, 2}, got : Seq([inode : Inodes, size : Nat])]
    /\ reader.pc \in {"idle", "backup", "done"} => reader.got = <<>>
    /\ reader.pc = "idle" => reader.attempt = 1
    /\ Reading => session.state \in {"starting", "running", "stopped"}
    /\ Len(reader.got) <= 2 /\ (reader.pc = "current" => Len(reader.got) <= 1)
    /\ \A k \in 1 .. Len(reader.got) :
          /\ reader.got[k].inode \in used
          /\ reader.got[k].size <= Len(data[reader.got[k].inode])
          /\ reader.pc = "current" => reader.got[k].inode # dir.current
          /\ Moved /\ reader.got[k].inode = session.start.inode =>
                reader.got[k].size = Len(data[session.start.inode])
    /\ Len(reader.got) = 2 =>
          /\ reader.got[1].inode # reader.got[2].inode
          /\ reader.got[2].inode # session.start.inode =>
                OnlyAfter(session, reader.got[2].inode, 0)

\* What it means that an open has missed the file of the boundary.
MissOk ==
    LET s == session.start.inode
    IN  /\ Reading /\ reader.attempt = 2 => s # dir.current
        /\ reader.pc = "current" /\ reader.attempt = 2 /\ s \notin Opened => Gone(s)
        /\ reader.pc = "span" /\ s \notin Opened =>
              s # dir.current /\ (reader.attempt = 2 => Gone(s))
        /\ reader.pc = "span" /\ Moved /\ s \in Opened =>
              \/ Gone(s)
              \/ /\ Len(reader.got) = 2 /\ reader.got[1].inode = s
                 /\ reader.got[2].inode = session.end.inode

\* Without the collector the open files are still the ones with the names.
Entry(i) == IF i = NoFile THEN <<>> ELSE <<[inode |-> i, size |-> Len(data[i])]>>
QuietOk ==
    /\ quiet \in BOOLEAN /\ asked \in 0 .. Len(history)
    /\ quiet /\ reader.pc = "current" => reader.got = Entry(dir.backup)
    /\ quiet /\ reader.pc = "span" =>
          reader.got = Entry(dir.backup) \o Entry(dir.current)

AnswerOk ==
    /\ reader.pc # "done" => answer.kind = "none"
    /\ answer.kind \in {"ok", "lost"} => session # NoSession
    /\ QuietReadIsExact /\ OwnLinesOnly /\ LostMeansGone

SmsInv ==
    /\ StoreOk /\ SinkOk /\ SessionOk
    /\ ReadOk /\ MissOk /\ QuietOk /\ AnswerOk

-----------------------------------------------------------------------------
(* Texts and lines.                                                         *)

\* A non-empty set of naturals has a least element.
LEMMA Least ==
  ASSUME NEW I \in SUBSET Nat, I # {}
  PROVE  \E x \in I : \A y \in I : x <= y
<1>1. PICK x \in I : \A y \in I : ~(<<y, x>> \in OpToRel(<, Nat))
  BY WFMin, NatLessThanWellFounded
<1>2. ASSUME NEW y \in I PROVE x <= y
  <2>1. x \in Nat /\ y \in Nat  OBVIOUS
  <2>2. ~(y < x)  BY <1>1, <2>1 DEF OpToRel
  <2> QED  BY <2>1, <2>2
<1> QED  BY <1>2

\* The first newline of a text.
LEMMA FirstNLPlace ==
  ASSUME NEW t \in Seq(Nat)
  PROVE  /\ FirstNL(t) \in 0 .. Len(t)
         /\ FirstNL(t) > 0 => IsNL(t[FirstNL(t)])
         /\ \A i \in 1 .. Len(t) :
               IsNL(t[i]) => FirstNL(t) > 0 /\ FirstNL(t) <= i
<1> DEFINE I == {i \in 1 .. Len(t) : IsNL(t[i])}
           p == FirstNL(t)
<1>1. Len(t) \in Nat /\ I \in SUBSET Nat /\ I \subseteq 1 .. Len(t)  OBVIOUS
<1>2. p = IF I # {} THEN Min(I) ELSE 0  BY DEF FirstNL, SelectInSeq
<1> HIDE DEF p
<1>3. CASE I = {}
  <2>1. p = 0  BY <1>2, <1>3
  <2>2. \A i \in 1 .. Len(t) : ~IsNL(t[i])  BY <1>3
  <2> QED  BY <1>1, <2>1, <2>2 DEF p
<1>4. CASE I # {}
  <2>1. p = CHOOSE x \in I : \A y \in I : x <= y  BY <1>2, <1>4 DEF Min
  <2>2. \E x \in I : \A y \in I : x <= y
    <3> HIDE DEF I
    <3> QED  BY <1>1, <1>4, Least
  <2>3. p \in I /\ \A y \in I : p <= y
    <3> HIDE DEF I
    <3> QED  BY <2>1, <2>2
  <2>4. p \in 1 .. Len(t) /\ IsNL(t[p])  BY <2>3
  <2>5. \A i \in 1 .. Len(t) : IsNL(t[i]) => p <= i  BY <2>3
  <2> QED  BY <1>1, <2>4, <2>5 DEF p
<1> QED  BY <1>3, <1>4

\* The last newline of a text.
LEMMA LastNLPlace ==
  ASSUME NEW t \in Seq(Nat)
  PROVE  /\ LastNL(t) \in 0 .. Len(t)
         /\ LastNL(t) > 0 => IsNL(t[LastNL(t)])
         /\ \A i \in 1 .. Len(t) : IsNL(t[i]) => i <= LastNL(t)
<1> DEFINE I == {i \in 1 .. Len(t) : IsNL(t[i])}
           J == {j \in Nat : Len(t) - j \in I}
           p == LastNL(t)
<1>1. Len(t) \in Nat /\ I \subseteq 1 .. Len(t)  OBVIOUS
<1>2. p = IF I # {} THEN Max(I) ELSE 0  BY DEF LastNL, SelectLastInSeq
<1> HIDE DEF p
<1>3. CASE I = {}
  <2>1. p = 0  BY <1>2, <1>3
  <2>2. \A i \in 1 .. Len(t) : ~IsNL(t[i])  BY <1>3
  <2> QED  BY <1>1, <2>1, <2>2 DEF p
<1>4. CASE I # {}
  <2>1. p = CHOOSE x \in I : \A y \in I : x >= y  BY <1>2, <1>4 DEF Max
  <2>2. \E x \in I : \A y \in I : x >= y
    <3>1. PICK i \in I : TRUE  BY <1>4
    <3> HIDE DEF I
    <3>2. Len(t) - i \in Nat /\ Len(t) - (Len(t) - i) = i  BY <1>1, <3>1
    <3>3. J \in SUBSET Nat /\ J # {}  BY <3>1, <3>2
    <3>4. PICK j \in J : \A k \in J : j <= k
      <4> HIDE DEF J
      <4> QED  BY <3>3, Least
    <3>5. j \in Nat /\ Len(t) - j \in I  OBVIOUS
    <3>6. ASSUME NEW y \in I PROVE Len(t) - j >= y
      <4>1. y \in Nat /\ Len(t) - y \in Nat /\ Len(t) - (Len(t) - y) = y
        BY <1>1, <3>6
      <4>2. Len(t) - y \in J  BY <4>1
      <4>3. j <= Len(t) - y  BY <3>4, <4>2
      <4> QED  BY <1>1, <3>5, <4>1, <4>3
    <3> QED  BY <3>5, <3>6
  <2>3. p \in I /\ \A y \in I : p >= y
    <3> HIDE DEF I
    <3> QED  BY <2>1, <2>2
  <2>4. p \in 1 .. Len(t) /\ IsNL(t[p])  BY <2>3
  <2>5. \A i \in 1 .. Len(t) : IsNL(t[i]) => i <= p  BY <1>1, <2>3, <2>4
  <2> QED  BY <1>1, <2>4, <2>5 DEF p
<1> QED  BY <1>3, <1>4

\* The units of a text from a + 1 to z.
LEMMA Slice ==
  ASSUME NEW t \in Seq(Nat), NEW a \in Nat, NEW z \in Nat, z <= Len(t)
  PROVE  /\ SubSeq(t, a + 1, z) \in Seq(Nat)
         /\ a <= z => Len(SubSeq(t, a + 1, z)) = z - a
         /\ z <= a => SubSeq(t, a + 1, z) = <<>>
         /\ \A i \in 1 .. z - a : SubSeq(t, a + 1, z)[i] = t[a + i]
<1>1. Len(t) \in Nat /\ \A i \in 1 .. Len(t) : t[i] \in Nat  OBVIOUS
<1>2. a + 1 \in Int /\ z \in Int /\ \A i \in a + 1 .. z : t[i] \in Nat
  BY <1>1
<1> DEFINE m == a + 1
<1>3. /\ SubSeq(t, m, z) \in Seq(Nat)
      /\ Len(SubSeq(t, m, z)) = IF m <= z THEN z - m + 1 ELSE 0
      /\ \A i \in 1 .. z - m + 1 : SubSeq(t, m, z)[i] = t[m + i - 1]
  <2> HIDE DEF m
  <2>1. m \in Int /\ \A i \in m .. z : t[i] \in Nat  BY <1>2 DEF m
  <2> QED  BY <1>2, <2>1, SubSeqProperties
<1>4. z <= a => SubSeq(t, m, z) = <<>>
  <2>1. z <= a => z < m  OBVIOUS
  <2> HIDE DEF m
  <2> QED  BY <1>2, <2>1, SubSeqEmpty DEF m
<1>5. a <= z => Len(SubSeq(t, m, z)) = z - a
  <2>1. CASE a = z
    <3>1. SubSeq(t, m, z) = <<>>  BY <1>4, <2>1
    <3> HIDE DEF m
    <3> QED  BY <2>1, <3>1
  <2>2. CASE a < z
    <3>1. m <= z /\ z - m + 1 = z - a  BY <2>2
    <3> HIDE DEF m
    <3> QED  BY <1>3, <3>1
  <2> QED  BY <2>1, <2>2
<1>6. \A i \in 1 .. z - a : SubSeq(t, m, z)[i] = t[a + i]
  <2>1. \A i \in 1 .. z - a : i \in 1 .. z - m + 1 /\ m + i - 1 = a + i  OBVIOUS
  <2> HIDE DEF m
  <2> QED  BY <1>3, <2>1
<1> QED  BY <1>3, <1>4, <1>5, <1>6
\* Two texts with the same units.
LEMMA SameText ==
  ASSUME NEW s \in Seq(Nat), NEW t \in Seq(Nat), Len(s) = Len(t),
         \A i \in 1 .. Len(s) : s[i] = t[i]
  PROVE  s = t
<1> QED  BY SeqEqual

\* A slice that is not empty.
LEMMA ProperSlice ==
  ASSUME NEW t \in Seq(Nat), NEW a \in Nat, NEW z \in Nat, a <= z, z <= Len(t)
  PROVE  /\ SubSeq(t, a + 1, z) \in Seq(Nat)
         /\ Len(SubSeq(t, a + 1, z)) = z - a
         /\ \A i \in 1 .. z - a : SubSeq(t, a + 1, z)[i] = t[a + i]
  BY Slice

\* Texts are put together in any order.
LEMMA TextAssociative ==
  ASSUME NEW x \in Seq(Nat), NEW y \in Seq(Nat), NEW z \in Seq(Nat)
  PROVE  (x \o y) \o z = x \o (y \o z)
  BY ConcatAssociative, SMTT(60)

\* A slice of a slice.
LEMMA SliceOfSlice ==
  ASSUME NEW t \in Seq(Nat), NEW b \in Nat, b <= Len(t),
         NEW a \in Nat, NEW z \in Nat, z <= Len(t) - b
  PROVE  SubSeq(SubSeq(t, b + 1, Len(t)), a + 1, z) = SubSeq(t, b + a + 1, b + z)
<1> DEFINE u == SubSeq(t, b + 1, Len(t))
           l == SubSeq(u, a + 1, z)
           r == SubSeq(t, (b + a) + 1, b + z)
<1>1. Len(t) \in Nat /\ b + a \in Nat /\ b + z \in Nat /\ b + z <= Len(t)
  OBVIOUS
<1>2. /\ u \in Seq(Nat) /\ Len(u) = Len(t) - b
      /\ \A i \in 1 .. Len(t) - b : u[i] = t[b + i]
  BY <1>1, Slice
<1> HIDE DEF u
<1>3. CASE z <= a
  <2>1. l = <<>>  BY <1>2, <1>3, Slice
  <2>2. b + z <= b + a  BY <1>3
  <2>3. r = <<>>
    <3> DEFINE c == b + a
               d == b + z
    <3>1. c \in Nat /\ d \in Nat /\ d <= Len(t) /\ d <= c  BY <1>1, <2>2
    <3> HIDE DEF c, d
    <3>2. SubSeq(t, c + 1, d) = <<>>  BY <3>1, Slice
    <3> QED  BY <3>2 DEF c, d
  <2> QED  BY <2>1, <2>3 DEF u
<1>4. CASE a < z
  <2>1. /\ l \in Seq(Nat) /\ Len(l) = z - a
        /\ \A i \in 1 .. z - a : l[i] = u[a + i]
    <3>1. a <= z /\ z <= Len(u)  BY <1>2, <1>4
    <3> QED  BY <1>2, <3>1, ProperSlice
  <2>2. /\ r \in Seq(Nat) /\ Len(r) = (b + z) - (b + a)
        /\ \A i \in 1 .. (b + z) - (b + a) : r[i] = t[(b + a) + i]
    <3> DEFINE c == b + a
               d == b + z
    <3>1. c \in Nat /\ d \in Nat /\ d <= Len(t) /\ c <= d  BY <1>1, <1>4
    <3> HIDE DEF c, d
    <3>2. /\ SubSeq(t, c + 1, d) \in Seq(Nat) /\ Len(SubSeq(t, c + 1, d)) = d - c
          /\ \A i \in 1 .. d - c : SubSeq(t, c + 1, d)[i] = t[c + i]
      BY <3>1, Slice
    <3> QED  BY <3>2 DEF c, d
  <2>3. Len(l) = Len(r)  BY <2>1, <2>2
  <2>4. ASSUME NEW i \in 1 .. z - a PROVE l[i] = r[i]
    <3>1. /\ a + i \in 1 .. Len(t) - b /\ i \in 1 .. (b + z) - (b + a)
          /\ b + (a + i) = (b + a) + i
      BY <1>1, <1>4
    <3>2. l[i] = t[b + (a + i)]  BY <1>2, <2>1, <3>1
    <3> QED  BY <2>2, <3>1, <3>2
  <2> HIDE DEF l, r
  <2>5. l = r  BY <2>1, <2>2, <2>3, <2>4, SameText
  <2> QED  BY <2>5 DEF l, r, u
<1> QED  BY <1>3, <1>4

\* What makes one text the end of another.
LEMMA SuffixIs ==
  ASSUME NEW s \in Seq(Nat), NEW t \in Seq(Nat), NEW d \in Nat,
         Len(t) = d + Len(s), \A i \in 1 .. Len(s) : s[i] = t[d + i]
  PROVE  IsSuffix(s, t)
<1> DEFINE m == Len(s)
           n == Len(t)
           rs == [i \in 1 .. m |-> s[(m - i) + 1]]
           rt == [i \in 1 .. n |-> t[(n - i) + 1]]
<1>1. m \in Nat /\ n \in Nat /\ n = d + m /\ m <= n  OBVIOUS
<1>2. rs \in Seq(Nat) /\ Len(rs) = m
  <2>1. \A i \in 1 .. m : (m - i) + 1 \in 1 .. m
    <3>1. \A k \in Nat : \A i \in 1 .. k : (k - i) + 1 \in 1 .. k  OBVIOUS
    <3> QED  BY <1>1, <3>1
  <2>2. \A i \in 1 .. m : s[(m - i) + 1] \in Nat
    <3>1. \A i \in 1 .. m : s[i] \in Nat  BY ElementOfSeq
    <3> QED  BY <2>1, <3>1
  <2>3. rs \in [1 .. m -> Nat]
    <3> HIDE DEF m
    <3> QED  BY <2>2
  <2>4. rs \in Seq(Nat)
    <3> HIDE DEF rs, m
    <3> QED  BY <1>1, <2>3, SeqDef
  <2>5. Len(rs) = m
    <3>1. DOMAIN rs = 1 .. m  OBVIOUS
    <3> HIDE DEF rs, m
    <3> QED  BY <1>1, <2>4, <3>1, LenProperties
  <2> QED  BY <2>4, <2>5
<1>3. rt \in Seq(Nat) /\ Len(rt) = n
  <2>1. \A i \in 1 .. n : (n - i) + 1 \in 1 .. Len(t)  BY <1>1
  <2>2. \A i \in 1 .. n : t[(n - i) + 1] \in Nat  BY <2>1
  <2>3. rt \in [1 .. n -> Nat]
    <3> HIDE DEF n
    <3> QED  BY <2>2
  <2>4. rt \in Seq(Nat)
    <3> HIDE DEF rt, n
    <3> QED  BY <1>1, <2>3, SeqDef
  <2>5. Len(rt) = n
    <3>1. DOMAIN rt = 1 .. n  OBVIOUS
    <3> HIDE DEF rt, n
    <3> QED  BY <1>1, <2>4, <3>1, LenProperties
  <2> QED  BY <2>4, <2>5
<1>4. ASSUME NEW i \in 1 .. m PROVE rs[i] = rt[i]
  <2>1. /\ i \in 1 .. n /\ (m - i) + 1 \in 1 .. m
        /\ (n - i) + 1 = d + ((m - i) + 1)
    BY <1>1
  <2>2. s[(m - i) + 1] = t[d + ((m - i) + 1)]  BY <2>1
  <2>3. rs[i] = s[(m - i) + 1] /\ rt[i] = t[(n - i) + 1]  BY <2>1
  <2> QED  BY <2>1, <2>2, <2>3
<1>5. SubSeq(rs, 1, m) = SubSeq(rt, 1, m)
  <2> HIDE DEF rs, rt, m, n
  <2> DEFINE x == SubSeq(rs, 0 + 1, m)
             y == SubSeq(rt, 0 + 1, m)
  <2>1. /\ x \in Seq(Nat) /\ Len(x) = m
        /\ \A i \in 1 .. m : x[i] = rs[i]
    <3>1. /\ x \in Seq(Nat) /\ Len(x) = m - 0
          /\ \A i \in 1 .. m - 0 : x[i] = rs[0 + i]
      BY <1>1, <1>2, Slice
    <3> HIDE DEF x
    <3>2. m - 0 = m /\ \A i \in 1 .. m : 0 + i = i  BY <1>1
    <3> QED  BY <3>1, <3>2
  <2>2. /\ y \in Seq(Nat) /\ Len(y) = m
        /\ \A i \in 1 .. m : y[i] = rt[i]
    <3>1. /\ y \in Seq(Nat) /\ Len(y) = m - 0
          /\ \A i \in 1 .. m - 0 : y[i] = rt[0 + i]
      BY <1>1, <1>3, Slice
    <3> HIDE DEF y
    <3>2. m - 0 = m /\ \A i \in 1 .. m : 0 + i = i  BY <1>1
    <3> QED  BY <3>1, <3>2
  <2> HIDE DEF x, y
  <2>3. x = y  BY <1>4, <2>1, <2>2, SameText
  <2>4. 0 + 1 = 1  OBVIOUS
  <2> QED  BY <2>3, <2>4 DEF x, y
<1>6. Reverse(s) = rs /\ Reverse(t) = rt  BY DEF Reverse
<1> HIDE DEF rs, rt
<1> QED  BY <1>1, <1>2, <1>3, <1>5, <1>6 DEF IsSuffix, IsPrefix
\* The last newline of the end of a text.
LEMMA LastOfSlice ==
  ASSUME NEW w \in Seq(Nat), NEW b \in Nat, b <= Len(w)
  PROVE  /\ b < LastNL(w) => LastNL(SubSeq(w, b + 1, Len(w))) = LastNL(w) - b
         /\ LastNL(w) <= b => LastNL(SubSeq(w, b + 1, Len(w))) = 0
<1> DEFINE v == SubSeq(w, b + 1, Len(w))
           L == LastNL(w)
           M == LastNL(v)
<1>1. Len(w) \in Nat  OBVIOUS
<1>2. /\ v \in Seq(Nat) /\ Len(v) = Len(w) - b
      /\ \A i \in 1 .. Len(w) - b : v[i] = w[b + i]
  BY <1>1, Slice
<1> HIDE DEF v
<1>3. /\ L \in 0 .. Len(w) /\ (L > 0 => IsNL(w[L]))
      /\ \A i \in 1 .. Len(w) : IsNL(w[i]) => i <= L
  BY LastNLPlace
<1>4. /\ M \in 0 .. Len(w) - b /\ (M > 0 => IsNL(v[M]))
      /\ \A i \in 1 .. Len(w) - b : IsNL(v[i]) => i <= M
  BY <1>2, LastNLPlace
<1> HIDE DEF L, M
<1>5. M > 0 => b + M <= L
  <2>1. M > 0 => M \in 1 .. Len(w) - b /\ b + M \in 1 .. Len(w)  BY <1>1, <1>4
  <2> QED  BY <1>2, <1>3, <1>4, <2>1
<1>6. b < L => M >= L - b
  <2>1. b < L => L - b \in 1 .. Len(w) - b /\ b + (L - b) = L /\ L > 0
    BY <1>1, <1>3
  <2> QED  BY <1>2, <1>3, <1>4, <2>1
<1>7. b < L => M = L - b  BY <1>1, <1>3, <1>4, <1>5, <1>6
<1>8. L <= b => M = 0  BY <1>1, <1>3, <1>4, <1>5
<1> QED  BY <1>7, <1>8 DEF L, M, v

\* The complete lines of a text, without the first when that one is torn.
Cleaned(w, torn) == UpToLastNL(IF torn THEN AfterFirstNL(w) ELSE w)
Torn(w, torn) ==
    IF torn THEN IF FirstNL(w) = 0 THEN Len(w) ELSE FirstNL(w) ELSE 0

\* What dropping the incomplete lines at both ends leaves of a text.
LEMMA CleanedIs ==
  ASSUME NEW w \in Seq(Nat), NEW torn \in BOOLEAN
  PROVE  /\ Torn(w, torn) \in 0 .. Len(w) /\ LastNL(w) \in 0 .. Len(w)
         /\ Cleaned(w, torn) = SubSeq(w, Torn(w, torn) + 1, LastNL(w))
<1>1. Len(w) \in Nat  OBVIOUS
<1>2. FirstNL(w) \in 0 .. Len(w)  BY FirstNLPlace
<1>3. LastNL(w) \in 0 .. Len(w)  BY LastNLPlace
<1>4. CASE ~torn
  <2>1. Torn(w, torn) = 0  BY <1>4 DEF Torn
  <2>2. Cleaned(w, torn) = SubSeq(w, 1, LastNL(w))  BY <1>4 DEF Cleaned, UpToLastNL
  <2> QED  BY <1>1, <1>3, <2>1, <2>2
<1>5. CASE torn /\ FirstNL(w) = 0
  <2>1. Torn(w, torn) = Len(w)  BY <1>5 DEF Torn
  <2>2. \A i \in 1 .. Len(w) : ~IsNL(w[i])  BY <1>5, FirstNLPlace
  <2>3. LastNL(w) = 0
    <3>1. LastNL(w) > 0 => LastNL(w) \in 1 .. Len(w) /\ IsNL(w[LastNL(w)])
      BY <1>1, <1>3, LastNLPlace
    <3> QED  BY <1>3, <2>2, <3>1
  <2>4. SubSeq(w, Len(w) + 1, LastNL(w)) = <<>>  BY <1>1, <2>3, Slice
  <2>5. Cleaned(w, torn) = SubSeq(<<>>, 1, LastNL(<<>>))
    BY <1>5 DEF Cleaned, AfterFirstNL, UpToLastNL
  <2>6. <<>> \in Seq(Nat) /\ Len(<<>>) = 0  OBVIOUS
  <2>7. LastNL(<<>>) = 0
    <3> DEFINE e == <<>>
    <3>1. e \in Seq(Nat) /\ Len(e) = 0  BY <2>6
    <3> HIDE DEF e
    <3>2. LastNL(e) \in 0 .. 0  BY <3>1, LastNLPlace
    <3>3. LastNL(e) = 0  BY <3>2
    <3> QED  BY <3>3 DEF e
  <2>8. SubSeq(<<>>, 1, 0) = <<>>  OBVIOUS
  <2>9. Cleaned(w, torn) = <<>>  BY <2>5, <2>7, <2>8
  <2> QED  BY <1>1, <1>3, <2>1, <2>4, <2>9
<1>6. CASE torn /\ FirstNL(w) # 0
  <2> DEFINE p == FirstNL(w)
             v == SubSeq(w, p + 1, Len(w))
             L == LastNL(w)
  <2>1. Torn(w, torn) = p  BY <1>6 DEF Torn
  <2>2. Cleaned(w, torn) = SubSeq(v, 1, LastNL(v))
    BY <1>6 DEF Cleaned, AfterFirstNL, UpToLastNL
  <2>3. p \in Nat /\ p \in 1 .. Len(w) /\ IsNL(w[p])
    BY <1>1, <1>2, <1>6, FirstNLPlace
  <2>4. p <= L /\ L \in Nat /\ L <= Len(w)  BY <1>1, <1>3, <2>3, LastNLPlace
  <2> HIDE DEF p
  <2>5. LastNL(v) = L - p
    <3>1. CASE p < L  BY <2>3, <2>4, <3>1, LastOfSlice
    <3>2. CASE p = L
      <4>1. LastNL(v) = 0  BY <2>3, <2>4, <3>2, LastOfSlice
      <4> HIDE DEF L, v
      <4> QED  BY <2>4, <3>2, <4>1
    <3> HIDE DEF L, v
    <3> QED  BY <2>3, <2>4, <3>1, <3>2
  <2> HIDE DEF L
  <2> DEFINE z == L - p
  <2>6. z \in Nat /\ z <= Len(w) - p /\ p + z = L  BY <1>1, <2>3, <2>4
  <2> HIDE DEF z
  <2>7. SubSeq(v, 0 + 1, z) = SubSeq(w, p + 0 + 1, p + z)
    BY <1>1, <2>3, <2>6, SliceOfSlice
  <2>8. 0 + 1 = 1 /\ p + 0 + 1 = p + 1  BY <2>3
  <2>9. SubSeq(v, 1, z) = SubSeq(w, p + 1, L)
    <3> HIDE DEF v
    <3> QED  BY <2>6, <2>7, <2>8
  <2>10. Cleaned(w, torn) = SubSeq(w, p + 1, L)
    <3> HIDE DEF v
    <3> QED  BY <2>2, <2>5, <2>9 DEF z
  <2> QED  BY <1>2, <1>3, <2>1, <2>10 DEF L, p
<1> QED  BY <1>4, <1>5, <1>6
\* A slice that begins after a newline holds the last lines of a longer one.
LEMMA TailOfSlice ==
  ASSUME NEW w \in Seq(Nat), NEW f \in Nat, NEW c \in Nat, NEW l \in Nat,
         f <= c, c <= l, l <= Len(w), c > f => IsNL(w[c])
  PROVE  IsTail(SubSeq(w, c + 1, l), SubSeq(w, f + 1, l))
<1> DEFINE s == SubSeq(w, c + 1, l)
           t == SubSeq(w, f + 1, l)
           d == c - f
<1>1. Len(w) \in Nat /\ d \in Nat /\ f <= l  OBVIOUS
<1>2. s \in Seq(Nat) /\ Len(s) = l - c /\ \A i \in 1 .. l - c : s[i] = w[c + i]
  BY Slice
<1>3. t \in Seq(Nat) /\ Len(t) = l - f /\ \A i \in 1 .. l - f : t[i] = w[f + i]
  BY <1>1, Slice
<1> HIDE DEF s, t
<1>4. Len(t) = d + Len(s) /\ Len(t) - Len(s) = d  BY <1>1, <1>2, <1>3
<1>5. ASSUME NEW i \in 1 .. l - c PROVE s[i] = t[d + i]
  <2>1. d + i \in 1 .. l - f /\ f + (d + i) = c + i  BY <1>1
  <2> QED  BY <1>2, <1>3, <2>1
<1>6. IsSuffix(s, t)
  <2> HIDE DEF d
  <2> QED  BY <1>1, <1>2, <1>3, <1>4, <1>5, SuffixIs
<1>7. d > 0 => IsNL(t[d])
  <2>1. d > 0 => c > f /\ d \in 1 .. l - f /\ f + d = c  BY <1>1
  <2> QED  BY <1>3, <2>1
<1>8. IsTail(s, t)  BY <1>4, <1>6, <1>7 DEF IsTail
<1> QED  BY <1>8 DEF s, t

\* A text without a cut.
LEMMA WholeIsTail ==
  ASSUME NEW w \in Seq(Nat), NEW torn \in BOOLEAN
  PROVE  IsTail(Cleaned(w, torn), Cleaned(w, torn))
<1> DEFINE f == Torn(w, torn)
           l == LastNL(w)
<1>1. f \in Nat /\ l \in Nat /\ l <= Len(w) /\ Cleaned(w, torn) = SubSeq(w, f + 1, l)
  BY CleanedIs
<1> HIDE DEF f, l
<1>2. CASE f <= l
  <2>1. f <= f /\ ~(f > f)  BY <1>1
  <2>2. IsTail(SubSeq(w, f + 1, l), SubSeq(w, f + 1, l))
    BY <1>1, <1>2, <2>1, TailOfSlice
  <2> QED  BY <1>1, <2>2
<1>3. CASE l < f
  <2>1. Cleaned(w, torn) = <<>>  BY <1>1, <1>3, Slice
  <2>2. IsTail(SubSeq(w, 0 + 1, 0), SubSeq(w, 0 + 1, 0))
    <3>1. Len(w) \in Nat /\ 0 \in Nat /\ 0 <= 0 /\ 0 <= Len(w) /\ ~(0 > 0)  OBVIOUS
    <3> QED  BY <3>1, TailOfSlice
  <2>3. SubSeq(w, 0 + 1, 0) = <<>>  BY Slice
  <2> QED  BY <2>1, <2>2, <2>3
<1> QED  BY <1>1, <1>2, <1>3

\* A text cut at the budget: dropping the line in which the cut falls leaves
\* the last lines of the whole.
LEMMA CutIsTail ==
  ASSUME NEW w \in Seq(Nat), NEW torn \in BOOLEAN, NEW skip \in 1 .. Len(w)
  PROVE  IsTail(Cleaned(SubSeq(w, skip + 1, Len(w)), ~IsNL(w[skip])),
                Cleaned(w, torn))
<1> DEFINE v == SubSeq(w, skip + 1, Len(w))
           cut == ~IsNL(w[skip])
           f == Torn(w, torn)
           l == LastNL(w)
           g == Torn(v, cut)
           m == LastNL(v)
           c == skip + g
           text == Cleaned(v, cut)
           full == Cleaned(w, torn)
<1>1. Len(w) \in Nat /\ skip \in Nat /\ skip <= Len(w) /\ cut \in BOOLEAN  OBVIOUS
<1>2. /\ f \in Nat /\ l \in Nat /\ l <= Len(w) /\ f <= Len(w)
      /\ full = SubSeq(w, f + 1, l)
  BY CleanedIs
<1>3. /\ v \in Seq(Nat) /\ Len(v) = Len(w) - skip
      /\ \A i \in 1 .. Len(w) - skip : v[i] = w[skip + i]
  BY <1>1, Slice
<1>4. /\ skip < l => m = l - skip
      /\ l <= skip => m = 0
  BY <1>1, LastOfSlice
<1>5. /\ g \in Nat /\ m \in Nat /\ m <= Len(w) - skip /\ g <= Len(w) - skip
      /\ text = SubSeq(v, g + 1, m)
  <2> HIDE DEF v, cut
  <2>1. /\ g \in 0 .. Len(v) /\ m \in 0 .. Len(v)
        /\ Cleaned(v, cut) = SubSeq(v, g + 1, m)
    BY <1>1, <1>3, CleanedIs
  <2> HIDE DEF g, m
  <2> QED  BY <1>1, <1>3, <2>1
<1>6. c \in Nat /\ skip <= c  BY <1>1, <1>5
<1>7. text = IF c < l THEN SubSeq(w, c + 1, l) ELSE <<>>
  <2> HIDE DEF g, m, l, text
  <2>1. CASE c < l
    <3>1. skip < l /\ m = l - skip /\ skip + m = l  BY <1>1, <1>2, <1>4, <1>5, <1>6, <2>1
    <3>2. SubSeq(SubSeq(w, skip + 1, Len(w)), g + 1, m) = SubSeq(w, skip + g + 1, skip + m)
      BY <1>1, <1>5, SliceOfSlice
    <3> QED  BY <1>5, <2>1, <3>1, <3>2
  <2>2. CASE ~(c < l)
    <3>1. m <= g
      <4>1. CASE skip < l
        <5>1. m = l - skip  BY <1>4, <4>1
        <5> QED  BY <1>1, <1>2, <1>5, <2>2, <5>1
      <4>2. CASE l <= skip  BY <1>4, <1>5, <4>2
      <4> QED  BY <1>1, <1>2, <4>1, <4>2
    <3> HIDE DEF v
    <3>2. m <= Len(v)  BY <1>3, <1>5
    <3>3. text = <<>>  BY <1>3, <1>5, <3>1, <3>2, Slice
    <3> HIDE DEF c
    <3> QED  BY <2>2, <3>3
  <2> QED  BY <2>1, <2>2
<1>8. CASE c < l
  <2>1. text = SubSeq(w, c + 1, l)  BY <1>7, <1>8
  <2>2. IsNL(w[c])
    <3>1. CASE ~cut
      <4>1. g = 0  BY <3>1 DEF Torn
      <4>2. c = skip  BY <1>1, <4>1
      <4> QED  BY <3>1, <4>2
    <3>2. CASE cut
      <4>1. FirstNL(v) # 0
        <5>1. SUFFICES ASSUME FirstNL(v) = 0 PROVE FALSE  OBVIOUS
        <5>2. g = Len(v)  BY <3>2, <5>1 DEF Torn
        <5>3. c = Len(w)
          <6> HIDE DEF g, v
          <6> QED  BY <1>1, <1>3, <5>2
        <5> HIDE DEF c, l
        <5> QED  BY <1>1, <1>2, <1>8, <5>3
      <4>2. g = FirstNL(v)  BY <3>2, <4>1 DEF Torn
      <4>3. g > 0 /\ IsNL(v[g]) /\ g \in 1 .. Len(w) - skip
        <5> HIDE DEF v
        <5>1. FirstNL(v) \in 0 .. Len(v) /\ (FirstNL(v) > 0 => IsNL(v[FirstNL(v)]))
          BY <1>3, FirstNLPlace
        <5>2. g # 0 /\ g \in 0 .. Len(v) /\ (g > 0 => IsNL(v[g]))
          BY <4>1, <4>2, <5>1
        <5> HIDE DEF g
        <5>3. Len(v) \in Nat /\ Len(v) = Len(w) - skip  BY <1>1, <1>3
        <5>4. g > 0 /\ g \in 1 .. Len(v)  BY <5>2, <5>3
        <5> QED  BY <5>2, <5>3, <5>4
      <4> QED  BY <1>3, <4>3
    <3> QED  BY <3>1, <3>2
  <2>3. f <= c
    <3>1. CASE ~torn
      <4>1. f = 0  BY <3>1 DEF Torn
      <4> HIDE DEF f, c
      <4> QED  BY <1>6, <4>1
    <3>2. CASE torn
      <4>1. c \in 1 .. Len(w)  BY <1>1, <1>2, <1>6, <1>8
      <4> HIDE DEF c
      <4>2. FirstNL(w) > 0 /\ FirstNL(w) <= c  BY <2>2, <4>1, FirstNLPlace
      <4>3. FirstNL(w) # 0  BY <4>2
      <4>4. f = FirstNL(w)  BY <3>2, <4>3 DEF Torn
      <4> QED  BY <4>2, <4>4
    <3> QED  BY <3>1, <3>2
  <2>4. c <= l  BY <1>2, <1>6, <1>8
  <2> HIDE DEF c, l, f, text, full
  <2>5. IsTail(SubSeq(w, c + 1, l), SubSeq(w, f + 1, l))
    BY <1>2, <1>6, <2>2, <2>3, <2>4, TailOfSlice
  <2>6. IsTail(text, full)  BY <1>2, <2>1, <2>5
  <2> QED  BY <2>6 DEF text, full
<1>9. CASE ~(c < l)
  <2>1. text = <<>>  BY <1>7, <1>9
  <2> HIDE DEF c, f, text, full
  <2>2. CASE f <= l
    <3>1. l > f => l > 0  BY <1>2
    <3>2. l > f => IsNL(w[l])  BY <3>1, LastNLPlace
    <3> HIDE DEF l
    <3>3. IsTail(SubSeq(w, l + 1, l), SubSeq(w, f + 1, l))
      BY <1>2, <2>2, <3>2, TailOfSlice
    <3>4. SubSeq(w, l + 1, l) = <<>>  BY <1>2, Slice
    <3>5. IsTail(text, full)  BY <1>2, <2>1, <3>3, <3>4
    <3> QED  BY <3>5 DEF text, full
  <2>3. CASE l < f
    <3> HIDE DEF l
    <3>1. full = <<>>  BY <1>2, <2>3, Slice
    <3>2. IsTail(SubSeq(w, 0 + 1, 0), SubSeq(w, 0 + 1, 0))
      <4>1. 0 \in Nat /\ 0 <= 0 /\ 0 <= Len(w) /\ ~(0 > 0)  BY <1>1
      <4> QED  BY <4>1, TailOfSlice
    <3>3. SubSeq(w, 0 + 1, 0) = <<>>  BY Slice
    <3>4. IsTail(text, full)  BY <2>1, <3>1, <3>2, <3>3
    <3> QED  BY <3>4 DEF text, full
  <2> HIDE DEF l
  <2> QED  BY <1>2, <2>2, <2>3
<1> QED  BY <1>8, <1>9

\* Complete lines only, and only units of the text.
LEMMA CleanedUnits ==
  ASSUME NEW w \in Seq(Nat), NEW torn \in BOOLEAN
  PROVE  /\ Cleaned(w, torn) \in Seq(Nat)
         /\ Cleaned(w, torn) # <<>> => IsNL(Last(Cleaned(w, torn)))
         /\ \A k \in 1 .. Len(Cleaned(w, torn)) :
               \E i \in 1 .. Len(w) : Cleaned(w, torn)[k] = w[i]
<1> DEFINE f == Torn(w, torn)
           l == LastNL(w)
           x == Cleaned(w, torn)
<1>1. /\ f \in Nat /\ l \in Nat /\ l <= Len(w) /\ Len(w) \in Nat
      /\ x = SubSeq(w, f + 1, l) /\ (l > 0 => IsNL(w[l]))
  BY CleanedIs, LastNLPlace
<1> HIDE DEF f, l, x
<1>2. x \in Seq(Nat)  BY <1>1, Slice
<1>3. CASE l <= f
  <2>1. x = <<>>  BY <1>1, <1>3, Slice
  <2>2. Len(x) = 0  BY <2>1
  <2> QED  BY <1>2, <2>1, <2>2 DEF x
<1>4. CASE f < l
  <2>1. Len(x) = l - f /\ \A i \in 1 .. l - f : x[i] = w[f + i]  BY <1>1, <1>4, Slice
  <2>2. l - f \in 1 .. l - f /\ f + (l - f) = l /\ l > 0  BY <1>1, <1>4
  <2>3. x[l - f] = w[l]  BY <2>1, <2>2
  <2>4. IsNL(Last(x))  BY <1>1, <2>1, <2>2, <2>3 DEF Last
  <2>5. ASSUME NEW k \in 1 .. l - f PROVE \E i \in 1 .. Len(w) : x[k] = w[i]
    <3>1. f + k \in 1 .. Len(w)  BY <1>1, <1>4
    <3> QED  BY <2>1, <3>1
  <2> QED  BY <1>2, <2>1, <2>4, <2>5 DEF x
<1> QED  BY <1>1, <1>3, <1>4
-----------------------------------------------------------------------------
(* What a read finds in the files it has opened.                            *)

\* The parts of Span.
SpanFirst == Find(session.start, 1)
SpanLast ==
    IF session.end = NoCursor THEN Len(reader.got) ELSE Find(session.end, SpanFirst)
SpanWhole ==
    Segment(SpanFirst, SpanFirst, SpanLast)
      \o (IF SpanLast > SpanFirst THEN Segment(SpanLast, SpanFirst, SpanLast) ELSE <<>>)
SpanSkip == IF Len(SpanWhole) > MaxBytes THEN Len(SpanWhole) - MaxBytes ELSE 0
SpanMiss ==
    \/ SpanFirst = 0 \/ SpanLast < SpanFirst
    \/ session.end # NoCursor /\ SpanFirst = SpanLast
         /\ session.end.offset < session.start.offset
    \/ SpanLast > SpanFirst
         /\ reader.got[SpanFirst].inode = reader.got[SpanLast].inode

\* The answer of a read, by whether the file of the boundary is open.
LEMMA SpanIs ==
  /\ SpanMiss => Span = [kind |-> "lost", text |-> <<>>, truncated |-> TRUE]
  /\ ~SpanMiss =>
        Span = [kind |-> "ok", truncated |-> SpanSkip > 0,
                text |-> Cleaned(SubSeq(SpanWhole, SpanSkip + 1, Len(SpanWhole)),
                                 CutInLine(SpanWhole, SpanSkip))]
<1> QED
  BY DEF Span, SpanMiss, SpanSkip, SpanWhole, SpanLast, SpanFirst, Cleaned

\* The reader has at most one file with a given number open.
LEMMA GotDistinct ==
  ASSUME ReadOk
  PROVE  /\ Len(reader.got) \in {0, 1, 2} /\ reader.got \in Seq([inode : Inodes, size : Nat])
         /\ \A h, j \in 1 .. Len(reader.got) :
               reader.got[h].inode = reader.got[j].inode => h = j
<1>1. Len(reader.got) \in Nat /\ Len(reader.got) <= 2
      /\ reader.got \in Seq([inode : Inodes, size : Nat])
  BY DEF ReadOk
<1>2. Len(reader.got) = 2 => reader.got[1].inode # reader.got[2].inode
  BY DEF ReadOk
<1>3. Len(reader.got) \in {0, 1, 2}
  <2>1. \A n \in Nat : n <= 2 => n \in {0, 1, 2}  OBVIOUS
  <2> QED  BY <1>1, <2>1
<1>4. ASSUME NEW h \in 1 .. Len(reader.got), NEW j \in 1 .. Len(reader.got),
             reader.got[h].inode = reader.got[j].inode
      PROVE  h = j
  <2>1. CASE Len(reader.got) = 2
    <3>1. h \in {1, 2} /\ j \in {1, 2}  BY <2>1
    <3> QED  BY <1>2, <1>4, <2>1, <3>1
  <2>2. CASE Len(reader.got) = 1
    <3>1. h = 1 /\ j = 1  BY <2>2
    <3> QED  BY <3>1
  <2>3. CASE Len(reader.got) = 0
    <3>1. h \in 1 .. 0  BY <2>3
    <3> QED  BY <3>1
  <2> QED  BY <1>3, <2>1, <2>2, <2>3
<1> QED  BY <1>1, <1>3, <1>4

\* The search for a mark finds its file, and nothing else.
LEMMA FindIs ==
  ASSUME ReadOk, NEW c, CursorOk(c), NEW k \in Nat \ {0}
  PROVE  /\ (\A j \in k .. Len(reader.got) : reader.got[j].inode # c.inode)
               => Find(c, k) = 0
         /\ \A j \in k .. Len(reader.got) :
               reader.got[j].inode = c.inode => Find(c, k) = j
<1> DEFINE n == Len(reader.got)
           hits == {j \in k .. n : Valid(c, reader.got[j].inode)}
<1>1. n \in Nat /\ \A h, j \in 1 .. n : reader.got[h].inode = reader.got[j].inode => h = j
  BY GotDistinct
<1>2. \A i : Valid(c, i) <=> i = c.inode  BY DEF CursorOk, Valid
<1>3. hits = {j \in k .. n : reader.got[j].inode = c.inode}  BY <1>2
<1>4. Find(c, k) = IF hits = {} THEN 0 ELSE CHOOSE j \in hits : \A h \in hits : h <= j
  BY DEF Find
<1> HIDE DEF n
<1>5. ASSUME \A j \in k .. n : reader.got[j].inode # c.inode PROVE Find(c, k) = 0
  BY <1>3, <1>4, <1>5
<1>6. ASSUME NEW j \in k .. n, reader.got[j].inode = c.inode PROVE Find(c, k) = j
  <2>1. ASSUME NEW h \in hits PROVE h = j
    <3>1. h \in 1 .. n /\ j \in 1 .. n /\ reader.got[h].inode = c.inode
      BY <1>1, <1>3
    <3> QED  BY <1>1, <1>6, <3>1
  <2>2. hits = {j}  BY <1>3, <1>6, <2>1
  <2> HIDE DEF hits
  <2>3. j <= j  BY <1>1
  <2>4. (CHOOSE x \in hits : \A h \in hits : h <= x) = j  BY <2>2, <2>3
  <2> QED  BY <1>4, <2>2, <2>4
<1> QED  BY <1>5, <1>6 DEF n
\* The session that is read.
LEMMA SpanSession ==
  ASSUME SessionOk, ReadOk, reader.pc = "span"
  PROVE  /\ session # NoSession /\ session \in SessionRecords /\ BoundaryOk(session)
         /\ \/ /\ session.state # "stopped" /\ ~session.ended /\ session.end = NoCursor
            \/ /\ session.state = "stopped" /\ session.ended /\ session.end # NoCursor
               /\ FrozenOk
<1>1. session.state \in {"starting", "running", "stopped"}  BY DEF ReadOk, Reading
<1>2. session # NoSession  BY <1>1 DEF NoSession
<1> QED  BY <1>1, <1>2 DEF SessionOk

\* Which boundaries a read finds, and where.
LEMMA SpanFound ==
  ASSUME SessionOk, ReadOk, reader.pc = "span"
  PROVE  \/ SpanMiss /\ session.start.inode \notin Opened
         \/ /\ SpanMiss /\ Moved
            /\ ~(/\ Len(reader.got) = 2 /\ reader.got[1].inode = session.start.inode
                 /\ reader.got[2].inode = session.end.inode)
         \/ /\ ~SpanMiss
            /\ \E j \in 1 .. Len(reader.got) :
                  /\ reader.got[j].inode = session.start.inode /\ SpanFirst = j
                  /\ \/ ~session.ended /\ SpanLast = Len(reader.got)
                     \/ /\ session.ended /\ session.end.inode = session.start.inode
                        /\ SpanLast = j
                     \/ /\ session.ended /\ session.end.inode # session.start.inode
                        /\ j = 1 /\ SpanLast = 2 /\ Len(reader.got) = 2
                        /\ reader.got[2].inode = session.end.inode
<1> DEFINE s == session.start
           e == session.end
           n == Len(reader.got)
<1>1. CursorOk(s)  BY SpanSession DEF BoundaryOk
<1>2. /\ n \in {0, 1, 2}
      /\ \A h, j \in 1 .. n : reader.got[h].inode = reader.got[j].inode => h = j
  BY GotDistinct
<1>3. 1 \in Nat \ {0}  OBVIOUS
<1>4. Opened = {reader.got[j].inode : j \in 1 .. n}
  <2>1. DOMAIN reader.got = 1 .. n  BY GotDistinct
  <2> QED  BY <2>1 DEF Opened
<1>5. CASE s.inode \notin Opened
  <2>1. \A j \in 1 .. n : reader.got[j].inode # s.inode  BY <1>4, <1>5
  <2>2. SpanFirst = 0  BY <1>1, <1>3, <2>1, FindIs DEF SpanFirst
  <2> QED  BY <1>5, <2>2 DEF SpanMiss
<1>6. CASE s.inode \in Opened
  <2>1. PICK j \in 1 .. n : reader.got[j].inode = s.inode  BY <1>4, <1>6
  <2>2. SpanFirst = j  BY <1>1, <1>3, <2>1, FindIs DEF SpanFirst
  <2>3. j \in Nat \ {0} /\ j \in {1, 2} /\ j <= n /\ n \in Nat  BY <1>2
  <2>4. ASSUME NEW k \in 1 .. n, k > j PROVE reader.got[j].inode # reader.got[k].inode
    <3>1. k # j  BY <2>3, <2>4
    <3> QED  BY <1>2, <3>1
  <2>5. CASE ~session.ended
    <3>1. e = NoCursor  BY <2>5, SpanSession
    <3>2. SpanLast = n  BY <3>1 DEF SpanLast
    <3>3. ~(j = 0) /\ ~(n < j) /\ n \in 1 .. n  BY <2>3
    <3> HIDE DEF n
    <3>4. ~SpanMiss  BY <2>2, <2>4, <3>1, <3>2, <3>3 DEF SpanMiss
    <3> QED  BY <2>1, <2>2, <2>5, <3>2, <3>4 DEF n
  <2>6. CASE session.ended
    <3>1. e # NoCursor /\ session.state = "stopped" /\ FrozenOk  BY <2>6, SpanSession
    <3>2. CursorOk(e)  BY <3>1 DEF FrozenOk
    <3>3. SpanLast = Find(e, j)  BY <2>2, <3>1 DEF SpanLast
    <3>4. CASE e.inode = s.inode
      <4>1. j \in j .. n  BY <2>3
      <4>2. SpanLast = j  BY <2>1, <2>3, <3>2, <3>3, <3>4, <4>1, FindIs
      <4>3. s.offset \in Nat /\ e.offset \in Nat /\ s.offset <= e.offset
        BY <1>1, <3>1, <3>2, <3>4 DEF FrozenOk, CursorOk, Cursors
      <4>4. ~(j = 0) /\ ~(j < j) /\ ~(j > j) /\ ~(e.offset < s.offset)
        <5>1. \A a, b \in Nat : a <= b => ~(b < a)  OBVIOUS
        <5> QED  BY <2>3, <4>3, <5>1
      <4>5. ~SpanMiss  BY <2>2, <4>2, <4>4 DEF SpanMiss
      <4> QED  BY <2>1, <2>2, <2>6, <3>4, <4>2, <4>5
    <3>5. CASE e.inode # s.inode
      <4>1. Moved  BY <3>1, <3>5 DEF Moved
      <4>2. CASE n = 2 /\ reader.got[1].inode = s.inode /\ reader.got[2].inode = e.inode
        <5>1. j = 1
          <6>1. 1 \in 1 .. n  BY <4>2
          <6> QED  BY <1>2, <2>1, <4>2, <6>1
        <5>2. 2 \in j .. n  BY <4>2, <5>1
        <5>3. SpanLast = 2  BY <2>3, <3>2, <3>3, <4>2, <5>2, FindIs
        <5>4. ~SpanMiss
          <6>1. ~(1 = 0) /\ ~(2 < 1) /\ 2 > 1 /\ 1 # 2  OBVIOUS
          <6> QED  BY <2>2, <3>5, <4>2, <5>1, <5>3, <6>1 DEF SpanMiss
        <5> QED  BY <2>1, <2>2, <2>6, <3>5, <4>2, <5>1, <5>3, <5>4
      <4>3. CASE ~(n = 2 /\ reader.got[1].inode = s.inode /\ reader.got[2].inode = e.inode)
        <5>1. ASSUME NEW k \in j .. n PROVE reader.got[k].inode # e.inode
          <6>1. k \in 1 .. n /\ k \in Nat  BY <2>3
          <6>2. SUFFICES ASSUME reader.got[k].inode = e.inode PROVE FALSE  OBVIOUS
          <6>3. k # j  BY <2>1, <3>5, <6>2
          <6>4. j = 1 /\ k = 2 /\ n = 2  BY <1>2, <2>3, <6>1, <6>3
          <6> QED  BY <2>1, <4>3, <6>2, <6>4
        <5>2. SpanLast = 0  BY <2>3, <3>2, <3>3, <5>1, FindIs
        <5>3. 0 < j  BY <2>3
        <5>4. SpanMiss  BY <2>2, <5>2, <5>3 DEF SpanMiss
        <5> QED  BY <4>1, <4>3, <5>4
      <4> QED  BY <4>2, <4>3
    <3> QED  BY <3>4, <3>5
  <2> QED  BY <2>5, <2>6
<1> QED  BY <1>5, <1>6
\* The units of a file after a place from which on it holds later units only.
LEMMA SliceAfter ==
  ASSUME NEW b, NEW t \in Seq(Nat), NEW n \in Nat, NEW z \in Nat, z <= Len(t),
         \A p \in n + 1 .. Len(t) : After(b, t[p])
  PROVE  \A p \in 1 .. Len(SubSeq(t, n + 1, z)) : After(b, SubSeq(t, n + 1, z)[p])
<1> DEFINE x == SubSeq(t, n + 1, z)
<1>1. /\ x \in Seq(Nat) /\ Len(t) \in Nat
      /\ n <= z => Len(x) = z - n
      /\ z <= n => x = <<>>
      /\ \A i \in 1 .. z - n : x[i] = t[n + i]
  BY Slice
<1> HIDE DEF x
<1>2. CASE z <= n
  <2>1. Len(x) = 0  BY <1>1, <1>2
  <2> QED  BY <2>1 DEF x
<1>3. CASE n < z
  <2>1. Len(x) = z - n  BY <1>1, <1>3
  <2>2. ASSUME NEW p \in 1 .. z - n PROVE After(b, x[p])
    <3>1. n + p \in n + 1 .. Len(t)  BY <1>1, <1>3
    <3>2. x[p] = t[n + p]  BY <1>1
    <3> QED  BY <3>1, <3>2
  <2> QED  BY <2>1, <2>2 DEF x
<1> QED  BY <1>2, <1>3

\* The same for two texts one after the other.
LEMMA ConcatAfter ==
  ASSUME NEW b, NEW x \in Seq(Nat), NEW y \in Seq(Nat),
         \A p \in 1 .. Len(x) : After(b, x[p]), \A p \in 1 .. Len(y) : After(b, y[p])
  PROVE  \A p \in 1 .. Len(x \o y) : After(b, (x \o y)[p])
<1>1. TAKE p \in 1 .. Len(x \o y)
<1>2. Len(x) \in Nat /\ Len(y) \in Nat /\ p \in 1 .. Len(x) + Len(y)
  BY ConcatProperties
<1>3. CASE p <= Len(x)
  <2>1. p \in 1 .. Len(x) /\ (x \o y)[p] = x[p]  BY <1>2, <1>3, ConcatProperties
  <2> QED  BY <2>1
<1>4. CASE ~(p <= Len(x))
  <2>1. p - Len(x) \in 1 .. Len(y) /\ (x \o y)[p] = y[p - Len(x)]
    BY <1>2, <1>4, ConcatProperties
  <2> QED  BY <2>1
<1> QED  BY <1>3, <1>4

\* A whole file as a slice.
LEMMA WholeSlice ==
  ASSUME NEW t \in Seq(Nat)
  PROVE  SubSeq(t, 1, Len(t)) = t
<1> QED  BY SubSeqFull

\* One or two open files.
LEMMA Pair ==
  ASSUME NEW a, NEW b
  PROVE  /\ <<>> \o <<a>> = <<a>> /\ <<a>> \o <<>> = <<a>>
         /\ <<a>> \o <<b>> = <<a, b>>
         /\ Len(<<a>>) = 1 /\ Len(<<a, b>>) = 2
         /\ <<a>>[1] = a /\ <<a, b>>[1] = a /\ <<a, b>>[2] = b
<1>1. <<a>> \in Seq({a, b}) /\ <<b>> \in Seq({a, b}) /\ <<a, b>> \in Seq({a, b})
  OBVIOUS
<1>2. Len(<<a>>) = 1 /\ Len(<<b>>) = 1 /\ Len(<<a, b>>) = 2  OBVIOUS
<1>3. <<a>>[1] = a /\ <<b>>[1] = b /\ <<a, b>>[1] = a /\ <<a, b>>[2] = b  OBVIOUS
<1>4. <<>> \o <<a>> = <<a>> /\ <<a>> \o <<>> = <<a>>  BY <1>1, ConcatEmptySeq
<1>5. <<a>> \o <<b>> = <<a, b>>
  <2> DEFINE x == <<a>>
             y == <<b>>
             z == <<a, b>>
  <2> HIDE DEF x, y, z
  <2>1. /\ x \in Seq({a, b}) /\ y \in Seq({a, b}) /\ z \in Seq({a, b})
        /\ Len(x) = 1 /\ Len(y) = 1 /\ Len(z) = 2
        /\ x[1] = a /\ y[1] = b /\ z[1] = a /\ z[2] = b
    BY <1>1, <1>2, <1>3 DEF x, y, z
  <2>2. /\ x \o y \in Seq({a, b}) /\ Len(x \o y) = 1 + 1
        /\ \A i \in 1 .. 1 + 1 : (x \o y)[i] = IF i <= 1 THEN x[i] ELSE y[i - 1]
    BY <2>1, ConcatProperties
  <2>3. Len(x \o y) = 2  BY <2>2
  <2>4. (x \o y)[1] = a /\ (x \o y)[2] = b  BY <2>1, <2>2
  <2>5. \A i \in 1 .. 2 : i = 1 \/ i = 2  OBVIOUS
  <2>6. x \o y = z  BY <2>1, <2>2, <2>3, <2>4, <2>5, SeqEqual
  <2> QED  BY <2>6 DEF x, y, z
<1> QED  BY <1>2, <1>3, <1>4, <1>5

\* The text of a read before it is cut: that of the stopped session, and that
\* of the running one as of now when the collector has been quiet; in any case
\* units received after the launch.
LEMMA WholeIs ==
  ASSUME StoreOk, SessionOk, ReadOk, QuietOk, reader.pc = "span", ~SpanMiss
  PROVE  /\ SpanWhole \in Seq(Nat)
         /\ session.ended => SpanWhole = Since(session, session.upto)
         /\ ~session.ended /\ quiet => SpanWhole = Since(session, Len(history))
         /\ ~session.ended =>
               \A i \in 1 .. Len(SpanWhole) : After(session, SpanWhole[i])
<1> DEFINE s == session.start
           e == session.end
           n == Len(reader.got)
           D == data[s.inode]
<1>1. PICK j \in 1 .. n :
         /\ reader.got[j].inode = s.inode /\ SpanFirst = j
         /\ \/ ~session.ended /\ SpanLast = n
            \/ /\ session.ended /\ e.inode = s.inode
               /\ SpanLast = j
            \/ /\ session.ended /\ e.inode # s.inode
               /\ j = 1 /\ SpanLast = 2 /\ n = 2
               /\ reader.got[2].inode = e.inode
  BY SpanFound
<1>2. /\ BoundaryOk(session) /\ (session.ended <=> e # NoCursor)
      /\ session.ended => session.state = "stopped" /\ FrozenOk
  BY SpanSession
<1>3. /\ n \in {0, 1, 2} /\ reader.got \in Seq([inode : Inodes, size : Nat])
      /\ \A h, k \in 1 .. n : reader.got[h].inode = reader.got[k].inode => h = k
  BY GotDistinct
<1>4. \A k \in 1 .. n :
         /\ reader.got[k].inode \in Inodes /\ reader.got[k].size \in Nat
         /\ data[reader.got[k].inode] \in Seq(Nat)
         /\ reader.got[k].size <= Len(data[reader.got[k].inode])
  <2>1. TAKE k \in 1 .. n
  <2>2. reader.got[k] \in [inode : Inodes, size : Nat]
    <3> DEFINE R == [inode : Inodes, size : Nat]
    <3> HIDE DEF R
    <3>1. reader.got \in Seq(R)  BY <1>3 DEF R
    <3>2. reader.got[k] \in R  BY <3>1, ElementOfSeq
    <3> QED  BY <3>2 DEF R
  <2>3. reader.got[k].inode \in Inodes /\ reader.got[k].size \in Nat  BY <2>2
  <2>4. data[reader.got[k].inode] \in Seq(Nat)  BY <2>3 DEF StoreOk
  <2>5. reader.got[k].size <= Len(data[reader.got[k].inode])  BY DEF ReadOk
  <2> QED  BY <2>3, <2>4, <2>5
<1>5. s.inode \in Inodes /\ s.offset \in Nat /\ D \in Seq(Nat)
  BY <1>2 DEF BoundaryOk, CursorOk, Cursors, StoreOk
<1>6. \A p \in s.offset + 1 .. Len(D) : After(session, D[p])
  BY <1>2 DEF BoundaryOk, OnlyAfter
<1> DEFINE g == reader.got[j].size
           X == SubSeq(D, s.offset + 1, g)
<1>7. g \in Nat /\ g <= Len(D)  BY <1>1, <1>4
<1>8. X \in Seq(Nat)  BY <1>5, <1>7, Slice
<1>9. CASE ~session.ended /\ j = n
  <2>1. SpanLast = j /\ ~(j > j)  BY <1>1, <1>3, <1>9
  <2>2. Segment(j, j, j) = X
    BY <1>1, <1>2, <1>9 DEF Segment
  <2>3. SpanWhole = X \o <<>>  BY <1>1, <2>1, <2>2 DEF SpanWhole
  <2>4. SpanWhole = X  BY <1>8, <2>3, ConcatEmptySeq
  <2>5. \A i \in 1 .. Len(X) : After(session, X[i])
    BY <1>5, <1>6, <1>7, SliceAfter
  <2>6. quiet => X = Since(session, Len(history))
    <3>1. SUFFICES ASSUME quiet PROVE X = Since(session, Len(history))  OBVIOUS
    <3>2. reader.got = Entry(dir.backup) \o Entry(dir.current)  BY <3>1 DEF QuietOk
    <3>3. CASE dir.current # NoFile
      <4> DEFINE c == [inode |-> dir.current, size |-> Len(data[dir.current])]
                 b == [inode |-> dir.backup, size |-> Len(data[dir.backup])]
      <4>1. Entry(dir.current) = <<c>> /\ Entry(dir.backup) \in {<<>>, <<b>>}
        BY <3>3 DEF Entry
      <4>2. reader.got[n] = [inode |-> dir.current, size |-> Len(data[dir.current])]
        <5> HIDE DEF b, c
        <5>1. CASE Entry(dir.backup) = <<>>
          <6>1. reader.got = <<c>>  BY <3>2, <4>1, <5>1, Pair
          <6> QED  BY <6>1, Pair DEF c
        <5>2. CASE Entry(dir.backup) = <<b>>
          <6>1. <<b>> \o <<c>> = <<b, c>>  BY Pair
          <6>2. reader.got = <<b, c>>  BY <3>2, <4>1, <5>2, <6>1, Zenon
          <6> QED  BY <6>2, Pair DEF c
        <5> QED  BY <4>1, <5>1, <5>2
      <4>3. s.inode = dir.current /\ g = Len(D)  BY <1>1, <1>9, <4>2
      <4>4. X = Rest(session)  BY <4>3 DEF Rest
      <4> QED  BY <1>2, <4>3, <4>4 DEF BoundaryOk
    <3>4. CASE dir.current = NoFile
      <4>1. dir.backup # NoFile
        <5>1. SUFFICES ASSUME dir.backup = NoFile PROVE FALSE  OBVIOUS
        <5>2. reader.got = <<>>  BY <3>2, <3>4, <5>1 DEF Entry
        <5>3. n = 0  BY <5>2
        <5> QED  BY <5>3
      <4>2. reader.got = <<[inode |-> dir.backup, size |-> Len(data[dir.backup])]>>
        BY <3>2, <3>4, <4>1 DEF Entry
      <4>3. s.inode = dir.backup /\ g = Len(D)  BY <1>1, <1>9, <4>2
      <4>4. X = Rest(session) /\ Now = <<>>  BY <3>4, <4>3 DEF Rest, Now
      <4>5. Since(session, Len(history)) = X \o <<>>
        <5> HIDE DEF X
        <5> QED  BY <1>2, <4>3, <4>4 DEF BoundaryOk
      <4> QED  BY <1>8, <4>5, ConcatEmptySeq
    <3> QED  BY <3>3, <3>4
  <2> HIDE DEF X
  <2> QED  BY <1>8, <1>9, <2>4, <2>5, <2>6
<1>10. CASE ~session.ended /\ j # n
  <2>1. j = 1 /\ n = 2 /\ SpanLast = 2 /\ SpanFirst = 1 /\ 2 > 1 /\ 1 # 2
        /\ 1 \in 1 .. n /\ 2 \in 1 .. n
    BY <1>1, <1>3, <1>10
  <2> DEFINE i == reader.got[2].inode
             h == reader.got[2].size
             Y == SubSeq(data[i], 0 + 1, h)
  <2>2. data[i] \in Seq(Nat) /\ h \in Nat /\ h <= Len(data[i])
    BY <1>4, <2>1
  <2>3. Y \in Seq(Nat)  BY <2>2, Slice
  <2>4. Segment(1, 1, 2) = X /\ Segment(2, 1, 2) = Y
    <3>1. 0 + 1 = 1  OBVIOUS
    <3> QED  BY <1>1, <1>2, <1>10, <2>1, <3>1 DEF Segment
  <2>5. SpanWhole = X \o Y  BY <2>1, <2>4 DEF SpanWhole
  <2>6. i # s.inode  BY <1>1, <1>3, <2>1
  <2>7. \A p \in 1 .. Len(X) : After(session, X[p])
    BY <1>5, <1>6, <1>7, SliceAfter
  <2>8. \A p \in 1 .. Len(Y) : After(session, Y[p])
    <3>1. OnlyAfter(session, i, 0)  BY <2>1, <2>6 DEF ReadOk
    <3>2. \A p \in 0 + 1 .. Len(data[i]) : After(session, data[i][p])
      BY <3>1 DEF OnlyAfter
    <3> HIDE DEF i, h
    <3> QED  BY <2>2, <3>2, SliceAfter
  <2>9. quiet => X \o Y = Since(session, Len(history))
    <3>1. SUFFICES ASSUME quiet PROVE X \o Y = Since(session, Len(history))  OBVIOUS
    <3>2. reader.got = Entry(dir.backup) \o Entry(dir.current)  BY <3>1 DEF QuietOk
    <3>3. dir.backup # NoFile /\ dir.current # NoFile
      <4>1. CASE dir.backup = NoFile /\ dir.current = NoFile
        <5>1. reader.got = <<>>  BY <3>2, <4>1 DEF Entry
        <5>2. n = 0  BY <5>1
        <5> QED  BY <2>1, <5>2
      <4>2. CASE dir.backup = NoFile /\ dir.current # NoFile
        <5>1. reader.got = <<[inode |-> dir.current, size |-> Len(data[dir.current])]>>
          BY <3>2, <4>2 DEF Entry
        <5>2. n = 1  BY <5>1
        <5> QED  BY <2>1, <5>2
      <4>3. CASE dir.backup # NoFile /\ dir.current = NoFile
        <5>1. reader.got = <<[inode |-> dir.backup, size |-> Len(data[dir.backup])]>>
          BY <3>2, <4>3 DEF Entry
        <5>2. n = 1  BY <5>1
        <5> QED  BY <2>1, <5>2
      <4> QED  BY <4>1, <4>2, <4>3
    <3>4. reader.got = <<[inode |-> dir.backup, size |-> Len(data[dir.backup])],
                         [inode |-> dir.current, size |-> Len(data[dir.current])]>>
      <4> DEFINE c == [inode |-> dir.current, size |-> Len(data[dir.current])]
                 b == [inode |-> dir.backup, size |-> Len(data[dir.backup])]
      <4>1. Entry(dir.current) = <<c>> /\ Entry(dir.backup) = <<b>>
        BY <3>3 DEF Entry
      <4> HIDE DEF b, c
      <4>2. <<b>> \o <<c>> = <<b, c>>  BY Pair
      <4>3. reader.got = <<b, c>>  BY <3>2, <4>1, <4>2, Zenon
      <4> QED  BY <4>3 DEF b, c
    <3>5. /\ s.inode = dir.backup /\ g = Len(D)
          /\ i = dir.current /\ h = Len(data[dir.current])
      BY <1>1, <2>1, <3>4
    <3>6. X = Rest(session)  BY <3>5 DEF Rest
    <3>7. Y = Now
      <4>1. 0 + 1 = 1  OBVIOUS
      <4>2. SubSeq(data[i], 1, Len(data[i])) = data[i]  BY <2>2, WholeSlice
      <4>3. Y = data[i]  BY <3>5, <4>1, <4>2
      <4> QED  BY <3>3, <3>5, <4>3 DEF Now
    <3> HIDE DEF X, Y
    <3> QED  BY <1>2, <3>5, <3>6, <3>7 DEF BoundaryOk
  <2> HIDE DEF X, Y
  <2>10. X \o Y \in Seq(Nat)  BY <1>8, <2>3, ConcatProperties
  <2>11. \A p \in 1 .. Len(X \o Y) : After(session, (X \o Y)[p])
    BY <1>8, <2>3, <2>7, <2>8, ConcatAfter
  <2> QED  BY <1>10, <2>5, <2>9, <2>10, <2>11
<1>11. CASE session.ended /\ e.inode = s.inode
  <2>1. SpanLast = j /\ ~(j > j)  BY <1>1, <1>3, <1>11
  <2> DEFINE Z == SubSeq(D, s.offset + 1, e.offset)
  <2>2. e.offset \in Nat /\ e.offset <= Len(D) /\ Z = Since(session, session.upto)
    BY <1>2, <1>11 DEF FrozenOk, CursorOk, Cursors, Valid
  <2>3. Z \in Seq(Nat)  BY <1>5, <2>2, Slice
  <2>4. Segment(j, j, j) = Z  BY <1>1, <1>2, <1>11 DEF Segment
  <2>5. SpanWhole = Z \o <<>>  BY <1>1, <2>1, <2>4 DEF SpanWhole
  <2> HIDE DEF Z
  <2>6. SpanWhole = Z  BY <2>3, <2>5, ConcatEmptySeq
  <2> QED  BY <1>11, <2>2, <2>3, <2>6
<1>12. CASE session.ended /\ e.inode # s.inode
  <2>1. j = 1 /\ n = 2 /\ SpanLast = 2 /\ SpanFirst = 1 /\ 2 > 1 /\ 1 # 2
        /\ 1 \in 1 .. n /\ 2 \in 1 .. n /\ reader.got[2].inode = e.inode
    BY <1>1, <1>3, <1>12
  <2> DEFINE Y == SubSeq(data[e.inode], 1, e.offset)
  <2>2. Moved  BY <1>2, <1>12 DEF Moved
  <2>3. g = Len(D)  BY <1>1, <2>2 DEF ReadOk
  <2>4. X = Rest(session)  BY <2>3 DEF Rest
  <2>5. Segment(1, 1, 2) = X /\ Segment(2, 1, 2) = Y
    BY <1>1, <1>2, <1>12, <2>1 DEF Segment
  <2>6. SpanWhole = X \o Y  BY <2>1, <2>5 DEF SpanWhole
  <2>7. s.inode \in Opened
    <3>1. DOMAIN reader.got = 1 .. n  BY <1>3
    <3> QED  BY <1>1, <3>1 DEF Opened
  <2>8. Since(session, session.upto) = X \o Y
    <3> HIDE DEF X
    <3> QED  BY <1>2, <1>12, <2>4, <2>7 DEF FrozenOk
  <2>9. Y \in Seq(Nat)
    <3> DEFINE o == e.offset
    <3>1. o \in Nat /\ o <= Len(data[e.inode]) /\ data[e.inode] \in Seq(Nat)
      BY <1>2, <1>12 DEF FrozenOk, CursorOk, Cursors, Valid, StoreOk
    <3>2. 0 + 1 = 1  OBVIOUS
    <3> HIDE DEF o
    <3>3. SubSeq(data[e.inode], 0 + 1, o) \in Seq(Nat)  BY <3>1, Slice
    <3> QED  BY <3>2, <3>3 DEF o
  <2> HIDE DEF X, Y
  <2>10. X \o Y \in Seq(Nat)  BY <1>8, <2>9, ConcatProperties
  <2> QED  BY <1>12, <2>6, <2>8, <2>10
<1> QED  BY <1>9, <1>10, <1>11, <1>12
\* The answer of a read that finds its boundaries.
LEMMA SpanAnswer ==
  ASSUME StoreOk, SessionOk, ReadOk, QuietOk, reader.pc = "span", ~SpanMiss
  PROVE  /\ quiet =>
              \E n \in Moments : /\ IsTail(Span.text, Reference(n))
                                 /\ ~Span.truncated => Span.text = Reference(n)
         /\ Span.text # <<>> => IsNL(Last(Span.text))
         /\ \A k \in DOMAIN Span.text :
               \E h \in session.from + 1 ..
                         (IF session.ended THEN session.upto ELSE Len(history)) :
                   history[h] = Span.text[k]
<1> DEFINE w == SpanWhole
           skip == SpanSkip
           v == SubSeq(w, skip + 1, Len(w))
           cut == CutInLine(w, skip)
           text == Cleaned(v, cut)
           torn == StartsTorn(session)
           N == IF session.ended THEN session.upto ELSE Len(history)
<1>1. /\ w \in Seq(Nat)
      /\ session.ended => w = Since(session, session.upto)
      /\ ~session.ended /\ quiet => w = Since(session, Len(history))
      /\ ~session.ended => \A i \in 1 .. Len(w) : After(session, w[i])
  BY WholeIs
<1>2. Span.text = text /\ Span.truncated = (skip > 0)  BY SpanIs
<1> HIDE DEF w
<1>3. Len(w) \in Nat /\ skip \in 0 .. Len(w)
  <2>1. Len(w) \in Nat  BY <1>1
  <2>2. MaxBytes \in Nat  BY SmsLogAssumption
  <2>3. \A a, b \in Nat : (IF a > b THEN a - b ELSE 0) \in 0 .. a  OBVIOUS
  <2>4. skip = IF Len(w) > MaxBytes THEN Len(w) - MaxBytes ELSE 0  BY DEF SpanSkip, w
  <2> HIDE DEF skip
  <2> QED  BY <2>1, <2>2, <2>3, <2>4
<1>4. cut \in BOOLEAN /\ torn \in BOOLEAN /\ cut = IF skip > 0 THEN ~IsNL(w[skip]) ELSE torn
  BY DEF CutInLine, StartsTorn, IsNL
<1> HIDE DEF skip, cut, torn
<1>5. /\ v \in Seq(Nat) /\ Len(v) = Len(w) - skip
      /\ \A i \in 1 .. Len(w) - skip : v[i] = w[skip + i]
  BY <1>1, <1>3, Slice
<1>6. /\ session.from \in Nat /\ N \in Nat /\ N <= Len(history)
      /\ history \in Seq(Nat) /\ Len(history) \in Nat
  <2>1. history \in Seq(Nat) /\ Len(history) \in Nat  BY DEF StoreOk
  <2>2. session \in SessionRecords /\ (session.ended => FrozenOk)  BY SpanSession
  <2>3. session.from \in Nat  BY <2>2 DEF SessionRecords
  <2>4. session.ended => session.upto \in session.from .. Len(history)
    BY <2>2 DEF FrozenOk
  <2> QED  BY <2>1, <2>3, <2>4
<1>7. ASSUME NEW i \in 1 .. Len(w)
      PROVE  \E h \in session.from + 1 .. N : history[h] = w[i]
  <2>1. CASE ~session.ended  BY <1>1, <1>7, <2>1 DEF After
  <2>2. CASE session.ended
    <3> HIDE DEF N
    <3>1. w = SubSeq(history, session.from + 1, N)  BY <1>1, <2>2 DEF N, Since
    <3> DEFINE f == session.from
    <3> HIDE DEF f
    <3>2. f \in Nat /\ w = SubSeq(history, f + 1, N)  BY <1>6, <3>1 DEF f
    <3>3. f < N
      <4>1. SUFFICES ASSUME ~(f < N) PROVE FALSE  OBVIOUS
      <4>2. N <= f  BY <1>6, <3>2, <4>1
      <4>3. w = <<>>  BY <1>6, <3>2, <4>2, Slice
      <4>4. Len(w) = 0  BY <4>3
      <4> QED  BY <4>4
    <3>4. f <= N  BY <1>6, <3>2, <3>3
    <3>5. Len(w) = N - f /\ \A k \in 1 .. N - f : w[k] = history[f + k]
      BY <1>6, <3>2, <3>4, Slice
    <3>6. f + i \in f + 1 .. N /\ w[i] = history[f + i]  BY <1>6, <3>2, <3>5
    <3> QED  BY <3>6 DEF f
  <2> QED  BY <2>1, <2>2
<1> HIDE DEF v
<1>8. /\ text \in Seq(Nat) /\ (text # <<>> => IsNL(Last(text)))
      /\ \A k \in 1 .. Len(text) : \E i \in 1 .. Len(v) : text[k] = v[i]
  BY <1>4, <1>5, CleanedUnits
<1>9. ASSUME NEW k \in DOMAIN text
      PROVE  \E h \in session.from + 1 .. N : history[h] = text[k]
  <2>1. DOMAIN text = 1 .. Len(text)
    <3> HIDE DEF text
    <3> QED  BY <1>8
  <2>2. PICK i \in 1 .. Len(v) : text[k] = v[i]  BY <1>8, <2>1
  <2>3. skip + i \in 1 .. Len(w) /\ v[i] = w[skip + i]  BY <1>3, <1>5
  <2>4. PICK h \in session.from + 1 .. N : history[h] = w[skip + i]  BY <1>7, <2>3
  <2> QED  BY <2>2, <2>3, <2>4
<1>10. ASSUME quiet
       PROVE  \E n \in Moments : IsTail(text, Reference(n)) /\ (~(skip > 0) => text = Reference(n))
  <2>1. N \in Moments
    <3>1. asked \in 0 .. Len(history)  BY DEF QuietOk
    <3>2. \A a, b \in Nat : a <= b => b \in a .. b  OBVIOUS
    <3> QED  BY <1>6, <3>1, <3>2 DEF Moments
  <2>2. w = SubSeq(history, session.from + 1, N)  BY <1>1, <1>10 DEF Since
  <2>3. Reference(N) = Cleaned(w, torn)
    <3> HIDE DEF N
    <3> QED  BY <2>2 DEF Reference, Cleaned, torn
  <2>4. CASE skip > 0
    <3>1. skip \in 1 .. Len(w)  BY <1>3, <2>4
    <3>2. cut = ~IsNL(w[skip])  BY <1>4, <2>4
    <3>3. IsTail(text, Cleaned(w, torn))  BY <1>1, <1>4, <3>1, <3>2, CutIsTail DEF v
    <3> HIDE DEF N, text
    <3> QED  BY <2>1, <2>3, <2>4, <3>3
  <2>5. CASE ~(skip > 0)
    <3>1. skip = 0  BY <1>3, <2>5
    <3>2. cut = torn  BY <1>4, <2>5
    <3>3. v = w
      <4>1. SubSeq(w, 1, Len(w)) = w  BY <1>1, WholeSlice
      <4>2. skip + 1 = 1  BY <3>1
      <4> QED  BY <4>1, <4>2 DEF v
    <3>4. text = Cleaned(w, torn)  BY <3>2, <3>3
    <3>5. IsTail(text, Cleaned(w, torn))  BY <1>1, <1>4, <3>4, WholeIsTail
    <3> HIDE DEF N, text
    <3> QED  BY <2>1, <2>3, <3>4, <3>5
  <2> QED  BY <2>4, <2>5
<1> HIDE DEF text
<1> QED  BY <1>2, <1>8, <1>9, <1>10
-----------------------------------------------------------------------------
(* Boundaries under a step of the file system.                              *)

\* A mark stays valid while its file only grows.
LEMMA CursorStays ==
  ASSUME NEW c, CursorOk(c), used \subseteq used',
         data[c.inode] \in Seq(Nat), data'[c.inode] \in Seq(Nat),
         Len(data[c.inode]) <= Len(data'[c.inode]),
         \A p \in 1 .. Len(data[c.inode]) : data'[c.inode][p] = data[c.inode][p]
  PROVE  CursorOk(c)'
<1> DEFINE t == data[c.inode]
           u == data'[c.inode]
           o == c.offset
           a == o - Len(c.anchor)
<1>1. /\ c \in Cursors /\ c.inode \in used /\ Len(c.anchor) <= o /\ o <= Len(t)
      /\ SubSeq(t, a + 1, o) = c.anchor
  BY DEF CursorOk, Valid
<1>2. o \in Nat /\ Len(c.anchor) \in Nat /\ a \in Nat /\ a <= o /\ Len(t) \in Nat
      /\ Len(u) \in Nat /\ o <= Len(u)
  <2>1. o \in Nat /\ c.anchor \in Seq(Nat)  BY <1>1 DEF Cursors
  <2>2. Len(c.anchor) \in Nat /\ Len(t) \in Nat /\ Len(u) \in Nat  BY <2>1
  <2>3. \A m, n, k, l \in Nat :
           m <= n /\ n <= k /\ k <= l => n - m \in Nat /\ n - m <= n /\ n <= l
    OBVIOUS
  <2> QED  BY <1>1, <2>1, <2>2, <2>3
<1> HIDE DEF a, o
<1>3. SubSeq(u, a + 1, o) = SubSeq(t, a + 1, o)
  <2> DEFINE x == SubSeq(u, a + 1, o)
             y == SubSeq(t, a + 1, o)
  <2> HIDE DEF t, u
  <2>1. t \in Seq(Nat) /\ u \in Seq(Nat) /\ \A p \in 1 .. Len(t) : u[p] = t[p]
    BY DEF t, u
  <2>2. y \in Seq(Nat) /\ Len(y) = o - a /\ \A i \in 1 .. o - a : y[i] = t[a + i]
    <3>1. o \in Nat /\ a \in Nat /\ a <= o /\ o <= Len(t)  BY <1>1, <1>2
    <3> QED  BY <2>1, <3>1, ProperSlice
  <2>3. x \in Seq(Nat) /\ Len(x) = o - a /\ \A i \in 1 .. o - a : x[i] = u[a + i]
    <3>1. o \in Nat /\ a \in Nat /\ a <= o /\ o <= Len(u)  BY <1>2
    <3> QED  BY <2>1, <3>1, ProperSlice
  <2>4. ASSUME NEW i \in 1 .. o - a PROVE x[i] = y[i]
    <3>1. a + i \in 1 .. Len(t)  BY <1>1, <1>2
    <3> QED  BY <2>1, <2>2, <2>3, <3>1
  <2> HIDE DEF x, y
  <2> QED  BY <2>2, <2>3, <2>4, SameText DEF x, y
<1>4. SubSeq(u, a + 1, o) = c.anchor  BY <1>1, <1>3
<1>5. Valid(c, c.inode)'  BY <1>2, <1>4 DEF Valid, a, o
<1> QED  BY <1>1, <1>5 DEF CursorOk, o

\* Where the file of a mark is, as far as the types go.
LEMMA BoundaryTypes ==
  ASSUME StoreOk, NEW b, BoundaryOk(b)
  PROVE  /\ b.start.inode \in used /\ b.start.inode \in Inodes
         /\ b.start.inode # NoFile
         /\ b.start.offset \in Nat /\ b.from \in Nat
         /\ b.start.offset <= Len(data[b.start.inode])
         /\ data[b.start.inode] \in Seq(Nat) /\ Rest(b) \in Seq(Nat)
         /\ Len(data[b.start.inode]) \in Nat
         /\ history \in Seq(Nat) /\ Len(history) \in Nat /\ b.from <= Len(history)
<1>1. b.start.inode \in used /\ b.start.inode \in Inodes /\ b.start.offset \in Nat
      /\ b.start.offset <= Len(data[b.start.inode])
  BY DEF BoundaryOk, CursorOk, Cursors, StoreOk, Valid
<1>2. b.start.inode # NoFile  BY <1>1, SmsLogAssumption
<1>3. data[b.start.inode] \in Seq(Nat) /\ Len(data[b.start.inode]) \in Nat
  BY <1>1 DEF StoreOk
<1>4. history \in Seq(Nat) /\ Len(history) \in Nat  BY DEF StoreOk
<1>5. b.from \in Nat /\ b.from <= Len(history)  BY <1>4 DEF BoundaryOk
<1>6. Rest(b) \in Seq(Nat)
  <2> DEFINE t == data[b.start.inode]
             o == b.start.offset
  <2> HIDE DEF t, o
  <2>1. t \in Seq(Nat) /\ o \in Nat /\ Len(t) \in Nat  BY <1>1, <1>3 DEF t, o
  <2>2. SubSeq(t, o + 1, Len(t)) \in Seq(Nat)  BY <2>1, Slice
  <2> QED  BY <2>2 DEF Rest, t, o
<1> QED  BY <1>1, <1>2, <1>3, <1>4, <1>5, <1>6

\* The removal of the backup.
LEMMA BoundaryRemove ==
  ASSUME StoreOk, NEW b, BoundaryOk(b),
         dir'.current = dir.current, dir'.backup = NoFile,
         UNCHANGED <<data, used, history>>
  PROVE  BoundaryOk(b)'
<1>1. b.start.inode # NoFile  BY BoundaryTypes
<1>2. CursorOk(b.start)'  BY DEF BoundaryOk, CursorOk, Valid
<1>3. Since(b, Len(history))' = Since(b, Len(history)) /\ Rest(b)' = Rest(b)
  BY DEF Since, Rest
<1>4. OnlyAfter(b, b.start.inode, b.start.offset)'
  BY DEF BoundaryOk, OnlyAfter, After
<1>5. dir'.current \notin {NoFile, b.start.inode} => OnlyAfter(b, dir.current, 0)'
  BY DEF BoundaryOk, OnlyAfter, After
<1> QED  BY <1>1, <1>2, <1>3, <1>4, <1>5 DEF BoundaryOk
\* A step that leaves the files alone.
LEMMA BoundarySame ==
  ASSUME NEW b, BoundaryOk(b), UNCHANGED <<dir, data, used, history>>
  PROVE  BoundaryOk(b)'
<1>1. CursorOk(b.start)'  BY DEF BoundaryOk, CursorOk, Valid
<1>2. /\ Since(b, Len(history))' = Since(b, Len(history))
      /\ Rest(b)' = Rest(b) /\ Now' = Now
  BY DEF Since, Rest, Now
<1>3. OnlyAfter(b, b.start.inode, b.start.offset)'
  BY DEF BoundaryOk, OnlyAfter, After
<1>4. dir'.current \notin {NoFile, b.start.inode} => OnlyAfter(b, dir.current, 0)'
  BY DEF BoundaryOk, OnlyAfter, After
<1> QED  BY <1>1, <1>2, <1>3, <1>4 DEF BoundaryOk

\* The rotation: the file of a mark is the backup now, and no other one holds
\* anything yet.
LEMMA BoundaryRename ==
  ASSUME StoreOk, NEW b, BoundaryOk(b),
         dir'.backup = dir.current, dir'.current = NoFile,
         UNCHANGED <<data, used, history>>
  PROVE  BoundaryOk(b)'
<1>1. b.start.inode # NoFile /\ Rest(b) \in Seq(Nat)  BY BoundaryTypes
<1>2. CursorOk(b.start)'  BY DEF BoundaryOk, CursorOk, Valid
<1>3. /\ Since(b, Len(history))' = Since(b, Len(history))
      /\ Rest(b)' = Rest(b) /\ Now' = <<>>
  BY DEF Since, Rest, Now
<1>4. OnlyAfter(b, b.start.inode, b.start.offset)'
  BY DEF BoundaryOk, OnlyAfter, After
<1>5. b.start.inode = dir'.backup => Since(b, Len(history))' = (Rest(b) \o Now)'
  <2>1. Rest(b) \o <<>> = Rest(b)  BY <1>1, ConcatEmptySeq
  <2>2. b.start.inode = dir.current => Since(b, Len(history)) = Rest(b)
    BY DEF BoundaryOk
  <2> QED  BY <1>3, <2>1, <2>2
<1> QED  BY <1>1, <1>2, <1>3, <1>4, <1>5 DEF BoundaryOk

\* A new file, with a number not given out before, is empty.
LEMMA BoundaryCreate ==
  ASSUME StoreOk, NEW b, BoundaryOk(b), NEW i \in Inodes, i \notin used,
         dir.current = NoFile, dir'.current = i, dir'.backup = dir.backup,
         data' = [data EXCEPT ![i] = <<>>], used' = used \cup {i},
         UNCHANGED history
  PROVE  BoundaryOk(b)'
<1> DEFINE s == b.start.inode
<1>1. s # NoFile /\ s \in used /\ s \in Inodes /\ s # i /\ data[s] \in Seq(Nat)
  BY BoundaryTypes
<1>2. data \in [Inodes -> Seq(Nat)]  BY DEF StoreOk
<1>3. data'[s] = data[s] /\ data'[i] = <<>>  BY <1>1, <1>2
<1>4. CursorOk(b.start)'
  BY <1>1, <1>3 DEF BoundaryOk, CursorOk, Valid
<1>5. /\ Since(b, Len(history))' = Since(b, Len(history))
      /\ Rest(b)' = Rest(b) /\ Now' = Now
  <2>1. Now = <<>>  BY DEF Now
  <2>2. i # NoFile  BY SmsLogAssumption
  <2>3. Now' = <<>>  BY <1>3, <2>2 DEF Now
  <2> QED  BY <1>3, <2>1, <2>3 DEF Since, Rest
<1>6. OnlyAfter(b, s, b.start.offset)'
  BY <1>3 DEF BoundaryOk, OnlyAfter, After
<1>7. OnlyAfter(b, dir.current, 0)'
  <2>1. \A p : ~(p \in 0 + 1 .. Len(<<>>))  OBVIOUS
  <2> QED  BY <1>3, <2>1 DEF OnlyAfter
<1> QED  BY <1>1, <1>4, <1>5, <1>6, <1>7 DEF BoundaryOk

\* A text with one unit more.
LEMMA Grown ==
  ASSUME NEW t \in Seq(Nat), NEW u \in Nat
  PROVE  /\ t \o <<u>> \in Seq(Nat) /\ Len(t \o <<u>>) = Len(t) + 1
         /\ \A i \in 1 .. Len(t) : (t \o <<u>>)[i] = t[i]
         /\ (t \o <<u>>)[Len(t) + 1] = u
<1>1. <<u>> \in Seq(Nat) /\ Len(<<u>>) = 1 /\ <<u>>[1] = u /\ Len(t) \in Nat
  OBVIOUS
<1> DEFINE y == <<u>>
<1> HIDE DEF y
<1>2. y \in Seq(Nat) /\ Len(y) = 1 /\ y[1] = u  BY <1>1 DEF y
<1>3. /\ t \o y \in Seq(Nat) /\ Len(t \o y) = Len(t) + 1
      /\ \A i \in 1 .. Len(t) + 1 : (t \o y)[i] = IF i <= Len(t) THEN t[i] ELSE y[i - Len(t)]
  <2>1. /\ t \o y \in Seq(Nat) /\ Len(t \o y) = Len(t) + Len(y)
        /\ \A i \in 1 .. Len(t) + Len(y) :
              (t \o y)[i] = IF i <= Len(t) THEN t[i] ELSE y[i - Len(t)]
    BY <1>2, ConcatProperties
  <2> QED  BY <1>2, <2>1
<1>4. \A i \in 1 .. Len(t) : i \in 1 .. Len(t) + 1 /\ i <= Len(t)  BY <1>1
<1>5. Len(t) + 1 \in 1 .. Len(t) + 1 /\ ~(Len(t) + 1 <= Len(t)) /\ (Len(t) + 1) - Len(t) = 1
  BY <1>1
<1>6. (t \o y)[Len(t) + 1] = u  BY <1>2, <1>3, <1>5
<1>7. \A i \in 1 .. Len(t) : (t \o y)[i] = t[i]  BY <1>3, <1>4
<1> QED  BY <1>3, <1>6, <1>7 DEF y

\* Its slices: one that ends before the new unit, and one that takes it in.
LEMMA GrownSlice ==
  ASSUME NEW t \in Seq(Nat), NEW u \in Nat, NEW a \in Nat
  PROVE  /\ \A z \in Nat : z <= Len(t) =>
               SubSeq(t \o <<u>>, a + 1, z) = SubSeq(t, a + 1, z)
         /\ a <= Len(t) =>
               SubSeq(t \o <<u>>, a + 1, Len(t \o <<u>>))
                 = SubSeq(t, a + 1, Len(t)) \o <<u>>
<1> DEFINE v == t \o <<u>>
           n == Len(t)
<1>1. /\ v \in Seq(Nat) /\ Len(v) = n + 1 /\ n \in Nat
      /\ \A i \in 1 .. n : v[i] = t[i]
      /\ v[n + 1] = u
  BY Grown
<1> HIDE DEF v, n
<1>2. ASSUME NEW z \in Nat, z <= n PROVE SubSeq(v, a + 1, z) = SubSeq(t, a + 1, z)
  <2> DEFINE x == SubSeq(v, a + 1, z)
             y == SubSeq(t, a + 1, z)
  <2>1. z <= Len(v) /\ z <= Len(t)  BY <1>1, <1>2 DEF n
  <2>2. /\ x \in Seq(Nat) /\ (a <= z => Len(x) = z - a) /\ (z <= a => x = <<>>)
        /\ \A i \in 1 .. z - a : x[i] = v[a + i]
    <3>1. v \in Seq(Nat)  BY <1>1
    <3> QED  BY <2>1, <3>1, Slice
  <2>3. /\ y \in Seq(Nat) /\ (a <= z => Len(y) = z - a) /\ (z <= a => y = <<>>)
        /\ \A i \in 1 .. z - a : y[i] = t[a + i]
    BY <2>1, Slice
  <2> HIDE DEF x, y
  <2>4. CASE z <= a  BY <2>2, <2>3, <2>4 DEF x, y
  <2>5. CASE a < z
    <3>1. Len(x) = z - a /\ Len(y) = z - a  BY <2>2, <2>3, <2>5
    <3>2. ASSUME NEW i \in 1 .. z - a PROVE x[i] = y[i]
      <4>1. a + i \in 1 .. n  BY <1>1, <1>2, <2>5
      <4> QED  BY <1>1, <2>2, <2>3, <4>1
    <3>3. x = y  BY <2>2, <2>3, <3>1, <3>2, SameText
    <3> QED  BY <3>3 DEF x, y
  <2> QED  BY <2>4, <2>5
<1>3. ASSUME a <= n PROVE SubSeq(v, a + 1, n + 1) = SubSeq(t, a + 1, n) \o <<u>>
  <2> DEFINE x == SubSeq(v, a + 1, n + 1)
             y == SubSeq(t, a + 1, n)
             z == y \o <<u>>
             m == n + 1
  <2>1. m \in Nat /\ m <= Len(v) /\ a <= m /\ m - a = (n - a) + 1 /\ n - a \in Nat
    BY <1>1, <1>3
  <2>2. /\ SubSeq(v, a + 1, m) \in Seq(Nat) /\ Len(SubSeq(v, a + 1, m)) = m - a
        /\ \A i \in 1 .. m - a : SubSeq(v, a + 1, m)[i] = v[a + i]
    <3> HIDE DEF m
    <3> QED  BY <1>1, <2>1, Slice
  <2>3. y \in Seq(Nat) /\ Len(y) = n - a /\ \A i \in 1 .. n - a : y[i] = t[a + i]
    BY <1>1, <1>3, Slice DEF n
  <2> HIDE DEF y
  <2>4. /\ z \in Seq(Nat) /\ Len(z) = (n - a) + 1 /\ z[(n - a) + 1] = u
        /\ \A i \in 1 .. n - a : z[i] = y[i]
    BY <2>3, Grown
  <2> HIDE DEF z
  <2>5. x \in Seq(Nat) /\ Len(x) = (n - a) + 1 /\ \A i \in 1 .. (n - a) + 1 : x[i] = v[a + i]
    BY <2>1, <2>2
  <2> HIDE DEF x
  <2>6. ASSUME NEW i \in 1 .. (n - a) + 1 PROVE x[i] = z[i]
    <3>1. CASE i = (n - a) + 1
      <4>1. a + i = n + 1  BY <1>1, <2>1, <3>1
      <4> QED  BY <1>1, <2>4, <2>5, <3>1, <4>1
    <3>2. CASE i # (n - a) + 1
      <4>1. i \in 1 .. n - a /\ a + i \in 1 .. n  BY <1>1, <2>1, <3>2
      <4> QED  BY <1>1, <2>3, <2>4, <2>5, <4>1
    <3> QED  BY <3>1, <3>2
  <2>7. x = z  BY <2>4, <2>5, <2>6, SameText
  <2> QED  BY <2>7 DEF x, y, z
<1> QED  BY <1>1, <1>2, <1>3 DEF n, v
\* The collector appends one unit to the current file.
Appends(u) ==
    /\ u \in Nat /\ dir.current # NoFile
    /\ data' = [data EXCEPT ![dir.current] = @ \o <<u>>]
    /\ history' = history \o <<u>>
    /\ UNCHANGED <<dir, used>>

\* What writing one line does to the history and to the files.
LEMMA AppendFacts ==
  ASSUME StoreOk, NEW u, Appends(u)
  PROVE  /\ dir.current \in Inodes /\ dir.current \in used
         /\ data' \in [Inodes -> Seq(Nat)] /\ history' \in Seq(Nat)
         /\ data'[dir.current] = data[dir.current] \o <<u>>
         /\ \A i \in Inodes : i # dir.current => data'[i] = data[i]
         /\ \A i \in Inodes : /\ Len(data[i]) <= Len(data'[i])
                              /\ \A p \in 1 .. Len(data[i]) : data'[i][p] = data[i][p]
         /\ Len(history) \in Nat /\ Len(history') = Len(history) + 1
         /\ \A h \in 1 .. Len(history) : history'[h] = history[h]
         /\ history'[Len(history) + 1] = u
<1> DEFINE c == dir.current
<1>1. c \in used /\ c \in Inodes /\ u \in Nat  BY DEF Appends, StoreOk
<1>2. data \in [Inodes -> Seq(Nat)] /\ history \in Seq(Nat) /\ Len(history) \in Nat
  BY DEF StoreOk
<1>3. data'[c] = data[c] \o <<u>> /\ \A i \in Inodes : i # c => data'[i] = data[i]
  BY <1>1, <1>2 DEF Appends
<1>4. data[c] \in Seq(Nat) /\ data[c] \o <<u>> \in Seq(Nat)  BY <1>1, <1>2, Grown
<1>5. data' \in [Inodes -> Seq(Nat)]
  <2> DEFINE g == data[c] \o <<u>>
  <2> HIDE DEF g
  <2>1. data' = [data EXCEPT ![c] = g] /\ g \in Seq(Nat)  BY <1>4 DEF Appends, g
  <2> QED  BY <1>2, <2>1
<1>6. ASSUME NEW i \in Inodes
      PROVE  /\ Len(data[i]) <= Len(data'[i])
             /\ \A p \in 1 .. Len(data[i]) : data'[i][p] = data[i][p]
  <2>1. data[i] \in Seq(Nat) /\ Len(data[i]) \in Nat  BY <1>2
  <2>2. CASE i = c
    <3>1. /\ Len(data[c] \o <<u>>) = Len(data[c]) + 1
          /\ \A p \in 1 .. Len(data[c]) : (data[c] \o <<u>>)[p] = data[c][p]
      BY <1>1, <1>4, Grown
    <3>2. Len(data'[c]) = Len(data[c]) + 1  BY <1>3, <3>1
    <3>3. Len(data[c]) <= Len(data'[c])  BY <2>1, <2>2, <3>2
    <3> QED  BY <1>3, <2>2, <3>1, <3>3
  <2>3. CASE i # c
    <3>1. data'[i] = data[i]  BY <1>3, <2>3
    <3>2. Len(data[i]) <= Len(data[i])  BY <2>1
    <3> QED  BY <3>1, <3>2
  <2> QED  BY <2>2, <2>3
<1>7. /\ history' \in Seq(Nat) /\ Len(history') = Len(history) + 1
      /\ \A h \in 1 .. Len(history) : history'[h] = history[h]
      /\ history'[Len(history) + 1] = u
  BY <1>1, <1>2, Grown DEF Appends
<1> QED  BY <1>1, <1>2, <1>3, <1>5, <1>6, <1>7

\* Later units stay later units, and the new one is one.
LEMMA AfterAppend ==
  ASSUME StoreOk, NEW u, Appends(u), NEW b, b.from \in Nat, b.from <= Len(history)
  PROVE  /\ \A x : After(b, x) => After(b, x)'
         /\ After(b, u)'
         /\ \A i \in Inodes, n \in Nat : OnlyAfter(b, i, n) => OnlyAfter(b, i, n)'
<1> DEFINE c == dir.current
<1>1. /\ Len(history) \in Nat /\ Len(history') = Len(history) + 1
      /\ \A h \in 1 .. Len(history) : history'[h] = history[h]
      /\ history'[Len(history) + 1] = u
  BY AppendFacts
<1>2. ASSUME NEW x, After(b, x) PROVE After(b, x)'
  <2>1. PICK h \in b.from + 1 .. Len(history) : history[h] = x  BY <1>2 DEF After
  <2>2. h \in b.from + 1 .. Len(history') /\ h \in 1 .. Len(history)  BY <1>1, <2>1
  <2>3. history'[h] = x  BY <1>1, <2>1, <2>2
  <2> QED  BY <2>2, <2>3 DEF After
<1>3. After(b, u)'
  <2>1. Len(history) + 1 \in b.from + 1 .. Len(history')  BY <1>1
  <2> QED  BY <1>1, <2>1 DEF After
<1>4. ASSUME NEW i \in Inodes, NEW n \in Nat, OnlyAfter(b, i, n)
      PROVE  OnlyAfter(b, i, n)'
  <2>1. ASSUME NEW p \in n + 1 .. Len(data'[i])
        PROVE  \E h \in b.from + 1 .. Len(history') : history'[h] = data'[i][p]
    <3>1. data[i] \in Seq(Nat) /\ Len(data[i]) \in Nat /\ u \in Nat
      BY DEF StoreOk, Appends
    <3>2. CASE p \in 1 .. Len(data[i])
      <4>1. data'[i][p] = data[i][p]  BY <3>2, AppendFacts
      <4>2. p \in n + 1 .. Len(data[i])  BY <3>1, <3>2
      <4>3. After(b, data[i][p])  BY <1>4, <4>2 DEF OnlyAfter
      <4>4. PICK x : x = data[i][p]  OBVIOUS
      <4>5. After(b, x)'  BY <1>2, <4>3, <4>4
      <4> QED  BY <4>1, <4>4, <4>5 DEF After
    <3>3. CASE p \notin 1 .. Len(data[i])
      <4>1. i = c
        <5>1. SUFFICES ASSUME i # c PROVE FALSE  OBVIOUS
        <5>2. data'[i] = data[i]  BY <5>1, AppendFacts
        <5>3. p \in n + 1 .. Len(data[i])  BY <5>2
        <5>4. p \in 1 .. Len(data[i])  BY <3>1, <5>3
        <5> QED  BY <3>3, <5>4
      <4>2. data'[i] = data[i] \o <<u>>  BY <4>1, AppendFacts
      <4>3. Len(data'[i]) = Len(data[i]) + 1 /\ data'[i][Len(data[i]) + 1] = u
        BY <3>1, <4>2, Grown
      <4>4. p = Len(data[i]) + 1  BY <3>1, <3>3, <4>3
      <4>5. data'[i][p] = u  BY <4>3, <4>4
      <4> QED  BY <1>3, <4>5 DEF After
    <3> QED  BY <3>2, <3>3
  <2> QED  BY <2>1 DEF OnlyAfter, After
<1> QED  BY <1>2, <1>3, <1>4

\* A boundary while units arrive: they are added to both sides.
LEMMA BoundaryAppend ==
  ASSUME StoreOk, NEW b, BoundaryOk(b), NEW u, Appends(u)
  PROVE  BoundaryOk(b)'
<1> DEFINE s == b.start.inode
           o == b.start.offset
           c == dir.current
           H == Since(b, Len(history))
<1>1. /\ s \in used /\ s \in Inodes /\ s # NoFile /\ o \in Nat /\ b.from \in Nat
      /\ o <= Len(data[s]) /\ data[s] \in Seq(Nat) /\ Rest(b) \in Seq(Nat)
      /\ history \in Seq(Nat) /\ Len(history) \in Nat /\ b.from <= Len(history)
  BY BoundaryTypes
<1>2. /\ u \in Nat /\ c # NoFile /\ dir' = dir /\ used' = used
      /\ history' = history \o <<u>>
  BY DEF Appends
<1>3. /\ c \in Inodes /\ data'[c] = data[c] \o <<u>> /\ data[c] \in Seq(Nat)
      /\ \A i \in Inodes : i # c => data'[i] = data[i]
  BY AppendFacts DEF StoreOk
<1>4. CursorOk(b.start)'
  <2>1. CursorOk(b.start)  BY DEF BoundaryOk
  <2>2. used \subseteq used' /\ data'[s] \in Seq(Nat)  BY <1>1, <1>2, AppendFacts
  <2>3. /\ Len(data[s]) <= Len(data'[s])
        /\ \A p \in 1 .. Len(data[s]) : data'[s][p] = data[s][p]
    BY <1>1, AppendFacts
  <2> QED  BY <1>1, <2>1, <2>2, <2>3, CursorStays
<1>5. b.from \in 0 .. Len(history')
  <2>1. Len(history') = Len(history) + 1  BY AppendFacts
  <2> QED  BY <1>1, <2>1
<1>6. Since(b, Len(history))' = H \o <<u>>
  <2> DEFINE f == b.from
  <2> HIDE DEF f
  <2>1. f \in Nat /\ f <= Len(history)  BY <1>1 DEF f
  <2>2. SubSeq(history \o <<u>>, f + 1, Len(history \o <<u>>))
          = SubSeq(history, f + 1, Len(history)) \o <<u>>
    BY <1>1, <1>2, <2>1, GrownSlice
  <2> QED  BY <1>2, <2>2 DEF Since, f
<1>7. s = c => Since(b, Len(history))' = Rest(b)'
  <2>1. SUFFICES ASSUME s = c PROVE Since(b, Len(history))' = Rest(b)'  OBVIOUS
  <2>2. H = Rest(b)  BY <2>1 DEF BoundaryOk
  <2>3. Rest(b)' = Rest(b) \o <<u>>
    <3> DEFINE t == data[s]
    <3> HIDE DEF o, t
    <3>1. t \in Seq(Nat) /\ o \in Nat /\ o <= Len(t)  BY <1>1 DEF t
    <3>2. SubSeq(t \o <<u>>, o + 1, Len(t \o <<u>>)) = SubSeq(t, o + 1, Len(t)) \o <<u>>
      BY <1>2, <3>1, GrownSlice
    <3>3. data'[s] = t \o <<u>>  BY <1>3, <2>1 DEF t
    <3> QED  BY <3>2, <3>3 DEF Rest, t, o
  <2> QED  BY <1>6, <2>2, <2>3
<1>8. s = dir.backup => Since(b, Len(history))' = Rest(b)' \o Now'
  <2>1. SUFFICES ASSUME s = dir.backup PROVE Since(b, Len(history))' = Rest(b)' \o Now'
    OBVIOUS
  <2>2. H = Rest(b) \o Now  BY <2>1 DEF BoundaryOk
  <2>3. s # c  BY <1>1, <2>1 DEF StoreOk
  <2>4. Rest(b)' = Rest(b)
    <3>1. data'[s] = data[s]  BY <1>1, <1>3, <2>3
    <3> QED  BY <3>1 DEF Rest
  <2>5. Now = data[c] /\ Now' = data[c] \o <<u>>  BY <1>2, <1>3 DEF Now
  <2>6. (Rest(b) \o data[c]) \o <<u>> = Rest(b) \o (data[c] \o <<u>>)
    <3> DEFINE x == Rest(b)
               y == data[c]
               z == <<u>>
    <3>1. x \in Seq(Nat) /\ y \in Seq(Nat) /\ z \in Seq(Nat)  BY <1>1, <1>2, <1>3
    <3> HIDE DEF x, y, z
    <3>2. (x \o y) \o z = x \o (y \o z)  BY <3>1, TextAssociative
    <3> QED  BY <3>2 DEF x, y, z
  <2> HIDE DEF H
  <2> QED  BY <1>6, <2>2, <2>4, <2>5, <2>6
<1>9. OnlyAfter(b, s, o)'
  <2>1. OnlyAfter(b, s, o)  BY DEF BoundaryOk
  <2> QED  BY <1>1, <2>1, AfterAppend
<1>10. dir'.current \notin {NoFile, s} => OnlyAfter(b, dir.current, 0)'
  <2>1. c \notin {NoFile, s} => OnlyAfter(b, c, 0)  BY DEF BoundaryOk
  <2>2. PICK i : i = c  OBVIOUS
  <2>3. i \in Inodes /\ 0 \in Nat  BY <1>3, <2>2
  <2>4. i \notin {NoFile, s} => OnlyAfter(b, i, 0)'
    BY <1>1, <2>1, <2>2, <2>3, AfterAppend
  <2> QED  BY <1>2, <2>2, <2>4
<1> HIDE DEF H
<1> QED  BY <1>2, <1>4, <1>5, <1>7, <1>8, <1>9, <1>10 DEF BoundaryOk
\* A stopped session when only the names change.
LEMMA FrozenDir ==
  ASSUME FrozenOk, UNCHANGED <<data, used, history, session, reader>>,
         session.end.inode # session.start.inode =>
            /\ session.start.inode # dir'.current
            /\ session.start.inode = dir'.backup =>
                  session.start.inode = dir.backup /\ session.end.inode = dir'.current
  PROVE  FrozenOk'
<1>1. CursorOk(session.end)'  BY DEF FrozenOk, CursorOk, Valid
<1>2. session'.upto \in session'.from .. Len(history')  BY DEF FrozenOk
<1>3. Opened' = Opened  BY DEF Opened
<1>4. /\ Since(session, session.upto)' = Since(session, session.upto)
      /\ Rest(session)' = Rest(session)
  BY DEF Since, Rest
<1>5. session.end.inode = session.start.inode =>
        /\ session.start.offset <= session.end.offset
        /\ Since(session, session.upto)' =
              SubSeq(data[session.start.inode], session.start.offset + 1,
                     session.end.offset)
  BY <1>4 DEF FrozenOk
<1>6. session.end.inode # session.start.inode
        /\ session.start.inode \in {dir'.backup} \cup Opened' =>
          Since(session, session.upto)' =
             Rest(session)' \o SubSeq(data[session.end.inode], 1, session.end.offset)
  BY <1>3, <1>4 DEF FrozenOk
<1> QED  BY <1>1, <1>2, <1>5, <1>6 DEF FrozenOk

\* A stopped session when a new file is created: the file of its stop has been
\* renamed, so that of its start is no longer the backup.
LEMMA FrozenCreate ==
  ASSUME StoreOk, BoundaryOk(session), FrozenOk, NEW i \in Inodes, i \notin used,
         dir.current = NoFile, dir'.current = i, dir'.backup = dir.backup,
         data' = [data EXCEPT ![i] = <<>>], used' = used \cup {i},
         UNCHANGED <<history, session, reader>>
  PROVE  FrozenOk'
<1> DEFINE s == session.start.inode
           e == session.end.inode
<1>1. s \in used /\ s \in Inodes /\ s # i  BY BoundaryTypes
<1>2. e \in used /\ e \in Inodes /\ e # i /\ e # NoFile
  BY SmsLogAssumption DEF FrozenOk, CursorOk, StoreOk
<1>3. data'[s] = data[s] /\ data'[e] = data[e]  BY <1>1, <1>2 DEF StoreOk
<1>4. CursorOk(session.end)'
  BY <1>2, <1>3 DEF FrozenOk, CursorOk, Valid
<1>5. session'.upto \in session'.from .. Len(history')  BY DEF FrozenOk
<1>6. Opened' = Opened  BY DEF Opened
<1>7. /\ Since(session, session.upto)' = Since(session, session.upto)
      /\ Rest(session)' = Rest(session)
  BY <1>3 DEF Since, Rest
<1>8. e = s =>
        /\ session.start.offset <= session.end.offset
        /\ Since(session, session.upto)' =
              SubSeq(data'[s], session.start.offset + 1, session.end.offset)
  BY <1>3, <1>7 DEF FrozenOk
<1>9. e # s => s # dir'.current /\ s # dir'.backup
  BY <1>1, <1>2 DEF FrozenOk
<1>10. e # s /\ s \in {dir'.backup} \cup Opened' =>
          Since(session, session.upto)' =
             Rest(session)' \o SubSeq(data'[e], 1, session.end.offset)
  BY <1>3, <1>6, <1>7 DEF FrozenOk
<1> QED  BY <1>4, <1>5, <1>8, <1>9, <1>10 DEF FrozenOk

\* A stopped session is not changed by what arrives later.
LEMMA FrozenAppend ==
  ASSUME StoreOk, BoundaryOk(session), FrozenOk, NEW u, Appends(u),
         UNCHANGED <<session, reader>>
  PROVE  FrozenOk'
<1> DEFINE s == session.start.inode
           e == session.end.inode
           c == dir.current
           o == session.start.offset
           z == session.end.offset
<1>1. /\ s \in Inodes /\ o \in Nat /\ session.from \in Nat /\ data[s] \in Seq(Nat)
      /\ history \in Seq(Nat) /\ Len(history) \in Nat
  BY BoundaryTypes
<1>2. /\ e \in used /\ e \in Inodes /\ z \in Nat /\ z <= Len(data[e])
      /\ data[e] \in Seq(Nat)
      /\ session.upto \in session.from .. Len(history)
  BY DEF FrozenOk, CursorOk, Cursors, Valid, StoreOk
<1>3. u \in Nat /\ dir' = dir /\ used' = used /\ history' = history \o <<u>>
  BY DEF Appends
<1>4. /\ data'[c] = data[c] \o <<u>> /\ \A i \in Inodes : i # c => data'[i] = data[i]
      /\ Len(history') = Len(history) + 1
  BY AppendFacts
<1>5. CursorOk(session.end)'
  <2>1. PICK k : k = session.end  OBVIOUS
  <2>2. CursorOk(k) /\ used \subseteq used' /\ data[k.inode] \in Seq(Nat)
    BY <1>2, <1>3, <2>1 DEF FrozenOk
  <2>3. /\ data'[k.inode] \in Seq(Nat)
        /\ Len(data[k.inode]) <= Len(data'[k.inode])
        /\ \A p \in 1 .. Len(data[k.inode]) : data'[k.inode][p] = data[k.inode][p]
    BY <1>2, <2>1, AppendFacts
  <2>4. CursorOk(k)'  BY <2>2, <2>3, CursorStays
  <2> QED  BY <2>1, <2>4
<1>6. session'.upto \in session'.from .. Len(history')
  BY <1>1, <1>2, <1>4
<1>7. Opened' = Opened  BY DEF Opened
<1>8. Since(session, session.upto)' = Since(session, session.upto)
  <2> DEFINE f == session.from
             n == session.upto
  <2>1. f \in Nat /\ n \in Nat /\ n <= Len(history)  BY <1>1, <1>2
  <2> HIDE DEF f, n
  <2>2. SubSeq(history \o <<u>>, f + 1, n) = SubSeq(history, f + 1, n)
    BY <1>1, <1>3, <2>1, GrownSlice
  <2> QED  BY <1>3, <2>2 DEF Since, f, n
<1>9. \A a \in Nat : SubSeq(data'[e], a + 1, z) = SubSeq(data[e], a + 1, z)
  <2>1. CASE e = c
    <3>1. TAKE a \in Nat
    <3>2. data'[e] = data[e] \o <<u>>  BY <1>4, <2>1
    <3> DEFINE t == data[e]
    <3> HIDE DEF z, t
    <3>3. t \in Seq(Nat) /\ z \in Nat /\ z <= Len(t)  BY <1>2 DEF t, z
    <3>4. SubSeq(t \o <<u>>, a + 1, z) = SubSeq(t, a + 1, z)
      BY <1>3, <3>3, GrownSlice
    <3> QED  BY <3>2, <3>4 DEF t
  <2>2. CASE e # c
    <3>1. data'[e] = data[e]  BY <1>2, <1>4, <2>2
    <3> QED  BY <3>1
  <2> QED  BY <2>1, <2>2
<1>10. SubSeq(data'[e], 1, z) = SubSeq(data[e], 1, z)
  <2>1. 0 \in Nat /\ 0 + 1 = 1  OBVIOUS
  <2>2. SubSeq(data'[e], 0 + 1, z) = SubSeq(data[e], 0 + 1, z)  BY <1>9, <2>1
  <2> QED  BY <2>1, <2>2
<1>11. e = s =>
        /\ o <= z
        /\ Since(session, session.upto)' = SubSeq(data'[s], o + 1, z)
  <2>1. SUFFICES ASSUME e = s
                 PROVE o <= z /\ Since(session, session.upto)' = SubSeq(data'[s], o + 1, z)
    OBVIOUS
  <2>2. o <= z /\ Since(session, session.upto) = SubSeq(data[s], o + 1, z)
    BY <2>1 DEF FrozenOk
  <2>3. SubSeq(data'[s], o + 1, z) = SubSeq(data[s], o + 1, z)  BY <1>1, <1>9, <2>1
  <2> QED  BY <1>8, <2>2, <2>3
<1>12. e # s =>
        /\ s # dir'.current /\ (s = dir'.backup => e = dir'.current)
        /\ s \in {dir'.backup} \cup Opened' =>
              Since(session, session.upto)' = Rest(session)' \o SubSeq(data'[e], 1, z)
  <2>1. SUFFICES ASSUME e # s
                 PROVE  /\ s # dir'.current /\ (s = dir'.backup => e = dir'.current)
                        /\ s \in {dir'.backup} \cup Opened' =>
                              Since(session, session.upto)' =
                                Rest(session)' \o SubSeq(data'[e], 1, z)
    OBVIOUS
  <2>2. s # c  BY <2>1 DEF FrozenOk
  <2>3. data'[s] = data[s]  BY <1>1, <1>4, <2>2
  <2>4. Rest(session)' = Rest(session)  BY <2>3 DEF Rest
  <2> QED  BY <1>3, <1>7, <1>8, <1>10, <2>1, <2>4 DEF FrozenOk
<1> QED  BY <1>5, <1>6, <1>11, <1>12 DEF FrozenOk
-----------------------------------------------------------------------------
(* The invariant under the steps of the collector.                          *)

\* The session while its files change.
LEMMA SessionStays ==
  ASSUME SessionOk, UNCHANGED <<mark, session>>,
         Len(history) \in Nat, Len(history') \in Nat, Len(history) <= Len(history'),
         mark # NoSession => BoundaryOk(mark)',
         session # NoSession => BoundaryOk(session)',
         session.state = "stopped" => FrozenOk'
  PROVE  SessionOk'
<1>1. mark.upto \in Nat /\ session.upto \in Nat  BY DEF SessionOk, SessionRecords
<1>2. mark'.upto <= Len(history') /\ session'.upto <= Len(history')
  <2>1. mark.upto <= Len(history) /\ session.upto <= Len(history)  BY DEF SessionOk
  <2>2. \A a, b, c \in Nat : a <= b /\ b <= c => a <= c  OBVIOUS
  <2> QED  BY <1>1, <2>1, <2>2
<1>3. mark' \in SessionRecords /\ session' \in SessionRecords  BY DEF SessionOk
<1>4. mark' # NoSession =>
          /\ session' = NoSession /\ BoundaryOk(mark)'
          /\ ~mark'.ended /\ mark'.end = NoCursor
  BY DEF SessionOk
<1>5. session' # NoSession => session'.state # "none" /\ BoundaryOk(session)'
  BY DEF SessionOk
<1>6. session'.state \in {"starting", "running"} =>
          ~session'.ended /\ session'.end = NoCursor
  BY DEF SessionOk
<1>7. session'.state = "stopped" =>
          session'.ended /\ session'.end # NoCursor /\ FrozenOk'
  BY DEF SessionOk
<1> QED  BY <1>2, <1>3, <1>4, <1>5, <1>6, <1>7 DEF SessionOk

\* The reader's knowledge of what is missing while names change.
LEMMA MissStays ==
  ASSUME ReadOk, MissOk, UNCHANGED <<session, reader>>,
         session # NoSession /\ session.start.inode # dir.current =>
            session.start.inode # dir'.current,
         session # NoSession /\ Gone(session.start.inode) =>
            session.start.inode \notin {dir'.current, dir'.backup}
  PROVE  MissOk'
<1>1. Reading => session # NoSession  BY DEF ReadOk, NoSession
<1>2. reader.pc \in {"current", "span"} => Reading  BY DEF Reading
<1>3. Opened' = Opened  BY DEF Opened
<1>4. Moved' = Moved /\ Reading' = Reading  BY DEF Moved, Reading
<1> DEFINE s == session.start.inode
<1>5. Reading /\ reader.attempt = 2 => s # dir'.current  BY <1>1 DEF MissOk
<1>6. reader.pc = "current" /\ reader.attempt = 2 /\ s \notin Opened => Gone(s)'
  BY <1>1, <1>2 DEF MissOk, Gone
<1>7. reader.pc = "span" /\ s \notin Opened =>
        s # dir'.current /\ (reader.attempt = 2 => Gone(s)')
  BY <1>1, <1>2 DEF MissOk, Gone
<1>8. reader.pc = "span" /\ Moved /\ s \in Opened =>
              \/ Gone(s)'
              \/ /\ Len(reader.got) = 2 /\ reader.got[1].inode = s
                 /\ reader.got[2].inode = session.end.inode
  BY <1>1, <1>2 DEF MissOk, Gone
<1> QED  BY <1>3, <1>4, <1>5, <1>6, <1>7, <1>8 DEF MissOk

\* An answer that has been given, and the marks of a quiet read, while the
\* collector steps.
LEMMA AnswerStays ==
  ASSUME StoreOk, SessionOk, ReadOk, QuietOk, AnswerOk, Disturb,
         UNCHANGED <<session, readerVars>>,
         history' \in Seq(Nat), Len(history) <= Len(history'),
         \A h \in 1 .. Len(history) : history'[h] = history[h],
         session # NoSession /\ Gone(session.start.inode) =>
            session.start.inode \notin {dir'.current, dir'.backup}
  PROVE  QuietOk' /\ AnswerOk'
<1>1. /\ quiet' = (quiet /\ reader.pc = "idle") /\ quiet \in BOOLEAN
      /\ reader' = reader /\ answer' = answer /\ asked' = asked
  BY DEF Disturb, readerVars, QuietOk
<1>2. Len(history) \in Nat /\ Len(history') \in Nat  BY DEF StoreOk
<1>3. QuietOk'
  <2>1. asked' \in 0 .. Len(history')
    <3>1. asked \in 0 .. Len(history)  BY DEF QuietOk
    <3>2. \A a, b \in Nat : a <= b => 0 .. a \subseteq 0 .. b  OBVIOUS
    <3> QED  BY <1>1, <1>2, <3>1, <3>2
  <2> QED  BY <1>1, <2>1 DEF QuietOk
<1>4. answer.kind \in {"ok", "lost"} => session # NoSession  BY DEF AnswerOk
<1>5. QuietReadIsExact'
  <2>1. reader.pc = "idle" => answer.kind # "ok"  BY DEF AnswerOk
  <2> QED  BY <1>1, <2>1 DEF QuietReadIsExact
<1>6. OwnLinesOnly'
  <2>1. SUFFICES ASSUME answer.kind = "ok" PROVE OwnLinesOnly'
    BY <1>1 DEF OwnLinesOnly
  <2> DEFINE N == IF session.ended THEN session.upto ELSE Len(history)
             M == IF session.ended THEN session.upto ELSE Len(history')
  <2>2. session.from \in Nat /\ session.upto \in Nat /\ session.upto <= Len(history)
    BY DEF SessionOk, SessionRecords
  <2>3. N \in Nat /\ M \in Nat /\ N <= M /\ N <= Len(history)  BY <1>2, <2>2
  <2>4. /\ answer.text # <<>> => IsNL(Last(answer.text))
        /\ \A k \in DOMAIN answer.text :
              IsNL(answer.text[k]) \/
              \E h \in session.from + 1 .. N : history[h] = answer.text[k]
    BY <2>1 DEF AnswerOk, OwnLinesOnly
  <2> HIDE DEF N, M
  <2>5. ASSUME NEW k \in DOMAIN answer.text, ~IsNL(answer.text[k])
        PROVE  \E h \in session.from + 1 .. M : history'[h] = answer.text[k]
    <3>1. PICK h \in session.from + 1 .. N : history[h] = answer.text[k]
      BY <2>4, <2>5
    <3>2. h \in session.from + 1 .. M /\ h \in 1 .. Len(history)
      BY <1>2, <2>2, <2>3
    <3> QED  BY <3>1, <3>2
  <2> QED  BY <1>1, <2>4, <2>5 DEF OwnLinesOnly, M
<1>7. LostMeansGone'
  BY <1>1, <1>4 DEF AnswerOk, LostMeansGone, Gone
<1> QED  BY <1>1, <1>3, <1>4, <1>5, <1>6, <1>7 DEF AnswerOk
\* Steps of the collector that write nothing and create nothing.
LEMMA NamesStep ==
  ASSUME SmsInv, Disturb,
         UNCHANGED <<data, used, history, sessionVars, readerVars>>,
         dir'.current \in {dir.current, NoFile},
         dir' = dir \/ dir'.backup \in {NoFile, dir.current},
         mark # NoSession => BoundaryOk(mark)',
         session # NoSession => BoundaryOk(session)'
  PROVE  SessionOk' /\ ReadOk' /\ MissOk' /\ QuietOk' /\ AnswerOk'
<1> DEFINE s == session.start.inode
<1>1. StoreOk /\ SessionOk /\ ReadOk /\ MissOk /\ QuietOk /\ AnswerOk  BY DEF SmsInv
<1>2. session' = session /\ mark' = mark /\ reader' = reader  BY DEF sessionVars, readerVars
<1>3. session # NoSession => BoundaryOk(session) /\ s # NoFile /\ s \in used
  <2>1. session # NoSession => BoundaryOk(session)  BY <1>1 DEF SessionOk
  <2> QED  BY <1>1, <2>1, BoundaryTypes
<1>4. session.state = "stopped" => session # NoSession /\ FrozenOk
  BY <1>1 DEF SessionOk, NoSession
<1>5. session.state = "stopped" => FrozenOk'
  <2>1. SUFFICES ASSUME session.state = "stopped" PROVE FrozenOk'  OBVIOUS
  <2>2. session.end.inode # s => s # dir.current /\ s # NoFile
          /\ (s = dir.backup => session.end.inode = dir.current)
    BY <1>3, <1>4, <2>1 DEF FrozenOk
  <2>3. session.end.inode # s =>
            /\ s # dir'.current
            /\ s = dir'.backup => s = dir.backup /\ session.end.inode = dir'.current
    BY <2>2
  <2> QED  BY <1>2, <1>4, <2>1, <2>3, FrozenDir
<1>6. Len(history) \in Nat /\ Len(history) <= Len(history)  BY <1>1 DEF StoreOk
<1>7. SessionOk'  BY <1>1, <1>2, <1>5, <1>6, SessionStays
<1>8. session # NoSession /\ s # dir.current => s # dir'.current  BY <1>3
<1>9. session # NoSession /\ Gone(s) => s \notin {dir'.current, dir'.backup}
  BY <1>3 DEF Gone
<1>10. MissOk'  BY <1>1, <1>2, <1>8, <1>9, MissStays
<1>11. history' \in Seq(Nat)  BY <1>1 DEF StoreOk
<1>12. QuietOk' /\ AnswerOk'
  BY <1>1, <1>2, <1>6, <1>9, <1>11, AnswerStays
<1>13. ReadOk'
  <2>1. \A k \in 1 .. Len(reader.got) :
            reader.pc = "current" => reader.got[k].inode # dir'.current
    <3>1. \A k \in 1 .. Len(reader.got) : reader.got[k].inode \in used
      BY <1>1 DEF ReadOk
    <3>2. \A k \in 1 .. Len(reader.got) : reader.got[k].inode # NoFile
      BY <1>1, <3>1, SmsLogAssumption DEF StoreOk
    <3>3. \A k \in 1 .. Len(reader.got) :
            reader.pc = "current" => reader.got[k].inode # dir.current
      BY <1>1 DEF ReadOk
    <3> QED  BY <3>2, <3>3
  <2>2. Moved' = Moved /\ Reading' = Reading  BY <1>2 DEF Moved, Reading
  <2>3. Len(reader.got) = 2 /\ reader.got[2].inode # s =>
            OnlyAfter(session, reader.got[2].inode, 0)'
    BY <1>1, <1>2 DEF ReadOk, OnlyAfter, After
  <2>4. \A k \in 1 .. Len(reader.got) :
            /\ reader.got[k].inode \in used
            /\ reader.got[k].size <= Len(data[reader.got[k].inode])
            /\ Moved /\ reader.got[k].inode = s => reader.got[k].size = Len(data[s])
    BY <1>1 DEF ReadOk
  <2>5. /\ reader \in [pc : {"idle", "backup", "current", "span", "done"},
                       attempt : {1, 2}, got : Seq([inode : Inodes, size : Nat])]
        /\ reader.pc \in {"idle", "backup", "done"} => reader.got = <<>>
        /\ reader.pc = "idle" => reader.attempt = 1
        /\ Reading => session.state \in {"starting", "running", "stopped"}
        /\ Len(reader.got) <= 2 /\ (reader.pc = "current" => Len(reader.got) <= 1)
        /\ Len(reader.got) = 2 => reader.got[1].inode # reader.got[2].inode
    BY <1>1 DEF ReadOk
  <2> QED  BY <1>2, <2>1, <2>2, <2>3, <2>4, <2>5 DEF ReadOk
<1> QED  BY <1>7, <1>10, <1>12, <1>13

\* A line arrives, or the rest of one is dropped.
LEMMA IdleStep ==
  ASSUME SmsInv, Receive \/ AppendFails
  PROVE  SmsInv'
<1>1. StoreOk /\ SinkOk /\ SessionOk /\ lines \in Nat  BY DEF SmsInv, StoreOk
<1>2. /\ Disturb /\ UNCHANGED <<dir, data, used, history, sessionVars, readerVars>>
      /\ lines' \in Nat /\ sink' \in {"idle", "remove", "open"}
  BY <1>1 DEF Receive, AppendFails, fileVars
<1>3. StoreOk'  BY <1>1, <1>2 DEF StoreOk
<1>4. SinkOk'  BY <1>1, <1>2 DEF SinkOk
<1>5. mark' = mark /\ session' = session  BY <1>2 DEF sessionVars
<1>6. mark # NoSession => BoundaryOk(mark)'
  <2>1. PICK b : b = mark  OBVIOUS
  <2>2. b # NoSession => BoundaryOk(b)'
    <3>1. b # NoSession => BoundaryOk(b)  BY <1>1, <2>1 DEF SessionOk
    <3> QED  BY <1>2, <3>1, BoundarySame
  <2> QED  BY <1>5, <2>1, <2>2
<1>7. session # NoSession => BoundaryOk(session)'
  <2>1. PICK b : b = session  OBVIOUS
  <2>2. b # NoSession => BoundaryOk(b)'
    <3>1. b # NoSession => BoundaryOk(b)  BY <1>1, <2>1 DEF SessionOk
    <3> QED  BY <1>2, <3>1, BoundarySame
  <2> QED  BY <1>5, <2>1, <2>2
<1>8. SessionOk' /\ ReadOk' /\ MissOk' /\ QuietOk' /\ AnswerOk'
  BY <1>2, <1>6, <1>7, NamesStep
<1> QED  BY <1>3, <1>4, <1>8 DEF SmsInv

\* The backup is removed, or the current file becomes the backup.
LEMMA RotateStep ==
  ASSUME SmsInv, RemoveBackup \/ Rename
  PROVE  SmsInv'
<1>1. StoreOk /\ SinkOk /\ SessionOk  BY DEF SmsInv
<1>2. /\ Disturb /\ UNCHANGED <<data, used, history, sessionVars, readerVars, lines>>
      /\ sink' \in {"rename", "open"}
  BY DEF RemoveBackup, Rename
<1>3. \/ dir' = [dir EXCEPT !.backup = NoFile] /\ sink' = "rename"
      \/ dir' = [backup |-> dir.current, current |-> NoFile] /\ sink' = "open"
  BY DEF RemoveBackup, Rename
<1>4. \/ /\ dir'.current = dir.current /\ dir'.backup = NoFile
      \/ /\ dir'.current = NoFile /\ dir'.backup = dir.current /\ sink' = "open"
  BY <1>1, <1>3 DEF StoreOk
<1>5. dir' = [current |-> dir'.current, backup |-> dir'.backup]
  BY <1>1, <1>3 DEF StoreOk
<1>6. StoreOk'
  BY <1>1, <1>2, <1>4, <1>5 DEF StoreOk
<1>7. SinkOk'  BY <1>2, <1>4 DEF SinkOk
<1>8. mark' = mark /\ session' = session  BY <1>2 DEF sessionVars
<1>9. ASSUME NEW b, BoundaryOk(b) PROVE BoundaryOk(b)'
  <2>1. CASE dir'.current = dir.current /\ dir'.backup = NoFile
    BY <1>1, <1>2, <1>9, <2>1, BoundaryRemove
  <2>2. CASE dir'.current = NoFile /\ dir'.backup = dir.current
    BY <1>1, <1>2, <1>9, <2>2, BoundaryRename
  <2> QED  BY <1>4, <2>1, <2>2
<1>10. mark # NoSession => BoundaryOk(mark)'
  <2>1. PICK b : b = mark  OBVIOUS
  <2>2. b # NoSession => BoundaryOk(b)'  BY <1>1, <1>9, <2>1 DEF SessionOk
  <2> QED  BY <1>8, <2>1, <2>2
<1>11. session # NoSession => BoundaryOk(session)'
  <2>1. PICK b : b = session  OBVIOUS
  <2>2. b # NoSession => BoundaryOk(b)'  BY <1>1, <1>9, <2>1 DEF SessionOk
  <2> QED  BY <1>8, <2>1, <2>2
<1>12. SessionOk' /\ ReadOk' /\ MissOk' /\ QuietOk' /\ AnswerOk'
  BY <1>2, <1>4, <1>10, <1>11, NamesStep
<1> QED  BY <1>6, <1>7, <1>12 DEF SmsInv
\* A unit of a line becomes visible.
LEMMA WriteStep ==
  ASSUME SmsInv, WriteBody \/ WriteNewline
  PROVE  SmsInv'
<1> DEFINE s == session.start.inode
<1>1. StoreOk /\ SinkOk /\ SessionOk /\ ReadOk /\ MissOk /\ QuietOk /\ AnswerOk
  BY DEF SmsInv
<1>2. PICK u \in Nat :
         /\ sink \in {"body", "newline"} /\ sink' \in {"newline", "idle"} /\ Emit(u)
  <2>1. lines \in Nat /\ NL \in Nat  BY <1>1 DEF StoreOk, NL
  <2> QED  BY <2>1 DEF WriteBody, WriteNewline
<1>3. /\ Disturb /\ UNCHANGED <<dir, used, lines, sessionVars, readerVars>>
      /\ Appends(u)
  BY <1>1, <1>2 DEF Emit, Appends, SinkOk
<1>4. session' = session /\ mark' = mark /\ reader' = reader /\ dir' = dir /\ used' = used
  BY <1>3 DEF sessionVars, readerVars
<1>5. StoreOk'
  <2>1. data' \in [Inodes -> Seq(Nat)] /\ history' \in Seq(Nat)  BY <1>1, <1>3, AppendFacts
  <2> QED  BY <1>1, <1>3, <2>1 DEF StoreOk
<1>6. SinkOk'  BY <1>1, <1>2, <1>4 DEF SinkOk
<1>7. mark # NoSession => BoundaryOk(mark)'
  <2>1. PICK b : b = mark  OBVIOUS
  <2>2. b # NoSession => BoundaryOk(b)  BY <1>1, <2>1 DEF SessionOk
  <2>3. b # NoSession => BoundaryOk(b)'  BY <1>1, <1>3, <2>2, BoundaryAppend
  <2> QED  BY <1>4, <2>1, <2>3
<1>8. session # NoSession => BoundaryOk(session)'
  <2>1. PICK b : b = session  OBVIOUS
  <2>2. b # NoSession => BoundaryOk(b)  BY <1>1, <2>1 DEF SessionOk
  <2>3. b # NoSession => BoundaryOk(b)'  BY <1>1, <1>3, <2>2, BoundaryAppend
  <2> QED  BY <1>4, <2>1, <2>3
<1>9. session.state = "stopped" => FrozenOk /\ BoundaryOk(session)
  BY <1>1 DEF SessionOk, NoSession
<1>10. session.state = "stopped" => FrozenOk'
  BY <1>1, <1>3, <1>4, <1>9, FrozenAppend
<1>11. /\ Len(history) \in Nat /\ Len(history') = Len(history) + 1 /\ history' \in Seq(Nat)
       /\ \A h \in 1 .. Len(history) : history'[h] = history[h]
  BY <1>1, <1>3, AppendFacts
<1>12. Len(history') \in Nat /\ Len(history) <= Len(history')  BY <1>11
<1>13. SessionOk'  BY <1>1, <1>4, <1>7, <1>8, <1>10, <1>11, <1>12, SessionStays
<1>14. MissOk'  BY <1>1, <1>4, MissStays DEF Gone
<1>15. QuietOk' /\ AnswerOk'
  BY <1>1, <1>3, <1>4, <1>11, <1>12, AnswerStays DEF Gone
<1>16. ReadOk'
  <2>1. Moved' = Moved /\ Reading' = Reading  BY <1>4 DEF Moved, Reading
  <2>2. Moved => s # dir.current  BY <1>9 DEF Moved, FrozenOk
  <2>3. ASSUME NEW k \in 1 .. Len(reader.got)
        PROVE  /\ reader.got[k].inode \in used
               /\ reader.got[k].size <= Len(data'[reader.got[k].inode])
               /\ reader.pc = "current" => reader.got[k].inode # dir.current
               /\ Moved /\ reader.got[k].inode = s => reader.got[k].size = Len(data'[s])
    <3> DEFINE i == reader.got[k].inode
               z == reader.got[k].size
    <3>1. reader.got[k] \in [inode : Inodes, size : Nat]
      <4> DEFINE R == [inode : Inodes, size : Nat]
      <4> HIDE DEF R
      <4>1. reader.got \in Seq(R)  BY <1>1 DEF ReadOk, R
      <4>2. reader.got[k] \in R  BY <4>1, ElementOfSeq
      <4> QED  BY <4>2 DEF R
    <3>2. i \in Inodes /\ z \in Nat  BY <3>1
    <3>3. /\ i \in used /\ z <= Len(data[i])
          /\ reader.pc = "current" => i # dir.current
          /\ Moved /\ i = s => z = Len(data[s])
      BY <1>1 DEF ReadOk
    <3>4. Len(data[i]) <= Len(data'[i]) /\ (i # dir.current => data'[i] = data[i])
      BY <1>1, <1>3, <3>2, AppendFacts
    <3>5. data[i] \in Seq(Nat) /\ data'[i] \in Seq(Nat)
      BY <1>1, <1>5, <3>2 DEF StoreOk
    <3>6. Len(data[i]) \in Nat /\ Len(data'[i]) \in Nat  BY <3>5
    <3>7. z <= Len(data'[i])
      <4>1. \A a, b, c \in Nat : a <= b /\ b <= c => a <= c  OBVIOUS
      <4> QED  BY <3>2, <3>3, <3>4, <3>6, <4>1
    <3> QED  BY <2>2, <3>3, <3>4, <3>7
  <2>4. Len(reader.got) = 2 /\ reader.got[2].inode # s =>
            OnlyAfter(session, reader.got[2].inode, 0)'
    <3>1. SUFFICES ASSUME Len(reader.got) = 2, reader.got[2].inode # s
                   PROVE  OnlyAfter(session, reader.got[2].inode, 0)'
      OBVIOUS
    <3>2. PICK b : b = session  OBVIOUS
    <3>3. PICK i : i = reader.got[2].inode  OBVIOUS
    <3>4. OnlyAfter(b, i, 0)  BY <1>1, <3>1, <3>2, <3>3 DEF ReadOk
    <3>5. i \in Inodes /\ 0 \in Nat
      <4>1. 2 \in 1 .. Len(reader.got)  BY <3>1
      <4> QED  BY <1>1, <3>3, <4>1 DEF ReadOk, StoreOk
    <3>6. reader.pc \in {"current", "span"}
      <4>1. Len(<<>>) # 2  OBVIOUS
      <4> QED  BY <1>1, <3>1, <4>1 DEF ReadOk
    <3>7. b # NoSession  BY <1>1, <3>2, <3>6 DEF ReadOk, Reading, NoSession
    <3>8. BoundaryOk(b)  BY <1>1, <3>2, <3>7 DEF SessionOk
    <3>9. b.from \in Nat /\ b.from <= Len(history)  BY <1>1, <3>8, BoundaryTypes
    <3>10. OnlyAfter(b, i, 0)'  BY <1>1, <1>3, <3>4, <3>5, <3>9, AfterAppend
    <3> QED  BY <1>4, <3>2, <3>3, <3>10
  <2>5. /\ reader \in [pc : {"idle", "backup", "current", "span", "done"},
                       attempt : {1, 2}, got : Seq([inode : Inodes, size : Nat])]
        /\ reader.pc \in {"idle", "backup", "done"} => reader.got = <<>>
        /\ reader.pc = "idle" => reader.attempt = 1
        /\ Reading => session.state \in {"starting", "running", "stopped"}
        /\ Len(reader.got) <= 2 /\ (reader.pc = "current" => Len(reader.got) <= 1)
        /\ Len(reader.got) = 2 => reader.got[1].inode # reader.got[2].inode
    BY <1>1 DEF ReadOk
  <2> QED  BY <1>4, <2>1, <2>3, <2>4, <2>5 DEF ReadOk
<1> QED  BY <1>5, <1>6, <1>13, <1>14, <1>15, <1>16 DEF SmsInv

\* The log is opened, or created where the rotation left none.
LEMMA OpenStep ==
  ASSUME ~ReuseInodes, SmsInv, OpenLog
  PROVE  SmsInv'
<1> DEFINE s == session.start.inode
<1>1. StoreOk /\ SinkOk /\ SessionOk /\ ReadOk /\ MissOk /\ QuietOk /\ AnswerOk
  BY DEF SmsInv
<1>2. /\ Disturb /\ UNCHANGED <<lines, history, sessionVars, readerVars>>
      /\ sink' = "body"
  BY DEF OpenLog
<1>3. session' = session /\ mark' = mark /\ reader' = reader
  BY <1>2 DEF sessionVars, readerVars
<1>4. CASE dir.current # NoFile
  <2>1. UNCHANGED <<dir, data, used>>  BY <1>4 DEF OpenLog, OpenOrCreate, fileVars
  <2>2. StoreOk'  BY <1>1, <1>2, <2>1 DEF StoreOk
  <2>3. SinkOk'  BY <1>2, <1>4, <2>1 DEF SinkOk
  <2>4. mark # NoSession => BoundaryOk(mark)'
    <3>1. PICK b : b = mark  OBVIOUS
    <3>2. b # NoSession => BoundaryOk(b)  BY <1>1, <3>1 DEF SessionOk
    <3>3. b # NoSession => BoundaryOk(b)'  BY <1>2, <2>1, <3>2, BoundarySame
    <3> QED  BY <1>3, <3>1, <3>3
  <2>5. session # NoSession => BoundaryOk(session)'
    <3>1. PICK b : b = session  OBVIOUS
    <3>2. b # NoSession => BoundaryOk(b)  BY <1>1, <3>1 DEF SessionOk
    <3>3. b # NoSession => BoundaryOk(b)'  BY <1>2, <2>1, <3>2, BoundarySame
    <3> QED  BY <1>3, <3>1, <3>3
  <2>6. SessionOk' /\ ReadOk' /\ MissOk' /\ QuietOk' /\ AnswerOk'
    BY <1>2, <2>1, <2>4, <2>5, NamesStep
  <2> QED  BY <2>2, <2>3, <2>6 DEF SmsInv
<1>5. CASE dir.current = NoFile
  <2>1. PICK i \in Inodes : Create(i)  BY <1>5 DEF OpenLog, OpenOrCreate
  <2>2. /\ i \notin used /\ dir' = [dir EXCEPT !.current = i]
        /\ data' = [data EXCEPT ![i] = <<>>] /\ used' = used \cup {i}
    BY <2>1 DEF Create
  <2>3. dir'.current = i /\ dir'.backup = dir.backup
        /\ dir' = [current |-> dir'.current, backup |-> dir'.backup]
    BY <1>1, <2>2 DEF StoreOk
  <2>4. i # NoFile  BY SmsLogAssumption
  <2>5. \A j \in used : j \in Inodes /\ j # i /\ data'[j] = data[j]
    BY <1>1, <2>2 DEF StoreOk
  <2>6. StoreOk'
    <3>1. data' \in [Inodes -> Seq(Nat)]  BY <1>1, <2>2 DEF StoreOk
    <3>2. dir'.current # dir'.backup  BY <1>1, <2>2, <2>3, <2>4 DEF StoreOk
    <3> QED  BY <1>1, <1>2, <2>2, <2>3, <3>1, <3>2 DEF StoreOk
  <2>7. SinkOk'  BY <1>2, <2>3, <2>4 DEF SinkOk
  <2>8. ASSUME NEW b, BoundaryOk(b) PROVE BoundaryOk(b)'
    BY <1>1, <1>2, <1>5, <2>2, <2>3, <2>8, BoundaryCreate
  <2>9. mark # NoSession => BoundaryOk(mark)'
    <3>1. PICK b : b = mark  OBVIOUS
    <3>2. b # NoSession => BoundaryOk(b)'  BY <1>1, <2>8, <3>1 DEF SessionOk
    <3> QED  BY <1>3, <3>1, <3>2
  <2>10. session # NoSession => BoundaryOk(session)'
    <3>1. PICK b : b = session  OBVIOUS
    <3>2. b # NoSession => BoundaryOk(b)'  BY <1>1, <2>8, <3>1 DEF SessionOk
    <3> QED  BY <1>3, <3>1, <3>2
  <2>11. session # NoSession => s \in used /\ s # i /\ s # NoFile
    <3>1. session # NoSession => BoundaryOk(session)  BY <1>1 DEF SessionOk
    <3>2. session # NoSession => s \in used /\ s # NoFile  BY <1>1, <3>1, BoundaryTypes
    <3> QED  BY <2>2, <3>2
  <2>12. session.state = "stopped" => FrozenOk /\ BoundaryOk(session)
    BY <1>1 DEF SessionOk, NoSession
  <2>13. session.state = "stopped" => FrozenOk'
    BY <1>1, <1>2, <1>3, <1>5, <2>2, <2>3, <2>12, FrozenCreate
  <2>14. /\ Len(history) \in Nat /\ Len(history) <= Len(history)
         /\ history' \in Seq(Nat) /\ history' = history
    BY <1>1, <1>2 DEF StoreOk
  <2>15. SessionOk'  BY <1>1, <1>3, <2>9, <2>10, <2>13, <2>14, SessionStays
  <2>16. MissOk'  BY <1>1, <1>3, <2>3, <2>11, MissStays DEF Gone
  <2>17. QuietOk' /\ AnswerOk'
    BY <1>1, <1>2, <1>3, <2>3, <2>11, <2>14, AnswerStays DEF Gone
  <2>18. ReadOk'
    <3>1. Moved' = Moved /\ Reading' = Reading  BY <1>3 DEF Moved, Reading
    <3>2. \A k \in 1 .. Len(reader.got) :
            /\ reader.got[k].inode \in used
            /\ reader.got[k].size <= Len(data[reader.got[k].inode])
            /\ Moved /\ reader.got[k].inode = s => reader.got[k].size = Len(data[s])
      BY <1>1 DEF ReadOk
    <3>3. \A k \in 1 .. Len(reader.got) :
            /\ reader.got[k].inode \in used'
            /\ reader.got[k].size <= Len(data'[reader.got[k].inode])
            /\ reader.got[k].inode # dir'.current
            /\ Moved /\ reader.got[k].inode = s => reader.got[k].size = Len(data'[s])
      BY <2>2, <2>3, <2>5, <3>2
    <3>4. Len(reader.got) = 2 /\ reader.got[2].inode # s =>
            OnlyAfter(session, reader.got[2].inode, 0)'
      <4>1. SUFFICES ASSUME Len(reader.got) = 2, reader.got[2].inode # s
                     PROVE  OnlyAfter(session, reader.got[2].inode, 0)'
        OBVIOUS
      <4>2. 2 \in 1 .. Len(reader.got)  BY <4>1
      <4>3. data'[reader.got[2].inode] = data[reader.got[2].inode]  BY <2>5, <3>2, <4>2
      <4>4. OnlyAfter(session, reader.got[2].inode, 0)  BY <1>1, <4>1 DEF ReadOk
      <4> QED  BY <1>3, <2>14, <4>3, <4>4 DEF OnlyAfter, After
    <3>5. /\ reader \in [pc : {"idle", "backup", "current", "span", "done"},
                         attempt : {1, 2}, got : Seq([inode : Inodes, size : Nat])]
          /\ reader.pc \in {"idle", "backup", "done"} => reader.got = <<>>
          /\ reader.pc = "idle" => reader.attempt = 1
          /\ Reading => session.state \in {"starting", "running", "stopped"}
          /\ Len(reader.got) <= 2 /\ (reader.pc = "current" => Len(reader.got) <= 1)
          /\ Len(reader.got) = 2 => reader.got[1].inode # reader.got[2].inode
      BY <1>1 DEF ReadOk
    <3> QED  BY <1>3, <3>1, <3>3, <3>4, <3>5 DEF ReadOk
  <2> QED  BY <2>6, <2>7, <2>15, <2>16, <2>17, <2>18 DEF SmsInv
<1> QED  BY <1>4, <1>5
-----------------------------------------------------------------------------
(* The invariant under the steps of the session.                            *)

\* The units kept before a mark are where the mark says.
LEMMA AnchorIs ==
  ASSUME NEW t \in Seq(Nat)
  PROVE  LET n == Len(t)
             x == SubSeq(t, IF n > AnchorUnits THEN n - AnchorUnits + 1 ELSE 1, n)
         IN  /\ n \in Nat /\ x \in Seq(Nat) /\ Len(x) <= n
             /\ SubSeq(t, n - Len(x) + 1, n) = x
<1> DEFINE n == Len(t)
           a == IF n > 2 THEN n - 2 ELSE 0
           m == IF n > AnchorUnits THEN n - AnchorUnits + 1 ELSE 1
           x == SubSeq(t, a + 1, n)
<1>1. n \in Nat  OBVIOUS
<1>2. a \in Nat /\ a <= n  BY <1>1
<1>3. m = a + 1  BY <1>1 DEF AnchorUnits
<1> HIDE DEF a
<1>4. x \in Seq(Nat) /\ Len(x) = n - a  BY <1>1, <1>2, Slice
<1>5. n - Len(x) + 1 = a + 1 /\ Len(x) <= n
  <2> HIDE DEF x, n
  <2> QED  BY <1>1, <1>2, <1>4
<1>6. SubSeq(t, n - Len(x) + 1, n) = x
  <2>1. SubSeq(t, a + 1, n) = x  OBVIOUS
  <2> HIDE DEF x
  <2> QED  BY <1>5, <2>1
<1>7. SubSeq(t, m, n) = x
  <2> HIDE DEF m
  <2> QED  BY <1>3
<1> HIDE DEF x, m
<1> QED  BY <1>1, <1>4, <1>5, <1>6, <1>7 DEF m

\* A mark at the end of a file that has been given out.
LEMMA MarkIs ==
  ASSUME StoreOk, NEW i \in used
  PROVE  CursorOk(Mark(i)) /\ Mark(i).inode = i /\ Mark(i).offset = Len(data[i])
<1>1. i \in Inodes /\ data[i] \in Seq(Nat)  BY DEF StoreOk
<1> DEFINE n == Len(data[i])
           x == SubSeq(data[i], IF n > AnchorUnits THEN n - AnchorUnits + 1 ELSE 1, n)
<1>2. /\ n \in Nat /\ x \in Seq(Nat) /\ Len(x) <= n
      /\ SubSeq(data[i], n - Len(x) + 1, n) = x
  BY <1>1, AnchorIs
<1>3. Mark(i) = [inode |-> i, offset |-> n, anchor |-> x]  BY DEF Mark
<1> HIDE DEF n, x
<1>4. Mark(i).inode = i /\ Mark(i).offset = n /\ Mark(i).anchor = x /\ Mark(i) \in Cursors
  BY <1>1, <1>2, <1>3 DEF Cursors
<1>5. n <= n  BY <1>2
<1>6. Valid(Mark(i), i)  BY <1>2, <1>4, <1>5 DEF Valid, n
<1> QED  BY <1>2, <1>4, <1>6 DEF CursorOk, n

\* No read is going on and no answer is being given.
LEMMA NoReadStep ==
  ASSUME SmsInv, UNCHANGED <<readerVars, quiet, history>>,
         reader.pc \in {"idle", "done"}, answer.kind \notin {"ok", "lost"}
  PROVE  ReadOk' /\ MissOk' /\ QuietOk' /\ AnswerOk'
<1>1. ReadOk /\ QuietOk /\ AnswerOk  BY DEF SmsInv
<1>2. reader' = reader /\ answer' = answer /\ asked' = asked /\ quiet' = quiet
      /\ history' = history
  BY DEF readerVars
<1>3. reader.got = <<>> /\ Len(reader.got) = 0
  <2>1. reader.got = <<>>  BY <1>1 DEF ReadOk
  <2> QED  BY <2>1
<1>4. ReadOk'
  <2>1. /\ reader \in [pc : {"idle", "backup", "current", "span", "done"},
                       attempt : {1, 2}, got : Seq([inode : Inodes, size : Nat])]
        /\ reader.pc = "idle" => reader.attempt = 1
    BY <1>1 DEF ReadOk
  <2>2. ~Reading'  BY <1>2 DEF Reading
  <2>3. \A k : ~(k \in 1 .. 0)  OBVIOUS
  <2>4. 0 <= 2 /\ 0 # 2  OBVIOUS
  <2> QED  BY <1>2, <1>3, <2>1, <2>2, <2>3, <2>4 DEF ReadOk
<1>5. MissOk'  BY <1>2 DEF MissOk, Reading
<1>6. QuietOk'  BY <1>1, <1>2 DEF QuietOk
<1>7. AnswerOk'
  BY <1>1, <1>2 DEF AnswerOk, QuietReadIsExact, OwnLinesOnly, LostMeansGone
<1> QED  BY <1>4, <1>5, <1>6, <1>7

\* beginSMSSession marks the end of the current file.
LEMMA MarkStep ==
  ASSUME ~ReuseInodes, SmsInv, MarkStart
  PROVE  SmsInv'
<1>1. StoreOk /\ SinkOk /\ SessionOk /\ ReadOk /\ AnswerOk  BY DEF SmsInv
<1>2. /\ session = NoSession /\ mark = NoSession /\ OpenOrCreate
      /\ mark' = [NoSession EXCEPT !.start = Mark(dir.current)', !.from = Len(history)]
      /\ sink' = sink /\ lines' = lines /\ history' = history /\ session' = session
      /\ UNCHANGED <<readerVars, quiet>>
  BY DEF MarkStart, sinkVars
<1>3. reader.pc \in {"idle", "done"} /\ answer.kind \notin {"ok", "lost"}
  BY <1>1, <1>2 DEF ReadOk, Reading, NoSession, AnswerOk
<1>4. ReadOk' /\ MissOk' /\ QuietOk' /\ AnswerOk'  BY <1>2, <1>3, NoReadStep
<1>5. /\ data' \in [Inodes -> Seq(Nat)] /\ used' \subseteq Inodes
      /\ dir'.current \in used' /\ dir'.current # NoFile /\ dir'.backup = dir.backup
      /\ dir' = [current |-> dir'.current, backup |-> dir'.backup]
      /\ dir'.backup \in used' \cup {NoFile} /\ dir'.current # dir'.backup
  <2>1. CASE dir.current # NoFile
    <3>1. UNCHANGED <<dir, data, used>>  BY <1>2, <2>1 DEF OpenOrCreate, fileVars
    <3> QED  BY <1>1, <2>1, <3>1 DEF StoreOk
  <2>2. CASE dir.current = NoFile
    <3>1. PICK i \in Inodes : Create(i)  BY <1>2, <2>2 DEF OpenOrCreate
    <3>2. /\ i \notin used /\ dir' = [dir EXCEPT !.current = i]
          /\ data' = [data EXCEPT ![i] = <<>>] /\ used' = used \cup {i}
      BY <3>1 DEF Create
    <3>3. dir'.current = i /\ dir'.backup = dir.backup
          /\ dir' = [current |-> dir'.current, backup |-> dir'.backup]
      BY <1>1, <3>2 DEF StoreOk
    <3>4. i # NoFile  BY SmsLogAssumption
    <3>5. dir.backup \in used \cup {NoFile}  BY <1>1 DEF StoreOk
    <3>6. i # dir.backup  BY <3>2, <3>4, <3>5
    <3>7. data' \in [Inodes -> Seq(Nat)] /\ used' \subseteq Inodes
      BY <1>1, <3>2 DEF StoreOk
    <3> QED  BY <3>2, <3>3, <3>4, <3>5, <3>6, <3>7
  <2> QED  BY <2>1, <2>2
<1>6. StoreOk'  BY <1>1, <1>2, <1>5 DEF StoreOk
<1>7. SinkOk'
  <2>1. dir.backup = NoFile => dir'.backup = NoFile  BY <1>5
  <2> QED  BY <1>1, <1>2, <1>5, <2>1 DEF SinkOk
<1> DEFINE c == dir'.current
           t == data'[c]
           n == Len(t)
           x == SubSeq(t, IF n > AnchorUnits THEN n - AnchorUnits + 1 ELSE 1, n)
           k == [inode |-> c, offset |-> n, anchor |-> x]
<1>8. t \in Seq(Nat) /\ c \in Inodes  BY <1>5
<1>9. /\ n \in Nat /\ x \in Seq(Nat) /\ Len(x) <= n
      /\ SubSeq(t, n - Len(x) + 1, n) = x
  BY <1>8, AnchorIs
<1>10. Mark(dir.current)' = k  BY DEF Mark
<1> HIDE DEF x
<1>11. k \in Cursors  BY <1>8, <1>9 DEF Cursors
<1>12. mark'.start = k /\ mark'.from = Len(history) /\ mark'.upto = 0
       /\ mark'.ended = FALSE /\ mark'.end = NoCursor /\ mark'.state = "none"
  BY <1>2, <1>10 DEF NoSession
<1>13. history \in Seq(Nat) /\ Len(history) \in Nat  BY <1>1 DEF StoreOk
<1>14. mark' \in SessionRecords
  <2>1. NoCursor \in Cursors  BY DEF NoCursor, Cursors
  <2> HIDE DEF k
  <2> QED  BY <1>2, <1>10, <1>11, <1>13, <2>1 DEF NoSession, SessionRecords
<1>15. BoundaryOk(mark)'
  <2>1. /\ k.inode = c /\ k.offset = n /\ k.anchor = x  OBVIOUS
  <2>2. n <= n  BY <1>9
  <2>4. CursorOk(mark.start)'
    BY <1>5, <1>9, <1>11, <1>12, <2>1, <2>2 DEF CursorOk, Valid
  <2>5. mark'.from \in 0 .. Len(history')  BY <1>2, <1>12, <1>13
  <2>6. Since(mark, Len(history))' = <<>>
    <3> DEFINE h == Len(history)
    <3>1. h <= h  BY <1>13
    <3>2. SubSeq(history, h + 1, h) = <<>>  BY <1>13, <3>1, Slice
    <3> QED  BY <1>2, <1>12, <3>2 DEF Since
  <2>7. Rest(mark)' = <<>>
    <3> HIDE DEF n
    <3>1. SubSeq(t, n + 1, n) = <<>>  BY <1>8, <1>9, <2>2, Slice DEF n
    <3> QED  BY <1>12, <2>1, <3>1 DEF Rest, n
  <2>8. mark'.start.inode # dir'.backup  BY <1>5, <1>12, <2>1
  <2>9. OnlyAfter(mark, mark.start.inode, mark.start.offset)'
    <3>1. \A p : ~(p \in n + 1 .. n)  BY <1>9
    <3> QED  BY <1>12, <2>1, <3>1 DEF OnlyAfter
  <2>10. dir'.current = mark'.start.inode  BY <1>12, <2>1
  <2> QED  BY <2>4, <2>5, <2>6, <2>7, <2>8, <2>9, <2>10 DEF BoundaryOk
<1>16. SessionOk'
  <2>1. 0 <= Len(history)  BY <1>13
  <2>2. session' = NoSession /\ session' \in SessionRecords /\ session'.upto <= Len(history')
    BY <1>1, <1>2 DEF SessionOk
  <2>3. session'.state = "none"  BY <2>2 DEF NoSession
  <2> QED  BY <1>2, <1>12, <1>14, <1>15, <2>1, <2>2, <2>3 DEF SessionOk
<1> QED  BY <1>4, <1>6, <1>7, <1>16 DEF SmsInv
\* A boundary is its start and the length of the history there.
LEMMA BoundaryAlike ==
  ASSUME NEW b, NEW d, BoundaryOk(b), d.start = b.start, d.from = b.from
  PROVE  BoundaryOk(d)
<1> QED  BY DEF BoundaryOk, Since, Rest, OnlyAfter, After

\* Publishing the boundary, committing it and clearing it.
LEMMA SessionStep ==
  ASSUME SmsInv, BeginSession \/ CommitSession \/ ClearSession
  PROVE  SmsInv'
<1>1. StoreOk /\ SinkOk /\ SessionOk /\ AnswerOk  BY DEF SmsInv
<1>2. /\ reader.pc = "idle" /\ UNCHANGED <<dir, data, used, sink, lines, history>>
      /\ UNCHANGED <<readerVars, quiet>>
  BY DEF BeginSession, CommitSession, ClearSession, smsMuFree, fileVars, sinkVars
<1>3. answer.kind \notin {"ok", "lost"}  BY <1>1, <1>2 DEF AnswerOk
<1>4. ReadOk' /\ MissOk' /\ QuietOk' /\ AnswerOk'  BY <1>2, <1>3, NoReadStep
<1>5. StoreOk' /\ SinkOk'  BY <1>1, <1>2 DEF StoreOk, SinkOk
<1>6. /\ NoSession \in SessionRecords /\ NoSession.upto = 0 /\ NoSession.state = "none"
      /\ 0 <= Len(history)
  <2>1. NoCursor \in Cursors  BY DEF NoCursor, Cursors
  <2>2. NoSession \in SessionRecords  BY <2>1 DEF NoSession, SessionRecords
  <2>3. Len(history) \in Nat  BY <1>1 DEF StoreOk
  <2> QED  BY <2>2, <2>3 DEF NoSession
<1>7. ASSUME NEW b, NEW d, BoundaryOk(b), d.start = b.start, d.from = b.from
      PROVE  BoundaryOk(d)'
  <2>1. BoundaryOk(d)  BY <1>7, BoundaryAlike
  <2> QED  BY <1>2, <2>1, BoundarySame
<1>8. CASE BeginSession
  <2>1. mark # NoSession /\ session' = [mark EXCEPT !.state = "starting"]
        /\ mark' = NoSession
    BY <1>8 DEF BeginSession
  <2>2. BoundaryOk(mark) /\ ~mark.ended /\ mark.end = NoCursor /\ mark \in SessionRecords
        /\ mark.upto <= Len(history)
    BY <1>1, <2>1 DEF SessionOk
  <2>3. /\ session' \in SessionRecords /\ session'.state = "starting"
        /\ session'.start = mark.start /\ session'.from = mark.from
        /\ session'.ended = mark.ended /\ session'.end = mark.end
        /\ session'.upto = mark.upto
    BY <2>1, <2>2 DEF SessionRecords
  <2>4. BoundaryOk(session)'
    <3>1. PICK b : b = mark  OBVIOUS
    <3>2. PICK d : d = session'  OBVIOUS
    <3>3. BoundaryOk(d)'  BY <1>7, <2>2, <2>3, <3>1, <3>2
    <3> QED  BY <3>2, <3>3 DEF BoundaryOk, Since, Rest, OnlyAfter, After
  <2>5. SessionOk'  BY <1>2, <1>6, <2>1, <2>2, <2>3, <2>4 DEF SessionOk
  <2> QED  BY <1>4, <1>5, <2>5 DEF SmsInv
<1>9. CASE CommitSession
  <2>1. session.state = "starting" /\ session' = [session EXCEPT !.state = "running"]
        /\ mark' = mark
    BY <1>9 DEF CommitSession
  <2>2. session # NoSession  BY <2>1 DEF NoSession
  <2>3. /\ BoundaryOk(session) /\ ~session.ended /\ session.end = NoCursor
        /\ session \in SessionRecords /\ session.upto <= Len(history) /\ mark = NoSession
    BY <1>1, <2>1, <2>2 DEF SessionOk
  <2>4. /\ session' \in SessionRecords /\ session'.state = "running"
        /\ session'.start = session.start /\ session'.from = session.from
        /\ session'.ended = session.ended /\ session'.end = session.end
        /\ session'.upto = session.upto
    BY <2>1, <2>3 DEF SessionRecords
  <2>5. BoundaryOk(session)'
    <3>1. PICK b : b = session  OBVIOUS
    <3>2. PICK d : d = session'  OBVIOUS
    <3>3. BoundaryOk(d)'  BY <1>7, <2>3, <2>4, <3>1, <3>2
    <3> QED  BY <3>2, <3>3 DEF BoundaryOk, Since, Rest, OnlyAfter, After
  <2>6. SessionOk'  BY <1>2, <1>6, <2>1, <2>3, <2>4, <2>5 DEF SessionOk
  <2> QED  BY <1>4, <1>5, <2>6 DEF SmsInv
<1>10. CASE ClearSession
  <2>1. session' = NoSession /\ mark' = mark /\ session # NoSession
    BY <1>10 DEF ClearSession
  <2>2. mark = NoSession  BY <1>1, <2>1 DEF SessionOk
  <2>3. SessionOk'  BY <1>2, <1>6, <2>1, <2>2 DEF SessionOk
  <2> QED  BY <1>4, <1>5, <2>3 DEF SmsInv
<1> QED  BY <1>8, <1>9, <1>10

\* Stop freezes the window at the end of the current file.
LEMMA EndStep ==
  ASSUME SmsInv, EndSession
  PROVE  SmsInv'
<1> DEFINE s == session.start.inode
           c == dir.current
<1>1. StoreOk /\ SinkOk /\ SessionOk /\ ReadOk /\ AnswerOk  BY DEF SmsInv
<1>2. /\ reader.pc = "idle" /\ UNCHANGED <<dir, data, used, sink, lines, history>>
      /\ UNCHANGED <<readerVars, quiet, mark>>
  BY DEF EndSession, smsMuFree, fileVars, sinkVars
<1>3. answer.kind \notin {"ok", "lost"}  BY <1>1, <1>2 DEF AnswerOk
<1>4. ReadOk' /\ MissOk' /\ QuietOk' /\ AnswerOk'  BY <1>2, <1>3, NoReadStep
<1>5. StoreOk' /\ SinkOk'  BY <1>1, <1>2 DEF StoreOk, SinkOk
<1>6. session.state \in {"running", "boundary_lost"} /\ session # NoSession
  BY DEF EndSession, NoSession
<1>7. /\ BoundaryOk(session) /\ session \in SessionRecords /\ mark = NoSession
      /\ mark \in SessionRecords /\ mark.upto <= Len(history)
  BY <1>1, <1>6 DEF SessionOk
<1>8. history \in Seq(Nat) /\ Len(history) \in Nat /\ Len(history) <= Len(history)
  BY <1>1 DEF StoreOk
<1>9. session'.start = session.start /\ session'.from = session.from
      /\ session'.upto = Len(history)
  BY <1>7 DEF EndSession, SessionRecords
<1>10. BoundaryOk(session)'
  <2>1. PICK d : d = session'  OBVIOUS
  <2>2. BoundaryOk(d)
    <3>1. PICK b : b = session  OBVIOUS
    <3> QED  BY <1>7, <1>9, <2>1, <3>1, BoundaryAlike
  <2>3. BoundaryOk(d)'  BY <1>2, <2>2, BoundarySame
  <2> QED  BY <2>1, <2>3 DEF BoundaryOk, Since, Rest, OnlyAfter, After
<1>11. CASE session.state = "boundary_lost" \/ c = NoFile
  <2>1. session'.state = "boundary_lost" /\ session' \in SessionRecords
    <3>1. \/ session' = [session EXCEPT !.ended = TRUE, !.upto = Len(history)]
             /\ session.state = "boundary_lost"
          \/ session' = [[session EXCEPT !.ended = TRUE, !.upto = Len(history)]
                           EXCEPT !.state = "boundary_lost"]
      BY <1>11 DEF EndSession
    <3> QED  BY <1>7, <1>8, <3>1 DEF SessionRecords
  <2>2. session' # NoSession  BY <2>1 DEF NoSession
  <2>3. SessionOk'  BY <1>2, <1>7, <1>8, <1>9, <1>10, <2>1, <2>2 DEF SessionOk
  <2> QED  BY <1>4, <1>5, <2>3 DEF SmsInv
<1>12. CASE session.state = "running" /\ c # NoFile
  <2>1. session' = [[session EXCEPT !.ended = TRUE, !.upto = Len(history)]
                      EXCEPT !.state = "stopped", !.end = Mark(c)]
    BY <1>12 DEF EndSession
  <2>2. c \in used /\ c \in Inodes /\ data[c] \in Seq(Nat)  BY <1>1, <1>12 DEF StoreOk
  <2>3. CursorOk(Mark(c)) /\ Mark(c).inode = c /\ Mark(c).offset = Len(data[c])
    BY <1>1, <2>2, MarkIs
  <2>4. Mark(c) \in Cursors  BY <2>3 DEF CursorOk
  <2>5. /\ session' \in SessionRecords /\ session'.state = "stopped"
        /\ session'.ended = TRUE /\ session'.end = Mark(c)
    BY <1>7, <1>8, <2>1, <2>4 DEF SessionRecords
  <2>6. session'.end # NoCursor  BY <1>12, <2>3, <2>5 DEF NoCursor
  <2>7. CursorOk(session.end)'
    <3>1. PICK k : k = Mark(c)  OBVIOUS
    <3>2. CursorOk(k)  BY <2>3, <3>1
    <3>3. CursorOk(k)'  BY <1>2, <3>2 DEF CursorOk, Valid
    <3> QED  BY <2>5, <3>1, <3>3 DEF CursorOk, Valid
  <2>8. s \in used /\ s \in Inodes /\ data[s] \in Seq(Nat) /\ session.start.offset \in Nat
        /\ session.start.offset <= Len(data[s]) /\ session.from \in Nat
        /\ session.from <= Len(history)
    BY <1>1, <1>7, BoundaryTypes
  <2>9. session'.upto \in session'.from .. Len(history')
    BY <1>2, <1>8, <1>9, <2>8
  <2>10. /\ Since(session, session.upto)' = Since(session, Len(history))
         /\ Rest(session)' = Rest(session)
    BY <1>2, <1>9 DEF Since, Rest
  <2>11. c = s => Since(session, Len(history)) = Rest(session)
    BY <1>7 DEF BoundaryOk
  <2>12. c = s => Since(session, Len(history)) =
                    SubSeq(data[s], session.start.offset + 1, Len(data[c]))
    BY <2>11 DEF Rest
  <2>13. Opened' = {}
    <3>1. reader' = reader /\ reader.got = <<>>  BY <1>1, <1>2 DEF ReadOk, readerVars
    <3>2. DOMAIN <<>> = {}  OBVIOUS
    <3> QED  BY <3>1, <3>2 DEF Opened
  <2>14. c # s /\ s = dir.backup =>
           Since(session, Len(history)) =
              Rest(session) \o SubSeq(data[c], 1, Len(data[c]))
    <3>1. SubSeq(data[c], 1, Len(data[c])) = data[c]  BY <2>2, WholeSlice
    <3>2. Now = data[c]  BY <1>12 DEF Now
    <3>3. s = dir.backup => Since(session, Len(history)) = Rest(session) \o Now
      BY <1>7 DEF BoundaryOk
    <3> QED  BY <3>1, <3>2, <3>3
  <2>15. FrozenOk'
    <3>1. session'.end.inode = session'.start.inode =>
            /\ session'.start.offset <= session'.end.offset
            /\ Since(session, session.upto)' =
                  SubSeq(data'[session'.start.inode], session'.start.offset + 1,
                         session'.end.offset)
      BY <1>2, <1>9, <2>3, <2>5, <2>8, <2>10, <2>12
    <3>2. session'.end.inode # session'.start.inode =>
            /\ session'.start.inode # dir'.current
            /\ session'.start.inode = dir'.backup => session'.end.inode = dir'.current
            /\ session'.start.inode \in {dir'.backup} \cup Opened' =>
                  Since(session, session.upto)' =
                     Rest(session)'
                       \o SubSeq(data'[session'.end.inode], 1, session'.end.offset)
      BY <1>2, <1>9, <2>3, <2>5, <2>10, <2>13, <2>14
    <3> QED  BY <2>7, <2>9, <3>1, <3>2 DEF FrozenOk
  <2>16. session' # NoSession  BY <2>5 DEF NoSession
  <2>17. SessionOk'
    BY <1>2, <1>7, <1>8, <1>9, <1>10, <2>5, <2>6, <2>15, <2>16 DEF SessionOk
  <2> QED  BY <1>4, <1>5, <2>17 DEF SmsInv
<1> QED  BY <1>6, <1>11, <1>12
-----------------------------------------------------------------------------
(* The invariant under the steps of a read.                                 *)

\* What a read leaves alone.
LEMMA ReadFrame ==
  ASSUME SmsInv, UNCHANGED <<fileVars, sinkVars, sessionVars>>,
         Opened' \subseteq {dir.current, dir.backup} \cup Opened
  PROVE  StoreOk' /\ SinkOk' /\ SessionOk'
<1>1. StoreOk /\ SinkOk /\ SessionOk  BY DEF SmsInv
<1>2. UNCHANGED <<dir, data, used, sink, lines, history, mark, session>>
  BY DEF fileVars, sinkVars, sessionVars
<1>3. StoreOk' /\ SinkOk'  BY <1>1, <1>2 DEF StoreOk, SinkOk
<1>4. mark # NoSession => BoundaryOk(mark)'
  <2>1. PICK b : b = mark  OBVIOUS
  <2>2. b # NoSession => BoundaryOk(b)  BY <1>1, <2>1 DEF SessionOk
  <2>3. b # NoSession => BoundaryOk(b)'  BY <1>2, <2>2, BoundarySame
  <2> QED  BY <1>2, <2>1, <2>3
<1>5. session # NoSession => BoundaryOk(session)'
  <2>1. PICK b : b = session  OBVIOUS
  <2>2. b # NoSession => BoundaryOk(b)  BY <1>1, <2>1 DEF SessionOk
  <2>3. b # NoSession => BoundaryOk(b)'  BY <1>2, <2>2, BoundarySame
  <2> QED  BY <1>2, <2>1, <2>3
<1>6. session.state = "stopped" => FrozenOk'
  <2>1. SUFFICES ASSUME session.state = "stopped" PROVE FrozenOk'  OBVIOUS
  <2>2. FrozenOk  BY <1>1, <2>1 DEF SessionOk
  <2>3. CursorOk(session.end)'  BY <1>2, <2>2 DEF FrozenOk, CursorOk, Valid
  <2>4. /\ Since(session, session.upto)' = Since(session, session.upto)
        /\ Rest(session)' = Rest(session)
    BY <1>2 DEF Since, Rest
  <2>5. session.end.inode # session.start.inode
          /\ session.start.inode \in {dir.backup} \cup Opened' =>
            Since(session, session.upto) =
               Rest(session) \o SubSeq(data[session.end.inode], 1, session.end.offset)
    BY <2>2 DEF FrozenOk
  <2>6. session.end.inode = session.start.inode =>
          /\ session.start.offset <= session.end.offset
          /\ Since(session, session.upto) =
                SubSeq(data[session.start.inode], session.start.offset + 1,
                       session.end.offset)
    BY <2>2 DEF FrozenOk
  <2>7. session.end.inode # session.start.inode =>
          /\ session.start.inode # dir.current
          /\ session.start.inode = dir.backup => session.end.inode = dir.current
    BY <2>2 DEF FrozenOk
  <2>8. session.upto \in session.from .. Len(history)  BY <2>2 DEF FrozenOk
  <2> QED  BY <1>2, <2>3, <2>4, <2>5, <2>6, <2>7, <2>8 DEF FrozenOk
<1>7. Len(history) \in Nat /\ Len(history) <= Len(history)  BY <1>1 DEF StoreOk
<1>8. SessionOk'  BY <1>1, <1>2, <1>4, <1>5, <1>6, <1>7, SessionStays
<1> QED  BY <1>3, <1>8

\* The call and the return.
LEMMA CallStep ==
  ASSUME SmsInv, ReadCall \/ ReadReturn
  PROVE  SmsInv'
<1>1. StoreOk /\ SessionOk /\ ReadOk /\ QuietOk /\ AnswerOk  BY DEF SmsInv
<1>2. UNCHANGED <<fileVars, sinkVars, sessionVars>>
  BY DEF ReadCall, ReadReturn
<1>3. dir' = dir /\ data' = data /\ used' = used /\ history' = history /\ session' = session
  BY <1>2 DEF fileVars, sinkVars, sessionVars
<1>4. /\ reader.got = <<>> /\ reader.pc \in {"idle", "done"}
      /\ reader \in [pc : {"idle", "backup", "current", "span", "done"},
                     attempt : {1, 2}, got : Seq([inode : Inodes, size : Nat])]
      /\ reader.pc = "idle" => reader.attempt = 1
  BY <1>1 DEF ReadCall, ReadReturn, ReadOk
<1>5. /\ reader'.got = <<>> /\ reader'.pc \in {"idle", "backup", "done"}
      /\ reader' \in [pc : {"idle", "backup", "current", "span", "done"},
                      attempt : {1, 2}, got : Seq([inode : Inodes, size : Nat])]
      /\ reader'.attempt = 1
      /\ reader'.pc = "backup" => session.state \in {"starting", "running", "stopped"}
  <2>1. CASE ReadCall
    <3>1. session.state \in {"none", "starting", "running", "stopped", "boundary_lost"}
      BY <1>1 DEF SessionOk, SessionRecords
    <3>2. \/ /\ reader' = [reader EXCEPT !.pc = "done"]
          \/ /\ reader' = [reader EXCEPT !.pc = "backup"]
             /\ session.state \notin {"none", "boundary_lost"}
      BY <2>1 DEF ReadCall
    <3>3. reader.pc = "idle"  BY <2>1 DEF ReadCall
    <3> QED  BY <1>4, <3>1, <3>2, <3>3
  <2>2. CASE ReadReturn
    <3>1. reader' = [pc |-> "idle", attempt |-> 1, got |-> <<>>]
      BY <2>2 DEF ReadReturn, IdleReader
    <3>2. <<>> \in Seq([inode : Inodes, size : Nat])  OBVIOUS
    <3> QED  BY <3>1, <3>2
  <2> QED  BY <2>1, <2>2
<1>6. Opened' = {}
  <2>1. DOMAIN <<>> = {}  OBVIOUS
  <2> QED  BY <1>5, <2>1 DEF Opened
<1>7. StoreOk' /\ SinkOk' /\ SessionOk'  BY <1>2, <1>6, ReadFrame
<1>8. ReadOk'
  <2>1. Len(<<>>) = 0 /\ (\A k : ~(k \in 1 .. 0)) /\ 0 <= 2 /\ 0 # 2  OBVIOUS
  <2>2. Reading' => session'.state \in {"starting", "running", "stopped"}
    BY <1>3, <1>5 DEF Reading
  <2> QED  BY <1>5, <2>1, <2>2 DEF ReadOk
<1>9. MissOk'
  <2>1. 1 # 2  OBVIOUS
  <2> QED  BY <1>5, <2>1 DEF MissOk
<1>10. QuietOk'
  <2>1. Len(history) \in Nat  BY <1>1 DEF StoreOk
  <2>2. asked' \in {0, Len(history)} /\ quiet' \in BOOLEAN
    BY <1>1 DEF ReadCall, ReadReturn, QuietOk
  <2>3. asked' \in 0 .. Len(history')  BY <1>3, <2>1, <2>2
  <2> QED  BY <1>5, <2>2, <2>3 DEF QuietOk
<1>11. answer'.kind \in {"none", "empty"} /\ (reader'.pc # "done" => answer'.kind = "none")
  <2>1. CASE ReadCall
    <3>1. answer.kind = "none"  BY <1>1, <2>1 DEF ReadCall, AnswerOk
    <3> QED  BY <1>4, <2>1, <3>1 DEF ReadCall, NoAnswer
  <2>2. CASE ReadReturn  BY <2>2 DEF ReadReturn, NoAnswer
  <2> QED  BY <2>1, <2>2
<1>12. AnswerOk'
  BY <1>11 DEF AnswerOk, QuietReadIsExact, OwnLinesOnly, LostMeansGone
<1> QED  BY <1>7, <1>8, <1>9, <1>10, <1>12 DEF SmsInv
\* Nothing has been answered while the files are being opened.
LEMMA StillReading ==
  ASSUME AnswerOk, reader.pc # "done", answer' = answer
  PROVE  AnswerOk'
<1> QED  BY DEF AnswerOk, QuietReadIsExact, OwnLinesOnly, LostMeansGone

\* The record of an open file.
LEMMA EntryIs ==
  ASSUME StoreOk, NEW i \in used
  PROVE  /\ i \in Inodes /\ i # NoFile /\ data[i] \in Seq(Nat)
         /\ [inode |-> i, size |-> Len(data[i])] \in [inode : Inodes, size : Nat]
         /\ Entry(i) = <<[inode |-> i, size |-> Len(data[i])]>>
<1>1. i \in Inodes /\ data[i] \in Seq(Nat)  BY DEF StoreOk
<1>2. i # NoFile  BY <1>1, SmsLogAssumption
<1>3. Len(data[i]) \in Nat  BY <1>1
<1> QED  BY <1>1, <1>2, <1>3 DEF Entry

\* The backup is opened first.
LEMMA BackupStep ==
  ASSUME SmsInv, OpenBackup
  PROVE  SmsInv'
<1> DEFINE s == session.start.inode
           b == dir.backup
           r == [inode |-> b, size |-> Len(data[b])]
           R == [inode : Inodes, size : Nat]
<1>1. StoreOk /\ SessionOk /\ ReadOk /\ MissOk /\ QuietOk /\ AnswerOk  BY DEF SmsInv
<1>2. UNCHANGED <<fileVars, sinkVars, sessionVars, answer, asked, quiet>>
      /\ reader.pc = "backup"
  BY DEF OpenBackup
<1>3. dir' = dir /\ data' = data /\ used' = used /\ history' = history /\ session' = session
  BY <1>2 DEF fileVars, sinkVars, sessionVars
<1>4. /\ reader.got = <<>> /\ reader.attempt \in {1, 2}
      /\ session.state \in {"starting", "running", "stopped"}
      /\ reader = [pc |-> reader.pc, attempt |-> reader.attempt, got |-> reader.got]
  BY <1>1, <1>2 DEF ReadOk, Reading
<1>5. /\ reader' = [reader EXCEPT !.pc = "current", !.got = OpenFile(b)]  BY DEF OpenBackup
<1>6. reader'.pc = "current" /\ reader'.attempt = reader.attempt /\ reader'.got = OpenFile(b)
      /\ reader' = [pc |-> "current", attempt |-> reader.attempt, got |-> OpenFile(b)]
  BY <1>4, <1>5
<1>7. OpenFile(b) = Entry(b)
  <2>1. CASE b = NoFile  BY <1>4, <2>1 DEF OpenFile, Entry
  <2>2. CASE b # NoFile
    <3>1. OpenFile(b) = <<>> \o <<r>> /\ Entry(b) = <<r>>  BY <1>4, <2>2 DEF OpenFile, Entry
    <3> HIDE DEF r
    <3> QED  BY <3>1, Pair
  <2> QED  BY <2>1, <2>2
<1>8. \/ b = NoFile /\ reader'.got = <<>>
      \/ b \in used /\ b # NoFile /\ reader'.got = <<r>>
  <2>1. b \in used \cup {NoFile}  BY <1>1 DEF StoreOk
  <2> QED  BY <1>6, <1>7, <2>1 DEF Entry
<1>9. b \in used => r \in R /\ b # dir.current
  <2>1. b \in used => r \in R /\ b # NoFile  BY <1>1, EntryIs
  <2> QED  BY <1>1, <2>1 DEF StoreOk
<1>10. /\ reader'.got \in Seq(R) /\ Len(reader'.got) \in {0, 1}
       /\ \A k \in 1 .. Len(reader'.got) : reader'.got[k] = r /\ b \in used
       /\ Opened' = {reader'.got[k].inode : k \in 1 .. Len(reader'.got)}
       /\ Opened' = IF b = NoFile THEN {} ELSE {b}
  <2>1. CASE b = NoFile /\ reader'.got = <<>>
    <3>1. <<>> \in Seq(R) /\ Len(<<>>) = 0 /\ (\A k : ~(k \in 1 .. 0)) /\ DOMAIN <<>> = {}
      OBVIOUS
    <3>2. Opened' = {}  BY <2>1, <3>1 DEF Opened
    <3> QED  BY <2>1, <3>1, <3>2
  <2>2. CASE b \in used /\ b # NoFile /\ reader'.got = <<r>>
    <3>1. r \in R /\ r.inode = b  BY <1>9, <2>2
    <3> HIDE DEF r, R
    <3>2. <<r>> \in Seq(R) /\ Len(<<r>>) = 1 /\ <<r>>[1] = r /\ DOMAIN <<r>> = 1 .. 1
      BY <3>1
    <3>3. \A k : k \in 1 .. 1 <=> k = 1  OBVIOUS
    <3>4. Opened' = {b}  BY <2>2, <3>1, <3>2, <3>3 DEF Opened
    <3>5. {reader'.got[k].inode : k \in 1 .. Len(reader'.got)} = {b}
      BY <2>2, <3>1, <3>2, <3>3
    <3> QED  BY <2>2, <3>2, <3>3, <3>4, <3>5
  <2> QED  BY <1>8, <2>1, <2>2
<1>11. StoreOk' /\ SinkOk' /\ SessionOk'  BY <1>2, <1>10, ReadFrame
<1>12. ReadOk'
  <2>1. ASSUME NEW k \in 1 .. Len(reader'.got)
        PROVE  /\ reader'.got[k].inode \in used'
               /\ reader'.got[k].size <= Len(data'[reader'.got[k].inode])
               /\ reader'.got[k].inode # dir'.current
               /\ Moved' /\ reader'.got[k].inode = session'.start.inode =>
                     reader'.got[k].size = Len(data'[session'.start.inode])
    <3>1. reader'.got[k] = r /\ b \in used  BY <1>10
    <3>2. r.inode = b /\ r.size = Len(data[b])  OBVIOUS
    <3>3. Len(data[b]) \in Nat  BY <1>1, <3>1, EntryIs
    <3>4. Len(data[b]) <= Len(data[b])  BY <3>3
    <3> HIDE DEF r
    <3> QED  BY <1>3, <1>9, <3>1, <3>2, <3>4
  <2>2. Len(reader'.got) <= 2 /\ Len(reader'.got) <= 1 /\ Len(reader'.got) # 2
    <3>1. \A n \in {0, 1} : n <= 2 /\ n <= 1 /\ n # 2  OBVIOUS
    <3> QED  BY <1>10, <3>1
  <2>3. reader' \in [pc : {"idle", "backup", "current", "span", "done"},
                     attempt : {1, 2}, got : Seq([inode : Inodes, size : Nat])]
    BY <1>4, <1>6, <1>10
  <2> QED  BY <1>3, <1>4, <1>6, <2>1, <2>2, <2>3 DEF ReadOk
<1>13. MissOk'
  <2>1. reader.attempt = 2 => s # dir.current  BY <1>1, <1>2 DEF MissOk, Reading
  <2>2. s # NoFile
    <3>1. session # NoSession  BY <1>4 DEF NoSession
    <3>2. BoundaryOk(session)  BY <1>1, <3>1 DEF SessionOk
    <3> QED  BY <1>1, <3>2, BoundaryTypes
  <2>3. s \notin Opened' => s # b  BY <1>10, <2>2
  <2> QED  BY <1>3, <1>6, <2>1, <2>3 DEF MissOk, Gone
<1>14. QuietOk'
  <2>1. reader'.got = Entry(b)  BY <1>6, <1>7
  <2>2. Entry(dir.backup)' = Entry(b)  BY <1>3 DEF Entry
  <2> QED  BY <1>1, <1>2, <1>3, <1>6, <2>1, <2>2 DEF QuietOk
<1>15. AnswerOk'  BY <1>1, <1>2, StillReading
<1> QED  BY <1>11, <1>12, <1>13, <1>14, <1>15 DEF SmsInv
\* One more open file.
LEMMA GotGrown ==
  ASSUME NEW R, NEW t \in Seq(R), NEW r \in R
  PROVE  /\ t \o <<r>> \in Seq(R) /\ Len(t \o <<r>>) = Len(t) + 1
         /\ \A i \in 1 .. Len(t) : (t \o <<r>>)[i] = t[i]
         /\ (t \o <<r>>)[Len(t) + 1] = r
<1>1. <<r>> \in Seq(R) /\ Len(<<r>>) = 1 /\ <<r>>[1] = r /\ Len(t) \in Nat
  OBVIOUS
<1> DEFINE y == <<r>>
<1> HIDE DEF y
<1>2. y \in Seq(R) /\ Len(y) = 1 /\ y[1] = r  BY <1>1 DEF y
<1>3. /\ t \o y \in Seq(R) /\ Len(t \o y) = Len(t) + Len(y)
      /\ \A i \in 1 .. Len(t) + Len(y) :
            (t \o y)[i] = IF i <= Len(t) THEN t[i] ELSE y[i - Len(t)]
  BY <1>2, ConcatProperties
<1>4. \A i \in 1 .. Len(t) : i \in 1 .. Len(t) + Len(y) /\ i <= Len(t)  BY <1>1, <1>2
<1>5. /\ Len(t) + 1 \in 1 .. Len(t) + Len(y) /\ ~(Len(t) + 1 <= Len(t))
      /\ (Len(t) + 1) - Len(t) = 1
  BY <1>1, <1>2
<1>6. (t \o y)[Len(t) + 1] = r  BY <1>2, <1>3, <1>5
<1>7. \A i \in 1 .. Len(t) : (t \o y)[i] = t[i]  BY <1>3, <1>4
<1>8. Len(t \o y) = Len(t) + 1  BY <1>2, <1>3
<1> QED  BY <1>3, <1>6, <1>7, <1>8 DEF y

\* Then the current file.
LEMMA CurrentStep ==
  ASSUME SmsInv, OpenCurrent
  PROVE  SmsInv'
<1> DEFINE s == session.start.inode
           c == dir.current
           n == Len(reader.got)
           r == [inode |-> c, size |-> Len(data[c])]
           R == [inode : Inodes, size : Nat]
<1>1. StoreOk /\ SessionOk /\ ReadOk /\ MissOk /\ QuietOk /\ AnswerOk  BY DEF SmsInv
<1>2. UNCHANGED <<fileVars, sinkVars, sessionVars, answer, asked, quiet>>
      /\ reader.pc = "current"
  BY DEF OpenCurrent
<1>3. dir' = dir /\ data' = data /\ used' = used /\ history' = history /\ session' = session
  BY <1>2 DEF fileVars, sinkVars, sessionVars
<1>4. /\ reader.got \in Seq(R) /\ n <= 1 /\ n \in Nat /\ reader.attempt \in {1, 2}
      /\ session.state \in {"starting", "running", "stopped"}
      /\ reader = [pc |-> reader.pc, attempt |-> reader.attempt, got |-> reader.got]
  BY <1>1, <1>2 DEF ReadOk, Reading
<1>5. n = 0 \/ n = 1
  <2> HIDE DEF n
  <2> QED  BY <1>4
<1>6. reader'.pc = "span" /\ reader'.attempt = reader.attempt /\ reader'.got = OpenFile(c)
      /\ reader' = [pc |-> "span", attempt |-> reader.attempt, got |-> OpenFile(c)]
  BY <1>4 DEF OpenCurrent
<1>7. \/ c = NoFile /\ reader'.got = reader.got
      \/ /\ c \in used /\ c # NoFile /\ r \in R
         /\ reader'.got = reader.got \o <<r>>
         /\ reader'.got \in Seq(R) /\ Len(reader'.got) = n + 1
         /\ \A k \in 1 .. n : reader'.got[k] = reader.got[k]
         /\ reader'.got[n + 1] = r
  <2>1. c \in used \cup {NoFile}  BY <1>1 DEF StoreOk
  <2>2. CASE c = NoFile  BY <1>6, <2>2 DEF OpenFile
  <2>3. CASE c # NoFile
    <3>1. c \in used /\ r \in R  BY <1>1, <2>1, <2>3, EntryIs
    <3>2. reader'.got = reader.got \o <<r>>  BY <1>6, <2>3 DEF OpenFile
    <3> HIDE DEF r, R
    <3>3. /\ reader.got \o <<r>> \in Seq(R) /\ Len(reader.got \o <<r>>) = Len(reader.got) + 1
          /\ \A i \in 1 .. Len(reader.got) : (reader.got \o <<r>>)[i] = reader.got[i]
          /\ (reader.got \o <<r>>)[Len(reader.got) + 1] = r
      BY <1>4, <3>1, GotGrown
    <3> QED  BY <2>3, <3>1, <3>2, <3>3
  <2> QED  BY <2>2, <2>3
<1>8. r.inode = c /\ r.size = Len(data[c])  OBVIOUS
<1> HIDE DEF r
<1>9. reader'.got \in Seq(R) /\ Len(reader'.got) \in {0, 1, 2}
      /\ (Len(reader'.got) = 2 => n = 1 /\ c # NoFile)
  <2>1. CASE c = NoFile /\ reader'.got = reader.got
    <3>1. Len(reader'.got) = n  BY <2>1
    <3> HIDE DEF n
    <3> QED  BY <1>4, <1>5, <2>1, <3>1
  <2>2. CASE c # NoFile /\ reader'.got \in Seq(R) /\ Len(reader'.got) = n + 1
    <3> HIDE DEF n
    <3> QED  BY <1>5, <2>2
  <2> QED  BY <1>7, <2>1, <2>2
<1>10. ASSUME NEW k \in 1 .. Len(reader'.got)
       PROVE  \/ k \in 1 .. n /\ reader'.got[k] = reader.got[k]
              \/ k = n + 1 /\ reader'.got[k] = r /\ c \in used
  <2>1. CASE c = NoFile /\ reader'.got = reader.got  BY <2>1
  <2>2. CASE /\ c \in used /\ Len(reader'.got) = n + 1
             /\ \A j \in 1 .. n : reader'.got[j] = reader.got[j]
             /\ reader'.got[n + 1] = r
    <3> HIDE DEF n
    <3>1. k \in 1 .. n \/ k = n + 1  BY <1>4, <2>2
    <3> QED  BY <2>2, <3>1
  <2> QED  BY <1>7, <2>1, <2>2
<1>11. /\ Opened = {reader.got[k].inode : k \in 1 .. n}
       /\ Opened' = {reader'.got[k].inode : k \in 1 .. Len(reader'.got)}
  <2>1. DOMAIN reader.got = 1 .. n  BY <1>4
  <2>2. DOMAIN reader'.got = 1 .. Len(reader'.got)  BY <1>9
  <2> QED  BY <2>1, <2>2 DEF Opened
<1>12. Opened' \subseteq Opened \cup {c}  BY <1>8, <1>10, <1>11
<1>13. Opened \subseteq Opened' /\ (c # NoFile => c \in Opened')
  <2>1. CASE c = NoFile /\ reader'.got = reader.got  BY <1>11, <2>1
  <2>2. CASE /\ c \in used /\ Len(reader'.got) = n + 1
             /\ \A j \in 1 .. n : reader'.got[j] = reader.got[j]
             /\ reader'.got[n + 1] = r
    <3>1. \A k \in 1 .. n : k \in 1 .. Len(reader'.got)
      <4> HIDE DEF n
      <4> QED  BY <1>4, <2>2
    <3>2. n + 1 \in 1 .. Len(reader'.got)
      <4> HIDE DEF n
      <4> QED  BY <1>4, <2>2
    <3> QED  BY <1>8, <1>11, <2>2, <3>1, <3>2
  <2> QED  BY <1>7, <2>1, <2>2
<1>14. StoreOk' /\ SinkOk' /\ SessionOk'  BY <1>2, <1>12, ReadFrame
<1>15. BoundaryOk(session) /\ s # NoFile /\ s \in used
  <2>1. session # NoSession  BY <1>4 DEF NoSession
  <2>2. BoundaryOk(session)  BY <1>1, <2>1 DEF SessionOk
  <2> QED  BY <1>1, <2>2, BoundaryTypes
<1>16. /\ \A k \in 1 .. n :
            /\ reader.got[k].inode \in used /\ reader.got[k].inode # c
            /\ reader.got[k].size <= Len(data[reader.got[k].inode])
            /\ Moved /\ reader.got[k].inode = s => reader.got[k].size = Len(data[s])
  BY <1>1, <1>2 DEF ReadOk
<1>17. ReadOk'
  <2>1. ASSUME NEW k \in 1 .. Len(reader'.got)
        PROVE  /\ reader'.got[k].inode \in used'
               /\ reader'.got[k].size <= Len(data'[reader'.got[k].inode])
               /\ Moved' /\ reader'.got[k].inode = session'.start.inode =>
                     reader'.got[k].size = Len(data'[session'.start.inode])
    <3>1. Moved' = Moved  BY <1>3 DEF Moved
    <3>2. CASE k \in 1 .. n /\ reader'.got[k] = reader.got[k]
      BY <1>3, <1>16, <3>1, <3>2
    <3>3. CASE k = n + 1 /\ reader'.got[k] = r /\ c \in used
      <4>1. Len(data[c]) \in Nat  BY <1>1, <3>3, EntryIs
      <4>2. Len(data[c]) <= Len(data[c])  BY <4>1
      <4> QED  BY <1>3, <1>8, <3>3, <4>2
    <3> QED  BY <1>10, <3>2, <3>3
  <2>2. Len(reader'.got) = 2 =>
          /\ reader'.got[1].inode # reader'.got[2].inode
          /\ reader'.got[2].inode # session'.start.inode =>
                OnlyAfter(session, reader.got[2].inode, 0)'
    <3>1. SUFFICES ASSUME Len(reader'.got) = 2
                   PROVE  /\ reader'.got[1].inode # reader'.got[2].inode
                          /\ reader'.got[2].inode # session'.start.inode =>
                                OnlyAfter(session, reader.got[2].inode, 0)'
      OBVIOUS
    <3>2. n = 1 /\ c # NoFile  BY <1>9, <3>1
    <3>3. 1 \in 1 .. n /\ n + 1 = 2  BY <3>2
    <3>4. reader'.got[1] = reader.got[1] /\ reader'.got[2] = r
      BY <1>7, <3>2, <3>3
    <3>5. reader.got[1].inode # c  BY <1>16, <3>3
    <3>6. c # s => OnlyAfter(session, c, 0)  BY <1>15, <3>2 DEF BoundaryOk
    <3>7. reader'.got[2].inode = c  BY <1>8, <3>4
    <3> QED  BY <1>3, <3>4, <3>5, <3>6, <3>7 DEF OnlyAfter, After
  <2>3. Len(reader'.got) <= 2
    <3>1. \A m \in {0, 1, 2} : m <= 2  OBVIOUS
    <3> QED  BY <1>9, <3>1
  <2>4. reader' \in [pc : {"idle", "backup", "current", "span", "done"},
                     attempt : {1, 2}, got : Seq([inode : Inodes, size : Nat])]
    BY <1>4, <1>6, <1>9
  <2> QED  BY <1>3, <1>4, <1>6, <2>1, <2>2, <2>3, <2>4 DEF ReadOk
<1>18. MissOk'
  <2>1. reader.attempt = 2 => s # c  BY <1>1, <1>2 DEF MissOk, Reading
  <2>2. reader.attempt = 2 /\ s \notin Opened => Gone(s)  BY <1>1, <1>2 DEF MissOk
  <2>3. s \notin Opened' => s # c /\ s \notin Opened  BY <1>13, <1>15
  <2>4. Moved /\ s \in Opened' =>
              \/ Gone(s)
              \/ /\ Len(reader'.got) = 2 /\ reader'.got[1].inode = s
                 /\ reader'.got[2].inode = session.end.inode
    <3>1. SUFFICES ASSUME Moved, s \in Opened', ~Gone(s)
                   PROVE  /\ Len(reader'.got) = 2 /\ reader'.got[1].inode = s
                          /\ reader'.got[2].inode = session.end.inode
      OBVIOUS
    <3>2. FrozenOk  BY <1>1, <3>1 DEF Moved, SessionOk
    <3>3. s # c  BY <3>1, <3>2 DEF Moved, FrozenOk
    <3>4. s = dir.backup  BY <3>1, <3>3 DEF Gone
    <3>5. session.end.inode = c  BY <3>1, <3>2, <3>4 DEF Moved, FrozenOk
    <3>6. c # NoFile
      <4>1. session.end.inode \in used  BY <3>2 DEF FrozenOk, CursorOk
      <4> QED  BY <1>1, <3>5, <4>1, EntryIs
    <3>7. s \in Opened  BY <1>12, <3>1, <3>3
    <3>8. PICK k \in 1 .. n : reader.got[k].inode = s  BY <1>11, <3>7
    <3>9. n = 1 /\ k = 1 /\ n + 1 = 2
      <4>1. n = 1
        <5> HIDE DEF n
        <5> QED  BY <1>5, <3>8
      <4>2. k = 1
        <5> HIDE DEF n
        <5> QED  BY <3>8, <4>1
      <4>3. n + 1 = 2
        <5> HIDE DEF n
        <5> QED  BY <4>1
      <4> QED  BY <4>1, <4>2, <4>3
    <3>10. Len(reader'.got) = n + 1 /\ reader'.got[n + 1] = r
           /\ \A j \in 1 .. n : reader'.got[j] = reader.got[j]
      BY <1>7, <3>6
    <3>11. 1 \in 1 .. n  BY <3>9
    <3> HIDE DEF n
    <3> QED  BY <1>8, <3>5, <3>8, <3>9, <3>10, <3>11
  <2> QED  BY <1>3, <1>6, <2>1, <2>2, <2>3, <2>4 DEF MissOk, Gone, Moved
<1>19. QuietOk'
  <2>1. quiet => reader.got = Entry(dir.backup)  BY <1>1, <1>2 DEF QuietOk
  <2>2. quiet => reader'.got = Entry(dir.backup) \o Entry(c)
    <3>1. CASE c # NoFile
      <4>1. Entry(c) = <<r>>  BY <3>1 DEF Entry, r
      <4>2. reader'.got = reader.got \o <<r>>  BY <1>7, <3>1
      <4> QED  BY <2>1, <4>1, <4>2
    <3>2. CASE c = NoFile
      <4>1. Entry(c) = <<>> /\ reader'.got = reader.got  BY <1>7, <3>2 DEF Entry
      <4>2. reader.got \o <<>> = reader.got  BY <1>4, ConcatEmptySeq
      <4> QED  BY <2>1, <4>1, <4>2
    <3> QED  BY <3>1, <3>2
  <2>3. Entry(dir.backup)' = Entry(dir.backup) /\ Entry(dir.current)' = Entry(c)
    BY <1>3 DEF Entry
  <2> QED  BY <1>1, <1>2, <1>3, <1>6, <2>2, <2>3 DEF QuietOk
<1>20. AnswerOk'  BY <1>1, <1>2, StillReading
<1> QED  BY <1>14, <1>17, <1>18, <1>19, <1>20 DEF SmsInv
\* The files are read: an answer, another attempt, or the end of the session's
\* boundary.
LEMMA SpanStep ==
  ASSUME SmsInv, ReadSpan
  PROVE  SmsInv'
<1> DEFINE s == session.start.inode
<1>1. StoreOk /\ SinkOk /\ SessionOk /\ ReadOk /\ MissOk /\ QuietOk /\ AnswerOk
  BY DEF SmsInv
<1>2. /\ reader.pc = "span" /\ UNCHANGED <<dir, data, used, sink, lines, history, mark>>
      /\ UNCHANGED <<fileVars, sinkVars, mark, sessions, asked, quiet>>
  BY DEF ReadSpan, fileVars, sinkVars
<1>3. /\ session # NoSession /\ session \in SessionRecords /\ BoundaryOk(session)
      /\ session.state \in {"starting", "running", "stopped"}
      /\ session.state = "stopped" => FrozenOk
  <2>1. session.state \in {"starting", "running", "stopped"}
    BY <1>1, <1>2 DEF ReadOk, Reading
  <2> QED  BY <1>1, <1>2, <2>1, SpanSession DEF SessionOk
<1>4. /\ SpanMiss => Span.kind = "lost"
      /\ ~SpanMiss => Span.kind = "ok"
  BY SpanIs
<1>5. /\ reader'.got = <<>> /\ reader'.pc \in {"backup", "done"}
      /\ reader' \in [pc : {"idle", "backup", "current", "span", "done"},
                      attempt : {1, 2}, got : Seq([inode : Inodes, size : Nat])]
      /\ reader'.pc = "backup" => session' = session
  <2>1. <<>> \in Seq([inode : Inodes, size : Nat])  OBVIOUS
  <2>2. \/ reader' = [pc |-> "backup", attempt |-> 2, got |-> <<>>] /\ session' = session
        \/ reader' = [pc |-> "done", attempt |-> 1, got |-> <<>>]
    BY DEF ReadSpan, IdleReader
  <2>3. CASE reader' = [pc |-> "backup", attempt |-> 2, got |-> <<>>] /\ session' = session
    BY <2>1, <2>3
  <2>4. CASE reader' = [pc |-> "done", attempt |-> 1, got |-> <<>>]  BY <2>1, <2>4
  <2> QED  BY <2>2, <2>3, <2>4
<1>6. Opened' = {}
  <2>1. DOMAIN <<>> = {}  OBVIOUS
  <2> QED  BY <1>5, <2>1 DEF Opened
<1>7. ReadOk'
  <2>1. Len(<<>>) = 0 /\ (\A k : ~(k \in 1 .. 0)) /\ 0 <= 2 /\ 0 # 2  OBVIOUS
  <2>2. Reading' => session'.state \in {"starting", "running", "stopped"}
    BY <1>3, <1>5 DEF Reading
  <2> QED  BY <1>5, <2>1, <2>2 DEF ReadOk
<1>8. QuietOk'  BY <1>1, <1>2, <1>5 DEF QuietOk
<1>9. SpanMiss => s # dir.current
  <2>1. Moved => s # dir.current  BY <1>3 DEF Moved, FrozenOk
  <2>2. s \notin Opened => s # dir.current  BY <1>1, <1>2 DEF MissOk
  <2> QED  BY <1>1, <1>2, <2>1, <2>2, SpanFound
<1>10. CASE SpanMiss /\ reader.attempt = 1
  <2>1. /\ reader' = [pc |-> "backup", attempt |-> 2, got |-> <<>>]
        /\ session' = session /\ answer' = answer
    BY <1>4, <1>10 DEF ReadSpan
  <2>2. UNCHANGED sessionVars  BY <1>2, <2>1 DEF sessionVars
  <2>3. StoreOk' /\ SinkOk' /\ SessionOk'  BY <1>2, <1>6, <2>2, ReadFrame
  <2>4. MissOk'  BY <1>2, <1>9, <1>10, <2>1 DEF MissOk
  <2>5. AnswerOk'  BY <1>1, <1>2, <2>1, StillReading
  <2> QED  BY <1>7, <1>8, <2>3, <2>4, <2>5 DEF SmsInv
<1>11. CASE SpanMiss /\ reader.attempt # 1
  <2>1. /\ answer' = Span /\ session' = [session EXCEPT !.state = "boundary_lost"]
        /\ reader' = [pc |-> "done", attempt |-> 1, got |-> <<>>]
    BY <1>4, <1>11 DEF ReadSpan, IdleReader
  <2>2. reader.attempt = 2  BY <1>1, <1>11 DEF ReadOk
  <2>3. /\ session' \in SessionRecords /\ session'.state = "boundary_lost"
        /\ session'.start = session.start /\ session'.from = session.from
        /\ session'.upto = session.upto
    BY <1>3, <2>1 DEF SessionRecords
  <2>4. session' # NoSession  BY <2>3 DEF NoSession
  <2>5. BoundaryOk(session)'
    <3>1. PICK b : b = session  OBVIOUS
    <3>2. PICK d : d = session'  OBVIOUS
    <3>3. BoundaryOk(d)  BY <1>3, <2>3, <3>1, <3>2, BoundaryAlike
    <3>4. BoundaryOk(d)'  BY <1>2, <3>3, BoundarySame
    <3> QED  BY <3>2, <3>4 DEF BoundaryOk, Since, Rest, OnlyAfter, After
  <2>6. mark = NoSession /\ mark \in SessionRecords /\ mark.upto <= Len(history)
        /\ session.upto <= Len(history)
    BY <1>1, <1>3 DEF SessionOk
  <2>7. SessionOk'  BY <1>2, <2>3, <2>4, <2>5, <2>6 DEF SessionOk
  <2>8. StoreOk' /\ SinkOk'  BY <1>1, <1>2 DEF StoreOk, SinkOk
  <2>9. MissOk'  BY <2>1 DEF MissOk, Reading
  <2>10. Gone(s)
    <3>1. s \notin Opened => Gone(s)  BY <1>1, <1>2, <2>2 DEF MissOk
    <3>2. Moved /\ s \in Opened
            /\ ~(/\ Len(reader.got) = 2 /\ reader.got[1].inode = s
                 /\ reader.got[2].inode = session.end.inode) => Gone(s)
      BY <1>1, <1>2 DEF MissOk
    <3> QED  BY <1>1, <1>2, <1>11, <3>1, <3>2, SpanFound
  <2>11. answer'.kind = "lost"  BY <1>4, <1>11, <2>1
  <2>12. LostMeansGone'  BY <1>2, <2>3, <2>10 DEF LostMeansGone, Gone
  <2>13. AnswerOk'
    BY <2>1, <2>4, <2>11, <2>12 DEF AnswerOk, QuietReadIsExact, OwnLinesOnly
  <2> QED  BY <1>7, <1>8, <2>7, <2>8, <2>9, <2>13 DEF SmsInv
<1>12. CASE ~SpanMiss
  <2>1. /\ answer' = Span /\ session' = session
        /\ reader' = [pc |-> "done", attempt |-> 1, got |-> <<>>]
    BY <1>4, <1>12 DEF ReadSpan, IdleReader
  <2>2. UNCHANGED sessionVars  BY <1>2, <2>1 DEF sessionVars
  <2>3. StoreOk' /\ SinkOk' /\ SessionOk'  BY <1>2, <1>6, <2>2, ReadFrame
  <2>4. MissOk'  BY <2>1 DEF MissOk, Reading
  <2>5. /\ quiet =>
              \E n \in Moments : /\ IsTail(Span.text, Reference(n))
                                 /\ ~Span.truncated => Span.text = Reference(n)
        /\ Span.text # <<>> => IsNL(Last(Span.text))
        /\ \A k \in DOMAIN Span.text :
              \E h \in session.from + 1 ..
                        (IF session.ended THEN session.upto ELSE Len(history)) :
                  history[h] = Span.text[k]
    BY <1>1, <1>2, <1>12, SpanAnswer
  <2>6. QuietReadIsExact'
    <3>1. SUFFICES ASSUME quiet' PROVE Exact'  BY DEF QuietReadIsExact
    <3>2. PICK n \in Moments : /\ IsTail(Span.text, Reference(n))
                               /\ ~Span.truncated => Span.text = Reference(n)
      BY <1>2, <2>5, <3>1
    <3>3. n \in Moments'  BY <1>2, <2>1 DEF Moments
    <3>4. Reference(n)' = Reference(n)  BY <1>2, <2>1 DEF Reference, StartsTorn
    <3>5. IsTail(answer'.text, Reference(n)')  BY <2>1, <3>2, <3>4
    <3>6. ~answer'.truncated => answer'.text = Reference(n)'  BY <2>1, <3>2, <3>4
    <3> QED  BY <3>3, <3>5, <3>6 DEF Exact
  <2>7. OwnLinesOnly'  BY <1>2, <2>1, <2>5 DEF OwnLinesOnly
  <2>8. answer'.kind = "ok"  BY <1>4, <1>12, <2>1
  <2>9. AnswerOk'
    BY <1>3, <2>1, <2>6, <2>7, <2>8 DEF AnswerOk, LostMeansGone
  <2> QED  BY <1>7, <1>8, <2>3, <2>4, <2>9 DEF SmsInv
<1> QED  BY <1>10, <1>11, <1>12

-----------------------------------------------------------------------------
(* The theorems.                                                            *)

\* SmsInv holds initially,
LEMMA SmsInvInit ==
  ASSUME Init
  PROVE  SmsInv
<1>1. Len(<<>>) = 0 /\ (\A k : ~(k \in 1 .. 0)) /\ 0 <= 2 /\ 0 # 2 /\ 0 <= 0
      /\ 0 \in 0 .. 0
  OBVIOUS
<1>2. StoreOk  BY DEF Init, StoreOk
<1>3. SinkOk  BY DEF Init, SinkOk
<1>4. SessionOk
  <2>1. NoCursor \in Cursors  BY DEF NoCursor, Cursors
  <2>2. NoSession \in SessionRecords /\ NoSession.upto = 0 /\ NoSession.state = "none"
    BY <2>1 DEF NoSession, SessionRecords
  <2> QED  BY <1>1, <2>2 DEF Init, SessionOk
<1>5. ReadOk
  <2>1. <<>> \in Seq([inode : Inodes, size : Nat])  OBVIOUS
  <2> QED  BY <1>1, <2>1 DEF Init, IdleReader, ReadOk, Reading
<1>6. MissOk  BY DEF Init, IdleReader, MissOk, Reading
<1>7. QuietOk  BY <1>1 DEF Init, IdleReader, QuietOk
<1>8. AnswerOk
  BY DEF Init, NoAnswer, AnswerOk, QuietReadIsExact, OwnLinesOnly, LostMeansGone
<1> QED  BY <1>2, <1>3, <1>4, <1>5, <1>6, <1>7, <1>8 DEF SmsInv

\* A stuttering step.
LEMMA StutterStep ==
  ASSUME SmsInv, UNCHANGED vars
  PROVE  SmsInv'
<1>1. UNCHANGED <<fileVars, sinkVars, sessionVars>> /\ UNCHANGED <<readerVars, quiet>>
  BY DEF vars
<1>2. /\ dir' = dir /\ data' = data /\ used' = used /\ sink' = sink /\ lines' = lines
      /\ history' = history /\ session' = session /\ reader' = reader
      /\ answer' = answer /\ asked' = asked /\ quiet' = quiet
  BY <1>1 DEF fileVars, sinkVars, sessionVars, readerVars
<1>3. StoreOk /\ SessionOk /\ ReadOk /\ MissOk /\ QuietOk /\ AnswerOk  BY DEF SmsInv
<1>4. Opened' = Opened  BY <1>2 DEF Opened
<1>5. StoreOk' /\ SinkOk' /\ SessionOk'  BY <1>1, <1>4, ReadFrame
<1>6. ReadOk'  BY <1>2, <1>3 DEF ReadOk, Reading, Moved, OnlyAfter, After
<1>7. MissOk'  BY <1>2, <1>3, MissStays DEF Gone
<1>8. QuietOk'  BY <1>2, <1>3 DEF QuietOk, Entry
<1>9. AnswerOk'
  <2>1. QuietReadIsExact'
    BY <1>2, <1>3 DEF AnswerOk, QuietReadIsExact, Exact, Moments, Reference, StartsTorn
  <2>2. OwnLinesOnly'  BY <1>2, <1>3 DEF AnswerOk, OwnLinesOnly
  <2>3. LostMeansGone'  BY <1>2, <1>3 DEF AnswerOk, LostMeansGone
  <2> QED  BY <1>2, <1>3, <2>1, <2>2, <2>3 DEF AnswerOk
<1> QED  BY <1>5, <1>6, <1>7, <1>8, <1>9 DEF SmsInv

\* and so always holds.
LEMMA SmsInvHolds ==
  ASSUME ~ReuseInodes
  PROVE  Spec => []SmsInv
<1>1. Init => SmsInv  BY SmsInvInit
<1>2. SmsInv /\ [Next]_vars => SmsInv'
  <2>1. SUFFICES ASSUME SmsInv, [Next]_vars PROVE SmsInv'  OBVIOUS
  <2>2. CASE Receive \/ AppendFails  BY <2>1, <2>2, IdleStep
  <2>3. CASE RemoveBackup \/ Rename  BY <2>1, <2>3, RotateStep
  <2>4. CASE OpenLog  BY <2>1, <2>4, OpenStep
  <2>5. CASE WriteBody \/ WriteNewline  BY <2>1, <2>5, WriteStep
  <2>6. CASE MarkStart  BY <2>1, <2>6, MarkStep
  <2>7. CASE BeginSession \/ CommitSession \/ ClearSession  BY <2>1, <2>7, SessionStep
  <2>8. CASE EndSession  BY <2>1, <2>8, EndStep
  <2>9. CASE ReadCall \/ ReadReturn  BY <2>1, <2>9, CallStep
  <2>10. CASE OpenBackup  BY <2>1, <2>10, BackupStep
  <2>11. CASE OpenCurrent  BY <2>1, <2>11, CurrentStep
  <2>12. CASE ReadSpan  BY <2>1, <2>12, SpanStep
  <2>13. CASE UNCHANGED vars  BY <2>1, <2>13, StutterStep
  <2> QED
    BY <2>1, <2>2, <2>3, <2>4, <2>5, <2>6, <2>7, <2>8, <2>9, <2>10, <2>11, <2>12, <2>13
    DEF Next, SinkNext, SessionNext, ReaderNext
<1> QED  BY <1>1, <1>2, PTL DEF Spec

\* A read during which the collector does nothing returns exactly the complete
\* lines of the session, or the last of them when it says truncated.
THEOREM QuietReadIsExactHolds ==
  ASSUME ~ReuseInodes
  PROVE  Spec => []QuietReadIsExact
<1>1. SmsInv => QuietReadIsExact  BY DEF SmsInv, AnswerOk
<1> QED  BY <1>1, SmsInvHolds, PTL

\* Whatever the collector does meanwhile, a read shows complete lines that were
\* received after the launch and before the stop.
THEOREM OwnLinesOnlyHolds ==
  ASSUME ~ReuseInodes
  PROVE  Spec => []OwnLinesOnly
<1>1. SmsInv => OwnLinesOnly  BY DEF SmsInv, AnswerOk
<1> QED  BY <1>1, SmsInvHolds, PTL

\* readSMSSpanUsing gives the session up only when the file of its boundary has
\* no name any more: one rotation never makes it miss twice.
THEOREM LostMeansGoneHolds ==
  ASSUME ~ReuseInodes
  PROVE  Spec => []LostMeansGone
<1>1. SmsInv => LostMeansGone  BY DEF SmsInv, AnswerOk
<1> QED  BY <1>1, SmsInvHolds, PTL
=============================================================================
