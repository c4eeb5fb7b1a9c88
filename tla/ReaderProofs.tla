---------------------------- MODULE ReaderProofs ----------------------------
(***************************************************************************)
(* Proofs about the readers of the native services' files.                 *)
(*                                                                         *)
(* CallHistory, for every set of strings and files of every length: a      *)
(* window of Asterisk's call records shows exactly the calls that begin in *)
(* it, and a file that is being written is refused or shown without its    *)
(* last part.  Module SmsParserProofs has the lemmas about least elements, *)
(* induction and recursive functions that the proofs share.                *)
(*                                                                         *)
(* ProcessLog, for any limit, chunks and failures: the OpenBTS log keeps   *)
(* its tail, and the marker of readiness is found however the output is    *)
(* cut into reads.                                                         *)
(***************************************************************************)
EXTENDS SmsParserProofs, CallHistory, ProcessLog

-----------------------------------------------------------------------------
(* Characters.                                                              *)

Columns == Seq(Chars)
Rows    == Seq(Columns)
States  == [st : {"line", "start", "plain", "quoted", "closing", "error"},
            field : Columns, row : Rows, rows : Seq(Rows)]

Pair(x) == IF x = "q" THEN <<"q", "q">> ELSE <<x>>

\* The characters of a string, with the quotes doubled.
LEMMA DoubledMeaning ==
  ASSUME NEW string \in Columns
  PROVE  /\ Doubled(string) \in [0 .. Len(string) -> Columns]
         /\ Doubled(string)[0] = <<>>
         /\ \A k \in 1 .. Len(string) :
               Doubled(string)[k] = Doubled(string)[k - 1] \o Pair(string[k])
<1> DEFINE S == Columns
           N == Len(string)
           Is(f) == f = [k \in 0 .. N |->
                            IF k = 0 THEN <<>> ELSE f[k - 1] \o Pair(string[k])]
           g == [k \in 1 .. N |-> [s \in S |-> s \o Pair(string[k])]]
<1>1. Doubled(string) = CHOOSE f : Is(f)  BY DEF Doubled, Pair
<1>2. N \in Nat /\ <<>> \in S  BY DEF Columns
<1>3. ASSUME NEW k \in 1 .. N, NEW s \in S  PROVE s \o Pair(string[k]) \in S
  <2>1. string[k] \in Chars  BY DEF Columns
  <2>2. Pair(string[k]) \in Seq(Chars)
    <3>1. CASE string[k] = "q"
      BY <2>1, <3>1 DEF Pair
    <3>2. CASE string[k] # "q"
      BY <2>1, <3>2 DEF Pair
    <3> QED  BY <3>1, <3>2
  <2> QED  BY <2>2 DEF Columns
<1>4. g \in [1 .. N -> [S -> S]]
  <2> HIDE DEF S, N
  <2> QED  BY <1>3
<1>5. PICK f \in [0 .. N -> S] : f[0] = <<>> /\ \A n \in 1 .. N : f[n] = g[n][f[n - 1]]
  <2> HIDE DEF g, S, N
  <2> QED  BY <1>2, <1>4, Iterates
<1>6. \A n \in 1 .. N : f[n] = f[n - 1] \o Pair(string[n])
  <2> SUFFICES ASSUME NEW n \in 1 .. N  PROVE f[n] = f[n - 1] \o Pair(string[n])
    OBVIOUS
  <2> HIDE DEF S, N
  <2>1. n - 1 \in 0 .. N  BY <1>2
  <2>2. f[n - 1] \in S /\ f[n] = g[n][f[n - 1]]  BY <2>1, <1>5
  <2> QED  BY <2>2
<1>7. Is(f)
  <2>1. \A n \in 0 .. N : f[n] = IF n = 0 THEN <<>> ELSE f[n - 1] \o Pair(string[n])
    <3> HIDE DEF g, S, N
    <3>1. \A n \in 0 .. N : n = 0 \/ n \in 1 .. N  BY <1>2
    <3> QED  BY <3>1, <1>5, <1>6
  <2> QED  BY <2>1
<1>8. Is(Doubled(string))
  <2> HIDE DEF Is
  <2> QED  BY <1>1, <1>7
<1> DEFINE e == Doubled(string)
<1> HIDE DEF e
<1>9. /\ e = [n \in 0 .. N |-> e[n]]
      /\ \A n \in 0 .. N : e[n] = IF n = 0 THEN <<>> ELSE e[n - 1] \o Pair(string[n])
  BY <1>8 DEF e
<1> HIDE DEF Is, g, S, N
<1>10. e[0] = <<>> /\ \A n \in 1 .. N : e[n] = e[n - 1] \o Pair(string[n])
  <2>1. 0 \in 0 .. N /\ \A n \in 1 .. N : n \in 0 .. N /\ n # 0  BY <1>2
  <2>2. e[0] = <<>>  BY <2>1, <1>9
  <2>3. ASSUME NEW n \in 1 .. N  PROVE e[n] = e[n - 1] \o Pair(string[n])
    BY <2>1, <1>9
  <2> QED  BY <2>2, <2>3
<1> DEFINE I == {n \in 0 .. N : e[n] \in S}
<1>11. \A n \in 0 .. N : n \in I
  <2>1. 0 \in I  BY <1>2, <1>10
  <2>2. ASSUME NEW n \in 1 .. N, n - 1 \in I  PROVE n \in I
    <3>1. n \in 0 .. N /\ e[n - 1] \in S  BY <1>2, <2>2
    <3> QED  BY <3>1, <1>3, <1>10
  <2> HIDE DEF I
  <2> QED  BY <1>2, <2>1, <2>2, Induction
<1>12. e \in [0 .. N -> S]  BY <1>9, <1>11
<1> QED  BY <1>10, <1>12 DEF e, S, N

\* A quoted string has at least its quotes.
LEMMA QuotedType ==
  ASSUME NEW string \in Columns
  PROVE  Quoted(string) \in Columns
<1>1. Doubled(string)[Len(string)] \in Columns
  <2>1. Len(string) \in Nat  BY DEF Columns
  <2>2. Doubled(string) \in [0 .. Len(string) -> Columns]  BY DoubledMeaning
  <2>3. Len(string) \in 0 .. Len(string)  BY <2>1
  <2> QED  BY <2>2, <2>3
<1> QED  BY <1>1 DEF Quoted, Columns, Chars

-----------------------------------------------------------------------------
(* The reader of encoding/csv.                                              *)

\* A step stays among the states.
LEMMA StepType ==
  ASSUME NEW s \in States, NEW c \in Chars
  PROVE  CsvStep(s, c) \in States
<1>1. /\ s.st \in {"line", "start", "plain", "quoted", "closing", "error"}
      /\ s.field \in Columns /\ s.row \in Rows /\ s.rows \in Seq(Rows)
  BY DEF States
<1>2. ASSUME NEW st \in {"line", "start", "plain", "quoted", "closing", "error"},
             NEW field \in Columns, NEW row \in Rows, NEW rows \in Seq(Rows)
      PROVE  Csv(st, field, row, rows) \in States
  BY DEF Csv, States
<1>3. Append(s.field, c) \in Columns  BY <1>1 DEF Columns
<1>4. Append(s.row, s.field) \in Rows  BY <1>1 DEF Rows
<1>5. Append(s.rows, Append(s.row, s.field)) \in Seq(Rows)  BY <1>1, <1>4
<1>6. <<>> \in Columns /\ <<>> \in Rows  BY DEF Columns, Rows
<1>7. \A st \in {"line", "start", "plain", "quoted", "closing", "error"} :
         Goto(s, st) \in States /\ AddTo(s, st, c) \in States
  BY <1>1, <1>2, <1>3 DEF Goto, AddTo
<1>8. EndField(s) \in States  BY <1>1, <1>2, <1>4, <1>6 DEF EndField
<1>9. EndRow(s) \in States  BY <1>2, <1>5, <1>6 DEF EndRow
<1> QED  BY <1>7, <1>8, <1>9 DEF CsvStep

\* The states of the reader along the data.
LEMMA RunMeaning ==
  ASSUME NEW s \in States, NEW data \in Columns
  PROVE  /\ CsvRun(s, data) \in [0 .. Len(data) -> States]
         /\ CsvRun(s, data)[0] = s
         /\ \A k \in 1 .. Len(data) :
               CsvRun(s, data)[k] = CsvStep(CsvRun(s, data)[k - 1], data[k])
<1> DEFINE S == States
           N == Len(data)
           Is(f) == f = [k \in 0 .. N |->
                            IF k = 0 THEN s ELSE CsvStep(f[k - 1], data[k])]
           g == [k \in 1 .. N |-> [x \in S |-> CsvStep(x, data[k])]]
<1>1. CsvRun(s, data) = CHOOSE f : Is(f)  BY DEF CsvRun
<1>2. N \in Nat /\ s \in S  BY DEF Columns
<1>3. ASSUME NEW k \in 1 .. N, NEW x \in S  PROVE CsvStep(x, data[k]) \in S
  <2>1. data[k] \in Chars  BY DEF Columns
  <2> QED  BY <2>1, StepType
<1>4. g \in [1 .. N -> [S -> S]]
  <2> HIDE DEF S, N
  <2> QED  BY <1>3
<1>5. PICK f \in [0 .. N -> S] : f[0] = s /\ \A n \in 1 .. N : f[n] = g[n][f[n - 1]]
  <2> HIDE DEF g, S, N
  <2> QED  BY <1>2, <1>4, Iterates
<1>6. \A n \in 1 .. N : f[n] = CsvStep(f[n - 1], data[n])
  <2> SUFFICES ASSUME NEW n \in 1 .. N  PROVE f[n] = CsvStep(f[n - 1], data[n])
    OBVIOUS
  <2> HIDE DEF S, N
  <2>1. n - 1 \in 0 .. N  BY <1>2
  <2>2. f[n - 1] \in S /\ f[n] = g[n][f[n - 1]]  BY <2>1, <1>5
  <2> QED  BY <2>2
<1>7. Is(f)
  <2>1. \A n \in 0 .. N : f[n] = IF n = 0 THEN s ELSE CsvStep(f[n - 1], data[n])
    BY <1>2, <1>5, <1>6
  <2> QED  BY <2>1
<1>8. Is(CsvRun(s, data))
  <2> HIDE DEF Is
  <2> QED  BY <1>1, <1>7
<1> DEFINE e == CsvRun(s, data)
<1> HIDE DEF e
<1>9. /\ e = [n \in 0 .. N |-> e[n]]
      /\ \A n \in 0 .. N : e[n] = IF n = 0 THEN s ELSE CsvStep(e[n - 1], data[n])
  BY <1>8 DEF e
<1> HIDE DEF Is, g, S, N
<1>10. e[0] = s /\ \A n \in 1 .. N : e[n] = CsvStep(e[n - 1], data[n])
  <2>1. 0 \in 0 .. N /\ \A n \in 1 .. N : n \in 0 .. N /\ n # 0  BY <1>2
  <2>2. e[0] = s  BY <2>1, <1>9
  <2>3. ASSUME NEW n \in 1 .. N  PROVE e[n] = CsvStep(e[n - 1], data[n])
    BY <2>1, <1>9
  <2> QED  BY <2>2, <2>3
<1> DEFINE I == {n \in 0 .. N : e[n] \in S}
<1>11. \A n \in 0 .. N : n \in I
  <2>1. 0 \in I  BY <1>2, <1>10
  <2>2. ASSUME NEW n \in 1 .. N, n - 1 \in I  PROVE n \in I
    <3>1. n \in 0 .. N /\ e[n - 1] \in S  BY <1>2, <2>2
    <3> QED  BY <3>1, <1>3, <1>10
  <2> HIDE DEF I
  <2> QED  BY <1>2, <2>1, <2>2, Induction
<1>12. e \in [0 .. N -> S]  BY <1>9, <1>11
<1> QED  BY <1>10, <1>12 DEF e, S, N

\* The state after all of the data.
After(s, data) == CsvRun(s, data)[Len(data)]

\* The reader takes its data one character after another.
LEMMA AfterAppend ==
  ASSUME NEW s \in States, NEW data \in Columns, NEW c \in Chars
  PROVE  /\ After(s, data) \in States
         /\ After(s, <<>>) = s
         /\ After(s, Append(data, c)) = CsvStep(After(s, data), c)
         /\ \A k \in 0 .. Len(data) : CsvRun(s, Append(data, c))[k] = CsvRun(s, data)[k]
<1> DEFINE d == Append(data, c)
           N == Len(data)
           f == CsvRun(s, data)
           h == CsvRun(s, d)
<1>1. /\ d \in Columns /\ N \in Nat /\ Len(d) = N + 1 /\ d[N + 1] = c
      /\ \A n \in 1 .. N : d[n] = data[n]
  BY DEF Columns
<1> HIDE DEF d
<1>2. /\ f \in [0 .. N -> States] /\ f[0] = s
      /\ \A n \in 1 .. N : f[n] = CsvStep(f[n - 1], data[n])
  BY RunMeaning
<1>3. /\ h[0] = s
      /\ \A n \in 1 .. N + 1 : h[n] = CsvStep(h[n - 1], d[n])
  <2>1. h[0] = s /\ \A n \in 1 .. Len(d) : h[n] = CsvStep(h[n - 1], d[n])
    <3> HIDE DEF N
    <3> QED  BY <1>1, RunMeaning
  <2> HIDE DEF h
  <2> QED  BY <1>1, <2>1
<1> HIDE DEF f, h
<1> DEFINE I == {n \in 0 .. N : h[n] = f[n]}
<1>4. \A n \in 0 .. N : n \in I
  <2>1. 0 \in I  BY <1>1, <1>2, <1>3
  <2>2. ASSUME NEW n \in 1 .. N, n - 1 \in I  PROVE n \in I
    <3>1. n \in 0 .. N /\ n \in 1 .. N + 1 /\ h[n - 1] = f[n - 1]  BY <1>1, <2>2
    <3>2. h[n] = CsvStep(h[n - 1], d[n]) /\ f[n] = CsvStep(f[n - 1], data[n])
          /\ d[n] = data[n]
      BY <3>1, <1>1, <1>2, <1>3
    <3> QED  BY <3>1, <3>2
  <2> HIDE DEF I
  <2> QED  BY <1>1, <2>1, <2>2, Induction
<1>5. h[N] = f[N]  BY <1>1, <1>4
<1>6. h[N + 1] = CsvStep(h[N], c)
  <2>1. N + 1 \in 1 .. N + 1 /\ (N + 1) - 1 = N  BY <1>1
  <2> QED  BY <2>1, <1>1, <1>3
<1>7. After(s, data) = f[N] /\ After(s, d) = h[N + 1]  BY <1>1 DEF After, f, h
<1>8. f[N] \in States  BY <1>1, <1>2
<1>9. After(s, <<>>) = s
  <2>1. <<>> \in Columns /\ Len(<<>>) = 0  BY DEF Columns
  <2> QED  BY <2>1, RunMeaning DEF After
<1>10. \A k \in 0 .. N : h[k] = f[k]  BY <1>4
<1> QED  BY <1>5, <1>6, <1>7, <1>8, <1>9, <1>10 DEF d, f, h

-----------------------------------------------------------------------------
(* Data in pieces.                                                          *)

\* The first elements of a sequence.
LEMMA Prefix ==
  ASSUME NEW S, NEW e \in Seq(S), NEW k \in 0 .. Len(e)
  PROVE  /\ SubSeq(e, 1, k) \in Seq(S) /\ Len(SubSeq(e, 1, k)) = k
         /\ \A i \in 1 .. k : SubSeq(e, 1, k)[i] = e[i]
         /\ k = 0 => SubSeq(e, 1, k) = <<>>
         /\ k = Len(e) => SubSeq(e, 1, k) = e
OBVIOUS

\* One more of them.
LEMMA PrefixAppend ==
  ASSUME NEW S, NEW e \in Seq(S), NEW k \in 1 .. Len(e)
  PROVE  SubSeq(e, 1, k) = Append(SubSeq(e, 1, k - 1), e[k])
<1>1. k - 1 \in 0 .. Len(e) /\ k \in 0 .. Len(e) /\ e[k] \in S  OBVIOUS
<1> DEFINE a == SubSeq(e, 1, k)
           b == SubSeq(e, 1, k - 1)
           c == Append(b, e[k])
<1>2. a \in Seq(S) /\ Len(a) = k /\ \A i \in 1 .. k : a[i] = e[i]  BY <1>1, Prefix
<1>3. b \in Seq(S) /\ Len(b) = k - 1 /\ \A i \in 1 .. k - 1 : b[i] = e[i]
  BY <1>1, Prefix
<1> HIDE DEF a, b
<1>4. c \in Seq(S) /\ Len(c) = k /\ \A i \in 1 .. k : c[i] = e[i]
  BY <1>1, <1>3
<1> HIDE DEF c
<1>5. a = c  BY <1>2, <1>4, SeqEqual
<1> QED  BY <1>5 DEF a, b, c

\* The first elements of two sequences in a row.
LEMMA PrefixInFirst ==
  ASSUME NEW S, NEW d \in Seq(S), NEW e \in Seq(S), NEW k \in 0 .. Len(d)
  PROVE  SubSeq(d \o e, 1, k) = SubSeq(d, 1, k)
<1> DEFINE a == SubSeq(d \o e, 1, k)
           b == SubSeq(d, 1, k)
<1>1. a \in Seq(S) /\ Len(a) = k /\ \A i \in 1 .. k : a[i] = d[i]  OBVIOUS
<1>2. b \in Seq(S) /\ Len(b) = k /\ \A i \in 1 .. k : b[i] = d[i]  OBVIOUS
<1> HIDE DEF a, b
<1>3. a = b  BY <1>1, <1>2, SeqEqual
<1> QED  BY <1>3 DEF a, b

\* And those that reach into the second one.
LEMMA PrefixInSecond ==
  ASSUME NEW S, NEW d \in Seq(S), NEW e \in Seq(S), NEW k \in 0 .. Len(e)
  PROVE  SubSeq(d \o e, 1, Len(d) + k) = d \o SubSeq(e, 1, k)
<1> DEFINE c == d \o e
           n == Len(d)
           a == SubSeq(c, 1, n + k)
           p == SubSeq(e, 1, k)
           b == d \o p
<1>1. /\ c \in Seq(S) /\ Len(c) = n + Len(e) /\ n \in Nat /\ Len(e) \in Nat
      /\ \A i \in 1 .. n : c[i] = d[i]
      /\ \A i \in 1 .. Len(e) : c[n + i] = e[i]
  OBVIOUS
<1>2. p \in Seq(S) /\ Len(p) = k /\ \A i \in 1 .. k : p[i] = e[i]  BY Prefix
<1> HIDE DEF c, p
<1>3. a \in Seq(S) /\ Len(a) = n + k /\ \A i \in 1 .. n + k : a[i] = c[i]
  BY <1>1
<1>4. /\ b \in Seq(S) /\ Len(b) = n + k
      /\ \A i \in 1 .. n : b[i] = d[i]
      /\ \A i \in 1 .. k : b[n + i] = p[i]
  <2>1. /\ b \in Seq(S) /\ Len(b) = n + k
        /\ \A i \in 1 .. n + k : b[i] = IF i <= n THEN d[i] ELSE p[i - n]
    BY <1>2, ConcatProperties
  <2> HIDE DEF b
  <2>2. ASSUME NEW i \in 1 .. k  PROVE b[n + i] = p[i]
    <3>1. n + i \in 1 .. n + k /\ ~(n + i <= n) /\ (n + i) - n = i  BY <1>1
    <3> QED  BY <2>1, <3>1
  <2> QED  BY <1>1, <2>1, <2>2
<1> HIDE DEF a, b
<1>5. ASSUME NEW i \in 1 .. n + k  PROVE a[i] = b[i]
  <2>1. CASE i \in 1 .. n  BY <2>1, <1>1, <1>3, <1>4
  <2>2. CASE i \notin 1 .. n
    <3> DEFINE j == i - n
    <3>1. j \in 1 .. k /\ j \in 1 .. Len(e) /\ i = n + j  BY <2>2, <1>1
    <3> HIDE DEF j
    <3>2. a[i] = c[n + j]  BY <3>1, <1>3
    <3>3. c[n + j] = e[j]  BY <3>1, <1>1
    <3>4. b[i] = p[j]  BY <3>1, <1>4
    <3>5. p[j] = e[j]  BY <3>1, <1>2
    <3> QED  BY <3>2, <3>3, <3>4, <3>5
  <2> QED  BY <2>1, <2>2
<1>6. a = b  BY <1>3, <1>4, <1>5, SeqEqual
<1> QED  BY <1>6 DEF a, b, c, p

\* The reader goes through two pieces one after the other.
LEMMA AfterConcat ==
  ASSUME NEW s \in States, NEW d \in Columns, NEW e \in Columns
  PROVE  /\ After(s, d) \in States
         /\ After(s, d \o e) = After(After(s, d), e)
<1> DEFINE P(k) == SubSeq(e, 1, k)
           t == After(s, d)
           I == {k \in 0 .. Len(e) : After(s, d \o P(k)) = After(t, P(k))}
<1>1. /\ P(0) = <<>> /\ P(Len(e)) = e
      /\ \A k \in 0 .. Len(e) : P(k) \in Columns
      /\ \A k \in 1 .. Len(e) : P(k) = Append(P(k - 1), e[k])
  <2>1. e \in Seq(Chars) /\ Len(e) \in Nat  BY DEF Columns
  <2>2. ASSUME NEW k \in 0 .. Len(e)
        PROVE  P(k) \in Seq(Chars) /\ (k = 0 => P(k) = <<>>) /\ (k = Len(e) => P(k) = e)
    BY <2>1, Prefix
  <2>3. ASSUME NEW k \in 1 .. Len(e)  PROVE P(k) = Append(P(k - 1), e[k])
    BY <2>1, PrefixAppend
  <2> HIDE DEF P
  <2>4. 0 \in 0 .. Len(e) /\ Len(e) \in 0 .. Len(e)  BY <2>1
  <2> QED  BY <2>2, <2>3, <2>4 DEF Columns
<1> HIDE DEF P
<1>2. Len(e) \in Nat /\ \A k \in 1 .. Len(e) : e[k] \in Chars  BY DEF Columns
<1>3. "q" \in Chars /\ <<>> \in Columns  BY DEF Chars, Columns
<1>4. t \in States  BY <1>3, AfterAppend
<1> HIDE DEF t
<1>5. 0 \in I
  <2>1. d \o <<>> = d  BY DEF Columns
  <2>2. After(t, <<>>) = t  BY <1>3, <1>4, AfterAppend
  <2>3. After(s, d \o P(0)) = After(t, P(0))
    BY <2>1, <2>2, <1>1 DEF t
  <2> QED  BY <2>3, <1>2
<1>6. ASSUME NEW k \in 1 .. Len(e), k - 1 \in I  PROVE k \in I
  <2> DEFINE p == P(k - 1)
             c == e[k]
  <2>1. p \in Columns /\ c \in Chars /\ P(k) = Append(p, c) /\ k \in 0 .. Len(e)
    BY <1>1, <1>2
  <2>2. After(s, d \o p) = After(t, p)  BY <1>6
  <2> HIDE DEF p, c, I
  <2>3. d \o Append(p, c) = Append(d \o p, c) /\ d \o p \in Columns
    BY <2>1 DEF Columns
  <2>4. After(s, Append(d \o p, c)) = CsvStep(After(s, d \o p), c)
    BY <2>1, <2>3, AfterAppend
  <2>5. After(t, Append(p, c)) = CsvStep(After(t, p), c)
    BY <2>1, <1>4, AfterAppend
  <2>6. After(s, d \o P(k)) = After(t, P(k))  BY <2>1, <2>2, <2>3, <2>4, <2>5
  <2> QED  BY <2>1, <2>6 DEF I
<1>7. Len(e) \in I
  <2> HIDE DEF I
  <2>1. \A n \in 0 .. Len(e) : n \in I  BY <1>2, <1>5, <1>6, Induction
  <2> QED  BY <2>1, <1>2
<1> QED  BY <1>1, <1>4, <1>7 DEF t

\* All states after a first character of the data are in X.
Along(s, data, X) ==
    \A k \in 1 .. Len(data) : After(s, SubSeq(data, 1, k)) \in X

\* One character.
LEMMA AlongOne ==
  ASSUME NEW s \in States, NEW c \in Chars, NEW X
  PROVE  /\ <<c>> \in Columns /\ After(s, <<c>>) = CsvStep(s, c)
         /\ CsvStep(s, c) \in X => Along(s, <<c>>, X)
<1>1. <<>> \in Columns /\ <<c>> = Append(<<>>, c) /\ <<c>> \in Columns  BY DEF Columns
<1>2. After(s, <<c>>) = CsvStep(s, c)
  <2>1. After(s, Append(<<>>, c)) = CsvStep(After(s, <<>>), c) /\ After(s, <<>>) = s
    BY <1>1, AfterAppend
  <2> QED  BY <1>1, <2>1
<1>3. ASSUME NEW k \in 1 .. Len(<<c>>)  PROVE SubSeq(<<c>>, 1, k) = <<c>>
  <2> DEFINE e == <<c>>
  <2>1. k = Len(e) /\ k \in 0 .. Len(e) /\ e \in Seq(Chars)  OBVIOUS
  <2> HIDE DEF e
  <2>2. SubSeq(e, 1, k) = e  BY <2>1, Prefix
  <2> QED  BY <2>2 DEF e
<1> QED  BY <1>1, <1>2, <1>3 DEF Along

\* Two pieces.
LEMMA AlongConcat ==
  ASSUME NEW s \in States, NEW d \in Columns, NEW e \in Columns, NEW X,
         Along(s, d, X), Along(After(s, d), e, X)
  PROVE  d \o e \in Columns /\ Along(s, d \o e, X)
<1>1. d \o e \in Columns /\ Len(d \o e) = Len(d) + Len(e)
      /\ Len(d) \in Nat /\ Len(e) \in Nat
  BY DEF Columns
<1>2. ASSUME NEW k \in 1 .. Len(d \o e)  PROVE After(s, SubSeq(d \o e, 1, k)) \in X
  <2>1. CASE k \in 1 .. Len(d)
    <3>1. SubSeq(d \o e, 1, k) = SubSeq(d, 1, k)  BY <2>1, <1>1, PrefixInFirst DEF Columns
    <3> QED  BY <2>1, <3>1 DEF Along
  <2>2. CASE k \notin 1 .. Len(d)
    <3> DEFINE j == k - Len(d)
    <3>1. j \in 1 .. Len(e) /\ j \in 0 .. Len(e) /\ k = Len(d) + j  BY <2>2, <1>1
    <3> HIDE DEF j
    <3>2. SubSeq(d \o e, 1, k) = d \o SubSeq(e, 1, j) /\ SubSeq(e, 1, j) \in Columns
      <4>1. e \in Seq(Chars) /\ d \in Seq(Chars)  BY DEF Columns
      <4>2. SubSeq(d \o e, 1, Len(d) + j) = d \o SubSeq(e, 1, j)
        BY <3>1, <4>1, PrefixInSecond
      <4>3. SubSeq(e, 1, j) \in Seq(Chars)  BY <3>1, <4>1, Prefix
      <4> QED  BY <3>1, <4>2, <4>3 DEF Columns
    <3>3. After(s, d \o SubSeq(e, 1, j)) = After(After(s, d), SubSeq(e, 1, j))
      BY <3>2, AfterConcat
    <3> QED  BY <3>1, <3>2, <3>3 DEF Along
  <2> QED  BY <2>1, <2>2
<1> QED  BY <1>1, <1>2 DEF Along

-----------------------------------------------------------------------------
(* What the reader makes of a record.                                       *)

\* A state is its four parts.
LEMMA CsvParts ==
  ASSUME NEW st, NEW field, NEW row, NEW rows
  PROVE  /\ Csv(st, field, row, rows).st = st
         /\ Csv(st, field, row, rows).field = field
         /\ Csv(st, field, row, rows).row = row
         /\ Csv(st, field, row, rows).rows = rows
         /\ st \in {"line", "start", "plain", "quoted", "closing", "error"}
              /\ field \in Columns /\ row \in Rows /\ rows \in Seq(Rows) =>
               Csv(st, field, row, rows) \in States
BY DEF Csv, States

\* The steps that a record takes.
LEMMA Steps ==
  ASSUME NEW f, NEW r, NEW R
  PROVE  /\ CsvStep(Csv("quoted", f, r, R), "q") = Csv("closing", f, r, R)
         /\ \A x : x # "q" =>
               CsvStep(Csv("quoted", f, r, R), x) = Csv("quoted", Append(f, x), r, R)
         /\ CsvStep(Csv("closing", f, r, R), "q") = Csv("quoted", Append(f, "q"), r, R)
         /\ CsvStep(Csv("line", f, r, R), "q") = Csv("quoted", f, r, R)
         /\ CsvStep(Csv("start", f, r, R), "q") = Csv("quoted", f, r, R)
         /\ CsvStep(Csv("closing", f, r, R), "c") = Csv("start", <<>>, Append(r, f), R)
         /\ CsvStep(Csv("plain", f, r, R), "c") = Csv("start", <<>>, Append(r, f), R)
         /\ CsvStep(Csv("start", f, r, R), "d") = Csv("plain", Append(f, "d"), r, R)
         /\ CsvStep(Csv("closing", f, r, R), "n") =
               Csv("line", <<>>, <<>>, Append(R, Append(r, f)))
<1>1. CsvStep(Csv("quoted", f, r, R), "q") = Csv("closing", f, r, R)
  BY CsvParts DEF CsvStep, Goto
<1>2. ASSUME NEW x, x # "q"
      PROVE  CsvStep(Csv("quoted", f, r, R), x) = Csv("quoted", Append(f, x), r, R)
  BY <1>2, CsvParts DEF CsvStep, AddTo
<1>3. CsvStep(Csv("closing", f, r, R), "q") = Csv("quoted", Append(f, "q"), r, R)
  BY CsvParts DEF CsvStep, AddTo
<1>4. /\ CsvStep(Csv("line", f, r, R), "q") = Csv("quoted", f, r, R)
      /\ CsvStep(Csv("start", f, r, R), "q") = Csv("quoted", f, r, R)
  BY CsvParts DEF CsvStep, Goto
<1>5. /\ CsvStep(Csv("closing", f, r, R), "c") = Csv("start", <<>>, Append(r, f), R)
      /\ CsvStep(Csv("plain", f, r, R), "c") = Csv("start", <<>>, Append(r, f), R)
  BY CsvParts DEF CsvStep, EndField
<1>6. CsvStep(Csv("start", f, r, R), "d") = Csv("plain", Append(f, "d"), r, R)
  BY CsvParts DEF CsvStep, AddTo
<1>7. CsvStep(Csv("closing", f, r, R), "n") =
         Csv("line", <<>>, <<>>, Append(R, Append(r, f)))
  BY CsvParts DEF CsvStep, EndRow
<1> QED  BY <1>1, <1>2, <1>3, <1>4, <1>5, <1>6, <1>7

\* The states inside a quoted column: the first characters of its value.
InField(string, row, rows) ==
    {x \in States : \E st \in {"quoted", "closing"}, k \in 0 .. Len(string) :
                       x = Csv(st, SubSeq(string, 1, k), row, rows)}

\* From quote to quote.
LEMMA DoubledRun ==
  ASSUME NEW string \in Columns, NEW row \in Rows, NEW rows \in Seq(Rows)
  PROVE  LET s == Csv("quoted", <<>>, row, rows)
             data == Doubled(string)[Len(string)]
         IN  /\ After(s, data) = Csv("quoted", string, row, rows)
             /\ Along(s, data, InField(string, row, rows))
<1> DEFINE s == Csv("quoted", <<>>, row, rows)
           D == Doubled(string)
           N == Len(string)
           X == InField(string, row, rows)
           P(k) == SubSeq(string, 1, k)
           I == {k \in 0 .. N : /\ After(s, D[k]) = Csv("quoted", P(k), row, rows)
                                /\ Along(s, D[k], X)}
<1>1. N \in Nat /\ string \in Seq(Chars) /\ <<>> \in Columns
  BY DEF Columns
<1>2. s \in States  BY <1>1, CsvParts
<1>3. /\ D \in [0 .. N -> Columns] /\ D[0] = <<>>
      /\ \A k \in 1 .. N : D[k] = D[k - 1] \o Pair(string[k])
  BY DoubledMeaning
<1>4. ASSUME NEW k \in 0 .. N
      PROVE  /\ P(k) \in Columns /\ (k = 0 => P(k) = <<>>) /\ (k = N => P(k) = string)
             /\ \A st \in {"quoted", "closing"} : Csv(st, P(k), row, rows) \in X
  <2>1. P(k) \in Columns /\ (k = 0 => P(k) = <<>>) /\ (k = N => P(k) = string)
    BY <1>1, Prefix DEF Columns
  <2> HIDE DEF P
  <2>2. ASSUME NEW st \in {"quoted", "closing"}  PROVE Csv(st, P(k), row, rows) \in X
    <3>1. Csv(st, P(k), row, rows) \in States  BY <2>1, CsvParts
    <3> QED  BY <3>1 DEF InField, P
  <2> QED  BY <2>1, <2>2
<1>5. ASSUME NEW k \in 1 .. N  PROVE P(k) = Append(P(k - 1), string[k])
  BY <1>1, PrefixAppend
<1> HIDE DEF s, D, N, X, P
<1>6. 0 \in I
  <2>1. "q" \in Chars  BY DEF Chars
  <2>2. After(s, <<>>) = s  BY <1>1, <1>2, <2>1, AfterAppend
  <2>3. P(0) = <<>> /\ 0 \in 0 .. N  BY <1>1, <1>4
  <2>4. Along(s, <<>>, X)  BY DEF Along
  <2>5. After(s, D[0]) = Csv("quoted", P(0), row, rows)  BY <2>2, <2>3, <1>3 DEF s
  <2>6. Along(s, D[0], X)  BY <2>4, <1>3
  <2> QED  BY <2>3, <2>5, <2>6
<1>7. ASSUME NEW k \in 1 .. N, k - 1 \in I  PROVE k \in I
  <2> DEFINE p == P(k - 1)
             x == string[k]
             d == D[k - 1]
             t == Csv("quoted", p, row, rows)
  <2>1. k - 1 \in 0 .. N /\ k \in 0 .. N /\ x \in Chars  BY <1>1 DEF N
  <2>2. d \in Columns /\ p \in Columns /\ P(k) = Append(p, x) /\ D[k] = d \o Pair(x)
    BY <2>1, <1>3, <1>4, <1>5
  <2>3. After(s, d) = t /\ Along(s, d, X)  BY <1>7
  <2>4. Csv("closing", p, row, rows) \in X /\ Csv("quoted", P(k), row, rows) \in X
    BY <2>1, <1>4
  <2> HIDE DEF p, x, d, I
  <2>5. t \in States  BY <2>2, CsvParts
  <2>6. Pair(x) \in Columns /\ After(t, Pair(x)) = Csv("quoted", P(k), row, rows)
          /\ Along(t, Pair(x), X)
    <3>1. CASE x = "q"
      <4> DEFINE u == Csv("closing", p, row, rows)
                 v == Csv("quoted", P(k), row, rows)
      <4>1. CsvStep(t, "q") = u /\ CsvStep(u, "q") = v  BY <2>2, <3>1, Steps
      <4>2. u \in States  BY <2>2, CsvParts
      <4>3. "q" \in Chars /\ u \in X /\ v \in X  BY <2>1, <2>4, <3>1
      <4> HIDE DEF u, v, t
      <4>4. <<"q">> \in Columns /\ After(t, <<"q">>) = u /\ Along(t, <<"q">>, X)
        BY <2>5, <4>1, <4>3, AlongOne
      <4>5. After(u, <<"q">>) = v /\ Along(u, <<"q">>, X)
        BY <4>1, <4>2, <4>3, AlongOne
      <4>6. Pair(x) = <<"q">> \o <<"q">>  BY <3>1 DEF Pair
      <4>7. After(t, <<"q">> \o <<"q">>) = v
        BY <2>5, <4>4, <4>5, AfterConcat
      <4>8. <<"q">> \o <<"q">> \in Columns /\ Along(t, <<"q">> \o <<"q">>, X)
        BY <2>5, <4>4, <4>5, AlongConcat
      <4> QED  BY <4>6, <4>7, <4>8 DEF v
    <3>2. CASE x # "q"
      <4>1. CsvStep(t, x) = Csv("quoted", P(k), row, rows)  BY <2>2, <3>2, Steps
      <4>2. Pair(x) = <<x>>  BY <3>2 DEF Pair
      <4> HIDE DEF t
      <4> QED  BY <2>1, <2>4, <2>5, <4>1, <4>2, AlongOne
    <3> QED  BY <3>1, <3>2
  <2> HIDE DEF t
  <2>7. After(s, d \o Pair(x)) = Csv("quoted", P(k), row, rows)
    BY <1>2, <2>2, <2>3, <2>6, AfterConcat
  <2>8. Along(s, d \o Pair(x), X)  BY <1>2, <2>2, <2>3, <2>6, AlongConcat
  <2> QED  BY <2>1, <2>2, <2>7, <2>8 DEF I
<1>8. N \in I
  <2> HIDE DEF I
  <2>1. \A n \in 0 .. N : n \in I  BY <1>1, <1>6, <1>7, Induction
  <2> QED  BY <2>1, <1>1
<1>9. P(N) = string  BY <1>1, <1>4
<1> QED  BY <1>8, <1>9 DEF s, D, N, X

\* A quoted column.
LEMMA QuotedRun ==
  ASSUME NEW string \in Columns, NEW row \in Rows, NEW rows \in Seq(Rows),
         NEW st \in {"line", "start"}
  PROVE  LET s == Csv(st, <<>>, row, rows)
         IN  /\ After(s, Quoted(string)) = Csv("closing", string, row, rows)
             /\ Along(s, Quoted(string), InField(string, row, rows))
<1> DEFINE s == Csv(st, <<>>, row, rows)
           t == Csv("quoted", <<>>, row, rows)
           u == Csv("quoted", string, row, rows)
           v == Csv("closing", string, row, rows)
           d == Doubled(string)[Len(string)]
           X == InField(string, row, rows)
           q == <<"q">>
<1>1. <<>> \in Columns /\ "q" \in Chars /\ string \in Seq(Chars) /\ Len(string) \in Nat
  BY DEF Columns, Chars
<1>2. s \in States /\ t \in States /\ u \in States /\ v \in States
  BY <1>1, CsvParts
<1>3. CsvStep(s, "q") = t /\ CsvStep(u, "q") = v
  <2>1. CASE st = "line"  BY <2>1, Steps
  <2>2. CASE st = "start"  BY <2>2, Steps
  <2> QED  BY <2>1, <2>2
<1>4. t \in X /\ v \in X
  <2>1. SubSeq(string, 1, 0) = <<>> /\ SubSeq(string, 1, Len(string)) = string
    BY <1>1, Prefix
  <2>2. 0 \in 0 .. Len(string) /\ Len(string) \in 0 .. Len(string)  BY <1>1
  <2> QED  BY <2>1, <2>2, <1>2 DEF InField
<1>5. After(t, d) = u /\ Along(t, d, X)  BY DoubledRun
<1>6. d \in Columns
  <2>1. Doubled(string) \in [0 .. Len(string) -> Columns]  BY DoubledMeaning
  <2>2. Len(string) \in 0 .. Len(string)  BY <1>1
  <2> QED  BY <2>1, <2>2
<1>7. Quoted(string) = q \o d \o q  BY DEF Quoted
<1> HIDE DEF s, t, u, v, d, X
<1>8. q \in Columns /\ After(s, q) = t /\ Along(s, q, X)
  BY <1>1, <1>2, <1>3, <1>4, AlongOne
<1>9. After(u, q) = v /\ Along(u, q, X)
  BY <1>1, <1>2, <1>3, <1>4, AlongOne
<1> HIDE DEF q
<1>10. After(s, q \o d) = u /\ q \o d \in Columns /\ Along(s, q \o d, X)
  BY <1>2, <1>5, <1>6, <1>8, AfterConcat, AlongConcat
<1>11. After(s, (q \o d) \o q) = v /\ Along(s, (q \o d) \o q, X)
  BY <1>2, <1>8, <1>9, <1>10, AfterConcat, AlongConcat
<1> QED  BY <1>7, <1>11 DEF s, v, X

\* Columns are added at the end of a row.
LEMMA Tuples ==
  ASSUME NEW S, NEW a \in S, NEW b \in S, NEW c \in S
  PROVE  /\ Append(<<a>>, b) = <<a, b>>
         /\ Append(<<a, b>>, c) = <<a, b, c>>
<1>1. Append(<<a>>, b) = <<a, b>>
  <2> DEFINE x == Append(<<a>>, b)
             y == <<a, b>>
  <2>1. x \in Seq(S) /\ Len(x) = 2 /\ x[1] = a /\ x[2] = b  OBVIOUS
  <2>2. y \in Seq(S) /\ Len(y) = 2 /\ y[1] = a /\ y[2] = b  OBVIOUS
  <2> HIDE DEF x, y
  <2>3. \A i \in 1 .. 2 : x[i] = y[i]  BY <2>1, <2>2
  <2>4. x = y  BY <2>1, <2>2, <2>3, SeqEqual
  <2> QED  BY <2>4 DEF x, y
<1>2. Append(<<a, b>>, c) = <<a, b, c>>
  <2> DEFINE x == Append(<<a, b>>, c)
             y == <<a, b, c>>
  <2>1. x \in Seq(S) /\ Len(x) = 3 /\ x[1] = a /\ x[2] = b /\ x[3] = c  OBVIOUS
  <2>2. y \in Seq(S) /\ Len(y) = 3 /\ y[1] = a /\ y[2] = b /\ y[3] = c  OBVIOUS
  <2> HIDE DEF x, y
  <2>3. \A i \in 1 .. 3 : x[i] = y[i]  BY <2>1, <2>2
  <2>4. x = y  BY <2>1, <2>2, <2>3, SeqEqual
  <2> QED  BY <2>4 DEF x, y
<1> QED  BY <1>1, <1>2

\* The states inside a record with the strings a and b.
Inside(a, b, rows) ==
    InField(a, <<>>, rows)
      \cup {Csv("start", <<>>, <<a>>, rows), Csv("plain", Number, <<a>>, rows),
            Csv("start", <<>>, <<a, Number>>, rows)}
      \cup InField(b, <<a, Number>>, rows)

\* A record adds its row, and nothing before its last character.
LEMMA EncodedRun ==
  ASSUME NEW a \in Columns, NEW b \in Columns, NEW rows \in Seq(Rows)
  PROVE  LET s == Csv("line", <<>>, <<>>, rows)
             rec == <<a, Number, b>>
         IN  /\ Encoded(rec) \in Columns /\ Len(Encoded(rec)) > 1
             /\ Encoded(rec)[Len(Encoded(rec))] = "n"
             /\ s \in States /\ rec \in Rows
             /\ After(s, Encoded(rec)) = Csv("line", <<>>, <<>>, Append(rows, rec))
             /\ \A k \in 1 .. Len(Encoded(rec)) - 1 :
                   After(s, SubSeq(Encoded(rec), 1, k)) \in Inside(a, b, rows)
<1> DEFINE s == Csv("line", <<>>, <<>>, rows)
           s1 == Csv("closing", a, <<>>, rows)
           s2 == Csv("start", <<>>, <<a>>, rows)
           s3 == Csv("plain", Number, <<a>>, rows)
           s4 == Csv("start", <<>>, <<a, Number>>, rows)
           s5 == Csv("closing", b, <<a, Number>>, rows)
           s6 == Csv("line", <<>>, <<>>, Append(rows, <<a, Number, b>>))
           X == Inside(a, b, rows)
           A == Quoted(a)
           B == Quoted(b)
           c == <<"c">>
           n == <<"n">>
           e == Encoded(<<a, Number, b>>)
<1>1. /\ <<>> \in Columns /\ <<>> \in Rows /\ Number \in Columns /\ <<a>> \in Rows
      /\ "c" \in Chars /\ "d" \in Chars /\ "n" \in Chars
  BY DEF Columns, Rows, Number, Chars
<1>2. /\ <<a, Number>> \in Rows /\ <<a, Number, b>> \in Rows
      /\ Append(<<>>, a) = <<a>> /\ Append(<<a>>, Number) = <<a, Number>>
      /\ Append(<<a, Number>>, b) = <<a, Number, b>>
      /\ Append(<<>>, "d") = Number
  <2>1. <<a, Number>> \in Rows  BY <1>1 DEF Rows
  <2>2. <<a, Number, b>> \in Rows  BY <1>1 DEF Rows
  <2>3. Append(<<>>, a) = <<a>>  OBVIOUS
  <2>4. Append(<<a>>, Number) = <<a, Number>>  BY <1>1, Tuples
  <2>5. Append(<<a, Number>>, b) = <<a, Number, b>>  BY <1>1, Tuples
  <2>6. Append(<<>>, "d") = Number  BY DEF Number
  <2> QED  BY <2>1, <2>2, <2>3, <2>4, <2>5, <2>6
<1>3. /\ s \in States /\ s1 \in States /\ s2 \in States /\ s3 \in States
      /\ s4 \in States /\ s5 \in States
  BY <1>1, <1>2, CsvParts
<1>4. /\ CsvStep(s1, "c") = s2 /\ CsvStep(s2, "d") = s3 /\ CsvStep(s3, "c") = s4
      /\ CsvStep(s5, "n") = s6
  <2>1. CsvStep(s1, "c") = Csv("start", <<>>, Append(<<>>, a), rows)
    <3> DEFINE z == <<>>
    <3> HIDE DEF z
    <3>1. CsvStep(Csv("closing", a, z, rows), "c") = Csv("start", <<>>, Append(z, a), rows)
      BY Steps
    <3> QED  BY <3>1 DEF z
  <2>2. CsvStep(s2, "d") = Csv("plain", Append(<<>>, "d"), <<a>>, rows)
    <3> DEFINE z == <<>>
    <3> HIDE DEF z
    <3>1. CsvStep(Csv("start", z, <<a>>, rows), "d") =
             Csv("plain", Append(z, "d"), <<a>>, rows)
      BY Steps
    <3> QED  BY <3>1 DEF z
  <2>3. CsvStep(s3, "c") = Csv("start", <<>>, Append(<<a>>, Number), rows)  BY Steps
  <2>4. CsvStep(s5, "n") =
           Csv("line", <<>>, <<>>, Append(rows, Append(<<a, Number>>, b)))
    BY Steps
  <2> QED  BY <1>2, <2>1, <2>2, <2>3, <2>4
<1>5. A \in Columns /\ B \in Columns  BY QuotedType
<1>6. After(s, A) = s1 /\ Along(s, A, InField(a, <<>>, rows))  BY <1>1, QuotedRun
<1>7. After(s4, B) = s5 /\ Along(s4, B, InField(b, <<a, Number>>, rows))
  BY <1>2, QuotedRun
<1>8. Along(s, A, X) /\ Along(s4, B, X)
  BY <1>6, <1>7 DEF Along, Inside
<1>9. s2 \in X /\ s3 \in X /\ s4 \in X  BY DEF Inside
<1>10. e = A \o c \o Number \o c \o B \o n  BY DEF Encoded
<1> HIDE DEF s, s1, s2, s3, s4, s5, s6, X, A, B, e
<1>11. c \in Columns /\ After(s1, c) = s2 /\ Along(s1, c, X)
  BY <1>1, <1>3, <1>4, <1>9, AlongOne
<1>12. After(s2, Number) = s3 /\ Along(s2, Number, X)
  <2>1. After(s2, <<"d">>) = s3 /\ Along(s2, <<"d">>, X)
    BY <1>1, <1>3, <1>4, <1>9, AlongOne
  <2> QED  BY <2>1 DEF Number
<1>13. After(s3, c) = s4 /\ Along(s3, c, X)
  BY <1>1, <1>3, <1>4, <1>9, AlongOne
<1>14. n \in Columns /\ After(s5, n) = s6 /\ Len(n) = 1 /\ n[1] = "n"
  BY <1>1, <1>3, <1>4, AlongOne
<1> HIDE DEF c, n
<1>15. A \o c \in Columns /\ After(s, A \o c) = s2 /\ Along(s, A \o c, X)
  BY <1>3, <1>5, <1>6, <1>8, <1>11, AfterConcat, AlongConcat
<1> DEFINE p1 == A \o c
<1> HIDE DEF p1
<1>16. p1 \in Columns /\ After(s, p1) = s2 /\ Along(s, p1, X)  BY <1>15 DEF p1
<1> DEFINE p2 == p1 \o Number
<1>17. p2 \in Columns /\ After(s, p2) = s3 /\ Along(s, p2, X)
  BY <1>1, <1>3, <1>12, <1>16, AfterConcat, AlongConcat
<1> HIDE DEF p2
<1> DEFINE p3 == p2 \o c
<1>18. p3 \in Columns /\ After(s, p3) = s4 /\ Along(s, p3, X)
  BY <1>3, <1>11, <1>13, <1>17, AfterConcat, AlongConcat
<1> HIDE DEF p3
<1> DEFINE p4 == p3 \o B
<1>19. p4 \in Columns /\ After(s, p4) = s5 /\ Along(s, p4, X)
  BY <1>3, <1>5, <1>7, <1>8, <1>18, AfterConcat, AlongConcat
<1>20. Len(p4) >= 1
  <2>1. Len(B) >= 1 /\ Len(B) \in Nat
    <3>1. Doubled(b)[Len(b)] \in Columns
      <4>1. Len(b) \in 0 .. Len(b)  BY DEF Columns
      <4>2. Doubled(b) \in [0 .. Len(b) -> Columns]  BY DoubledMeaning
      <4> QED  BY <4>1, <4>2
    <3> QED  BY <3>1 DEF B, Quoted, Columns
  <2> QED  BY <2>1, <1>5, <1>18 DEF Columns
<1> HIDE DEF p4
<1>21. e = p4 \o n  BY <1>10 DEF p4, p3, p2, p1
<1>22. After(s, e) = s6  BY <1>3, <1>14, <1>19, <1>21, AfterConcat
<1>23. /\ e \in Columns /\ Len(e) = Len(p4) + 1 /\ e[Len(e)] = "n" /\ Len(p4) \in Nat
  <2>1. p4 \in Seq(Chars) /\ n \in Seq(Chars)  BY <1>14, <1>19 DEF Columns
  <2>2. /\ e \in Seq(Chars) /\ Len(e) = Len(p4) + 1 /\ Len(p4) \in Nat
        /\ \A i \in 1 .. Len(p4) + 1 : e[i] = IF i <= Len(p4) THEN p4[i] ELSE n[i - Len(p4)]
    <3>1. /\ p4 \o n \in Seq(Chars) /\ Len(p4 \o n) = Len(p4) + Len(n)
          /\ \A i \in 1 .. Len(p4) + Len(n) :
                (p4 \o n)[i] = IF i <= Len(p4) THEN p4[i] ELSE n[i - Len(p4)]
      BY <2>1, ConcatProperties
    <3>2. Len(p4) \in Nat  BY <2>1
    <3> QED  BY <3>1, <3>2, <1>14, <1>21
  <2>3. e[Len(p4) + 1] = n[1]
    <3>1. Len(p4) + 1 \in 1 .. Len(p4) + 1 /\ ~(Len(p4) + 1 <= Len(p4))
            /\ (Len(p4) + 1) - Len(p4) = 1
      BY <2>2
    <3> QED  BY <2>2, <3>1
  <2> QED  BY <2>2, <2>3, <1>14 DEF Columns
<1>24. ASSUME NEW k \in 1 .. Len(e) - 1  PROVE After(s, SubSeq(e, 1, k)) \in X
  <2>1. k \in 1 .. Len(p4) /\ k \in 0 .. Len(p4)  BY <1>23
  <2>2. SubSeq(e, 1, k) = SubSeq(p4, 1, k)
    <3>1. p4 \in Seq(Chars) /\ n \in Seq(Chars)  BY <1>14, <1>19 DEF Columns
    <3> QED  BY <3>1, <2>1, <1>21, PrefixInFirst
  <2> QED  BY <2>1, <2>2, <1>19 DEF Along
<1>25. Len(e) > 1  BY <1>20, <1>23
<1> QED  BY <1>2, <1>3, <1>22, <1>23, <1>24, <1>25 DEF s, s6, X, e

-----------------------------------------------------------------------------
(* The text of the records.                                                 *)

Records == {<<a, Number, b>> : a \in Strings, b \in Strings}
LineState(rows) == Csv("line", <<>>, <<>>, rows)

\* One record, as Asterisk writes it.
LEMMA RecordRun ==
  ASSUME NEW rec \in Records, NEW rows \in Seq(Rows)
  PROVE  /\ rec \in Rows /\ Encoded(rec) \in Columns /\ Len(Encoded(rec)) > 1
         /\ Encoded(rec)[Len(Encoded(rec))] = "n"
         /\ LineState(rows) \in States
         /\ After(LineState(rows), Encoded(rec)) = LineState(Append(rows, rec))
         /\ \E a \in Columns, b \in Columns : rec = <<a, Number, b>> /\
               \A k \in 1 .. Len(Encoded(rec)) - 1 :
                  After(LineState(rows), SubSeq(Encoded(rec), 1, k)) \in Inside(a, b, rows)
<1>1. PICK a \in Strings, b \in Strings : rec = <<a, Number, b>>  BY DEF Records
<1>2. a \in Columns /\ b \in Columns  BY HistoryAssumption DEF HistoryAssumption, Columns
<1> DEFINE s == Csv("line", <<>>, <<>>, rows)
           r == <<a, Number, b>>
<1>3. /\ Encoded(r) \in Columns /\ Len(Encoded(r)) > 1
      /\ Encoded(r)[Len(Encoded(r))] = "n"
      /\ s \in States /\ r \in Rows
      /\ After(s, Encoded(r)) = Csv("line", <<>>, <<>>, Append(rows, r))
      /\ \A k \in 1 .. Len(Encoded(r)) - 1 :
                   After(s, SubSeq(Encoded(r), 1, k)) \in Inside(a, b, rows)
  BY <1>2, EncodedRun
<1>4. s = LineState(rows) /\ r = rec
      /\ Csv("line", <<>>, <<>>, Append(rows, r)) = LineState(Append(rows, rec))
  BY <1>1 DEF LineState
<1> HIDE DEF s, r
<1>5. \E a1 \in Columns, b1 \in Columns : rec = <<a1, Number, b1>> /\
               \A k \in 1 .. Len(Encoded(rec)) - 1 :
                  After(LineState(rows), SubSeq(Encoded(rec), 1, k)) \in Inside(a1, b1, rows)
  BY <1>1, <1>2, <1>3, <1>4
<1> QED  BY <1>3, <1>4, <1>5

\* Pieces in a row.
LEMMA Concats ==
  ASSUME NEW N \in Nat, NEW e \in [1 .. N -> Columns]
  PROVE  \E f \in [0 .. N -> Columns] :
            f[0] = <<>> /\ \A n \in 1 .. N : f[n] = f[n - 1] \o e[n]
<1> DEFINE S == Columns
           g == [k \in 1 .. N |-> [s \in S |-> s \o e[k]]]
<1>1. <<>> \in S  BY DEF Columns
<1>2. ASSUME NEW k \in 1 .. N, NEW s \in S  PROVE s \o e[k] \in S
  <2>1. e[k] \in Columns  OBVIOUS
  <2> QED  BY <2>1 DEF Columns
<1>3. g \in [1 .. N -> [S -> S]]
  <2> HIDE DEF S
  <2> QED  BY <1>2
<1>4. PICK f \in [0 .. N -> S] : f[0] = <<>> /\ \A n \in 1 .. N : f[n] = g[n][f[n - 1]]
  <2> DEFINE a == <<>>
             G == [1 .. N -> [S -> S]]
             Q(h) == \E f \in [0 .. N -> S] : f[0] = a /\ \A n \in 1 .. N : f[n] = h[n][f[n - 1]]
  <2>1. a \in S  BY <1>1
  <2> HIDE DEF a, g, S
  <2>2. \A h \in G : Q(h)
    <3> SUFFICES ASSUME NEW h \in G  PROVE Q(h)  OBVIOUS
    <3> QED  BY <2>1, Iterates
  <2>3. g \in G  BY <1>3
  <2> HIDE DEF Q, G
  <2>4. Q(g)  BY <2>2, <2>3
  <2> QED  BY <2>4 DEF a, Q
<1>5. \A n \in 1 .. N : f[n] = f[n - 1] \o e[n]
  <2> SUFFICES ASSUME NEW n \in 1 .. N  PROVE f[n] = f[n - 1] \o e[n]
    OBVIOUS
  <2> HIDE DEF S
  <2>1. n - 1 \in 0 .. N  OBVIOUS
  <2>2. f[n - 1] \in S /\ f[n] = g[n][f[n - 1]]  BY <2>1, <1>4
  <2> QED  BY <2>2
<1> QED  BY <1>4, <1>5

\* The texts of the first records.
LEMMA TextsMeaning ==
  ASSUME NEW records \in Seq(Records)
  PROVE  /\ Texts(records) \in [0 .. Len(records) -> Columns]
         /\ Texts(records)[0] = <<>>
         /\ \A k \in 1 .. Len(records) :
               Texts(records)[k] = Texts(records)[k - 1] \o Encoded(records[k])
<1> DEFINE S == Columns
           N == Len(records)
           Is(f) == f = [k \in 0 .. N |->
                            IF k = 0 THEN <<>> ELSE f[k - 1] \o Encoded(records[k])]
<1>1. Texts(records) = CHOOSE f : Is(f)  BY DEF Texts
<1>2. N \in Nat /\ <<>> \in S  BY DEF Columns
<1>3. ASSUME NEW k \in 1 .. N  PROVE Encoded(records[k]) \in Columns
  <2>1. records[k] \in Records /\ <<>> \in Seq(Rows)  OBVIOUS
  <2> QED  BY <2>1, RecordRun
<1>4. ASSUME NEW k \in 1 .. N, NEW s \in S  PROVE s \o Encoded(records[k]) \in S
  BY <1>3 DEF Columns
<1>5. PICK f \in [0 .. N -> S] :
         f[0] = <<>> /\ \A n \in 1 .. N : f[n] = f[n - 1] \o Encoded(records[n])
  <2> DEFINE c == [k \in 1 .. N |-> Encoded(records[k])]
  <2>1. c \in [1 .. N -> Columns]  BY <1>3
  <2>2. \A n \in 1 .. N : c[n] = Encoded(records[n])  OBVIOUS
  <2> HIDE DEF c, N
  <2>3. \E f \in [0 .. N -> Columns] :
           f[0] = <<>> /\ \A n \in 1 .. N : f[n] = f[n - 1] \o c[n]
    BY <1>2, <2>1, Concats
  <2> QED  BY <2>2, <2>3
<1>7. Is(f)
  <2>1. \A n \in 0 .. N : f[n] = IF n = 0 THEN <<>> ELSE f[n - 1] \o Encoded(records[n])
    <3> HIDE DEF S, N
    <3>1. \A n \in 0 .. N : n = 0 \/ n \in 1 .. N  BY <1>2
    <3> QED  BY <3>1, <1>5
  <2> QED  BY <2>1
<1>8. Is(Texts(records))
  <2> HIDE DEF Is
  <2> QED  BY <1>1, <1>7
<1> DEFINE e == Texts(records)
<1> HIDE DEF e
<1>9. /\ e = [n \in 0 .. N |-> e[n]]
      /\ \A n \in 0 .. N : e[n] = IF n = 0 THEN <<>> ELSE e[n - 1] \o Encoded(records[n])
  BY <1>8 DEF e
<1> HIDE DEF Is, S, N
<1>10. e[0] = <<>> /\ \A n \in 1 .. N : e[n] = e[n - 1] \o Encoded(records[n])
  <2>1. 0 \in 0 .. N /\ \A n \in 1 .. N : n \in 0 .. N /\ n # 0  BY <1>2
  <2>2. e[0] = <<>>  BY <2>1, <1>9
  <2>3. ASSUME NEW n \in 1 .. N  PROVE e[n] = e[n - 1] \o Encoded(records[n])
    BY <2>1, <1>9
  <2> QED  BY <2>2, <2>3
<1> DEFINE I == {n \in 0 .. N : e[n] \in S}
<1>11. \A n \in 0 .. N : n \in I
  <2>1. 0 \in I  BY <1>2, <1>10
  <2>2. ASSUME NEW n \in 1 .. N, n - 1 \in I  PROVE n \in I
    <3>1. n \in 0 .. N /\ e[n - 1] \in S  BY <1>2, <2>2
    <3> QED  BY <3>1, <1>4, <1>10
  <2> HIDE DEF I
  <2> QED  BY <1>2, <2>1, <2>2, Induction
<1>12. e \in [0 .. N -> S]  BY <1>9, <1>11
<1> QED  BY <1>10, <1>12 DEF e, S, N

\* One record more: what its text is, and that the reader finds its row.
LEMMA TextStep ==
  ASSUME NEW records \in Seq(Records), NEW k \in 1 .. Len(records)
  PROVE  /\ Texts(records)[k - 1] \in Columns /\ Texts(records)[k] \in Columns
         /\ records[k] \in Records /\ Encoded(records[k]) \in Columns
         /\ Len(Encoded(records[k])) \in Nat /\ Len(Encoded(records[k])) > 1
         /\ Encoded(records[k])[Len(Encoded(records[k]))] = "n"
         /\ Texts(records)[k] = Texts(records)[k - 1] \o Encoded(records[k])
         /\ Len(Texts(records)[k]) = Len(Texts(records)[k - 1]) + Len(Encoded(records[k]))
         /\ Len(Texts(records)[k - 1]) \in Nat
<1> DEFINE T == Texts(records)
           e == Encoded(records[k])
<1>1. k - 1 \in 0 .. Len(records) /\ k \in 0 .. Len(records) /\ records[k] \in Records
  OBVIOUS
<1>2. T[k - 1] \in Columns /\ T[k] \in Columns /\ T[k] = T[k - 1] \o e
  BY <1>1, TextsMeaning
<1>3. <<>> \in Seq(Rows)  OBVIOUS
<1>4. e \in Columns /\ Len(e) > 1 /\ e[Len(e)] = "n"  BY <1>1, <1>3, RecordRun
<1> HIDE DEF T, e
<1>5. Len(e) \in Nat /\ Len(T[k - 1]) \in Nat /\ Len(T[k]) = Len(T[k - 1]) + Len(e)
  BY <1>2, <1>4 DEF Columns
<1> QED  BY <1>1, <1>2, <1>4, <1>5 DEF T, e

\* The reader, after the first k records.
LEMMA TextRun ==
  ASSUME NEW records \in Seq(Records)
  PROVE  /\ CsvStart \in States /\ Len(records) \in Nat
         /\ \A k \in 0 .. Len(records) :
               /\ Texts(records)[k] \in Columns
               /\ SubSeq(records, 1, k) \in Seq(Rows)
               /\ After(CsvStart, Texts(records)[k]) = LineState(SubSeq(records, 1, k))
<1> DEFINE T == Texts(records)
           N == Len(records)
           R(k) == SubSeq(records, 1, k)
           I == {k \in 0 .. N : After(CsvStart, T[k]) = LineState(R(k))}
<1>1. N \in Nat /\ "q" \in Chars /\ <<>> \in Columns /\ <<>> \in Rows /\ <<>> \in Seq(Rows)
  BY DEF Chars, Columns, Rows
<1>2. CsvStart \in States  BY <1>1, CsvParts DEF CsvStart
<1>3. ASSUME NEW k \in 0 .. N
      PROVE  T[k] \in Columns /\ R(k) \in Seq(Rows) /\ (k = 0 => R(k) = <<>>)
  <2>1. T[k] \in Columns  BY TextsMeaning
  <2>2. R(k) \in Seq(Records) /\ (k = 0 => R(k) = <<>>)  BY Prefix
  <2>3. \A r \in Records : r \in Rows  BY <1>1, RecordRun
  <2> HIDE DEF R
  <2> QED  BY <2>1, <2>2, <2>3
<1>4. 0 \in I
  <2>1. After(CsvStart, <<>>) = CsvStart  BY <1>1, <1>2, AfterAppend
  <2>2. T[0] = <<>>  BY TextsMeaning
  <2>3. R(0) = <<>> /\ 0 \in 0 .. N  BY <1>1, <1>3
  <2> HIDE DEF R, T
  <2>4. After(CsvStart, T[0]) = LineState(R(0))
    BY <2>1, <2>2, <2>3 DEF CsvStart, LineState
  <2> QED  BY <2>3, <2>4
<1>5. ASSUME NEW k \in 1 .. N, k - 1 \in I  PROVE k \in I
  <2> DEFINE e == Encoded(records[k])
  <2>1. k - 1 \in 0 .. N /\ k \in 0 .. N  BY <1>1
  <2>2. T[k - 1] \in Columns /\ e \in Columns /\ T[k] = T[k - 1] \o e /\ records[k] \in Records
    BY TextStep
  <2>3. R(k) = Append(R(k - 1), records[k])  BY PrefixAppend
  <2>4. R(k - 1) \in Seq(Rows)  BY <2>1, <1>3
  <2>5. After(CsvStart, T[k - 1]) = LineState(R(k - 1))  BY <1>5
  <2> HIDE DEF R, T, I
  <2>6. After(LineState(R(k - 1)), e) = LineState(Append(R(k - 1), records[k]))
    BY <2>2, <2>4, RecordRun
  <2> HIDE DEF e
  <2>7. After(CsvStart, T[k - 1] \o e) = After(After(CsvStart, T[k - 1]), e)
    BY <1>2, <2>2, AfterConcat
  <2>8. After(CsvStart, T[k]) = LineState(R(k))
    BY <2>2, <2>3, <2>5, <2>6, <2>7
  <2> QED  BY <2>1, <2>8 DEF I
<1>6. \A k \in 0 .. N : k \in I
  <2> HIDE DEF I, N
  <2> QED  BY <1>1, <1>4, <1>5, Induction
<1> QED  BY <1>1, <1>2, <1>3, <1>6

-----------------------------------------------------------------------------
(* Where the records are in the text.                                       *)

\* The text up to p is that of the first j records.
EndsAt(records, k, p, j) ==
    p = Len(Texts(records)[j]) /\ SubSeq(Texts(records)[k], 1, p) = Texts(records)[j]

\* The reader is inside the record j after p characters.
IsWithin(records, k, p, j) ==
    \E a \in Columns, b \in Columns :
       /\ records[j] = <<a, Number, b>>
       /\ After(CsvStart, SubSeq(Texts(records)[k], 1, p))
             \in Inside(a, b, SubSeq(records, 1, j - 1))

\* Every place of the text is the end of a record, or in one.
LEMMA Positions ==
  ASSUME NEW records \in Seq(Records)
  PROVE  \A k \in 0 .. Len(records) : \A p \in 0 .. Len(Texts(records)[k]) :
            \/ \E j \in 0 .. k : EndsAt(records, k, p, j)
            \/ \E j \in 1 .. k : IsWithin(records, k, p, j)
<1> DEFINE T == Texts(records)
           N == Len(records)
           Good(k) == \A p \in 0 .. Len(T[k]) :
                         \/ \E j \in 0 .. k : EndsAt(records, k, p, j)
                         \/ \E j \in 1 .. k : IsWithin(records, k, p, j)
           I == {k \in 0 .. N : Good(k)}
<1>1. N \in Nat  OBVIOUS
<1>2. 0 \in I
  <2>1. T[0] = <<>>  BY TextsMeaning
  <2>2. 0 \in 0 .. N  BY <1>1
  <2>3. ASSUME NEW p \in 0 .. Len(T[0])  PROVE EndsAt(records, 0, p, 0)
    <3>1. p = 0 /\ Len(T[0]) = 0  BY <2>1
    <3>2. SubSeq(<<>>, 1, 0) = <<>>  OBVIOUS
    <3> QED  BY <2>1, <3>1, <3>2 DEF EndsAt
  <2>4. Good(0)
    <3>1. 0 \in 0 .. 0  OBVIOUS
    <3> QED  BY <2>3, <3>1
  <2> QED  BY <2>2, <2>4
<1>3. ASSUME NEW k \in 1 .. N, k - 1 \in I  PROVE k \in I
  <2> DEFINE e == Encoded(records[k])
             t == T[k - 1]
             n == Len(t)
  <2>1. /\ t \in Columns /\ e \in Columns /\ T[k] = t \o e /\ records[k] \in Records
        /\ n \in Nat /\ Len(e) \in Nat /\ Len(T[k]) = n + Len(e) /\ T[k] \in Columns
    BY TextStep
  <2>2. t \in Seq(Chars) /\ e \in Seq(Chars) /\ T[k] \in Seq(Chars)
    BY <2>1 DEF Columns
  <2>3. k - 1 \in 0 .. N /\ k \in 0 .. N /\ k \in 1 .. k /\ k \in 0 .. k  BY <1>1
  <2>4. Good(k - 1)  BY <1>3
  <2>5. /\ CsvStart \in States /\ SubSeq(records, 1, k - 1) \in Seq(Rows)
        /\ After(CsvStart, t) = LineState(SubSeq(records, 1, k - 1))
    BY <2>3, TextRun
  <2> DEFINE R == SubSeq(records, 1, k - 1)
  <2>6. PICK a \in Columns, b \in Columns : records[k] = <<a, Number, b>> /\
           \A i \in 1 .. Len(e) - 1 :
              After(LineState(R), SubSeq(e, 1, i)) \in Inside(a, b, R)
    BY <2>1, <2>5, RecordRun
  <2> HIDE DEF e, n, R, I
  <2>7. ASSUME NEW p \in 0 .. Len(T[k])
        PROVE  \/ \E j \in 0 .. k : EndsAt(records, k, p, j)
               \/ \E j \in 1 .. k : IsWithin(records, k, p, j)
    <3>1. CASE p <= n
      <4>1. p \in 0 .. n  BY <3>1, <2>1
      <4>2. SubSeq(T[k], 1, p) = SubSeq(t, 1, p)
        BY <4>1, <2>1, <2>2, PrefixInFirst DEF n
      <4>3. \A j \in 0 .. k - 1 : j \in 0 .. k  BY <1>1
      <4>4. \A j \in 1 .. k - 1 : j \in 1 .. k  BY <1>1
      <4>5. \A j : EndsAt(records, k - 1, p, j) => EndsAt(records, k, p, j)
        BY <4>2 DEF EndsAt
      <4>6. \A j : IsWithin(records, k - 1, p, j) => IsWithin(records, k, p, j)
        BY <4>2 DEF IsWithin
      <4>7. \/ \E j \in 0 .. k - 1 : EndsAt(records, k - 1, p, j)
            \/ \E j \in 1 .. k - 1 : IsWithin(records, k - 1, p, j)
        BY <4>1, <2>4 DEF n
      <4> QED  BY <4>3, <4>4, <4>5, <4>6, <4>7
    <3>2. CASE p > n
      <4> DEFINE i == p - n
      <4>1. i \in 1 .. Len(e) /\ i \in 0 .. Len(e) /\ p = n + i  BY <3>2, <2>1
      <4> HIDE DEF i
      <4>2. SubSeq(T[k], 1, p) = t \o SubSeq(e, 1, i)
        <5>1. /\ t \in Seq(Chars) /\ e \in Seq(Chars) /\ i \in 0 .. Len(e)
              /\ p = Len(t) + i /\ T[k] = t \o e
          BY <4>1, <2>1, <2>2 DEF n
        <5> HIDE DEF t, e, n
        <5>2. SubSeq(t \o e, 1, Len(t) + i) = t \o SubSeq(e, 1, i)
          BY <5>1, PrefixInSecond
        <5> QED  BY <5>1, <5>2
      <4>3. CASE i = Len(e)
        <5>1. SubSeq(e, 1, i) = e  BY <4>1, <4>3, <2>2, Prefix
        <5>2. EndsAt(records, k, p, k)
          BY <5>1, <4>1, <4>2, <4>3, <2>1 DEF EndsAt
        <5> QED  BY <5>2, <2>3
      <4>4. CASE i # Len(e)
        <5>1. i \in 1 .. Len(e) - 1  BY <4>1, <4>4, <2>1
        <5>2. SubSeq(e, 1, i) \in Columns  BY <4>1, <2>2, Prefix DEF Columns
        <5>3. After(CsvStart, t \o SubSeq(e, 1, i)) = After(After(CsvStart, t), SubSeq(e, 1, i))
          BY <5>2, <2>1, <2>5, AfterConcat
        <5>4. After(CsvStart, SubSeq(T[k], 1, p)) \in Inside(a, b, R)
          BY <5>1, <5>3, <4>2, <2>5, <2>6 DEF R
        <5>5. IsWithin(records, k, p, k)  BY <5>4, <2>6 DEF IsWithin, R
        <5> QED  BY <5>5, <2>3
      <4> QED  BY <4>3, <4>4
    <3> QED  BY <3>1, <3>2, <2>1
  <2>8. Good(k)  BY <2>7
  <2> QED  BY <2>3, <2>8 DEF I
<1>4. \A k \in 0 .. N : k \in I
  <2> HIDE DEF I, N
  <2> QED  BY <1>1, <1>2, <1>3, Induction
<1> QED  BY <1>4

\* The reader meets no error in a text of records, is between two rows exactly
\* where a record ends, and goes from place to place by its steps.
LEMMA StatesAlong ==
  ASSUME NEW records \in Seq(Records), NEW p \in 0 .. Len(Texts(records)[Len(records)])
  PROVE  LET t == Texts(records)[Len(records)]
             s == After(CsvStart, SubSeq(t, 1, p))
         IN  /\ t \in Columns
             /\ s \in States /\ s.st # "error"
             /\ s.st = "line" => \E j \in 0 .. Len(records) : EndsAt(records, Len(records), p, j)
             /\ p > 0 => /\ t[p] \in Chars
                         /\ s = CsvStep(After(CsvStart, SubSeq(t, 1, p - 1)), t[p])
<1> DEFINE N == Len(records)
           t == Texts(records)[N]
           s == After(CsvStart, SubSeq(t, 1, p))
<1>1. N \in 0 .. N  OBVIOUS
<1>2. CsvStart \in States /\ t \in Columns  BY <1>1, TextRun
<1>3. t \in Seq(Chars) /\ Len(t) \in Nat /\ "q" \in Chars  BY <1>2 DEF Columns, Chars
<1>4. SubSeq(t, 1, p) \in Columns  BY <1>3, Prefix DEF Columns
<1>5. s \in States  BY <1>2, <1>3, <1>4, AfterAppend
<1>6. /\ s.st # "error"
      /\ s.st = "line" => \E j \in 0 .. N : EndsAt(records, N, p, j)
  <2>1. \/ \E j \in 0 .. N : EndsAt(records, N, p, j)
        \/ \E j \in 1 .. N : IsWithin(records, N, p, j)
    BY <1>1, Positions
  <2>2. ASSUME NEW j \in 0 .. N, EndsAt(records, N, p, j)  PROVE s.st = "line"
    <3>1. s = LineState(SubSeq(records, 1, j))  BY <2>2, TextRun DEF EndsAt
    <3> QED  BY <3>1, CsvParts DEF LineState
  <2>3. ASSUME NEW j \in 1 .. N, IsWithin(records, N, p, j)
        PROVE  s.st # "error" /\ s.st # "line"
    <3>1. PICK a \in Columns, b \in Columns : s \in Inside(a, b, SubSeq(records, 1, j - 1))
      BY <2>3 DEF IsWithin
    <3> HIDE DEF s
    <3> QED  BY <3>1, CsvParts DEF Inside, InField
  <2> HIDE DEF s
  <2> QED  BY <2>1, <2>2, <2>3
<1>7. ASSUME p > 0
      PROVE  t[p] \in Chars /\ s = CsvStep(After(CsvStart, SubSeq(t, 1, p - 1)), t[p])
  <2>1. p \in 1 .. Len(t) /\ p - 1 \in 0 .. Len(t)  BY <1>3, <1>7
  <2>2. t[p] \in Chars  BY <2>1, <1>3
  <2>3. SubSeq(t, 1, p) = Append(SubSeq(t, 1, p - 1), t[p])  BY <2>1, <1>3, PrefixAppend
  <2>4. SubSeq(t, 1, p - 1) \in Columns  BY <2>1, <1>3, Prefix DEF Columns
  <2> HIDE DEF t
  <2>5. After(CsvStart, Append(SubSeq(t, 1, p - 1), t[p])) =
           CsvStep(After(CsvStart, SubSeq(t, 1, p - 1)), t[p])
    BY <1>2, <2>2, <2>4, AfterAppend
  <2> QED  BY <2>2, <2>3, <2>5
<1> QED  BY <1>2, <1>5, <1>6, <1>7

\* A sequence without its first elements.
LEMMA Suffix ==
  ASSUME NEW S, NEW e \in Seq(S), NEW j \in 0 .. Len(e)
  PROVE  /\ SubSeq(e, j + 1, Len(e)) \in Seq(S)
         /\ Len(SubSeq(e, j + 1, Len(e))) = Len(e) - j
         /\ \A i \in 1 .. Len(e) - j : SubSeq(e, j + 1, Len(e))[i] = e[j + i]
<1> DEFINE n == Len(e)
<1>1. n \in Nat /\ \A i \in 1 .. n : e[i] \in S  OBVIOUS
<1>2. ASSUME NEW i \in j + 1 .. n  PROVE e[i] \in S  BY <1>1
<1>3. j + 1 \in Nat /\ n - (j + 1) + 1 = n - j  BY <1>1
<1>4. CASE j = n
  <2>1. SubSeq(e, j + 1, n) = <<>>  BY <1>4, <1>1
  <2> QED  BY <2>1, <1>1, <1>4
<1>5. CASE j < n
  <2> DEFINE m == j + 1
             x == SubSeq(e, m, n)
  <2>1. m \in Int /\ n \in Int /\ m <= n /\ (n - m) + 1 = n - j  BY <1>1, <1>5
  <2>2. \A i \in m .. n : e[i] \in S  BY <1>2
  <2> HIDE DEF m, n
  <2>3. /\ x \in Seq(S) /\ Len(x) = IF m <= n THEN n - m + 1 ELSE 0
        /\ \A i \in 1 .. n - m + 1 : x[i] = e[m + i - 1]
    BY <2>1, <2>2, SubSeqProperties
  <2> HIDE DEF x
  <2>4. Len(x) = n - j /\ \A i \in 1 .. n - j : x[i] = e[m + i - 1]  BY <2>1, <2>3
  <2>5. \A i \in 1 .. n - j : m + i - 1 = j + i  BY <1>1 DEF m
  <2>6. \A i \in 1 .. n - j : x[i] = e[j + i]  BY <2>4, <2>5
  <2> QED  BY <2>3, <2>4, <2>6 DEF x, n, m
<1> QED  BY <1>1, <1>4, <1>5

\* The second of two pieces.
LEMMA SuffixIsSecond ==
  ASSUME NEW S, NEW d \in Seq(S), NEW e \in Seq(S)
  PROVE  SubSeq(d \o e, Len(d) + 1, Len(d \o e)) = e
<1> DEFINE c == d \o e
           n == Len(d)
           a == SubSeq(c, n + 1, Len(c))
<1>1. /\ c \in Seq(S) /\ Len(c) = n + Len(e) /\ n \in Nat /\ Len(e) \in Nat
      /\ \A i \in 1 .. Len(e) : c[n + i] = e[i]
  OBVIOUS
<1> HIDE DEF c
<1>2. n \in 0 .. Len(c) /\ Len(c) - n = Len(e)  BY <1>1
<1>3. a \in Seq(S) /\ Len(a) = Len(e) /\ \A i \in 1 .. Len(e) : a[i] = c[n + i]
  <2> HIDE DEF n
  <2> QED  BY <1>1, <1>2, Suffix
<1> HIDE DEF a
<1>4. a = e  BY <1>1, <1>3, SeqEqual
<1> QED  BY <1>4 DEF a, c

\* Three pieces.
LEMMA Regrouped ==
  ASSUME NEW c \in Columns, NEW d \in Columns, NEW e \in Columns
  PROVE  (c \o d) \o e = c \o (d \o e)
<1>1. c \in Seq(Chars) /\ d \in Seq(Chars) /\ e \in Seq(Chars)  BY DEF Columns
<1> QED  BY <1>1, ConcatAssociative

\* The text of the records after the first j follows that of the first j.
LEMMA TextSplit ==
  ASSUME NEW records \in Seq(Records), NEW j \in 0 .. Len(records)
  PROVE  LET N == Len(records)
             after == SubSeq(records, j + 1, N)
             t == Texts(records)[N]
             d == Texts(records)[j]
             e == Texts(after)[N - j]
         IN  /\ after \in Seq(Records) /\ Len(after) = N - j
             /\ t \in Columns /\ d \in Columns /\ e \in Columns
             /\ t = d \o e /\ Len(t) = Len(d) + Len(e) /\ Len(d) \in Nat /\ Len(e) \in Nat
             /\ j < N => Len(e) > 1
<1> DEFINE N == Len(records)
           M == N - j
           T == Texts(records)
           rest == SubSeq(records, j + 1, N)
           U == Texts(rest)
           I == {i \in 0 .. M : T[j + i] = T[j] \o U[i]}
<1>1. N \in Nat /\ M \in Nat /\ j + M = N  OBVIOUS
<1>2. rest \in Seq(Records) /\ Len(rest) = M /\ \A i \in 1 .. M : rest[i] = records[j + i]
  BY Suffix
<1> HIDE DEF rest
<1>3. \A i \in 0 .. N : T[i] \in Columns  BY TextRun
<1>4. \A i \in 0 .. M : U[i] \in Columns
  <2> HIDE DEF M
  <2> QED  BY <1>2, TextRun
<1>5. 0 \in I
  <2>1. U[0] = <<>>  BY <1>2, TextsMeaning
  <2>2. j + 0 = j /\ 0 \in 0 .. M  BY <1>1
  <2>3. T[j] \o <<>> = T[j]  BY <1>3 DEF Columns
  <2> HIDE DEF T, U, M
  <2> QED  BY <2>1, <2>2, <2>3
<1>6. ASSUME NEW i \in 1 .. M, i - 1 \in I  PROVE i \in I
  <2> DEFINE e == Encoded(rest[i])
  <2>1. i \in 0 .. M /\ i - 1 \in 0 .. M /\ j + i \in 1 .. N /\ (j + i) - 1 = j + (i - 1)
    BY <1>1
  <2>2. U[i] = U[i - 1] \o e /\ e \in Columns /\ U[i - 1] \in Columns
    <3> HIDE DEF M
    <3> QED  BY <1>2, TextStep
  <2>3. T[j + i] = T[j + (i - 1)] \o e
    <3>1. T[j + i] = T[(j + i) - 1] \o Encoded(records[j + i])
      BY <2>1, TextStep
    <3> QED  BY <3>1, <2>1, <1>2
  <2>4. T[j + (i - 1)] = T[j] \o U[i - 1]  BY <1>6
  <2>5. T[j] \in Columns  BY <1>3
  <2> HIDE DEF T, U, M, e, I
  <2>6. (T[j] \o U[i - 1]) \o e = T[j] \o (U[i - 1] \o e)
    BY <2>2, <2>5, Regrouped
  <2> QED  BY <2>1, <2>2, <2>3, <2>4, <2>6 DEF I
<1>7. M \in I
  <2> HIDE DEF I, M
  <2>1. \A n \in 0 .. M : n \in I  BY <1>1, <1>5, <1>6, Induction
  <2> QED  BY <2>1, <1>1
<1>8. T[N] = T[j] \o U[M]  BY <1>1, <1>7
<1>9. T[N] \in Columns /\ T[j] \in Columns /\ U[M] \in Columns  BY <1>1, <1>3, <1>4
<1>10. /\ Len(T[N]) = Len(T[j]) + Len(U[M])
       /\ Len(T[j]) \in Nat /\ Len(U[M]) \in Nat
  <2> HIDE DEF T, U, M, N
  <2> QED  BY <1>8, <1>9 DEF Columns
<1>11. ASSUME j < N  PROVE Len(U[M]) > 1
  <2>1. M \in 1 .. M  BY <1>1, <1>11
  <2>2. /\ Len(Encoded(rest[M])) > 1 /\ Len(Encoded(rest[M])) \in Nat
        /\ Len(U[M]) = Len(U[M - 1]) + Len(Encoded(rest[M]))
        /\ Len(U[M - 1]) \in Nat
    <3> HIDE DEF M
    <3> QED  BY <2>1, <1>2, TextStep
  <2> DEFINE x == Len(Encoded(rest[M]))
             y == Len(U[M - 1])
             z == Len(U[M])
  <2>3. x > 1 /\ x \in Nat /\ z = y + x /\ y \in Nat  BY <2>2
  <2> HIDE DEF x, y, z
  <2>4. z > 1  BY <2>3
  <2> QED  BY <2>4 DEF z
<1> QED  BY <1>2, <1>8, <1>9, <1>10, <1>11 DEF rest

\* The lengths of the texts of the first records increase; a text of records
\* ends in a newline.
LEMMA TextsGrow ==
  ASSUME NEW records \in Seq(Records), NEW j \in 0 .. Len(records)
  PROVE  /\ Len(Texts(records)[j]) \in Nat
         /\ \A i \in 0 .. Len(records) : i < j =>
               Len(Texts(records)[i]) < Len(Texts(records)[j])
         /\ j > 0 => Texts(records)[j][Len(Texts(records)[j])] = "n"
<1> DEFINE T == Texts(records)
           N == Len(records)
           L(i) == Len(T[i])
           I == {i \in 0 .. N : \A h \in 0 .. N : h < i => L(h) < L(i)}
<1>1. N \in Nat  OBVIOUS
<1>2. \A i \in 0 .. N : T[i] \in Columns /\ L(i) \in Nat  BY TextRun DEF Columns
<1>3. 0 \in I  BY <1>1
<1>4. ASSUME NEW i \in 1 .. N, i - 1 \in I  PROVE i \in I
  <2>1. /\ L(i - 1) \in Nat /\ Len(Encoded(records[i])) \in Nat /\ Len(Encoded(records[i])) > 1
        /\ L(i) = L(i - 1) + Len(Encoded(records[i]))
    BY TextStep
  <2>2. i \in 0 .. N /\ i - 1 \in 0 .. N  BY <1>1
  <2>3. \A h \in 0 .. N : h < i - 1 => L(h) < L(i - 1)  BY <1>4
  <2>4. ASSUME NEW h \in 0 .. N, h < i  PROVE L(h) < L(i)
    <3>1. h = i - 1 \/ h < i - 1  BY <2>4
    <3>2. L(h) \in Nat  BY <1>2
    <3> HIDE DEF L
    <3> QED  BY <3>1, <3>2, <2>1, <2>3
  <2> QED  BY <2>2, <2>4
<1>5. \A i \in 0 .. N : i \in I
  <2> HIDE DEF I, N
  <2> QED  BY <1>1, <1>3, <1>4, Induction
<1>6. ASSUME j > 0  PROVE T[j][L(j)] = "n"
  <2> DEFINE e == Encoded(records[j])
             d == T[j - 1]
  <2>1. j \in 1 .. N  BY <1>6
  <2>2. /\ d \in Columns /\ e \in Columns /\ Len(e) \in Nat /\ Len(e) > 1 /\ e[Len(e)] = "n"
        /\ T[j] = d \o e /\ L(j) = Len(d) + Len(e) /\ Len(d) \in Nat
    BY <2>1, TextStep
  <2>3. (d \o e)[Len(d) + Len(e)] = e[Len(e)]
    <3> HIDE DEF d, e
    <3>1. d \in Seq(Chars) /\ e \in Seq(Chars)  BY <2>2 DEF Columns
    <3> QED  BY <3>1, <2>2
  <2> QED  BY <2>2, <2>3
<1> QED  BY <1>2, <1>5, <1>6

-----------------------------------------------------------------------------
(* The boundary that the reader finds from the end.                         *)

\* A quote, and nothing else, opens or closes; a newline outside ends the row.
LEMMA StepQuotes ==
  ASSUME NEW s \in States, NEW c \in Chars, s.st # "error", CsvStep(s, c).st # "error"
  PROVE  /\ c = "q" => (CsvStep(s, c).st = "quoted" <=> s.st # "quoted")
         /\ c # "q" => (CsvStep(s, c).st = "quoted" <=> s.st = "quoted")
         /\ c = "n" => CsvStep(s, c).st \in {"quoted", "line"}
<1>1. s.st \in {"line", "start", "plain", "quoted", "closing", "error"}  BY DEF States
<1>2. \A st : Goto(s, st).st = st /\ AddTo(s, st, c).st = st
  BY CsvParts DEF Goto, AddTo
<1>3. EndField(s).st = "start" /\ EndRow(s).st = "line"  BY CsvParts DEF EndField, EndRow
<1>4. CASE c = "q"  BY <1>1, <1>2, <1>3, <1>4 DEF CsvStep
<1>5. CASE c # "q"  BY <1>1, <1>2, <1>3, <1>5 DEF CsvStep
<1> QED  BY <1>4, <1>5

\* The quotes from a place on.
QuotesFrom(data, k) == {i \in k .. Len(data) : data[i] = "q"}

\* One character more at the front.
LEMMA QuotesStep ==
  ASSUME NEW data \in Columns, NEW k \in 1 .. Len(data),
         IsFiniteSet(QuotesFrom(data, k + 1))
  PROVE  LET c == Cardinality(QuotesFrom(data, k))
             d == Cardinality(QuotesFrom(data, k + 1))
         IN  /\ IsFiniteSet(QuotesFrom(data, k)) /\ c \in Nat /\ d \in Nat
             /\ data[k] = "q" => (c % 2 = 0 <=> d % 2 # 0)
             /\ data[k] # "q" => c = d
<1> DEFINE A == QuotesFrom(data, k)
           B == QuotesFrom(data, k + 1)
<1>1. Len(data) \in Nat  BY DEF Columns
<1>2. Cardinality(B) \in Nat  BY FS_CardinalityType
<1>3. \A i : i \in k .. Len(data) <=> i = k \/ i \in k + 1 .. Len(data)  BY <1>1
<1>4. k \notin k + 1 .. Len(data)  BY <1>1
<1>5. CASE data[k] = "q"
  <2>1. A = B \cup {k} /\ k \notin B  BY <1>3, <1>4, <1>5 DEF QuotesFrom
  <2> HIDE DEF A, B
  <2>2. IsFiniteSet(A) /\ Cardinality(A) = Cardinality(B) + 1
    <3>1. IsFiniteSet(B)  BY DEF B
    <3> QED  BY <2>1, <3>1, FS_AddElement
  <2> DEFINE d == Cardinality(B)
  <2>3. d \in Nat  BY <1>2
  <2> HIDE DEF d
  <2>4. (d + 1) % 2 = 0 <=> d % 2 # 0  BY <2>3
  <2> QED  BY <2>2, <2>3, <2>4, <1>5 DEF d, A, B
<1>6. CASE data[k] # "q"
  <2>1. A = B  BY <1>3, <1>4, <1>6 DEF QuotesFrom
  <2> QED  BY <2>1, <1>2, <1>6
<1> QED  BY <1>5, <1>6

\* The window of a text from the place L on: an even number of quotes follows
\* exactly where the reader of the whole text is not in a quoted column.
LEMMA Parity ==
  ASSUME NEW records \in Seq(Records),
         NEW L \in 0 .. Len(Texts(records)[Len(records)])
  PROVE  LET t == Texts(records)[Len(records)]
             data == SubSeq(t, L + 1, Len(t))
         IN  \A k \in 1 .. Len(data) + 1 :
                Cardinality(QuotesFrom(data, k)) % 2 = 0
                  <=> After(CsvStart, SubSeq(t, 1, L + k - 1)).st # "quoted"
<1> DEFINE N == Len(records)
           t == Texts(records)[N]
           data == SubSeq(t, L + 1, Len(t))
           M == Len(data)
           S(p) == After(CsvStart, SubSeq(t, 1, p))
           C(k) == Cardinality(QuotesFrom(data, k))
           Even(k) == C(k) % 2 = 0
           I == {m \in 0 .. M : LET k == M + 1 - m
                                IN  /\ IsFiniteSet(QuotesFrom(data, k))
                                    /\ Even(k) <=> S(L + k - 1).st # "quoted"}
<1>1. t \in Columns /\ Len(t) \in Nat
  <2>1. N \in 0 .. N  OBVIOUS
  <2> QED  BY <2>1, TextRun DEF Columns
<1>2. /\ data \in Columns /\ M = Len(t) - L /\ M \in Nat /\ L \in Nat
      /\ \A i \in 1 .. M : data[i] = t[L + i]
  <2>1. /\ data \in Seq(Chars) /\ Len(data) = Len(t) - L
        /\ \A i \in 1 .. Len(t) - L : data[i] = t[L + i]
    <3>1. t \in Seq(Chars) /\ L \in 0 .. Len(t)  BY <1>1 DEF Columns
    <3> HIDE DEF t
    <3> QED  BY <3>1, Suffix
  <2> HIDE DEF t, data
  <2> QED  BY <2>1, <1>1 DEF Columns
<1>3. \A p \in 0 .. Len(t) :
         /\ S(p) \in States /\ S(p).st # "error"
         /\ p > 0 => t[p] \in Chars /\ S(p) = CsvStep(S(p - 1), t[p])
  BY StatesAlong
<1>4. S(Len(t)).st = "line"
  <2>1. N \in 0 .. N  OBVIOUS
  <2>2. SubSeq(t, 1, Len(t)) = t
    <3>1. t \in Seq(Chars) /\ Len(t) \in 0 .. Len(t)  BY <1>1 DEF Columns
    <3> QED  BY <3>1, Prefix
  <2>3. S(Len(t)) = LineState(SubSeq(records, 1, N))  BY <2>1, <2>2, TextRun
  <2> QED  BY <2>3, CsvParts DEF LineState
<1> HIDE DEF t, data, M, S
<1>5. 0 \in I
  <2>1. QuotesFrom(data, M + 1) = {}
    <3>1. \A i \in M + 1 .. M : FALSE  BY <1>2
    <3> QED  BY <3>1 DEF QuotesFrom, M
  <2>2. IsFiniteSet(QuotesFrom(data, M + 1)) /\ C(M + 1) = 0
    BY <2>1, FS_EmptySet
  <2>3. Even(M + 1)  BY <2>2
  <2>4. M + 1 - 0 = M + 1 /\ L + (M + 1) - 1 = Len(t) /\ 0 \in 0 .. M  BY <1>2, <1>1
  <2>5. S(L + (M + 1) - 1).st # "quoted"  BY <2>4, <1>4
  <2> HIDE DEF Even, C
  <2> QED  BY <2>2, <2>3, <2>4, <2>5
<1>6. ASSUME NEW m \in 1 .. M, m - 1 \in I  PROVE m \in I
  <2> DEFINE k == M + 1 - m
             p == L + k
  <2>1. /\ k \in 1 .. M /\ M + 1 - (m - 1) = k + 1 /\ L + (k + 1) - 1 = p
        /\ p \in 1 .. Len(t) /\ p \in 0 .. Len(t) /\ p - 1 \in 0 .. Len(t) /\ p > 0
        /\ L + k - 1 = p - 1 /\ m \in 0 .. M
    BY <1>1, <1>2
  <2>2. IsFiniteSet(QuotesFrom(data, k + 1)) /\ (Even(k + 1) <=> S(p).st # "quoted")
    <3> HIDE DEF Even, k, p
    <3>1. LET h == M + 1 - (m - 1)
          IN  /\ IsFiniteSet(QuotesFrom(data, h))
              /\ Even(h) <=> S(L + h - 1).st # "quoted"
      BY <1>6 DEF k
    <3> QED  BY <2>1, <3>1
  <2>3. data[k] = t[p]  BY <2>1, <1>2
  <2> HIDE DEF k, p, I
  <2>4. /\ S(p) \in States /\ S(p).st # "error" /\ S(p - 1) \in States
        /\ S(p - 1).st # "error" /\ t[p] \in Chars /\ S(p) = CsvStep(S(p - 1), t[p])
    BY <2>1, <1>3
  <2>5. /\ IsFiniteSet(QuotesFrom(data, k))
        /\ data[k] = "q" => (C(k) % 2 = 0 <=> C(k + 1) % 2 # 0)
        /\ data[k] # "q" => C(k) = C(k + 1)
    BY <2>1, <2>2, <1>2, QuotesStep DEF M
  <2>6. /\ t[p] = "q" => (S(p).st = "quoted" <=> S(p - 1).st # "quoted")
        /\ t[p] # "q" => (S(p).st = "quoted" <=> S(p - 1).st = "quoted")
    BY <2>4, StepQuotes
  <2>7. Even(k) <=> S(p - 1).st # "quoted"
    <3> HIDE DEF C
    <3> QED  BY <2>2, <2>3, <2>5, <2>6
  <2> HIDE DEF Even
  <2>8. S(L + k - 1).st = S(p - 1).st  BY <2>1
  <2> QED  BY <2>1, <2>5, <2>7, <2>8 DEF I, k
<1>7. \A m \in 0 .. M : m \in I
  <2> HIDE DEF I
  <2> QED  BY <1>2, <1>5, <1>6, Induction
<1>8. ASSUME NEW k \in 1 .. M + 1  PROVE Even(k) <=> S(L + k - 1).st # "quoted"
  <2> DEFINE m == M + 1 - k
  <2>1. m \in 0 .. M /\ M + 1 - m = k  BY <1>2
  <2>2. m \in I  BY <2>1, <1>7
  <2> HIDE DEF m, Even
  <2> QED  BY <2>1, <2>2
<1> QED  BY <1>8 DEF S, t, data, M

\* The ends of records are at their places in the whole text.
LEMMA EndIsPlace ==
  ASSUME NEW records \in Seq(Records), NEW j \in 0 .. Len(records)
  PROVE  LET N == Len(records)
             t == Texts(records)[N]
             p == Len(Texts(records)[j])
         IN  /\ p \in 0 .. Len(t) /\ EndsAt(records, N, p, j)
             /\ j > 0 => p > 0 /\ t[p] = "n"
             /\ After(CsvStart, SubSeq(t, 1, p)).st = "line"
<1> DEFINE N == Len(records)
           t == Texts(records)[N]
           d == Texts(records)[j]
           e == Texts(SubSeq(records, j + 1, N))[N - j]
           p == Len(d)
<1>1. /\ t \in Columns /\ d \in Columns /\ e \in Columns /\ t = d \o e
      /\ Len(t) = Len(d) + Len(e) /\ Len(d) \in Nat /\ Len(e) \in Nat
  BY TextSplit
<1>2. After(CsvStart, d) = LineState(SubSeq(records, 1, j))  BY TextRun
<1>3. p > 0 => d[p] = "n"
  <2>1. j > 0 => d[p] = "n"  BY TextsGrow
  <2>2. j = 0 => p = 0
    <3>1. Texts(records)[0] = <<>>  BY TextsMeaning
    <3> QED  BY <3>1
  <2>3. j \in Nat  OBVIOUS
  <2> QED  BY <2>1, <2>2, <2>3
<1>4. j > 0 => p > 0
  <2>1. 0 \in 0 .. N /\ Len(Texts(records)[0]) \in Nat
    <3>1. 0 \in 0 .. N  OBVIOUS
    <3> QED  BY <3>1, TextsGrow
  <2>2. j > 0 => Len(Texts(records)[0]) < p  BY <2>1, TextsGrow
  <2> HIDE DEF p
  <2>3. p \in Nat  BY <1>1 DEF p
  <2> QED  BY <2>1, <2>2, <2>3
<1> HIDE DEF t, d, e
<1>5. p \in 0 .. Len(t)  BY <1>1
<1>6. SubSeq(t, 1, p) = d
  <2>1. d \in Seq(Chars) /\ e \in Seq(Chars) /\ Len(d) \in 0 .. Len(d)
    BY <1>1 DEF Columns
  <2>2. SubSeq(d \o e, 1, Len(d)) = SubSeq(d, 1, Len(d))  BY <2>1, PrefixInFirst
  <2>3. SubSeq(d, 1, Len(d)) = d  BY <2>1, Prefix
  <2> QED  BY <1>1, <2>2, <2>3
<1>7. p > 0 => t[p] = d[p]
  <2>1. d \in Seq(Chars) /\ e \in Seq(Chars)  BY <1>1 DEF Columns
  <2> QED  BY <2>1, <1>1
<1>8. After(CsvStart, SubSeq(t, 1, p)).st = "line"
  <2>1. After(CsvStart, SubSeq(t, 1, p)) = LineState(SubSeq(records, 1, j))
    BY <1>2, <1>6
  <2>2. LineState(SubSeq(records, 1, j)).st = "line"  BY CsvParts DEF LineState
  <2> QED  BY <2>1, <2>2
<1>9. EndsAt(records, N, p, j)  BY <1>6 DEF EndsAt, t, d
<1> QED  BY <1>3, <1>4, <1>5, <1>7, <1>8, <1>9 DEF t, d

\* The safe boundaries of a window are the starts of records in it.
LEMMA Boundaries ==
  ASSUME NEW records \in Seq(Records),
         NEW L \in 1 .. Len(Texts(records)[Len(records)])
  PROVE  LET N == Len(records)
             t == Texts(records)[N]
             data == SubSeq(t, L + 1, Len(t))
         IN  \A k \in 2 .. Len(data) :
                k \in FirstSafeBoundary(data)
                  <=> \E j \in 0 .. N : Len(Texts(records)[j]) = L + k - 1
<1> DEFINE N == Len(records)
           t == Texts(records)[N]
           data == SubSeq(t, L + 1, Len(t))
           M == Len(data)
           S(p) == After(CsvStart, SubSeq(t, 1, p))
<1>1. t \in Columns /\ Len(t) \in Nat
  <2>1. N \in 0 .. N  OBVIOUS
  <2> QED  BY <2>1, TextRun DEF Columns
<1>2. /\ M = Len(t) - L /\ M \in Nat /\ L \in Nat
      /\ \A i \in 1 .. M : data[i] = t[L + i]
  <2>1. /\ data \in Seq(Chars) /\ Len(data) = Len(t) - L
        /\ \A i \in 1 .. Len(t) - L : data[i] = t[L + i]
    <3>1. t \in Seq(Chars) /\ L \in 0 .. Len(t)  BY <1>1 DEF Columns
    <3> HIDE DEF t
    <3> QED  BY <3>1, Suffix
  <2> HIDE DEF t, data
  <2> QED  BY <2>1, <1>1
<1>3. SUFFICES ASSUME NEW k \in 2 .. M
               PROVE  k \in FirstSafeBoundary(data)
                        <=> \E j \in 0 .. N : Len(Texts(records)[j]) = L + k - 1
  OBVIOUS
<1> DEFINE p == L + k - 1
<1>4. /\ p \in 1 .. Len(t) /\ p \in 0 .. Len(t) /\ p - 1 \in 0 .. Len(t) /\ p > 0
      /\ k - 1 \in 1 .. M /\ L + (k - 1) = p /\ k \in 1 .. M + 1
  BY <1>1, <1>2
<1>5. data[k - 1] = t[p]
  <2> HIDE DEF data, M, t, p
  <2> QED  BY <1>2, <1>4
<1>6. Cardinality(QuotesFrom(data, k)) % 2 = 0 <=> S(p).st # "quoted"
  <2>1. L \in 0 .. Len(t)  BY <1>1
  <2>2. \A h \in 1 .. M + 1 : Cardinality(QuotesFrom(data, h)) % 2 = 0
                               <=> S(L + h - 1).st # "quoted"
    BY <2>1, Parity
  <2> HIDE DEF data, M, t, S
  <2> QED  BY <1>4, <2>2
<1>7. k \in FirstSafeBoundary(data) <=> t[p] = "n" /\ S(p).st # "quoted"
  <2>1. k \in FirstSafeBoundary(data) <=>
           data[k - 1] = "n" /\ Cardinality(QuotesFrom(data, k)) % 2 = 0
    <3> HIDE DEF data
    <3> QED  BY DEF FirstSafeBoundary, QuotesFrom, M
  <2> HIDE DEF data, M, t, S, p
  <2> QED  BY <2>1, <1>5, <1>6
<1>8. ASSUME t[p] = "n", S(p).st # "quoted"
      PROVE  \E j \in 0 .. N : Len(Texts(records)[j]) = p
  <2>1. /\ S(p) \in States /\ S(p).st # "error" /\ t[p] \in Chars
        /\ S(p) = CsvStep(S(p - 1), t[p])
        /\ S(p).st = "line" => \E j \in 0 .. N : EndsAt(records, N, p, j)
    BY <1>4, StatesAlong
  <2>2. S(p - 1) \in States /\ S(p - 1).st # "error"  BY <1>4, StatesAlong
  <2> HIDE DEF S, t, p
  <2>3. S(p).st = "line"  BY <1>8, <2>1, <2>2, StepQuotes
  <2> QED  BY <2>1, <2>3 DEF EndsAt
<1>9. ASSUME NEW j \in 0 .. N, Len(Texts(records)[j]) = p
      PROVE  t[p] = "n" /\ S(p).st # "quoted"
  <2>1. j > 0
    <3>1. Len(Texts(records)[0]) = 0
      <4>1. Texts(records)[0] = <<>>  BY TextsMeaning
      <4> QED  BY <4>1
    <3>2. j \in Nat  OBVIOUS
    <3> QED  BY <3>1, <3>2, <1>4, <1>9
  <2> HIDE DEF p
  <2> QED  BY <2>1, <1>9, EndIsPlace
<1> HIDE DEF t, data, S, p
<1>10. k \in FirstSafeBoundary(data) <=> \E j \in 0 .. N : Len(Texts(records)[j]) = p
  BY <1>7, <1>8, <1>9
<1> QED  BY <1>10 DEF p

-----------------------------------------------------------------------------
(* What is made of the rows.                                                *)

Keep(rows, row) == IF IsBlank(row) THEN rows ELSE Append(rows, row)

\* One row after another.
LEMMA RowsKept ==
  ASSUME NEW N \in Nat, NEW e \in [1 .. N -> Rows]
  PROVE  \E f \in [0 .. N -> Seq(Rows)] :
            f[0] = <<>> /\ \A n \in 1 .. N : f[n] = Keep(f[n - 1], e[n])
<1> DEFINE S == Seq(Rows)
           g == [k \in 1 .. N |-> [s \in S |-> Keep(s, e[k])]]
           a == <<>>
           G == [1 .. N -> [S -> S]]
           Q(h) == \E f \in [0 .. N -> S] :
                      f[0] = a /\ \A n \in 1 .. N : f[n] = h[n][f[n - 1]]
<1>1. a \in S  OBVIOUS
<1>2. ASSUME NEW k \in 1 .. N, NEW s \in S  PROVE Keep(s, e[k]) \in S
  <2>1. e[k] \in Rows  OBVIOUS
  <2> QED  BY <2>1 DEF Keep
<1>3. g \in G
  <2> HIDE DEF S
  <2> QED  BY <1>2
<1>4. Q(g)
  <2> HIDE DEF a, g, S
  <2>1. \A h \in G : Q(h)
    <3> SUFFICES ASSUME NEW h \in G  PROVE Q(h)  OBVIOUS
    <3> QED  BY <1>1, Iterates
  <2> HIDE DEF Q, G
  <2> QED  BY <2>1, <1>3
<1>5. PICK f \in [0 .. N -> S] : f[0] = <<>> /\ \A n \in 1 .. N : f[n] = g[n][f[n - 1]]
  BY <1>4
<1>6. \A n \in 1 .. N : f[n] = Keep(f[n - 1], e[n])
  <2> SUFFICES ASSUME NEW n \in 1 .. N  PROVE f[n] = Keep(f[n - 1], e[n])
    OBVIOUS
  <2> HIDE DEF S
  <2>1. n - 1 \in 0 .. N  OBVIOUS
  <2>2. f[n - 1] \in S /\ f[n] = g[n][f[n - 1]]  BY <2>1, <1>5
  <2> QED  BY <2>2
<1> QED  BY <1>5, <1>6

\* The rows that are not blank, one after another.
LEMMA NotBlankMeaning ==
  ASSUME NEW rows \in Seq(Rows)
  PROVE  /\ NotBlank(rows) \in [0 .. Len(rows) -> Seq(Rows)]
         /\ NotBlank(rows)[0] = <<>>
         /\ \A k \in 1 .. Len(rows) :
               NotBlank(rows)[k] = Keep(NotBlank(rows)[k - 1], rows[k])
<1> DEFINE S == Seq(Rows)
           N == Len(rows)
           Is(f) == f = [k \in 0 .. N |->
                            IF k = 0 THEN <<>> ELSE Keep(f[k - 1], rows[k])]
<1>1. NotBlank(rows) = CHOOSE f : Is(f)  BY DEF NotBlank, Keep
<1>2. N \in Nat /\ <<>> \in S  OBVIOUS
<1>3. ASSUME NEW k \in 1 .. N, NEW s \in S  PROVE Keep(s, rows[k]) \in S
  <2>1. rows[k] \in Rows  OBVIOUS
  <2> QED  BY <2>1 DEF Keep
<1>4. PICK f \in [0 .. N -> S] :
         f[0] = <<>> /\ \A n \in 1 .. N : f[n] = Keep(f[n - 1], rows[n])
  <2> DEFINE c == [k \in 1 .. N |-> rows[k]]
  <2>1. c \in [1 .. N -> Rows]  OBVIOUS
  <2>2. \A n \in 1 .. N : c[n] = rows[n]  OBVIOUS
  <2> HIDE DEF c, N
  <2>3. \E f \in [0 .. N -> Seq(Rows)] :
           f[0] = <<>> /\ \A n \in 1 .. N : f[n] = Keep(f[n - 1], c[n])
    BY <1>2, <2>1, RowsKept
  <2> QED  BY <2>2, <2>3
<1>7. Is(f)
  <2>1. \A n \in 0 .. N : f[n] = IF n = 0 THEN <<>> ELSE Keep(f[n - 1], rows[n])
    <3> HIDE DEF S, N
    <3>1. \A n \in 0 .. N : n = 0 \/ n \in 1 .. N  BY <1>2
    <3> QED  BY <3>1, <1>4
  <2> QED  BY <2>1
<1>8. Is(NotBlank(rows))
  <2> HIDE DEF Is
  <2> QED  BY <1>1, <1>7
<1> DEFINE e == NotBlank(rows)
<1> HIDE DEF e
<1>9. /\ e = [n \in 0 .. N |-> e[n]]
      /\ \A n \in 0 .. N : e[n] = IF n = 0 THEN <<>> ELSE Keep(e[n - 1], rows[n])
  BY <1>8 DEF e
<1> HIDE DEF Is, S, N
<1>10. e[0] = <<>> /\ \A n \in 1 .. N : e[n] = Keep(e[n - 1], rows[n])
  <2>1. 0 \in 0 .. N /\ \A n \in 1 .. N : n \in 0 .. N /\ n # 0  BY <1>2
  <2>2. e[0] = <<>>  BY <2>1, <1>9
  <2>3. ASSUME NEW n \in 1 .. N  PROVE e[n] = Keep(e[n - 1], rows[n])
    BY <2>1, <1>9
  <2> QED  BY <2>2, <2>3
<1> DEFINE I == {n \in 0 .. N : e[n] \in S}
<1>11. \A n \in 0 .. N : n \in I
  <2>1. 0 \in I  BY <1>2, <1>10
  <2>2. ASSUME NEW n \in 1 .. N, n - 1 \in I  PROVE n \in I
    <3>1. n \in 0 .. N /\ e[n - 1] \in S  BY <1>2, <2>2
    <3> QED  BY <3>1, <1>3, <1>10
  <2> HIDE DEF I
  <2> QED  BY <1>2, <2>1, <2>2, Induction
<1>12. e \in [0 .. N -> S]  BY <1>9, <1>11
<1> QED  BY <1>10, <1>12 DEF e, S, N

\* Rows that are not blank are kept.
LEMMA NotBlankKeeps ==
  ASSUME NEW rows \in Seq(Rows), NEW n \in 0 .. Len(rows),
         \A i \in 1 .. n : ~IsBlank(rows[i])
  PROVE  NotBlank(rows)[n] = SubSeq(rows, 1, n)
<1> DEFINE I == {k \in 0 .. n : NotBlank(rows)[k] = SubSeq(rows, 1, k)}
<1>1. n \in Nat /\ Len(rows) \in Nat  OBVIOUS
<1>2. 0 \in I
  <2>1. NotBlank(rows)[0] = <<>>  BY NotBlankMeaning
  <2>2. 0 \in 0 .. n /\ 0 \in 0 .. Len(rows)  BY <1>1
  <2>3. SubSeq(rows, 1, 0) = <<>>  BY <2>2, Prefix
  <2> QED  BY <2>1, <2>2, <2>3
<1>3. ASSUME NEW k \in 1 .. n, k - 1 \in I  PROVE k \in I
  <2>1. k \in 1 .. Len(rows) /\ k \in 0 .. n  BY <1>1
  <2>2. NotBlank(rows)[k] = Keep(NotBlank(rows)[k - 1], rows[k])  BY <2>1, NotBlankMeaning
  <2>3. NotBlank(rows)[k - 1] = SubSeq(rows, 1, k - 1)  BY <1>3
  <2>4. SubSeq(rows, 1, k) = Append(SubSeq(rows, 1, k - 1), rows[k])
    BY <2>1, PrefixAppend
  <2>5. NotBlank(rows)[k] = SubSeq(rows, 1, k)
    BY <2>2, <2>3, <2>4 DEF Keep
  <2> QED  BY <2>1, <2>5
<1>4. \A k \in 0 .. n : k \in I
  <2> HIDE DEF I
  <2> QED  BY <1>1, <1>2, <1>3, Induction
<1>5. n \in 0 .. n  BY <1>1
<1> QED  BY <1>4, <1>5

\* What HistoryInLocation answers, once the rows are known.
Answer(rows) ==
    IF \E i \in DOMAIN rows : ~ParseHistoryRow(rows[i])
    THEN Unreadable ELSE [ok |-> TRUE, rows |-> rows]

\* The row of a record has its columns.
LEMMA RecordRow ==
  ASSUME NEW rec \in Records
  PROVE  rec \in Rows /\ ParseHistoryRow(rec) /\ ~IsBlank(rec)
<1>1. PICK a \in Strings, b \in Strings : rec = <<a, Number, b>>  BY DEF Records
<1>2. Len(rec) = 3 /\ rec[2] = Number  BY <1>1
<1>3. rec \in Rows
  <2>1. <<>> \in Seq(Rows)  OBVIOUS
  <2> QED  BY <2>1, RecordRun
<1> QED  BY <1>2, <1>3 DEF ParseHistoryRow, IsBlank

\* Data that end after a row of records show them.
LEMMA ParseRecords ==
  ASSUME NEW data, NEW records \in Seq(Records),
         After(CsvStart, data) = LineState(records)
  PROVE  ParseHistory(data) = [ok |-> TRUE, rows |-> records]
<1>1. \A i \in DOMAIN records : records[i] \in Records  OBVIOUS
<1>2. records \in Seq(Rows)
  <2>1. \A r \in Records : r \in Rows  BY RecordRow
  <2> QED  BY <2>1
<1>3. Len(records) \in 0 .. Len(records) /\ DOMAIN records = 1 .. Len(records)  OBVIOUS
<1>4. NotBlank(records)[Len(records)] = records
  <2>1. NotBlank(records)[Len(records)] = SubSeq(records, 1, Len(records))
    BY <1>1, <1>2, <1>3, RecordRow, NotBlankKeeps
  <2>2. SubSeq(records, 1, Len(records)) = records  BY <1>3, Prefix
  <2> QED  BY <2>1, <2>2
<1>5. CsvRows(data) = LineState(records)
  <2>1. LineState(records).st = "line"  BY CsvParts DEF LineState
  <2> QED  BY <2>1 DEF CsvRows, After
<1>6. LineState(records).st = "line" /\ LineState(records).rows = records
  BY CsvParts DEF LineState
<1>7. \A i \in DOMAIN records : ParseHistoryRow(records[i])  BY <1>1, RecordRow
<1> HIDE DEF LineState
<1> QED  BY <1>4, <1>5, <1>6, <1>7 DEF ParseHistory

\* Data that end in the row of another record.
LEMMA ParseUnfinished ==
  ASSUME NEW data, NEW records \in Seq(Records), NEW row \in Rows, NEW field \in Columns,
         NEW st \in {"start", "plain", "closing"},
         After(CsvStart, data) = Csv(st, field, row, records)
  PROVE  LET last == Append(row, field)
             read == ParseHistory(data)
         IN  \/ read = Unreadable
             \/ IsBlank(last) /\ read = [ok |-> TRUE, rows |-> records]
             \/ ParseHistoryRow(last) /\ read = [ok |-> TRUE, rows |-> Append(records, last)]
<1> DEFINE last == Append(row, field)
           all == Append(records, last)
           n == Len(records)
<1>1. \A i \in DOMAIN records : records[i] \in Records  OBVIOUS
<1>2. records \in Seq(Rows) /\ last \in Rows
  <2>1. \A r \in Records : r \in Rows  BY RecordRow
  <2>2. records \in Seq(Rows)  BY <2>1
  <2> QED  BY <2>2 DEF Rows
<1> HIDE DEF last
<1>3. /\ all \in Seq(Rows) /\ Len(all) = n + 1 /\ n \in Nat /\ all[n + 1] = last
      /\ DOMAIN all = 1 .. n + 1 /\ DOMAIN records = 1 .. n
      /\ \A i \in 1 .. n : all[i] = records[i]
  BY <1>2
<1> HIDE DEF all, n
<1>4. n \in 0 .. Len(all) /\ n + 1 \in 1 .. Len(all) /\ (n + 1) - 1 = n  BY <1>3
<1>5. SubSeq(all, 1, n) = records
  <2>1. /\ SubSeq(all, 1, n) \in Seq(Rows) /\ Len(SubSeq(all, 1, n)) = n
        /\ \A i \in 1 .. n : SubSeq(all, 1, n)[i] = all[i]
    BY <1>3, <1>4, Prefix
  <2> DEFINE x == SubSeq(all, 1, n)
  <2> HIDE DEF x
  <2>2. x \in Seq(Rows) /\ Len(x) = Len(records) /\ \A i \in 1 .. Len(records) : x[i] = records[i]
    BY <2>1, <1>3 DEF n, x
  <2>3. x = records  BY <2>2, <1>2, SeqEqual
  <2> QED  BY <2>3 DEF x
<1>6. NotBlank(all)[n] = records
  <2>1. \A i \in 1 .. n : ~IsBlank(all[i])  BY <1>1, <1>3, RecordRow
  <2>2. NotBlank(all)[n] = SubSeq(all, 1, n)  BY <2>1, <1>3, <1>4, NotBlankKeeps
  <2> QED  BY <2>2, <1>5
<1>7. NotBlank(all)[n + 1] = Keep(records, last)
  <2>1. NotBlank(all)[n + 1] = Keep(NotBlank(all)[(n + 1) - 1], all[n + 1])
    BY <1>3, <1>4, NotBlankMeaning
  <2> QED  BY <2>1, <1>3, <1>4, <1>6
<1>8. CsvRows(data) = LineState(all)
  <2> DEFINE s == Csv(st, field, row, records)
  <2>1. s.st = st /\ EndRow(s) = LineState(all)
    BY CsvParts DEF EndRow, LineState, all, last
  <2> HIDE DEF s
  <2>2. CsvRun(CsvStart, data)[Len(data)] = s  BY DEF After, s
  <2>3. st \notin {"line", "error", "quoted"}  OBVIOUS
  <2> QED  BY <2>1, <2>2, <2>3 DEF CsvRows
<1>9. LineState(all).st = "line" /\ LineState(all).rows = all
  BY CsvParts DEF LineState
<1>10. ParseHistory(data) = Answer(Keep(records, last))
  <2> HIDE DEF LineState
  <2> QED  BY <1>3, <1>7, <1>8, <1>9 DEF ParseHistory, Answer
<1>11. CASE IsBlank(last)
  <2>1. Keep(records, last) = records  BY <1>11 DEF Keep
  <2>2. \A i \in DOMAIN records : ParseHistoryRow(records[i])  BY <1>1, RecordRow
  <2>3. Answer(records) = [ok |-> TRUE, rows |-> records]  BY <2>2 DEF Answer
  <2> QED  BY <1>10, <1>11, <2>1, <2>3 DEF last
<1>12. CASE ~IsBlank(last)
  <2>1. Keep(records, last) = all  BY <1>12 DEF Keep, all
  <2>2. CASE ParseHistoryRow(last)
    <3>1. \A i \in DOMAIN all : ParseHistoryRow(all[i])
      <4>1. ASSUME NEW i \in DOMAIN all  PROVE ParseHistoryRow(all[i])
        <5>1. i = n + 1 \/ i \in 1 .. n  BY <1>3
        <5> QED  BY <5>1, <2>2, <1>1, <1>3, RecordRow
      <4> QED  BY <4>1
    <3>2. Answer(all) = [ok |-> TRUE, rows |-> all]  BY <3>1 DEF Answer
    <3> QED  BY <1>10, <2>1, <2>2, <3>2 DEF last, all
  <2>3. CASE ~ParseHistoryRow(last)
    <3>1. n + 1 \in DOMAIN all  BY <1>3
    <3>2. Answer(all) = Unreadable  BY <3>1, <2>3, <1>3 DEF Answer
    <3> QED  BY <1>10, <2>1, <3>2
  <2> QED  BY <2>2, <2>3
<1> QED  BY <1>11, <1>12

-----------------------------------------------------------------------------
(* The window.                                                              *)

\* The records of a text that begin after its place L.
BeginAfter(records, L) ==
    {k \in 1 .. Len(records) : Len(Texts(records)[k - 1]) > L}

\* If a record j begins after L and none before it does, they are the records
\* from j + 1 on.
LEMMA BeginAfterMeaning ==
  ASSUME NEW records \in Seq(Records), NEW L \in Nat, NEW j \in 0 .. Len(records),
         \A i \in 0 .. Len(records) : Len(Texts(records)[i]) > L <=> i >= j
  PROVE  /\ Cardinality(BeginAfter(records, L)) = Len(records) - j
         /\ Len(records) - Cardinality(BeginAfter(records, L)) + 1 = j + 1
<1> DEFINE N == Len(records)
           B == BeginAfter(records, L)
<1>1. N \in Nat  OBVIOUS
<1>2. B = j + 1 .. N
  <2>1. ASSUME NEW k \in 1 .. N  PROVE k \in B <=> k \in j + 1 .. N
    <3>1. k - 1 \in 0 .. N  BY <1>1
    <3>2. Len(Texts(records)[k - 1]) > L <=> k - 1 >= j  BY <3>1
    <3>3. k - 1 >= j <=> k \in j + 1 .. N  BY <1>1
    <3> QED  BY <3>2, <3>3 DEF BeginAfter
  <2>2. \A k \in j + 1 .. N : k \in 1 .. N  BY <1>1
  <2>3. \A k \in B : k \in 1 .. N  BY DEF BeginAfter
  <2> HIDE DEF B
  <2> QED  BY <2>1, <2>2, <2>3
<1> HIDE DEF B
<1>3. Cardinality(j + 1 .. N) = N - j
  <2>1. j + 1 \in Int /\ N \in Int  BY <1>1
  <2>2. Cardinality(j + 1 .. N) = IF j + 1 > N THEN 0 ELSE N - (j + 1) + 1
    BY <2>1, FS_Interval
  <2> QED  BY <2>2, <1>1
<1>4. Cardinality(B) = N - j  BY <1>2, <1>3
<1>5. N - (N - j) + 1 = j + 1  BY <1>1
<1> QED  BY <1>4, <1>5 DEF B

\* The reader of the records after the first j.
LEMMA ParseSuffix ==
  ASSUME NEW records \in Seq(Records), NEW j \in 0 .. Len(records)
  PROVE  LET N == Len(records)
             t == Texts(records)[N]
         IN  ParseHistory(SubSeq(t, Len(Texts(records)[j]) + 1, Len(t)))
               = [ok |-> TRUE, rows |-> SubSeq(records, j + 1, N)]
<1> DEFINE N == Len(records)
           t == Texts(records)[N]
           rest == SubSeq(records, j + 1, N)
           d == Texts(records)[j]
           e == Texts(rest)[N - j]
<1>1. /\ rest \in Seq(Records) /\ Len(rest) = N - j
      /\ d \in Columns /\ e \in Columns /\ t = d \o e
  BY TextSplit
<1>2. SubSeq(t, Len(d) + 1, Len(t)) = e
  <2>1. d \in Seq(Chars) /\ e \in Seq(Chars)  BY <1>1 DEF Columns
  <2> HIDE DEF t, d, e
  <2> QED  BY <2>1, <1>1, SuffixIsSecond
<1>3. After(CsvStart, e) = LineState(rest)
  <2> HIDE DEF rest
  <2>1. Len(rest) \in 0 .. Len(rest)  BY <1>1
  <2>2. SubSeq(rest, 1, Len(rest)) = rest  BY <1>1, <2>1, Prefix
  <2>3. After(CsvStart, Texts(rest)[Len(rest)]) = LineState(SubSeq(rest, 1, Len(rest)))
    BY <1>1, <2>1, TextRun
  <2> QED  BY <1>1, <2>2, <2>3
<1> HIDE DEF rest, e
<1>4. ParseHistory(e) = [ok |-> TRUE, rows |-> rest]  BY <1>1, <1>3, ParseRecords
<1> QED  BY <1>2, <1>4 DEF rest

\* A window that is a part of the file.
LEMMA PartialWindow ==
  ASSUME NEW records \in Seq(Records),
         NEW maxBytes \in 1 .. Len(Texts(records)[Len(records)]) - 1
  PROVE  LET N == Len(records)
             t == Texts(records)[N]
             shown == BeginAfter(records, Len(t) - maxBytes)
         IN  History(t, maxBytes)
               = [ok |-> TRUE, rows |-> SubSeq(records, N - Cardinality(shown) + 1, N)]
<1> DEFINE N == Len(records)
           T == Texts(records)
           t == T[N]
           n == Len(t)
           L == n - maxBytes
           data == SubSeq(t, L + 1, n)
           F == FirstSafeBoundary(data)
           shown == BeginAfter(records, L)
           Shows(x) == History(t, maxBytes) = [ok |-> TRUE, rows |-> x]
<1>1. t \in Columns /\ n \in Nat /\ N \in 0 .. N /\ N \in Nat
  <2>1. N \in 0 .. N /\ N \in Nat  OBVIOUS
  <2> QED  BY <2>1, TextRun DEF Columns
<1>2. /\ L \in 1 .. n /\ L \in 0 .. n /\ L \in Nat /\ n - L = maxBytes /\ ~(n <= maxBytes)
      /\ n > 1 /\ maxBytes \in Nat
  BY <1>1
<1>3. /\ Len(data) = maxBytes /\ data \in Seq(Chars)
      /\ \A i \in 1 .. maxBytes : data[i] = t[L + i]
  <2>1. t \in Seq(Chars)  BY <1>1 DEF Columns
  <2> HIDE DEF t, n, L
  <2>2. /\ Len(data) = n - L /\ data \in Seq(Chars)
        /\ \A i \in 1 .. n - L : data[i] = t[L + i]
    BY <2>1, <1>2, Suffix DEF n
  <2> QED  BY <2>2, <1>2
<1>4. data[maxBytes] = "n"
  <2>1. T[0] = <<>>  BY TextsMeaning
  <2>2. N > 0  BY <2>1, <1>1, <1>2
  <2>3. t[n] = "n"  BY <2>2, <1>1, TextsGrow
  <2>4. maxBytes \in 1 .. maxBytes /\ L + maxBytes = n  BY <1>1
  <2> HIDE DEF data, t, n, L
  <2> QED  BY <2>3, <2>4, <1>3
<1>5. \A k \in 2 .. maxBytes : k \in F <=> \E j \in 0 .. N : Len(T[j]) = L + k - 1
  <2>1. \A k \in 2 .. Len(data) : k \in F <=> \E j \in 0 .. N : Len(T[j]) = L + k - 1
    BY <1>2, Boundaries
  <2> HIDE DEF data, F, L
  <2> QED  BY <2>1, <1>3
<1>6. \A k \in F : k \in 2 .. maxBytes
  <2> HIDE DEF data
  <2> QED  BY <1>3 DEF FirstSafeBoundary
<1>7. \A i \in 0 .. N : Len(T[i]) \in Nat /\ \A h \in 0 .. N : h < i => Len(T[h]) < Len(T[i])
  BY TextsGrow
<1>8. History(t, maxBytes) =
         ParseHistory(IF F = {} THEN <<>> ELSE SubSeq(data, Min(F), maxBytes))
  <2>1. n - maxBytes + 1 = L + 1  OBVIOUS
  <2> HIDE DEF F, data, t, n, L
  <2> QED  BY <2>1, <1>2, <1>4 DEF History, F, data, n
<1>9. ASSUME NEW i \in 0 .. N, Len(T[i]) > L, i < N
      PROVE  Len(T[i]) - L + 1 \in F
  <2> DEFINE l == Len(T[i])
             k == l - L + 1
  <2>1. l < n /\ l \in Nat  BY <1>1, <1>7, <1>9
  <2>2. k \in 2 .. maxBytes /\ L + k - 1 = l
    <3>1. l > L  BY <1>9
    <3> HIDE DEF l, n, L
    <3> QED  BY <2>1, <3>1, <1>1, <1>2
  <2> HIDE DEF k, L, F, l
  <2>3. \E j \in 0 .. N : Len(T[j]) = L + k - 1  BY <2>2 DEF l
  <2>4. k \in F  BY <2>2, <2>3, <1>5
  <2> QED  BY <2>4 DEF k, l
<1>10. CASE F = {}
  <2>1. History(t, maxBytes) = ParseHistory(<<>>)  BY <1>8, <1>10
  <2>2. \A i \in 0 .. N : Len(T[i]) > L <=> i >= N
    <3>1. Len(T[N]) > L  BY <1>1, <1>2
    <3>2. \A i \in 0 .. N : i >= N <=> i = N  BY <1>1
    <3>3. \A i \in 0 .. N : i < N \/ i = N  BY <1>1
    <3> HIDE DEF F, L, N
    <3> QED  BY <3>1, <3>2, <3>3, <1>9, <1>10
  <2>3. N - Cardinality(shown) + 1 = N + 1
    <3> HIDE DEF L
    <3> QED  BY <2>2, <1>1, <1>2, BeginAfterMeaning
  <2>4. SubSeq(records, N + 1, N) = <<>>  BY <1>1
  <2>5. ParseHistory(<<>>) = [ok |-> TRUE, rows |-> <<>>]
    <3>1. <<>> \in Columns /\ "q" \in Chars /\ CsvStart \in States
      BY TextRun DEF Columns, Chars
    <3>2. After(CsvStart, <<>>) = LineState(<<>>)
      BY <3>1, AfterAppend DEF CsvStart, LineState
    <3>3. <<>> \in Seq(Records)  OBVIOUS
    <3> QED  BY <3>2, <3>3, ParseRecords
  <2> QED  BY <2>1, <2>3, <2>4, <2>5
<1>11. CASE F # {}
  <2> DEFINE m == Min(F)
  <2>1. m \in F /\ \A y \in F : m <= y
    <3> HIDE DEF F
    <3>1. \A k \in F : k \in Nat  BY <1>6
    <3>2. F \in SUBSET Nat  BY <3>1
    <3>3. \E x \in F : \A y \in F : x <= y  BY <3>2, <1>11, LeastElement
    <3>4. m = CHOOSE x \in F : \A y \in F : x <= y  BY DEF Min
    <3> QED  BY <3>3, <3>4
  <2> HIDE DEF m
  <2>2. m \in 2 .. maxBytes  BY <2>1, <1>6
  <2>3. PICK j \in 0 .. N : Len(T[j]) = L + m - 1
    <3> HIDE DEF F, L
    <3> QED  BY <2>1, <2>2, <1>5
  <2>4. Len(T[j]) > L /\ j < N
    <3>1. Len(T[j]) > L /\ Len(T[j]) < n  BY <2>2, <2>3, <1>2
    <3>2. j # N  BY <3>1, <1>1
    <3> QED  BY <3>1, <3>2, <1>1
  <2>5. \A i \in 0 .. N : Len(T[i]) > L <=> i >= j
    <3> SUFFICES ASSUME NEW i \in 0 .. N  PROVE Len(T[i]) > L <=> i >= j  OBVIOUS
    <3> DEFINE x == Len(T[i])
               y == Len(T[j])
    <3>1. x \in Nat /\ y \in Nat /\ (i < j => x < y) /\ (j < i => y < x)  BY <1>7
    <3>2. ASSUME i < j  PROVE ~(x > L)
      <4>1. SUFFICES ASSUME x > L  PROVE FALSE  OBVIOUS
      <4>2. i < N  BY <2>4, <3>2, <1>1
      <4>3. x - L + 1 \in F
        <5> HIDE DEF L, F
        <5> QED  BY <4>1, <4>2, <1>9
      <4>4. m <= x - L + 1
        <5> HIDE DEF x, L, F
        <5> QED  BY <4>3, <2>1
      <4>5. y = L + m - 1 /\ x < y /\ L \in Nat /\ m \in Nat  BY <2>2, <2>3, <3>1, <3>2, <1>2
      <4> HIDE DEF x, y, L
      <4> QED  BY <4>4, <4>5, <3>1
    <3>3. y > L  BY <2>4
    <3>4. i = j => x = y  OBVIOUS
    <3>5. i < j \/ i = j \/ j < i  OBVIOUS
    <3> HIDE DEF x, y, L
    <3>6. L \in Nat  BY <1>2
    <3>7. x > L <=> i >= j  BY <3>1, <3>2, <3>3, <3>4, <3>5, <3>6
    <3> QED  BY <3>7 DEF x
  <2>6. N - Cardinality(shown) + 1 = j + 1
    <3> HIDE DEF L
    <3> QED  BY <2>5, <1>2, BeginAfterMeaning
  <2>7. SubSeq(data, m, maxBytes) = SubSeq(t, Len(T[j]) + 1, n)
    <3> DEFINE x == SubSeq(data, m, maxBytes)
               y == SubSeq(t, Len(T[j]) + 1, n)
               l == Len(T[j])
               h == m - 1
    <3>1. h \in 0 .. Len(data) /\ h + 1 = m /\ Len(data) - h = maxBytes - h
      BY <2>2, <1>3
    <3>2. l = L + h /\ l \in 0 .. n /\ n - l = maxBytes - h
      <4>1. l = L + m - 1  BY <2>3
      <4> HIDE DEF l, n, L
      <4> QED  BY <4>1, <2>2, <1>1, <1>2
    <3>3. t \in Seq(Chars)  BY <1>1 DEF Columns
    <3> HIDE DEF data, t, n, L, l, h
    <3>4. /\ x \in Seq(Chars) /\ Len(x) = maxBytes - h
          /\ \A i \in 1 .. maxBytes - h : x[i] = data[h + i]
      <4>1. /\ SubSeq(data, h + 1, Len(data)) \in Seq(Chars)
            /\ Len(SubSeq(data, h + 1, Len(data))) = Len(data) - h
            /\ \A i \in 1 .. Len(data) - h : SubSeq(data, h + 1, Len(data))[i] = data[h + i]
        BY <3>1, <1>3, Suffix
      <4> QED  BY <4>1, <3>1, <1>3
    <3>5. /\ y \in Seq(Chars) /\ Len(y) = maxBytes - h
          /\ \A i \in 1 .. maxBytes - h : y[i] = t[l + i]
      <4>1. /\ SubSeq(t, l + 1, n) \in Seq(Chars)
            /\ Len(SubSeq(t, l + 1, n)) = n - l
            /\ \A i \in 1 .. n - l : SubSeq(t, l + 1, n)[i] = t[l + i]
        BY <3>2, <3>3, Suffix DEF n
      <4> QED  BY <4>1, <3>2 DEF l
    <3> HIDE DEF x, y
    <3>6. ASSUME NEW i \in 1 .. maxBytes - h  PROVE x[i] = y[i]
      <4>1. h + i \in 1 .. maxBytes /\ L + (h + i) = l + i
        BY <3>1, <3>2, <1>2, <2>2 DEF h
      <4> QED  BY <4>1, <3>4, <3>5, <1>3
    <3>7. x = y  BY <3>4, <3>5, <3>6, SeqEqual
    <3> QED  BY <3>7 DEF x, y
  <2>8. ParseHistory(SubSeq(t, Len(T[j]) + 1, n)) = [ok |-> TRUE, rows |-> SubSeq(records, j + 1, N)]
    BY ParseSuffix
  <2>9. History(t, maxBytes) = ParseHistory(SubSeq(data, m, maxBytes))
    BY <1>8, <1>11 DEF m
  <2>10. Shows(SubSeq(records, N - Cardinality(shown) + 1, N))
    <3> HIDE DEF data, t, n, L, shown
    <3> QED  BY <2>6, <2>7, <2>8, <2>9
  <2> QED  BY <2>10
<1> QED  BY <1>10, <1>11

-----------------------------------------------------------------------------
(* The file that Asterisk writes.                                           *)

\* The file holds records, and at least a character of the last one.
CdrInv ==
    /\ cdrs \in Seq(Records) /\ pending \in Nat
    /\ pending > 0 => Len(cdrs) > 0 /\ pending < Len(Encoded(cdrs[Len(cdrs)]))

\* A record is in the file with its first character; the rest follows.
THEOREM CdrInvariant == CdrSpec => []CdrInv
<1>1. CdrInit => CdrInv
  BY DEF CdrInit, CdrInv
<1>2. CdrInv /\ [CdrNext]_cdrVars => CdrInv'
  <2> SUFFICES ASSUME CdrInv, [CdrNext]_cdrVars  PROVE CdrInv'  OBVIOUS
  <2>1. CASE WriteRecord
    <3>1. PICK s1 \in Strings, s2 \in Strings :
             /\ cdrs' = Append(cdrs, <<s1, Number, s2>>)
             /\ pending' \in 0 .. Len(Encoded(<<s1, Number, s2>>)) - 1
      BY <2>1 DEF WriteRecord
    <3> DEFINE rec == <<s1, Number, s2>>
    <3>2. rec \in Records  BY DEF Records
    <3>3. Len(Encoded(rec)) \in Nat
      <4>1. <<>> \in Seq(Rows)  OBVIOUS
      <4>2. Encoded(rec) \in Columns  BY <3>2, <4>1, RecordRun
      <4> QED  BY <4>2 DEF Columns
    <3>4. cdrs' = Append(cdrs, rec) /\ pending' \in 0 .. Len(Encoded(rec)) - 1  BY <3>1
    <3> HIDE DEF rec
    <3>5. cdrs' \in Seq(Records) /\ Len(cdrs') > 0 /\ cdrs'[Len(cdrs')] = rec
      BY <3>2, <3>4 DEF CdrInv
    <3>6. pending' \in Nat /\ pending' < Len(Encoded(rec))  BY <3>3, <3>4
    <3> QED  BY <3>5, <3>6 DEF CdrInv
  <2>2. CASE FinishRecord
    <3>1. pending > 0 /\ pending' \in 0 .. pending - 1 /\ cdrs' = cdrs
      BY <2>2 DEF FinishRecord
    <3> DEFINE e == Len(Encoded(cdrs[Len(cdrs)]))
    <3>2. Len(cdrs) > 0 /\ pending < e /\ cdrs \in Seq(Records) /\ pending \in Nat
      BY <3>1 DEF CdrInv
    <3>3. e \in Nat
      <4>1. <<>> \in Seq(Rows) /\ cdrs[Len(cdrs)] \in Records  BY <3>2
      <4>2. Encoded(cdrs[Len(cdrs)]) \in Columns  BY <4>1, RecordRun
      <4> QED  BY <4>2 DEF Columns
    <3> HIDE DEF e
    <3>4. pending' \in Nat /\ pending' < e  BY <3>1, <3>2, <3>3
    <3> QED  BY <3>1, <3>2, <3>4 DEF CdrInv, e
  <2>3. CASE UNCHANGED cdrVars
    BY <2>3 DEF CdrInv, cdrVars
  <2> QED  BY <2>1, <2>2, <2>3 DEF CdrNext
<1> QED  BY <1>1, <1>2, PTL DEF CdrSpec

\* While nothing is pending, the file is the text of its records.
LEMMA FileIsText ==
  ASSUME CdrInv, pending = 0
  PROVE  /\ FileText = Texts(cdrs)[Len(cdrs)] /\ Finished = Len(cdrs)
         /\ Texts(cdrs)[Len(cdrs)] \in Columns
<1> DEFINE t == Texts(cdrs)[Len(cdrs)]
<1>1. cdrs \in Seq(Records) /\ Len(cdrs) \in 0 .. Len(cdrs)  BY DEF CdrInv
<1>2. t \in Seq(Chars) /\ t \in Columns  BY <1>1, TextRun DEF Columns
<1> HIDE DEF t
<1>3. Len(t) - 0 = Len(t) /\ Len(t) \in 0 .. Len(t)  BY <1>2
<1>4. SubSeq(t, 1, Len(t)) = t  BY <1>2, <1>3, Prefix
<1>5. FileText = SubSeq(t, 1, Len(t) - 0)  BY DEF FileText, TextOf, t
<1> QED  BY <1>2, <1>3, <1>4, <1>5 DEF Finished, t

\* A window of a file that is not being written is readable, and shows exactly
\* the records that begin after the first end of a record in it.
THEOREM WindowExact == CdrSpec => []WindowIsExact
<1>1. ASSUME CdrInv  PROVE WindowIsExact
  <2> SUFFICES ASSUME pending = 0, NEW maxBytes \in 1 .. Len(FileText)
               PROVE  LET read == History(FileText, maxBytes)
                          shown == InWindow(maxBytes)
                      IN  /\ read.ok
                          /\ read.rows =
                               SubSeq(cdrs, Finished - Cardinality(shown) + 1, Finished)
    BY DEF WindowIsExact
  <2> DEFINE N == Len(cdrs)
             t == Texts(cdrs)[N]
             shown == InWindow(maxBytes)
             rows == SubSeq(cdrs, N - Cardinality(shown) + 1, N)
  <2>1. FileText = t /\ Finished = N /\ t \in Columns  BY <1>1, FileIsText
  <2>2. cdrs \in Seq(Records) /\ N \in Nat /\ N \in 0 .. N  BY <1>1 DEF CdrInv
  <2>3. Len(t) \in Nat /\ maxBytes \in 1 .. Len(t)  BY <2>1 DEF Columns
  <2>4. History(t, maxBytes) = [ok |-> TRUE, rows |-> rows]
    <3>1. CASE maxBytes = Len(t)
      <4>1. shown = 1 .. N  BY <2>1, <2>3, <3>1 DEF InWindow
      <4>2. Cardinality(1 .. N) = N
        <5>1. 1 \in Int /\ N \in Int  BY <2>2
        <5>2. Cardinality(1 .. N) = IF 1 > N THEN 0 ELSE N - 1 + 1  BY <5>1, FS_Interval
        <5> QED  BY <5>2, <2>2
      <4>3. N - N + 1 = 1 /\ SubSeq(cdrs, 1, N) = cdrs  BY <2>2, Prefix
      <4>4. rows = cdrs  BY <4>1, <4>2, <4>3
      <4>5. After(CsvStart, t) = LineState(cdrs)
        <5>1. After(CsvStart, t) = LineState(SubSeq(cdrs, 1, N))  BY <2>2, TextRun
        <5> QED  BY <5>1, <4>3
      <4>6. ParseHistory(t) = [ok |-> TRUE, rows |-> cdrs]  BY <4>5, <2>2, ParseRecords
      <4>7. History(t, maxBytes) = ParseHistory(t)
        <5>1. Len(t) <= maxBytes  BY <2>3, <3>1
        <5> HIDE DEF t
        <5> QED  BY <5>1 DEF History
      <4> QED  BY <4>4, <4>6, <4>7
    <3>2. CASE maxBytes # Len(t)
      <4>1. maxBytes \in 1 .. Len(t) - 1 /\ ~(Len(t) <= maxBytes)  BY <2>3, <3>2
      <4>2. shown = BeginAfter(cdrs, Len(t) - maxBytes)
        BY <2>1, <4>1 DEF InWindow, BeginAfter, TextOf
      <4>3. History(t, maxBytes) =
               [ok |-> TRUE,
                rows |-> SubSeq(cdrs, N - Cardinality(BeginAfter(cdrs, Len(t) - maxBytes)) + 1, N)]
        BY <2>2, <4>1, PartialWindow
      <4> QED  BY <4>2, <4>3
    <3> QED  BY <3>1, <3>2
  <2> HIDE DEF t, rows, shown
  <2>5. History(FileText, maxBytes) = [ok |-> TRUE, rows |-> rows]  BY <2>1, <2>4
  <2>6. History(FileText, maxBytes).ok /\ History(FileText, maxBytes).rows = rows
    BY <2>5
  <2> QED  BY <2>1, <2>6 DEF rows, shown
<1> QED  BY <1>1, CdrInvariant, PTL

-----------------------------------------------------------------------------
(* A record that is being written.                                          *)

\* Inside a record the reader is in a quoted column, or would end a row that has
\* three columns only if it is in the last one.
LEMMA InsideCases ==
  ASSUME NEW a \in Columns, NEW b \in Columns, NEW rows \in Seq(Rows),
         NEW s \in Inside(a, b, rows)
  PROVE  \/ s.st = "quoted"
         \/ \E st \in {"start", "plain", "closing"}, field \in Columns, row \in Rows :
               /\ s = Csv(st, field, row, rows)
               /\ Len(row) = 2 => row = <<a, Number>>
                                    /\ \E k \in 0 .. Len(b) : field = SubSeq(b, 1, k)
<1> DEFINE Case(st, field, row) ==
              /\ s = Csv(st, field, row, rows)
              /\ Len(row) = 2 => row = <<a, Number>>
                                   /\ \E k \in 0 .. Len(b) : field = SubSeq(b, 1, k)
<1>1. /\ <<>> \in Columns /\ <<>> \in Rows /\ Number \in Columns /\ <<a>> \in Rows
      /\ <<a, Number>> \in Rows
  <2>1. Number \in Columns /\ <<>> \in Columns  BY DEF Number, Columns, Chars
  <2> QED  BY <2>1 DEF Rows
<1>2. Len(<<a>>) = 1 /\ Len(<<a, Number>>) = 2 /\ Len(<<>>) = 0  OBVIOUS
<1>3. /\ b \in Seq(Chars) /\ a \in Seq(Chars) /\ 0 \in 0 .. Len(b)
      /\ \A k \in 0 .. Len(b) : SubSeq(b, 1, k) \in Columns
      /\ \A k \in 0 .. Len(a) : SubSeq(a, 1, k) \in Columns
      /\ SubSeq(b, 1, 0) = <<>>
  <2>1. b \in Seq(Chars) /\ a \in Seq(Chars) /\ 0 \in 0 .. Len(b)  BY DEF Columns
  <2> QED  BY <2>1, Prefix DEF Columns
<1>4. ASSUME NEW row \in Rows, NEW string \in Columns, s \in InField(string, row, rows),
             \A k \in 0 .. Len(string) : SubSeq(string, 1, k) \in Columns
      PROVE  \/ s.st = "quoted"
             \/ \E k \in 0 .. Len(string) :
                   s = Csv("closing", SubSeq(string, 1, k), row, rows)
  <2>1. PICK st \in {"quoted", "closing"}, k \in 0 .. Len(string) :
           s = Csv(st, SubSeq(string, 1, k), row, rows)
    BY <1>4 DEF InField
  <2>2. s.st = st  BY <2>1, CsvParts
  <2> QED  BY <2>1, <2>2
<1>5. CASE s \in InField(a, <<>>, rows)
  <2>1. \/ s.st = "quoted"
        \/ \E k \in 0 .. Len(a) : s = Csv("closing", SubSeq(a, 1, k), <<>>, rows)
    BY <1>1, <1>3, <1>4, <1>5
  <2>2. ASSUME NEW k \in 0 .. Len(a), s = Csv("closing", SubSeq(a, 1, k), <<>>, rows)
        PROVE  Case("closing", SubSeq(a, 1, k), <<>>)
    BY <2>2, <1>2
  <2> HIDE DEF Case
  <2>3. s.st = "quoted" \/ \E k \in 0 .. Len(a) : Case("closing", SubSeq(a, 1, k), <<>>)
    BY <2>1, <2>2
  <2>4. \/ s.st = "quoted"
        \/ \E st \in {"start", "plain", "closing"}, field \in Columns, row \in Rows :
              Case(st, field, row)
    BY <2>3, <1>1, <1>3
  <2> QED  BY <2>4 DEF Case
<1>6. CASE s = Csv("start", <<>>, <<a>>, rows)
  <2>1. Case("start", <<>>, <<a>>)  BY <1>6, <1>2
  <2> QED  BY <2>1, <1>1
<1>7. CASE s = Csv("plain", Number, <<a>>, rows)
  <2>1. Case("plain", Number, <<a>>)  BY <1>7, <1>2
  <2> QED  BY <2>1, <1>1
<1>8. CASE s = Csv("start", <<>>, <<a, Number>>, rows)
  <2>1. Case("start", <<>>, <<a, Number>>)  BY <1>8, <1>3
  <2> QED  BY <2>1, <1>1
<1>9. CASE s \in InField(b, <<a, Number>>, rows)
  <2>1. \/ s.st = "quoted"
        \/ \E k \in 0 .. Len(b) : s = Csv("closing", SubSeq(b, 1, k), <<a, Number>>, rows)
    BY <1>1, <1>3, <1>4, <1>9
  <2>2. ASSUME NEW k \in 0 .. Len(b),
               s = Csv("closing", SubSeq(b, 1, k), <<a, Number>>, rows)
        PROVE  Case("closing", SubSeq(b, 1, k), <<a, Number>>)
    BY <2>2
  <2> HIDE DEF Case
  <2>3. \/ s.st = "quoted"
        \/ \E k \in 0 .. Len(b) : Case("closing", SubSeq(b, 1, k), <<a, Number>>)
    BY <2>1, <2>2
  <2>4. \/ s.st = "quoted"
        \/ \E st \in {"start", "plain", "closing"}, field \in Columns, row \in Rows :
              Case(st, field, row)
    BY <2>3, <1>1, <1>3
  <2> QED  BY <2>4 DEF Case
<1> QED  BY <1>5, <1>6, <1>7, <1>8, <1>9 DEF Inside

\* Columns of a row.
LEMMA RowColumns ==
  ASSUME NEW a \in Columns, NEW b \in Columns, NEW c \in Columns
  PROVE  /\ Append(<<a, b>>, c) = <<a, b, c>>
         /\ SubSeq(<<a, b, c>>, 1, 2) = <<a, b>>
         /\ Len(<<a, b, c>>) = 3 /\ <<a, b, c>>[3] = c
<1>1. Append(<<a, b>>, c) = <<a, b, c>>  BY Tuples
<1>2. SubSeq(<<a, b, c>>, 1, 2) = <<a, b>>
  <2> DEFINE e == <<a, b, c>>
             x == SubSeq(e, 1, 2)
             y == <<a, b>>
  <2>1. e \in Seq(Columns) /\ Len(e) = 3 /\ e[1] = a /\ e[2] = b  OBVIOUS
  <2>2. y \in Seq(Columns) /\ Len(y) = 2 /\ y[1] = a /\ y[2] = b  OBVIOUS
  <2> HIDE DEF e, y
  <2>3. 2 \in 0 .. Len(e)  BY <2>1
  <2>4. x \in Seq(Columns) /\ Len(x) = 2 /\ \A i \in 1 .. 2 : x[i] = e[i]
    BY <2>1, <2>3, Prefix
  <2> HIDE DEF x
  <2>5. \A i \in 1 .. 2 : x[i] = y[i]  BY <2>1, <2>2, <2>4
  <2>6. x = y  BY <2>2, <2>4, <2>5, SeqEqual
  <2> QED  BY <2>6 DEF x, y, e
<1> QED  BY <1>1, <1>2

\* The last column follows the number.
LEMMA LastColumn ==
  ASSUME NEW a \in Columns, NEW c \in Columns
  PROVE  Append(<<a, Number>>, c) = <<a, Number, c>>
<1>1. Number \in Columns  BY DEF Number, Columns, Chars
<1> QED  BY <1>1, RowColumns

\* A sequence, and one element more.
LEMMA OneMore ==
  ASSUME NEW S, NEW e \in Seq(S), NEW x \in S
  PROVE  /\ IsPrefix(e, e) /\ IsPrefix(e, Append(e, x))
         /\ SubSeq(e, Len(e) + 1, Len(e)) = <<>>
         /\ SubSeq(Append(e, x), Len(e) + 1, Len(Append(e, x))) = <<x>>
<1> DEFINE n == Len(e)
           f == Append(e, x)
<1>1. n \in Nat /\ n \in 0 .. Len(e)  OBVIOUS
<1>2. f \in Seq(S) /\ Len(f) = n + 1 /\ f[n + 1] = x /\ \A i \in 1 .. n : f[i] = e[i]
  OBVIOUS
<1> HIDE DEF f
<1>3. IsPrefix(e, e)  BY DEF IsPrefix
<1>4. SubSeq(f, 1, n) = e
  <2> DEFINE y == SubSeq(f, 1, n)
  <2>1. n \in 0 .. Len(f)  BY <1>1, <1>2
  <2>2. y \in Seq(S) /\ Len(y) = n /\ \A i \in 1 .. n : y[i] = f[i]  BY <2>1, <1>2, Prefix
  <2> HIDE DEF y
  <2>3. y = e  BY <2>2, <1>2, SeqEqual
  <2> QED  BY <2>3 DEF y
<1>5. IsPrefix(e, f)
  <2>1. SubSeq(e, 1, n) = e  BY <1>1, Prefix
  <2>2. Len(e) <= Len(f)  BY <1>1, <1>2
  <2> QED  BY <2>1, <2>2, <1>4 DEF IsPrefix
<1>6. SubSeq(e, n + 1, n) = <<>>  BY <1>1
<1>7. SubSeq(f, n + 1, Len(f)) = <<x>>
  <2> DEFINE y == SubSeq(f, n + 1, Len(f))
             z == <<x>>
  <2>1. n \in 0 .. Len(f) /\ Len(f) - n = 1  BY <1>1, <1>2
  <2>2. y \in Seq(S) /\ Len(y) = 1 /\ \A i \in 1 .. 1 : y[i] = f[n + i]
    <3> HIDE DEF n
    <3>1. /\ y \in Seq(S) /\ Len(y) = Len(f) - n
          /\ \A i \in 1 .. Len(f) - n : y[i] = f[n + i]
      BY <2>1, <1>2, Suffix
    <3> QED  BY <2>1, <3>1
  <2>3. z \in Seq(S) /\ Len(z) = 1 /\ z[1] = x  OBVIOUS
  <2> HIDE DEF y, z
  <2>4. \A i \in 1 .. 1 : y[i] = z[i]
    <3>1. y[1] = f[n + 1]  BY <2>2
    <3> QED  BY <3>1, <2>3, <1>2
  <2>5. y = z  BY <2>2, <2>3, <2>4, SeqEqual
  <2> QED  BY <2>5 DEF y, z
<1> QED  BY <1>3, <1>5, <1>6, <1>7 DEF f

\* The text of a file whose last record is being written, and the state in which
\* the reader comes to its end.
LEMMA UnfinishedFile ==
  ASSUME CdrInv, pending > 0
  PROVE  LET n == Len(cdrs) - 1
             R == SubSeq(cdrs, 1, n)
         IN  /\ Finished = n /\ R \in Seq(Records) /\ Len(R) = n /\ R \in Seq(Rows)
             /\ \E a \in Columns, b \in Columns :
                   /\ cdrs[Len(cdrs)] = <<a, Number, b>>
                   /\ After(CsvStart, FileText) \in Inside(a, b, R)
<1> DEFINE N == Len(cdrs)
           n == N - 1
           R == SubSeq(cdrs, 1, n)
           e == Encoded(cdrs[N])
           d == Texts(cdrs)[n]
           t == Texts(cdrs)[N]
           i == Len(e) - pending
<1>1. cdrs \in Seq(Records) /\ pending \in Nat /\ N > 0 /\ pending < Len(e)
  BY DEF CdrInv
<1>2. N \in 1 .. N /\ n \in 0 .. N  BY <1>1
<1>3. /\ d \in Columns /\ e \in Columns /\ Len(e) \in Nat /\ t = d \o e
      /\ Len(t) = Len(d) + Len(e) /\ Len(d) \in Nat /\ cdrs[N] \in Records
  BY <1>1, <1>2, TextStep
<1>4. R \in Seq(Records) /\ Len(R) = n  BY <1>1, <1>2, Prefix
<1>5. CsvStart \in States /\ R \in Seq(Rows) /\ After(CsvStart, d) = LineState(R)
  BY <1>1, <1>2, TextRun
<1>6. PICK a \in Columns, b \in Columns : cdrs[N] = <<a, Number, b>> /\
         \A k \in 1 .. Len(e) - 1 : After(LineState(R), SubSeq(e, 1, k)) \in Inside(a, b, R)
  BY <1>3, <1>5, RecordRun
<1>7. FileText = SubSeq(t, 1, Len(t) - pending)  BY DEF FileText, TextOf
<1> HIDE DEF R, e, d, t
<1>8. /\ i \in 1 .. Len(e) - 1 /\ i \in 0 .. Len(e) /\ Len(t) - pending = Len(d) + i
  BY <1>1, <1>3
<1>9. d \in Seq(Chars) /\ e \in Seq(Chars)  BY <1>3 DEF Columns
<1> HIDE DEF i
<1>10. FileText = d \o SubSeq(e, 1, i)
  <2>1. SubSeq(d \o e, 1, Len(d) + i) = d \o SubSeq(e, 1, i)
    BY <1>8, <1>9, PrefixInSecond
  <2> QED  BY <2>1, <1>3, <1>7, <1>8
<1>11. SubSeq(e, 1, i) \in Columns  BY <1>8, <1>9, Prefix DEF Columns
<1>12. After(CsvStart, d \o SubSeq(e, 1, i)) = After(After(CsvStart, d), SubSeq(e, 1, i))
  BY <1>3, <1>5, <1>11, AfterConcat
<1>13. After(CsvStart, FileText) \in Inside(a, b, R)
  BY <1>5, <1>6, <1>8, <1>10, <1>12
<1>14. Finished = n  BY <1>1 DEF Finished
<1> QED  BY <1>4, <1>5, <1>6, <1>13, <1>14 DEF R

\* The whole file, while its last record is being written: the answer fails, or
\* it is the finished records, or these and a row that lacks the end of its last
\* column.
LEMMA UnfinishedAnswer ==
  ASSUME CdrInv, pending > 0
  PROVE  LET R == SubSeq(cdrs, 1, Finished)
             read == ParseHistory(FileText)
         IN  \/ ~read.ok
             \/ read.rows = R
             \/ \E a \in Columns, b \in Columns : \E k \in 0 .. Len(b) :
                   /\ cdrs[Len(cdrs)] = <<a, Number, b>>
                   /\ read.rows = Append(R, <<a, Number, SubSeq(b, 1, k)>>)
<1> DEFINE R == SubSeq(cdrs, 1, Finished)
           s == After(CsvStart, FileText)
           read == ParseHistory(FileText)
<1>1. R \in Seq(Records) /\ R \in Seq(Rows)  BY UnfinishedFile
<1>2. PICK a \in Columns, b \in Columns :
         cdrs[Len(cdrs)] = <<a, Number, b>> /\ s \in Inside(a, b, R)
  BY UnfinishedFile
<1>3. Unreadable.ok = FALSE  BY DEF Unreadable
<1>4. ASSUME s.st = "quoted"  PROVE ~read.ok
  <2>1. CsvRows(FileText).st = "quoted"
    <3> HIDE DEF s
    <3>1. CsvRun(CsvStart, FileText)[Len(FileText)] = s  BY DEF After, s
    <3> QED  BY <1>4, <3>1 DEF CsvRows
  <2>2. read = Unreadable  BY <2>1 DEF ParseHistory
  <2> QED  BY <2>2, <1>3
<1>5. ASSUME NEW st \in {"start", "plain", "closing"}, NEW field \in Columns,
             NEW row \in Rows, s = Csv(st, field, row, R),
             Len(row) = 2 => row = <<a, Number>>
                               /\ \E k \in 0 .. Len(b) : field = SubSeq(b, 1, k)
      PROVE  \/ ~read.ok
             \/ read.rows = R
             \/ \E k \in 0 .. Len(b) :
                   read.rows = Append(R, <<a, Number, SubSeq(b, 1, k)>>)
  <2> DEFINE last == Append(row, field)
  <2>1. \/ read = Unreadable
        \/ IsBlank(last) /\ read = [ok |-> TRUE, rows |-> R]
        \/ ParseHistoryRow(last) /\ read = [ok |-> TRUE, rows |-> Append(R, last)]
    <3> HIDE DEF R
    <3> QED  BY <1>1, <1>5, ParseUnfinished
  <2>2. ASSUME ParseHistoryRow(last)
        PROVE  \E k \in 0 .. Len(b) : last = <<a, Number, SubSeq(b, 1, k)>>
    <3>1. Len(last) = 3  BY <2>2 DEF ParseHistoryRow
    <3>2. Len(row) = 2
      <4>1. Len(Append(row, field)) = Len(row) + 1 /\ Len(row) \in Nat  BY DEF Rows
      <4> DEFINE l == Len(row)
      <4>2. 3 = l + 1 /\ l \in Nat  BY <3>1, <4>1
      <4> HIDE DEF l
      <4>3. l = 2  BY <4>2
      <4> QED  BY <4>3 DEF l
    <3>3. PICK k \in 0 .. Len(b) : field = SubSeq(b, 1, k)  BY <3>2, <1>5
    <3>4. row = <<a, Number>>  BY <3>2, <1>5
    <3>5. Append(<<a, Number>>, field) = <<a, Number, field>>  BY LastColumn
    <3> QED  BY <3>3, <3>4, <3>5
  <2>3. CASE read = Unreadable
    <3>1. ~read.ok  BY <2>3, <1>3
    <3> QED  BY <3>1
  <2> HIDE DEF last, R, read
  <2>4. ASSUME NEW x, read = [ok |-> TRUE, rows |-> x]  PROVE read.rows = x  BY <2>4
  <2>5. CASE read = [ok |-> TRUE, rows |-> R]
    <3>1. read.rows = R  BY <2>4, <2>5
    <3> QED  BY <3>1 DEF R, read
  <2>6. CASE ParseHistoryRow(last) /\ read = [ok |-> TRUE, rows |-> Append(R, last)]
    <3>1. read.rows = Append(R, last)  BY <2>4, <2>6
    <3>2. PICK k \in 0 .. Len(b) : last = <<a, Number, SubSeq(b, 1, k)>>  BY <2>2, <2>6
    <3>3. \E h \in 0 .. Len(b) : read.rows = Append(R, <<a, Number, SubSeq(b, 1, h)>>)
      BY <3>1, <3>2
    <3> QED  BY <3>3 DEF R, read
  <2> QED  BY <2>1, <2>3, <2>5, <2>6 DEF R, read
<1>6. \/ s.st = "quoted"
      \/ \E st \in {"start", "plain", "closing"}, field \in Columns, row \in Rows :
            /\ s = Csv(st, field, row, R)
            /\ Len(row) = 2 => row = <<a, Number>>
                                 /\ \E k \in 0 .. Len(b) : field = SubSeq(b, 1, k)
  <2> HIDE DEF s, R
  <2> QED  BY <1>1, <1>2, InsideCases
<1>7. \/ ~read.ok
      \/ read.rows = R
      \/ \E k \in 0 .. Len(b) : read.rows = Append(R, <<a, Number, SubSeq(b, 1, k)>>)
  <2> HIDE DEF s, R, read
  <2>1. CASE s.st = "quoted"  BY <1>4, <2>1
  <2>2. CASE s.st # "quoted"
    <3>1. PICK st \in {"start", "plain", "closing"}, field \in Columns, row \in Rows :
            /\ s = Csv(st, field, row, R)
            /\ Len(row) = 2 => row = <<a, Number>>
                                 /\ \E k \in 0 .. Len(b) : field = SubSeq(b, 1, k)
      BY <1>6, <2>2
    <3> QED  BY <3>1, <1>5
  <2> QED  BY <2>1, <2>2
<1> QED  BY <1>2, <1>7

\* While a record is being written, the whole file is refused or shows every
\* finished record once, and after them at most that record without its end.
THEOREM WholeFileHonest == CdrSpec => []WholeFileIsHonest
<1>1. ASSUME CdrInv  PROVE WholeFileIsHonest
  <2> DEFINE n == Finished
             N == Len(cdrs)
             R == SubSeq(cdrs, 1, n)
             read == History(FileText, Len(FileText))
             rest == SubSeq(read.rows, n + 1, Len(read.rows))
             Fine == /\ IsPrefix(R, read.rows)
                     /\ rest # <<>> =>
                          /\ Len(rest) = 1 /\ Len(rest[1]) = 3 /\ pending > 0
                          /\ SubSeq(rest[1], 1, 2) = SubSeq(cdrs[N], 1, 2)
                          /\ IsPrefix(rest[1][3], cdrs[N][3])
  <2>1. SUFFICES ASSUME read.ok  PROVE Fine  BY DEF WholeFileIsHonest
  <2>2. cdrs \in Seq(Records) /\ N \in Nat /\ N \in 0 .. N /\ pending \in Nat
    BY <1>1 DEF CdrInv
  <2>3. ASSUME R \in Seq(Rows), Len(R) = n, read.rows = R  PROVE Fine
    <3>1. IsPrefix(R, R) /\ SubSeq(R, Len(R) + 1, Len(R)) = <<>>
      <4>1. <<>> \in Rows  BY DEF Rows
      <4> HIDE DEF R
      <4> QED  BY <2>3, <4>1, OneMore
    <3> HIDE DEF R, n, read
    <3> QED  BY <2>3, <3>1
  <2>4. CASE pending = 0
    <3> DEFINE t == Texts(cdrs)[N]
    <3>1. FileText = t /\ n = N /\ t \in Columns  BY <1>1, <2>4, FileIsText
    <3>2. R = cdrs  BY <3>1, <2>2, Prefix
    <3>3. After(CsvStart, t) = LineState(cdrs)
      <4>1. After(CsvStart, t) = LineState(SubSeq(cdrs, 1, N))  BY <2>2, TextRun
      <4> QED  BY <4>1, <3>1, <3>2
    <3>4. ParseHistory(t) = [ok |-> TRUE, rows |-> cdrs]  BY <3>3, <2>2, ParseRecords
    <3>5. Len(t) <= Len(t)  BY <3>1 DEF Columns
    <3>6. History(t, Len(t)) = ParseHistory(t)
      <4> HIDE DEF t
      <4> QED  BY <3>5 DEF History
    <3>7. read.rows = cdrs
      <4> HIDE DEF t
      <4> QED  BY <3>1, <3>4, <3>6
    <3>8. cdrs \in Seq(Rows)
      <4>1. \A r \in Records : r \in Rows  BY RecordRow
      <4> QED  BY <4>1, <2>2
    <3> HIDE DEF R, n, read, Fine
    <3> QED  BY <3>1, <3>2, <3>7, <3>8, <2>3
  <2>5. CASE pending > 0
    <3>1. /\ R \in Seq(Rows) /\ Len(R) = n /\ n \in Nat
      <4>1. n = N - 1 /\ R \in Seq(Rows) /\ Len(R) = n  BY <1>1, <2>5, UnfinishedFile
      <4> QED  BY <4>1
    <3>2. read = ParseHistory(FileText)
      <4>1. Len(FileText) \in Nat
        <5>1. Texts(cdrs)[N] \in Columns  BY <2>2, TextRun
        <5> DEFINE t == Texts(cdrs)[N]
                   m == Len(t) - pending
        <5>2. t \in Seq(Chars) /\ Len(t) \in Nat  BY <5>1 DEF Columns
        <5>3. FileText = SubSeq(t, 1, m)  BY DEF FileText, TextOf
        <5> HIDE DEF t
        <5>4. m \in Int /\ \A k \in 1 .. m : t[k] \in Chars  BY <5>2, <2>2
        <5> HIDE DEF m
        <5>5. SubSeq(t, 1, m) \in Seq(Chars)  BY <5>4, SubSeqProperties
        <5> QED  BY <5>3, <5>5
      <4>2. Len(FileText) <= Len(FileText)  BY <4>1
      <4> QED  BY <4>2 DEF History
    <3>3. ASSUME NEW a \in Columns, NEW b \in Columns, NEW k \in 0 .. Len(b),
                 cdrs[N] = <<a, Number, b>>,
                 read.rows = Append(R, <<a, Number, SubSeq(b, 1, k)>>)
          PROVE  Fine
      <4> DEFINE p == SubSeq(b, 1, k)
                 last == <<a, Number, p>>
      <4>1. p \in Columns /\ b \in Seq(Chars) /\ Len(p) = k
        <5>1. b \in Seq(Chars)  BY DEF Columns
        <5> QED  BY <5>1, Prefix DEF Columns
      <4>2. IsPrefix(p, b)
        <5>1. Len(b) \in Nat /\ k <= Len(b)  BY <4>1
        <5>2. p \in Seq(Chars) /\ k \in 0 .. Len(p)  BY <4>1 DEF Columns
        <5>3. SubSeq(p, 1, Len(p)) = p
          <6> HIDE DEF p
          <6> QED  BY <4>1, <5>2, Prefix
        <5> QED  BY <4>1, <5>1, <5>3 DEF IsPrefix
      <4> HIDE DEF p
      <4>3. Number \in Columns  BY DEF Number, Columns, Chars
      <4>4. Len(last) = 3 /\ last[3] = p /\ SubSeq(last, 1, 2) = <<a, Number>>
        BY <4>1, <4>3, RowColumns
      <4>5. SubSeq(cdrs[N], 1, 2) = <<a, Number>> /\ cdrs[N][3] = b
        <5> DEFINE x == <<a, Number, b>>
        <5>1. SubSeq(x, 1, 2) = <<a, Number>> /\ x[3] = b  BY <4>3, RowColumns
        <5>2. cdrs[N] = x  BY <3>3
        <5> HIDE DEF x
        <5> QED  BY <5>1, <5>2
      <4>6. last \in Rows  BY <4>1, <4>3 DEF Rows
      <4> HIDE DEF last
      <4>7. read.rows = Append(R, last)  BY <3>3 DEF last, p
      <4> HIDE DEF R, n, read
      <4>8. /\ IsPrefix(R, Append(R, last))
            /\ SubSeq(Append(R, last), Len(R) + 1, Len(Append(R, last))) = <<last>>
        BY <3>1, <4>6, OneMore
      <4>9. rest = <<last>>  BY <4>7, <4>8, <3>1
      <4>10. Len(<<last>>) = 1 /\ <<last>>[1] = last  OBVIOUS
      <4>11. IsPrefix(R, read.rows)  BY <4>7, <4>8
      <4> HIDE DEF rest
      <4>12. Len(rest) = 1 /\ rest[1] = last  BY <4>9, <4>10
      <4> QED  BY <4>2, <4>4, <4>5, <4>11, <4>12, <2>5
    <3>4. \/ ~read.ok
          \/ read.rows = R
          \/ \E a \in Columns, b \in Columns : \E k \in 0 .. Len(b) :
                /\ cdrs[N] = <<a, Number, b>>
                /\ read.rows = Append(R, <<a, Number, SubSeq(b, 1, k)>>)
      <4>1. LET r == ParseHistory(FileText)
            IN  \/ ~r.ok
                \/ r.rows = R
                \/ \E a \in Columns, b \in Columns : \E k \in 0 .. Len(b) :
                      /\ cdrs[N] = <<a, Number, b>>
                      /\ r.rows = Append(R, <<a, Number, SubSeq(b, 1, k)>>)
        BY <1>1, <2>5, UnfinishedAnswer
      <4> HIDE DEF read, R
      <4> QED  BY <3>2, <4>1
    <3> HIDE DEF R, n, read, Fine
    <3> QED  BY <2>1, <2>3, <3>1, <3>3, <3>4
  <2>6. pending = 0 \/ pending > 0  BY <2>2
  <2> HIDE DEF Fine
  <2> QED  BY <2>4, <2>5, <2>6
<1> QED  BY <1>1, CdrInvariant, PTL

-----------------------------------------------------------------------------
(* The log of OpenBTS: its files and the writer.                            *)

Interval(file) ==
    /\ file = [lo |-> file.lo, hi |-> file.hi]
    /\ file.lo \in Nat /\ file.hi \in Nat /\ file.lo <= file.hi

Appending == {"append", "rename", "put"}

WriterOk ==
    /\ writer = [step |-> writer.step, data |-> writer.data,
                 written |-> writer.written]
    /\ writer.step \in {"idle", "broken", "closed"} \cup Appending
    /\ writer.step \in Appending =>
          /\ writer.data \in Seq(Letters) /\ writer.written \in Nat
          /\ writer.written < Len(writer.data)

\* Bytes are missing between the files only after a log that was capped.
GapIsCapped ==
    Size(backup) > 0 /\ backup.hi # current.lo =>
        backup.hi < current.lo /\ Size(current) = LogLimit

\* Only a log that was never opened is too long.
FilesOk ==
    /\ Interval(current) /\ Interval(backup) /\ GapIsCapped
    /\ \/ Size(current) <= LogLimit /\ Size(backup) <= LogLimit
       \/ writer = ClosedLog

Covered == Since = 0 \/ current.hi - Since >= LogLimit

\* Between the steps of a rotation the piece to come makes up for what went.
RotationOk ==
    /\ writer.step = "rename" => Size(backup) = 0 /\ Size(current) + Piece > LogLimit
    /\ writer.step = "put" => Size(current) = 0 /\ Size(backup) + Piece > LogLimit
    /\ ~cutOff /\ writer.step \notin {"rename", "put"} => Covered

TailInv == WriterOk /\ FilesOk /\ RotationOk

\* A log left by an older writer satisfies the invariant before it is opened.
LEMMA TailInvInit == LogInit => TailInv
<1> SUFFICES ASSUME LogInit PROVE TailInv
  OBVIOUS
<1>1. WriterOk
  BY DEF LogInit, WriterOk, ClosedLog, Writing, Appending
<1>2. PICK first \in 0 .. MaxLegacy, size \in 0 .. MaxLegacy :
        /\ backup = [lo |-> 0, hi |-> first]
        /\ current = [lo |-> first, hi |-> first + size]
  BY DEF LogInit
<1>3. first \in Nat /\ size \in Nat  BY <1>2, LogAssumption
<1>4. FilesOk
  BY <1>2, <1>3 DEF LogInit, FilesOk, GapIsCapped, Interval, Size
<1>5. RotationOk
  BY <1>2, <1>3 DEF LogInit, RotationOk, Covered, Since, Size, ClosedLog, Writing
<1> QED  BY <1>1, <1>4, <1>5 DEF TailInv

\* While a write is going on there is something left to append.
LEMMA PieceBounds ==
  ASSUME WriterOk, writer.step \in Appending
  PROVE  Piece \in Nat /\ 0 < Piece /\ Piece <= LogLimit
<1>1. /\ Len(writer.data) \in Nat /\ writer.written \in Nat
      /\ writer.written < Len(writer.data)
  BY DEF WriterOk
<1> QED  BY <1>1, LogAssumption DEF Piece, Least

\* A file within the limit is left as it is; a longer one keeps its end.
LEMMA Capping ==
  ASSUME NEW file, Interval(file)
  PROVE  /\ Interval(Capped(file)) /\ Size(Capped(file)) <= LogLimit
         /\ Capped(file).hi = file.hi
         /\ Size(file) <= LogLimit => Capped(file) = file
         /\ Size(file) > LogLimit => Size(Capped(file)) = LogLimit
<1>1. Capped(file) = [lo |-> file.hi - Least(Size(file), LogLimit), hi |-> file.hi]
  BY DEF Interval, Capped
<1>2. CASE Size(file) <= LogLimit
  BY <1>1, <1>2, LogAssumption DEF Interval, Size, Least
<1>3. CASE Size(file) > LogLimit
  BY <1>1, <1>3, LogAssumption DEF Interval, Size, Least
<1> QED  BY <1>2, <1>3, LogAssumption DEF Interval, Size

\* Capping the current file, and perhaps the backup, leaves the last bytes.
LEMMA CappedFiles ==
  ASSUME FilesOk, current' = Capped(current), backup' \in {backup, Capped(backup)}
  PROVE  /\ Interval(current') /\ Interval(backup') /\ GapIsCapped'
         /\ Covered => Covered'
<1>1. /\ Interval(current) /\ Interval(backup) /\ GapIsCapped
      /\ LogLimit \in Nat \ {0}
  BY LogAssumption DEF FilesOk
<1>2. /\ Interval(current') /\ Size(current') <= LogLimit
      /\ current'.hi = current.hi
      /\ Size(current) <= LogLimit => current' = current
      /\ Size(current) > LogLimit => Size(current') = LogLimit
  BY <1>1, Capping
<1>3. /\ Interval(backup') /\ backup'.hi = backup.hi /\ backup'.lo >= backup.lo
      /\ \/ backup' = backup
         \/ Size(backup') = LogLimit /\ Size(backup) > LogLimit
  <2>1. CASE backup' = backup  BY <1>1, <2>1 DEF Interval
  <2>2. CASE backup' = Capped(backup)
    <3>1. /\ Interval(backup') /\ backup'.hi = backup.hi
          /\ Size(backup) <= LogLimit => backup' = backup
          /\ Size(backup) > LogLimit => Size(backup') = LogLimit
      BY <1>1, <2>2, Capping
    <3> QED  BY <1>1, <3>1 DEF Interval, Size
  <2> QED  BY <2>1, <2>2
<1>4. GapIsCapped'
  <2> SUFFICES ASSUME Size(backup') > 0, backup'.hi # current'.lo
               PROVE  backup'.hi < current'.lo /\ Size(current') = LogLimit
    BY DEF GapIsCapped
  <2>1. Size(backup) > 0  BY <1>1, <1>3 DEF Interval, Size
  <2>2. CASE Size(current) <= LogLimit
    BY <1>1, <1>2, <1>3, <2>1, <2>2 DEF GapIsCapped
  <2>3. CASE Size(current) > LogLimit
    <3>1. backup.hi <= current.lo  BY <1>1, <2>1 DEF GapIsCapped, Interval
    <3>2. current.lo < current'.lo  BY <1>1, <1>2, <2>3 DEF Interval, Size
    <3> QED  BY <1>1, <1>2, <1>3, <2>3, <3>1, <3>2 DEF Interval
  <2> QED  BY <1>1, <2>2, <2>3 DEF Interval, Size
<1>5. ASSUME Covered PROVE Covered'
  <2>1. CASE Size(current) > LogLimit
    <3>1. Size(current') = LogLimit  BY <1>2, <2>1
    <3>2. CASE Size(backup') > 0 /\ backup'.hi = current'.lo
      BY <1>1, <1>2, <1>3, <3>1, <3>2 DEF Covered, Since, Interval, Size
    <3>3. CASE ~(Size(backup') > 0 /\ backup'.hi = current'.lo)
      BY <1>1, <1>2, <3>1, <3>3 DEF Covered, Since, Interval, Size
    <3> QED  BY <3>2, <3>3
  <2>2. CASE Size(current) <= LogLimit /\ backup' = backup
    <3>1. current' = current  BY <1>2, <2>2
    <3> QED  BY <1>5, <2>2, <3>1 DEF Covered, Since, Size
  <2>3. CASE Size(current) <= LogLimit /\ Size(backup') = LogLimit /\ Size(backup) > LogLimit
    <3>1. current' = current  BY <1>2, <2>3
    <3>2. CASE backup.hi = current.lo
      BY <1>1, <1>2, <1>3, <2>3, <3>1, <3>2 DEF Covered, Since, Interval, Size
    <3>3. CASE backup.hi # current.lo
      <4>1. Size(current) = LogLimit
        BY <1>1, <2>3, <3>3 DEF GapIsCapped, Interval, Size
      <4> QED  BY <1>1, <1>3, <3>1, <3>3, <4>1 DEF Covered, Since, Interval, Size
    <3> QED  BY <3>2, <3>3
  <2> QED  BY <1>1, <1>3, <2>1, <2>2, <2>3 DEF Interval, Size
<1> QED  BY <1>2, <1>3, <1>4, <1>5

\* NewWriter caps what it finds, or fails on the way.
LEMMA OpenStep ==
  ASSUME TailInv, OpenLog \/ FailedOpen
  PROVE  TailInv'
<1>1. /\ writer = ClosedLog /\ writer.step = "closed" /\ cutOff' = cutOff
      /\ FilesOk /\ (~cutOff => Covered)
      /\ writer' \in {Quiet, ClosedLog}
  BY DEF TailInv, RotationOk, OpenLog, FailedOpen, ClosedLog, Writing
<1>2. WriterOk' /\ writer'.step \notin {"rename", "put"}
  BY <1>1 DEF WriterOk, Quiet, ClosedLog, Writing, Appending
<1>3. /\ Interval(current') /\ Interval(backup') /\ GapIsCapped'
      /\ Covered => Covered'
  <2>1. CASE UNCHANGED <<current, backup>>
    BY <1>1, <2>1 DEF FilesOk, Interval, GapIsCapped, Covered, Since, Size
  <2>2. CASE current' = Capped(current) /\ backup' \in {backup, Capped(backup)}
    BY <1>1, <2>2, CappedFiles
  <2> QED  BY <2>1, <2>2 DEF OpenLog, FailedOpen
<1>4. \/ Size(current') <= LogLimit /\ Size(backup') <= LogLimit
      \/ writer' = ClosedLog
  <2>1. CASE OpenLog
    BY <1>1, <2>1, Capping DEF OpenLog, FilesOk
  <2>2. CASE FailedOpen
    BY <1>1, <2>2 DEF FailedOpen
  <2> QED  BY <2>1, <2>2
<1>5. FilesOk'  BY <1>3, <1>4 DEF FilesOk, Size, ClosedLog, Writing
<1>6. RotationOk'
  BY <1>1, <1>2, <1>3 DEF RotationOk
<1> QED  BY <1>2, <1>5, <1>6 DEF TailInv

\* A new state of the writer beside the same files.
LEMMA FilesKept ==
  ASSUME TailInv, Size(current) <= LogLimit, Size(backup) <= LogLimit,
         UNCHANGED <<current, backup>>
  PROVE  FilesOk'
  BY DEF TailInv, FilesOk, Interval, GapIsCapped, Size

\* An open log is within the limit.
LEMMA WithinLimit ==
  ASSUME TailInv, writer.step # "closed"
  PROVE  Size(current) <= LogLimit /\ Size(backup) <= LogLimit
  BY DEF TailInv, FilesOk, ClosedLog, Writing

\* A chunk is at least one letter.
LEMMA ChunkStep ==
  ASSUME TailInv, NEW n \in 1 .. MaxChunk, NEW data \in [1 .. n -> Letters],
         WriteChunk(data)
  PROVE  TailInv'
<1>1. /\ writer.step = "idle" /\ writer' = Writing(data, 0, "append")
      /\ UNCHANGED <<current, backup, cutOff>>
  BY DEF WriteChunk, Quiet, Writing
<1>2. data \in Seq(Letters) /\ Len(data) = n /\ n \in Nat /\ 0 < n
  BY LogAssumption
<1>3. WriterOk'
  BY <1>1, <1>2 DEF WriterOk, Writing, Appending
<1>4. FilesOk'  BY <1>1, WithinLimit, FilesKept
<1>5. RotationOk'
  BY <1>1 DEF TailInv, RotationOk, Covered, Since, Size, Writing
<1> QED  BY <1>3, <1>4, <1>5 DEF TailInv

\* Removing the backup: the file and the piece together exceed the limit.
LEMMA RemoveStep ==
  ASSUME TailInv, RemoveBackup
  PROVE  TailInv'
<1>1. /\ writer.step = "append" /\ Size(current) + Piece > LogLimit
      /\ writer' = [writer EXCEPT !.step = "rename"]
      /\ backup' = [lo |-> current.lo, hi |-> current.lo]
      /\ UNCHANGED <<current, cutOff>>
  BY DEF RemoveBackup, Overflows
<1>2. writer' = [step |-> "rename", data |-> writer.data, written |-> writer.written]
  BY <1>1 DEF TailInv, WriterOk
<1>3. WriterOk'
  BY <1>1, <1>2 DEF TailInv, WriterOk, Appending
<1>4. Size(current) <= LogLimit  BY <1>1, WithinLimit
<1>5. FilesOk'
  BY <1>1, <1>4, LogAssumption DEF TailInv, FilesOk, GapIsCapped, Interval, Size
<1>6. Piece' = Piece
  BY <1>2 DEF Piece, TailInv, WriterOk
<1>7. RotationOk'
  BY <1>1, <1>2, <1>5, <1>6 DEF RotationOk, FilesOk, Interval, Size
<1> QED  BY <1>3, <1>5, <1>7 DEF TailInv

\* The file becomes the backup; the piece will make up for the old backup.
LEMMA RenameStep ==
  ASSUME TailInv, RenameCurrent
  PROVE  TailInv'
<1>1. /\ writer.step = "rename"
      /\ writer' = [writer EXCEPT !.step = "put"]
      /\ backup' = current
      /\ current' = [lo |-> current.hi, hi |-> current.hi]
      /\ UNCHANGED cutOff
  BY DEF RenameCurrent
<1>2. writer' = [step |-> "put", data |-> writer.data, written |-> writer.written]
  BY <1>1 DEF TailInv, WriterOk
<1>3. WriterOk'
  BY <1>1, <1>2 DEF TailInv, WriterOk, Appending
<1>4. Size(current) <= LogLimit  BY <1>1, WithinLimit
<1>5. FilesOk'
  BY <1>1, <1>4, LogAssumption DEF TailInv, FilesOk, GapIsCapped, Interval, Size
<1>6. Piece' = Piece
  BY <1>2 DEF Piece, TailInv, WriterOk
<1>7. Size(current) + Piece > LogLimit
  BY <1>1 DEF TailInv, RotationOk
<1>8. Size(current') = 0 /\ Size(backup') = Size(current)
  BY <1>1 DEF TailInv, FilesOk, Interval, Size
<1>9. Size(backup)' + Piece' > LogLimit /\ Size(current)' = 0
  BY <1>6, <1>7, <1>8 DEF Size
<1>10. RotationOk'
  BY <1>2, <1>9 DEF RotationOk
<1> QED  BY <1>3, <1>5, <1>10 DEF TailInv

\* What an append of n bytes, at most the piece, does to the files.
LEMMA AppendedPiece ==
  ASSUME TailInv, writer.step \in Appending, NEW n \in Nat, n <= Piece,
         Put(n)
  PROVE  /\ FilesOk' /\ Size(current') <= LogLimit
         /\ writer.step = "append" /\ ~cutOff => Covered'
         /\ writer.step = "put" /\ n = Piece => Covered'
<1>1. Piece \in Nat /\ 0 < Piece /\ Piece <= LogLimit
  BY PieceBounds DEF TailInv
<1>2. /\ Interval(current) /\ Interval(backup) /\ GapIsCapped
      /\ Size(current) <= LogLimit /\ Size(backup) <= LogLimit
      /\ LogLimit \in Nat \ {0}
  BY WithinLimit, LogAssumption DEF TailInv, FilesOk, Appending
<1>3. /\ current' = [lo |-> current.lo, hi |-> current.hi + n] /\ backup' = backup
      /\ n > 0 => writer.step = "put" \/ (writer.step = "append" /\ ~Overflows)
  BY <1>2 DEF Interval, Put
<1>4. Size(current) + n <= LogLimit
  <2>1. Size(current) \in Nat /\ LogLimit \in Nat
    BY <1>2, LogAssumption DEF Interval, Size
  <2>2. CASE n = 0  BY <1>2, <2>1, <2>2
  <2>3. CASE writer.step = "append" /\ ~Overflows
    <3>1. Size(current) = 0 \/ Size(current) + Piece <= LogLimit
      BY <1>1, <2>1, <2>3 DEF Overflows
    <3> QED  BY <1>1, <2>1, <3>1
  <2>4. CASE writer.step = "put"
    <3>1. Size(current) = 0  BY <2>4 DEF TailInv, RotationOk
    <3> QED  BY <1>1, <2>1, <3>1
  <2> QED  BY <1>3, <2>2, <2>3, <2>4
<1>5. FilesOk' /\ Size(current') <= LogLimit
  <2>1. GapIsCapped'
    BY <1>2, <1>3, <1>4 DEF GapIsCapped, Interval, Size
  <2> QED  BY <1>2, <1>3, <1>4, <2>1 DEF FilesOk, Interval, Size
<1>6. ASSUME writer.step = "append", ~cutOff PROVE Covered'
  <2>1. Covered  BY <1>6 DEF TailInv, RotationOk
  <2> QED
    BY <1>2, <1>3, <2>1, LogAssumption, SMTT(30) DEF Covered, Since, Interval, Size
<1>7. ASSUME writer.step = "put", n = Piece PROVE Covered'
  <2>1. Size(current) = 0 /\ Size(backup) + Piece > LogLimit
    BY <1>7 DEF TailInv, RotationOk
  <2>2. Size(backup) > 0
    BY <1>1, <1>2, <2>1 DEF Interval, Size
  <2>3. backup.hi = current.lo
    BY <1>2, <2>1, <2>2 DEF GapIsCapped
  <2> QED
    BY <1>1, <1>2, <1>3, <1>7, <2>1, <2>2, <2>3
       DEF Covered, Since, Interval, Size
<1> QED  BY <1>5, <1>6, <1>7

\* appendLog succeeds and the loop of Write goes on or ends.
LEMMA AppendStep ==
  ASSUME TailInv, AppendPiece
  PROVE  TailInv'
<1> DEFINE done == writer.written + Piece
<1>1. /\ writer.step = "put" \/ (writer.step = "append" /\ ~Overflows)
      /\ Put(Piece) /\ UNCHANGED cutOff
      /\ IF done = Len(writer.data)
         THEN writer' = Quiet ELSE writer' = Writing(writer.data, done, "append")
  BY DEF AppendPiece, Return
<1>2. writer.step \in Appending  BY <1>1 DEF Appending
<1>3. Piece \in Nat /\ 0 < Piece
  BY <1>2, PieceBounds DEF TailInv
<1>4. /\ writer.data \in Seq(Letters) /\ writer.written \in Nat
      /\ writer.written < Len(writer.data)
  BY <1>2 DEF TailInv, WriterOk
<1>5. done \in Nat /\ done <= Len(writer.data)
  BY <1>3, <1>4, LogAssumption DEF Piece, Least
<1>6. WriterOk' /\ writer'.step \notin {"rename", "put"}
  BY <1>1, <1>4, <1>5 DEF WriterOk, Quiet, Writing, Appending
<1>7. FilesOk' /\ (~cutOff => Covered')
  BY <1>1, <1>2, <1>3, AppendedPiece
<1>8. RotationOk'
  BY <1>1, <1>6, <1>7 DEF RotationOk
<1> QED  BY <1>6, <1>7, <1>8 DEF TailInv

\* A file operation fails; one that was rotating is recorded in cutOff.
LEMMA FailStep ==
  ASSUME TailInv, FailedAppend
  PROVE  TailInv'
<1>1. /\ writer.step \in Appending
      /\ writer' = Broken(SubSeq(writer.data, writer.written + 1, Len(writer.data)))
      /\ cutOff' = (cutOff \/ writer.step \in {"rename", "put"})
  BY DEF FailedAppend, Return, Appending, TailInv, WriterOk
<1>2. PICK n \in 0 .. Piece : Put(n)
  BY DEF FailedAppend
<1>3. n \in Nat /\ n <= Piece
  BY <1>1, <1>2, PieceBounds DEF TailInv
<1>4. FilesOk' /\ (writer.step = "append" /\ ~cutOff => Covered')
  BY <1>1, <1>2, <1>3, AppendedPiece
<1>5. WriterOk'
  BY <1>1 DEF WriterOk, Broken, Writing, Appending
<1>6. RotationOk'
  BY <1>1, <1>4 DEF RotationOk, Appending, Broken, Writing
<1> QED  BY <1>4, <1>5, <1>6 DEF TailInv

\* Close leaves the files as they are.
LEMMA CloseStep ==
  ASSUME TailInv, CloseLog
  PROVE  TailInv'
<1>1. /\ UNCHANGED <<current, backup, cutOff>> /\ writer' = ClosedLog
      /\ writer.step \in {"idle", "broken"}
  BY DEF CloseLog, AtRest
<1>2. WriterOk'
  BY <1>1 DEF WriterOk, ClosedLog, Writing, Appending
<1>3. FilesOk'  BY <1>1, WithinLimit, FilesKept
<1>4. RotationOk'
  BY <1>1 DEF TailInv, RotationOk, Covered, Since, Size, ClosedLog, Writing
<1> QED  BY <1>2, <1>3, <1>4 DEF TailInv

\* The server dies in a Write, as if a file operation had failed.
LEMMA KillStep ==
  ASSUME TailInv, KillServer
  PROVE  TailInv'
<1>1. /\ writer.step \in Appending /\ writer' = ClosedLog
      /\ cutOff' = (cutOff \/ writer.step \in {"rename", "put"})
  BY DEF KillServer, Appending
<1>2. PICK n \in 0 .. Piece : Put(n)
  BY DEF KillServer
<1>3. n \in Nat /\ n <= Piece
  BY <1>1, <1>2, PieceBounds DEF TailInv
<1>4. FilesOk' /\ (writer.step = "append" /\ ~cutOff => Covered')
  BY <1>1, <1>2, <1>3, AppendedPiece
<1>5. WriterOk'
  BY <1>1 DEF WriterOk, ClosedLog, Writing, Appending
<1>6. RotationOk'
  BY <1>1, <1>4 DEF RotationOk, Appending, ClosedLog, Writing
<1> QED  BY <1>4, <1>5, <1>6 DEF TailInv

\* Every step of the writer keeps the invariant.
LEMMA TailInvStep ==
  ASSUME TailInv, [LogNext]_logVars
  PROVE  TailInv'
<1>1. CASE OpenLog \/ FailedOpen  BY <1>1, OpenStep
<1>2. CASE \E n \in 1 .. MaxChunk : \E data \in [1 .. n -> Letters] : WriteChunk(data)
  BY <1>2, ChunkStep
<1>3. CASE RemoveBackup  BY <1>3, RemoveStep
<1>4. CASE RenameCurrent  BY <1>4, RenameStep
<1>5. CASE AppendPiece  BY <1>5, AppendStep
<1>6. CASE FailedAppend  BY <1>6, FailStep
<1>7. CASE CloseLog  BY <1>7, CloseStep
<1>9. CASE KillServer  BY <1>9, KillStep
<1>8. CASE UNCHANGED logVars
  BY <1>8 DEF logVars, TailInv, WriterOk, FilesOk, GapIsCapped, RotationOk, Interval,
              Covered, Since, Size, Piece
<1> QED
  BY <1>1, <1>2, <1>3, <1>4, <1>5, <1>6, <1>7, <1>8, <1>9 DEF LogNext

\* The invariant is stronger than the property.
LEMMA TailInvImplies ==
  ASSUME TailInv
  PROVE  LogIsTail
<1> SUFFICES ASSUME writer # ClosedLog PROVE
      /\ Size(current) <= LogLimit /\ Size(backup) <= LogLimit
      /\ Size(backup) > 0 /\ backup.hi # current.lo =>
            backup.hi < current.lo /\ Size(current) = LogLimit
      /\ AtRest /\ ~cutOff => Since = 0 \/ current.hi - Since >= LogLimit
  BY DEF LogIsTail
<1>1. AtRest => writer.step \notin {"rename", "put"}
  BY DEF AtRest
<1> QED  BY <1>1 DEF TailInv, FilesOk, GapIsCapped, RotationOk, Covered

\* Whatever log and backup NewWriter adopts, however a child's output is cut into
\* chunks, whichever file operation fails and whenever the server is killed,
\* Writer keeps both files within maxLogBytes, leaves out bytes only before a log
\* it capped and, unless a rotation was cut off, keeps the last maxLogBytes.
THEOREM LogIsTailHolds == LogSpec => []LogIsTail
<1>1. LogInit => TailInv  BY TailInvInit
<1>2. TailInv /\ [LogNext]_logVars => TailInv'  BY TailInvStep
<1>3. TailInv => LogIsTail  BY TailInvImplies
<1> QED  BY <1>1, <1>2, <1>3, PTL DEF LogSpec

-----------------------------------------------------------------------------
(* Readiness: the tail that processLog keeps is all it needs of the output.  *)

\* The word stands in the text from position k + 1 on.
At(text, word, k) ==
    /\ k + Len(word) <= Len(text)
    /\ \A i \in 1 .. Len(word) : text[k + i] = word[i]

\* ready is what a search of the text gives.
MarkerTold(text) ==
    /\ ready = [tail |-> ready.tail, seen |-> ready.seen]
    /\ ready.seen \in BOOLEAN
    /\ ready.seen <=> HasWord(text, Marker)
    /\ ~ready.seen => ready.tail = Kept(text)

\* An inductive invariant: until a Write fails all of the output is searched.
ReadyOk ==
    /\ output \in Seq(Letters)
    /\ writer.step \in {"idle"} \cup Appending => MarkerTold(output)
    /\ writer.step = "broken" => MarkerTold(Acknowledged)

\* bytes.Contains, letter by letter.
LEMMA WordAt ==
  ASSUME NEW text \in Seq(Letters)
  PROVE  HasWord(text, Marker) <=> \E k \in Nat : At(text, Marker, k)
<1>1. /\ Marker \in Seq(Letters) /\ Len(Marker) \in Nat /\ Len(Marker) > 0
      /\ Len(text) \in Nat
      /\ \A i \in 1 .. Len(text) : text[i] \in Letters
  BY LogAssumption
<1>2. SubSeq(Marker, 1, Len(Marker)) = Marker  BY <1>1, SubSeqFull
<1>3. ASSUME NEW k \in 1 .. Len(text)
      PROVE  IsPrefix(Marker, SubSeq(text, k, Len(text))) <=> At(text, Marker, k - 1)
  <2> DEFINE rest == SubSeq(text, k, Len(text))
  <2>1. /\ rest \in Seq(Letters) /\ Len(rest) = Len(text) - k + 1
        /\ \A i \in 1 .. Len(text) - k + 1 : rest[i] = text[k + i - 1]
    <3>1. k \in Int /\ Len(text) \in Int /\ \A i \in k .. Len(text) : text[i] \in Letters
      BY <1>1
    <3> QED  BY <1>1, <3>1, SubSeqProperties
  <2>2. CASE Len(Marker) <= Len(rest)
    <3> DEFINE start == SubSeq(rest, 1, Len(Marker))
    <3>1. /\ start \in Seq(Letters) /\ Len(start) = Len(Marker)
          /\ \A i \in 1 .. Len(Marker) : start[i] = rest[i]
      <4>1. \A i \in 1 .. Len(Marker) : rest[i] \in Letters
        BY <1>1, <2>1, <2>2
      <4> HIDE DEF rest
      <4> QED  BY <1>1, <4>1, SubSeqProperties
    <3>2. start = Marker <=> \A i \in 1 .. Len(Marker) : start[i] = Marker[i]
      <4> HIDE DEF start
      <4> QED  BY <1>1, <3>1, SeqEqual
    <3>3. \A i \in 1 .. Len(Marker) : rest[i] = text[k - 1 + i]
      <4> HIDE DEF rest
      <4> QED  BY <1>1, <2>1, <2>2
    <3>4. k - 1 + Len(Marker) <= Len(text)
      <4> HIDE DEF rest
      <4> QED  BY <1>1, <2>1, <2>2
    <3>5. start = Marker <=> At(text, Marker, k - 1)
      <4> HIDE DEF start, rest
      <4> QED  BY <3>1, <3>2, <3>3, <3>4 DEF At
    <3> QED  BY <1>2, <2>2, <3>5 DEF IsPrefix
  <2>3. CASE ~(Len(Marker) <= Len(rest))
    <3>1. ~IsPrefix(Marker, rest)  BY <2>3 DEF IsPrefix
    <3>2. ~(k - 1 + Len(Marker) <= Len(text))
      <4> HIDE DEF rest
      <4> QED  BY <1>1, <2>1, <2>3
    <3> QED  BY <3>1, <3>2 DEF At
  <2> QED  BY <2>2, <2>3
<1>4. ASSUME HasWord(text, Marker) PROVE \E k \in Nat : At(text, Marker, k)
  <2>1. PICK k \in 1 .. Len(text) : IsPrefix(Marker, SubSeq(text, k, Len(text)))
    BY <1>4 DEF HasWord
  <2>2. k - 1 \in Nat /\ At(text, Marker, k - 1)  BY <1>1, <1>3, <2>1
  <2> QED  BY <2>2
<1>5. ASSUME NEW k \in Nat, At(text, Marker, k) PROVE HasWord(text, Marker)
  <2>1. k + 1 \in 1 .. Len(text) /\ (k + 1) - 1 = k  BY <1>1, <1>5 DEF At
  <2>2. IsPrefix(Marker, SubSeq(text, k + 1, Len(text)))  BY <1>3, <1>5, <2>1
  <2> QED  BY <2>1, <2>2 DEF HasWord
<1> QED  BY <1>4, <1>5

\* What is kept: the last letters, one fewer than the marker has.
LEMMA KeptLetters ==
  ASSUME NEW text \in Seq(Letters)
  PROVE  /\ Kept(text) \in Seq(Letters)
         /\ Len(Kept(text)) = IF Len(text) >= Len(Marker)
                              THEN Len(Marker) - 1 ELSE Len(text)
         /\ \A i \in 1 .. Len(Kept(text)) :
               Kept(text)[i] = text[Len(text) - Len(Kept(text)) + i]
<1>1. /\ Len(Marker) \in Nat /\ Len(Marker) > 0 /\ Len(text) \in Nat
      /\ \A i \in 1 .. Len(text) : text[i] \in Letters
  BY LogAssumption
<1>2. CASE Len(text) >= Len(Marker)
  <2> DEFINE m == Len(text) - Len(Marker) + 2
  <2>1. m \in Int /\ Len(text) \in Int /\ \A i \in m .. Len(text) : text[i] \in Letters
    BY <1>1, <1>2
  <2>2. Kept(text) = SubSeq(text, m, Len(text))  BY <1>2 DEF Kept
  <2>3. /\ Kept(text) \in Seq(Letters)
        /\ Len(Kept(text)) = IF m <= Len(text) THEN Len(text) - m + 1 ELSE 0
        /\ \A i \in 1 .. Len(text) - m + 1 : Kept(text)[i] = text[m + i - 1]
    <3> HIDE DEF m
    <3> QED  BY <2>1, <2>2, SubSeqProperties
  <2>4. Len(Kept(text)) = Len(Marker) - 1
    <3>1. m \in Int /\ m = Len(text) - Len(Marker) + 2  BY <2>1
    <3>2. Len(Kept(text)) = IF m <= Len(text) THEN Len(text) - m + 1 ELSE 0
      BY <2>3
    <3> HIDE DEF m
    <3>3. CASE m <= Len(text)
      <4>1. Len(Kept(text)) = Len(text) - m + 1  BY <3>2, <3>3
      <4> QED  BY <1>1, <3>1, <4>1
    <3>4. CASE ~(m <= Len(text))
      <4>1. Len(Kept(text)) = 0  BY <3>2, <3>4
      <4>2. Len(Marker) = 1
        <5>1. \A a, b, c \in Int : c = a - b + 2 /\ ~(c <= a) /\ b > 0 => b = 1
          OBVIOUS
        <5>2. Len(Marker) \in Int /\ Len(text) \in Int /\ Len(Marker) > 0  BY <1>1
        <5> QED  BY <3>1, <3>4, <5>1, <5>2
      <4> QED  BY <4>1, <4>2
    <3> QED  BY <3>3, <3>4
  <2>5. \A i \in 1 .. Len(Kept(text)) : m + i - 1 = Len(text) - Len(Kept(text)) + i
    BY <1>1, <2>4
  <2>6. Len(text) - m + 1 = Len(Kept(text))  BY <1>1, <2>4
  <2> HIDE DEF m
  <2> QED  BY <1>2, <2>3, <2>4, <2>5, <2>6
<1>3. CASE ~(Len(text) >= Len(Marker))
  <2>1. Kept(text) = text  BY <1>3 DEF Kept
  <2>2. \A i \in 1 .. Len(text) : Len(text) - Len(text) + i = i  BY <1>1
  <2> QED  BY <1>3, <2>1, <2>2
<1> QED  BY <1>2, <1>3

\* After more output the kept letters stand where they stood in all of it.
LEMMA KeptAligned ==
  ASSUME NEW text \in Seq(Letters), NEW data \in Seq(Letters)
  PROVE  LET short == Kept(text) \o data
             gone  == Len(text) - Len(Kept(text))
         IN  /\ short \in Seq(Letters) /\ text \o data \in Seq(Letters)
             /\ gone \in Nat /\ Len(text \o data) = gone + Len(short)
             /\ Len(short) = Len(Kept(text)) + Len(data)
             /\ \A i \in 1 .. Len(short) : short[i] = (text \o data)[gone + i]
<1> DEFINE kept == Kept(text)
           short == kept \o data
           long == text \o data
           gone == Len(text) - Len(kept)
<1>1. /\ kept \in Seq(Letters) /\ Len(kept) \in Nat /\ Len(text) \in Nat
      /\ Len(data) \in Nat /\ Len(kept) <= Len(text)
      /\ \A i \in 1 .. Len(kept) : kept[i] = text[gone + i]
  <2>1. /\ kept \in Seq(Letters)
        /\ Len(kept) = IF Len(text) >= Len(Marker) THEN Len(Marker) - 1 ELSE Len(text)
        /\ \A i \in 1 .. Len(kept) : kept[i] = text[gone + i]
    BY KeptLetters
  <2>2. Len(Marker) \in Nat /\ Len(text) \in Nat /\ Len(data) \in Nat
    BY LogAssumption
  <2> HIDE DEF kept
  <2>3. Len(kept) \in Nat /\ Len(kept) <= Len(text)  BY <2>1, <2>2
  <2> QED  BY <2>1, <2>2, <2>3
<1> HIDE DEF kept
<1>2. /\ short \in Seq(Letters) /\ Len(short) = Len(kept) + Len(data)
      /\ \A i \in 1 .. Len(kept) + Len(data) :
            short[i] = IF i <= Len(kept) THEN kept[i] ELSE data[i - Len(kept)]
  BY <1>1, ConcatProperties
<1>3. /\ long \in Seq(Letters) /\ Len(long) = Len(text) + Len(data)
      /\ \A i \in 1 .. Len(text) + Len(data) :
            long[i] = IF i <= Len(text) THEN text[i] ELSE data[i - Len(text)]
  BY <1>1, ConcatProperties
<1> HIDE DEF short, long
<1>4. gone \in Nat /\ Len(long) = gone + Len(short)  BY <1>1, <1>2, <1>3
<1>5. ASSUME NEW i \in 1 .. Len(short) PROVE short[i] = long[gone + i]
  <2>1. CASE i <= Len(kept)
    <3>1. i \in 1 .. Len(kept) /\ gone + i \in 1 .. Len(text) /\ gone + i <= Len(text)
          /\ gone + i \in 1 .. Len(text) + Len(data) /\ i \in 1 .. Len(kept) + Len(data)
      BY <1>1, <1>2, <2>1
    <3>2. short[i] = kept[i] /\ long[gone + i] = text[gone + i]
      BY <1>2, <1>3, <2>1, <3>1
    <3> QED  BY <1>1, <3>1, <3>2
  <2>2. CASE ~(i <= Len(kept))
    <3>1. /\ ~(gone + i <= Len(text)) /\ gone + i \in 1 .. Len(text) + Len(data)
          /\ i \in 1 .. Len(kept) + Len(data)
          /\ (gone + i) - Len(text) = i - Len(kept)
      BY <1>1, <1>2, <2>2
    <3> HIDE DEF gone
    <3> QED  BY <1>2, <1>3, <2>2, <3>1
  <2> QED  BY <2>1, <2>2
<1> QED  BY <1>2, <1>3, <1>4, <1>5 DEF short, long, kept

\* A marker in the output ends in the new letters or was there before.
LEMMA SearchOfTail ==
  ASSUME NEW text \in Seq(Letters), NEW data \in Seq(Letters)
  PROVE  HasWord(text \o data, Marker) <=>
            HasWord(text, Marker) \/ HasWord(Kept(text) \o data, Marker)
<1> DEFINE short == Kept(text) \o data
           long == text \o data
           gone == Len(text) - Len(Kept(text))
<1>1. /\ short \in Seq(Letters) /\ long \in Seq(Letters)
      /\ gone \in Nat /\ Len(long) = gone + Len(short)
      /\ \A i \in 1 .. Len(short) : short[i] = long[gone + i]
  BY KeptAligned
<1>2. /\ Len(Marker) \in Nat /\ Len(Marker) > 0 /\ Len(text) \in Nat
      /\ Len(data) \in Nat /\ Len(short) \in Nat
  BY <1>1, LogAssumption
<1>3. /\ Len(long) = Len(text) + Len(data)
      /\ \A i \in 1 .. Len(text) : long[i] = text[i]
  <2>1. /\ Len(long) = Len(text) + Len(data)
        /\ \A i \in 1 .. Len(text) + Len(data) :
              long[i] = IF i <= Len(text) THEN text[i] ELSE data[i - Len(text)]
    BY ConcatProperties
  <2> HIDE DEF long
  <2> QED  BY <1>2, <2>1
<1>4. gone > 0 => gone + Len(Marker) = Len(text) + 1
  <2>1. Len(Kept(text)) = IF Len(text) >= Len(Marker) THEN Len(Marker) - 1 ELSE Len(text)
    BY KeptLetters
  <2>2. gone = Len(text) - Len(Kept(text))  OBVIOUS
  <2> HIDE DEF gone
  <2>3. CASE Len(text) >= Len(Marker)
    <3>1. Len(Kept(text)) = Len(Marker) - 1  BY <2>1, <2>3
    <3> QED  BY <1>2, <2>2, <3>1
  <2>4. CASE ~(Len(text) >= Len(Marker))
    <3>1. Len(Kept(text)) = Len(text)  BY <2>1, <2>4
    <3> QED  BY <1>2, <2>2, <3>1
  <2> QED  BY <2>3, <2>4
<1> HIDE DEF short, long, gone
<1>5. ASSUME NEW k \in Nat, At(text, Marker, k) PROVE At(long, Marker, k)
  <2>1. k + Len(Marker) <= Len(long)  BY <1>2, <1>3, <1>5 DEF At
  <2>2. ASSUME NEW i \in 1 .. Len(Marker) PROVE long[k + i] = Marker[i]
    <3>1. k + i \in 1 .. Len(text)  BY <1>2, <1>5 DEF At
    <3> QED  BY <1>3, <1>5, <3>1 DEF At
  <2> QED  BY <2>1, <2>2 DEF At
<1>6. ASSUME NEW k \in Nat, At(short, Marker, k) PROVE At(long, Marker, gone + k)
  <2>1. (gone + k) + Len(Marker) <= Len(long)  BY <1>1, <1>2, <1>6 DEF At
  <2>2. ASSUME NEW i \in 1 .. Len(Marker) PROVE long[(gone + k) + i] = Marker[i]
    <3>1. k + i \in 1 .. Len(short) /\ gone + (k + i) = (gone + k) + i
      BY <1>1, <1>2, <1>6 DEF At
    <3>2. long[(gone + k) + i] = short[k + i]  BY <1>1, <3>1
    <3> QED  BY <1>6, <3>2 DEF At
  <2> QED  BY <2>1, <2>2 DEF At
<1>7. ASSUME NEW k \in Nat, At(long, Marker, k), k < gone PROVE At(text, Marker, k)
  <2>1. k + Len(Marker) <= Len(text)  BY <1>1, <1>2, <1>4, <1>7
  <2>2. ASSUME NEW i \in 1 .. Len(Marker) PROVE text[k + i] = Marker[i]
    <3>1. k + i \in 1 .. Len(text)  BY <1>2, <2>1
    <3> QED  BY <1>3, <1>7, <3>1 DEF At
  <2> QED  BY <2>1, <2>2 DEF At
<1>8. ASSUME NEW k \in Nat, At(long, Marker, k), ~(k < gone)
      PROVE  k - gone \in Nat /\ At(short, Marker, k - gone)
  <2>1. k - gone \in Nat  BY <1>1, <1>8
  <2>2. (k - gone) + Len(Marker) <= Len(short)  BY <1>1, <1>2, <1>8 DEF At
  <2>3. ASSUME NEW i \in 1 .. Len(Marker) PROVE short[(k - gone) + i] = Marker[i]
    <3>1. (k - gone) + i \in 1 .. Len(short) /\ gone + ((k - gone) + i) = k + i
      BY <1>1, <1>2, <2>1, <2>2
    <3>2. short[(k - gone) + i] = long[k + i]  BY <1>1, <3>1
    <3> QED  BY <1>8, <3>2 DEF At
  <2> QED  BY <2>1, <2>2, <2>3 DEF At
<1>9. /\ HasWord(text, Marker) <=> \E k \in Nat : At(text, Marker, k)
      /\ HasWord(short, Marker) <=> \E k \in Nat : At(short, Marker, k)
      /\ HasWord(long, Marker) <=> \E k \in Nat : At(long, Marker, k)
  BY <1>1, WordAt
<1>10. HasWord(long, Marker) => HasWord(text, Marker) \/ HasWord(short, Marker)
  BY <1>7, <1>8, <1>9
<1>11. HasWord(text, Marker) => HasWord(long, Marker)  BY <1>5, <1>9
<1>12. HasWord(short, Marker) => HasWord(long, Marker)
  <2> SUFFICES ASSUME NEW k \in Nat, At(short, Marker, k)
               PROVE  \E j \in Nat : At(long, Marker, j)
    BY <1>9
  <2>1. gone + k \in Nat  BY <1>1
  <2> QED  BY <1>6, <2>1
<1> QED  BY <1>10, <1>11, <1>12 DEF short, long

\* What is kept of the kept letters and more is what is kept of everything.
LEMMA KeptOfTail ==
  ASSUME NEW text \in Seq(Letters), NEW data \in Seq(Letters)
  PROVE  Kept(Kept(text) \o data) = Kept(text \o data)
<1> DEFINE short == Kept(text) \o data
           long == text \o data
           gone == Len(text) - Len(Kept(text))
<1>1. /\ short \in Seq(Letters) /\ long \in Seq(Letters)
      /\ gone \in Nat /\ Len(long) = gone + Len(short)
      /\ Len(short) = Len(Kept(text)) + Len(data)
      /\ \A i \in 1 .. Len(short) : short[i] = long[gone + i]
  BY KeptAligned
<1>2. /\ Len(Marker) \in Nat /\ Len(Marker) > 0 /\ Len(text) \in Nat
      /\ Len(data) \in Nat /\ Len(short) \in Nat
  BY <1>1, LogAssumption
<1>3. gone > 0 => Len(Kept(text)) = Len(Marker) - 1 /\ Len(text) >= Len(Marker)
  <2>1. Len(Kept(text)) = IF Len(text) >= Len(Marker) THEN Len(Marker) - 1 ELSE Len(text)
    BY KeptLetters
  <2>2. gone = Len(text) - Len(Kept(text))  OBVIOUS
  <2> HIDE DEF gone
  <2> QED  BY <1>2, <2>1, <2>2
<1> HIDE DEF short, long, gone
<1>4. /\ Kept(short) \in Seq(Letters)
      /\ Len(Kept(short)) = IF Len(short) >= Len(Marker)
                            THEN Len(Marker) - 1 ELSE Len(short)
      /\ \A i \in 1 .. Len(Kept(short)) :
            Kept(short)[i] = short[Len(short) - Len(Kept(short)) + i]
  BY <1>1, KeptLetters
<1>5. /\ Kept(long) \in Seq(Letters)
      /\ Len(Kept(long)) = IF Len(long) >= Len(Marker)
                           THEN Len(Marker) - 1 ELSE Len(long)
      /\ \A i \in 1 .. Len(Kept(long)) :
            Kept(long)[i] = long[Len(long) - Len(Kept(long)) + i]
  BY <1>1, KeptLetters
<1>6. /\ Len(Kept(short)) = Len(Kept(long)) /\ Len(Kept(short)) \in Nat
      /\ Len(Kept(short)) <= Len(short)
  <2> DEFINE s == Len(short)
             m == Len(Marker)
             p == Len(Kept(short))
             q == Len(Kept(long))
  <2>1. /\ gone \in Nat /\ s \in Nat /\ m \in Nat \ {0} /\ Len(data) \in Nat
        /\ p = IF s >= m THEN m - 1 ELSE s
        /\ q = IF gone + s >= m THEN m - 1 ELSE gone + s
        /\ gone > 0 => s = (m - 1) + Len(data)
    <3>1. gone \in Nat /\ s \in Nat /\ m \in Nat \ {0} /\ Len(data) \in Nat
      BY <1>1, <1>2
    <3>2. gone > 0 => s = (m - 1) + Len(data)
      BY <1>1, <1>3
    <3>3. Len(long) = gone + s
      BY <1>1
    <3> QED  BY <1>4, <1>5, <3>1, <3>2, <3>3, Zenon
  <2> HIDE DEF s, m, p, q
  <2>2. p = q /\ p \in Nat /\ p <= s
    <3>1. CASE gone = 0  BY <2>1, <3>1
    <3>2. CASE gone > 0  BY <2>1, <3>2
    <3> QED  BY <2>1, <3>1, <3>2
  <2> QED  BY <2>2 DEF s, p, q
<1>7. ASSUME NEW i \in 1 .. Len(Kept(short)) PROVE Kept(short)[i] = Kept(long)[i]
  <2> DEFINE j == Len(short) - Len(Kept(short)) + i
  <2>1. j \in 1 .. Len(short)  BY <1>2, <1>6
  <2>2. gone + j = Len(long) - Len(Kept(long)) + i  BY <1>1, <1>2, <1>6
  <2>3. Kept(short)[i] = short[j]  BY <1>4
  <2>4. Kept(long)[i] = long[gone + j]  BY <1>5, <1>6, <2>2
  <2> HIDE DEF j
  <2> QED  BY <1>1, <2>1, <2>3, <2>4
<1>8. Kept(short) = Kept(long)  BY <1>4, <1>5, <1>6, <1>7, SeqEqual
<1> QED  BY <1>8 DEF short, long

\* A part of a chunk, searched together with the tail.
LEMMA Searched ==
  ASSUME output \in Seq(Letters), MarkerTold(output), NEW data \in Seq(Letters),
         ready' = Search(ready.tail \o data), NEW all, all = output \o data
  PROVE  /\ ready' = [tail |-> ready'.tail, seen |-> ready'.seen]
         /\ ready'.seen \in BOOLEAN
         /\ ready'.seen <=> HasWord(all, Marker)
         /\ ~ready'.seen => ready'.tail = Kept(all)
<1> DEFINE text == ready.tail \o data
<1>1. /\ ready.seen => ready' = ready
      /\ ~ready.seen /\ HasWord(text, Marker) => ready' = [ready EXCEPT !.seen = TRUE]
      /\ ~ready.seen /\ ~HasWord(text, Marker) => ready' = [ready EXCEPT !.tail = Kept(text)]
  BY DEF Search
<1>2. ready = [tail |-> ready.tail, seen |-> ready.seen] /\ ready.seen \in BOOLEAN
  BY DEF MarkerTold
<1>3. HasWord(all, Marker) <=>
         HasWord(output, Marker) \/ HasWord(Kept(output) \o data, Marker)
  BY SearchOfTail
<1>4. Kept(Kept(output) \o data) = Kept(all)
  BY KeptOfTail
<1>5. CASE ready.seen
  <2>1. ready' = ready /\ HasWord(all, Marker)
    BY <1>1, <1>3, <1>5 DEF MarkerTold
  <2> QED  BY <1>2, <1>5, <2>1
<1>6. CASE ~ready.seen
  <2>1. ~HasWord(output, Marker) /\ text = Kept(output) \o data
    BY <1>6 DEF MarkerTold
  <2>2. HasWord(all, Marker) <=> HasWord(text, Marker)
    BY <1>3, <2>1
  <2>3. Kept(text) = Kept(all)  BY <1>4, <2>1
  <2> HIDE DEF text
  <2>4. CASE HasWord(text, Marker)
    <3>1. ready' = [tail |-> ready.tail, seen |-> TRUE]
      BY <1>1, <1>2, <1>6, <2>4
    <3>2. ready' = [tail |-> ready'.tail, seen |-> ready'.seen] /\ ready'.seen = TRUE
      BY <3>1
    <3>3. HasWord(all, Marker)  BY <2>2, <2>4
    <3> QED  BY <3>2, <3>3, Zenon
  <2>5. CASE ~HasWord(text, Marker)
    <3>1. ready' = [tail |-> Kept(text), seen |-> FALSE]
      BY <1>1, <1>2, <1>6, <2>5
    <3>2. /\ ready' = [tail |-> ready'.tail, seen |-> ready'.seen]
          /\ ready'.seen = FALSE /\ ready'.tail = Kept(all)
      BY <2>3, <3>1
    <3>3. ~HasWord(all, Marker)  BY <2>2, <2>5
    <3> QED  BY <3>2, <3>3, Zenon
  <2> QED  BY <2>4, <2>5
<1> QED  BY <1>5, <1>6

\* The output up to a chunk and the first n letters of the chunk.
LEMMA ChunkPart ==
  ASSUME NEW text \in Seq(Letters), NEW data \in Seq(Letters),
         NEW n \in 0 .. Len(data)
  PROVE  SubSeq(text \o data, 1, Len(text \o data) - Len(SubSeq(data, n + 1, Len(data))))
            = text \o SubSeq(data, 1, n)
<1>1. Len(text) \in Nat /\ Len(data) \in Nat /\ n \in Nat /\ n <= Len(data)
  OBVIOUS
<1> DEFINE long == text \o data
           rest == SubSeq(data, n + 1, Len(data))
           part == SubSeq(data, 1, n)
           left == SubSeq(long, 1, Len(text) + n)
           right == text \o part
<1>2. /\ long \in Seq(Letters) /\ Len(long) = Len(text) + Len(data)
      /\ \A i \in 1 .. Len(text) + Len(data) :
            long[i] = IF i <= Len(text) THEN text[i] ELSE data[i - Len(text)]
  BY ConcatProperties
<1>3. /\ part \in Seq(Letters) /\ Len(part) = n
      /\ \A i \in 1 .. n : part[i] = data[i]
  <2>1. \A i \in 1 .. n : data[i] \in Letters  BY <1>1
  <2> QED  BY <1>1, <2>1, SubSeqProperties
<1>4. Len(rest) = Len(data) - n
  <2>1. \A i \in n + 1 .. Len(data) : data[i] \in Letters  BY <1>1
  <2> QED  BY <1>1, <2>1, SubSeqProperties
<1> HIDE DEF long, rest, part
<1>5. /\ left \in Seq(Letters) /\ Len(left) = Len(text) + n
      /\ \A i \in 1 .. Len(text) + n : left[i] = long[i]
  <2>1. \A i \in 1 .. Len(text) + n : long[i] \in Letters  BY <1>1, <1>2
  <2> QED  BY <1>1, <1>2, <2>1, SubSeqProperties
<1>6. /\ right \in Seq(Letters) /\ Len(right) = Len(text) + n
      /\ \A i \in 1 .. Len(text) + n :
            right[i] = IF i <= Len(text) THEN text[i] ELSE part[i - Len(text)]
  BY <1>3, ConcatProperties
<1> HIDE DEF left, right
<1>7. ASSUME NEW i \in 1 .. Len(text) + n PROVE left[i] = right[i]
  <2>1. left[i] = IF i <= Len(text) THEN text[i] ELSE data[i - Len(text)]
    BY <1>1, <1>2, <1>5
  <2>2. CASE i <= Len(text)  BY <1>6, <2>1, <2>2
  <2>3. CASE ~(i <= Len(text))
    <3>1. i - Len(text) \in 1 .. n  BY <1>1, <2>3
    <3> QED  BY <1>3, <1>6, <2>1, <2>3, <3>1
  <2> QED  BY <2>2, <2>3
<1>8. left = right  BY <1>5, <1>6, <1>7, SeqEqual
<1>9. Len(long) - Len(rest) = Len(text) + n  BY <1>1, <1>2, <1>4
<1> QED  BY <1>8, <1>9 DEF left, right, long, rest, part

\* A Write that returns n: whole, or cut off.
LEMMA ReturnStep ==
  ASSUME ReadyOk, NEW n \in Nat, n <= Len(writer.data), Return(n),
         writer.step \in Appending, writer.data \in Seq(Letters)
  PROVE  ReadyOk'
<1> DEFINE data == SubSeq(writer.data, 1, n)
           rest == SubSeq(writer.data, n + 1, Len(writer.data))
<1>1. output \in Seq(Letters) /\ MarkerTold(output) /\ output' = output \o writer.data
  BY DEF ReadyOk, Return
<1>2. output' \in Seq(Letters)  BY <1>1, ConcatProperties
<1>3. data \in Seq(Letters)  OBVIOUS
<1>4. ready' = Search(ready.tail \o data)  BY DEF Return
<1>5. /\ ready' = [tail |-> ready'.tail, seen |-> ready'.seen]
      /\ ready'.seen \in BOOLEAN
      /\ ready'.seen <=> HasWord(output \o data, Marker)
      /\ ~ready'.seen => ready'.tail = Kept(output \o data)
  <2> HIDE DEF data
  <2> QED  BY <1>1, <1>3, <1>4, Searched
<1>6. CASE n = Len(writer.data)
  <2>1. writer' = Quiet /\ writer'.step = "idle"
    BY <1>6 DEF Return, Quiet, Writing
  <2>2. data = writer.data  BY <1>6, SubSeqFull
  <2>3. MarkerTold(output)'  BY <1>1, <1>5, <2>2 DEF MarkerTold, HasWord, Kept
  <2> QED  BY <1>2, <2>1, <2>3 DEF ReadyOk, Appending
<1>7. CASE n # Len(writer.data)
  <2>1. writer'.step = "broken" /\ writer'.data = rest
    BY <1>7 DEF Return, Broken, Writing
  <2>2. n \in 0 .. Len(writer.data)  OBVIOUS
  <2>3. Acknowledged' = output \o data
    BY <1>1, <2>1, <2>2, ChunkPart DEF Acknowledged
  <2>4. MarkerTold(Acknowledged)'  BY <1>5, <2>3 DEF MarkerTold, HasWord, Kept
  <2> QED  BY <1>2, <2>1, <2>4 DEF ReadyOk, Appending
<1> QED  BY <1>6, <1>7

\* A child that has said nothing is not ready.
LEMMA ReadyFresh ==
  /\ <<>> \in Seq(Letters) /\ ~HasWord(<<>>, Marker) /\ Kept(<<>>) = <<>>
  BY LogAssumption DEF HasWord, Kept

\* Every step of the writer keeps it; only a Write that returns is searched.
LEMMA ReadyStep ==
  ASSUME TailInv, ReadyOk, [LogNext]_logVars
  PROVE  ReadyOk'
<1>1. ASSUME UNCHANGED <<ready, output>>,
             \/ writer' = writer \/ writer'.step = "closed"
             \/ writer.step \in {"idle"} \cup Appending /\ writer'.step \in Appending
      PROVE  ReadyOk'
  <2>1. \A text : MarkerTold(text)' <=> MarkerTold(text)
    BY <1>1 DEF MarkerTold, HasWord, Kept
  <2>2. CASE writer' = writer
    BY <1>1, <2>2 DEF ReadyOk, MarkerTold, Acknowledged, HasWord, Kept
  <2>3. CASE writer'.step = "closed"
    BY <1>1, <2>3 DEF ReadyOk, Appending
  <2>4. CASE writer.step \in {"idle"} \cup Appending /\ writer'.step \in Appending
    BY <1>1, <2>4 DEF ReadyOk, MarkerTold, HasWord, Kept, Appending
  <2> QED  BY <1>1, <2>2, <2>3, <2>4
<1>2. CASE OpenLog
  <2>1. /\ ready' = [tail |-> <<>>, seen |-> FALSE] /\ output' = <<>>
        /\ writer'.step = "idle"
    BY <1>2 DEF OpenLog, Quiet, Writing
  <2> QED  BY <2>1, ReadyFresh DEF ReadyOk, MarkerTold, HasWord, Kept, Appending
<1>3. ASSUME writer.step \in Appending
      PROVE  /\ writer.data \in Seq(Letters) /\ writer.written \in Nat
             /\ writer.written < Len(writer.data)
  BY <1>3 DEF TailInv, WriterOk
<1>4. CASE AppendPiece
  <2>1. writer.step \in Appending  BY <1>4 DEF AppendPiece, Appending
  <2> DEFINE done == writer.written + Piece
  <2>2. CASE done = Len(writer.data)
    <3>1. Return(done)  BY <1>4, <2>2 DEF AppendPiece
    <3>2. done \in Nat /\ done <= Len(writer.data)
      BY <1>3, <2>1, <2>2
    <3> HIDE DEF done
    <3> QED  BY <1>3, <2>1, <3>1, <3>2, ReturnStep
  <2>3. CASE done # Len(writer.data)
    <3>1. UNCHANGED <<ready, output>> /\ writer'.step = "append"
      BY <1>4, <2>3 DEF AppendPiece, Writing
    <3> QED  BY <1>1, <2>1, <3>1 DEF Appending
  <2> QED  BY <2>2, <2>3
<1>5. CASE FailedAppend
  <2>1. writer.step \in Appending /\ Return(writer.written)
    BY <1>5 DEF FailedAppend, Appending
  <2>2. writer.written \in Nat /\ writer.written <= Len(writer.data)
    BY <1>3, <2>1
  <2> QED  BY <1>3, <2>1, <2>2, ReturnStep
<1>6. CASE \E n \in 1 .. MaxChunk : \E data \in [1 .. n -> Letters] : WriteChunk(data)
  BY <1>1, <1>6 DEF WriteChunk, Quiet, Writing, Appending
<1>7. CASE RemoveBackup \/ RenameCurrent
  <2>1. writer.step \in Appending /\ writer'.step \in Appending
    BY <1>7 DEF RemoveBackup, RenameCurrent, Appending, TailInv, WriterOk
  <2> QED  BY <1>1, <1>7, <2>1 DEF RemoveBackup, RenameCurrent
<1>8. CASE FailedOpen \/ CloseLog \/ KillServer \/ UNCHANGED logVars
  BY <1>1, <1>8 DEF FailedOpen, CloseLog, KillServer, ClosedLog, Writing, logVars
<1> QED  BY <1>2, <1>4, <1>5, <1>6, <1>7, <1>8 DEF LogNext

\* The suffix that processLog.Write keeps is long enough: whatever chunks the
\* child's output comes in, until a Write fails OpenBTS is taken as ready exactly
\* when its own output has the marker; after the Write that failed, exactly when
\* the acknowledged part of the output has it.
THEOREM ReadyIsSeenHolds == LogSpec => []ReadyIsSeen
<1>1. LogInit => TailInv /\ ReadyOk
  BY TailInvInit, ReadyFresh
     DEF LogInit, ReadyOk, ClosedLog, Writing, Appending
<1>2. (TailInv /\ ReadyOk) /\ [LogNext]_logVars => (TailInv /\ ReadyOk)'
  BY TailInvStep, ReadyStep
<1>3. TailInv /\ ReadyOk => ReadyIsSeen  BY DEF ReadyOk, MarkerTold, ReadyIsSeen
<1> QED  BY <1>1, <1>2, <1>3, PTL DEF LogSpec
=============================================================================
