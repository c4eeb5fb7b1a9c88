-------------------------- MODULE SmsParserProofs --------------------------
(***************************************************************************)
(* Proofs about the parser of module SmsParser, for every set of messages, *)
(* every tagging of them and logs of every length: each message shows      *)
(* once per generation, its structured record is what it shows, no field   *)
(* is another message's, and a longer log never disturbs what a shorter    *)
(* one showed.                                                             *)
(***************************************************************************)
EXTENDS SmsParser, FiniteSetTheorems, SequenceTheorems, WellFoundedInduction,
        TLAPS

-----------------------------------------------------------------------------
(* The invariant.                                                           *)

Kinds == {"got", "structured", "keyed", "text", "request", "deliver",
          "restart", "banner"}
Lines == [kind : Kinds, msg : Messages \cup {NoMsg}, named : BOOLEAN]

\* The lines that the delivering thread writes, or that end it.
ThreadKinds == {"request", "deliver", "restart", "banner"}
IsThread(w, k) == IsKind(w, k, ThreadKinds)

\* Only a restart is about no message.
LinesOk(w) ==
    /\ w \in Seq(Lines)
    /\ \A k \in 1 .. Len(w) : ~IsRestartLine(w, k) => w[k].msg \in Messages

\* Between two restarts a tag names one message.
OneName(w) ==
    \A j, k \in 1 .. Len(w) :
        /\ j <= k /\ \A i \in j .. k : ~IsRestartLine(w, i)
        /\ Qtag[w[j].msg] = Qtag[w[k].msg]
        => w[j].msg = w[k].msg

\* No line of the delivering thread after j.
LastThread(w, j, n) ==
    IsThread(w, j) /\ \A i \in j + 1 .. n : ~IsThread(w, i)

\* The thread's last line, if the window has it, is the request for m.
LastIsRequest(w, m) ==
    \A j \in 1 .. Len(w) : LastThread(w, j, Len(w)) =>
        IsKind(w, j, {"request"}) /\ w[j].msg = m

\* A delivery marker follows the request for its own message.
ThreadOk(w) ==
    \A k \in 1 .. Len(w) : IsKind(w, k, {"deliver"}) =>
        \A j \in 1 .. k - 1 : LastThread(w, j, k - 1) =>
            IsKind(w, j, {"request"}) /\ w[j].msg = w[k].msg

WindowOk(w) == LinesOk(w) /\ OneName(w) /\ ThreadOk(w)

\* What is written since the last restart is about the holder of its tag.
HolderOk ==
    /\ holder \in [Tags -> Messages \cup {NoMsg}]
    /\ \A k \in 1 .. Len(log) :
          (\A i \in k .. Len(log) : ~IsRestartLine(log, i)) =>
             holder[Qtag[log[k].msg]] = log[k].msg

\* The delivering thread is at the message of its last request.
DeliveryOk ==
    delivery.step # "idle" =>
        /\ delivery.msg \in Messages
        /\ holder[Qtag[delivery.msg]] = delivery.msg
        /\ LastIsRequest(log, delivery.msg)

LogInv == WindowOk(log) /\ HolderOk /\ DeliveryOk

-----------------------------------------------------------------------------
(* The log.                                                                 *)

\* What an appended line leaves as it was.
LEMMA Appended ==
  ASSUME NEW w \in Seq(Lines), NEW l \in Lines
  PROVE  /\ Append(w, l) \in Seq(Lines) /\ Len(w) \in Nat
         /\ Len(Append(w, l)) = Len(w) + 1
         /\ \A k \in 1 .. Len(w) : Append(w, l)[k] = w[k] /\ w[k] \in Lines
         /\ Append(w, l)[Len(w) + 1] = l
OBVIOUS

\* A line about the holder of its tag keeps the lines, their names and the
\* holders in order.
LEMMA WriteKeeps ==
  ASSUME LogInv, NEW m \in Messages, NEW kind \in Kinds \ {"restart", "banner"},
         NEW named \in BOOLEAN,
         holder[Qtag[m]] \in {m, NoMsg},
         holder' = [holder EXCEPT ![Qtag[m]] = m],
         log' = Append(log, Line(kind, m, named))
  PROVE  LinesOk(log') /\ OneName(log') /\ HolderOk'
<1> DEFINE l == Line(kind, m, named)
           n == Len(log) + 1
<1>1. l \in Lines /\ l.kind = kind /\ l.msg = m  BY DEF Line, Lines
<1>2. log \in Seq(Lines) /\ \A k \in 1 .. Len(log) :
         ~IsRestartLine(log, k) => log[k].msg \in Messages
  BY DEF LogInv, WindowOk, LinesOk
<1>3. /\ log' \in Seq(Lines) /\ Len(log) \in Nat /\ Len(log') = n
      /\ \A k \in 1 .. Len(log) : log'[k] = log[k]
      /\ log'[n] = l
  BY <1>1, <1>2, Appended
<1> HIDE DEF l
<1>4. ~IsRestartLine(log', n) /\ log'[n].msg = m
  BY <1>1, <1>3 DEF IsRestartLine, IsKind
<1>5. ASSUME NEW k \in 1 .. Len(log)
      PROVE  (IsRestartLine(log', k) <=> IsRestartLine(log, k)) /\ log'[k].msg = log[k].msg
  BY <1>3 DEF IsRestartLine, IsKind
<1>6. ASSUME NEW k \in 1 .. Len(log')  PROVE k \in 1 .. Len(log) \/ k = n
  BY <1>3
<1>7. LinesOk(log')
  <2>1. ASSUME NEW k \in 1 .. Len(log'), ~IsRestartLine(log', k)
        PROVE  log'[k].msg \in Messages
    BY <2>1, <1>6, <1>5, <1>4, <1>2
  <2> QED  BY <2>1, <1>3 DEF LinesOk
<1>8. /\ holder \in [Tags -> Messages \cup {NoMsg}]
      /\ \A k \in 1 .. Len(log) :
            (\A i \in k .. Len(log) : ~IsRestartLine(log, i)) =>
               holder[Qtag[log[k].msg]] = log[k].msg
  BY DEF LogInv, HolderOk
<1>9. Qtag[m] \in Tags  BY DEF Tags
<1>10. ASSUME NEW k \in 1 .. Len(log), \A i \in k .. Len(log) : ~IsRestartLine(log, i)
       PROVE  /\ Qtag[log[k].msg] = Qtag[m] => log[k].msg = m
              /\ holder'[Qtag[log[k].msg]] = log[k].msg
  <2>1. ~IsRestartLine(log, k)  BY <1>10, <1>3
  <2>2. log[k].msg \in Messages  BY <1>2, <2>1
  <2>3. holder[Qtag[log[k].msg]] = log[k].msg  BY <1>8, <1>10
  <2>4. Qtag[log[k].msg] = Qtag[m] => log[k].msg = m
    BY <2>2, <2>3, ParserAssumption DEF ParserAssumption
  <2>5. Qtag[log[k].msg] \in Tags  BY <2>2 DEF Tags
  <2> QED  BY <2>3, <2>4, <2>5, <1>8, <1>9
<1>11. OneName(log')
  <2> SUFFICES ASSUME NEW j \in 1 .. Len(log'), NEW k \in 1 .. Len(log'),
                      j <= k, \A i \in j .. k : ~IsRestartLine(log', i),
                      Qtag[log'[j].msg] = Qtag[log'[k].msg]
               PROVE  log'[j].msg = log'[k].msg
    BY DEF OneName
  <2>1. CASE k \in 1 .. Len(log)
    <3>1. j \in 1 .. Len(log)  BY <2>1, <1>3
    <3>2. \A i \in j .. k : ~IsRestartLine(log, i)  BY <2>1, <3>1, <1>5
    <3>3. OneName(log)  BY DEF LogInv, WindowOk
    <3>4. Qtag[log[j].msg] = Qtag[log[k].msg]  BY <2>1, <3>1, <1>5
    <3>5. log[j].msg = log[k].msg  BY <2>1, <3>1, <3>2, <3>3, <3>4 DEF OneName
    <3> QED  BY <2>1, <3>1, <3>5, <1>5
  <2>2. CASE k = n /\ j \in 1 .. Len(log)
    <3>1. \A i \in j .. Len(log) : ~IsRestartLine(log, i)  BY <2>2, <1>3, <1>5
    <3> QED  BY <3>1, <2>2, <1>10, <1>4, <1>5
  <2>3. CASE k = n /\ j = n  BY <2>3
  <2> QED  BY <2>1, <2>2, <2>3, <1>6
<1>12. HolderOk'
  <2>1. holder' \in [Tags -> Messages \cup {NoMsg}]  BY <1>8
  <2> SUFFICES ASSUME NEW k \in 1 .. Len(log'),
                      \A i \in k .. Len(log') : ~IsRestartLine(log', i)
               PROVE  holder'[Qtag[log'[k].msg]] = log'[k].msg
    BY <2>1 DEF HolderOk, IsRestartLine, IsKind
  <2>2. CASE k \in 1 .. Len(log)
    <3>1. \A i \in k .. Len(log) : ~IsRestartLine(log, i)  BY <2>2, <1>3, <1>5
    <3> QED  BY <3>1, <2>2, <1>10, <1>5
  <2>3. CASE k = n  BY <2>3, <1>4, <1>8, <1>9
  <2> QED  BY <2>2, <2>3, <1>6
<1> QED  BY <1>7, <1>11, <1>12

\* What the delivering thread wrote last, before and after another line.
LEMMA LastThreadAppended ==
  ASSUME NEW w \in Seq(Lines), NEW l \in Lines
  PROVE  /\ \A n \in 0 .. Len(w) : \A j \in 1 .. n :
               LastThread(Append(w, l), j, n) <=> LastThread(w, j, n)
         /\ \A k \in 1 .. Len(w) : \A kinds :
               IsKind(Append(w, l), k, kinds) <=> IsKind(w, k, kinds)
         /\ IsThread(Append(w, l), Len(w) + 1) <=> l.kind \in ThreadKinds
         /\ l.kind \notin ThreadKinds => \A j \in 1 .. Len(w) :
               LastThread(Append(w, l), j, Len(w) + 1) <=> LastThread(w, j, Len(w))
         /\ l.kind \in ThreadKinds => \A j \in 1 .. Len(w) :
               ~LastThread(Append(w, l), j, Len(w) + 1)
<1> DEFINE v == Append(w, l)
<1>1. /\ Len(w) \in Nat /\ Len(v) = Len(w) + 1
      /\ \A k \in 1 .. Len(w) : v[k] = w[k]
      /\ v[Len(w) + 1] = l
  BY Appended
<1> HIDE DEF v
<1>2. ASSUME NEW k \in 1 .. Len(w), NEW kinds
      PROVE  IsKind(v, k, kinds) <=> IsKind(w, k, kinds)
  BY <1>1 DEF IsKind
<1>3. \A k \in 1 .. Len(w) : IsThread(v, k) <=> IsThread(w, k)
  BY <1>2 DEF IsThread
<1>4. IsThread(v, Len(w) + 1) <=> l.kind \in ThreadKinds
  BY <1>1 DEF IsThread, IsKind
<1>5. ASSUME NEW n \in 0 .. Len(w), NEW j \in 1 .. n
      PROVE  LastThread(v, j, n) <=> LastThread(w, j, n)
  BY <1>1, <1>3 DEF LastThread
<1>6. ASSUME NEW j \in 1 .. Len(w)
      PROVE  LastThread(v, j, Len(w) + 1) <=>
                LastThread(w, j, Len(w)) /\ l.kind \notin ThreadKinds
  <2>1. LastThread(v, j, Len(w)) <=> LastThread(w, j, Len(w))  BY <1>5, <1>1
  <2>2. j + 1 .. Len(w) + 1 = (j + 1 .. Len(w)) \cup {Len(w) + 1}  BY <1>1
  <2> QED  BY <2>1, <2>2, <1>4 DEF LastThread
<1> QED  BY <1>2, <1>4, <1>5, <1>6 DEF v

\* The thread's part of a log that a line is added to.
LEMMA ThreadAppended ==
  ASSUME NEW w, WindowOk(w), NEW l \in Lines,
         l.kind = "deliver" => LastIsRequest(w, l.msg)
  PROVE  ThreadOk(Append(w, l))
<1> DEFINE v == Append(w, l)
<1>1. w \in Seq(Lines) /\ ThreadOk(w)  BY DEF WindowOk, LinesOk
<1>2. /\ Len(w) \in Nat /\ Len(v) = Len(w) + 1
      /\ \A k \in 1 .. Len(w) : v[k] = w[k]
      /\ v[Len(w) + 1] = l
  BY <1>1, Appended
<1>3. /\ \A n \in 0 .. Len(w) : \A j \in 1 .. n :
               LastThread(v, j, n) <=> LastThread(w, j, n)
      /\ \A k \in 1 .. Len(w) : \A kinds :
               IsKind(v, k, kinds) <=> IsKind(w, k, kinds)
  BY <1>1, LastThreadAppended
<1> HIDE DEF v
<1> SUFFICES ASSUME NEW k \in 1 .. Len(v), IsKind(v, k, {"deliver"}),
                    NEW j \in 1 .. k - 1, LastThread(v, j, k - 1)
             PROVE  IsKind(v, j, {"request"}) /\ v[j].msg = v[k].msg
  BY DEF ThreadOk, v
<1>4. j \in 1 .. Len(w) /\ k - 1 \in 0 .. Len(w)  BY <1>2
<1>5. LastThread(w, j, k - 1) /\ v[j] = w[j]  BY <1>2, <1>3, <1>4
<1>6. CASE k \in 1 .. Len(w)
  <2>1. IsKind(w, k, {"deliver"}) /\ v[k] = w[k]  BY <1>2, <1>3, <1>6
  <2>2. IsKind(w, j, {"request"}) /\ w[j].msg = w[k].msg
    BY <1>1, <1>5, <1>6, <2>1 DEF ThreadOk
  <2> QED  BY <2>1, <2>2, <1>3, <1>4, <1>5
<1>7. CASE k = Len(w) + 1
  <2>1. k - 1 = Len(w) /\ v[k] = l  BY <1>7, <1>2
  <2>2. l.kind = "deliver"  BY <2>1 DEF IsKind
  <2>3. IsKind(w, j, {"request"}) /\ w[j].msg = l.msg
    BY <2>1, <2>2, <1>4, <1>5 DEF LastIsRequest
  <2> QED  BY <2>1, <2>3, <1>3, <1>4, <1>5
<1> QED  BY <1>2, <1>6, <1>7

\* A line of another thread leaves the thread where it was, a request brings
\* it to its message, and after any other line of it there is no request.
LEMMA LastAppended ==
  ASSUME NEW w \in Seq(Lines), NEW l \in Lines, NEW m
  PROVE  /\ l.kind \notin ThreadKinds /\ LastIsRequest(w, m) =>
               LastIsRequest(Append(w, l), m)
         /\ l.kind = "request" /\ l.msg = m => LastIsRequest(Append(w, l), m)
<1> DEFINE v == Append(w, l)
<1>1. /\ Len(v) = Len(w) + 1 /\ Len(w) \in Nat
      /\ \A k \in 1 .. Len(w) : v[k] = w[k]
      /\ v[Len(w) + 1] = l
  BY Appended
<1>2. /\ IsThread(v, Len(w) + 1) <=> l.kind \in ThreadKinds
      /\ l.kind \notin ThreadKinds => \A j \in 1 .. Len(w) :
               LastThread(v, j, Len(w) + 1) <=> LastThread(w, j, Len(w))
      /\ l.kind \in ThreadKinds => \A j \in 1 .. Len(w) :
               ~LastThread(v, j, Len(w) + 1)
  BY LastThreadAppended
<1> HIDE DEF v
<1>3. ASSUME NEW j \in 1 .. Len(v), LastThread(v, j, Len(v))
      PROVE  /\ l.kind \notin ThreadKinds =>
                   j \in 1 .. Len(w) /\ LastThread(w, j, Len(w)) /\ v[j] = w[j]
             /\ l.kind \in ThreadKinds => v[j] = l
  <2>1. CASE j \in 1 .. Len(w)  BY <2>1, <1>1, <1>2, <1>3
  <2>2. CASE j = Len(w) + 1  BY <2>2, <1>1, <1>2, <1>3 DEF LastThread
  <2> QED  BY <2>1, <2>2, <1>1
<1>4. ASSUME l.kind \notin ThreadKinds, LastIsRequest(w, m)
      PROVE  LastIsRequest(v, m)
  BY <1>3, <1>4 DEF LastIsRequest, IsKind
<1>5. ASSUME l.kind = "request", l.msg = m  PROVE LastIsRequest(v, m)
  BY <1>3, <1>5 DEF LastIsRequest, IsKind, ThreadKinds
<1> QED  BY <1>4, <1>5 DEF v

\* A receiving thread's line.
LEMMA ReceiveKeeps ==
  ASSUME LogInv, NEW m \in Messages,
         NEW kind \in {"got", "structured", "keyed", "text"}, Receive(m, kind)
  PROVE  LogInv'
<1> DEFINE l == Line(kind, m, FALSE)
<1>1. /\ log' = Append(log, l) /\ holder[Qtag[m]] \in {m, NoMsg}
      /\ holder' = [holder EXCEPT ![Qtag[m]] = m] /\ delivery' = delivery
  BY DEF Receive, Names, WriteLine
<1>2. kind \in Kinds \ {"restart", "banner"} /\ kind \notin ThreadKinds
  BY DEF Kinds, ThreadKinds
<1>3. LinesOk(log') /\ OneName(log') /\ HolderOk'  BY <1>1, <1>2, WriteKeeps
<1>4. l \in Lines /\ l.kind = kind /\ l.msg = m  BY <1>2 DEF Line, Lines
<1>5. WindowOk(log) /\ log \in Seq(Lines)  BY DEF LogInv, WindowOk, LinesOk
<1> HIDE DEF l
<1>6. ThreadOk(log')
  <2>1. l.kind # "deliver"  BY <1>4
  <2> QED  BY <1>1, <1>4, <1>5, <2>1, ThreadAppended
<1>7. DeliveryOk'
  <2> SUFFICES ASSUME delivery'.step # "idle"
               PROVE  /\ delivery'.msg \in Messages
                      /\ holder'[Qtag[delivery'.msg]] = delivery'.msg
                      /\ LastIsRequest(log', delivery'.msg)
    BY DEF DeliveryOk, LastIsRequest, LastThread, IsThread, IsKind
  <2>1. /\ delivery.msg \in Messages
        /\ holder[Qtag[delivery.msg]] = delivery.msg
        /\ LastIsRequest(log, delivery.msg)
    BY <1>1 DEF LogInv, DeliveryOk
  <2>2. holder'[Qtag[delivery'.msg]] = delivery'.msg
    <3>1. Qtag[delivery.msg] \in Tags /\ Qtag[m] \in Tags  BY <2>1 DEF Tags
    <3>2. holder \in [Tags -> Messages \cup {NoMsg}]  BY DEF LogInv, HolderOk
    <3>3. Qtag[delivery.msg] = Qtag[m] => delivery.msg = m
      BY <2>1, <1>1, ParserAssumption DEF ParserAssumption
    <3> QED  BY <3>1, <3>2, <3>3, <2>1, <1>1
  <2>3. LastIsRequest(log', delivery'.msg)
    BY <2>1, <1>1, <1>2, <1>4, <1>5, LastAppended
  <2> QED  BY <2>1, <2>2, <2>3, <1>1
<1> QED  BY <1>3, <1>6, <1>7 DEF LogInv, WindowOk, LinesOk, OneName, ThreadOk,
              IsRestartLine, LastThread, IsThread, IsKind

\* The delivering thread's request.
LEMMA RequestKeeps ==
  ASSUME LogInv, NEW m \in Messages, Request(m)
  PROVE  LogInv'
<1> DEFINE l == Line("request", m, FALSE)
<1>1. /\ log' = Append(log, l) /\ holder[Qtag[m]] \in {m, NoMsg}
      /\ holder' = [holder EXCEPT ![Qtag[m]] = m] /\ delivery'.msg = m
  BY DEF Request, Names, WriteLine
<1>2. "request" \in Kinds \ {"restart", "banner"}  BY DEF Kinds
<1>3. LinesOk(log') /\ OneName(log') /\ HolderOk'  BY <1>1, <1>2, WriteKeeps
<1>4. l \in Lines /\ l.kind = "request" /\ l.msg = m  BY <1>2 DEF Line, Lines
<1>5. WindowOk(log) /\ log \in Seq(Lines)  BY DEF LogInv, WindowOk, LinesOk
<1> HIDE DEF l
<1>6. ThreadOk(log')
  <2>1. l.kind # "deliver"  BY <1>4
  <2> QED  BY <1>1, <1>4, <1>5, <2>1, ThreadAppended
<1>7. DeliveryOk'
  <2>1. LastIsRequest(log', m)  BY <1>1, <1>4, <1>5, LastAppended
  <2>2. holder'[Qtag[m]] = m  BY <1>1 DEF LogInv, HolderOk, Tags
  <2> QED  BY <2>1, <2>2, <1>1
        DEF DeliveryOk, LastIsRequest, LastThread, IsThread, IsKind
<1> QED  BY <1>3, <1>6, <1>7 DEF LogInv, WindowOk, LinesOk, OneName, ThreadOk,
              IsRestartLine, LastThread, IsThread, IsKind

\* The delivering thread's text and marker: the message is still its tag's.
LEMMA ThreadKeeps ==
  ASSUME LogInv, Decode \/ \E named \in BOOLEAN : Deliver(named)
  PROVE  LogInv'
<1> DEFINE m == delivery.msg
<1>1. /\ m \in Messages /\ holder[Qtag[m]] = m /\ LastIsRequest(log, m)
  BY DEF LogInv, DeliveryOk, Decode, Deliver
<1>2. PICK kind \in {"text", "deliver"}, named \in BOOLEAN :
         /\ log' = Append(log, Line(kind, m, named)) /\ holder' = holder
         /\ kind = "text" => delivery'.msg = m
         /\ kind = "deliver" => delivery'.step = "idle"
  <2>1. CASE Decode
    <3>1. delivery'.msg = m
      <4>1. delivery' = [delivery EXCEPT !.step = "deliver"]  BY <2>1 DEF Decode
      <4> QED  BY <4>1
    <3> QED  BY <3>1, <2>1 DEF Decode, WriteLine
  <2>2. CASE \E named \in BOOLEAN : Deliver(named)
    BY <2>2 DEF Deliver, WriteLine, NoDelivery
  <2> QED  BY <2>1, <2>2
<1> DEFINE l == Line(kind, m, named)
<1>3. kind \in Kinds \ {"restart", "banner"}  BY DEF Kinds
<1>4. holder' = [holder EXCEPT ![Qtag[m]] = m]
  BY <1>1, <1>2 DEF LogInv, HolderOk
<1>5. l \in Lines /\ l.kind = kind /\ l.msg = m  BY <1>1, <1>3 DEF Line, Lines
<1>6. WindowOk(log) /\ log \in Seq(Lines)  BY DEF LogInv, WindowOk, LinesOk
<1> HIDE DEF m
<1>7. LinesOk(log') /\ OneName(log') /\ HolderOk'
  BY <1>1, <1>2, <1>3, <1>4, WriteKeeps
<1> HIDE DEF l
<1>8. log' = Append(log, l)  BY <1>2 DEF l
<1>9. ThreadOk(log')  BY <1>1, <1>5, <1>6, <1>8, ThreadAppended
<1>10. DeliveryOk'
  <2>1. CASE kind = "text"
    <3>1. l.kind \notin ThreadKinds  BY <2>1, <1>5 DEF ThreadKinds
    <3>2. LastIsRequest(log', m)  BY <3>1, <1>1, <1>5, <1>6, <1>8, LastAppended
    <3> QED  BY <2>1, <3>2, <1>1, <1>2
          DEF DeliveryOk, LastIsRequest, LastThread, IsThread, IsKind
  <2>2. CASE kind = "deliver"  BY <2>2, <1>2 DEF DeliveryOk
  <2> QED  BY <2>1, <2>2
<1> QED  BY <1>7, <1>9, <1>10 DEF LogInv, WindowOk, LinesOk, OneName, ThreadOk,
              IsRestartLine, LastThread, IsThread, IsKind

\* A restart ends the thread and frees the tags.
LEMMA RestartKeeps ==
  ASSUME LogInv, NEW kind \in {"restart", "banner"}, Restart(kind)
  PROVE  LogInv'
<1> DEFINE l == Line(kind, NoMsg, FALSE)
           n == Len(log) + 1
<1>1. /\ log' = Append(log, l) /\ holder' = [q \in Tags |-> NoMsg]
      /\ delivery'.step = "idle"
  BY DEF Restart, WriteLine, NoDelivery
<1>2. l \in Lines /\ l.kind = kind  BY DEF Line, Lines, Kinds
<1>3. WindowOk(log) /\ log \in Seq(Lines)  BY DEF LogInv, WindowOk, LinesOk
<1> HIDE DEF l
<1>4. /\ log' \in Seq(Lines) /\ Len(log) \in Nat /\ Len(log') = n
      /\ \A k \in 1 .. Len(log) : log'[k] = log[k]
      /\ log'[n] = l
  BY <1>1, <1>2, <1>3, Appended
<1>5. IsRestartLine(log', n)  BY <1>2, <1>4 DEF IsRestartLine, IsKind
<1>6. ASSUME NEW k \in 1 .. Len(log)
      PROVE  (IsRestartLine(log', k) <=> IsRestartLine(log, k)) /\ log'[k].msg = log[k].msg
  BY <1>4 DEF IsRestartLine, IsKind
<1>7. LinesOk(log')  BY <1>3, <1>4, <1>5, <1>6 DEF WindowOk, LinesOk
<1>8. OneName(log')
  <2> SUFFICES ASSUME NEW j \in 1 .. Len(log'), NEW k \in 1 .. Len(log'),
                      j <= k, \A i \in j .. k : ~IsRestartLine(log', i),
                      Qtag[log'[j].msg] = Qtag[log'[k].msg]
               PROVE  log'[j].msg = log'[k].msg
    BY DEF OneName
  <2>1. k \in 1 .. Len(log) /\ j \in 1 .. Len(log)  BY <1>4, <1>5
  <2>2. \A i \in j .. k : ~IsRestartLine(log, i)  BY <2>1, <1>6
  <2>3. Qtag[log[j].msg] = Qtag[log[k].msg]  BY <2>1, <1>6
  <2>4. log[j].msg = log[k].msg  BY <2>1, <2>2, <2>3, <1>3 DEF WindowOk, OneName
  <2> QED  BY <2>1, <2>4, <1>6
<1>9. ThreadOk(log')
  <2>1. l.kind # "deliver"  BY <1>2
  <2> QED  BY <1>1, <1>2, <1>3, <2>1, ThreadAppended
<1>10. HolderOk'
  <2>1. holder' \in [Tags -> Messages \cup {NoMsg}]  BY <1>1
  <2>2. ASSUME NEW k \in 1 .. Len(log')
        PROVE  ~ \A i \in k .. Len(log') : ~IsRestartLine(log', i)
    BY <1>4, <1>5
  <2> QED  BY <2>1, <2>2 DEF HolderOk, IsRestartLine, IsKind
<1>11. DeliveryOk'  BY <1>1 DEF DeliveryOk
<1> QED  BY <1>7, <1>8, <1>9, <1>10, <1>11 DEF LogInv, WindowOk, LinesOk, OneName,
              ThreadOk, IsRestartLine, LastThread, IsThread, IsKind

\* smqueue's log is one that the parser may rely on: between two restarts a tag
\* names one message, and a delivery marker follows the request for its message.
THEOREM LogInvariant == Spec => []LogInv
<1>1. Init => LogInv
  BY DEF Init, NoDelivery, LogInv, WindowOk, LinesOk, OneName, ThreadOk, HolderOk,
         DeliveryOk
<1>2. LogInv /\ [Next]_vars => LogInv'
  <2> SUFFICES ASSUME LogInv, [Next]_vars  PROVE LogInv'
    OBVIOUS
  <2>1. CASE \E m \in Messages : \E kind \in {"got", "structured", "keyed", "text"} :
                Receive(m, kind)
    BY <2>1, ReceiveKeeps
  <2>2. CASE \E m \in Messages : Request(m)  BY <2>2, RequestKeeps
  <2>3. CASE Decode \/ \E named \in BOOLEAN : Deliver(named)  BY <2>3, ThreadKeeps
  <2>4. CASE \E kind \in {"restart", "banner"} : Restart(kind)  BY <2>4, RestartKeeps
  <2>5. CASE UNCHANGED vars
    BY <2>5 DEF vars, LogInv, WindowOk, LinesOk, OneName, ThreadOk, HolderOk, DeliveryOk,
         LastIsRequest, IsRestartLine, LastThread, IsThread, IsKind
  <2> QED  BY <2>1, <2>2, <2>3, <2>4, <2>5 DEF Next
<1> QED  BY <1>1, <1>2, PTL DEF Spec

-----------------------------------------------------------------------------
(* A window: the end of a log.                                              *)

\* Where the older lines are cut off does not matter.
LEMMA WindowsOk ==
  ASSUME NEW w, WindowOk(w), NEW v \in Suffixes(w)
  PROVE  WindowOk(v)
<1>1. w \in Seq(Lines) /\ Len(w) \in Nat  BY DEF WindowOk, LinesOk
<1>2. CASE v = <<>>
  BY <1>2 DEF WindowOk, LinesOk, OneName, ThreadOk
<1>3. CASE \E l \in 1 .. Len(w) : v = SubSeq(w, l, Len(w))
  <2>1. PICK l \in 1 .. Len(w) : v = SubSeq(w, l, Len(w))  BY <1>3
  <2> DEFINE d == l - 1
  <2>2. d \in 0 .. Len(w)  BY <1>1
  <2>3. /\ v \in Seq(Lines) /\ Len(v) \in Nat /\ Len(v) = Len(w) - d
        /\ \A k \in 1 .. Len(v) : v[k] = w[k + d] /\ k + d \in 1 .. Len(w)
    BY <1>1, <2>1
  <2> HIDE DEF d
  <2>4. ASSUME NEW k \in 1 .. Len(v), NEW kinds
        PROVE  IsKind(v, k, kinds) <=> IsKind(w, k + d, kinds)
    BY <2>3 DEF IsKind
  <2>5. ASSUME NEW k \in 1 .. Len(v)
        PROVE  /\ IsRestartLine(v, k) <=> IsRestartLine(w, k + d)
               /\ IsThread(v, k) <=> IsThread(w, k + d)
    BY <2>4 DEF IsRestartLine, IsThread
  <2>6. LinesOk(v)
    BY <2>3, <2>5 DEF WindowOk, LinesOk
  <2>7. OneName(v)
    <3> SUFFICES ASSUME NEW j \in 1 .. Len(v), NEW k \in 1 .. Len(v),
                        j <= k, \A i \in j .. k : ~IsRestartLine(v, i),
                        Qtag[v[j].msg] = Qtag[v[k].msg]
                 PROVE  v[j].msg = v[k].msg
      BY DEF OneName
    <3>1. ASSUME NEW i \in j + d .. k + d PROVE ~IsRestartLine(w, i)
      <4>1. i - d \in j .. k /\ i - d \in 1 .. Len(v) /\ (i - d) + d = i
        BY <2>2, <2>3
      <4> QED  BY <4>1, <2>5
    <3>2. j + d \in 1 .. Len(w) /\ k + d \in 1 .. Len(w) /\ j + d <= k + d
      BY <2>2, <2>3
    <3>3. v[j] = w[j + d] /\ v[k] = w[k + d]  BY <2>3
    <3>4. Qtag[w[j + d].msg] = Qtag[w[k + d].msg]  BY <3>3
    <3>5. OneName(w)  BY DEF WindowOk
    <3>6. w[j + d].msg = w[k + d].msg
      <4> DEFINE j1 == j + d
                 k1 == k + d
      <4> HIDE DEF j1, k1
      <4>1. /\ j1 \in 1 .. Len(w) /\ k1 \in 1 .. Len(w) /\ j1 <= k1
            /\ \A i \in j1 .. k1 : ~IsRestartLine(w, i)
            /\ Qtag[w[j1].msg] = Qtag[w[k1].msg]
        BY <3>1, <3>2, <3>4 DEF j1, k1
      <4>2. w[j1].msg = w[k1].msg  BY <3>5, <4>1 DEF OneName
      <4> QED  BY <4>2 DEF j1, k1
    <3> QED  BY <3>3, <3>6
  <2>8. ThreadOk(v)
    <3> SUFFICES ASSUME NEW k \in 1 .. Len(v), IsKind(v, k, {"deliver"}),
                        NEW j \in 1 .. k - 1, LastThread(v, j, k - 1)
                 PROVE  IsKind(v, j, {"request"}) /\ v[j].msg = v[k].msg
      BY DEF ThreadOk
    <3>1. j \in 1 .. Len(v) /\ j + d \in 1 .. Len(w) /\ k + d \in 1 .. Len(w)
          /\ j + d \in 1 .. (k + d) - 1
      BY <2>2, <2>3
    <3>2. IsKind(w, k + d, {"deliver"})  BY <2>4
    <3>3. IsThread(w, j + d)  BY <2>5, <3>1 DEF LastThread
    <3>4. ASSUME NEW i \in (j + d) + 1 .. (k + d) - 1 PROVE ~IsThread(w, i)
      <4>1. i - d \in j + 1 .. k - 1 /\ i - d \in 1 .. Len(v) /\ (i - d) + d = i
        BY <2>2, <2>3, <3>1
      <4>2. ~IsThread(v, i - d)  BY <4>1 DEF LastThread
      <4> QED  BY <4>1, <4>2, <2>5
    <3>5. LastThread(w, j + d, (k + d) - 1)  BY <3>3, <3>4 DEF LastThread
    <3>6. IsKind(w, j + d, {"request"}) /\ w[j + d].msg = w[k + d].msg
      BY <3>1, <3>2, <3>5 DEF WindowOk, ThreadOk
    <3> QED  BY <3>1, <3>6, <2>3, <2>4
  <2> QED  BY <2>6, <2>7, <2>8 DEF WindowOk
<1> QED  BY <1>2, <1>3 DEF Suffixes

\* Generations are counted: they grow, and stay the same exactly as long as
\* there is no restart.
LEMMA Generations ==
  ASSUME NEW w, NEW j \in Nat, NEW k \in Nat, j <= k
  PROVE  /\ GenerationAt(w, j) \in Nat /\ GenerationAt(w, k) \in Nat
         /\ GenerationAt(w, j) = GenerationAt(w, k) <=>
               \A i \in j + 1 .. k : ~IsRestartLine(w, i)
<1> DEFINE R(n) == {r \in 1 .. n : IsRestartLine(w, r)}
<1>1. IsFiniteSet(1 .. k)  BY FS_Interval
<1>2. R(k) \in SUBSET (1 .. k) /\ R(j) \in SUBSET R(k)  OBVIOUS
<1>3. IsFiniteSet(R(k))  BY <1>1, <1>2, FS_Subset
<1> HIDE DEF R
<1>4. IsFiniteSet(R(j)) /\ (Cardinality(R(k)) = Cardinality(R(j)) => R(k) = R(j))
  BY <1>2, <1>3, FS_Subset
<1>5. Cardinality(R(k)) \in Nat /\ Cardinality(R(j)) \in Nat
  BY <1>3, <1>4, FS_CardinalityType
<1>6. R(k) = R(j) <=> \A i \in j + 1 .. k : ~IsRestartLine(w, i)
  BY DEF R
<1> QED  BY <1>4, <1>5, <1>6 DEF GenerationAt, R

\* Two lines of one generation with one tag are about one message.
LEMMA SameMessage ==
  ASSUME NEW w, WindowOk(w), NEW j \in 1 .. Len(w), NEW k \in 1 .. Len(w),
         ~IsRestartLine(w, j), ~IsRestartLine(w, k),
         GenerationAt(w, j) = GenerationAt(w, k),
         Qtag[w[j].msg] = Qtag[w[k].msg]
  PROVE  w[j].msg = w[k].msg
<1>1. Len(w) \in Nat  BY DEF WindowOk, LinesOk
<1>2. ASSUME NEW a \in 1 .. Len(w), NEW b \in 1 .. Len(w), a <= b, ~IsRestartLine(w, a),
             GenerationAt(w, a) = GenerationAt(w, b), Qtag[w[a].msg] = Qtag[w[b].msg]
      PROVE  w[a].msg = w[b].msg
  <2>1. a \in Nat /\ b \in Nat  BY <1>1
  <2>2. \A i \in a + 1 .. b : ~IsRestartLine(w, i)  BY <2>1, <1>2, Generations
  <2>3. \A i \in a .. b : ~IsRestartLine(w, i)
    <3>1. a .. b = {a} \cup (a + 1 .. b)  BY <2>1, <1>2
    <3> QED  BY <3>1, <2>2, <1>2
  <2> QED  BY <2>3, <1>2 DEF WindowOk, OneName
<1>3. j <= k \/ k <= j  BY <1>1
<1> QED  BY <1>2, <1>3

-----------------------------------------------------------------------------
(* The events of a window.                                                  *)

Values == Messages \cup {NoMsg}
Fields == [time : Nat, from : Values, to : Values, text : Values]
Cands  == [identity : Nat \X Tags, sms : Fields, structured : BOOLEAN]

IsEvent(w, k) == IsNotice(w, k) \/ IsDelivered(w, k)
EventOf(w, k) == IF IsNotice(w, k) THEN Notice(w, k) ELSE Delivered(w, k)
IdentityAt(w, k) == <<GenerationAt(w, k), Qtag[w[k].msg]>>
AllLocal(w) == \A k \in 1 .. Len(w) : w[k].kind = "deliver" => Local(w, k)

\* A non-empty set of naturals has a least element.
LEMMA LeastElement ==
  ASSUME NEW I \in SUBSET Nat, I # {}
  PROVE  \E x \in I : \A y \in I : x <= y
<1>1. PICK x \in I : \A y \in I : ~(<<y, x>> \in OpToRel(<, Nat))
  BY WFMin, NatLessThanWellFounded
<1>2. ASSUME NEW y \in I PROVE x <= y
  <2>1. x \in Nat /\ y \in Nat  OBVIOUS
  <2>2. ~(y < x)  BY <1>1, <2>1 DEF OpToRel
  <2> QED  BY <2>1, <2>2
<1> QED  BY <1>2

\* A non-empty set of naturals with a bound has a greatest element.
LEMMA GreatestElement ==
  ASSUME NEW n \in Nat, NEW I \in SUBSET (0 .. n), I # {}
  PROVE  \E x \in I : \A y \in I : y <= x
<1> DEFINE J == {j \in 0 .. n : n - j \in I}
<1>1. J \in SUBSET Nat /\ J # {}
  <2>1. PICK i : i \in I  OBVIOUS
  <2>2. n - i \in J  BY <2>1
  <2> QED  BY <2>2
<1>2. PICK z \in J : \A y \in J : z <= y
  <2> HIDE DEF J
  <2> QED  BY <1>1, LeastElement
<1> DEFINE x == n - z
<1>3. x \in I /\ x \in 0 .. n /\ z = n - x  BY <1>2
<1>4. ASSUME NEW y \in I PROVE y <= x
  <2>1. n - y \in J  OBVIOUS
  <2>2. z <= n - y  BY <2>1, <1>2
  <2> QED  BY <2>2, <1>3
<1> QED  BY <1>4

\* Induction over the naturals up to N.
LEMMA Induction ==
  ASSUME NEW N \in Nat, NEW I, 0 \in I, \A n \in 1 .. N : n - 1 \in I => n \in I
  PROVE  \A n \in 0 .. N : n \in I
<1> DEFINE Bad == {n \in 0 .. N : n \notin I}
<1> SUFFICES ASSUME Bad # {}  PROVE FALSE  OBVIOUS
<1>1. Bad \in SUBSET Nat  OBVIOUS
<1>2. PICK n \in Bad : \A y \in Bad : n <= y
  <2> HIDE DEF Bad
  <2> QED  BY <1>1, LeastElement
<1>3. n \in 1 .. N /\ n - 1 \in 0 .. N /\ ~(n <= n - 1)  BY <1>2
<1>4. n - 1 \in I  BY <1>2, <1>3
<1> QED  BY <1>2, <1>3, <1>4

\* The request a delivery is given to is the last line of its thread: the
\* request for its own message.
LEMMA DeliveryIsOwn ==
  ASSUME NEW w, WindowOk(w), NEW k \in 1 .. Len(w), IsDelivered(w, k)
  PROVE  \E r \in 1 .. k - 1 :
            /\ RequestsOf(w, k) = {r} /\ LastThread(w, r, k - 1)
            /\ IsKind(w, r, {"request"}) /\ w[r].msg = w[k].msg
<1>1. Len(w) \in Nat /\ ThreadOk(w)  BY DEF WindowOk, LinesOk
<1>2. IsKind(w, k, {"deliver"}) /\ Cardinality(RequestsOf(w, k)) = 1
  BY DEF IsDelivered
<1>3. RequestsOf(w, k) \in SUBSET Requests(w, k) /\ Requests(w, k) \in SUBSET (1 .. k - 1)
  BY DEF RequestsOf, Requests, Prelude
<1>4. IsFiniteSet(1 .. k - 1)  BY FS_Interval
<1>5. IsFiniteSet(RequestsOf(w, k)) /\ IsFiniteSet(Requests(w, k))
  BY <1>3, <1>4, FS_Subset
<1>6. PICK r : RequestsOf(w, k) = {r}  BY <1>2, <1>5, FS_Singleton
<1>7. r \in 1 .. k - 1 /\ IsKind(w, r, {"request"})
  BY <1>3, <1>6 DEF Requests
<1> DEFINE T == {i \in 1 .. k - 1 : IsThread(w, i)}
<1>8. r \in T  BY <1>7 DEF IsThread, ThreadKinds, IsKind
<1>9. k - 1 \in Nat /\ T \in SUBSET (0 .. k - 1)  OBVIOUS
<1>10. PICK j \in T : \A i \in T : i <= j
  <2> HIDE DEF T
  <2> QED  BY <1>8, <1>9, GreatestElement
<1>11. j \in 1 .. k - 1 /\ LastThread(w, j, k - 1)
  <2>1. ASSUME NEW i \in j + 1 .. k - 1 PROVE ~IsThread(w, i)
    BY <1>10
  <2> QED  BY <2>1 DEF LastThread
<1>12. IsKind(w, j, {"request"}) /\ w[j].msg = w[k].msg
  BY <1>1, <1>2, <1>11 DEF ThreadOk
<1>13. j \in Requests(w, k)
  <2>1. ASSUME NEW i \in j .. k - 1 PROVE ~IsKind(w, i, {"deliver"})
    <3>1. CASE i = j  BY <3>1, <1>12 DEF IsKind
    <3>2. CASE i \in j + 1 .. k - 1
      BY <3>2, <1>11 DEF LastThread, IsThread, ThreadKinds, IsKind
    <3> QED  BY <3>1, <3>2
  <2> QED  BY <2>1, <1>11, <1>12 DEF Requests, Prelude
<1>14. j \in RequestsOf(w, k)
  <2>1. CASE Cardinality(Requests(w, k)) = 1
    BY <2>1, <1>13 DEF RequestsOf
  <2>2. CASE Cardinality(Requests(w, k)) # 1
    <3>1. w[k].named  BY <2>2, <1>6 DEF RequestsOf
    <3> QED  BY <3>1, <2>2, <1>12, <1>13 DEF RequestsOf
  <2> QED  BY <2>1, <2>2
<1>15. j = r  BY <1>6, <1>14
<1> QED  BY <1>6, <1>11, <1>12, <1>15

\* What an event carries: the identity and the parties of its own line, and,
\* for a local delivery, its own text.
LEMMA DeliveredFields ==
  ASSUME NEW w, WindowOk(w), NEW k \in 1 .. Len(w), IsDelivered(w, k)
  PROVE  \E time \in Nat, text \in Values :
            /\ Delivered(w, k) =
                  Candidate(IdentityAt(w, k), Sms(time, w[k].msg, w[k].msg, text), FALSE)
            /\ Local(w, k) => text \in {NoMsg, w[k].msg}
<1>1. PICK r \in 1 .. k - 1 :
            /\ RequestsOf(w, k) = {r} /\ LastThread(w, r, k - 1)
            /\ IsKind(w, r, {"request"}) /\ w[r].msg = w[k].msg
  BY DeliveryIsOwn
<1>2. (CHOOSE j \in RequestsOf(w, k) : TRUE) = r  BY <1>1
<1> DEFINE t == Decoded(w, r, k)
           from == IF t = {} THEN r ELSE CHOOSE j \in t : TRUE
           text == IF t = {} THEN NoMsg ELSE w[from].msg
<1>3. Delivered(w, k) =
         Candidate(IdentityAt(w, k), Sms(from, w[k].msg, w[k].msg, text), FALSE)
  BY <1>1, <1>2 DEF Delivered, ScopedIdentity, IdentityAt, ParseDeliverInto
<1>4. ASSUME NEW j \in t PROVE j \in r + 1 .. k - 1 /\ IsKind(w, j, {"text"})
  BY <1>4 DEF Decoded
<1>5. t # {} => from \in t  OBVIOUS
<1> HIDE DEF t, from
<1>6. LinesOk(w) /\ Len(w) \in Nat  BY DEF WindowOk, LinesOk
<1>7. from \in Nat
  <2>1. CASE t = {}  BY <2>1 DEF from
  <2>2. CASE t # {}  BY <2>2, <1>4, <1>5
  <2> QED  BY <2>1, <2>2
<1>8. text \in Values /\ (Local(w, k) => text \in {NoMsg, w[k].msg})
  <2>1. CASE t = {}  BY <2>1 DEF Values
  <2>2. CASE t # {}
    <3>1. from \in r + 1 .. k - 1 /\ IsKind(w, from, {"text"})  BY <2>2, <1>4, <1>5
    <3>2. from \in 1 .. Len(w) /\ ~IsRestartLine(w, from)
      BY <3>1, <1>6 DEF IsRestartLine, IsKind
    <3>3. text = w[from].msg  BY <2>2
    <3>4. text \in Values  BY <3>2, <3>3, <1>6 DEF LinesOk, Values
    <3>5. ASSUME Local(w, k)  PROVE w[from].msg = w[k].msg
      <4> DEFINE cuts  == {j \in r + 1 .. k - 1 : IsKind(w, j, Cuts)}
                 texts == {j \in r + 1 .. k - 1 : /\ IsKind(w, j, {"text"})
                                                  /\ \A c \in cuts : j < c}
      <4>0. /\ from \in texts /\ \A i \in texts : i <= from
            /\ cuts = {} => Cardinality(texts) = 1
        BY <2>2, <1>5 DEF t, Decoded
      <4>1. ASSUME NEW i \in from .. k - 1 PROVE ~IsKind(w, i, {"deliver"})
        <5>1. i \in r + 1 .. k - 1  BY <3>1
        <5> QED  BY <5>1, <1>1 DEF LastThread, IsThread, ThreadKinds, IsKind
      <4>2. from \in Prelude(w, k)  BY <3>1, <4>1 DEF Prelude
      <4>4. w[from].kind = "text"  BY <3>1 DEF IsKind
      <4>5. ASSUME NEW q \in Requests(w, k)  PROVE q <= r
        <5>1. q \in 1 .. k - 1 /\ IsThread(w, q)
          BY DEF Requests, Prelude, IsThread, ThreadKinds, IsKind
        <5>2. ~(q \in r + 1 .. k - 1)  BY <5>1, <1>1 DEF LastThread
        <5> QED  BY <5>1, <5>2
      <4>6. r \in Requests(w, k)
        <5>1. RequestsOf(w, k) \in SUBSET Requests(w, k)  BY DEF RequestsOf
        <5> QED  BY <5>1, <1>1
      <4>7. ASSUME NEW i \in r + 1 .. k - 1
            PROVE  IsKind(w, i, Cuts) <=> IsBoundary(w, i)
        <5>1. ~IsThread(w, i)  BY <1>1 DEF LastThread
        <5> QED  BY <5>1 DEF IsKind, Cuts, IsBoundary, IsThread, ThreadKinds
      <4>8. from \in BlockTexts(w, k)
        <5>1. ASSUME NEW i \in r + 1 .. from  PROVE ~IsBoundary(w, i)
          <6>1. i \in r + 1 .. k - 1 /\ ~(from < i)  BY <3>1
          <6> QED  BY <6>1, <4>0, <4>7
        <5>2. r < from  BY <3>1
        <5> QED  BY <5>1, <5>2, <4>2, <4>4, <4>5, <4>6 DEF BlockTexts
      <4>9. ASSUME NEW i \in BlockTexts(w, k)  PROVE i \in texts
        <5>1. PICK q \in Requests(w, k) :
                /\ q < i /\ \A p \in Requests(w, k) : p <= q
                /\ \A p \in q + 1 .. i : ~IsBoundary(w, p)
          BY DEF BlockTexts
        <5>2. q = r
          <6>1. q \in 1 .. k - 1  BY DEF Requests, Prelude
          <6>2. q <= r /\ r <= q  BY <4>5, <4>6, <5>1
          <6> QED  BY <6>1, <6>2
        <5>3. i \in r + 1 .. k - 1 /\ IsKind(w, i, {"text"})
          <6>1. i \in 1 .. k - 1 /\ w[i].kind = "text"  BY DEF BlockTexts, Prelude
          <6>2. r < i  BY <5>1, <5>2
          <6> QED  BY <6>1, <6>2 DEF IsKind
        <5>4. ASSUME NEW c \in cuts  PROVE i < c
          <6>1. c \in r + 1 .. k - 1 /\ IsBoundary(w, c)  BY <4>7
          <6>2. ~(c \in r + 1 .. i)  BY <5>1, <5>2, <6>1
          <6> HIDE DEF cuts
          <6> QED  BY <5>3, <6>1, <6>2
        <5> HIDE DEF cuts
        <5> QED  BY <5>3, <5>4
      <4>10. SUFFICES ASSUME w[from].msg # w[k].msg  PROVE FALSE
        OBVIOUS
      <4>11. PICK i \in BlockTexts(w, k) :
               i > from \/ (i < from /\ \A c \in from + 1 .. k - 1 : ~IsBoundary(w, c))
        BY <3>5, <4>8, <4>10 DEF Local
      <4>12. i \in texts /\ i \in r + 1 .. k - 1  BY <4>9
      <4>13. i <= from  BY <4>0, <4>12
      <4>14. i < from /\ \A c \in from + 1 .. k - 1 : ~IsBoundary(w, c)
        BY <3>1, <4>11, <4>12, <4>13
      <4>15. cuts = {}
        <5> SUFFICES ASSUME NEW c \in cuts  PROVE FALSE
          OBVIOUS
        <5>1. c \in r + 1 .. k - 1 /\ IsBoundary(w, c)  BY <4>7
        <5>2. from < c  BY <4>0
        <5>3. c \in from + 1 .. k - 1  BY <3>1, <5>1, <5>2
        <5> QED  BY <4>14, <5>1, <5>3
      <4>16. \E x : texts = {x}
        <5>1. IsFiniteSet(1 .. k - 1)  BY FS_Interval
        <5>2. texts \in SUBSET (1 .. k - 1)  OBVIOUS
        <5> HIDE DEF texts, cuts
        <5>3. IsFiniteSet(texts)  BY <5>1, <5>2, FS_Subset
        <5> QED  BY <4>0, <4>15, <5>3, FS_Singleton
      <4> HIDE DEF texts, cuts
      <4>17. from = i  BY <4>0, <4>12, <4>16
      <4> QED  BY <3>1, <4>12, <4>14, <4>17
    <3> QED  BY <3>3, <3>4, <3>5
  <2> QED  BY <2>1, <2>2
<1> HIDE DEF text
<1> QED  BY <1>3, <1>7, <1>8

\* The same for the three kinds of notices, and the type of all events.
LEMMA EventFields ==
  ASSUME NEW w, WindowOk(w), NEW k \in 1 .. Len(w), IsEvent(w, k)
  PROVE  /\ EventOf(w, k) \in Cands
         /\ ~IsRestartLine(w, k) /\ w[k].msg \in Messages
         /\ EventOf(w, k).identity = IdentityAt(w, k)
         /\ EventOf(w, k).structured <=> w[k].kind = "structured"
         /\ w[k].kind = "structured" =>
               /\ EventOf(w, k).sms.from = w[k].msg /\ EventOf(w, k).sms.to = w[k].msg
               /\ EventOf(w, k).sms.text = Own(w[k].msg)
         /\ AllLocal(w) =>
               /\ EventOf(w, k).sms.from \in {NoMsg, w[k].msg}
               /\ EventOf(w, k).sms.to \in {NoMsg, w[k].msg}
               /\ EventOf(w, k).sms.text \in {NoMsg, w[k].msg}
<1> DEFINE m == w[k].msg
<1>1. LinesOk(w) /\ Len(w) \in Nat  BY DEF WindowOk, LinesOk
<1>2. ~IsRestartLine(w, k)
  BY DEF IsEvent, IsNotice, IsDelivered, IsRestartLine, IsKind
<1>3. m \in Messages  BY <1>1, <1>2 DEF LinesOk
<1>4. k \in Nat /\ GenerationAt(w, k) \in Nat  BY Generations, <1>1
<1>5. IdentityAt(w, k) \in Nat \X Tags  BY <1>3, <1>4 DEF IdentityAt, Tags
<1>6. m \in Values /\ NoMsg \in Values /\ Own(m) \in {NoMsg, m}
  BY <1>3 DEF Values, Own
<1>7. \E time \in Nat, sender \in Values, receiver \in Values, text \in Values,
            whole \in BOOLEAN :
         /\ EventOf(w, k) =
               Candidate(IdentityAt(w, k), Sms(time, sender, receiver, text), whole)
         /\ whole <=> w[k].kind = "structured"
         /\ w[k].kind = "structured" => sender = m /\ receiver = m /\ text = Own(m)
         /\ AllLocal(w) => sender \in {NoMsg, m} /\ receiver \in {NoMsg, m}
                             /\ text \in {NoMsg, m}
  <2>1. CASE w[k].kind = "got"
    <3>1. EventOf(w, k) = Candidate(IdentityAt(w, k),
             Sms(k, m, ParseNoticeParty(m, m \in Addressed), NoMsg), FALSE)
      BY <2>1 DEF EventOf, IsNotice, IsKind, Notice, IdentityAt, ScopedIdentity
    <3>2. ParseNoticeParty(m, m \in Addressed) \in {NoMsg, m}  BY DEF ParseNoticeParty
    <3> QED  BY <2>1, <3>1, <3>2, <1>4, <1>6
  <2>2. CASE w[k].kind = "structured"
    <3>1. EventOf(w, k) = Candidate(IdentityAt(w, k), Sms(k, m, m, Own(m)), TRUE)
      BY <2>2 DEF EventOf, IsNotice, IsKind, Notice, IdentityAt, ScopedIdentity
    <3> QED  BY <2>2, <3>1, <1>4, <1>6
  <2>3. CASE w[k].kind = "keyed"
    <3>1. EventOf(w, k) = Candidate(IdentityAt(w, k), Sms(k, NoMsg, NoMsg, m), FALSE)
      BY <2>3 DEF EventOf, IsNotice, IsKind, Notice, IdentityAt, ScopedIdentity
    <3> QED  BY <2>3, <3>1, <1>4, <1>6
  <2>4. CASE IsDelivered(w, k)
    <3>1. PICK time \in Nat, text \in Values :
            /\ Delivered(w, k) = Candidate(IdentityAt(w, k), Sms(time, m, m, text), FALSE)
            /\ Local(w, k) => text \in {NoMsg, m}
      BY <2>4, DeliveredFields
    <3>2. w[k].kind = "deliver" /\ ~IsNotice(w, k)
      BY <2>4 DEF IsDelivered, IsNotice, IsKind
    <3> QED  BY <3>1, <3>2, <1>6 DEF EventOf, AllLocal
  <2> QED  BY <2>1, <2>2, <2>3, <2>4 DEF IsEvent, IsNotice, IsKind
<1>8. PICK time \in Nat, sender \in Values, receiver \in Values, text \in Values,
            whole \in BOOLEAN :
         /\ EventOf(w, k) =
               Candidate(IdentityAt(w, k), Sms(time, sender, receiver, text), whole)
         /\ whole <=> w[k].kind = "structured"
         /\ w[k].kind = "structured" => sender = m /\ receiver = m /\ text = Own(m)
         /\ AllLocal(w) => sender \in {NoMsg, m} /\ receiver \in {NoMsg, m}
                             /\ text \in {NoMsg, m}
  BY <1>7
<1> HIDE DEF m
<1>9. Sms(time, sender, receiver, text) \in Fields  BY DEF Sms, Fields
<1>10. EventOf(w, k) \in Cands  BY <1>5, <1>8, <1>9 DEF Candidate, Cands
<1>11. /\ EventOf(w, k).identity = IdentityAt(w, k)
       /\ EventOf(w, k).structured = whole
       /\ EventOf(w, k).sms = Sms(time, sender, receiver, text)
  BY <1>8 DEF Candidate
<1>12. /\ Sms(time, sender, receiver, text).from = sender
       /\ Sms(time, sender, receiver, text).to = receiver
       /\ Sms(time, sender, receiver, text).text = text
  BY DEF Sms
<1> QED  BY <1>2, <1>3, <1>8, <1>10, <1>11, <1>12 DEF m

-----------------------------------------------------------------------------
(* The loops: the function that a recursive definition means exists.        *)

\* Steps g[1], g[2], ... of a set S to itself can be taken one after another.
LEMMA Iterates ==
  ASSUME NEW S, NEW a \in S, NEW N \in Nat, NEW g \in [1 .. N -> [S -> S]]
  PROVE  \E f \in [0 .. N -> S] : f[0] = a /\ \A n \in 1 .. N : f[n] = g[n][f[n - 1]]
<1> DEFINE Good(n) == \E f \in [0 .. n -> S] :
              f[0] = a /\ \A i \in 1 .. n : f[i] = g[i][f[i - 1]]
           I == {n \in 0 .. N : Good(n)}
<1>1. Good(0)
  <2>1. [i \in 0 .. 0 |-> a] \in [0 .. 0 -> S] /\ [i \in 0 .. 0 |-> a][0] = a
    OBVIOUS
  <2>2. \A i \in 1 .. 0 : FALSE  OBVIOUS
  <2> DEFINE f == [i \in 0 .. 0 |-> a]
  <2>3. f \in [0 .. 0 -> S] /\ f[0] = a  BY <2>1
  <2> HIDE DEF f
  <2> QED  BY <2>2, <2>3
<1>2. ASSUME NEW n \in 0 .. N, n # N, Good(n)  PROVE Good(n + 1)
  <2>1. PICK f \in [0 .. n -> S] : f[0] = a /\ \A i \in 1 .. n : f[i] = g[i][f[i - 1]]
    BY <1>2
  <2> DEFINE h == [i \in 0 .. n + 1 |-> IF i = n + 1 THEN g[n + 1][f[n]] ELSE f[i]]
  <2>2. n \in Nat /\ n + 1 \in 1 .. N /\ n \in 0 .. n  BY <1>2
  <2>3. g[n + 1] \in [S -> S] /\ f[n] \in S  BY <2>2
  <2>4. g[n + 1][f[n]] \in S  BY <2>3
  <2>5. ASSUME NEW i \in 0 .. n  PROVE f[i] \in S /\ h[i] = f[i]
    BY <2>2
  <2>6. h[n + 1] = g[n + 1][f[n]] /\ h[n] = f[n] /\ h[0] = a
    BY <2>1, <2>2, <2>5
  <2>7. h \in [0 .. n + 1 -> S]  BY <2>2, <2>4
  <2> HIDE DEF h
  <2>8. ASSUME NEW i \in 1 .. n + 1  PROVE h[i] = g[i][h[i - 1]]
    <3>1. CASE i = n + 1  BY <3>1, <2>2, <2>6
    <3>2. CASE i \in 1 .. n
      <4>1. i \in 0 .. n /\ i - 1 \in 0 .. n  BY <3>2, <2>2
      <4> QED  BY <3>2, <4>1, <2>1, <2>5
    <3> QED  BY <3>1, <3>2, <2>2
  <2> QED  BY <2>6, <2>7, <2>8
<1> HIDE DEF Good
<1>3. 0 \in I /\ \A n \in 1 .. N : n - 1 \in I => n \in I
  <2>1. 0 \in I  BY <1>1
  <2>2. ASSUME NEW n \in 1 .. N, n - 1 \in I  PROVE n \in I
    <3>1. n - 1 \in 0 .. N /\ n - 1 # N /\ (n - 1) + 1 = n /\ n \in 0 .. N  OBVIOUS
    <3>2. Good((n - 1) + 1)  BY <1>2, <2>2, <3>1
    <3> QED  BY <3>1, <3>2
  <2> QED  BY <2>1, <2>2
<1>4. N \in I
  <2> HIDE DEF I
  <2>1. \A n \in 0 .. N : n \in I  BY <1>3, Induction
  <2> QED  BY <2>1
<1> QED  BY <1>4 DEF Good

\* The events up to each line of a window.
LEMMA EventsMeaning ==
  ASSUME NEW w, WindowOk(w)
  PROVE  /\ Events(w) \in [0 .. Len(w) -> Seq(Cands)]
         /\ Events(w)[0] = <<>>
         /\ \A k \in 1 .. Len(w) : Events(w)[k] = Events(w)[k - 1] \o EventAt(w, k)
<1> DEFINE Is(f) == f = [k \in 0 .. Len(w) |->
                            IF k = 0 THEN <<>> ELSE f[k - 1] \o EventAt(w, k)]
<1>1. Events(w) = CHOOSE f : Is(f)  BY DEF Events
<1>2. Len(w) \in Nat  BY DEF WindowOk, LinesOk
<1>3. ASSUME NEW k \in 1 .. Len(w)  PROVE EventAt(w, k) \in Seq(Cands)
  <2>1. EventAt(w, k) = IF IsEvent(w, k) THEN <<EventOf(w, k)>> ELSE <<>>
    BY DEF EventAt, IsEvent, EventOf
  <2>2. IsEvent(w, k) => EventOf(w, k) \in Cands  BY EventFields
  <2> QED  BY <2>1, <2>2
<1> DEFINE S == Seq(Cands)
           N == Len(w)
           g == [k \in 1 .. N |-> [s \in S |-> s \o EventAt(w, k)]]
<1>4. ASSUME NEW k \in 1 .. N, NEW s \in S  PROVE s \o EventAt(w, k) \in S
  BY <1>3
<1>5. N \in Nat /\ <<>> \in S  BY <1>2
<1>6. g \in [1 .. N -> [S -> S]]
  <2> HIDE DEF S, N
  <2> QED  BY <1>4
<1>7. PICK f \in [0 .. N -> S] : f[0] = <<>> /\ \A n \in 1 .. N : f[n] = g[n][f[n - 1]]
  <2> HIDE DEF g, S, N
  <2> QED  BY <1>5, <1>6, Iterates
<1>8. \A k \in 1 .. N : f[k] = f[k - 1] \o EventAt(w, k)
  <2> SUFFICES ASSUME NEW k \in 1 .. N  PROVE f[k] = f[k - 1] \o EventAt(w, k)
    OBVIOUS
  <2> HIDE DEF S, N
  <2>1. k - 1 \in 0 .. N  BY <1>5
  <2>2. f[k - 1] \in S /\ f[k] = g[k][f[k - 1]]  BY <2>1, <1>7
  <2> QED  BY <2>2
<1>9. Is(f)
  <2>1. \A k \in 0 .. N : f[k] = IF k = 0 THEN <<>> ELSE f[k - 1] \o EventAt(w, k)
    BY <1>5, <1>7, <1>8
  <2> QED  BY <2>1
<1>10. Is(Events(w))
  <2> HIDE DEF Is
  <2> QED  BY <1>1, <1>9
<1> DEFINE e == Events(w)
<1> HIDE DEF e
<1>11. /\ e = [k \in 0 .. N |-> e[k]]
       /\ \A k \in 0 .. N : e[k] = IF k = 0 THEN <<>> ELSE e[k - 1] \o EventAt(w, k)
  BY <1>10 DEF e
<1> HIDE DEF Is, g, S, N
<1>12. e[0] = <<>> /\ \A k \in 1 .. N : e[k] = e[k - 1] \o EventAt(w, k)
  <2>1. 0 \in 0 .. N /\ \A k \in 1 .. N : k \in 0 .. N /\ k # 0  BY <1>5
  <2>2. e[0] = <<>>  BY <2>1, <1>11
  <2>3. ASSUME NEW k \in 1 .. N  PROVE e[k] = e[k - 1] \o EventAt(w, k)
    BY <2>1, <1>11
  <2> QED  BY <2>2, <2>3
<1> DEFINE I == {n \in 0 .. N : e[n] \in S}
<1>13. \A n \in 0 .. N : n \in I
  <2>1. 0 \in I  BY <1>5, <1>12
  <2>2. ASSUME NEW n \in 1 .. N, n - 1 \in I  PROVE n \in I
    <3>1. n \in 0 .. N /\ e[n - 1] \in S  BY <1>5, <2>2
    <3> QED  BY <3>1, <1>4, <1>12
  <2> HIDE DEF I
  <2> QED  BY <1>5, <2>1, <2>2, Induction
<1>14. e \in [0 .. N -> S]  BY <1>11, <1>13
<1> QED  BY <1>12, <1>14 DEF e, S, N

-----------------------------------------------------------------------------
(* What a candidate does to the messages found so far.                      *)

Joined(sms, c) ==
    IF c.structured THEN ApplyStructured(sms, c.sms) ELSE MergeSMS(sms, c.sms)

\* A merge keeps the time and what is there; a structured record replaces the
\* rest.
LEMMA JoinedMeaning ==
  ASSUME NEW sms \in Fields, NEW c \in Cands
  PROVE  /\ Joined(sms, c) \in Fields
         /\ Joined(sms, c).time = sms.time
         /\ c.structured => /\ Joined(sms, c).from = c.sms.from
                            /\ Joined(sms, c).to = c.sms.to
                            /\ Joined(sms, c).text = c.sms.text
         /\ ~c.structured =>
               /\ Joined(sms, c).from = IF sms.from = NoMsg THEN c.sms.from ELSE sms.from
               /\ Joined(sms, c).to = IF sms.to = NoMsg THEN c.sms.to ELSE sms.to
               /\ Joined(sms, c).text = IF sms.text = NoMsg THEN c.sms.text ELSE sms.text
<1>1. c.sms \in Fields /\ c.structured \in BOOLEAN  BY DEF Cands
<1> DEFINE d == c.sms
<1> HIDE DEF d
<1>2. d \in Fields  BY <1>1 DEF d
<1>3. CASE c.structured
  <2>1. Joined(sms, c) = [d EXCEPT !.time = sms.time]
    BY <1>3 DEF Joined, ApplyStructured, d
  <2> QED  BY <1>2, <1>3, <2>1 DEF Fields, d
<1>4. CASE ~c.structured
  <2> DEFINE e == [f \in DOMAIN sms |->
                      IF f # "time" /\ sms[f] = NoMsg THEN d[f] ELSE sms[f]]
  <2>1. Joined(sms, c) = e
    BY <1>4 DEF Joined, MergeSMS, d
  <2>2. DOMAIN sms = {"time", "from", "to", "text"}  BY DEF Fields
  <2>3. /\ e.time = sms.time
        /\ e.from = IF sms.from = NoMsg THEN d.from ELSE sms.from
        /\ e.to = IF sms.to = NoMsg THEN d.to ELSE sms.to
        /\ e.text = IF sms.text = NoMsg THEN d.text ELSE sms.text
    BY <2>2
  <2>4. e = [time |-> e.time, from |-> e.from, to |-> e.to, text |-> e.text]
    BY <2>2
  <2> HIDE DEF e
  <2>5. /\ sms.time \in Nat /\ sms.from \in Values /\ sms.to \in Values
        /\ sms.text \in Values
        /\ d.time \in Nat /\ d.from \in Values /\ d.to \in Values /\ d.text \in Values
    BY <1>2 DEF Fields
  <2>6. /\ e.time \in Nat /\ e.from \in Values /\ e.to \in Values /\ e.text \in Values
    BY <2>3, <2>5
  <2>7. e \in Fields  BY <2>4, <2>6 DEF Fields
  <2> QED  BY <1>4, <2>1, <2>3, <2>7 DEF d
<1> QED  BY <1>3, <1>4

\* The three outcomes of a step of the loop.
LEMMA AbsorbMeaning ==
  ASSUME NEW out \in Seq(Cands), NEW c \in Cands
  PROVE  \/ /\ \A i \in 1 .. Len(out) : out[i].identity # c.identity
            /\ Absorb(out, c) = Append(out, c)
         \/ \E i \in 1 .. Len(out) :
               /\ out[i].identity = c.identity /\ out[i].structured
               /\ Absorb(out, c) = out
         \/ \E i \in 1 .. Len(out) :
               /\ out[i].identity = c.identity /\ ~out[i].structured
               /\ Absorb(out, c) =
                     [out EXCEPT ![i] = Candidate(c.identity, Joined(out[i].sms, c),
                                                  c.structured)]
<1> DEFINE same == {i \in DOMAIN out : out[i].identity = c.identity}
           i == CHOOSE j \in same : TRUE
<1>1. DOMAIN out = 1 .. Len(out)  OBVIOUS
<1>2. CASE same = {}
  BY <1>1, <1>2 DEF Absorb
<1>3. CASE same # {}
  <2>1. i \in same  BY <1>3
  <2>2. i \in 1 .. Len(out) /\ out[i].identity = c.identity /\ out[i] \in Cands
    BY <2>1, <1>1
  <2>3. Absorb(out, c) =
           IF out[i].structured THEN out
           ELSE [out EXCEPT ![i] = Candidate(c.identity, Joined(out[i].sms, c),
                                             c.structured)]
    BY <1>3 DEF Absorb, Joined
  <2> HIDE DEF i, same
  <2>4. CASE out[i].structured  BY <2>4, <2>2, <2>3
  <2>5. CASE ~out[i].structured  BY <2>5, <2>2, <2>3
  <2> QED  BY <2>4, <2>5
<1> QED  BY <1>2, <1>3

\* The messages found stay of their type.
LEMMA AbsorbType ==
  ASSUME NEW out \in Seq(Cands), NEW c \in Cands
  PROVE  Absorb(out, c) \in Seq(Cands)
<1>1. CASE Absorb(out, c) = Append(out, c)  BY <1>1
<1>2. CASE Absorb(out, c) = out  BY <1>2
<1>3. CASE \E i \in 1 .. Len(out) :
               /\ out[i].identity = c.identity /\ ~out[i].structured
               /\ Absorb(out, c) =
                     [out EXCEPT ![i] = Candidate(c.identity, Joined(out[i].sms, c),
                                                  c.structured)]
  <2>1. PICK i \in 1 .. Len(out) :
            Absorb(out, c) =
               [out EXCEPT ![i] = Candidate(c.identity, Joined(out[i].sms, c),
                                            c.structured)]
    BY <1>3
  <2>2. out[i] \in Cands  OBVIOUS
  <2>3. out[i].sms \in Fields /\ c.identity \in Nat \X Tags /\ c.structured \in BOOLEAN
    BY <2>2 DEF Cands
  <2>4. Joined(out[i].sms, c) \in Fields  BY <2>3, JoinedMeaning
  <2> DEFINE d == Candidate(c.identity, Joined(out[i].sms, c), c.structured)
  <2>5. d \in Cands  BY <2>3, <2>4 DEF Candidate, Cands
  <2> HIDE DEF d
  <2>6. [out EXCEPT ![i] = d] \in Seq(Cands)  BY <2>5
  <2> QED  BY <2>1, <2>6 DEF d
<1> QED  BY <1>1, <1>2, <1>3, AbsorbMeaning

\* The messages found after each candidate.
LEMMA MergedMeaning ==
  ASSUME NEW c \in Seq(Cands)
  PROVE  /\ Merged(c) \in [0 .. Len(c) -> Seq(Cands)]
         /\ Merged(c)[0] = <<>>
         /\ \A n \in 1 .. Len(c) : Merged(c)[n] = Absorb(Merged(c)[n - 1], c[n])
<1> DEFINE S == Seq(Cands)
           N == Len(c)
           Is(f) == f = [n \in 0 .. N |-> IF n = 0 THEN <<>> ELSE Absorb(f[n - 1], c[n])]
           g == [n \in 1 .. N |-> [s \in S |-> Absorb(s, c[n])]]
<1>1. Merged(c) = CHOOSE f : Is(f)  BY DEF Merged
<1>2. N \in Nat /\ <<>> \in S  OBVIOUS
<1>3. ASSUME NEW n \in 1 .. N, NEW s \in S  PROVE Absorb(s, c[n]) \in S
  <2>1. c[n] \in Cands  OBVIOUS
  <2> QED  BY <2>1, AbsorbType
<1>4. g \in [1 .. N -> [S -> S]]
  <2> HIDE DEF S, N
  <2> QED  BY <1>3
<1>5. PICK f \in [0 .. N -> S] : f[0] = <<>> /\ \A n \in 1 .. N : f[n] = g[n][f[n - 1]]
  <2> HIDE DEF g, S, N
  <2> QED  BY <1>2, <1>4, Iterates
<1>6. \A n \in 1 .. N : f[n] = Absorb(f[n - 1], c[n])
  <2> SUFFICES ASSUME NEW n \in 1 .. N  PROVE f[n] = Absorb(f[n - 1], c[n])
    OBVIOUS
  <2> HIDE DEF S, N
  <2>1. n - 1 \in 0 .. N  BY <1>2
  <2>2. f[n - 1] \in S /\ f[n] = g[n][f[n - 1]]  BY <2>1, <1>5
  <2> QED  BY <2>2
<1>7. Is(f)
  <2>1. \A n \in 0 .. N : f[n] = IF n = 0 THEN <<>> ELSE Absorb(f[n - 1], c[n])
    BY <1>2, <1>5, <1>6
  <2> QED  BY <2>1
<1>8. Is(Merged(c))
  <2> HIDE DEF Is
  <2> QED  BY <1>1, <1>7
<1> DEFINE e == Merged(c)
<1> HIDE DEF e
<1>9. /\ e = [n \in 0 .. N |-> e[n]]
      /\ \A n \in 0 .. N : e[n] = IF n = 0 THEN <<>> ELSE Absorb(e[n - 1], c[n])
  BY <1>8 DEF e
<1> HIDE DEF Is, g, S, N
<1>10. e[0] = <<>> /\ \A n \in 1 .. N : e[n] = Absorb(e[n - 1], c[n])
  <2>1. 0 \in 0 .. N /\ \A n \in 1 .. N : n \in 0 .. N /\ n # 0  BY <1>2
  <2>2. e[0] = <<>>  BY <2>1, <1>9
  <2>3. ASSUME NEW n \in 1 .. N  PROVE e[n] = Absorb(e[n - 1], c[n])
    BY <2>1, <1>9
  <2> QED  BY <2>2, <2>3
<1> DEFINE I == {n \in 0 .. N : e[n] \in S}
<1>11. \A n \in 0 .. N : n \in I
  <2>1. 0 \in I  BY <1>2, <1>10
  <2>2. ASSUME NEW n \in 1 .. N, n - 1 \in I  PROVE n \in I
    <3>1. n \in 0 .. N /\ e[n - 1] \in S  BY <1>2, <2>2
    <3> QED  BY <3>1, <1>3, <1>10
  <2> HIDE DEF I
  <2> QED  BY <1>2, <2>1, <2>2, Induction
<1>12. e \in [0 .. N -> S]  BY <1>9, <1>11
<1> QED  BY <1>10, <1>12 DEF e, S, N

MergedAll(c) == Merged(c)[Len(c)]

\* A further candidate is absorbed by what the others gave.
LEMMA MergedAppend ==
  ASSUME NEW c \in Seq(Cands), NEW x \in Cands
  PROVE  /\ MergedAll(c) \in Seq(Cands)
         /\ MergedAll(<<>>) = <<>>
         /\ MergedAll(Append(c, x)) = Absorb(MergedAll(c), x)
<1> DEFINE d == Append(c, x)
           N == Len(c)
           f == Merged(c)
           h == Merged(d)
<1>1. /\ d \in Seq(Cands) /\ N \in Nat /\ Len(d) = N + 1 /\ d[N + 1] = x
      /\ \A n \in 1 .. N : d[n] = c[n]
  OBVIOUS
<1> HIDE DEF d
<1>2. /\ f \in [0 .. N -> Seq(Cands)] /\ f[0] = <<>>
      /\ \A n \in 1 .. N : f[n] = Absorb(f[n - 1], c[n])
  BY MergedMeaning
<1>3. /\ h[0] = <<>>
      /\ \A n \in 1 .. N + 1 : h[n] = Absorb(h[n - 1], d[n])
  BY <1>1, MergedMeaning
<1> HIDE DEF f, h
<1> DEFINE I == {n \in 0 .. N : h[n] = f[n]}
<1>4. \A n \in 0 .. N : n \in I
  <2>1. 0 \in I  BY <1>1, <1>2, <1>3
  <2>2. ASSUME NEW n \in 1 .. N, n - 1 \in I  PROVE n \in I
    <3>1. n \in 0 .. N /\ n \in 1 .. N + 1 /\ h[n - 1] = f[n - 1]  BY <1>1, <2>2
    <3>2. h[n] = Absorb(h[n - 1], d[n]) /\ f[n] = Absorb(f[n - 1], c[n]) /\ d[n] = c[n]
      BY <3>1, <1>1, <1>2, <1>3
    <3> QED  BY <3>1, <3>2
  <2> HIDE DEF I
  <2> QED  BY <1>1, <2>1, <2>2, Induction
<1>5. h[N] = f[N]  BY <1>1, <1>4
<1>6. h[N + 1] = Absorb(h[N], x)
  <2>1. N + 1 \in 1 .. N + 1 /\ (N + 1) - 1 = N  BY <1>1
  <2> QED  BY <2>1, <1>1, <1>3
<1>7. MergedAll(c) = f[N] /\ MergedAll(d) = h[N + 1]  BY <1>1 DEF MergedAll, f, h
<1>8. f[N] \in Seq(Cands)  BY <1>1, <1>2
<1>9. MergedAll(<<>>) = <<>>
  <2>1. <<>> \in Seq(Cands) /\ Len(<<>>) = 0  OBVIOUS
  <2> QED  BY <2>1, MergedMeaning DEF MergedAll
<1> QED  BY <1>5, <1>6, <1>7, <1>8, <1>9 DEF d

\* The messages found up to each line of a window.
Found(w, k) == MergedAll(Events(w)[k])

\* The parser reads a window line by line.
LEMMA FoundMeaning ==
  ASSUME NEW w, WindowOk(w)
  PROVE  /\ ParseSmqueueLog(w) = Found(w, Len(w))
         /\ Found(w, 0) = <<>>
         /\ \A k \in 0 .. Len(w) : Found(w, k) \in Seq(Cands)
         /\ \A k \in 1 .. Len(w) : Found(w, k) =
               IF IsEvent(w, k) THEN Absorb(Found(w, k - 1), EventOf(w, k))
                                ELSE Found(w, k - 1)
<1> DEFINE e == Events(w)
<1>1. /\ e \in [0 .. Len(w) -> Seq(Cands)] /\ e[0] = <<>>
      /\ \A k \in 1 .. Len(w) : e[k] = e[k - 1] \o EventAt(w, k)
  BY EventsMeaning
<1>2. Len(w) \in Nat  BY DEF WindowOk, LinesOk
<1>3. ParseSmqueueLog(w) = Found(w, Len(w))
  BY DEF ParseSmqueueLog, Candidates, Found, MergedAll
<1> HIDE DEF e
<1>4. \A k \in 0 .. Len(w) : Found(w, k) = MergedAll(e[k])  BY DEF Found, e
<1>5. ASSUME NEW s \in Seq(Cands)  PROVE MergedAll(s) \in Seq(Cands)
  BY MergedMeaning DEF MergedAll
<1>6. MergedAll(<<>>) = <<>>
  <2>1. <<>> \in Seq(Cands) /\ Len(<<>>) = 0  OBVIOUS
  <2> QED  BY <2>1, MergedMeaning DEF MergedAll
<1>7. ASSUME NEW k \in 1 .. Len(w)
      PROVE  Found(w, k) =
               IF IsEvent(w, k) THEN Absorb(Found(w, k - 1), EventOf(w, k))
                                ELSE Found(w, k - 1)
  <2>1. k \in 0 .. Len(w) /\ k - 1 \in 0 .. Len(w)  BY <1>2
  <2>2. e[k - 1] \in Seq(Cands) /\ e[k] = e[k - 1] \o EventAt(w, k)
    BY <2>1, <1>1
  <2>3. Found(w, k) = MergedAll(e[k]) /\ Found(w, k - 1) = MergedAll(e[k - 1])
    BY <2>1, <1>4
  <2>4. CASE IsEvent(w, k)
    <3>1. EventOf(w, k) \in Cands  BY <2>4, EventFields
    <3>2. EventAt(w, k) = <<EventOf(w, k)>>
      BY <2>4 DEF EventAt, IsEvent, EventOf
    <3>3. e[k] = Append(e[k - 1], EventOf(w, k))  BY <2>2, <3>1, <3>2
    <3>4. MergedAll(Append(e[k - 1], EventOf(w, k))) =
             Absorb(MergedAll(e[k - 1]), EventOf(w, k))
      BY <2>2, <3>1, MergedAppend
    <3> QED  BY <2>3, <2>4, <3>3, <3>4
  <2>5. CASE ~IsEvent(w, k)
    <3>1. EventAt(w, k) = <<>>  BY <2>5 DEF EventAt, IsEvent
    <3>2. e[k] = e[k - 1]  BY <2>2, <3>1
    <3> QED  BY <2>3, <2>5, <3>2
  <2> QED  BY <2>4, <2>5
<1>8. \A k \in 0 .. Len(w) : Found(w, k) \in Seq(Cands)  BY <1>1, <1>4, <1>5
<1>9. Found(w, 0) = <<>>  BY <1>1, <1>2, <1>4, <1>6
<1> QED  BY <1>3, <1>7, <1>8, <1>9

Distinct(out) ==
    \A i, j \in 1 .. Len(out) : i # j => out[i].identity # out[j].identity

\* The place p of a candidate's identity after it is absorbed.
Placed(out, c, new, p) ==
    /\ p \in 1 .. Len(new) /\ new[p].identity = c.identity
    /\ \A j \in 1 .. Len(new) : j # p =>
          j \in 1 .. Len(out) /\ new[j] = out[j] /\ new[j].identity # c.identity
    /\ Len(out) <= Len(new)
    /\ \A j \in 1 .. Len(out) : new[j].identity = out[j].identity
    /\ \/ p = Len(out) + 1 /\ new[p] = c
       \/ p \in 1 .. Len(out) /\ out[p].structured /\ new[p] = out[p]
       \/ /\ p \in 1 .. Len(out) /\ ~out[p].structured
          /\ new[p] = Candidate(c.identity, Joined(out[p].sms, c), c.structured)

\* There is one, and everything else stays as it was.
LEMMA AbsorbPlace ==
  ASSUME NEW out \in Seq(Cands), NEW c \in Cands, Distinct(out)
  PROVE  /\ \E p \in 1 .. Len(Absorb(out, c)) : Placed(out, c, Absorb(out, c), p)
         /\ Distinct(Absorb(out, c))
<1> DEFINE new == Absorb(out, c)
           n == Len(out)
<1>1. n \in Nat  OBVIOUS
<1>2. \E p \in 1 .. Len(new) : Placed(out, c, new, p)
  <2>1. CASE /\ \A i \in 1 .. Len(out) : out[i].identity # c.identity
             /\ Absorb(out, c) = Append(out, c)
    <3>1. /\ Len(new) = n + 1 /\ new[n + 1] = c
          /\ \A j \in 1 .. n : new[j] = out[j]
      BY <2>1
    <3> HIDE DEF new
    <3>2. Placed(out, c, new, n + 1)
      BY <1>1, <2>1, <3>1 DEF Placed
    <3> QED  BY <3>1, <3>2, <1>1
  <2>2. CASE \E i \in 1 .. Len(out) :
               /\ out[i].identity = c.identity /\ out[i].structured
               /\ Absorb(out, c) = out
    <3>1. PICK i \in 1 .. Len(out) :
               /\ out[i].identity = c.identity /\ out[i].structured
               /\ new = out
      BY <2>2
    <3> HIDE DEF new
    <3>2. Placed(out, c, new, i)
      BY <1>1, <3>1 DEF Placed, Distinct
    <3> QED  BY <3>1, <3>2
  <2>3. CASE \E i \in 1 .. Len(out) :
               /\ out[i].identity = c.identity /\ ~out[i].structured
               /\ Absorb(out, c) =
                     [out EXCEPT ![i] = Candidate(c.identity, Joined(out[i].sms, c),
                                                  c.structured)]
    <3>1. PICK i \in 1 .. Len(out) :
               /\ out[i].identity = c.identity /\ ~out[i].structured
               /\ new = [out EXCEPT ![i] = Candidate(c.identity, Joined(out[i].sms, c),
                                                     c.structured)]
      BY <2>3
    <3> DEFINE d == Candidate(c.identity, Joined(out[i].sms, c), c.structured)
    <3>2. d.identity = c.identity  BY DEF Candidate
    <3> HIDE DEF new, d
    <3>3. new = [out EXCEPT ![i] = d]  BY <3>1 DEF d
    <3>4. Len(new) = n /\ new[i] = d /\ \A j \in 1 .. n : j # i => new[j] = out[j]
      BY <3>3
    <3>5. \A j \in 1 .. n : j # i => out[j].identity # c.identity
      BY <3>1 DEF Distinct
    <3>6. Placed(out, c, new, i)
      <4>1. \A j \in 1 .. n : new[j].identity = out[j].identity
        BY <3>1, <3>2, <3>4
      <4>2. \A j \in 1 .. Len(new) : j # i =>
               j \in 1 .. Len(out) /\ new[j] = out[j] /\ new[j].identity # c.identity
        BY <3>4, <3>5
      <4>3. i \in 1 .. Len(new) /\ new[i].identity = c.identity /\ Len(out) <= Len(new)
        BY <3>2, <3>4, <1>1
      <4>4. /\ i \in 1 .. Len(out) /\ ~out[i].structured
            /\ new[i] = Candidate(c.identity, Joined(out[i].sms, c), c.structured)
        BY <3>1, <3>4 DEF d
      <4> QED  BY <4>1, <4>2, <4>3, <4>4 DEF Placed
    <3> QED  BY <3>4, <3>6
  <2> QED  BY <2>1, <2>2, <2>3, AbsorbMeaning
<1> HIDE DEF new
<1>3. Distinct(new)
  <2>1. PICK p \in 1 .. Len(new) : Placed(out, c, new, p)  BY <1>2
  <2> SUFFICES ASSUME NEW i \in 1 .. Len(new), NEW j \in 1 .. Len(new), i # j
               PROVE  new[i].identity # new[j].identity
    BY DEF Distinct
  <2>2. CASE i = p  BY <2>1, <2>2 DEF Placed
  <2>3. CASE j = p  BY <2>1, <2>3 DEF Placed
  <2>4. CASE i # p /\ j # p
    <3>1. /\ i \in 1 .. Len(out) /\ new[i] = out[i]
          /\ j \in 1 .. Len(out) /\ new[j] = out[j]
      BY <2>1, <2>4 DEF Placed
    <3> QED  BY <3>1 DEF Distinct
  <2> QED  BY <2>2, <2>3, <2>4
<1> QED  BY <1>2, <1>3 DEF new

-----------------------------------------------------------------------------
(* What the messages found up to line k are.                                *)

HasRecord(sms, m) == sms.from = m /\ sms.to = m /\ sms.text = Own(m)

Complete(w, k, out) ==
    \A l \in 1 .. k : IsEvent(w, l) =>
        \E i \in 1 .. Len(out) : out[i].identity = IdentityAt(w, l)
Whole(w, k, out) ==
    \A l \in 1 .. k : w[l].kind = "structured" =>
        \A i \in 1 .. Len(out) : out[i].identity = IdentityAt(w, l) => out[i].structured
Exact(w, k, out) ==
    \A i \in 1 .. Len(out) : out[i].structured =>
        \E l \in 1 .. k : /\ w[l].kind = "structured"
                          /\ out[i].identity = IdentityAt(w, l)
                          /\ HasRecord(out[i].sms, w[l].msg)
FieldsOf(w, x) ==
    LET own == {NoMsg} \cup Subjects(w, x.identity)
    IN  x.sms.from \in own /\ x.sms.to \in own /\ x.sms.text \in own
OwnFields(w, out) ==
    AllLocal(w) => \A i \in 1 .. Len(out) : FieldsOf(w, out[i])

FoundOk(w, k, out) ==
    /\ out \in Seq(Cands) /\ Distinct(out) /\ Complete(w, k, out)
    /\ Whole(w, k, out) /\ Exact(w, k, out) /\ OwnFields(w, out)

\* An event line adds what it says to its own message only.
LEMMA FoundStep ==
  ASSUME NEW w, WindowOk(w), NEW k \in 1 .. Len(w), IsEvent(w, k),
         NEW out, FoundOk(w, k - 1, out)
  PROVE  FoundOk(w, k, Absorb(out, EventOf(w, k)))
<1> DEFINE c == EventOf(w, k)
           new == Absorb(out, c)
<1>1. /\ c \in Cands /\ ~IsRestartLine(w, k) /\ c.identity = IdentityAt(w, k)
      /\ c.structured <=> w[k].kind = "structured"
      /\ w[k].kind = "structured" => HasRecord(c.sms, w[k].msg)
      /\ AllLocal(w) => /\ c.sms.from \in {NoMsg, w[k].msg}
                        /\ c.sms.to \in {NoMsg, w[k].msg}
                        /\ c.sms.text \in {NoMsg, w[k].msg}
  BY EventFields DEF HasRecord
<1>2. out \in Seq(Cands) /\ Distinct(out)  BY DEF FoundOk
<1> HIDE DEF c
<1>3. new \in Seq(Cands)  BY <1>1, <1>2, AbsorbType
<1>4. Distinct(new) /\ \E p \in 1 .. Len(new) : Placed(out, c, new, p)
  BY <1>1, <1>2, AbsorbPlace
<1> HIDE DEF new
<1>5. PICK p \in 1 .. Len(new) : Placed(out, c, new, p)  BY <1>4
<1>6. k \in Nat /\ k >= 1 /\ Len(w) \in Nat  BY DEF WindowOk, LinesOk
<1>7. ASSUME NEW l \in 1 .. k  PROVE l \in 1 .. k - 1 \/ l = k  BY <1>6
<1>8. Complete(w, k, new)
  <2> SUFFICES ASSUME NEW l \in 1 .. k, IsEvent(w, l)
               PROVE  \E i \in 1 .. Len(new) : new[i].identity = IdentityAt(w, l)
    BY DEF Complete
  <2>1. CASE l = k  BY <2>1, <1>1, <1>5 DEF Placed
  <2>2. CASE l \in 1 .. k - 1
    <3>1. PICK i \in 1 .. Len(out) : out[i].identity = IdentityAt(w, l)
      BY <2>2 DEF FoundOk, Complete
    <3>2. new[i].identity = IdentityAt(w, l) /\ Len(out) <= Len(new)
      BY <3>1, <1>5 DEF Placed
    <3>3. i \in 1 .. Len(new)
      <4>1. Len(out) \in Nat /\ Len(new) \in Nat  BY <1>2, <1>3
      <4> QED  BY <4>1, <3>2
    <3> QED  BY <3>2, <3>3
  <2> QED  BY <2>1, <2>2, <1>7
\* An entry other than p was there before.
<1>9. ASSUME NEW i \in 1 .. Len(new), i # p
      PROVE  i \in 1 .. Len(out) /\ new[i] = out[i] /\ new[i].identity # IdentityAt(w, k)
  BY <1>1, <1>5, <1>9 DEF Placed
<1>10. \/ p = Len(out) + 1 /\ new[p] = c
       \/ p \in 1 .. Len(out) /\ out[p].structured /\ new[p] = out[p]
       \/ /\ p \in 1 .. Len(out) /\ ~out[p].structured
          /\ new[p] = Candidate(c.identity, Joined(out[p].sms, c), c.structured)
  BY <1>5 DEF Placed
<1>11. new[p].identity = IdentityAt(w, k)  BY <1>1, <1>5 DEF Placed
\* The merged entry.
<1>12. ASSUME p \in 1 .. Len(out), ~out[p].structured,
              new[p] = Candidate(c.identity, Joined(out[p].sms, c), c.structured)
       PROVE  /\ new[p].structured = c.structured /\ out[p].identity = new[p].identity
              /\ c.structured => HasRecord(new[p].sms, w[k].msg)
              /\ new[p].sms.from \in {out[p].sms.from, c.sms.from}
              /\ new[p].sms.to \in {out[p].sms.to, c.sms.to}
              /\ new[p].sms.text \in {out[p].sms.text, c.sms.text}
  <2>1. out[p] \in Cands  BY <1>2, <1>12
  <2>2. out[p].sms \in Fields  BY <2>1 DEF Cands
  <2>3. new[p].sms = Joined(out[p].sms, c) /\ new[p].structured = c.structured
    BY <1>12 DEF Candidate
  <2>4. out[p].identity = new[p].identity  BY <1>5, <1>12 DEF Placed
  <2>5. /\ c.structured => /\ Joined(out[p].sms, c).from = c.sms.from
                           /\ Joined(out[p].sms, c).to = c.sms.to
                           /\ Joined(out[p].sms, c).text = c.sms.text
        /\ Joined(out[p].sms, c).from \in {out[p].sms.from, c.sms.from}
        /\ Joined(out[p].sms, c).to \in {out[p].sms.to, c.sms.to}
        /\ Joined(out[p].sms, c).text \in {out[p].sms.text, c.sms.text}
    BY <1>1, <2>2, JoinedMeaning
  <2> QED  BY <2>3, <2>4, <2>5, <1>1 DEF HasRecord
<1>13. Whole(w, k, new)
  <2> SUFFICES ASSUME NEW l \in 1 .. k, w[l].kind = "structured",
                      NEW i \in 1 .. Len(new), new[i].identity = IdentityAt(w, l)
               PROVE  new[i].structured
    BY DEF Whole
  <2>1. CASE i # p
    <3>1. l # k  BY <2>1, <1>9
    <3> QED  BY <2>1, <3>1, <1>7, <1>9 DEF FoundOk, Whole
  <2>2. CASE i = p /\ p \in 1 .. Len(out) /\ out[p].structured /\ new[p] = out[p]
    BY <2>2
  <2>3. CASE i = p /\ l = k /\ new[p] = c  BY <2>3, <1>1
  <2>4. CASE i = p /\ l \in 1 .. k - 1 /\ p = Len(out) + 1 /\ new[p] = c
    <3>1. IsEvent(w, l)  BY DEF IsEvent, IsNotice, IsKind
    <3>2. PICK j \in 1 .. Len(out) : out[j].identity = IdentityAt(w, l)
      BY <3>1, <2>4 DEF FoundOk, Complete
    <3>3. new[j].identity = IdentityAt(w, l)  BY <3>2, <1>5 DEF Placed
    <3>4. j # p /\ j \in 1 .. Len(new)
      <4>1. Len(out) \in Nat /\ Len(new) \in Nat  BY <1>2, <1>3
      <4>2. Len(out) <= Len(new)  BY <1>5 DEF Placed
      <4> QED  BY <4>1, <4>2, <2>4
    <3> QED  BY <3>3, <3>4, <2>4, <1>4 DEF Distinct
  <2>5. CASE /\ i = p /\ p \in 1 .. Len(out) /\ ~out[p].structured
             /\ new[p] = Candidate(c.identity, Joined(out[p].sms, c), c.structured)
    <3>1. new[p].structured = c.structured /\ out[p].identity = new[p].identity
      BY <2>5, <1>12
    <3>2. CASE l = k  BY <3>1, <3>2, <2>5, <1>1
    <3>3. CASE l \in 1 .. k - 1
      BY <3>1, <3>3, <2>5 DEF FoundOk, Whole
    <3> QED  BY <3>2, <3>3, <1>7
  <2> QED  BY <2>1, <2>2, <2>3, <2>4, <2>5, <1>7, <1>10
<1>14. Exact(w, k, new)
  <2> SUFFICES ASSUME NEW i \in 1 .. Len(new), new[i].structured
               PROVE  \E l \in 1 .. k : /\ w[l].kind = "structured"
                                        /\ new[i].identity = IdentityAt(w, l)
                                        /\ HasRecord(new[i].sms, w[l].msg)
    BY DEF Exact
  <2>1. k \in 1 .. k /\ \A l \in 1 .. k - 1 : l \in 1 .. k  BY <1>6
  <2>2. CASE i \in 1 .. Len(out) /\ new[i] = out[i]
    <3>1. PICK l \in 1 .. k - 1 : /\ w[l].kind = "structured"
                                  /\ out[i].identity = IdentityAt(w, l)
                                  /\ HasRecord(out[i].sms, w[l].msg)
      BY <2>2 DEF FoundOk, Exact
    <3> QED  BY <2>1, <2>2, <3>1
  <2>3. CASE i = p /\ new[p] = c  BY <2>1, <2>3, <1>1
  <2>4. CASE /\ i = p /\ p \in 1 .. Len(out) /\ ~out[p].structured
             /\ new[p] = Candidate(c.identity, Joined(out[p].sms, c), c.structured)
    <3>1. c.structured /\ HasRecord(new[p].sms, w[k].msg)  BY <2>4, <1>12
    <3> QED  BY <3>1, <2>1, <2>4, <1>1, <1>11
  <2> QED  BY <2>2, <2>3, <2>4, <1>9, <1>10
<1>15. OwnFields(w, new)
  <2> SUFFICES ASSUME AllLocal(w), NEW i \in 1 .. Len(new)
               PROVE  FieldsOf(w, new[i])
    BY DEF OwnFields
  <2>1. \A j \in 1 .. Len(out) : FieldsOf(w, out[j])  BY DEF FoundOk, OwnFields
  <2>2. w[k].msg \in Subjects(w, IdentityAt(w, k))
    BY <1>1, <1>6 DEF Subjects, IdentityAt
  <2>3. CASE i \in 1 .. Len(out) /\ new[i] = out[i]  BY <2>1, <2>3
  <2>4. CASE i = p /\ new[p] = c
    BY <2>2, <2>4, <1>1 DEF FieldsOf
  <2>5. CASE /\ i = p /\ p \in 1 .. Len(out) /\ ~out[p].structured
             /\ new[p] = Candidate(c.identity, Joined(out[p].sms, c), c.structured)
    <3>1. /\ out[p].identity = new[p].identity
          /\ new[p].sms.from \in {out[p].sms.from, c.sms.from}
          /\ new[p].sms.to \in {out[p].sms.to, c.sms.to}
          /\ new[p].sms.text \in {out[p].sms.text, c.sms.text}
      BY <2>5, <1>12
    <3>2. FieldsOf(w, out[p])  BY <2>1, <2>5
    <3> QED  BY <3>1, <3>2, <2>2, <2>5, <1>1, <1>11 DEF FieldsOf
  <2> QED  BY <2>3, <2>4, <2>5, <1>9, <1>10
<1> QED  BY <1>3, <1>4, <1>8, <1>13, <1>14, <1>15 DEF FoundOk, new, c

\* Whatever the window: the induction over its lines.
LEMMA FoundIsOk ==
  ASSUME NEW w, WindowOk(w)
  PROVE  \A k \in 0 .. Len(w) : FoundOk(w, k, Found(w, k))
<1>1. Len(w) \in Nat  BY DEF WindowOk, LinesOk
<1> DEFINE I == {k \in 0 .. Len(w) : FoundOk(w, k, Found(w, k))}
<1>2. 0 \in I
  <2>1. Found(w, 0) = <<>>  BY FoundMeaning
  <2>2. FoundOk(w, 0, <<>>)
    BY DEF FoundOk, Distinct, Complete, Whole, Exact, OwnFields
  <2> QED  BY <2>1, <2>2, <1>1
<1>3. SUFFICES ASSUME NEW k \in 1 .. Len(w), k - 1 \in I
               PROVE  FoundOk(w, k, Found(w, k))
  <2>1. ASSUME NEW k \in 1 .. Len(w), k - 1 \in I  PROVE k \in I
    <3>1. FoundOk(w, k, Found(w, k))  BY <1>3, <2>1
    <3> QED  BY <3>1, <1>1
  <2>2. \A k \in 0 .. Len(w) : k \in I
    <3> HIDE DEF I
    <3> QED  BY <1>1, <1>2, <2>1, Induction
  <2> QED  BY <2>2
<1>6. k \in 1 .. Len(w)  OBVIOUS
<1>7. FoundOk(w, k - 1, Found(w, k - 1))  BY <1>3
<1>8. Found(w, k) = IF IsEvent(w, k) THEN Absorb(Found(w, k - 1), EventOf(w, k))
                                     ELSE Found(w, k - 1)
  BY <1>6, FoundMeaning
<1>9. CASE IsEvent(w, k)  BY <1>6, <1>7, <1>8, <1>9, FoundStep
<1>10. CASE ~IsEvent(w, k)
  <2> DEFINE out == Found(w, k - 1)
  <2>1. Found(w, k) = out  BY <1>8, <1>10
  <2>2. w[k].kind # "structured"  BY <1>10 DEF IsEvent, IsNotice, IsKind
  <2>3. \A l \in 1 .. k : l \in 1 .. k - 1 \/ l = k  BY <1>1, <1>6
  <2>4. \A l \in 1 .. k - 1 : l \in 1 .. k  BY <1>1, <1>6
  <2>5. FoundOk(w, k - 1, out)  BY <1>7
  <2> HIDE DEF out
  <2>6. Complete(w, k, out)  BY <2>3, <2>5, <1>10 DEF FoundOk, Complete
  <2>7. Whole(w, k, out)  BY <2>2, <2>3, <2>5 DEF FoundOk, Whole
  <2>8. Exact(w, k, out)
    <3> SUFFICES ASSUME NEW i \in 1 .. Len(out), out[i].structured
                 PROVE  \E l \in 1 .. k : /\ w[l].kind = "structured"
                                          /\ out[i].identity = IdentityAt(w, l)
                                          /\ HasRecord(out[i].sms, w[l].msg)
      BY DEF Exact
    <3>1. \E l \in 1 .. k - 1 : /\ w[l].kind = "structured"
                                /\ out[i].identity = IdentityAt(w, l)
                                /\ HasRecord(out[i].sms, w[l].msg)
      BY <2>5 DEF FoundOk, Exact
    <3> QED  BY <3>1, <2>4
  <2>9. FoundOk(w, k, out)  BY <2>5, <2>6, <2>7, <2>8 DEF FoundOk
  <2> QED  BY <2>1, <2>9
<1> QED  BY <1>9, <1>10

\* What the parser returns for a window.
LEMMA ParsedIsOk ==
  ASSUME NEW w, WindowOk(w)
  PROVE  /\ FoundOk(w, Len(w), ParseSmqueueLog(w)) /\ Len(w) \in Nat
         /\ DOMAIN ParseSmqueueLog(w) = 1 .. Len(ParseSmqueueLog(w))
<1>1. Len(w) \in Nat  BY DEF WindowOk, LinesOk
<1>2. FoundOk(w, Len(w), ParseSmqueueLog(w))
  BY <1>1, FoundIsOk, FoundMeaning
<1> DEFINE out == ParseSmqueueLog(w)
<1> HIDE DEF out
<1>3. out \in Seq(Cands)  BY <1>2 DEF FoundOk, out
<1>4. DOMAIN out = 1 .. Len(out)  BY <1>3
<1> QED  BY <1>1, <1>2, <1>4 DEF out

\* ParseSmqueueLog shows each message with a receive event exactly once for each
\* generation, for every log that smqueue can have written and every window of
\* it.
THEOREM OncePerGeneration == Spec => []EveryMessageOnce
<1>1. LogInv => EveryMessageOnce
  <2> SUFFICES ASSUME LogInv, NEW w \in Windows, NEW k \in 1 .. Len(w), IsNotice(w, k)
               PROVE  Cardinality({i \in DOMAIN ParseSmqueueLog(w) :
                         ParseSmqueueLog(w)[i].identity =
                            <<GenerationAt(w, k), Qtag[w[k].msg]>>}) = 1
    BY DEF EveryMessageOnce
  <2>1. WindowOk(w)  BY WindowsOk DEF LogInv, Windows
  <2> DEFINE out == ParseSmqueueLog(w)
             id == <<GenerationAt(w, k), Qtag[w[k].msg]>>
             I == {i \in DOMAIN out : out[i].identity = id}
  <2>2. FoundOk(w, Len(w), out) /\ DOMAIN out = 1 .. Len(out)  BY <2>1, ParsedIsOk
  <2>3. IsEvent(w, k) /\ IdentityAt(w, k) = id  BY DEF IsEvent, IdentityAt
  <2> HIDE DEF out, id
  <2>4. PICK i \in 1 .. Len(out) : out[i].identity = id
    BY <2>2, <2>3 DEF FoundOk, Complete
  <2>5. I = {i}
    <3>1. \A j \in I : j = i  BY <2>2, <2>4 DEF FoundOk, Distinct
    <3>2. i \in I  BY <2>2, <2>4
    <3> HIDE DEF I
    <3> QED  BY <3>1, <3>2
  <2>6. Cardinality(I) = 1
    <3> HIDE DEF I
    <3> QED  BY <2>5, FS_Singleton
  <2> QED  BY <2>6 DEF out, id
<1> QED  BY <1>1, LogInvariant, PTL

\* The structured record of a message is what ParseSmqueueLog shows of it,
\* wherever the record stands.
THEOREM RecordIsShown == Spec => []StructuredIsExact
<1>1. LogInv => StructuredIsExact
  <2> SUFFICES ASSUME LogInv, NEW w \in Windows, NEW k \in 1 .. Len(w),
                      w[k].kind = "structured", NEW i \in DOMAIN ParseSmqueueLog(w),
                      ParseSmqueueLog(w)[i].identity =
                         <<GenerationAt(w, k), Qtag[w[k].msg]>>
               PROVE  HasRecord(ParseSmqueueLog(w)[i].sms, w[k].msg)
    BY DEF StructuredIsExact, HasRecord
  <2>1. WindowOk(w)  BY WindowsOk DEF LogInv, Windows
  <2> DEFINE out == ParseSmqueueLog(w)
  <2>2. FoundOk(w, Len(w), out) /\ DOMAIN out = 1 .. Len(out)  BY <2>1, ParsedIsOk
  <2>3. out[i].identity = IdentityAt(w, k)  BY DEF IdentityAt
  <2> HIDE DEF out
  <2>4. i \in 1 .. Len(out)  BY <2>2 DEF out
  <2>5. out[i].structured  BY <2>2, <2>3, <2>4 DEF FoundOk, Whole
  <2>6. PICK l \in 1 .. Len(w) : /\ w[l].kind = "structured"
                                 /\ out[i].identity = IdentityAt(w, l)
                                 /\ HasRecord(out[i].sms, w[l].msg)
    BY <2>2, <2>4, <2>5 DEF FoundOk, Exact
  <2>7. GenerationAt(w, l) = GenerationAt(w, k) /\ Qtag[w[l].msg] = Qtag[w[k].msg]
    BY <2>3, <2>6 DEF IdentityAt
  <2>8. ~IsRestartLine(w, l) /\ ~IsRestartLine(w, k)
    BY <2>6 DEF IsRestartLine, IsKind
  <2>9. w[l].msg = w[k].msg  BY <2>1, <2>7, <2>8, SameMessage
  <2> QED  BY <2>6, <2>9 DEF out
<1> QED  BY <1>1, LogInvariant, PTL

\* No field that ParseSmqueueLog shows is another message's, as long as the
\* legacy deliveries of the window are local.
THEOREM NoForeignField == Spec => []FieldsAreOwn
<1>1. LogInv => FieldsAreOwn
  <2> SUFFICES ASSUME LogInv, NEW w \in Windows, AllLocal(w),
                      NEW i \in DOMAIN ParseSmqueueLog(w), NEW f \in {"from", "to", "text"}
               PROVE  ParseSmqueueLog(w)[i].sms[f] \in
                         {NoMsg} \cup Subjects(w, ParseSmqueueLog(w)[i].identity)
    BY DEF FieldsAreOwn, AllLocal
  <2>1. WindowOk(w)  BY WindowsOk DEF LogInv, Windows
  <2> DEFINE out == ParseSmqueueLog(w)
  <2>2. FoundOk(w, Len(w), out) /\ DOMAIN out = 1 .. Len(out)  BY <2>1, ParsedIsOk
  <2> HIDE DEF out
  <2>3. i \in 1 .. Len(out)  BY <2>2 DEF out
  <2>4. FieldsOf(w, out[i])  BY <2>2, <2>3 DEF FoundOk, OwnFields
  <2>5. out[i].sms[f] \in {NoMsg} \cup Subjects(w, out[i].identity)
    BY <2>4 DEF FieldsOf
  <2> QED  BY <2>5 DEF out
<1> QED  BY <1>1, LogInvariant, PTL

-----------------------------------------------------------------------------
(* A longer log.                                                            *)

\* What a line means depends only on the lines up to it.
LEMMA EventsStay ==
  ASSUME NEW w \in Seq(Lines), NEW l \in Lines, NEW k \in 1 .. Len(w)
  PROVE  /\ IsEvent(Append(w, l), k) <=> IsEvent(w, k)
         /\ IsEvent(w, k) => EventOf(Append(w, l), k) = EventOf(w, k)
<1> DEFINE v == Append(w, l)
<1>1. Len(w) \in Nat /\ \A j \in 1 .. Len(w) : v[j] = w[j]  BY Appended
<1> HIDE DEF v
<1>2. ASSUME NEW j \in 1 .. k  PROVE v[j] = w[j] /\ j \in 1 .. Len(w)
  BY <1>1
<1>3. ASSUME NEW j \in 1 .. k, NEW kinds  PROVE IsKind(v, j, kinds) <=> IsKind(w, j, kinds)
  BY <1>2 DEF IsKind
<1>4. k \in 1 .. k /\ \A j \in 1 .. k - 1 : j \in 1 .. k  BY <1>1
<1>5. GenerationAt(v, k) = GenerationAt(w, k)
  <2>1. {r \in 1 .. k : IsRestartLine(v, r)} = {r \in 1 .. k : IsRestartLine(w, r)}
    BY <1>3 DEF IsRestartLine
  <2> QED  BY <2>1 DEF GenerationAt
<1>6. Prelude(v, k) = Prelude(w, k)
  <2>1. ASSUME NEW j \in 1 .. k - 1
        PROVE  (\A i \in j .. k - 1 : ~IsKind(v, i, {"deliver"})) <=>
                  (\A i \in j .. k - 1 : ~IsKind(w, i, {"deliver"}))
    <3>1. \A i \in j .. k - 1 : i \in 1 .. k  BY <1>1
    <3> QED  BY <3>1, <1>3
  <2> QED  BY <2>1 DEF Prelude
<1>7. Prelude(w, k) \subseteq 1 .. k  BY <1>4 DEF Prelude
<1>8. Requests(v, k) = Requests(w, k)
  BY <1>3, <1>6, <1>7 DEF Requests
<1>9. RequestsOf(v, k) = RequestsOf(w, k) /\ RequestsOf(w, k) \subseteq 1 .. k - 1
  <2>1. Requests(w, k) \subseteq 1 .. k - 1  BY DEF Requests, Prelude
  <2>2. \A j \in Requests(w, k) : v[j] = w[j]  BY <2>1, <1>2, <1>4
  <2>3. v[k] = w[k]  BY <1>2, <1>4
  <2>4. {j \in Requests(w, k) : v[k].named /\ Qtag[v[j].msg] = Qtag[v[k].msg]} =
        {j \in Requests(w, k) : w[k].named /\ Qtag[w[j].msg] = Qtag[w[k].msg]}
    BY <2>2, <2>3
  <2>5. RequestsOf(v, k) = RequestsOf(w, k)  BY <2>4, <1>8 DEF RequestsOf
  <2> QED  BY <2>1, <2>5 DEF RequestsOf
<1>10. ASSUME NEW r \in 1 .. k - 1
       PROVE  Decoded(v, r, k) = Decoded(w, r, k) /\ Decoded(w, r, k) \subseteq 1 .. k - 1
  <2>1. \A j \in r + 1 .. k - 1 : j \in 1 .. k  BY <1>1
  <2>2. {j \in r + 1 .. k - 1 : IsKind(v, j, Cuts)} =
        {j \in r + 1 .. k - 1 : IsKind(w, j, Cuts)}
    BY <2>1, <1>3
  <2> DEFINE cuts == {j \in r + 1 .. k - 1 : IsKind(w, j, Cuts)}
  <2>3. {j \in r + 1 .. k - 1 : /\ IsKind(v, j, {"text"}) /\ \A c \in cuts : j < c} =
        {j \in r + 1 .. k - 1 : /\ IsKind(w, j, {"text"}) /\ \A c \in cuts : j < c}
    <3> HIDE DEF cuts
    <3> QED  BY <2>1, <1>3
  <2>4. Decoded(v, r, k) = Decoded(w, r, k)  BY <2>2, <2>3 DEF Decoded
  <2>5. Decoded(w, r, k) \subseteq r + 1 .. k - 1  BY DEF Decoded
  <2> QED  BY <2>4, <2>5, <1>1
<1>11. v[k] = w[k]  BY <1>2, <1>4
<1>12. IsNotice(v, k) <=> IsNotice(w, k)  BY <1>3, <1>4 DEF IsNotice
<1>13. IsDelivered(v, k) <=> IsDelivered(w, k)  BY <1>3, <1>4, <1>9 DEF IsDelivered
<1>14. Notice(v, k) = Notice(w, k)  BY <1>5, <1>11 DEF Notice
<1>15. ASSUME IsDelivered(w, k)  PROVE Delivered(v, k) = Delivered(w, k)
  <2> DEFINE r == CHOOSE j \in RequestsOf(w, k) : TRUE
  <2>1. RequestsOf(w, k) # {}
    <3>1. Cardinality(RequestsOf(w, k)) = 1  BY <1>15 DEF IsDelivered
    <3> QED  BY <3>1, FS_EmptySet
  <2>2. r \in 1 .. k - 1  BY <2>1, <1>9
  <2>3. r = CHOOSE j \in RequestsOf(v, k) : TRUE  BY <1>9
  <2> HIDE DEF r
  <2> DEFINE t == Decoded(w, r, k)
             from == IF t = {} THEN r ELSE CHOOSE j \in t : TRUE
  <2>4. t = Decoded(v, r, k) /\ t \subseteq 1 .. k - 1  BY <2>2, <1>10
  <2>5. from \in 1 .. k - 1  BY <2>2, <2>4
  <2>6. v[r] = w[r] /\ v[from] = w[from]  BY <2>2, <2>5, <1>2, <1>4
  <2>7. Delivered(w, k) =
           Candidate(ScopedIdentity(GenerationAt(w, k), Qtag[w[r].msg]),
                  ParseDeliverInto(w[k].msg, from, IF t = {} THEN NoMsg ELSE w[from].msg),
                  FALSE)
    BY DEF Delivered, r
  <2>8. Delivered(v, k) =
           Candidate(ScopedIdentity(GenerationAt(v, k), Qtag[v[r].msg]),
                  ParseDeliverInto(v[k].msg, from, IF t = {} THEN NoMsg ELSE v[from].msg),
                  FALSE)
    <3> DEFINE D(x, q) ==
                 LET u == Decoded(x, q, k)
                     first == IF u = {} THEN q ELSE CHOOSE j \in u : TRUE
                 IN  Candidate(ScopedIdentity(GenerationAt(x, k), Qtag[x[q].msg]),
                               ParseDeliverInto(x[k].msg, first,
                                        IF u = {} THEN NoMsg ELSE x[first].msg), FALSE)
    <3>1. Delivered(v, k) = D(v, CHOOSE j \in RequestsOf(v, k) : TRUE)
      BY DEF Delivered
    <3>2. Delivered(v, k) = D(v, r)
      <4> HIDE DEF D
      <4> QED  BY <3>1, <2>3
    <3> QED  BY <3>2, <2>4
  <2> HIDE DEF t, from
  <2> QED  BY <2>6, <2>7, <2>8, <1>5, <1>11
<1> QED  BY <1>12, <1>13, <1>14, <1>15 DEF IsEvent, EventOf, v

\* So the messages found up to an old line stay the same.
LEMMA FoundStays ==
  ASSUME NEW w, WindowOk(w), NEW l \in Lines, WindowOk(Append(w, l))
  PROVE  \A k \in 0 .. Len(w) : Found(Append(w, l), k) = Found(w, k)
<1> DEFINE v == Append(w, l)
           I == {k \in 0 .. Len(w) : Found(v, k) = Found(w, k)}
<1>1. w \in Seq(Lines) /\ Len(w) \in Nat /\ Len(v) = Len(w) + 1
  BY Appended DEF WindowOk, LinesOk
<1>2. 0 \in I
  <2>1. Found(v, 0) = <<>> /\ Found(w, 0) = <<>>  BY FoundMeaning
  <2> QED  BY <2>1, <1>1
<1> HIDE DEF v
<1>3. SUFFICES ASSUME NEW k \in 1 .. Len(w), k - 1 \in I
               PROVE  Found(v, k) = Found(w, k)
  <2>1. ASSUME NEW k \in 1 .. Len(w), k - 1 \in I  PROVE k \in I
    <3>1. Found(v, k) = Found(w, k)  BY <1>3, <2>1
    <3> QED  BY <3>1, <1>1
  <2>2. \A k \in 0 .. Len(w) : k \in I
    <3> HIDE DEF I
    <3> QED  BY <1>1, <1>2, <2>1, Induction
  <2> QED  BY <2>2 DEF v
<1>6. k \in 1 .. Len(w) /\ k \in 1 .. Len(v)  BY <1>1
<1>7. Found(v, k - 1) = Found(w, k - 1)  BY <1>3
<1>8. Found(w, k) = IF IsEvent(w, k) THEN Absorb(Found(w, k - 1), EventOf(w, k))
                                     ELSE Found(w, k - 1)
  BY <1>6, FoundMeaning
<1>9. Found(v, k) = IF IsEvent(v, k) THEN Absorb(Found(v, k - 1), EventOf(v, k))
                                     ELSE Found(v, k - 1)
  BY <1>6, FoundMeaning DEF v
<1>10. /\ IsEvent(v, k) <=> IsEvent(w, k)
       /\ IsEvent(w, k) => EventOf(v, k) = EventOf(w, k)
  BY <1>1, <1>6, EventsStay DEF v
<1> QED  BY <1>7, <1>8, <1>9, <1>10

\* What a later read may change of an earlier one.
Observed(old, new) ==
    /\ Len(old) <= Len(new)
    /\ \A i \in DOMAIN old :
          /\ new[i].identity = old[i].identity
          /\ new[i].sms.time = old[i].sms.time
          /\ old[i].sms.text # NoMsg =>
                \/ new[i].sms.text = old[i].sms.text
                \/ new[i].structured /\ ~old[i].structured

\* One candidate changes no more than that.
LEMMA AbsorbObserved ==
  ASSUME NEW out \in Seq(Cands), NEW c \in Cands, Distinct(out)
  PROVE  Observed(out, Absorb(out, c))
<1> DEFINE new == Absorb(out, c)
<1>1. PICK p \in 1 .. Len(new) : Placed(out, c, new, p)  BY AbsorbPlace
<1>2. new \in Seq(Cands)  BY AbsorbType
<1> HIDE DEF new
<1>3. DOMAIN out = 1 .. Len(out) /\ Len(out) \in Nat /\ Len(new) \in Nat  BY <1>2
<1>4. Len(out) <= Len(new) /\ \A j \in 1 .. Len(out) : new[j].identity = out[j].identity
  BY <1>1 DEF Placed
<1>5. ASSUME NEW i \in 1 .. Len(out)
      PROVE  /\ new[i].sms.time = out[i].sms.time
             /\ out[i].sms.text # NoMsg =>
                   \/ new[i].sms.text = out[i].sms.text
                   \/ new[i].structured /\ ~out[i].structured
  <2>1. CASE new[i] = out[i]  BY <2>1
  <2>2. CASE /\ i = p /\ ~out[p].structured
             /\ new[p] = Candidate(c.identity, Joined(out[p].sms, c), c.structured)
    <3>1. out[p] \in Cands  BY <2>2
    <3>2. out[p].sms \in Fields  BY <3>1 DEF Cands
    <3>3. /\ Joined(out[p].sms, c).time = out[p].sms.time
          /\ ~c.structured => Joined(out[p].sms, c).text =
                IF out[p].sms.text = NoMsg THEN c.sms.text ELSE out[p].sms.text
      BY <3>2, JoinedMeaning
    <3>4. new[p].sms = Joined(out[p].sms, c) /\ new[p].structured = c.structured
      BY <2>2 DEF Candidate
    <3> QED  BY <2>2, <3>3, <3>4
  <2>3. \/ new[i] = out[i]
        \/ /\ i = p /\ ~out[p].structured
           /\ new[p] = Candidate(c.identity, Joined(out[p].sms, c), c.structured)
    <3>1. i \in 1 .. Len(new)  BY <1>3, <1>4
    <3>2. i # p => new[i] = out[i]  BY <3>1, <1>1 DEF Placed
    <3>3. i # Len(out) + 1  BY <1>3
    <3> QED  BY <3>2, <3>3, <1>1 DEF Placed
  <2> QED  BY <2>1, <2>2, <2>3
<1>6. Observed(out, new)  BY <1>3, <1>4, <1>5 DEF Observed
<1> QED  BY <1>6 DEF new

\* Nothing that a page of messages showed is reordered, removed or renamed by a
\* line that smqueue writes later, and a value changes only to the structured
\* record's.
THEOREM ObservationsAreStable == Spec => StableObservations
<1>1. LogInv /\ LogInv' /\ [Next]_vars =>
         Observed(ParseSmqueueLog(log), ParseSmqueueLog(log)')
  <2> SUFFICES ASSUME LogInv, LogInv', [Next]_vars
               PROVE  Observed(ParseSmqueueLog(log), ParseSmqueueLog(log'))
    BY DEF ParseSmqueueLog, Candidates, Events, Merged, EventAt, Absorb
  <2>1. WindowOk(log) /\ log \in Seq(Lines)  BY DEF LogInv, WindowOk, LinesOk
  <2>2. WindowOk(log')
    BY DEF LogInv, WindowOk, LinesOk, OneName, ThreadOk, LastThread, IsThread,
           IsRestartLine, IsKind
  <2> DEFINE out == ParseSmqueueLog(log)
  <2>3. FoundOk(log, Len(log), out)  BY <2>1, ParsedIsOk
  <2>4. out \in Seq(Cands) /\ Distinct(out)  BY <2>3 DEF FoundOk
  <2>5. Observed(out, out)
    <3> HIDE DEF out
    <3> QED  BY <2>4 DEF Observed
  <2>6. CASE log' = log  BY <2>5, <2>6
  <2>7. ASSUME NEW l \in Lines, log' = Append(log, l)
        PROVE  Observed(out, ParseSmqueueLog(log'))
    <3> DEFINE n == Len(log) + 1
    <3>1. Len(log) \in Nat /\ Len(log') = n  BY <2>1, <2>7, Appended
    <3>2. n \in 1 .. Len(log') /\ n - 1 = Len(log) /\ Len(log) \in 0 .. Len(log)
      BY <3>1
    <3>3. ParseSmqueueLog(log') = Found(log', n)  BY <2>2, <3>1, FoundMeaning
    <3>4. out = Found(log, Len(log))  BY <2>1, FoundMeaning
    <3>5. Found(log', Len(log)) = Found(log, Len(log))
      BY <2>1, <2>2, <2>7, <3>2, FoundStays
    <3>6. Found(log', n) = IF IsEvent(log', n)
                           THEN Absorb(Found(log', n - 1), EventOf(log', n))
                           ELSE Found(log', n - 1)
      BY <2>2, <3>2, FoundMeaning
    <3> HIDE DEF n, out
    <3>7. CASE IsEvent(log', n)
      <4>1. EventOf(log', n) \in Cands  BY <2>2, <3>2, <3>7, EventFields
      <4>2. ParseSmqueueLog(log') = Absorb(out, EventOf(log', n))
        BY <3>2, <3>3, <3>4, <3>5, <3>6, <3>7
      <4> QED  BY <4>1, <4>2, <2>4, AbsorbObserved
    <3>8. CASE ~IsEvent(log', n)
      BY <3>2, <3>3, <3>4, <3>5, <3>6, <3>8, <2>5
    <3> QED  BY <3>7, <3>8
  <2>8. log' = log \/ \E l \in Lines : log' = Append(log, l)
    <3>1. ASSUME NEW kind \in Kinds, NEW m \in Messages \cup {NoMsg}, NEW named \in BOOLEAN
          PROVE  Line(kind, m, named) \in Lines
      BY DEF Line, Lines
    <3>2. CASE UNCHANGED vars  BY <3>2 DEF vars
    <3>3. CASE \E m \in Messages : \E kind \in {"got", "structured", "keyed", "text"} :
                  Receive(m, kind)
      BY <3>1, <3>3 DEF Receive, WriteLine, Kinds
    <3>4. CASE \E m \in Messages : Request(m)
      BY <3>1, <3>4 DEF Request, WriteLine, Kinds
    <3>5. CASE Decode \/ \E named \in BOOLEAN : Deliver(named)
      <4>1. delivery.msg \in Messages
        BY <3>5 DEF Decode, Deliver, LogInv, DeliveryOk
      <4> QED  BY <3>1, <3>5, <4>1 DEF Decode, Deliver, WriteLine, Kinds
    <3>6. CASE \E kind \in {"restart", "banner"} : Restart(kind)
      BY <3>1, <3>6 DEF Restart, WriteLine, Kinds
    <3> QED  BY <3>2, <3>3, <3>4, <3>5, <3>6 DEF Next
  <2> QED  BY <2>6, <2>7, <2>8
<1>2. Observed(ParseSmqueueLog(log), ParseSmqueueLog(log)') =>
         LET old == ParseSmqueueLog(log)
             new == ParseSmqueueLog(log')
         IN  /\ Len(old) <= Len(new)
             /\ \A i \in DOMAIN old :
                   /\ new[i].identity = old[i].identity
                   /\ new[i].sms.time = old[i].sms.time
                   /\ old[i].sms.text # NoMsg =>
                         \/ new[i].sms.text = old[i].sms.text
                         \/ new[i].structured /\ ~old[i].structured
  BY DEF Observed
<1> QED  BY <1>1, <1>2, LogInvariant, PTL DEF Spec, StableObservations
=============================================================================
