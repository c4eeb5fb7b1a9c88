------------------------------- MODULE SmsLog -------------------------------
(***************************************************************************)
(* The SMS observation window: the collector that appends to smqueue.log   *)
(* and rotates it (src/internal/logsink/sink.go), the launch boundary that *)
(* Manager keeps in it and the bounded read of the current session         *)
(* (src/internal/gsm/sms_session.go).                                      *)
(*                                                                         *)
(* A file is a sequence of units: the body of line k is the unit k and a   *)
(* newline is NL, so a cut may fall inside a line.  The collector, the     *)
(* manager and a reader interleave at their file system calls; the reader  *)
(* holds smsMu throughout.  Files are append-only and a reader's open file *)
(* outlives its name, so what follows the two opens is one step.           *)
(***************************************************************************)
EXTENDS Integers, FiniteSets, Sequences, SequencesExt

CONSTANTS
    Inodes,       \* inode numbers
    NoFile,       \* no such name
    ReuseInodes,  \* whether the file system gives a freed number out again
    MaxLines,     \* bound on the number of log lines received
    FileLimit,    \* maxLogBytes of the collector, in units
    MaxBytes,     \* MaxHistoryBytes of a read, in units
    MaxSessions   \* bound on the number of sessions begun

NL == 0
AnchorUnits == 2      \* the 256 bytes before a mark

ASSUME SmsLogAssumption ==
    /\ NoFile \notin Inodes
    /\ ReuseInodes \in BOOLEAN
    /\ MaxLines \in Nat /\ MaxSessions \in Nat
    /\ FileLimit \in Nat \ {0, 1} /\ MaxBytes \in Nat \ {0}

VARIABLES
    dir,        \* the files named smqueue.log and smqueue.log.1
    data,       \* the content of each inode
    used,       \* inodes given out so far
    sink,       \* the collector's control point
    lines,      \* lines received so far; the last is being appended
    mark,       \* the boundary beginSMSSession has taken but not yet published
    session,    \* m.smsSession
    sessions,   \* sessions begun so far
    reader,     \* control point, attempt and open files of ReadCurrentSMS
    answer,     \* what it returns
    history,    \* every unit ever appended (observer)
    asked,      \* Len(history) when the read began (observer)
    quiet       \* the collector did not step during this read (observer)

fileVars    == <<dir, data, used>>
sinkVars    == <<sink, lines, history>>
sessionVars == <<mark, session, sessions>>
readerVars  == <<reader, answer, asked>>
vars == <<fileVars, sinkVars, sessionVars, readerVars, quiet>>

-----------------------------------------------------------------------------
(* Cursors.                                                                 *)

NoCursor == [inode |-> NoFile, offset |-> 0, anchor |-> <<>>]

\* smsMark: the end of a file and the units before it.
Mark(i) ==
    LET n == Len(data[i])
    IN  [inode |-> i, offset |-> n,
         anchor |-> SubSeq(data[i], IF n > AnchorUnits THEN n - AnchorUnits + 1
                                                       ELSE 1, n)]

\* smsCursor.valid: the same inode, long enough, with the anchor in place.
Valid(cursor, i) ==
    /\ i = cursor.inode
    /\ Len(data[i]) >= cursor.offset
    /\ SubSeq(data[i], cursor.offset - Len(cursor.anchor) + 1, cursor.offset)
         = cursor.anchor

\* The file with this name, created when there is none; a number is free once
\* its file has no name and no reader has it open.
Opened == {reader.got[k].inode : k \in DOMAIN reader.got}
Create(i) ==
    /\ i \notin {dir.current, dir.backup} \cup Opened
    /\ ReuseInodes \/ i \notin used
    /\ dir' = [dir EXCEPT !.current = i]
    /\ data' = [data EXCEPT ![i] = <<>>]
    /\ used' = used \cup {i}
OpenOrCreate ==
    IF dir.current # NoFile THEN UNCHANGED fileVars
                            ELSE \E i \in Inodes : Create(i)

-----------------------------------------------------------------------------
(* The collector: receive, appendMessage and appendLog.                     *)

\* The reader is not alone.
Disturb == quiet' = (quiet /\ reader.pc = "idle")

\* A datagram arrives and the size of the current file is looked at.
Receive ==
    /\ sink = "idle" /\ lines < MaxLines
    /\ lines' = lines + 1
    /\ sink' = IF dir.current # NoFile /\ Len(data[dir.current]) + 2 > FileLimit
                 THEN "remove" ELSE "open"
    /\ Disturb
    /\ UNCHANGED <<fileVars, history, sessionVars, readerVars>>

RemoveBackup ==
    /\ sink = "remove"
    /\ dir' = [dir EXCEPT !.backup = NoFile]
    /\ sink' = "rename"
    /\ Disturb
    /\ UNCHANGED <<data, used, lines, history, sessionVars, readerVars>>

Rename ==
    /\ sink = "rename"
    /\ dir' = [backup |-> dir.current, current |-> NoFile]
    /\ sink' = "open"
    /\ Disturb
    /\ UNCHANGED <<data, used, lines, history, sessionVars, readerVars>>

OpenLog ==
    /\ sink = "open"
    /\ OpenOrCreate
    /\ sink' = "body"
    /\ Disturb
    /\ UNCHANGED <<lines, history, sessionVars, readerVars>>

\* A write becomes visible piece by piece.
Emit(unit) ==
    /\ data' = [data EXCEPT ![dir.current] = @ \o <<unit>>]
    /\ history' = history \o <<unit>>
    /\ Disturb
    /\ UNCHANGED <<dir, used, lines, sessionVars, readerVars>>
WriteBody == sink = "body" /\ sink' = "newline" /\ Emit(lines)
WriteNewline == sink = "newline" /\ sink' = "idle" /\ Emit(NL)

\* An error of any of these calls: the rest of the line is dropped.
AppendFails ==
    /\ sink # "idle"
    /\ sink' = "idle"
    /\ Disturb
    /\ UNCHANGED <<fileVars, lines, history, sessionVars, readerVars>>

SinkNext ==
    \/ Receive \/ RemoveBackup \/ Rename \/ OpenLog \/ WriteBody
    \/ WriteNewline \/ AppendFails

-----------------------------------------------------------------------------
(* The session, as Start and Stop drive it.                                 *)

NoSession ==
    [start |-> NoCursor, end |-> NoCursor, state |-> "none", ended |-> FALSE,
     from |-> 0, upto |-> 0]

smsMuFree == reader.pc = "idle"

\* beginSMSSession opens the log, creating it if need be, and marks its end ...
MarkStart ==
    /\ session = NoSession /\ mark = NoSession
    /\ sessions < MaxSessions
    /\ OpenOrCreate
    /\ mark' = [NoSession EXCEPT !.start = Mark(dir.current)', !.from = Len(history)]
    /\ sessions' = sessions + 1
    /\ UNCHANGED <<sinkVars, session, readerVars, quiet>>

\* ... and publishes the boundary.
BeginSession ==
    /\ mark # NoSession /\ smsMuFree
    /\ session' = [mark EXCEPT !.state = "starting"]
    /\ mark' = NoSession
    /\ UNCHANGED <<fileVars, sinkVars, sessions, readerVars, quiet>>

CommitSession ==
    /\ session.state = "starting" /\ smsMuFree
    /\ session' = [session EXCEPT !.state = "running"]
    /\ UNCHANGED <<fileVars, sinkVars, mark, sessions, readerVars, quiet>>

\* Stop: the window is frozen at the end of the current file, if there is one.
EndSession ==
    /\ session.state \in {"running", "boundary_lost"} /\ ~session.ended
    /\ smsMuFree
    /\ LET ended == [session EXCEPT !.ended = TRUE, !.upto = Len(history)]
       IN  session' =
             IF session.state = "boundary_lost" THEN ended
             ELSE IF dir.current = NoFile
                    THEN [ended EXCEPT !.state = "boundary_lost"]
             ELSE [ended EXCEPT !.state = "stopped", !.end = Mark(dir.current)]
    /\ UNCHANGED <<fileVars, sinkVars, mark, sessions, readerVars, quiet>>

\* A failed attempt, or the next accepted one.
ClearSession ==
    /\ session # NoSession /\ smsMuFree
    /\ session' = NoSession
    /\ UNCHANGED <<fileVars, sinkVars, mark, sessions, readerVars, quiet>>

SessionNext ==
    MarkStart \/ BeginSession \/ CommitSession \/ EndSession \/ ClearSession

-----------------------------------------------------------------------------
(* ReadCurrentSMS.                                                          *)

NoAnswer == [kind |-> "none", text |-> <<>>, truncated |-> FALSE]
IdleReader == [pc |-> "idle", attempt |-> 1, got |-> <<>>]

\* Without a session, or with a lost boundary, the answer is empty at once.
ReadCall ==
    /\ reader.pc = "idle"
    /\ IF session.state \in {"none", "boundary_lost"}
         THEN /\ reader' = [reader EXCEPT !.pc = "done"]
              /\ answer' = [NoAnswer EXCEPT !.kind = "empty"]
         ELSE reader' = [reader EXCEPT !.pc = "backup"] /\ UNCHANGED answer
    /\ asked' = Len(history)
    /\ UNCHANGED <<fileVars, sinkVars, sessionVars, quiet>>

\* readSMSSpanOnce opens one of the two names, skipping a missing one, and
\* takes its size.
OpenFile(i) ==
    IF i = NoFile THEN reader.got
    ELSE reader.got \o <<[inode |-> i, size |-> Len(data[i])]>>

OpenBackup ==
    /\ reader.pc = "backup"
    /\ reader' = [reader EXCEPT !.pc = "current", !.got = OpenFile(dir.backup)]
    /\ UNCHANGED <<fileVars, sinkVars, sessionVars, answer, asked, quiet>>

OpenCurrent ==
    /\ reader.pc = "current"
    /\ reader' = [reader EXCEPT !.pc = "span", !.got = OpenFile(dir.current)]
    /\ UNCHANGED <<fileVars, sinkVars, sessionVars, answer, asked, quiet>>

IsNL(unit) == unit = NL

\* The places of the first and of the last newline, or 0.
FirstNL(text) == SelectInSeq(text, IsNL)
LastNL(text) == SelectLastInSeq(text, IsNL)

\* A text without its first line, and without an unfinished last one.
AfterFirstNL(text) ==
    IF FirstNL(text) = 0 THEN <<>> ELSE SubSeq(text, FirstNL(text) + 1, Len(text))
UpToLastNL(text) == SubSeq(text, 1, LastNL(text))

\* The index of the last file from k on in which the cursor is valid, or 0.
Find(cursor, k) ==
    LET hits == {j \in k .. Len(reader.got) : Valid(cursor, reader.got[j].inode)}
    IN  IF hits = {} THEN 0 ELSE CHOOSE j \in hits : \A h \in hits : h <= j

\* Mutant of Segment: the launch boundary's offset is forgotten.
SegmentFromTop(k, first, last) ==
    SubSeq(data[reader.got[k].inode], 1,
           IF k = last /\ session.end # NoCursor THEN session.end.offset
                                                 ELSE reader.got[k].size)

\* The units of the k-th open file that belong to the span.
Segment(k, first, last) ==
    SubSeq(data[reader.got[k].inode],
           IF k = first THEN session.start.offset + 1 ELSE 1,
           IF k = last /\ session.end # NoCursor THEN session.end.offset
                                                 ELSE reader.got[k].size)

\* The start of the session ends in the middle of a line.
StartsTorn(s) == s.start.anchor # <<>> /\ ~IsNL(Last(s.start.anchor))

\* Mutant of CutInLine: only a torn start of the session is considered.
CutInLineAtStart(whole, skip) == skip = 0 /\ StartsTorn(session)

\* The text begins in the middle of a line, at the launch or at the budget.
CutInLine(whole, skip) ==
    IF skip > 0 THEN ~IsNL(whole[skip]) ELSE StartsTorn(session)

\* readSMSSpanOnce after the opens.
Span ==
    LET first == Find(session.start, 1)
        last  == IF session.end = NoCursor THEN Len(reader.got)
                                           ELSE Find(session.end, first)
        whole == Segment(first, first, last)
                   \o (IF last > first THEN Segment(last, first, last) ELSE <<>>)
        skip  == IF Len(whole) > MaxBytes THEN Len(whole) - MaxBytes ELSE 0
        text  == SubSeq(whole, skip + 1, Len(whole))
    IN  IF \/ first = 0 \/ last < first
           \/ session.end # NoCursor /\ first = last
                /\ session.end.offset < session.start.offset
           \/ last > first /\ reader.got[first].inode = reader.got[last].inode
        THEN [kind |-> "lost", text |-> <<>>, truncated |-> TRUE]
        ELSE [kind |-> "ok", truncated |-> skip > 0,
              text |-> UpToLastNL(IF CutInLine(whole, skip) THEN AfterFirstNL(text)
                                                            ELSE text)]

\* Mutant of ReadSpan: the first miss is final.
ReadSpanOnce ==
    /\ reader.pc = "span"
    /\ answer' = Span
    /\ session' = IF Span.kind = "lost"
                    THEN [session EXCEPT !.state = "boundary_lost"]
                    ELSE session
    /\ reader' = [IdleReader EXCEPT !.pc = "done"]
    /\ UNCHANGED <<fileVars, sinkVars, mark, sessions, asked, quiet>>

\* A missing boundary is looked for once more before the session loses it.
ReadSpan ==
    /\ reader.pc = "span"
    /\ IF Span.kind = "lost" /\ reader.attempt = 1
         THEN /\ reader' = [pc |-> "backup", attempt |-> 2, got |-> <<>>]
              /\ UNCHANGED <<session, answer>>
         ELSE /\ answer' = Span
              /\ session' = IF Span.kind = "lost"
                              THEN [session EXCEPT !.state = "boundary_lost"]
                              ELSE session
              /\ reader' = [IdleReader EXCEPT !.pc = "done"]
    /\ UNCHANGED <<fileVars, sinkVars, mark, sessions, asked, quiet>>

ReadReturn ==
    /\ reader.pc = "done"
    /\ reader' = IdleReader
    /\ answer' = NoAnswer
    /\ asked' = 0
    /\ quiet' = TRUE
    /\ UNCHANGED <<fileVars, sinkVars, sessionVars>>

ReaderNext == ReadCall \/ OpenBackup \/ OpenCurrent \/ ReadSpan \/ ReadReturn

-----------------------------------------------------------------------------

Init ==
    /\ dir = [current |-> NoFile, backup |-> NoFile]
    /\ data = [i \in Inodes |-> <<>>] /\ used = {}
    /\ sink = "idle" /\ lines = 0 /\ history = <<>>
    /\ mark = NoSession /\ session = NoSession /\ sessions = 0
    /\ reader = IdleReader /\ answer = NoAnswer /\ asked = 0
    /\ quiet = TRUE

Next == SinkNext \/ SessionNext \/ ReaderNext

Spec == Init /\ [][Next]_vars

-----------------------------------------------------------------------------
(* Properties.                                                              *)

\* The complete lines of the session in the first n units of the history.
Reference(n) ==
    LET text == SubSeq(history, session.from + 1, n)
    IN  UpToLastNL(IF StartsTorn(session) THEN AfterFirstNL(text) ELSE text)

\* The lengths of the history at which the read may be placed.
Moments ==
    IF session.ended THEN {session.upto} ELSE asked .. Len(history)

\* The last lines of a text, whole ones only.
IsTail(tail, text) ==
    LET before == Len(text) - Len(tail)
    IN  IsSuffix(tail, text) /\ (before > 0 => IsNL(text[before]))

Exact ==
    \E n \in Moments :
        /\ IsTail(answer.text, Reference(n))
        /\ ~answer.truncated => answer.text = Reference(n)

\* What docs/API.md promises of ReadCurrentSMS: an answer that does not say
\* boundary_lost holds the complete lines of the session as of one moment of
\* the read, all of them unless it says truncated.
ReadIsExact == answer.kind = "ok" => Exact

\* The same, for a read during which the collector did nothing.
QuietReadIsExact == quiet /\ answer.kind = "ok" => Exact

\* "Never another log's history": whatever the collector does meanwhile, an
\* answer only holds complete lines whose bodies were appended after the
\* launch boundary and, once the session has ended, before the stop.
OwnLinesOnly ==
    answer.kind = "ok" =>
        /\ answer.text # <<>> => IsNL(Last(answer.text))
        /\ \A k \in DOMAIN answer.text :
              IsNL(answer.text[k]) \/
              \E h \in session.from + 1 ..
                        (IF session.ended THEN session.upto ELSE Len(history)) :
                  history[h] = answer.text[k]

\* The resampling in readSMSSpanUsing: a read gives the session up for good
\* only when the file that holds the launch boundary has been removed, never
\* because a rotation fell between its two opens.
LostMeansGone ==
    answer.kind = "lost" =>
        session.start.inode \notin {dir.current, dir.backup}
=============================================================================
