----------------------------- MODULE ProcessLog -----------------------------
(***************************************************************************)
(* The OpenBTS log: logsink.Writer, which appends a child's output to a    *)
(* file of bounded size with one backup, under gsm.processLog, which finds *)
(* the marker of readiness in the same output.  A child writes chunks of   *)
(* any size; a file operation may fail and the server may be killed at any *)
(* of them; every start opens the log again.  The log may be one that an   *)
(* older, unbounded writer left, with its backup.                          *)
(*                                                                         *)
(* A file is the interval of the bytes it holds among all bytes that ever  *)
(* reached the log; [lo, lo) is an empty or missing file.                  *)
(***************************************************************************)
EXTENDS Naturals, Sequences, SequencesExt

CONSTANTS
    LogLimit,     \* maxLogBytes
    Marker,       \* "system ready", as a sequence of letters
    Letters,      \* letters of the output
    MaxChunk,     \* bound on the length of a chunk
    MaxBytes,     \* bound on all that reaches the log
    MaxLegacy     \* bound on the size of each file left by an unbounded writer

ASSUME LogAssumption ==
    /\ LogLimit \in Nat \ {0}
    /\ Marker \in Seq(Letters) /\ Len(Marker) > 0
    /\ MaxChunk \in Nat /\ MaxBytes \in Nat /\ MaxLegacy \in Nat

VARIABLES
    current, backup,   \* the log and its backup
    writer,            \* the Writer and the Write that is going on
    ready,             \* processLog: tail and seen
    output,            \* all that this child has written (observer)
    cutOff             \* a rotation was ever cut off (observer)

logVars == <<current, backup, writer, ready, output, cutOff>>

Size(file) == file.hi - file.lo
Least(m, n) == IF m < n THEN m ELSE n

\* A Write of data, written of which are done; step is the next file operation.
\* After an error the child's pipe is closed, and data is what was not written.
Writing(data, written, step) == [step |-> step, data |-> data, written |-> written]
Quiet == Writing(<<>>, 0, "idle")
Broken(lost) == Writing(lost, 0, "broken")
ClosedLog == Writing(<<>>, 0, "closed")
AtRest == writer.step \in {"idle", "broken"}

\* The piece that the next appendLog gets.
Piece == Least(LogLimit, Len(writer.data) - writer.written)

-----------------------------------------------------------------------------
(* logsink.Writer.                                                          *)

\* capExistingLog: the end of an oversize file, by way of a temporary one.
Capped(file) == [file EXCEPT !.lo = file.hi - Least(Size(file), LogLimit)]

\* NewWriter and newProcessLog, for a new child.
OpenLog ==
    /\ writer = ClosedLog
    /\ current' = Capped(current) /\ backup' = Capped(backup)
    /\ writer' = Quiet
    /\ ready' = [tail |-> <<>>, seen |-> FALSE]
    /\ output' = <<>>
    /\ UNCHANGED cutOff

\* NewWriter fails, or the server is killed, before or after either file is
\* capped: the start fails and there is no writer.
FailedOpen ==
    /\ writer = ClosedLog
    /\ \/ UNCHANGED <<current, backup>>
       \/ current' = Capped(current) /\ backup' \in {backup, Capped(backup)}
    /\ UNCHANGED <<writer, ready, output, cutOff>>

\* The child writes a chunk: processLog.Write calls Writer.Write.
WriteChunk(data) ==
    /\ writer = Quiet
    /\ current.hi + Len(data) <= MaxBytes
    /\ writer' = Writing(data, 0, "append")
    /\ UNCHANGED <<current, backup, ready, output, cutOff>>

\* Mutant of Overflows: the piece itself is not counted.
OverflowsLate == Size(current) > LogLimit

Overflows == Size(current) + Piece > LogLimit

\* appendLog: the backup is removed, the file becomes the backup.
RemoveBackup ==
    /\ writer.step = "append" /\ Overflows
    /\ backup' = [lo |-> current.lo, hi |-> current.lo]
    /\ writer' = [writer EXCEPT !.step = "rename"]
    /\ UNCHANGED <<current, ready, output, cutOff>>

RenameCurrent ==
    /\ writer.step = "rename"
    /\ backup' = current
    /\ current' = [lo |-> current.hi, hi |-> current.hi]
    /\ writer' = [writer EXCEPT !.step = "put"]
    /\ UNCHANGED <<ready, output, cutOff>>

HasWord(text, word) ==
    \E k \in 1 .. Len(text) : IsPrefix(word, SubSeq(text, k, Len(text)))

\* Mutant of Kept: a letter less.
KeptShort(text) ==
    IF Len(text) >= Len(Marker)
    THEN SubSeq(text, Len(text) - Len(Marker) + 3, Len(text)) ELSE text

\* What processLog keeps of a text without the marker.
Kept(text) ==
    IF Len(text) >= Len(Marker)
    THEN SubSeq(text, Len(text) - Len(Marker) + 2, Len(text)) ELSE text

\* processLog after a search of the text.
Search(text) ==
    CASE ready.seen -> ready
      [] ~ready.seen /\ HasWord(text, Marker) -> [ready EXCEPT !.seen = TRUE]
      [] OTHER -> [ready EXCEPT !.tail = Kept(text)]

\* Writer.Write returns n, and processLog looks at what was written; the rest
\* of the chunk, if any, is lost.
Return(n) ==
    /\ ready' = Search(ready.tail \o SubSeq(writer.data, 1, n))
    /\ output' = output \o writer.data
    /\ writer' = IF n = Len(writer.data) THEN Quiet
                 ELSE Broken(SubSeq(writer.data, n + 1, Len(writer.data)))

\* The first n bytes of the piece reach the file.
Put(n) ==
    /\ n > 0 => writer.step = "put" \/ (writer.step = "append" /\ ~Overflows)
    /\ current' = [current EXCEPT !.hi = @ + n]
    /\ UNCHANGED backup

\* appendLog: the piece is appended; the loop goes on or ends.
AppendPiece ==
    LET done == writer.written + Piece
    IN  /\ \/ writer.step = "put"
           \/ writer.step = "append" /\ ~Overflows
        /\ Put(Piece)
        /\ IF done = Len(writer.data)
           THEN Return(done)
           ELSE /\ writer' = Writing(writer.data, done, "append")
                /\ UNCHANGED <<ready, output>>
        /\ UNCHANGED cutOff

\* A file operation fails: the write after some bytes, or the close after all
\* of them.  Only the pieces before it count as written; the copying goroutine
\* gives up.
FailedAppend ==
    /\ writer.step \in {"append", "rename", "put"}
    /\ \E n \in 0 .. Piece : Put(n)
    /\ cutOff' = (cutOff \/ writer.step \in {"rename", "put"})
    /\ Return(writer.written)

\* Close, after the child has ended.
CloseLog ==
    /\ AtRest
    /\ writer' = ClosedLog
    /\ UNCHANGED <<current, backup, ready, output, cutOff>>

\* The server is killed in a Write; a child started later has a Writer of its
\* own.
KillServer ==
    /\ writer.step \in {"append", "rename", "put"}
    /\ \E n \in 0 .. Piece : Put(n)
    /\ writer' = ClosedLog
    /\ cutOff' = (cutOff \/ writer.step \in {"rename", "put"})
    /\ UNCHANGED <<ready, output>>

-----------------------------------------------------------------------------
\* A log and a backup that an older, unbounded writer may have left.
LogInit ==
    /\ \E first, size \in 0 .. MaxLegacy :
          /\ backup = [lo |-> 0, hi |-> first]
          /\ current = [lo |-> first, hi |-> first + size]
    /\ writer = ClosedLog
    /\ ready = [tail |-> <<>>, seen |-> FALSE]
    /\ output = <<>>
    /\ cutOff = FALSE

LogNext ==
    \/ OpenLog \/ FailedOpen
    \/ \E n \in 1 .. MaxChunk : \E data \in [1 .. n -> Letters] : WriteChunk(data)
    \/ RemoveBackup \/ RenameCurrent \/ AppendPiece \/ FailedAppend
    \/ CloseLog \/ KillServer

LogSpec == LogInit /\ [][LogNext]_logVars

-----------------------------------------------------------------------------
(* Properties.                                                              *)

\* The files hold every byte from here on; a backup with a gap after it does
\* not count.
Since ==
    IF Size(backup) > 0 /\ backup.hi = current.lo THEN backup.lo ELSE current.lo

\* "Reopening preserves previous evidence", "using the same tail-retention
\* policy": while a log is open both files are within the limit; bytes are
\* missing between them only where an oversize log was adopted, and then the
\* log alone holds as much as the limit; and unless a rotation was once cut
\* off, the last LogLimit bytes that reached the log, or all of them, are still
\* there without a gap.
LogIsTail ==
    writer # ClosedLog =>
        /\ Size(current) <= LogLimit /\ Size(backup) <= LogLimit
        /\ Size(backup) > 0 /\ backup.hi # current.lo =>
              backup.hi < current.lo /\ Size(current) = LogLimit
        /\ AtRest /\ ~cutOff => Since = 0 \/ current.hi - Since >= LogLimit

\* The output without what the failing Write did not report as written.
Acknowledged == SubSeq(output, 1, Len(output) - Len(writer.data))

\* "Retaining a small suffix handles markers split between stdout reads": while
\* no Write has failed a child is seen as ready exactly when its own output has
\* the marker, however the output was cut into chunks.  After the Write that
\* failed, which is the last, a marker in the acknowledged pieces counts; one
\* that ends in the rest of the chunk was written by the child and is missed.
ReadyIsSeen ==
    /\ writer.step = "idle" => (ready.seen <=> HasWord(output, Marker))
    /\ writer.step = "broken" => (ready.seen <=> HasWord(Acknowledged, Marker))
=============================================================================
