----------------------------- MODULE SmsParser -----------------------------
(***************************************************************************)
(* parser.ParseSmqueueLog (src/internal/parser/sms.go), on logs as smqueue *)
(* writes them: the lines of concurrent messages in any order, retries,    *)
(* restarts that use the same qtags again, legacy deliveries by a thread   *)
(* of their own, and a window that begins anywhere.                        *)
(*                                                                         *)
(* A line is its kind and the message it is about; a field of a parsed SMS *)
(* is the message whose value it holds, or NoMsg when it is missing, so    *)
(* that a wrong pairing shows.  The headers after a delivery marker are    *)
(* part of its line.  Lines that match no pattern are left out.            *)
(***************************************************************************)
EXTENDS Naturals, Sequences, FiniteSets, SequencesExt

CONSTANTS
    Messages,
    Qtag,        \* the tag smqueue gives a message: Messages -> tags
    Blank,       \* messages whose text could not be decoded
    Addressed,   \* messages whose Got event names the receiver, not "smsc"
    NoMsg,       \* no message: the value is missing
    MaxLines     \* bound on the length of the log

ASSUME ParserAssumption == NoMsg \notin Messages /\ MaxLines \in Nat

VARIABLES
    log,         \* smqueue.log
    holder,      \* the message a tag names since the last restart
    delivery     \* the delivering thread: its message and how far it is

vars == <<log, holder, delivery>>

Tags == {Qtag[m] : m \in Messages}
Own(m) == IF m \in Blank THEN NoMsg ELSE m

-----------------------------------------------------------------------------
(* The parser, for a log w.                                                 *)

IsKind(w, k, kinds) == w[k].kind \in kinds

\* isRestartLine: smqueue's own line or the banner of its start.
IsRestartLine(w, k) == IsKind(w, k, {"restart", "banner"})

\* restartPositions and generationAt.
GenerationAt(w, k) == Cardinality({r \in 1 .. k : IsRestartLine(w, r)})

\* Mutant of ScopedIdentity: the generation is left out.
UnscopedIdentity(generation, tag) == <<0, tag>>

ScopedIdentity(generation, tag) == <<generation, tag>>

Sms(time, sender, receiver, text) ==
    [time |-> time, from |-> sender, to |-> receiver, text |-> text]
Candidate(identity, sms, structured) ==
    [identity |-> identity, sms |-> sms, structured |-> structured]

\* parseNoticeParty: a value that is neither IMSI nor number is missing.
ParseNoticeParty(m, readable) == IF readable THEN m ELSE NoMsg

\* parseNoticeEvents: a Got event has the parties, a structured record all it
\* carries, a keyed text only that; an unkeyed text is nobody's.
Notice(w, k) ==
    LET m == w[k].msg
        sms == CASE w[k].kind = "got" ->
                        Sms(k, m, ParseNoticeParty(m, m \in Addressed), NoMsg)
                 [] w[k].kind = "structured" -> Sms(k, m, m, Own(m))
                 [] w[k].kind = "keyed" -> Sms(k, NoMsg, NoMsg, m)
    IN  Candidate(ScopedIdentity(GenerationAt(w, k), Qtag[m]), sms,
                  w[k].kind = "structured")

\* The lines since the previous delivery marker: legacyPreludeEvents.  The
\* banner is no native line and so no boundary there.
Prelude(w, k) ==
    {j \in 1 .. k - 1 : \A i \in j .. k - 1 : ~IsKind(w, i, {"deliver"})}

\* Mutant of Cuts: a Got event is no boundary.
CutsWithoutGot == {"request", "restart"}

Cuts == {"request", "got", "restart"}

\* The request a delivery belongs to: the only one, or the only one of the tag
\* in its headers (qtagFromDeliveryBlock), if they have one.
Requests(w, k) == {j \in Prelude(w, k) : IsKind(w, j, {"request"})}

\* Mutant of RequestsOf: the first request is taken.
RequestsOfAny(w, k) == {j \in Requests(w, k) : \A i \in Requests(w, k) : j <= i}

RequestsOf(w, k) ==
    IF Cardinality(Requests(w, k)) = 1 THEN Requests(w, k)
    ELSE {j \in Requests(w, k) :
             w[k].named /\ Qtag[w[j].msg] = Qtag[w[k].msg]}

\* decodedForDelivery: the lines with a text after the request r, up to the
\* next request or boundary; without such a cut there must be exactly one.
Decoded(w, r, k) ==
    LET cuts  == {j \in r + 1 .. k - 1 : IsKind(w, j, Cuts)}
        texts == {j \in r + 1 .. k - 1 : /\ IsKind(w, j, {"text"})
                                         /\ \A c \in cuts : j < c}
    IN  IF cuts = {} /\ Cardinality(texts) # 1 THEN {}
        ELSE {j \in texts : \A i \in texts : i <= j}

\* parseDeliverInto: the headers have both parties.
ParseDeliverInto(m, time, text) == Sms(time, m, m, text)

\* parseDeliveryEvents: time and text come from the line with the text, or the
\* time from the request.
Delivered(w, k) ==
    LET r == CHOOSE j \in RequestsOf(w, k) : TRUE
        t == Decoded(w, r, k)
        from == IF t = {} THEN r ELSE CHOOSE j \in t : TRUE
    IN  Candidate(ScopedIdentity(GenerationAt(w, k), Qtag[w[r].msg]),
                  ParseDeliverInto(w[k].msg, from,
                                   IF t = {} THEN NoMsg ELSE w[from].msg),
                  FALSE)

IsNotice(w, k) == IsKind(w, k, {"got", "structured", "keyed"})
IsDelivered(w, k) ==
    IsKind(w, k, {"deliver"}) /\ Cardinality(RequestsOf(w, k)) = 1

\* Mutant of Candidates: not sorted, deliveries after the notices.
UnsortedCandidates(w) ==
    LET lines == [k \in 1 .. Len(w) |-> k]
        notices == SelectSeq(lines, LAMBDA k : IsNotice(w, k))
        deliveries == SelectSeq(lines, LAMBDA k : IsDelivered(w, k))
    IN  [i \in DOMAIN notices |-> Notice(w, notices[i])]
          \o [i \in DOMAIN deliveries |-> Delivered(w, deliveries[i])]

\* Both kinds of events, sorted by their position in the log.
EventAt(w, k) ==
    IF IsNotice(w, k) THEN <<Notice(w, k)>>
    ELSE IF IsDelivered(w, k) THEN <<Delivered(w, k)>> ELSE <<>>
Events(w) ==
    LET upTo[k \in 0 .. Len(w)] ==
            IF k = 0 THEN <<>> ELSE upTo[k - 1] \o EventAt(w, k)
    IN  upTo
Candidates(w) == Events(w)[Len(w)]

\* mergeSMS: what is missing is taken from the later event.
MergeSMS(sms, incoming) ==
    [f \in DOMAIN sms |-> IF f # "time" /\ sms[f] = NoMsg THEN incoming[f]
                                                          ELSE sms[f]]

\* Mutant of ApplyStructured: only what is missing is replaced.
ApplyAsMerge(sms, incoming) == MergeSMS(sms, incoming)

\* applyStructuredSMS: the record replaces everything but the first time.
ApplyStructured(sms, incoming) == [incoming EXCEPT !.time = sms.time]

\* The loop over the candidates: the first structured record of an identity
\* is authoritative, other events complete what is there.
Absorb(out, c) ==
    LET same == {i \in DOMAIN out : out[i].identity = c.identity}
        i == CHOOSE j \in same : TRUE
    IN  IF same = {} THEN Append(out, c)
        ELSE IF out[i].structured THEN out
        ELSE LET joined == IF c.structured
                           THEN ApplyStructured(out[i].sms, c.sms)
                           ELSE MergeSMS(out[i].sms, c.sms)
             IN  [out EXCEPT ![i] = Candidate(c.identity, joined, c.structured)]

Merged(c) ==
    LET after[n \in 0 .. Len(c)] ==
            IF n = 0 THEN <<>> ELSE Absorb(after[n - 1], c[n])
    IN  after
ParseSmqueueLog(w) ==
    LET found == Candidates(w) IN Merged(found)[Len(found)]

-----------------------------------------------------------------------------
(* smqueue, as the parser's patterns and comments know it.                  *)

NoDelivery == [msg |-> NoMsg, step |-> "idle"]

Line(kind, m, named) == [kind |-> kind, msg |-> m, named |-> named]
WriteLine(line) == Len(log) < MaxLines /\ log' = Append(log, line)

\* m is, or becomes, the message that its tag names in this generation.
Names(m) ==
    /\ holder[Qtag[m]] \in {m, NoMsg}
    /\ holder' = [holder EXCEPT ![Qtag[m]] = m]

\* A receiving thread writes about a message, as often as it likes.
Receive(m, kind) ==
    /\ Names(m)
    /\ kind \in {"keyed", "text"} => m \notin Blank
    /\ WriteLine(Line(kind, m, FALSE))
    /\ UNCHANGED delivery

\* The delivering thread: request, text if it can be decoded, and the message.
Request(m) ==
    /\ delivery.step = "idle"
    /\ Names(m)
    /\ WriteLine(Line("request", m, FALSE))
    /\ delivery' = [msg |-> m, step |-> IF m \in Blank THEN "deliver" ELSE "text"]

Decode ==
    /\ delivery.step = "text"
    /\ WriteLine(Line("text", delivery.msg, FALSE))
    /\ delivery' = [delivery EXCEPT !.step = "deliver"]
    /\ UNCHANGED holder

Deliver(named) ==
    /\ delivery.step = "deliver"
    /\ WriteLine(Line("deliver", delivery.msg, named))
    /\ delivery' = NoDelivery
    /\ UNCHANGED holder

\* The process ends and another begins: its tags are free again.
Restart(kind) ==
    /\ WriteLine(Line(kind, NoMsg, FALSE))
    /\ holder' = [q \in Tags |-> NoMsg]
    /\ delivery' = NoDelivery

Init ==
    /\ log = <<>>
    /\ holder = [q \in Tags |-> NoMsg]
    /\ delivery = NoDelivery

Next ==
    \/ \E m \in Messages :
          \/ \E kind \in {"got", "structured", "keyed", "text"} : Receive(m, kind)
          \/ Request(m)
    \/ Decode
    \/ \E named \in BOOLEAN : Deliver(named)
    \/ \E kind \in {"restart", "banner"} : Restart(kind)

Spec == Init /\ [][Next]_vars

-----------------------------------------------------------------------------
(* Properties.  A window is a log whose older lines have been cut off.      *)

Windows == Suffixes(log)

\* The messages that a window writes about under an identity: one, since a
\* tag names one message in each generation.
Subjects(w, identity) ==
    {w[k].msg : k \in {j \in 1 .. Len(w) :
        ~IsRestartLine(w, j)
            /\ <<GenerationAt(w, j), Qtag[w[j].msg]>> = identity}}

\* Deduplication is by message, never by content or across restarts: every
\* message with a receive event appears exactly once for each generation that
\* wrote about it, although tags are used again and events are repeated.  A
\* generation begins where the parser sees a restart.
EveryMessageOnce ==
    \A w \in Windows : \A k \in 1 .. Len(w) : IsNotice(w, k) =>
        LET out == ParseSmqueueLog(w)
        IN  Cardinality({i \in DOMAIN out : out[i].identity =
                            <<GenerationAt(w, k), Qtag[w[k].msg]>>}) = 1

\* "keyed native records are authoritative", "Empty values are authoritative
\* too": wherever its structured record stands among Got events, texts, retries
\* and deliveries, a message shows exactly what that record carries.
StructuredIsExact ==
    \A w \in Windows : \A k \in 1 .. Len(w) : w[k].kind = "structured" =>
        LET out == ParseSmqueueLog(w)
        IN  \A i \in DOMAIN out :
               out[i].identity = <<GenerationAt(w, k), Qtag[w[k].msg]>> =>
                  /\ out[i].sms.from = w[k].msg /\ out[i].sms.to = w[k].msg
                  /\ out[i].sms.text = Own(w[k].msg)

\* The texts between the last request before a marker and the first boundary.
IsBoundary(w, k) == IsKind(w, k, {"got", "restart"})
BlockTexts(w, k) ==
    {j \in Prelude(w, k) :
        /\ w[j].kind = "text"
        /\ \E r \in Requests(w, k) :
              /\ r < j /\ \A i \in Requests(w, k) : i <= r
              /\ \A i \in r + 1 .. j : ~IsBoundary(w, i)}

\* A legacy delivery is local unless another message's text stands where its
\* own is expected: as the only text before the marker, or as the last one
\* before a boundary.  One among several texts, and one after a boundary, do no
\* harm.
Local(w, k) ==
    \A j \in BlockTexts(w, k) : w[j].msg = w[k].msg \/
        \E i \in BlockTexts(w, k) :
            i > j \/ (i < j /\ \A c \in j + 1 .. k - 1 : ~IsBoundary(w, c))

\* "Rather than risking fabricated cross-message content": no field of an SMS
\* is ever another message's, however the lines interleave and wherever the
\* window begins, provided that the legacy deliveries in it are local.  For one
\* that is not, the parser does show the other message's text.
FieldsAreOwn ==
    \A w \in Windows :
        (\A k \in 1 .. Len(w) : w[k].kind = "deliver" => Local(w, k)) =>
            LET out == ParseSmqueueLog(w)
            IN  \A i \in DOMAIN out : \A f \in {"from", "to", "text"} :
                   out[i].sms[f] \in {NoMsg} \cup Subjects(w, out[i].identity)

\* A later read of the same window never reorders, removes or renames what an
\* earlier page showed, and replaces a value only when the structured record
\* arrives: offsets into the list stay valid while smqueue writes.
StableObservations ==
    [][LET old == ParseSmqueueLog(log)
           new == ParseSmqueueLog(log')
       IN  /\ Len(old) <= Len(new)
           /\ \A i \in DOMAIN old :
                 /\ new[i].identity = old[i].identity
                 /\ new[i].sms.time = old[i].sms.time
                 /\ old[i].sms.text # NoMsg =>
                       \/ new[i].sms.text = old[i].sms.text
                       \/ new[i].structured /\ ~old[i].structured]_vars
=============================================================================
