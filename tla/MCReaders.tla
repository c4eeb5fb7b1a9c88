----------------------------- MODULE MCReaders -----------------------------
(* What the server reads of the native services: the messages of smqueue,   *)
(* Asterisk's call records and the output of OpenBTS.  The three share no   *)
(* file, so a behaviour follows one of them: feed says which.               *)
EXTENDS SmsParser, CallHistory, ProcessLog

CONSTANTS a, b, c, q1, q2

\* a and c have the same tag, so that c can only follow a restart after a.
ThreeMessages == {a, b, c}
TagsOf == [m \in ThreeMessages |-> IF m = b THEN q2 ELSE q1]

FieldStrings == {<<>>, <<"n">>, <<"x", "q">>, <<"q", "n">>}

\* A marker that begins with a part of itself that ends it, too.
ShortMarker == <<"r", "d", "r">>

VARIABLE feed

InitReaders ==
    /\ Init /\ CdrInit /\ LogInit
    /\ feed \in {"smqueue", "asterisk", "openbts"}
    /\ feed # "openbts" => current.hi = 0 /\ backup.hi = 0

NextReaders ==
    /\ \/ feed = "smqueue" /\ Next /\ UNCHANGED <<cdrVars, logVars>>
       \/ feed = "asterisk" /\ CdrNext /\ UNCHANGED <<vars, logVars>>
       \/ feed = "openbts" /\ LogNext /\ UNCHANGED <<vars, cdrVars>>
    /\ UNCHANGED feed

SpecReaders == InitReaders /\ [][NextReaders]_<<vars, cdrVars, logVars, feed>>
=============================================================================
