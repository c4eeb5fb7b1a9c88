------------------------------ MODULE Identity ------------------------------
(***************************************************************************)
(* What the API says about identities (src/internal/api/v1.go) from a      *)
(* snapshot of the registry: the number of an observed handset, and the    *)
(* missing half of a party of an SMS.  Observations are older than the     *)
(* snapshot and may be anything; both kinds of answer read the databases   *)
(* while Bind, Unbind and the native services change them.                 *)
(***************************************************************************)
EXTENDS Subscriber

-----------------------------------------------------------------------------
(* The snapshot: List and subscribersFromSnapshot.                          *)

\* One duplicate row, or a dial row without SIP row, fails the whole list.
ListOk == \A i \in Imsis : GetState(i) \in {"ok", "not_found"}

Listed(i) == sip[i] # <<>>
NumberOf(i) == IF dial[i] = <<>> THEN NoNumber ELSE dial[i][1]
Consistent(i) == sip[i][1] = NumberOf(i)

-----------------------------------------------------------------------------
(* handleConnections.                                                       *)

\* Mutant of ShownNumber: the registry completes an observation only.
ShownNumberObserved(i, observed) ==
    IF observed # NoNumber \/ ~ListOk \/ ~Listed(i) THEN observed
    ELSE IF Consistent(i) THEN NumberOf(i) ELSE NoNumber

\* connectionItems and applySubscriberNumbers: without a list, or an entry in
\* it, the observed number; else the entry's, if it is consistent.
ShownNumber(i, observed) ==
    IF ~ListOk \/ ~Listed(i) THEN observed
    ELSE IF Consistent(i) THEN NumberOf(i) ELSE NoNumber

-----------------------------------------------------------------------------
(* handleSMSList; codes are the numbers isSMSServiceCode knows.             *)

\* Mutant of Indexed: a number of several entries is not left out.
IndexedShared(i, codes) ==
    /\ ListOk /\ Listed(i) /\ Consistent(i)
    /\ NumberOf(i) \notin codes \cup {NoNumber}

\* newSMSBindingIndex: consistent entries whose number no other entry has.
Indexed(i, codes) ==
    /\ ListOk /\ Listed(i) /\ Consistent(i)
    /\ NumberOf(i) \notin codes \cup {NoNumber}
    /\ \A k \in Imsis \ {i} : Listed(k) => NumberOf(k) # NumberOf(i)

\* smsIdentityResolution and resolveSMSParty: only what the log lacks, NoRow
\* for an IMSI, is completed; of a service code nothing is.
ResolveParty(number, imsi, codes) ==
    LET same == {i \in Imsis : /\ Indexed(i, codes)
                               /\ IF imsi = NoRow THEN NumberOf(i) = number
                                                  ELSE i = imsi}
        entry == CHOOSE i \in same : TRUE
    IN  IF same = {} \/ number \in codes \/ (number = NoNumber <=> imsi = NoRow)
        THEN [number |-> number, imsi |-> imsi]
        ELSE [number |-> NumberOf(entry), imsi |-> entry]

-----------------------------------------------------------------------------
(* Properties.                                                              *)

\* "Do not hide an already-bound number": whatever the TMSI table said when it
\* was read, a handset whose binding was acknowledged, and not changed by a
\* native service since, is shown with that number, and after an unbinding
\* with none.  Where the registry cannot be listed, since another IMSI has
\* duplicate rows, the observed number is shown, as API.md says.
ShownNumberIsCurrent ==
    ListOk => \A i \in Imsis \ touched : acked[i] # NoRow =>
                 \A observed \in Values : ShownNumber(i, observed) = acked[i]

\* "Only globally one-to-one, internally consistent current registry bindings":
\* a completed SMS party is a current binding of a number that no other
\* subscriber dials and that is no service code, an acknowledged binding
\* of this kind is always found, and from either half the other is found.
CompletionIsCurrent ==
    ListOk => \A n \in Numbers, i \in Imsis : \A codes \in {{}, {n}} :
        LET byNumber == ResolveParty(n, NoRow, codes).imsi
            byImsi == ResolveParty(NoNumber, i, codes).number
        IN  /\ byNumber = i <=> byImsi = n
            /\ byNumber = i => /\ Bound(i, n) /\ n \notin codes
                               /\ \A k \in Imsis \ {i} : n \notin RowsOf(dial, k)
            /\ i \notin touched /\ acked[i] = n /\ n \notin codes
                 => byNumber = i \/ Holders(n) # {i}
=============================================================================
