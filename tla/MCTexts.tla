------------------------------- MODULE MCTexts -------------------------------
(***************************************************************************)
(* An instance of the two parsers for TLC: either a log is read, or the    *)
(* password is looked for.                                                 *)
(***************************************************************************)
EXTENDS CvsLog, CvsPass

Rev(v, locked, message) == [ver |-> v, locked |-> locked, message |-> message]

\* Lines that users write: one that ends in "ok", one that quotes a revision the
\* file does not have, one that does both, one that quotes a number that is too
\* long, and the word alone; the date of a revision, one without a semicolon, and
\* one that quotes a revision the file has.
Ends == [Other EXCEPT !.ok = TRUE]
Quote == [Other EXCEPT !.kind = "revision", !.text = <<"9">>]
QuoteOk == [Quote EXCEPT !.ok = TRUE]
QuoteLong == [Quote EXCEPT !.text = <<"1", "2", "9", "9">>]
Bare == [Quote EXCEPT !.text = None]

Dated == [Other EXCEPT !.kind = "date", !.of = <<"1", "2">>]
Undated == [Dated EXCEPT !.of = None]
QuoteOne == [Quote EXCEPT !.text = <<"1">>]

MCMessages == {<<>>, <<Other>>, <<Ends, Other>>, <<Quote>>, <<Quote, Quote>>,
               <<QuoteOk>>, <<QuoteLong>>, <<Bare>>, <<Dated>>,
               <<QuoteOne, Dated>>, <<Quote, Undated>>}

\* Revisions of one to four characters, one of them locked.
One == <<"1">>
Two == <<"1", "2">>
Three == <<"1", "2", "1">>
Four == <<"1", "2", "1", "2">>

MCHistory ==
    [description : {<<>>, <<Quote>>, <<Ends>>, <<Quote, Dated>>},
     revisions : {<<Rev(One, FALSE, m)>> : m \in MCMessages}
         \cup {<<Rev(Two, FALSE, m), Rev(One, l, n)>> :
                    m \in MCMessages, n \in MCMessages, l \in BOOLEAN}
         \cup {<<Rev(<<"1", "2", "9">>, FALSE, <<>>)>>}
         \cup {<<Rev(Three, FALSE, m), Rev(Two, FALSE, <<>>), Rev(One, FALSE, m)>> :
                    m \in MCMessages}
         \cup {<<Rev(Four, FALSE, m), Rev(Three, l, <<Other>>), Rev(Two, FALSE, m)>> :
                    m \in MCMessages, l \in BOOLEAN}]

-----------------------------------------------------------------------------

\* The scrambled password of "like" is the letter A.
MCshifts == [l \in {"A", "p", "q"} |-> CASE l = "A" -> "q" [] l = "q" -> "A" [] OTHER -> l]
MCSecret == [a \in {"own", "like", "other"} |->
                CASE a = "own" -> <<"A", "p">> [] a = "like" -> <<"q">> [] OTHER -> <<"p">>]
MCLeftover == {<<>>, <<"p">>}

PassLine == [account : {"own", "like", "other"}, pserver : BOOLEAN, eol : {TRUE}]
Files == {<<>>} \cup {<<a>> : a \in PassLine} \cup {<<a, b>> : a, b \in PassLine}
            \cup {<<a, b, c>> : a, b, c \in PassLine}
MCSaved == Files \cup {Append(f, [l EXCEPT !.eol = FALSE]) : f \in {<<>>} \cup {<<a>> : a \in PassLine},
                                                           l \in PassLine}

-----------------------------------------------------------------------------

NoLog ==
    /\ history = [description |-> <<>>, revisions |-> <<>>]
    /\ caller = "validate" /\ asked = <<>>
    /\ log = <<>> /\ found = <<>> /\ stage = "done" /\ cut = FALSE

NoPass ==
    /\ lines = <<>> /\ passfile = <<>> /\ user_at_host = TRUE
    /\ pword = Null /\ sent = <<>> /\ step = "off" /\ unset = FALSE

Init == (LogInit /\ NoPass) \/ (PassInit /\ NoLog)

Next == (LogNext /\ UNCHANGED passvars) \/ (PassNext /\ UNCHANGED logvars)

Spec == Init /\ [][Next]_<<logvars, passvars>>
=============================================================================
