------------------------------ MODULE MCCvsResp ------------------------------
(***************************************************************************)
(* Instances of CvsResp for TLC: a recv takes eight symbols, the buffer    *)
(* starts with nine.  Lines have four symbols, so that a recv that is full *)
(* ends between two lines.                                                 *)
(***************************************************************************)
EXTENDS CvsResp

X == <<"x", "x", "x", "n">>
XX == X \o X

\* A bare "ok", and answers that fill the buffer once, twice and thrice.
LineAnswers == {Ok, X \o Ok, XX \o Ok, XX \o X \o Ok, XX \o XX \o XX \o Ok,
                XX \o XX \o XX \o XX \o X \o Ok}

\* Answers whose lines have other lengths, and an error; the longest makes the
\* buffer grow twice.
RaggedAnswers ==
    {<<"x", "n">>, Ok, <<"x", "n">> \o Ok, <<"x", "o", "k", "x", "x", "n">> \o Ok,
     XX \o X \o <<"x", "n">> \o Ok}
=============================================================================
