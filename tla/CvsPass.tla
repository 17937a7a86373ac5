------------------------------- MODULE CvsPass -------------------------------
(***************************************************************************)
(* The password of vcfsd: get_cvs_passwd_from_file (vcfs.c) looks for it   *)
(* in ~/.cvspass, main asks the user when it finds none, and scramble      *)
(* (cvs_cmds.c) makes from it what cvs_pserver_connect sends.              *)
(*                                                                         *)
(* A line of the file is an account, the letter A and the scrambled        *)
(* password, as "cvs login" writes them.  The code reads memory that it    *)
(* never set; what it finds there is a choice.                             *)
(***************************************************************************)
EXTENDS Integers, Sequences, SequencesExt

CONSTANTS
    Account,    \* what the lines of .cvspass name: user, host and root
    Own,        \* the account that the daemon was started for
    Like,       \* the accounts whose text contains its user@host
    Letter,     \* the characters of passwords
    A,          \* the letter A
    shifts,     \* the table of scramble
    Secret,     \* account |-> its password
    Saved,      \* the contents that ~/.cvspass may have
    Leftover    \* texts that memory which is not set may hold

Password == Seq(Letter)

\* The table is its own inverse.
ASSUME ShiftsAssumption ==
    /\ A \in Letter
    /\ shifts \in [Letter -> Letter]
    /\ \A c \in Letter : shifts[shifts[c]] = c

ASSUME SavedAssumption ==
    /\ Own \in Like /\ Like \subseteq Account
    /\ Secret \in [Account -> Seq(Letter)]
    /\ Leftover \subseteq Password /\ <<>> \in Leftover
    /\ Saved \subseteq Seq([account : Account,
                            pserver : BOOLEAN,  \* or another method
                            eol : BOOLEAN])     \* only the last line may lack it

VARIABLES
    lines,         \* the lines of .cvspass that are left to read
    user_at_host,  \* does it hold what it should, or text in front of it?
    pword,         \* the password: what kind of pointer, and its text
    sent,          \* what the server gets in the login
    step,          \* "open", "read", "ask", "login", "done", or how it failed
    passfile,      \* history: the lines of .cvspass, or none
    unset          \* history: did memory that was not set have an effect?

passvars == <<lines, user_at_host, pword, sent, step, passfile, unset>>

Wild == [kind |-> "wild", text |-> <<>>]
Null == [kind |-> "null", text |-> <<>>]
Found(text) == [kind |-> "text", text |-> text]

Shifted(text) == [i \in DOMAIN text |-> shifts[text[i]]]
scramble(text) == <<A>> \o Shifted(text)

PassInit ==
    /\ passfile \in Saved
    /\ lines = passfile
    /\ user_at_host = TRUE
    /\ pword = Null /\ sent = <<>>
    /\ step = "open" /\ unset = FALSE

\* With -i, without a home directory or without the file there is no search.
NoFile ==
    /\ step = "open"
    /\ step' = "ask"
    /\ UNCHANGED <<lines, user_at_host, pword, sent, passfile, unset>>

\* strcat appends the account to memory that was not set; the password is a
\* pointer that was not set.
Open ==
    /\ step = "open"
    /\ step' = "read"
    /\ pword' = Wild
    /\ user_at_host' \in BOOLEAN
    /\ unset' = ~user_at_host'
    /\ UNCHANGED <<lines, sent, passfile>>

-----------------------------------------------------------------------------
(* The lines. *)

\* Fault: the account is not looked for.
Matches_Pserver(line) == user_at_host /\ line.pserver

Matches(line) ==
    user_at_host /\ line.account \in Like /\ line.pserver

\* rindex finds the last A of the line: the one in front of the scrambled
\* password, or one in it.
AfterLastA(text) ==
    LET i == CHOOSE i \in DOMAIN text :
                /\ text[i] = A
                /\ \A j \in (i + 1)..Len(text) : text[j] # A
    IN SubSeq(text, i + 1, Len(text))

Chunk(line) == AfterLastA(scramble(Secret[line.account]))

\* One character is left out at the end, the newline if there is one.
Copied(line) == IF line.eol THEN Chunk(line) ELSE Front(Chunk(line))

\* Nothing after the A and no newline: the length to copy is -1.
NothingToCopy(line) == ~line.eol /\ Chunk(line) = <<>>

\* Nothing ends the copy but a zero that may be there.
MatchLine ==
    /\ step = "read" /\ lines # <<>>
    /\ Matches(lines[1]) /\ ~NothingToCopy(lines[1])
    /\ \E rest \in Leftover :
          /\ pword' = Found(Tail(scramble(Copied(lines[1]) \o rest)))
          /\ unset' = (unset \/ rest # <<>>)
    /\ lines' = Tail(lines)
    /\ UNCHANGED <<user_at_host, sent, step, passfile>>

MatchNothing ==
    /\ step = "read" /\ lines # <<>>
    /\ Matches(lines[1]) /\ NothingToCopy(lines[1])
    /\ step' = "crashed"
    /\ UNCHANGED <<lines, user_at_host, pword, sent, passfile, unset>>

\* Any other line forgets the password that an earlier one gave.
OtherLine ==
    /\ step = "read" /\ lines # <<>>
    /\ ~Matches(lines[1])
    /\ pword' = Null
    /\ lines' = Tail(lines)
    /\ UNCHANGED <<user_at_host, sent, step, passfile, unset>>

\* What getenv returned is freed, which some allocators find out.
Close ==
    /\ step = "read" /\ lines = <<>>
    /\ step' \in {"ask", "crashed"}
    /\ UNCHANGED <<lines, user_at_host, pword, sent, passfile, unset>>

-----------------------------------------------------------------------------
(* main and cvs_init_session. *)

Ask ==
    /\ step = "ask" /\ pword = Null
    /\ pword' = Found(Secret[Own])
    /\ step' = "login"
    /\ UNCHANGED <<lines, user_at_host, sent, passfile, unset>>

DoNotAsk ==
    /\ step = "ask" /\ pword.kind = "text"
    /\ step' = "login"
    /\ UNCHANGED <<lines, user_at_host, pword, sent, passfile, unset>>

\* An empty file leaves the pointer as it was: it may be NULL, or point to
\* some text or to nothing that can be read.
AskWild ==
    /\ step = "ask" /\ pword = Wild
    /\ \/ pword' = Null /\ UNCHANGED step
       \/ step' = "login" /\ \E text \in Leftover : pword' = Found(text)
       \/ step' = "crashed" /\ UNCHANGED pword
    /\ unset' = TRUE
    /\ UNCHANGED <<lines, user_at_host, sent, passfile>>

Login ==
    /\ step = "login"
    /\ sent' = scramble(pword.text)
    /\ step' = "done"
    /\ UNCHANGED <<lines, user_at_host, pword, passfile, unset>>

PassNext ==
    \/ NoFile \/ Open \/ MatchLine \/ MatchNothing \/ OtherLine \/ Close
    \/ Ask \/ DoNotAsk \/ AskWild \/ Login

PassSpec == PassInit /\ [][PassNext]_passvars

-----------------------------------------------------------------------------
(* Properties. *)

\* The line can be told from those of other accounts, is ended by a newline,
\* and its scrambled password has no A.
Clear(line) ==
    /\ line.account \in Like => line.account = Own
    /\ line.account = Own /\ line.pserver =>
          line.eol /\ \A i \in DOMAIN Secret[Own] : shifts[Secret[Own][i]] # A

\* Whatever other lines .cvspass has and in whatever order, the server gets the
\* password of this user's own account, scrambled once, whether it was found or
\* asked for, as long as the own line is clear and memory that was not set has
\* no effect.
OwnPassword ==
    step = "done" /\ ~unset /\ (\A i \in DOMAIN passfile : Clear(passfile[i])) =>
        sent = scramble(Secret[Own])
=============================================================================
