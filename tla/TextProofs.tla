----------------------------- MODULE TextProofs ------------------------------
(***************************************************************************)
(* Proofs about the two parsers of text.  CvsPass: for every .cvspass,     *)
(* table of scramble and password.  CvsLog: for every log, with any        *)
(* messages and cut anywhere, and every caller.                            *)
(***************************************************************************)
EXTENDS CvsLog, CvsPass, SequenceTheorems, WellFoundedInduction, TLAPS

-----------------------------------------------------------------------------
(* scramble and the search for the last A. *)

\* Scrambled twice, a text is what it was.
LEMMA ShiftedTwice ==
    ASSUME NEW text \in Seq(Letter)
    PROVE  Shifted(text) \in Seq(Letter) /\ Shifted(Shifted(text)) = text
<1>1. \A c \in Letter : shifts[c] \in Letter /\ shifts[shifts[c]] = c
  BY ShiftsAssumption
<1> QED BY <1>1 DEF Shifted

\* What stands behind the letter A is found, if it has none itself.
LEMMA BehindOnlyA ==
    ASSUME NEW text \in Seq(Letter), \A i \in DOMAIN text : text[i] # A
    PROVE  AfterLastA(<<A>> \o text) = text
<1> DEFINE all == <<A>> \o text
           LastA(i) == all[i] = A /\ \A j \in (i + 1)..Len(all) : all[j] # A
<1>1. /\ all \in Seq(Letter) /\ Len(all) = Len(text) + 1 /\ all[1] = A
      /\ \A i \in 1..Len(text) : all[i + 1] = text[i]
  BY ShiftsAssumption
<1>2. Len(text) \in Nat /\ DOMAIN text = 1..Len(text) /\ DOMAIN all = 1..Len(all)
  BY <1>1
<1> HIDE DEF all
<1>3. \A j \in 2..Len(all) : all[j] # A
  <2> SUFFICES ASSUME NEW j \in 2..Len(all) PROVE all[j] # A OBVIOUS
  <2>1. j - 1 \in 1..Len(text) /\ (j - 1) + 1 = j BY <1>1, <1>2
  <2>2. all[j] = text[j - 1] BY <1>1, <2>1
  <2> QED BY <1>2, <2>1, <2>2
<1>4. \A i \in DOMAIN all : LastA(i) <=> i = 1
  <2>1. 1 \in DOMAIN all /\ LastA(1) BY <1>1, <1>2, <1>3
  <2>2. \A i \in DOMAIN all : i # 1 => i \in 2..Len(all) BY <1>1, <1>2
  <2> QED BY <1>3, <2>1, <2>2
<1>5. (CHOOSE i \in DOMAIN all : LastA(i)) = 1
  <2>1. 1 \in DOMAIN all BY <1>1, <1>2
  <2> HIDE DEF LastA
  <2> QED BY <1>4, <2>1
<1>6. AfterLastA(all) = SubSeq(all, 1 + 1, Len(all))
  <2>1. AfterLastA(all) = SubSeq(all, (CHOOSE i \in DOMAIN all : LastA(i)) + 1, Len(all))
    BY Zenon DEF AfterLastA
  <2> QED BY <1>5, <2>1
<1>7. SubSeq(all, 2, Len(all)) = text
  BY <1>1, <1>2
<1>8. 1 + 1 = 2 OBVIOUS
<1> QED BY <1>6, <1>7, <1>8 DEF all

-----------------------------------------------------------------------------
(* The search. *)

\* Every line of the file that is left is clear, if all are; until main asks, the
\* password is none or the own one, and afterwards it is the own one.
PassInv ==
    /\ lines \in Seq([account : Account, pserver : BOOLEAN, eol : BOOLEAN])
    /\ step \in {"open", "read", "ask", "login", "done", "crashed"}
    /\ (\A i \in DOMAIN passfile : Clear(passfile[i])) =>
          /\ \A i \in DOMAIN lines : Clear(lines[i])
          /\ ~unset =>
                /\ pword = Null \/ pword = Wild \/ pword = Found(Secret[Own])
                /\ step = "login" => pword = Found(Secret[Own])
                /\ step = "done" => sent = scramble(Secret[Own])

\* A clear line that matches gives the own password.
LEMMA ClearLineFound ==
    ASSUME NEW line, Clear(line), Matches(line)
    PROVE  Tail(scramble(Copied(line) \o <<>>)) = Secret[Own]
<1> DEFINE secret == Secret[Own]
<1>1. secret \in Seq(Letter) BY SavedAssumption
<1>2. line.account = Own /\ line.eol /\ \A i \in DOMAIN secret : shifts[secret[i]] # A
  BY DEF Matches, Clear
<1>3. Shifted(secret) \in Seq(Letter) /\ Shifted(Shifted(secret)) = secret
  BY <1>1, ShiftedTwice
<1>4. \A i \in DOMAIN Shifted(secret) : Shifted(secret)[i] # A
  BY <1>1, <1>2 DEF Shifted
<1>5. Copied(line) = Shifted(secret)
  BY <1>2, <1>3, <1>4, BehindOnlyA DEF Copied, Chunk, scramble
<1>6. Shifted(secret) \o <<>> = Shifted(secret) BY <1>3
<1>7. Tail(<<A>> \o secret) = secret BY <1>1, ShiftsAssumption
<1> QED BY <1>3, <1>5, <1>6, <1>7 DEF scramble

LEMMA PassInvAtFirst == PassInit => PassInv
<1> SUFFICES ASSUME PassInit PROVE PassInv OBVIOUS
<1> QED BY SavedAssumption DEF PassInit, PassInv

LEMMA PassInvKept == PassInv /\ [PassNext]_passvars => PassInv'
<1> SUFFICES ASSUME PassInv, [PassNext]_passvars PROVE PassInv' OBVIOUS
<1> DEFINE AllClear(ls) == \A i \in DOMAIN ls : Clear(ls[i])
           OwnFound(word) == word = Null \/ word = Wild \/ word = Found(Secret[Own])
<1>1. /\ lines \in Seq([account : Account, pserver : BOOLEAN, eol : BOOLEAN])
      /\ step \in {"open", "read", "ask", "login", "done", "crashed"}
      /\ AllClear(passfile) =>
            /\ AllClear(lines)
            /\ ~unset =>
                  /\ OwnFound(pword)
                  /\ step = "login" => pword = Found(Secret[Own])
                  /\ step = "done" => sent = scramble(Secret[Own])
  BY DEF PassInv
<1>2. SUFFICES
        /\ lines' \in Seq([account : Account, pserver : BOOLEAN, eol : BOOLEAN])
        /\ step' \in {"open", "read", "ask", "login", "done", "crashed"}
        /\ AllClear(passfile') =>
              /\ AllClear(lines')
              /\ ~unset' =>
                    /\ OwnFound(pword')
                    /\ step' = "login" => pword' = Found(Secret[Own])
                    /\ step' = "done" => sent' = scramble(Secret[Own])
  BY DEF PassInv, Clear, Found, Null, Wild, scramble, Shifted
<1>3. /\ OwnFound(Null) /\ OwnFound(Wild) /\ OwnFound(Found(Secret[Own]))
      /\ \A word : OwnFound(word) /\ word.kind = "text" => word = Found(Secret[Own])
  BY DEF Null, Wild, Found
<1>4. ASSUME lines # <<>>
      PROVE  /\ Tail(lines) \in Seq([account : Account, pserver : BOOLEAN, eol : BOOLEAN])
             /\ AllClear(lines) => Clear(lines[1]) /\ AllClear(Tail(lines))
  BY <1>1, <1>4
<1> HIDE DEF AllClear
<1>5. CASE NoFile BY <1>1, <1>5 DEF NoFile
<1>6. CASE Open
  <2> HIDE DEF OwnFound
  <2> QED BY <1>1, <1>3, <1>6 DEF Open
<1>7. CASE MatchLine
  <2>1. PICK rest \in Leftover :
          /\ pword' = Found(Tail(scramble(Copied(lines[1]) \o rest)))
          /\ unset' = (unset \/ rest # <<>>)
    BY <1>7 DEF MatchLine
  <2>2. AllClear(lines) /\ ~unset' => pword' = Found(Secret[Own])
    BY <1>4, <1>7, <2>1, ClearLineFound DEF MatchLine
  <2>3. lines # <<>> /\ lines' = Tail(lines) /\ step = "read"
        /\ UNCHANGED <<step, sent, passfile>> /\ (~unset' => ~unset)
    BY <1>7, <2>1 DEF MatchLine
  <2> HIDE DEF OwnFound
  <2> QED BY <1>1, <1>3, <1>4, <2>2, <2>3
<1>8. CASE MatchNothing BY <1>1, <1>8 DEF MatchNothing
<1>9. CASE OtherLine
  <2> HIDE DEF OwnFound
  <2> QED BY <1>1, <1>3, <1>4, <1>9 DEF OtherLine
<1>10. CASE Close BY <1>1, <1>10 DEF Close
<1>11. CASE Ask
  <2> HIDE DEF OwnFound
  <2> QED BY <1>1, <1>3, <1>11 DEF Ask
<1>12. CASE DoNotAsk
  <2> HIDE DEF OwnFound
  <2> QED BY <1>1, <1>3, <1>12 DEF DoNotAsk
<1>13. CASE AskWild
  <2> HIDE DEF OwnFound
  <2> QED BY <1>1, <1>13 DEF AskWild
<1>14. CASE Login
  <2>1. Found(Secret[Own]).text = Secret[Own] BY DEF Found
  <2> QED BY <1>1, <1>14, <2>1 DEF Login
<1>15. CASE UNCHANGED passvars BY <1>1, <1>15 DEF passvars
<1> QED
  BY <1>5, <1>6, <1>7, <1>8, <1>9, <1>10, <1>11, <1>12, <1>13, <1>14, <1>15
  DEF PassNext

\* The server gets the own password, scrambled once, whether it was found or
\* asked for, if the lines of .cvspass are clear.
THEOREM PassOwnPassword == PassSpec => []OwnPassword
<1>1. PassInv => OwnPassword BY DEF PassInv, OwnPassword
<1> QED BY <1>1, PassInvAtFirst, PassInvKept, PTL DEF PassSpec

-----------------------------------------------------------------------------
(* Sequences of sequences, one behind the other. *)

\* A set of numbers with 0 and the successors of all it has is that of all.
LEMMA AllNumbers ==
    ASSUME NEW S, 0 \in S, \A n \in Nat : n \in S => n + 1 \in S
    PROVE  \A n \in Nat : n \in S
<1> DEFINE T == Nat \ S
           less == OpToRel(<, Nat)
<1> SUFFICES ASSUME T # {} PROVE FALSE OBVIOUS
<1>1. IsWellFoundedOn(less, Nat) BY NatLessThanWellFounded
<1>2. T \subseteq Nat OBVIOUS
<1>3. \A j, k \in Nat : j < k => <<j, k>> \in less BY DEF OpToRel
<1> HIDE DEF less
<1>4. PICK n \in T : \A j \in T : <<j, n>> \notin less
  <2> HIDE DEF T
  <2> QED BY <1>1, <1>2, WFMin
<1>5. n \in Nat /\ n # 0 /\ n - 1 \in Nat /\ n - 1 < n /\ (n - 1) + 1 = n OBVIOUS
<1>6. n - 1 \notin T BY <1>3, <1>4, <1>5
<1> QED BY <1>5, <1>6

\* The beginnings of a sequence of sequences, each without what follows it.
Beginnings(ss, m, fl) ==
    /\ fl = [i \in 1..m |-> fl[i]]
    /\ \A i \in 1..m : fl[i] = IF i = 1 THEN ss[i] ELSE fl[i - 1] \o ss[i]

LEMMA BeginningsAre ==
    ASSUME NEW ss, Len(ss) \in Nat
    PROVE  \E fl : Beginnings(ss, Len(ss), fl)
<1> DEFINE P(m) == \E fl : Beginnings(ss, m, fl)
           S == {m \in Nat : P(m)}
<1>1. 0 \in S
  <2>1. Beginnings(ss, 0, <<>>) BY DEF Beginnings
  <2> QED BY <2>1
<1>2. ASSUME NEW n \in Nat, n \in S PROVE n + 1 \in S
  <2>1. PICK fl : Beginnings(ss, n, fl) BY <1>2
  <2> DEFINE last == IF n + 1 = 1 THEN ss[n + 1] ELSE fl[(n + 1) - 1] \o ss[n + 1]
             gl == [i \in 1..(n + 1) |-> IF i = n + 1 THEN last ELSE fl[i]]
  <2> HIDE DEF last
  <2>2. ASSUME NEW i \in 1..(n + 1)
        PROVE  gl[i] = IF i = 1 THEN ss[i] ELSE gl[i - 1] \o ss[i]
    <3>1. CASE i = n + 1
      <4>1. gl[i] = last BY <3>1
      <4>2. i # 1 => gl[i - 1] = fl[i - 1] BY <3>1
      <4> QED BY <3>1, <4>1, <4>2 DEF last
    <3>2. CASE i # n + 1
      <4>1. i \in 1..n /\ gl[i] = fl[i] BY <3>2
      <4>2. i # 1 => gl[i - 1] = fl[i - 1] BY <4>1
      <4> HIDE DEF gl
      <4> QED BY <2>1, <4>1, <4>2 DEF Beginnings
    <3> QED BY <3>1, <3>2
  <2>3. gl = [i \in 1..(n + 1) |-> gl[i]] OBVIOUS
  <2> HIDE DEF gl
  <2>4. Beginnings(ss, n + 1, gl) BY <2>2, <2>3 DEF Beginnings
  <2> QED BY <2>4
<1> HIDE DEF S
<1>3. Len(ss) \in S BY <1>1, <1>2, AllNumbers
<1> QED BY <1>3 DEF S

LEMMA FlattenedIs ==
    ASSUME NEW ss, Len(ss) \in Nat \ {0}
    PROVE  \E fl : Beginnings(ss, Len(ss), fl) /\ FlattenSeq(ss) = fl[Len(ss)]
<1> DEFINE Is(g) == g = [i \in 1..Len(ss) |-> IF i = 1 THEN ss[i] ELSE g[i - 1] \o ss[i]]
           fl == CHOOSE g : Is(g)
<1>1. FlattenSeq(ss) = fl[Len(ss)] BY DEF FlattenSeq
<1>2. PICK g : Beginnings(ss, Len(ss), g) BY BeginningsAre
<1>3. Is(g)
  <2>1. \A i \in 1..Len(ss) : g[i] = IF i = 1 THEN ss[i] ELSE g[i - 1] \o ss[i]
    BY <1>2 DEF Beginnings
  <2>2. g = [i \in 1..Len(ss) |-> g[i]] BY <1>2 DEF Beginnings
  <2> QED BY <2>1, <2>2
<1> HIDE DEF Is
<1>4. Is(fl) BY <1>3
<1> HIDE DEF fl
<1>5. Beginnings(ss, Len(ss), fl)
  BY <1>4 DEF Is, Beginnings
<1> QED BY <1>1, <1>5

\* f[m]: the first m of them, one behind the other.
Joins(ss, f) ==
    /\ f[0] = <<>>
    /\ \A m \in 1..Len(ss) : f[m] = f[m - 1] \o ss[m]

LEMMA JoinsOf ==
    ASSUME NEW S, NEW ss \in Seq(Seq(S))
    PROVE  \E f : Joins(ss, f) /\ FlattenSeq(ss) = f[Len(ss)]
<1>1. Len(ss) \in Nat /\ \A m \in 1..Len(ss) : ss[m] \in Seq(S) OBVIOUS
<1>2. CASE Len(ss) = 0
  <2>1. FlattenSeq(ss) = <<>> BY <1>2 DEF FlattenSeq
  <2> DEFINE f == [m \in {0} |-> <<>>]
  <2>2. Joins(ss, f) /\ f[0] = <<>> BY <1>2 DEF Joins
  <2> QED BY <1>2, <2>1, <2>2
<1>3. CASE Len(ss) # 0
  <2>1. PICK fl : Beginnings(ss, Len(ss), fl) /\ FlattenSeq(ss) = fl[Len(ss)]
    BY <1>1, <1>3, FlattenedIs
  <2> DEFINE f == [m \in 0..Len(ss) |-> IF m = 0 THEN <<>> ELSE fl[m]]
  <2>2. f[0] = <<>> /\ f[Len(ss)] = fl[Len(ss)] BY <1>1, <1>3
  <2>3. ASSUME NEW m \in 1..Len(ss) PROVE f[m] = f[m - 1] \o ss[m]
    <3>1. f[m] = fl[m] BY <1>1
    <3>2. CASE m = 1
      <4>1. f[m] = ss[1] BY <2>1, <3>1, <3>2 DEF Beginnings
      <4>4. m - 1 = 0 BY <3>2
      <4>5. f[m - 1] = <<>> BY <2>2, <4>4
      <4>2. ss[1] \in Seq(S) BY <1>1, <3>2
      <4>3. <<>> \o ss[1] = ss[1] BY <4>2
      <4> QED BY <3>2, <4>1, <4>3, <4>5
    <3>3. CASE m # 1
      <4>1. f[m - 1] = fl[m - 1] BY <1>1, <3>3
      <4> HIDE DEF f
      <4> QED BY <2>1, <3>1, <3>3, <4>1 DEF Beginnings
    <3> QED BY <3>2, <3>3
  <2> HIDE DEF f
  <2> QED BY <2>1, <2>2, <2>3 DEF Joins
<1> QED BY <1>2, <1>3

\* at[i] is how much is in front of the i-th of them in all of them.
Offsets(ss, flat, at) ==
    /\ \A i \in 1..(Len(ss) + 1) : at[i] \in Nat
    /\ at[1] = 0 /\ at[Len(ss) + 1] = Len(flat)
    /\ \A i \in 1..Len(ss) : at[i + 1] = at[i] + Len(ss[i])
    /\ \A i, j \in 1..Len(ss) : i < j => at[i + 1] <= at[j]
    /\ \A i \in 1..Len(ss) : \A j \in 1..Len(ss[i]) :
          at[i] + j \in 1..Len(flat) /\ flat[at[i] + j] = ss[i][j]
    /\ \A k \in 1..Len(flat) :
          \E i \in 1..Len(ss) : \E j \in 1..Len(ss[i]) : k = at[i] + j

LEMMA TwoJoined ==
    ASSUME NEW S, NEW a \in Seq(S), NEW b \in Seq(S), NEW c, c = a \o b
    PROVE  /\ Len(a) \in Nat /\ Len(b) \in Nat
           /\ Len(c) \in Nat /\ Len(c) = Len(a) + Len(b)
           /\ \A i \in 1..Len(a) : c[i] = a[i]
           /\ \A j \in 1..Len(b) : c[Len(a) + j] = b[j]
BY ConcatProperties

LEMMA FlattenedHas ==
    ASSUME NEW S, NEW ss \in Seq(Seq(S))
    PROVE  FlattenSeq(ss) \in Seq(S) /\ \E at : Offsets(ss, FlattenSeq(ss), at)
<1>1. PICK n : n = Len(ss) OBVIOUS
<1>2. PICK f : Joins(ss, f) /\ FlattenSeq(ss) = f[n] BY <1>1, JoinsOf
<1>3. n \in Nat /\ \A m \in 1..n : ss[m] \in Seq(S) /\ Len(ss[m]) \in Nat BY <1>1
<1>4. f[0] = <<>> /\ \A m \in 1..n : f[m] = f[m - 1] \o ss[m] BY <1>1, <1>2 DEF Joins
<1> DEFINE T == {m \in Nat : m <= n => f[m] \in Seq(S)}
<1>5. \A m \in 0..n : f[m] \in Seq(S)
  <2>1. 0 \in T
    <3>1. <<>> \in Seq(S) BY EmptySeq
    <3> QED BY <1>4, <3>1
  <2>2. ASSUME NEW m \in Nat, m \in T PROVE m + 1 \in T
    <3> SUFFICES ASSUME m + 1 <= n PROVE f[m + 1] \in Seq(S) BY <1>3
    <3>1. m + 1 \in 1..n /\ (m + 1) - 1 = m /\ f[m] \in Seq(S) BY <1>3, <2>2
    <3>2. f[m + 1] = f[m] \o ss[m + 1] BY <1>4, <3>1
    <3>3. ss[m + 1] \in Seq(S) BY <1>3, <3>1
    <3> QED BY <3>1, <3>2, <3>3, ConcatProperties
  <2> HIDE DEF T
  <2>3. \A m \in Nat : m \in T BY <2>1, <2>2, AllNumbers
  <2> QED BY <1>3, <2>3 DEF T
<1>6. ASSUME NEW m \in 1..n
      PROVE  /\ Len(f[m]) = Len(f[m - 1]) + Len(ss[m])
             /\ Len(f[m]) \in Nat /\ Len(f[m - 1]) \in Nat /\ Len(ss[m]) \in Nat
             /\ \A i \in 1..Len(f[m - 1]) : f[m][i] = f[m - 1][i]
             /\ \A j \in 1..Len(ss[m]) : f[m][Len(f[m - 1]) + j] = ss[m][j]
  <2>1. f[m - 1] \in Seq(S) /\ ss[m] \in Seq(S) BY <1>3, <1>5
  <2>2. f[m] = f[m - 1] \o ss[m] BY <1>4
  <2>3. PICK a, b, c : a = f[m - 1] /\ b = ss[m] /\ c = f[m] OBVIOUS
  <2>4. a \in Seq(S) /\ b \in Seq(S) /\ c = a \o b BY <2>1, <2>2, <2>3
  <2>5. /\ Len(a) \in Nat /\ Len(b) \in Nat
        /\ Len(c) \in Nat /\ Len(c) = Len(a) + Len(b)
        /\ \A i \in 1..Len(a) : c[i] = a[i]
        /\ \A j \in 1..Len(b) : c[Len(a) + j] = b[j]
    BY <2>4, TwoJoined
  <2> QED BY <2>3, <2>5, Zenon
<1> HIDE DEF T
<1> DEFINE Joined(m) ==
             /\ \A i \in 0..m : Len(f[i]) <= Len(f[m])
             /\ \A i \in 1..m : \A j \in 1..Len(ss[i]) :
                   /\ Len(f[i - 1]) + j \in 1..Len(f[m])
                   /\ f[m][Len(f[i - 1]) + j] = ss[i][j]
             /\ \A k \in 1..Len(f[m]) :
                   \E i \in 1..m : \E j \in 1..Len(ss[i]) : k = Len(f[i - 1]) + j
           J == {m \in Nat : m <= n => Joined(m)}
<1>7. \A m \in 0..n : Len(f[m]) \in Nat BY <1>5
<1>8. \A m \in 0..n : Joined(m)
  <2>1. 0 \in J
    <3>1. Len(f[0]) = 0 BY <1>4
    <3> QED BY <3>1
  <2>2. ASSUME NEW m \in Nat, m \in J PROVE m + 1 \in J
    <3> SUFFICES ASSUME m + 1 <= n PROVE Joined(m + 1) BY <1>3
    <3>1. m + 1 \in 1..n /\ (m + 1) - 1 = m /\ n \in Nat BY <1>3
    <3>10. Joined(m)
      <4> HIDE DEF Joined
      <4> QED BY <1>3, <2>2
    <3>2. /\ Len(f[m + 1]) = Len(f[m]) + Len(ss[m + 1])
          /\ Len(f[m + 1]) \in Nat /\ Len(f[m]) \in Nat /\ Len(ss[m + 1]) \in Nat
          /\ \A i \in 1..Len(f[m]) : f[m + 1][i] = f[m][i]
          /\ \A j \in 1..Len(ss[m + 1]) : f[m + 1][Len(f[m]) + j] = ss[m + 1][j]
      <4> HIDE DEF Joined, J
      <4>1. PICK l : l = m + 1 OBVIOUS
      <4>2. l \in 1..n /\ l - 1 = m BY <3>1, <4>1
      <4>3. f[l - 1] = f[m] BY <4>2
      <4>4. /\ Len(f[l]) = Len(f[m]) + Len(ss[l])
            /\ Len(f[l]) \in Nat /\ Len(f[m]) \in Nat /\ Len(ss[l]) \in Nat
            /\ \A i \in 1..Len(f[m]) : f[l][i] = f[m][i]
            /\ \A j \in 1..Len(ss[l]) : f[l][Len(f[m]) + j] = ss[l][j]
        BY <1>6, <4>2, <4>3, Zenon
      <4> QED BY <4>1, <4>4, Zenon
    <3>20. PICK a, b, c : a = Len(f[m]) /\ b = Len(ss[m + 1]) /\ c = Len(f[m + 1])
      OBVIOUS
    <3>21. a \in Nat /\ b \in Nat /\ c \in Nat /\ c = a + b BY <3>2, <3>20
    <3>3. \A i \in 0..(m + 1) : Len(f[i]) <= Len(f[m + 1])
      <4> SUFFICES ASSUME NEW i \in 0..(m + 1) PROVE Len(f[i]) <= Len(f[m + 1])
        OBVIOUS
      <4>1. CASE i = m + 1
        <5>1. Len(f[i]) = c BY <3>20, <4>1, Zenon
        <5> QED BY <3>20, <3>21, <5>1
      <4>2. CASE i # m + 1
        <5>1. i \in 0..m /\ i \in 0..n BY <3>1, <4>2
        <5>2. Len(f[i]) <= Len(f[m]) /\ Len(f[i]) \in Nat BY <1>7, <3>10, <5>1
        <5>3. PICK x : x = Len(f[i]) OBVIOUS
        <5>4. x <= a /\ x \in Nat BY <3>20, <5>2, <5>3
        <5>5. x <= c BY <3>21, <5>4
        <5> QED BY <3>20, <5>3, <5>5, Zenon
      <4> QED BY <4>1, <4>2
    <3>4. ASSUME NEW i \in 1..(m + 1), NEW j \in 1..Len(ss[i])
          PROVE  /\ Len(f[i - 1]) + j \in 1..Len(f[m + 1])
                 /\ f[m + 1][Len(f[i - 1]) + j] = ss[i][j]
      <4>1. CASE i = m + 1
        <5>1. /\ j \in 1..Len(ss[m + 1]) /\ f[i - 1] = f[m]
              /\ ss[i][j] = ss[m + 1][j]
          BY <3>1, <4>1, Zenon
        <5>2. Len(f[m]) + j \in 1..Len(f[m + 1])
          <6>1. j \in 1..b BY <3>20, <5>1
          <6>2. a + j \in 1..c BY <3>21, <6>1
          <6> QED BY <3>20, <6>2, Zenon
        <5>3. f[m + 1][Len(f[m]) + j] = ss[m + 1][j] BY <3>2, <5>1
        <5> QED BY <5>1, <5>2, <5>3
      <4>2. CASE i # m + 1
        <5>1. i \in 1..m BY <4>2
        <5>2. /\ Len(f[i - 1]) + j \in 1..Len(f[m])
              /\ f[m][Len(f[i - 1]) + j] = ss[i][j]
          BY <3>10, <5>1
        <5>3. Len(f[i - 1]) + j \in 1..Len(f[m + 1])
          <6>1. PICK x : x = Len(f[i - 1]) + j OBVIOUS
          <6>2. x \in 1..a BY <3>20, <5>2, <6>1
          <6>3. x \in 1..c BY <3>21, <6>2
          <6> QED BY <3>20, <6>1, <6>3, Zenon
        <5>4. f[m + 1][Len(f[i - 1]) + j] = f[m][Len(f[i - 1]) + j] BY <3>2, <5>2
        <5> QED BY <5>2, <5>3, <5>4
      <4> QED BY <4>1, <4>2
    <3>5. ASSUME NEW k \in 1..Len(f[m + 1])
          PROVE  \E i \in 1..(m + 1) : \E j \in 1..Len(ss[i]) : k = Len(f[i - 1]) + j
      <4>1. CASE k \in 1..Len(f[m])
        <5>1. PICK i \in 1..m : \E j \in 1..Len(ss[i]) : k = Len(f[i - 1]) + j
          BY <3>10, <4>1
        <5>2. i \in 1..(m + 1) OBVIOUS
        <5> QED BY <5>1, <5>2
      <4>2. CASE k \notin 1..Len(f[m])
        <5>3. k \in 1..c /\ k \notin 1..a BY <3>20, <4>2
        <5>4. PICK j : j \in 1..b /\ k = a + j
          <6>1. k - a \in 1..b /\ k = a + (k - a) BY <3>21, <5>3
          <6> QED BY <6>1
        <5>5. m + 1 \in 1..(m + 1) /\ j \in 1..Len(ss[m + 1])
              /\ k = Len(f[(m + 1) - 1]) + j
          BY <3>1, <3>20, <5>4
        <5> QED BY <5>5
      <4> QED BY <4>1, <4>2
    <3> QED BY <3>3, <3>4, <3>5
  <2> HIDE DEF J
  <2>3. \A m \in Nat : m \in J BY <2>1, <2>2, AllNumbers
  <2> HIDE DEF Joined
  <2> QED BY <1>3, <2>3 DEF J
<1> DEFINE at == [i \in 1..(n + 1) |-> Len(f[i - 1])]
<1>9. \A i \in 1..(n + 1) : at[i] = Len(f[i - 1]) /\ i - 1 \in 0..n BY <1>3
<1>10. \A i \in 1..n : at[i + 1] = Len(f[i]) /\ at[i] = Len(f[i - 1]) BY <1>3
<1>11. at[1] = 0 /\ at[n + 1] = Len(f[n])
  <2>1. Len(f[0]) = 0 BY <1>4
  <2> QED BY <1>3, <2>1
<1> HIDE DEF at, Joined
<1>12. Joined(n) BY <1>3, <1>8
<1>13. \A i \in 1..n : at[i + 1] = at[i] + Len(ss[i]) BY <1>6, <1>10
<1>14. ASSUME NEW i \in 1..n, NEW j \in 1..n, i < j PROVE at[i + 1] <= at[j]
  <2>1. j - 1 \in 0..n /\ i \in 0..(j - 1) BY <1>3, <1>14
  <2>2. Len(f[i]) <= Len(f[j - 1]) BY <1>8, <2>1 DEF Joined
  <2> QED BY <1>10, <2>2
<1>15. \A i \in 1..n : \A j \in 1..Len(ss[i]) :
          at[i] + j \in 1..Len(f[n]) /\ f[n][at[i] + j] = ss[i][j]
  <2> SUFFICES ASSUME NEW i \in 1..n, NEW j \in 1..Len(ss[i])
               PROVE  at[i] + j \in 1..Len(f[n]) /\ f[n][at[i] + j] = ss[i][j]
    OBVIOUS
  <2>1. at[i] = Len(f[i - 1]) BY <1>10
  <2>2. Len(f[i - 1]) + j \in 1..Len(f[n]) /\ f[n][Len(f[i - 1]) + j] = ss[i][j]
    BY <1>12, Zenon DEF Joined
  <2> QED BY <2>1, <2>2, Zenon
<1>16. \A k \in 1..Len(f[n]) :
          \E i \in 1..n : \E j \in 1..Len(ss[i]) : k = at[i] + j
  <2> SUFFICES ASSUME NEW k \in 1..Len(f[n])
               PROVE  \E i \in 1..n : \E j \in 1..Len(ss[i]) : k = at[i] + j
    OBVIOUS
  <2>1. PICK i \in 1..n : \E j \in 1..Len(ss[i]) : k = Len(f[i - 1]) + j
    BY <1>12 DEF Joined
  <2>2. at[i] = Len(f[i - 1]) BY <1>10
  <2> QED BY <2>1, <2>2, Zenon
<1>17. \A i \in 1..(n + 1) : at[i] \in Nat BY <1>7, <1>9
<1>18. Offsets(ss, f[n], at)
  BY <1>1, <1>11, <1>13, <1>14, <1>15, <1>16, <1>17 DEF Offsets
<1>19. f[n] \in Seq(S) BY <1>3, <1>5
<1> QED BY <1>2, <1>18, <1>19

-----------------------------------------------------------------------------
(* What a line is. *)

LEMMA LineFields ==
    ASSUME NEW r \in Revision
    PROVE  /\ Other \in Line /\ Other.kind = "other"
           /\ OkLine \in Line /\ OkLine.kind = "other"
           /\ TotalLine \in Line /\ TotalLine.kind = "total"
           /\ RevisionLine(r) \in Line /\ RevisionLine(r).kind = "revision"
           /\ RevisionLine(r).text = IF r.locked THEN Append(r.ver, Tab) ELSE r.ver
           /\ RevisionLine(r).text \in Text
           /\ DateLine(r) \in Line /\ DateLine(r).kind = "date" /\ DateLine(r).of = r.ver
<1>1. Other \in Line /\ Other = [kind |-> "other", text |-> None, of |-> None, ok |-> FALSE]
  BY DEF Other, LineOf, Line
<1>2. OkLine = [kind |-> "other", text |-> None, of |-> None, ok |-> TRUE]
  <2>1. OkLine = [[kind |-> "other", text |-> None, of |-> None, ok |-> FALSE]
                    EXCEPT !.ok = TRUE]
    BY Zenon DEF Other, LineOf, OkLine
  <2>2. \A k, t, o, c, x : [[kind |-> k, text |-> t, of |-> o, ok |-> c] EXCEPT !.ok = x]
                             = [kind |-> k, text |-> t, of |-> o, ok |-> x]
    BY SMT
  <2> QED BY <2>1, <2>2, Zenon
<1>3. TotalLine = [kind |-> "total", text |-> <<>>, of |-> None, ok |-> FALSE]
  BY DEF LineOf, TotalLine
<1>4. <<>> \in Text
  <2>1. \A S : <<>> \in Seq(S) BY EmptySeq
  <2> QED BY <2>1 DEF Text
<1>5. r.ver \in Text /\ r.locked \in BOOLEAN /\ r.message \in Seq(Written)
  BY DEF Revision
<1> DEFINE x == IF r.locked THEN Append(r.ver, Tab) ELSE r.ver
<1>6. x \in Text BY <1>5, LogAssumption DEF Text
<1>7. RevisionLine(r) = [kind |-> "revision", text |-> x, of |-> None, ok |-> FALSE]
  BY DEF LineOf, RevisionLine
<1>8. DateLine(r) = [kind |-> "date", text |-> None, of |-> r.ver, ok |-> FALSE]
  BY DEF LineOf, DateLine
<1>9. x = IF r.locked THEN Append(r.ver, Tab) ELSE r.ver OBVIOUS
<1> HIDE DEF x
<1>10. OkLine \in Line /\ OkLine.kind = "other" BY <1>2 DEF Line
<1>11. TotalLine \in Line /\ TotalLine.kind = "total" BY <1>3, <1>4 DEF Line
<1>12. /\ RevisionLine(r) \in Line /\ RevisionLine(r).kind = "revision"
       /\ RevisionLine(r).text = x
  BY <1>6, <1>7 DEF Line
<1>13. DateLine(r) \in Line /\ DateLine(r).kind = "date" /\ DateLine(r).of = r.ver
  BY <1>5, <1>8 DEF Line
<1> QED BY <1>1, <1>6, <1>9, <1>10, <1>11, <1>12, <1>13, Zenon

LEMMA BlockOf ==
    ASSUME NEW r \in Revision
    PROVE  /\ RevisionLines(r) \in Seq(Line)
           /\ Len(r.message) \in Nat /\ Len(RevisionLines(r)) = 3 + Len(r.message)
           /\ RevisionLines(r)[1] = Other
           /\ RevisionLines(r)[2] = RevisionLine(r)
           /\ RevisionLines(r)[3] = DateLine(r)
           /\ \A j \in 1..Len(r.message) : RevisionLines(r)[3 + j] = r.message[j]
<1> DEFINE a == <<Other, RevisionLine(r), DateLine(r)>>
<1>1. /\ a \in Seq(Line) /\ Len(a) = 3
      /\ a[1] = Other /\ a[2] = RevisionLine(r) /\ a[3] = DateLine(r)
  BY LineFields
<1>2. r.message \in Seq(Line) BY DEF Revision, Written
<1>3. RevisionLines(r) = a \o r.message BY DEF RevisionLines
<1> HIDE DEF a
<1>7. PICK b, c : b = r.message /\ c = RevisionLines(r) OBVIOUS
<1>8. /\ Len(a) \in Nat /\ Len(b) \in Nat /\ Len(c) = Len(a) + Len(b)
      /\ \A i \in 1..Len(a) : c[i] = a[i]
      /\ \A j \in 1..Len(b) : c[Len(a) + j] = b[j]
  <2>1. a \in Seq(Line) /\ b \in Seq(Line) /\ c = a \o b BY <1>1, <1>2, <1>3, <1>7
  <2> QED BY <2>1, TwoJoined
<1>4. /\ Len(a) \in Nat /\ Len(r.message) \in Nat
      /\ Len(RevisionLines(r)) = Len(a) + Len(r.message)
      /\ \A i \in 1..Len(a) : RevisionLines(r)[i] = a[i]
      /\ \A j \in 1..Len(r.message) : RevisionLines(r)[Len(a) + j] = r.message[j]
  BY <1>7, <1>8, Zenon
<1>5. RevisionLines(r) \in Seq(Line) BY <1>1, <1>2, <1>3, ConcatProperties
<1>6. 1 \in 1..3 /\ 2 \in 1..3 /\ 3 \in 1..3 OBVIOUS
<1> QED BY <1>1, <1>4, <1>5, <1>6

\* Two lines of a message, one behind the other.
LEMMA PastedPair ==
    ASSUME NEW h, NEW m \in Messages(h), NEW i \in 1..(Len(m) - 1), m \in Seq(Written),
           m[i].kind = "revision", m[i + 1].kind = "date"
    PROVE  <<m[i], m[i + 1]>> \in Pasted(h)
<1>1. Len(m) \in Nat /\ DOMAIN m = 1..Len(m) OBVIOUS
<1>2. i \in DOMAIN m /\ i + 1 \in DOMAIN m BY <1>1
<1>3. m[i] \in ToSet(m) /\ m[i + 1] \in ToSet(m) BY <1>2 DEF ToSet
<1>4. m[i] \in WrittenLines(h) /\ m[i + 1] \in WrittenLines(h) BY <1>3 DEF WrittenLines
<1> QED BY <1>4, Zenon DEF Pasted

\* In a block a date is the third line or one that a user wrote, and only the
\* second line and those that users wrote begin with "revision".
LEMMA BlockKinds ==
    ASSUME NEW r \in Revision, NEW h, r.message \in Messages(h),
           NEW j \in 1..Len(RevisionLines(r))
    PROVE  /\ RevisionLines(r)[j].kind = "date" =>
                 \/ j = 3
                 \/ /\ j - 1 \in 1..Len(RevisionLines(r))
                    /\ RevisionLines(r)[j - 1].kind = "revision" =>
                          <<RevisionLines(r)[j - 1], RevisionLines(r)[j]>> \in Pasted(h)
           /\ RevisionLines(r)[j].kind = "revision" =>
                 j = 2 \/ RevisionLines(r)[j] \in WrittenLines(h)
<1> PICK b, m : b = RevisionLines(r) /\ m = r.message OBVIOUS
<1>1. /\ Len(m) \in Nat /\ Len(b) = 3 + Len(m)
      /\ b[1] = Other /\ b[2] = RevisionLine(r) /\ b[3] = DateLine(r)
      /\ \A i \in 1..Len(m) : b[3 + i] = m[i]
  BY BlockOf
<1>2. /\ Other.kind = "other" /\ RevisionLine(r).kind = "revision"
      /\ DateLine(r).kind = "date"
  BY LineFields
<1>3. m \in Seq(Written) /\ m \in Messages(h) BY DEF Revision
<1>4. CASE j \in 1..3
  <2>1. j = 1 \/ j = 2 \/ j = 3 BY <1>4
  <2> QED BY <1>1, <1>2, <2>1
<1>5. CASE j \notin 1..3
  <2>1. PICK i : i \in 1..Len(m) /\ j = 3 + i
    <3>1. j - 3 \in 1..Len(m) /\ j = 3 + (j - 3) BY <1>1, <1>5
    <3> QED BY <3>1
  <2>2. b[j] = m[i] BY <1>1, <2>1
  <2>3. m[i] \in WrittenLines(h)
    <3>1. i \in DOMAIN m BY <1>3, <2>1
    <3>2. m[i] \in ToSet(m) BY <3>1 DEF ToSet
    <3> QED BY <3>2 DEF WrittenLines
  <2>4. j - 1 \in 1..Len(b) BY <1>1, <2>1
  <2>5. ASSUME b[j].kind = "date", b[j - 1].kind = "revision"
        PROVE  <<b[j - 1], b[j]>> \in Pasted(h)
    <3>1. i # 1
      <4>1. i = 1 => j - 1 = 3 BY <2>1
      <4> QED BY <1>1, <1>2, <2>5, <4>1
    <3>2. PICK k : k = i - 1 OBVIOUS
    <3>3. k \in 1..Len(m) /\ k \in 1..(Len(m) - 1) /\ k + 1 = i /\ j - 1 = 3 + k
      BY <1>1, <2>1, <3>1, <3>2
    <3>4. b[j - 1] = m[k] /\ b[j] = m[k + 1] BY <1>1, <2>2, <3>3
    <3>5. m[k].kind = "revision" /\ m[k + 1].kind = "date" BY <2>5, <3>4
    <3>6. <<m[k], m[k + 1]>> \in Pasted(h) BY <1>3, <3>3, <3>5, PastedPair
    <3> QED BY <3>4, <3>6, Zenon
  <2> QED BY <2>2, <2>3, <2>4, <2>5, Zenon
<1> QED BY <1>4, <1>5

-----------------------------------------------------------------------------
(* Where a log has its revisions. *)

Place(t, q, r) ==
    /\ q \in 2..(Len(t) - 1)
    /\ t[q - 1] = Other /\ t[q] = RevisionLine(r) /\ t[q + 1] = DateLine(r)

\* The i-th revision is at pos[i], one after the other.  No other line begins
\* with "revision" unless a user of h wrote it, and no other one that does is
\* followed by a date, unless a user pasted both.
Laid(t, revisions, h, pos) ==
    /\ t \in Seq(Line) /\ Len(t) # 0 /\ t[Len(t)].kind = "other"
    /\ \A i \in 1..Len(revisions) : Place(t, pos[i], revisions[i])
    /\ \A i, j \in 1..Len(revisions) : i < j => pos[i] < pos[j]
    /\ \A q \in 1..Len(t) :
          t[q].kind = "date" =>
             \/ \E i \in 1..Len(revisions) : q = pos[i] + 1
             \/ t[q - 1].kind = "revision" => <<t[q - 1], t[q]>> \in Pasted(h)
    /\ \A q \in 1..Len(t) : t[q].kind = "revision" =>
          t[q] \in WrittenLines(h) \/ \E i \in 1..Len(revisions) : q = pos[i]

\* Three sequences, one behind the other.
LEMMA ThreeJoined ==
    ASSUME NEW S, NEW a \in Seq(S), NEW b \in Seq(S), NEW c \in Seq(S),
           NEW t, t = a \o b \o c
    PROVE  /\ t \in Seq(S)
           /\ Len(a) \in Nat /\ Len(b) \in Nat /\ Len(c) \in Nat
           /\ Len(t) = Len(a) + Len(b) + Len(c)
           /\ \A i \in 1..Len(a) : t[i] = a[i]
           /\ \A i \in 1..Len(b) : t[Len(a) + i] = b[i]
           /\ \A i \in 1..Len(c) : t[Len(a) + Len(b) + i] = c[i]
<1>1. PICK d : d = a \o b OBVIOUS
<1>2. t = d \o c /\ d \in Seq(S) BY <1>1, ConcatProperties
<1>3. /\ Len(a) \in Nat /\ Len(b) \in Nat /\ Len(d) = Len(a) + Len(b)
      /\ \A i \in 1..Len(a) : d[i] = a[i]
      /\ \A i \in 1..Len(b) : d[Len(a) + i] = b[i]
  BY <1>1, TwoJoined
<1>4. /\ Len(d) \in Nat /\ Len(c) \in Nat /\ Len(t) = Len(d) + Len(c)
      /\ \A i \in 1..Len(d) : t[i] = d[i]
      /\ \A i \in 1..Len(c) : t[Len(d) + i] = c[i]
  BY <1>2, TwoJoined
<1>5. t \in Seq(S) BY <1>2, ConcatProperties
<1>6. PICK x, y, z : x = Len(a) /\ y = Len(b) /\ z = Len(c) OBVIOUS
<1>7. \A i \in 1..x : i \in 1..(x + y) BY <1>3, <1>6
<1>8. \A i \in 1..y : x + i \in 1..(x + y) BY <1>3, <1>6
<1> QED BY <1>3, <1>4, <1>5, <1>6, <1>7, <1>8

LEMMA OtherLines ==
    /\ Other \in Line /\ Other.kind = "other"
    /\ OkLine \in Line /\ OkLine.kind = "other"
    /\ TotalLine \in Line /\ TotalLine.kind = "total"
<1> DEFINE r == [ver |-> <<Tab>>, locked |-> TRUE, message |-> <<>>]
<1>1. \A S : <<>> \in Seq(S) BY EmptySeq
<1>2. <<Tab>> \in Text \ {<<>>} BY LogAssumption DEF Text
<1>3. r \in Revision BY <1>1, <1>2 DEF Revision
<1> HIDE DEF r
<1> QED BY <1>3, LineFields

LEMMA HeadKinds ==
    ASSUME NEW h, h.description \in Seq(Written), NEW head,
           head = <<Other, TotalLine>> \o h.description
    PROVE  /\ head \in Seq(Line) /\ Len(head) \in Nat /\ 2 <= Len(head)
           /\ \A i \in 1..Len(head) :
                 /\ head[i].kind = "date" =>
                       /\ i - 1 \in 1..Len(head)
                       /\ head[i - 1].kind = "revision" =>
                             <<head[i - 1], head[i]>> \in Pasted(h)
                 /\ head[i].kind = "revision" => head[i] \in WrittenLines(h)
<1> PICK b : b = h.description OBVIOUS
<1> DEFINE a == <<Other, TotalLine>>
<1>1. Other \in Line /\ Other.kind = "other" /\ TotalLine \in Line /\ TotalLine.kind = "total"
  BY OtherLines
<1>2. a \in Seq(Line) /\ Len(a) = 2 /\ a[1] = Other /\ a[2] = TotalLine BY <1>1
<1>3. b \in Seq(Written) /\ b \in Seq(Line) BY DEF Written
<1>4. head = a \o b OBVIOUS
<1> HIDE DEF a
<1>5. /\ Len(b) \in Nat /\ Len(head) = 2 + Len(b)
      /\ \A i \in 1..2 : head[i] = a[i]
      /\ \A i \in 1..Len(b) : head[2 + i] = b[i]
  BY <1>2, <1>3, <1>4, TwoJoined
<1>6. head \in Seq(Line) BY <1>2, <1>3, <1>4, ConcatProperties
<1>7. b \in Messages(h) BY DEF Messages
<1>8. ASSUME NEW i \in 1..Len(head)
      PROVE  /\ head[i].kind = "date" =>
                   /\ i - 1 \in 1..Len(head)
                   /\ head[i - 1].kind = "revision" =>
                         <<head[i - 1], head[i]>> \in Pasted(h)
             /\ head[i].kind = "revision" => head[i] \in WrittenLines(h)
  <2>1. CASE i \in 1..2
    <3>1. i = 1 \/ i = 2 BY <2>1
    <3> QED BY <1>1, <1>2, <1>5, <3>1
  <2>2. CASE i \notin 1..2
    <3>1. PICK j : j \in 1..Len(b) /\ i = 2 + j
      <4>1. i - 2 \in 1..Len(b) /\ i = 2 + (i - 2) BY <1>5, <2>2
      <4> QED BY <4>1
    <3>2. head[i] = b[j] BY <1>5, <3>1
    <3>3. b[j] \in WrittenLines(h)
      <4>1. j \in DOMAIN b BY <1>3, <3>1
      <4>2. b[j] \in ToSet(b) BY <4>1 DEF ToSet
      <4> QED BY <1>7, <4>2 DEF WrittenLines
    <3>4. i - 1 \in 1..Len(head) BY <1>5, <3>1
    <3>5. ASSUME head[i].kind = "date", head[i - 1].kind = "revision"
          PROVE  <<head[i - 1], head[i]>> \in Pasted(h)
      <4>1. j # 1
        <5>1. j = 1 => i - 1 = 2 BY <3>1
        <5>2. 2 \in 1..2 OBVIOUS
        <5> QED BY <1>1, <1>2, <1>5, <3>5, <5>1, <5>2
      <4>2. PICK k : k = j - 1 OBVIOUS
      <4>3. k \in 1..Len(b) /\ k \in 1..(Len(b) - 1) /\ k + 1 = j /\ i - 1 = 2 + k
        BY <1>5, <3>1, <4>1, <4>2
      <4>4. head[i - 1] = b[k] /\ head[i] = b[k + 1] BY <1>5, <3>2, <4>3
      <4>5. b[k].kind = "revision" /\ b[k + 1].kind = "date" BY <3>5, <4>4
      <4>6. <<b[k], b[k + 1]>> \in Pasted(h) BY <1>3, <1>7, <4>3, <4>5, PastedPair
      <4> QED BY <4>4, <4>6, Zenon
    <3> QED BY <3>2, <3>3, <3>4, <3>5, Zenon
  <2> QED BY <2>1, <2>2
<1>9. Len(head) \in Nat /\ 2 <= Len(head) BY <1>5
<1> QED BY <1>6, <1>8, <1>9, Zenon

LEMMA LogLinesLaid ==
    ASSUME NEW h, h.description \in Seq(Written), NEW rs \in Seq(Revision),
           \A i \in DOMAIN rs : rs[i].message \in Messages(h)
    PROVE  \E pos : Laid(LogLines(h, rs), rs, h, pos)
<1> DEFINE blocks == [i \in DOMAIN rs |-> RevisionLines(rs[i])]
<1>n. PICK n : n = Len(rs) OBVIOUS
<1>1. n \in Nat /\ DOMAIN rs = 1..n /\ \A i \in 1..n : rs[i] \in Revision BY <1>n
<1>2. blocks \in Seq(Seq(Line)) /\ Len(blocks) = n
      /\ \A i \in 1..n : blocks[i] = RevisionLines(rs[i])
  <2>1. \A i \in 1..n : RevisionLines(rs[i]) \in Seq(Line) BY <1>1, BlockOf
  <2> QED BY <1>1, <2>1
<1> HIDE DEF blocks
<1>f. PICK flat : flat = FlattenSeq(blocks) OBVIOUS
<1>3. PICK at : Offsets(blocks, flat, at) BY <1>2, <1>f, FlattenedHas
<1>4. flat \in Seq(Line) BY <1>2, <1>f, FlattenedHas
<1>h. PICK head : head = <<Other, TotalLine>> \o h.description OBVIOUS
<1>l. PICK tail : tail = <<Other, OkLine>> OBVIOUS
<1>t. PICK t : t = LogLines(h, rs) OBVIOUS
<1>5. t = head \o flat \o tail BY <1>f, <1>h, <1>l, <1>t DEF LogLines, blocks
<1>6. /\ head \in Seq(Line) /\ Len(head) \in Nat /\ 2 <= Len(head)
      /\ \A i \in 1..Len(head) :
            /\ head[i].kind = "date" =>
                  /\ i - 1 \in 1..Len(head)
                  /\ head[i - 1].kind = "revision" =>
                        <<head[i - 1], head[i]>> \in Pasted(h)
            /\ head[i].kind = "revision" => head[i] \in WrittenLines(h)
  BY <1>h, HeadKinds
<1>7. /\ tail \in Seq(Line) /\ Len(tail) = 2
      /\ tail[1].kind = "other" /\ tail[2].kind = "other"
  BY <1>l, OtherLines
<1>x. PICK x, y, z : x = Len(head) /\ y = Len(flat) /\ z = Len(t) OBVIOUS
<1>8. /\ t \in Seq(Line) /\ x \in Nat /\ 2 <= x /\ y \in Nat /\ z = x + y + 2
      /\ \A i \in 1..x : t[i] = head[i]
      /\ \A i \in 1..y : t[x + i] = flat[i]
      /\ \A i \in 1..2 : t[x + y + i] = tail[i]
  <2>1. /\ t \in Seq(Line)
        /\ Len(head) \in Nat /\ Len(flat) \in Nat /\ Len(tail) \in Nat
        /\ Len(t) = Len(head) + Len(flat) + Len(tail)
        /\ \A i \in 1..Len(head) : t[i] = head[i]
        /\ \A i \in 1..Len(flat) : t[Len(head) + i] = flat[i]
        /\ \A i \in 1..Len(tail) : t[Len(head) + Len(flat) + i] = tail[i]
    <3>1. head \in Seq(Line) /\ flat \in Seq(Line) /\ tail \in Seq(Line)
      BY <1>4, <1>6, <1>7
    <3> QED BY <1>5, <3>1, ThreeJoined, SMTT(30)
  <2> QED BY <1>6, <1>7, <1>x, <2>1
<1>15. x \in Nat /\ 2 <= x /\ y \in Nat /\ z = x + y + 2 BY <1>8
<1> DEFINE pos == [i \in 1..n |-> x + (at[i] + 2)]
<1>9. ASSUME NEW i \in 1..n
      PROVE  /\ at[i] \in Nat /\ at[i] + 3 <= at[i + 1] /\ at[i + 1] \in Nat
             /\ at[i] + 3 \in 1..y
             /\ flat[at[i] + 1] = Other
             /\ flat[at[i] + 2] = RevisionLine(rs[i])
             /\ flat[at[i] + 3] = DateLine(rs[i])
  <2>1. PICK b : b = blocks[i] OBVIOUS
  <2>2. /\ Len(rs[i].message) \in Nat /\ Len(b) = 3 + Len(rs[i].message)
        /\ b[1] = Other /\ b[2] = RevisionLine(rs[i]) /\ b[3] = DateLine(rs[i])
    <3>1. PICK r : r = rs[i] OBVIOUS
    <3>2. r \in Revision /\ b = RevisionLines(r) BY <1>1, <1>2, <2>1, <3>1
    <3>3. /\ Len(r.message) \in Nat /\ Len(b) = 3 + Len(r.message)
          /\ b[1] = Other /\ b[2] = RevisionLine(r) /\ b[3] = DateLine(r)
      BY <3>2, BlockOf
    <3> QED BY <3>1, <3>3, Zenon
  <2>3. 1 \in 1..Len(b) /\ 2 \in 1..Len(b) /\ 3 \in 1..Len(b)
    <3>1. PICK l, w : l = Len(b) /\ w = Len(rs[i].message) OBVIOUS
    <3>2. w \in Nat /\ l = 3 + w BY <2>2, <3>1, Zenon
    <3>3. 1 \in 1..l /\ 2 \in 1..l /\ 3 \in 1..l BY <3>2
    <3> QED BY <3>1, <3>3, Zenon
  <2>4. \A j \in 1..Len(b) : at[i] + j \in 1..Len(flat) /\ flat[at[i] + j] = b[j]
    BY <1>2, <1>3, <2>1 DEF Offsets
  <2>8. y = Len(flat) BY <1>x
  <2>5. at[i + 1] = at[i] + Len(b) BY <1>2, <1>3, <2>1 DEF Offsets
  <2>6. at[i] \in Nat
    <3>1. i \in 1..(n + 1) BY <1>1
    <3> QED BY <1>2, <1>3, <3>1 DEF Offsets
  <2>7. at[i] + 3 <= at[i + 1] /\ at[i + 1] \in Nat
    <3>1. PICK u, v, w, l : u = at[i] /\ v = at[i + 1] /\ w = Len(rs[i].message) /\ l = Len(b)
      OBVIOUS
    <3>2. w \in Nat /\ l = 3 + w BY <2>2, <3>1
    <3>3. v = u + l /\ u \in Nat BY <2>5, <2>6, <3>1
    <3>4. u + 3 <= v /\ v \in Nat BY <3>2, <3>3
    <3> QED BY <3>1, <3>4
  <2> QED BY <2>2, <2>3, <2>4, <2>6, <2>7, <2>8
<1>10. \A i \in 1..n : pos[i] = x + (at[i] + 2) /\ pos[i] \in Nat
  <2>1. \A i \in 1..n : at[i] \in Nat BY <1>9
  <2> QED BY <1>15, <2>1
<1> HIDE DEF pos
<1>11. ASSUME NEW i \in 1..n PROVE Place(t, pos[i], rs[i])
  <2>1. PICK u : u = at[i] OBVIOUS
  <2>2. u \in Nat /\ u + 3 <= y /\ pos[i] = x + (u + 2)
    <3>1. at[i] \in Nat /\ at[i] + 3 \in 1..y BY <1>9, Zenon
    <3>2. pos[i] = x + (at[i] + 2) BY <1>10, Zenon
    <3>3. u \in Nat /\ u + 3 \in 1..y /\ pos[i] = x + (u + 2)
      BY <2>1, <3>1, <3>2, Zenon
    <3> QED BY <1>15, <3>3
  <2>3. u + 1 \in 1..y /\ u + 2 \in 1..y /\ u + 3 \in 1..y BY <1>15, <2>2
  <2>4. /\ t[x + (u + 1)] = Other
        /\ t[x + (u + 2)] = RevisionLine(rs[i])
        /\ t[x + (u + 3)] = DateLine(rs[i])
    BY <1>8, <1>9, <2>1, <2>3
  <2>5. PICK q : q = pos[i] OBVIOUS
  <2>6. q = x + (u + 2) BY <2>2, <2>5
  <2>7. u \in Nat /\ x \in Nat /\ y \in Nat /\ u + 3 <= y BY <1>15, <2>2
  <2>8. q - 1 = x + (u + 1) /\ q + 1 = x + (u + 3) BY <2>6, <2>7
  <2>9. q \in 2..(z - 1)
    <3>1. z = x + y + 2 BY <1>15
    <3> QED BY <2>6, <2>7, <3>1
  <2>10. Len(t) = z BY <1>x
  <2> QED BY <2>2, <2>4, <2>5, <2>8, <2>9, <2>10, Zenon DEF Place
<1>12. ASSUME NEW i \in 1..n, NEW j \in 1..n, i < j PROVE pos[i] < pos[j]
  <2>1. at[i + 1] <= at[j] BY <1>2, <1>3, <1>12 DEF Offsets
  <2>2. at[i] \in Nat /\ at[j] \in Nat /\ at[i + 1] \in Nat /\ at[i] + 3 <= at[i + 1]
    BY <1>9
  <2>3. at[i] < at[j] BY <2>1, <2>2
  <2>4. PICK u, v : u = at[i] /\ v = at[j] OBVIOUS
  <2>5. pos[i] = x + (u + 2) /\ pos[j] = x + (v + 2) BY <1>10, <2>4
  <2>6. u \in Nat /\ v \in Nat /\ u < v BY <2>2, <2>3, <2>4
  <2>7. x \in Nat BY <1>15
  <2> QED BY <2>5, <2>6, <2>7
<1>13. ASSUME NEW q \in 1..z
       PROVE  /\ t[q].kind = "date" =>
                    \/ \E i \in 1..n : q = pos[i] + 1
                    \/ t[q - 1].kind = "revision" => <<t[q - 1], t[q]>> \in Pasted(h)
              /\ t[q].kind = "revision" =>
                    t[q] \in WrittenLines(h) \/ \E i \in 1..n : q = pos[i]
  <2>1. CASE q \in 1..x
    <3>1. t[q] = head[q] BY <1>8, <2>1
    <3>2. /\ head[q].kind = "date" =>
                /\ q - 1 \in 1..x
                /\ head[q - 1].kind = "revision" =>
                      <<head[q - 1], head[q]>> \in Pasted(h)
          /\ head[q].kind = "revision" => head[q] \in WrittenLines(h)
      BY <1>6, <1>x, <2>1
    <3>3. q - 1 \in 1..x => t[q - 1] = head[q - 1] BY <1>8
    <3> QED BY <3>1, <3>2, <3>3, Zenon
  <2>2. CASE q \in (x + 1)..(x + y)
    <3>1. PICK k : k \in 1..y /\ q = x + k
      <4>1. q - x \in 1..y /\ q = x + (q - x) BY <1>15, <2>2
      <4> QED BY <4>1
    <3>2. PICK i \in 1..n : \E j \in 1..Len(blocks[i]) : k = at[i] + j
      BY <1>2, <1>3, <1>x, <3>1 DEF Offsets
    <3>3. PICK j \in 1..Len(blocks[i]) : k = at[i] + j BY <3>2
    <3>4. t[q] = flat[k] BY <1>8, <3>1
    <3>5. flat[k] = blocks[i][j] BY <1>x, <1>2, <1>3, <3>3 DEF Offsets
    <3>6. rs[i].message \in Messages(h) BY <1>1
    <3>7. rs[i] \in Revision /\ j \in 1..Len(RevisionLines(rs[i]))
          /\ blocks[i] = RevisionLines(rs[i])
      BY <1>1, <1>2
    <3>b. PICK b : b = blocks[i] OBVIOUS
    <3>8. /\ t[q].kind = "date" =>
                \/ j = 3
                \/ /\ j - 1 \in 1..Len(b)
                   /\ b[j - 1].kind = "revision" => <<b[j - 1], t[q]>> \in Pasted(h)
          /\ t[q].kind = "revision" => j = 2 \/ t[q] \in WrittenLines(h)
      <4>1. PICK r : r = rs[i] OBVIOUS
      <4>2. /\ r \in Revision /\ r.message \in Messages(h)
            /\ j \in 1..Len(RevisionLines(r)) /\ b = RevisionLines(r)
        BY <3>6, <3>7, <3>b, <4>1, Zenon
      <4>3. t[q] = b[j] BY <3>4, <3>5, <3>b
      <4> QED BY <4>2, <4>3, BlockKinds
    <3>11. j - 1 \in 1..Len(b) => t[q - 1] = b[j - 1]
      <4> SUFFICES ASSUME j - 1 \in 1..Len(b) PROVE t[q - 1] = b[j - 1] OBVIOUS
      <4>1. PICK u, l : u = at[i] /\ l = j - 1 OBVIOUS
      <4>2. u \in Nat /\ l \in 1..Len(b) BY <1>9, <4>1
      <4>3. u + l \in 1..y /\ flat[u + l] = b[l]
        BY <1>2, <1>3, <1>x, <3>b, <4>1, <4>2 DEF Offsets
      <4>4. t[x + (u + l)] = flat[u + l] BY <1>8, <4>3
      <4>5. q - 1 = x + (u + l)
        <5>1. q = x + (u + j) BY <3>1, <3>3, <4>1
        <5>2. l \in Int
          <6>1. Len(b) \in Int
            <7>1. \A e \in Seq(Line) : Len(e) \in Int OBVIOUS
            <7>2. b \in Seq(Line) BY <1>1, <3>7, <3>b, BlockOf
            <7> QED BY <7>1, <7>2
          <6> QED BY <4>2, <6>1
        <5>3. j \in Int /\ j = l + 1
          <6>1. Len(blocks[i]) \in Int
            <7>1. \A e \in Seq(Line) : Len(e) \in Int OBVIOUS
            <7>2. blocks[i] \in Seq(Line) BY <1>1, <3>7, BlockOf
            <7> QED BY <7>1, <7>2
          <6>2. j \in Int BY <6>1
          <6> QED BY <4>1, <6>2
        <5>4. \A v \in Nat, w \in Nat, d \in Int : (v + (w + (d + 1))) - 1 = v + (w + d)
          OBVIOUS
        <5>5. x \in Nat BY <1>15
        <5> QED BY <4>2, <5>1, <5>2, <5>3, <5>4, <5>5, Zenon
      <4> QED BY <4>1, <4>3, <4>4, <4>5, Zenon
    <3>9. j = 3 => q = pos[i] + 1
      <4>1. PICK u : u = at[i] OBVIOUS
      <4>2. u \in Nat /\ pos[i] = x + (u + 2) BY <1>9, <1>10, <4>1
      <4>3. j = 3 => q = x + (u + 3) BY <3>1, <3>3, <4>1
      <4>4. x \in Nat BY <1>15
      <4>5. (x + (u + 2)) + 1 = x + (u + 3) BY <4>2, <4>4
      <4> QED BY <4>2, <4>3, <4>5, Zenon
    <3>10. j = 2 => q = pos[i]
      <4>1. PICK u : u = at[i] OBVIOUS
      <4>2. u \in Nat /\ pos[i] = x + (u + 2) BY <1>9, <1>10, <4>1
      <4>3. j = 2 => q = x + (u + 2) BY <3>1, <3>3, <4>1
      <4> QED BY <1>15, <4>2, <4>3
    <3> QED BY <3>8, <3>9, <3>10, <3>11, Zenon
  <2>3. CASE q \in (x + y + 1)..z
    <3>2. x \in Nat /\ y \in Nat /\ z = x + y + 2 BY <1>15
    <3>1. q = x + y + 1 \/ q = x + y + 2 BY <2>3, <3>2
    <3>3. t[q] = tail[1] \/ t[q] = tail[2]
      <4>1. \A i \in 1..2 : t[x + y + i] = tail[i] BY <1>8
      <4>2. 1 \in 1..2 /\ 2 \in 1..2 OBVIOUS
      <4> QED BY <3>1, <4>1, <4>2, Zenon
    <3>4. t[q].kind = "other" BY <1>7, <3>3
    <3> QED BY <3>4
  <2>4. q \in 1..x \/ q \in (x + 1)..(x + y) \/ q \in (x + y + 1)..z BY <1>15
  <2> QED BY <2>1, <2>2, <2>3, <2>4, Zenon
<1>14. Len(t) # 0 /\ t[Len(t)].kind = "other" BY <1>7, <1>8, <1>x
<1>16. Laid(t, rs, h, pos)
  BY <1>1, <1>8, <1>11, <1>12, <1>13, <1>14, <1>n, <1>x DEF Laid
<1> QED BY <1>16, <1>t, Zenon

\* The revisions that the answer is about.
Shown == IF caller = "author"
         THEN <<CHOOSE r \in ToSet(history.revisions) : r.ver = asked>>
         ELSE history.revisions

Answer == Sent(history, caller, asked)

LEMMA ShownFits ==
    ASSUME history \in History, caller = "author" => asked \in Versions(history)
    PROVE  /\ history.description \in Seq(Written) /\ history.revisions \in Seq(Revision)
           /\ Shown \in Seq(Revision) /\ ToSet(Shown) \subseteq ToSet(history.revisions)
           /\ caller = "author" => Len(Shown) = 1 /\ Shown[1].ver = asked
           /\ caller # "author" => Shown = history.revisions
<1>1. history \in [description : Seq(Written), revisions : Seq(Revision)]
  BY LogAssumption
<1>2. history.description \in Seq(Written) /\ history.revisions \in Seq(Revision)
  BY <1>1
<1>3. CASE caller # "author" BY <1>2, <1>3 DEF Shown
<1>4. CASE caller = "author"
  <2>1. PICK i \in DOMAIN history.revisions : history.revisions[i].ver = asked
    BY <1>4 DEF Versions
  <2>2. history.revisions[i] \in ToSet(history.revisions) BY <2>1 DEF ToSet
  <2>3. PICK r : r = CHOOSE l \in ToSet(history.revisions) : l.ver = asked OBVIOUS
  <2>4. r \in ToSet(history.revisions) /\ r.ver = asked BY <2>1, <2>2, <2>3
  <2>5. r \in Revision BY <1>2, <2>4 DEF ToSet
  <2>6. Shown = <<r>> BY <1>4, <2>3, Zenon DEF Shown
  <2>7. ToSet(Shown) = {r} BY <2>6 DEF ToSet
  <2> QED BY <1>2, <1>4, <2>4, <2>5, <2>6, <2>7
<1> QED BY <1>3, <1>4

LEMMA AnswerLaid ==
    ASSUME history \in History, caller = "author" => asked \in Versions(history)
    PROVE  \E pos : Laid(Answer, Shown, history, pos)
<1>1. /\ history.description \in Seq(Written) /\ history.revisions \in Seq(Revision)
      /\ Shown \in Seq(Revision) /\ ToSet(Shown) \subseteq ToSet(history.revisions)
  BY ShownFits
<1>2. Answer = LogLines(history, Shown) BY Zenon DEF Answer, Sent, Shown
<1>3. ASSUME NEW i \in DOMAIN Shown PROVE Shown[i].message \in Messages(history)
  <2>1. Shown[i] \in ToSet(history.revisions) BY <1>1 DEF ToSet
  <2>2. PICK j \in DOMAIN history.revisions : history.revisions[j] = Shown[i]
    BY <2>1 DEF ToSet
  <2> QED BY <2>2 DEF Messages
<1>4. PICK h, rs : h = history /\ rs = Shown OBVIOUS
<1>5. /\ h.description \in Seq(Written) /\ rs \in Seq(Revision)
      /\ \A i \in DOMAIN rs : rs[i].message \in Messages(h)
  BY <1>1, <1>3, <1>4
<1>6. \E pos : Laid(LogLines(h, rs), rs, h, pos) BY <1>5, LogLinesLaid
<1> QED BY <1>2, <1>4, <1>6, Zenon

\* The symbols of a part of a sequence.
LEMMA PartOf ==
    ASSUME NEW S, NEW q \in Seq(S), NEW i \in Nat, NEW j \in Nat,
           1 <= i, i <= j + 1, j <= Len(q)
    PROVE  /\ SubSeq(q, i, j) \in Seq(S) /\ Len(SubSeq(q, i, j)) = (j + 1) - i
           /\ \A h \in 1..((j + 1) - i) : SubSeq(q, i, j)[h] = q[(i + h) - 1]
<1>1. PICK l : l = Len(q) OBVIOUS
<1>2. l \in Nat /\ j <= l /\ DOMAIN q = 1..l BY <1>1
<1>3. \A h \in i..j : q[h] \in S BY <1>2
<1>4. /\ SubSeq(q, i, j) \in Seq(S)
      /\ Len(SubSeq(q, i, j)) = IF i <= j THEN (j - i) + 1 ELSE 0
      /\ \A h \in 1..((j - i) + 1) : SubSeq(q, i, j)[h] = q[(i + h) - 1]
  BY <1>3, SubSeqProperties
<1>5. (j - i) + 1 = (j + 1) - i /\ (i > j => (j + 1) - i = 0) OBVIOUS
<1> QED BY <1>4, <1>5

\* What is left of a sequence, and what is left of that.
LEMMA RestOf ==
    ASSUME NEW t \in Seq(Line), NEW n \in 1..Len(t), NEW p \in 1..(n + 1)
    PROVE  LET s == SubSeq(t, p, n) IN
           /\ s \in Seq(Line) /\ Len(s) = (n + 1) - p
           /\ s = <<>> <=> p = n + 1
           /\ p <= n => s[1] = t[p] /\ Tail(s) = SubSeq(t, p + 1, n)
           /\ p + 1 <= n => Tail(s)[1] = t[p + 1] /\ SubSeq(s, 3, Len(s)) = SubSeq(t, p + 2, n)
<1>s. PICK s : s = SubSeq(t, p, n) OBVIOUS
<1>1. PICK l : l = Len(t) OBVIOUS
<1>2. l \in Nat /\ n \in 1..l /\ p \in 1..(n + 1) BY <1>1
<1>3. /\ s \in Seq(Line) /\ Len(s) = (n + 1) - p
      /\ \A i \in 1..((n + 1) - p) : s[i] = t[(p + i) - 1]
  BY <1>1, <1>2, <1>s
<1>4. s = <<>> <=> p = n + 1 BY <1>2, <1>3
<1>5. ASSUME p <= n PROVE s[1] = t[p] /\ Tail(s) = SubSeq(t, p + 1, n)
  <2>1. 1 \in 1..((n + 1) - p) /\ (p + 1) - 1 = p BY <1>2, <1>5
  <2>2. s[1] = t[p] BY <1>3, <2>1
  <2>3. Len(s) # 0 BY <1>2, <1>3, <1>5
  <2>4. Tail(s) \in Seq(Line) /\ Len(Tail(s)) = Len(s) - 1
        /\ \A i \in 1..(Len(s) - 1) : Tail(s)[i] = s[i + 1]
    <3>1. s \in Seq(Line) /\ s # <<>> BY <1>2, <1>3, <1>4, <1>5
    <3>2. Tail(s) \in Seq(Line) /\ Len(Tail(s)) = Len(s) - 1
          /\ \A i \in 1..Len(Tail(s)) : Tail(s)[i] = s[i + 1]
      BY <3>1, HeadTailProperties
    <3> QED BY <3>2, Zenon
  <2>5. PICK u : u = SubSeq(t, p + 1, n) OBVIOUS
  <2>6. /\ u \in Seq(Line) /\ Len(u) = n - p
        /\ \A i \in 1..(n - p) : u[i] = t[((p + 1) + i) - 1]
    BY <1>1, <1>2, <1>5, <2>5
  <2>7. \A i \in 1..(n - p) : Tail(s)[i] = u[i]
    <3> SUFFICES ASSUME NEW i \in 1..(n - p) PROVE Tail(s)[i] = u[i] OBVIOUS
    <3>1. i + 1 \in 1..((n + 1) - p) /\ (p + (i + 1)) - 1 = ((p + 1) + i) - 1
          /\ ((n + 1) - p) - 1 = n - p
      BY <1>2
    <3>2. Tail(s)[i] = s[i + 1] BY <1>3, <2>4, <3>1
    <3> QED BY <1>3, <2>6, <3>1, <3>2
  <2>8. Len(Tail(s)) = Len(u) BY <1>2, <1>3, <2>4, <2>6
  <2> QED BY <2>2, <2>4, <2>5, <2>6, <2>7, <2>8, SeqEqual
<1>6. ASSUME p + 1 <= n
      PROVE  Tail(s)[1] = t[p + 1] /\ SubSeq(s, 3, Len(s)) = SubSeq(t, p + 2, n)
  <2>1. PICK u : u = SubSeq(t, p + 1, n) OBVIOUS
  <2>2. Tail(s) = u BY <1>2, <1>5, <1>6, <2>1
  <2>3. /\ u \in Seq(Line) /\ Len(u) = n - p
        /\ \A i \in 1..(n - p) : u[i] = t[((p + 1) + i) - 1]
    BY <1>1, <1>2, <1>6, <2>1
  <2>4. 1 \in 1..(n - p) /\ ((p + 1) + 1) - 1 = p + 1 BY <1>2, <1>6
  <2>5. u[1] = t[p + 1] BY <2>3, <2>4
  <2>6. PICK v, w, k : v = SubSeq(s, 3, k) /\ w = SubSeq(t, p + 2, n) /\ k = Len(s) OBVIOUS
  <2>7. k \in Nat /\ 2 <= k /\ k = (n + 1) - p BY <1>2, <1>3, <1>6, <2>6
  <2>8. /\ v \in Seq(Line) /\ Len(v) = k - 2
        /\ \A i \in 1..(k - 2) : v[i] = s[(3 + i) - 1]
    <3>1. /\ v \in Seq(Line) /\ Len(v) = (k + 1) - 3
          /\ \A i \in 1..((k + 1) - 3) : v[i] = s[(3 + i) - 1]
      BY <1>3, <2>6, <2>7, PartOf
    <3>2. (k + 1) - 3 = k - 2 BY <2>7
    <3> QED BY <3>1, <3>2, Zenon
  <2>9. /\ w \in Seq(Line) /\ Len(w) = k - 2
        /\ \A i \in 1..(k - 2) : w[i] = t[((p + 2) + i) - 1]
    BY <1>1, <1>2, <1>6, <2>6, <2>7
  <2>10. \A i \in 1..(k - 2) : v[i] = w[i]
    <3> SUFFICES ASSUME NEW i \in 1..(k - 2) PROVE v[i] = w[i] OBVIOUS
    <3>1. (3 + i) - 1 \in 1..((n + 1) - p)
          /\ (p + ((3 + i) - 1)) - 1 = ((p + 2) + i) - 1
      BY <1>2, <2>7
    <3>2. s[(3 + i) - 1] = t[((p + 2) + i) - 1] BY <1>3, <3>1
    <3> QED BY <2>8, <2>9, <3>2
  <2>11. v = w BY <2>8, <2>9, <2>10, SeqEqual
  <2> QED BY <2>2, <2>5, <2>6, <2>11
<1> QED BY <1>3, <1>4, <1>5, <1>6, <1>s, Zenon

-----------------------------------------------------------------------------
(* The parser. *)

FoundEntry == [ver : Text, date : Text \cup {None}]

\* The lines up to the n-th are the response, and those from the p-th on are left.
Left(t, p, n) ==
    /\ n \in 1..Len(t) /\ p \in 1..(n + 1)
    /\ log = SubSeq(t, p, n)
    /\ cut \/ n = Len(t)

\* What is found of a line that begins with "revision" and the line after it.
FoundAt(t, q) ==
    [ver |-> IF WantsVersion THEN Kept(t[q].text) ELSE asked,
     date |-> IF t[q + 1].kind = "date" THEN t[q + 1].of ELSE None]

Drawn(t) ==
    \A i \in DOMAIN found : \E q \in 1..(Len(t) - 1) :
        /\ t[q].kind = "revision"
        /\ WantsVersion => t[q].text # None
        /\ found[i] = FoundAt(t, q)

EntryOf(r) ==
    [ver |-> IF WantsVersion THEN Kept(RevisionLine(r).text) ELSE asked,
     date |-> r.ver]

\* None of the revisions in front of the p-th line was missed.
Visited(revisions, p, pos) ==
    \A j \in 1..Len(revisions) :
        pos[j] < p => \E i \in DOMAIN found : found[i] = EntryOf(revisions[j])

\* They are found in their order, and nothing else.
InOrder(revisions, p, pos) ==
    /\ Len(found) <= Len(revisions)
    /\ \A i \in 1..Len(found) : pos[i] < p /\ found[i] = EntryOf(revisions[i])
    /\ \A i \in (Len(found) + 1)..Len(revisions) : p <= pos[i]

Parsed(t, revisions, h, p, n, pos) ==
    /\ Laid(t, revisions, h, pos)
    /\ Left(t, p, n)
    /\ Drawn(t)
    /\ Visited(revisions, p, pos)
    /\ Ordinary(history) => InOrder(revisions, p, pos)

LogInv ==
    /\ history \in History
    /\ caller \in {"validate", "lsver", "previous", "author"}
    /\ asked \in Text /\ ~Contains(asked, Tab)
    /\ caller = "author" => asked \in Versions(history)
    /\ found \in Seq(FoundEntry)
    /\ cut \in BOOLEAN
    /\ stage \in {"read", "done", "crashed", "undefined"}
    /\ stage = "read" => /\ caller = "author" => found = <<>>
                         /\ caller = "previous" => Len(found) < 2
    /\ caller = "previous" => Len(found) <= 2
    /\ stage = "done" =>
          \/ log = <<>>
          \/ caller = "author"
          \/ caller = "previous" /\ Len(found) = 2
    /\ OrdinaryIsSafe
    /\ \E p, n, pos : Parsed(Answer, Shown, history, p, n, pos)

\* What stands behind the word in a line of the response.
LEMMA LineText ==
    ASSUME NEW t, NEW R \in Seq(Revision), NEW h, NEW pos, Laid(t, R, h, pos),
           NEW q \in 1..Len(t)
    PROVE  t[q].text \in Text \cup {None} /\ t[q].of \in Text \cup {None}
           /\ t[q].kind \in {"revision", "total", "date", "other"}
<1>1. t[q] \in Line BY DEF Laid
<1> QED BY <1>1 DEF Line

LEMMA KeptText ==
    ASSUME NEW text \in Text
    PROVE  Kept(text) \in Text
<1>1. VerLen \in Nat \ {0} BY LogAssumption
<1>2. text \in Seq(Char) BY DEF Text
<1>3. ASSUME ~(Len(text) <= VerLen) PROVE SubSeq(text, 1, VerLen) \in Seq(Char)
  BY <1>1, <1>2, <1>3
<1> QED BY <1>2, <1>3 DEF Kept, Text

\* At a revision the parser finds the entry of that revision.
LEMMA FoundAtPlace ==
    ASSUME NEW t, NEW r \in Revision, NEW q, Place(t, q, r)
    PROVE  FoundAt(t, q) = EntryOf(r) /\ t[q].text \in Text /\ t[q].kind = "revision"
<1>1. t[q] = RevisionLine(r) /\ t[q + 1] = DateLine(r) BY DEF Place
<1>2. /\ RevisionLine(r).kind = "revision" /\ RevisionLine(r).text \in Text
      /\ DateLine(r).kind = "date" /\ DateLine(r).of = r.ver
  BY LineFields
<1> QED BY <1>1, <1>2 DEF FoundAt, EntryOf

\* No line that a user wrote begins with "revision".
LEMMA OrdinaryPlaces ==
    ASSUME Ordinary(history), NEW t, NEW R, NEW pos,
           Laid(t, R, history, pos),
           NEW q \in 1..Len(t), t[q].kind = "revision"
    PROVE  \E i \in 1..Len(R) : q = pos[i]
<1>1. t[q] \notin WrittenLines(history) BY DEF Ordinary
<1> QED BY <1>1 DEF Laid

LEMMA LogInvAtFirst == LogInit => LogInv
<1> SUFFICES ASSUME LogInit PROVE LogInv OBVIOUS
<1>1. /\ history \in History
      /\ caller \in {"validate", "lsver", "previous", "author"}
      /\ asked \in (IF caller = "author" THEN Versions(history)
                    ELSE {<<>>} \cup UNION {Versions(h) : h \in History})
      /\ found = <<>> /\ stage = "read"
  BY DEF LogInit
<1>2. PICK n \in DOMAIN Answer :
        log = SubSeq(Answer, 1, n) /\ cut = (n < Len(Answer))
  BY DEF LogInit, Answer
<1>3. caller = "author" => asked \in Versions(history) BY <1>1
<1>4. PICK pos : Laid(Answer, Shown, history, pos) BY <1>1, <1>3, AnswerLaid
<1>5. PICK t, R : t = Answer /\ R = Shown OBVIOUS
<1>6. t \in Seq(Line) /\ R \in Seq(Revision)
  BY <1>1, <1>3, <1>4, <1>5, ShownFits DEF Laid
<1>7. n \in 1..Len(t) /\ Len(t) \in Nat /\ Len(R) \in Nat BY <1>2, <1>5, <1>6
<1>8. Left(t, 1, n)
  <2>1. n < Len(t) => cut BY <1>2, <1>5, Zenon
  <2>2. n < Len(t) \/ n = Len(t) BY <1>7
  <2>3. 1 \in 1..(n + 1) BY <1>7
  <2>4. log = SubSeq(t, 1, n) BY <1>2, <1>5
  <2> QED BY <1>7, <2>1, <2>2, <2>3, <2>4, Zenon DEF Left
<1>9. Drawn(t) BY <1>1 DEF Drawn
<1>10. \A i \in 1..Len(R) : 2 <= pos[i] /\ pos[i] \in Int
  BY <1>4, <1>5, <1>7 DEF Laid, Place
<1>11. Visited(R, 1, pos) BY <1>10 DEF Visited
<1>12. InOrder(R, 1, pos)
  <2>1. Len(found) = 0 BY <1>1
  <2> QED BY <1>7, <1>10, <2>1 DEF InOrder
<1>13. Parsed(Answer, Shown, history, 1, n, pos)
  BY <1>4, <1>5, <1>8, <1>9, <1>11, <1>12 DEF Parsed
<1>14. asked \in Text /\ ~Contains(asked, Tab)
  <2>1. CASE asked = <<>>
    <3>1. \A S : <<>> \in Seq(S) BY EmptySeq
    <3> QED BY <2>1, <3>1 DEF Contains, Text
  <2>2. CASE asked # <<>>
    <3>1. PICK h \in History : asked \in Versions(h) BY <1>1, <2>2
    <3>2. PICK i \in DOMAIN h.revisions : asked = h.revisions[i].ver BY <3>1 DEF Versions
    <3>3. h \in [description : Seq(Written), revisions : Seq(Revision)] BY LogAssumption
    <3>4. h.revisions \in Seq(Revision) BY <3>3
    <3>5. h.revisions[i] \in Revision BY <3>2, <3>4
    <3>6. h.revisions[i].ver \in Text BY <3>5 DEF Revision
    <3>7. ~Contains(h.revisions[i].ver, Tab) BY <3>1, <3>2, LogAssumption
    <3> QED BY <3>2, <3>6, <3>7
  <2> QED BY <2>1, <2>2
<1>15. found \in Seq(FoundEntry) /\ Len(found) = 0
  <2>1. \A S : <<>> \in Seq(S) BY EmptySeq
  <2> QED BY <1>1, <2>1
<1>16. cut \in BOOLEAN BY <1>2
<1>17. \E p, m, q : Parsed(Answer, Shown, history, p, m, q)
  BY <1>13, Zenon
<1> HIDE DEF LogInit
<1> QED BY <1>1, <1>3, <1>14, <1>15, <1>16, <1>17 DEF LogInv, OrdinaryIsSafe

LEMMA SameAnswer ==
    ASSUME UNCHANGED <<history, caller, asked>>
    PROVE  Answer' = Answer /\ Shown' = Shown
BY DEF Answer, Shown

\* The next line, and the one after it.
LEMMA NextIs ==
    ASSUME LogInv, log # <<>>
    PROVE  \E p, n, pos :
              /\ Parsed(Answer, Shown, history, p, n, pos)
              /\ p \in 1..n /\ n \in 1..Len(Answer) /\ Len(log) = (n + 1) - p
              /\ log[1] = Answer[p] /\ Tail(log) = SubSeq(Answer, p + 1, n)
              /\ p + 1 <= n => /\ Tail(log)[1] = Answer[p + 1]
                               /\ SubSeq(log, 3, Len(log)) = SubSeq(Answer, p + 2, n)
<1>1. PICK p, n, pos : Parsed(Answer, Shown, history, p, n, pos)
  BY DEF LogInv
<1>2. PICK t : t = Answer OBVIOUS
<1>3. t \in Seq(Line) /\ n \in 1..Len(t) /\ p \in 1..(n + 1) /\ log = SubSeq(t, p, n)
  BY <1>1, <1>2 DEF Parsed, Laid, Left
<1>4. /\ Len(log) = (n + 1) - p
      /\ log = <<>> <=> p = n + 1
      /\ p <= n => log[1] = t[p] /\ Tail(log) = SubSeq(t, p + 1, n)
      /\ p + 1 <= n => /\ Tail(log)[1] = t[p + 1]
                       /\ SubSeq(log, 3, Len(log)) = SubSeq(t, p + 2, n)
  <2>1. PICK s : s = log OBVIOUS
  <2>2. s = SubSeq(t, p, n) BY <1>3, <2>1
  <2>3. /\ Len(s) = (n + 1) - p
        /\ s = <<>> <=> p = n + 1
        /\ p <= n => s[1] = t[p] /\ Tail(s) = SubSeq(t, p + 1, n)
        /\ p + 1 <= n => /\ Tail(s)[1] = t[p + 1]
                         /\ SubSeq(s, 3, Len(s)) = SubSeq(t, p + 2, n)
    BY <1>3, <2>2, RestOf
  <2> QED BY <2>1, <2>3, Zenon
<1>5. p # n + 1 BY <1>4
<1>6. p \in 1..n /\ p <= n
  <2>1. Len(t) \in Nat BY <1>3
  <2> QED BY <1>3, <1>5, <2>1
<1>7. /\ p \in 1..n /\ n \in 1..Len(Answer) /\ Len(log) = (n + 1) - p
      /\ log[1] = Answer[p] /\ Tail(log) = SubSeq(Answer, p + 1, n)
      /\ p + 1 <= n => /\ Tail(log)[1] = Answer[p + 1]
                       /\ SubSeq(log, 3, Len(log)) = SubSeq(Answer, p + 2, n)
  BY <1>2, <1>3, <1>4, <1>6, Zenon
<1> QED BY <1>1, <1>7, Zenon

LEMMA SkipKeeps == ASSUME LogInv, SkipLine PROVE LogInv'
<1>1. /\ stage = "read" /\ log # <<>> /\ log[1].kind # "revision"
      /\ log' = Tail(log)
      /\ UNCHANGED <<history, caller, asked, found, stage, cut>>
  BY DEF SkipLine, NextLine, IsRevision
<1>2. PICK p, n, pos :
        /\ Parsed(Answer, Shown, history, p, n, pos)
        /\ p \in 1..n /\ n \in 1..Len(Answer)
        /\ log[1] = Answer[p] /\ Tail(log) = SubSeq(Answer, p + 1, n)
  BY <1>1, NextIs
<1>3. PICK t, R, h : t = Answer /\ R = Shown /\ h = history OBVIOUS
<1>4. /\ Laid(t, R, h, pos) /\ Left(t, p, n) /\ Drawn(t) /\ Visited(R, p, pos)
      /\ Ordinary(history) => InOrder(R, p, pos)
  BY <1>2, <1>3 DEF Parsed
<1>5. R \in Seq(Revision) /\ t \in Seq(Line) BY <1>3, <1>4, ShownFits DEF LogInv, Laid
<1>6. Len(t) \in Nat /\ Len(R) \in Nat /\ n \in 1..Len(t) /\ p \in 1..n
  BY <1>2, <1>3, <1>5
<1>7. ASSUME NEW j \in 1..Len(R) PROVE pos[j] # p /\ pos[j] \in Int
  <2>1. Place(t, pos[j], R[j]) /\ R[j] \in Revision BY <1>4, <1>5 DEF Laid
  <2>2. t[pos[j]].kind = "revision" BY <2>1, FoundAtPlace
  <2>3. pos[j] \in Int BY <1>6, <2>1 DEF Place
  <2> QED BY <1>1, <1>2, <1>3, <2>2, <2>3
<1>8. Left(t, p + 1, n)'
  <2>1. p + 1 \in 1..(n + 1) BY <1>6
  <2>2. log' = SubSeq(t, p + 1, n) BY <1>1, <1>2, <1>3
  <2>3. cut' \/ n = Len(t) BY <1>1, <1>4 DEF Left
  <2> QED BY <1>6, <2>1, <2>2, <2>3, Zenon DEF Left
<1>9. Drawn(t)' BY <1>1, <1>4 DEF Drawn, FoundAt, WantsVersion
<1>10. Visited(R, p + 1, pos)'
  <2>1. \A j \in 1..Len(R) : pos[j] < p + 1 => pos[j] < p BY <1>6, <1>7
  <2> QED BY <1>1, <1>4, <2>1 DEF Visited, EntryOf, WantsVersion
<1>11. Ordinary(history)' => InOrder(R, p + 1, pos)'
  <2> SUFFICES ASSUME Ordinary(history) PROVE InOrder(R, p + 1, pos)' BY <1>1
  <2>1. InOrder(R, p, pos) BY <1>4
  <2>2. found \in Seq(FoundEntry) /\ Len(found) \in Nat BY DEF LogInv
  <2>3. \A j \in 1..Len(R) : pos[j] < p => pos[j] < p + 1 BY <1>6, <1>7
  <2>4. \A j \in 1..Len(R) : p <= pos[j] => p + 1 <= pos[j] BY <1>6, <1>7
  <2>5. \A j \in 1..Len(found) : j \in 1..Len(R) BY <1>6, <2>1, <2>2 DEF InOrder
  <2>6. \A j \in (Len(found) + 1)..Len(R) : j \in 1..Len(R) BY <1>6, <2>2
  <2> QED BY <1>1, <2>1, <2>3, <2>4, <2>5, <2>6 DEF InOrder, EntryOf, WantsVersion
<1>12. Parsed(t, R, h, p + 1, n, pos)' BY <1>4, <1>8, <1>9, <1>10, <1>11 DEF Parsed
<1>13. Answer' = t /\ Shown' = R /\ history' = h
  BY <1>1, <1>3, SameAnswer
<1>14. (\E q, m, ps : Parsed(Answer, Shown, history, q, m, ps))'
  BY <1>12, <1>13, Zenon
<1> QED BY <1>1, <1>14 DEF LogInv, OrdinaryIsSafe

LEMMA NoSpaceKeeps == ASSUME LogInv, NoSpace PROVE LogInv'
<1>1. /\ stage = "read" /\ log # <<>> /\ log[1].kind = "revision" /\ log[1].text = None
      /\ stage' = "crashed"
      /\ UNCHANGED <<history, caller, asked, log, found, cut>>
  BY DEF NoSpace, NextLine, IsRevision
<1>2. PICK p, n, pos :
        /\ Parsed(Answer, Shown, history, p, n, pos)
        /\ p \in 1..n /\ n \in 1..Len(Answer) /\ log[1] = Answer[p]
  BY <1>1, NextIs
<1>3. PICK t, R, h : t = Answer /\ R = Shown /\ h = history OBVIOUS
<1>4. Laid(t, R, h, pos) BY <1>2, <1>3 DEF Parsed
<1>5. R \in Seq(Revision) BY <1>3, ShownFits DEF LogInv
<1>6. ~Ordinary(history)
  <2> SUFFICES ASSUME Ordinary(history) PROVE FALSE OBVIOUS
  <2>1. p \in 1..Len(t)
    <3>1. Len(t) \in Nat BY <1>4 DEF Laid
    <3> QED BY <1>2, <1>3, <3>1
  <2>2. PICK i \in 1..Len(R) : p = pos[i]
    BY <1>1, <1>2, <1>3, <1>4, <2>1, OrdinaryPlaces
  <2>3. Place(t, p, R[i]) /\ R[i] \in Revision BY <1>4, <1>5, <2>2 DEF Laid
  <2>4. t[p].text \in Text BY <2>3, FoundAtPlace
  <2> QED BY <1>1, <1>2, <1>3, <2>4, LogAssumption
<1>7. Answer' = t /\ Shown' = R /\ history' = h
  BY <1>1, <1>3, SameAnswer
<1>8. Parsed(t, R, h, p, n, pos)'
  BY <1>1, <1>2, <1>3
     DEF Parsed, Left, Drawn, Visited, InOrder, EntryOf, FoundAt, WantsVersion
<1>9. (\E q, m, ps : Parsed(Answer, Shown, history, q, m, ps))'
  BY <1>7, <1>8, Zenon
<1>10. OrdinaryIsSafe' BY <1>1, <1>6 DEF OrdinaryIsSafe
<1> QED BY <1>1, <1>9, <1>10 DEF LogInv

LEMMA TornKeeps == ASSUME LogInv, Torn PROVE LogInv'
<1>1. /\ stage = "read" /\ log # <<>> /\ log[1].kind = "revision" /\ Len(log) = 1
      /\ stage' = "undefined"
      /\ UNCHANGED <<history, caller, asked, log, found, cut>>
  BY DEF Torn, NextLine, IsRevision
<1>2. PICK p, n, pos :
        /\ Parsed(Answer, Shown, history, p, n, pos)
        /\ p \in 1..n /\ n \in 1..Len(Answer) /\ Len(log) = (n + 1) - p
        /\ log[1] = Answer[p]
  BY <1>1, NextIs
<1>3. PICK t, R, h : t = Answer /\ R = Shown /\ h = history OBVIOUS
<1>4. Laid(t, R, h, pos) /\ Left(t, p, n) BY <1>2, <1>3 DEF Parsed
<1>5. cut
  <2>1. Len(t) \in Nat BY <1>4 DEF Laid
  <2>2. p = n
    <3>1. PICK x, y : x = Len(t) /\ y = Len(log) OBVIOUS
    <3>2. x \in Nat /\ n \in 1..x /\ p \in 1..n /\ y = (n + 1) - p /\ y = 1
      BY <1>1, <1>2, <1>3, <2>1, <3>1
    <3> QED BY <3>2
  <2>3. t[n].kind = "revision" BY <1>1, <1>2, <1>3, <2>2
  <2>4. n # Len(t) BY <1>4, <2>3 DEF Laid
  <2> QED BY <1>4, <2>4 DEF Left
<1>6. Answer' = t /\ Shown' = R /\ history' = h
  BY <1>1, <1>3, SameAnswer
<1>7. Parsed(t, R, h, p, n, pos)'
  BY <1>1, <1>2, <1>3
     DEF Parsed, Left, Drawn, Visited, InOrder, EntryOf, FoundAt, WantsVersion
<1>8. (\E q, m, ps : Parsed(Answer, Shown, history, q, m, ps))'
  BY <1>6, <1>7, Zenon
<1>9. OrdinaryIsSafe' BY <1>1, <1>5 DEF OrdinaryIsSafe
<1> QED BY <1>1, <1>8, <1>9 DEF LogInv

LEMMA NoSemicolonKeeps == ASSUME LogInv, NoSemicolon PROVE LogInv'
<1>1. /\ stage = "read" /\ log # <<>> /\ log[1].kind = "revision" /\ Len(log) > 1
      /\ log[2].of = None /\ stage' = "crashed"
      /\ UNCHANGED <<history, caller, asked, log, found, cut>>
  BY DEF NoSemicolon, NextLine, IsRevision
<1>2. PICK p, n, pos :
        /\ Parsed(Answer, Shown, history, p, n, pos)
        /\ p \in 1..n /\ n \in 1..Len(Answer) /\ Len(log) = (n + 1) - p
        /\ log[1] = Answer[p]
        /\ p + 1 <= n => Tail(log)[1] = Answer[p + 1]
  BY <1>1, NextIs
<1>3. PICK t, R, h : t = Answer /\ R = Shown /\ h = history OBVIOUS
<1>4. Laid(t, R, h, pos) /\ Left(t, p, n) BY <1>2, <1>3 DEF Parsed
<1>5. R \in Seq(Revision) /\ t \in Seq(Line) /\ Len(t) \in Nat
  BY <1>3, <1>4, ShownFits DEF LogInv, Laid
<1>6. log[2] = t[p + 1] /\ p \in 1..Len(t)
  <2>1. p + 1 <= n /\ p \in 1..Len(t)
    <3>1. PICK x, y : x = Len(t) /\ y = Len(log) OBVIOUS
    <3>2. x \in Nat /\ n \in 1..x /\ p \in 1..n /\ y = (n + 1) - p /\ y > 1
      BY <1>1, <1>2, <1>3, <1>5, <3>1
    <3> QED BY <3>1, <3>2
  <2>2. log \in Seq(Line)
    <3>1. log = SubSeq(t, p, n) BY <1>4 DEF Left
    <3>2. p \in Nat /\ n \in Nat /\ 1 <= p /\ p <= n + 1 /\ n <= Len(t)
      BY <1>4, <1>5, <2>1 DEF Left
    <3> QED BY <1>5, <3>1, <3>2, PartOf
  <2>3. Tail(log)[1] = log[2] BY <1>1, <2>2
  <2> QED BY <1>2, <1>3, <2>1, <2>3
<1>7. ~Ordinary(history)
  <2> SUFFICES ASSUME Ordinary(history) PROVE FALSE OBVIOUS
  <2>1. t[p].kind = "revision" BY <1>1, <1>2, <1>3
  <2>2. PICK i \in 1..Len(R) : p = pos[i] BY <1>3, <1>4, <1>6, <2>1, OrdinaryPlaces
  <2>3. Place(t, p, R[i]) /\ R[i] \in Revision BY <1>4, <1>5, <2>2 DEF Laid
  <2>4. t[p + 1] = DateLine(R[i]) BY <2>3 DEF Place
  <2>5. DateLine(R[i]).of = R[i].ver BY <2>3, LineFields
  <2>6. R[i].ver \in Text BY <2>3 DEF Revision
  <2> QED BY <1>1, <1>6, <2>4, <2>5, <2>6, LogAssumption
<1>8. Answer' = t /\ Shown' = R /\ history' = h
  BY <1>1, <1>3, SameAnswer
<1>9. Parsed(t, R, h, p, n, pos)'
  BY <1>1, <1>2, <1>3
     DEF Parsed, Left, Drawn, Visited, InOrder, EntryOf, FoundAt, WantsVersion
<1>10. (\E q, m, ps : Parsed(Answer, Shown, history, q, m, ps))'
  BY <1>8, <1>9, Zenon
<1>11. OrdinaryIsSafe' BY <1>1, <1>7 DEF OrdinaryIsSafe
<1> QED BY <1>1, <1>10, <1>11 DEF LogInv

\* A reply is undefined only when a date is missing, or for ls -l nothing is found.
LEMMA DatesSet ==
    ASSUME NEW entries \in Seq(FoundEntry), \A i \in DOMAIN entries : entries[i].date # None,
           caller = "author" => entries # <<>>
    PROVE  ~Unset(entries)
<1>1. ASSUME NEW i \in DOMAIN Replied(entries) PROVE Replied(entries)[i].date # None
  <2>1. CASE caller = "validate" BY <1>1, <2>1 DEF Replied
  <2>2. CASE caller = "previous"
    <3>1. CASE entries = <<>> BY <1>1, <2>2, <3>1 DEF Replied
    <3>2. CASE entries # <<>>
      <4>1. Replied(entries) = <<Last(entries)>> BY <2>2, <3>2 DEF Replied
      <4>2. Len(entries) \in DOMAIN entries BY <3>2
      <4>3. Last(entries).date # None BY <4>2 DEF Last
      <4> QED BY <1>1, <4>1, <4>3
    <3> QED BY <3>1, <3>2
  <2>3. CASE caller \notin {"validate", "previous"} BY <1>1, <2>3 DEF Replied
  <2> QED BY <2>1, <2>2, <2>3
<1> QED BY <1>1, Zenon DEF Unset

\* In an ordinary log every entry has its date.
LEMMA InOrderDated ==
    ASSUME NEW R \in Seq(Revision), NEW p, NEW pos, InOrder(R, p, pos),
           found \in Seq(FoundEntry)
    PROVE  \A i \in DOMAIN found : found[i].date # None
<1> SUFFICES ASSUME NEW i \in DOMAIN found PROVE found[i].date # None OBVIOUS
<1>1. i \in 1..Len(found) /\ i \in 1..Len(R)
  <2>1. Len(found) \in Nat /\ Len(R) \in Nat /\ i \in 1..Len(found) OBVIOUS
  <2>2. Len(found) <= Len(R) BY DEF InOrder
  <2> QED BY <2>1, <2>2
<1>2. found[i] = EntryOf(R[i]) BY <1>1 DEF InOrder
<1>3. R[i] \in Revision BY <1>1
<1>4. R[i].ver \in Text BY <1>3 DEF Revision
<1>5. R[i].ver # None BY <1>4, LogAssumption
<1> QED BY <1>2, <1>5 DEF EntryOf

LEMMA EndKeeps == ASSUME LogInv, LogEnd PROVE LogInv'
<1>1. /\ stage = "read" /\ log = <<>>
      /\ stage' = IF Unset(found) THEN "undefined" ELSE "done"
      /\ UNCHANGED <<history, caller, asked, log, found, cut>>
  BY DEF LogEnd, Reply
<1>2. PICK p, n, pos : Parsed(Answer, Shown, history, p, n, pos)
  BY DEF LogInv
<1>3. PICK t, R, h : t = Answer /\ R = Shown /\ h = history OBVIOUS
<1>4. /\ Laid(t, R, h, pos) /\ Left(t, p, n)
      /\ Ordinary(history) => InOrder(R, p, pos)
  BY <1>2, <1>3 DEF Parsed
<1>5. /\ R \in Seq(Revision) /\ t \in Seq(Line) /\ found \in Seq(FoundEntry)
      /\ caller = "author" => Len(R) = 1
  BY <1>3, <1>4, ShownFits DEF LogInv, Laid
<1>6. p = n + 1
  <2>1. n \in 1..Len(t) /\ p \in 1..(n + 1) /\ log = SubSeq(t, p, n) BY <1>4 DEF Left
  <2>2. PICK s : s = log OBVIOUS
  <2>3. s = <<>> <=> p = n + 1 BY <1>5, <2>1, <2>2, RestOf
  <2> QED BY <1>1, <2>2, <2>3
<1>7. ASSUME ~cut, Ordinary(history) PROVE ~Unset(found)
  <2>1. InOrder(R, p, pos) BY <1>4, <1>7
  <2>2. \A i \in DOMAIN found : found[i].date # None BY <1>5, <2>1, InOrderDated
  <2>3. caller = "author" => found # <<>>
    <3> SUFFICES ASSUME caller = "author", found = <<>> PROVE FALSE OBVIOUS
    <3>1. Len(R) = 1 /\ Len(found) = 0 BY <1>5
    <3>2. p <= pos[1] BY <2>1, <3>1 DEF InOrder
    <3>3. pos[1] \in 2..(Len(t) - 1) BY <1>4, <3>1 DEF Laid, Place
    <3>4. n = Len(t) /\ Len(t) \in Nat BY <1>4, <1>5, <1>7 DEF Left
    <3> QED BY <1>6, <3>2, <3>3, <3>4
  <2> QED BY <1>5, <2>2, <2>3, DatesSet
<1>8. Answer' = t /\ Shown' = R /\ history' = h
  BY <1>1, <1>3, SameAnswer
<1>9. Parsed(t, R, h, p, n, pos)'
  BY <1>1, <1>2, <1>3
     DEF Parsed, Left, Drawn, Visited, InOrder, EntryOf, FoundAt, WantsVersion
<1>10. (\E q, m, ps : Parsed(Answer, Shown, history, q, m, ps))'
  BY <1>8, <1>9, Zenon
<1>11. stage' \in {"done", "undefined"} BY <1>1
<1>12. OrdinaryIsSafe'
  <2> SUFFICES ASSUME stage' = "undefined", ~cut, Ordinary(history) PROVE FALSE
    BY <1>1, <1>11 DEF OrdinaryIsSafe
  <2> QED BY <1>1, <1>7
<1> QED BY <1>1, <1>10, <1>11, <1>12 DEF LogInv

\* No revision begins in the line after one that begins with "revision".
LEMMA NextTo ==
    ASSUME NEW t, NEW q, NEW r \in Revision, NEW p \in Int,
           Place(t, q, r), t[p].kind = "revision"
    PROVE  q # p + 1
<1> SUFFICES ASSUME q = p + 1 PROVE FALSE OBVIOUS
<1>1. t[q - 1] = Other /\ q - 1 = p BY DEF Place
<1>2. t[p] = Other BY <1>1
<1> QED BY <1>2, OtherLines

LEMMA EntryKeeps == ASSUME LogInv, Entry PROVE LogInv'
<1>1. /\ stage = "read" /\ log # <<>> /\ log[1].kind = "revision"
      /\ WantsVersion => log[1].text # None
      /\ Len(log) > 1
      /\ log' = SubSeq(log, 3, Len(log))
      /\ IF Enough(found') THEN stage' = IF Unset(found') THEN "undefined" ELSE "done"
         ELSE stage' = stage
      /\ UNCHANGED <<history, caller, asked, cut>>
  BY DEF Entry, NextLine, IsRevision, Reply
<1>2. found' = Append(found,
        [ver |-> IF WantsVersion THEN Kept(log[1].text) ELSE asked,
         date |-> DateOf(Tail(log))])
  BY DEF Entry
<1>3. PICK p, n, pos :
        /\ Parsed(Answer, Shown, history, p, n, pos)
        /\ p \in 1..n /\ n \in 1..Len(Answer) /\ Len(log) = (n + 1) - p
        /\ log[1] = Answer[p]
        /\ p + 1 <= n => /\ Tail(log)[1] = Answer[p + 1]
                         /\ SubSeq(log, 3, Len(log)) = SubSeq(Answer, p + 2, n)
  BY <1>1, NextIs
<1>4. PICK t, R, h : t = Answer /\ R = Shown /\ h = history OBVIOUS
<1>5. /\ Laid(t, R, h, pos) /\ Left(t, p, n) /\ Drawn(t) /\ Visited(R, p, pos)
      /\ Ordinary(history) => InOrder(R, p, pos)
  BY <1>3, <1>4 DEF Parsed
<1>6. /\ R \in Seq(Revision) /\ t \in Seq(Line) /\ found \in Seq(FoundEntry)
      /\ asked \in Text
  BY <1>4, <1>5, ShownFits DEF LogInv, Laid
<1>7. /\ Len(t) \in Nat /\ Len(R) \in Nat /\ n \in 1..Len(t) /\ p \in 1..n
      /\ p + 1 <= n /\ p \in 1..(Len(t) - 1)
  <2>1. PICK x, y : x = Len(t) /\ y = Len(log) OBVIOUS
  <2>2. x \in Nat /\ n \in 1..x /\ p \in 1..n /\ y = (n + 1) - p /\ y > 1
    BY <1>1, <1>3, <1>4, <1>6, <2>1
  <2>3. p + 1 <= n /\ p \in 1..(x - 1) BY <2>2
  <2> QED BY <1>6, <2>1, <2>2, <2>3
<1>8. /\ t[p].kind = "revision"
      /\ WantsVersion => t[p].text # None
      /\ log' = SubSeq(t, p + 2, n)
  BY <1>1, <1>3, <1>4, <1>7
<1>9. PICK new : new = FoundAt(t, p) OBVIOUS
<1>10. found' = Append(found, new)
  <2>1. DateOf(Tail(log)) = IF t[p + 1].kind = "date" THEN t[p + 1].of ELSE None
    BY <1>3, <1>4, <1>7 DEF DateOf
  <2>2. log[1] = t[p] BY <1>3, <1>4
  <2> QED BY <1>2, <1>9, <2>1, <2>2, Zenon DEF FoundAt
<1>11. new \in FoundEntry
  <2>1. t[p] \in Line /\ t[p + 1] \in Line BY <1>6, <1>7
  <2>2. WantsVersion => Kept(t[p].text) \in Text
    <3> SUFFICES ASSUME WantsVersion PROVE Kept(t[p].text) \in Text OBVIOUS
    <3>1. t[p].text \in Text BY <1>8, <2>1 DEF Line
    <3> QED BY <3>1, KeptText
  <2>3. t[p + 1].of \in Text \cup {None} BY <2>1 DEF Line
  <2>4. PICK v, d : v = (IF WantsVersion THEN Kept(t[p].text) ELSE asked)
                    /\ d = (IF t[p + 1].kind = "date" THEN t[p + 1].of ELSE None)
    OBVIOUS
  <2>5. v \in Text /\ d \in Text \cup {None} BY <1>6, <2>2, <2>3, <2>4
  <2>6. new = [ver |-> v, date |-> d] BY <1>9, <2>4, Zenon DEF FoundAt
  <2> QED BY <2>5, <2>6 DEF FoundEntry
<1>12. PICK m : m = Len(found) OBVIOUS
<1>13. /\ m \in Nat /\ found' \in Seq(FoundEntry) /\ Len(found') = m + 1
       /\ found'[m + 1] = new /\ \A i \in 1..m : found'[i] = found[i]
       /\ DOMAIN found = 1..m /\ DOMAIN found' = 1..(m + 1)
  BY <1>6, <1>10, <1>11, <1>12
<1>14. ASSUME NEW j \in 1..Len(R)
       PROVE  /\ pos[j] \in Int /\ pos[j] # p + 1
              /\ pos[j] = p => new = EntryOf(R[j])
  <2>1. Place(t, pos[j], R[j]) /\ R[j] \in Revision BY <1>5, <1>6 DEF Laid
  <2>2. pos[j] \in Int BY <1>7, <2>1 DEF Place
  <2>3. p \in Int BY <1>7
  <2>4. pos[j] # p + 1 BY <1>8, <2>1, <2>3, NextTo
  <2>5. FoundAt(t, pos[j]) = EntryOf(R[j]) BY <2>1, FoundAtPlace
  <2> QED BY <1>9, <2>2, <2>4, <2>5
<1>15. Left(t, p + 2, n)'
  <2>1. p + 2 \in 1..(n + 1) BY <1>7
  <2>2. cut' \/ n = Len(t) BY <1>1, <1>5 DEF Left
  <2> QED BY <1>7, <1>8, <2>1, <2>2, Zenon DEF Left
<1>16. \A q : (FoundAt(t, q)' = FoundAt(t, q)) BY <1>1 DEF FoundAt, WantsVersion
<1>17. \A r : (EntryOf(r)' = EntryOf(r)) BY <1>1 DEF EntryOf, WantsVersion
<1>18. WantsVersion' <=> WantsVersion BY <1>1 DEF WantsVersion
<1>19. Drawn(t)'
  <2> SUFFICES ASSUME NEW i \in 1..(m + 1)
               PROVE  \E q \in 1..(Len(t) - 1) :
                        /\ t[q].kind = "revision"
                        /\ WantsVersion => t[q].text # None
                        /\ found'[i] = FoundAt(t, q)
    BY <1>13, <1>16, <1>18 DEF Drawn
  <2>1. CASE i = m + 1 BY <1>7, <1>8, <1>9, <1>13, <2>1
  <2>2. CASE i # m + 1
    <3>1. i \in 1..m BY <1>13, <2>2
    <3>2. found'[i] = found[i] /\ i \in DOMAIN found BY <1>13, <3>1
    <3> QED BY <1>5, <3>2 DEF Drawn
  <2> QED BY <2>1, <2>2
<1>20. Visited(R, p + 2, pos)'
  <2> SUFFICES ASSUME NEW j \in 1..Len(R), pos[j] < p + 2
               PROVE  \E i \in 1..(m + 1) : found'[i] = EntryOf(R[j])
    BY <1>13, <1>17 DEF Visited
  <2>1. pos[j] < p \/ pos[j] = p BY <1>7, <1>14
  <2>2. CASE pos[j] < p
    <3>1. PICK i \in 1..m : found[i] = EntryOf(R[j]) BY <1>5, <1>13, <2>2 DEF Visited
    <3>2. i \in 1..(m + 1) BY <1>13
    <3> QED BY <1>13, <3>1, <3>2
  <2>3. CASE pos[j] = p
    <3>1. new = EntryOf(R[j]) BY <1>14, <2>3
    <3>2. m + 1 \in 1..(m + 1) BY <1>13
    <3> QED BY <1>13, <3>1, <3>2
  <2> QED BY <2>1, <2>2, <2>3
<1>21. Ordinary(history)' => InOrder(R, p + 2, pos)'
  <2> SUFFICES ASSUME Ordinary(history) PROVE InOrder(R, p + 2, pos)' BY <1>1
  <2>1. InOrder(R, p, pos) BY <1>5
  <2>2. PICK l : l = Len(R) OBVIOUS
  <2>3. /\ l \in Nat /\ m <= l
        /\ \A i \in 1..m : pos[i] < p /\ found[i] = EntryOf(R[i])
        /\ \A i \in (m + 1)..l : p <= pos[i]
    BY <1>7, <1>12, <2>1, <2>2 DEF InOrder
  <2>4. PICK k \in 1..l : p = pos[k]
    <3>1. p \in 1..Len(t) BY <1>7
    <3>2. Laid(t, R, history, pos) BY <1>4, <1>5
    <3> QED BY <1>8, <2>2, <3>1, <3>2, OrdinaryPlaces
  <2>5. \A i, j \in 1..l : i < j => pos[i] < pos[j] BY <1>5, <2>2 DEF Laid
  <2>6. \A i \in 1..l : pos[i] \in Int /\ pos[i] # p + 1 BY <1>14, <2>2
  <2>7. p \in Int BY <1>7
  <2>8. k = m + 1
    <3>1. k \notin 1..m
      <4> SUFFICES ASSUME k \in 1..m PROVE FALSE OBVIOUS
      <4>1. pos[k] < p BY <2>3
      <4> QED BY <2>4, <2>7, <4>1
    <3>2. ~(m + 1 < k)
      <4> SUFFICES ASSUME m + 1 < k PROVE FALSE OBVIOUS
      <4>1. m + 1 \in 1..l /\ m + 1 \in (m + 1)..l BY <1>13, <2>3
      <4>2. pos[m + 1] < pos[k] /\ p <= pos[m + 1] BY <2>3, <2>5, <4>1
      <4> QED BY <2>4, <2>6, <2>7, <4>1, <4>2
    <3> QED BY <1>13, <2>3, <3>1, <3>2
  <2>9. m + 1 <= l BY <2>3, <2>8
  <2>10. ASSUME NEW i \in 1..(m + 1) PROVE pos[i] < p + 2 /\ found'[i] = EntryOf(R[i])
    <3>1. CASE i = m + 1
      <4>1. pos[i] = p BY <2>4, <2>8, <3>1
      <4>2. new = EntryOf(R[i])
        <5>1. i \in 1..Len(R) BY <1>13, <2>2, <2>3, <2>9, <3>1
        <5> QED BY <1>14, <4>1, <5>1
      <4> QED BY <1>13, <2>7, <3>1, <4>1, <4>2
    <3>2. CASE i # m + 1
      <4>1. i \in 1..m /\ i \in 1..l BY <1>13, <2>3, <3>2
      <4>2. pos[i] < p /\ found[i] = EntryOf(R[i]) /\ pos[i] \in Int BY <2>3, <2>6, <4>1
      <4>3. pos[i] < p + 2 BY <2>7, <4>2
      <4> QED BY <1>13, <4>1, <4>2, <4>3
    <3> QED BY <3>1, <3>2
  <2>11. ASSUME NEW i \in (m + 2)..l PROVE p + 2 <= pos[i]
    <3>1. i \in 1..l /\ m + 1 \in 1..l /\ m + 1 < i BY <1>13, <2>3
    <3>2. pos[m + 1] < pos[i] /\ pos[i] \in Int /\ pos[i] # p + 1 BY <2>5, <2>6, <3>1
    <3>3. pos[m + 1] = p BY <2>4, <2>8
    <3> QED BY <2>7, <3>2, <3>3
  <2>12. (m + 1) + 1 = m + 2 BY <1>13
  <2> QED BY <1>13, <1>17, <2>2, <2>9, <2>10, <2>11, <2>12 DEF InOrder
<1>22. Parsed(t, R, h, p + 2, n, pos)'
  BY <1>5, <1>15, <1>19, <1>20, <1>21 DEF Parsed
<1>23. Answer' = t /\ Shown' = R /\ history' = h
  BY <1>1, <1>4, SameAnswer
<1>24. (\E q, l, ps : Parsed(Answer, Shown, history, q, l, ps))'
  BY <1>22, <1>23, Zenon
<1>25. caller = "previous" => m < 2 BY <1>1, <1>12 DEF LogInv
<1>26. Enough(found') <=> caller = "author" \/ (caller = "previous" /\ m + 1 = 2)
  BY <1>13 DEF Enough
<1>27. stage' = "undefined" => ~Ordinary(history)
  <2> SUFFICES ASSUME stage' = "undefined", Ordinary(history) PROVE FALSE OBVIOUS
  <2>1. Unset(found') BY <1>1
  <2>2. InOrder(R, p + 2, pos)' BY <1>1, <1>21
  <2>3. \A i \in 1..(m + 1) : found'[i].date # None
    <3> SUFFICES ASSUME NEW i \in 1..(m + 1) PROVE found'[i].date # None OBVIOUS
    <3>1. found'[i] = EntryOf(R[i]) /\ m + 1 <= Len(R)
      BY <1>13, <1>17, <2>2 DEF InOrder
    <3>2. R[i] \in Revision
      <4>1. i \in 1..Len(R) BY <1>7, <1>13, <3>1
      <4> QED BY <1>6, <4>1
    <3>3. R[i].ver \in Text BY <3>2 DEF Revision
    <3>4. R[i].ver # None BY <3>3, LogAssumption
    <3> QED BY <3>1, <3>4 DEF EntryOf
  <2>4. found' # <<>> BY <1>13
  <2>5. PICK entries : entries = found' OBVIOUS
  <2>6. ~Unset(entries) BY <1>13, <2>3, <2>4, <2>5, DatesSet
  <2> QED BY <2>1, <2>5, <2>6
<1>28. stage' \in {"read", "done", "undefined"} BY <1>1
<1>29. OrdinaryIsSafe' BY <1>1, <1>27, <1>28 DEF OrdinaryIsSafe
<1>30. stage' = "read" => caller # "author" /\ ~(caller = "previous" /\ m + 1 = 2)
  BY <1>1, <1>26
<1>31. stage' = "done" => caller = "author" \/ (caller = "previous" /\ Len(found') = 2)
  BY <1>1, <1>13, <1>26
<1>32. caller = "previous" => Len(found') <= 2 BY <1>13, <1>25
<1>33. caller = "previous" /\ stage' = "read" => Len(found') < 2
  BY <1>13, <1>25, <1>30
<1> QED
  BY <1>1, <1>13, <1>24, <1>28, <1>29, <1>30, <1>31, <1>32, <1>33 DEF LogInv

LEMMA LogInvKept == LogInv /\ [LogNext]_logvars => LogInv'
<1> SUFFICES ASSUME LogInv, [LogNext]_logvars PROVE LogInv' OBVIOUS
<1>1. CASE UNCHANGED logvars
  <2>1. PICK p, n, pos : Parsed(Answer, Shown, history, p, n, pos)
    BY DEF LogInv
  <2>2. UNCHANGED <<history, caller, asked, log, found, stage, cut>>
    BY <1>1 DEF logvars
  <2>3. Answer' = Answer /\ Shown' = Shown /\ history' = history
    BY <2>2, SameAnswer
  <2>4. PICK t, R, h : t = Answer /\ R = Shown /\ h = history OBVIOUS
  <2>5. Parsed(t, R, h, p, n, pos)'
    BY <2>1, <2>2, <2>4
       DEF Parsed, Left, Drawn, Visited, InOrder, EntryOf, FoundAt, WantsVersion
  <2>6. (\E q, m, ps : Parsed(Answer, Shown, history, q, m, ps))'
    BY <2>3, <2>4, <2>5, Zenon
  <2> QED BY <2>2, <2>6 DEF LogInv, OrdinaryIsSafe
<1> QED
  BY <1>1, SkipKeeps, NoSpaceKeeps, TornKeeps, NoSemicolonKeeps, EntryKeeps, EndKeeps DEF LogNext

LEMMA LogInvHolds == LogSpec => []LogInv
BY LogInvAtFirst, LogInvKept, PTL DEF LogSpec

-----------------------------------------------------------------------------
(* What a caller is told. *)

\* Nothing that was freed or not set is used, unless somebody wrote a line that
\* begins with "revision" or the log was cut.
THEOREM LogSafe == LogSpec => []OrdinaryIsSafe
<1>1. LogInv => OrdinaryIsSafe BY DEF LogInv
<1> QED BY <1>1, LogInvHolds, PTL

\* cvs_get_log_info and its callers list a revision with its own date and author,
\* or with those that a user pasted into a message right behind a line that begins
\* with "revision"; and with no other ones, wherever the log was cut.
THEOREM LogDatesOwn == LogSpec => []DatesOwn
<1>1. ASSUME LogInv PROVE DatesOwn
  <2> SUFFICES ASSUME NEW i \in DOMAIN found, found[i].date # None
               PROVE  \/ \E r \in ToSet(history.revisions) :
                            /\ found[i].date = r.ver
                            /\ WantsVersion => found[i].ver = Kept(RevisionLine(r).text)
                            /\ ~WantsVersion => found[i].ver = r.ver
                      \/ \E p \in Pasted(history) :
                            /\ found[i].date = p[2].of
                            /\ WantsVersion => found[i].ver = Kept(p[1].text)
    BY DEF DatesOwn
  <2>1. PICK t, R, h, pos :
          R = Shown /\ h = history /\ Laid(t, R, h, pos) /\ Drawn(t)
    <3>1. PICK p, n, pos : Parsed(Answer, Shown, history, p, n, pos)
      BY <1>1 DEF LogInv
    <3> QED BY <3>1 DEF Parsed
  <2>2. /\ R \in Seq(Revision) /\ ToSet(R) \subseteq ToSet(history.revisions)
        /\ caller = "author" => Len(R) = 1 /\ R[1].ver = asked
        /\ t \in Seq(Line)
    BY <1>1, <2>1, ShownFits DEF LogInv, Laid
  <2>3. PICK q \in 1..(Len(t) - 1) : t[q].kind = "revision" /\ found[i] = FoundAt(t, q)
    BY <2>1 DEF Drawn
  <2>4. t[q + 1].kind = "date" /\ q + 1 \in 1..Len(t)
    <3>1. t[q + 1].kind = "date" BY <2>3 DEF FoundAt
    <3>2. Len(t) \in Nat BY <2>2
    <3> QED BY <3>1, <3>2
  <2>p. q \in Nat /\ (q + 1) - 1 = q
    <3>1. Len(t) \in Nat BY <2>2
    <3> QED BY <3>1
  <2>c. CASE <<t[q], t[q + 1]>> \in Pasted(history)
    <3>1. PICK p : p = <<t[q], t[q + 1]>> OBVIOUS
    <3>2. p \in Pasted(history) /\ p[1] = t[q] /\ p[2] = t[q + 1] BY <2>c, <3>1
    <3>3. found[i].date = p[2].of BY <2>3, <2>4, <3>2 DEF FoundAt
    <3>4. WantsVersion => found[i].ver = Kept(p[1].text) BY <2>3, <3>2 DEF FoundAt
    <3> QED BY <3>2, <3>3, <3>4
  <2> SUFFICES ASSUME <<t[q], t[q + 1]>> \notin Pasted(history)
               PROVE  \E r \in ToSet(history.revisions) :
                        /\ found[i].date = r.ver
                        /\ WantsVersion => found[i].ver = Kept(RevisionLine(r).text)
                        /\ ~WantsVersion => found[i].ver = r.ver
    BY <2>c
  <2>5. PICK j \in 1..Len(R) : q + 1 = pos[j] + 1
    <3>1. \/ \E j \in 1..Len(R) : q + 1 = pos[j] + 1
          \/ t[(q + 1) - 1].kind = "revision" =>
                <<t[(q + 1) - 1], t[q + 1]>> \in Pasted(history)
      BY <2>1, <2>4 DEF Laid
    <3> QED BY <2>3, <2>p, <3>1
  <2>6. Place(t, pos[j], R[j]) /\ R[j] \in Revision BY <2>1, <2>2 DEF Laid
  <2>7. q = pos[j]
    <3>1. pos[j] \in Int
      <4>1. Len(t) \in Nat BY <2>2
      <4> QED BY <2>6, <4>1 DEF Place
    <3> QED BY <2>5, <3>1
  <2>8. found[i] = EntryOf(R[j]) BY <2>3, <2>6, <2>7, FoundAtPlace
  <2>9. R[j] \in ToSet(history.revisions)
    <3>1. j \in DOMAIN R BY <2>2
    <3> QED BY <2>2, <3>1 DEF ToSet
  <2>10. caller = "author" => R[j].ver = asked
    <3> SUFFICES ASSUME caller = "author" PROVE R[j].ver = asked OBVIOUS
    <3>1. Len(R) = 1 /\ R[1].ver = asked BY <2>2
    <3>2. j \in 1..1
      <4>1. j \in 1..Len(R) OBVIOUS
      <4> QED BY <3>1, <4>1, Zenon
    <3>3. j = 1 BY <3>2
    <3> QED BY <3>1, <3>3
  <2> QED BY <2>8, <2>9, <2>10 DEF EntryOf, WantsVersion
<1> QED BY <1>1, LogInvHolds, PTL

\* With an ordinary log, whole, and no revision locked or too long, lsver lists
\* all revisions, latest first, and lsver -p the second one.
THEOREM LogLsverExact == LogSpec => []LsverExact
<1>1. ASSUME LogInv PROVE LsverExact
  <2> DEFINE all == [i \in DOMAIN history.revisions |->
                       [ver |-> history.revisions[i].ver,
                        date |-> history.revisions[i].ver]]
  <2> SUFFICES ASSUME stage = "done", caller \in {"lsver", "previous"}, ~cut,
                      Ordinary(history),
                      \A r \in ToSet(history.revisions) :
                         ~r.locked /\ Len(r.ver) <= VerLen
               PROVE  Replied(found) =
                        IF caller = "lsver" THEN all
                        ELSE IF Len(all) > 1 THEN <<all[2]>> ELSE all
    BY DEF LsverExact
  <2>1. PICK t, R, h, p, n, pos :
          /\ R = Shown /\ Laid(t, R, h, pos) /\ Left(t, p, n)
          /\ InOrder(R, p, pos)
    <3>1. PICK p, n, pos : Parsed(Answer, Shown, history, p, n, pos)
      BY <1>1 DEF LogInv
    <3> QED BY <3>1 DEF Parsed
  <2>2. /\ R = history.revisions /\ R \in Seq(Revision)
        /\ t \in Seq(Line) /\ found \in Seq(FoundEntry)
    BY <1>1, <2>1, ShownFits DEF LogInv, Laid
  <2>3. PICK m, l : m = Len(found) /\ l = Len(R) OBVIOUS
  <2>4. /\ m \in Nat /\ l \in Nat /\ m <= l
        /\ DOMAIN found = 1..m /\ DOMAIN R = 1..l
        /\ \A i \in 1..m : found[i] = EntryOf(R[i])
        /\ \A i \in (m + 1)..l : p <= pos[i]
    BY <2>1, <2>2, <2>3 DEF InOrder
  <2>12. found = <<>> <=> m = 0
    <3>1. \A S : \A e \in Seq(S) : e = <<>> <=> Len(e) = 0 OBVIOUS
    <3>2. found \in Seq(FoundEntry) BY <2>2
    <3> QED BY <2>3, <3>1, <3>2, Zenon
  <2>5. all = [i \in 1..l |-> [ver |-> R[i].ver, date |-> R[i].ver]]
    BY <2>2, <2>4
  <2> HIDE DEF all
  <2>6. Len(all) = l /\ \A i \in 1..l : all[i] = [ver |-> R[i].ver, date |-> R[i].ver]
    BY <2>4, <2>5
  <2>7. ASSUME NEW i \in 1..m PROVE found[i] = all[i]
    <3>1. i \in 1..l BY <2>4
    <3>2. R[i] \in Revision /\ R[i] \in ToSet(history.revisions)
      <4>1. R[i] \in Revision BY <2>2, <2>4, <3>1
      <4>2. R[i] \in ToSet(R)
        <5>1. i \in DOMAIN R BY <2>4, <3>1
        <5> QED BY <5>1 DEF ToSet
      <4> QED BY <2>2, <4>1, <4>2
    <3>3. ~R[i].locked /\ Len(R[i].ver) <= VerLen BY <3>2
    <3>4. RevisionLine(R[i]).text = R[i].ver BY <3>2, <3>3, LineFields
    <3>5. Kept(R[i].ver) = R[i].ver BY <3>3 DEF Kept
    <3>6. WantsVersion BY DEF WantsVersion
    <3>7. EntryOf(R[i]) = [ver |-> R[i].ver, date |-> R[i].ver]
      BY <3>4, <3>5, <3>6 DEF EntryOf
    <3> QED BY <2>4, <2>6, <3>1, <3>7
  <2>8. log = <<>> => m = l
    <3> SUFFICES ASSUME log = <<>>, m < l PROVE FALSE BY <2>4
    <3>1. n = Len(t) /\ n \in 1..Len(t) /\ p \in 1..(n + 1) /\ log = SubSeq(t, p, n)
      BY <2>1 DEF Left
    <3>2. PICK s : s = SubSeq(t, p, n) OBVIOUS
    <3>3. s = <<>> <=> p = n + 1 BY <2>2, <3>1, <3>2, RestOf
    <3>4. p = n + 1 BY <3>1, <3>2, <3>3
    <3>5. l \in 1..l /\ l \in (m + 1)..l BY <2>4
    <3>6. p <= pos[l] /\ Place(t, pos[l], R[l]) BY <2>1, <2>3, <2>4, <3>5 DEF Laid
    <3>7. pos[l] \in 2..(Len(t) - 1) /\ Len(t) \in Nat BY <2>2, <3>6 DEF Place
    <3> QED BY <3>1, <3>4, <3>6, <3>7
  <2>9. CASE caller = "lsver"
    <3>1. m = l BY <1>1, <2>8, <2>9 DEF LogInv
    <3>2. found = [i \in 1..m |-> found[i]] BY <2>2, <2>3
    <3>3. all = [i \in 1..l |-> all[i]] BY <2>5
    <3>4. found = all BY <2>7, <3>1, <3>2, <3>3
    <3>5. Replied(found) = found BY <2>9 DEF Replied
    <3> QED BY <2>9, <3>4, <3>5
  <2>10. CASE caller = "previous"
    <3>1. m = 2 \/ (m = l /\ m <= 2)
      BY <1>1, <2>3, <2>8, <2>10 DEF LogInv
    <3>2. Replied(found) = IF found = <<>> THEN <<>> ELSE <<Last(found)>>
      BY <2>10 DEF Replied
    <3>3. CASE m = 2
      <4>3. found # <<>> BY <2>12, <3>3
      <4>4. Last(found) = found[2] BY <2>3, <3>3, Zenon DEF Last
      <4>1. found # <<>> /\ Last(found) = found[2] BY <4>3, <4>4
      <4>2. found[2] = all[2] /\ Len(all) > 1 BY <2>4, <2>6, <2>7, <3>3
      <4> QED BY <2>10, <3>2, <4>1, <4>2
    <3>4. CASE m = 1 /\ l = 1
      <4>4. found # <<>> BY <2>12, <3>4
      <4>5. Last(found) = found[1] BY <2>3, <3>4, Zenon DEF Last
      <4>1. found # <<>> /\ Last(found) = found[1] BY <4>4, <4>5
      <4>2. found[1] = all[1] /\ ~(Len(all) > 1) BY <2>6, <2>7, <3>4
      <4>3. all = <<all[1]>> BY <2>5, <3>4
      <4> QED BY <2>10, <3>2, <4>1, <4>2, <4>3
    <3>5. CASE m = 0 /\ l = 0
      <4>1. found = <<>> BY <2>12, <3>5
      <4>2. ~(Len(all) > 1) BY <2>6, <3>5
      <4>3. all = <<>> BY <2>5, <3>5
      <4> QED BY <2>10, <3>2, <4>1, <4>2, <4>3
    <3> QED BY <2>4, <3>1, <3>3, <3>4, <3>5
  <2> QED BY <2>9, <2>10
<1> QED BY <1>1, LogInvHolds, PTL

\* What is kept of a locked revision is what is kept of its number, or has a tab.
LEMMA KeptLocked ==
    ASSUME NEW v \in Text, NEW x, x = Kept(Append(v, Tab)), ~Contains(x, Tab)
    PROVE  Len(v) >= VerLen /\ x = SubSeq(v, 1, VerLen)
<1>1. VerLen \in Nat \ {0} /\ Tab \in Char /\ v \in Seq(Char) BY LogAssumption DEF Text
<1>2. PICK a, l : a = Append(v, Tab) /\ l = Len(v) OBVIOUS
<1>3. /\ a \in Seq(Char) /\ Len(a) = l + 1 /\ l \in Nat /\ a[l + 1] = Tab
      /\ \A i \in 1..l : a[i] = v[i]
  BY <1>1, <1>2
<1>4. ~(Len(a) <= VerLen)
  <2> SUFFICES ASSUME Len(a) <= VerLen PROVE FALSE OBVIOUS
  <2>1. x = a BY <1>2 DEF Kept
  <2>2. l + 1 \in 1..Len(a) BY <1>3
  <2>3. Contains(x, Tab) BY <1>3, <2>1, <2>2 DEF Contains
  <2> QED BY <2>3
<1>5. x = SubSeq(a, 1, VerLen) BY <1>2, <1>4 DEF Kept
<1>6. VerLen <= l BY <1>1, <1>3, <1>4
<1>7. PICK b : b = SubSeq(v, 1, VerLen) OBVIOUS
<1>8. /\ b \in Seq(Char) /\ Len(b) = VerLen
      /\ \A i \in 1..VerLen : b[i] = v[i]
  BY <1>1, <1>2, <1>6, <1>7
<1>9. /\ x \in Seq(Char) /\ Len(x) = VerLen
      /\ \A i \in 1..VerLen : x[i] = a[i]
  BY <1>1, <1>3, <1>5, <1>6
<1>10. \A i \in 1..VerLen : x[i] = b[i] BY <1>1, <1>3, <1>6, <1>8, <1>9
<1>11. x = b BY <1>8, <1>9, <1>10, SeqEqual
<1> QED BY <1>1, <1>2, <1>3, <1>6, <1>7, <1>11

\* vcfs_validate_version finds every unlocked revision that fits, and what it
\* finds is one, or is quoted in a message, or is what is kept of a longer number.
THEOREM LogValidRight == LogSpec => []ValidRight
<1>1. ASSUME LogInv PROVE ValidRight
  <2> SUFFICES ASSUME caller = "validate", stage = "done"
               PROVE  /\ ~cut /\ Len(asked) <= VerLen /\ asked \in Unlocked(history) => Valid
                      /\ Valid => \/ asked \in Unlocked(history)
                                  \/ asked \in Quoted(history)
                                  \/ \E v \in Versions(history) \cup Quoted(history) :
                                        Len(v) >= VerLen /\ asked = SubSeq(v, 1, VerLen)
    BY DEF ValidRight
  <2>1. PICK t, R, p, n, pos :
          /\ R = Shown /\ Laid(t, R, history, pos) /\ Left(t, p, n)
          /\ Drawn(t) /\ Visited(R, p, pos)
    <3>1. PICK p, n, pos : Parsed(Answer, Shown, history, p, n, pos)
      BY <1>1 DEF LogInv
    <3> QED BY <3>1 DEF Parsed
  <2>2. R = history.revisions /\ R \in Seq(Revision) /\ t \in Seq(Line)
    BY <1>1, <2>1, ShownFits DEF LogInv, Laid
  <2>3. WantsVersion BY DEF WantsVersion
  <2>4. ASSUME ~cut, Len(asked) <= VerLen, asked \in Unlocked(history) PROVE Valid
    <3>1. PICK j \in DOMAIN R : ~R[j].locked /\ asked = R[j].ver
      BY <2>2, <2>4 DEF Unlocked
    <3>2. j \in 1..Len(R) /\ R[j] \in Revision BY <2>2
    <3>3. n = Len(t) /\ n \in 1..Len(t) /\ p \in 1..(n + 1) /\ log = SubSeq(t, p, n)
      BY <2>1, <2>4 DEF Left
    <3>4. log = <<>> BY <1>1 DEF LogInv
    <3>5. PICK s : s = SubSeq(t, p, n) OBVIOUS
    <3>6. s = <<>> <=> p = n + 1 BY <2>2, <3>3, <3>5, RestOf
    <3>7. p = n + 1 BY <3>3, <3>4, <3>5, <3>6
    <3>8. pos[j] \in 2..(Len(t) - 1) /\ Len(t) \in Nat
      BY <2>1, <2>2, <3>2 DEF Laid, Place
    <3>9. pos[j] < p BY <3>3, <3>7, <3>8
    <3>10. PICK i \in DOMAIN found : found[i] = EntryOf(R[j])
      BY <2>1, <3>2, <3>9 DEF Visited
    <3>11. RevisionLine(R[j]).text = asked BY <3>1, <3>2, LineFields
    <3>12. found[i].ver = asked BY <2>3, <2>4, <3>10, <3>11 DEF EntryOf, Kept
    <3> QED BY <3>12 DEF Valid
  <2>5. ASSUME Valid
        PROVE  \/ asked \in Unlocked(history)
               \/ asked \in Quoted(history)
               \/ \E v \in Versions(history) \cup Quoted(history) :
                     Len(v) >= VerLen /\ asked = SubSeq(v, 1, VerLen)
    <3>1. PICK i \in DOMAIN found : found[i].ver = asked BY <2>5 DEF Valid
    <3>2. PICK q \in 1..(Len(t) - 1) :
            /\ t[q].kind = "revision" /\ t[q].text # None
            /\ found[i] = FoundAt(t, q)
      BY <2>1, <2>3 DEF Drawn
    <3>3. asked = Kept(t[q].text) BY <2>3, <3>1, <3>2 DEF FoundAt
    <3>4. q \in 1..Len(t) /\ VerLen \in Nat
      <4>1. Len(t) \in Nat BY <2>2
      <4> QED BY <4>1, LogAssumption
    <3>5. t[q].text \in Seq(Char)
      <4>1. t[q] \in Line BY <2>2, <3>4
      <4>2. t[q].text \in Text \cup {None} BY <4>1 DEF Line
      <4> QED BY <3>2, <4>2 DEF Text
    <3>6. \A v : v \in Seq(Char) /\ asked = Kept(v) =>
                    asked = v \/ (Len(v) >= VerLen /\ asked = SubSeq(v, 1, VerLen))
      <4> SUFFICES ASSUME NEW v \in Seq(Char), asked = Kept(v)
                   PROVE  asked = v \/ (Len(v) >= VerLen /\ asked = SubSeq(v, 1, VerLen))
        OBVIOUS
      <4>1. Len(v) <= VerLen \/ Len(v) >= VerLen BY <3>4
      <4> QED BY <3>4, <4>1 DEF Kept
    <3>7. CASE t[q] \in WrittenLines(history)
      <4>1. t[q].text \in Quoted(history) BY <3>2, <3>7 DEF Quoted
      <4> QED BY <3>3, <3>5, <3>6, <4>1
    <3>8. CASE \E j \in 1..Len(R) : q = pos[j]
      <4>1. PICK j \in 1..Len(R) : q = pos[j] BY <3>8
      <4>2. R[j] \in Revision /\ j \in DOMAIN R /\ Place(t, q, R[j])
        BY <2>1, <2>2, <4>1 DEF Laid
      <4>3. R[j].ver \in Versions(history) /\ R[j].ver \in Text
        BY <2>2, <4>2 DEF Versions, Revision
      <4>4. t[q].text = IF R[j].locked THEN Append(R[j].ver, Tab) ELSE R[j].ver
        BY <4>2, LineFields DEF Place
      <4>5. CASE R[j].locked
        <5>1. ~Contains(asked, Tab) BY <1>1 DEF LogInv
        <5>2. asked = Kept(Append(R[j].ver, Tab)) BY <3>3, <4>4, <4>5
        <5>3. Len(R[j].ver) >= VerLen /\ asked = SubSeq(R[j].ver, 1, VerLen)
          BY <4>3, <5>1, <5>2, KeptLocked
        <5> QED BY <4>3, <5>3
      <4>6. CASE ~R[j].locked
        <5>1. t[q].text = R[j].ver BY <4>4, <4>6
        <5>2. R[j].ver \in Unlocked(history) BY <2>2, <4>2, <4>6 DEF Unlocked
        <5> QED BY <3>3, <3>5, <3>6, <4>3, <5>1, <5>2
      <4> QED BY <4>5, <4>6
    <3> QED BY <2>1, <3>2, <3>4, <3>7, <3>8 DEF Laid
  <2> QED BY <2>4, <2>5
<1> QED BY <1>1, LogInvHolds, PTL
=============================================================================
