------------------------------- MODULE JoinCode -------------------------------
(***************************************************************************)
(* Join codes as text. generateCode (src/server/internal/session/store.go) *)
(* renders the first 12 base32 characters as XXXX-XXXX-XXXX; a user types  *)
(* the code back in some form; the join handler normalizes what it gets    *)
(* before Store.Join looks it up in byCodes. Two normalizations exist:     *)
(* the rendezvous server's handleJoin (src/unnamed/part_005, and the same *)
(* lines in src/unnamed/part_010) and the one of the signaling server      *)
(* embedded in sfo-helper (src/cmd/sfo-helper/main.go), which serves the  *)
(* same session.Store. A string is a sequence of one-character strings.   *)
(***************************************************************************)
EXTENDS Naturals, Sequences, SequencesExt

CONSTANTS
    Chars   \* the base32 characters the encoder may emit (A-Z, 2-7)

UpperCase == <<"A", "B", "C", "D", "E", "F", "G", "H", "I", "J", "K", "L", "M",
               "N", "O", "P", "Q", "R", "S", "T", "U", "V", "W", "X", "Y", "Z">>
LowerCase == <<"a", "b", "c", "d", "e", "f", "g", "h", "i", "j", "k", "l", "m",
               "n", "o", "p", "q", "r", "s", "t", "u", "v", "w", "x", "y", "z">>

\* strings.ToUpper / strings.ToLower on ASCII text.
ToUpper(s) == [i \in 1..Len(s) |->
                 IF \E j \in 1..26 : LowerCase[j] = s[i]
                 THEN UpperCase[CHOOSE j \in 1..26 : LowerCase[j] = s[i]]
                 ELSE s[i]]
ToLower(s) == [i \in 1..Len(s) |->
                 IF \E j \in 1..26 : UpperCase[j] = s[i]
                 THEN LowerCase[CHOOSE j \in 1..26 : UpperCase[j] = s[i]]
                 ELSE s[i]]

\* strings.ReplaceAll(s, "-", "").
StripDashes(s) == Remove(s, "-")

\* fmt.Sprintf("%s-%s-%s", e[0:4], e[4:8], e[8:12]).
Quartets(e) == SubSeq(e, 1, 4) \o <<"-">> \o SubSeq(e, 5, 8) \o <<"-">>
                 \o SubSeq(e, 9, 12)

\* generateCode: the encoding is already upper case; its first 12
\* characters are grouped in quartets.
GenerateCode(e) == Quartets(ToUpper(SubSeq(e, 1, 12)))

\* Mutant: the rendezvous server forgets to upper-case.
NormalizeNoUpper(in) ==
    LET c == StripDashes(in) IN
    IF Len(c) = 12 THEN Quartets(c) ELSE c

\* handleJoin of the rendezvous server: upper-case, drop the dashes, and
\* regroup when exactly 12 characters remain.
NormalizeRendezvous(in) ==
    LET c == ToUpper(StripDashes(in)) IN
    IF Len(c) = 12 THEN Quartets(c) ELSE c

\* The /session/join handler of sfo-helper's runSignalingServer: trim
\* (the identity on the inputs below, which carry no white space),
\* upper-case, drop the dashes, drop an "SFO" prefix, and turn a
\* 4-character rest into "SFO-XXXX".
NormalizeHelper(in) ==
    LET c0 == StripDashes(ToUpper(in))
        c == IF IsPrefix(<<"S", "F", "O">>, c0) THEN SubSeq(c0, 4, Len(c0))
             ELSE c0 IN
    IF Len(c) = 4 THEN <<"S", "F", "O", "-">> \o c ELSE c

\* The forms in which a user gives a code back: as shown, without the
\* dashes, and either of these in lower case.
Typed(code) == {code, StripDashes(code), ToLower(code),
                ToLower(StripDashes(code))}

VARIABLES
    issued,     \* the code Store.Create indexed the session by
    typed,      \* what the user sends to /session/join
    rendezvous, \* the code the rendezvous server looks up, or <<>>
    helper      \* the code sfo-helper's server looks up, or <<>>

vars == <<issued, typed, rendezvous, helper>>

Encodings == [1..12 -> Chars]

TypeOK ==
    /\ issued \in {GenerateCode(e) : e \in Encodings}
    /\ typed \in Typed(issued)
    /\ rendezvous \in Seq(Chars \cup {"-"})
    /\ helper \in Seq(Chars \cup {"-", "S", "F", "O"})

Init ==
    /\ \E e \in Encodings : issued = GenerateCode(e)
    /\ typed \in Typed(issued)
    /\ rendezvous = <<>>
    /\ helper = <<>>

\* The rendezvous server's handleJoin receives typed.
RendezvousJoin ==
    /\ rendezvous = <<>>
    /\ rendezvous' = NormalizeRendezvous(typed)
    /\ UNCHANGED <<issued, typed, helper>>

\* sfo-helper's /session/join receives typed.
HelperJoin ==
    /\ helper = <<>>
    /\ helper' = NormalizeHelper(typed)
    /\ UNCHANGED <<issued, typed, rendezvous>>

Next == RendezvousJoin \/ HelperJoin

Spec == Init /\ [][Next]_vars

-----------------------------------------------------------------------------
\* (Spec, section 3) lookup is case-insensitive with optional dashes: the
\* rendezvous server's handleJoin maps every form of an issued code back to
\* the key Store.Create indexed it by.
RendezvousFindsCode ==
    rendezvous # <<>> => rendezvous = issued

=============================================================================
