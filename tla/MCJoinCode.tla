----------------------------- MODULE MCJoinCode -----------------------------
EXTENDS JoinCode

\* Two characters of the base32 alphabet: one letter, to exercise the case
\* conversions, and one digit.
MCChars == {"S", "7"}
=============================================================================
