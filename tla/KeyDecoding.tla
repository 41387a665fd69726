---------------------------- MODULE KeyDecoding ----------------------------
(***************************************************************************)
(* SystemCommanding::ansiFilter(): the bytes of a terminal become keys. A  *)
(* byte is a number, and a key is the byte or one of KeyExtensions. The    *)
(* switch over the states is the set of its cases.                         *)
(***************************************************************************)
EXTENDS Integers

keyIac == 255
keyIacDo == 253
keyEcho == 1
keySuppGoAhd == 3
keyStatus == 5

keyBackspace == 127
keyBackspaceWin == 8
keyEnter == 13
keyEsc == 27
keyCtrlC == 3
keyCtrlD == 4
keyTab == 9

keyUp == 1000
keyDown == 1001
keyLeft == 1002
keyRight == 1003
keyHome == 1004
keyInsert == 1005
keyDelete == 1006
keyEnd == 1007
keyPgUp == 1008
keyPgDn == 1009
keyF(n) == 1010 + n
keyShiftTab == 1031
keyJumpLeft == 1032
keyJumpRight == 1033

Byte == 0 .. 255
Digit(n) == 48 + n
Letter(n) == 64 + n      \* 'A' is Letter(1)
Bracket == 91
Semicolon == 59
Tilde == 126

KeyStates ==
  {"StKeyMain", "StKeyEscMain", "StKeyEscBracket", "StKeyEsc1", "StKeyEscSemi", "StKeyEscSemi5",
   "StKeyEsc2", "StKeyEsc3", "StKeyEscTilde", "StKeyIac", "StKeyIacDo"}

\* A case of the switch: in state st, byte b leads to state to and gives the key out.
NoKey == -1
Case(st, b, to, out) == [st |-> st, b |-> b, to |-> to, out |-> out]
Commits(st, keyOf) == {Case(st, k[1], "StKeyMain", k[2]) : k \in keyOf}
BeforeTilde(st, keyOf) == {Case(st, k[1], "StKeyEscTilde", k[2]) : k \in keyOf}
Goes(st, to) == {Case(st, k[1], k[2], NoKey) : k \in to}

MainCases ==
  Goes("StKeyMain", {<<keyIac, "StKeyIac">>, <<keyEsc, "StKeyEscMain">>})
    \cup Commits("StKeyMain", {<<b, b>> : b \in Byte \ {keyIac, keyEsc, keyCtrlC, keyCtrlD}})

BracketCases ==
  Goes("StKeyEscMain", {<<Bracket, "StKeyEscBracket">>})
    \cup Commits("StKeyEscBracket",
           {<<Letter(1), keyUp>>, <<Letter(2), keyDown>>, <<Letter(3), keyRight>>,
            <<Letter(4), keyLeft>>, <<Letter(6), keyEnd>>, <<Letter(8), keyHome>>,
            <<Letter(26), keyShiftTab>>})
    \cup Goes("StKeyEscBracket",
           {<<Digit(1), "StKeyEsc1">>, <<Digit(2), "StKeyEsc2">>, <<Digit(3), "StKeyEsc3">>})
    \cup BeforeTilde("StKeyEscBracket",
           {<<Digit(4), keyEnd>>, <<Digit(8), keyEnd>>, <<Digit(5), keyPgUp>>,
            <<Digit(6), keyPgDn>>, <<Digit(7), keyHome>>})

\* Most function keys are computed from the byte instead of its digit: the result is
\* no key at all, which is ignored later.
NumberCases ==
  Commits("StKeyEsc1", {<<Tilde, keyHome>>} \cup {<<Letter(16 + n), keyF(1 + n)>> : n \in 0 .. 3})
    \cup Goes("StKeyEsc1", {<<Semicolon, "StKeyEscSemi">>})
    \cup BeforeTilde("StKeyEsc1", {<<Digit(n), keyF(0) + Digit(n)>> : n \in 0 .. 5}
                                    \cup {<<Digit(n), keyF(6) + (Digit(n) - 7)>> : n \in 7 .. 9})
    \cup Goes("StKeyEscSemi", {<<Digit(5), "StKeyEscSemi5">>})
    \cup Commits("StKeyEscSemi5", {<<Letter(3), keyJumpRight>>, <<Letter(4), keyJumpLeft>>})
    \cup Commits("StKeyEsc2", {<<Tilde, keyInsert>>})
    \cup BeforeTilde("StKeyEsc2", {<<Digit(n), keyF(9) + Digit(n)>> : n \in 0 .. 1}
                                    \cup {<<Digit(n), keyF(11) + (Digit(n) - 3)>> : n \in 3 .. 6}
                                    \cup {<<Digit(n), keyF(15) + (Digit(n) - 8)>> : n \in 8 .. 9})
    \cup Commits("StKeyEsc3", {<<Tilde, keyDelete>>})
    \cup BeforeTilde("StKeyEsc3", {<<Digit(n), keyF(17) + (Digit(n) - 1)>> : n \in 1 .. 4})
    \cup Goes("StKeyEscTilde", {<<Tilde, "StKeyMain">>})

\* After IAC everything but DO is swallowed, and the state is kept.
IacCases ==
  Goes("StKeyIac", {<<keyIacDo, "StKeyIacDo">>} \cup {<<b, "StKeyIac">> : b \in Byte \ {keyIacDo}})
    \cup Goes("StKeyIacDo", {<<b, "StKeyMain">> : b \in {keyEcho, keySuppGoAhd, keyStatus}})

Cases == MainCases \cup BracketCases \cup NumberCases \cup IacCases

\* No case: the terminal is closed. A key: it is processed. NoKey: the next byte is needed.
CasesOf == [st \in KeyStates |-> [b \in Byte |-> {c \in Cases : c.st = st /\ c.b = b}]]
AnsiFilter(st, b) == CasesOf[st][b]
=============================================================================
