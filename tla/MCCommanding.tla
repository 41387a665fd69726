---------------------------- MODULE MCCommanding ----------------------------
(***************************************************************************)
(* A small terminal: three rows of three characters, two letters of which  *)
(* one can be typed, and two commands that share their first letter.       *)
(***************************************************************************)
EXTENDS SystemCommanding

A == 65
B == 66

ModelInputs ==
  {<<A>>, <<keyEnter>>, <<keyTab>>, <<keyBackspace>>,
   <<keyEsc, Bracket, A>>, <<keyEsc, Bracket, B>>,       \* up, down
   <<keyEsc, Bracket, Letter(4)>>,                       \* left
   <<keyEsc, Bracket, Digit(3)>>, <<Tilde>>,             \* delete, in two parts
   <<keyEsc, Bracket, Digit(1), Semicolon, Digit(5), Letter(4)>>,   \* jump left
   <<keyBackspace, keyTab>>, <<A, keyEnter>>,
   <<keyIac, keyIacDo, keyEcho>>, <<keyEsc>>, <<keyCtrlC>>}

BlankInputs == {<<A>>, <<Space>>, <<keyEnter>>}

ModelAutoInputs == {<<A, 10>>, <<A, Space, 13>>, <<13, 10>>, <<A, A, A>>}

ModelStaleTexts == {<<>>, <<A>>}

ModelCommands ==
  <<[id |-> <<A, A, B>>, shortcut |-> <<A>>, internal |-> FALSE],
    [id |-> <<A, B>>, shortcut |-> <<>>, internal |-> TRUE]>>
=============================================================================
