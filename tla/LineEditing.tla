---------------------------- MODULE LineEditing ----------------------------
(***************************************************************************)
(* What a user may expect from the command terminal: one line that is      *)
(* edited around a cursor, and the acknowledged lines before it, which can *)
(* be walked through from the latest to the oldest and back.               *)
(***************************************************************************)
EXTENDS Integers, Sequences

CONSTANTS
  Chars,        \* what can be typed
  NumHistory,   \* lines that are remembered
  LenMax        \* characters of a line

VARIABLES
  line,      \* the line being edited
  cursor,    \* characters left of the cursor
  history,   \* acknowledged lines, the latest first
  at,        \* the line is a copy of history[at], or the user's own (0)
  ran        \* the line that is being executed, << >> if none is

vars == <<line, cursor, history, at, ran>>

Init ==
  /\ line = <<>> /\ cursor = 0 /\ history = <<>> /\ at = 0 /\ ran = <<>>

Left == SubSeq(line, 1, cursor)
Right == SubSeq(line, cursor + 1, Len(line))

\* Some characters appear at the cursor, which stays behind them: one that is
\* typed, or what completes the name of a command.
Insert ==
  LET n == Len(line') - Len(line) IN
  /\ n > 0 /\ Len(line') <= LenMax
  /\ cursor' = cursor + n
  /\ SubSeq(line', 1, cursor) = Left /\ SubSeq(line', cursor' + 1, Len(line')) = Right
  /\ \A i \in cursor + 1 .. cursor' : line'[i] \in Chars
  /\ ran' = <<>> /\ UNCHANGED <<history, at>>

\* One character beside the cursor is taken away.
Remove ==
  /\ \/ /\ cursor > 0
        /\ line' = SubSeq(line, 1, cursor - 1) \o Right
        /\ cursor' = cursor - 1
     \/ /\ cursor < Len(line)
        /\ line' = Left \o Tail(Right)
        /\ cursor' = cursor
  /\ ran' = <<>> /\ UNCHANGED <<history, at>>

Move ==
  /\ cursor' \in 0 .. Len(line)
  /\ ran' = <<>> /\ UNCHANGED <<line, history, at>>

\* One step to an older or a later line. Behind the latest one waits an empty line.
Recall ==
  /\ at' \in {at - 1, at + 1} \cap (0 .. Len(history))
  /\ line' = IF at' = 0 THEN <<>> ELSE history[at']
  /\ cursor' = Len(line')
  /\ ran' = <<>> /\ UNCHANGED history

\* The line is executed as it was typed, and remembered unless it is a repetition.
Acknowledge ==
  /\ ran' = line
  /\ history' = IF line = <<>> \/ (history # <<>> /\ Head(history) = line) THEN history
                ELSE SubSeq(<<line>> \o history, 1,
                            IF Len(history) < NumHistory THEN Len(history) + 1 ELSE NumHistory)
  /\ line' = <<>> /\ cursor' = 0 /\ at' = 0

\* Nothing the user can see happens.
Rest ==
  /\ ran' = <<>> /\ UNCHANGED <<line, cursor, history, at>>

Next == Insert \/ Remove \/ Move \/ Recall \/ Acknowledge \/ Rest

Spec == Init /\ [][Next]_vars
=============================================================================
