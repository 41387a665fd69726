-------------------------- MODULE SystemCommanding --------------------------
(***************************************************************************)
(* A command terminal on top of a TcpTransfering child: its states, the    *)
(* line editor with the history of lines in a ring of rows, the completion *)
(* of names, the list of commands, and the automatic mode, which executes  *)
(* one command and ends. A row is the text before its terminating zero.    *)
(***************************************************************************)
EXTENDS KeyDecoding, Sequences

CONSTANTS
  NumCmdInBuffer,   \* cNumCmdInBuffer: rows, one for the line and the others for the history
  IdxColMax,        \* cIdxColMax: characters of a row
  TmoCmdAuto,       \* cTmoCmdAuto, in ticks of the clock
  Inputs,           \* what one read() may give in the terminal, as sequences of bytes
  AutoInputs,       \* what it may give in the automatic mode
  StaleTexts,       \* what may stand in the memory before the rows
  CommandOrder      \* the commands that may be registered, in the order of commandSort()

ASSUME CommandingAssumption ==
  /\ NumCmdInBuffer \in Nat \ {0, 1} /\ IdxColMax \in Nat \ {0} /\ TmoCmdAuto \in Nat
  /\ Inputs \subseteq Seq(Byte) /\ AutoInputs \subseteq Seq(Byte) /\ StaleTexts \subseteq Seq(Byte)
  /\ \A s \in AutoInputs : Len(s) \in 1 .. IdxColMax + 1
  /\ CommandOrder \in Seq([id : Seq(Byte), shortcut : Seq(Byte), internal : BOOLEAN])
  /\ \A i \in DOMAIN CommandOrder : CommandOrder[i].id # <<>>

VARIABLES
  life,            \* mStateAbstract, as far as it decides what the driver calls
  mState, mModeAuto, diffMs, mDone,
  trans,           \* mpTrans: none, not ready, ready, over
  told,            \* doneSet() of mpTrans has been called
  mStateKey, mLastKeyWasTab,
  mCmdInBuf, mIdxLineEdit, mIdxLineView, mIdxLineLast, mIdxColCursor, mIdxColLineEnd,
  cmds,            \* the set of registered commands
  buf, changed,    \* locals of dataReceive(): the bytes not processed yet, and its flag
  shown,           \* what the last promptSend() has shown: text and cursor
  ran              \* of the line executed in this step: text and the command, if there is one

procVars == <<life, mState, mModeAuto, mDone, trans, told>>
lineVars == <<mCmdInBuf, mIdxLineEdit, mIdxLineView, mIdxLineLast, mIdxColCursor, mIdxColLineEnd>>
keyVars == <<mStateKey, mLastKeyWasTab>>
vars == <<procVars, diffMs, keyVars, lineVars, cmds, buf, changed, shown, ran>>

Rows == 0 .. NumCmdInBuffer - 1
Space == 32
edit == mCmdInBuf[mIdxLineEdit]
Nothing == [text |-> <<>>, cmd |-> {}]

\* No tick of the terminal is in the middle of its bytes.
Resting == buf = <<>> /\ ~ changed

IsAlphaNum(b) == b \in (97 .. 122) \cup (65 .. 90) \cup (48 .. 57)
IsInsert(b) == IsAlphaNum(b) \/ b \in {45, 95, Space, 61}     \* - _ =

---------------------------------------------------------------------------
(* The list of commands.                                                   *)

Clashes(c, d) == c.id = d.id \/ (c.shortcut # <<>> /\ c.shortcut = d.shortcut)

\* Another process registers a command between two ticks of the terminal.
CmdReg ==
  /\ Resting
  /\ \E i \in DOMAIN CommandOrder :
       LET c == CommandOrder[i] IN
       /\ ~ c.internal /\ \A d \in cmds : ~ Clashes(c, d)
       /\ cmds' = cmds \cup {c}
  /\ ran' = Nothing
  /\ UNCHANGED <<procVars, diffMs, keyVars, lineVars, buf, changed, shown>>

Internal == {CommandOrder[i] : i \in {j \in DOMAIN CommandOrder : CommandOrder[j].internal}}

\* The first word of a line. What follows the blanks behind it are the arguments.
Word(text) ==
  LET blanks == {i \in DOMAIN text : text[i] = Space}
      n == IF blanks = {} THEN Len(text) ELSE (CHOOSE i \in blanks : \A j \in blanks : i <= j) - 1
  IN SubSeq(text, 1, n)

\* The command that is called: the first of the list with this id or shortcut.
Lookup(word) ==
  LET fits == {i \in DOMAIN CommandOrder : /\ CommandOrder[i] \in cmds
                                           /\ word \in {CommandOrder[i].id, CommandOrder[i].shortcut}}
  IN {CommandOrder[i] : i \in {j \in fits : \A k \in fits : j <= k}}

Execution(text) == [text |-> text, cmd |-> Lookup(Word(text))]

StartsWith(id, s) == Len(s) <= Len(id) /\ SubSeq(id, 1, Len(s)) = s
Candidates == {c.id : c \in {d \in cmds : StartsWith(d.id, SubSeq(edit, 1, mIdxColCursor))}}

\* What cmdAutoComplete() inserts: the characters all candidates go on with, and a
\* blank when the end of the only one is reached.
Completion ==
  LET n == mIdxColCursor
      Agree(m) == \A s, t \in Candidates : StartsWith(s, SubSeq(t, 1, m)) /\ Len(t) >= m
      id == CHOOSE s \in Candidates : TRUE
      most == CHOOSE m \in n .. Len(id) : Agree(m) /\ \A k \in m + 1 .. Len(id) : ~ Agree(k)
  IN IF Candidates = {} THEN <<>>
     ELSE SubSeq(id, n + 1, most) \o IF Candidates = {id} THEN <<Space>> ELSE <<>>

---------------------------------------------------------------------------
(* The line editor: what a key changes.                                    *)

SetLine(text, cur) ==
  /\ mCmdInBuf' = [mCmdInBuf EXCEPT ![mIdxLineEdit] = text]
  /\ mIdxColLineEnd' = Len(text) /\ mIdxColCursor' = cur

\* Mutant of Insert: the end of the row is not looked at.
InsertAll(s) ==
  /\ SetLine(SubSeq(edit, 1, mIdxColCursor) \o s
               \o SubSeq(edit, mIdxColCursor + 1, Len(edit)), mIdxColCursor + Len(s))
  /\ UNCHANGED <<mIdxLineEdit, mIdxLineView, mIdxLineLast>>

\* chInsert() of one character after the other, until the row is full.
Insert(s) ==
  LET left == IdxColMax - mIdxColLineEnd
      t == SubSeq(s, 1, IF Len(s) <= left THEN Len(s) ELSE left)
  IN /\ SetLine(SubSeq(edit, 1, mIdxColCursor) \o t
                  \o SubSeq(edit, mIdxColCursor + 1, Len(edit)), mIdxColCursor + Len(t))
     /\ UNCHANGED <<mIdxLineEdit, mIdxLineView, mIdxLineLast>>

\* Where a key moves the cursor to, if it does.
AlphaNumAt(i) == i \in DOMAIN edit /\ IsAlphaNum(edit[i])
WordEnds(i) == AlphaNumAt(i) /\ ~ AlphaNumAt(i + 1)
WordBegins(i) == ~ AlphaNumAt(i) /\ AlphaNumAt(i + 1)
JumpsRight(c) ==
  /\ mIdxColCursor < c /\ (c = mIdxColLineEnd \/ WordEnds(c))
  /\ \A j \in mIdxColCursor + 1 .. c - 1 : ~ WordEnds(j)
JumpsLeft(c) ==
  /\ c < mIdxColCursor /\ (c = 0 \/ WordBegins(c))
  /\ \A j \in c + 1 .. mIdxColCursor - 1 : ~ WordBegins(j)

CursorTarget(key) ==
  {c \in 0 .. mIdxColLineEnd :
     \/ key = keyHome /\ c = 0
     \/ key = keyEnd /\ c = mIdxColLineEnd
     \/ key = keyLeft /\ c = mIdxColCursor - 1
     \/ key = keyRight /\ c = mIdxColCursor + 1
     \/ key = keyJumpRight /\ JumpsRight(c)
     \/ key = keyJumpLeft /\ JumpsLeft(c)}

CursorMove(key) ==
  /\ mIdxColCursor' \in CursorTarget(key)
  /\ UNCHANGED <<mCmdInBuf, mIdxLineEdit, mIdxLineView, mIdxLineLast, mIdxColLineEnd>>

\* Mutant of HistoryRow: up does not stop at the line itself.
HistoryRowRound(key) ==
  {r \in Rows :
     /\ \/ /\ key = keyDown /\ mIdxLineView # mIdxLineEdit
           /\ r = (mIdxLineView + 1) % NumCmdInBuffer
        \/ key = keyUp /\ r = (mIdxLineView - 1) % NumCmdInBuffer
     /\ mCmdInBuf[r] # <<>>}

\* The row that a key recalls, if it does.
HistoryRow(key) ==
  {r \in Rows :
     /\ \/ /\ key = keyDown /\ mIdxLineView # mIdxLineEdit
           /\ r = (mIdxLineView + 1) % NumCmdInBuffer
        \/ key = keyUp /\ r = (mIdxLineView - 1) % NumCmdInBuffer /\ r # mIdxLineEdit
     /\ mCmdInBuf[r] # <<>>}

HistoryNavigate(key) ==
  /\ mIdxLineView' \in HistoryRow(key)
  /\ LET text == IF mIdxLineView' # mIdxLineEdit THEN mCmdInBuf[mIdxLineView'] ELSE <<>>
     IN SetLine(text, Len(text))
  /\ UNCHANGED <<mIdxLineEdit, mIdxLineLast>>

\* The character that a key removes, if it does.
RemoveTarget(key) ==
  {i \in 1 .. Len(edit) : \/ key \in {keyBackspace, keyBackspaceWin} /\ i = mIdxColCursor
                          \/ key = keyDelete /\ i = mIdxColCursor + 1}

ChRemove(key) ==
  /\ \E i \in RemoveTarget(key) :
       SetLine(SubSeq(edit, 1, i - 1) \o SubSeq(edit, i + 1, Len(edit)), i - 1)
  /\ UNCHANGED <<mIdxLineEdit, mIdxLineView, mIdxLineLast>>

IsInsertable(key) == IsInsert(key) /\ mIdxColLineEnd < IdxColMax

BufferEdit(key) ==
  /\ \/ /\ changed' = TRUE
        /\ \/ CursorMove(key) \/ HistoryNavigate(key) \/ ChRemove(key)
           \/ IsInsertable(key) /\ Insert(<<key>>)
     \/ /\ CursorTarget(key) = {} /\ HistoryRow(key) = {} /\ RemoveTarget(key) = {}
        /\ ~ IsInsertable(key)
        /\ UNCHANGED <<lineVars, changed>>
  /\ mLastKeyWasTab' = FALSE
  /\ ran' = Nothing /\ UNCHANGED shown

---------------------------------------------------------------------------
(* The keys that do more.                                                  *)

Prompt == [text |-> edit, cursor |-> mIdxColCursor]

\* Mutant of TabProcess: what the keys before have changed is forgotten.
TabProcessAlone ==
  /\ \/ /\ mIdxColCursor = 0 \/ mLastKeyWasTab
        /\ UNCHANGED <<lineVars, mLastKeyWasTab, shown>>
     \/ /\ mIdxColCursor # 0 /\ ~ mLastKeyWasTab
        /\ Insert(Completion) /\ mLastKeyWasTab' = TRUE
        /\ shown' = Prompt'
  /\ ran' = Nothing /\ changed' = FALSE

TabProcess ==
  /\ \/ /\ mIdxColCursor = 0
        /\ UNCHANGED <<lineVars, mLastKeyWasTab, shown>>
     \/ /\ mIdxColCursor # 0 /\ mLastKeyWasTab
        /\ shown' = IF Candidates = {} THEN shown ELSE Prompt
        /\ UNCHANGED <<lineVars, mLastKeyWasTab>>
     \/ /\ mIdxColCursor # 0 /\ ~ mLastKeyWasTab
        /\ Insert(Completion) /\ mLastKeyWasTab' = TRUE
        /\ shown' = Prompt'
  /\ ran' = Nothing /\ UNCHANGED changed

\* historyInsert() moves on to the next row, which it clears, unless the line is the
\* one before. commandExecute() then takes the latest line of the history.
IsRepetition == mIdxLineLast >= 0 /\ mCmdInBuf[mIdxLineLast] = edit

HistoryInsert ==
  IF IsRepetition
  THEN [rows |-> mCmdInBuf, row |-> mIdxLineEdit, last |-> mIdxLineLast]
  ELSE LET next == (mIdxLineEdit + 1) % NumCmdInBuffer
       IN [rows |-> [mCmdInBuf EXCEPT ![next] = <<>>], row |-> next, last |-> mIdxLineEdit]

LineAck ==
  /\ LET h == IF edit # <<>> THEN HistoryInsert
              ELSE [rows |-> mCmdInBuf, row |-> mIdxLineEdit, last |-> mIdxLineLast]
         text == IF h.rows[h.row] = <<>> THEN h.rows[h.last] ELSE h.rows[h.row]
     IN /\ ran' = IF edit # <<>> THEN Execution(text) ELSE Nothing
        /\ mCmdInBuf' = [h.rows EXCEPT ![h.row] = <<>>]
        /\ mIdxLineEdit' = h.row /\ mIdxLineLast' = h.last
  /\ mIdxColLineEnd' = 0 /\ mIdxColCursor' = 0
  /\ mIdxLineView' = mIdxLineEdit'
  /\ shown' = Prompt'
  /\ mLastKeyWasTab' = FALSE /\ UNCHANGED changed

KeyProcess(key) ==
  \/ key = keyTab /\ TabProcess
  \/ key = keyEnter /\ LineAck
  \/ key \notin {keyTab, keyEnter} /\ BufferEdit(key)

---------------------------------------------------------------------------
(* The process. A tick of StMain is the read() and then one step per byte. *)

Ticking(st) == life = "processing" /\ mState = st /\ Resting
editVars == <<keyVars, lineVars, buf, changed, shown>>

\* process() returns a result.
End == life' = "downShutting" /\ UNCHANGED <<mState, mModeAuto, trans, told>>

Begin ==
  /\ life = "existent" /\ life' = "processing"
  /\ ran' = Nothing
  /\ UNCHANGED <<mState, mModeAuto, mDone, trans, told, diffMs, editVars, cmds>>

\* The owner cancels the process between two ticks.
Cancel ==
  /\ life \in {"existent", "processing"} /\ Resting
  /\ life' = IF life = "existent" THEN "skipped" ELSE "downShutting"
  /\ ran' = Nothing
  /\ UNCHANGED <<mState, mModeAuto, mDone, trans, told, diffMs, editVars, cmds>>

Start ==
  /\ Ticking("StStart")
  /\ \/ End /\ UNCHANGED cmds                  \* there is no connection to start
     \/ /\ trans' \in {"waiting", "ready"}
        /\ cmds' = cmds \cup {c \in Internal : \A d \in cmds : ~ Clashes(c, d)}
        /\ mState' = "StSendReadyWait"
        /\ UNCHANGED <<life, mModeAuto, told>>
  /\ ran' = Nothing
  /\ UNCHANGED <<mDone, diffMs, editVars>>

\* Mutant of SendReadyWait: the success of the connection is not looked at.
SendReadyWaitBlind ==
  /\ Ticking("StSendReadyWait")
  /\ \/ trans \in {"waiting", "over"} /\ UNCHANGED <<procVars, diffMs>>
     \/ /\ trans = "ready"
        /\ mState' = IF mModeAuto THEN "StCmdAutoReceiveWait" ELSE "StTelnetInit"
        /\ diffMs' = 0
        /\ UNCHANGED <<life, mModeAuto, trans, told>>
  /\ ran' = Nothing
  /\ UNCHANGED <<mDone, editVars, cmds>>

SendReadyWait ==
  /\ Ticking("StSendReadyWait")
  /\ \/ trans = "over" /\ End /\ UNCHANGED diffMs
     \/ trans = "waiting" /\ UNCHANGED <<procVars, diffMs>>
     \/ /\ trans = "ready"
        /\ mState' = IF mModeAuto THEN "StCmdAutoReceiveWait" ELSE "StTelnetInit"
        /\ diffMs' = 0
        /\ UNCHANGED <<life, mModeAuto, trans, told>>
  /\ ran' = Nothing
  /\ UNCHANGED <<mDone, editVars, cmds>>

TelnetInit ==
  /\ Ticking("StTelnetInit")
  /\ mState' = "StWelcomeSend"
  /\ ran' = Nothing
  /\ UNCHANGED <<life, mModeAuto, mDone, trans, told, diffMs, editVars, cmds>>

WelcomeSend ==
  /\ Ticking("StWelcomeSend")
  /\ shown' = Prompt
  /\ mState' = "StMain"
  /\ ran' = Nothing
  /\ UNCHANGED <<life, mModeAuto, mDone, trans, told, diffMs, keyVars, lineVars, buf, changed, cmds>>

\* read() has nothing for the terminal, ...
Main ==
  /\ Ticking("StMain")
  /\ \/ trans = "over" /\ End
     \/ trans = "ready" /\ UNCHANGED <<life, mState, mModeAuto, trans, told>>
  /\ ran' = Nothing
  /\ UNCHANGED <<mDone, diffMs, editVars, cmds>>

\* ... or, if the user sends something, bytes, or an error. A single ESC is dropped.
MainReceive ==
  /\ Ticking("StMain") /\ trans = "ready"
  /\ \/ buf' \in Inputs \ {<<keyEsc>>} /\ UNCHANGED procVars
     \/ /\ mDone' = TRUE /\ trans' = "over" /\ life' = "downShutting"
        /\ UNCHANGED <<mState, mModeAuto, told, buf>>
  /\ ran' = Nothing
  /\ UNCHANGED <<diffMs, keyVars, lineVars, changed, shown, cmds>>

\* dataReceive() takes the next byte. One that fits no state ends the session.
Key ==
  /\ buf # <<>>
  /\ LET cs == AnsiFilter(mStateKey, Head(buf)) IN
     \/ /\ cs = {}
        /\ mDone' = TRUE /\ End
        /\ buf' = <<>> /\ changed' = FALSE /\ ran' = Nothing
        /\ UNCHANGED <<keyVars, lineVars, shown>>
     \/ \E c \in cs :
          /\ mStateKey' = c.to /\ buf' = Tail(buf)
          /\ \/ /\ c.out = NoKey /\ ran' = Nothing
                /\ UNCHANGED <<mLastKeyWasTab, lineVars, changed, shown>>
             \/ c.out # NoKey /\ KeyProcess(c.out)
          /\ UNCHANGED procVars
  /\ UNCHANGED <<diffMs, cmds>>

PromptSend ==
  /\ buf = <<>> /\ changed
  /\ shown' = Prompt /\ changed' = FALSE
  /\ ran' = Nothing
  /\ UNCHANGED <<procVars, diffMs, keyVars, lineVars, buf, cmds>>

\* An empty command is replaced by the row of mIdxLineLast, which is the memory before
\* the rows: there is no history in this mode. The zero behind a command that fills
\* the row is the first character of the next one.
StripEnd(s, b) == IF s # <<>> /\ s[Len(s)] = b THEN SubSeq(s, 1, Len(s) - 1) ELSE s

AutoCommandReceive(s) ==
  LET text == StripEnd(StripEnd(s, 10), 13) IN
  \E t \in IF text = <<>> THEN StaleTexts ELSE {text} :
    /\ ran' = Execution(t)
    /\ mCmdInBuf' = [mCmdInBuf EXCEPT ![0] = Word(t),
                                      ![1] = IF Len(s) > IdxColMax THEN <<>> ELSE @]

\* Mutant of CmdAutoReceiveWait: the time is not looked at.
CmdAutoReceiveWaitEver ==
  /\ Ticking("StCmdAutoReceiveWait")
  /\ \/ trans = "over" /\ End
     \/ trans # "over" /\ UNCHANGED <<life, mState, mModeAuto, trans, told>>
  /\ ran' = Nothing
  /\ UNCHANGED <<mDone, diffMs, editVars, cmds>>

CmdAutoReceiveWait ==
  /\ Ticking("StCmdAutoReceiveWait")
  /\ \/ (diffMs > TmoCmdAuto \/ trans = "over") /\ End
     \/ /\ diffMs <= TmoCmdAuto /\ trans # "over"
        /\ UNCHANGED <<life, mState, mModeAuto, trans, told>>
  /\ ran' = Nothing
  /\ UNCHANGED <<mDone, diffMs, editVars, cmds>>

\* In such a tick a command may be there.
CmdAutoReceive ==
  /\ Ticking("StCmdAutoReceiveWait") /\ diffMs <= TmoCmdAuto /\ trans # "over"
  /\ \E s \in AutoInputs : AutoCommandReceive(s)
  /\ End
  /\ UNCHANGED <<mDone, diffMs, keyVars, mIdxLineEdit, mIdxLineView, mIdxLineLast,
                 mIdxColCursor, mIdxColLineEnd, cmds, buf, changed, shown>>

Shutdown ==
  /\ life = "downShutting"
  /\ life' = "finished" /\ told' = (trans # "none")
  /\ ran' = Nothing
  /\ UNCHANGED <<mState, mModeAuto, mDone, trans, diffMs, editVars, cmds>>

Tick ==
  \/ Begin \/ Start \/ SendReadyWait \/ TelnetInit \/ WelcomeSend \/ Main \/ Key \/ PromptSend
  \/ CmdAutoReceiveWait \/ Shutdown

\* The connection comes up, and ends at any time. The child is ticked by the same driver,
\* before its parent.
Connection ==
  /\ Resting
  /\ \/ trans = "waiting" /\ trans' = "ready"
     \/ trans \in {"waiting", "ready"} /\ trans' = "over"
  /\ ran' = Nothing
  /\ UNCHANGED <<life, mState, mModeAuto, mDone, told, diffMs, editVars, cmds>>

TimePasses ==
  /\ mState = "StCmdAutoReceiveWait" /\ diffMs <= TmoCmdAuto
  /\ diffMs' = diffMs + 1
  /\ ran' = Nothing
  /\ UNCHANGED <<procVars, editVars, cmds>>

Init ==
  /\ life = "existent" /\ mState = "StStart" /\ mModeAuto \in BOOLEAN /\ diffMs = 0 /\ mDone = FALSE
  /\ trans = "none" /\ told = FALSE
  /\ mStateKey = "StKeyMain" /\ mLastKeyWasTab = FALSE
  /\ mCmdInBuf = [r \in Rows |-> <<>>]
  /\ mIdxLineEdit = 0 /\ mIdxLineView = 0 /\ mIdxLineLast = -1
  /\ mIdxColCursor = 0 /\ mIdxColLineEnd = 0
  /\ cmds = {} /\ buf = <<>> /\ changed = FALSE
  /\ shown = [text |-> <<>>, cursor |-> 0] /\ ran = Nothing

\* What the other end sends, if it does, in a tick
Receive == MainReceive \/ CmdAutoReceive

Next == Tick \/ Receive \/ Cancel \/ Connection \/ TimePasses \/ CmdReg

Spec == Init /\ [][Next]_vars

\* The terminal is ticked, and time passes; nobody has to send anything.
FairSpec == Spec /\ WF_vars(Tick) /\ WF_vars(TimePasses)
---------------------------------------------------------------------------
(* Properties.                                                             *)

Row(i) == mCmdInBuf[i % NumCmdInBuffer]

TypeOK ==
  /\ life \in {"existent", "processing", "downShutting", "finished", "skipped"}
  /\ mState \in {"StStart", "StSendReadyWait", "StTelnetInit", "StWelcomeSend", "StMain",
                 "StCmdAutoReceiveWait"}
  /\ {mModeAuto, mDone, told, mLastKeyWasTab, changed} \subseteq BOOLEAN
  /\ trans \in {"none", "waiting", "ready", "over"} /\ diffMs \in 0 .. TmoCmdAuto + 1
  /\ mStateKey \in KeyStates /\ cmds \subseteq {CommandOrder[i] : i \in DOMAIN CommandOrder}
  /\ mIdxLineEdit \in Rows /\ mIdxLineView \in Rows /\ mIdxLineLast \in Rows \cup {-1}

\* The keys of a user never write outside the rows of the editor: every line keeps its
\* place for the zero behind it, and the cursor stays on the line, whose end
\* is where its text ends (chInsert, chRemove, cursorJump, historyNavigate). The ring
\* is in order: mIdxLineLast is the row before the line as soon as there is one, the
\* history has no gap and no line twice in a row, and a row that is viewed has a text.
EditInv ==
  /\ TypeOK
  /\ \A r \in Rows : mModeAuto \/ Len(mCmdInBuf[r]) <= IdxColMax
  /\ mModeAuto \/ mIdxColLineEnd = Len(edit)
  /\ mIdxColCursor \in 0 .. mIdxColLineEnd
  /\ mIdxLineLast # -1 => mIdxLineLast = (mIdxLineEdit - 1) % NumCmdInBuffer
  /\ \A k \in 1 .. NumCmdInBuffer - 1 :
       Row(mIdxLineEdit - k) = <<>> =>
         \A j \in k .. NumCmdInBuffer - 1 : Row(mIdxLineEdit - j) = <<>>
  /\ \A k \in 1 .. NumCmdInBuffer - 2 :
       Row(mIdxLineEdit - k) # <<>> => Row(mIdxLineEdit - k) # Row(mIdxLineEdit - k - 1)
  /\ mIdxLineView # mIdxLineEdit => mCmdInBuf[mIdxLineView] # <<>>

\* Whenever the terminal waits for the next key, the user sees the line and the cursor
\* as they are, whatever keys came in one read(): no key changes them without a
\* promptSend() behind it.
ShownIsLine ==
  life = "processing" /\ mState = "StMain" /\ Resting => shown = Prompt

\* Rows, indices and copies implement the editor of LineEditing: the line that is executed
\* is the one typed or recalled, and the latest lines are remembered in their order.
HistLen ==
  CHOOSE n \in 0 .. NumCmdInBuffer - 1 :
    /\ \A k \in 1 .. n : Row(mIdxLineEdit - k) # <<>>
    /\ n = NumCmdInBuffer - 1 \/ Row(mIdxLineEdit - n - 1) = <<>>

Editing == INSTANCE LineEditing WITH
  Chars <- {b \in Byte : IsInsert(b)}, NumHistory <- NumCmdInBuffer - 1, LenMax <- IdxColMax,
  line <- IF mModeAuto THEN <<>> ELSE edit, cursor <- mIdxColCursor,
  history <- [k \in 1 .. HistLen |-> Row(mIdxLineEdit - k)],
  at <- (mIdxLineEdit - mIdxLineView) % NumCmdInBuffer,
  ran <- IF mModeAuto THEN <<>> ELSE ran.text

Edits == Editing!Spec

\* A terminal whose connection is over ends, and so does one that waits for an automatic
\* command: nobody may ever send one, so that the time limit has to do it.
SessionEnds ==
  /\ trans = "over" ~> life = "finished"
  /\ mState = "StCmdAutoReceiveWait" ~> life = "finished"

\* "Command not found" (SystemCommanding.cpp:685): a command is executed only if the line
\* names it.
RunsNamed ==
  mModeAuto \/ \A c \in ran.cmd : Word(ran.text) # <<>>
=============================================================================
