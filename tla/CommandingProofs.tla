-------------------------- MODULE CommandingProofs --------------------------
(***************************************************************************)
(* The line editor of the command terminal keeps to its rows, the history  *)
(* stays in order, and the user sees what will be executed.                *)
(***************************************************************************)
EXTENDS SystemCommanding, WellFoundedInduction, SequenceTheorems, TLAPS

\* What the code says of its constants: two rows at least, and a place in each.
LEMMA Sizes == /\ NumCmdInBuffer \in Nat /\ NumCmdInBuffer >= 2
               /\ IdxColMax \in Nat /\ IdxColMax >= 1 /\ TmoCmdAuto \in Nat
  BY CommandingAssumption

-----------------------------------------------------------------------------
(* The least member of a set of numbers                                      *)
LEMMA LeastBy ==
  ASSUME NEW R, IsWellFoundedOn(R, Nat), \A x, y \in Nat : x < y => <<x, y>> \in R,
         NEW T, T \subseteq Nat, T # {}
  PROVE  \E x \in T : \A y \in T : x <= y
<1>1. \E x \in T : \A y \in T : ~ (<<y, x>> \in R)
  <2>1. IsWellFoundedOn(R, Nat) /\ T \subseteq Nat /\ T # {}
    OBVIOUS
  <2> QED
    BY ONLY <2>1, WFMin
<1>2. PICK x \in T : \A y \in T : ~ (<<y, x>> \in R)
  BY <1>1
<1>3. \A y \in T : x \in Nat /\ y \in Nat /\ ~ (y < x)
  BY <1>2
<1> QED
  BY <1>3

\* ... stated without the order it is taken from.
LEMMA LeastOf == ASSUME NEW T, T \subseteq Nat, T # {} PROVE \E x \in T : \A y \in T : x <= y
<1>1. PICK R : R = OpToRel(<, Nat)
  OBVIOUS
<1>2. IsWellFoundedOn(R, Nat)
  BY <1>1, NatLessThanWellFounded
<1>3. \A x, y \in Nat : x < y => <<x, y>> \in R
  BY <1>1 DEF OpToRel
<1> QED
  BY <1>2, <1>3, LeastBy

-----------------------------------------------------------------------------
(* The ring of rows                                                          *)
Before(e, k) == (e - k) % NumCmdInBuffer

\* Going back k rows stays in the ring, and comes back after all of them only.
LEMMA RingBefore ==
  ASSUME NEW e \in Rows
  PROVE  /\ Before(e, 0) = e /\ Before(e, NumCmdInBuffer) = e
         /\ \A k \in 0 .. NumCmdInBuffer : Before(e, k) \in Rows
         /\ \A k \in 1 .. NumCmdInBuffer - 1 : Before(e, k) # e
         /\ \A k \in 0 .. NumCmdInBuffer : Before(e, k) = IF k <= e THEN e - k ELSE e - k + NumCmdInBuffer
  BY Sizes DEF Before, Rows

\* One row on, everything is one row farther back: historyInsert().
LEMMA RingNext ==
  ASSUME NEW e \in Rows
  PROVE  LET next == (e + 1) % NumCmdInBuffer IN
         /\ next \in Rows /\ next # e /\ next = Before(e, NumCmdInBuffer - 1)
         /\ Before(next, 1) = e
         /\ \A k \in 1 .. NumCmdInBuffer : Before(next, k) = Before(e, k - 1)
  BY Sizes DEF Before, Rows

(* How far back a row is                                                      *)
LEMMA RingDistance ==
  ASSUME NEW e \in Rows, NEW r \in Rows
  PROVE  /\ Before(e, r) \in 0 .. NumCmdInBuffer - 1
         /\ Before(e, Before(e, r)) = r
         /\ Before(e, r) = 0 <=> r = e
         /\ Before(e, r) # NumCmdInBuffer - 1 => Before(e, Before(r, 1)) = Before(e, r) + 1
         /\ Before(e, r) = NumCmdInBuffer - 1 => Before(r, 1) = e
         /\ r # e => Before(e, (r + 1) % NumCmdInBuffer) = Before(e, r) - 1
  BY Sizes DEF Before, Rows

-----------------------------------------------------------------------------
(* The parts of the invariant: the types, ...                                  *)
LineTyped ==
  /\ mCmdInBuf \in [Rows -> Seq(Int)] /\ mIdxLineEdit \in Rows /\ mIdxLineView \in Rows
  /\ mIdxLineLast \in Rows \cup {-1} /\ mIdxColLineEnd \in Nat /\ mIdxColCursor \in 0 .. mIdxColLineEnd

ProcTyped ==
  /\ life \in {"existent", "processing", "downShutting", "finished", "skipped"}
  /\ mState \in {"StStart", "StSendReadyWait", "StTelnetInit", "StWelcomeSend", "StMain",
                 "StCmdAutoReceiveWait"}
  /\ mModeAuto \in BOOLEAN /\ mDone \in BOOLEAN /\ told \in BOOLEAN /\ changed \in BOOLEAN
  /\ trans \in {"none", "waiting", "ready", "over"} /\ diffMs \in 0 .. TmoCmdAuto + 1
  /\ cmds \subseteq {CommandOrder[i] : i \in DOMAIN CommandOrder}

KeyTyped == mStateKey \in KeyStates /\ mLastKeyWasTab \in BOOLEAN /\ buf \in Seq(Byte)

(* ... the automatic mode, which has no line and no history, ...               *)
Modes ==
  /\ mModeAuto =>
       /\ mState \notin {"StTelnetInit", "StWelcomeSend", "StMain"}
       /\ mIdxLineEdit = 0 /\ mIdxLineView = 0 /\ mIdxColCursor = 0 /\ mIdxColLineEnd = 0
       /\ mIdxLineLast = -1 /\ \A r \in Rows \ {0} : mCmdInBuf[r] = <<>>
  /\ ~ mModeAuto => mState # "StCmdAutoReceiveWait"
  /\ ~ Resting => mState = "StMain" /\ life = "processing"
  /\ life = "existent" => mState = "StStart"

(* ... the line, which keeps its place for the zero, ...                       *)
LineKept ==
  mModeAuto \/ (mIdxColLineEnd = Len(edit) /\ \A r \in Rows : Len(mCmdInBuf[r]) <= IdxColMax)

(* ... the history before it, ...                                              *)
Ring ==
  /\ mIdxLineLast # -1 => mIdxLineLast = Before(mIdxLineEdit, 1) /\ mCmdInBuf[mIdxLineLast] # <<>>
  /\ mIdxLineLast = -1 => \A r \in Rows \ {mIdxLineEdit} : mCmdInBuf[r] = <<>>
  /\ \A k \in 1 .. NumCmdInBuffer - 1 : mCmdInBuf[Before(mIdxLineEdit, k)] = <<>> =>
       \A j \in k .. NumCmdInBuffer - 1 : mCmdInBuf[Before(mIdxLineEdit, j)] = <<>>
  /\ \A k \in 1 .. NumCmdInBuffer - 2 : mCmdInBuf[Before(mIdxLineEdit, k)] # <<>> =>
       mCmdInBuf[Before(mIdxLineEdit, k)] # mCmdInBuf[Before(mIdxLineEdit, k + 1)]

Viewed == mIdxLineView # mIdxLineEdit => mCmdInBuf[mIdxLineView] # <<>>

(* ... and what the user sees of it                                            *)
Shown == life = "processing" /\ mState = "StMain" /\ ~ changed => shown = Prompt

LineInv == LineTyped /\ LineKept /\ Ring /\ Viewed

TermInv == ProcTyped /\ KeyTyped /\ Modes /\ LineInv /\ Shown

(* What is put into a line                                                     *)
LEMMA Spliced ==
  ASSUME NEW S, NEW q \in Seq(S), NEW c \in 0 .. Len(q), NEW t \in Seq(S)
  PROVE  LET r == SubSeq(q, 1, c) \o t \o SubSeq(q, c + 1, Len(q))
         IN  r \in Seq(S) /\ Len(r) = Len(q) + Len(t)
<1>1. SubSeq(q, 1, c) \in Seq(S) /\ Len(SubSeq(q, 1, c)) = c
  OBVIOUS
<1>2. SubSeq(q, c + 1, Len(q)) \in Seq(S) /\ Len(SubSeq(q, c + 1, Len(q))) = Len(q) - c
  OBVIOUS
<1>3. PICK a \in Seq(S) : a = SubSeq(q, 1, c)
  BY <1>1
<1>4. PICK b \in Seq(S) : b = SubSeq(q, c + 1, Len(q))
  BY <1>2
<1>5. a \o t \o b \in Seq(S) /\ Len(a \o t \o b) = Len(a) + Len(t) + Len(b)
  OBVIOUS
<1>6. Len(a) + Len(t) + Len(b) = Len(q) + Len(t)
  <2>1. Len(a) = c /\ Len(b) = Len(q) - c
    BY <1>1, <1>2, <1>3, <1>4, Zenon
  <2>2. c \in Nat /\ Len(q) \in Nat /\ Len(t) \in Nat
    OBVIOUS
  <2> QED
    BY <2>1, <2>2
<1>7. SubSeq(q, 1, c) \o t \o SubSeq(q, c + 1, Len(q)) = a \o t \o b
  BY <1>3, <1>4, Zenon
<1> QED
  BY <1>5, <1>6, <1>7, Zenon

\* A key that changes the line and its cursor keeps the history.
LEMMA SetLineKeeps ==
  ASSUME LineInv, NEW text \in Seq(Int), Len(text) <= IdxColMax, NEW cur \in 0 .. Len(text),
         SetLine(text, cur), UNCHANGED <<mIdxLineEdit, mIdxLineLast, mModeAuto>>,
         mIdxLineView' \in Rows, mIdxLineView' # mIdxLineEdit => mCmdInBuf[mIdxLineView'] # <<>>,
         ~ mModeAuto
  PROVE  LineInv' /\ edit' = text
<1> USE DEF LineInv
<1>1. /\ mCmdInBuf' \in [Rows -> Seq(Int)] /\ mCmdInBuf'[mIdxLineEdit] = text
      /\ \A r \in Rows \ {mIdxLineEdit} : mCmdInBuf'[r] = mCmdInBuf[r]
      /\ mIdxColLineEnd' = Len(text) /\ mIdxColCursor' = cur
  BY DEF LineTyped, SetLine
<1>2. LineTyped' /\ edit' = text
  BY <1>1 DEF LineTyped, edit
<1>3. LineKept'
  BY <1>1, <1>2 DEF LineKept, LineTyped
<1>4. Viewed'
  BY <1>1 DEF Viewed, LineTyped
<1>5. Ring'
  <2>1. \A k \in 1 .. NumCmdInBuffer - 1 :
          mCmdInBuf'[Before(mIdxLineEdit, k)] = mCmdInBuf[Before(mIdxLineEdit, k)]
    BY <1>1, RingBefore, Sizes DEF LineTyped
  <2>2. mIdxLineLast # -1 => mIdxLineLast = Before(mIdxLineEdit, 1) /\ mCmdInBuf'[mIdxLineLast] # <<>>
    BY <2>1, Sizes DEF Ring
  <2>3. mIdxLineLast = -1 => \A r \in Rows \ {mIdxLineEdit} : mCmdInBuf'[r] = <<>>
    BY <1>1 DEF Ring
  <2>4. \A k \in 1 .. NumCmdInBuffer - 2 : k \in 1 .. NumCmdInBuffer - 1 /\ k + 1 \in 1 .. NumCmdInBuffer - 1
    BY Sizes
  <2>5. \A k \in 1 .. NumCmdInBuffer - 1 : \A j \in k .. NumCmdInBuffer - 1 : j \in 1 .. NumCmdInBuffer - 1
    BY Sizes
  <2> QED
    BY <2>1, <2>2, <2>3, <2>4, <2>5 DEF Ring
<1> QED
  BY <1>2, <1>3, <1>4, <1>5

\* chInsert() stops before the place of the zero.
LEMMA InsertKeeps ==
  ASSUME LineInv, ~ mModeAuto, NEW s \in Seq(Int), Insert(s), UNCHANGED mModeAuto
  PROVE  LineInv'
<1> DEFINE left == IdxColMax - mIdxColLineEnd
           n == IF Len(s) <= left THEN Len(s) ELSE left
           t == SubSeq(s, 1, n)
           text == SubSeq(edit, 1, mIdxColCursor) \o t \o SubSeq(edit, mIdxColCursor + 1, Len(edit))
<1>1. edit \in Seq(Int) /\ mIdxColLineEnd = Len(edit) /\ Len(edit) <= IdxColMax /\ mIdxColCursor \in 0 .. Len(edit)
  BY DEF LineInv, LineTyped, LineKept, edit
<1>2. t \in Seq(Int) /\ Len(t) \in 0 .. left
  BY <1>1, Sizes
<1>3. text \in Seq(Int) /\ Len(text) = Len(edit) + Len(t)
  <2> HIDE DEF t
  <2> QED
    BY <1>1, <1>2, Spliced
<1>4. SetLine(text, mIdxColCursor + Len(t)) /\ UNCHANGED <<mIdxLineEdit, mIdxLineView, mIdxLineLast>>
  BY DEF Insert
<1>5. Len(text) <= IdxColMax /\ mIdxColCursor + Len(t) \in 0 .. Len(text)
  <2> HIDE DEF text, t
  <2> QED
    BY <1>1, <1>2, <1>3, Sizes
<1>6. mIdxLineView' \in Rows /\ (mIdxLineView' # mIdxLineEdit => mCmdInBuf[mIdxLineView'] # <<>>)
  BY <1>4 DEF LineInv, LineTyped, Viewed
<1> HIDE DEF text, t
<1> QED
  BY <1>3, <1>4, <1>5, <1>6, SetLineKeeps

\* A line without one of its characters
LEMMA Shortened ==
  ASSUME NEW S, NEW q \in Seq(S), NEW i \in 1 .. Len(q)
  PROVE  LET r == SubSeq(q, 1, i - 1) \o SubSeq(q, i + 1, Len(q))
         IN  r \in Seq(S) /\ Len(r) = Len(q) - 1
<1>1. SubSeq(q, 1, i - 1) \in Seq(S) /\ Len(SubSeq(q, 1, i - 1)) = i - 1
  OBVIOUS
<1>2. SubSeq(q, i + 1, Len(q)) \in Seq(S) /\ Len(SubSeq(q, i + 1, Len(q))) = Len(q) - i
  OBVIOUS
<1>3. PICK a \in Seq(S) : a = SubSeq(q, 1, i - 1)
  BY <1>1
<1>4. PICK b \in Seq(S) : b = SubSeq(q, i + 1, Len(q))
  BY <1>2
<1>5. a \o b \in Seq(S) /\ Len(a \o b) = Len(a) + Len(b)
  OBVIOUS
<1>6. Len(a) + Len(b) = Len(q) - 1
  <2>1. Len(a) = i - 1 /\ Len(b) = Len(q) - i
    BY <1>1, <1>2, <1>3, <1>4, Zenon
  <2>2. i \in Nat /\ Len(q) \in Nat
    OBVIOUS
  <2> QED
    BY <2>1, <2>2
<1>7. SubSeq(q, 1, i - 1) \o SubSeq(q, i + 1, Len(q)) = a \o b
  BY <1>3, <1>4, Zenon
<1> QED
  BY <1>5, <1>6, <1>7, Zenon

\* chRemove()
LEMMA RemoveKeeps ==
  ASSUME LineInv, ~ mModeAuto, UNCHANGED mModeAuto, NEW key, ChRemove(key)
  PROVE  LineInv'
<1>1. edit \in Seq(Int) /\ Len(edit) <= IdxColMax
  BY DEF LineInv, LineTyped, LineKept, edit
<1>2. PICK i \in 1 .. Len(edit) :
        SetLine(SubSeq(edit, 1, i - 1) \o SubSeq(edit, i + 1, Len(edit)), i - 1)
  BY DEF ChRemove, RemoveTarget
<1>3. PICK text : text = SubSeq(edit, 1, i - 1) \o SubSeq(edit, i + 1, Len(edit))
  OBVIOUS
<1>4. text \in Seq(Int) /\ Len(text) = Len(edit) - 1
  BY <1>1, <1>3, Shortened
<1>5. Len(text) <= IdxColMax /\ i - 1 \in 0 .. Len(text) /\ SetLine(text, i - 1)
  <2>1. SetLine(text, i - 1)
    BY <1>2, <1>3
  <2> QED
    BY <1>1, <1>4, <2>1, Sizes
<1>6. /\ mIdxLineView' \in Rows /\ (mIdxLineView' # mIdxLineEdit => mCmdInBuf[mIdxLineView'] # <<>>)
      /\ UNCHANGED <<mIdxLineEdit, mIdxLineLast>>
  BY DEF LineInv, LineTyped, Viewed, ChRemove
<1> QED
  BY <1>4, <1>5, <1>6, SetLineKeeps

\* cursorMove() stays on the line.
LEMMA MoveKeeps ==
  ASSUME LineInv, UNCHANGED mModeAuto, NEW key, CursorMove(key)
  PROVE  LineInv'
  BY DEF CursorMove, CursorTarget, LineInv, LineTyped, LineKept, Ring, Viewed, edit

\* historyNavigate() copies a row with a text, or clears the line.
LEMMA NavigateKeeps ==
  ASSUME LineInv, ~ mModeAuto, UNCHANGED mModeAuto, NEW key, HistoryNavigate(key)
  PROVE  LineInv'
<1>1. mIdxLineView' \in Rows /\ mCmdInBuf[mIdxLineView'] # <<>> /\ UNCHANGED <<mIdxLineEdit, mIdxLineLast>>
  BY DEF HistoryNavigate, HistoryRow
<1>2. PICK text : text = IF mIdxLineView' # mIdxLineEdit THEN mCmdInBuf[mIdxLineView'] ELSE <<>>
  OBVIOUS
<1>3. text \in Seq(Int) /\ Len(text) <= IdxColMax /\ SetLine(text, Len(text))
  <2>1. text \in Seq(Int)
    BY <1>1, <1>2 DEF LineInv, LineTyped
  <2>2. Len(text) <= IdxColMax
    BY <1>1, <1>2, Sizes DEF LineInv, LineTyped, LineKept
  <2>3. SetLine(text, Len(text))
    BY <1>2 DEF HistoryNavigate
  <2> QED
    BY <2>1, <2>2, <2>3
<1>4. Len(text) \in 0 .. Len(text)
  BY <1>3
<1> QED
  BY <1>1, <1>3, <1>4, SetLineKeeps

(* The line that is executed is the one the user has acknowledged.             *)
IsNew == edit # <<>> /\ ~ IsRepetition

\* What lineAck() executes, and what it makes of the rows
LEMMA AckSteps ==
  ASSUME LineInv, ~ mModeAuto, UNCHANGED mModeAuto, LineAck
  PROVE  /\ ran'.text = edit
         /\ mIdxColLineEnd' = 0 /\ mIdxColCursor' = 0 /\ mIdxLineView' = mIdxLineEdit'
         /\ ~ IsNew =>
              /\ mCmdInBuf' = [mCmdInBuf EXCEPT ![mIdxLineEdit] = <<>>]
              /\ UNCHANGED <<mIdxLineEdit, mIdxLineLast>>
         /\ IsNew =>
              /\ mIdxLineEdit' = (mIdxLineEdit + 1) % NumCmdInBuffer
              /\ mCmdInBuf' = [mCmdInBuf EXCEPT ![mIdxLineEdit'] = <<>>]
              /\ mIdxLineLast' = mIdxLineEdit
<1>1. mIdxColLineEnd' = 0 /\ mIdxColCursor' = 0 /\ mIdxLineView' = mIdxLineEdit'
  BY DEF LineAck
<1>2. mIdxLineEdit \in Rows /\ mCmdInBuf \in [Rows -> Seq(Int)]
  BY DEF LineInv, LineTyped
<1>3. CASE edit = <<>>
  BY <1>1, <1>2, <1>3 DEF LineAck, IsNew, Nothing, edit
<1>4. CASE edit # <<>> /\ IsRepetition
  BY <1>1, <1>2, <1>4 DEF LineAck, IsNew, HistoryInsert, Execution, edit
<1>5. CASE IsNew
  <2>1. PICK next : next = (mIdxLineEdit + 1) % NumCmdInBuffer
    OBVIOUS
  <2>2. next \in Rows /\ next # mIdxLineEdit
    BY <1>2, <2>1, RingNext
  <2>3. HistoryInsert = [rows |-> [mCmdInBuf EXCEPT ![next] = <<>>], row |-> next, last |-> mIdxLineEdit]
    BY <1>5, <2>1 DEF IsNew, HistoryInsert
  <2>4. PICK rows : rows = [mCmdInBuf EXCEPT ![next] = <<>>]
    OBVIOUS
  <2>5. rows[next] = <<>> /\ rows[mIdxLineEdit] = edit /\ [rows EXCEPT ![next] = <<>>] = rows
    BY <1>2, <2>2, <2>4 DEF edit
  <2>6. /\ ran' = Execution(rows[mIdxLineEdit]) /\ mCmdInBuf' = [rows EXCEPT ![next] = <<>>]
        /\ mIdxLineEdit' = next /\ mIdxLineLast' = mIdxLineEdit
    BY <1>5, <2>3, <2>4, <2>5 DEF LineAck, IsNew
  <2> QED
    BY <1>1, <1>5, <2>1, <2>4, <2>5, <2>6 DEF Execution
<1> QED
  BY <1>3, <1>4, <1>5 DEF IsNew

\* lineAck() leaves an empty line behind a history in order.
LEMMA AckKeeps ==
  ASSUME LineInv, ~ mModeAuto, UNCHANGED mModeAuto, LineAck
  PROVE  LineInv' /\ edit' = <<>>
<1> USE AckSteps
<1>1. mIdxLineEdit \in Rows /\ mCmdInBuf \in [Rows -> Seq(Int)] /\ mIdxLineLast \in Rows \cup {-1}
  BY DEF LineInv, LineTyped
<1>2. CASE ~ IsNew
  <2>1. <<>> \in Seq(Int) /\ Len(<<>>) <= IdxColMax /\ 0 \in 0 .. Len(<<>>)
    BY Sizes
  <2>2. SetLine(<<>>, 0)
    BY <1>2 DEF SetLine
  <2> QED
    BY <1>1, <1>2, <2>1, <2>2, SetLineKeeps
<1>3. CASE IsNew
  <2>1. PICK e \in Rows : e = mIdxLineEdit
    BY <1>1
  <2>2. PICK next : next = (e + 1) % NumCmdInBuffer
    OBVIOUS
  <2>3. /\ next \in Rows /\ next # e /\ Before(next, 1) = e /\ next = Before(e, NumCmdInBuffer - 1)
        /\ \A k \in 1 .. NumCmdInBuffer : Before(next, k) = Before(e, k - 1)
    BY <2>2, RingNext
  <2>4. /\ mIdxLineEdit' = next /\ mIdxLineLast' = e /\ mIdxLineView' = next
        /\ mCmdInBuf' \in [Rows -> Seq(Int)] /\ mCmdInBuf'[next] = <<>>
        /\ \A r \in Rows \ {next} : mCmdInBuf'[r] = mCmdInBuf[r]
    <3>1. mIdxLineEdit' = next /\ mIdxLineLast' = e /\ mIdxLineView' = next
      BY <1>3, <2>1, <2>2
    <3>2. mCmdInBuf' = [mCmdInBuf EXCEPT ![next] = <<>>]
      BY <1>3, <3>1
    <3>3. mCmdInBuf' \in [Rows -> Seq(Int)]
      <4>1. <<>> \in Seq(Int)
        OBVIOUS
      <4> QED
        BY ONLY <1>1, <3>2, <4>1
    <3> QED
      BY <1>1, <2>3, <3>1, <3>2, <3>3
  <2>5. LineTyped' /\ edit' = <<>> /\ Viewed'
    BY <2>1, <2>3, <2>4 DEF LineTyped, edit, Viewed
  <2>6. LineKept'
    <3>1. \A r \in Rows : Len(mCmdInBuf'[r]) <= IdxColMax
      BY <2>4, Sizes DEF LineInv, LineKept
    <3> QED
      BY <2>5, <3>1 DEF LineKept
  <2>7. \A k \in 1 .. NumCmdInBuffer - 1 : mCmdInBuf'[Before(next, k)] = mCmdInBuf[Before(e, k - 1)]
    <3> TAKE k \in 1 .. NumCmdInBuffer - 1
    <3>1. Before(next, k) \in Rows /\ Before(next, k) # next /\ Before(next, k) = Before(e, k - 1)
      BY <2>3, RingBefore, Sizes
    <3> QED
      BY <2>4, <3>1
  <2>8. mCmdInBuf[Before(e, 0)] # <<>>
    BY <1>3, <2>1, RingBefore DEF IsNew, edit
  <2>9. mCmdInBuf[Before(e, 1)] # mCmdInBuf[Before(e, 0)]
    <3>1. Before(e, 0) = e /\ Before(e, 1) \in Rows \ {e}
      BY RingBefore, Sizes
    <3>2. CASE mIdxLineLast = -1
      BY <2>1, <2>8, <3>1, <3>2 DEF LineInv, Ring
    <3>3. CASE mIdxLineLast # -1
      <4>1. mIdxLineLast >= 0
        BY <1>1, <3>3 DEF Rows
      <4> QED
        BY <1>3, <2>1, <3>1, <3>3, <4>1 DEF LineInv, Ring, IsNew, IsRepetition, edit
    <3> QED
      BY <3>2, <3>3
  <2>10. Ring'
    <3>1. mIdxLineLast' = Before(next, 1) /\ mCmdInBuf'[mIdxLineLast'] # <<>> /\ mIdxLineLast' # -1
      BY <2>1, <2>3, <2>4, <2>8, RingBefore DEF Rows
    <3>2. ASSUME NEW k \in 1 .. NumCmdInBuffer - 1, mCmdInBuf'[Before(next, k)] = <<>>,
                 NEW j \in k .. NumCmdInBuffer - 1
          PROVE  mCmdInBuf'[Before(next, j)] = <<>>
      <4>1. mCmdInBuf[Before(e, k - 1)] = <<>> /\ j \in 1 .. NumCmdInBuffer - 1 /\ k # 1
        BY <2>7, <2>8, <3>2, Sizes
      <4>2. k - 1 \in 1 .. NumCmdInBuffer - 1 /\ j - 1 \in k - 1 .. NumCmdInBuffer - 1
        BY <4>1, Sizes
      <4>3. mCmdInBuf[Before(e, j - 1)] = <<>>
        BY <2>1, <4>1, <4>2 DEF LineInv, Ring
      <4> QED
        BY <2>7, <4>1, <4>3
    <3>3. ASSUME NEW k \in 1 .. NumCmdInBuffer - 2, mCmdInBuf'[Before(next, k)] # <<>>
          PROVE  mCmdInBuf'[Before(next, k)] # mCmdInBuf'[Before(next, k + 1)]
      <4>1. k \in 1 .. NumCmdInBuffer - 1 /\ k + 1 \in 1 .. NumCmdInBuffer - 1 /\ (k + 1) - 1 = k
        BY Sizes
      <4>2. mCmdInBuf'[Before(next, k)] = mCmdInBuf[Before(e, k - 1)]
        BY <2>7, <4>1
      <4>3. mCmdInBuf'[Before(next, k + 1)] = mCmdInBuf[Before(e, (k + 1) - 1)]
        BY <2>7, <4>1
      <4>4. CASE k = 1
        BY <2>9, <4>1, <4>2, <4>3, <4>4
      <4>5. CASE k # 1
        <5>1. k - 1 \in 1 .. NumCmdInBuffer - 2 /\ (k - 1) + 1 = k
          BY <4>5, Sizes
        <5> QED
          BY <2>1, <3>3, <4>1, <4>2, <4>3, <5>1 DEF LineInv, Ring
      <4> QED
        BY <4>4, <4>5
    <3> QED
      BY <2>4, <3>1, <3>2, <3>3 DEF Ring
  <2> QED
    BY <2>5, <2>6, <2>10 DEF LineInv
<1> QED
  BY <1>2, <1>3

(* Completion goes on with the names of commands.                             *)
LEMMA CompletionTyped ==
  ASSUME LineInv, ProcTyped, ~ mModeAuto, NEW S, Space \in S,
         \A i \in DOMAIN CommandOrder : CommandOrder[i].id \in Seq(S)
  PROVE  Completion \in Seq(S)
<1>1. CASE Candidates = {}
  <2>1. <<>> \in Seq(S)
    OBVIOUS
  <2> QED
    BY ONLY <1>1, <2>1 DEF Completion
<1>2. CASE Candidates # {}
  <2>1. PICK n \in Nat : n = mIdxColCursor /\ n <= Len(edit)
    BY DEF LineInv, LineTyped, LineKept
  <2>2. edit \in Seq(Int)
    BY DEF LineInv, LineTyped, edit
  <2>3. PICK p : p = SubSeq(edit, 1, n)
    OBVIOUS
  <2>4. Len(p) = n
    BY <2>1, <2>2, <2>3
  <2>5. \A t \in Candidates : t \in Seq(S) /\ n <= Len(t) /\ SubSeq(t, 1, n) = p
    <3>1. \A c \in cmds : c.id \in Seq(S)
      BY DEF ProcTyped
    <3> QED
      BY <2>1, <2>3, <2>4, <3>1 DEF Candidates, StartsWith
  <2> DEFINE Agree(m) == \A s, t \in Candidates : StartsWith(s, SubSeq(t, 1, m)) /\ Len(t) >= m
             id == CHOOSE s \in Candidates : TRUE
             Most(m) == Agree(m) /\ \A k \in m + 1 .. Len(id) : ~ Agree(k)
             most == CHOOSE m \in n .. Len(id) : Most(m)
             T == {Len(id) - m : m \in {k \in n .. Len(id) : Agree(k)}}
  <2>6. id \in Candidates /\ id \in Seq(S) /\ Len(id) \in Nat /\ n <= Len(id)
    BY <1>2, <2>5
  <2>7. Agree(n)
    BY <2>4, <2>5 DEF StartsWith
  <2>8. \E m \in n .. Len(id) : Most(m)
    <3> HIDE DEF id, Agree
    <3>1. T \subseteq Nat /\ Len(id) - n \in T
      BY <2>6, <2>7
    <3>2. PICK x \in T : \A y \in T : x <= y
      BY <3>1, LeastOf
    <3>3. PICK m \in n .. Len(id) : Agree(m) /\ x = Len(id) - m
      BY <3>2
    <3>4. ASSUME NEW k \in m + 1 .. Len(id), Agree(k) PROVE FALSE
      <4>1. k \in n .. Len(id) /\ Len(id) - k \in Nat
        BY <2>6, <3>3
      <4>2. Len(id) - k \in T
        BY <3>4, <4>1
      <4>3. x <= Len(id) - k
        BY <3>2, <4>2
      <4>4. \A a, b \in Nat : b <= a - k /\ b = a - m => FALSE
        OBVIOUS
      <4>5. x \in Nat
        BY <3>1, <3>2
      <4> QED
        BY ONLY <2>6, <3>3, <4>3, <4>4, <4>5
    <3> QED
      BY <3>3, <3>4
  <2>9. most \in n .. Len(id)
    <3> HIDE DEF Most, id, T, Agree
    <3> QED
      BY <2>8
  <2>10. Completion = SubSeq(id, n + 1, most) \o IF Candidates = {id} THEN <<Space>> ELSE <<>>
    BY <1>2, <2>1, Zenon DEF Completion
  <2>11. SubSeq(id, n + 1, most) \in Seq(S) /\ (IF Candidates = {id} THEN <<Space>> ELSE <<>>) \in Seq(S)
    <3> HIDE DEF most, id
    <3>1. SubSeq(id, n + 1, most) \in Seq(S)
      BY <2>6, <2>9
    <3>2. <<Space>> \in Seq(S) /\ <<>> \in Seq(S)
      OBVIOUS
    <3> QED
      BY <3>1, <3>2
  <2> HIDE DEF most, id
  <2>12. \A a, b \in Seq(S) : a \o b \in Seq(S)
    OBVIOUS
  <2> QED
    BY <2>10, <2>11, <2>12
<1> QED
  BY <1>1, <1>2

(* Every case of the decoder leads to one of its states.                       *)
LEMMA CommitsTo == ASSUME NEW st, NEW keyOf, NEW c \in Commits(st, keyOf) PROVE c.to \in KeyStates
  BY DEF Commits, Case, KeyStates
LEMMA TildesTo == ASSUME NEW st, NEW keyOf, NEW c \in BeforeTilde(st, keyOf) PROVE c.to \in KeyStates
  BY DEF BeforeTilde, Case, KeyStates
LEMMA GoesTo ==
  ASSUME NEW st, NEW to, \A k \in to : k[2] \in KeyStates, NEW c \in Goes(st, to)
  PROVE  c.to \in KeyStates
  BY DEF Goes, Case

\* No case of ansiFilter() leaves its states, ...
LEMMA CasesLead == ASSUME NEW c \in Cases PROVE c.to \in KeyStates
<1>1. \A s \in {"StKeyMain", "StKeyEscMain", "StKeyEscBracket", "StKeyEsc1", "StKeyEscSemi", "StKeyEscSemi5",
                "StKeyEsc2", "StKeyEsc3", "StKeyEscTilde", "StKeyIac", "StKeyIacDo"} : s \in KeyStates
  BY DEF KeyStates
<1>2. CASE c \in MainCases
  <2>1. CASE c \in Goes("StKeyMain", {<<keyIac, "StKeyIac">>, <<keyEsc, "StKeyEscMain">>})
    BY <1>1, <2>1, GoesTo
  <2> QED
    BY <1>2, <2>1, CommitsTo DEF MainCases
<1>3. CASE c \in BracketCases
  <2>1. CASE c \in Goes("StKeyEscMain", {<<Bracket, "StKeyEscBracket">>})
    BY <1>1, <2>1, GoesTo
  <2>2. CASE c \in Goes("StKeyEscBracket",
           {<<Digit(1), "StKeyEsc1">>, <<Digit(2), "StKeyEsc2">>, <<Digit(3), "StKeyEsc3">>})
    BY <1>1, <2>2, GoesTo
  <2> QED
    BY <1>3, <2>1, <2>2, CommitsTo, TildesTo DEF BracketCases
<1>4. CASE c \in NumberCases
  <2>1. CASE c \in Goes("StKeyEsc1", {<<Semicolon, "StKeyEscSemi">>})
    BY <1>1, <2>1, GoesTo
  <2>2. CASE c \in Goes("StKeyEscSemi", {<<Digit(5), "StKeyEscSemi5">>})
    BY <1>1, <2>2, GoesTo
  <2>3. CASE c \in Goes("StKeyEscTilde", {<<Tilde, "StKeyMain">>})
    BY <1>1, <2>3, GoesTo
  <2> QED
    BY <1>4, <2>1, <2>2, <2>3, CommitsTo, TildesTo DEF NumberCases
<1>5. CASE c \in IacCases
  <2>1. CASE c \in Goes("StKeyIac", {<<keyIacDo, "StKeyIacDo">>} \cup {<<b, "StKeyIac">> : b \in Byte \ {keyIacDo}})
    BY <1>1, <2>1, GoesTo
  <2>2. CASE c \in Goes("StKeyIacDo", {<<b, "StKeyMain">> : b \in {keyEcho, keySuppGoAhd, keyStatus}})
    BY <1>1, <2>2, GoesTo
  <2> QED
    BY <1>5, <2>1, <2>2 DEF IacCases
<1> QED
  BY <1>2, <1>3, <1>4, <1>5 DEF Cases

\* ... so none of its steps does.
LEMMA AnsiFilterTyped ==
  ASSUME NEW st \in KeyStates, NEW b \in Byte, NEW c \in AnsiFilter(st, b)
  PROVE  c.to \in KeyStates
<1>1. c \in Cases
  BY DEF AnsiFilter, CasesOf
<1> QED
  BY <1>1, CasesLead

(* The bytes of the commands and of the inputs are numbers.                    *)
LEMMA Given ==
  /\ \A i \in DOMAIN CommandOrder : CommandOrder[i].id \in Seq(Int)
  /\ Inputs \subseteq Seq(Byte) /\ AutoInputs \subseteq Seq(Int) /\ StaleTexts \subseteq Seq(Int)
<1>1. ASSUME NEW s \in Seq(Byte) PROVE s \in Seq(Int)
  <2>1. Byte \subseteq Int
    BY DEF Byte
  <2> QED
    BY <2>1, SeqMonotonic
<1>2. \A i \in DOMAIN CommandOrder : CommandOrder[i].id \in Seq(Byte)
  <2>1. \A T : \A q \in Seq(T) : \A i \in DOMAIN q : q[i] \in T
    OBVIOUS
  <2>2. CommandOrder \in Seq([id : Seq(Byte), shortcut : Seq(Byte), internal : BOOLEAN])
    BY CommandingAssumption
  <2>3. \A i \in DOMAIN CommandOrder : CommandOrder[i] \in [id : Seq(Byte), shortcut : Seq(Byte), internal : BOOLEAN]
    BY <2>1, <2>2, Zenon
  <2> QED
    BY <2>3
<1> QED
  BY <1>1, <1>2, CommandingAssumption

\* bufferEdit() tells the caller to show what it has changed.
LEMMA BufferEditKeeps ==
  ASSUME LineInv, ~ mModeAuto, UNCHANGED mModeAuto, NEW key, BufferEdit(key)
  PROVE  /\ LineInv' /\ mLastKeyWasTab' = FALSE
         /\ changed' = TRUE \/ UNCHANGED <<lineVars, changed, shown>>
<1>1. CASE CursorMove(key)
  BY <1>1, MoveKeeps DEF BufferEdit
<1>2. CASE HistoryNavigate(key)
  BY <1>2, NavigateKeeps DEF BufferEdit
<1>3. CASE ChRemove(key)
  BY <1>3, RemoveKeeps DEF BufferEdit
<1>4. CASE IsInsertable(key) /\ Insert(<<key>>)
  <2>1. <<key>> \in Seq(Int)
    BY <1>4 DEF IsInsertable, IsInsert, IsAlphaNum, Space
  <2> QED
    BY <1>4, <2>1, InsertKeeps DEF BufferEdit
<1>5. CASE UNCHANGED <<lineVars, changed>>
  BY <1>5 DEF BufferEdit, LineInv, LineTyped, LineKept, Ring, Viewed, edit, lineVars
<1> QED
  BY <1>1, <1>2, <1>3, <1>4, <1>5 DEF BufferEdit

(* A key leaves the line in order, and shows it or leaves that to promptSend().  *)
LEMMA TabKeeps ==
  ASSUME LineInv, ProcTyped, ~ mModeAuto, UNCHANGED mModeAuto, mLastKeyWasTab \in BOOLEAN, TabProcess
  PROVE  /\ LineInv' /\ mLastKeyWasTab' \in BOOLEAN
         /\ shown' = Prompt' \/ UNCHANGED <<lineVars, changed, shown>>
<1>1. CASE UNCHANGED <<lineVars, mLastKeyWasTab>> /\ shown' \in {shown, Prompt}
  BY <1>1 DEF LineInv, LineTyped, LineKept, Ring, Viewed, edit, lineVars, TabProcess, Prompt
<1>2. CASE Insert(Completion) /\ mLastKeyWasTab' = TRUE /\ shown' = Prompt'
  <2>1. Completion \in Seq(Int)
    BY Given, CompletionTyped DEF Space
  <2> QED
    BY <1>2, <2>1, InsertKeeps
<1> QED
  BY <1>1, <1>2 DEF TabProcess

\* keyProcess(): each key leaves a line that is shown, or will be.
LEMMA KeyKeeps ==
  ASSUME LineInv, ProcTyped, ~ mModeAuto, UNCHANGED mModeAuto, mLastKeyWasTab \in BOOLEAN,
         NEW key, KeyProcess(key), ~ changed => shown = Prompt
  PROVE  /\ LineInv' /\ mLastKeyWasTab' \in BOOLEAN /\ changed' \in BOOLEAN
         /\ ~ changed' => shown' = Prompt'
<1>0. changed \in BOOLEAN
  BY DEF ProcTyped
<1>1. CASE TabProcess
  <2>1. UNCHANGED changed
    BY <1>1 DEF TabProcess
  <2>2. UNCHANGED lineVars => Prompt' = Prompt
    BY DEF lineVars, Prompt, edit
  <2> QED
    BY <1>0, <1>1, <2>1, <2>2, TabKeeps
<1>2. CASE LineAck
  <2>1. UNCHANGED changed /\ shown' = Prompt' /\ mLastKeyWasTab' = FALSE
    BY <1>2 DEF LineAck
  <2> QED
    BY <1>0, <1>2, <2>1, AckKeeps
<1>3. CASE BufferEdit(key)
  <2>1. UNCHANGED lineVars => Prompt' = Prompt
    BY DEF lineVars, Prompt, edit
  <2> QED
    BY <1>0, <1>3, <2>1, BufferEditKeeps
<1> QED
  BY <1>1, <1>2, <1>3 DEF KeyProcess

(* What the automatic mode stores is no line.                                  *)
LEMMA WordTyped == ASSUME NEW S, NEW text \in Seq(S) PROVE Word(text) \in Seq(S)
<1> DEFINE blanks == {i \in DOMAIN text : text[i] = Space}
           First(i) == \A j \in blanks : i <= j
           n == IF blanks = {} THEN Len(text) ELSE (CHOOSE i \in blanks : First(i)) - 1
<1>1. n \in 0 .. Len(text)
  <2>1. CASE blanks = {}
    BY <2>1
  <2>2. CASE blanks # {}
    <3>1. blanks \subseteq 1 .. Len(text)
      OBVIOUS
    <3>2. \E i \in blanks : First(i)
      <4>1. blanks \subseteq Nat
        BY <3>1
      <4> HIDE DEF blanks
      <4> QED
        BY <2>2, <4>1, LeastOf
    <3>3. PICK f : f = CHOOSE i \in blanks : First(i)
      OBVIOUS
    <3>4. f \in blanks
      BY ONLY <3>2, <3>3
    <3>5. n = f - 1
      BY ONLY <2>2, <3>3
    <3> QED
      BY <3>1, <3>4, <3>5, SMTT(30)
  <2> QED
    BY <2>1, <2>2
<1>2. Word(text) = SubSeq(text, 1, n)
  BY DEF Word
<1> HIDE DEF n
<1> QED
  BY <1>1, <1>2

\* A command without the end of its line
LEMMA Stripped == ASSUME NEW S, NEW s \in Seq(S), NEW b PROVE StripEnd(s, b) \in Seq(S)
<1>1. CASE s = <<>>
  BY <1>1 DEF StripEnd
<1>2. CASE s # <<>>
  <2>1. SubSeq(s, 1, Len(s) - 1) \in Seq(S)
    BY <1>2
  <2> QED
    BY <2>1 DEF StripEnd
<1> QED
  BY <1>1, <1>2

\* The rows that the automatic mode does not use stay empty.
LEMMA AutoTyped ==
  ASSUME LineTyped, NEW s \in AutoInputs, AutoCommandReceive(s)
  PROVE  /\ mCmdInBuf' \in [Rows -> Seq(Int)]
         /\ \A r \in Rows \ {0} : mCmdInBuf[r] = <<>> => mCmdInBuf'[r] = <<>>
<1>1. PICK text : text = StripEnd(StripEnd(s, 10), 13)
  OBVIOUS
<1>2. text \in Seq(Int)
  BY <1>1, Given, Stripped
<1>3. PICK t \in IF text = <<>> THEN StaleTexts ELSE {text} :
        mCmdInBuf' = [mCmdInBuf EXCEPT ![0] = Word(t), ![1] = IF Len(s) > IdxColMax THEN <<>> ELSE @]
  BY <1>1 DEF AutoCommandReceive
<1>4. t \in Seq(Int)
  BY <1>2, <1>3, Given
<1>5. PICK w \in Seq(Int) : w = Word(t)
  BY <1>4, WordTyped
<1>6. 0 \in Rows /\ 1 \in Rows /\ <<>> \in Seq(Int) /\ mCmdInBuf \in [Rows -> Seq(Int)]
  BY Sizes DEF Rows, LineTyped
<1>7. mCmdInBuf' = [mCmdInBuf EXCEPT ![0] = w, ![1] = IF Len(s) > IdxColMax THEN <<>> ELSE @]
  BY <1>3, <1>5
<1> QED
  BY ONLY <1>6, <1>7

-----------------------------------------------------------------------------
(* The invariant is kept by every step.                                        *)
LEMMA LineRests == ASSUME LineInv, UNCHANGED <<lineVars, mModeAuto>> PROVE LineInv' /\ Prompt' = Prompt
  BY DEF LineInv, LineTyped, LineKept, Ring, Viewed, edit, lineVars, Prompt

\* The mode is decided at the start.
LEMMA ModesRest ==
  ASSUME Modes, UNCHANGED <<mModeAuto, mState, lineVars, buf, changed>>,
         life' = "processing" \/ UNCHANGED life \/ Resting, life' # "existent" \/ UNCHANGED life
  PROVE  Modes'
  BY DEF Modes, lineVars, Resting

(* A step that leaves the editor alone.                                        *)
LEMMA EditorRests ==
  ASSUME TermInv, UNCHANGED <<editVars, mModeAuto>>, ProcTyped', Modes',
         life' = "processing" /\ mState' = "StMain" => UNCHANGED <<life, mState>>
  PROVE  TermInv'
<1>1. LineInv' /\ Prompt' = Prompt
  BY LineRests DEF TermInv, editVars
<1>2. KeyTyped'
  BY DEF TermInv, KeyTyped, editVars, keyVars
<1>3. Shown'
  BY <1>1 DEF TermInv, Shown, editVars
<1> QED
  BY <1>1, <1>2, <1>3 DEF TermInv

\* The parts hold at first, ...
LEMMA InitTerm == ASSUME Init PROVE TermInv
<1>1. mCmdInBuf \in [Rows -> Seq(Int)] /\ \A r \in Rows : mCmdInBuf[r] = <<>>
  <2>1. <<>> \in Seq(Int)
    OBVIOUS
  <2> QED
    BY <2>1 DEF Init
<1>2. 0 \in Rows
  BY Sizes DEF Rows
<1>3. LineTyped /\ edit = <<>>
  BY <1>1, <1>2 DEF Init, LineTyped, edit
<1>4. LineKept
  BY <1>1, <1>3, Sizes DEF Init, LineKept
<1>5. Ring
  <2>1. \A k \in 0 .. NumCmdInBuffer : mCmdInBuf[Before(mIdxLineEdit, k)] = <<>>
    BY <1>1, <1>2, RingBefore DEF Init
  <2>2. \A k \in 1 .. NumCmdInBuffer - 1 : \A j \in k .. NumCmdInBuffer - 1 : j \in 0 .. NumCmdInBuffer
    BY Sizes
  <2>3. \A k \in 1 .. NumCmdInBuffer - 2 : k \in 0 .. NumCmdInBuffer
    BY Sizes
  <2> QED
    BY <1>1, <2>1, <2>2, <2>3 DEF Init, Ring
<1>6. ProcTyped /\ KeyTyped /\ Modes /\ Viewed /\ Shown
  <2>1. <<>> \in Seq(Byte)
    OBVIOUS
  <2> QED
    <3>1. ProcTyped
      <4>1. diffMs \in 0 .. TmoCmdAuto + 1
        BY Sizes DEF Init
      <4>2. /\ mModeAuto \in BOOLEAN /\ mDone \in BOOLEAN /\ told \in BOOLEAN /\ changed \in BOOLEAN
            /\ cmds \subseteq {CommandOrder[i] : i \in DOMAIN CommandOrder}
        BY Zenon DEF Init
      <4> QED
        BY <4>1, <4>2 DEF Init, ProcTyped
    <3>4. Viewed /\ Shown
      BY DEF Init, Viewed, Shown
    <3>2. KeyTyped
      BY <2>1 DEF Init, KeyTyped, KeyStates
    <3>3. Modes
      BY <1>1 DEF Init, Modes, Resting
    <3> QED
      BY <3>1, <3>2, <3>3, <3>4
<1> QED
  BY <1>3, <1>4, <1>5, <1>6 DEF TermInv, LineInv

\* ... in the states before and after StMain, ...
LEMMA ProcessKeeps ==
  ASSUME TermInv,
         \/ Begin \/ Cancel \/ Start \/ SendReadyWait \/ TelnetInit \/ Shutdown \/ Connection
         \/ TimePasses \/ CmdReg
  PROVE  TermInv'
<1> USE DEF Ticking, End, procVars, editVars
<1>1. CASE Begin
  <2>1. ProcTyped' /\ Modes'
    BY <1>1, ModesRest DEF Begin, TermInv, ProcTyped
  <2> QED
    BY <1>1, <2>1, EditorRests DEF Begin, TermInv, Modes
<1>2. CASE Cancel
  <2>1. ProcTyped' /\ Modes'
    BY <1>2, ModesRest DEF Cancel, TermInv, ProcTyped
  <2> QED
    BY <1>2, <2>1, EditorRests DEF Cancel, TermInv
<1>3. CASE Start
  <2>1. ProcTyped'
    BY <1>3 DEF Start, TermInv, ProcTyped, Internal
  <2>2. Modes'
    BY <1>3 DEF Start, TermInv, Modes, lineVars, Resting
  <2> QED
    BY <1>3, <2>1, <2>2, EditorRests DEF Start, TermInv
<1>4. CASE SendReadyWait
  <2>1. ProcTyped'
    BY <1>4, Sizes DEF SendReadyWait, TermInv, ProcTyped
  <2>2. Modes'
    BY <1>4 DEF SendReadyWait, TermInv, Modes, lineVars, Resting
  <2>3. life' = "processing" /\ mState' = "StMain" => UNCHANGED <<life, mState>>
    BY <1>4 DEF SendReadyWait
  <2> QED
    BY <1>4, <2>1, <2>2, <2>3, EditorRests DEF SendReadyWait, TermInv
<1>5. CASE TelnetInit
  <2>1. ProcTyped'
    BY <1>5 DEF TelnetInit, TermInv, ProcTyped
  <2>2. Modes'
    BY <1>5 DEF TelnetInit, TermInv, Modes, lineVars, Resting
  <2> QED
    BY <1>5, <2>1, <2>2, EditorRests DEF TelnetInit, TermInv
<1>6. CASE Shutdown
  <2>1. ProcTyped'
    BY <1>6 DEF Shutdown, TermInv, ProcTyped
  <2>2. Modes'
    BY <1>6 DEF Shutdown, TermInv, Modes, lineVars, Resting
  <2> QED
    BY <1>6, <2>1, <2>2, EditorRests DEF Shutdown, TermInv
<1>7. CASE Connection
  <2>1. ProcTyped'
    BY <1>7 DEF Connection, TermInv, ProcTyped
  <2>2. Modes'
    BY <1>7, ModesRest DEF Connection, TermInv
  <2> QED
    BY <1>7, <2>1, <2>2, EditorRests DEF Connection, TermInv
<1>8. CASE TimePasses
  <2>1. ProcTyped'
    BY <1>8, Sizes DEF TimePasses, TermInv, ProcTyped
  <2>2. Modes'
    BY <1>8, ModesRest DEF TimePasses, TermInv
  <2> QED
    BY <1>8, <2>1, <2>2, EditorRests DEF TimePasses, TermInv
<1>9. CASE CmdReg
  <2>1. ProcTyped'
    BY <1>9 DEF CmdReg, TermInv, ProcTyped
  <2>2. Modes'
    BY <1>9, ModesRest DEF CmdReg, TermInv
  <2> QED
    BY <1>9, <2>1, <2>2, EditorRests DEF CmdReg, TermInv
<1> QED
  BY <1>1, <1>2, <1>3, <1>4, <1>5, <1>6, <1>7, <1>8, <1>9

\* ... in StMain and in the automatic mode, ...
LEMMA SessionKeeps ==
  ASSUME TermInv, WelcomeSend \/ Main \/ PromptSend \/ CmdAutoReceiveWait \/ Receive
  PROVE  TermInv'
<1> USE DEF Ticking, End, procVars, editVars, Resting
<1>1. CASE WelcomeSend
  <2>1. LineInv' /\ Prompt' = Prompt
    BY <1>1, LineRests DEF WelcomeSend, TermInv
  <2>2. ProcTyped' /\ KeyTyped' /\ Shown'
    BY <1>1, <2>1 DEF WelcomeSend, TermInv, ProcTyped, KeyTyped, Shown, keyVars
  <2>3. Modes'
    BY <1>1 DEF WelcomeSend, TermInv, Modes, lineVars
  <2> QED
    BY <2>1, <2>2, <2>3 DEF TermInv
<1>2. CASE Main \/ MainReceive
  <2>1. LineInv' /\ Prompt' = Prompt
    BY <1>2, LineRests DEF Main, MainReceive, TermInv
  <2>2. ProcTyped' /\ KeyTyped' /\ Shown'
    <3>1. CASE Main
      BY <3>1, <2>1 DEF Main, TermInv, ProcTyped, KeyTyped, Shown, keyVars
    <3>2. CASE MainReceive
      BY <3>2, <2>1, Given DEF MainReceive, TermInv, ProcTyped, KeyTyped, Shown, keyVars
    <3> QED
      BY <1>2, <3>1, <3>2
  <2>3. Modes'
    BY <1>2 DEF Main, MainReceive, TermInv, Modes, lineVars
  <2> QED
    BY <2>1, <2>2, <2>3 DEF TermInv
<1>3. CASE PromptSend
  <2>1. LineInv' /\ Prompt' = Prompt
    BY <1>3, LineRests DEF PromptSend, TermInv
  <2>2. ProcTyped' /\ KeyTyped' /\ Shown'
    BY <1>3, <2>1, ZenonT(40) DEF PromptSend, TermInv, ProcTyped, KeyTyped, Shown, keyVars
  <2>3. Modes'
    BY <1>3 DEF PromptSend, TermInv, Modes, lineVars
  <2> QED
    BY <2>1, <2>2, <2>3 DEF TermInv
<1>4. CASE CmdAutoReceiveWait
  <2>1. ProcTyped'
    BY <1>4 DEF CmdAutoReceiveWait, TermInv, ProcTyped
  <2>2. UNCHANGED lineVars
    BY <1>4 DEF CmdAutoReceiveWait, editVars
  <2>3. Modes'
    BY <1>4, <2>2 DEF CmdAutoReceiveWait, TermInv, Modes, lineVars
  <2> QED
    BY <1>4, <2>1, <2>2, <2>3, EditorRests DEF CmdAutoReceiveWait, TermInv
<1>5. CASE CmdAutoReceive
  <2>1. /\ mModeAuto /\ LineTyped
    BY <1>5 DEF CmdAutoReceive, TermInv, Modes, LineInv
  <2>2. /\ mCmdInBuf' \in [Rows -> Seq(Int)]
        /\ \A r \in Rows \ {0} : mCmdInBuf[r] = <<>> => mCmdInBuf'[r] = <<>>
    BY <1>5, <2>1, AutoTyped DEF CmdAutoReceive
  <2>3. ProcTyped' /\ KeyTyped' /\ Shown'
    BY <1>5 DEF CmdAutoReceive, TermInv, ProcTyped, KeyTyped, Shown, keyVars
  <2>4. Modes'
    BY <1>5, <2>1, <2>2 DEF CmdAutoReceive, TermInv, Modes
  <2>5. LineTyped' /\ LineKept' /\ Viewed'
    BY <1>5, <2>1, <2>2, <2>4 DEF CmdAutoReceive, LineTyped, LineKept, Viewed, Modes
  <2>6. Ring'
    <3>1. /\ mIdxLineEdit' = 0 /\ 0 \in Rows /\ mIdxLineLast' = -1
          /\ \A r \in Rows \ {0} : mCmdInBuf'[r] = <<>>
      BY <1>5, <2>1, <2>4, Sizes DEF CmdAutoReceive, Modes, Rows
    <3>2. \A k \in 1 .. NumCmdInBuffer - 1 : mCmdInBuf'[Before(0, k)] = <<>>
      BY <3>1, RingBefore, Sizes
    <3>3. \A k \in 1 .. NumCmdInBuffer - 1 : \A j \in k .. NumCmdInBuffer - 1 : j \in 1 .. NumCmdInBuffer - 1
      BY Sizes
    <3>4. \A k \in 1 .. NumCmdInBuffer - 2 : k \in 1 .. NumCmdInBuffer - 1
      BY Sizes
    <3> QED
      BY <3>1, <3>2, <3>3, <3>4 DEF Ring
  <2> QED
    BY <2>3, <2>4, <2>5, <2>6 DEF TermInv, LineInv
<1> QED
  BY <1>1, <1>2, <1>3, <1>4, <1>5 DEF Receive

\* ... and with each byte of a read().
LEMMA KeyActionKeeps == ASSUME TermInv, Key PROVE TermInv'
<1>1. /\ mState = "StMain" /\ life = "processing" /\ ~ mModeAuto /\ mModeAuto \in BOOLEAN
      /\ LineInv /\ ProcTyped /\ mLastKeyWasTab \in BOOLEAN /\ (~ changed => shown = Prompt)
  BY DEF Key, Resting, TermInv, Modes, ProcTyped, KeyTyped, Shown
<1>2. CASE mDone' = TRUE /\ End /\ buf' = <<>> /\ changed' = FALSE /\ UNCHANGED <<keyVars, lineVars, shown>>
  <2>1. LineInv'
    BY <1>2, LineRests DEF End, TermInv
  <2>2. ProcTyped' /\ KeyTyped' /\ Shown'
    <3>1. <<>> \in Seq(Byte)
      OBVIOUS
    <3> QED
      BY <1>2, <3>1 DEF Key, End, TermInv, ProcTyped, KeyTyped, keyVars, Shown
  <2>3. Modes'
    BY <1>1, <1>2 DEF End, Modes, Resting
  <2> QED
    BY <2>1, <2>2, <2>3 DEF TermInv
<1>3. CASE \E c \in AnsiFilter(mStateKey, Head(buf)) :
             /\ mStateKey' = c.to /\ buf' = Tail(buf)
             /\ \/ /\ c.out = NoKey /\ ran' = Nothing
                   /\ UNCHANGED <<mLastKeyWasTab, lineVars, changed, shown>>
                \/ c.out # NoKey /\ KeyProcess(c.out)
             /\ UNCHANGED procVars
  <2>1. PICK c \in AnsiFilter(mStateKey, Head(buf)) :
             /\ mStateKey' = c.to /\ buf' = Tail(buf)
             /\ \/ /\ c.out = NoKey /\ ran' = Nothing
                   /\ UNCHANGED <<mLastKeyWasTab, lineVars, changed, shown>>
                \/ c.out # NoKey /\ KeyProcess(c.out)
             /\ UNCHANGED procVars
    BY <1>3
  <2>2. buf \in Seq(Byte) /\ buf # <<>> /\ mStateKey \in KeyStates
    BY DEF Key, TermInv, KeyTyped
  <2>3. Head(buf) \in Byte /\ Tail(buf) \in Seq(Byte)
    BY <2>2
  <2>4. mStateKey' \in KeyStates /\ buf' \in Seq(Byte)
    BY <2>1, <2>2, <2>3, AnsiFilterTyped
  <2>5. UNCHANGED <<life, mState, mModeAuto, mDone, trans, told>>
    BY <2>1 DEF procVars
  <2>6. /\ LineInv' /\ mLastKeyWasTab' \in BOOLEAN /\ changed' \in BOOLEAN
        /\ ~ changed' => shown' = Prompt'
    <3>1. CASE c.out # NoKey /\ KeyProcess(c.out)
      BY <1>1, <2>5, <3>1, KeyKeeps
    <3>2. CASE UNCHANGED <<mLastKeyWasTab, lineVars, changed, shown>>
      <4>1. LineInv' /\ Prompt' = Prompt
        BY <1>1, <2>5, <3>2, LineRests
      <4> QED
        BY <1>1, <3>2, <4>1 DEF ProcTyped
    <3> QED
      BY <2>1, <3>1, <3>2
  <2>7. ProcTyped' /\ KeyTyped' /\ Shown'
    BY <1>1, <2>4, <2>5, <2>6 DEF Key, ProcTyped, KeyTyped, Shown
  <2>8. Modes'
    BY <1>1, <2>5 DEF Modes
  <2> QED
    BY <2>6, <2>7, <2>8 DEF TermInv
<1> QED
  BY <1>2, <1>3 DEF Key

(* The parts hold in every state of the terminal.                              *)
THEOREM TermInvariance == Spec => []TermInv
<1>1. Init => TermInv
  BY InitTerm
<1>2. TermInv /\ [Next]_vars => TermInv'
  <2> SUFFICES ASSUME TermInv, [Next]_vars PROVE TermInv'
    OBVIOUS
  <2>1. CASE UNCHANGED vars
    <3>1. ProcTyped' /\ Modes'
      BY <2>1 DEF TermInv, vars, procVars, lineVars, ProcTyped, Modes, Resting
    <3> QED
      BY <2>1, <3>1, EditorRests DEF vars, procVars, editVars
  <2> QED
    BY <2>1, ProcessKeeps, SessionKeeps, KeyActionKeeps DEF Next, Tick
<1> QED
  BY <1>1, <1>2, PTL DEF Spec

\* Whatever the user types, the editor writes to its own rows only, keeps the place of the zero
\* behind each line, and has its cursor on the line, and the history has no gap, no line twice in
\* a row and no empty row that is shown, for any number and length of the rows: chInsert(),
\* chRemove(), cursorMove(), historyInsert(), historyNavigate() and commandExecute().
THEOREM EditorKeepsItsRows == Spec => []EditInv
<1>1. TermInv => EditInv
  <2> SUFFICES ASSUME TermInv PROVE EditInv
    OBVIOUS
  <2> USE DEF TermInv, LineInv
  <2>1. TypeOK
    BY DEF TypeOK, ProcTyped, KeyTyped, LineTyped
  <2>2. /\ \A r \in Rows : mModeAuto \/ Len(mCmdInBuf[r]) <= IdxColMax
        /\ mModeAuto \/ mIdxColLineEnd = Len(edit)
        /\ mIdxColCursor \in 0 .. mIdxColLineEnd
        /\ mIdxLineView # mIdxLineEdit => mCmdInBuf[mIdxLineView] # <<>>
    BY DEF LineTyped, LineKept, Viewed
  <2>3. mIdxLineEdit \in Int /\ \A k \in Int : Row(mIdxLineEdit - k) = mCmdInBuf[Before(mIdxLineEdit, k)]
    BY Sizes DEF Row, Before, LineTyped, Rows
  <2>4. mIdxLineLast # -1 => mIdxLineLast = (mIdxLineEdit - 1) % NumCmdInBuffer
    BY DEF Ring, Before
  <2>5. \A k \in 1 .. NumCmdInBuffer - 1 :
          Row(mIdxLineEdit - k) = <<>> =>
            \A j \in k .. NumCmdInBuffer - 1 : Row(mIdxLineEdit - j) = <<>>
    BY <2>3 DEF Ring
  <2>6. \A k \in 1 .. NumCmdInBuffer - 2 :
          Row(mIdxLineEdit - k) # <<>> => Row(mIdxLineEdit - k) # Row(mIdxLineEdit - k - 1)
    <3>1. \A k \in Int : mIdxLineEdit - k - 1 = mIdxLineEdit - (k + 1)
      BY <2>3
    <3>2. \A k \in Int : Row(mIdxLineEdit - k - 1) = mCmdInBuf[Before(mIdxLineEdit, k + 1)]
      BY <2>3, <3>1
    <3> TAKE k \in 1 .. NumCmdInBuffer - 2
    <3>3. /\ Row(mIdxLineEdit - k) = mCmdInBuf[Before(mIdxLineEdit, k)]
          /\ Row(mIdxLineEdit - k - 1) = mCmdInBuf[Before(mIdxLineEdit, k + 1)]
      BY <2>3, <3>2
    <3> QED
      BY <3>3 DEF Ring
  <2> QED
    BY <2>1, <2>2, <2>4, <2>5, <2>6 DEF EditInv
<1> QED
  BY <1>1, TermInvariance, PTL

\* Whenever the terminal waits for a key, what it has sent last is the line and the cursor as they
\* are, whatever was in the read() before: dataReceive(), tabProcess(), lineAck(), promptSend().
THEOREM UserSeesTheLine == Spec => []ShownIsLine
<1>1. TermInv => ShownIsLine
  BY DEF TermInv, Shown, ShownIsLine, Resting
<1> QED
  BY <1>1, TermInvariance, PTL

-----------------------------------------------------------------------------
(* The history of LineEditing is the rows before the line up to the first      *)
(* empty one.                                                                  *)
HistOf(n) == /\ \A k \in 1 .. n : mCmdInBuf[Before(mIdxLineEdit, k)] # <<>>
             /\ n = NumCmdInBuffer - 1 \/ mCmdInBuf[Before(mIdxLineEdit, n + 1)] = <<>>
Hist == [k \in 1 .. HistLen |-> Row(mIdxLineEdit - k)]

\* The length of the history, in terms of the rows before the line
LEMMA HistOfRows ==
  ASSUME LineTyped, NEW n \in 0 .. NumCmdInBuffer - 1
  PROVE  HistOf(n) <=> /\ \A k \in 1 .. n : Row(mIdxLineEdit - k) # <<>>
                       /\ n = NumCmdInBuffer - 1 \/ Row(mIdxLineEdit - n - 1) = <<>>
<1>1. mIdxLineEdit \in Int /\ \A k \in Int : Row(mIdxLineEdit - k) = mCmdInBuf[Before(mIdxLineEdit, k)]
  BY Sizes DEF Row, Before, LineTyped, Rows
<1>2. Row(mIdxLineEdit - n - 1) = mCmdInBuf[Before(mIdxLineEdit, n + 1)]
  <2>1. mIdxLineEdit - n - 1 = mIdxLineEdit - (n + 1)
    BY <1>1
  <2> QED
    BY <1>1, <2>1
<1>3. \A k \in 1 .. n : Row(mIdxLineEdit - k) = mCmdInBuf[Before(mIdxLineEdit, k)]
  BY <1>1
<1> QED
  BY <1>2, <1>3 DEF HistOf

\* There is one such length, ...
LEMMA OneHistory ==
  ASSUME NEW m \in 0 .. NumCmdInBuffer - 1, HistOf(m), NEW n \in 0 .. NumCmdInBuffer - 1, HistOf(n)
  PROVE  m = n
<1>1. ASSUME NEW a \in 0 .. NumCmdInBuffer - 1, HistOf(a), NEW b \in 0 .. NumCmdInBuffer - 1, HistOf(b), a < b
      PROVE  FALSE
  <2>1. a + 1 \in 1 .. b /\ a # NumCmdInBuffer - 1
    BY <1>1, Sizes
  <2> QED
    BY <1>1, <2>1 DEF HistOf
<1>2. ~ (m < n) /\ ~ (n < m)
  BY <1>1
<1> QED
  BY <1>2, Sizes

\* ... and always one, ...
LEMMA SomeHistory ==
  ASSUME LineTyped
  PROVE  \E n \in 0 .. NumCmdInBuffer - 1 : HistOf(n)
<1> DEFINE T == {n \in 0 .. NumCmdInBuffer - 1 :
                   n = NumCmdInBuffer - 1 \/ mCmdInBuf[Before(mIdxLineEdit, n + 1)] = <<>>}
<1>1. NumCmdInBuffer - 1 \in T /\ T \subseteq Nat
  BY Sizes
<1>2. PICK n \in T : \A m \in T : n <= m
  <2> HIDE DEF T
  <2> QED
    BY <1>1, LeastOf
<1>3. \A k \in 1 .. n : mCmdInBuf[Before(mIdxLineEdit, k)] # <<>>
  <2> SUFFICES ASSUME NEW k \in 1 .. n, mCmdInBuf[Before(mIdxLineEdit, k)] = <<>> PROVE FALSE
    OBVIOUS
  <2>1. k - 1 \in 0 .. NumCmdInBuffer - 1 /\ (k - 1) + 1 = k /\ ~ (n <= k - 1)
    BY <1>2, Sizes
  <2>2. k - 1 \in T
    BY <2>1
  <2> QED
    BY <1>2, <2>1, <2>2
<1> QED
  BY <1>2, <1>3 DEF HistOf

\* ... which HistLen is.
LEMMA HistLenIs ==
  ASSUME LineTyped
  PROVE  /\ HistLen \in 0 .. NumCmdInBuffer - 1 /\ HistOf(HistLen)
         /\ \A n \in 0 .. NumCmdInBuffer - 1 : HistOf(n) => n = HistLen
<1> DEFINE P(n) == /\ \A k \in 1 .. n : Row(mIdxLineEdit - k) # <<>>
                   /\ n = NumCmdInBuffer - 1 \/ Row(mIdxLineEdit - n - 1) = <<>>
<1>1. \A n \in 0 .. NumCmdInBuffer - 1 : HistOf(n) <=> P(n)
  BY HistOfRows
<1>2. HistLen = CHOOSE n \in 0 .. NumCmdInBuffer - 1 : P(n)
  BY DEF HistLen
<1> HIDE DEF P
<1>3. \E n \in 0 .. NumCmdInBuffer - 1 : P(n)
  BY <1>1, SomeHistory
<1>4. HistLen \in 0 .. NumCmdInBuffer - 1 /\ P(HistLen)
  BY <1>2, <1>3
<1> QED
  BY <1>1, <1>4, OneHistory

\* The rows of the history are those with a text.
LEMMA HistRows ==
  ASSUME LineTyped, Ring, NEW k \in 1 .. NumCmdInBuffer - 1
  PROVE  mCmdInBuf[Before(mIdxLineEdit, k)] # <<>> <=> k <= HistLen
<1>1. HistLen \in 0 .. NumCmdInBuffer - 1 /\ HistOf(HistLen)
  BY HistLenIs
<1>2. CASE k <= HistLen
  <2>1. k \in 1 .. HistLen
    BY <1>1, <1>2
  <2> QED
    BY <1>1, <1>2, <2>1 DEF HistOf
<1>3. CASE ~ (k <= HistLen)
  <2>1. HistLen + 1 \in 1 .. NumCmdInBuffer - 1 /\ k \in HistLen + 1 .. NumCmdInBuffer - 1 /\ HistLen # NumCmdInBuffer - 1
    BY <1>1, <1>3, Sizes
  <2> QED
    BY <1>1, <1>3, <2>1 DEF HistOf, Ring
<1> QED
  BY <1>2, <1>3

\* The history is a sequence of lines.
LEMMA HistTyped ==
  ASSUME LineTyped
  PROVE  /\ Hist \in Seq(Seq(Int)) /\ Len(Hist) = HistLen
         /\ \A k \in 1 .. HistLen : Hist[k] = mCmdInBuf[Before(mIdxLineEdit, k)]
<1>1. HistLen \in Nat /\ \A k \in 1 .. HistLen : k \in 0 .. NumCmdInBuffer
  BY HistLenIs, Sizes
<1>2. \A k \in 1 .. HistLen : Row(mIdxLineEdit - k) = mCmdInBuf[Before(mIdxLineEdit, k)]
  BY <1>1 DEF Row, Before
<1>3. \A k \in 1 .. HistLen : Hist[k] = mCmdInBuf[Before(mIdxLineEdit, k)] /\ Hist[k] \in Seq(Int)
  BY <1>1, <1>2, RingBefore DEF Hist, LineTyped
<1>4. Hist \in [1 .. HistLen -> Seq(Int)]
  BY <1>3 DEF Hist
<1>5. PICK h \in [1 .. HistLen -> Seq(Int)] : h = Hist
  BY <1>4
<1>6. h \in Seq(Seq(Int)) /\ Len(h) = HistLen
  BY <1>1
<1> QED
  BY <1>3, <1>5, <1>6

\* What is known of the history, of a state and of its successor.
HistKnown ==
  /\ HistLen \in 0 .. NumCmdInBuffer - 1
  /\ \A n \in 0 .. NumCmdInBuffer - 1 : HistOf(n) => n = HistLen
  /\ \A k \in 1 .. NumCmdInBuffer - 1 : mCmdInBuf[Before(mIdxLineEdit, k)] # <<>> <=> k <= HistLen
  /\ Hist \in Seq(Seq(Int)) /\ Len(Hist) = HistLen
  /\ \A k \in 1 .. HistLen : Hist[k] = mCmdInBuf[Before(mIdxLineEdit, k)]

\* All of it holds in a state with its rows in order, ...
LEMMA HistNow == LineTyped /\ Ring => HistKnown
  BY HistLenIs, HistRows, HistTyped DEF HistKnown

\* ... and in the next one.
LEMMA HistNext == LineTyped' /\ Ring' => HistKnown'
  BY HistNow, PTL

\* A key that changes nothing but the line leaves the history as it is.
LEMMA HistStays ==
  ASSUME LineInv, LineInv', UNCHANGED mIdxLineEdit,
         \A r \in Rows \ {mIdxLineEdit} : mCmdInBuf'[r] = mCmdInBuf[r]
  PROVE  HistLen' = HistLen /\ Hist' = Hist
<1>1. HistKnown /\ HistKnown'
  BY HistNow, HistNext DEF LineInv
<1>2. \A k \in 1 .. NumCmdInBuffer - 1 :
        mCmdInBuf'[Before(mIdxLineEdit, k)] = mCmdInBuf[Before(mIdxLineEdit, k)]
  BY RingBefore, Sizes DEF LineInv, LineTyped
<1>3. \A k \in 1 .. NumCmdInBuffer - 1 : k <= HistLen' <=> k <= HistLen
  BY <1>1, <1>2 DEF HistKnown
<1>4. HistLen' = HistLen
  <2>1. HistLen \in 0 .. NumCmdInBuffer - 1 /\ HistLen' \in 0 .. NumCmdInBuffer - 1
    BY <1>1 DEF HistKnown
  <2>2. ASSUME NEW a \in 0 .. NumCmdInBuffer - 1, NEW b \in 0 .. NumCmdInBuffer - 1,
               \A k \in 1 .. NumCmdInBuffer - 1 : k <= a <=> k <= b
        PROVE  a = b
    <3>1. a \in 1 .. NumCmdInBuffer - 1 => a <= b
      BY <2>2, Sizes
    <3>2. b \in 1 .. NumCmdInBuffer - 1 => b <= a
      BY <2>2, Sizes
    <3> QED
      BY <3>1, <3>2, Sizes
  <2> QED
    BY <1>3, <2>1, <2>2
<1>5. Hist' = Hist
  <2>1. \A k \in 1 .. HistLen : k \in 1 .. NumCmdInBuffer - 1
    <3>1. HistLen \in 0 .. NumCmdInBuffer - 1
      BY <1>1 DEF HistKnown
    <3> QED
      BY <3>1, Sizes
  <2>2. \A k \in 1 .. HistLen : Hist'[k] = Hist[k]
    BY <1>1, <1>2, <1>4, <2>1, ZenonT(40) DEF HistKnown
  <2> QED
    BY <1>1, <1>4, <2>2 DEF HistKnown
<1> QED
  BY <1>4, <1>5

\* The abstract state, and what it is told of a step.
At == Before(mIdxLineEdit, mIdxLineView)
Line == IF mModeAuto THEN <<>> ELSE edit
Ran == IF mModeAuto THEN <<>> ELSE ran.text

\* The actions of LineEditing, in terms of the terminal
LEMMA Mapped ==
  /\ Editing!Init <=> Line = <<>> /\ mIdxColCursor = 0 /\ Hist = <<>> /\ At = 0 /\ Ran = <<>>
  /\ Editing!Rest <=> Ran' = <<>> /\ UNCHANGED <<Line, mIdxColCursor, Hist, At>>
  /\ Editing!Move <=> mIdxColCursor' \in 0 .. Len(Line) /\ Ran' = <<>> /\ UNCHANGED <<Line, Hist, At>>
  /\ Editing!Recall <=>
       /\ At' \in {At - 1, At + 1} \cap (0 .. Len(Hist))
       /\ Line' = IF At' = 0 THEN <<>> ELSE Hist[At']
       /\ mIdxColCursor' = Len(Line')
       /\ Ran' = <<>> /\ UNCHANGED Hist
  BY DEF Editing!Init, Editing!Rest, Editing!Move, Editing!Recall, Hist, At, Line, Ran, Before

\* Those of them that change the line
LEMMA MappedEdits ==
  /\ Editing!Remove <=>
       /\ \/ /\ mIdxColCursor > 0
             /\ Line' = SubSeq(Line, 1, mIdxColCursor - 1) \o SubSeq(Line, mIdxColCursor + 1, Len(Line))
             /\ mIdxColCursor' = mIdxColCursor - 1
          \/ /\ mIdxColCursor < Len(Line)
             /\ Line' = SubSeq(Line, 1, mIdxColCursor) \o Tail(SubSeq(Line, mIdxColCursor + 1, Len(Line)))
             /\ mIdxColCursor' = mIdxColCursor
       /\ Ran' = <<>> /\ UNCHANGED <<Hist, At>>
  /\ Editing!Insert <=>
       /\ Len(Line') - Len(Line) > 0 /\ Len(Line') <= IdxColMax
       /\ mIdxColCursor' = mIdxColCursor + (Len(Line') - Len(Line))
       /\ SubSeq(Line', 1, mIdxColCursor) = SubSeq(Line, 1, mIdxColCursor)
       /\ SubSeq(Line', mIdxColCursor' + 1, Len(Line')) = SubSeq(Line, mIdxColCursor + 1, Len(Line))
       /\ \A i \in mIdxColCursor + 1 .. mIdxColCursor' : Line'[i] \in {b \in Byte : IsInsert(b)}
       /\ Ran' = <<>> /\ UNCHANGED <<Hist, At>>
  /\ Editing!Acknowledge <=>
       /\ Ran' = Line
       /\ Hist' = IF Line = <<>> \/ (Hist # <<>> /\ Head(Hist) = Line) THEN Hist
                  ELSE SubSeq(<<Line>> \o Hist, 1,
                              IF Len(Hist) < NumCmdInBuffer - 1 THEN Len(Hist) + 1 ELSE NumCmdInBuffer - 1)
       /\ Line' = <<>> /\ mIdxColCursor' = 0 /\ At' = 0
  BY DEF Editing!Remove, Editing!Insert, Editing!Acknowledge, Editing!Left, Editing!Right,
         Hist, At, Line, Ran, Before

Splice(q, c, t) == SubSeq(q, 1, c) \o t \o SubSeq(q, c + 1, Len(q))

\* What is left and right of some characters that were put into a line
LEMMA SpliceParts ==
  ASSUME NEW S, NEW q \in Seq(S), NEW c \in 0 .. Len(q), NEW t \in Seq(S)
  PROVE  /\ SubSeq(Splice(q, c, t), 1, c) = SubSeq(q, 1, c)
         /\ SubSeq(Splice(q, c, t), c + Len(t) + 1, Len(Splice(q, c, t))) = SubSeq(q, c + 1, Len(q))
         /\ \A i \in c + 1 .. c + Len(t) : Splice(q, c, t)[i] = t[i - c]
         /\ Len(t) = 0 => Splice(q, c, t) = q
<1>0. PICK r : r = Splice(q, c, t)
  OBVIOUS
<1>1. PICK a \in Seq(S) : a = SubSeq(q, 1, c) /\ Len(a) = c /\ \A i \in 1 .. c : a[i] = q[i]
  <2>1. 1 \in 1 .. Len(q) + 1 /\ c \in 1 - 1 .. Len(q) /\ (1 <= c => c - 1 + 1 = c) /\ (~ (1 <= c) => c = 0)
    OBVIOUS
  <2>2. \A i \in 1 .. c : i \in 1 .. c - 1 + 1 /\ 1 + i - 1 = i
    OBVIOUS
  <2>3. SubSeq(q, 1, c) \in Seq(S) /\ Len(SubSeq(q, 1, c)) = c
    BY ONLY <2>1, SubSeqProperties, q \in Seq(S)
  <2>4. \A i \in 1 .. c : SubSeq(q, 1, c)[i] = q[i]
    BY ONLY <2>1, <2>2, SubSeqProperties, q \in Seq(S)
  <2> QED
    BY ONLY <2>3, <2>4
<1>2. PICK b \in Seq(S) : b = SubSeq(q, c + 1, Len(q)) /\ Len(b) = Len(q) - c
                          /\ \A i \in 1 .. Len(q) - c : b[i] = q[c + i]
  <2>1. /\ c + 1 \in 1 .. Len(q) + 1 /\ Len(q) \in (c + 1) - 1 .. Len(q)
        /\ Len(q) - (c + 1) + 1 = Len(q) - c /\ (~ (c + 1 <= Len(q)) => Len(q) - c = 0)
    OBVIOUS
  <2>2. \A i \in 1 .. Len(q) - c : i \in 1 .. Len(q) - (c + 1) + 1 /\ (c + 1) + i - 1 = c + i
    OBVIOUS
  <2>3. c + 1 \in Int /\ Len(q) \in Int /\ \A i \in c + 1 .. Len(q) : q[i] \in S
    BY ONLY q \in Seq(S), c \in 0 .. Len(q)
  <2>4. PICK d \in Int : d = c + 1
    BY <2>3
  <2>5. PICK h \in Int : h = Len(q)
    BY <2>3
  <2>6. \A i \in d .. h : q[i] \in S
    BY ONLY <2>3, <2>4, <2>5
  <2>7. /\ SubSeq(q, d, h) \in Seq(S) /\ Len(SubSeq(q, d, h)) = (IF d <= h THEN h - d + 1 ELSE 0)
        /\ \A i \in 1 .. h - d + 1 : SubSeq(q, d, h)[i] = q[d + i - 1]
    BY ONLY <2>6, SubSeqProperties, d \in Int, h \in Int
  <2> QED
    BY ONLY <2>1, <2>2, <2>4, <2>5, <2>7, ZenonT(40)
<1>3. r = a \o t \o b
  BY <1>0, <1>1, <1>2 DEF Splice
<1>4. PICK m \in Nat : m = Len(t)
  OBVIOUS
<1>5. PICK n \in Nat : n = Len(q) /\ c <= n
  OBVIOUS
<1>6. /\ r \in Seq(S) /\ Len(r) = n + m
      /\ \A i \in 1 .. c : r[i] = a[i]
      /\ \A i \in c + 1 .. c + m : r[i] = t[i - c]
      /\ \A i \in c + m + 1 .. n + m : r[i] = b[i - c - m]
  <2>1. PICK d \in Seq(S) : d = a \o t /\ Len(d) = c + m /\ (\A i \in 1 .. c : d[i] = a[i])
                            /\ \A i \in c + 1 .. c + m : d[i] = t[i - c]
    <3>1. Len(a) = c /\ Len(t) = m
      BY <1>1, <1>4
    <3>2. a \o t \in Seq(S) /\ Len(a \o t) = Len(a) + Len(t)
          /\ (\A i \in 1 .. Len(a) : (a \o t)[i] = a[i])
          /\ \A i \in Len(a) + 1 .. Len(a) + Len(t) : (a \o t)[i] = t[i - Len(a)]
      OBVIOUS
    <3> QED
      BY <3>1, <3>2
  <2>2. Len(b) = n - c
    BY <1>2, <1>5
  <2>3. d \o b \in Seq(S) /\ Len(d \o b) = Len(d) + Len(b)
        /\ (\A i \in 1 .. Len(d) : (d \o b)[i] = d[i])
        /\ \A i \in Len(d) + 1 .. Len(d) + Len(b) : (d \o b)[i] = b[i - Len(d)]
    OBVIOUS
  <2>4. r = d \o b
    BY <1>3, <2>1
  <2>5. /\ r \in Seq(S) /\ Len(r) = n + m
        /\ \A i \in 1 .. c + m : r[i] = d[i]
        /\ \A i \in c + m + 1 .. n + m : r[i] = b[i - (c + m)]
    <3>1. Len(d) = c + m /\ Len(d) + Len(b) = n + m
      BY <1>5, <2>1, <2>2
    <3> QED
      BY ONLY <2>3, <2>4, <3>1
  <2>6. \A i \in 1 .. c : i \in 1 .. c + m
    OBVIOUS
  <2>7. \A i \in c + 1 .. c + m : i \in 1 .. c + m
    OBVIOUS
  <2>8. \A i \in c + m + 1 .. n + m : i - c - m = i - (c + m)
    OBVIOUS
  <2> QED
    BY <2>1, <2>5, <2>6, <2>7, <2>8
<1>7. SubSeq(r, 1, c) = a
  <2>1. SubSeq(r, 1, c) \in Seq(S) /\ Len(SubSeq(r, 1, c)) = c /\ \A i \in 1 .. c : SubSeq(r, 1, c)[i] = r[i]
    BY ONLY <1>5, <1>6, c \in Nat, m \in Nat
  <2> QED
    BY ONLY <1>1, <1>6, <2>1
<1>8. SubSeq(r, c + m + 1, n + m) = b
  <2> DEFINE e == SubSeq(r, c + m + 1, n + m)
  <2>1. e \in Seq(S) /\ Len(e) = n - c /\ \A i \in 1 .. n - c : e[i] = r[c + m + i]
    BY ONLY <1>5, <1>6, c \in Nat, m \in Nat, n \in Nat
  <2>2. \A i \in 1 .. n - c : c + m + i \in c + m + 1 .. n + m /\ (c + m + i) - c - m = i
    BY ONLY <1>5, c \in Nat, m \in Nat, n \in Nat
  <2>3. \A i \in 1 .. n - c : e[i] = b[i]
    BY <1>6, <2>1, <2>2
  <2>4. Len(b) = n - c
    BY <1>2, <1>5
  <2> HIDE DEF e
  <2> QED
    BY ONLY b \in Seq(S), <2>1, <2>3, <2>4
<1>9. ASSUME m = 0 PROVE r = q
  <2>1. Len(r) = n /\ \A i \in c + 1 .. n : r[i] = b[i - c]
    <3>1. \A i \in c + 1 .. n : i \in c + m + 1 .. n + m /\ i - c - m = i - c
      BY <1>5, <1>9
    <3>2. Len(r) = n
      BY ONLY <1>6, <1>9, n \in Nat
    <3> QED
      BY ONLY <1>6, <3>1, <3>2
  <2>2. \A i \in c + 1 .. n : i - c \in 1 .. n - c /\ c + (i - c) = i
    BY <1>5
  <2>3. \A i \in 1 .. n : r[i] = q[i]
    <3>1. \A i \in c + 1 .. n : r[i] = q[i]
      BY <1>2, <1>5, <2>1, <2>2
    <3> QED
      <4>1. \A i \in 1 .. c : r[i] = q[i]
        BY ONLY <1>1, <1>6
      <4>2. \A i \in 1 .. n : i \in 1 .. c \/ i \in c + 1 .. n
        BY ONLY <1>5, c \in Nat
      <4> QED
        BY ONLY <3>1, <4>1, <4>2
  <2> QED
    BY ONLY <1>5, <1>6, <2>1, <2>3, q \in Seq(S), SMTT(30)
<1>10. /\ SubSeq(r, 1, c) = SubSeq(q, 1, c)
       /\ SubSeq(r, c + Len(t) + 1, Len(r)) = SubSeq(q, c + 1, Len(q))
       /\ \A i \in c + 1 .. c + Len(t) : r[i] = t[i - c]
       /\ Len(t) = 0 => r = q
  BY <1>1, <1>2, <1>4, <1>5, <1>6, <1>7, <1>8, <1>9
<1> QED
  BY <1>0, <1>10, Zenon

Typed == {b \in Byte : IsInsert(b)}

\* A step that changes nothing of the editor
LEMMA RestMaps ==
  ASSUME LineInv, LineInv', ~ mModeAuto, UNCHANGED <<lineVars, mModeAuto>>, ran' = Nothing
  PROVE  Editing!Rest
<1>1. UNCHANGED <<mCmdInBuf, mIdxLineEdit, mIdxLineView, mIdxColCursor>>
  BY DEF lineVars
<1>2. Hist' = Hist
  BY <1>1, HistStays
<1>3. Line' = Line /\ At' = At /\ Ran' = <<>>
  BY <1>1 DEF Line, At, Ran, Nothing, edit, Before
<1> QED
  BY <1>1, <1>2, <1>3, Mapped

(* What a key of the line does to the history and to the view.                 *)
LEMMA SetLineMaps ==
  ASSUME LineInv, LineInv', ~ mModeAuto, UNCHANGED <<mModeAuto, mIdxLineEdit>>, ran' = Nothing,
         NEW text, NEW cur, SetLine(text, cur)
  PROVE  /\ Line = edit /\ Line' = text /\ mIdxColCursor' = cur /\ Hist' = Hist /\ Ran' = <<>>
         /\ mIdxColCursor \in 0 .. Len(Line) /\ Line \in Seq(Int)
         /\ mIdxLineView' = mIdxLineView => At' = At
<1>1. /\ mCmdInBuf'[mIdxLineEdit] = text /\ mIdxColCursor' = cur
      /\ \A r \in Rows \ {mIdxLineEdit} : mCmdInBuf'[r] = mCmdInBuf[r]
  BY DEF SetLine, LineInv, LineTyped
<1>2. Hist' = Hist
  BY <1>1, HistStays
<1>3. Line = edit /\ Line' = text /\ Ran' = <<>>
  BY <1>1 DEF Line, Ran, Nothing, edit
<1>4. mIdxColCursor \in 0 .. Len(Line) /\ Line \in Seq(Int)
  BY <1>3 DEF LineInv, LineTyped, LineKept, edit
<1> QED
  BY <1>1, <1>2, <1>3, <1>4 DEF At, Before

\* Characters appear at the cursor, unless the line is full.
LEMMA InsertMaps ==
  ASSUME LineInv, LineInv', ~ mModeAuto, UNCHANGED mModeAuto, ran' = Nothing,
         NEW s \in Seq(Typed), Insert(s)
  PROVE  Editing!Insert \/ Editing!Rest
<1> DEFINE left == IdxColMax - mIdxColLineEnd
           n == IF Len(s) <= left THEN Len(s) ELSE left
           t == SubSeq(s, 1, n)
           text == SubSeq(edit, 1, mIdxColCursor) \o t \o SubSeq(edit, mIdxColCursor + 1, Len(edit))
<1>1. edit \in Seq(Int) /\ mIdxColLineEnd = Len(edit) /\ Len(edit) <= IdxColMax /\ mIdxColCursor \in 0 .. Len(edit)
  BY DEF LineInv, LineTyped, LineKept, edit
<1>2. t \in Seq(Typed) /\ t \in Seq(Int) /\ Len(t) \in 0 .. left
  <2>1. t \in Seq(Typed) /\ Len(t) \in 0 .. left
    BY <1>1, Sizes
  <2>2. Typed \subseteq Int
    <3>1. Typed \subseteq Byte
      BY DEF Typed
    <3>2. Byte \subseteq Int
      BY DEF Byte
    <3> QED
      BY <3>1, <3>2
  <2> HIDE DEF t
  <2> QED
    BY <2>1, <2>2, SeqMonotonic
<1>3. SetLine(text, mIdxColCursor + Len(t)) /\ UNCHANGED <<mIdxLineEdit, mIdxLineView>>
  BY DEF Insert
<1> HIDE DEF t
<1>4. text \in Seq(Int) /\ Len(text) = Len(edit) + Len(t)
  BY <1>1, <1>2, Spliced
<1>5. /\ SubSeq(text, 1, mIdxColCursor) = SubSeq(edit, 1, mIdxColCursor)
      /\ SubSeq(text, mIdxColCursor + Len(t) + 1, Len(text)) = SubSeq(edit, mIdxColCursor + 1, Len(edit))
      /\ \A i \in mIdxColCursor + 1 .. mIdxColCursor + Len(t) : text[i] = t[i - mIdxColCursor]
      /\ Len(t) = 0 => text = edit
  <2>1. text = Splice(edit, mIdxColCursor, t)
    BY DEF Splice
  <2>2. edit \in Seq(Int) /\ mIdxColCursor \in 0 .. Len(edit) /\ t \in Seq(Int)
    BY <1>1, <1>2
  <2>3. /\ SubSeq(Splice(edit, mIdxColCursor, t), 1, mIdxColCursor) = SubSeq(edit, 1, mIdxColCursor)
        /\ SubSeq(Splice(edit, mIdxColCursor, t), mIdxColCursor + Len(t) + 1, Len(Splice(edit, mIdxColCursor, t)))
             = SubSeq(edit, mIdxColCursor + 1, Len(edit))
        /\ \A i \in mIdxColCursor + 1 .. mIdxColCursor + Len(t) :
             Splice(edit, mIdxColCursor, t)[i] = t[i - mIdxColCursor]
        /\ Len(t) = 0 => Splice(edit, mIdxColCursor, t) = edit
    BY ONLY <2>2, SpliceParts
  <2> HIDE DEF text
  <2> QED
    BY ONLY <2>1, <2>3
<1> HIDE DEF text
<1>6. /\ Line = edit /\ Line' = text /\ mIdxColCursor' = mIdxColCursor + Len(t)
      /\ Hist' = Hist /\ Ran' = <<>> /\ At' = At
  BY <1>3, SetLineMaps
<1>7. CASE Len(t) = 0
  <2>1. mIdxColCursor' = mIdxColCursor /\ Line' = Line
    BY <1>1, <1>5, <1>6, <1>7
  <2> QED
    BY <1>6, <2>1, Mapped
<1>8. CASE Len(t) # 0
  <2>1. /\ Len(Line') - Len(Line) = Len(t) /\ Len(t) > 0 /\ Len(Line') <= IdxColMax
    <3>1. \A a, b, c, d \in Nat : a = b + c /\ c \in 0 .. d - b => a - b = c /\ a <= d
      OBVIOUS
    <3>2. Len(text) - Len(edit) = Len(t) /\ Len(text) <= IdxColMax
      BY <1>1, <1>2, <1>4, <3>1, Sizes
    <3>3. Len(t) > 0
      BY <1>1, <1>2, <1>8, Sizes
    <3> QED
      BY <1>6, <3>2, <3>3
  <2>2. \A i \in mIdxColCursor + 1 .. mIdxColCursor + Len(t) : text[i] \in Typed
    <3>1. \A i \in mIdxColCursor + 1 .. mIdxColCursor + Len(t) : i - mIdxColCursor \in 1 .. Len(t)
      BY <1>1, <1>2
    <3>2. \A i \in 1 .. Len(t) : t[i] \in Typed
      BY <1>2
    <3> QED
      BY <1>5, <3>1, <3>2
  <2>3. /\ SubSeq(Line', 1, mIdxColCursor) = SubSeq(Line, 1, mIdxColCursor)
        /\ SubSeq(Line', mIdxColCursor' + 1, Len(Line')) = SubSeq(Line, mIdxColCursor + 1, Len(Line))
        /\ \A i \in mIdxColCursor + 1 .. mIdxColCursor' : Line'[i] \in {b \in Byte : IsInsert(b)}
    BY <1>5, <1>6, <2>2 DEF Typed
  <2>4. mIdxColCursor' = mIdxColCursor + (Len(Line') - Len(Line))
    BY <1>6, <2>1
  <2> QED
    BY <1>6, <2>1, <2>3, <2>4, MappedEdits
<1> QED
  BY <1>7, <1>8

\* The rest of a line behind one more character
LEMMA TailOfRest ==
  ASSUME NEW S, NEW q \in Seq(S), NEW c \in 0 .. Len(q) - 1
  PROVE  Tail(SubSeq(q, c + 1, Len(q))) = SubSeq(q, c + 2, Len(q))
  OBVIOUS

\* A character beside the cursor goes.
LEMMA RemoveMaps ==
  ASSUME LineInv, LineInv', ~ mModeAuto, UNCHANGED mModeAuto, ran' = Nothing, NEW key, ChRemove(key)
  PROVE  Editing!Remove
<1>1. PICK i \in RemoveTarget(key) :
        SetLine(SubSeq(edit, 1, i - 1) \o SubSeq(edit, i + 1, Len(edit)), i - 1)
  BY DEF ChRemove
<1>2. UNCHANGED <<mIdxLineEdit, mIdxLineView>>
  BY DEF ChRemove
<1>3. PICK text : text = SubSeq(edit, 1, i - 1) \o SubSeq(edit, i + 1, Len(edit))
  OBVIOUS
<1>4. /\ Line = edit /\ Line' = text /\ mIdxColCursor' = i - 1 /\ Hist' = Hist /\ Ran' = <<>> /\ At' = At
      /\ mIdxColCursor \in 0 .. Len(Line) /\ Line \in Seq(Int)
  BY <1>1, <1>2, <1>3, SetLineMaps
<1>5. i \in 1 .. Len(Line) /\ (i = mIdxColCursor \/ i = mIdxColCursor + 1)
  BY <1>1, <1>4 DEF RemoveTarget
<1>6. CASE i = mIdxColCursor
  <2>1. mIdxColCursor > 0 /\ mIdxColCursor' = mIdxColCursor - 1
    BY <1>4, <1>5, <1>6
  <2>2. Line' = SubSeq(Line, 1, mIdxColCursor - 1) \o SubSeq(Line, mIdxColCursor + 1, Len(Line))
    BY <1>3, <1>4, <1>6
  <2> QED
    BY <1>4, <2>1, <2>2, MappedEdits
<1>7. CASE i = mIdxColCursor + 1
  <2>1. /\ mIdxColCursor < Len(Line) /\ mIdxColCursor' = mIdxColCursor
        /\ i - 1 = mIdxColCursor /\ i + 1 = mIdxColCursor + 2 /\ mIdxColCursor \in 0 .. Len(Line) - 1
    BY <1>4, <1>5, <1>7
  <2>2. Tail(SubSeq(Line, mIdxColCursor + 1, Len(Line))) = SubSeq(Line, mIdxColCursor + 2, Len(Line))
    BY <1>4, <2>1, TailOfRest
  <2>3. Line' = SubSeq(Line, 1, mIdxColCursor) \o Tail(SubSeq(Line, mIdxColCursor + 1, Len(Line)))
    BY <1>3, <1>4, <2>1, <2>2
  <2> QED
    BY <1>4, <2>1, <2>3, MappedEdits
<1> QED
  BY <1>5, <1>6, <1>7

\* The cursor moves on the line.
LEMMA MoveMaps ==
  ASSUME LineInv, LineInv', ~ mModeAuto, UNCHANGED mModeAuto, ran' = Nothing, NEW key, CursorMove(key)
  PROVE  Editing!Move
<1>1. /\ UNCHANGED <<mCmdInBuf, mIdxLineEdit, mIdxLineView>> /\ mIdxColCursor' \in 0 .. mIdxColLineEnd
  BY DEF CursorMove, CursorTarget
<1>2. Hist' = Hist
  BY <1>1, HistStays
<1>3. Line' = Line /\ At' = At /\ Ran' = <<>> /\ Len(Line) = mIdxColLineEnd
  BY <1>1 DEF Line, At, Ran, Nothing, edit, Before, LineInv, LineKept
<1> QED
  BY <1>1, <1>2, <1>3, Mapped

\* Up and down are one step through the history, and do not leave it.
LEMMA NavigateMaps ==
  ASSUME LineInv, LineInv', ~ mModeAuto, UNCHANGED mModeAuto, ran' = Nothing, NEW key, HistoryNavigate(key)
  PROVE  Editing!Recall
<1>1. PICK e \in Rows : e = mIdxLineEdit
  BY DEF LineInv, LineTyped
<1>2. PICK v \in Rows : v = mIdxLineView
  BY DEF LineInv, LineTyped
<1>3. PICK r \in Rows :
        /\ mIdxLineView' = r /\ mCmdInBuf[r] # <<>> /\ UNCHANGED mIdxLineEdit
        /\ \/ v # e /\ r = (v + 1) % NumCmdInBuffer
           \/ r = Before(v, 1) /\ r # e
  BY <1>1, <1>2 DEF HistoryNavigate, HistoryRow, Before
<1>4. PICK text : text = IF r # e THEN mCmdInBuf[r] ELSE <<>>
  OBVIOUS
<1>5. SetLine(text, Len(text))
  BY <1>1, <1>3, <1>4 DEF HistoryNavigate
<1>6. /\ Line = edit /\ Line' = text /\ mIdxColCursor' = Len(text) /\ Hist' = Hist /\ Ran' = <<>>
  BY <1>3, <1>5, SetLineMaps
<1>7. At = Before(e, v) /\ At' = Before(e, r)
  BY <1>1, <1>2, <1>3 DEF At, Before
<1>8. At' \in {At - 1, At + 1}
  <2>1. CASE v # e /\ r = (v + 1) % NumCmdInBuffer
    BY <1>7, <2>1, RingDistance
  <2>2. CASE r = Before(v, 1) /\ r # e
    <3>1. Before(e, v) # NumCmdInBuffer - 1
      BY <2>2, RingDistance
    <3> QED
      BY <1>7, <2>2, <3>1, RingDistance
  <2> QED
    BY <1>3, <2>1, <2>2
<1>9. HistKnown
  BY HistNow DEF LineInv
<1>10. PICK k \in 0 .. NumCmdInBuffer - 1 : k = At' /\ Before(e, k) = r /\ (k = 0 <=> r = e)
  BY <1>7, RingDistance
<1>11. CASE r = e
  BY <1>6, <1>8, <1>9, <1>10, <1>4, <1>11, Mapped DEF HistKnown
<1>12. CASE r # e
  <2>1. k \in 1 .. NumCmdInBuffer - 1
    BY <1>10, <1>12, Sizes
  <2>2. k <= HistLen /\ Len(Hist) = HistLen /\ HistLen \in 0 .. NumCmdInBuffer - 1
    BY <1>1, <1>3, <1>9, <1>10, <2>1 DEF HistKnown
  <2>3. k \in 1 .. HistLen /\ At' \in 0 .. Len(Hist) /\ At' # 0
    BY <1>10, <2>1, <2>2, Sizes
  <2>4. Hist[At'] = mCmdInBuf[r]
    BY <1>1, <1>9, <1>10, <2>3 DEF HistKnown
  <2> QED
    BY <1>4, <1>6, <1>8, <1>12, <2>3, <2>4, Mapped
<1> QED
  BY <1>11, <1>12

\* Is the line the one that was remembered last?
LEMMA Repeated ==
  ASSUME LineInv
  PROVE  IsRepetition <=> Hist # <<>> /\ Head(Hist) = edit
<1>1. HistKnown
  BY HistNow DEF LineInv
<1>2. 1 \in 1 .. NumCmdInBuffer - 1 /\ Before(mIdxLineEdit, 1) \in Rows /\ Before(mIdxLineEdit, 1) # mIdxLineEdit
  BY Sizes, RingBefore DEF LineInv, LineTyped
<1>3. HistLen \in Nat /\ Hist \in Seq(Seq(Int)) /\ Len(Hist) = HistLen
  BY <1>1 DEF HistKnown
<1>4. CASE mIdxLineLast = -1
  <2>1. mCmdInBuf[Before(mIdxLineEdit, 1)] = <<>>
    BY <1>2, <1>4 DEF LineInv, Ring
  <2>2. ~ (1 <= HistLen)
    BY <1>1, <1>2, <2>1 DEF HistKnown
  <2>3. Hist = <<>>
    BY <1>3, <2>2
  <2>4. ~ IsRepetition
    BY <1>4 DEF IsRepetition
  <2> QED
    BY <2>3, <2>4
<1>5. CASE mIdxLineLast # -1
  <2>1. mIdxLineLast = Before(mIdxLineEdit, 1) /\ mCmdInBuf[mIdxLineLast] # <<>>
    BY <1>5 DEF LineInv, Ring
  <2>2. 1 <= HistLen
    BY <1>1, <1>2, <2>1 DEF HistKnown
  <2>3. 1 \in 1 .. HistLen
    BY <1>3, <2>2
  <2>4. Hist[1] = mCmdInBuf[mIdxLineLast]
    BY <1>1, <2>1, <2>3 DEF HistKnown
  <2>5. Hist # <<>> /\ Head(Hist) = Hist[1]
    BY <1>3, <2>2
  <2>6. mIdxLineLast >= 0
    BY <1>2, <2>1 DEF Rows
  <2> QED
    BY <2>4, <2>5, <2>6 DEF IsRepetition
<1> QED
  BY <1>4, <1>5

\* A line is put before the others, and the oldest one may have to go.
LEMMA Remembered ==
  ASSUME NEW S, NEW h \in Seq(S), NEW x \in S, NEW m \in Nat, m >= 1, Len(h) <= m,
         NEW g \in Seq(S), Len(g) = (IF Len(h) < m THEN Len(h) + 1 ELSE m),
         g[1] = x, \A k \in 2 .. Len(g) : g[k] = h[k - 1]
  PROVE  g = SubSeq(<<x>> \o h, 1, IF Len(h) < m THEN Len(h) + 1 ELSE m)
<1>1. PICK n \in Nat : n = Len(g) /\ n >= 1 /\ n <= Len(h) + 1
  OBVIOUS
<1>2. PICK d \in Seq(S) : d = <<x>> \o h /\ Len(d) = Len(h) + 1 /\ d[1] = x
                          /\ \A k \in 2 .. Len(h) + 1 : d[k] = h[k - 1]
  <2>1. PICK u \in Seq(S) : u = <<x>> /\ Len(u) = 1 /\ u[1] = x
    <3>1. <<x>> \in Seq(S) /\ Len(<<x>>) = 1 /\ <<x>>[1] = x
      BY ONLY x \in S
    <3> QED
      BY ONLY <3>1
  <2>2. /\ u \o h \in Seq(S) /\ Len(u \o h) = Len(u) + Len(h)
        /\ \A k \in 1 .. Len(u) : (u \o h)[k] = u[k]
        /\ \A k \in Len(u) + 1 .. Len(u) + Len(h) : (u \o h)[k] = h[k - Len(u)]
    OBVIOUS
  <2>3. PICK l \in Nat : l = Len(h)
    OBVIOUS
  <2>4. PICK d : d = u \o h
    OBVIOUS
  <2>5. /\ d \in Seq(S) /\ Len(d) = l + 1 /\ d[1] = u[1]
        /\ \A k \in 1 + 1 .. 1 + l : d[k] = h[k - 1]
    BY ONLY <2>1, <2>2, <2>3, <2>4
  <2>6. \A k \in 2 .. l + 1 : k \in 1 + 1 .. 1 + l
    OBVIOUS
  <2> QED
    BY <2>1, <2>3, <2>4, <2>5, <2>6
<1>3. \A k \in 2 .. n : k \in 2 .. Len(h) + 1
  BY <1>1
<1>4. \A k \in 1 .. n : d[k] = g[k]
  <2>1. \A k \in 2 .. n : d[k] = g[k]
    BY <1>1, <1>2, <1>3
  <2>2. \A k \in 1 .. n : k = 1 \/ k \in 2 .. n
    OBVIOUS
  <2> QED
    BY <1>2, <2>1, <2>2
<1>5. n \in 0 .. Len(d)
  BY <1>1, <1>2
<1>6. SubSeq(d, 1, n) \in Seq(S) /\ Len(SubSeq(d, 1, n)) = n /\ \A k \in 1 .. n : SubSeq(d, 1, n)[k] = d[k]
  BY ONLY <1>5, d \in Seq(S), n \in Nat
<1>7. SubSeq(d, 1, n) = g
  BY ONLY <1>1, <1>4, <1>6, g \in Seq(S)
<1> QED
  BY <1>1, <1>2, <1>7

\* The rows of the history when the line has become one of them.
LEMMA AckShifts ==
  ASSUME LineInv, ~ mModeAuto, UNCHANGED mModeAuto, LineAck, IsNew
  PROVE  \A k \in 1 .. NumCmdInBuffer - 1 :
           mCmdInBuf'[Before(mIdxLineEdit', k)] = mCmdInBuf[Before(mIdxLineEdit, k - 1)]
<1>1. PICK e \in Rows : e = mIdxLineEdit
  BY DEF LineInv, LineTyped
<1>2. PICK next : next = (e + 1) % NumCmdInBuffer
  OBVIOUS
<1>3. next \in Rows /\ \A k \in 1 .. NumCmdInBuffer : Before(next, k) = Before(e, k - 1)
  BY <1>2, RingNext
<1>4. mIdxLineEdit' = next /\ mCmdInBuf' = [mCmdInBuf EXCEPT ![next] = <<>>] /\ mCmdInBuf \in [Rows -> Seq(Int)]
  BY <1>1, <1>2, AckSteps DEF LineInv, LineTyped
<1> TAKE k \in 1 .. NumCmdInBuffer - 1
<1>5. Before(next, k) \in Rows /\ Before(next, k) # next /\ Before(next, k) = Before(e, k - 1)
  BY <1>3, RingBefore, Sizes
<1>6. mCmdInBuf'[Before(next, k)] = mCmdInBuf[Before(next, k)]
  BY ONLY <1>4, <1>5
<1> QED
  BY <1>1, <1>4, <1>5, <1>6

\* The line is executed, and is the latest of the history unless it is there already.
LEMMA AckMaps ==
  ASSUME LineInv, ~ mModeAuto, UNCHANGED mModeAuto, LineAck
  PROVE  Editing!Acknowledge
<1>1. LineInv' /\ edit' = <<>>
  BY AckKeeps
<1>2. HistKnown /\ HistKnown'
  BY <1>1, HistNow, HistNext DEF LineInv
<1>3. /\ Line = edit /\ Line' = <<>> /\ Ran' = edit /\ mIdxColCursor' = 0 /\ edit \in Seq(Int)
  BY <1>1, AckSteps DEF Line, Ran, LineInv, LineTyped, edit
<1>4. At' = 0
  <2>1. mIdxLineEdit' \in Rows /\ mIdxLineView' = mIdxLineEdit'
    BY <1>1, AckSteps DEF LineInv, LineTyped
  <2> QED
    BY <2>1, RingDistance DEF At, Before
<1>5. (Line = <<>> \/ (Hist # <<>> /\ Head(Hist) = Line)) <=> ~ IsNew
  BY <1>3, Repeated DEF IsNew
<1>6. Hist' = IF ~ IsNew THEN Hist
              ELSE SubSeq(<<Line>> \o Hist, 1,
                          IF Len(Hist) < NumCmdInBuffer - 1 THEN Len(Hist) + 1 ELSE NumCmdInBuffer - 1)
  <2>1. CASE ~ IsNew
    <3>1. /\ UNCHANGED mIdxLineEdit
          /\ \A r \in Rows \ {mIdxLineEdit} : mCmdInBuf'[r] = mCmdInBuf[r]
      BY <2>1, AckSteps DEF LineInv, LineTyped
    <3> QED
      BY <1>1, <2>1, <3>1, HistStays
  <2>2. CASE IsNew
    <3>1. PICK m \in Nat : m = NumCmdInBuffer - 1 /\ m >= 1
      BY Sizes
    <3>2. PICK a \in 0 .. m : a = HistLen'
      BY <1>2, <3>1 DEF HistKnown
    <3>3. PICK b \in 0 .. m : b = HistLen
      BY <1>2, <3>1 DEF HistKnown
    <3>4. /\ \A k \in 1 .. m : mCmdInBuf'[Before(mIdxLineEdit', k)] # <<>> <=> k <= a
          /\ \A k \in 1 .. a : Hist'[k] = mCmdInBuf'[Before(mIdxLineEdit', k)]
          /\ Hist' \in Seq(Seq(Int)) /\ Len(Hist') = a
      BY <1>2, <3>1, <3>2 DEF HistKnown
    <3>5. /\ \A k \in 1 .. m : mCmdInBuf[Before(mIdxLineEdit, k)] # <<>> <=> k <= b
          /\ \A k \in 1 .. b : Hist[k] = mCmdInBuf[Before(mIdxLineEdit, k)]
          /\ Hist \in Seq(Seq(Int)) /\ Len(Hist) = b
      BY <1>2, <3>1, <3>3 DEF HistKnown
    <3>6. \A k \in 1 .. m : mCmdInBuf'[Before(mIdxLineEdit', k)] = mCmdInBuf[Before(mIdxLineEdit, k - 1)]
      BY <2>2, <3>1, AckShifts
    <3>7. mCmdInBuf[Before(mIdxLineEdit, 0)] = edit /\ edit # <<>>
      BY <2>2, RingBefore DEF IsNew, edit, LineInv, LineTyped
    <3>8. \A k \in 1 .. m : k <= a <=> (k = 1 \/ k - 1 <= b)
      <4> TAKE k \in 1 .. m
      <4>1. CASE k = 1
        BY <3>4, <3>6, <3>7, <4>1
      <4>2. CASE k # 1
        <5>1. k - 1 \in 1 .. m
          BY <4>2
        <5> QED
          BY <3>4, <3>5, <3>6, <4>2, <5>1
      <4> QED
        BY <4>1, <4>2
    <3>9. a = IF b < m THEN b + 1 ELSE m
      <4>1. CASE b < m
        <5>1. b + 1 \in 1 .. m /\ (b + 1) - 1 <= b
          BY <3>1, <4>1
        <5>2. b + 1 <= a
          BY <3>8, <5>1
        <5>3. ~ (b + 2 <= a)
          <6> SUFFICES ASSUME b + 2 <= a PROVE FALSE
            OBVIOUS
          <6>1. b + 2 \in 1 .. m /\ b + 2 # 1 /\ ~ ((b + 2) - 1 <= b)
            OBVIOUS
          <6> QED
            BY <3>8, <6>1
        <5> QED
          BY <4>1, <5>2, <5>3
      <4>2. CASE ~ (b < m)
        <5>1. m \in 1 .. m /\ m - 1 <= b
          BY <3>1, <4>2
        <5>2. m <= a
          BY <3>8, <5>1
        <5> QED
          BY <4>2, <5>2
      <4> QED
        BY <4>1, <4>2
    <3>10. a >= 1
      BY <3>1, <3>9
    <3>11. Hist'[1] = edit
      <4>1. 1 \in 1 .. a /\ 1 \in 1 .. m /\ 1 - 1 = 0
        BY <3>1, <3>10
      <4> QED
        BY <3>4, <3>6, <3>7, <4>1
    <3>12. \A k \in 2 .. a : Hist'[k] = Hist[k - 1]
      <4> TAKE k \in 2 .. a
      <4>1. k \in 1 .. a /\ k \in 1 .. m /\ k - 1 \in 1 .. b
        BY <3>9
      <4> QED
        BY <3>4, <3>5, <3>6, <4>1
    <3>13. PICK h \in Seq(Seq(Int)) : h = Hist /\ Len(h) = b
      BY <3>5
    <3>14. PICK g \in Seq(Seq(Int)) : g = Hist' /\ Len(g) = a
      BY <3>4
    <3>15. Len(h) <= m /\ Len(g) = (IF Len(h) < m THEN Len(h) + 1 ELSE m)
      BY <3>9, <3>13, <3>14
    <3>16. g[1] = edit /\ \A k \in 2 .. Len(g) : g[k] = h[k - 1]
      BY <3>11, <3>12, <3>13, <3>14
    <3>17. g = SubSeq(<<edit>> \o h, 1, IF Len(h) < m THEN Len(h) + 1 ELSE m)
      BY <1>3, <3>1, <3>15, <3>16, Remembered
    <3> QED
      BY <1>3, <2>2, <3>1, <3>13, <3>14, <3>17
  <2> QED
    BY <2>1, <2>2
<1> QED
  BY <1>3, <1>4, <1>5, <1>6, MappedEdits

\* No step changes the mode.
LEMMA ModeStays == ASSUME [Next]_vars PROVE UNCHANGED mModeAuto
<1>1. CASE Key
  BY <1>1 DEF Key, End, procVars
<1>2. CASE UNCHANGED vars
  BY <1>2 DEF vars, procVars
<1>3. CASE CmdReg \/ TimePasses \/ Connection \/ Cancel \/ Begin \/ Start \/ SendReadyWait \/ TelnetInit
  BY <1>3 DEF CmdReg, TimePasses, Connection, Cancel, Begin, Start, SendReadyWait, TelnetInit, End, procVars
<1>4. CASE WelcomeSend \/ Main \/ PromptSend \/ CmdAutoReceiveWait \/ Receive \/ Shutdown
  BY <1>4 DEF WelcomeSend, Main, PromptSend, CmdAutoReceiveWait, Receive, MainReceive, CmdAutoReceive,
              Shutdown, End, procVars
<1> QED
  BY <1>1, <1>2, <1>3, <1>4 DEF Next, Tick

\* In the automatic mode there is nothing to edit.
LEMMA AutoMaps == ASSUME TermInv, TermInv', mModeAuto, UNCHANGED mModeAuto PROVE Editing!Rest
<1>1. /\ mIdxLineEdit = 0 /\ mIdxLineEdit' = 0 /\ mIdxLineView = 0 /\ mIdxLineView' = 0
      /\ mIdxColCursor = 0 /\ mIdxColCursor' = 0
      /\ \A r \in Rows \ {0} : mCmdInBuf[r] = <<>> /\ mCmdInBuf'[r] = <<>>
  BY DEF TermInv, Modes
<1>2. Hist' = Hist
  BY <1>1, HistStays DEF TermInv
<1>3. Line' = Line /\ At' = At /\ Ran' = <<>>
  BY <1>1 DEF Line, At, Ran, Before
<1> QED
  BY <1>1, <1>2, <1>3, Mapped

\* A step without a key.
LEMMA OthersLeaveTheLine ==
  ASSUME Next, ~ Key, mState # "StCmdAutoReceiveWait" PROVE UNCHANGED lineVars /\ ran' = Nothing
<1>1. CASE CmdReg \/ TimePasses \/ Connection \/ Cancel \/ Begin \/ Start \/ SendReadyWait \/ TelnetInit
  BY <1>1 DEF CmdReg, TimePasses, Connection, Cancel, Begin, Start, SendReadyWait, TelnetInit, editVars
<1>2. CASE WelcomeSend \/ Main \/ MainReceive \/ PromptSend \/ Shutdown
  BY <1>2 DEF WelcomeSend, Main, MainReceive, PromptSend, Shutdown, editVars
<1>3. CASE CmdAutoReceiveWait \/ CmdAutoReceive
  BY <1>3 DEF CmdAutoReceiveWait, CmdAutoReceive, Ticking
<1> QED
  BY <1>1, <1>2, <1>3 DEF Next, Tick, Receive

\* The commands have names that can be typed.
Typeable == \A i \in DOMAIN CommandOrder : CommandOrder[i].id \in Seq(Typed)

\* Each key is a step of the editor.
LEMMA KeyMaps ==
  ASSUME Typeable, LineInv, LineInv', ProcTyped, ~ mModeAuto, UNCHANGED mModeAuto, NEW key, KeyProcess(key)
  PROVE  Editing!Next
<1> USE DEF Editing!Next
<1>1. CASE TabProcess
  <2>1. ran' = Nothing
    BY <1>1 DEF TabProcess
  <2>2. CASE UNCHANGED lineVars
    BY <2>1, <2>2, RestMaps
  <2>3. CASE Insert(Completion)
    <3>1. Space \in Typed
      BY DEF Typed, Space, Byte, IsInsert
    <3>2. Completion \in Seq(Typed)
      BY <3>1, CompletionTyped DEF Typeable
    <3> QED
      BY <2>1, <2>3, <3>2, InsertMaps
  <2> QED
    BY <1>1, <2>2, <2>3 DEF TabProcess
<1>2. CASE LineAck
  BY <1>2, AckMaps
<1>3. CASE BufferEdit(key)
  <2>1. ran' = Nothing
    BY <1>3 DEF BufferEdit
  <2>2. CASE CursorMove(key)
    BY <2>1, <2>2, MoveMaps
  <2>3. CASE HistoryNavigate(key)
    BY <2>1, <2>3, NavigateMaps
  <2>4. CASE ChRemove(key)
    BY <2>1, <2>4, RemoveMaps
  <2>5. CASE IsInsertable(key) /\ Insert(<<key>>)
    <3>1. key \in Typed
      BY <2>5 DEF IsInsertable, IsInsert, IsAlphaNum, Typed, Byte, Space
    <3>2. <<key>> \in Seq(Typed)
      BY ONLY <3>1
    <3> QED
      BY <2>1, <2>5, <3>2, InsertMaps
  <2>6. CASE UNCHANGED lineVars
    BY <2>1, <2>6, RestMaps
  <2> QED
    BY <1>3, <2>2, <2>3, <2>4, <2>5, <2>6 DEF BufferEdit
<1> QED
  BY <1>1, <1>2, <1>3 DEF KeyProcess

\* Each step of the terminal is a step of the editor, or none.
LEMMA StepMaps ==
  ASSUME Typeable, TermInv, TermInv', [Next]_vars
  PROVE  [Editing!Next]_(Editing!vars)
<1>0. UNCHANGED mModeAuto
  BY ModeStays
<1>1. CASE mModeAuto
  BY <1>0, <1>1, AutoMaps DEF Editing!Next
<1>2. CASE ~ mModeAuto /\ UNCHANGED vars
  <2>1. UNCHANGED <<lineVars, mModeAuto, ran>>
    BY <1>2 DEF vars, procVars
  <2>2. UNCHANGED <<mCmdInBuf, mIdxLineEdit, mIdxLineView, mIdxColCursor, mModeAuto, ran>>
    BY <2>1 DEF lineVars
  <2>3. Hist' = Hist
    BY <2>2, HistStays DEF TermInv
  <2>4. Line' = Line /\ At' = At /\ Ran' = Ran
    BY <2>2 DEF Line, At, Ran, edit, Before
  <2> QED
    BY <2>2, <2>3, <2>4 DEF Editing!vars, Hist, Line, At, Ran, Before
<1>3. CASE ~ mModeAuto /\ Next /\ ~ Key
  <2>1. UNCHANGED lineVars /\ ran' = Nothing
    BY <1>3, OthersLeaveTheLine DEF TermInv, Modes
  <2> QED
    BY <1>0, <1>3, <2>1, RestMaps DEF Editing!Next, TermInv
<1>4. CASE ~ mModeAuto /\ Key
  <2>1. CASE UNCHANGED lineVars /\ ran' = Nothing
    BY <1>0, <1>4, <2>1, RestMaps DEF Editing!Next, TermInv
  <2>2. CASE \E key : KeyProcess(key)
    BY <1>0, <1>4, <2>2, KeyMaps DEF TermInv
  <2> QED
    BY <1>4, <2>1, <2>2 DEF Key
<1> QED
  BY <1>1, <1>2, <1>3, <1>4

\* The terminal starts with an empty editor.
LEMMA InitMaps == ASSUME Init PROVE Editing!Init
<1>1. TermInv
  BY InitTerm
<1>2. HistKnown
  BY <1>1, HistNow DEF TermInv, LineInv
<1>3. mIdxLineEdit = 0 /\ mIdxLineView = 0 /\ mIdxColCursor = 0 /\ 0 \in Rows /\ \A r \in Rows : mCmdInBuf[r] = <<>>
  BY Sizes DEF Init, Rows
<1>4. Hist = <<>>
  <2>1. 1 \in 1 .. NumCmdInBuffer - 1 /\ Before(mIdxLineEdit, 1) \in Rows
    BY <1>3, RingBefore, Sizes
  <2>2. ~ (1 <= HistLen) /\ HistLen \in 0 .. NumCmdInBuffer - 1
    BY <1>2, <1>3, <2>1 DEF HistKnown
  <2>3. HistLen = 0
    BY <2>2, Sizes
  <2>4. Hist \in Seq(Seq(Int)) /\ Len(Hist) = 0
    BY <1>2, <2>3 DEF HistKnown
  <2> QED
    BY <2>4
<1>5. Line = <<>> /\ Ran = <<>>
  BY <1>3 DEF Init, Line, Ran, edit, Nothing
<1>6. At = 0
  BY <1>3, RingDistance DEF At
<1> QED
  BY <1>3, <1>4, <1>5, <1>6, Mapped

\* Rows, indices and copies are an editor of one line with the latest lines behind it, for any
\* number and length of the rows, whatever is typed and whatever commands with names that can be
\* typed are completed: the line that is executed is the one the user sees, and the history
\* has the acknowledged lines in their order: SystemCommanding.cpp, dataReceive() to chInsert().
THEOREM TerminalEdits == ASSUME Typeable PROVE Spec => Edits
<1>1. Init => Editing!Init
  BY InitMaps
<1>2. TermInv /\ TermInv' /\ [Next]_vars => [Editing!Next]_(Editing!vars)
  BY StepMaps
<1> QED
  BY <1>1, <1>2, TermInvariance, PTL DEF Spec, Edits, Editing!Spec
=============================================================================
