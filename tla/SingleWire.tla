------------------------------ MODULE SingleWire ------------------------------
(***************************************************************************)
(* The debug link of a microcontroller (targets/stm32): a transfer process *)
(* and the debug process above it share buffers and flags, which interrupt *)
(* callbacks change, too. One loop ticks first the transfer, then the      *)
(* debug process. The scheduler at the other end of the wire, which is not *)
(* part of the repository, polls for contents and sends commands, one at a *)
(* time. The bytes of a command may be lost on their way.                  *)
(***************************************************************************)
EXTENDS Integers, FiniteSets

CONSTANTS
  MaxCmd,       \* how many commands the scheduler sends
  NumLogs,      \* how many log entries there are
  SizeBufIn,    \* the size of mBufInCmd, in parts of a command's text
  CntDelayMin,  \* cCntDelayMin
  EndsAtStart,  \* how many end bytes mBufInCmd, which is not initialised, may hold
  SchedWaits    \* the scheduler sends a command only when it has done with the last one

ASSUME SingleWireAssumption ==
  /\ {MaxCmd, NumLogs, SizeBufIn, CntDelayMin, EndsAtStart} \subseteq Nat /\ SizeBufIn > 1
  /\ SchedWaits \in BOOLEAN

VARIABLES
  mState, mSyncedTransfer, mValidIdTx, mpDataTx, tx,   \* the transfer process; what is being sent
  mBufId, mStateRcv, mIdxBufDataWrite,                 \* the receiver
  inCmd, ends,                                         \* mBufInCmd: the command, the end bytes that are left
  stale,                                               \* the end bytes that were there before the first command
  mValidBuf, mModeDebug,
  dbgState, mStateCmd, mCntDelay, outCmd, outLog, logOvf,   \* the debug process; what its buffers hold
  turn, pc,                                            \* who ticks next; where the loop waits for mBufTxPending
  logged,                                              \* the last entry that was taken
  sends, asked, text, expects,                         \* external: the scheduler's next byte, command, wait for a content
  accepted, refused, answers                           \* commands received, dropped, and the answers to each

txVars == <<mState, mSyncedTransfer, mValidIdTx, mpDataTx, tx>>
rcvVars == <<mBufId, mStateRcv, mIdxBufDataWrite, inCmd, ends>>
dbgVars == <<dbgState, mStateCmd, mCntDelay, outCmd, mModeDebug, refused, stale>>
logVars == <<outLog, logOvf, logged>>
schedVars == <<sends, asked, text, expects, accepted, answers>>
vars == <<txVars, rcvVars, dbgVars, logVars, schedVars, mValidBuf, turn, pc>>

NoTx == [content |-> "no", n |-> 0]
Commands == 1 .. MaxCmd

---------------------------------------------------------------------------
(* The receiver, called by an interrupt.                                   *)

\* A byte of a command's text or any other one in its place.
Store(b) ==
  /\ mIdxBufDataWrite' = mIdxBufDataWrite + 1
  /\ inCmd' = [inCmd EXCEPT !.text = IF b = "text" /\ mIdxBufDataWrite = 0 THEN text ELSE "unknown"]
  /\ mStateRcv' = IF mIdxBufDataWrite + 1 < SizeBufIn THEN "StRcvContentData" ELSE "StRcvStart"
  /\ UNCHANGED <<mBufId, ends, accepted>>

ByteProcess(b) ==
  \/ /\ mStateRcv = "StRcvStart"
     /\ mBufId' = IF b = "token" THEN [mBufId EXCEPT !.token = TRUE] ELSE mBufId
     /\ mStateRcv' = IF b = "start" THEN "StRcvContentId" ELSE mStateRcv
     /\ UNCHANGED <<mIdxBufDataWrite, inCmd, ends, accepted>>
  \/ /\ mStateRcv = "StRcvContentId"
     /\ IF b # "id" \/ mBufId.cmd
        THEN mStateRcv' = "StRcvStart" /\ UNCHANGED mIdxBufDataWrite
        ELSE mStateRcv' = "StRcvContentData" /\ mIdxBufDataWrite' = 0
     /\ UNCHANGED <<mBufId, inCmd, ends, accepted>>
  \/ /\ mStateRcv = "StRcvContentData" /\ b # "end"
     /\ Store(b)
  \/ /\ mStateRcv = "StRcvContentData" /\ b = "end"
     /\ mBufId' = [mBufId EXCEPT !.cmd = TRUE]
     /\ inCmd' = [n |-> asked, text |-> IF mIdxBufDataWrite = 0 THEN "" ELSE inCmd.text]
     /\ \E behind \in 0 .. ends : ends' = behind + 1
     /\ mStateRcv' = "StRcvStart"
     /\ accepted' = accepted \cup {asked}
     /\ UNCHANGED mIdxBufDataWrite

---------------------------------------------------------------------------
(* The transfer process.                                                   *)

\* contentOutSend() of what mpDataTx' points to.
Send(content, n) == tx' = [content |-> content, n |-> n]

NumberOf(content) == CASE content = "Cmd" -> outCmd [] content = "Log" -> outLog [] OTHER -> 0

SwtStart ==
  /\ mState = "StStart" /\ mState' = "StFlowControlRcvdWait"
  /\ UNCHANGED <<mValidIdTx, mpDataTx, tx, mBufId, inCmd, ends, mValidBuf, pc>>

FlowControlRcvdWait ==
  /\ mState = "StFlowControlRcvdWait"
  /\ \/ mBufId.cmd /\ mState' = "StCmdReceive" /\ UNCHANGED mBufId
     \/ /\ ~ mBufId.cmd /\ mModeDebug /\ mBufId.token
        /\ mBufId' = [mBufId EXCEPT !.token = FALSE]
        /\ mState' = "StContentOutSend"
     \/ ~ mBufId.cmd /\ ~ (mModeDebug /\ mBufId.token) /\ UNCHANGED <<mState, mBufId>>
  /\ UNCHANGED <<mValidIdTx, mpDataTx, tx, inCmd, ends, mValidBuf, pc>>

\* The answer first, then the log and the process tree if no command is pending.
Chosen ==
  IF "OutCmd" \in mValidBuf THEN "Cmd"
  ELSE IF "InCmd" \in mValidBuf THEN "None"
  ELSE IF "OutLog" \in mValidBuf THEN "Log"
  ELSE IF "OutProc" \in mValidBuf THEN "Proc" ELSE "None"

Flag == [Cmd |-> "OutCmd", Log |-> "OutLog", Proc |-> "OutProc"]

ContentOutSend ==
  /\ mState = "StContentOutSend"
  /\ Send(Chosen, NumberOf(Chosen))
  /\ mpDataTx' = IF Chosen = "None" THEN mpDataTx ELSE Chosen
  /\ mValidIdTx' = IF Chosen = "None" THEN mValidIdTx ELSE Flag[Chosen]
  /\ IF mSyncedTransfer THEN pc' = "swt" /\ UNCHANGED mState
     ELSE mState' = "StContentOutSentWait" /\ UNCHANGED pc
  /\ UNCHANGED <<mBufId, inCmd, ends, mValidBuf>>

\* A mutant of ContentOutSentWait: it does not look at mBufTxPending.
ContentOutSentWaitNot ==
  /\ mState = "StContentOutSentWait"
  /\ mState' = "StContentOutSent"
  /\ UNCHANGED <<mValidIdTx, mpDataTx, tx, mBufId, inCmd, ends, mValidBuf, pc>>

ContentOutSentWait ==
  /\ mState = "StContentOutSentWait"
  /\ mState' = IF tx = NoTx THEN "StContentOutSent" ELSE mState
  /\ UNCHANGED <<mValidIdTx, mpDataTx, tx, mBufId, inCmd, ends, mValidBuf, pc>>

\* A mutant of ContentOutSent: the flag stays.
ContentOutSentKeeps ==
  /\ mState = "StContentOutSent" /\ mState' = "StFlowControlRcvdWait"
  /\ mBufId' = IF mValidIdTx = "OutCmd" THEN [mBufId EXCEPT !.cmd = FALSE] ELSE mBufId
  /\ UNCHANGED <<mValidIdTx, mpDataTx, tx, inCmd, ends, mValidBuf, pc>>

ContentOutSent ==
  /\ mState = "StContentOutSent" /\ mState' = "StFlowControlRcvdWait"
  /\ mValidBuf' = mValidBuf \ {mValidIdTx}
  /\ mBufId' = IF mValidIdTx = "OutCmd" THEN [mBufId EXCEPT !.cmd = FALSE] ELSE mBufId
  /\ UNCHANGED <<mValidIdTx, mpDataTx, tx, inCmd, ends, pc>>

\* A mutant of CmdReceive: it does not let go of what it has received before.
CmdReceiveHolds ==
  /\ mState = "StCmdReceive" /\ mState' = "StFlowControlRcvdWait"
  /\ ends' = IF ends > 0 THEN ends - 1 ELSE ends
  /\ mValidBuf' = IF ends > 0 THEN mValidBuf \cup {"InCmd"} ELSE mValidBuf
  /\ UNCHANGED <<mValidIdTx, mpDataTx, tx, inCmd, mBufId, pc>>

\* dataInTerminate() finds an end byte, or mBufId is let go of.
CmdReceive ==
  /\ mState = "StCmdReceive" /\ mState' = "StFlowControlRcvdWait"
  /\ \/ /\ ends > 0 /\ ends' = ends - 1
        /\ mValidBuf' = mValidBuf \cup {"InCmd"}
        /\ UNCHANGED mBufId
     \/ /\ ends = 0
        /\ mBufId' = [mBufId EXCEPT !.cmd = FALSE]
        /\ UNCHANGED <<ends, mValidBuf>>
  /\ UNCHANGED <<mValidIdTx, mpDataTx, tx, inCmd, pc>>

SwtTick ==
  /\ turn = "swt" /\ pc = "loop" /\ dbgState # "StStart"
  /\ \/ SwtStart \/ FlowControlRcvdWait \/ ContentOutSend \/ ContentOutSentWait \/ ContentOutSent \/ CmdReceive
  /\ turn' = "dbg"
  /\ UNCHANGED <<mSyncedTransfer, mStateRcv, mIdxBufDataWrite, dbgVars, logVars, schedVars>>

\* The loops that wait for mBufTxPending.
SwtWaited ==
  /\ pc = "swt" /\ tx = NoTx
  /\ pc' = "loop" /\ mState' = "StContentOutSent"
  /\ UNCHANGED <<mSyncedTransfer, mValidIdTx, mpDataTx, tx, rcvVars, dbgVars, logVars, schedVars, mValidBuf, turn>>

UnsolicitedSent ==
  /\ pc = "unsolicited" /\ tx = NoTx
  /\ pc' = "log"
  /\ mpDataTx' = "Log" /\ mValidIdTx' = "OutLog" /\ Send("Log", outLog)
  /\ UNCHANGED <<mState, mSyncedTransfer, rcvVars, dbgVars, logVars, schedVars, mValidBuf, turn>>

LogSent ==
  /\ pc = "log" /\ tx = NoTx
  /\ pc' = "loop" /\ mValidBuf' = mValidBuf \ {"OutLog"}
  /\ UNCHANGED <<txVars, rcvVars, dbgVars, logVars, schedVars, turn>>

---------------------------------------------------------------------------
(* The debug process.                                                      *)

DbgStart ==
  \/ dbgState = "StStart" /\ dbgState' = "StSendReadyWait"
  \/ dbgState = "StSendReadyWait" /\ dbgState' = IF mState = "StStart" THEN dbgState ELSE "StMain"

CmdRcvdWait ==
  /\ mStateCmd = "StCmdRcvdWait"
  /\ mStateCmd' = IF "InCmd" \in mValidBuf /\ "OutCmd" \notin mValidBuf THEN "StCmdInterpret" ELSE mStateCmd
  /\ UNCHANGED <<mModeDebug, outCmd, refused, inCmd, mValidBuf>>

CmdInterpret ==
  /\ mStateCmd = "StCmdInterpret"
  /\ \/ /\ inCmd.text = "key" \/ mModeDebug
        /\ mModeDebug' = TRUE
        /\ outCmd' = inCmd.n
        /\ mStateCmd' = "StCmdSendStart"
        /\ UNCHANGED <<refused, mValidBuf>>
     \/ /\ inCmd.text # "key" /\ ~ mModeDebug
        /\ mValidBuf' = mValidBuf \ {"InCmd"}
        /\ mStateCmd' = "StCmdRcvdWait"
        /\ refused' = refused \cup {inCmd.n}
        /\ UNCHANGED <<mModeDebug, outCmd>>
  /\ UNCHANGED inCmd

CmdSendStart ==
  /\ mStateCmd = "StCmdSendStart" /\ mStateCmd' = "StCmdRcvdWait"
  /\ inCmd' = [inCmd EXCEPT !.text = ""]
  /\ mValidBuf' = (mValidBuf \ {"InCmd"}) \cup {"OutCmd"}
  /\ UNCHANGED <<mModeDebug, outCmd, refused>>

CommandInterpret == CmdRcvdWait \/ CmdInterpret \/ CmdSendStart

DbgTick ==
  /\ turn = "dbg" /\ pc = "loop"
  /\ \/ /\ dbgState # "StMain" /\ DbgStart /\ turn' = "swt"
        /\ UNCHANGED <<mStateCmd, outCmd, mModeDebug, refused, inCmd, mValidBuf>>
     \/ /\ dbgState = "StMain" /\ CommandInterpret /\ turn' = "tree"
        /\ UNCHANGED dbgState
  /\ UNCHANGED <<txVars, mBufId, mStateRcv, mIdxBufDataWrite, ends, stale, mCntDelay, logVars, schedVars, pc>>

\* procTreeSend() ends the tick.
ProcTreeSend ==
  /\ turn = "tree" /\ turn' = "swt"
  /\ \/ ~ mModeDebug /\ UNCHANGED <<mCntDelay, mValidBuf>>
     \/ mModeDebug /\ mCntDelay < CntDelayMin /\ mCntDelay' = mCntDelay + 1 /\ UNCHANGED mValidBuf
     \/ mModeDebug /\ mCntDelay = CntDelayMin /\ "OutProc" \in mValidBuf /\ UNCHANGED <<mCntDelay, mValidBuf>>
     \/ /\ mModeDebug /\ mCntDelay = CntDelayMin /\ "OutProc" \notin mValidBuf
        /\ mCntDelay' = 0 /\ mValidBuf' = mValidBuf \cup {"OutProc"}
  /\ UNCHANGED <<txVars, rcvVars, dbgState, mStateCmd, outCmd, mModeDebug, refused, stale, logVars, schedVars, pc>>

---------------------------------------------------------------------------
(* Processes of the loop log between the ticks.                            *)

CanLog == turn \in {"swt", "dbg"} /\ pc = "loop" /\ dbgState = "StMain" /\ logged < NumLogs

EntryLogEnqueue ==
  /\ CanLog
  /\ \/ /\ "OutLog" \in mValidBuf /\ logOvf' = TRUE
        /\ UNCHANGED <<logged, outLog, mValidBuf, tx, pc>>
     \/ /\ "OutLog" \notin mValidBuf
        /\ logged' = logged + 1 /\ outLog' = logged + 1
        /\ mValidBuf' = mValidBuf \cup {"OutLog"}
        /\ IF mSyncedTransfer THEN Send("Unsolicited", 0) /\ pc' = "unsolicited" ELSE UNCHANGED <<tx, pc>>
        /\ UNCHANGED logOvf

Log ==
  /\ EntryLogEnqueue
  /\ UNCHANGED <<mState, mSyncedTransfer, mValidIdTx, mpDataTx, rcvVars, dbgVars, schedVars, turn>>

---------------------------------------------------------------------------
(* The scheduler and the wire.                                             *)

targetVars == <<mState, mSyncedTransfer, mValidIdTx, mpDataTx, dbgVars, logVars, mValidBuf, turn, pc>>

\* dataSent(), when the scheduler has all of what is sent.
DataSent ==
  /\ tx # NoTx /\ tx' = NoTx
  /\ expects' = (expects /\ tx.content = "Unsolicited")
  /\ answers' = IF tx.content = "Cmd" THEN [answers EXCEPT ![tx.n] = IF @ < 3 THEN @ + 1 ELSE @] ELSE answers
  /\ UNCHANGED <<targetVars, rcvVars, sends, asked, text, accepted>>

\* It asks for a content and waits for it, or for as long as the target has the token to itself.
Poll ==
  /\ sends = "no" /\ ~ expects /\ expects' = TRUE
  /\ ByteProcess("token")
  /\ UNCHANGED <<targetVars, tx, sends, asked, text, answers>>

PollFails ==
  /\ expects /\ expects' = FALSE
  /\ ~ mModeDebug \/ (~ mBufId.token /\ tx = NoTx /\ mState # "StContentOutSend")
  /\ UNCHANGED <<targetVars, tx, rcvVars, sends, asked, text, accepted, answers>>

\* The next command follows the answer to the last one, or a time in which the target would
\* have come to an end with it.
IsIdle == ~ mBufId.cmd /\ mStateCmd = "StCmdRcvdWait" /\ mValidBuf \cap {"InCmd", "OutCmd"} = {}

CommandBegins ==
  /\ sends = "no" /\ ~ expects /\ asked < MaxCmd
  /\ SchedWaits => IsIdle \/ \E n \in Commands : n = asked /\ answers[n] > 0
  /\ asked' = asked + 1 /\ sends' = "start" /\ text' \in {"key", "other"}
  /\ UNCHANGED <<targetVars, tx, rcvVars, expects, accepted, answers>>

\* One wire: a command takes longer than the ticks in which the transfer process sends what it was
\* polled for before, or comes to the end of an answer that the scheduler has already.
IsTicked ==
  mState \notin {"StContentOutSend", "StContentOutSentWait", "StContentOutSent"} /\ pc # "swt"

NextByte == [start |-> {"id"}, id |-> {"text"}, text |-> {"text", "end"}, end |-> {"no"}]

ByteArrives ==
  /\ sends # "no" /\ sends' \in NextByte[sends]
  /\ sends = "end" => IsTicked
  /\ ByteProcess(sends) \/ UNCHANGED <<rcvVars, accepted>>
  /\ UNCHANGED <<targetVars, tx, asked, text, expects, answers>>

Init ==
  /\ mState = "StStart" /\ mSyncedTransfer \in BOOLEAN /\ mValidIdTx = "no" /\ mpDataTx = "NULL" /\ tx = NoTx
  /\ mBufId = [token |-> FALSE, cmd |-> FALSE] /\ mStateRcv = "StRcvStart" /\ mIdxBufDataWrite = 0
  /\ inCmd = [n |-> 0, text |-> ""] /\ ends \in 0 .. EndsAtStart /\ stale = ends
  /\ mValidBuf = {} /\ mModeDebug = FALSE
  /\ dbgState = "StStart" /\ mStateCmd = "StCmdRcvdWait" /\ mCntDelay = 0 /\ outCmd = 0
  /\ outLog = 0 /\ logOvf = FALSE /\ logged = 0
  /\ turn = "dbg" /\ pc = "loop"
  /\ sends = "no" /\ asked = 0 /\ text = "other" /\ expects = FALSE
  /\ accepted = {} /\ refused = {} /\ answers = [n \in Commands |-> 0]

Loop == SwtTick \/ SwtWaited \/ UnsolicitedSent \/ LogSent \/ DbgTick \/ ProcTreeSend

Next == Loop \/ Log \/ DataSent \/ Poll \/ PollFails \/ CommandBegins \/ ByteArrives

Spec == Init /\ [][Next]_vars

\* The loop runs, what is sent arrives, and the scheduler goes on polling.
FairSpec ==
  /\ Spec /\ WF_vars(Loop) /\ WF_vars(DataSent)
  /\ SF_vars(Poll) /\ WF_vars(PollFails) /\ SF_vars(ByteArrives /\ sends' # sends)

---------------------------------------------------------------------------
(* Properties.                                                             *)

\* No other command can come before the end of one: the scheduler waits for it, and the memory
\* of mBufInCmd held at most one end byte. Each further one makes one more of the first command.
OneByOne == SchedWaits /\ stale <= 1

TypeOK ==
  /\ mState \in {"StStart", "StFlowControlRcvdWait", "StContentOutSend", "StContentOutSentWait",
                 "StContentOutSent", "StCmdReceive"}
  /\ mSyncedTransfer \in BOOLEAN /\ mValidIdTx \in {"no", "OutCmd", "OutLog", "OutProc"}
  /\ mpDataTx \in {"NULL", "Cmd", "Log", "Proc"}
  /\ tx \in [content : {"no", "None", "Cmd", "Log", "Proc", "Unsolicited"}, n : Nat]
  /\ mBufId \in [token : BOOLEAN, cmd : BOOLEAN] /\ mStateRcv \in {"StRcvStart", "StRcvContentId", "StRcvContentData"}
  /\ mIdxBufDataWrite \in 0 .. SizeBufIn /\ inCmd \in [n : 0 .. MaxCmd, text : {"", "key", "other", "unknown"}]
  /\ {ends, stale} \subseteq Nat /\ mValidBuf \subseteq {"InCmd", "OutCmd", "OutLog", "OutProc"} /\ mModeDebug \in BOOLEAN
  /\ dbgState \in {"StStart", "StSendReadyWait", "StMain"}
  /\ mStateCmd \in {"StCmdRcvdWait", "StCmdInterpret", "StCmdSendStart"} /\ mCntDelay \in 0 .. CntDelayMin
  /\ {outCmd, asked} \subseteq 0 .. MaxCmd /\ {outLog, logged} \subseteq 0 .. NumLogs /\ logOvf \in BOOLEAN
  /\ turn \in {"swt", "dbg", "tree"} /\ pc \in {"loop", "swt", "unsolicited", "log"}
  /\ sends \in {"no", "start", "id", "text", "end"} /\ text \in {"key", "other"} /\ expects \in BOOLEAN
  /\ accepted \cup refused \subseteq Commands /\ answers \in [Commands -> 0 .. 3]

BufferKept ==
  tx.content \in {"Cmd", "Log", "Proc"} => Flag[tx.content] \in mValidBuf /\ tx.n = NumberOf(tx.content)

\* The buffer that is being sent is marked as valid and still holds what is being sent; there is
\* a buffer when one byte is sent to say that there is no content; and the interrupt does not
\* write a command into the buffer of one that is not processed, if they come one by one.
WireInv ==
  /\ TypeOK
  /\ BufferKept
  /\ tx.content = "None" => mpDataTx # "NULL"
  /\ OneByOne /\ mStateRcv = "StRcvContentData" => "InCmd" \notin mValidBuf /\ mStateCmd = "StCmdRcvdWait"

\* A command that was received is answered, unless the debug mode is off, if they come one by one:
\* one that comes while another is worked on may be lost. The answer may be lost, too, when log
\* entries are sent at once, as one that interrupts an answer changes mValidIdTx.
CmdAnswered ==
  \A n \in Commands :
    (n \in accepted /\ ~ mSyncedTransfer /\ OneByOne) ~> (answers[n] > 0 \/ n \in refused)

\* It is answered once, with the same exceptions, and never more than twice.
AnsweredOnce == mSyncedTransfer \/ \A n \in Commands : answers[n] <= IF OneByOne THEN 1 ELSE 2
=============================================================================
