-------------------------- MODULE SingleWireProofs --------------------------
(***************************************************************************)
(* What is sent to the scheduler is not changed before it has been sent,   *)
(* however many commands and log entries there are and whenever the        *)
(* interrupts come (SendInv).  The second half follows a command from the  *)
(* scheduler through the buffers to its answer (LinkInv): no command is    *)
(* written over another one, and none is answered twice, if they come one  *)
(* by one; without that, BaseInv holds.                                    *)
(***************************************************************************)
EXTENDS SingleWire, TLAPS

(* The parts of the type invariant that matter here                        *)
Typed ==
  /\ mSyncedTransfer \in BOOLEAN
  /\ mState \in {"StStart", "StFlowControlRcvdWait", "StContentOutSend", "StContentOutSentWait",
                 "StContentOutSent", "StCmdReceive"}
  /\ mStateCmd \in {"StCmdRcvdWait", "StCmdInterpret", "StCmdSendStart"}
  /\ pc \in {"loop", "swt", "unsolicited", "log"}
  /\ mValidBuf \subseteq {"InCmd", "OutCmd", "OutLog", "OutProc"}

(* Who is sending: the loop waits for the end in place, or it goes on and    *)
(* the transfer process comes back in StContentOutSentWait                   *)
Waited ==
  /\ mSyncedTransfer /\ pc = "loop" => tx = NoTx
  /\ ~ mSyncedTransfer => pc = "loop" /\ (tx # NoTx => mState = "StContentOutSentWait")

(* An entry that is sent at once stays valid, and no answer is written while *)
(* another one is                                                            *)
Marked ==
  /\ pc \in {"unsolicited", "log"} => "OutLog" \in mValidBuf
  /\ mStateCmd # "StCmdRcvdWait" => "OutCmd" \notin mValidBuf

SendInv == Typed /\ Waited /\ Marked /\ BufferKept

-----------------------------------------------------------------------------
\* Nothing is sent at first.
LEMMA InitSend == Init => SendInv
<1> SUFFICES ASSUME Init PROVE SendInv
  OBVIOUS
<1>1. tx = NoTx /\ tx.content = "no"
  BY DEF Init, NoTx
<1>2. Typed
  BY DEF Init, Typed
<1>3. Waited /\ Marked
  BY <1>1 DEF Init, Waited, Marked
<1>4. BufferKept
  BY <1>1 DEF BufferKept
<1> QED
  BY <1>2, <1>3, <1>4 DEF SendInv

\* A tick of the transfer process.
LEMMA TransferKeeps == ASSUME SendInv, SwtTick PROVE SendInv'
<1> USE DEF SendInv, Typed, Waited, Marked,
         BufferKept, NumberOf, NoTx, Flag
<1>1. pc = "loop" /\ UNCHANGED <<mSyncedTransfer, mStateCmd, outCmd, outLog>>
  BY DEF SwtTick, dbgVars, logVars
<1>2. CASE SwtStart
  BY <1>1, <1>2 DEF SwtStart
<1>3. CASE FlowControlRcvdWait
  BY <1>1, <1>3 DEF FlowControlRcvdWait
<1>4. CASE ContentOutSend
  <2>1. tx' = [content |-> Chosen, n |-> NumberOf(Chosen)] /\ UNCHANGED mValidBuf
    BY <1>4 DEF ContentOutSend, Send
  <2>2. Chosen \in {"Cmd", "Log", "Proc"} => Flag[Chosen] \in mValidBuf
    BY DEF Chosen
  <2>3. tx'.content = Chosen /\ tx'.n = NumberOf(Chosen)
    BY <2>1
  <2>4. BufferKept'
    BY <1>1, <2>1, <2>2, <2>3
  <2>5. /\ mSyncedTransfer => pc' = "swt" /\ UNCHANGED mState
        /\ ~ mSyncedTransfer => mState' = "StContentOutSentWait" /\ UNCHANGED pc
    BY <1>4 DEF ContentOutSend
  <2> QED
    BY <1>1, <2>1, <2>4, <2>5
<1>5. CASE ContentOutSentWait
  BY <1>1, <1>5 DEF ContentOutSentWait
<1>6. CASE ContentOutSent
  <2>1. tx = NoTx
    BY <1>1, <1>6 DEF ContentOutSent
  <2> QED
    BY <1>1, <1>6, <2>1 DEF ContentOutSent
<1>7. CASE CmdReceive
  BY <1>1, <1>7 DEF CmdReceive
<1> QED
  BY <1>2, <1>3, <1>4, <1>5, <1>6, <1>7 DEF SwtTick

\* The ends of the waits in place.
LEMMA WaitKeeps == ASSUME SendInv, SwtWaited \/ UnsolicitedSent \/ LogSent PROVE SendInv'
<1> USE DEF SendInv, Typed, Waited, Marked,
         BufferKept, NumberOf, NoTx, Flag
<1>1. CASE SwtWaited
  BY <1>1 DEF SwtWaited, dbgVars, logVars
<1>2. CASE UnsolicitedSent
  <2>1. tx' = [content |-> "Log", n |-> outLog] /\ pc' = "log" /\ "OutLog" \in mValidBuf
    BY <1>2 DEF UnsolicitedSent, Send
  <2>2. UNCHANGED <<mSyncedTransfer, mState, mStateCmd, outCmd, outLog, mValidBuf>>
    BY <1>2 DEF UnsolicitedSent, dbgVars, logVars
  <2> QED
    BY <1>2, <2>1, <2>2 DEF UnsolicitedSent
<1>3. CASE LogSent
  BY <1>3 DEF LogSent, txVars, dbgVars, logVars
<1> QED
  BY <1>1, <1>2, <1>3

\* A tick of the debug process.
LEMMA DebugKeeps == ASSUME SendInv, DbgTick \/ ProcTreeSend PROVE SendInv'
<1> USE DEF SendInv, Typed, Waited, Marked,
         BufferKept, NumberOf, NoTx, Flag
<1>1. CASE ProcTreeSend
  BY <1>1 DEF ProcTreeSend, txVars, logVars
<1>2. CASE DbgTick
  <2>1. UNCHANGED <<txVars, outLog, pc>>
    BY <1>2 DEF DbgTick, logVars
  <2>2. CASE UNCHANGED <<mStateCmd, outCmd, mValidBuf>>
    BY <2>1, <2>2 DEF txVars
  <2>3. CASE CmdRcvdWait
    BY <2>1, <2>3 DEF CmdRcvdWait, txVars
  <2>4. CASE CmdInterpret
    <3>1. tx.content # "Cmd"
      BY <2>4 DEF CmdInterpret
    <3> QED
      BY <2>1, <2>4, <3>1 DEF CmdInterpret, txVars
  <2>5. CASE CmdSendStart
    <3>1. mStateCmd' = "StCmdRcvdWait" /\ mValidBuf' = (mValidBuf \ {"InCmd"}) \cup {"OutCmd"}
      BY <2>5 DEF CmdSendStart
    <3>2. UNCHANGED <<mState, mSyncedTransfer, tx, pc, outCmd, outLog>>
      BY <2>1, <2>5 DEF CmdSendStart, txVars
    <3>3. \A b \in mValidBuf : b # "InCmd" => b \in mValidBuf'
      BY <3>1
    <3>4. Typed'
      BY <3>1, <3>2
    <3>5. Waited'
      BY <3>2
    <3>6. Marked'
      BY <3>1, <3>2, <3>3
    <3>7. BufferKept'
      BY <3>2, <3>3
    <3> QED
      BY <3>4, <3>5, <3>6, <3>7
  <2> QED
    BY <1>2, <2>2, <2>3, <2>4, <2>5 DEF DbgTick, CommandInterpret
<1> QED
  BY <1>1, <1>2

\* A log entry is made.
LEMMA LogKeeps == ASSUME SendInv, Log PROVE SendInv'
<1> USE DEF SendInv, Typed, Waited, Marked,
         BufferKept, NumberOf, NoTx, Flag
<1>1. UNCHANGED <<mSyncedTransfer, mState, mStateCmd, outCmd>> /\ pc = "loop"
  BY DEF Log, dbgVars, EntryLogEnqueue, CanLog
<1>2. CASE "OutLog" \in mValidBuf
  BY <1>1, <1>2 DEF Log, EntryLogEnqueue
<1>3. CASE "OutLog" \notin mValidBuf
  <2>1. mValidBuf' = mValidBuf \cup {"OutLog"} /\ tx.content # "Log"
    BY <1>3 DEF Log, EntryLogEnqueue
  <2>2. IF mSyncedTransfer THEN tx' = [content |-> "Unsolicited", n |-> 0] /\ pc' = "unsolicited"
        ELSE UNCHANGED <<tx, pc>>
    BY <1>3 DEF Log, EntryLogEnqueue, Send
  <2> QED
    BY <1>1, <2>1, <2>2
<1> QED
  BY <1>2, <1>3

(* The scheduler, and the bytes it sends                                     *)
LEMMA SchedulerKeeps ==
    ASSUME SendInv, DataSent \/ Poll \/ PollFails \/ CommandBegins \/ ByteArrives PROVE SendInv'
<1> USE DEF SendInv, Typed, Waited, Marked,
         BufferKept, NumberOf, NoTx, Flag
<1>1. UNCHANGED targetVars /\ (tx' = tx \/ tx' = NoTx)
  BY DEF DataSent, Poll, PollFails, CommandBegins, ByteArrives
<1> QED
  BY <1>1 DEF targetVars, dbgVars, logVars

\* Every step of the target and of the scheduler.
LEMMA NextSend == SendInv /\ [Next]_vars => SendInv'
<1> SUFFICES ASSUME SendInv, [Next]_vars PROVE SendInv'
  OBVIOUS
<1>1. CASE UNCHANGED vars
  BY <1>1 DEF vars, txVars, dbgVars, logVars, SendInv, Typed, Waited, Marked,
         BufferKept, NumberOf
<1> QED
  BY <1>1, TransferKeeps, WaitKeeps, DebugKeeps, LogKeeps, SchedulerKeeps DEF Next, Loop

\* Every reachable state satisfies the first invariant, whatever the scheduler does.
THEOREM Invariance == Spec => []SendInv
  BY InitSend, NextSend, PTL DEF Spec

\* An answer, a log entry or a process tree stays in its buffer, and the buffer is marked as
\* valid, until all of it has been sent: SingleWireTransfering.cpp:185-247, and the flags that
\* SystemDebugging.cpp:291-303, 408-410 and 514-520 of the target look at before they write.
THEOREM BuffersKept == Spec => []BufferKept
<1>1. SendInv => BufferKept
  BY DEF SendInv
<1> QED
  BY <1>1, Invariance, PTL

-----------------------------------------------------------------------------
(***************************************************************************)
(* What holds whatever the memory of mBufInCmd held (BaseInv): the types,    *)
(* the places of the transfer process, the order of the numbers, and that    *)
(* no command has more than two answers.                                     *)
(***************************************************************************)

(* The type invariant, by the parts of the state                               *)
TxTyped ==
  /\ mState \in {"StStart", "StFlowControlRcvdWait", "StContentOutSend", "StContentOutSentWait",
                 "StContentOutSent", "StCmdReceive"}
  /\ mSyncedTransfer \in BOOLEAN /\ mValidIdTx \in {"no", "OutCmd", "OutLog", "OutProc"}
  /\ mpDataTx \in {"NULL", "Cmd", "Log", "Proc"}
  /\ tx \in [content : {"no", "None", "Cmd", "Log", "Proc", "Unsolicited"}, n : Nat]

RcvTyped ==
  /\ mBufId \in [token : BOOLEAN, cmd : BOOLEAN]
  /\ mStateRcv \in {"StRcvStart", "StRcvContentId", "StRcvContentData"}
  /\ mIdxBufDataWrite \in 0 .. SizeBufIn
  /\ inCmd \in [n : 0 .. MaxCmd, text : {"", "key", "other", "unknown"}] /\ ends \in Nat

DbgTyped ==
  /\ mValidBuf \subseteq {"InCmd", "OutCmd", "OutLog", "OutProc"} /\ mModeDebug \in BOOLEAN
  /\ dbgState \in {"StStart", "StSendReadyWait", "StMain"}
  /\ mStateCmd \in {"StCmdRcvdWait", "StCmdInterpret", "StCmdSendStart"} /\ mCntDelay \in 0 .. CntDelayMin
  /\ outCmd \in 0 .. MaxCmd /\ refused \subseteq Commands /\ stale \in Nat

LogTyped ==
  /\ outLog \in 0 .. NumLogs /\ logged \in 0 .. NumLogs /\ logOvf \in BOOLEAN
  /\ turn \in {"swt", "dbg", "tree"} /\ pc \in {"loop", "swt", "unsolicited", "log"}

SchedTyped ==
  /\ sends \in {"no", "start", "id", "text", "end"} /\ text \in {"key", "other"} /\ expects \in BOOLEAN
  /\ asked \in 0 .. MaxCmd /\ accepted \subseteq Commands /\ answers \in [Commands -> 0 .. 3]

Types == TxTyped /\ RcvTyped /\ DbgTyped /\ LogTyped /\ SchedTyped

\* The type invariant, by its parts.
LEMMA TypesByParts == Types <=> TypeOK
  BY Zenon DEF TypeOK, Types, TxTyped, RcvTyped, DbgTyped, LogTyped, SchedTyped

\* Nothing is left of a command, and nothing can come of one.
Free == ~ mBufId.cmd /\ "InCmd" \notin mValidBuf /\ mStateCmd = "StCmdRcvdWait"

(* Where the transfer process is: it lets a content go out only while no       *)
(* command waits, and only once the debug process runs                         *)
Placed ==
  /\ mState = "StCmdReceive" => mBufId.cmd
  /\ mState \in {"StContentOutSend", "StContentOutSentWait", "StContentOutSent"} =>
       ~ mBufId.cmd /\ mModeDebug
  /\ pc = "swt" => mState = "StContentOutSend"
  /\ dbgState # "StMain" =>
       /\ mState \in {"StStart", "StFlowControlRcvdWait"} /\ mStateCmd = "StCmdRcvdWait"
       /\ "InCmd" \notin mValidBuf
       /\ mState = "StFlowControlRcvdWait" => turn = "dbg" /\ dbgState # "StStart"

(* The numbers of the commands: what is answered has come, and what is being   *)
(* sent has neither                                                            *)
Ordered ==
  /\ sends # "no" => asked > 0 /\ outCmd < asked /\ inCmd.n < asked /\ answers[asked] = 0
  /\ outCmd <= asked /\ inCmd.n <= asked
  /\ outCmd = 0 => "OutCmd" \notin mValidBuf /\ mStateCmd # "StCmdSendStart"
  /\ ~ Free => inCmd.n > 0
  /\ mStateCmd # "StCmdRcvdWait" => "InCmd" \in mValidBuf
  /\ \A n \in Commands : n > asked => answers[n] = 0
  /\ mStateRcv = "StRcvContentData" => mIdxBufDataWrite < SizeBufIn

(* There is something to send before the first content is asked for            *)
Pointed ==
  /\ mpDataTx = "NULL" <=> mValidIdTx = "no"
  /\ mpDataTx = "NULL" /\ mModeDebug => mStateCmd = "StCmdSendStart" \/ "OutCmd" \in mValidBuf
  /\ mpDataTx = "NULL" /\ mState = "StContentOutSend" /\ turn # "dbg" => "OutCmd" \in mValidBuf
  /\ tx.content = "None" => mpDataTx # "NULL"

(* An answer that has been sent is on its way out of its buffer                *)
Leaving ==
  mState \in {"StContentOutSentWait", "StContentOutSent"} /\ mValidIdTx = "OutCmd" /\ tx = NoTx

(* A command has an answer that is not sent yet, and can get one more.          *)
Out(n) == outCmd = n /\ (mStateCmd = "StCmdSendStart" \/ ("OutCmd" \in mValidBuf /\ ~ Leaving))
In(n) == inCmd.n = n /\ "InCmd" \in mValidBuf /\ mStateCmd # "StCmdSendStart"

(* No end byte brings more than these two: while one is left, the transfer      *)
(* process sends nothing                                                        *)
Twice ==
  ~ mSyncedTransfer =>
    /\ tx.content = "Cmd" => mValidIdTx = "OutCmd"
    /\ \A n \in Commands :
         /\ answers[n] <= 2
         /\ Out(n) \/ In(n) => answers[n] <= 1
         /\ Out(n) /\ In(n) => answers[n] = 0
         /\ mBufId.cmd /\ inCmd.n = n => answers[n] = 0

BaseInv ==
  /\ SendInv /\ Types
  /\ Placed /\ Ordered /\ Pointed /\ Twice

-----------------------------------------------------------------------------
\* What the assumption says of the constants.
LEMMA Bounds == /\ MaxCmd \in Nat /\ NumLogs \in Nat /\ CntDelayMin \in Nat
                /\ SizeBufIn \in Nat /\ SizeBufIn > 1
  BY SingleWireAssumption

(* The ticks of the transfer process                                            *)
LEMMA StartHolds == ASSUME BaseInv, SwtTick, SwtStart PROVE BaseInv'
<1> USE Bounds DEF BaseInv, Types, TxTyped, RcvTyped, DbgTyped, LogTyped, SchedTyped, Free, Commands, NoTx,
         txVars, rcvVars, dbgVars, logVars, schedVars, targetVars, SendInv, Typed, Waited, Marked,
         SwtTick, SwtStart
<1>a. SendInv'
  BY TransferKeeps
<1>b. TxTyped'
  OBVIOUS
<1>c. RcvTyped'
  BY DEF Ordered
<1>d. DbgTyped'
  BY DEF Ordered
<1>e. LogTyped'
  OBVIOUS
<1>f. SchedTyped'
  BY DEF Ordered
<1>g. Placed'
  BY DEF Placed, Ordered
<1>h. Ordered'
  BY DEF Ordered, Placed
<1>i. Pointed'
  BY DEF Pointed, Placed, Ordered
<1>j. Twice'
  BY DEF Twice, Out, In, Placed, Ordered, Leaving, BufferKept, NumberOf, Flag
<1> QED
  BY ONLY <1>a, <1>b, <1>c, <1>d, <1>e, <1>f, <1>g, <1>h, <1>i, <1>j DEF BaseInv, Types

\* A command goes first.
LEMMA FlowHolds == ASSUME BaseInv, SwtTick, FlowControlRcvdWait PROVE BaseInv'
<1> USE Bounds DEF BaseInv, Types, TxTyped, RcvTyped, DbgTyped, LogTyped, SchedTyped, Free, Commands, NoTx,
         txVars, rcvVars, dbgVars, logVars, schedVars, targetVars, SendInv, Typed, Waited, Marked,
         SwtTick, FlowControlRcvdWait
<1>a. SendInv'
  BY TransferKeeps
<1>b. TxTyped'
  BY ZenonT(40)
<1>c. RcvTyped'
  BY DEF Ordered
<1>d. DbgTyped'
  BY DEF Ordered
<1>e. LogTyped'
  OBVIOUS
<1>f. SchedTyped'
  BY DEF Ordered
<1>g. Placed'
  BY DEF Placed, Ordered
<1>h. Ordered'
  BY DEF Ordered, Placed
<1>i. Pointed'
  BY DEF Pointed, Placed, Ordered
<1>j. Twice'
  BY DEF Twice, Out, In, Placed, Ordered, Leaving, BufferKept, NumberOf, Flag
<1> QED
  BY ONLY <1>a, <1>b, <1>c, <1>d, <1>e, <1>f, <1>g, <1>h, <1>i, <1>j DEF BaseInv, Types

\* A content is chosen and its first byte sent.
LEMMA SendHolds == ASSUME BaseInv, SwtTick, ContentOutSend PROVE BaseInv'
<1>1. outCmd \in Nat /\ outLog \in Nat
  BY Bounds DEF BaseInv, Types, DbgTyped, LogTyped
<1>2. NumberOf(Chosen) \in Nat /\ Chosen \in {"Cmd", "None", "Log", "Proc"}
  BY <1>1 DEF NumberOf, Chosen
<1>3. TxTyped'
  BY <1>2 DEF BaseInv, Types, TxTyped, ContentOutSend, Send, SwtTick, Flag
<1> USE Bounds DEF BaseInv, Types, TxTyped, RcvTyped, DbgTyped, LogTyped, SchedTyped, Free, Commands, NoTx,
         txVars, rcvVars, dbgVars, logVars, schedVars, targetVars, SendInv, Typed, Waited, Marked,
         SwtTick, ContentOutSend, Chosen, Send, NumberOf, Flag
<1>a. SendInv'
  BY TransferKeeps
<1>b. RcvTyped'
  BY DEF Ordered
<1>c. DbgTyped'
  BY DEF Ordered
<1>d. LogTyped'
  OBVIOUS
<1>e. SchedTyped'
  BY DEF Ordered
<1>f. Placed'
  BY DEF Placed, Ordered
<1>g. Ordered'
  BY DEF Ordered, Placed
<1>h. Pointed'
  BY DEF Pointed, Placed, Ordered
<1>i. Twice'
  BY DEF Twice, Out, In, Placed, Ordered, Leaving, BufferKept, NumberOf, Flag
<1> QED
  BY ONLY <1>a, <1>3, <1>b, <1>c, <1>d, <1>e, <1>f, <1>g, <1>h, <1>i DEF BaseInv, Types

\* The transfer process finds the content sent, or not.
LEMMA SentWaitHolds == ASSUME BaseInv, SwtTick, ContentOutSentWait PROVE BaseInv'
<1> USE Bounds DEF BaseInv, Types, TxTyped, RcvTyped, DbgTyped, LogTyped, SchedTyped, Free, Commands, NoTx,
         txVars, rcvVars, dbgVars, logVars, schedVars, targetVars, SendInv, Typed, Waited, Marked,
         SwtTick, ContentOutSentWait
<1>a. SendInv'
  BY TransferKeeps
<1>b. TxTyped'
  OBVIOUS
<1>c. RcvTyped'
  BY DEF Ordered
<1>d. DbgTyped'
  BY DEF Ordered
<1>e. LogTyped'
  OBVIOUS
<1>f. SchedTyped'
  BY DEF Ordered
<1>g. Placed'
  BY DEF Placed, Ordered
<1>h. Ordered'
  BY DEF Ordered, Placed
<1>i. Pointed'
  BY DEF Pointed, Placed, Ordered
<1>j. Twice'
  BY DEF Twice, Out, In, Placed, Ordered, Leaving, BufferKept, NumberOf, Flag
<1> QED
  BY ONLY <1>a, <1>b, <1>c, <1>d, <1>e, <1>f, <1>g, <1>h, <1>i, <1>j DEF BaseInv, Types

\* The flag of what was sent is cleared.
LEMMA SentHolds == ASSUME BaseInv, SwtTick, ContentOutSent PROVE BaseInv'
<1> USE Bounds DEF BaseInv, Types, TxTyped, RcvTyped, DbgTyped, LogTyped, SchedTyped, Free, Commands, NoTx,
         txVars, rcvVars, dbgVars, logVars, schedVars, targetVars, SendInv, Typed, Waited, Marked,
         SwtTick, ContentOutSent
<1>a. SendInv'
  BY TransferKeeps
<1>b. TxTyped'
  OBVIOUS
<1>c. RcvTyped'
  BY DEF Ordered
<1>d. DbgTyped'
  BY DEF Ordered
<1>e. LogTyped'
  OBVIOUS
<1>f. SchedTyped'
  BY DEF Ordered
<1>g. Placed'
  BY DEF Placed, Ordered
<1>h. Ordered'
  BY DEF Ordered, Placed
<1>i. Pointed'
  BY DEF Pointed, Placed, Ordered
<1>j. Twice'
  BY DEF Twice, Out, In, Placed, Ordered, Leaving, BufferKept, NumberOf, Flag
<1> QED
  BY ONLY <1>a, <1>b, <1>c, <1>d, <1>e, <1>f, <1>g, <1>h, <1>i, <1>j DEF BaseInv, Types

\* One end byte is taken at a time: the command of it has not been answered.
LEMMA ReceiveHolds == ASSUME BaseInv, SwtTick, CmdReceive PROVE BaseInv'
<1>1. mBufId \in [token : BOOLEAN, cmd : BOOLEAN] /\ ends \in Nat /\ UNCHANGED <<mStateRcv, mIdxBufDataWrite, inCmd>>
  BY DEF BaseInv, Types, RcvTyped, SwtTick, CmdReceive
<1>2. RcvTyped'
  <2>1. ends' \in Nat /\ mBufId' \in [token : BOOLEAN, cmd : BOOLEAN]
    <3>1. \/ ends' = ends - 1 /\ ends > 0 /\ mBufId' = mBufId
          \/ ends' = ends /\ mBufId' = [mBufId EXCEPT !.cmd = FALSE]
      BY DEF CmdReceive
    <3>2. ends' \in Nat
      BY <1>1, <3>1
    <3>3. mBufId' \in [token : BOOLEAN, cmd : BOOLEAN]
      BY <1>1, <3>1
    <3> QED
      BY <3>2, <3>3
  <2> QED
    BY <1>1, <2>1 DEF BaseInv, Types, RcvTyped
<1>3. Twice'
  <2>1. /\ mState' = "StFlowControlRcvdWait" /\ mState = "StCmdReceive" /\ mBufId.cmd
        /\ UNCHANGED <<tx, mSyncedTransfer, mValidIdTx, mStateCmd, outCmd, answers>>
        /\ mValidBuf' = mValidBuf \/ mValidBuf' = mValidBuf \cup {"InCmd"}
    BY DEF SwtTick, CmdReceive, dbgVars, schedVars, BaseInv, Placed
  <2>2. \A n : (Out(n)' <=> Out(n)) /\ (In(n)' => inCmd.n = n)
    BY <1>1, <2>1 DEF Out, In, Leaving
  <2> QED
    BY <1>1, <2>1, <2>2 DEF BaseInv, Twice
<1> USE Bounds DEF BaseInv, Types, TxTyped, RcvTyped, DbgTyped, LogTyped, SchedTyped, Free, Commands, NoTx,
         txVars, rcvVars, dbgVars, logVars, schedVars, targetVars, SendInv, Typed, Waited, Marked,
         SwtTick, CmdReceive
<1>a. SendInv'
  BY TransferKeeps
<1>b. TxTyped'
  OBVIOUS
<1>c. DbgTyped'
  BY DEF Ordered
<1>d. LogTyped'
  OBVIOUS
<1>e. SchedTyped'
  BY DEF Ordered
<1>f. Placed'
  BY DEF Placed, Ordered
<1>g. Ordered'
  BY DEF Ordered, Placed
<1>h. Pointed'
  BY DEF Pointed, Placed, Ordered
<1> QED
  BY ONLY <1>a, <1>b, <1>2, <1>c, <1>d, <1>e, <1>f, <1>g, <1>h, <1>3 DEF BaseInv, Types

(* The loops that wait for the end of what is sent                              *)
LEMMA WaitedHolds == ASSUME BaseInv, SwtWaited PROVE BaseInv'
<1> USE Bounds DEF BaseInv, Types, TxTyped, RcvTyped, DbgTyped, LogTyped, SchedTyped, Free, Commands, NoTx,
         txVars, rcvVars, dbgVars, logVars, schedVars, targetVars, SendInv, Typed, Waited, Marked,
         SwtWaited
<1>a. SendInv'
  BY WaitKeeps
<1>b. TxTyped'
  OBVIOUS
<1>c. RcvTyped'
  BY DEF Ordered
<1>d. DbgTyped'
  BY DEF Ordered
<1>e. LogTyped'
  OBVIOUS
<1>f. SchedTyped'
  BY DEF Ordered
<1>g. Placed'
  BY DEF Placed, Ordered
<1>h. Ordered'
  BY DEF Ordered, Placed
<1>i. Pointed'
  BY DEF Pointed, Placed, Ordered
<1>j. Twice'
  BY DEF Twice, Out, In, Placed, Ordered, Leaving, BufferKept, NumberOf, Flag
<1> QED
  BY ONLY <1>a, <1>b, <1>c, <1>d, <1>e, <1>f, <1>g, <1>h, <1>i, <1>j DEF BaseInv, Types

\* The byte of an entry that is sent at once has gone out.
LEMMA UnsolicitedHolds == ASSUME BaseInv, UnsolicitedSent PROVE BaseInv'
<1>1. outLog \in Nat
  BY Bounds DEF BaseInv, Types, LogTyped
<1>2. TxTyped'
  BY <1>1 DEF BaseInv, Types, TxTyped, UnsolicitedSent, Send
<1> USE Bounds DEF BaseInv, Types, TxTyped, RcvTyped, DbgTyped, LogTyped, SchedTyped, Free, Commands, NoTx,
         txVars, rcvVars, dbgVars, logVars, schedVars, targetVars, SendInv, Typed, Waited, Marked,
         UnsolicitedSent, Send
<1>a. SendInv'
  BY WaitKeeps
<1>b. RcvTyped'
  BY DEF Ordered
<1>c. DbgTyped'
  BY DEF Ordered
<1>d. LogTyped'
  OBVIOUS
<1>e. SchedTyped'
  BY DEF Ordered
<1>f. Placed'
  BY DEF Placed, Ordered
<1>g. Ordered'
  BY DEF Ordered, Placed
<1>h. Pointed'
  BY DEF Pointed, Placed, Ordered
<1>i. Twice'
  BY DEF Twice, Out, In, Placed, Ordered, Leaving, BufferKept, NumberOf, Flag
<1> QED
  BY ONLY <1>a, <1>2, <1>b, <1>c, <1>d, <1>e, <1>f, <1>g, <1>h, <1>i DEF BaseInv, Types

\* The entry itself has gone out.
LEMMA LogSentHolds == ASSUME BaseInv, LogSent PROVE BaseInv'
<1> USE Bounds DEF BaseInv, Types, TxTyped, RcvTyped, DbgTyped, LogTyped, SchedTyped, Free, Commands, NoTx,
         txVars, rcvVars, dbgVars, logVars, schedVars, targetVars, SendInv, Typed, Waited, Marked,
         LogSent
<1>a. SendInv'
  BY WaitKeeps
<1>b. TxTyped'
  OBVIOUS
<1>c. RcvTyped'
  BY DEF Ordered
<1>d. DbgTyped'
  BY DEF Ordered
<1>e. LogTyped'
  OBVIOUS
<1>f. SchedTyped'
  BY DEF Ordered
<1>g. Placed'
  BY DEF Placed, Ordered
<1>h. Ordered'
  BY DEF Ordered, Placed
<1>i. Pointed'
  BY DEF Pointed, Placed, Ordered
<1>j. Twice'
  BY DEF Twice, Out, In, Placed, Ordered, Leaving, BufferKept, NumberOf, Flag
<1> QED
  BY ONLY <1>a, <1>b, <1>c, <1>d, <1>e, <1>f, <1>g, <1>h, <1>i, <1>j DEF BaseInv, Types

(* The ticks of the debug process                                               *)
LEMMA DbgStartHolds == ASSUME BaseInv, DbgTick, dbgState # "StMain" PROVE BaseInv'
<1>1. turn = "dbg" /\ turn' = "swt" /\ DbgStart
        /\ UNCHANGED <<mState, mpDataTx, tx, mValidIdTx, pc, mModeDebug, mStateCmd, mValidBuf, mBufId>>
  BY DEF DbgTick, txVars
<1>2. dbgState' # "StMain" => mState = "StStart"
  BY <1>1 DEF DbgStart, BaseInv, Placed
<1>3. mState \in {"StStart", "StFlowControlRcvdWait"}
  BY DEF BaseInv, Placed
<1>4. Placed'
  BY <1>1, <1>2, <1>3 DEF BaseInv, Placed
<1>5. Pointed'
  BY <1>1, <1>3 DEF BaseInv, Pointed
<1> USE Bounds DEF BaseInv, Types, TxTyped, RcvTyped, DbgTyped, LogTyped, SchedTyped, Free, Commands, NoTx,
         txVars, rcvVars, dbgVars, logVars, schedVars, targetVars, SendInv, Typed, Waited, Marked,
         DbgTick, DbgStart, CommandInterpret
<1>a. SendInv'
  BY DebugKeeps
<1>b. TxTyped'
  BY ZenonT(40)
<1>c. RcvTyped'
  BY DEF Ordered
<1>d. DbgTyped'
  BY DEF Ordered
<1>e. LogTyped'
  OBVIOUS
<1>f. SchedTyped'
  BY DEF Ordered
<1>g. Ordered'
  BY DEF Ordered, Placed
<1>h. Twice'
  BY DEF Twice, Out, In, Placed, Ordered, Leaving, BufferKept, NumberOf, Flag
<1> QED
  BY ONLY <1>a, <1>b, <1>c, <1>d, <1>e, <1>f, <1>4, <1>g, <1>5, <1>h DEF BaseInv, Types

\* The debug process looks for a command.
LEMMA RcvdWaitHolds == ASSUME BaseInv, DbgTick, dbgState = "StMain", CmdRcvdWait PROVE BaseInv'
<1> USE Bounds DEF BaseInv, Types, TxTyped, RcvTyped, DbgTyped, LogTyped, SchedTyped, Free, Commands, NoTx,
         txVars, rcvVars, dbgVars, logVars, schedVars, targetVars, SendInv, Typed, Waited, Marked,
         DbgTick, CmdRcvdWait
<1>a. SendInv'
  BY DebugKeeps
<1>b. TxTyped'
  BY ZenonT(40)
<1>c. RcvTyped'
  BY DEF Ordered
<1>d. DbgTyped'
  BY DEF Ordered
<1>e. LogTyped'
  OBVIOUS
<1>f. SchedTyped'
  BY DEF Ordered
<1>g. Placed'
  BY DEF Placed, Ordered
<1>h. Ordered'
  BY DEF Ordered, Placed
<1>i. Pointed'
  BY DEF Pointed, Placed, Ordered
<1>j. Twice'
  BY DEF Twice, Out, In, Placed, Ordered, Leaving, BufferKept, NumberOf, Flag
<1> QED
  BY ONLY <1>a, <1>b, <1>c, <1>d, <1>e, <1>f, <1>g, <1>h, <1>i, <1>j DEF BaseInv, Types

\* The answer is that of the command that is in the buffer.
LEMMA InterpretHolds == ASSUME BaseInv, DbgTick, dbgState = "StMain", CmdInterpret PROVE BaseInv'
<1>1. inCmd.n \in 1 .. MaxCmd /\ inCmd.n <= asked /\ "InCmd" \in mValidBuf /\ "OutCmd" \notin mValidBuf
  <2>1. mStateCmd = "StCmdInterpret" /\ ~ Free
    BY DEF CmdInterpret, Free
  <2>2. inCmd.n > 0 /\ inCmd.n <= asked /\ "InCmd" \in mValidBuf /\ "OutCmd" \notin mValidBuf
    BY <2>1 DEF BaseInv, Ordered, SendInv, Marked
  <2>3. inCmd.n \in 0 .. MaxCmd
    BY DEF BaseInv, Types, RcvTyped
  <2> QED
    BY <2>2, <2>3, Bounds
<1>2. mStateCmd = "StCmdInterpret"
        /\ UNCHANGED <<mBufId, asked, sends, inCmd, answers, mpDataTx, mValidIdTx, mState, tx, mSyncedTransfer,
                       mStateRcv, mIdxBufDataWrite>>
  BY DEF CmdInterpret, DbgTick, schedVars, txVars
<1>3. asked \in Nat /\ outCmd \in Nat
  BY Bounds DEF BaseInv, Types, SchedTyped, DbgTyped
<1>4. ASSUME outCmd' = inCmd.n, mStateCmd' = "StCmdSendStart", UNCHANGED <<refused, mValidBuf>>
      PROVE Ordered' /\ DbgTyped' /\ Pointed' /\ Twice'
  <2>1. Ordered'
    BY <1>1, <1>2, <1>3, <1>4 DEF BaseInv, Ordered, Free
  <2>2. DbgTyped'
    BY <1>1, <1>4, Bounds DEF CmdInterpret, DbgTick, BaseInv, Types, DbgTyped
  <2>3. Pointed'
    BY <1>1, <1>2, <1>4 DEF BaseInv, Pointed, Placed, DbgTick
  <2>4. Twice'
    BY <1>1, <1>2, <1>4 DEF BaseInv, Twice, Out, In
  <2> QED
    BY <2>1, <2>2, <2>3, <2>4
<1>5. ASSUME mValidBuf' = mValidBuf \ {"InCmd"}, mStateCmd' = "StCmdRcvdWait",
             refused' = refused \cup {inCmd.n}, ~ mModeDebug, UNCHANGED <<mModeDebug, outCmd>>
      PROVE Ordered' /\ DbgTyped' /\ Pointed' /\ Twice'
  <2>1. Ordered'
    BY <1>1, <1>2, <1>3, <1>5 DEF BaseInv, Ordered, Free
  <2>2. DbgTyped'
    BY <1>1, <1>5, Bounds DEF CmdInterpret, DbgTick, BaseInv, Types, DbgTyped, Commands
  <2>3. Pointed'
    BY <1>1, <1>2, <1>5 DEF BaseInv, Pointed, Placed, DbgTick
  <2>4. Twice'
    BY <1>1, <1>2, <1>5 DEF BaseInv, Twice, Out, In
  <2> QED
    BY <2>1, <2>2, <2>3, <2>4
<1>6. Ordered' /\ DbgTyped' /\ Pointed' /\ Twice'
  BY <1>4, <1>5 DEF CmdInterpret
<1> USE Bounds DEF BaseInv, Types, TxTyped, RcvTyped, DbgTyped, LogTyped, SchedTyped, Free, Commands, NoTx,
         txVars, rcvVars, dbgVars, logVars, schedVars, targetVars, SendInv, Typed, Waited, Marked,
         DbgTick, CmdInterpret
<1>a. SendInv'
  BY DebugKeeps
<1>b. TxTyped'
  BY ZenonT(40)
<1>c. RcvTyped'
  BY DEF Ordered
<1>d. LogTyped'
  OBVIOUS
<1>e. SchedTyped'
  BY DEF Ordered
<1>f. Placed'
  BY DEF Placed, Ordered
<1> QED
  BY ONLY <1>a, <1>b, <1>c, <1>6, <1>d, <1>e, <1>f DEF BaseInv, Types

\* The answer is written.
LEMMA SendStartHolds == ASSUME BaseInv, DbgTick, dbgState = "StMain", CmdSendStart PROVE BaseInv'
<1> USE Bounds DEF BaseInv, Types, TxTyped, RcvTyped, DbgTyped, LogTyped, SchedTyped, Free, Commands, NoTx,
         txVars, rcvVars, dbgVars, logVars, schedVars, targetVars, SendInv, Typed, Waited, Marked,
         DbgTick, CmdSendStart
<1>a. SendInv'
  BY DebugKeeps
<1>b. TxTyped'
  BY ZenonT(40)
<1>c. RcvTyped'
  BY DEF Ordered
<1>d. DbgTyped'
  BY DEF Ordered
<1>e. LogTyped'
  OBVIOUS
<1>f. SchedTyped'
  BY DEF Ordered
<1>g. Placed'
  BY DEF Placed, Ordered
<1>h. Ordered'
  BY DEF Ordered, Placed
<1>i. Pointed'
  BY DEF Pointed, Placed, Ordered
<1>j. Twice'
  BY DEF Twice, Out, In, Placed, Ordered, Leaving, BufferKept, NumberOf, Flag
<1> QED
  BY ONLY <1>a, <1>b, <1>c, <1>d, <1>e, <1>f, <1>g, <1>h, <1>i, <1>j DEF BaseInv, Types

\* The tree is offered.
LEMMA TreeSendHolds == ASSUME BaseInv, ProcTreeSend PROVE BaseInv'
<1>1. mCntDelay' \in 0 .. CntDelayMin /\ mValidBuf' \subseteq mValidBuf \cup {"OutProc"}
        /\ mValidBuf \subseteq mValidBuf'
  BY Bounds DEF ProcTreeSend, BaseInv, Types, DbgTyped
<1>2. UNCHANGED <<txVars, dbgState, mStateCmd, outCmd, mModeDebug, refused, stale, schedVars, mBufId, inCmd>>
  BY DEF ProcTreeSend, rcvVars
<1>3. DbgTyped'
  BY <1>1, <1>2 DEF BaseInv, Types, DbgTyped
<1>4. Twice'
  <2>1. Leaving' <=> Leaving
    BY <1>2 DEF Leaving, txVars
  <2>2. \A n : (Out(n)' => Out(n)) /\ (In(n)' => In(n))
    BY <1>1, <1>2, <2>1 DEF Out, In
  <2> QED
    BY <1>2, <2>2 DEF BaseInv, Twice, txVars, schedVars
<1> USE Bounds DEF BaseInv, Types, TxTyped, RcvTyped, DbgTyped, LogTyped, SchedTyped, Free, Commands, NoTx,
         txVars, rcvVars, dbgVars, logVars, schedVars, targetVars, SendInv, Typed, Waited, Marked,
         ProcTreeSend
<1>a. SendInv'
  BY DebugKeeps
<1>b. TxTyped'
  BY ZenonT(40)
<1>c. RcvTyped'
  BY DEF Ordered
<1>d. LogTyped'
  OBVIOUS
<1>e. SchedTyped'
  BY DEF Ordered
<1>f. Placed'
  BY DEF Placed, Ordered
<1>g. Ordered'
  BY DEF Ordered, Placed
<1>h. Pointed'
  BY DEF Pointed, Placed, Ordered
<1> QED
  BY ONLY <1>a, <1>b, <1>c, <1>3, <1>d, <1>e, <1>f, <1>g, <1>h, <1>4 DEF BaseInv, Types

(* An entry touches only its own buffer, and the transfer process waits.          *)
LEMMA LogHolds == ASSUME BaseInv, Log PROVE BaseInv'
<1>1. /\ tx' = tx \/ mSyncedTransfer
      /\ tx' = tx \/ tx' = [content |-> "Unsolicited", n |-> 0]
      /\ mValidBuf' = mValidBuf \/ mValidBuf' = mValidBuf \cup {"OutLog"}
      /\ UNCHANGED <<mState, mSyncedTransfer, mValidIdTx, mpDataTx, rcvVars, dbgVars, schedVars, turn>>
  BY DEF Log, EntryLogEnqueue, Send
<1>2. TxTyped'
  BY <1>1 DEF BaseInv, Types, TxTyped
<1>3. LogTyped'
  <2>1. logged \in Nat /\ logged <= NumLogs /\ logged < NumLogs
    BY Bounds DEF BaseInv, Types, LogTyped, Log, EntryLogEnqueue, CanLog
  <2>2. logOvf' \in BOOLEAN /\ \/ logged' = logged /\ outLog' = outLog
                               \/ logged' = logged + 1 /\ outLog' = logged + 1
    BY DEF Log, EntryLogEnqueue, BaseInv, Types, LogTyped
  <2>3. logged' \in 0 .. NumLogs /\ outLog' \in 0 .. NumLogs
    BY <2>1, <2>2, Bounds DEF BaseInv, Types, LogTyped
  <2>4. pc' \in {"loop", "swt", "unsolicited", "log"}
    BY DEF BaseInv, Types, LogTyped, Log, EntryLogEnqueue
  <2> QED
    BY <1>1, <2>2, <2>3, <2>4 DEF BaseInv, Types, LogTyped
<1>4. Twice'
  <2>1. ~ mSyncedTransfer => (Leaving' <=> Leaving) /\ UNCHANGED tx
    BY <1>1 DEF Leaving
  <2>2. ~ mSyncedTransfer => \A n : (Out(n)' => Out(n)) /\ (In(n)' => In(n))
    BY <1>1, <2>1 DEF Out, In, dbgVars, rcvVars
  <2> QED
    BY <1>1, <2>1, <2>2 DEF BaseInv, Twice, schedVars, rcvVars
<1>6. Pointed'
  BY <1>1 DEF BaseInv, Pointed, dbgVars
<1> USE Bounds DEF BaseInv, Types, TxTyped, RcvTyped, DbgTyped, LogTyped, SchedTyped, Free, Commands, NoTx,
         txVars, rcvVars, dbgVars, logVars, schedVars, targetVars, SendInv, Typed, Waited, Marked,
         Log, EntryLogEnqueue, CanLog, Send
<1>a. SendInv'
  BY LogKeeps
<1>b. RcvTyped'
  BY DEF Ordered
<1>c. DbgTyped'
  BY DEF Ordered
<1>d. SchedTyped'
  BY DEF Ordered
<1>e. Placed'
  BY DEF Placed, Ordered
<1>f. Ordered'
  BY DEF Ordered, Placed
<1> QED
  BY ONLY <1>a, <1>2, <1>b, <1>c, <1>3, <1>d, <1>e, <1>f, <1>6, <1>4 DEF BaseInv, Types

\* Nothing is no answer.
LEMMA NoContent == NoTx.content # "Cmd"
  BY DEF NoTx

\* Only an answer that is in its buffer is counted.
LEMMA DataSentHolds == ASSUME BaseInv, DataSent PROVE BaseInv'
<1>1. /\ tx' = NoTx
      /\ UNCHANGED <<sends, asked, text, accepted, outCmd, mValidBuf, mSyncedTransfer, mStateCmd, mBufId, inCmd,
                     mState, mValidIdTx, mStateRcv, mIdxBufDataWrite>>
      /\ answers' = IF tx.content = "Cmd" THEN [answers EXCEPT ![tx.n] = IF @ < 3 THEN @ + 1 ELSE @] ELSE answers
      /\ expects' \in BOOLEAN
  BY DEF DataSent, targetVars, dbgVars, rcvVars
<1>2. answers \in [Commands -> 0 .. 3] /\ asked \in 0 .. MaxCmd /\ outCmd \in 0 .. MaxCmd
  BY DEF BaseInv, Types, SchedTyped, DbgTyped
<1>3. answers' \in [Commands -> 0 .. 3]
  <2>1. tx.n \in Commands => (IF answers[tx.n] < 3 THEN answers[tx.n] + 1 ELSE answers[tx.n]) \in 0 .. 3
    BY <1>2
  <2>2. CASE tx.n \in Commands /\ tx.content = "Cmd"
    BY <1>1, <1>2, <2>1, <2>2
  <2>3. CASE tx.n \notin Commands \/ tx.content # "Cmd"
    BY <1>1, <1>2, <2>3
  <2> QED
    BY <2>2, <2>3
<1>4. tx.content = "Cmd" => tx.n = outCmd /\ "OutCmd" \in mValidBuf
  BY DEF BaseInv, SendInv, BufferKept, NumberOf, Flag
<1>5. \A n \in Commands : answers'[n] # answers[n] => tx.content = "Cmd" /\ n = outCmd /\ answers'[n] = answers[n] + 1
  BY <1>1, <1>2, <1>4
<1>6. SchedTyped'
  BY <1>1, <1>3 DEF BaseInv, Types, SchedTyped
<1>7. Ordered'
  <2>1. outCmd <= asked /\ (sends # "no" => outCmd < asked)
    BY DEF BaseInv, Ordered
  <2>2. sends # "no" => asked \in Commands
    BY <1>2, Bounds DEF BaseInv, Ordered, Commands
  <2> QED
    BY <1>1, <1>2, <1>5, <2>1, <2>2, Bounds DEF BaseInv, Ordered, Free, Commands
<1>8. Twice'
  <2> SUFFICES ASSUME ~ mSyncedTransfer PROVE Twice'
    BY <1>1 DEF Twice
  <2>1. tx # NoTx /\ mState = "StContentOutSentWait" /\ ~ mBufId.cmd
    BY DEF DataSent, BaseInv, SendInv, Waited, Placed
  <2>2. ~ Leaving
    BY <2>1 DEF Leaving
  <2>3. \A n : (Out(n)' => Out(n)) /\ (In(n)' => In(n))
    BY <1>1, <2>2 DEF Out, In
  <2>4. ASSUME tx.content # "Cmd" PROVE Twice'
    BY <1>1, <2>3, <2>4, NoContent DEF BaseInv, Twice
  <2>5. ASSUME tx.content = "Cmd" PROVE Twice'
    <3>1. mValidIdTx = "OutCmd" /\ mStateCmd = "StCmdRcvdWait"
      BY <1>4, <2>5 DEF BaseInv, Twice, SendInv, Marked
    <3>2. Leaving'
      BY <1>1, <2>1, <3>1 DEF Leaving
    <3>3. \A n : ~ Out(n)'
      BY <1>1, <3>1, <3>2 DEF Out
    <3>4. outCmd \in Commands => Out(outCmd)
      BY <1>4, <2>2, <2>5 DEF Out
    <3>5. \A n \in Commands : answers'[n] <= 2 /\ (In(n)' => answers'[n] <= 1)
      BY <1>2, <1>5, <2>3, <3>4 DEF BaseInv, Twice
    <3> QED
      BY <1>1, <2>1, <3>3, <3>5, NoContent DEF Twice
  <2> QED
    BY <2>4, <2>5
<1> USE Bounds DEF BaseInv, Types, TxTyped, RcvTyped, DbgTyped, LogTyped, SchedTyped, Free, Commands, NoTx,
         txVars, rcvVars, dbgVars, logVars, schedVars, targetVars, SendInv, Typed, Waited, Marked,
         DataSent
<1>a. SendInv'
  BY SchedulerKeeps
<1>b. TxTyped'
  OBVIOUS
<1>c. RcvTyped'
  BY DEF Ordered
<1>d. DbgTyped'
  BY DEF Ordered
<1>e. LogTyped'
  OBVIOUS
<1>f. Placed'
  BY DEF Placed, Ordered
<1>g. Pointed'
  BY DEF Pointed, Placed, Ordered
<1> QED
  BY ONLY <1>a, <1>b, <1>c, <1>d, <1>e, <1>6, <1>f, <1>7, <1>g, <1>8 DEF BaseInv, Types

\* A poll is lost.
LEMMA PollFailsHolds == ASSUME BaseInv, PollFails PROVE BaseInv'
<1> USE Bounds DEF BaseInv, Types, TxTyped, RcvTyped, DbgTyped, LogTyped, SchedTyped, Free, Commands, NoTx,
         txVars, rcvVars, dbgVars, logVars, schedVars, targetVars, SendInv, Typed, Waited, Marked,
         PollFails
<1>a. SendInv'
  BY SchedulerKeeps
<1>b. TxTyped'
  BY ZenonT(40)
<1>c. RcvTyped'
  BY DEF Ordered
<1>d. DbgTyped'
  BY DEF Ordered
<1>e. LogTyped'
  OBVIOUS
<1>f. SchedTyped'
  BY DEF Ordered
<1>g. Placed'
  BY DEF Placed, Ordered
<1>h. Ordered'
  BY DEF Ordered, Placed
<1>i. Pointed'
  BY DEF Pointed, Placed, Ordered
<1>j. Twice'
  BY DEF Twice, Out, In, Placed, Ordered, Leaving, BufferKept, NumberOf, Flag
<1> QED
  BY ONLY <1>a, <1>b, <1>c, <1>d, <1>e, <1>f, <1>g, <1>h, <1>i, <1>j DEF BaseInv, Types

\* The next command has a number of its own.
LEMMA BeginHolds == ASSUME BaseInv, CommandBegins PROVE BaseInv'
<1>1. /\ asked < MaxCmd /\ asked' = asked + 1 /\ sends' = "start" /\ text' \in {"key", "other"}
      /\ UNCHANGED <<outCmd, mValidBuf, mStateCmd, mBufId, inCmd, answers, expects, accepted, mStateRcv, mIdxBufDataWrite>>
  BY DEF CommandBegins, targetVars, dbgVars, rcvVars
<1>2. /\ asked \in 0 .. MaxCmd /\ outCmd \in 0 .. MaxCmd /\ inCmd.n \in 0 .. MaxCmd
      /\ outCmd <= asked /\ inCmd.n <= asked /\ answers \in [Commands -> 0 .. 3]
  BY DEF BaseInv, Types, SchedTyped, DbgTyped, RcvTyped, Ordered
<1>3. asked' \in 1 .. MaxCmd /\ asked' > asked /\ outCmd < asked' /\ inCmd.n < asked'
  BY <1>1, <1>2, Bounds
<1>4. SchedTyped'
  BY <1>1, <1>3 DEF BaseInv, Types, SchedTyped
<1>6. Ordered'
  <2>1. answers[asked'] = 0 /\ \A n \in Commands : n > asked' => answers[n] = 0
    BY <1>2, <1>3, Bounds DEF BaseInv, Ordered, Commands
  <2> QED
    BY <1>1, <1>2, <1>3, <2>1 DEF BaseInv, Ordered, Free
<1> USE Bounds DEF BaseInv, Types, TxTyped, RcvTyped, DbgTyped, LogTyped, SchedTyped, Free, Commands, NoTx,
         txVars, rcvVars, dbgVars, logVars, schedVars, targetVars, SendInv, Typed, Waited, Marked,
         CommandBegins, IsIdle
<1>a. SendInv'
  BY SchedulerKeeps
<1>b. TxTyped'
  BY ZenonT(40)
<1>c. RcvTyped'
  BY DEF Ordered
<1>d. DbgTyped'
  BY DEF Ordered
<1>e. LogTyped'
  OBVIOUS
<1>f. Placed'
  BY DEF Placed, Ordered
<1>g. Pointed'
  BY DEF Pointed, Placed, Ordered
<1>h. Twice'
  BY DEF Twice, Out, In, Placed, Ordered, Leaving, BufferKept, NumberOf, Flag
<1> QED
  BY ONLY <1>a, <1>b, <1>c, <1>d, <1>e, <1>4, <1>f, <1>6, <1>g, <1>h DEF BaseInv, Types

(* What a byte does to the receiver: nothing to a command, the start of one, a   *)
(* part of its text, or its end.                                                *)
Hears ==
  /\ UNCHANGED <<inCmd, ends, accepted, mIdxBufDataWrite>>
  /\ mBufId' \in [token : BOOLEAN, cmd : {mBufId.cmd}]
  /\ mStateRcv' \in {"StRcvStart", "StRcvContentId"}

Opens(b) ==
  /\ b = "id" /\ ~ mBufId.cmd
  /\ mStateRcv' = "StRcvContentData" /\ mIdxBufDataWrite' = 0
  /\ UNCHANGED <<mBufId, inCmd, ends, accepted>>

Stores ==
  /\ mStateRcv = "StRcvContentData"
  /\ mIdxBufDataWrite' = mIdxBufDataWrite + 1
  /\ mStateRcv' = IF mIdxBufDataWrite' < SizeBufIn THEN "StRcvContentData" ELSE "StRcvStart"
  /\ inCmd' \in [n : {inCmd.n}, text : {"key", "other", "unknown"}]
  /\ UNCHANGED <<mBufId, ends, accepted>>

Takes(b) ==
  /\ b = "end" /\ mStateRcv = "StRcvContentData" /\ mStateRcv' = "StRcvStart"
  /\ mBufId' \in [token : BOOLEAN, cmd : {TRUE}]
  /\ inCmd' \in [n : {asked}, text : {"", "key", "other", "unknown"}]
  /\ ends' \in 1 .. ends + 1
  /\ accepted' = accepted \cup {asked}
  /\ UNCHANGED mIdxBufDataWrite

\* What a byte of the scheduler does to the receiver.
LEMMA ByteKinds ==
  ASSUME RcvTyped, text \in {"key", "other"}, NEW b, ByteProcess(b)
  PROVE  Hears \/ Opens(b) \/ Stores \/ Takes(b)
<1>1. mBufId \in [token : BOOLEAN, cmd : BOOLEAN] /\ ends \in Nat
        /\ inCmd \in [n : 0 .. MaxCmd, text : {"", "key", "other", "unknown"}]
  BY DEF RcvTyped
<1>2. CASE mStateRcv = "StRcvStart"
  <2>1. mBufId' \in [token : BOOLEAN, cmd : {mBufId.cmd}]
    BY <1>1, <1>2 DEF ByteProcess
  <2>2. Hears
    BY <1>2, <2>1 DEF ByteProcess, Hears
  <2> QED
    BY <2>2
<1>3. CASE mStateRcv = "StRcvContentId"
  <2>1. mBufId \in [token : BOOLEAN, cmd : {mBufId.cmd}]
    BY <1>1
  <2> QED
    BY <1>3, <2>1 DEF ByteProcess, Hears, Opens
<1>4. CASE mStateRcv = "StRcvContentData" /\ b # "end"
  <2>1. Store(b)
    BY <1>4 DEF ByteProcess
  <2>2. inCmd' \in [n : {inCmd.n}, text : {"key", "other", "unknown"}]
    BY <1>1, <2>1 DEF Store
  <2>3. Stores
    BY <1>4, <2>1, <2>2 DEF Store, Stores
  <2> QED
    BY <2>3
<1>5. CASE mStateRcv = "StRcvContentData" /\ b = "end"
  <2>1. mBufId' = [mBufId EXCEPT !.cmd = TRUE] /\ accepted' = accepted \cup {asked}
          /\ mStateRcv' = "StRcvStart" /\ UNCHANGED mIdxBufDataWrite
          /\ inCmd' = [n |-> asked, text |-> IF mIdxBufDataWrite = 0 THEN "" ELSE inCmd.text]
          /\ \E behind \in 0 .. ends : ends' = behind + 1
    BY <1>5 DEF ByteProcess
  <2>2. ends' \in 1 .. ends + 1
    <3>1. ends \in Nat
      BY <1>1
    <3>2. PICK behind \in 0 .. ends : ends' = behind + 1
      BY <2>1
    <3> QED
      BY <3>1, <3>2
  <2>3. inCmd' \in [n : {asked}, text : {"", "key", "other", "unknown"}]
    BY <1>1, <2>1
  <2>4. mBufId' \in [token : BOOLEAN, cmd : {TRUE}]
    BY <1>1, <2>1
  <2>5. Takes(b)
    BY <1>5, <2>1, <2>2, <2>3, <2>4 DEF Takes
  <2> QED
    BY <2>5
<1> QED
  BY <1>2, <1>3, <1>4, <1>5 DEF ByteProcess

\* A byte of the scheduler brings at most a command that has not been answered.
LEMMA BytesHold ==
  ASSUME BaseInv, SendInv', UNCHANGED targetVars, UNCHANGED <<tx, asked, text, answers>>,
         expects' \in BOOLEAN, sends' \in {"no", "start", "id", "text", "end"},
         sends' # "no" => sends # "no",
         NEW b, Hears \/ Opens(b) \/ Stores \/ Takes(b) \/ UNCHANGED <<rcvVars, accepted>>,
         b = "end" => sends # "no" /\ sends' = "no" /\ IsTicked
  PROVE  BaseInv'
<1> USE DEF BaseInv
<1>1. UNCHANGED <<mState, mSyncedTransfer, mValidIdTx, mpDataTx, dbgState, mStateCmd, mModeDebug,
                  outCmd, mValidBuf, turn, pc>>
  BY DEF targetVars, dbgVars
<1>2. TxTyped' /\ DbgTyped' /\ LogTyped' /\ Pointed'
  BY DEF targetVars, dbgVars, logVars, Types, TxTyped, DbgTyped, LogTyped, Pointed
<1>3. /\ mBufId \in [token : BOOLEAN, cmd : BOOLEAN]
      /\ inCmd \in [n : 0 .. MaxCmd, text : {"", "key", "other", "unknown"}]
  BY DEF Types, RcvTyped
<1>0. /\ asked \in 0 .. MaxCmd /\ outCmd \in 0 .. MaxCmd /\ ends \in Nat
      /\ mIdxBufDataWrite \in 0 .. SizeBufIn
  BY DEF Types, RcvTyped, SchedTyped, DbgTyped
<1>4. \A n : (Out(n)' <=> Out(n))
  BY <1>1 DEF Out, Leaving
<1>5. ASSUME ~ Takes(b) PROVE BaseInv'
  <2>1. /\ mBufId' \in [token : BOOLEAN, cmd : BOOLEAN] /\ mBufId'.cmd = mBufId.cmd
        /\ inCmd' \in [n : 0 .. MaxCmd, text : {"", "key", "other", "unknown"}] /\ inCmd'.n = inCmd.n
        /\ UNCHANGED <<ends, accepted>>
    BY <1>3, <1>5 DEF Hears, Opens, Stores, rcvVars
  <2>2. /\ mIdxBufDataWrite' \in 0 .. SizeBufIn
        /\ mStateRcv' \in {"StRcvStart", "StRcvContentId", "StRcvContentData"}
        /\ mStateRcv' = "StRcvContentData" => mIdxBufDataWrite' < SizeBufIn
    <3>1. CASE Hears \/ UNCHANGED <<rcvVars, accepted>>
      BY <1>0, <3>1 DEF Hears, rcvVars, Ordered, Types, RcvTyped
    <3>2. CASE Opens(b)
      <4>1. 0 \in 0 .. SizeBufIn /\ 0 < SizeBufIn
        BY Bounds
      <4> QED
        BY <3>2, <4>1 DEF Opens
    <3>3. CASE Stores
      <4>1. mIdxBufDataWrite \in Nat /\ mIdxBufDataWrite < SizeBufIn /\ mIdxBufDataWrite' = mIdxBufDataWrite + 1
        BY <1>0, <3>3, Bounds DEF Stores, Ordered
      <4>2. mIdxBufDataWrite' \in 0 .. SizeBufIn
        BY <4>1, Bounds
      <4> QED
        BY <3>3, <4>2 DEF Stores
    <3> QED
      BY <1>5, <3>1, <3>2, <3>3
  <2>3. RcvTyped' /\ SchedTyped'
    BY <2>1, <2>2 DEF Types, RcvTyped, SchedTyped
  <2>4. Free' <=> Free
    BY <1>1, <2>1 DEF Free
  <2>5. Placed' /\ Ordered'
    BY <1>1, <2>1, <2>2, <2>4 DEF Placed, Ordered
  <2>6. Twice'
    BY <1>1, <1>4, <2>1 DEF Twice, In
  <2> QED
    BY <1>2, <2>3, <2>5, <2>6 DEF Types
<1>6. ASSUME Takes(b) PROVE BaseInv'
  <2>1. sends' = "no" /\ asked \in Commands /\ outCmd < asked /\ answers[asked] = 0 /\ IsTicked
    <3>1. sends # "no" /\ sends' = "no" /\ IsTicked
      BY <1>6 DEF Takes
    <3>2. asked > 0 /\ outCmd < asked /\ answers[asked] = 0
      BY <3>1 DEF Ordered
    <3> QED
      BY <1>0, <3>1, <3>2, Bounds DEF Commands
  <2>2. /\ mStateRcv' = "StRcvStart" /\ accepted' = accepted \cup {asked}
        /\ mBufId'.cmd = TRUE /\ mBufId' \in [token : BOOLEAN, cmd : BOOLEAN]
        /\ inCmd'.n = asked /\ inCmd' \in [n : 0 .. MaxCmd, text : {"", "key", "other", "unknown"}]
        /\ mIdxBufDataWrite' = mIdxBufDataWrite /\ ends' \in Nat
    <3>1. {asked} \subseteq 0 .. MaxCmd
      BY <1>0
    <3>2. ends' \in 1 .. ends + 1
      BY <1>6 DEF Takes
    <3>3. ends' \in Nat
      BY <1>0, <3>2
    <3> QED
      BY <1>3, <1>6, <3>1, <3>3 DEF Takes
  <2>3. RcvTyped' /\ SchedTyped'
    BY <1>0, <2>1, <2>2 DEF Types, RcvTyped, SchedTyped
  <2>4. Placed'
    BY <1>1, <2>1, <2>2 DEF Placed, IsTicked
  <2>5. Ordered'
    <3>1. asked > 0 /\ asked <= asked /\ outCmd <= asked
      BY <1>0, <2>1, Bounds DEF Commands
    <3> QED
      BY <1>1, <2>1, <2>2, <3>1 DEF Ordered
  <2>6. Twice'
    <3>1. \A n : Out(n)' => n # asked
      BY <1>0, <1>1, <2>1, Bounds DEF Out
    <3>2. \A n : In(n)' => n = asked
      BY <2>2 DEF In
    <3>3. \A n \in Commands : answers[n] = 0 => answers[n] <= 1
      OBVIOUS
    <3> QED
      BY <1>1, <1>4, <2>1, <2>2, <3>1, <3>2, <3>3 DEF Twice
  <2> QED
    BY <1>2, <2>3, <2>4, <2>5, <2>6 DEF Types
<1> QED
  BY <1>5, <1>6

\* A poll arrives.
LEMMA PollHolds == ASSUME BaseInv, Poll PROVE BaseInv'
<1>1. SendInv' /\ RcvTyped /\ text \in {"key", "other"}
  BY SchedulerKeeps DEF BaseInv, Types, RcvTyped, SchedTyped
<1>2. Hears \/ Opens("token") \/ Stores \/ Takes("token")
  BY <1>1, ByteKinds DEF Poll
<1> QED
  BY <1>1, <1>2, BytesHold DEF Poll

\* A byte of a command arrives, or is lost.
LEMMA ByteHolds == ASSUME BaseInv, ByteArrives PROVE BaseInv'
<1>1. SendInv' /\ RcvTyped /\ text \in {"key", "other"} /\ expects \in BOOLEAN
        /\ sends \in {"no", "start", "id", "text", "end"}
  BY SchedulerKeeps DEF BaseInv, Types, RcvTyped, SchedTyped
<1>2. /\ sends # "no" /\ sends' \in {"no", "start", "id", "text", "end"}
      /\ sends = "end" => sends' = "no" /\ IsTicked
  BY <1>1 DEF ByteArrives, NextByte
<1>3. Hears \/ Opens(sends) \/ Stores \/ Takes(sends) \/ UNCHANGED <<rcvVars, accepted>>
  BY <1>1, ByteKinds DEF ByteArrives
<1> QED
  BY <1>1, <1>2, <1>3, BytesHold DEF ByteArrives

\* Before the first byte.
LEMMA InitBase == Init => BaseInv
<1> SUFFICES ASSUME Init PROVE BaseInv
  OBVIOUS
<1>1. SendInv
  BY InitSend
<1>2. ends \in Nat /\ stale \in Nat
  <2>1. EndsAtStart \in Nat
    BY SingleWireAssumption
  <2>2. ends \in 0 .. EndsAtStart /\ stale = ends
    BY DEF Init
  <2> QED
    BY <2>1, <2>2
<1>0. tx = NoTx /\ tx.content = "no" /\ answers \in [Commands -> {0}] /\ tx.n = 0
  BY DEF Init, NoTx
<1>3. Free /\ mBufId.token = FALSE
  BY DEF Init, Free
<1>4. Types
  <2>1. 0 \in 0 .. MaxCmd /\ 0 \in 0 .. SizeBufIn /\ 0 \in 0 .. CntDelayMin /\ 0 \in 0 .. NumLogs /\ ends \in Nat
    BY <1>2, Bounds
  <2>2. TxTyped
    <3>1. tx \in [content : {"no", "None", "Cmd", "Log", "Proc", "Unsolicited"}, n : Nat]
      BY <1>0 DEF NoTx
    <3> QED
      BY <3>1 DEF Init, TxTyped
  <2>3. RcvTyped
    BY <2>1 DEF Init, RcvTyped
  <2>4. DbgTyped /\ LogTyped
    BY <2>1 DEF Init, DbgTyped, LogTyped
  <2>5. SchedTyped
    <3>1. answers \in [Commands -> 0 .. 3]
      BY <1>0
    <3> QED
      BY <2>1, <3>1 DEF Init, SchedTyped
  <2> QED
    BY <2>2, <2>3, <2>4, <2>5 DEF Types
<1>5. Placed /\ Pointed
  BY <1>0, <1>3 DEF Init, Placed, Pointed
<1>6. Ordered
  <2>1. "OutCmd" \notin mValidBuf /\ mStateCmd = "StCmdRcvdWait" /\ sends = "no" /\ outCmd = 0 /\ asked = 0
              /\ inCmd.n = 0 /\ mStateRcv = "StRcvStart"
    BY DEF Init
  <2>2. \A n \in Commands : answers[n] = 0
    BY <1>0
  <2> QED
    BY <1>3, <2>1, <2>2 DEF Ordered
<1>7. Twice
  <2>1. "OutCmd" \notin mValidBuf /\ mStateCmd = "StCmdRcvdWait" /\ tx.content # "Cmd"
    BY <1>0 DEF Init
  <2>2. \A n \in Commands : answers[n] = 0
    BY <1>0
  <2> QED
    BY <1>3, <2>1, <2>2 DEF Twice, Out, In, Free
<1> QED
  BY <1>1, <1>4, <1>5, <1>6, <1>7 DEF BaseInv

\* Every step.
LEMMA NextBase == BaseInv /\ [Next]_vars => BaseInv'
<1> SUFFICES ASSUME BaseInv, [Next]_vars PROVE BaseInv'
  OBVIOUS
<1>1. CASE UNCHANGED vars
  <2>1. SendInv'
    BY NextSend DEF BaseInv
  <2>2. Types'
    <3>1. TxTyped'
      BY <1>1 DEF vars, txVars, BaseInv, Types, TxTyped
    <3>2. RcvTyped'
      BY <1>1 DEF vars, rcvVars, BaseInv, Types, RcvTyped
    <3>3. DbgTyped'
      BY <1>1 DEF vars, dbgVars, BaseInv, Types, DbgTyped
    <3>4. LogTyped' /\ SchedTyped'
      BY <1>1 DEF vars, logVars, schedVars, BaseInv, Types, LogTyped, SchedTyped
    <3> QED
      BY <3>1, <3>2, <3>3, <3>4 DEF Types
  <2>3. Placed' /\ Ordered' /\ Pointed' /\ Twice'
    BY <1>1 DEF vars, txVars, rcvVars, dbgVars, logVars, schedVars, BaseInv, Placed, Ordered,
      Pointed, Twice, Out, In, Leaving, Free
  <2> QED
    BY <2>1, <2>2, <2>3 DEF BaseInv
<1>2. CASE SwtTick
  BY <1>2, StartHolds, FlowHolds, SendHolds, SentWaitHolds, SentHolds, ReceiveHolds DEF SwtTick
<1>3. CASE DbgTick
  BY <1>3, DbgStartHolds, RcvdWaitHolds, InterpretHolds, SendStartHolds DEF DbgTick, CommandInterpret
<1>4. CASE SwtWaited \/ UnsolicitedSent \/ LogSent \/ ProcTreeSend \/ Log
  BY <1>4, WaitedHolds, UnsolicitedHolds, LogSentHolds, TreeSendHolds, LogHolds
<1>5. CASE DataSent \/ Poll \/ PollFails \/ CommandBegins \/ ByteArrives
  BY <1>5, DataSentHolds, PollHolds, PollFailsHolds, BeginHolds, ByteHolds
<1> QED
  BY <1>1, <1>2, <1>3, <1>4, <1>5 DEF Next, Loop

-----------------------------------------------------------------------------
(***************************************************************************)
(* The rest of WireInv, and one answer for a command, for commands that come *)
(* one by one. They rest on the order of the ticks: between                  *)
(* dataInTerminate() of a command and the answer to it the transfer process  *)
(* comes to the end bytes that are left.                                    *)
(***************************************************************************)

(* What is being processed is the last command                                 *)
Numbered ==
  /\ ~ Free => inCmd.n = asked /\ asked > 0
  /\ mStateCmd = "StCmdSendStart" => outCmd = asked

(* The scheduler sends, and the interrupt writes, only when nothing is left    *)
Quietly ==
  /\ sends # "no" \/ mStateRcv = "StRcvContentData" => Free
  /\ tx.content = "Cmd" /\ tx.n = asked => Free
  /\ asked \in Commands /\ answers[asked] > 0 => Free
  /\ "OutCmd" \in mValidBuf /\ outCmd = asked => "InCmd" \notin mValidBuf /\ ends = 0

(* The end bytes that are left, and who comes to them first                    *)
EndsLeft ==
  /\ ends \in 0 .. 2
  /\ ~ mBufId.cmd \/ "InCmd" \in mValidBuf \/ "OutCmd" \in mValidBuf => ends < 2
  /\ ~ mBufId.cmd /\ ("InCmd" \in mValidBuf \/ "OutCmd" \in mValidBuf) => ends = 0
  /\ "InCmd" \in mValidBuf /\ mStateCmd = "StCmdRcvdWait" /\ "OutCmd" \notin mValidBuf =>
       turn = "dbg" /\ (ends = 1 => mState = "StFlowControlRcvdWait")
  /\ mStateCmd = "StCmdInterpret" /\ ends = 1 =>
       mState = IF turn = "dbg" THEN "StCmdReceive" ELSE "StFlowControlRcvdWait"
  /\ mStateCmd = "StCmdSendStart" /\ ends = 1 => turn # "dbg" /\ mState = "StCmdReceive"

(* No answer is sent twice                                                     *)
Once ==
  ~ mSyncedTransfer =>
    /\ \A n \in Commands : answers[n] <= 1
    /\ tx.content = "Cmd" => mValidIdTx = "OutCmd" /\ answers[tx.n] = 0
    /\ "OutCmd" \in mValidBuf /\ ~ Leaving => answers[outCmd] = 0

LinkInv == BaseInv /\ Numbered /\ Quietly /\ EndsLeft /\ Once

-----------------------------------------------------------------------------
(* The ticks of the transfer process                                            *)
LEMMA StartLinks == ASSUME LinkInv, SwtTick, SwtStart PROVE LinkInv'
<1> USE Bounds DEF LinkInv, BaseInv, Types, TxTyped, RcvTyped, DbgTyped, LogTyped, SchedTyped, Free, Commands, NoTx,
         txVars, rcvVars, dbgVars, logVars, schedVars, targetVars, SendInv, Typed, Waited, Marked,
         SwtTick, SwtStart
<1>a. BaseInv'
  BY StartHolds
<1>b. Numbered'
  BY DEF Numbered, Placed, Quietly, EndsLeft, Ordered
<1>c. Quietly'
  BY DEF Quietly, Numbered, Placed, EndsLeft, Ordered
<1>d. EndsLeft'
  BY DEF EndsLeft, Placed, Numbered, Quietly, Ordered
<1>e. Once'
  BY DEF Once, Placed, Numbered, Quietly, Leaving, BufferKept, NumberOf, Flag
<1> QED
  BY ONLY <1>a, <1>b, <1>c, <1>d, <1>e DEF LinkInv

(* A command goes first. Its end bytes are looked at in the next tick.          *)
LEMMA FlowLinks == ASSUME LinkInv, SwtTick, FlowControlRcvdWait PROVE LinkInv'
<1>1. /\ turn = "swt" /\ turn' = "dbg" /\ mState = "StFlowControlRcvdWait"
      /\ mBufId.cmd => mState' = "StCmdReceive" /\ mBufId' = mBufId
      /\ ~ mBufId.cmd => ~ mBufId'.cmd
      /\ UNCHANGED <<mValidBuf, mStateCmd, ends>>
  BY DEF SwtTick, FlowControlRcvdWait, dbgVars, LinkInv, BaseInv, Types, RcvTyped
<1>2. mStateCmd # "StCmdRcvdWait" => "InCmd" \in mValidBuf
  BY DEF LinkInv, BaseInv, Ordered
<1>3. EndsLeft'
  <2>1. CASE mBufId.cmd
    BY <1>1, <1>2, <2>1 DEF LinkInv, BaseInv, EndsLeft
  <2>2. CASE ~ mBufId.cmd
    BY <1>1, <1>2, <2>2 DEF LinkInv, BaseInv, EndsLeft
  <2> QED
    BY <2>1, <2>2
<1> USE Bounds DEF LinkInv, BaseInv, Types, TxTyped, RcvTyped, DbgTyped, LogTyped, SchedTyped, Free, Commands, NoTx,
         txVars, rcvVars, dbgVars, logVars, schedVars, targetVars, SendInv, Typed, Waited, Marked,
         SwtTick, FlowControlRcvdWait
<1>a. BaseInv'
  BY FlowHolds
<1>b. Numbered'
  BY DEF Numbered, Placed, Quietly, EndsLeft, Ordered
<1>c. Quietly'
  BY DEF Quietly, Numbered, Placed, EndsLeft, Ordered
<1>d. Once'
  BY DEF Once, Placed, Numbered, Quietly, Leaving, BufferKept, NumberOf, Flag
<1> QED
  BY ONLY <1>a, <1>b, <1>c, <1>3, <1>d DEF LinkInv

\* A content is chosen and its first byte sent: ContentOutSend.
LEMMA SendLinks == ASSUME LinkInv, SwtTick, ContentOutSend PROVE LinkInv'
<1> USE Bounds DEF LinkInv, BaseInv, Types, TxTyped, RcvTyped, DbgTyped, LogTyped, SchedTyped, Free, Commands, NoTx,
         txVars, rcvVars, dbgVars, logVars, schedVars, targetVars, SendInv, Typed, Waited, Marked,
         SwtTick, ContentOutSend, Chosen, Send, NumberOf, Flag
<1>a. BaseInv'
  BY SendHolds
<1>b. Numbered'
  BY DEF Numbered, Placed, Quietly, EndsLeft, Ordered
<1>c. Quietly'
  BY DEF Quietly, Numbered, Placed, EndsLeft, Ordered
<1>d. EndsLeft'
  BY DEF EndsLeft, Placed, Numbered, Quietly, Ordered
<1>e. Once'
  BY DEF Once, Placed, Numbered, Quietly, Leaving, BufferKept, NumberOf, Flag
<1> QED
  BY ONLY <1>a, <1>b, <1>c, <1>d, <1>e DEF LinkInv

\* The transfer process finds the content sent, or not.
LEMMA SentWaitLinks == ASSUME LinkInv, SwtTick, ContentOutSentWait PROVE LinkInv'
<1> USE Bounds DEF LinkInv, BaseInv, Types, TxTyped, RcvTyped, DbgTyped, LogTyped, SchedTyped, Free, Commands, NoTx,
         txVars, rcvVars, dbgVars, logVars, schedVars, targetVars, SendInv, Typed, Waited, Marked,
         SwtTick, ContentOutSentWait
<1>a. BaseInv'
  BY SentWaitHolds
<1>b. Numbered'
  BY DEF Numbered, Placed, Quietly, EndsLeft, Ordered
<1>c. Quietly'
  BY DEF Quietly, Numbered, Placed, EndsLeft, Ordered
<1>d. EndsLeft'
  BY DEF EndsLeft, Placed, Numbered, Quietly, Ordered
<1>e. Once'
  BY DEF Once, Placed, Numbered, Quietly, Leaving, BufferKept, NumberOf, Flag
<1> QED
  BY ONLY <1>a, <1>b, <1>c, <1>d, <1>e DEF LinkInv

\* The flag of what was sent is cleared.
LEMMA SentLinks == ASSUME LinkInv, SwtTick, ContentOutSent PROVE LinkInv'
<1> USE Bounds DEF LinkInv, BaseInv, Types, TxTyped, RcvTyped, DbgTyped, LogTyped, SchedTyped, Free, Commands, NoTx,
         txVars, rcvVars, dbgVars, logVars, schedVars, targetVars, SendInv, Typed, Waited, Marked,
         SwtTick, ContentOutSent
<1>a. BaseInv'
  BY SentHolds
<1>b. Numbered'
  BY DEF Numbered, Placed, Quietly, EndsLeft, Ordered
<1>c. Quietly'
  BY DEF Quietly, Numbered, Placed, EndsLeft, Ordered
<1>d. EndsLeft'
  BY DEF EndsLeft, Placed, Numbered, Quietly, Ordered
<1>e. Once'
  BY DEF Once, Placed, Numbered, Quietly, Leaving, BufferKept, NumberOf, Flag
<1> QED
  BY ONLY <1>a, <1>b, <1>c, <1>d, <1>e DEF LinkInv

(* One end byte is taken at a time: there are at most two, and the second one is  *)
(* gone before the debug process has written the answer.                        *)
LEMMA ReceiveLinks == ASSUME LinkInv, SwtTick, CmdReceive PROVE LinkInv'
<1>1. turn = "swt" /\ turn' = "dbg" /\ mState = "StCmdReceive" /\ mState' = "StFlowControlRcvdWait"
  BY DEF SwtTick, CmdReceive
<1>2. UNCHANGED <<mStateRcv, mIdxBufDataWrite, inCmd, tx, mStateCmd, outCmd, asked, answers, sends>>
  BY DEF SwtTick, CmdReceive, dbgVars, schedVars
<1>3. ends \in 0 .. 2 /\ mBufId.cmd /\ mBufId \in [token : BOOLEAN, cmd : BOOLEAN]
  BY <1>1 DEF LinkInv, BaseInv, EndsLeft, Placed, Types, RcvTyped
<1>4. ASSUME ends = 0 PROVE Quietly' /\ EndsLeft'
  <2>1. mBufId' = [mBufId EXCEPT !.cmd = FALSE] /\ ends' = 0 /\ mValidBuf' = mValidBuf
    BY <1>3, <1>4 DEF CmdReceive
  <2> QED
    BY <1>1, <1>2, <1>3, <2>1, <1>4 DEF LinkInv, BaseInv, Quietly, EndsLeft, Free
<1>5. ASSUME ends # 0 PROVE Quietly' /\ EndsLeft'
  <2>1. ends' = ends - 1 /\ mValidBuf' = mValidBuf \cup {"InCmd"} /\ mBufId' = mBufId
    BY <1>3, <1>5 DEF CmdReceive
  <2>2. \/ ends = 1 /\ ends' = 0
        \/ ends = 2 /\ ends' = 1
    BY <1>3, <1>5, <2>1
  <2>4. Quietly'
    <3>1. ~ Free
      BY <1>3 DEF Free
    <3> QED
      BY <1>2, <1>3, <1>5, <2>1, <3>1 DEF LinkInv, BaseInv, Quietly
  <2>5. CASE ends = 1
    BY <1>1, <1>2, <1>3, <2>1, <2>2, <2>4, <2>5 DEF LinkInv, BaseInv, EndsLeft
  <2>6. CASE ends = 2
    <3>1. "InCmd" \notin mValidBuf /\ "OutCmd" \notin mValidBuf
      BY <2>6 DEF LinkInv, BaseInv, EndsLeft
    <3>2. mStateCmd = "StCmdRcvdWait"
      BY <3>1 DEF LinkInv, BaseInv, Ordered
    <3>3. EndsLeft'
      BY <1>1, <1>2, <1>3, <2>1, <2>2, <2>6, <3>1, <3>2 DEF EndsLeft
    <3> QED
      BY <2>4, <3>3
  <2> QED
    BY <2>2, <2>5, <2>6
<1>6. Quietly' /\ EndsLeft'
  BY <1>4, <1>5
<1> USE Bounds DEF LinkInv, BaseInv, Types, TxTyped, RcvTyped, DbgTyped, LogTyped, SchedTyped, Free, Commands, NoTx,
         txVars, rcvVars, dbgVars, logVars, schedVars, targetVars, SendInv, Typed, Waited, Marked,
         SwtTick, CmdReceive
<1>a. BaseInv'
  BY ReceiveHolds
<1>b. Numbered'
  BY DEF Numbered, Placed, Quietly, EndsLeft, Ordered
<1>c. Once'
  BY ZenonT(40) DEF Once, Placed, Numbered, Quietly, Leaving, BufferKept, NumberOf, Flag
<1> QED
  BY ONLY <1>a, <1>b, <1>6, <1>c DEF LinkInv

(* The loops that wait for the end of what is sent                              *)
LEMMA WaitedLinks == ASSUME LinkInv, SwtWaited PROVE LinkInv'
<1> USE Bounds DEF LinkInv, BaseInv, Types, TxTyped, RcvTyped, DbgTyped, LogTyped, SchedTyped, Free, Commands, NoTx,
         txVars, rcvVars, dbgVars, logVars, schedVars, targetVars, SendInv, Typed, Waited, Marked,
         SwtWaited
<1>a. BaseInv'
  BY WaitedHolds
<1>b. Numbered'
  BY DEF Numbered, Placed, Quietly, EndsLeft, Ordered
<1>c. Quietly'
  BY DEF Quietly, Numbered, Placed, EndsLeft, Ordered
<1>d. EndsLeft'
  BY DEF EndsLeft, Placed, Numbered, Quietly, Ordered
<1>e. Once'
  BY DEF Once, Placed, Numbered, Quietly, Leaving, BufferKept, NumberOf, Flag
<1> QED
  BY ONLY <1>a, <1>b, <1>c, <1>d, <1>e DEF LinkInv

\* The byte of an entry that is sent at once has gone out.
LEMMA UnsolicitedLinks == ASSUME LinkInv, UnsolicitedSent PROVE LinkInv'
<1> USE Bounds DEF LinkInv, BaseInv, Types, TxTyped, RcvTyped, DbgTyped, LogTyped, SchedTyped, Free, Commands, NoTx,
         txVars, rcvVars, dbgVars, logVars, schedVars, targetVars, SendInv, Typed, Waited, Marked,
         UnsolicitedSent, Send
<1>a. BaseInv'
  BY UnsolicitedHolds
<1>b. Numbered'
  BY DEF Numbered, Placed, Quietly, EndsLeft, Ordered
<1>c. Quietly'
  BY DEF Quietly, Numbered, Placed, EndsLeft, Ordered
<1>d. EndsLeft'
  BY DEF EndsLeft, Placed, Numbered, Quietly, Ordered
<1>e. Once'
  BY DEF Once, Placed, Numbered, Quietly, Leaving, BufferKept, NumberOf, Flag
<1> QED
  BY ONLY <1>a, <1>b, <1>c, <1>d, <1>e DEF LinkInv

\* The entry itself has gone out.
LEMMA LogSentLinks == ASSUME LinkInv, LogSent PROVE LinkInv'
<1> USE Bounds DEF LinkInv, BaseInv, Types, TxTyped, RcvTyped, DbgTyped, LogTyped, SchedTyped, Free, Commands, NoTx,
         txVars, rcvVars, dbgVars, logVars, schedVars, targetVars, SendInv, Typed, Waited, Marked,
         LogSent
<1>a. BaseInv'
  BY LogSentHolds
<1>b. Numbered'
  BY DEF Numbered, Placed, Quietly, EndsLeft, Ordered
<1>c. Quietly'
  BY DEF Quietly, Numbered, Placed, EndsLeft, Ordered
<1>d. EndsLeft'
  BY DEF EndsLeft, Placed, Numbered, Quietly, Ordered
<1>e. Once'
  BY DEF Once, Placed, Numbered, Quietly, Leaving, BufferKept, NumberOf, Flag
<1> QED
  BY ONLY <1>a, <1>b, <1>c, <1>d, <1>e DEF LinkInv

(* The ticks of the debug process                                               *)
LEMMA DbgStartLinks == ASSUME LinkInv, DbgTick, dbgState # "StMain" PROVE LinkInv'
<1> USE Bounds DEF LinkInv, BaseInv, Types, TxTyped, RcvTyped, DbgTyped, LogTyped, SchedTyped, Free, Commands, NoTx,
         txVars, rcvVars, dbgVars, logVars, schedVars, targetVars, SendInv, Typed, Waited, Marked,
         DbgTick, DbgStart, CommandInterpret
<1>a. BaseInv'
  BY DbgStartHolds
<1>b. Numbered'
  BY DEF Numbered, Placed, Quietly, EndsLeft, Ordered
<1>c. Quietly'
  BY DEF Quietly, Numbered, Placed, EndsLeft, Ordered
<1>d. EndsLeft'
  BY DEF EndsLeft, Placed, Numbered, Quietly, Ordered
<1>e. Once'
  BY DEF Once, Placed, Numbered, Quietly, Leaving, BufferKept, NumberOf, Flag
<1> QED
  BY ONLY <1>a, <1>b, <1>c, <1>d, <1>e DEF LinkInv

\* The debug process looks for a command.
LEMMA RcvdWaitLinks == ASSUME LinkInv, DbgTick, dbgState = "StMain", CmdRcvdWait PROVE LinkInv'
<1> USE Bounds DEF LinkInv, BaseInv, Types, TxTyped, RcvTyped, DbgTyped, LogTyped, SchedTyped, Free, Commands, NoTx,
         txVars, rcvVars, dbgVars, logVars, schedVars, targetVars, SendInv, Typed, Waited, Marked,
         DbgTick, CmdRcvdWait
<1>a. BaseInv'
  BY RcvdWaitHolds
<1>b. Numbered'
  BY DEF Numbered, Placed, Quietly, EndsLeft, Ordered
<1>c. Quietly'
  BY DEF Quietly, Numbered, Placed, EndsLeft, Ordered
<1>d. EndsLeft'
  BY DEF EndsLeft, Placed, Numbered, Quietly, Ordered
<1>e. Once'
  BY DEF Once, Placed, Numbered, Quietly, Leaving, BufferKept, NumberOf, Flag
<1> QED
  BY ONLY <1>a, <1>b, <1>c, <1>d, <1>e DEF LinkInv

\* The answer is that of the command that was asked last.
LEMMA InterpretLinks == ASSUME LinkInv, DbgTick, dbgState = "StMain", CmdInterpret PROVE LinkInv'
<1> USE Bounds DEF LinkInv, BaseInv, Types, TxTyped, RcvTyped, DbgTyped, LogTyped, SchedTyped, Free, Commands, NoTx,
         txVars, rcvVars, dbgVars, logVars, schedVars, targetVars, SendInv, Typed, Waited, Marked,
         DbgTick, CmdInterpret
<1>a. BaseInv'
  BY InterpretHolds
<1>b. Numbered'
  BY DEF Numbered, Placed, Quietly, EndsLeft, Ordered
<1>c. Quietly'
  BY DEF Quietly, Numbered, Placed, EndsLeft, Ordered
<1>d. EndsLeft'
  BY DEF EndsLeft, Placed, Numbered, Quietly, Ordered
<1>e. Once'
  BY DEF Once, Placed, Numbered, Quietly, Leaving, BufferKept, NumberOf, Flag
<1> QED
  BY ONLY <1>a, <1>b, <1>c, <1>d, <1>e DEF LinkInv

(* Nothing is left of the command when its answer is written, and it has not    *)
(* been answered before.                                                        *)
LEMMA SendStartLinks == ASSUME LinkInv, DbgTick, dbgState = "StMain", CmdSendStart PROVE LinkInv'
<1>1. /\ mStateCmd = "StCmdSendStart" /\ mStateCmd' = "StCmdRcvdWait"
      /\ mValidBuf' = (mValidBuf \ {"InCmd"}) \cup {"OutCmd"}
  BY DEF CmdSendStart
<1>2. /\ turn = "dbg" /\ turn' = "tree"
      /\ UNCHANGED <<mBufId, ends, txVars, mStateRcv, mIdxBufDataWrite, outCmd, asked, answers, sends>>
  BY DEF DbgTick, CommandInterpret, CmdSendStart, schedVars
<1>3. outCmd = asked /\ "InCmd" \in mValidBuf /\ ~ Free
  BY <1>1 DEF LinkInv, BaseInv, Numbered, Ordered, Free
<1>4. ends = 0
  BY <1>1, <1>2, <1>3 DEF LinkInv, BaseInv, EndsLeft
<1>5. sends = "no" /\ mStateRcv # "StRcvContentData" /\ ~ (tx.content = "Cmd" /\ tx.n = asked)
        /\ ~ (asked \in Commands /\ answers[asked] > 0)
  BY <1>3 DEF LinkInv, BaseInv, Quietly
<1>6. asked \in Commands /\ answers[asked] = 0
  <2>1. asked > 0 /\ asked \in 0 .. MaxCmd
    BY <1>3 DEF LinkInv, BaseInv, Types, SchedTyped, Numbered
  <2>2. asked \in Commands
    BY <2>1, Bounds DEF Commands
  <2>3. answers[asked] \in 0 .. 3
    BY <2>2 DEF LinkInv, BaseInv, Types, SchedTyped
  <2> QED
    BY <1>5, <2>2, <2>3
<1>7. Quietly'
  BY <1>1, <1>2, <1>4, <1>5 DEF LinkInv, BaseInv, Quietly, txVars
<1>8. EndsLeft'
  BY <1>1, <1>2, <1>4 DEF LinkInv, BaseInv, EndsLeft, txVars
<1>9. Once'
  BY <1>2, <1>3, <1>6 DEF LinkInv, BaseInv, Once, txVars
<1> USE Bounds DEF LinkInv, BaseInv, Types, TxTyped, RcvTyped, DbgTyped, LogTyped, SchedTyped, Free, Commands, NoTx,
         txVars, rcvVars, dbgVars, logVars, schedVars, targetVars, SendInv, Typed, Waited, Marked,
         DbgTick, CmdSendStart
<1>a. BaseInv'
  BY SendStartHolds
<1>b. Numbered'
  BY DEF Numbered, Placed, Quietly, EndsLeft, Ordered
<1> QED
  BY ONLY <1>a, <1>b, <1>7, <1>8, <1>9 DEF LinkInv

\* The tree is offered.
LEMMA TreeSendLinks == ASSUME LinkInv, ProcTreeSend PROVE LinkInv'
<1>1. mValidBuf' \subseteq mValidBuf \cup {"OutProc"} /\ mValidBuf \subseteq mValidBuf'
  BY DEF ProcTreeSend
<1>2. UNCHANGED <<txVars, dbgState, mStateCmd, outCmd, mModeDebug, refused, schedVars>>
  BY DEF ProcTreeSend
<1>3. Once'
  BY <1>1, <1>2 DEF LinkInv, BaseInv, Once, Leaving, txVars, schedVars
<1> USE Bounds DEF LinkInv, BaseInv, Types, TxTyped, RcvTyped, DbgTyped, LogTyped, SchedTyped, Free, Commands, NoTx,
         txVars, rcvVars, dbgVars, logVars, schedVars, targetVars, SendInv, Typed, Waited, Marked,
         ProcTreeSend
<1>a. BaseInv'
  BY TreeSendHolds
<1>b. Numbered'
  BY DEF Numbered, Placed, Quietly, EndsLeft, Ordered
<1>c. Quietly'
  BY DEF Quietly, Numbered, Placed, EndsLeft, Ordered
<1>d. EndsLeft'
  BY DEF EndsLeft, Placed, Numbered, Quietly, Ordered
<1> QED
  BY ONLY <1>a, <1>b, <1>c, <1>d, <1>3 DEF LinkInv

(* An entry touches only its own buffer, and the transfer process waits.          *)
LEMMA LogLinks == ASSUME LinkInv, Log PROVE LinkInv'
<1>1. /\ tx' = tx \/ tx' = [content |-> "Unsolicited", n |-> 0]
      /\ mValidBuf' = mValidBuf \/ mValidBuf' = mValidBuf \cup {"OutLog"}
      /\ UNCHANGED <<mState, mSyncedTransfer, mValidIdTx, mpDataTx, rcvVars, dbgVars, schedVars, turn>>
  BY DEF Log, EntryLogEnqueue, Send
<1>2. Free' <=> Free
  BY <1>1 DEF Free, rcvVars, dbgVars
<1>3. Quietly'
  BY <1>1, <1>2 DEF LinkInv, BaseInv, Quietly, rcvVars, dbgVars, schedVars
<1>4. Once'
  <2>1. ~ mSyncedTransfer => (Leaving' <=> Leaving) /\ UNCHANGED tx
    BY DEF Leaving, Log, EntryLogEnqueue
  <2> QED
    BY <1>1, <2>1 DEF LinkInv, BaseInv, Once, dbgVars, schedVars
<1> USE Bounds DEF LinkInv, BaseInv, Types, TxTyped, RcvTyped, DbgTyped, LogTyped, SchedTyped, Free, Commands, NoTx,
         txVars, rcvVars, dbgVars, logVars, schedVars, targetVars, SendInv, Typed, Waited, Marked,
         Log, EntryLogEnqueue, CanLog, Send
<1>a. BaseInv'
  BY LogHolds
<1>b. Numbered'
  BY DEF Numbered, Placed, Quietly, EndsLeft, Ordered
<1>c. EndsLeft'
  BY DEF EndsLeft, Placed, Numbered, Quietly, Ordered
<1> QED
  BY ONLY <1>a, <1>b, <1>3, <1>c, <1>4 DEF LinkInv

\* Only an answer that is in its buffer is counted.
LEMMA DataSentLinks == ASSUME LinkInv, DataSent PROVE LinkInv'
<1>1. /\ tx' = NoTx /\ UNCHANGED <<sends, asked, text, accepted, outCmd, mValidBuf, mSyncedTransfer, mStateCmd, mBufId, inCmd>>
      /\ answers' = IF tx.content = "Cmd" THEN [answers EXCEPT ![tx.n] = IF @ < 3 THEN @ + 1 ELSE @] ELSE answers
      /\ expects' \in BOOLEAN
  BY DEF DataSent, targetVars, dbgVars, rcvVars
<1>2. answers \in [Commands -> 0 .. 3] /\ asked \in 0 .. MaxCmd /\ outCmd \in 0 .. MaxCmd
  BY DEF LinkInv, BaseInv, Types, SchedTyped, DbgTyped
<1>3. tx.content = "Cmd" => tx.n = outCmd
  BY DEF LinkInv, BaseInv, SendInv, BufferKept, NumberOf
<1>4. \A n \in Commands : answers'[n] # answers[n] => tx.content = "Cmd" /\ n = outCmd /\ answers'[n] = answers[n] + 1
  BY <1>1, <1>2, <1>3
<1>5. ~ mSyncedTransfer => \A n \in Commands : answers'[n] <= 1
  BY <1>2, <1>3, <1>4 DEF LinkInv, BaseInv, Once
<1>6. Once'
  BY <1>1, <1>2, <1>3, <1>4, <1>5 DEF LinkInv, BaseInv, Once, Leaving, SendInv, Waited, NoTx, DataSent, targetVars, Placed
<1> USE Bounds DEF LinkInv, BaseInv, Types, TxTyped, RcvTyped, DbgTyped, LogTyped, SchedTyped, Free, Commands, NoTx,
         txVars, rcvVars, dbgVars, logVars, schedVars, targetVars, SendInv, Typed, Waited, Marked,
         DataSent
<1>a. BaseInv'
  BY DataSentHolds
<1>b. Numbered'
  BY DEF Numbered, Placed, Quietly, EndsLeft, Ordered
<1>c. Quietly'
  BY DEF Quietly, Numbered, Placed, EndsLeft, Ordered
<1>d. EndsLeft'
  BY DEF EndsLeft, Placed, Numbered, Quietly, Ordered
<1> QED
  BY ONLY <1>a, <1>b, <1>c, <1>d, <1>6 DEF LinkInv

\* A poll is lost.
LEMMA PollFailsLinks == ASSUME LinkInv, PollFails PROVE LinkInv'
<1> USE Bounds DEF LinkInv, BaseInv, Types, TxTyped, RcvTyped, DbgTyped, LogTyped, SchedTyped, Free, Commands, NoTx,
         txVars, rcvVars, dbgVars, logVars, schedVars, targetVars, SendInv, Typed, Waited, Marked,
         PollFails
<1>a. BaseInv'
  BY PollFailsHolds
<1>b. Numbered'
  BY DEF Numbered, Placed, Quietly, EndsLeft, Ordered
<1>c. Quietly'
  BY DEF Quietly, Numbered, Placed, EndsLeft, Ordered
<1>d. EndsLeft'
  BY DEF EndsLeft, Placed, Numbered, Quietly, Ordered
<1>e. Once'
  BY DEF Once, Placed, Numbered, Quietly, Leaving, BufferKept, NumberOf, Flag
<1> QED
  BY ONLY <1>a, <1>b, <1>c, <1>d, <1>e DEF LinkInv

\* The next command is the last one: nothing is left of the one before.
LEMMA BeginLinks == ASSUME LinkInv, SchedWaits, CommandBegins PROVE LinkInv'
<1>1. /\ UNCHANGED <<mValidBuf, mStateCmd, mBufId>> /\ Free
  BY DEF CommandBegins, IsIdle, targetVars, dbgVars, rcvVars, Free, LinkInv, BaseInv, Quietly, Types, SchedTyped
<1>2. Free'
  BY <1>1 DEF Free
<1>3. Numbered'
  BY <1>1, <1>2 DEF Numbered, Free
<1> USE Bounds DEF LinkInv, BaseInv, Types, TxTyped, RcvTyped, DbgTyped, LogTyped, SchedTyped, Free, Commands, NoTx,
         txVars, rcvVars, dbgVars, logVars, schedVars, targetVars, SendInv, Typed, Waited, Marked,
         CommandBegins, IsIdle
<1>a. BaseInv'
  BY BeginHolds
<1>b. Quietly'
  BY DEF Quietly, Numbered, Placed, EndsLeft, Ordered
<1>c. EndsLeft'
  BY DEF EndsLeft, Placed, Numbered, Quietly, Ordered
<1>d. Once'
  BY DEF Once, Placed, Numbered, Quietly, Leaving, BufferKept, NumberOf, Flag
<1> QED
  BY ONLY <1>a, <1>3, <1>b, <1>c, <1>d DEF LinkInv

(* A byte of the scheduler comes when the target has nothing to do with a command. *)
LEMMA BytesLink ==
  ASSUME LinkInv, BaseInv', UNCHANGED targetVars, UNCHANGED <<tx, asked, text, answers>>,
         sends' # "no" => sends # "no",
         NEW b, Hears \/ Opens(b) \/ Stores \/ Takes(b) \/ UNCHANGED <<rcvVars, accepted>>,
         b = "id" => sends # "no",
         b = "end" => sends # "no" /\ sends' = "no" /\ IsTicked
  PROVE  LinkInv'
<1> USE DEF LinkInv, BaseInv
<1>1. UNCHANGED <<mState, mSyncedTransfer, mValidIdTx, mpDataTx, dbgState, mStateCmd, mModeDebug,
                  outCmd, mValidBuf, turn, pc>>
  BY DEF targetVars, dbgVars
<1>2. Once'
  BY <1>1 DEF Once, Leaving
<1>3. ends \in 0 .. 2 /\ asked \in 0 .. MaxCmd
  BY DEF Types, SchedTyped, EndsLeft
<1>4. ASSUME Hears \/ UNCHANGED <<rcvVars, accepted>> PROVE LinkInv'
  <2>1. UNCHANGED <<inCmd, ends>> /\ mBufId'.cmd = mBufId.cmd
          /\ mStateRcv' \in {mStateRcv, "StRcvStart", "StRcvContentId"}
    BY <1>4 DEF Hears, rcvVars
  <2>2. Free' <=> Free
    BY <1>1, <2>1 DEF Free
  <2>3. Numbered' /\ Quietly' /\ EndsLeft'
    BY <1>1, <2>1, <2>2 DEF Numbered, Quietly, EndsLeft
  <2> QED
    BY <1>2, <2>3
<1>5. ASSUME Opens(b) \/ Stores PROVE LinkInv'
  <2>1. UNCHANGED <<mBufId, ends>> /\ inCmd'.n = inCmd.n
    BY <1>5 DEF Opens, Stores
  <2>2. Free /\ Free'
    BY <1>1, <1>5, <2>1 DEF Free, Opens, Stores, Quietly
  <2>3. Numbered' /\ Quietly' /\ EndsLeft'
    BY <1>1, <2>1, <2>2 DEF Numbered, Quietly, EndsLeft
  <2> QED
    BY <1>2, <2>3
<1>6. ASSUME Takes(b) PROVE LinkInv'
  <2>1. /\ b = "end" /\ mStateRcv' = "StRcvStart" /\ mStateRcv = "StRcvContentData"
        /\ mBufId'.cmd = TRUE /\ inCmd'.n = asked
    BY <1>6 DEF Takes
  <2>2. Free /\ sends' = "no" /\ sends # "no"
    BY <2>1 DEF Quietly
  <2>3. asked \in 1 .. MaxCmd /\ outCmd < asked /\ answers[asked] = 0
    BY <1>3, <2>2, Bounds DEF Ordered
  <2>4. /\ ends < 2 /\ ("OutCmd" \in mValidBuf => ends = 0)
        /\ ends' \in 0 .. 2 /\ ("OutCmd" \in mValidBuf => ends' < 2)
    <3>1. ends < 2 /\ ("OutCmd" \in mValidBuf => ends = 0)
      BY <2>2 DEF Free, EndsLeft
    <3>2. ends' \in 1 .. ends + 1 /\ UNCHANGED mValidBuf
      BY <1>1, <1>6 DEF Takes
    <3> QED
      BY <1>3, <3>1, <3>2
  <2>5. Numbered'
    BY <1>1, <2>1, <2>2, <2>3 DEF Numbered, Free
  <2>6. ~ (tx.content = "Cmd" /\ tx.n = asked) /\ outCmd # asked /\ ~ (answers[asked] > 0)
    <3>1. tx.content = "Cmd" => tx.n = outCmd
      BY DEF SendInv, BufferKept, NumberOf
    <3> QED
      BY <2>3, <3>1, Bounds DEF Types, DbgTyped
  <2>7. Quietly'
    BY <1>1, <2>1, <2>2, <2>6 DEF Quietly
  <2>8. EndsLeft'
    BY <1>1, <2>1, <2>2, <2>4 DEF EndsLeft, Free
  <2> QED
    BY <1>2, <2>5, <2>7, <2>8
<1> QED
  BY <1>4, <1>5, <1>6

\* A poll arrives.
LEMMA PollLinks == ASSUME LinkInv, Poll PROVE LinkInv'
<1>1. BaseInv' /\ RcvTyped /\ text \in {"key", "other"}
  BY PollHolds DEF LinkInv, BaseInv, Types, RcvTyped, SchedTyped
<1>2. Hears \/ Opens("token") \/ Stores \/ Takes("token")
  BY <1>1, ByteKinds DEF Poll
<1> QED
  BY <1>1, <1>2, BytesLink DEF Poll

\* A byte of a command arrives, or is lost.
LEMMA ByteLinks == ASSUME LinkInv, ByteArrives PROVE LinkInv'
<1>1. BaseInv' /\ RcvTyped /\ text \in {"key", "other"}
        /\ sends \in {"no", "start", "id", "text", "end"}
  BY ByteHolds DEF LinkInv, BaseInv, Types, RcvTyped, SchedTyped
<1>2. sends # "no" /\ (sends = "end" => sends' = "no" /\ IsTicked)
  BY <1>1 DEF ByteArrives, NextByte
<1>3. Hears \/ Opens(sends) \/ Stores \/ Takes(sends) \/ UNCHANGED <<rcvVars, accepted>>
  BY <1>1, ByteKinds DEF ByteArrives
<1> QED
  BY <1>1, <1>2, <1>3, BytesLink DEF ByteArrives

\* The link before the first byte.
LEMMA InitLink == Init /\ OneByOne => LinkInv
<1> SUFFICES ASSUME Init, SchedWaits, stale <= 1 PROVE LinkInv
  BY DEF OneByOne
<1>1. BaseInv
  BY InitBase
<1>2. ends \in 0 .. 2 /\ ends < 2
  <2>1. ends = stale /\ stale \in Nat
    BY <1>1 DEF Init, BaseInv, Types, DbgTyped
  <2> QED
    BY <2>1
<1>3. Free /\ tx.content = "no" /\ "OutCmd" \notin mValidBuf /\ mStateCmd = "StCmdRcvdWait"
  BY DEF Init, Free, NoTx
<1>4. \A n \in Commands : answers[n] = 0
  BY DEF Init
<1>5. Numbered /\ Quietly
  BY <1>3 DEF Numbered, Quietly
<1>6. EndsLeft
  BY <1>2, <1>3 DEF EndsLeft, Free
<1>7. Once
  BY <1>3, <1>4 DEF Once
<1> QED
  BY <1>1, <1>5, <1>6, <1>7 DEF LinkInv

\* Every step.
LEMMA NextLink == SchedWaits /\ LinkInv /\ [Next]_vars => LinkInv'
<1> SUFFICES ASSUME SchedWaits, LinkInv, [Next]_vars PROVE LinkInv'
  OBVIOUS
<1>1. CASE UNCHANGED vars
  <2>1. BaseInv'
    BY NextBase DEF LinkInv
  <2>2. Numbered' /\ Quietly' /\ EndsLeft' /\ Once'
    BY <1>1 DEF vars, txVars, rcvVars, dbgVars, logVars, schedVars, LinkInv, Numbered,
      Quietly, EndsLeft, Once, Leaving, Free
  <2> QED
    BY <2>1, <2>2 DEF LinkInv
<1>2. CASE SwtTick
  BY <1>2, StartLinks, FlowLinks, SendLinks, SentWaitLinks, SentLinks, ReceiveLinks DEF SwtTick
<1>3. CASE DbgTick
  BY <1>3, DbgStartLinks, RcvdWaitLinks, InterpretLinks, SendStartLinks DEF DbgTick, CommandInterpret
<1>4. CASE SwtWaited \/ UnsolicitedSent \/ LogSent \/ ProcTreeSend \/ Log
  BY <1>4, WaitedLinks, UnsolicitedLinks, LogSentLinks, TreeSendLinks, LogLinks
<1>5. CASE DataSent \/ Poll \/ PollFails \/ CommandBegins \/ ByteArrives
  BY <1>5, DataSentLinks, PollLinks, PollFailsLinks, BeginLinks, ByteLinks
<1> QED
  BY <1>1, <1>2, <1>3, <1>4, <1>5 DEF Next, Loop

\* What the memory held is not forgotten.
LEMMA StaleStays == [Next]_vars => (OneByOne' <=> OneByOne)
<1> SUFFICES ASSUME [Next]_vars PROVE stale' = stale
  BY DEF OneByOne
<1>1. CASE UNCHANGED vars
  BY <1>1 DEF vars, dbgVars
<1>2. CASE Loop
  BY <1>2 DEF Loop, SwtTick, SwtWaited, UnsolicitedSent, LogSent, DbgTick, ProcTreeSend, dbgVars
<1>3. CASE Next /\ ~ Loop
  BY <1>3 DEF Next, Log, DataSent, Poll, PollFails, CommandBegins, ByteArrives, targetVars, dbgVars
<1> QED
  BY <1>1, <1>2, <1>3

\* Every reachable state satisfies the first part of the invariant, and the second one if the
\* commands come one by one.
THEOREM LinkInvariance == Spec => [](BaseInv /\ (OneByOne => LinkInv))
<1>1. Init => BaseInv /\ (OneByOne => LinkInv)
  BY InitBase, InitLink
<1>2. BaseInv /\ (OneByOne => LinkInv) /\ [Next]_vars => (BaseInv /\ (OneByOne => LinkInv))'
  BY NextBase, NextLink, StaleStays DEF OneByOne
<1> QED
  BY <1>1, <1>2, PTL DEF Spec

\* What is sent is marked as valid and is what its buffer holds; the transfer process has a buffer
\* to point at when it says that there is no content; and the interrupt writes a command only into
\* a buffer that the debug process has done with (SingleWireTransfering.cpp:185-247 and 307-352).
\* The last part holds for commands that come one by one: only the first byte of mBufInCmd is
\* initialised (SingleWireTransfering.cpp:90), and with two end bytes in the rest of it, the text
\* of one command is taken for three, the last of which can be open when the next comes.
THEOREM WireKept == Spec => []WireInv
<1>1. BaseInv /\ (OneByOne => LinkInv) => WireInv
  <2> SUFFICES ASSUME BaseInv, OneByOne => LinkInv PROVE WireInv
    OBVIOUS
  <2>1. TypeOK /\ BufferKept /\ (tx.content = "None" => mpDataTx # "NULL")
    BY TypesByParts DEF BaseInv, SendInv, Pointed
  <2>2. OneByOne /\ mStateRcv = "StRcvContentData" => "InCmd" \notin mValidBuf /\ mStateCmd = "StCmdRcvdWait"
    BY DEF LinkInv, Quietly, Free
  <2> QED
    BY <2>1, <2>2 DEF WireInv
<1> QED
  BY <1>1, LinkInvariance, PTL

\* While the process of the target does not wait for what it sends, a command is answered at most
\* twice, whatever the memory held and whenever the next one comes, as nothing is sent before its
\* end bytes are used up and SingleWireTransfering.cpp:244 lets go of the buffer with the first
\* answer; and at most once if the commands come one by one (SingleWireTransfering.cpp:236-247).
THEOREM AnswersOnce == Spec => []AnsweredOnce
<1>1. BaseInv /\ (OneByOne => LinkInv) => AnsweredOnce
  BY DEF LinkInv, Once, BaseInv, Twice, AnsweredOnce, Types, TxTyped
<1> QED
  BY <1>1, LinkInvariance, PTL
=============================================================================
