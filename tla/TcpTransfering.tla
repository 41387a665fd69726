--------------------------- MODULE TcpTransfering ---------------------------
(***************************************************************************)
(* One TCP connection (TcpTransfering.cpp): the process that opens, watches *)
(* and closes it, and the users that read from it and send to it.          *)
(*                                                                         *)
(* read(), send() and shutdown() hold mSocketFdMtx from start to end, so   *)
(* each is one step.  process() uses mSocketFd without the mutex only      *)
(* before it sets mSendReady, and users on other threads wait for that     *)
(* (SystemCommanding.cpp:238, SystemDebugging.cpp:412 and 457): a tick is  *)
(* one step, too.  readFlush() is read() again and again.                  *)
(*                                                                         *)
(* The operating system and the peer are external: the connection as the   *)
(* kernel sees it, the bytes it keeps for us, and the table of descriptors *)
(* in which the number of a closed one is given away again.                *)
(***************************************************************************)
EXTENDS Integers, Sequences

CONSTANTS
    TmoConnDone,  \* dTmoDefaultConnDoneMs in units of the clock
    LenBuf,       \* the most bytes a read() of a user asks for
    NumBytes      \* bound: bytes the peer sends

ASSUME TransferingAssumption ==
    TmoConnDone \in Nat /\ LenBuf \in Nat \ {0} /\ NumBytes \in Nat

VARIABLES
    life,       \* mStateAbstract of the process
    success,    \* mSuccess
    mState,
    diffMs,     \* time since mStartMs
    mSocketFd,  \* "fd", or "none" for INVALID_SOCKET
    mReadReady, mSendReady, mDone,
    mErrno,     \* there is an error number
    table,      \* external: whose the number of our descriptor is
    conn,       \* external: the connection
    sentByPeer, \* external: bytes the peer has sent
    inQueue,    \* external: those that wait to be read
    got,        \* history: bytes that users have read
    answer      \* history: the last answer of read() to a user

procVars == <<life, success, mState, diffMs>>
flagVars == <<mReadReady, mSendReady, mDone>>
osVars == <<table, conn, sentByPeer, inQueue>>
userVars == <<got, answer>>
vars == <<procVars, mSocketFd, flagVars, mErrno, osVars, userVars>>

(* "finished" is reached by way of shutdown(), "skipped" without it        *)
Lives == {"existent", "processing", "downShutting", "finished", "skipped"}
States == {"StSrvStart", "StSrvArgCheck", "StCltStart", "StCltArgCheck",
           "StCltConnDoneWait", "StCltConnDone", "StConnMain"}

(* "fresh": connect() has not worked; "refused": it has failed later on.   *)
(* The peer ends a connection that has been "up" by closing or by a reset, *)
(* "broken" stands for all other errors.  What has arrived before is still *)
(* read.                                                                   *)
Unconnected == {"none", "fresh", "connecting", "refused"}
EndedByPeer == {"closed", "reset"}
Conns == Unconnected \union EndedByPeer \union {"up", "broken"}

Answers == {"zero", "data", "negative"}

Bytes(n) == [i \in 1 .. n |-> i]

-----------------------------------------------------------------------------
(* disconnect() and recv()                                                 *)

Disconnect(err) ==
    IF mSocketFd = "none"
    THEN UNCHANGED <<mSocketFd, mErrno, table>>
    ELSE /\ mErrno' = err
         /\ table' = "free"
         /\ mSocketFd' = "none"

(* What recv() finds: bytes first, then the reason why none will come      *)
RecvNothing == inQueue = <<>> /\ conn \in {"connecting", "up"}
RecvEnds == inQueue = <<>> /\ conn \in EndedByPeer
RecvFails == inQueue = <<>> /\ conn \in {"fresh", "refused", "broken"}

(* read() up to the point where it takes bytes: result is the sign of what *)
(* it returns                                                              *)
\* mutant: a closed socket has no data at the moment
ReadAny(result) ==
    \/ result = "zero" /\ (~mReadReady \/ mSocketFd = "none" \/ RecvNothing)
       /\ UNCHANGED <<mSocketFd, mErrno, table>>
    \/ /\ mReadReady /\ mSocketFd = "fd"
       /\ \/ inQueue # <<>> /\ result = "data" /\ UNCHANGED <<mSocketFd, mErrno, table>>
          \/ RecvEnds /\ result = "negative" /\ Disconnect(FALSE)
          \/ RecvFails /\ result = "negative" /\ Disconnect(TRUE)

ReadResult(result) ==
    \/ ~mReadReady /\ result = "zero" /\ UNCHANGED <<mSocketFd, mErrno, table>>
    \/ /\ mReadReady /\ mSocketFd = "none"
       /\ result = "negative"
       /\ UNCHANGED <<mSocketFd, mErrno, table>>
    \/ /\ mReadReady /\ mSocketFd = "fd"
       /\ \/ RecvNothing /\ result = "zero" /\ UNCHANGED <<mSocketFd, mErrno, table>>
          \/ inQueue # <<>> /\ result = "data" /\ UNCHANGED <<mSocketFd, mErrno, table>>
          \/ RecvEnds /\ result = "negative" /\ Disconnect(FALSE)
          \/ RecvFails /\ result = "negative" /\ Disconnect(TRUE)

-----------------------------------------------------------------------------
(* process()                                                               *)

Ticking(state) == life = "processing" /\ mState = state

Enter(state) == mState' = state /\ UNCHANGED <<life, success, diffMs>>

End(result) ==
    /\ life' = "downShutting"
    /\ success' = result
    /\ UNCHANGED <<mState, diffMs>>

(* treeTick() of a new process, and a cancel() that comes before it        *)
Begin ==
    /\ life = "existent"
    /\ life' = "processing"
    /\ UNCHANGED <<success, mState, diffMs>>
    /\ UNCHANGED <<mSocketFd, flagVars, mErrno, osVars, userVars>>

Cancel ==
    /\ \/ life = "existent" /\ life' = "skipped"
       \/ life = "processing" /\ life' = "downShutting"
    /\ UNCHANGED <<success, mState, diffMs>>
    /\ UNCHANGED <<mSocketFd, flagVars, mErrno, osVars, userVars>>

Start ==
    /\ \/ Ticking("StSrvStart") /\ Enter("StSrvArgCheck")
       \/ Ticking("StCltStart") /\ Enter("StCltArgCheck")
    /\ UNCHANGED <<mSocketFd, flagVars, mErrno, osVars, userVars>>

\* mutant: the options are not set
SrvArgCheckPlain ==
    /\ Ticking("StSrvArgCheck")
    /\ IF mSocketFd = "fd" THEN Enter("StConnMain") ELSE End("Failed")
    /\ UNCHANGED <<mSocketFd, flagVars, mErrno, osVars, userVars>>

(* socketOptionsSet() may fail, and does if send() has closed the socket   *)
SrvArgCheck ==
    /\ Ticking("StSrvArgCheck")
    /\ \/ /\ mSocketFd = "fd"
          /\ mReadReady' = TRUE
          /\ Enter("StConnMain")
       \/ UNCHANGED mReadReady /\ End("Failed")
    /\ UNCHANGED <<mSocketFd, mSendReady, mDone, mErrno, osVars, userVars>>

(* The address may not be one; socket(), socketOptionsSet() and connect()  *)
(* may fail                                                                *)
CltArgCheck ==
    /\ Ticking("StCltArgCheck")
    /\ \/ End("Failed") /\ UNCHANGED <<mSocketFd, mReadReady, table, conn>>
       \/ /\ mSocketFd' = "fd" /\ table' = "own"
          /\ \/ conn' = "fresh" /\ mReadReady' \in BOOLEAN /\ End("Failed")
             \/ /\ mReadReady' = TRUE
                /\ \/ conn' = "up" /\ Enter("StCltConnDone")
                   \/ /\ conn' = "connecting"
                      /\ mState' = "StCltConnDoneWait" /\ diffMs' = 0
                      /\ UNCHANGED <<life, success>>
    /\ UNCHANGED <<mSendReady, mDone, mErrno, sentByPeer, inQueue, userVars>>

(* connClientDone(): poll() ignores INVALID_SOCKET, and getsockopt() tells *)
(* whether the socket has an error                                         *)
StillConnecting == mSocketFd = "none" \/ conn = "connecting"
NoSocketError == mSocketFd = "fd" /\ conn \in {"up", "closed"}

\* mutant: SO_ERROR is not asked for
CltConnDoneWaitBlind ==
    /\ Ticking("StCltConnDoneWait")
    /\ \/ diffMs > TmoConnDone /\ End("Failed")
       \/ /\ diffMs <= TmoConnDone
          /\ \/ StillConnecting /\ UNCHANGED procVars
             \/ ~StillConnecting /\ Enter("StCltConnDone")
    /\ UNCHANGED <<mSocketFd, flagVars, mErrno, osVars, userVars>>

\* mutant: the time is not looked at
CltConnDoneWaitEver ==
    /\ Ticking("StCltConnDoneWait")
    /\ \/ StillConnecting /\ UNCHANGED procVars
       \/ NoSocketError /\ Enter("StCltConnDone")
       \/ ~StillConnecting /\ ~NoSocketError /\ End("Failed")
    /\ UNCHANGED <<mSocketFd, flagVars, mErrno, osVars, userVars>>

CltConnDoneWait ==
    /\ Ticking("StCltConnDoneWait")
    /\ \/ diffMs > TmoConnDone /\ End("Failed")
       \/ /\ diffMs <= TmoConnDone
          /\ \/ StillConnecting /\ UNCHANGED procVars
             \/ NoSocketError /\ Enter("StCltConnDone")
             \/ ~StillConnecting /\ ~NoSocketError /\ End("Failed")
    /\ UNCHANGED <<mSocketFd, flagVars, mErrno, osVars, userVars>>

(* In such a tick poll() and getsockopt() may fail whatever the connection  *)
(* is like; that they do is nothing to count on                            *)
PollFails ==
    /\ Ticking("StCltConnDoneWait") /\ diffMs <= TmoConnDone
    /\ End("Failed")
    /\ UNCHANGED <<mSocketFd, flagVars, mErrno, osVars, userVars>>

CltConnDone ==
    /\ Ticking("StCltConnDone")
    /\ mSendReady' = TRUE
    /\ Enter("StConnMain")
    /\ UNCHANGED <<mSocketFd, mReadReady, mDone, mErrno, osVars, userVars>>

(* read(NULL, 0) looks and takes nothing                                   *)
Watch(result) ==
    IF result = "negative" THEN End(IF mErrno' THEN "Failed" ELSE "Positive")
                           ELSE UNCHANGED procVars

\* mutant: the byte that is looked at is taken
ConnMainTakes ==
    /\ Ticking("StConnMain")
    /\ IF mDone
       THEN End("Positive") /\ UNCHANGED <<mSocketFd, mErrno, table, inQueue>>
       ELSE \E result \in Answers :
                /\ ReadResult(result) /\ Watch(result)
                /\ inQueue' = IF result = "data" THEN Tail(inQueue) ELSE inQueue
    /\ UNCHANGED <<flagVars, conn, sentByPeer, userVars>>

\* mutant: a connection that has been ended by its user is watched, too
ConnMainWatch ==
    /\ Ticking("StConnMain")
    /\ \E result \in Answers : ReadResult(result) /\ Watch(result)
    /\ UNCHANGED <<flagVars, conn, sentByPeer, inQueue, userVars>>

ConnMain ==
    /\ Ticking("StConnMain")
    /\ IF mDone
       THEN End("Positive") /\ UNCHANGED <<mSocketFd, mErrno, table>>
       ELSE \E result \in Answers : ReadResult(result) /\ Watch(result)
    /\ UNCHANGED <<flagVars, conn, sentByPeer, inQueue, userVars>>

\* mutant: the mutex is taken, and nothing is closed
ShutdownIdle ==
    /\ life = "downShutting" /\ life' = "finished"
    /\ UNCHANGED <<success, mState, diffMs, mSocketFd, flagVars, mErrno, osVars, userVars>>

Shutdown ==
    /\ life = "downShutting" /\ life' = "finished"
    /\ Disconnect(FALSE)
    /\ UNCHANGED <<success, mState, diffMs, flagVars, conn, sentByPeer, inQueue, userVars>>

-----------------------------------------------------------------------------
(* The users: before mSendReady in the thread of the process, between its  *)
(* ticks                                                                   *)

Take ==
    LET n == IF Len(inQueue) < LenBuf THEN Len(inQueue) ELSE LenBuf IN
    /\ got' = got \o SubSeq(inQueue, 1, n)
    /\ inQueue' = SubSeq(inQueue, n + 1, Len(inQueue))

Read ==
    /\ \E result \in Answers :
          /\ ReadResult(result)
          /\ answer' = result
          /\ IF result = "data" THEN Take ELSE UNCHANGED <<got, inQueue>>
    /\ UNCHANGED <<procVars, flagVars, conn, sentByPeer>>

(* What send() gives to the kernel is of no interest here, its errors are  *)
SendFails ==
    /\ mSendReady /\ mSocketFd = "fd"
    /\ conn \in {"reset", "broken"}

\* mutant: the error number is not kept
SendSilent ==
    /\ SendFails /\ Disconnect(FALSE)
    /\ UNCHANGED <<procVars, flagVars, conn, sentByPeer, inQueue, userVars>>

Send ==
    /\ SendFails /\ Disconnect(TRUE)
    /\ UNCHANGED <<procVars, flagVars, conn, sentByPeer, inQueue, userVars>>

DoneSet ==
    /\ mDone' = TRUE
    /\ UNCHANGED <<procVars, mSocketFd, mReadReady, mSendReady, mErrno, osVars, userVars>>

-----------------------------------------------------------------------------
(* The operating system and the peer                                       *)

Become(from, to) ==
    /\ table = "own" /\ conn \in from
    /\ conn' = to
    /\ UNCHANGED <<procVars, mSocketFd, flagVars, mErrno, table, sentByPeer, inQueue, userVars>>

Arrive ==
    /\ table = "own" /\ conn = "up" /\ sentByPeer < NumBytes
    /\ sentByPeer' = sentByPeer + 1
    /\ inQueue' = Append(inQueue, sentByPeer')
    /\ UNCHANGED <<procVars, mSocketFd, flagVars, mErrno, table, conn, userVars>>

OtherOpens ==
    /\ table = "free"
    /\ table' = "other"
    /\ UNCHANGED <<procVars, mSocketFd, flagVars, mErrno, conn, sentByPeer, inQueue, userVars>>

TimePasses ==
    /\ Ticking("StCltConnDoneWait") /\ diffMs <= TmoConnDone
    /\ diffMs' = diffMs + 1
    /\ UNCHANGED <<life, success, mState>>
    /\ UNCHANGED <<mSocketFd, flagVars, mErrno, osVars, userVars>>

Network ==
    \/ Become({"connecting"}, "up") \/ Become({"connecting"}, "refused")
    \/ Become({"up"}, "closed") \/ Become({"up", "closed"}, "reset")
    \/ Become({"up", "closed"}, "broken")
    \/ Arrive

-----------------------------------------------------------------------------
(* The two constructors                                                    *)
InitSrv ==
    /\ mState = "StSrvStart" /\ mSendReady = TRUE
    /\ mSocketFd = "fd" /\ table = "own" /\ conn = "up"

InitClt ==
    /\ mState = "StCltStart" /\ mSendReady = FALSE
    /\ mSocketFd = "none" /\ table = "other" /\ conn = "none"

Init ==
    /\ InitSrv \/ InitClt
    /\ life = "existent" /\ success = "Pending" /\ diffMs = 0
    /\ mReadReady = FALSE /\ mDone = FALSE /\ mErrno = FALSE
    /\ sentByPeer = 0 /\ inQueue = <<>>
    /\ got = <<>> /\ answer = "zero"

Tick ==
    \/ Begin \/ Start \/ SrvArgCheck \/ CltArgCheck
    \/ CltConnDoneWait \/ CltConnDone \/ ConnMain \/ Shutdown

Next == Tick \/ PollFails \/ Cancel \/ Read \/ Send \/ DoneSet \/ Network \/ OtherOpens \/ TimePasses

Spec == Init /\ [][Next]_vars

(* The process is ticked, and time passes; no call of the operating system *)
(* has to fail                                                             *)
FairSpec == Spec /\ WF_vars(Tick) /\ WF_vars(TimePasses)

-----------------------------------------------------------------------------
\* The type invariant; a connection that is watched can be read, else
\* read() would answer 0 for ever and nobody would learn of its end.
TypeOK ==
    /\ life \in Lives /\ success \in {"Pending", "Positive", "Failed"}
    /\ mState \in States /\ diffMs \in 0 .. TmoConnDone + 1
    /\ mSocketFd \in {"fd", "none"} /\ table \in {"own", "free", "other"}
    /\ mReadReady \in BOOLEAN /\ mSendReady \in BOOLEAN /\ mDone \in BOOLEAN
    /\ mErrno \in BOOLEAN
    /\ conn \in Conns /\ sentByPeer \in 0 .. NumBytes
    /\ inQueue \in Seq(Nat) /\ got \in Seq(Nat) /\ answer \in Answers
    /\ mState = "StConnMain" => mReadReady

\* mSocketFd names the open descriptor and never one that the operating
\* system has given to somebody else; it is closed after shutdown().
DescriptorOwned ==
    /\ mSocketFd = "fd" <=> table = "own"
    /\ life = "finished" => mSocketFd = "none"

\* Whoever reads and however the process watches the connection, users get
\* all bytes in their order; when the peer closes, not before they have read
\* the last one is the connection closed here.
Unforced == life = "processing" \/ (success = "Positive" /\ ~mDone)
NothingLost ==
    /\ got \o inQueue = Bytes(sentByPeer)
    /\ conn = "closed" /\ mSocketFd = "none" /\ Unforced => inQueue = <<>>

\* Transfering.h:45: after read() has been negative for one user, no user
\* gets data, or 0, any more.
NegativeIsFinal == [][answer = "negative" => answer' = "negative"]_vars

\* A user is told to send only on a connection that has been established.
SendsWhenConnected == mSendReady => conn \notin Unconnected

\* The result of the process: Positive only if the user or the peer has ended
\* the connection, and nothing was wrong before.
ResultTells == success = "Positive" => mDone \/ (conn \in EndedByPeer /\ ~mErrno)

\* A connection that its user or its peer has ended is closed and finished,
\* when what has arrived has been read; nobody needs to use it any more.
PeerGone == conn \in EndedByPeer \union {"refused", "broken"} /\ inQueue = <<>>
Ends == mDone \/ PeerGone ~> life \in {"finished", "skipped"}

\* A connect() comes to an end although the peer never answers and no call
\* fails: there is nothing but the time limit (TcpTransfering.cpp:227) to
\* bring it about.
ConnectEnds == Ticking("StCltConnDoneWait") ~> mSendReady \/ life = "finished"
=============================================================================
