------------------------- MODULE TransferingProofs -------------------------
(***************************************************************************)
(* What holds of every connection, however many bytes arrive, whatever is  *)
(* read at a time and however long connect() may take.                     *)
(***************************************************************************)
EXTENDS TcpTransfering, SequenceTheorems, TLAPS

(* The parts of the type invariant that need no sequences                  *)
Typed ==
    /\ life \in Lives /\ mState \in States
    /\ mSocketFd \in {"fd", "none"} /\ table \in {"own", "free", "other"}
    /\ conn \in Conns /\ answer \in Answers

(* A client has nothing to read from before it has opened its socket, and  *)
(* has not been told of an end                                             *)
Opening == mState \in {"StCltStart", "StCltArgCheck"} /\ life \in {"existent", "processing"}
NotOpenYet == Opening => ~mReadReady /\ mSocketFd = "none" /\ conn = "none"

(* A connection that is waited for, or that is announced, has been started *)
Connected ==
    /\ mSendReady => conn \notin Unconnected
    /\ mState = "StCltConnDone" => conn \notin Unconnected
    /\ mState = "StCltConnDoneWait" => conn # "none"

Told == answer = "negative" => mReadReady /\ mSocketFd = "none"

TransferInv == Typed /\ DescriptorOwned /\ NotOpenYet /\ Connected /\ Told

-----------------------------------------------------------------------------
\* The two ways to begin: an accepted descriptor, or a client.
LEMMA InitInv == Init => TransferInv
  BY DEF Init, InitSrv, InitClt, TransferInv, Typed, DescriptorOwned, NotOpenYet, Opening,
         Connected, Told, Lives, States, Conns, Unconnected, EndedByPeer, Answers

\* read() by any user.
LEMMA ReadKeeps ==
    ASSUME TransferInv, NEW result \in Answers, ReadResult(result)
    PROVE  /\ mSocketFd' \in {"fd", "none"} /\ table' \in {"own", "free", "other"}
           /\ (mSocketFd' = "fd" <=> table' = "own")
           /\ (mSocketFd = "none" => mSocketFd' = "none")
           /\ (result = "negative" => mReadReady /\ mSocketFd' = "none")
           /\ (mReadReady /\ mSocketFd = "none" => result = "negative")
  BY DEF TransferInv, Typed, DescriptorOwned, ReadResult, Disconnect, RecvNothing, RecvEnds,
         RecvFails, Answers

\* Every step.
LEMMA NextInv == TransferInv /\ [Next]_vars => TransferInv'
<1> SUFFICES ASSUME TransferInv, [Next]_vars PROVE TransferInv'
  OBVIOUS
<1> USE DEF TransferInv, Typed, DescriptorOwned, NotOpenYet, Opening, Connected, Told,
            Lives, States, Answers
<1>1. CASE Begin
  BY <1>1 DEF Begin, flagVars, osVars, userVars
<1>2. CASE Start
  BY <1>2 DEF Start, Ticking, Enter, flagVars, osVars, userVars
<1>3. CASE SrvArgCheck
  BY <1>3 DEF SrvArgCheck, Ticking, Enter, End, osVars, userVars
<1>4. CASE CltArgCheck
  BY <1>4 DEF CltArgCheck, Ticking, Enter, End, userVars, Conns, Unconnected, EndedByPeer
<1>5. CASE CltConnDoneWait \/ PollFails
  BY <1>5 DEF CltConnDoneWait, PollFails, StillConnecting, NoSocketError, Ticking, Enter, End, procVars,
              flagVars, osVars, userVars, Unconnected
<1>6. CASE CltConnDone
  BY <1>6 DEF CltConnDone, Ticking, Enter, osVars, userVars
<1>7. CASE ConnMain
  <2>1. CASE mDone
    BY <1>7, <2>1 DEF ConnMain, Ticking, End, flagVars, userVars
  <2>2. CASE ~mDone
    <3>1. PICK result \in Answers : ReadResult(result) /\ Watch(result)
      BY <1>7, <2>2 DEF ConnMain
    <3>2. /\ UNCHANGED mState /\ life = "processing" /\ life' \in {"processing", "downShutting"}
      BY <1>7, <3>1 DEF ConnMain, Ticking, Watch, End, procVars
    <3> QED
      BY <1>7, <3>1, <3>2, ReadKeeps DEF ConnMain, Ticking, flagVars, userVars
  <2> QED
    BY <2>1, <2>2
<1>8. CASE Shutdown
  BY <1>8 DEF Shutdown, Disconnect, flagVars, userVars
<1>9. CASE Cancel
  BY <1>9 DEF Cancel, flagVars, osVars, userVars
<1>10. CASE Read
  <2>1. PICK result \in Answers : ReadResult(result) /\ answer' = result
    BY <1>10 DEF Read
  <2> QED
    BY <1>10, <2>1, ReadKeeps DEF Read, procVars, flagVars
<1>11. CASE Send
  BY <1>11 DEF Send, SendFails, Disconnect, procVars, flagVars, userVars
<1>12. CASE DoneSet
  BY <1>12 DEF DoneSet, procVars, osVars, userVars
<1>13. CASE Network
  <2>1. ASSUME NEW from \in SUBSET Conns, NEW to \in Conns, Become(from, to),
               to = "refused" => from = {"connecting"},
               to # "refused" => to \notin Unconnected, "none" \notin from
        PROVE  TransferInv'
    BY <2>1 DEF Become, procVars, flagVars, userVars, Unconnected
  <2>2. CASE Arrive
    BY <2>2 DEF Arrive, procVars, flagVars, userVars
  <2> QED
    BY <1>13, <2>1, <2>2 DEF Network, Conns, Unconnected, EndedByPeer
<1>14. CASE OtherOpens
  BY <1>14 DEF OtherOpens, procVars, flagVars, userVars
<1>15. CASE TimePasses
  BY <1>15 DEF TimePasses, flagVars, osVars, userVars
<1>16. CASE UNCHANGED vars
  BY <1>16 DEF vars, procVars, flagVars, osVars, userVars
<1> QED
  BY <1>1, <1>2, <1>3, <1>4, <1>5, <1>6, <1>7, <1>8, <1>9, <1>10, <1>11, <1>12, <1>13,
     <1>14, <1>15, <1>16 DEF Next, Tick

\* Every reachable state of a connection satisfies the inductive invariant: TcpTransfering.cpp:160-487.
THEOREM Invariance == Spec => []TransferInv
  BY InitInv, NextInv, PTL DEF Spec

\* The descriptor is named exactly as long as it is ours, and not after
\* shutdown(): TcpTransfering.cpp:467-487.
THEOREM DescriptorsOwned == Spec => []DescriptorOwned
<1>1. TransferInv => DescriptorOwned
  BY DEF TransferInv
<1> QED
  BY <1>1, Invariance, PTL

\* mSendReady is set for established connections only: TcpTransfering.cpp:240-246.
THEOREM SendsOnlyWhenConnected == Spec => []SendsWhenConnected
<1>1. TransferInv => SendsWhenConnected
  BY DEF TransferInv, Connected, SendsWhenConnected
<1> QED
  BY <1>1, Invariance, PTL

\* A negative read() is the last word: Transfering.h:44-48, TcpTransfering.cpp:312-387.
THEOREM NegativeStaysFinal == Spec => NegativeIsFinal
<1>1. TransferInv /\ [Next]_vars => [answer = "negative" => answer' = "negative"]_vars
  <2> SUFFICES ASSUME TransferInv, Next, answer = "negative"
               PROVE  answer' = "negative"
    OBVIOUS
  <2>1. mReadReady /\ mSocketFd = "none"
    BY DEF TransferInv, Told
  <2>2. CASE Read
    BY <2>1, <2>2, ReadKeeps DEF Read
  <2>3. CASE ~Read
    BY <2>3 DEF Next, Tick, Begin, Start, SrvArgCheck, CltArgCheck, CltConnDoneWait, PollFails,
                CltConnDone,
                ConnMain, Shutdown, Cancel, Send, DoneSet, Network, Become, Arrive, OtherOpens,
                TimePasses, userVars
  <2> QED
    BY <2>2, <2>3
<1> QED
  BY <1>1, Invariance, PTL DEF Spec, NegativeIsFinal

-----------------------------------------------------------------------------
(* How connections end.  A socket that process() or a user has closed was  *)
(* closed for an error, or because the peer had ended the connection and   *)
(* nothing was left to read; process() reports accordingly.                *)
ClosedEarly ==
    mSocketFd = "none" /\ life \in {"existent", "processing"} /\ ~Opening

EndInv ==
    /\ mErrno \in BOOLEAN /\ mDone \in BOOLEAN
    /\ life \in {"existent", "processing"} => success = "Pending"
    /\ mErrno => mSocketFd = "none" /\ ~Opening
    /\ ClosedEarly /\ ~mErrno => conn \in EndedByPeer
    /\ ClosedEarly /\ conn = "closed" => inQueue = <<>>
    /\ success = "Positive" /\ ~mDone => mSocketFd = "none"
    /\ conn = "closed" /\ mSocketFd = "none" /\ Unforced => inQueue = <<>>
    /\ ResultTells

\* Nothing is closed at first.
LEMMA InitEnd == Init => EndInv
  BY DEF Init, InitSrv, InitClt, EndInv, ClosedEarly, Unforced, ResultTells, Opening

\* Every step keeps the reason of an end.
LEMMA NextEnd == TransferInv /\ EndInv /\ [Next]_vars => EndInv'
<1> SUFFICES ASSUME TransferInv, EndInv, [Next]_vars PROVE EndInv'
  OBVIOUS
<1> USE DEF EndInv, ClosedEarly, Unforced, ResultTells, Opening, EndedByPeer
<1>0. /\ Typed /\ DescriptorOwned /\ NotOpenYet
      /\ mState = "StConnMain" => ~Opening
  BY DEF TransferInv
<1>1. CASE Begin
  BY <1>1, <1>0 DEF Begin, flagVars, osVars, userVars, DescriptorOwned, NotOpenYet
<1>2. CASE Start
  BY <1>2, <1>0 DEF Start, Ticking, Enter, flagVars, osVars, userVars, NotOpenYet
<1>3. CASE SrvArgCheck
  BY <1>3 DEF SrvArgCheck, Ticking, Enter, End, osVars, userVars
<1>4. CASE CltArgCheck
  BY <1>4, <1>0 DEF CltArgCheck, Ticking, Enter, End, userVars, NotOpenYet
<1>5. CASE CltConnDoneWait \/ PollFails
  BY <1>5 DEF CltConnDoneWait, PollFails, StillConnecting, NoSocketError, Ticking, Enter, End, procVars,
              flagVars, osVars, userVars
<1>6. CASE CltConnDone
  BY <1>6 DEF CltConnDone, Ticking, Enter, osVars, userVars
<1>7. CASE ConnMain
  <2>1. CASE mDone
    BY <1>7, <2>1 DEF ConnMain, Ticking, End, flagVars, userVars
  <2>2. CASE ~mDone
    BY <1>7, <2>2 DEF ConnMain, ReadResult, Watch, Disconnect, RecvEnds, RecvFails, RecvNothing,
                      Ticking, End, procVars, flagVars, userVars
  <2> QED
    BY <2>1, <2>2
<1>8. CASE Shutdown
  BY <1>8 DEF Shutdown, Disconnect, flagVars, userVars
<1>9. CASE Cancel
  BY <1>9 DEF Cancel, flagVars, osVars, userVars
<1>10. CASE Read
  <2>1. PICK result \in Answers : /\ ReadResult(result)
                                 /\ IF result = "data" THEN Take ELSE UNCHANGED inQueue
    BY <1>10 DEF Read
  <2>2. CASE result = "data"
    BY <1>10, <2>1, <2>2 DEF Read, ReadResult, procVars, flagVars
  <2>3. CASE result # "data"
    <3>1. UNCHANGED <<inQueue, life, success, mState, mDone, conn>>
      BY <1>10, <2>1, <2>3 DEF Read, procVars, flagVars
    <3>2. CASE UNCHANGED <<mSocketFd, mErrno>>
      BY <3>1, <3>2
    <3>3. CASE /\ mReadReady /\ mSocketFd = "fd"
               /\ (RecvEnds /\ Disconnect(FALSE)) \/ (RecvFails /\ Disconnect(TRUE))
      <4>1. ~Opening /\ mSocketFd' = "none" /\ inQueue = <<>>
        BY <1>0, <3>3 DEF NotOpenYet, Disconnect, RecvEnds, RecvFails
      <4>2. \/ mErrno' = FALSE /\ conn \in EndedByPeer
            \/ mErrno' = TRUE
        BY <3>3 DEF Disconnect, RecvEnds
      <4>3. ~(success = "Positive" /\ ~mDone)
        BY <3>3
      <4> QED
        BY <3>1, <4>1, <4>2, <4>3
    <3> QED
      BY <2>1, <2>3, <3>2, <3>3 DEF ReadResult
  <2> QED
    BY <2>2, <2>3
<1>11. CASE Send
  BY <1>11, <1>0 DEF Send, SendFails, Disconnect, procVars, flagVars, userVars, NotOpenYet
<1>12. CASE DoneSet
  BY <1>12 DEF DoneSet, procVars, osVars, userVars
<1>13. CASE Network
  <2>1. mSocketFd = "fd" /\ UNCHANGED <<mSocketFd, procVars, mDone, mErrno>>
    BY <1>13, <1>0 DEF Network, Become, Arrive, DescriptorOwned, procVars, flagVars
  <2>2. success = "Positive" => mDone
    BY <2>1
  <2> QED
    BY <2>1, <2>2 DEF procVars
<1>14. CASE OtherOpens
  BY <1>14 DEF OtherOpens, procVars, flagVars, userVars
<1>15. CASE TimePasses
  BY <1>15 DEF TimePasses, flagVars, osVars, userVars
<1>16. CASE UNCHANGED vars
  BY <1>16 DEF vars, procVars, flagVars, osVars, userVars
<1> QED
  BY <1>1, <1>2, <1>3, <1>4, <1>5, <1>6, <1>7, <1>8, <1>9, <1>10, <1>11, <1>12, <1>13,
     <1>14, <1>15, <1>16 DEF Next, Tick

\* What is closed has a reason.
LEMMA EndInvariance == Spec => []EndInv
<1>1. TransferInv /\ EndInv /\ [Next]_vars => EndInv'
  BY NextEnd
<1> QED
  BY InitEnd, <1>1, Invariance, PTL DEF Spec

\* What success() tells is true: TcpTransfering.cpp:248-261.
THEOREM ResultIsTrue == Spec => []ResultTells
<1>1. EndInv => ResultTells
  BY DEF EndInv
<1> QED
  BY <1>1, EndInvariance, PTL

-----------------------------------------------------------------------------
(* The bytes.  A byte is appended by the peer, and moves from the queue of *)
(* the kernel to the users; nothing else changes the two sequences.        *)
Ordered ==
    /\ inQueue \in Seq(Nat) /\ got \in Seq(Nat) /\ sentByPeer \in Nat
    /\ got \o inQueue = Bytes(sentByPeer)

\* Concatenation is associative.
LEMMA Associative == \A s, t, u \in Seq(Nat) : (s \o t) \o u = s \o (t \o u)
  BY ConcatAssociative, SMTT(30)

\* A read takes the first part of what waits.
LEMMA MovedBytes ==
    ASSUME NEW g \in Seq(Nat), NEW q \in Seq(Nat), NEW n \in 0 .. Len(q)
    PROVE  /\ g \o SubSeq(q, 1, n) \in Seq(Nat)
           /\ SubSeq(q, n + 1, Len(q)) \in Seq(Nat)
           /\ (g \o SubSeq(q, 1, n)) \o SubSeq(q, n + 1, Len(q)) = g \o q
<1>1. SubSeq(q, 1, n) \in Seq(Nat) /\ SubSeq(q, n + 1, Len(q)) \in Seq(Nat)
  BY SubSeqProperties
<1>2. SubSeq(q, 1, n) \o SubSeq(q, n + 1, Len(q)) = q
  <2>1. 1 \in 1 .. Len(q) + 1 /\ n \in 1 - 1 .. Len(q) /\ Len(q) \in n .. Len(q)
    OBVIOUS
  <2>2. SubSeq(q, 1, n) \o SubSeq(q, n + 1, Len(q)) = SubSeq(q, 1, Len(q))
    BY <2>1, ConcatAdjacentSubSeq
  <2> QED
    BY <2>2, SubSeqFull
<1>3. g \o SubSeq(q, 1, n) \in Seq(Nat)
  BY <1>1, ConcatProperties
<1>4. (g \o SubSeq(q, 1, n)) \o SubSeq(q, n + 1, Len(q))
      = g \o (SubSeq(q, 1, n) \o SubSeq(q, n + 1, Len(q)))
  BY <1>1, Associative
<1> QED
  BY <1>1, <1>2, <1>3, <1>4

\* A byte that arrives goes behind what waits.
LEMMA AppendedByte ==
    ASSUME NEW g \in Seq(Nat), NEW q \in Seq(Nat), NEW n \in Nat, g \o q = Bytes(n)
    PROVE  Append(q, n + 1) \in Seq(Nat) /\ g \o Append(q, n + 1) = Bytes(n + 1)
<1>1. Append(q, n + 1) = q \o <<n + 1>> /\ Append(q, n + 1) \in Seq(Nat)
  BY AppendIsConcat, AppendProperties
<1>2. g \o Append(q, n + 1) = Bytes(n) \o <<n + 1>>
  BY <1>1, ConcatAssociative, <<n + 1>> \in Seq(Nat), SMTT(30)
<1>3. Bytes(n) \o <<n + 1>> = Bytes(n + 1)
  <2>1. Bytes(n) \in Seq(Nat) /\ Len(Bytes(n)) = n
    BY DEF Bytes
  <2>2. Bytes(n + 1) \in Seq(Nat) /\ Len(Bytes(n + 1)) = n + 1
    BY DEF Bytes
  <2>3. <<n + 1>> \in Seq(Nat) /\ Len(<<n + 1>>) = 1
    OBVIOUS
  <2>4. /\ Bytes(n) \o <<n + 1>> \in Seq(Nat)
        /\ Len(Bytes(n) \o <<n + 1>>) = n + 1
        /\ \A i \in 1 .. n + 1 : (Bytes(n) \o <<n + 1>>)[i] = IF i <= n THEN Bytes(n)[i] ELSE n + 1
    BY <2>1, <2>3, ConcatProperties
  <2>5. \A i \in 1 .. n + 1 : (Bytes(n) \o <<n + 1>>)[i] = Bytes(n + 1)[i]
    BY <2>4 DEF Bytes
  <2> QED
    BY <2>2, <2>4, <2>5, SeqEqual
<1> QED
  BY <1>1, <1>2, <1>3

\* No byte has arrived at first.
LEMMA InitOrdered == Init => Ordered
<1>1. <<>> \in Seq(Nat) /\ <<>> \o <<>> = <<>> /\ Bytes(0) = <<>>
  BY DEF Bytes
<1> QED
  BY <1>1 DEF Init, Ordered

\* Every step keeps the order of bytes.
LEMMA NextOrdered == Ordered /\ [Next]_vars => Ordered'
<1> SUFFICES ASSUME Ordered, [Next]_vars PROVE Ordered'
  OBVIOUS
<1>1. CASE Read
  <2>1. UNCHANGED sentByPeer /\ (Take \/ UNCHANGED <<got, inQueue>>)
    BY <1>1 DEF Read
  <2>2. CASE Take
    <3>1. PICK n \in 0 .. Len(inQueue) :
              /\ got' = got \o SubSeq(inQueue, 1, n)
              /\ inQueue' = SubSeq(inQueue, n + 1, Len(inQueue))
      <4> DEFINE n == IF Len(inQueue) < LenBuf THEN Len(inQueue) ELSE LenBuf
      <4>1. n \in 0 .. Len(inQueue)
        BY TransferingAssumption DEF Ordered
      <4>2. /\ got' = got \o SubSeq(inQueue, 1, n)
            /\ inQueue' = SubSeq(inQueue, n + 1, Len(inQueue))
        BY <2>2 DEF Take
      <4> QED
        BY <4>1, <4>2
    <3> QED
      BY <2>1, <3>1, MovedBytes DEF Ordered, Bytes
  <2> QED
    BY <2>1, <2>2 DEF Ordered, Bytes
<1>2. CASE Arrive
  <2>1. /\ sentByPeer' = sentByPeer + 1 /\ got' = got
        /\ inQueue' = Append(inQueue, sentByPeer + 1)
    BY <1>2 DEF Arrive, userVars
  <2>2. Append(inQueue, sentByPeer + 1) \in Seq(Nat)
        /\ got \o Append(inQueue, sentByPeer + 1) = Bytes(sentByPeer + 1)
    BY AppendedByte DEF Ordered
  <2>3. sentByPeer + 1 \in Nat
    BY DEF Ordered
  <2> QED
    BY <2>1, <2>2, <2>3 DEF Ordered, Bytes
<1>3. CASE ~Read /\ ~Arrive
  <2>1. UNCHANGED <<got, inQueue, sentByPeer>>
    BY <1>3 DEF Next, Tick, Begin, Start, SrvArgCheck, CltArgCheck, CltConnDoneWait, PollFails,
                CltConnDone,
                ConnMain, Shutdown, Cancel, Send, DoneSet, Network, Become, OtherOpens,
                TimePasses, vars, osVars, userVars
  <2> QED
    BY <2>1 DEF Ordered, Bytes
<1> QED
  BY <1>1, <1>2, <1>3

\* Every byte of the peer reaches a user, in its order, or still waits; a
\* regular end closes the connection behind the last one:
\* TcpTransfering.cpp:253-261, 312-387.
THEOREM NoByteLost == Spec => []NothingLost
<1>1. Spec => []Ordered
  BY InitOrdered, NextOrdered, PTL DEF Spec
<1>2. Ordered /\ EndInv => NothingLost
  BY DEF Ordered, EndInv, NothingLost
<1> QED
  BY <1>1, <1>2, EndInvariance, PTL
-----------------------------------------------------------------------------
(* What can be read.  The states in which a connection is watched are only *)
(* entered with mReadReady set, and nothing takes it back.                 *)
Connecting == {"StCltConnDoneWait", "StCltConnDone"}

WatchInv ==
    /\ success \in {"Pending", "Positive", "Failed"} /\ diffMs \in 0 .. TmoConnDone + 1
    /\ mReadReady \in BOOLEAN /\ mSendReady \in BOOLEAN /\ sentByPeer \in 0 .. NumBytes
    /\ mState \in Connecting \union {"StConnMain"} => mReadReady

\* A process that has not begun watches nothing.
LEMMA InitWatch == Init => WatchInv
<1>1. NumBytes \in Nat /\ TmoConnDone \in Nat
  BY TransferingAssumption
<1>2. 0 \in 0 .. TmoConnDone + 1 /\ 0 \in 0 .. NumBytes
  BY <1>1
<1> QED
  BY <1>2 DEF Init, InitSrv, InitClt, WatchInv, Connecting

\* Every step.
LEMMA NextWatch == WatchInv /\ EndInv /\ [Next]_vars => WatchInv'
<1> SUFFICES ASSUME WatchInv, EndInv, [Next]_vars PROVE WatchInv'
  OBVIOUS
<1>0. NumBytes \in Nat /\ TmoConnDone \in Nat
  BY TransferingAssumption
<1> USE <1>0 DEF WatchInv, Connecting
<1>1. CASE Begin \/ Cancel
  BY <1>1 DEF Begin, Cancel, flagVars, osVars, userVars
<1>2. CASE Start
  BY <1>2 DEF Start, Ticking, Enter, flagVars, osVars, userVars
<1>3. CASE SrvArgCheck
  BY <1>3 DEF SrvArgCheck, Ticking, Enter, End, osVars, userVars
<1>4. CASE CltArgCheck
  <2>1. /\ UNCHANGED <<mSendReady, sentByPeer>> /\ mReadReady' \in BOOLEAN
        /\ success' \in {success, "Failed"} /\ diffMs' \in {diffMs, 0}
    BY <1>4 DEF CltArgCheck, Enter, End
  <2>2. mState = "StCltArgCheck" /\ (mState' = mState \/ mReadReady')
    BY <1>4 DEF CltArgCheck, Ticking, Enter, End
  <2> QED
    BY <2>1, <2>2
<1>5. CASE CltConnDoneWait \/ PollFails
  <2>1. UNCHANGED <<diffMs, mReadReady, mSendReady, sentByPeer>>
    BY <1>5 DEF CltConnDoneWait, PollFails, Enter, End, procVars, flagVars, osVars
  <2>2. success' \in {success, "Failed"} /\ mState' \in {mState, "StCltConnDone"}
        /\ mState = "StCltConnDoneWait"
    BY <1>5 DEF CltConnDoneWait, PollFails, Ticking, Enter, End, procVars
  <2> QED
    BY <2>1, <2>2
<1>6. CASE CltConnDone
  BY <1>6 DEF CltConnDone, Ticking, Enter, osVars, userVars
<1>7. CASE ConnMain
  <2>1. UNCHANGED <<mState, diffMs, mReadReady, mSendReady, sentByPeer>>
    BY <1>7 DEF ConnMain, Watch, End, procVars, flagVars
  <2>2. success' \in {success, "Positive", "Failed"}
    BY <1>7 DEF ConnMain, Watch, End, procVars
  <2> QED
    BY <2>1, <2>2
<1>8. CASE Shutdown \/ Read \/ Send
  BY <1>8 DEF Shutdown, Read, Send, procVars, flagVars
<1>9. CASE DoneSet
  BY <1>9 DEF DoneSet, procVars, osVars
<1>10. CASE Network
  <2>1. CASE Arrive
    BY <2>1 DEF Arrive, procVars, flagVars
  <2>2. CASE ~Arrive
    BY <1>10, <2>2 DEF Network, Become, procVars, flagVars
  <2> QED
    BY <2>1, <2>2
<1>11. CASE OtherOpens
  BY <1>11 DEF OtherOpens, procVars, flagVars
<1>12. CASE TimePasses
  BY <1>12 DEF TimePasses, flagVars, osVars
<1>13. CASE UNCHANGED vars
  BY <1>13 DEF vars, procVars, flagVars, osVars
<1> QED
  BY <1>1, <1>2, <1>3, <1>4, <1>5, <1>6, <1>7, <1>8, <1>9, <1>10, <1>11, <1>12, <1>13
     DEF Next, Tick

\* Every variable keeps its values, whatever the bounds; a connection that is
\* watched is one that read() looks at, so that process() learns of its end:
\* TcpTransfering.cpp:160-261, 312-321, 509.
THEOREM TypeCorrect == Spec => []TypeOK
<1>1. Spec => []Ordered
  BY InitOrdered, NextOrdered, PTL DEF Spec
<1>2. Spec => []WatchInv
  <2>1. WatchInv /\ EndInv /\ [Next]_vars => WatchInv'
    BY NextWatch
  <2> QED
    BY InitWatch, <2>1, EndInvariance, PTL DEF Spec
<1>3. TransferInv /\ EndInv /\ Ordered /\ WatchInv => TypeOK
  BY DEF TransferInv, Typed, EndInv, Ordered, WatchInv, TypeOK
<1> QED
  BY <1>1, <1>2, <1>3, Invariance, EndInvariance, PTL
=============================================================================
