--------------------------- MODULE ListeningProofs ---------------------------
(***************************************************************************)
(* What holds of listeners and the users of their queues, however many     *)
(* there are of them, whatever their limits and however many connections.  *)
(***************************************************************************)
EXTENDS TcpListening, TLAPS

\* Only what was accepted is taken.
TakenOnce == \A c \in Conns : fd[c] = "none" => user[c] = "no"

ListInv == ListeningInv /\ TakenOnce

(* The queue after a connection was appended, or the first one was taken     *)
AppendedTo(q, k, c) == [q EXCEPT ![k] = Append(@, c)]
Shortened(q, k) == [q EXCEPT ![k] = Tail(@)]

-----------------------------------------------------------------------------
\* Where an element of a queue comes from after an append.
LEMMA QueueAppended ==
    ASSUME NEW q \in [Listeners -> Seq(Conns)], NEW k \in Listeners, NEW c \in Conns
    PROVE  /\ AppendedTo(q, k, c) \in [Listeners -> Seq(Conns)]
           /\ Len(AppendedTo(q, k, c)[k]) = Len(q[k]) + 1
           /\ AppendedTo(q, k, c)[k][Len(q[k]) + 1] = c
           /\ DOMAIN AppendedTo(q, k, c)[k] = DOMAIN q[k] \cup {Len(q[k]) + 1}
           /\ \A i \in DOMAIN q[k] : AppendedTo(q, k, c)[k][i] = q[k][i]
           /\ \A l \in Listeners : l # k => AppendedTo(q, k, c)[l] = q[l]
<1>1. q[k] \in Seq(Conns)
  OBVIOUS
<1>2. AppendedTo(q, k, c)[k] = Append(q[k], c)
  BY DEF AppendedTo
<1>3. \A l \in Listeners : l # k => AppendedTo(q, k, c)[l] = q[l]
  BY DEF AppendedTo
<1>4. AppendedTo(q, k, c) \in [Listeners -> Seq(Conns)]
  BY <1>1 DEF AppendedTo
<1> QED
  BY <1>1, <1>2, <1>3, <1>4

\* Where an element of a queue comes from after the first was taken.
LEMMA QueueShortened ==
    ASSUME NEW q \in [Listeners -> Seq(Conns)], NEW k \in Listeners, q[k] # <<>>
    PROVE  /\ Shortened(q, k) \in [Listeners -> Seq(Conns)]
           /\ Len(Shortened(q, k)[k]) = Len(q[k]) - 1
           /\ 1 \in DOMAIN q[k] /\ Head(q[k]) = q[k][1]
           /\ DOMAIN Shortened(q, k)[k] = {i \in Nat : i + 1 \in DOMAIN q[k] /\ i # 0}
           /\ \A i \in DOMAIN Shortened(q, k)[k] : i + 1 \in DOMAIN q[k] /\ Shortened(q, k)[k][i] = q[k][i + 1]
           /\ \A l \in Listeners : l # k => Shortened(q, k)[l] = q[l]
<1>1. q[k] \in Seq(Conns)
  OBVIOUS
<1>2. Shortened(q, k)[k] = Tail(q[k])
  BY DEF Shortened
<1>3. \A l \in Listeners : l # k => Shortened(q, k)[l] = q[l]
  BY DEF Shortened
<1>4. Shortened(q, k) \in [Listeners -> Seq(Conns)]
  BY <1>1 DEF Shortened
<1>5. Len(Tail(q[k])) = Len(q[k]) - 1 /\ DOMAIN Tail(q[k]) = 1 .. Len(q[k]) - 1 /\ DOMAIN q[k] = 1 .. Len(q[k])
  BY <1>1
<1>6. \A i \in 1 .. Len(q[k]) - 1 : Tail(q[k])[i] = q[k][i + 1]
  BY <1>1
<1>7. Len(q[k]) \in Nat \ {0} /\ Head(q[k]) = q[k][1]
  BY <1>1
<1> QED
  BY <1>2, <1>3, <1>4, <1>5, <1>6, <1>7

\* No queue has an element at first.
LEMMA ListInit == LstInit => ListInv
  BY ListeningAssumption
  DEF LstInit, ListInv, ListeningInv, LstTypeOK, QueuedOnce, OpenIsHeld, QueueLimit, TakenOnce, Lives, Conns

(* Steps that leave queues, descriptors and users alone: what is left is the  *)
(* type, and what a queue is in each state of its listener                    *)
LEMMA ProcessKeeps ==
    ASSUME ListInv, UNCHANGED <<ppPeerFd, user, fd>>, LstTypeOK',
           \A k \in Listeners :
             /\ lstLife'[k] \notin {"Processing", "DownShutting"} => ppPeerFd[k] = <<>>
             /\ lstLife'[k] # "Processing" => accepting'[k] = "no"
    PROVE  ListInv'
  BY DEF ListInv, ListeningInv, QueuedOnce, OpenIsHeld, QueueLimit, TakenOnce, Conns

\* treeTick() of a listener enters no life but those of the type.
LEMMA StateKeeps ==
    ASSUME NEW life \in Lives, NEW unused, life \notin {"none", "deleted"}
    PROVE  /\ Passed(life, unused) \in Lives
           /\ Visited(life, unused, FALSE) \in Lives
           /\ Visited("DownShutting", unused, FALSE) = "DownShutting"
           /\ Visited("ChildrenUnusedSet", unused, FALSE) = "ChildrenUnusedSet"
           /\ Visited(Passed(life, unused), unused, FALSE) \in Lives
           /\ Visited(Passed(life, unused), unused, FALSE) \notin {"Processing", "DownShutting"}
                => life # "Processing"
  BY DEF Lives, Passed, Visited

\* The sockets are set up.
LEMMA StartKeeps == ASSUME ListInv, NEW k \in Listeners, LstTick(k), StStart(k) PROVE ListInv'
<1> USE DEF ListInv, ListeningInv, LstTypeOK, QueueLimit
<1>1. PICK v4 \in SocketCreate(k, "IPv4"), v6 \in SocketCreate(k, "IPv6") :
        \/ /\ ~ v4.ok
           /\ LstEnters(k, "DownShutting")
           /\ fdLst' = [fdLst EXCEPT ![k] = v4.open]
           /\ UNCHANGED lstState
        \/ /\ v4.ok
           /\ fdLst' = [fdLst EXCEPT ![k] = v4.open \cup (IF v6.ok THEN v6.open ELSE {})]
           /\ lstState' = [lstState EXCEPT ![k] = "StMain"]
           /\ UNCHANGED lstLife
  BY DEF StStart
<1>2. v4.open \in SUBSET Families /\ (v6.ok => v6.open \in SUBSET Families)
  BY ListeningAssumption DEF SocketCreate
<1>3. UNCHANGED <<lstUnused, mCntSkip, accepting, ppPeerFd, user, fd>> /\ lstLife[k] \notin {"none", "deleted"}
  BY DEF StStart, LstTick
<1>4. accepting[k] = "no"
  BY DEF LstTick
<1>5. Visited("DownShutting", lstUnused[k], FALSE) = "DownShutting"
  BY DEF Visited
<1>6. lstLife' = lstLife \/ lstLife' = [lstLife EXCEPT ![k] = "DownShutting"]
  BY <1>1, <1>5 DEF LstEnters
<1>7. \A l \in Listeners : lstLife'[l] = lstLife[l] \/ (l = k /\ lstLife'[l] = "DownShutting")
  BY <1>6
<1>8. lstLife' \in [Listeners -> Lives]
  BY <1>6 DEF Lives
<1>9. lstState' \in [Listeners -> {"StStart", "StMain"}] /\ fdLst' \in [Listeners -> SUBSET Families]
  BY <1>1, <1>2, ZenonT(40)
<1>10. LstTypeOK'
  BY <1>3, <1>8, <1>9
<1> QED
  BY <1>3, <1>4, <1>7, <1>10, ProcessKeeps

\* A tick that only goes on to the next life.
LEMMA PassKeeps ==
    ASSUME ListInv, NEW k \in Listeners, lstLife[k] \notin {"none", "deleted", "DownShutting"},
           accepting[k] = "no", LstPass(k)
    PROVE  ListInv'
<1> USE DEF ListInv, ListeningInv, LstTypeOK, QueueLimit
<1>1. lstLife' = [lstLife EXCEPT ![k] = Visited(Passed(lstLife[k], lstUnused[k]), lstUnused[k], FALSE)]
  BY DEF LstPass, LstEnters
<1>2. UNCHANGED <<lstUnused, lstState, mCntSkip, accepting, fdLst, ppPeerFd, user, fd>>
  BY DEF LstPass
<1>3. LstTypeOK'
  BY <1>1, <1>2, StateKeeps
<1> QED
  BY <1>1, <1>2, <1>3, StateKeeps, ProcessKeeps, ZenonT(40)

(* What a socket hands out comes into the queue, is closed, or is lost       *)
LEMMA AcceptKeeps ==
    ASSUME ListInv, NEW k \in Listeners, NEW f \in {"IPv4", "IPv6"}, lstLife[k] = "Processing",
           ConnectionsAccept(k, f), mCntSkip' \in [Listeners -> 0 .. CntSkipMax - 1],
           UNCHANGED <<lstUnused, lstState, fdLst, user>>
    PROVE  ListInv'
<1> USE DEF ListInv, ListeningInv, LstTypeOK, QueueLimit
<1>0. PICK next \in {"IPv4", "IPv6", "no"} : accepting' = [accepting EXCEPT ![k] = next]
  BY DEF ConnectionsAccept, Queue, Drop, Lose, NoConnection, NextSocket, Accepting
<1>1. accepting' \in [Listeners -> {"IPv4", "IPv6", "no"}] /\ \A l \in Listeners : l # k => accepting'[l] = accepting[l]
  BY <1>0
<1>2. CASE NoConnection(k, f) /\ UNCHANGED lstLife
  BY <1>1, <1>2, ProcessKeeps DEF NoConnection
<1>5. ASSUME NEW c \in Conns, IsNext(c), Lose(k, c) PROVE ListInv'
  <2>1. fd' = [fd EXCEPT ![c] = "lost"] /\ UNCHANGED ppPeerFd /\ fd[c] = "none"
    BY <1>5 DEF Lose, IsNext
  <2>2. lstLife' = [lstLife EXCEPT ![k] = "DownShutting"] /\ accepting' = [accepting EXCEPT ![k] = "no"]
    BY <1>5 DEF Lose, LstEnters, Visited, Accepting
  <2>3. LstTypeOK' /\ QueueLimit'
    BY <2>1, <2>2 DEF Lives
  <2>4. QueuedOnce' /\ OpenIsHeld' /\ TakenOnce'
    BY <2>1 DEF QueuedOnce, OpenIsHeld, TakenOnce, Conns
  <2> QED
    BY <2>3, <2>4
<1>3. ASSUME NEW c \in Conns, IsNext(c), Drop(k, f, c), UNCHANGED lstLife PROVE ListInv'
  <2>1. fd' = [fd EXCEPT ![c] = "closed"] /\ UNCHANGED ppPeerFd /\ fd[c] = "none"
    BY <1>3 DEF Drop, IsNext
  <2>2. LstTypeOK' /\ QueueLimit'
    BY <1>1, <1>3, <2>1
  <2>3. QueuedOnce' /\ OpenIsHeld' /\ TakenOnce'
    BY <2>1 DEF QueuedOnce, OpenIsHeld, TakenOnce, Conns
  <2> QED
    BY <2>2, <2>3
<1>4. ASSUME NEW c \in Conns, IsNext(c), Queue(k, f, c), UNCHANGED lstLife PROVE ListInv'
  <2>1. fd' = [fd EXCEPT ![c] = "open"] /\ fd[c] = "none" /\ user[c] = "no"
    BY <1>4 DEF Queue, IsNext, TakenOnce
  <2>2. Len(ppPeerFd[k]) \in Nat /\ Len(ppPeerFd[k]) < MaxConn[k]
    <3>1. ppPeerFd[k] \in Seq(Conns) /\ MaxConn[k] \in Nat
      BY ListeningAssumption
    <3>2. Len(ppPeerFd[k]) \in Nat /\ ~ (Len(ppPeerFd[k]) >= MaxConn[k])
      BY <1>4, <3>1 DEF Queue, IsFull
    <3> QED
      BY <3>1, <3>2
  <2>3. /\ ppPeerFd' \in [Listeners -> Seq(Conns)]
        /\ Len(ppPeerFd'[k]) = Len(ppPeerFd[k]) + 1
        /\ ppPeerFd'[k][Len(ppPeerFd[k]) + 1] = c
        /\ DOMAIN ppPeerFd'[k] = DOMAIN ppPeerFd[k] \cup {Len(ppPeerFd[k]) + 1}
        /\ \A i \in DOMAIN ppPeerFd[k] : ppPeerFd'[k][i] = ppPeerFd[k][i]
        /\ \A l \in Listeners : l # k => ppPeerFd'[l] = ppPeerFd[l]
    <3>1. ppPeerFd' = AppendedTo(ppPeerFd, k, c)
      BY <1>4 DEF Queue, AppendedTo
    <3> HIDE DEF ListInv
    <3>2. ppPeerFd \in [Listeners -> Seq(Conns)]
      BY DEF ListInv
    <3> QED
      BY <3>1, <3>2, QueueAppended, SMTT(30)
  <2>4. \A l \in Listeners : \A i \in DOMAIN ppPeerFd[l] : ppPeerFd[l][i] # c
    BY <2>1 DEF QueuedOnce
  <2>5. LstTypeOK'
    BY <1>1, <1>4, <2>1, <2>3
  <2>6. QueueLimit'
    <3>1. \A l \in Listeners : Len(ppPeerFd'[l]) <= MaxConn[l]
      <4> SUFFICES ASSUME NEW l \in Listeners PROVE Len(ppPeerFd'[l]) <= MaxConn[l]
        OBVIOUS
      <4>1. MaxConn[k] \in Nat
        BY ListeningAssumption
      <4>2. CASE l = k
        BY <2>2, <2>3, <4>1, <4>2
      <4>3. CASE l # k
        BY <2>3, <4>3
      <4> QED
        BY <4>2, <4>3
    <3> QED
      BY <1>1, <1>4, <2>3, <3>1
  <2>7. QueuedOnce'
    <3> SUFFICES ASSUME NEW l \in Listeners, NEW i \in DOMAIN ppPeerFd'[l]
                 PROVE  /\ fd'[ppPeerFd'[l][i]] = "open" /\ user'[ppPeerFd'[l][i]] = "no"
                        /\ \A m \in Listeners : \A j \in DOMAIN ppPeerFd'[m] :
                             ppPeerFd'[m][j] = ppPeerFd'[l][i] => m = l /\ j = i
      BY DEF QueuedOnce
    <3>1. CASE l = k /\ i = Len(ppPeerFd[k]) + 1
      <4>1. ppPeerFd'[l][i] = c /\ fd'[c] = "open" /\ user'[c] = "no"
        BY <2>1, <2>3, <3>1
      <4>2. ASSUME NEW m \in Listeners, NEW j \in DOMAIN ppPeerFd'[m], ppPeerFd'[m][j] = c
            PROVE  m = l /\ j = i
        <5>1. ~ (j \in DOMAIN ppPeerFd[m] /\ ppPeerFd'[m][j] = ppPeerFd[m][j])
          BY <2>4, <4>2
        <5>2. m = k
          BY <2>3, <5>1
        <5>3. j = Len(ppPeerFd[k]) + 1
          BY <2>3, <5>1, <5>2
        <5> QED
          BY <3>1, <5>2, <5>3
      <4> QED
        BY <4>1, <4>2
    <3>2. CASE ~ (l = k /\ i = Len(ppPeerFd[k]) + 1)
      <4>1. i \in DOMAIN ppPeerFd[l] /\ ppPeerFd'[l][i] = ppPeerFd[l][i]
        BY <2>3, <3>2
      <4>2. fd[ppPeerFd[l][i]] = "open" /\ user[ppPeerFd[l][i]] = "no" /\ ppPeerFd[l][i] \in Conns
        BY <4>1 DEF QueuedOnce
      <4>3. fd'[ppPeerFd[l][i]] = "open"
        BY <2>1, <4>2
      <4>4. \A m \in Listeners : \A j \in DOMAIN ppPeerFd'[m] :
              ppPeerFd'[m][j] = ppPeerFd[l][i] => m = l /\ j = i
        <5> SUFFICES ASSUME NEW m \in Listeners, NEW j \in DOMAIN ppPeerFd'[m], ppPeerFd'[m][j] = ppPeerFd[l][i]
                     PROVE  m = l /\ j = i
          OBVIOUS
        <5>1. ppPeerFd[l][i] # c
          BY <2>4, <4>1
        <5>2. j \in DOMAIN ppPeerFd[m] /\ ppPeerFd[m][j] = ppPeerFd[l][i]
          <6>1. CASE m = k
            <7>1. j # Len(ppPeerFd[k]) + 1
              BY <2>3, <5>1, <6>1
            <7> QED
              BY <2>3, <6>1, <7>1
          <6>2. CASE m # k
            BY <2>3, <6>2
          <6> QED
            BY <6>1, <6>2
        <5> QED
          BY <4>1, <5>2 DEF QueuedOnce
      <4> QED
        BY <4>1, <4>2, <4>3, <4>4
    <3> QED
      BY <3>1, <3>2
  <2>8. OpenIsHeld'
    <3> SUFFICES ASSUME NEW d \in Conns, fd'[d] = "open", user[d] = "no"
                 PROVE  \E l \in Listeners : \E i \in DOMAIN ppPeerFd'[l] : ppPeerFd'[l][i] = d
      BY DEF OpenIsHeld
    <3>1. CASE d = c
      BY <2>3, <3>1
    <3>2. CASE d # c
      <4>1. PICK l \in Listeners : \E i \in DOMAIN ppPeerFd[l] : ppPeerFd[l][i] = d
        BY <2>1, <3>2 DEF OpenIsHeld
      <4>2. PICK i \in DOMAIN ppPeerFd[l] : ppPeerFd[l][i] = d
        BY <4>1
      <4>3. i \in DOMAIN ppPeerFd'[l] /\ ppPeerFd'[l][i] = d
        BY <2>3, <4>2
      <4> QED
        BY <4>3
    <3> QED
      BY <3>1, <3>2
  <2>9. TakenOnce'
    BY <2>1 DEF TakenOnce
  <2> QED
    BY <2>5, <2>6, <2>7, <2>8, <2>9
<1> QED
  BY <1>2, <1>3, <1>4, <1>5 DEF ConnectionsAccept

\* What is queued is closed.
LEMMA ShutdownKeeps ==
    ASSUME ListInv, NEW k \in Listeners, accepting[k] = "no", LstShutdown(k) PROVE ListInv'
<1> USE DEF ListInv, ListeningInv, LstTypeOK, QueueLimit
<1>1. lstLife' = [lstLife EXCEPT ![k] = "ChildrenUnusedSet"] /\ UNCHANGED <<lstUnused, lstState, mCntSkip, accepting, user>>
  BY StateKeeps DEF LstShutdown, LstEnters, Visited
<1>2. ppPeerFd' = [ppPeerFd EXCEPT ![k] = <<>>] /\ fdLst' = [fdLst EXCEPT ![k] = {}]
  BY DEF LstShutdown
<1>3. fd' = [c \in Conns |-> IF \E i \in DOMAIN ppPeerFd[k] : ppPeerFd[k][i] = c THEN "closed" ELSE fd[c]]
  BY DEF LstShutdown
<1>4. LstTypeOK'
  BY <1>1, <1>2, <1>3 DEF Lives
<1>7. QueueLimit'
  <2>1. <<>> \in Seq(Conns) /\ Len(<<>>) = 0 /\ MaxConn[k] \in Nat
    BY ListeningAssumption
  <2>2. \A l \in Listeners : Len(ppPeerFd'[l]) <= MaxConn[l]
    BY <1>2, <2>1
  <2> QED
    BY <1>1, <1>2, <2>2
<1>5. QueuedOnce'
  BY <1>1, <1>2, <1>3 DEF QueuedOnce
<1>6. OpenIsHeld' /\ TakenOnce'
  BY <1>1, <1>2, <1>3 DEF OpenIsHeld, TakenOnce
<1> QED
  BY <1>4, <1>5, <1>6, <1>7

\* Every step of a tick.
LEMMA TickKeeps == ASSUME ListInv, NEW k \in Listeners, LstTick(k) PROVE ListInv'
<1>1. lstLife[k] \notin {"none", "deleted"} /\ accepting[k] = "no"
  BY DEF LstTick
<1>2. CASE CallsProcess(lstLife[k], lstUnused[k]) /\ StStart(k)
  BY <1>2, StartKeeps
<1>3. CASE CallsProcess(lstLife[k], lstUnused[k]) /\ StMain(k)
  <2>1. lstLife[k] = "Processing" /\ UNCHANGED <<lstUnused, lstState, fdLst, user>>
    BY <1>3 DEF StMain, CallsProcess
  <2>2. mCntSkip' \in [Listeners -> 0 .. CntSkipMax - 1]
    <3>1. CntSkipMax \in Nat \ {0} /\ mCntSkip \in [Listeners -> 0 .. CntSkipMax - 1]
      BY ListeningAssumption DEF ListInv, ListeningInv, LstTypeOK
    <3>2. CASE mCntSkip[k] + 1 < CntSkipMax
      BY <1>3, <3>1, <3>2 DEF StMain
    <3>3. CASE ~ (mCntSkip[k] + 1 < CntSkipMax)
      BY <1>3, <3>1, <3>3 DEF StMain
    <3> QED
      BY <3>2, <3>3
  <2>3. CASE ConnectionsAccept(k, "IPv4")
    BY <2>1, <2>2, <2>3, AcceptKeeps
  <2>4. CASE UNCHANGED <<lstLife, accepting, ppPeerFd, fd>>
    BY <2>1, <2>2, <2>4, ProcessKeeps DEF ListInv, ListeningInv, LstTypeOK, QueueLimit
  <2> QED
    BY <1>3, <2>3, <2>4 DEF StMain
<1>4. CASE CallsShutdown(lstLife[k]) /\ LstShutdown(k)
  BY <1>1, <1>4, ShutdownKeeps
<1>5. CASE ~ CallsShutdown(lstLife[k]) /\ LstPass(k)
  BY <1>1, <1>5, PassKeeps DEF CallsShutdown
<1> QED
  BY <1>2, <1>3, <1>4, <1>5 DEF LstTick

\* The parent takes the first of a queue.
LEMMA TakeKeeps ==
    ASSUME ListInv, NEW k \in Listeners, Take(k), UNCHANGED <<processVars, fd>> PROVE ListInv'
<1> USE DEF ListInv, ListeningInv, LstTypeOK, QueueLimit
<1>1. ppPeerFd[k] # <<>> /\ ppPeerFd' = Shortened(ppPeerFd, k) /\ user' = [user EXCEPT ![Head(ppPeerFd[k])] = k]
  BY DEF Take, Shortened
<1>2. UNCHANGED <<lstLife, lstUnused, lstState, mCntSkip, accepting, fdLst, fd>>
  BY DEF processVars
<1>3. /\ ppPeerFd' \in [Listeners -> Seq(Conns)]
      /\ Len(ppPeerFd'[k]) = Len(ppPeerFd[k]) - 1
      /\ 1 \in DOMAIN ppPeerFd[k] /\ Head(ppPeerFd[k]) = ppPeerFd[k][1]
      /\ DOMAIN ppPeerFd'[k] = {i \in Nat : i + 1 \in DOMAIN ppPeerFd[k] /\ i # 0}
      /\ \A i \in DOMAIN ppPeerFd'[k] : i + 1 \in DOMAIN ppPeerFd[k] /\ ppPeerFd'[k][i] = ppPeerFd[k][i + 1]
      /\ \A l \in Listeners : l # k => ppPeerFd'[l] = ppPeerFd[l]
  <2> HIDE DEF ListInv
  <2>1. ppPeerFd \in [Listeners -> Seq(Conns)]
    BY DEF ListInv
  <2> QED
    BY <1>1, <2>1, QueueShortened
<1>4. DOMAIN ppPeerFd[k] = 1 .. Len(ppPeerFd[k]) /\ Len(ppPeerFd[k]) \in Nat /\ ppPeerFd[k][1] \in Conns
  BY <1>3
<1>5. PICK c \in Conns : c = ppPeerFd[k][1]
  BY <1>4
<1>6. fd[c] = "open" /\ user[c] = "no" /\ user' = [user EXCEPT ![c] = k]
  BY <1>1, <1>3, <1>5 DEF QueuedOnce
<1>7. LstTypeOK'
  BY <1>2, <1>3, <1>6
<1>8. QueueLimit'
  <2>1. \A l \in Listeners : Len(ppPeerFd'[l]) <= MaxConn[l]
    <3> SUFFICES ASSUME NEW l \in Listeners PROVE Len(ppPeerFd'[l]) <= MaxConn[l]
      OBVIOUS
    <3>1. CASE l = k
      <4>1. MaxConn[k] \in Nat /\ Len(ppPeerFd[k]) <= MaxConn[k]
        BY ListeningAssumption
      <4> QED
        BY <1>3, <1>4, <3>1, <4>1
    <3>2. CASE l # k
      BY <1>3, <3>2
    <3> QED
      BY <3>1, <3>2
  <2>2. lstLife[k] \in {"Processing", "DownShutting"}
    BY <1>1
  <2> QED
    BY <1>2, <1>3, <2>1, <2>2
<1>9. TakenOnce'
  BY <1>2, <1>6 DEF TakenOnce
<1>12. QueuedOnce /\ OpenIsHeld /\ user \in [Conns -> Listeners \cup {"no"}]
  OBVIOUS
<1>10. QueuedOnce'
  <2> HIDE DEF ListInv, ListeningInv, LstTypeOK, QueueLimit
  <2> DEFINE Old(l, i) == IF l = k THEN i + 1 ELSE i
  <2>1. \A l \in Listeners : \A i \in DOMAIN ppPeerFd'[l] :
          /\ Old(l, i) \in DOMAIN ppPeerFd[l] /\ ppPeerFd'[l][i] = ppPeerFd[l][Old(l, i)]
          /\ l = k => i # 0 /\ i \in Nat
    BY <1>3
  <2> SUFFICES ASSUME NEW l \in Listeners, NEW i \in DOMAIN ppPeerFd'[l]
               PROVE  /\ fd[ppPeerFd'[l][i]] = "open" /\ user'[ppPeerFd'[l][i]] = "no"
                      /\ \A m \in Listeners : \A j \in DOMAIN ppPeerFd'[m] :
                           ppPeerFd'[m][j] = ppPeerFd'[l][i] => m = l /\ j = i
    BY <1>2 DEF QueuedOnce
  <2>2. /\ fd[ppPeerFd'[l][i]] = "open" /\ user[ppPeerFd'[l][i]] = "no" /\ ppPeerFd'[l][i] \in Conns
    BY <1>12, <1>3, <2>1 DEF QueuedOnce
  <2>3. ppPeerFd'[l][i] # c
    <3>1. CASE l = k
      <4>1. i + 1 \in DOMAIN ppPeerFd[k] /\ i + 1 # 1 /\ ppPeerFd'[l][i] = ppPeerFd[k][i + 1]
        BY <1>3, <3>1
      <4> QED
        BY <1>12, <1>3, <1>5, <4>1 DEF QueuedOnce
    <3>2. CASE l # k
      BY <1>12, <1>3, <1>5, <3>2 DEF QueuedOnce
    <3> QED
      BY <3>1, <3>2
  <2>4. ASSUME NEW m \in Listeners, NEW j \in DOMAIN ppPeerFd'[m], ppPeerFd'[m][j] = ppPeerFd'[l][i]
        PROVE  m = l /\ j = i
    <3>1. m = l /\ Old(m, j) = Old(l, i)
      BY <1>12, <2>1, <2>4 DEF QueuedOnce
    <3>2. CASE l = k
      BY <2>1, <3>1, <3>2
    <3>3. CASE l # k
      BY <3>1, <3>3
    <3> QED
      BY <3>2, <3>3
  <2> QED
    BY <1>6, <2>2, <2>3, <2>4
<1>11. OpenIsHeld'
  <2> HIDE DEF ListInv, ListeningInv, LstTypeOK, QueueLimit
  <2> SUFFICES ASSUME NEW d \in Conns, fd[d] = "open", user'[d] = "no"
               PROVE  \E l \in Listeners : \E i \in DOMAIN ppPeerFd'[l] : ppPeerFd'[l][i] = d
    BY <1>2 DEF OpenIsHeld
  <2>1. d # c /\ user[d] = "no"
    BY <1>6, <1>12, ListeningAssumption
  <2>2. PICK l \in Listeners : \E i \in DOMAIN ppPeerFd[l] : ppPeerFd[l][i] = d
    BY <1>12, <2>1 DEF OpenIsHeld
  <2>5. PICK i \in DOMAIN ppPeerFd[l] : ppPeerFd[l][i] = d
    BY <2>2
  <2>3. CASE l = k
    <3>1. i # 1 /\ i \in Nat \ {0}
      BY <1>4, <1>5, <2>1, <2>5, <2>3
    <3>2. i - 1 \in DOMAIN ppPeerFd'[k] /\ (i - 1) + 1 = i
      BY <1>3, <2>3, <3>1
    <3> QED
      BY <1>3, <2>5, <2>3, <3>1, <3>2
  <2>4. CASE l # k
    BY <1>3, <2>5, <2>4
  <2> QED
    BY <2>3, <2>4
<1> QED
  BY <1>7, <1>8, <1>9, <1>10, <1>11

\* The parent starts listeners, marks them, and closes what it took.
LEMMA UserKeeps ==
    ASSUME ListInv,
           \/ \E S \in SUBSET Listeners : \/ (\A k \in S : lstLife[k] = "none") /\ LstStart(S)
                                          \/ LstUnusedSet(S)
           \/ \E S \in SUBSET Conns : UsersClose(S)
    PROVE  ListInv'
<1> USE DEF ListInv, ListeningInv, LstTypeOK, QueueLimit
<1>1. ASSUME NEW S \in SUBSET Listeners, \A k \in S : lstLife[k] = "none", LstStart(S) PROVE ListInv'
  BY <1>1, ProcessKeeps DEF LstStart, Lives
<1>2. ASSUME NEW S \in SUBSET Listeners, LstUnusedSet(S) PROVE ListInv'
  BY <1>2, ProcessKeeps DEF LstUnusedSet
<1>3. ASSUME NEW S \in SUBSET Conns, UsersClose(S) PROVE ListInv'
  <2>1. fd' = [c \in Conns |-> IF c \in S THEN "closed" ELSE fd[c]] /\ \A c \in S : user[c] # "no"
    BY <1>3 DEF UsersClose
  <2>2. UNCHANGED <<lstLife, lstUnused, lstState, mCntSkip, accepting, fdLst, ppPeerFd, user>>
    BY <1>3 DEF UsersClose, processVars
  <2>3. LstTypeOK' /\ QueueLimit'
    BY <2>1, <2>2
  <2>4. QueuedOnce' /\ OpenIsHeld' /\ TakenOnce'
    BY <2>1, <2>2 DEF QueuedOnce, OpenIsHeld, TakenOnce
  <2> QED
    BY <2>3, <2>4
<1> QED
  BY <1>1, <1>2, <1>3

\* Every step.
LEMMA ListKeeps == ListInv /\ [LstNext]_lstVars => ListInv'
<1> SUFFICES ASSUME ListInv, [LstNext]_lstVars PROVE ListInv'
  OBVIOUS
<1>1. ASSUME NEW k \in Listeners, LstTick(k) PROVE ListInv'
  BY <1>1, TickKeeps
<1>2. ASSUME NEW k \in Listeners, AcceptNext(k) PROVE ListInv'
  <2>1. accepting[k] \in {"IPv4", "IPv6"} /\ lstLife[k] = "Processing"
    BY <1>2 DEF AcceptNext, ListInv, ListeningInv, LstTypeOK, QueueLimit
  <2>2. mCntSkip' \in [Listeners -> 0 .. CntSkipMax - 1]
    BY <1>2 DEF AcceptNext, ListInv, ListeningInv, LstTypeOK
  <2> QED
    BY <1>2, <2>1, <2>2, AcceptKeeps DEF AcceptNext
<1>3. ASSUME NEW k \in Listeners, Take(k), UNCHANGED <<processVars, fd>> PROVE ListInv'
  BY <1>3, TakeKeeps
<1>4. CASE UNCHANGED lstVars
  BY <1>4, ProcessKeeps DEF lstVars, processVars, ListInv, ListeningInv, LstTypeOK, QueueLimit
<1> QED
  BY <1>1, <1>2, <1>3, <1>4, UserKeeps DEF LstNext

\* Every reachable state of the listeners satisfies the inductive invariant: TcpListening.cpp:86-376.
THEOREM Invariance == LstSpec => []ListInv
  BY ListInit, ListKeeps, PTL DEF LstSpec

\* Whatever the users take and close, and whenever a listener is cancelled or fails: an accepted
\* connection is in one queue as long as nobody has taken it, no queue exceeds its limit, and a
\* listener that has ended leaves none open: TcpListening.cpp:332-348, 351-376.
THEOREM ListenersKeepTheirPeers == LstSpec => []ListeningInv
<1>1. ListInv => ListeningInv
  BY DEF ListInv
<1> QED
  BY <1>1, Invariance, PTL
=============================================================================
