---------------------------- MODULE TcpListening ----------------------------
(***************************************************************************)
(* Listeners that accept connections (TcpListening.cpp), each with a queue *)
(* of descriptors for its user. A tick that accepts is one step for each   *)
(* accept(), between which other threads and the clients go on.            *)
(***************************************************************************)
EXTENDS Integers, Sequences, Ticking

CONSTANTS
  Listeners,    \* the processes
  NumConns,     \* how many connections clients open
  Ports,        \* the listeners whose ports the client of each connection uses
  Occupied,     \* the listeners whose ports may be in use by another program
  Families,     \* what the host has, IPv4 and perhaps IPv6
  MaxConn,      \* mMaxConn of each listener
  CntSkipMax    \* dCntSkipMax

ASSUME ListeningAssumption ==
  /\ "no" \notin Listeners
  /\ NumConns \in Nat /\ Ports \in [1 .. NumConns -> SUBSET Listeners]
  /\ Families \in {{"IPv4"}, {"IPv4", "IPv6"}}
  /\ MaxConn \in [Listeners -> Nat] /\ CntSkipMax \in Nat \ {0}

Conns == 1 .. NumConns

VARIABLES
  lstLife, lstUnused,   \* mStateAbstract; cancelled and unused
  lstState,             \* mState
  mCntSkip,
  accepting,            \* the socket whose accept() is next in this tick, or "no"
  fdLst,                \* mFdLstIPv4 and mFdLstIPv6, those that are open
  ppPeerFd,             \* the queue
  user,                 \* the listener from whose queue a connection was taken, or "no"
  fd                    \* external: the descriptors of the connections: none yet, open, closed or lost

processVars == <<lstLife, lstUnused, lstState, mCntSkip, accepting, fdLst>>
lstVars == <<processVars, ppPeerFd, user, fd>>

---------------------------------------------------------------------------
(* process() and shutdown().                                               *)

LstEnters(k, life) == lstLife' = [lstLife EXCEPT ![k] = Visited(life, lstUnused[k], FALSE)]

\* What socketCreate() may answer and leave open. shutdown() closes the socket of a failure.
SocketCreate(k, f) ==
  {r \in [ok : BOOLEAN, open : {{}, {f}}] :
    IF r.ok THEN f \in Families /\ r.open = {f} ELSE k \in Occupied \/ (f \notin Families /\ r.open = {})}

\* The IPv4 socket is needed, the other one is not.
StStart(k) ==
  /\ lstState[k] = "StStart"
  /\ \E v4 \in SocketCreate(k, "IPv4"), v6 \in SocketCreate(k, "IPv6") :
       \/ /\ ~ v4.ok
          /\ LstEnters(k, "DownShutting")
          /\ fdLst' = [fdLst EXCEPT ![k] = v4.open]
          /\ UNCHANGED lstState
       \/ /\ v4.ok
          /\ fdLst' = [fdLst EXCEPT ![k] = v4.open \cup (IF v6.ok THEN v6.open ELSE {})]
          /\ lstState' = [lstState EXCEPT ![k] = "StMain"]
          /\ UNCHANGED lstLife
  /\ UNCHANGED <<lstUnused, mCntSkip, accepting, ppPeerFd, user, fd>>

IsFull(k) == Len(ppPeerFd[k]) >= MaxConn[k]

Accepting(k, f) == accepting' = [accepting EXCEPT ![k] = f]
NextSocket(k, f) == Accepting(k, IF f = "IPv4" /\ "IPv6" \in fdLst[k] THEN "IPv6" ELSE "no")

\* Connections are numbered as they are accepted.
IsNext(c) == fd[c] = "none" /\ \A d \in 1 .. c - 1 : fd[d] # "none"

\* accept() has a connection, which is queued or closed at once.
Queue(k, f, c) ==
  /\ ~ IsFull(k)
  /\ ppPeerFd' = [ppPeerFd EXCEPT ![k] = Append(@, c)]
  /\ fd' = [fd EXCEPT ![c] = "open"]
  /\ Accepting(k, f)

Drop(k, f, c) ==
  /\ IsFull(k)
  /\ fd' = [fd EXCEPT ![c] = "closed"]
  /\ NextSocket(k, f)
  /\ UNCHANGED ppPeerFd

\* accept() has none, or fails.
NoConnection(k, f) == NextSocket(k, f) /\ UNCHANGED <<ppPeerFd, fd>>

\* sockaddrInfoGet() fails: the listener ends, and nobody knows the descriptor any more.
Lose(k, c) ==
  /\ fd' = [fd EXCEPT ![c] = "lost"]
  /\ Accepting(k, "no")
  /\ LstEnters(k, "DownShutting")
  /\ UNCHANGED ppPeerFd

ConnectionsAccept(k, f) ==
  \/ NoConnection(k, f) /\ UNCHANGED lstLife
  \/ \E c \in Conns :
       /\ k \in Ports[c] /\ IsNext(c)
       /\ \/ (Queue(k, f, c) \/ Drop(k, f, c)) /\ UNCHANGED lstLife
          \/ Lose(k, c)

StMain(k) ==
  /\ lstState[k] = "StMain"
  /\ IF mCntSkip[k] + 1 < CntSkipMax
     THEN mCntSkip' = [mCntSkip EXCEPT ![k] = @ + 1] /\ UNCHANGED <<lstLife, accepting, ppPeerFd, fd>>
     ELSE mCntSkip' = [mCntSkip EXCEPT ![k] = 0] /\ ConnectionsAccept(k, "IPv4")
  /\ UNCHANGED <<lstUnused, lstState, fdLst, user>>

\* The loops of StMain go on.
AcceptNext(k) ==
  /\ accepting[k] # "no" /\ ConnectionsAccept(k, accepting[k])
  /\ UNCHANGED <<lstUnused, lstState, mCntSkip, fdLst, user>>

LstShutdown(k) ==
  /\ LstEnters(k, "ChildrenUnusedSet")
  /\ ppPeerFd' = [ppPeerFd EXCEPT ![k] = <<>>]
  /\ fdLst' = [fdLst EXCEPT ![k] = {}]
  /\ fd' = [c \in Conns |-> IF \E i \in DOMAIN ppPeerFd[k] : ppPeerFd[k][i] = c THEN "closed" ELSE fd[c]]
  /\ UNCHANGED <<lstUnused, lstState, mCntSkip, accepting, user>>

LstPass(k) ==
  /\ LstEnters(k, Passed(lstLife[k], lstUnused[k]))
  /\ UNCHANGED <<lstUnused, lstState, mCntSkip, accepting, fdLst, ppPeerFd, user, fd>>

\* A tick begins. It has ended when accepting[k] = "no".
LstTick(k) ==
  /\ lstLife[k] \notin {"none", "deleted"} /\ accepting[k] = "no"
  /\ IF CallsProcess(lstLife[k], lstUnused[k]) THEN StStart(k) \/ StMain(k)
     ELSE IF CallsShutdown(lstLife[k]) THEN LstShutdown(k)
     ELSE LstPass(k)

---------------------------------------------------------------------------
(* The user of the listeners, and a machine of listeners alone.            *)

LstStart(S) ==
  /\ lstLife' = [k \in Listeners |-> IF k \in S THEN "Existent" ELSE lstLife[k]]
  /\ UNCHANGED <<lstUnused, lstState, mCntSkip, accepting, fdLst, ppPeerFd, user, fd>>

LstUnusedSet(S) ==
  /\ lstUnused' = [k \in Listeners |-> k \in S \/ lstUnused[k]]
  /\ UNCHANGED <<lstLife, lstState, mCntSkip, accepting, fdLst, ppPeerFd, user, fd>>

\* get() of the queue, which nextPeerFd() calls, too.
Take(k) ==
  /\ ppPeerFd[k] # <<>>
  /\ user' = [user EXCEPT ![Head(ppPeerFd[k])] = k]
  /\ ppPeerFd' = [ppPeerFd EXCEPT ![k] = Tail(@)]

Close(c) == fd' = [fd EXCEPT ![c] = "closed"]

\* The users are done with some of the connections.
UsersClose(S) ==
  /\ S \subseteq {c \in Conns : user[c] # "no"}
  /\ fd' = [c \in Conns |-> IF c \in S THEN "closed" ELSE fd[c]]
  /\ UNCHANGED <<processVars, ppPeerFd, user>>

LstInit ==
  /\ lstLife = [k \in Listeners |-> "none"] /\ lstUnused = [k \in Listeners |-> FALSE]
  /\ lstState = [k \in Listeners |-> "StStart"]
  /\ mCntSkip = [k \in Listeners |-> 0] /\ accepting = [k \in Listeners |-> "no"]
  /\ fdLst = [k \in Listeners |-> {}] /\ ppPeerFd = [k \in Listeners |-> <<>>]
  /\ user = [c \in Conns |-> "no"] /\ fd = [c \in Conns |-> "none"]

LstNext ==
  \/ \E k \in Listeners :
       \/ LstTick(k) \/ AcceptNext(k)
       \/ Take(k) /\ UNCHANGED <<processVars, fd>>
  \/ \E S \in SUBSET Listeners :
       \/ (\A k \in S : lstLife[k] = "none") /\ LstStart(S)
       \/ LstUnusedSet(S)
  \/ \E S \in SUBSET Conns : UsersClose(S)

LstSpec == LstInit /\ [][LstNext]_lstVars

---------------------------------------------------------------------------
(* Properties.                                                             *)

LstTypeOK ==
  /\ lstLife \in [Listeners -> Lives] /\ lstUnused \in [Listeners -> BOOLEAN]
  /\ lstState \in [Listeners -> {"StStart", "StMain"}]
  /\ mCntSkip \in [Listeners -> 0 .. CntSkipMax - 1]
  /\ accepting \in [Listeners -> {"IPv4", "IPv6", "no"}]
  /\ fdLst \in [Listeners -> SUBSET Families] /\ ppPeerFd \in [Listeners -> Seq(Conns)]
  /\ user \in [Conns -> Listeners \cup {"no"}] /\ fd \in [Conns -> {"none", "open", "closed", "lost"}]

\* What is queued is open and not taken, and in one place.
QueuedOnce ==
  \A k \in Listeners : \A i \in DOMAIN ppPeerFd[k] :
    /\ fd[ppPeerFd[k][i]] = "open" /\ user[ppPeerFd[k][i]] = "no"
    /\ \A l \in Listeners : \A j \in DOMAIN ppPeerFd[l] : ppPeerFd[l][j] = ppPeerFd[k][i] => l = k /\ j = i

\* An open descriptor is with a user or in a queue, but for those that Lose() leaks.
OpenIsHeld ==
  \A c \in Conns : fd[c] = "open" /\ user[c] = "no" =>
    \E k \in Listeners : \E i \in DOMAIN ppPeerFd[k] : ppPeerFd[k][i] = c

\* A queue keeps to its limit, and is empty when its listener does not process.
QueueLimit ==
  \A k \in Listeners :
    /\ Len(ppPeerFd[k]) <= MaxConn[k]
    /\ lstLife[k] \notin {"Processing", "DownShutting"} => ppPeerFd[k] = <<>>
    /\ lstLife[k] # "Processing" => accepting[k] = "no"

ListeningInv == LstTypeOK /\ QueuedOnce /\ OpenIsHeld /\ QueueLimit
=============================================================================
