--------------------------- MODULE SystemDebugging ---------------------------
(***************************************************************************)
(* The debug server (SystemDebugging.cpp) with its listeners and the       *)
(* processes it starts for connections: a TcpTransfering for each peer     *)
(* that is shown the process tree or the log, and a SystemCommanding, which *)
(* starts a TcpTransfering of its own, for each terminal. One thread ticks *)
(* them all: the children in the order of their start, then the server.    *)
(* Clients, the processes of the tree, other threads that log, and the     *)
(* parent that repels the server go on at any step.                        *)
(***************************************************************************)
EXTENDS TcpListening, FiniteSets, SequencesExt

CONSTANTS
  UpdateMs,     \* mUpdateMs
  NumEntries,   \* how many log entries there are
  Acts          \* what the client of each connection may do: "asks", "gone", not read ("full")

ASSUME DebuggingAssumption ==
  /\ UpdateMs \in Nat \ {0} /\ NumEntries \in Nat /\ Acts \in [Conns -> SUBSET {"asks", "gone", "full"}]
  /\ Listeners = {"proc", "log", "cmd", "cmdAuto"}

VARIABLES
  sd,           \* the server: life, unused, mState
  children,     \* its mChildList
  todo, part,   \* the processes yet to tick in this round; what of the server's tick is next
  tr,           \* the transfer of each connection
  cmd,          \* the command of each connection, if it has one
  client,       \* external: the other end of each connection: it is "quiet", "asks" for the end, is "gone"
  mPeerList,    \* the connections in it: the order in which peers are served makes no difference
  mProcTree, mProcTreeChanged, mProcTreePeerAdded,
  elapsed,      \* nowMs() - mProcTreeChangedTime, up to UpdateMs
  seen, refused,  \* the tree that each connection took last; those that did not take the last one
  logged, qLogEntries, popped,  \* the entries that were logged, are queued, were taken from the queue
  last, missed  \* the last entry that each connection took, or the last one popped when its peer joined;
                \* the entries since then that it did not take

treeVars == <<mProcTree, mProcTreeChanged, mProcTreePeerAdded, elapsed, seen, refused>>
logVars == <<qLogEntries, popped, last, missed>>
tickVars == <<sd, children, todo, part>>
outerVars == <<client, logged>>
vars == <<lstVars, tickVars, tr, cmd, mPeerList, treeVars, logVars, outerVars>>

ListenerOrder == <<"proc", "log", "cmd", "cmdAuto">>
PeerListeners == {"proc", "log"}

NoTransfer == [life |-> "none", unused |-> FALSE, state |-> "StSrvStart", mDone |-> FALSE, ended |-> FALSE]
NoCommand == [life |-> "none", unused |-> FALSE, state |-> "StStart", ended |-> FALSE]

\* Processes are named after the listener they are, or the connection they serve.
ListenerOf(k) == <<"listener", k>>
TransferOf(c) == <<"transfer", c>>
CommandOf(c) == <<"command", c>>

\* In a round: a command whose transfer has been ticked, and whose own turn it is.
TurnOf(c) == <<"turn", c>>

IsThere(p) == p.life \notin {"none", "deleted"}

\* The next tick of the parent begins.
RoundBegins == part' = "children" /\ todo' = children'

\* The end of the visit of p, whose state is now life.
Ticked(p, life) ==
  /\ todo' = Tail(todo)
  /\ IF life = "deleted"
     THEN \E i \in DOMAIN children : children[i] = p /\ children' = RemoveAt(children, i)
     ELSE UNCHANGED children

---------------------------------------------------------------------------
(* A transfer of an accepted connection (TcpTransfering has all of it).    *)

\* read(): how the connection is found to be over, which closes it.
FindsEnd(c) == client[c] = "gone" \/ fd[c] = "closed"

TransferEnds(c) == tr' = [tr EXCEPT ![c].life = "DownShutting", ![c].ended = TRUE]

\* send() of a broken connection may close it; nobody looks at the result.
IsBroken(c) == fd[c] = "open" /\ client[c] = "gone"
Sends(c) == UNCHANGED fd \/ (IsBroken(c) /\ Close(c))

\* send() to each of the peers, where the connections in taken take all of it. The others are
\* closed, break, or take it in part or not at all, as the client does not read.
SendsAll(peers, taken) ==
  \E broken \in SUBSET (peers \ taken) :
    /\ \A c \in taken : fd[c] = "open"
    /\ \A c \in broken : IsBroken(c)
    /\ \A c \in peers \ (taken \cup broken) : fd[c] # "open" \/ "full" \in Acts[c]
    /\ fd' = [c \in Conns |-> IF c \in broken THEN "closed" ELSE fd[c]]

TransferProcess(c) ==
  LET t == tr[c] IN
  \/ t.state = "StSrvStart" /\ tr' = [tr EXCEPT ![c].state = "StSrvArgCheck"] /\ UNCHANGED fd
  \/ t.state = "StSrvArgCheck" /\ fd[c] = "open" /\ tr' = [tr EXCEPT ![c].state = "StConnMain"] /\ UNCHANGED fd
  \* send() has closed the socket, or socketOptionsSet() fails.
  \/ t.state = "StSrvArgCheck" /\ TransferEnds(c) /\ UNCHANGED fd
  \/ t.state = "StConnMain" /\ t.mDone /\ TransferEnds(c) /\ UNCHANGED fd
  \/ t.state = "StConnMain" /\ ~ t.mDone /\ FindsEnd(c) /\ TransferEnds(c) /\ Close(c)
  \/ t.state = "StConnMain" /\ ~ t.mDone /\ ~ FindsEnd(c) /\ UNCHANGED <<tr, fd>>

TransferTick(c) ==
  LET t == tr[c] IN
  /\ IF CallsProcess(t.life, t.unused) THEN TransferProcess(c)
     ELSE IF CallsShutdown(t.life) THEN tr' = [tr EXCEPT ![c].life = "ChildrenUnusedSet"] /\ Close(c)
     ELSE /\ tr' = [tr EXCEPT ![c].life = Visited(Passed(t.life, t.unused), t.unused, FALSE)]
          /\ UNCHANGED fd
  /\ UNCHANGED <<processVars, ppPeerFd, user, cmd>>

---------------------------------------------------------------------------
(* A command terminal (SystemCommanding has its sessions).                 *)

CommandEnters(c, life) ==
  LET p == cmd[c]
      unused == p.unused \/ life = "Finished"   \* whenFinishedRepel()
  IN cmd' = [cmd EXCEPT ![c].unused = unused, ![c].life = Visited(life, unused, IsThere(tr[c]))]

CommandEnds(c) == cmd' = [cmd EXCEPT ![c].life = "DownShutting", ![c].ended = TRUE]

CommandProcess(c) ==
  \/ /\ cmd[c].state = "StStart"
     /\ tr' = [tr EXCEPT ![c] = [NoTransfer EXCEPT !.life = "Existent"]]
     /\ cmd' = [cmd EXCEPT ![c].state = "StSendReadyWait"]
     /\ UNCHANGED fd
  \/ cmd[c].state = "StSendReadyWait" /\ tr[c].ended /\ CommandEnds(c) /\ UNCHANGED <<tr, fd>>
  \* The session goes on.
  \/ cmd[c].state = "StSendReadyWait" /\ ~ tr[c].ended /\ Sends(c) /\ UNCHANGED <<cmd, tr>>
  \* The user ends it, an automatic command was executed, or none has arrived in time.
  \/ cmd[c].state = "StSendReadyWait" /\ ~ tr[c].ended /\ CommandEnds(c) /\ Sends(c) /\ UNCHANGED tr
  \* It reads and finds the end.
  \/ /\ cmd[c].state = "StSendReadyWait" /\ ~ tr[c].ended
     /\ tr[c].state = "StConnMain" /\ FindsEnd(c)
     /\ CommandEnds(c) /\ Close(c) /\ UNCHANGED tr

CommandShutdown(c) ==
  /\ cmd' = [cmd EXCEPT ![c].life = "ChildrenUnusedSet"]
  /\ IF cmd[c].state = "StStart" THEN UNCHANGED <<tr, fd>>
     ELSE Sends(c) /\ tr' = [tr EXCEPT ![c].mDone = TRUE]

\* A mutant of CommandPass: the transfer is not marked.
CommandPassAlone(c) ==
  CommandEnters(c, Passed(cmd[c].life, cmd[c].unused)) /\ UNCHANGED <<tr, fd>>

CommandPass(c) ==
  /\ CommandEnters(c, Passed(cmd[c].life, cmd[c].unused))
  /\ tr' = IF cmd[c].life = "ChildrenUnusedSet" /\ IsThere(tr[c]) THEN [tr EXCEPT ![c].unused = TRUE] ELSE tr
  /\ UNCHANGED fd

CommandTick(c) ==
  /\ IF CallsProcess(cmd[c].life, cmd[c].unused) THEN CommandProcess(c)
     ELSE IF CallsShutdown(cmd[c].life) THEN CommandShutdown(c)
     ELSE CommandPass(c)
  /\ Ticked(CommandOf(c), cmd'[c].life)
  /\ UNCHANGED <<processVars, ppPeerFd, user>>

---------------------------------------------------------------------------
(* The parts of StMain.                                                    *)

\* read() before the transfer processes answers 0.
DisconnectRequested(c) == tr[c].state = "StConnMain" /\ (client[c] = "asks" \/ FindsEnd(c))
IsRemoved(c) == tr[c].ended \/ DisconnectRequested(c)

PeerCheck ==
  /\ sd.mState = "StMain"
  /\ tr' = [c \in Conns |->
      IF c \in mPeerList /\ IsRemoved(c) THEN [tr[c] EXCEPT !.unused = TRUE] ELSE tr[c]]
  /\ fd' = [c \in Conns |->
      IF c \in mPeerList /\ DisconnectRequested(c) /\ FindsEnd(c) THEN "closed" ELSE fd[c]]
  /\ client' = [c \in Conns |->
      IF c \in mPeerList /\ tr[c].state = "StConnMain" /\ client[c] = "asks" THEN "quiet" ELSE client[c]]
  /\ mPeerList' = {c \in mPeerList : ~ IsRemoved(c)}
  /\ seen' = [c \in Conns |-> IF c \in mPeerList' THEN seen[c] ELSE <<>>]
  /\ last' = [c \in Conns |-> IF c \in mPeerList' THEN last[c] ELSE 0]
  /\ missed' = [c \in Conns |-> IF c \in mPeerList' THEN missed[c] ELSE {}]
  /\ refused' = refused \cap mPeerList'
  /\ part' = "peerAdd"
  /\ UNCHANGED <<processVars, ppPeerFd, user, sd, children, todo, cmd, mProcTree, mProcTreeChanged,
                 mProcTreePeerAdded, elapsed, qLogEntries, popped, logged>>

\* A mutant of TreeDue: the new peer waits for its turn.
TreeDueLater(k) ==
  mProcTreePeerAdded' = (mProcTreePeerAdded \/ k = "proc") /\ UNCHANGED elapsed

\* A new process tree peer makes the tree due.
TreeDue(k) ==
  /\ mProcTreePeerAdded' = (mProcTreePeerAdded \/ k = "proc")
  /\ elapsed' = IF k = "proc" THEN UpdateMs ELSE elapsed

PeerAdd(k) ==
  LET c == Head(ppPeerFd[k]) IN
  /\ k \in PeerListeners /\ Take(k)
  /\ tr' = [tr EXCEPT ![c] = [NoTransfer EXCEPT !.life = "Existent"]]
  /\ children' = Append(children, TransferOf(c))
  /\ mPeerList' = mPeerList \cup {c}
  /\ last' = [last EXCEPT ![c] = popped]
  /\ TreeDue(k)
  /\ UNCHANGED <<cmd>>

CommandAdd(k) ==
  LET c == Head(ppPeerFd[k]) IN
  /\ k \notin PeerListeners /\ Take(k)
  /\ cmd' = [cmd EXCEPT ![c].life = "Existent"]
  /\ children' = Append(children, CommandOf(c))
  /\ UNCHANGED <<tr, mPeerList, mProcTreePeerAdded, elapsed, last>>

\* peerAdd() and commandAutoProcess(): one step for each descriptor. The tick itself is the
\* only one that queues them, so that the first queue that is not empty is the next one.
IsNextQueue(i) == ppPeerFd[ListenerOrder[i]] # <<>> /\ \A j \in 1 .. i - 1 : ppPeerFd[ListenerOrder[j]] = <<>>

PeersAdd ==
  /\ part = "peerAdd"
  /\ \E i \in DOMAIN ListenerOrder : IsNextQueue(i) /\ (PeerAdd(ListenerOrder[i]) \/ CommandAdd(ListenerOrder[i]))
  /\ UNCHANGED <<processVars, fd, sd, todo, part, mProcTree, mProcTreeChanged, seen, refused,
                 qLogEntries, popped, missed, outerVars>>

PeersAdded == part = "peerAdd" /\ \A k \in Listeners : ppPeerFd[k] = <<>>

\* What processTreeStr() prints: of the whole tree, the server's children stand for it.
Tree == children

ProcPeers == {c \in mPeerList : user[c] = "proc"}
LogPeers == {c \in mPeerList : user[c] = "log"}

ProcessTreeSend ==
  /\ PeersAdded /\ part' = "logs"
  /\ \/ /\ mProcTreeChanged /\ elapsed < UpdateMs
        /\ UNCHANGED <<treeVars, fd>>
     \/ /\ ~ (mProcTreeChanged /\ elapsed < UpdateMs)
        /\ Tree = mProcTree /\ ~ mProcTreePeerAdded
        /\ mProcTreeChanged' = FALSE
        /\ UNCHANGED <<mProcTree, mProcTreePeerAdded, elapsed, seen, refused, fd>>
     \/ /\ ~ (mProcTreeChanged /\ elapsed < UpdateMs)
        /\ Tree # mProcTree \/ mProcTreePeerAdded
        /\ mProcTreePeerAdded' = FALSE
        /\ \E taken \in SUBSET ProcPeers :
             /\ SendsAll(ProcPeers, taken)
             /\ seen' = [c \in Conns |-> IF c \in taken THEN Tree ELSE seen[c]]
             /\ refused' = ProcPeers \ taken
        /\ mProcTree' = Tree
        /\ mProcTreeChanged' = TRUE
        /\ elapsed' = 0
  /\ UNCHANGED <<processVars, ppPeerFd, user, sd, children, todo, tr, cmd, mPeerList, logVars, outerVars>>

\* A mutant of LogReceivers: the loop over the peers ends with the first one.
LogReceiversFirst == {c \in LogPeers : \A d \in mPeerList : c <= d}

LogReceivers == LogPeers

LogEntriesSend ==
  /\ part = "logs"
  /\ UNCHANGED <<processVars, ppPeerFd, user, sd, children, tr, cmd, mPeerList, treeVars, outerVars>>
  /\ IF qLogEntries = <<>>
     THEN RoundBegins /\ UNCHANGED <<logVars, fd>>
     ELSE /\ popped' = Head(qLogEntries)
          /\ qLogEntries' = Tail(qLogEntries)
          /\ \E taken \in SUBSET LogReceivers :
               /\ SendsAll(LogReceivers, taken)
               /\ last' = [c \in Conns |-> IF c \in taken THEN popped' ELSE last[c]]
               /\ missed' = [c \in Conns |-> missed[c] \cup {n \in {popped'} : c \in LogReceivers \ taken}]
          /\ UNCHANGED <<todo, part>>

---------------------------------------------------------------------------
(* The server's ticks.                                                     *)

SdEnters(life) == sd' = [sd EXCEPT !.life = life]

\* A mutant of ListenersStart: the server stays in StStart.
ListenersStartAgain ==
  /\ sd.mState = "StStart"
  /\ LstStart(Listeners)
  /\ children' = [i \in DOMAIN ListenerOrder |-> ListenerOf(ListenerOrder[i])]
  /\ UNCHANGED <<sd, tr, cmd, mPeerList, treeVars, logVars, outerVars>>
  /\ RoundBegins

\* listenersStart(), and the entries of all threads are queued from now on.
ListenersStart ==
  /\ sd.mState = "StStart"
  /\ LstStart(Listeners)
  /\ children' = [i \in DOMAIN ListenerOrder |-> ListenerOf(ListenerOrder[i])]
  /\ sd' = [sd EXCEPT !.mState = "StMain"]
  /\ UNCHANGED <<tr, cmd, mPeerList, treeVars, logVars, outerVars>>
  /\ RoundBegins

\* All children are marked.
ChildrenUnusedSet ==
  /\ LstUnusedSet(Listeners)
  /\ tr' = [c \in Conns |-> IF TransferOf(c) \in ToSet(children) THEN [tr[c] EXCEPT !.unused = TRUE] ELSE tr[c]]
  /\ cmd' = [c \in Conns |-> IF CommandOf(c) \in ToSet(children) THEN [cmd[c] EXCEPT !.unused = TRUE] ELSE cmd[c]]

\* A mutant of ServerPass: the children are marked in the tick that finds the cancellation.
ServerPassEarly ==
  /\ SdEnters(Passed(sd.life, sd.unused))
  /\ IF sd.life = "Processing" THEN ChildrenUnusedSet ELSE UNCHANGED <<lstVars, tr, cmd>>

ServerPass ==
  /\ SdEnters(Passed(sd.life, sd.unused))
  /\ IF sd.life = "ChildrenUnusedSet" THEN ChildrenUnusedSet ELSE UNCHANGED <<lstVars, tr, cmd>>

IsServersTurn == part = "children" /\ todo = <<>>

ServerTick ==
  /\ IsServersTurn
  /\ \/ CallsProcess(sd.life, sd.unused) /\ (ListenersStart \/ PeerCheck)
     \/ /\ ~ CallsProcess(sd.life, sd.unused)
        /\ UNCHANGED <<children, mPeerList, treeVars, logVars, outerVars>>
        /\ IF CallsShutdown(sd.life) THEN SdEnters("ChildrenUnusedSet") /\ UNCHANGED <<lstVars, tr, cmd>> ELSE ServerPass
        /\ RoundBegins

ListenerTick(k) ==
  /\ LstTick(k) \/ AcceptNext(k)
  /\ IF accepting'[k] = "no" THEN Ticked(ListenerOf(k), lstLife'[k]) ELSE UNCHANGED <<todo, children>>
  /\ UNCHANGED <<tr, cmd>>

ChildTick ==
  /\ todo # <<>>
  /\ LET p == Head(todo) IN
     \/ p[1] = "listener" /\ ListenerTick(p[2])
     \/ p[1] = "transfer" /\ TransferTick(p[2]) /\ Ticked(p, tr'[p[2]].life)
     \* The transfer of a command is ticked before it.
     \/ /\ p[1] = "command" /\ IsThere(tr[p[2]]) /\ TransferTick(p[2])
        /\ todo' = <<TurnOf(p[2])>> \o Tail(todo) /\ UNCHANGED children
     \/ p[1] = "command" /\ ~ IsThere(tr[p[2]]) /\ CommandTick(p[2])
     \/ p[1] = "turn" /\ CommandTick(p[2])
  /\ UNCHANGED <<sd, part, mPeerList, treeVars, logVars, outerVars>>

Tick == ChildTick \/ ServerTick \/ PeersAdd \/ ProcessTreeSend \/ LogEntriesSend

---------------------------------------------------------------------------
(* The others. What they do is seen by one step of the ticks only and      *)
(* commutes with the steps before: it is done just before that step.       *)

serverVars == <<lstVars, children, todo, part, tr, cmd, mPeerList, treeVars>>

Cancel ==
  /\ IsServersTurn
  /\ ~ sd.unused /\ sd' = [sd EXCEPT !.unused = TRUE]
  /\ UNCHANGED <<serverVars, logVars, outerVars>>

\* The client sends what asks for the end, or closes its end.
IsRead(c) == IsServersTurn /\ c \in mPeerList /\ tr[c].state = "StConnMain"
IsSeen(c) ==
  \/ IsRead(c)
  \/ PeersAdded /\ c \in ProcPeers
  \/ part = "logs" /\ c \in LogPeers /\ qLogEntries # <<>>
  \/ (todo # <<>> /\ Head(todo) \in {TransferOf(c), CommandOf(c), TurnOf(c)})

ClientActs(c) ==
  /\ fd[c] = "open" /\ client[c] = "quiet"
  /\ \E a \in Acts[c] \ {"full"} :
       /\ IF a = "asks" THEN IsRead(c) ELSE IsSeen(c)
       /\ client' = [client EXCEPT ![c] = a]
  /\ UNCHANGED <<serverVars, sd, logVars, logged>>

TimePasses ==
  /\ PeersAdded
  /\ elapsed < UpdateMs /\ elapsed' = elapsed + 1
  /\ UNCHANGED <<lstVars, tickVars, tr, cmd, mPeerList, mProcTree, mProcTreeChanged, mProcTreePeerAdded, seen,
                 refused, logVars, outerVars>>

\* entryLogEnqueue() of an entry that levelLog lets pass, after the hook was set.
EntryLogEnqueue ==
  /\ part = "logs" /\ logged < NumEntries
  /\ logged' = logged + 1
  /\ qLogEntries' = Append(qLogEntries, logged + 1)
  /\ UNCHANGED <<serverVars, sd, popped, last, missed, client>>

Init ==
  /\ LstInit
  /\ sd = [life |-> "Existent", unused |-> FALSE, mState |-> "StStart"]
  /\ children = <<>> /\ todo = <<>> /\ part = "children"
  /\ tr = [c \in Conns |-> NoTransfer] /\ cmd = [c \in Conns |-> NoCommand]
  /\ client = [c \in Conns |-> "quiet"] /\ mPeerList = {}
  /\ mProcTree = <<>> /\ mProcTreeChanged = FALSE /\ mProcTreePeerAdded = FALSE /\ elapsed = UpdateMs
  /\ seen = [c \in Conns |-> <<>>] /\ refused = {}
  /\ logged = 0 /\ qLogEntries = <<>> /\ popped = 0
  /\ last = [c \in Conns |-> 0] /\ missed = [c \in Conns |-> {}]

Next ==
  \/ Tick \/ Cancel \/ TimePasses \/ EntryLogEnqueue
  \/ \E c \in Conns : ClientActs(c)

Spec == Init /\ [][Next]_vars

\* The thread of the server goes on ticking, and the time passes.
FairSpec == Spec /\ WF_vars(Tick) /\ SF_vars(TimePasses)

---------------------------------------------------------------------------
(* Properties.                                                             *)

IsServing == sd.life = "Processing" /\ sd.mState = "StMain"
IsOver == sd.life = "Finished" /\ children = <<>>

\* The processes that will close the descriptor: a transfer up to its shutdown, or a command
\* that is going to start one.
WillClose(c) ==
  {p \in {TransferOf(c)} : \/ tr[c].life \in {"Initializing", "Processing", "DownShutting"}
                           \/ tr[c].life = "Existent" /\ ~ tr[c].unused}
  \cup {p \in {CommandOf(c)} : cmd[c].state = "StStart" /\ cmd[c].life \in {"Existent", "Initializing", "Processing"}}

\* Each accepted connection that is open is in one queue, of a listener that serves, or with one
\* process that is going to close it, so that none is left open when the server has gone,
\* whenever that is; and a peer in the list is a child that is not removed under the server's
\* feet.
ServerInv ==
  /\ ListeningInv
  /\ \A c \in Conns : fd[c] = "open" /\ user[c] # "no" => Cardinality(WillClose(c)) = 1
  /\ IsServing => \A c \in mPeerList : TransferOf(c) \in ToSet(children) /\ ~ tr[c].unused
  /\ IsOver => \A c \in Conns : fd[c] # "open"

\* The server and the processes it starts use their listeners as TcpListening expects of any user:
\* each is started once, and a descriptor is closed by those who took it only. So what is proved
\* of TcpListening with every user holds of the listeners of the server.
Listens == LstSpec

\* Between two ticks every process tree peer, also one that has joined just now, has the tree
\* that was sent last, unless its own connection did not take that; and a change of the tree is
\* sent while the server serves. (Who did not take it waits for the next change: nobody looks at
\* the result of send().)
SeenByAll == \A c \in ProcPeers \ refused : seen[c] = mProcTree

TreeShown ==
  /\ [](part = "logs" => SeenByAll)
  /\ []<>(mProcTree = Tree \/ ~ IsServing)

\* A log peer gets each entry from when it joined, once and in order. It lacks those only that its
\* own connection did not take: they are popped, and nobody looks at the result of send(). And
\* every entry that was queued is popped while the server serves.
LogCurrent == \A c \in LogPeers : last[c] + 1 .. popped \subseteq missed[c]
LogInOrder ==
  [][\A c \in LogPeers \cap LogPeers' : last'[c] # last[c] =>
       last'[c] > last[c] /\ last[c] + 1 .. last'[c] - 1 \subseteq missed[c]]_vars

LogDelivered ==
  /\ [](IsServing => LogCurrent) /\ LogInOrder
  /\ []<>(popped = logged \/ ~ IsServing)

\* A server that was repelled finishes, and all it has started goes with it.
ServerEnds == sd.unused ~> IsOver
=============================================================================
