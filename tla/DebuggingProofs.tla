--------------------------- MODULE DebuggingProofs ---------------------------
(***************************************************************************)
(* The debug server closes what its listeners accept, however many clients *)
(* there are, whatever they do, and in whichever tick it is repelled.      *)
(***************************************************************************)
EXTENDS SystemDebugging, ListeningProofs, SequenceTheorems, FiniteSetTheorems

Procs == {ListenerOf(k) : k \in Listeners} \cup {TransferOf(c) : c \in Conns} \cup {CommandOf(c) : c \in Conns}
Turns == {TurnOf(c) : c \in Conns}

TransferStates == {"StSrvStart", "StSrvArgCheck", "StConnMain"}
CommandStates == {"StStart", "StSendReadyWait"}
Transfers == [life : Lives, unused : BOOLEAN, state : TransferStates, mDone : BOOLEAN, ended : BOOLEAN]
Commands == [life : Lives, unused : BOOLEAN, state : CommandStates, ended : BOOLEAN]

ServerTypes ==
  /\ sd \in [life : Lives \ {"none", "deleted"}, unused : BOOLEAN, mState : {"StStart", "StMain"}]
  /\ children \in Seq(Procs) /\ todo \in Seq(Procs \cup Turns)
  /\ part \in {"children", "peerAdd", "logs"}
  /\ tr \in [Conns -> Transfers] /\ cmd \in [Conns -> Commands]
  /\ mPeerList \in SUBSET Conns

IsChild(p) == \E i \in DOMAIN children : children[i] = p
IsToVisit(p) == \E i \in DOMAIN todo : todo[i] = p

(* A command is yet to be visited in this round *)
IsPending(c) == IsToVisit(CommandOf(c)) \/ IsToVisit(TurnOf(c))

(* The server between its start and its first tick in StMain, and in it *)
Rounds ==
  /\ part # "children" => todo = <<>> /\ sd.life = "Processing" /\ sd.mState = "StMain"
  /\ sd.life \in {"Existent", "Initializing"} => sd.mState = "StStart"
  /\ sd.mState = "StStart" =>
       /\ children = <<>> /\ todo = <<>> /\ mPeerList = {}
       /\ \A k \in Listeners : lstLife[k] = "none"
       /\ \A c \in Conns : user[c] = "no"
  /\ \A i \in DOMAIN todo : \A c \in Conns :
       todo[i] = TurnOf(c) => i = 1 /\ tr[c].life \notin {"none", "Existent"}

(* Who serves a connection *)
ServedBy(c) ==
  /\ user[c] = "no" => tr[c] = NoTransfer /\ cmd[c] = NoCommand
  /\ user[c] \in PeerListeners => tr[c].life # "none" /\ cmd[c] = NoCommand
  /\ user[c] \in {"cmd", "cmdAuto"} =>
       /\ cmd[c].life # "none" /\ (cmd[c].state = "StStart" <=> tr[c].life = "none")
       /\ tr[c].life = "none" => tr[c] = NoTransfer
  /\ c \in mPeerList => user[c] \in PeerListeners

(* Whom the server still visits *)
ListedFor(c) ==
  /\ IsThere(cmd[c]) => IsChild(CommandOf(c))
  /\ IsThere(tr[c]) /\ cmd[c].life = "none" => IsChild(TransferOf(c))
  /\ IsThere(tr[c]) /\ cmd[c].life # "none" => IsThere(cmd[c])
  /\ IsChild(TransferOf(c)) \/ IsToVisit(TransferOf(c)) => tr[c].life # "none" /\ cmd[c].life = "none"
  /\ IsChild(CommandOf(c)) \/ IsPending(c) => cmd[c].life # "none"
  /\ tr[c].life = "deleted" => tr[c].unused
  /\ cmd[c].life = "deleted" => cmd[c].unused

ListenersListed == \A k \in Listeners : lstLife[k] \notin {"none", "deleted"} => IsChild(ListenerOf(k))

(* How far a command is on its way to its transfer, and the server to the  *)
(* tick in which it marks its children                                     *)
CommandAge(c) ==
  CASE cmd[c].life = "Existent" -> 0 [] cmd[c].life = "Initializing" -> 1
    [] cmd[c].life \notin {"Existent", "Initializing"} /\ cmd[c].state = "StStart" -> 2
    [] OTHER -> 3

ServerAge ==
  CASE sd.life \in {"Existent", "Initializing", "Processing"} -> 0 [] sd.life = "DownShutting" -> 1
    [] sd.life = "ChildrenUnusedSet" -> 2 [] OTHER -> 3

(* Every child is ahead of the server, which ticks behind it: nobody is    *)
(* marked before it can close its connection.                              *)
CommandAhead(c) ==
  cmd[c].life # "none" =>
    /\ cmd[c].state = "StStart" => cmd[c].life \in {"Existent", "Initializing", "Processing"}
    /\ cmd[c].life \in {"Existent", "Initializing"} => cmd[c].state = "StStart"
    /\ CommandAge(c) < 3 => ~ cmd[c].unused
    /\ part = "children" => CommandAge(c) >= ServerAge
    /\ part = "children" /\ ~ IsPending(c) => CommandAge(c) > ServerAge \/ CommandAge(c) = 3

TransferAhead(c) ==
  tr[c].life = "Existent" =>
    /\ tr[c] = [NoTransfer EXCEPT !.life = "Existent"]
    /\ cmd[c].life = "none" => ServerAge = 0 /\ (part = "children" => IsToVisit(TransferOf(c)))

(* Somebody will close what was taken and is open *)
ClosedBy(c) ==
  fd[c] = "open" /\ user[c] # "no" =>
    \/ tr[c].life \in {"Existent", "Initializing", "Processing", "DownShutting"}
    \/ cmd[c].life # "none" /\ cmd[c].state = "StStart"

(* Peers in the list are not marked while the server uses the list *)
PeersKept ==
  sd.life \in {"Processing", "DownShutting", "ChildrenUnusedSet"} => \A c \in mPeerList : ~ tr[c].unused

ConnInv(c) == ServedBy(c) /\ ListedFor(c) /\ CommandAhead(c) /\ TransferAhead(c) /\ ClosedBy(c)

DebugInv == ServerTypes /\ Rounds /\ ListenersListed /\ PeersKept /\ \A c \in Conns : ConnInv(c)

-----------------------------------------------------------------------------
(* Sequences of processes *)
LEMMA TailMembers ==
    ASSUME NEW S, NEW s \in Seq(S), s # <<>>
    PROVE  /\ Tail(s) \in Seq(S) /\ Head(s) = s[1] /\ 1 \in DOMAIN s
           /\ \A i \in DOMAIN Tail(s) : i \in Nat \ {0} /\ i + 1 \in DOMAIN s /\ Tail(s)[i] = s[i + 1]
           /\ \A i \in DOMAIN s : i # 1 => i - 1 \in DOMAIN Tail(s) /\ Tail(s)[i - 1] = s[i]
  OBVIOUS

\* The members of a sequence whose first is replaced.
LEMMA HeadedMembers ==
    ASSUME NEW S, NEW s \in Seq(S), s # <<>>, NEW q \in S
    PROVE  /\ <<q>> \o Tail(s) \in Seq(S) /\ DOMAIN (<<q>> \o Tail(s)) = DOMAIN s
           /\ (<<q>> \o Tail(s))[1] = q
           /\ \A i \in DOMAIN s : i # 1 => (<<q>> \o Tail(s))[i] = s[i]
  OBVIOUS

\* The members of a sequence without one element.
LEMMA RemovedMembers ==
    ASSUME NEW S, NEW s \in Seq(S), NEW i \in DOMAIN s
    PROVE  /\ RemoveAt(s, i) \in Seq(S)
           /\ \A j \in DOMAIN RemoveAt(s, i) : \E m \in DOMAIN s : s[m] = RemoveAt(s, i)[j]
           /\ \A m \in DOMAIN s : m # i => \E j \in DOMAIN RemoveAt(s, i) : RemoveAt(s, i)[j] = s[m]
<1> DEFINE a == SubSeq(s, 1, i - 1)
           b == SubSeq(s, i + 1, Len(s))
<1>1. Len(s) \in Nat /\ i \in 1 .. Len(s)
  OBVIOUS
<1>2. a \in Seq(S) /\ Len(a) = i - 1 /\ \A j \in 1 .. i - 1 : a[j] = s[j]
  BY <1>1
<1>3. b \in Seq(S) /\ Len(b) = Len(s) - i /\ \A j \in 1 .. Len(s) - i : b[j] = s[j + i]
  BY <1>1
<1>4. RemoveAt(s, i) = a \o b
  BY DEF RemoveAt
<1> HIDE DEF a, b
<1>5. a \o b \in Seq(S) /\ Len(a \o b) = Len(s) - 1
  BY <1>1, <1>2, <1>3
<1>6. \A j \in 1 .. Len(s) - 1 : (a \o b)[j] = IF j < i THEN s[j] ELSE s[j + 1]
  BY <1>1, <1>2, <1>3
<1>7. DOMAIN s = 1 .. Len(s) /\ \A q : q \in Seq(S) => DOMAIN q = 1 .. Len(q)
  OBVIOUS
<1>8. PICK r : r = a \o b
  OBVIOUS
<1>9. /\ r \in Seq(S) /\ DOMAIN r = 1 .. Len(s) - 1
      /\ \A j \in 1 .. Len(s) - 1 : r[j] = IF j < i THEN s[j] ELSE s[j + 1]
  BY <1>5, <1>6, <1>7, <1>8
<1>10. \A j \in 1 .. Len(s) - 1 : \E m \in 1 .. Len(s) : s[m] = r[j]
  <2> SUFFICES ASSUME NEW j \in 1 .. Len(s) - 1 PROVE \E m \in 1 .. Len(s) : s[m] = r[j]
    OBVIOUS
  <2>1. j \in 1 .. Len(s) /\ j + 1 \in 1 .. Len(s)
    BY <1>1
  <2>2. r[j] = s[j] \/ r[j] = s[j + 1]
    BY <1>9
  <2> QED
    BY <2>1, <2>2
<1>11. \A m \in 1 .. Len(s) : m # i => \E j \in 1 .. Len(s) - 1 : r[j] = s[m]
  <2> SUFFICES ASSUME NEW m \in 1 .. Len(s), m # i
               PROVE  \E j \in 1 .. Len(s) - 1 : r[j] = s[m]
    OBVIOUS
  <2>1. CASE m < i
    <3>1. m \in 1 .. Len(s) - 1 /\ r[m] = s[m]
      BY <1>1, <1>9, <2>1
    <3> QED
      BY <3>1
  <2>2. CASE ~ (m < i)
    <3>1. m - 1 \in 1 .. Len(s) - 1 /\ ~ (m - 1 < i) /\ (m - 1) + 1 = m
      BY <1>1, <2>2
    <3>2. r[m - 1] = s[(m - 1) + 1]
      BY <1>9, <3>1
    <3> QED
      BY <3>1, <3>2
  <2> QED
    BY <2>1, <2>2
<1>12. /\ RemoveAt(s, i) = r /\ DOMAIN r = 1 .. Len(s) - 1 /\ DOMAIN s = 1 .. Len(s) /\ r \in Seq(S)
  BY <1>4, <1>7, <1>8, <1>9
<1> QED
  BY <1>10, <1>11, <1>12

\* Listeners, transfers, terminals and the turns of terminals are four kinds.
LEMMA ProcsDiffer ==
    ASSUME NEW c, NEW d, NEW k
    PROVE  /\ ListenerOf(k) # TransferOf(c) /\ ListenerOf(k) # CommandOf(c) /\ ListenerOf(k) # TurnOf(c)
           /\ TransferOf(c) # CommandOf(d) /\ TransferOf(c) # TurnOf(d) /\ CommandOf(c) # TurnOf(d)
           /\ TransferOf(c) = TransferOf(d) => c = d
           /\ CommandOf(c) = CommandOf(d) => c = d
           /\ TurnOf(c) = TurnOf(d) => c = d
           /\ ListenerOf(c) = ListenerOf(d) => c = d
  BY DEF ListenerOf, TransferOf, CommandOf, TurnOf

(* What the end of a visit does to the list of children and to the round   *)
LEMMA TickedEffect ==
    ASSUME ServerTypes, todo # <<>>, NEW p, NEW life, Ticked(p, life)
    PROVE  /\ children' \in Seq(Procs) /\ todo' \in Seq(Procs \cup Turns)
           /\ \A q : IsToVisit(q)' => IsToVisit(q)
           /\ \A q : IsToVisit(q) /\ q # Head(todo) => IsToVisit(q)'
           /\ \A i \in DOMAIN todo' : i \in Nat \ {0} /\ i + 1 \in DOMAIN todo /\ todo'[i] = todo[i + 1]
           /\ \A q : IsChild(q)' => IsChild(q)
           /\ \A q : IsChild(q) /\ (q # p \/ life # "deleted") => IsChild(q)'
<1>0. children \in Seq(Procs) /\ todo \in Seq(Procs \cup Turns) /\ todo' = Tail(todo)
  BY DEF ServerTypes, Ticked
<1>1. /\ todo' \in Seq(Procs \cup Turns)
      /\ \A i \in DOMAIN todo' : i \in Nat \ {0} /\ i + 1 \in DOMAIN todo /\ todo'[i] = todo[i + 1]
      /\ \A i \in DOMAIN todo : i # 1 => i - 1 \in DOMAIN todo' /\ todo'[i - 1] = todo[i]
      /\ Head(todo) = todo[1]
  BY <1>0, TailMembers
<1>2. \A q : IsToVisit(q)' => IsToVisit(q)
  BY <1>1 DEF IsToVisit
<1>3. \A q : IsToVisit(q) /\ q # Head(todo) => IsToVisit(q)'
  BY <1>1 DEF IsToVisit
<1>4. /\ children' \in Seq(Procs)
      /\ \A q : IsChild(q)' => IsChild(q)
      /\ \A q : IsChild(q) /\ (q # p \/ life # "deleted") => IsChild(q)'
  <2>1. CASE life # "deleted"
    BY <1>0, <2>1 DEF Ticked, IsChild
  <2>2. CASE life = "deleted"
    <3>1. PICK i \in DOMAIN children : children[i] = p /\ children' = RemoveAt(children, i)
      BY <2>2 DEF Ticked
    <3>2. /\ children' \in Seq(Procs)
          /\ \A j \in DOMAIN children' : \E m \in DOMAIN children : children[m] = children'[j]
          /\ \A m \in DOMAIN children : m # i => \E j \in DOMAIN children' : children'[j] = children[m]
      BY <1>0, <3>1, RemovedMembers
    <3> QED
      BY <2>2, <3>1, <3>2 DEF IsChild
  <2> QED
    BY <2>1, <2>2
<1> QED
  BY <1>1, <1>2, <1>3, <1>4

(* Whose turn it is *)
LEMMA Visits ==
    ASSUME ServerTypes, ChildTick
    PROVE  /\ todo # <<>> /\ UNCHANGED <<sd, part, mPeerList>>
           /\ \/ \E k \in Listeners : Head(todo) = ListenerOf(k) /\ ListenerTick(k)
              \/ \E c \in Conns : /\ Head(todo) = TransferOf(c) /\ TransferTick(c)
                                  /\ Ticked(TransferOf(c), tr'[c].life)
              \/ \E c \in Conns : /\ Head(todo) = CommandOf(c) /\ IsThere(tr[c]) /\ TransferTick(c)
                                  /\ todo' = <<TurnOf(c)>> \o Tail(todo) /\ UNCHANGED children
              \/ \E c \in Conns : /\ \/ Head(todo) = CommandOf(c) /\ ~ IsThere(tr[c])
                                     \/ Head(todo) = TurnOf(c)
                                  /\ CommandTick(c)
<1>1. todo # <<>> /\ UNCHANGED <<sd, part, mPeerList>>
  BY DEF ChildTick
<1>2. PICK p : p = Head(todo)
  OBVIOUS
<1>3. p \in Procs \cup Turns
  <2>1. todo \in Seq(Procs \cup Turns)
    BY DEF ServerTypes
  <2> QED
    BY <1>1, <1>2, <2>1
<1>4. \/ p[1] = "listener" /\ ListenerTick(p[2])
      \/ p[1] = "transfer" /\ TransferTick(p[2]) /\ Ticked(p, tr'[p[2]].life)
      \/ /\ p[1] = "command" /\ IsThere(tr[p[2]]) /\ TransferTick(p[2])
         /\ todo' = <<TurnOf(p[2])>> \o Tail(todo) /\ UNCHANGED children
      \/ p[1] = "command" /\ ~ IsThere(tr[p[2]]) /\ CommandTick(p[2])
      \/ p[1] = "turn" /\ CommandTick(p[2])
  BY <1>2 DEF ChildTick
<1>5. ASSUME NEW k \in Listeners, p = ListenerOf(k) PROVE ListenerTick(k)
  <2>1. p[1] = "listener" /\ p[2] = k
    BY <1>5 DEF ListenerOf
  <2> QED
    BY <1>4, <2>1
<1>6. ASSUME NEW c \in Conns, p = TransferOf(c)
      PROVE  TransferTick(c) /\ Ticked(TransferOf(c), tr'[c].life)
  <2>1. p[1] = "transfer" /\ p[2] = c
    BY <1>6 DEF TransferOf
  <2> QED
    BY <1>4, <1>6, <2>1
<1>7. ASSUME NEW c \in Conns, p = CommandOf(c)
      PROVE  \/ /\ IsThere(tr[c]) /\ TransferTick(c)
                /\ todo' = <<TurnOf(c)>> \o Tail(todo) /\ UNCHANGED children
             \/ ~ IsThere(tr[c]) /\ CommandTick(c)
  <2>1. p[1] = "command" /\ p[2] = c
    BY <1>7 DEF CommandOf
  <2> QED
    BY <1>4, <2>1
<1>8. ASSUME NEW c \in Conns, p = TurnOf(c) PROVE CommandTick(c)
  <2>1. p[1] = "turn" /\ p[2] = c
    BY <1>8 DEF TurnOf
  <2> QED
    BY <1>4, <2>1
<1>9. \/ \E k \in Listeners : p = ListenerOf(k)
      \/ \E c \in Conns : p = TransferOf(c) \/ p = CommandOf(c) \/ p = TurnOf(c)
  BY <1>3 DEF Procs, Turns
<1> QED
  BY <1>1, <1>2, <1>5, <1>6, <1>7, <1>8, <1>9

(* The transfers that hold an open descriptor *)
Holding == {"Existent", "Initializing", "Processing", "DownShutting"}

\* What a tick of a transfer changes.
LEMMA TransferEffect ==
    ASSUME ServerTypes, NEW c \in Conns, TransferTick(c), fd \in [Conns -> {"none", "open", "closed", "lost"}]
    PROVE  /\ tr' \in [Conns -> Transfers] /\ \A d \in Conns \ {c} : tr'[d] = tr[d]
           /\ tr'[c].unused = tr[c].unused
           /\ fd' = fd \/ (fd' = [fd EXCEPT ![c] = "closed"] /\ tr[c].life # "none")
           /\ tr[c].life # "none" => tr'[c].life \notin {"none", "Existent"}
           /\ tr[c].life = "deleted" /\ tr[c].unused => tr'[c].life = "deleted"
           /\ tr'[c].life = "deleted" => tr[c].unused
           /\ tr[c].life \in Holding /\ ~ (tr[c].life = "Existent" /\ tr[c].unused) /\ fd'[c] = "open"
                => tr'[c].life \in Holding
           /\ UNCHANGED <<processVars, ppPeerFd, user, cmd>>
<1>0. tr \in [Conns -> Transfers] /\ UNCHANGED <<processVars, ppPeerFd, user, cmd>>
  BY DEF ServerTypes, TransferTick
<1>1. PICK t \in Transfers : t = tr[c]
  BY <1>0
<1>2. ASSUME NEW u \in Transfers, tr' = [tr EXCEPT ![c] = u]
      PROVE  /\ tr' \in [Conns -> Transfers] /\ \A d \in Conns \ {c} : tr'[d] = tr[d]
             /\ tr'[c] = u
  BY <1>0, <1>2
<1>3. CASE CallsProcess(t.life, t.unused)
  <2>1. TransferProcess(c)
    BY <1>1, <1>3 DEF TransferTick
  <2>2. t.life = "Processing" /\ t.life \in Lives
    BY <1>3 DEF CallsProcess, Lives
  <2>3. CASE tr' = tr /\ fd' = fd
    BY <1>0, <1>1, <2>2, <2>3 DEF Holding
  <2>4. ASSUME NEW u \in Transfers, tr' = [tr EXCEPT ![c] = u], u.unused = t.unused,
               u.life \in {"Processing", "DownShutting"}, fd' = fd \/ fd' = [fd EXCEPT ![c] = "closed"]
        PROVE  /\ tr' \in [Conns -> Transfers] /\ \A d \in Conns \ {c} : tr'[d] = tr[d]
               /\ tr'[c].unused = tr[c].unused
               /\ fd' = fd \/ (fd' = [fd EXCEPT ![c] = "closed"] /\ tr[c].life # "none")
               /\ tr'[c].life \in {"Processing", "DownShutting"} /\ tr[c].life = "Processing"
    BY <1>1, <1>2, <2>2, <2>4
  <2>5. CASE TransferEnds(c)
    <3>1. tr' = [tr EXCEPT ![c] = [t EXCEPT !.life = "DownShutting", !.ended = TRUE]]
      BY <1>0, <1>1, <2>5 DEF TransferEnds
    <3>2. [t EXCEPT !.life = "DownShutting", !.ended = TRUE] \in Transfers
      BY <1>1 DEF Transfers, Lives
    <3>3. [t EXCEPT !.life = "DownShutting", !.ended = TRUE].unused = t.unused
          /\ [t EXCEPT !.life = "DownShutting", !.ended = TRUE].life = "DownShutting"
      BY <1>1 DEF Transfers
    <3>4. fd' = fd \/ fd' = [fd EXCEPT ![c] = "closed"]
      BY <2>1 DEF TransferProcess, Close
    <3> QED
      BY <1>0, <2>4, <3>1, <3>2, <3>3, <3>4 DEF Holding
  <2>6. ASSUME NEW s \in TransferStates, tr' = [tr EXCEPT ![c].state = s], fd' = fd
        PROVE  /\ tr' \in [Conns -> Transfers] /\ \A d \in Conns \ {c} : tr'[d] = tr[d]
               /\ tr'[c].unused = tr[c].unused /\ tr'[c].life = "Processing" /\ tr[c].life = "Processing"
    <3>1. tr' = [tr EXCEPT ![c] = [t EXCEPT !.state = s]]
      BY <1>0, <1>1, <2>6
    <3>2. /\ [t EXCEPT !.state = s] \in Transfers
          /\ [t EXCEPT !.state = s].life = "Processing" /\ [t EXCEPT !.state = s].unused = t.unused
      BY <1>1, <2>2 DEF Transfers
    <3> QED
      BY <1>1, <1>2, <2>2, <3>1, <3>2
  <2>7. CASE \E s \in TransferStates : tr' = [tr EXCEPT ![c].state = s] /\ fd' = fd
    BY <1>0, <2>6, <2>7 DEF Holding
  <2>8. \/ tr' = tr /\ fd' = fd
        \/ TransferEnds(c)
        \/ \E s \in TransferStates : tr' = [tr EXCEPT ![c].state = s] /\ fd' = fd
    BY <2>1 DEF TransferProcess, TransferStates
  <2> QED
    BY <2>3, <2>5, <2>7, <2>8
<1>4. CASE ~ CallsProcess(t.life, t.unused)
  <2>1. PICK life \in Lives :
            /\ tr' = [tr EXCEPT ![c] = [t EXCEPT !.life = life]]
            /\ \/ t.life = "DownShutting" /\ life = "ChildrenUnusedSet" /\ fd' = [fd EXCEPT ![c] = "closed"]
               \/ t.life # "DownShutting" /\ life = Visited(Passed(t.life, t.unused), t.unused, FALSE) /\ fd' = fd
    <3>1. CASE CallsShutdown(t.life)
      <4>1. tr' = [tr EXCEPT ![c] = [t EXCEPT !.life = "ChildrenUnusedSet"]] /\ fd' = [fd EXCEPT ![c] = "closed"]
        BY <1>0, <1>1, <1>4, <3>1 DEF TransferTick, Close
      <4> QED
        BY <3>1, <4>1 DEF CallsShutdown, Lives
    <3>2. CASE ~ CallsShutdown(t.life)
      <4>1. /\ tr' = [tr EXCEPT ![c] = [t EXCEPT !.life = Visited(Passed(t.life, t.unused), t.unused, FALSE)]]
            /\ fd' = fd
        BY <1>0, <1>1, <1>4, <3>2 DEF TransferTick
      <4>2. Visited(Passed(t.life, t.unused), t.unused, FALSE) \in Lives
        BY DEF Visited, Passed, Lives
      <4> QED
        BY <3>2, <4>1, <4>2 DEF CallsShutdown
    <3> QED
      BY <3>1, <3>2
  <2>2. /\ [t EXCEPT !.life = life] \in Transfers
        /\ [t EXCEPT !.life = life].life = life /\ [t EXCEPT !.life = life].unused = t.unused
    BY <1>1 DEF Transfers
  <2>3. tr' \in [Conns -> Transfers] /\ (\A d \in Conns \ {c} : tr'[d] = tr[d])
        /\ tr'[c].life = life /\ tr'[c].unused = t.unused
    BY <1>2, <2>1, <2>2
  <2>4. t.life \in Lives /\ t.unused \in BOOLEAN
    BY DEF Transfers
  <2>5. CASE t.life = "DownShutting"
    BY <1>0, <1>1, <2>1, <2>3, <2>5 DEF Holding
  <2>6. CASE t.life # "DownShutting"
    <3>1. /\ life # "none" /\ life # "Existent"
          /\ t.life = "deleted" /\ t.unused => life = "deleted"
          /\ life = "deleted" => t.unused
          /\ t.life \in Holding /\ ~ (t.life = "Existent" /\ t.unused) => life \in Holding
      BY <1>4, <2>1, <2>4, <2>6 DEF Visited, Passed, Lives, Holding, CallsProcess
    <3> QED
      BY <1>0, <1>1, <2>1, <2>3, <2>6, <3>1
  <2> QED
    BY <2>5, <2>6
<1> QED
  BY <1>3, <1>4

\* What a tick of a terminal and of its transfer changes.
LEMMA CommandEffect ==
    ASSUME ServerTypes, NEW c \in Conns, CommandTick(c), cmd[c].life # "none",
           fd \in [Conns -> {"none", "open", "closed", "lost"}],
           tr[c].life = "none" => cmd[c].state = "StStart", CommandAhead(c)
    PROVE  /\ tr' \in [Conns -> Transfers] /\ \A d \in Conns \ {c} : tr'[d] = tr[d]
           /\ cmd' \in [Conns -> Commands] /\ \A d \in Conns \ {c} : cmd'[d] = cmd[d]
           /\ fd' = fd \/ fd' = [fd EXCEPT ![c] = "closed"]
           /\ cmd'[c].life # "none"
           /\ \/ /\ cmd[c].life = "Processing" /\ cmd[c].state = "StStart" /\ fd' = fd
                 /\ tr'[c] = [NoTransfer EXCEPT !.life = "Existent"]
                 /\ cmd'[c].life = "Processing" /\ cmd'[c].state = "StSendReadyWait"
              \/ /\ cmd'[c].state = cmd[c].state /\ tr'[c].life = tr[c].life
                 /\ tr[c].unused => tr'[c].unused
                 /\ tr[c].life = "none" => tr' = tr
                 /\ cmd'[c].life = "deleted" => cmd'[c].unused /\ ~ IsThere(tr[c])
                 /\ cmd[c].life = "deleted" /\ ~ IsThere(tr[c]) => cmd'[c].life = "deleted"
                 /\ cmd[c].state = "StStart" =>
                      /\ ~ cmd'[c].unused
                      /\ \/ cmd[c].life = "Existent" /\ cmd'[c].life = "Initializing"
                         \/ cmd[c].life = "Initializing" /\ cmd'[c].life = "Processing"
                 /\ cmd[c].state # "StStart" => cmd'[c].life \notin {"Existent", "Initializing"}
           /\ UNCHANGED <<processVars, ppPeerFd, user>>
           /\ Ticked(CommandOf(c), cmd'[c].life)
<1>0. /\ tr \in [Conns -> Transfers] /\ cmd \in [Conns -> Commands]
      /\ UNCHANGED <<processVars, ppPeerFd, user>> /\ Ticked(CommandOf(c), cmd'[c].life)
  BY DEF ServerTypes, CommandTick
<1>1. PICK p \in Commands : p = cmd[c]
  BY <1>0
<1>2. PICK t \in Transfers : t = tr[c]
  BY <1>0
<1>3. p.life \in Lives /\ p.unused \in BOOLEAN /\ p.state \in CommandStates
  BY DEF Commands
<1>4. ASSUME NEW u \in Transfers, tr' = [tr EXCEPT ![c] = u]
      PROVE  /\ tr' \in [Conns -> Transfers] /\ \A d \in Conns \ {c} : tr'[d] = tr[d]
             /\ tr'[c] = u
  BY <1>0, <1>4
<1>5. ASSUME NEW q \in Commands, cmd' = [cmd EXCEPT ![c] = q]
      PROVE  /\ cmd' \in [Conns -> Commands] /\ \A d \in Conns \ {c} : cmd'[d] = cmd[d]
             /\ cmd'[c] = q
  BY <1>0, <1>5
<1>6. p.state = "StStart" => p.life \in {"Existent", "Initializing", "Processing"} /\ ~ p.unused
  BY <1>1, <1>3 DEF CommandAhead, CommandAge
<1>7. p.life \in {"Existent", "Initializing"} => p.state = "StStart"
  BY <1>1 DEF CommandAhead
<1>8. CASE CallsProcess(p.life, p.unused)
  <2>1. CommandProcess(c) /\ p.life = "Processing"
    BY <1>1, <1>8 DEF CommandTick, CallsProcess
  <2>2. CASE p.state = "StStart"
    <3>1. /\ tr' = [tr EXCEPT ![c] = [NoTransfer EXCEPT !.life = "Existent"]] /\ fd' = fd
          /\ cmd' = [cmd EXCEPT ![c] = [p EXCEPT !.state = "StSendReadyWait"]]
      BY <1>0, <1>1, <2>1, <2>2 DEF CommandProcess
    <3>2. [NoTransfer EXCEPT !.life = "Existent"] \in Transfers
      BY DEF NoTransfer, Transfers, TransferStates, Lives
    <3>3. /\ [p EXCEPT !.state = "StSendReadyWait"] \in Commands
          /\ [p EXCEPT !.state = "StSendReadyWait"].life = p.life
          /\ [p EXCEPT !.state = "StSendReadyWait"].state = "StSendReadyWait"
      BY DEF Commands, CommandStates
    <3>4. tr' \in [Conns -> Transfers] /\ (\A d \in Conns \ {c} : tr'[d] = tr[d])
          /\ tr'[c] = [NoTransfer EXCEPT !.life = "Existent"]
      BY <1>4, <3>1, <3>2
    <3>5. cmd' \in [Conns -> Commands] /\ (\A d \in Conns \ {c} : cmd'[d] = cmd[d])
          /\ cmd'[c].life = "Processing" /\ cmd'[c].state = "StSendReadyWait"
      BY <1>5, <2>1, <3>1, <3>3
    <3> QED
      BY <1>0, <1>1, <2>1, <2>2, <3>1, <3>4, <3>5
  <2>3. CASE p.state # "StStart"
    <3>1. tr' = tr /\ (cmd' = cmd \/ CommandEnds(c)) /\ (fd' = fd \/ fd' = [fd EXCEPT ![c] = "closed"])
      BY <1>1, <2>1, <2>3 DEF CommandProcess, Sends, Close
    <3>2. CASE cmd' = cmd
      BY <1>0, <1>1, <2>1, <2>3, <3>1, <3>2
    <3>3. CASE CommandEnds(c)
      <4>1. cmd' = [cmd EXCEPT ![c] = [p EXCEPT !.life = "DownShutting", !.ended = TRUE]]
        BY <1>0, <1>1, <3>3 DEF CommandEnds
      <4>2. PICK q : q = [p EXCEPT !.life = "DownShutting", !.ended = TRUE]
        OBVIOUS
      <4>3. q \in Commands /\ q.life = "DownShutting" /\ q.state = p.state
        BY <4>2 DEF Commands, Lives
      <4>4. cmd' \in [Conns -> Commands] /\ (\A d \in Conns \ {c} : cmd'[d] = cmd[d])
            /\ cmd'[c].life = "DownShutting" /\ cmd'[c].state = p.state
        BY <1>5, <4>1, <4>2, <4>3
      <4> QED
        BY <1>0, <1>1, <2>1, <2>3, <3>1, <4>4
    <3> QED
      BY <3>1, <3>2, <3>3
  <2> QED
    BY <2>2, <2>3
<1>9. CASE CallsShutdown(p.life)
  <2>1. CommandShutdown(c) /\ p.life = "DownShutting" /\ p.state # "StStart" /\ ~ CallsProcess(p.life, p.unused)
    BY <1>1, <1>6, <1>9 DEF CommandTick, CallsProcess, CallsShutdown
  <2>2. /\ cmd' = [cmd EXCEPT ![c] = [p EXCEPT !.life = "ChildrenUnusedSet"]]
        /\ fd' = fd \/ fd' = [fd EXCEPT ![c] = "closed"]
        /\ tr' = [tr EXCEPT ![c] = [t EXCEPT !.mDone = TRUE]]
    BY <1>0, <1>1, <1>2, <2>1 DEF CommandShutdown, Sends, Close
  <2>3. PICK q : q = [p EXCEPT !.life = "ChildrenUnusedSet"]
    OBVIOUS
  <2>4. q \in Commands /\ q.life = "ChildrenUnusedSet" /\ q.state = p.state
    BY <2>3 DEF Commands, Lives
  <2>5. PICK u : u = [t EXCEPT !.mDone = TRUE]
    OBVIOUS
  <2>6. u \in Transfers /\ u.life = t.life /\ u.unused = t.unused
    BY <2>5 DEF Transfers
  <2>7. cmd' \in [Conns -> Commands] /\ (\A d \in Conns \ {c} : cmd'[d] = cmd[d])
        /\ cmd'[c].life = "ChildrenUnusedSet" /\ cmd'[c].state = p.state
    BY <1>5, <2>2, <2>3, <2>4
  <2>8. tr' \in [Conns -> Transfers] /\ (\A d \in Conns \ {c} : tr'[d] = tr[d])
        /\ tr'[c].life = t.life /\ tr'[c].unused = t.unused
    BY <1>4, <2>2, <2>5, <2>6
  <2> QED
    BY <1>0, <1>1, <1>2, <2>1, <2>2, <2>7, <2>8
<1>10. CASE ~ CallsProcess(p.life, p.unused) /\ ~ CallsShutdown(p.life)
  <2>1. /\ CommandEnters(c, Passed(p.life, p.unused)) /\ fd' = fd
        /\ tr' = IF p.life = "ChildrenUnusedSet" /\ IsThere(t) THEN [tr EXCEPT ![c].unused = TRUE] ELSE tr
    BY <1>1, <1>2, <1>10 DEF CommandTick, CommandPass
  <2>2. PICK life : life = Passed(p.life, p.unused)
    OBVIOUS
  <2>3. PICK unused \in BOOLEAN : unused = (p.unused \/ life = "Finished")
    BY <1>3
  <2>4. PICK after : after = Visited(life, unused, IsThere(t))
    OBVIOUS
  <2>5. cmd' = [cmd EXCEPT ![c] = [p EXCEPT !.unused = unused, !.life = after]]
    BY <1>0, <1>1, <1>2, <2>1, <2>2, <2>3, <2>4 DEF CommandEnters
  <2>6. PICK q : q = [p EXCEPT !.unused = unused, !.life = after]
    OBVIOUS
  <2>7. /\ after \in Lives /\ after # "none"
        /\ after = "deleted" => unused /\ ~ IsThere(t)
        /\ p.life = "deleted" /\ ~ IsThere(t) => after = "deleted"
        /\ p.state = "StStart" => /\ ~ unused
                                  /\ \/ p.life = "Existent" /\ after = "Initializing"
                                     \/ p.life = "Initializing" /\ after = "Processing"
        /\ p.state # "StStart" => after \notin {"Existent", "Initializing"}
    BY <1>3, <1>6, <1>7, <1>10, <2>2, <2>3, <2>4 DEF Visited, Passed, Lives, CallsProcess, CallsShutdown
  <2>8. q \in Commands /\ q.life = after /\ q.unused = unused /\ q.state = p.state
    BY <2>6, <2>7 DEF Commands
  <2>9. cmd' \in [Conns -> Commands] /\ (\A d \in Conns \ {c} : cmd'[d] = cmd[d]) /\ cmd'[c] = q
    BY <1>5, <2>5, <2>6, <2>8
  <2>10. /\ tr' \in [Conns -> Transfers] /\ (\A d \in Conns \ {c} : tr'[d] = tr[d])
         /\ tr'[c].life = t.life /\ (t.unused => tr'[c].unused) /\ (t.life = "none" => tr' = tr)
    <3>1. CASE tr' = tr
      BY <1>0, <1>2, <3>1
    <3>2. CASE tr' = [tr EXCEPT ![c].unused = TRUE] /\ IsThere(t)
      <4>1. tr' = [tr EXCEPT ![c] = [t EXCEPT !.unused = TRUE]]
        BY <1>0, <1>2, <3>2
      <4>2. /\ [t EXCEPT !.unused = TRUE] \in Transfers
            /\ [t EXCEPT !.unused = TRUE].life = t.life /\ [t EXCEPT !.unused = TRUE].unused
        BY DEF Transfers
      <4> QED
        BY <1>4, <3>2, <4>1, <4>2 DEF IsThere
    <3> QED
      BY <2>1, <3>1, <3>2
  <2> QED
    BY <1>0, <1>1, <1>2, <2>1, <2>7, <2>8, <2>9, <2>10
<1> QED
  BY <1>8, <1>9, <1>10

-----------------------------------------------------------------------------
(* What one step does to a connection it is not about *)
LEMMA Elsewhere ==
    ASSUME NEW d \in Conns, ConnInv(d), tr'[d] = tr[d], cmd'[d] = cmd[d], user'[d] = user[d],
           fd'[d] = "open" => fd[d] = "open" \/ user[d] = "no",
           d \in mPeerList' => d \in mPeerList, sd'.life = sd.life, part' = part,
           \A q \in {TransferOf(d), CommandOf(d)} : IsChild(q)' <=> IsChild(q),
           \A q \in {TransferOf(d), CommandOf(d), TurnOf(d)} : IsToVisit(q)' <=> IsToVisit(q)
    PROVE  ConnInv(d)'
<1>1. (IsPending(d)' <=> IsPending(d)) /\ ServerAge' = ServerAge /\ CommandAge(d)' = CommandAge(d)
  BY DEF IsPending, ServerAge, CommandAge
<1>2. /\ IsChild(TransferOf(d))' <=> IsChild(TransferOf(d))
      /\ IsChild(CommandOf(d))' <=> IsChild(CommandOf(d))
      /\ IsToVisit(TransferOf(d))' <=> IsToVisit(TransferOf(d))
  OBVIOUS
<1>3. ServedBy(d)' /\ ClosedBy(d)'
  BY DEF ConnInv, ServedBy, ClosedBy
<1>4. ListedFor(d)'
  BY <1>1, <1>2 DEF ConnInv, ListedFor
<1>5. CommandAhead(d)'
  BY <1>1 DEF ConnInv, CommandAhead
<1>6. TransferAhead(d)'
  BY <1>1, <1>2 DEF ConnInv, TransferAhead
<1> QED
  BY <1>3, <1>4, <1>5, <1>6 DEF ConnInv

(* Steps that leave the processes, their round and the connections alone *)
LEMMA QuietKeeps ==
    ASSUME DebugInv, UNCHANGED <<processVars, user, children, todo, tr, cmd, mPeerList>>,
           \A c \in Conns : fd'[c] = "open" => fd[c] = "open",
           sd' \in [life : {sd.life}, unused : BOOLEAN, mState : {sd.mState}],
           part' \in {"children", "peerAdd", "logs"}, part = "children" <=> part' = "children"
    PROVE  DebugInv'
<1>1. sd'.life = sd.life /\ sd'.mState = sd.mState
  OBVIOUS
<1>2. UNCHANGED <<lstLife, user>>
  BY DEF processVars
<1>3. (\A q : IsChild(q)' <=> IsChild(q)) /\ (\A q : IsToVisit(q)' <=> IsToVisit(q))
  BY DEF IsChild, IsToVisit
<1>4. ServerTypes'
  BY DEF DebugInv, ServerTypes
<1>5. Rounds' /\ ListenersListed' /\ PeersKept'
  BY <1>1, <1>2, <1>3 DEF DebugInv, Rounds, ListenersListed, PeersKept
<1>6. ASSUME NEW d \in Conns PROVE ConnInv(d)'
  <2>1. (IsPending(d)' <=> IsPending(d)) /\ ServerAge' = ServerAge /\ CommandAge(d)' = CommandAge(d)
    BY <1>1, <1>3 DEF IsPending, ServerAge, CommandAge
  <2>2. ConnInv(d)
    BY DEF DebugInv
  <2>3. ServedBy(d)' /\ ClosedBy(d)' /\ ListedFor(d)'
    BY <1>2, <1>3, <2>1, <2>2 DEF ConnInv, ServedBy, ClosedBy, ListedFor
  <2>4. CommandAhead(d)' /\ TransferAhead(d)'
    BY <1>3, <2>1, <2>2 DEF ConnInv, CommandAhead, TransferAhead
  <2> QED
    BY <2>3, <2>4 DEF ConnInv
<1> QED
  BY <1>4, <1>5, <1>6 DEF DebugInv

-----------------------------------------------------------------------------
(* Visits of the children *)
LEMMA ListenerEffect ==
    ASSUME ListInv, NEW k \in Listeners, LstTick(k) \/ AcceptNext(k)
    PROVE  /\ UNCHANGED user /\ lstLife[k] \notin {"none", "deleted"}
           /\ \A l \in Listeners : l # k => lstLife'[l] = lstLife[l]
           /\ accepting'[k] # "no" => lstLife'[k] # "deleted"
           /\ \A c \in Conns : fd'[c] = "open" => fd[c] = "open" \/ user[c] = "no"
<1>0. /\ lstLife \in [Listeners -> Lives] /\ fd \in [Conns -> {"none", "open", "closed", "lost"}]
      /\ accepting[k] # "no" => lstLife[k] = "Processing"
  BY DEF ListInv, ListeningInv, LstTypeOK, QueueLimit
<1>1. ASSUME NEW f, ConnectionsAccept(k, f)
      PROVE  \A c \in Conns : fd'[c] = "open" => fd[c] = "open" \/ user[c] = "no"
  <2>1. CASE fd' = fd
    BY <2>1
  <2>2. CASE \E c \in Conns : IsNext(c) /\ \E s \in {"open", "closed", "lost"} : fd' = [fd EXCEPT ![c] = s]
    BY <1>0, <2>2 DEF IsNext, ListInv, TakenOnce
  <2> QED
    BY <1>1, <2>1, <2>2 DEF ConnectionsAccept, NoConnection, Queue, Drop, Lose
<1>5. ASSUME NEW f, ConnectionsAccept(k, f)
      PROVE  lstLife' = lstLife \/ lstLife' = [lstLife EXCEPT ![k] = "DownShutting"]
  BY <1>5 DEF ConnectionsAccept, Lose, LstEnters, Visited
<1>2. CASE AcceptNext(k)
  BY <1>0, <1>1, <1>5, <1>2 DEF AcceptNext
<1>3. CASE LstTick(k) /\ StMain(k)
  <2>1. /\ UNCHANGED user /\ lstLife[k] \notin {"none", "deleted"}
        /\ lstLife' = lstLife \/ lstLife' = [lstLife EXCEPT ![k] = "DownShutting"]
    BY <1>3, <1>5 DEF StMain, LstTick
  <2>2. \A c \in Conns : fd'[c] = "open" => fd[c] = "open" \/ user[c] = "no"
    BY <1>1, <1>3 DEF StMain
  <2> QED
    BY <1>0, <2>1, <2>2
<1>4. CASE LstTick(k) /\ (StStart(k) \/ LstShutdown(k) \/ LstPass(k))
  <2>1. UNCHANGED <<user, accepting>> /\ lstLife[k] \notin {"none", "deleted"} /\ accepting[k] = "no"
    BY <1>4 DEF StStart, LstShutdown, LstPass, LstTick
  <2>2. lstLife' = lstLife \/ \E life : lstLife' = [lstLife EXCEPT ![k] = life]
    BY <1>4 DEF StStart, LstShutdown, LstPass, LstEnters
  <2>3. \A c \in Conns : fd'[c] = "open" => fd[c] = "open"
    BY <1>4 DEF StStart, LstShutdown, LstPass
  <2> QED
    BY <1>0, <2>1, <2>2, <2>3
<1> QED
  BY <1>2, <1>3, <1>4 DEF LstTick

\* A listener is ticked.
LEMMA ListenerTickKeeps ==
    ASSUME ListInv, DebugInv, NEW k \in Listeners, todo # <<>>, Head(todo) = ListenerOf(k), ListenerTick(k),
           UNCHANGED <<sd, part, mPeerList>>
    PROVE  DebugInv'
<1>1. ServerTypes /\ UNCHANGED <<tr, cmd>> /\ (LstTick(k) \/ AcceptNext(k))
  BY DEF DebugInv, ListenerTick
<1>2. /\ UNCHANGED user /\ lstLife[k] \notin {"none", "deleted"}
      /\ \A l \in Listeners : l # k => lstLife'[l] = lstLife[l]
      /\ accepting'[k] # "no" => lstLife'[k] # "deleted"
      /\ \A c \in Conns : fd'[c] = "open" => fd[c] = "open" \/ user[c] = "no"
  BY <1>1, ListenerEffect
<1>3. /\ children' \in Seq(Procs) /\ todo' \in Seq(Procs \cup Turns)
      /\ \A q : IsToVisit(q)' => IsToVisit(q)
      /\ \A q : IsToVisit(q) /\ q # ListenerOf(k) => IsToVisit(q)'
      /\ todo' = todo \/ \A i \in DOMAIN todo' : i \in Nat \ {0} /\ i + 1 \in DOMAIN todo /\ todo'[i] = todo[i + 1]
      /\ \A q : IsChild(q)' => IsChild(q)
      /\ \A q : IsChild(q) /\ (q # ListenerOf(k) \/ lstLife'[k] # "deleted") => IsChild(q)'
  <2>1. CASE accepting'[k] = "no"
    <3>1. Ticked(ListenerOf(k), lstLife'[k])
      BY <2>1 DEF ListenerTick
    <3> QED
      BY <1>1, <3>1, TickedEffect
  <2>2. CASE accepting'[k] # "no"
    <3>1. UNCHANGED <<todo, children>>
      BY <2>2 DEF ListenerTick
    <3> QED
      BY <1>1, <3>1 DEF ServerTypes, IsChild, IsToVisit
  <2> QED
    BY <2>1, <2>2
<1>4. ServerTypes'
  BY <1>1, <1>3 DEF ServerTypes
<1>5. Rounds'
  <2>1. part = "children" /\ sd.mState # "StStart"
    BY DEF DebugInv, Rounds
  <2>2. ASSUME NEW i \in DOMAIN todo', NEW c \in Conns, todo'[i] = TurnOf(c)
        PROVE  i = 1 /\ tr[c].life \notin {"none", "Existent"}
    <3>1. CASE todo' = todo
      BY <2>2, <3>1 DEF DebugInv, Rounds
    <3>2. CASE i \in Nat \ {0} /\ i + 1 \in DOMAIN todo /\ todo'[i] = todo[i + 1]
      <4>1. i + 1 = 1
        BY <2>2, <3>2 DEF DebugInv, Rounds
      <4> QED
        BY <3>2, <4>1
    <3> QED
      BY <1>3, <3>1, <3>2
  <2> QED
    BY <1>1, <2>1, <2>2 DEF DebugInv, Rounds
<1>6. ListenersListed'
  <2> SUFFICES ASSUME NEW l \in Listeners, lstLife'[l] \notin {"none", "deleted"}
               PROVE  IsChild(ListenerOf(l))'
    BY DEF ListenersListed
  <2>1. IsChild(ListenerOf(l))
    BY <1>2 DEF DebugInv, ListenersListed
  <2>2. ListenerOf(l) # ListenerOf(k) \/ lstLife'[k] # "deleted"
    BY ProcsDiffer
  <2> QED
    BY <1>3, <2>1, <2>2
<1>7. PeersKept'
  BY <1>1 DEF DebugInv, PeersKept
<1>8. ASSUME NEW d \in Conns PROVE ConnInv(d)'
  <2>1. ConnInv(d)
    BY DEF DebugInv
  <2>2. \A q \in {TransferOf(d), CommandOf(d), TurnOf(d)} : q # ListenerOf(k)
    BY ProcsDiffer
  <2> QED
    BY <1>1, <1>2, <1>3, <2>1, <2>2, Elsewhere
<1> QED
  BY <1>4, <1>5, <1>6, <1>7, <1>8 DEF DebugInv

(* The rest of a visit, when the connection that was visited is served *)
LEMMA VisitKeeps ==
    ASSUME DebugInv, NEW c \in Conns, todo # <<>>, Head(todo) \in {TransferOf(c), CommandOf(c), TurnOf(c)},
           UNCHANGED <<sd, part, mPeerList, processVars, user>>,
           \A d \in Conns \ {c} : tr'[d] = tr[d] /\ cmd'[d] = cmd[d] /\ fd'[d] = fd[d],
           NEW p \in {TransferOf(c), CommandOf(c)}, NEW life, Ticked(p, life)
    PROVE  Rounds' /\ ListenersListed' /\ \A d \in Conns \ {c} : ConnInv(d)'
<1>1. /\ children' \in Seq(Procs) /\ todo' \in Seq(Procs \cup Turns)
      /\ \A q : IsToVisit(q)' => IsToVisit(q)
      /\ \A q : IsToVisit(q) /\ q # Head(todo) => IsToVisit(q)'
      /\ \A i \in DOMAIN todo' : i \in Nat \ {0} /\ i + 1 \in DOMAIN todo /\ todo'[i] = todo[i + 1]
      /\ \A q : IsChild(q)' => IsChild(q)
      /\ \A q : IsChild(q) /\ (q # p \/ life # "deleted") => IsChild(q)'
  BY TickedEffect DEF DebugInv
<1>2. Rounds'
  <2>1. part = "children" /\ sd.mState # "StStart"
    BY DEF DebugInv, Rounds
  <2>2. ASSUME NEW i \in DOMAIN todo', NEW d \in Conns, todo'[i] = TurnOf(d) PROVE FALSE
    <3>1. i \in Nat \ {0} /\ i + 1 \in DOMAIN todo /\ todo[i + 1] = TurnOf(d)
      BY <1>1, <2>2
    <3>2. i + 1 = 1
      BY <3>1 DEF DebugInv, Rounds
    <3> QED
      BY <3>1, <3>2
  <2> QED
    BY <2>1, <2>2 DEF DebugInv, Rounds
<1>3. ListenersListed'
  <2> SUFFICES ASSUME NEW l \in Listeners, lstLife'[l] \notin {"none", "deleted"}
               PROVE  IsChild(ListenerOf(l))'
    BY DEF ListenersListed
  <2>1. IsChild(ListenerOf(l)) /\ ListenerOf(l) # p
    BY ProcsDiffer DEF DebugInv, ListenersListed, processVars
  <2> QED
    BY <1>1, <2>1
<1>4. ASSUME NEW d \in Conns \ {c} PROVE ConnInv(d)'
  <2>1. ConnInv(d)
    BY DEF DebugInv
  <2>2. \A q \in {TransferOf(d), CommandOf(d), TurnOf(d)} : q # Head(todo) /\ q # p
    BY ProcsDiffer
  <2>3. /\ \A q \in {TransferOf(d), CommandOf(d)} : IsChild(q)' <=> IsChild(q)
        /\ \A q \in {TransferOf(d), CommandOf(d), TurnOf(d)} : IsToVisit(q)' <=> IsToVisit(q)
    BY <1>1, <2>2
  <2> QED
    BY <2>1, <2>3, Elsewhere
<1> QED
  BY <1>2, <1>3, <1>4

\* The transfer of a peer is ticked.
LEMMA PeerVisitKeeps ==
    ASSUME ListInv, DebugInv, NEW c \in Conns, todo # <<>>, Head(todo) = TransferOf(c), TransferTick(c),
           Ticked(TransferOf(c), tr'[c].life), UNCHANGED <<sd, part, mPeerList>>
    PROVE  DebugInv'
<1>1. ServerTypes /\ ConnInv(c) /\ fd \in [Conns -> {"none", "open", "closed", "lost"}]
  BY DEF DebugInv, ListInv, ListeningInv, LstTypeOK
<1>2. /\ tr' \in [Conns -> Transfers] /\ \A d \in Conns \ {c} : tr'[d] = tr[d]
      /\ tr'[c].unused = tr[c].unused
      /\ fd' = fd \/ (fd' = [fd EXCEPT ![c] = "closed"] /\ tr[c].life # "none")
      /\ tr[c].life # "none" => tr'[c].life \notin {"none", "Existent"}
      /\ tr[c].life = "deleted" /\ tr[c].unused => tr'[c].life = "deleted"
      /\ tr'[c].life = "deleted" => tr[c].unused
      /\ tr[c].life \in Holding /\ ~ (tr[c].life = "Existent" /\ tr[c].unused) /\ fd'[c] = "open"
           => tr'[c].life \in Holding
      /\ UNCHANGED <<processVars, ppPeerFd, user, cmd>>
  BY <1>1, TransferEffect
<1>3. /\ children' \in Seq(Procs) /\ todo' \in Seq(Procs \cup Turns)
      /\ \A q : IsToVisit(q)' => IsToVisit(q)
      /\ \A q : IsChild(q)' => IsChild(q)
      /\ \A q : IsChild(q) /\ (q # TransferOf(c) \/ tr'[c].life # "deleted") => IsChild(q)'
  BY <1>1, TickedEffect
<1>4. \A d \in Conns \ {c} : fd'[d] = fd[d]
  BY <1>1, <1>2
<1>5. Rounds' /\ ListenersListed' /\ \A d \in Conns \ {c} : ConnInv(d)'
  BY <1>2, <1>4, VisitKeeps
<1>6. ServerTypes'
  BY <1>1, <1>2, <1>3 DEF ServerTypes
<1>7. PeersKept'
  <2>1. mPeerList' \subseteq Conns /\ \A d \in Conns : tr'[d].unused = tr[d].unused
    BY <1>1, <1>2 DEF ServerTypes
  <2> QED
    BY <2>1 DEF DebugInv, PeersKept
<1>8. IsToVisit(TransferOf(c))
  <2>1. todo \in Seq(Procs \cup Turns)
    BY <1>1 DEF ServerTypes
  <2> QED
    BY <2>1 DEF IsToVisit
<1>9. tr[c].life # "none" /\ cmd[c].life = "none" /\ cmd'[c] = cmd[c] /\ tr'[c].life \notin {"none", "Existent"}
  BY <1>1, <1>2, <1>8 DEF ConnInv, ListedFor
<1>10. ServedBy(c)'
  BY <1>1, <1>2, <1>9 DEF ConnInv, ServedBy, NoTransfer
<1>11. ListedFor(c)'
  <2>1. IsThere(tr'[c]) => tr'[c].life # "deleted" /\ IsChild(TransferOf(c))
    BY <1>1, <1>2, <1>9 DEF ConnInv, ListedFor, IsThere
  <2>2. (IsChild(CommandOf(c))' => IsChild(CommandOf(c))) /\ (IsPending(c)' => IsPending(c))
    BY <1>3 DEF IsPending
  <2> QED
    BY <1>1, <1>2, <1>3, <1>9, <2>1, <2>2 DEF ConnInv, ListedFor, IsThere
<1>12. CommandAhead(c)' /\ TransferAhead(c)'
  BY <1>9 DEF CommandAhead, TransferAhead
<1>13. ClosedBy(c)'
  <2> SUFFICES ASSUME fd'[c] = "open", user'[c] # "no" PROVE tr'[c].life \in Holding
    BY DEF ClosedBy, Holding
  <2>1. fd[c] = "open" /\ user[c] # "no"
    BY <1>1, <1>2
  <2>2. tr[c].life \in Holding
    BY <1>1, <1>9, <2>1 DEF ConnInv, ClosedBy, Holding
  <2>3. tr[c].life = "Existent" => ~ tr[c].unused
    BY <1>1 DEF ConnInv, TransferAhead, NoTransfer
  <2> QED
    BY <1>2, <2>2, <2>3
<1>14. ConnInv(c)'
  BY <1>10, <1>11, <1>12, <1>13 DEF ConnInv
<1> QED
  BY <1>5, <1>6, <1>7, <1>14 DEF DebugInv

(* The transfer of a command is ticked, the command itself is next *)
LEMMA CommandsTransferKeeps ==
    ASSUME ListInv, DebugInv, NEW c \in Conns, todo # <<>>, Head(todo) = CommandOf(c), IsThere(tr[c]),
           TransferTick(c), todo' = <<TurnOf(c)>> \o Tail(todo), UNCHANGED <<children, sd, part, mPeerList>>
    PROVE  DebugInv'
<1>1. ServerTypes /\ ConnInv(c) /\ fd \in [Conns -> {"none", "open", "closed", "lost"}]
  BY DEF DebugInv, ListInv, ListeningInv, LstTypeOK
<1>2. /\ tr' \in [Conns -> Transfers] /\ \A d \in Conns \ {c} : tr'[d] = tr[d]
      /\ tr'[c].unused = tr[c].unused
      /\ fd' = fd \/ (fd' = [fd EXCEPT ![c] = "closed"] /\ tr[c].life # "none")
      /\ tr[c].life # "none" => tr'[c].life \notin {"none", "Existent"}
      /\ tr[c].life = "deleted" /\ tr[c].unused => tr'[c].life = "deleted"
      /\ tr'[c].life = "deleted" => tr[c].unused
      /\ tr[c].life \in Holding /\ ~ (tr[c].life = "Existent" /\ tr[c].unused) /\ fd'[c] = "open"
           => tr'[c].life \in Holding
      /\ UNCHANGED <<processVars, ppPeerFd, user, cmd>>
  BY <1>1, TransferEffect
<1>3. /\ todo' \in Seq(Procs \cup Turns) /\ DOMAIN todo' = DOMAIN todo /\ todo'[1] = TurnOf(c)
      /\ \A i \in DOMAIN todo : i # 1 => todo'[i] = todo[i]
      /\ 1 \in DOMAIN todo /\ todo[1] = CommandOf(c)
  <2>1. todo \in Seq(Procs \cup Turns) /\ TurnOf(c) \in Procs \cup Turns
    BY <1>1 DEF ServerTypes, Turns
  <2>2. 1 \in DOMAIN todo /\ todo[1] = CommandOf(c)
    BY <2>1
  <2>3. PICK q \in Procs \cup Turns : q = TurnOf(c)
    BY <2>1
  <2>4. todo' = <<q>> \o Tail(todo)
    BY <2>3
  <2> QED
    BY <2>1, <2>2, <2>3, <2>4, HeadedMembers
<1>4. /\ \A q : q # TurnOf(c) /\ IsToVisit(q)' => IsToVisit(q)
      /\ \A q : q # CommandOf(c) /\ IsToVisit(q) => IsToVisit(q)'
      /\ IsToVisit(CommandOf(c)) /\ IsToVisit(TurnOf(c))'
  BY <1>3 DEF IsToVisit
<1>5. \A q : IsChild(q)' <=> IsChild(q)
  BY DEF IsChild
<1>6. ServerTypes'
  BY <1>1, <1>2, <1>3 DEF ServerTypes
<1>7. cmd[c].life # "none" /\ tr'[c].life \notin {"none", "Existent"} /\ cmd'[c] = cmd[c] /\ IsPending(c)'
  BY <1>1, <1>2, <1>4 DEF ConnInv, ListedFor, IsPending, IsThere
<1>8. Rounds'
  <2>1. part = "children" /\ sd.mState # "StStart"
    BY DEF DebugInv, Rounds
  <2>2. ASSUME NEW i \in DOMAIN todo', NEW d \in Conns, todo'[i] = TurnOf(d)
        PROVE  i = 1 /\ tr'[d].life \notin {"none", "Existent"}
    <3>1. CASE i = 1
      <4>1. d = c
        BY <1>3, <2>2, <3>1, ProcsDiffer
      <4> QED
        BY <1>7, <3>1, <4>1
    <3>2. CASE i # 1
      BY <1>3, <2>2, <3>2 DEF DebugInv, Rounds
    <3> QED
      BY <3>1, <3>2
  <2> QED
    BY <2>1, <2>2 DEF DebugInv, Rounds
<1>9. ListenersListed'
  BY <1>2, <1>5 DEF DebugInv, ListenersListed, processVars
<1>10. PeersKept'
  <2>1. mPeerList' \subseteq Conns /\ \A d \in Conns : tr'[d].unused = tr[d].unused
    BY <1>1, <1>2 DEF ServerTypes
  <2> QED
    BY <2>1 DEF DebugInv, PeersKept
<1>11. ASSUME NEW d \in Conns \ {c} PROVE ConnInv(d)'
  <2>1. ConnInv(d) /\ tr'[d] = tr[d] /\ cmd'[d] = cmd[d] /\ user'[d] = user[d] /\ fd'[d] = fd[d]
    BY <1>1, <1>2 DEF DebugInv
  <2>2. \A q \in {TransferOf(d), CommandOf(d), TurnOf(d)} : q # TurnOf(c) /\ q # CommandOf(c)
    BY ProcsDiffer
  <2> QED
    BY <1>4, <1>5, <2>1, <2>2, Elsewhere
<1>12. ServedBy(c)'
  BY <1>1, <1>2, <1>7 DEF ConnInv, ServedBy, IsThere, NoTransfer, NoCommand
<1>13. ListedFor(c)'
  <2>1. IsToVisit(TransferOf(c))' => IsToVisit(TransferOf(c))
    BY <1>4, ProcsDiffer
  <2> QED
    BY <1>1, <1>2, <1>5, <1>7, <2>1 DEF ConnInv, ListedFor, IsThere
<1>14. CommandAhead(c)' /\ TransferAhead(c)'
  <2>1. IsPending(c)' /\ IsPending(c) /\ ServerAge' = ServerAge /\ CommandAge(c)' = CommandAge(c)
    BY <1>4, <1>7 DEF IsPending, ServerAge, CommandAge
  <2> QED
    BY <1>1, <1>7, <2>1 DEF ConnInv, CommandAhead, TransferAhead
<1>15. ClosedBy(c)'
  <2> SUFFICES ASSUME fd'[c] = "open", user'[c] # "no"
               PROVE  tr'[c].life \in Holding \/ (cmd'[c].life # "none" /\ cmd'[c].state = "StStart")
    BY DEF ClosedBy, Holding
  <2>1. fd[c] = "open" /\ user[c] # "no"
    BY <1>1, <1>2
  <2>2. tr[c].life \in Holding \/ (cmd[c].life # "none" /\ cmd[c].state = "StStart")
    BY <1>1, <2>1 DEF ConnInv, ClosedBy, Holding
  <2>3. tr[c].life = "Existent" => ~ tr[c].unused
    BY <1>1 DEF ConnInv, TransferAhead, NoTransfer
  <2> QED
    BY <1>2, <1>7, <2>2, <2>3
<1>16. ConnInv(c)'
  BY <1>12, <1>13, <1>14, <1>15 DEF ConnInv
<1> QED
  BY <1>6, <1>8, <1>9, <1>10, <1>11, <1>16 DEF DebugInv

(* A command's own turn *)
LEMMA CommandVisitKeeps ==
    ASSUME ListInv, DebugInv, NEW c \in Conns, todo # <<>>, CommandTick(c),
           (Head(todo) = CommandOf(c) /\ ~ IsThere(tr[c])) \/ Head(todo) = TurnOf(c),
           UNCHANGED <<sd, part, mPeerList>>
    PROVE  DebugInv'
<1>1. ServerTypes /\ ConnInv(c) /\ fd \in [Conns -> {"none", "open", "closed", "lost"}]
  BY DEF DebugInv, ListInv, ListeningInv, LstTypeOK
<1>2. todo \in Seq(Procs \cup Turns) /\ 1 \in DOMAIN todo /\ todo[1] = Head(todo)
  <2>1. todo \in Seq(Procs \cup Turns)
    BY <1>1 DEF ServerTypes
  <2> QED
    BY <2>1
<1>3. IsPending(c)
  BY <1>2 DEF IsPending, IsToVisit
<1>4. cmd[c].life # "none" /\ tr[c].life # "Existent"
  <2>1. cmd[c].life # "none"
    BY <1>1, <1>3 DEF ConnInv, ListedFor
  <2>2. tr[c].life # "Existent"
    <3>1. CASE Head(todo) = TurnOf(c)
      BY <1>2, <3>1 DEF DebugInv, Rounds
    <3>2. CASE ~ IsThere(tr[c])
      BY <3>2 DEF IsThere
    <3> QED
      BY <3>1, <3>2
  <2> QED
    BY <2>1, <2>2
<1>5. user[c] \in {"cmd", "cmdAuto"} /\ (cmd[c].state = "StStart" <=> tr[c].life = "none")
  <2>1. user[c] \in {"proc", "log", "cmd", "cmdAuto", "no"}
    BY DebuggingAssumption DEF ListInv, ListeningInv, LstTypeOK
  <2> QED
    BY <1>1, <1>4, <2>1 DEF ConnInv, ServedBy, NoCommand, PeerListeners
<1>6. /\ tr' \in [Conns -> Transfers] /\ \A d \in Conns \ {c} : tr'[d] = tr[d]
      /\ cmd' \in [Conns -> Commands] /\ \A d \in Conns \ {c} : cmd'[d] = cmd[d]
      /\ fd' = fd \/ fd' = [fd EXCEPT ![c] = "closed"]
      /\ cmd'[c].life # "none"
      /\ UNCHANGED <<processVars, ppPeerFd, user>>
      /\ Ticked(CommandOf(c), cmd'[c].life)
  BY <1>1, <1>4, <1>5, CommandEffect DEF ConnInv
<1>7. \/ /\ cmd[c].life = "Processing" /\ cmd[c].state = "StStart" /\ fd' = fd
         /\ tr'[c] = [NoTransfer EXCEPT !.life = "Existent"]
         /\ cmd'[c].life = "Processing" /\ cmd'[c].state = "StSendReadyWait"
      \/ /\ cmd'[c].state = cmd[c].state /\ tr'[c].life = tr[c].life
         /\ tr[c].unused => tr'[c].unused
         /\ tr[c].life = "none" => tr' = tr
         /\ cmd'[c].life = "deleted" => cmd'[c].unused /\ ~ IsThere(tr[c])
         /\ cmd[c].life = "deleted" /\ ~ IsThere(tr[c]) => cmd'[c].life = "deleted"
         /\ cmd[c].state = "StStart" =>
              /\ ~ cmd'[c].unused
              /\ \/ cmd[c].life = "Existent" /\ cmd'[c].life = "Initializing"
                 \/ cmd[c].life = "Initializing" /\ cmd'[c].life = "Processing"
         /\ cmd[c].state # "StStart" => cmd'[c].life \notin {"Existent", "Initializing"}
  BY <1>1, <1>4, <1>5, CommandEffect DEF ConnInv
<1>8. /\ children' \in Seq(Procs) /\ todo' \in Seq(Procs \cup Turns)
      /\ \A q : IsToVisit(q)' => IsToVisit(q)
      /\ \A q : IsChild(q)' => IsChild(q)
      /\ \A q : IsChild(q) /\ (q # CommandOf(c) \/ cmd'[c].life # "deleted") => IsChild(q)'
  BY <1>1, <1>6, TickedEffect
<1>9. \A d \in Conns \ {c} : fd'[d] = fd[d]
  BY <1>1, <1>6
<1>10. Rounds' /\ ListenersListed' /\ \A d \in Conns \ {c} : ConnInv(d)'
  BY <1>6, <1>9, VisitKeeps
<1>11. ServerTypes'
  BY <1>1, <1>6, <1>8 DEF ServerTypes
<1>12. PeersKept'
  <2>1. \A d \in mPeerList : d \in Conns \ {c}
    <3>1. \A d \in mPeerList : d \in Conns /\ user[d] \in PeerListeners
      BY DEF DebugInv, ServerTypes, ConnInv, ServedBy
    <3> QED
      BY <1>5, <3>1 DEF PeerListeners
  <2> QED
    BY <1>6, <2>1 DEF DebugInv, PeersKept
<1>13. tr'[c].life # "none" => cmd'[c].state # "StStart"
  BY <1>5, <1>7
<1>14. ServedBy(c)'
  <2>1. cmd'[c].state = "StStart" <=> tr'[c].life = "none"
    BY <1>5, <1>7 DEF NoTransfer
  <2>2. tr'[c].life = "none" => tr'[c] = NoTransfer
    BY <1>1, <1>5, <1>7 DEF ConnInv, ServedBy, NoTransfer
  <2> QED
    BY <1>1, <1>5, <1>6, <2>1, <2>2 DEF ConnInv, ServedBy, PeerListeners
<1>15. ListedFor(c)'
  <2>1. IsThere(cmd'[c]) => IsChild(CommandOf(c))'
    <3> SUFFICES ASSUME IsThere(cmd'[c]) PROVE IsChild(CommandOf(c))'
      OBVIOUS
    <3>1. IsThere(cmd[c])
      <4> SUFFICES ASSUME cmd[c].life = "deleted" PROVE FALSE
        BY <1>4 DEF IsThere
      <4>1. ~ IsThere(tr[c])
        BY <1>1, <1>4 DEF ConnInv, ListedFor, IsThere
      <4> QED
        BY <1>7, <4>1 DEF IsThere
    <3>2. IsChild(CommandOf(c))
      BY <1>1, <3>1 DEF ConnInv, ListedFor
    <3> QED
      BY <1>8, <3>2 DEF IsThere
  <2>2. IsThere(tr'[c]) => IsThere(cmd'[c])
    BY <1>6, <1>7 DEF IsThere
  <2>3. ~ IsChild(TransferOf(c))' /\ ~ IsToVisit(TransferOf(c))'
    BY <1>1, <1>4, <1>8 DEF ConnInv, ListedFor
  <2>4. (tr'[c].life = "deleted" => tr'[c].unused) /\ (cmd'[c].life = "deleted" => cmd'[c].unused)
    BY <1>1, <1>7 DEF ConnInv, ListedFor, NoTransfer
  <2> QED
    BY <1>6, <2>1, <2>2, <2>3, <2>4 DEF ListedFor
<1>16. CommandAhead(c)'
  <2>1. CommandAge(c) \in 0 .. 3 /\ CommandAge(c)' \in 0 .. 3 /\ ServerAge \in 0 .. 3 /\ ServerAge' = ServerAge
    BY DEF CommandAge, ServerAge
  <2>2. part = "children"
    BY DEF DebugInv, Rounds
  <2>3. CommandAge(c) >= ServerAge
    BY <1>1, <1>4, <2>2 DEF ConnInv, CommandAhead
  <2>4. CASE cmd[c].state = "StStart"
    <3>1. CASE cmd[c].life = "Processing" /\ cmd'[c].life = "Processing" /\ cmd'[c].state = "StSendReadyWait"
      <4>1. CommandAge(c)' = 3
        BY <3>1 DEF CommandAge
      <4> QED
        BY <2>1, <3>1, <4>1 DEF CommandAhead
    <3>2. CASE /\ cmd'[c].state = cmd[c].state /\ ~ cmd'[c].unused
               /\ \/ cmd[c].life = "Existent" /\ cmd'[c].life = "Initializing"
                  \/ cmd[c].life = "Initializing" /\ cmd'[c].life = "Processing"
      <4>1. CommandAge(c)' = CommandAge(c) + 1
        BY <2>4, <3>2 DEF CommandAge
      <4>2. CommandAge(c)' > ServerAge'
        BY <2>1, <2>3, <4>1
      <4> QED
        BY <2>1, <2>4, <3>2, <4>2 DEF CommandAhead
    <3> QED
      BY <1>7, <2>4, <3>1, <3>2
  <2>5. CASE cmd[c].state # "StStart"
    <3>1. cmd'[c].state # "StStart" /\ cmd'[c].life \notin {"Existent", "Initializing"}
      BY <1>7, <2>5
    <3>2. CommandAge(c)' = 3
      BY <3>1 DEF CommandAge
    <3> QED
      BY <2>1, <3>1, <3>2 DEF CommandAhead
  <2> QED
    BY <2>4, <2>5
<1>17. TransferAhead(c)'
  BY <1>4, <1>6, <1>7 DEF TransferAhead
<1>18. ClosedBy(c)'
  <2> SUFFICES ASSUME fd'[c] = "open", user'[c] # "no"
               PROVE  \/ tr'[c].life \in {"Existent", "Initializing", "Processing", "DownShutting"}
                      \/ cmd'[c].life # "none" /\ cmd'[c].state = "StStart"
    BY DEF ClosedBy
  <2>1. fd[c] = "open" /\ user[c] # "no"
    BY <1>1, <1>6
  <2>2. \/ tr[c].life \in {"Existent", "Initializing", "Processing", "DownShutting"}
        \/ cmd[c].state = "StStart"
    BY <1>1, <2>1 DEF ConnInv, ClosedBy
  <2> QED
    BY <1>6, <1>7, <2>2 DEF NoTransfer
<1>19. ConnInv(c)'
  BY <1>14, <1>15, <1>16, <1>17, <1>18 DEF ConnInv
<1> QED
  BY <1>10, <1>11, <1>12, <1>19 DEF DebugInv

-----------------------------------------------------------------------------
(* The server's own ticks. A round ends with a step of the server, which   *)
(* may mark those of its children that are far enough, and begins anew.    *)
MarkedOnly(new, old, p) == new = old \/ (new = [old EXCEPT !.unused = TRUE] /\ IsChild(p) /\ part = "children" /\ ServerAge = 2)

\* The server has had its turn and treeTick() begins the next round.
LEMMA NewRoundKeeps ==
    ASSUME DebugInv, RoundBegins, todo = <<>>, UNCHANGED <<children, mPeerList, user, fd, lstLife>>,
           sd' \in [life : Lives \ {"none", "deleted"}, unused : BOOLEAN, mState : {sd.mState}],
           sd'.life \in {"Existent", "Initializing"} => sd.mState = "StStart",
           sd.mState = "StMain" => ServerAge' \in {ServerAge, ServerAge + 1} /\ (part # "children" => ServerAge' = 0),
           tr' \in [Conns -> Transfers], cmd' \in [Conns -> Commands],
           \A c \in Conns : MarkedOnly(tr'[c], tr[c], TransferOf(c)) /\ MarkedOnly(cmd'[c], cmd[c], CommandOf(c)),
           PeersKept'
    PROVE  DebugInv'
<1>0. part' = "children" /\ todo' = children /\ children' = children /\ sd'.mState = sd.mState
  BY DEF RoundBegins
<1>1. ServerTypes'
  <2>1. children \in Seq(Procs) /\ todo' \in Seq(Procs \cup Turns)
    <3>1. children \in Seq(Procs)
      BY DEF DebugInv, ServerTypes
    <3>2. Procs \subseteq Procs \cup Turns
      OBVIOUS
    <3> QED
      BY <1>0, <3>1, <3>2
  <2>2. sd.mState \in {"StStart", "StMain"} /\ mPeerList \in SUBSET Conns
    BY DEF DebugInv, ServerTypes
  <2> QED
    BY <1>0, <2>1, <2>2 DEF ServerTypes
<1>2. (\A q : IsChild(q)' <=> IsChild(q)) /\ \A q : IsToVisit(q)' <=> IsChild(q)
  BY <1>0 DEF IsChild, IsToVisit
<1>3. \A q : ~ IsToVisit(q)
  BY DEF IsToVisit
<1>4. Rounds'
  <2>1. ASSUME NEW i \in DOMAIN todo', NEW d \in Conns, todo'[i] = TurnOf(d) PROVE FALSE
    <3>1. todo'[i] \in Procs
      BY <1>0 DEF DebugInv, ServerTypes
    <3> QED
      BY <2>1, <3>1, ProcsDiffer DEF Procs
  <2> QED
    BY <1>0, <2>1 DEF DebugInv, Rounds
<1>5. ListenersListed'
  BY <1>2 DEF DebugInv, ListenersListed
<1>6. ASSUME NEW c \in Conns PROVE ConnInv(c)'
  <2>0. ConnInv(c)
    BY DEF DebugInv
  <2>1. /\ tr[c] \in Transfers /\ cmd[c] \in Commands
        /\ MarkedOnly(tr'[c], tr[c], TransferOf(c)) /\ MarkedOnly(cmd'[c], cmd[c], CommandOf(c))
    BY DEF DebugInv, ServerTypes
  <2>2. /\ tr'[c].life = tr[c].life /\ tr'[c].state = tr[c].state /\ (tr[c].unused => tr'[c].unused)
        /\ cmd'[c].life = cmd[c].life /\ cmd'[c].state = cmd[c].state /\ (cmd[c].unused => cmd'[c].unused)
    BY <2>1 DEF MarkedOnly, Transfers, Commands
  <2>3. tr[c].life = "none" => tr'[c] = tr[c]
    BY <2>0, <2>1 DEF MarkedOnly, ConnInv, ListedFor
  <2>4. cmd[c].life = "none" => cmd'[c] = cmd[c]
    BY <2>0, <2>1 DEF MarkedOnly, ConnInv, ListedFor
  <2>5. ServedBy(c)' /\ ClosedBy(c)'
    BY <2>0, <2>2, <2>3, <2>4 DEF ConnInv, ServedBy, ClosedBy, NoTransfer, NoCommand
  <2>6. ListedFor(c)'
    <3>1. IsPending(c)' => IsChild(CommandOf(c))
      <4>1. ~ IsChild(TurnOf(c))
        BY ProcsDiffer DEF DebugInv, ServerTypes, IsChild, Procs
      <4> QED
        BY <1>2, <4>1 DEF IsPending
    <3>2. IsThere(tr'[c]) <=> IsThere(tr[c])
      BY <2>2 DEF IsThere
    <3>3. IsThere(cmd'[c]) <=> IsThere(cmd[c])
      BY <2>2 DEF IsThere
    <3> QED
      BY <1>2, <2>0, <2>2, <3>1, <3>2, <3>3 DEF ConnInv, ListedFor
  <2>7. CASE sd.mState = "StStart"
    <3>1. tr[c].life = "none" /\ cmd[c].life = "none"
      BY <2>0, <2>7 DEF DebugInv, Rounds, ConnInv, ServedBy, NoTransfer, NoCommand
    <3> QED
      BY <2>2, <2>5, <2>6, <3>1 DEF ConnInv, CommandAhead, TransferAhead
  <2>8. CASE sd.mState = "StMain"
    <3>1. TransferAhead(c)'
      <4> SUFFICES ASSUME tr[c].life = "Existent"
                   PROVE  /\ tr'[c] = [NoTransfer EXCEPT !.life = "Existent"]
                          /\ cmd[c].life = "none" => ServerAge' = 0 /\ IsToVisit(TransferOf(c))'
        BY <2>2 DEF TransferAhead
      <4>1. cmd[c].life = "none" => part # "children"
        BY <1>3, <2>0 DEF ConnInv, TransferAhead
      <4>2. tr'[c] = tr[c]
        BY <2>0, <2>1, <4>1 DEF MarkedOnly, ConnInv, ListedFor
      <4>3. cmd[c].life = "none" => IsToVisit(TransferOf(c))'
        BY <1>2, <2>0 DEF ConnInv, ListedFor, IsThere
      <4> QED
        BY <2>0, <2>8, <4>1, <4>2, <4>3 DEF ConnInv, TransferAhead
    <3>2. CommandAhead(c)'
      <4> SUFFICES ASSUME cmd[c].life # "none" PROVE CommandAhead(c)'
        BY <2>2 DEF CommandAhead
      <4>1. CommandAge(c)' = CommandAge(c) /\ CommandAge(c) \in 0 .. 3 /\ ServerAge \in 0 .. 3 /\ ServerAge' \in 0 .. 3
        BY <2>2 DEF CommandAge, ServerAge
      <4>2. part = "children" => CommandAge(c) > ServerAge \/ CommandAge(c) = 3
        BY <1>3, <2>0 DEF ConnInv, CommandAhead, IsPending
      <4>3. CommandAge(c)' < 3 => ~ cmd'[c].unused
        BY <2>0, <2>1, <4>1, <4>2 DEF MarkedOnly, ConnInv, CommandAhead
      <4>4. CommandAge(c)' >= ServerAge'
        <5>1. ServerAge' = ServerAge \/ ServerAge' = ServerAge + 1
          BY <2>8
        <5>2. CASE part = "children"
          BY <4>1, <4>2, <5>1, <5>2
        <5>3. CASE part # "children"
          BY <2>8, <4>1, <5>3
        <5> QED
          BY <5>2, <5>3
      <4>5. ~ IsPending(c)' => CommandAge(c)' = 3
        <5>1. cmd[c].life # "deleted" => IsPending(c)'
          BY <1>2, <2>0 DEF ConnInv, ListedFor, IsPending, IsThere
        <5>2. cmd[c].life = "deleted" => CommandAge(c) = 3
          BY <2>0 DEF ConnInv, CommandAhead, CommandAge
        <5> QED
          BY <4>1, <5>1, <5>2
      <4> QED
        BY <2>0, <2>2, <4>3, <4>4, <4>5 DEF ConnInv, CommandAhead
    <3> QED
      BY <2>5, <2>6, <3>1, <3>2 DEF ConnInv
  <2> QED
    BY <2>7, <2>8 DEF DebugInv, ServerTypes
<1> QED
  BY <1>1, <1>4, <1>5, <1>6 DEF DebugInv

\* The listeners are started.
LEMMA StartKeepsServer ==
    ASSUME DebugInv, ListInv, CallsProcess(sd.life, sd.unused), ListenersStart PROVE DebugInv'
<1>0. /\ sd.mState = "StStart" /\ sd.life = "Processing" /\ UNCHANGED <<tr, cmd, mPeerList, user, fd>>
      /\ sd' = [sd EXCEPT !.mState = "StMain"] /\ part' = "children" /\ todo' = children'
      /\ children' = [i \in DOMAIN ListenerOrder |-> ListenerOf(ListenerOrder[i])]
  BY DEF ListenersStart, CallsProcess, LstStart, RoundBegins
<1>1. /\ children' \in Seq(Procs) /\ todo' \in Seq(Procs \cup Turns)
      /\ \A i \in DOMAIN children' : \E k \in Listeners : children'[i] = ListenerOf(k)
      /\ \A k \in Listeners : \E i \in DOMAIN children' : children'[i] = ListenerOf(k)
  <2>1. /\ DOMAIN ListenerOrder = 1 .. 4 /\ DOMAIN children' = 1 .. 4
        /\ children'[1] = ListenerOf("proc") /\ children'[2] = ListenerOf("log")
        /\ children'[3] = ListenerOf("cmd") /\ children'[4] = ListenerOf("cmdAuto")
    BY <1>0 DEF ListenerOrder
  <2>2. Listeners = {"proc", "log", "cmd", "cmdAuto"} /\ \A k \in Listeners : ListenerOf(k) \in Procs
    BY DebuggingAssumption DEF Procs
  <2>3. \A i \in 1 .. 4 : i = 1 \/ i = 2 \/ i = 3 \/ i = 4
    OBVIOUS
  <2>4. \A i \in DOMAIN children' : \E k \in Listeners : children'[i] = ListenerOf(k)
    BY <2>1, <2>2, <2>3
  <2>5. \A k \in Listeners : \E i \in DOMAIN children' : children'[i] = ListenerOf(k)
    BY <2>1, <2>2
  <2>6. \A i \in 1 .. 4 : children'[i] \in Procs
    BY <2>1, <2>2, <2>4
  <2>7. children' = [i \in 1 .. 4 |-> children'[i]]
    BY <1>0, <2>1
  <2>8. PICK f : f = children'
    OBVIOUS
  <2>9. f \in [1 .. 4 -> Procs]
    BY <2>6, <2>7, <2>8
  <2>10. f \in UNION {[1 .. n -> Procs] : n \in Nat} /\ f \in UNION {[1 .. n -> Procs \cup Turns] : n \in Nat}
    BY <2>9
  <2>11. f \in Seq(Procs) /\ f \in Seq(Procs \cup Turns)
    BY <2>10, SeqDef
  <2> QED
    BY <1>0, <2>4, <2>5, <2>8, <2>11
<1>2. sd'.life = "Processing" /\ sd'.mState = "StMain" /\ sd' \in [life : Lives \ {"none", "deleted"}, unused : BOOLEAN, mState : {"StStart", "StMain"}]
  BY <1>0 DEF DebugInv, ServerTypes
<1>3. ServerTypes'
  BY <1>0, <1>1, <1>2 DEF DebugInv, ServerTypes
<1>4. Rounds'
  <2>1. ASSUME NEW i \in DOMAIN todo', NEW d \in Conns, todo'[i] = TurnOf(d) PROVE FALSE
    BY <1>0, <1>1, <2>1, ProcsDiffer
  <2> QED
    BY <1>0, <1>2, <2>1 DEF Rounds
<1>5. ListenersListed'
  BY <1>1 DEF ListenersListed, IsChild
<1>6. mPeerList = {} /\ \A c \in Conns : user[c] = "no"
  BY <1>0 DEF DebugInv, Rounds
<1>7. PeersKept'
  BY <1>0, <1>6 DEF PeersKept
<1>8. ASSUME NEW c \in Conns PROVE ConnInv(c)'
  <2>1. /\ tr[c] = NoTransfer /\ cmd[c] = NoCommand /\ user[c] = "no"
        /\ tr'[c] = tr[c] /\ cmd'[c] = cmd[c] /\ user'[c] = user[c]
    BY <1>0, <1>6 DEF DebugInv, ConnInv, ServedBy
  <2>2. tr'[c].life = "none" /\ cmd'[c].life = "none"
    BY <2>1 DEF NoTransfer, NoCommand
  <2>3. /\ ~ IsChild(TransferOf(c))' /\ ~ IsChild(CommandOf(c))' /\ ~ IsToVisit(TransferOf(c))'
        /\ ~ IsToVisit(CommandOf(c))' /\ ~ IsToVisit(TurnOf(c))'
    BY <1>0, <1>1, ProcsDiffer, ZenonT(40) DEF IsChild, IsToVisit
  <2>4. ServedBy(c)'
    BY <1>0, <1>6, <2>1 DEF ServedBy, PeerListeners
  <2>5. ListedFor(c)'
    BY <2>2, <2>3 DEF ListedFor, IsThere, IsPending
  <2>6. CommandAhead(c)' /\ TransferAhead(c)' /\ ClosedBy(c)'
    BY <2>1, <2>2 DEF CommandAhead, TransferAhead, ClosedBy
  <2> QED
    BY <2>4, <2>5, <2>6 DEF ConnInv
<1> QED
  BY <1>3, <1>4, <1>5, <1>7, <1>8 DEF DebugInv

\* The peers are checked, and those that have ended are marked.
LEMMA CheckKeeps ==
    ASSUME DebugInv, ListInv, CallsProcess(sd.life, sd.unused), PeerCheck, IsServersTurn PROVE DebugInv'
<1>0. /\ sd.life = "Processing" /\ sd.mState = "StMain" /\ UNCHANGED <<processVars, user, sd, children, todo, cmd>>
      /\ part = "children" /\ part' = "peerAdd" /\ todo = <<>>
  BY DEF CallsProcess, PeerCheck, IsServersTurn
<1>1. /\ tr' = [c \in Conns |-> IF c \in mPeerList /\ IsRemoved(c) THEN [tr[c] EXCEPT !.unused = TRUE] ELSE tr[c]]
      /\ mPeerList' = {c \in mPeerList : ~ IsRemoved(c)}
      /\ \A c \in Conns : fd'[c] = "open" => fd[c] = "open"
  BY DEF PeerCheck
<1>2. tr \in [Conns -> Transfers] /\ mPeerList \subseteq Conns
  BY DEF DebugInv, ServerTypes
<1>3. ASSUME NEW c \in Conns
      PROVE  /\ tr'[c] = tr[c] \/ (tr'[c] = [tr[c] EXCEPT !.unused = TRUE] /\ c \in mPeerList /\ IsRemoved(c))
             /\ tr'[c] \in Transfers
             /\ tr'[c].life = tr[c].life /\ (tr[c].unused => tr'[c].unused)
  <2>1. tr'[c] = tr[c] \/ (tr'[c] = [tr[c] EXCEPT !.unused = TRUE] /\ c \in mPeerList /\ IsRemoved(c))
    BY <1>1
  <2>2. PICK t \in Transfers : t = tr[c]
    BY <1>2
  <2>3. [t EXCEPT !.unused = TRUE] \in Transfers /\ [t EXCEPT !.unused = TRUE].life = t.life /\ [t EXCEPT !.unused = TRUE].unused
    BY DEF Transfers
  <2> QED
    BY <2>1, <2>2, <2>3
<1>4. ServerTypes'
  <2>1. tr' \in [Conns -> Transfers]
    BY <1>1, <1>3
  <2> QED
    BY <1>0, <1>1, <2>1 DEF DebugInv, ServerTypes
<1>5. (\A q : IsChild(q)' <=> IsChild(q)) /\ \A q : ~ IsToVisit(q)' /\ ~ IsToVisit(q)
  BY <1>0 DEF IsChild, IsToVisit
<1>6. Rounds' /\ ListenersListed'
  BY <1>0, <1>5 DEF DebugInv, Rounds, ListenersListed, processVars
<1>7. PeersKept'
  <2>1. \A c \in mPeerList' : c \in mPeerList /\ c \in Conns /\ tr'[c] = tr[c]
    BY <1>1, <1>2
  <2> QED
    BY <1>0, <2>1 DEF DebugInv, PeersKept
<1>8. ASSUME NEW c \in Conns PROVE ConnInv(c)'
  <2>0. ConnInv(c) /\ cmd'[c] = cmd[c] /\ user'[c] = user[c]
    BY <1>0 DEF DebugInv
  <2>1. user[c] \notin PeerListeners => tr'[c] = tr[c]
    BY <1>3, <2>0 DEF ConnInv, ServedBy
  <2>2. ServedBy(c)'
    BY <1>1, <1>3, <2>0, <2>1 DEF ConnInv, ServedBy, PeerListeners
  <2>3. ListedFor(c)'
    <3>1. ~ IsPending(c)' /\ (IsThere(tr'[c]) <=> IsThere(tr[c]))
      BY <1>3, <1>5 DEF IsPending, IsThere
    <3> QED
      BY <1>3, <1>5, <2>0, <3>1 DEF ConnInv, ListedFor
  <2>4. CommandAhead(c)'
    BY <1>0, <2>0 DEF ConnInv, CommandAhead, CommandAge
  <2>5. TransferAhead(c)'
    <3> SUFFICES ASSUME tr'[c].life = "Existent" PROVE TransferAhead(c)'
      BY DEF TransferAhead
    <3>1. tr[c] = [NoTransfer EXCEPT !.life = "Existent"]
      BY <1>3, <2>0 DEF ConnInv, TransferAhead
    <3>2. ~ IsRemoved(c)
      BY <3>1 DEF IsRemoved, DisconnectRequested, NoTransfer
    <3>3. tr'[c] = tr[c] /\ ServerAge' = 0 /\ part' # "children"
      BY <1>0, <1>3, <3>2 DEF ServerAge
    <3> QED
      BY <3>1, <3>3 DEF TransferAhead
  <2>6. ClosedBy(c)'
    BY <1>1, <1>3, <2>0 DEF ConnInv, ClosedBy
  <2> QED
    BY <2>2, <2>3, <2>4, <2>5, <2>6 DEF ConnInv
<1> QED
  BY <1>4, <1>6, <1>7, <1>8 DEF DebugInv

\* The step of the server after its children.
LEMMA ServerTickKeeps == ASSUME DebugInv, ListInv, ServerTick PROVE DebugInv'
<1>1. CASE CallsProcess(sd.life, sd.unused) /\ (ListenersStart \/ PeerCheck)
  BY <1>1, StartKeepsServer, CheckKeeps DEF ServerTick
<1>2. CASE ~ CallsProcess(sd.life, sd.unused)
  <2>0. /\ UNCHANGED <<children, mPeerList>> /\ RoundBegins /\ part = "children" /\ todo = <<>>
        /\ IF CallsShutdown(sd.life) THEN SdEnters("ChildrenUnusedSet") /\ UNCHANGED <<lstVars, tr, cmd>> ELSE ServerPass
    BY <1>2 DEF ServerTick, IsServersTurn
  <2>1. UNCHANGED <<user, fd, lstLife>>
    BY <2>0 DEF ServerPass, ChildrenUnusedSet, LstUnusedSet, lstVars, processVars
  <2>2. PICK p \in [life : Lives \ {"none", "deleted"}, unused : BOOLEAN, mState : {"StStart", "StMain"}] : p = sd
    BY DEF DebugInv, ServerTypes
  <2>3. p.life \in Lives \ {"none", "deleted"} /\ p.unused \in BOOLEAN
    OBVIOUS
  <2>4. PICK life : /\ sd' = [p EXCEPT !.life = life]
                    /\ life = IF CallsShutdown(p.life) THEN "ChildrenUnusedSet" ELSE Passed(p.life, p.unused)
    BY <2>0, <2>2 DEF SdEnters, ServerPass
  <2>5. /\ life \in Lives \ {"none", "deleted"}
        /\ life \in {"Existent", "Initializing"} => p.life = "Existent"
        /\ p.life = "Existent" => life \in {"Initializing", "FinishedPrepare"}
        /\ p.life = "Initializing" => life \in {"Processing", "DownShutting"}
        /\ p.life = "Processing" => life = "DownShutting"
        /\ p.life = "DownShutting" => life = "ChildrenUnusedSet"
        /\ p.life = "ChildrenUnusedSet" => life = "FinishedPrepare"
        /\ p.life \in {"FinishedPrepare", "Finished"} => life = "Finished"
    BY <1>2, <2>2, <2>3, <2>4 DEF Passed, CallsProcess, CallsShutdown, Lives
  <2>6. /\ sd'.life = life /\ sd'.mState = sd.mState
        /\ sd' \in [life : Lives \ {"none", "deleted"}, unused : BOOLEAN, mState : {sd.mState}]
    BY <2>2, <2>4, <2>5
  <2>7. sd'.life \in {"Existent", "Initializing"} => sd.mState = "StStart"
    BY <2>2, <2>5, <2>6 DEF DebugInv, Rounds
  <2>8. sd.mState = "StMain" => ServerAge' \in {ServerAge, ServerAge + 1}
    <3> SUFFICES ASSUME sd.mState = "StMain" PROVE ServerAge' \in {ServerAge, ServerAge + 1}
      OBVIOUS
    <3>1. sd.life \in {"Processing", "DownShutting", "ChildrenUnusedSet", "FinishedPrepare", "Finished"}
      BY <2>2, <2>3 DEF DebugInv, Rounds, Lives
    <3> QED
      BY <2>2, <2>5, <2>6, <3>1 DEF ServerAge
  <2>9. \/ UNCHANGED <<tr, cmd>>
        \/ sd.life = "ChildrenUnusedSet" /\ ChildrenUnusedSet
    BY <2>0 DEF ServerPass
  <2>10. CASE UNCHANGED <<tr, cmd>>
    <3>1. tr' \in [Conns -> Transfers] /\ cmd' \in [Conns -> Commands]
      BY <2>10 DEF DebugInv, ServerTypes
    <3>2. PeersKept'
      <4>1. CASE p.life = "Initializing"
        <5>1. mPeerList = {}
          BY <2>2, <4>1 DEF DebugInv, Rounds
        <5> QED
          BY <2>0, <5>1 DEF PeersKept
      <4>2. CASE p.life # "Initializing"
        <5>1. life \in {"Processing", "DownShutting", "ChildrenUnusedSet"} =>
                sd.life \in {"Processing", "DownShutting", "ChildrenUnusedSet"}
          BY <2>2, <2>3, <2>5, <4>2 DEF Lives
        <5> QED
          BY <2>0, <2>6, <2>10, <5>1 DEF DebugInv, PeersKept
      <4> QED
        BY <4>1, <4>2
    <3> QED
      BY <2>0, <2>1, <2>6, <2>7, <2>8, <2>10, <3>1, <3>2, NewRoundKeeps DEF MarkedOnly
  <2>11. CASE sd.life = "ChildrenUnusedSet" /\ ChildrenUnusedSet
    <3>1. ServerAge = 2 /\ sd'.life = "FinishedPrepare"
      BY <2>2, <2>5, <2>6, <2>11 DEF ServerAge
    <3>2. /\ tr' = [c \in Conns |-> IF IsChild(TransferOf(c)) THEN [tr[c] EXCEPT !.unused = TRUE] ELSE tr[c]]
          /\ cmd' = [c \in Conns |-> IF IsChild(CommandOf(c)) THEN [cmd[c] EXCEPT !.unused = TRUE] ELSE cmd[c]]
      <4>1. \A q : q \in ToSet(children) <=> IsChild(q)
        BY DEF ToSet, IsChild
      <4> QED
        BY <2>11, <4>1 DEF ChildrenUnusedSet
    <3>3. tr' \in [Conns -> Transfers] /\ cmd' \in [Conns -> Commands]
      <4>1. \A t \in Transfers : [t EXCEPT !.unused = TRUE] \in Transfers
        BY DEF Transfers
      <4>2. \A t \in Commands : [t EXCEPT !.unused = TRUE] \in Commands
        BY DEF Commands
      <4> QED
        BY <3>2, <4>1, <4>2 DEF DebugInv, ServerTypes
    <3>4. \A c \in Conns : MarkedOnly(tr'[c], tr[c], TransferOf(c)) /\ MarkedOnly(cmd'[c], cmd[c], CommandOf(c))
      BY <2>0, <3>1, <3>2 DEF MarkedOnly
    <3>5. PeersKept'
      BY <3>1 DEF PeersKept
    <3> QED
      BY <2>0, <2>1, <2>6, <2>7, <2>8, <3>3, <3>4, <3>5, NewRoundKeeps
  <2> QED
    BY <2>9, <2>10, <2>11
<1> QED
  BY <1>1, <1>2 DEF ServerTick

\* What is sent to the peers closes the connections of peers only.
LEMMA SendsClose ==
    ASSUME ListInv, DebugInv, ProcessTreeSend \/ LogEntriesSend
    PROVE  /\ \E S \in SUBSET mPeerList : fd' = [c \in Conns |-> IF c \in S THEN "closed" ELSE fd[c]]
           /\ \A c \in Conns : fd'[c] = "open" => fd[c] = "open"
           /\ UNCHANGED <<processVars, ppPeerFd, user>>
<1>1. fd \in [Conns -> {"none", "open", "closed", "lost"}]
  BY DEF ListInv, ListeningInv, LstTypeOK
<1>2. UNCHANGED <<processVars, ppPeerFd, user>>
  BY DEF ProcessTreeSend, LogEntriesSend
<1>3. ASSUME NEW S \in SUBSET mPeerList, fd' = [c \in Conns |-> IF c \in S THEN "closed" ELSE fd[c]]
      PROVE  \A c \in Conns : fd'[c] = "open" => fd[c] = "open"
  BY <1>3
<1>4. CASE fd' = fd
  <2>1. fd' = [c \in Conns |-> IF c \in {} THEN "closed" ELSE fd[c]]
    BY <1>1, <1>4
  <2>2. {} \in SUBSET mPeerList
    OBVIOUS
  <2>3. \E S \in SUBSET mPeerList : fd' = [c \in Conns |-> IF c \in S THEN "closed" ELSE fd[c]]
    BY <2>1, <2>2
  <2> QED
    BY <1>2, <1>4, <2>3
<1>5. ASSUME NEW peers \in SUBSET mPeerList, NEW taken \in SUBSET peers, SendsAll(peers, taken)
      PROVE  \E S \in SUBSET mPeerList : fd' = [c \in Conns |-> IF c \in S THEN "closed" ELSE fd[c]]
  BY <1>5 DEF SendsAll
<1>6. ProcPeers \subseteq mPeerList /\ LogReceivers \subseteq mPeerList
  BY DEF ProcPeers, LogReceivers, LogPeers
<1>7. \/ fd' = fd
      \/ \E taken \in SUBSET ProcPeers : SendsAll(ProcPeers, taken)
      \/ \E taken \in SUBSET LogReceivers : SendsAll(LogReceivers, taken)
  BY DEF ProcessTreeSend, LogEntriesSend
<1> QED
  BY <1>2, <1>3, <1>4, <1>5, <1>6, <1>7

\* The queue of entries is sent.
LEMMA LogsKeep == ASSUME ListInv, DebugInv, LogEntriesSend PROVE DebugInv'
<1>1. /\ part = "logs" /\ UNCHANGED <<processVars, user, sd, children, tr, cmd, mPeerList>>
      /\ (RoundBegins /\ fd' = fd) \/ UNCHANGED <<todo, part>>
      /\ \A c \in Conns : fd'[c] = "open" => fd[c] = "open"
  BY SendsClose DEF LogEntriesSend
<1>2. sd \in [life : {sd.life}, unused : BOOLEAN, mState : {sd.mState}] /\ sd.life \in Lives \ {"none", "deleted"}
  BY DEF DebugInv, ServerTypes
<1>3. CASE UNCHANGED <<todo, part>>
  BY <1>1, <1>2, <1>3, QuietKeeps
<1>4. CASE RoundBegins /\ fd' = fd
  <2>1. todo = <<>> /\ sd.life = "Processing" /\ sd.mState = "StMain"
    BY <1>1 DEF DebugInv, Rounds
  <2>2. UNCHANGED <<user, fd, lstLife>> /\ ServerAge = 0 /\ ServerAge' = 0
    BY <1>1, <1>4, <2>1 DEF processVars, ServerAge
  <2>3. sd' \in [life : Lives \ {"none", "deleted"}, unused : BOOLEAN, mState : {sd.mState}]
    BY <1>1, <1>2
  <2>4. tr' \in [Conns -> Transfers] /\ cmd' \in [Conns -> Commands]
    BY <1>1 DEF DebugInv, ServerTypes
  <2>5. PeersKept'
    BY <1>1 DEF DebugInv, PeersKept
  <2>6. \A c \in Conns : MarkedOnly(tr'[c], tr[c], TransferOf(c)) /\ MarkedOnly(cmd'[c], cmd[c], CommandOf(c))
    BY <1>1 DEF MarkedOnly
  <2>7. sd'.life \notin {"Existent", "Initializing"}
    BY <1>1, <2>1
  <2> QED
    BY <1>1, <1>4, <2>1, <2>2, <2>3, <2>4, <2>5, <2>6, <2>7, NewRoundKeeps
<1> QED
  BY <1>1, <1>3, <1>4

-----------------------------------------------------------------------------
(* The server takes what its listeners have accepted *)
LEMMA AppendedMembers ==
    ASSUME NEW S, NEW s \in Seq(S), NEW e \in S
    PROVE  /\ Append(s, e) \in Seq(S)
           /\ \A q : (\E i \in DOMAIN Append(s, e) : Append(s, e)[i] = q) <=> q = e \/ \E i \in DOMAIN s : s[i] = q
<1>1. /\ Append(s, e) \in Seq(S) /\ DOMAIN Append(s, e) = DOMAIN s \cup {Len(s) + 1}
      /\ Append(s, e)[Len(s) + 1] = e /\ \A i \in DOMAIN s : Append(s, e)[i] = s[i]
  OBVIOUS
<1>2. PICK r : r = Append(s, e)
  OBVIOUS
<1>3. /\ DOMAIN r = DOMAIN s \cup {Len(s) + 1} /\ r[Len(s) + 1] = e /\ \A i \in DOMAIN s : r[i] = s[i]
  BY <1>1, <1>2
<1>4. \A q : (\E i \in DOMAIN r : r[i] = q) <=> q = e \/ \E i \in DOMAIN s : s[i] = q
  BY <1>3
<1> QED
  BY <1>1, <1>2, <1>4

\* The first of a queue is open and belongs to nobody yet.
LEMMA HeadOfQueue ==
    ASSUME ListInv, NEW k \in Listeners, ppPeerFd[k] # <<>>
    PROVE  Head(ppPeerFd[k]) \in Conns /\ user[Head(ppPeerFd[k])] = "no" /\ fd[Head(ppPeerFd[k])] = "open"
<1>1. ppPeerFd[k] \in Seq(Conns)
  BY DEF ListInv, ListeningInv, LstTypeOK
<1>2. 1 \in DOMAIN ppPeerFd[k] /\ Head(ppPeerFd[k]) = ppPeerFd[k][1] /\ ppPeerFd[k][1] \in Conns
  BY <1>1
<1> QED
  BY <1>2 DEF ListInv, ListeningInv, QueuedOnce

\* A peer is added.
LEMMA AddKeeps == ASSUME DebugInv, ListInv, PeersAdd PROVE DebugInv'
<1>1. PICK k \in Listeners : PeerAdd(k) \/ CommandAdd(k)
  <2>1. \E i \in DOMAIN ListenerOrder : PeerAdd(ListenerOrder[i]) \/ CommandAdd(ListenerOrder[i])
    BY DEF PeersAdd
  <2>2. \A i \in DOMAIN ListenerOrder : ListenerOrder[i] \in Listeners
    BY DebuggingAssumption DEF ListenerOrder
  <2> QED
    BY <2>1, <2>2
<1>2. PICK c : c = Head(ppPeerFd[k])
  OBVIOUS
<1>3. Take(k) /\ ppPeerFd[k] # <<>> /\ user' = [user EXCEPT ![c] = k]
  BY <1>1, <1>2 DEF PeerAdd, CommandAdd, Take
<1>4. c \in Conns /\ user[c] = "no" /\ fd[c] = "open"
  BY <1>2, <1>3, HeadOfQueue
<1>5. /\ part = "peerAdd" /\ UNCHANGED <<processVars, fd, sd, todo, part>>
      /\ todo = <<>> /\ sd.life = "Processing" /\ sd.mState = "StMain"
  BY DEF PeersAdd, DebugInv, Rounds
<1>6. k \in {"proc", "log", "cmd", "cmdAuto"} /\ k # "no" /\ Listeners = {"proc", "log", "cmd", "cmdAuto"}
  BY DebuggingAssumption
<1>7. user \in [Conns -> Listeners \cup {"no"}]
  BY DEF ListInv, ListeningInv, LstTypeOK
<1>8. user'[c] = k /\ \A d \in Conns \ {c} : user'[d] = user[d]
  BY <1>3, <1>4, <1>7
<1>9. tr[c] = NoTransfer /\ cmd[c] = NoCommand /\ ServerTypes /\ ConnInv(c)
  BY <1>4 DEF DebugInv, ConnInv, ServedBy
<1>10. \A q : ~ IsToVisit(q)' /\ ~ IsToVisit(q)
  BY <1>5 DEF IsToVisit
<1>11. children \in Seq(Procs) /\ TransferOf(c) \in Procs /\ CommandOf(c) \in Procs
  BY <1>4, <1>9 DEF ServerTypes, Procs
<1>12. ASSUME NEW p \in Procs, children' = Append(children, p)
       PROVE  children' \in Seq(Procs) /\ \A q : IsChild(q)' <=> q = p \/ IsChild(q)
  BY <1>11, <1>12, AppendedMembers DEF IsChild
<1>13. /\ Rounds'
       /\ (\A q : IsChild(q) => IsChild(q)') => ListenersListed'
  BY <1>5 DEF DebugInv, Rounds, ListenersListed, processVars
<1>14. CASE PeerAdd(k)
  <2>1. /\ k \in PeerListeners /\ tr' = [tr EXCEPT ![c] = [NoTransfer EXCEPT !.life = "Existent"]]
        /\ children' = Append(children, TransferOf(c)) /\ mPeerList' = mPeerList \cup {c} /\ cmd' = cmd
    BY <1>2, <1>14 DEF PeerAdd
  <2>2. children' \in Seq(Procs) /\ \A q : IsChild(q)' <=> q = TransferOf(c) \/ IsChild(q)
    BY <1>11, <1>12, <2>1
  <2>3. [NoTransfer EXCEPT !.life = "Existent"] \in Transfers
    BY DEF NoTransfer, Transfers, TransferStates, Lives
  <2>4. /\ tr' \in [Conns -> Transfers] /\ tr'[c] = [NoTransfer EXCEPT !.life = "Existent"]
        /\ \A d \in Conns \ {c} : tr'[d] = tr[d]
    BY <1>4, <1>9, <2>1, <2>3 DEF ServerTypes
  <2>5. ServerTypes'
    BY <1>4, <1>5, <1>9, <2>1, <2>2, <2>4 DEF ServerTypes
  <2>6. PeersKept'
    <3>1. ~ tr'[c].unused /\ \A d \in mPeerList : d \in Conns
      BY <1>9, <2>4 DEF NoTransfer, ServerTypes
    <3> QED
      BY <1>5, <2>1, <2>4, <3>1 DEF DebugInv, PeersKept
  <2>7. ASSUME NEW d \in Conns \ {c} PROVE ConnInv(d)'
    <3>1. ConnInv(d) /\ TransferOf(d) # TransferOf(c) /\ CommandOf(d) # TransferOf(c)
      BY ProcsDiffer DEF DebugInv
    <3>2. d \in mPeerList' => d \in mPeerList
      BY <2>1
    <3>3. /\ \A q \in {TransferOf(d), CommandOf(d)} : IsChild(q)' <=> IsChild(q)
          /\ \A q \in {TransferOf(d), CommandOf(d), TurnOf(d)} : IsToVisit(q)' <=> IsToVisit(q)
      BY <1>10, <2>2, <3>1
    <3> QED
      BY <1>5, <1>8, <2>1, <2>4, <3>1, <3>2, <3>3, Elsewhere
  <2>8. ConnInv(c)'
    <3>1. cmd'[c] = NoCommand /\ cmd'[c].life = "none" /\ tr'[c].life = "Existent"
      BY <1>9, <2>1, <2>4 DEF NoCommand, NoTransfer
    <3>2. ServedBy(c)'
      BY <1>8, <2>1, <3>1 DEF ServedBy, PeerListeners
    <3>3. ~ IsChild(CommandOf(c))' /\ IsChild(TransferOf(c))' /\ ~ IsPending(c)'
      <4>1. ~ IsChild(CommandOf(c)) /\ CommandOf(c) # TransferOf(c)
        BY <1>9, ProcsDiffer DEF ConnInv, ListedFor, NoCommand
      <4> QED
        BY <1>10, <2>2, <4>1 DEF IsPending
    <3>4. ListedFor(c)'
      BY <3>1, <3>3 DEF ListedFor, IsThere
    <3>5. CommandAhead(c)' /\ ClosedBy(c)'
      BY <3>1 DEF CommandAhead, ClosedBy
    <3>6. TransferAhead(c)'
      BY <1>5, <2>4 DEF TransferAhead, ServerAge
    <3> QED
      BY <3>2, <3>4, <3>5, <3>6 DEF ConnInv
  <2> QED
    BY <1>13, <2>2, <2>5, <2>6, <2>7, <2>8 DEF DebugInv
<1>15. CASE CommandAdd(k)
  <2>1. /\ k \notin PeerListeners /\ cmd' = [cmd EXCEPT ![c].life = "Existent"]
        /\ children' = Append(children, CommandOf(c)) /\ mPeerList' = mPeerList /\ tr' = tr
    BY <1>2, <1>15 DEF CommandAdd
  <2>2. children' \in Seq(Procs) /\ \A q : IsChild(q)' <=> q = CommandOf(c) \/ IsChild(q)
    BY <1>11, <1>12, <2>1
  <2>3. [NoCommand EXCEPT !.life = "Existent"] \in Commands
    BY DEF NoCommand, Commands, CommandStates, Lives
  <2>4. /\ cmd' \in [Conns -> Commands] /\ cmd'[c] = [NoCommand EXCEPT !.life = "Existent"]
        /\ \A d \in Conns \ {c} : cmd'[d] = cmd[d]
    <3>1. cmd' = [cmd EXCEPT ![c] = [NoCommand EXCEPT !.life = "Existent"]] /\ cmd \in [Conns -> Commands]
      BY <1>4, <1>9, <2>1 DEF ServerTypes
    <3> QED
      BY <1>4, <2>3, <3>1
  <2>5. ServerTypes'
    BY <1>5, <1>9, <2>1, <2>2, <2>4 DEF ServerTypes
  <2>6. PeersKept'
    BY <1>5, <2>1 DEF DebugInv, PeersKept
  <2>7. ASSUME NEW d \in Conns \ {c} PROVE ConnInv(d)'
    <3>1. ConnInv(d) /\ TransferOf(d) # CommandOf(c) /\ CommandOf(d) # CommandOf(c)
      BY ProcsDiffer DEF DebugInv
    <3>2. /\ \A q \in {TransferOf(d), CommandOf(d)} : IsChild(q)' <=> IsChild(q)
          /\ \A q \in {TransferOf(d), CommandOf(d), TurnOf(d)} : IsToVisit(q)' <=> IsToVisit(q)
      BY <1>10, <2>2, <3>1
    <3> QED
      BY <1>5, <1>8, <2>1, <2>4, <3>1, <3>2, Elsewhere
  <2>8. ConnInv(c)'
    <3>1. /\ tr'[c] = NoTransfer /\ tr'[c].life = "none"
          /\ cmd'[c].life = "Existent" /\ cmd'[c].state = "StStart" /\ ~ cmd'[c].unused
      BY <1>9, <2>1, <2>4 DEF NoCommand, NoTransfer
    <3>2. ServedBy(c)'
      <4>1. c \notin mPeerList
        BY <1>4, <1>9 DEF ConnInv, ServedBy, PeerListeners
      <4> QED
        BY <1>6, <1>8, <2>1, <3>1, <4>1 DEF ServedBy, PeerListeners
    <3>3. ~ IsChild(TransferOf(c))' /\ IsChild(CommandOf(c))'
      <4>1. ~ IsChild(TransferOf(c)) /\ CommandOf(c) # TransferOf(c)
        BY <1>9, ProcsDiffer DEF ConnInv, ListedFor, NoTransfer
      <4> QED
        BY <2>2, <4>1
    <3>4. ListedFor(c)'
      BY <1>10, <3>1, <3>3 DEF ListedFor, IsThere
    <3>5. CommandAhead(c)' /\ TransferAhead(c)' /\ ClosedBy(c)'
      BY <1>5, <3>1 DEF CommandAhead, TransferAhead, ClosedBy
    <3> QED
      BY <3>2, <3>4, <3>5 DEF ConnInv
  <2> QED
    BY <1>13, <2>2, <2>5, <2>6, <2>7, <2>8 DEF DebugInv
<1> QED
  BY <1>1, <1>14, <1>15

-----------------------------------------------------------------------------
\* The first states.
LEMMA DebugInit == Init => DebugInv
<1> SUFFICES ASSUME Init PROVE DebugInv
  OBVIOUS
<1>1. /\ sd = [life |-> "Existent", unused |-> FALSE, mState |-> "StStart"]
      /\ children = <<>> /\ todo = <<>> /\ part = "children"
      /\ tr = [c \in Conns |-> NoTransfer] /\ cmd = [c \in Conns |-> NoCommand] /\ mPeerList = {}
      /\ lstLife = [k \in Listeners |-> "none"] /\ user = [c \in Conns |-> "no"]
  BY DEF Init, LstInit
<1>2. NoTransfer \in Transfers /\ NoCommand \in Commands
  BY DEF NoTransfer, NoCommand, Transfers, Commands, TransferStates, CommandStates, Lives
<1>3. ServerTypes
  BY <1>1, <1>2 DEF ServerTypes, Lives
<1>4. Rounds /\ ListenersListed /\ PeersKept
  BY <1>1 DEF Rounds, ListenersListed, PeersKept
<1>5. \A q : ~ IsChild(q) /\ ~ IsToVisit(q)
  BY <1>1 DEF IsChild, IsToVisit
<1>6. ASSUME NEW c \in Conns PROVE ConnInv(c)
  <2>1. tr[c] = NoTransfer /\ cmd[c] = NoCommand /\ user[c] = "no" /\ tr[c].life = "none" /\ cmd[c].life = "none"
    BY <1>1 DEF NoTransfer, NoCommand
  <2>2. ServedBy(c)
    BY <1>1, <2>1 DEF ServedBy, PeerListeners
  <2>3. ListedFor(c) /\ CommandAhead(c) /\ TransferAhead(c) /\ ClosedBy(c)
    BY <1>5, <2>1 DEF ListedFor, IsPending, IsThere, CommandAhead, TransferAhead, ClosedBy
  <2> QED
    BY <2>2, <2>3 DEF ConnInv
<1> QED
  BY <1>3, <1>4, <1>6 DEF DebugInv

\* Every step.
LEMMA DebugKeeps == ListInv /\ DebugInv /\ [Next]_vars => DebugInv'
<1> SUFFICES ASSUME ListInv, DebugInv, [Next]_vars PROVE DebugInv'
  OBVIOUS
<1>1. sd \in [life : {sd.life}, unused : BOOLEAN, mState : {sd.mState}] /\ part \in {"children", "peerAdd", "logs"}
  BY DEF DebugInv, ServerTypes
<1>2. CASE ChildTick
  BY <1>2, Visits, ListenerTickKeeps, PeerVisitKeeps, CommandsTransferKeeps, CommandVisitKeeps DEF DebugInv
<1>3. CASE ServerTick
  BY <1>3, ServerTickKeeps
<1>4. CASE PeersAdd
  BY <1>4, AddKeeps
<1>5. CASE ProcessTreeSend
  <2>1. part = "peerAdd" /\ part' = "logs" /\ UNCHANGED <<processVars, user, sd, children, todo, tr, cmd, mPeerList>>
    BY <1>5 DEF ProcessTreeSend, PeersAdded
  <2>2. \A c \in Conns : fd'[c] = "open" => fd[c] = "open"
    BY <1>5, SendsClose
  <2> QED
    BY <1>1, <2>1, <2>2, QuietKeeps
<1>6. CASE LogEntriesSend
  BY <1>6, LogsKeep
<1>7. CASE Cancel
  <2>1. UNCHANGED <<processVars, user, fd, children, todo, part, tr, cmd, mPeerList>> /\ sd' = [sd EXCEPT !.unused = TRUE]
    BY <1>7 DEF Cancel, serverVars, lstVars
  <2> QED
    BY <1>1, <2>1, QuietKeeps
<1>8. CASE TimePasses \/ EntryLogEnqueue \/ (\E c \in Conns : ClientActs(c)) \/ UNCHANGED vars
  <2>1. UNCHANGED <<processVars, user, fd, sd, children, todo, part, tr, cmd, mPeerList>>
    BY <1>8 DEF TimePasses, EntryLogEnqueue, ClientActs, serverVars, tickVars, lstVars, vars
  <2> QED
    BY <1>1, <2>1, QuietKeeps
<1> QED
  BY <1>2, <1>3, <1>4, <1>5, <1>6, <1>7, <1>8 DEF Next, Tick

-----------------------------------------------------------------------------
(* A step of the server is a step of its listeners and their users, or none of it *)
LEMMA CloseListens ==
    ASSUME ListInv, NEW c \in Conns, user[c] # "no", fd' = fd \/ fd' = [fd EXCEPT ![c] = "closed"],
           UNCHANGED <<processVars, ppPeerFd, user>>
    PROVE  [LstNext]_lstVars
<1>1. CASE fd' = fd
  BY <1>1 DEF lstVars
<1>2. CASE fd' = [fd EXCEPT ![c] = "closed"]
  <2>1. fd \in [Conns -> {"none", "open", "closed", "lost"}]
    BY DEF ListInv, ListeningInv, LstTypeOK
  <2>2. fd' = [d \in Conns |-> IF d \in {c} THEN "closed" ELSE fd[d]]
    BY <1>2, <2>1
  <2>3. UsersClose({c})
    BY <2>2 DEF UsersClose
  <2> QED
    BY <2>3 DEF LstNext
<1> QED
  BY <1>1, <1>2

\* A visit of a child is a step of the listeners, or a stutter.
LEMMA VisitListens == ASSUME ListInv, DebugInv, ChildTick PROVE [LstNext]_lstVars
<1>1. ServerTypes /\ todo # <<>> /\ fd \in [Conns -> {"none", "open", "closed", "lost"}]
  BY DEF DebugInv, ChildTick, ListInv, ListeningInv, LstTypeOK
<1>2. todo \in Seq(Procs \cup Turns) /\ IsToVisit(Head(todo))
  <2>1. todo \in Seq(Procs \cup Turns)
    BY <1>1 DEF ServerTypes
  <2> QED
    BY <1>1, <2>1 DEF IsToVisit
<1>3. \A c \in Conns : ConnInv(c)
  BY DEF DebugInv
<1>4. ASSUME NEW k \in Listeners, ListenerTick(k) PROVE [LstNext]_lstVars
  BY <1>4 DEF ListenerTick, LstNext
<1>5. ASSUME NEW c \in Conns, Head(todo) \in {TransferOf(c), CommandOf(c)}, TransferTick(c)
      PROVE  [LstNext]_lstVars
  <2>1. tr[c].life # "none" \/ cmd[c].life # "none"
    BY <1>2, <1>3, <1>5 DEF ConnInv, ListedFor, IsPending
  <2>2. user[c] # "no"
    BY <1>3, <2>1 DEF ConnInv, ServedBy, NoTransfer, NoCommand
  <2> QED
    BY <1>1, <1>5, <2>2, TransferEffect, CloseListens
<1>6. ASSUME NEW c \in Conns, Head(todo) \in {CommandOf(c), TurnOf(c)}, CommandTick(c)
      PROVE  [LstNext]_lstVars
  <2>1. cmd[c].life # "none"
    BY <1>2, <1>3, <1>6 DEF ConnInv, ListedFor, IsPending
  <2>2. user[c] # "no" /\ user[c] \in {"proc", "log", "cmd", "cmdAuto", "no"}
    BY <1>3, <2>1, DebuggingAssumption DEF ConnInv, ServedBy, NoTransfer, NoCommand, ListInv, ListeningInv, LstTypeOK
  <2>3. (tr[c].life = "none" => cmd[c].state = "StStart") /\ CommandAhead(c)
    BY <1>3, <2>1, <2>2 DEF ConnInv, ServedBy, NoCommand, PeerListeners
  <2> QED
    BY <1>1, <1>6, <2>1, <2>2, <2>3, CommandEffect, CloseListens
<1> QED
  BY <1>1, <1>4, <1>5, <1>6, Visits

\* The step of the server is one of the listeners, or a stutter.
LEMMA ServerTickListens == ASSUME ListInv, DebugInv, ServerTick PROVE [LstNext]_lstVars
<1>1. CASE ListenersStart
  <2>1. LstStart(Listeners) /\ \A k \in Listeners : lstLife[k] = "none"
    BY <1>1 DEF ListenersStart, DebugInv, Rounds
  <2> QED
    BY <2>1 DEF LstNext
<1>2. CASE PeerCheck
  <2> DEFINE S == {c \in Conns : c \in mPeerList /\ DisconnectRequested(c) /\ FindsEnd(c)}
  <2>1. fd' = [c \in Conns |-> IF c \in S THEN "closed" ELSE fd[c]] /\ UNCHANGED <<processVars, ppPeerFd, user>>
    BY <1>2 DEF PeerCheck
  <2>2. \A c \in S : user[c] # "no"
    BY DEF DebugInv, ConnInv, ServedBy, PeerListeners
  <2>3. UsersClose(S)
    BY <2>1, <2>2 DEF UsersClose
  <2> QED
    BY <2>3 DEF LstNext
<1>3. CASE UNCHANGED lstVars \/ LstUnusedSet(Listeners)
  BY <1>3 DEF LstNext
<1> QED
  BY <1>1, <1>2, <1>3 DEF ServerTick, ServerPass, ChildrenUnusedSet

\* Every step is one of the listeners, or a stutter.
LEMMA StepListens == ListInv /\ DebugInv /\ [Next]_vars => [LstNext]_lstVars
<1> SUFFICES ASSUME ListInv, DebugInv, [Next]_vars PROVE [LstNext]_lstVars
  OBVIOUS
<1>1. CASE ChildTick
  BY <1>1, VisitListens
<1>2. CASE ServerTick
  BY <1>2, ServerTickListens
<1>3. CASE PeersAdd
  <2>1. UNCHANGED <<processVars, fd>> /\ \E i \in DOMAIN ListenerOrder : Take(ListenerOrder[i])
    BY <1>3 DEF PeersAdd, PeerAdd, CommandAdd
  <2>2. \A i \in DOMAIN ListenerOrder : ListenerOrder[i] \in Listeners
    BY DebuggingAssumption DEF ListenerOrder
  <2> QED
    BY <2>1, <2>2 DEF LstNext
<1>4. CASE UNCHANGED lstVars
  BY <1>4
<1>6. CASE ProcessTreeSend \/ LogEntriesSend
  <2>1. PICK S \in SUBSET mPeerList : fd' = [c \in Conns |-> IF c \in S THEN "closed" ELSE fd[c]]
    BY <1>6, SendsClose
  <2>2. S \in SUBSET Conns /\ \A c \in S : user[c] # "no"
    BY DEF DebugInv, ServerTypes, ConnInv, ServedBy, PeerListeners
  <2>3. UsersClose(S)
    BY <1>6, <2>1, <2>2, SendsClose DEF UsersClose
  <2> QED
    BY <2>2, <2>3 DEF LstNext
<1>5. Cancel \/ TimePasses \/ EntryLogEnqueue \/ (\E c \in Conns : ClientActs(c))
        \/ UNCHANGED vars => UNCHANGED lstVars
  BY DEF Cancel, TimePasses, EntryLogEnqueue, ClientActs, serverVars, vars
<1> QED
  BY <1>1, <1>2, <1>3, <1>4, <1>5, <1>6 DEF Next, Tick

\* The invariant in every reachable state.
LEMMA ServerInvariance == Spec => [](ListInv /\ DebugInv)
<1>1. Init => ListInv /\ DebugInv
  BY ListInit, DebugInit DEF Init
<1>2. (ListInv /\ DebugInv) /\ [Next]_vars => (ListInv /\ DebugInv)'
  BY StepListens, ListKeeps, DebugKeeps
<1> QED
  BY <1>1, <1>2, PTL DEF Spec

\* The server is a user of its listeners as TcpListening expects one, whatever its clients do and
\* whenever it is repelled: it starts each of them once, takes the descriptors in the order of
\* their queues, and a descriptor is closed by a process that was started for it only:
\* SystemDebugging.cpp:158-233, 274-361.
THEOREM UsesItsListeners == Spec => Listens
<1>1. Init => LstInit
  BY DEF Init
<1> QED
  BY <1>1, ServerInvariance, StepListens, PTL DEF Spec, Listens, LstSpec

-----------------------------------------------------------------------------
\* What is open and was taken has exactly one process that will close it.
LEMMA OneCloses ==
    ASSUME DebugInv, ListInv, NEW c \in Conns, fd[c] = "open", user[c] # "no"
    PROVE  Cardinality(WillClose(c)) = 1
<1>1. ConnInv(c) /\ user[c] \in {"proc", "log", "cmd", "cmdAuto"}
  BY DebuggingAssumption DEF DebugInv, ListInv, ListeningInv, LstTypeOK
<1>2. CASE tr[c].life \in {"Existent", "Initializing", "Processing", "DownShutting"}
  <2>1. tr[c].life = "Existent" => ~ tr[c].unused
    BY <1>1 DEF ConnInv, TransferAhead, NoTransfer
  <2>2. ~ (cmd[c].state = "StStart" /\ cmd[c].life \in {"Existent", "Initializing", "Processing"})
    BY <1>1, <1>2 DEF ConnInv, ServedBy, NoCommand, PeerListeners
  <2>3. WillClose(c) = {TransferOf(c)}
    BY <1>2, <2>1, <2>2 DEF WillClose
  <2> QED
    BY <2>3, FS_Singleton
<1>3. CASE cmd[c].life # "none" /\ cmd[c].state = "StStart"
  <2>1. cmd[c].life \in {"Existent", "Initializing", "Processing"}
    BY <1>1, <1>3 DEF ConnInv, CommandAhead
  <2>2. tr[c].life = "none"
    BY <1>1, <1>3 DEF ConnInv, ServedBy, NoCommand, PeerListeners
  <2>3. WillClose(c) = {CommandOf(c)}
    BY <1>3, <2>1, <2>2 DEF WillClose
  <2> QED
    BY <2>3, FS_Singleton
<1> QED
  BY <1>1, <1>2, <1>3 DEF ConnInv, ClosedBy

\* Who is in the list of peers is a child and is not marked.
LEMMA PeersAreChildren ==
    ASSUME DebugInv, IsServing, NEW c \in mPeerList
    PROVE  TransferOf(c) \in ToSet(children) /\ ~ tr[c].unused
<1>1. c \in Conns /\ ConnInv(c) /\ ~ tr[c].unused
  BY DEF DebugInv, ServerTypes, PeersKept, IsServing
<1>2. tr[c].life \notin {"none", "deleted"} /\ cmd[c] = NoCommand
  BY <1>1 DEF ConnInv, ServedBy, ListedFor
<1>3. IsChild(TransferOf(c))
  BY <1>1, <1>2 DEF ConnInv, ListedFor, IsThere, NoCommand
<1> QED
  BY <1>1, <1>3 DEF IsChild, ToSet

\* When the server has ended, nothing that it took is open.
LEMMA NothingIsLeft ==
    ASSUME DebugInv, ListInv, IsOver, NEW c \in Conns
    PROVE  fd[c] # "open"
<1>1. \A q : ~ IsChild(q)
  BY DEF IsOver, IsChild
<1>2. ConnInv(c)
  BY DEF DebugInv
<1>3. ~ IsThere(cmd[c]) /\ ~ IsThere(tr[c])
  BY <1>1, <1>2 DEF ConnInv, ListedFor
<1>4. ASSUME fd[c] = "open", user[c] # "no" PROVE FALSE
  <2>1. cmd[c].life # "none" /\ cmd[c].state = "StStart"
    BY <1>2, <1>3, <1>4 DEF ConnInv, ClosedBy, IsThere
  <2> QED
    BY <1>2, <1>3, <2>1 DEF ConnInv, CommandAhead, IsThere
<1>5. ASSUME fd[c] = "open", user[c] = "no" PROVE FALSE
  <2>1. PICK k \in Listeners : \E i \in DOMAIN ppPeerFd[k] : ppPeerFd[k][i] = c
    BY <1>5 DEF ListInv, ListeningInv, OpenIsHeld
  <2>2. ppPeerFd[k] # <<>>
    BY <2>1
  <2>3. lstLife[k] \in {"Processing", "DownShutting"}
    BY <2>2 DEF ListInv, ListeningInv, QueueLimit
  <2> QED
    BY <1>1, <2>3 DEF DebugInv, ListenersListed
<1> QED
  BY <1>4, <1>5

\* Between accept() and close() a connection is in one place: in the queue of a listener, or with
\* the one process that is going to close it, also while the server is shut down under it; a peer
\* in the list is a child that nobody has marked; and nothing is open when the server has gone:
\* SystemDebugging.cpp:165-190, 254-291, Processing.cpp:280-343.
THEOREM ServerClosesAll == Spec => []ServerInv
<1>1. ListInv /\ DebugInv => ServerInv
  <2> SUFFICES ASSUME ListInv, DebugInv PROVE ServerInv
    OBVIOUS
  <2>1. ListeningInv
    BY DEF ListInv
  <2>2. \A c \in Conns : fd[c] = "open" /\ user[c] # "no" => Cardinality(WillClose(c)) = 1
    BY OneCloses
  <2>3. IsServing => \A c \in mPeerList : TransferOf(c) \in ToSet(children) /\ ~ tr[c].unused
    BY PeersAreChildren
  <2>4. IsOver => \A c \in Conns : fd[c] # "open"
    BY NothingIsLeft
  <2> QED
    BY <2>1, <2>2, <2>3, <2>4 DEF ServerInv
<1> QED
  BY <1>1, ServerInvariance, PTL

-----------------------------------------------------------------------------
(* What the peers are shown. The tree is due as long as a new peer waits   *)
(* for it, and the queue of the log holds the entries that were not taken. *)
TreeInv ==
  /\ mProcTreePeerAdded \in BOOLEAN
  /\ mProcTreePeerAdded => part = "peerAdd" /\ elapsed = UpdateMs
  /\ ~ mProcTreePeerAdded => \A c \in ProcPeers \ refused : seen[c] = mProcTree

LogInv ==
  /\ logged \in Nat /\ popped \in Nat /\ qLogEntries \in Seq(Nat)
  /\ Len(qLogEntries) = logged - popped
  /\ \A i \in 1 .. Len(qLogEntries) : qLogEntries[i] = popped + i
  /\ \A c \in LogPeers : last[c] <= popped /\ last[c] + 1 .. popped \subseteq missed[c]

ShownInv == last \in [Conns -> Nat] /\ TreeInv /\ LogInv

\* The queue holds what was logged and not popped, in this order.
LEMMA QueueOfLog ==
    ASSUME LogInv
    PROVE  /\ Append(qLogEntries, logged + 1) \in Seq(Nat)
           /\ Len(Append(qLogEntries, logged + 1)) = logged + 1 - popped
           /\ \A i \in 1 .. logged + 1 - popped : Append(qLogEntries, logged + 1)[i] = popped + i
           /\ qLogEntries # <<>> =>
                /\ Head(qLogEntries) = popped + 1 /\ Tail(qLogEntries) \in Seq(Nat)
                /\ Len(Tail(qLogEntries)) = logged - (popped + 1)
                /\ \A i \in 1 .. logged - (popped + 1) : Tail(qLogEntries)[i] = popped + 1 + i
<1>1. PICK q \in Seq(Nat) : q = qLogEntries
  BY DEF LogInv
<1>2. logged \in Nat /\ popped \in Nat /\ Len(q) = logged - popped /\ \A i \in 1 .. Len(q) : q[i] = popped + i
  BY <1>1 DEF LogInv
<1>3. PICK a : a = Append(q, logged + 1)
  OBVIOUS
<1>4. a \in Seq(Nat) /\ Len(a) = Len(q) + 1 /\ a[Len(q) + 1] = logged + 1 /\ \A i \in 1 .. Len(q) : a[i] = q[i]
  BY <1>2, <1>3
<1>5. \A i \in 1 .. logged + 1 - popped : a[i] = popped + i
  <2> SUFFICES ASSUME NEW i \in 1 .. logged + 1 - popped PROVE a[i] = popped + i
    OBVIOUS
  <2>1. CASE i \in 1 .. Len(q)
    BY <1>2, <1>4, <2>1
  <2>2. CASE i = Len(q) + 1
    BY <1>2, <1>4, <2>2
  <2> QED
    BY <1>2, <2>1, <2>2
<1>6. ASSUME q # <<>>
      PROVE  /\ Head(q) = popped + 1 /\ Tail(q) \in Seq(Nat) /\ Len(Tail(q)) = logged - (popped + 1)
             /\ \A i \in 1 .. logged - (popped + 1) : Tail(q)[i] = popped + 1 + i
  <2>1. Head(q) = q[1] /\ 1 \in 1 .. Len(q) /\ Tail(q) \in Seq(Nat) /\ Len(Tail(q)) = Len(q) - 1
    BY <1>6
  <2>2. \A i \in 1 .. Len(q) - 1 : Tail(q)[i] = q[i + 1] /\ i + 1 \in 1 .. Len(q)
    BY <1>6
  <2>3. ASSUME NEW i \in 1 .. logged - (popped + 1) PROVE Tail(q)[i] = popped + 1 + i
    <3>1. i \in 1 .. Len(q) - 1
      BY <1>2
    <3>2. Tail(q)[i] = popped + (i + 1)
      BY <1>2, <2>2, <3>1
    <3> QED
      BY <1>2, <3>2
  <2> QED
    BY <1>2, <2>1, <2>3
<1> QED
  BY <1>1, <1>2, <1>3, <1>4, <1>5, <1>6

(* Steps that leave the tree, the log and the peers alone *)
LEMMA ShownKeeps ==
    ASSUME ShownInv, UNCHANGED <<mPeerList, treeVars, logVars, logged>>,
           \A c \in mPeerList : user'[c] = user[c], mProcTreePeerAdded => part' = "peerAdd"
    PROVE  ShownInv'
<1>1. ProcPeers' = ProcPeers /\ LogPeers' = LogPeers
  BY DEF ProcPeers, LogPeers
<1>2. UNCHANGED <<mProcTree, mProcTreeChanged, mProcTreePeerAdded, elapsed, seen, refused, qLogEntries, popped, last,
                  missed, logged>>
  BY DEF treeVars, logVars
<1> QED
  BY <1>1, <1>2 DEF ShownInv, TreeInv, LogInv

\* The peers are checked.
LEMMA ShownCheckKeeps == ASSUME ShownInv, DebugInv, PeerCheck, part = "children" PROVE ShownInv'
<1>1. /\ UNCHANGED <<user, mProcTree, mProcTreePeerAdded, elapsed, qLogEntries, popped, logged>>
      /\ mPeerList' \subseteq mPeerList
      /\ seen' = [c \in Conns |-> IF c \in mPeerList' THEN seen[c] ELSE <<>>]
      /\ last' = [c \in Conns |-> IF c \in mPeerList' THEN last[c] ELSE 0]
      /\ missed' = [c \in Conns |-> IF c \in mPeerList' THEN missed[c] ELSE {}]
      /\ refused' = refused \cap mPeerList'
  BY DEF PeerCheck
<1>2. mPeerList \subseteq Conns /\ ~ mProcTreePeerAdded
  BY DEF DebugInv, ServerTypes, ShownInv, TreeInv
<1>3. \A c \in ProcPeers' \ refused' : c \in ProcPeers \ refused /\ seen'[c] = seen[c]
  BY <1>1, <1>2 DEF ProcPeers
<1>4. \A c \in LogPeers' : c \in LogPeers /\ last'[c] = last[c] /\ missed'[c] = missed[c]
  BY <1>1, <1>2 DEF LogPeers
<1>5. last' \in [Conns -> Nat]
  BY <1>1 DEF ShownInv
<1> QED
  BY <1>1, <1>2, <1>3, <1>4, <1>5 DEF ShownInv, TreeInv, LogInv

\* A peer is added.
LEMMA ShownAddKeeps == ASSUME ShownInv, ListInv, DebugInv, PeersAdd PROVE ShownInv'
<1>1. PICK k \in Listeners : PeerAdd(k) \/ CommandAdd(k)
  <2>1. \E i \in DOMAIN ListenerOrder : PeerAdd(ListenerOrder[i]) \/ CommandAdd(ListenerOrder[i])
    BY DEF PeersAdd
  <2>2. \A i \in DOMAIN ListenerOrder : ListenerOrder[i] \in Listeners
    BY DebuggingAssumption DEF ListenerOrder
  <2> QED
    BY <2>1, <2>2
<1>2. PICK c : c = Head(ppPeerFd[k])
  OBVIOUS
<1>3. /\ ppPeerFd[k] # <<>> /\ user' = [user EXCEPT ![c] = k] /\ part' = part /\ part = "peerAdd"
      /\ UNCHANGED <<mProcTree, mProcTreeChanged, seen, refused, qLogEntries, popped, missed, logged>>
  BY <1>1, <1>2 DEF PeersAdd, PeerAdd, CommandAdd, Take, outerVars
<1>4. c \in Conns /\ user[c] = "no"
  BY <1>2, <1>3, HeadOfQueue
<1>5. user'[c] = k /\ \A d \in Conns \ {c} : user'[d] = user[d]
  BY <1>3, <1>4 DEF ListInv, ListeningInv, LstTypeOK
<1>6. mPeerList \subseteq Conns \ {c}
  <2>1. c \notin mPeerList
    BY <1>4 DEF DebugInv, ConnInv, ServedBy, PeerListeners
  <2> QED
    BY <2>1 DEF DebugInv, ServerTypes
<1>7. CASE CommandAdd(k)
  <2>1. UNCHANGED <<mPeerList, treeVars, logVars, logged>>
    BY <1>3, <1>7 DEF CommandAdd, treeVars, logVars
  <2> QED
    BY <1>3, <1>5, <1>6, <2>1, ShownKeeps
<1>8. CASE PeerAdd(k)
  <2>1. /\ mPeerList' = mPeerList \cup {c} /\ last' = [last EXCEPT ![c] = popped] /\ TreeDue(k)
        /\ k \in PeerListeners
    BY <1>2, <1>8 DEF PeerAdd
  <2>2. /\ last' \in [Conns -> Nat] /\ last'[c] = popped /\ \A d \in Conns \ {c} : last'[d] = last[d]
    BY <1>4, <2>1 DEF ShownInv, LogInv
  <2>3. \A d \in LogPeers' : d = c \/ d \in LogPeers
    BY <1>5, <1>6, <2>1 DEF LogPeers
  <2>4. LogInv'
    BY <1>3, <1>6, <2>2, <2>3 DEF ShownInv, LogInv, LogPeers
  <2>5. /\ mProcTreePeerAdded' = (mProcTreePeerAdded \/ k = "proc")
        /\ elapsed' = IF k = "proc" THEN UpdateMs ELSE elapsed
    BY <2>1 DEF TreeDue
  <2>6. ASSUME ~ mProcTreePeerAdded', NEW d \in ProcPeers', d \notin refused' PROVE seen'[d] = mProcTree'
    <3>1. d \in ProcPeers
      BY <1>5, <1>6, <2>1, <2>5, <2>6 DEF ProcPeers
    <3> QED
      BY <1>3, <2>5, <2>6, <3>1 DEF ShownInv, TreeInv
  <2>7. TreeInv'
    BY <1>3, <2>5, <2>6 DEF ShownInv, TreeInv
  <2> QED
    BY <2>2, <2>4, <2>7 DEF ShownInv
<1> QED
  BY <1>1, <1>7, <1>8

\* The tree is sent to each peer.
LEMMA ShownSendKeeps == ASSUME ShownInv, DebugInv, ProcessTreeSend PROVE ShownInv'
<1>1. UNCHANGED <<user, mPeerList, qLogEntries, popped, last, missed, logged>> /\ part' = "logs"
  BY DEF ProcessTreeSend, logVars, outerVars
<1>2. ProcPeers' = ProcPeers /\ LogPeers' = LogPeers /\ ProcPeers \subseteq Conns
  BY <1>1 DEF ProcPeers, LogPeers, DebugInv, ServerTypes
<1>3. LogInv' /\ last' \in [Conns -> Nat]
  BY <1>1, <1>2 DEF ShownInv, LogInv
<1>4. mProcTreePeerAdded' \in BOOLEAN /\ ~ mProcTreePeerAdded' /\ \A c \in ProcPeers \ refused' : seen'[c] = mProcTree'
  <2>1. CASE mProcTreeChanged /\ elapsed < UpdateMs /\ UNCHANGED treeVars
    BY <2>1, DebuggingAssumption DEF ShownInv, TreeInv, treeVars
  <2>2. CASE ~ mProcTreePeerAdded /\ UNCHANGED <<mProcTree, mProcTreePeerAdded, elapsed, seen, refused>>
    BY <2>2 DEF ShownInv, TreeInv
  <2>3. CASE /\ mProcTreePeerAdded' = FALSE /\ mProcTree' = Tree
             /\ \E taken \in SUBSET ProcPeers : /\ seen' = [c \in Conns |-> IF c \in taken THEN Tree ELSE seen[c]]
                                               /\ refused' = ProcPeers \ taken
    BY <1>2, <2>3
  <2> QED
    BY <2>1, <2>2, <2>3 DEF ProcessTreeSend
<1> QED
  BY <1>2, <1>3, <1>4 DEF ShownInv, TreeInv

\* The entries are sent to each peer.
LEMMA ShownLogsKeep == ASSUME ShownInv, DebugInv, LogEntriesSend PROVE ShownInv'
<1>1. /\ part = "logs" /\ ~ mProcTreePeerAdded
      /\ UNCHANGED <<user, mPeerList, treeVars, logged>>
  BY DEF LogEntriesSend, outerVars, ShownInv, TreeInv
<1>2. CASE qLogEntries = <<>>
  BY <1>1, <1>2, ShownKeeps DEF LogEntriesSend
<1>3. CASE qLogEntries # <<>>
  <2>1. popped' = Head(qLogEntries) /\ qLogEntries' = Tail(qLogEntries)
    BY <1>3 DEF LogEntriesSend
  <2>2. /\ Head(qLogEntries) = popped + 1 /\ Tail(qLogEntries) \in Seq(Nat)
        /\ Len(Tail(qLogEntries)) = logged - (popped + 1)
        /\ \A i \in 1 .. logged - (popped + 1) : Tail(qLogEntries)[i] = popped + 1 + i
    BY <1>3, QueueOfLog DEF ShownInv
  <2>3. LogPeers' = LogPeers /\ LogPeers \subseteq Conns /\ ProcPeers' = ProcPeers
    BY <1>1 DEF LogPeers, ProcPeers, DebugInv, ServerTypes
  <2>7. PICK taken \in SUBSET LogPeers :
          /\ last' = [c \in Conns |-> IF c \in taken THEN popped' ELSE last[c]]
          /\ missed' = [c \in Conns |-> missed[c] \cup {n \in {popped'} : c \in LogPeers \ taken}]
    BY <1>3 DEF LogEntriesSend, LogReceivers
  <2>8. popped' = popped + 1 /\ popped \in Nat /\ last \in [Conns -> Nat]
    BY <2>1, <2>2 DEF ShownInv, LogInv
  <2>4. last' \in [Conns -> Nat]
    BY <2>7, <2>8
  <2>9. ASSUME NEW c \in LogPeers PROVE last'[c] <= popped' /\ last'[c] + 1 .. popped' \subseteq missed'[c]
    <3>1. last[c] \in Nat /\ last[c] <= popped /\ last[c] + 1 .. popped \subseteq missed[c]
      BY <2>3, <2>8 DEF ShownInv, LogInv
    <3>2. CASE c \in taken
      BY <2>3, <2>7, <2>8, <3>2
    <3>3. CASE c \notin taken
      <4>1. last'[c] = last[c] /\ missed'[c] = missed[c] \cup {popped + 1}
        BY <2>3, <2>7, <2>8, <3>3
      <4>2. last[c] + 1 .. popped + 1 \subseteq (last[c] + 1 .. popped) \cup {popped + 1}
        BY <2>8, <3>1
      <4> QED
        BY <2>8, <3>1, <4>1, <4>2
    <3> QED
      BY <3>2, <3>3
  <2>5. LogInv'
    BY <1>1, <2>1, <2>2, <2>3, <2>8, <2>9 DEF ShownInv, LogInv
  <2>6. TreeInv'
    BY <1>1, <2>3 DEF ShownInv, TreeInv, treeVars
  <2> QED
    BY <2>4, <2>5, <2>6 DEF ShownInv
<1> QED
  BY <1>2, <1>3

\* Every step.
LEMMA ShownNext == ShownInv /\ ListInv /\ DebugInv /\ [Next]_vars => ShownInv'
<1> SUFFICES ASSUME ShownInv, ListInv, DebugInv, [Next]_vars PROVE ShownInv'
  OBVIOUS
<1>0. mPeerList \subseteq Conns /\ (mProcTreePeerAdded => part = "peerAdd")
  BY DEF DebugInv, ServerTypes, ShownInv, TreeInv
<1>1. CASE ChildTick
  <2>1. UNCHANGED <<part, mPeerList, treeVars, logVars, logged>>
    BY <1>1 DEF ChildTick, outerVars
  <2>2. UNCHANGED user
    BY <1>1, Visits, ListenerEffect DEF DebugInv, ListenerTick, TransferTick, CommandTick
  <2> QED
    BY <1>0, <2>1, <2>2, ShownKeeps
<1>2. CASE ServerTick
  <2>1. part = "children"
    BY <1>2 DEF ServerTick, IsServersTurn
  <2>2. CASE PeerCheck
    BY <2>1, <2>2, ShownCheckKeeps
  <2>3. CASE ~ PeerCheck
    <3>1. UNCHANGED <<mPeerList, treeVars, logVars, logged, user>>
      BY <1>2, <2>3 DEF ServerTick, ListenersStart, ServerPass, ChildrenUnusedSet, LstStart, LstUnusedSet, lstVars, outerVars
    <3> QED
      BY <1>0, <2>1, <3>1, ShownKeeps
  <2> QED
    BY <2>2, <2>3
<1>3. CASE PeersAdd
  BY <1>3, ShownAddKeeps
<1>4. CASE ProcessTreeSend
  BY <1>4, ShownSendKeeps
<1>5. CASE LogEntriesSend
  BY <1>5, ShownLogsKeep
<1>6. CASE TimePasses
  <2>1. /\ UNCHANGED <<user, mPeerList, part, mProcTree, mProcTreePeerAdded, seen, refused, qLogEntries, popped, last,
                     missed, logged>>
        /\ ~ mProcTreePeerAdded
    BY <1>6, DebuggingAssumption DEF TimePasses, lstVars, tickVars, logVars, outerVars, ShownInv, TreeInv
  <2>2. ProcPeers' = ProcPeers /\ LogPeers' = LogPeers
    BY <2>1 DEF ProcPeers, LogPeers
  <2> QED
    BY <2>1, <2>2 DEF ShownInv, TreeInv, LogInv
<1>7. CASE EntryLogEnqueue
  <2>1. /\ UNCHANGED <<user, mPeerList, part, treeVars, popped, last, missed>>
        /\ logged' = logged + 1 /\ qLogEntries' = Append(qLogEntries, logged + 1)
    BY <1>7 DEF EntryLogEnqueue, serverVars, lstVars
  <2>2. ProcPeers' = ProcPeers /\ LogPeers' = LogPeers
    BY <2>1 DEF ProcPeers, LogPeers
  <2>3. LogInv'
    BY <2>1, <2>2, QueueOfLog DEF ShownInv, LogInv
  <2>4. TreeInv' /\ last' \in [Conns -> Nat]
    BY <2>1, <2>2 DEF ShownInv, TreeInv, treeVars
  <2> QED
    BY <2>3, <2>4 DEF ShownInv
<1>8. CASE Cancel \/ (\E c \in Conns : ClientActs(c)) \/ UNCHANGED vars
  <2>1. UNCHANGED <<user, mPeerList, part, treeVars, logVars, logged>>
    BY <1>8 DEF Cancel, ClientActs, serverVars, lstVars, tickVars, outerVars, vars
  <2> QED
    BY <1>0, <2>1, ShownKeeps
<1> QED
  BY <1>1, <1>2, <1>3, <1>4, <1>5, <1>6, <1>7, <1>8 DEF Next, Tick

\* The first states.
LEMMA ShownInit == Init => ShownInv
<1> SUFFICES ASSUME Init PROVE ShownInv
  OBVIOUS
<1>1. /\ mProcTreePeerAdded = FALSE /\ mPeerList = {} /\ logged = 0 /\ popped = 0 /\ qLogEntries = <<>>
      /\ last = [c \in Conns |-> 0]
  BY DEF Init
<1>2. ProcPeers = {} /\ LogPeers = {}
  BY <1>1 DEF ProcPeers, LogPeers
<1>3. TreeInv
  BY <1>1, <1>2 DEF TreeInv
<1>4. LogInv
  BY <1>1, <1>2 DEF LogInv
<1> QED
  BY <1>1, <1>3, <1>4 DEF ShownInv

\* What was shown, in every reachable state.
LEMMA ShownInvariance == Spec => [](ShownInv /\ ListInv /\ DebugInv)
<1>1. Init => ShownInv
  BY ShownInit
<1> QED
  BY <1>1, ShownNext, ServerInvariance, PTL DEF Spec

\* Between two ticks each peer of the process tree has the tree that was sent last, one that has
\* joined in this tick, too, unless its own connection did not take it:
\* SystemDebugging.cpp:355-359, 363-423.
THEOREM PeersSeeTheTree == Spec => [](part = "logs" => SeenByAll)
<1>1. ShownInv => (part = "logs" => SeenByAll)
  BY DEF ShownInv, TreeInv, SeenByAll
<1> QED
  BY <1>1, ShownInvariance, PTL

\* A log peer gets the entries one after the other, none twice, and lacks of those that were taken
\* from the queue since it joined only what its own connection did not take, however many threads
\* log and peers come, go and do not read: SystemDebugging.cpp:426-464.
THEOREM PeersGetEachEntry == Spec => [](IsServing => LogCurrent) /\ LogInOrder
<1>1. ShownInv => (IsServing => LogCurrent)
  BY DEF ShownInv, LogInv, LogCurrent
<1>2. /\ ShownInv /\ ShownInv' /\ ListInv /\ DebugInv /\ [Next]_vars
      => [\A c \in LogPeers \cap LogPeers' : last'[c] # last[c] =>
            last'[c] > last[c] /\ last[c] + 1 .. last'[c] - 1 \subseteq missed[c]]_vars
  <2> SUFFICES ASSUME ShownInv, ShownInv', ListInv, DebugInv, [Next]_vars, vars' # vars, NEW c \in LogPeers,
                      c \in LogPeers', last'[c] # last[c]
               PROVE  last'[c] > last[c] /\ last[c] + 1 .. last'[c] - 1 \subseteq missed[c]
    OBVIOUS
  <2>1. /\ last[c] <= popped /\ last[c] + 1 .. popped \subseteq missed[c]
        /\ popped \in Nat /\ c \in mPeerList /\ c \in mPeerList' /\ c \in Conns /\ last[c] \in Nat
    BY DEF ShownInv, LogInv, LogPeers, DebugInv, ServerTypes
  <2>2. CASE LogEntriesSend
    <3>1. qLogEntries # <<>> /\ last'[c] = Head(qLogEntries)
      BY <2>1, <2>2 DEF LogEntriesSend, logVars
    <3>2. last'[c] = popped + 1
      BY <3>1, QueueOfLog DEF ShownInv
    <3> QED
      BY <2>1, <3>2
  <2>3. CASE PeerCheck
    BY <2>1, <2>3 DEF PeerCheck
  <2>4. CASE PeersAdd
    <3>1. PICK k \in Listeners : PeerAdd(k) \/ CommandAdd(k)
      <4>1. \A i \in DOMAIN ListenerOrder : ListenerOrder[i] \in Listeners
        BY DebuggingAssumption DEF ListenerOrder
      <4> QED
        BY <2>4, <4>1 DEF PeersAdd
    <3>2. ppPeerFd[k] # <<>>
      BY <3>1 DEF PeerAdd, CommandAdd, Take
    <3>3. user[Head(ppPeerFd[k])] = "no"
      BY <3>2, HeadOfQueue
    <3>4. c # Head(ppPeerFd[k])
      BY <2>1, <3>3 DEF DebugInv, ConnInv, ServedBy, PeerListeners
    <3> QED
      BY <2>1, <3>1, <3>4 DEF PeerAdd, CommandAdd, ShownInv
  <2>5. CASE ChildTick \/ ProcessTreeSend \/ (ServerTick /\ ~ PeerCheck)
    BY <2>5 DEF ChildTick, ServerTick, ProcessTreeSend, ListenersStart, logVars
  <2>6. CASE Cancel \/ TimePasses \/ EntryLogEnqueue \/ \E d \in Conns : ClientActs(d)
    BY <2>6 DEF Cancel, TimePasses, EntryLogEnqueue, ClientActs, logVars
  <2> QED
    BY <2>2, <2>3, <2>4, <2>5, <2>6 DEF Next, Tick
<1> QED
  BY <1>1, <1>2, ShownInvariance, PTL DEF Spec, LogInOrder
=============================================================================
