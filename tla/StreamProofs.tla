---------------------------- MODULE StreamProofs ----------------------------
(***************************************************************************)
(* A tree of pipes implements PipeStream, for every tree, all sizes and    *)
(* any number of threads that commit, push and read.                       *)
(***************************************************************************)
EXTENDS PipeProofs

(* The caller's part: the pipes form a tree with the source at its top,    *)
(* which stays as it is while particles flow; only the end of the source   *)
(* is announced by its user, and readers are not pushed.                   *)
IsTree ==
    /\ Tree[Source] = NoPipe
    /\ \A c \in Pipes : Tree[c] # NoPipe => c \notin Way[Tree[c]]

StreamCalls ==
    \A t \in Threads : \A k \in Calls[t] :
        /\ k.op \in {"commit", "get", "toPushTry", "sourceDoneSet", "sinkDoneSet"}
        /\ k.op = "sourceDoneSet" => k.of = Source

StreamUse == IsTree /\ StreamCalls /\ ReadersDoNotPush

Lossless == {p \in Pipes : Way[p] \ {p} \subseteq Blocking}

(* What a pipe has accepted *)
Acc(p) == out[p] \o entries[p]

LastOut(p) == IF out[p] = <<>> THEN 0 ELSE out[p][Len(out[p])]

(* A push has taken a particle from the parent of c, and c is still to get it *)
Pending(t, c) == at[t] = "give" /\ c \in todo[t]

-----------------------------------------------------------------------------
(* Nothing but pushes are under way, in lists that do not change           *)
Static ==
    /\ children = [p \in Pipes |-> {c \in Pipes : Tree[c] = p}]
    /\ \A t \in Threads : at[t] \in PushAt \union {"idle"}
    /\ \A t \in Threads : at[t] \in {"ready", "give", "end"} =>
          todo[t] \subseteq children[call[t].of]

(* A child of a pipe that waits is not full when a particle is handed to it *)
Room ==
    \A t \in Threads : call[t].of \in Blocking =>
        /\ at[t] = "ready" => \A c \in children[call[t].of] \ todo[t] : ~Full(c)
        /\ at[t] = "pop" => \A c \in children[call[t].of] : ~Full(c)
        /\ at[t] = "give" => \A c \in todo[t] : ~Full(c)

(* The end goes down the tree behind the last particle                     *)
Ends ==
    /\ \A p \in Pipes : sourceDone[p] => sourceDone[Source]
    /\ \A c \in Pipes : sourceDone[c] /\ c # Source =>
          Tree[c] \in Pipes /\ sourceDone[Tree[c]] /\ entries[Tree[c]] = <<>>
    /\ \A t \in Threads : at[t] = "end" /\ todo[t] # {} =>
          sourceDone[call[t].of] /\ entries[call[t].of] = <<>>
    /\ \A t \in Threads, c \in Pipes : Pending(t, c) => ~sourceDone[c]
    /\ \A p \in Pipes : ended[p] => sourceDone[p] /\ entries[p] = <<>>

(* Without losses, every pipe has accepted the first particles, one after  *)
(* the other                                                               *)
Counted ==
    /\ \A p \in Lossless : \A i \in 1 .. Len(Acc(p)) : Acc(p)[i] = i
    /\ Len(Acc(Source)) = committed

(* namely all its parent has let go, but for the one that is handed out    *)
(* and those it has refused because its receiver wants no more             *)
Passed ==
    /\ \A t \in Threads : at[t] = "give" =>
          out[call[t].of] # <<>> /\ entry[t] = LastOut(call[t].of)
    /\ \A c \in Lossless : Tree[c] # NoPipe =>
          /\ Len(Acc(c)) <= Len(out[Tree[c]])
          /\ Tree[c] \notin Readers /\ ~sinkDone[c] /\ (\A t \in Threads : ~Pending(t, c))
                => Len(Acc(c)) = Len(out[Tree[c]])
    /\ \A c \in Lossless, t \in Threads : Pending(t, c) =>
          /\ Len(Acc(c)) <= Len(out[Tree[c]]) - 1
          /\ ~sinkDone[c] => Len(Acc(c)) = Len(out[Tree[c]]) - 1

(* and all there are, when it is told of the end                           *)
ToldLast ==
    \A p \in Lossless : sourceDone[p] /\ (\A q \in Way[p] : ~sinkDone[q]) =>
        Len(Acc(p)) = committed

(* With losses, the particles are still in their order, and none comes     *)
(* twice                                                                   *)
InOrder ==
    /\ \A p \in Pipes : \A i \in 1 .. Len(Acc(p)) :
          /\ Acc(p)[i] \in 1 .. committed
          /\ \A j \in 1 .. Len(Acc(p)) : i < j => Acc(p)[i] < Acc(p)[j]
    /\ \A c \in Pipes : Tree[c] # NoPipe =>
          \A i \in 1 .. Len(Acc(c)) :
              /\ Acc(c)[i] <= LastOut(Tree[c])
              /\ \A t \in Threads : Pending(t, c) => Acc(c)[i] < entry[t]

StreamInv == Static /\ Room /\ Ends /\ Counted /\ Passed /\ ToldLast /\ InOrder
-----------------------------------------------------------------------------
(* The steps that are left *)
Flows ==
    \E t \in Threads :
        Commit(t) \/ PushStep(t) \/ \E p \in Pipes : QueueCall(t, p) \/ PushBegin(t, p)

StreamBase == StreamUse /\ Types /\ Framed /\ Locks /\ Seen

\* With one source and readers on the leaves only, nothing else happens than what Flows names.
LEMMA NextFlows == StreamUse /\ Static /\ [Next]_vars => Flows \/ UNCHANGED vars
<1> SUFFICES ASSUME StreamUse, Static, Next PROVE Flows
  OBVIOUS
<1>1. ASSUME NEW t \in Threads, NEW p \in Pipes, ListCall(t, p) PROVE FALSE
  BY <1>1 DEF ListCall, ParentDisconnect, Destroy, Connect, Disconnect, Calling, StreamUse,
              StreamCalls
<1>2. ASSUME NEW t \in Threads, ListStep(t) PROVE FALSE
  BY <1>2 DEF ListStep, ChildAdd, ChildRemove, DropChild, DropDone, DestroyParents, LeaveParent,
              LeaveDone, Static, PushAt
<1> QED
  BY <1>1, <1>2 DEF Next, Step, Flows

(* A step of one thread leaves the frames of the others *)
LEMMA OtherFrames ==
    ASSUME FrameTypes, NEW t \in Threads, NEW u \in Threads, u # t,
           PushStep(t) \/ \E p \in Pipes : PushBegin(t, p)
    PROVE  at'[u] = at[u] /\ call'[u] = call[u] /\ todo'[u] = todo[u] /\ entry'[u] = entry[u]
  BY DEF FrameTypes, PushStep, PushBegin, PushCheck, PushReady, PushPop, PushGive, PushGiven,
         PushLeft, PushEnd, PushDone, Enter, Goto, Loop, Return

\* What a call that moves particles leaves alone.
LEMMA QueueCallFrames ==
    ASSUME NEW t \in Threads, Commit(t) \/ \E p \in Pipes : QueueCall(t, p)
    PROVE  UNCHANGED <<frameVars, listVars, lockVars>>
  BY DEF Commit, QueueCall, Get, GetEnd, SourceDoneSet, SinkDoneSet

\* The tree of pipes stays as it is.
LEMMA NextStatic == StreamBase /\ Static /\ [Next]_vars => Static'
<1> SUFFICES ASSUME StreamBase, Static, Flows \/ UNCHANGED vars PROVE Static'
  BY NextFlows DEF StreamBase
<1>0. FrameTypes /\ ListTypes /\ \A t \in Threads : call[t].of \in Pipes
  BY Named1 DEF StreamBase, Types
<1> USE <1>0 DEF Static
<1>1. CASE UNCHANGED <<listVars, frameVars>>
  BY <1>1 DEF listVars, frameVars
<1>2. ASSUME NEW t \in Threads, PushStep(t) PROVE Static'
  <2>0. children' = children /\ at[t] \in PushAt /\ at'[t] \in PushAt \union {"idle"}
    BY <1>2, PushMoves DEF FrameTypes, PushMove, PushDone, Return, PushAt, listVars
  <2>1. at'[t] \in {"ready", "give", "end"} =>
            todo'[t] \subseteq children[call[t].of] /\ call'[t] = call[t]
    <3>1. CASE PushCheck(t)
      <4>1. Goto(t, "left") \/ Loop(t, "ready", children[call[t].of])
        BY <3>1 DEF PushCheck
      <4>2. CASE Goto(t, "left")
        BY <4>2 DEF FrameTypes, Goto
      <4>3. CASE Loop(t, "ready", children[call[t].of])
        BY <4>3 DEF FrameTypes, Loop
      <4> QED
        BY <4>1, <4>2, <4>3
    <3>5. CASE PushPop(t)
      BY <3>5 DEF FrameTypes, PushPop
    <3>4. CASE PushLeft(t)
      <4>1. todo'[t] \in {children[call[t].of], {}} /\ call' = call
        BY <3>4 DEF FrameTypes, PushLeft, Loop
      <4> QED
        BY <4>1
    <3>2. CASE PushReady(t) \/ PushGive(t) \/ PushEnd(t)
      BY <3>2 DEF FrameTypes, PushReady, PushGive, PushEnd, AfterFull, Goto, Loop
    <3>3. CASE PushGiven(t) \/ PushDone(t)
      BY <3>3 DEF FrameTypes, PushGiven, PushDone, Goto, Return
    <3> QED
      BY <1>2, <3>1, <3>2, <3>3, <3>4, <3>5 DEF PushStep
  <2>2. \A u \in Threads \ {t} : at'[u] = at[u] /\ call'[u] = call[u] /\ todo'[u] = todo[u]
    BY <1>2, OtherFrames
  <2>3. ASSUME NEW u \in Threads, at'[u] \in {"ready", "give", "end"}
        PROVE  todo'[u] \subseteq children'[call'[u].of]
    BY <2>0, <2>1, <2>2, <2>3
  <2>4. ASSUME NEW u \in Threads PROVE at'[u] \in PushAt \union {"idle"}
    BY <2>0, <2>2
  <2> QED
    BY <2>0, <2>3, <2>4
<1>3. ASSUME NEW t \in Threads, NEW p \in Pipes, PushBegin(t, p) PROVE Static'
  BY <1>3, OtherFrames DEF FrameTypes, PushBegin, Enter, PushAt, listVars
<1> QED
  BY <1>1, <1>2, <1>3, QueueCallFrames DEF Flows, vars

-----------------------------------------------------------------------------
(* A pipe has one parent, and one push at a time *)
LEMMA OnePusher ==
    ASSUME StreamBase, Static, NEW t \in Threads, NEW u \in Threads, NEW c \in Pipes,
           at[t] \in PushAt, at[u] \in PushAt,
           c \in children[call[t].of], c \in children[call[u].of]
    PROVE  t = u
<1>1. call[t].of \in Pipes /\ call[u].of \in Pipes
  BY Named1 DEF StreamBase, Types
<1>2. call[t].of = Tree[c] /\ call[u].of = Tree[c]
  BY <1>1 DEF Static
<1> QED
  BY <1>2 DEF StreamBase, Locks, HoldsChildren

\* A child is another pipe, below its parent.
LEMMA NotItsParent ==
    ASSUME StreamBase, Static, NEW p \in Pipes, NEW c \in children[p]
    PROVE  c \in Pipes /\ Tree[c] = p /\ c # p /\ c # Source /\ c \notin Way[p]
<1>1. c \in Pipes /\ Tree[c] = p
  BY DEF Static
<1>2. p # NoPipe
  BY PipeAssumption
<1>3. c \notin Way[p]
  BY <1>1, <1>2 DEF StreamBase, StreamUse, IsTree
<1>4. p \in Way[p]
  BY DEF Way
<1> QED
  BY <1>1, <1>2, <1>3, <1>4 DEF StreamBase, StreamUse, IsTree

\* A pipe that is taken from does not become full.
LEMMA TakeMakesRoom ==
    ASSUME QueueTypes, NEW p \in Pipes, entries[p] # <<>>,
           entries' = [entries EXCEPT ![p] = Tail(@)],
           NEW c \in Pipes, Full(c)'
    PROVE  Full(c)
<1>1. entries[c] \in Seq(Nat) /\ SizeMax[c] \in Nat
  BY PipeAssumption DEF QueueTypes
<1>2. CASE c # p
  BY <1>2 DEF QueueTypes, Full
<1>3. CASE c = p
  <2>1. entries'[c] = Tail(entries[c])
    BY <1>3 DEF QueueTypes
  <2>2. Len(Tail(entries[c])) <= Len(entries[c])
    BY <1>1, <1>3
  <2> QED
    BY <1>1, <2>1, <2>2 DEF Full
<1> QED
  BY <1>2, <1>3

\* A particle in the hands of a push has a place in every child that has not got it.
LEMMA NextRoom == StreamBase /\ Static /\ Room /\ [Next]_vars => Room'
<1> SUFFICES ASSUME StreamBase, Static, Room, Flows \/ UNCHANGED vars PROVE Room'
  BY NextFlows DEF StreamBase
<1>0. /\ FrameTypes /\ QueueTypes /\ \A t \in Threads : call[t].of \in Pipes
      /\ \A t \in Threads : at[t] \in {"ready", "pop", "give"} => at[t] \in PushAt
  BY Named1 DEF StreamBase, Types, PushAt
<1>p. \A p \in Pipes : children[p] \subseteq Pipes
  BY DEF Static
\* what is free before a step of nobody who gives stays free
<1>1. ASSUME UNCHANGED <<children, at, call, todo>>,
             \A c \in Pipes : Tree[c] # NoPipe /\ Full(c)' => Full(c)
      PROVE  Room'
  <2>1. \A p \in Pipes, c \in Pipes : c \in children[p] => Tree[c] # NoPipe
    BY PipeAssumption DEF Static
  <2> QED
    BY <1>0, <1>1, <2>1, <1>p DEF Room, Static
<1>2. ASSUME NEW t \in Threads, PushStep(t) PROVE Room'
  <2> DEFINE p == call[t].of
  <2>1. children' = children
    BY <1>2, PushMoves DEF PushMove, PushDone, listVars
  \* the others have other children
  <2>2. ASSUME NEW u \in Threads \ {t}, NEW c \in children[call[u].of],
               at[u] \in {"ready", "pop", "give"}, Full(c)'
        PROVE  Full(c)
    <3>1. c \in Pipes /\ call[u].of \in Pipes /\ Tree[c] = call[u].of
      BY <1>0, NotItsParent
    <3>2. CASE PushPop(t)
      BY <1>0, <2>2, <3>1, <3>2, TakeMakesRoom DEF PushPop
    <3>3. CASE PushGive(t)
      <4>1. PICK d \in todo[t] :
                entries' = IF Accepts(d) THEN [entries EXCEPT ![d] = Append(@, entry[t])]
                                         ELSE entries
        BY <3>3 DEF PushGive
      <4>2. d \in children[p] /\ at[t] \in PushAt
        BY <3>3, <4>1 DEF PushGive, Static, PushAt
      <4>3. c # d
        BY <1>0, <2>2, <3>1, <4>2, OnePusher
      <4> QED
        BY <1>0, <2>2, <3>1, <4>1, <4>3 DEF Full, QueueTypes
    <3>4. CASE ~PushPop(t) /\ ~PushGive(t)
      BY <1>2, <2>2, <3>4 DEF PushStep, PushCheck, PushReady, PushGiven, PushLeft, PushEnd, PushDone,
                        queueVars, Full
    <3> QED
      BY <3>2, <3>3, <3>4
  <2>3. ASSUME NEW u \in Threads \ {t}, call'[u].of \in Blocking
        PROVE  /\ at'[u] = "ready" => \A c \in children'[call'[u].of] \ todo'[u] : ~Full(c)'
               /\ at'[u] = "pop" => \A c \in children'[call'[u].of] : ~Full(c)'
               /\ at'[u] = "give" => \A c \in todo'[u] : ~Full(c)'
    <3>1. at'[u] = at[u] /\ call'[u] = call[u] /\ todo'[u] = todo[u]
      BY <1>0, <1>2, OtherFrames
    <3> QED
      BY <2>1, <2>2, <2>3, <3>1 DEF Room, Static
  <2>4. ASSUME call'[t].of \in Blocking
        PROVE  /\ at'[t] = "ready" => \A c \in children[call'[t].of] \ todo'[t] : ~Full(c)'
               /\ at'[t] = "pop" => \A c \in children[call'[t].of] : ~Full(c)'
               /\ at'[t] = "give" => \A c \in todo'[t] : ~Full(c)'
    <3>1. CASE PushCheck(t)
      BY <1>0, <3>1 DEF FrameTypes, PushCheck, Goto, Loop
    <3>2. CASE PushReady(t)
      <4>1. UNCHANGED entries /\ call' = call /\ at[t] = "ready"
        BY <3>2 DEF PushReady, queueVars, Goto, Loop
      <4>2. CASE todo[t] = {} /\ Goto(t, "pop")
        BY <1>0, <2>4, <4>1, <4>2 DEF FrameTypes, Goto, Room, Full
      <4>3. CASE \E c \in todo[t] : ~Full(c) /\ Loop(t, "ready", todo[t] \ {c})
        BY <1>0, <2>4, <4>1, <4>3 DEF FrameTypes, Loop, Room, Full
      <4>4. CASE Goto(t, AfterFull(p))
        BY <1>0, <2>4, <4>1, <4>4 DEF FrameTypes, Goto, AfterFull
      <4> QED
        BY <3>2, <4>2, <4>3, <4>4 DEF PushReady
    <3>3. CASE PushPop(t)
      <4>1. /\ at[t] = "pop" /\ at'[t] = "give" /\ call' = call /\ todo'[t] = children[p]
            /\ entries' = [entries EXCEPT ![p] = Tail(@)]
        BY <1>0, <3>3 DEF FrameTypes, PushPop
      <4>2. \A c \in children[p] : c \in Pipes /\ c # p
        BY <1>0, NotItsParent
      <4>3. \A c \in children[p] : Full(c)' <=> Full(c)
        BY <1>0, <4>1, <4>2 DEF Full, QueueTypes
      <4> QED
        BY <2>4, <4>1, <4>3 DEF Room
    <3>4. CASE PushGive(t)
      <4>1. PICK d \in todo[t] :
                /\ entries' = IF Accepts(d) THEN [entries EXCEPT ![d] = Append(@, entry[t])]
                                            ELSE entries
                /\ Loop(t, "give", todo[t] \ {d})
        BY <3>4 DEF PushGive
      <4>2. /\ at[t] = "give" /\ at'[t] = "give" /\ call' = call /\ todo'[t] = todo[t] \ {d}
            /\ todo[t] \subseteq Pipes
        BY <1>0, <3>4, <4>1 DEF FrameTypes, PushGive, Loop
      <4>3. \A c \in todo[t] \ {d} : Full(c)' <=> Full(c)
        BY <1>0, <4>1, <4>2 DEF Full, QueueTypes
      <4> QED
        BY <2>4, <4>2, <4>3 DEF Room
    <3>5. CASE PushGiven(t) \/ PushLeft(t) \/ PushEnd(t) \/ PushDone(t)
      BY <1>0, <3>5 DEF FrameTypes, PushGiven, PushLeft, PushEnd, PushDone, Goto, Loop, Return
    <3> QED
      BY <1>2, <3>1, <3>2, <3>3, <3>4, <3>5 DEF PushStep
  <2> QED
    BY <2>1, <2>3, <2>4 DEF Room
<1>3. ASSUME NEW t \in Threads, NEW p \in Pipes, PushBegin(t, p) PROVE Room'
  <2>1. at'[t] = "check" /\ \A u \in Threads \ {t} :
            at'[u] = at[u] /\ call'[u] = call[u] /\ todo'[u] = todo[u]
    BY <1>0, <1>3, OtherFrames DEF FrameTypes, PushBegin, Enter
  <2>2. children' = children /\ entries' = entries
    BY <1>3 DEF PushBegin, listVars, queueVars
  <2> QED
    BY <2>1, <2>2 DEF Room, Full
<1>4. ASSUME NEW t \in Threads, Commit(t) PROVE Room'
  <2>1. Tree[Source] = NoPipe
    BY DEF StreamBase, StreamUse, IsTree
  <2>2. \A c \in Pipes : Tree[c] # NoPipe => entries'[c] = entries[c]
    BY <1>0, <1>4, <2>1 DEF Commit, QueueTypes
  <2> QED
    BY <1>1, <1>4, <2>2 DEF Commit, listVars, frameVars, Full
<1>5. ASSUME NEW t \in Threads, NEW p \in Pipes, QueueCall(t, p) PROVE Room'
  <2>1. \A c \in Pipes : Full(c)' => Full(c)
    <3>1. CASE Get(t, p)
      BY <1>0, <3>1, TakeMakesRoom DEF Get
    <3>2. CASE ~Get(t, p)
      BY <1>5, <3>2 DEF QueueCall, GetEnd, SourceDoneSet, SinkDoneSet, Full
    <3> QED
      BY <3>1, <3>2
  <2> QED
    BY <1>1, <1>5, <2>1, QueueCallFrames DEF listVars, frameVars
<1>6. CASE UNCHANGED vars
  BY <1>1, <1>6 DEF vars, queueVars, listVars, frameVars, Full
<1> QED
  BY <1>2, <1>3, <1>4, <1>5, <1>6 DEF Flows

-----------------------------------------------------------------------------
(* The end: a queue that is empty and closed stays so *)
LEMMA EmptyStays ==
    ASSUME StreamBase, Static, Flows \/ UNCHANGED vars, NEW p \in Pipes, sourceDone[p]
    PROVE  sourceDone'[p] /\ (entries[p] = <<>> => entries'[p] = <<>>)
<1>0. FrameTypes /\ QueueTypes /\ \A t \in Threads : call[t].of \in Pipes
  BY Named1 DEF StreamBase, Types
<1> USE <1>0 DEF QueueTypes
<1>1. ASSUME NEW t \in Threads, Commit(t) PROVE UNCHANGED sourceDone /\ entries'[p] = entries[p]
  BY <1>1 DEF Commit, Accepts
<1>2. ASSUME NEW t \in Threads, NEW q \in Pipes, QueueCall(t, q)
      PROVE  sourceDone'[p] /\ (entries[p] = <<>> => entries'[p] = <<>>)
  BY <1>2 DEF QueueCall, Get, GetEnd, SourceDoneSet, SinkDoneSet
<1>3. ASSUME NEW t \in Threads, PushStep(t)
      PROVE  sourceDone'[p] /\ (entries[p] = <<>> => entries'[p] = <<>>)
  <2>1. CASE PushPop(t)
    BY <2>1 DEF PushPop
  <2>2. CASE PushGive(t)
    BY <2>2 DEF PushGive, Accepts
  <2>3. CASE PushEnd(t)
    BY <2>3 DEF PushEnd
  <2> QED
    BY <1>3, <2>1, <2>2, <2>3 DEF PushStep, PushCheck, PushReady, PushGiven, PushLeft, PushDone,
                                 queueVars
<1> QED
  BY <1>1, <1>2, <1>3 DEF Flows, vars, queueVars, PushBegin

(* Who tells whom of the end *)
LEMMA NewEnd ==
    ASSUME StreamBase, Static, Ends, Flows \/ UNCHANGED vars,
           NEW c \in Pipes, sourceDone'[c], ~sourceDone[c]
    PROVE  \/ c = Source
           \/ /\ c # Source /\ Tree[c] \in Pipes /\ sourceDone[Tree[c]] /\ entries[Tree[c]] = <<>>
              /\ \E t \in Threads : at[t] = "end" /\ c \in children[call[t].of]
<1>0. FrameTypes /\ QueueTypes /\ \A t \in Threads : call[t].of \in Pipes
  BY Named1 DEF StreamBase, Types
<1>1. ASSUME NEW t \in Threads, NEW q \in Pipes, QueueCall(t, q) PROVE c = Source
  BY <1>0, <1>1 DEF QueueCall, Get, GetEnd, SourceDoneSet, SinkDoneSet, Calling, StreamBase,
                    StreamUse, StreamCalls, QueueTypes
<1>2. ASSUME NEW t \in Threads, PushEnd(t)
      PROVE  /\ c # Source /\ Tree[c] \in Pipes /\ sourceDone[Tree[c]] /\ entries[Tree[c]] = <<>>
             /\ at[t] = "end" /\ c \in children[call[t].of]
  <2>1. c \in todo[t] /\ at[t] = "end"
    BY <1>0, <1>2 DEF PushEnd, QueueTypes
  <2>2. c \in children[call[t].of]
    BY <2>1 DEF Static
  <2>3. sourceDone[call[t].of] /\ entries[call[t].of] = <<>>
    BY <2>1 DEF Ends
  <2> QED
    BY <1>0, <2>1, <2>2, <2>3, NotItsParent
<1>3. ASSUME NEW t \in Threads, PushStep(t), ~PushEnd(t) PROVE UNCHANGED sourceDone
  BY <1>3 DEF PushStep, PushCheck, PushReady, PushPop, PushGive, PushGiven, PushLeft, PushDone,
              queueVars
<1>4. CASE UNCHANGED sourceDone
  BY <1>4
<1> QED
  BY <1>1, <1>2, <1>3, <1>4 DEF Flows, Commit, PushBegin, vars, queueVars

(* What is still to be handed out was taken by a pop *)
LEMMA NewPending ==
    ASSUME StreamBase, Static, NEW t \in Threads, NEW c, Pending(t, c)', ~Pending(t, c),
           Flows \/ UNCHANGED vars
    PROVE  PushPop(t) /\ c \in children[call[t].of]
<1>0. FrameTypes
  BY DEF StreamBase, Types
<1>1. PushStep(t)
  <2>1. ASSUME NEW u \in Threads, PushStep(u) \/ \E p \in Pipes : PushBegin(u, p), u # t
        PROVE  FALSE
    BY <1>0, <2>1, OtherFrames DEF Pending
  <2>2. ASSUME NEW p \in Pipes, PushBegin(t, p) PROVE FALSE
    BY <1>0, <2>2 DEF PushBegin, Enter, FrameTypes, Pending
  <2> QED
    BY <2>1, <2>2, QueueCallFrames DEF Flows, vars, frameVars, Pending
<1>2. CASE PushPop(t)
  BY <1>0, <1>2 DEF PushPop, Pending, FrameTypes
<1>3. CASE PushGive(t)
  BY <1>0, <1>3 DEF PushGive, Loop, Pending, FrameTypes
<1>4. CASE PushCheck(t) \/ PushReady(t)
  <2>1. at'[t] # "give"
    BY <1>0, <1>4 DEF PushCheck, PushReady, Goto, Loop, AfterFull, FrameTypes
  <2> QED
    BY <2>1 DEF Pending
<1>5. CASE PushGiven(t) \/ PushLeft(t) \/ PushEnd(t) \/ PushDone(t)
  <2>1. at'[t] # "give"
    BY <1>0, <1>5 DEF PushGiven, PushLeft, PushEnd, PushDone, Goto, Loop, Return, FrameTypes
  <2> QED
    BY <2>1 DEF Pending
<1> QED
  BY <1>1, <1>2, <1>3, <1>4, <1>5 DEF PushStep

\* Every step keeps the ends.
LEMMA NextEnds == StreamBase /\ Static /\ Ends /\ [Next]_vars => Ends'
<1> SUFFICES ASSUME StreamBase, Static, Ends, Flows \/ UNCHANGED vars PROVE Ends'
  BY NextFlows DEF StreamBase
<1>0. /\ FrameTypes /\ QueueTypes /\ Seen
      /\ \A t \in Threads : call[t].of \in Pipes
      /\ \A t \in Threads : at[t] \in {"give", "end"} => at[t] \in PushAt
      /\ Source \in Pipes
  BY Named1, PipeAssumption DEF StreamBase, Types, PushAt
<1>1. ASSUME NEW p \in Pipes, sourceDone'[p] PROVE sourceDone'[Source]
  BY <1>0, <1>1, NewEnd, EmptyStays DEF Ends
<1>2. ASSUME NEW c \in Pipes, sourceDone'[c], c # Source
      PROVE  Tree[c] \in Pipes /\ sourceDone'[Tree[c]] /\ entries'[Tree[c]] = <<>>
  <2>1. Tree[c] \in Pipes /\ sourceDone[Tree[c]] /\ entries[Tree[c]] = <<>>
    BY <1>2, NewEnd DEF Ends
  <2> QED
    BY <2>1, EmptyStays
<1>3. ASSUME NEW t \in Threads, at'[t] = "end", todo'[t] # {}
      PROVE  sourceDone'[call'[t].of] /\ entries'[call'[t].of] = <<>>
  <2>1. CASE at[t] = "end" /\ todo[t] # {} /\ call'[t] = call[t]
    BY <1>0, <2>1, EmptyStays DEF Ends
  <2>2. CASE PushLeft(t)
    <3>1. call'[t] = call[t] /\ sourceDone' = sourceDone /\ entries' = entries
          /\ NothingLeft(call[t].of)
      BY <1>0, <1>3, <2>2 DEF PushLeft, Loop, FrameTypes, queueVars
    <3> QED
      BY <3>1 DEF NothingLeft
  <2>3. CASE PushEnd(t)
    <3>1. at[t] = "end" /\ todo[t] # {} /\ call'[t] = call[t]
      BY <1>0, <2>3 DEF PushEnd, Loop
    <3> QED
      BY <2>1, <3>1
  <2>4. ASSUME NEW u \in Threads, u # t, PushStep(u) \/ \E p \in Pipes : PushBegin(u, p)
        PROVE  at[t] = "end" /\ todo[t] # {} /\ call'[t] = call[t]
    BY <1>0, <1>3, <2>4, OtherFrames
  <2>5. ASSUME NEW p \in Pipes, PushBegin(t, p) PROVE FALSE
    BY <1>0, <1>3, <2>5 DEF PushBegin, Enter, FrameTypes
  <2>6. ASSUME PushStep(t), ~PushLeft(t), ~PushEnd(t) PROVE FALSE
    <3>1. CASE PushCheck(t) \/ PushReady(t)
      BY <1>0, <1>3, <3>1 DEF PushCheck, PushReady, AfterFull, Goto, Loop, FrameTypes
    <3>2. CASE PushPop(t) \/ PushGive(t)
      BY <1>0, <1>3, <3>2 DEF PushPop, PushGive, Loop, FrameTypes
    <3>3. CASE PushGiven(t) \/ PushDone(t)
      BY <1>0, <1>3, <3>3 DEF PushGiven, PushDone, Goto, Return, FrameTypes
    <3> QED
      BY <2>6, <3>1, <3>2, <3>3 DEF PushStep
  <2> QED
    BY <1>3, <2>1, <2>2, <2>3, <2>4, <2>5, <2>6, QueueCallFrames DEF Flows, vars, frameVars
<1>4. ASSUME NEW t \in Threads, NEW c \in Pipes, Pending(t, c)', sourceDone'[c] PROVE FALSE
  <2>1. CASE Pending(t, c)
    <3>1. ~sourceDone[c] /\ c \in children[call[t].of] /\ at[t] = "give"
      BY <2>1 DEF Ends, Static, Pending
    <3>2. c # Source
      BY <1>0, <3>1, NotItsParent
    <3>3. PICK u \in Threads : at[u] = "end" /\ c \in children[call[u].of]
      BY <1>4, <3>1, <3>2, NewEnd
    <3> QED
      BY <1>0, <3>1, <3>3, OnePusher
  <2>2. CASE ~Pending(t, c)
    <3>1. PushPop(t) /\ c \in children[call[t].of]
      BY <1>4, <2>2, NewPending
    <3>2. entries[call[t].of] # <<>> /\ sourceDone' = sourceDone
      BY <3>1 DEF PushPop
    <3>3. c # Source /\ Tree[c] = call[t].of
      BY <1>0, <3>1, NotItsParent
    <3> QED
      BY <1>4, <3>2, <3>3 DEF Ends
  <2> QED
    BY <2>1, <2>2
<1>5. ASSUME NEW p \in Pipes, ended'[p] PROVE sourceDone'[p] /\ entries'[p] = <<>>
  <2>1. CASE ended[p]
    BY <2>1, EmptyStays DEF Ends
  <2>2. CASE ~ended[p]
    <3>1. sourceDone[p] /\ entries[p] = <<>>
      <4>1. ASSUME NEW t \in Threads, NEW q \in Pipes, QueueCall(t, q)
            PROVE  sourceDone[p] /\ entries[p] = <<>>
        BY <1>0, <1>5, <2>2, <4>1
           DEF QueueCall, Get, GetEnd, SourceDoneSet, SinkDoneSet, QueueTypes
      <4>2. ASSUME NEW t \in Threads, PushStep(t) PROVE FALSE
        BY <1>5, <2>2, <4>2
           DEF PushStep, PushCheck, PushReady, PushPop, PushGive, PushGiven, PushLeft, PushEnd,
               PushDone, queueVars
      <4> QED
        BY <1>5, <2>2, <4>1, <4>2 DEF Flows, Commit, PushBegin, vars, queueVars
    <3> QED
      BY <3>1, EmptyStays
  <2> QED
    BY <2>1, <2>2
<1> QED
  BY <1>1, <1>2, <1>3, <1>4, <1>5 DEF Ends

-----------------------------------------------------------------------------
(* Particles in the two halves of what a pipe has accepted *)
LEMMA TakenSeq ==
    ASSUME NEW s \in Seq(Nat), NEW q \in Seq(Nat), q # <<>>
    PROVE  /\ Append(s, Head(q)) \o Tail(q) = s \o q
           /\ Len(s) + 1 <= Len(s \o q) /\ (s \o q)[Len(s) + 1] = Head(q)
<1> DEFINE first == <<Head(q)>>
<1>1. first \in Seq(Nat) /\ Tail(q) \in Seq(Nat)
  OBVIOUS
<1>2. first \o Tail(q) = q
  <2>1. first \o Tail(q) \in Seq(Nat) /\ Len(first \o Tail(q)) = Len(q)
    OBVIOUS
  <2>2. \A i \in 1 .. Len(q) : q[i] = (first \o Tail(q))[i]
    OBVIOUS
  <2> QED
    BY <2>1, <2>2, SeqEqual
<1>3. Append(s, Head(q)) = s \o first
  BY AppendIsConcat
<1>4. (s \o first) \o Tail(q) = s \o (first \o Tail(q))
  BY <1>1, ConcatAssociative, SMTT(30)
<1>5. Len(s) + 1 <= Len(s \o q) /\ (s \o q)[Len(s) + 1] = Head(q)
  OBVIOUS
<1> QED
  BY <1>2, <1>3, <1>4, <1>5

\* A particle is put behind the others.
LEMMA PutSeq ==
    ASSUME NEW s \in Seq(Nat), NEW q \in Seq(Nat), NEW n \in Nat
    PROVE  /\ Len(s \o Append(q, n)) = Len(s \o q) + 1
           /\ \A i \in 1 .. Len(s \o q) : (s \o Append(q, n))[i] = (s \o q)[i]
           /\ (s \o Append(q, n))[Len(s \o q) + 1] = n
  OBVIOUS

\* Where the elements of a joined sequence come from.
LEMMA JoinedSeq ==
    ASSUME NEW s \in Seq(Nat), NEW q \in Seq(Nat)
    PROVE  /\ s \o q \in Seq(Nat) /\ Len(s \o q) = Len(s) + Len(q)
           /\ Len(s \o q) \in Nat /\ Len(s) \in Nat /\ Len(q) \in Nat
           /\ \A i \in 1 .. Len(s) : (s \o q)[i] = s[i]
           /\ s # <<>> => Len(s) \in 1 .. Len(s \o q)
  OBVIOUS

\* Where the elements of an appended sequence come from.
LEMMA AppendedSeq ==
    ASSUME NEW s \in Seq(Nat), NEW n \in Nat
    PROVE  /\ Len(Append(s, n)) = Len(s) + 1 /\ Append(s, n)[Len(s) + 1] = n
           /\ Append(s, n) # <<>>
  BY AppendProperties

\* The account of a pipe: what has left it and what waits.
LEMMA AccTypes ==
    ASSUME QueueTypes, NEW p \in Pipes
    PROVE  /\ Acc(p) \in Seq(Nat) /\ Len(Acc(p)) \in Nat /\ Len(out[p]) \in Nat
           /\ Len(Acc(p)) = Len(out[p]) + Len(entries[p]) /\ Len(entries[p]) \in Nat
           /\ \A i \in 1 .. Len(out[p]) : Acc(p)[i] = out[p][i]
           /\ out[p] # <<>> => LastOut(p) = Acc(p)[Len(out[p])] /\ Len(out[p]) \in 1 .. Len(Acc(p))
<1>1. out[p] \in Seq(Nat) /\ entries[p] \in Seq(Nat)
  BY DEF QueueTypes
<1>2. /\ Acc(p) \in Seq(Nat) /\ Len(Acc(p)) \in Nat /\ Len(out[p]) \in Nat
      /\ Len(Acc(p)) = Len(out[p]) + Len(entries[p]) /\ Len(entries[p]) \in Nat
      /\ \A i \in 1 .. Len(out[p]) : Acc(p)[i] = out[p][i]
      /\ out[p] # <<>> => Len(out[p]) \in 1 .. Len(Acc(p))
  BY <1>1, JoinedSeq DEF Acc
<1>3. ASSUME out[p] # <<>> PROVE LastOut(p) = Acc(p)[Len(out[p])]
  <2>1. Len(out[p]) \in 1 .. Len(out[p]) /\ LastOut(p) = out[p][Len(out[p])]
    BY <1>1, <1>2, <1>3 DEF LastOut
  <2> QED
    BY <1>2, <2>1
<1> QED
  BY <1>2, <1>3

(* A particle moves on within a pipe *)
Takes(p) ==
    /\ entries[p] # <<>>
    /\ out' = [out EXCEPT ![p] = Append(@, Head(entries[p]))]
    /\ entries' = [entries EXCEPT ![p] = Tail(@)]

\* Taking moves a particle inside of the account.
LEMMA AccTaken ==
    ASSUME QueueTypes, NEW p \in Pipes, Takes(p)
    PROVE  /\ \A q \in Pipes : Acc(q)' = Acc(q)
           /\ \A q \in Pipes \ {p} : out'[q] = out[q]
           /\ out'[p] # <<>> /\ Len(out'[p]) = Len(out[p]) + 1
           /\ LastOut(p)' = Head(entries[p])
           /\ Len(out[p]) + 1 <= Len(Acc(p)) /\ Acc(p)[Len(out[p]) + 1] = Head(entries[p])
<1>1. out[p] \in Seq(Nat) /\ entries[p] \in Seq(Nat) /\ Head(entries[p]) \in Nat
  BY TakeTypes DEF QueueTypes, Takes
<1>2. /\ out'[p] = Append(out[p], Head(entries[p])) /\ entries'[p] = Tail(entries[p])
      /\ \A q \in Pipes \ {p} : out'[q] = out[q] /\ entries'[q] = entries[q]
  BY DEF QueueTypes, Takes
<1>3. /\ Len(out'[p]) = Len(out[p]) + 1 /\ out'[p][Len(out[p]) + 1] = Head(entries[p])
      /\ out'[p] # <<>>
  <2>1. \A s \in Seq(Nat), n \in Nat : /\ Len(Append(s, n)) = Len(s) + 1
                                       /\ Append(s, n)[Len(s) + 1] = n /\ Append(s, n) # <<>>
    BY AppendedSeq
  <2>2. /\ Len(Append(out[p], Head(entries[p]))) = Len(out[p]) + 1
        /\ Append(out[p], Head(entries[p]))[Len(out[p]) + 1] = Head(entries[p])
        /\ Append(out[p], Head(entries[p])) # <<>>
    BY ONLY <1>1, <2>1
  <2> QED
    BY ONLY <1>2, <2>2, Zenon
<1>4. Acc(p)' = Acc(p) /\ Len(out[p]) + 1 <= Len(Acc(p))
      /\ Acc(p)[Len(out[p]) + 1] = Head(entries[p])
  BY <1>1, <1>2, TakenSeq, ZenonT(40) DEF Acc, Takes
<1>5. LastOut(p)' = Head(entries[p])
  BY <1>3 DEF LastOut
<1>6. \A q \in Pipes \ {p} : Acc(q)' = Acc(q)
  BY <1>2 DEF Acc
<1> QED
  BY <1>2, <1>3, <1>4, <1>5, <1>6

(* A pipe accepts a particle *)
LEMMA AccPut ==
    ASSUME QueueTypes, NEW c \in Pipes, NEW n \in Nat, UNCHANGED out,
           entries' = [entries EXCEPT ![c] = Append(@, n)]
    PROVE  /\ \A q \in Pipes \ {c} : Acc(q)' = Acc(q)
           /\ Len(Acc(c)') = Len(Acc(c)) + 1
           /\ \A i \in 1 .. Len(Acc(c)) : Acc(c)'[i] = Acc(c)[i]
           /\ Acc(c)'[Len(Acc(c)) + 1] = n
<1>1. out[c] \in Seq(Nat) /\ entries[c] \in Seq(Nat)
  BY DEF QueueTypes
<1>2. entries'[c] = Append(entries[c], n) /\ \A q \in Pipes \ {c} : entries'[q] = entries[q]
  BY DEF QueueTypes
<1>3. \A q \in Pipes \ {c} : Acc(q)' = Acc(q)
  BY <1>2 DEF Acc
<1>4. Acc(c)' = out[c] \o Append(entries[c], n) /\ Acc(c) = out[c] \o entries[c]
  BY <1>2 DEF Acc
<1>5. /\ Len(out[c] \o Append(entries[c], n)) = Len(out[c] \o entries[c]) + 1
      /\ \A i \in 1 .. Len(out[c] \o entries[c]) :
            (out[c] \o Append(entries[c], n))[i] = (out[c] \o entries[c])[i]
      /\ (out[c] \o Append(entries[c], n))[Len(out[c] \o entries[c]) + 1] = n
  BY <1>1, PutSeq, ZenonT(40)
<1> HIDE DEF Acc
<1>6. /\ Len(Acc(c)') = Len(Acc(c)) + 1
      /\ \A i \in 1 .. Len(Acc(c)) : Acc(c)'[i] = Acc(c)[i]
      /\ Acc(c)'[Len(Acc(c)) + 1] = n
  BY ONLY <1>4, <1>5, Zenon
<1> QED
  BY <1>3, <1>6

\* The way to a child goes over its parent.
LEMMA WayUp ==
    ASSUME StreamUse, NEW c \in Pipes, Tree[c] # NoPipe
    PROVE  /\ Tree[c] \in Pipes /\ Way[Tree[c]] \subseteq Way[c]
           /\ c \in Way[c] /\ Tree[c] \in Way[c] /\ Tree[c] # c
           /\ c \in Lossless => Tree[c] \in Lossless /\ Tree[c] \in Blocking
<1>1. Tree[c] \in Pipes
  BY PipeAssumption
<1>2. c \in Way[c] /\ Tree[c] \in Way[c] /\ Tree[c] \in Way[Tree[c]]
  BY <1>1 DEF Way
<1>3. Way[Tree[c]] \subseteq Way[c]
  <2> SUFFICES ASSUME NEW q \in Pipes,
                      \A S \in SUBSET Pipes :
                          Tree[c] \in S /\ (\A r \in S : Tree[r] \in S \union {NoPipe}) => q \in S,
                      NEW S \in SUBSET Pipes, c \in S,
                      \A r \in S : Tree[r] \in S \union {NoPipe}
               PROVE  q \in S
    BY <1>1 DEF Way
  <2>1. Tree[c] \in S
    OBVIOUS
  <2> QED
    BY <2>1
<1>4. c \notin Way[Tree[c]]
  BY DEF StreamUse, IsTree
<1> QED
  BY <1>1, <1>2, <1>3, <1>4 DEF Lossless

-----------------------------------------------------------------------------
(* The five kinds of steps *)
LEMMA Kinds ==
    ASSUME Flows \/ UNCHANGED vars
    PROVE  \/ \E t \in Threads : Commit(t)
           \/ \E t \in Threads, p \in Pipes : Get(t, p)
           \/ \E t \in Threads : PushPop(t)
           \/ \E t \in Threads : PushGive(t)
           \/ /\ UNCHANGED <<entries, out, committed>>
              /\ \A t \in Threads : ~PushPop(t) /\ ~PushGive(t)
<1>1. ASSUME NEW t \in Threads, NEW p \in Pipes, QueueCall(t, p), ~Get(t, p)
      PROVE  UNCHANGED <<entries, out, committed>>
  BY <1>1 DEF QueueCall, GetEnd, SourceDoneSet, SinkDoneSet
<1>2. ASSUME NEW t \in Threads, PushStep(t), ~PushPop(t), ~PushGive(t)
      PROVE  UNCHANGED <<entries, out, committed>>
  BY <1>2 DEF PushStep, PushCheck, PushReady, PushGiven, PushLeft, PushEnd, PushDone, queueVars
<1>3. ASSUME NEW t \in Threads, NEW p \in Pipes, PushBegin(t, p)
      PROVE  UNCHANGED <<entries, out, committed>>
  BY <1>3 DEF PushBegin, queueVars
<1>4. CASE UNCHANGED vars
  BY <1>4 DEF vars, queueVars
<1> QED
  BY <1>1, <1>2, <1>3, <1>4 DEF Flows

(* Pop and give are the steps of a thread that change what it hands out    *)
LEMMA PendingStays ==
    ASSUME StreamBase, Static, Flows \/ UNCHANGED vars, NEW t \in Threads,
           ~PushPop(t), ~PushGive(t)
    PROVE  /\ \A c : Pending(t, c)' <=> Pending(t, c)
           /\ at'[t] = "give" => at[t] = "give" /\ call'[t] = call[t] /\ entry'[t] = entry[t]
<1>0. FrameTypes
  BY DEF StreamBase, Types
<1>1. CASE at'[t] = at[t] /\ call'[t] = call[t] /\ todo'[t] = todo[t] /\ entry'[t] = entry[t]
  BY <1>1 DEF Pending
<1>2. ASSUME NEW u \in Threads, u # t, PushStep(u) \/ \E p \in Pipes : PushBegin(u, p)
      PROVE  at'[t] = at[t] /\ call'[t] = call[t] /\ todo'[t] = todo[t] /\ entry'[t] = entry[t]
  BY <1>0, <1>2, OtherFrames
<1>3. CASE at'[t] # "give" /\ (at[t] = "give" => todo[t] = {})
  BY <1>3 DEF Pending
<1>4. ASSUME NEW p \in Pipes, PushBegin(t, p)
      PROVE  at'[t] # "give" /\ at[t] # "give"
  BY <1>0, <1>4 DEF PushBegin, Calling, Enter, FrameTypes
<1>5. ASSUME PushStep(t) PROVE at'[t] # "give" /\ (at[t] = "give" => todo[t] = {})
  <2>1. CASE PushCheck(t) \/ PushReady(t)
    BY <1>0, <2>1 DEF PushCheck, PushReady, Goto, Loop, AfterFull, FrameTypes
  <2>2. CASE PushGiven(t) \/ PushLeft(t) \/ PushEnd(t) \/ PushDone(t)
    BY <1>0, <2>2 DEF PushGiven, PushLeft, PushEnd, PushDone, Goto, Loop, Return, FrameTypes
  <2> QED
    BY <1>5, <2>1, <2>2 DEF PushStep
<1> QED
  BY <1>1, <1>2, <1>3, <1>4, <1>5, QueueCallFrames DEF Flows, vars, frameVars

(* A pop takes a particle out of the pipe that is pushed; nobody else does *)
LEMMA PopEffect ==
    ASSUME StreamBase, NEW t \in Threads, PushPop(t)
    PROVE  /\ call[t].of \in Pipes /\ Takes(call[t].of)
           /\ at[t] = "pop" /\ at'[t] = "give" /\ call' = call
           /\ todo'[t] = children[call[t].of] /\ entry'[t] = Head(entries[call[t].of])
           /\ \A u \in Threads \ {t} :
                 at'[u] = at[u] /\ todo'[u] = todo[u] /\ entry'[u] = entry[u]
           /\ UNCHANGED <<sourceDone, sinkDone, committed, children>>
<1>0. FrameTypes /\ QueueTypes /\ call[t].of \in Pipes
  BY Named1 DEF StreamBase, Types
<1> QED
  BY <1>0 DEF PushPop, Takes, FrameTypes, listVars

(* A gift reaches the child if it is open and not full *)
LEMMA GiveEffect ==
    ASSUME StreamBase, Static, NEW t \in Threads, PushGive(t)
    PROVE  \E c \in Pipes :
              /\ Pending(t, c) /\ c \in children[call[t].of] /\ at[t] = "give" /\ at' = at
              /\ call' = call /\ entry' = entry
              /\ todo'[t] = todo[t] \ {c} /\ \A u \in Threads \ {t} : todo'[u] = todo[u]
              /\ IF Accepts(c) THEN entries' = [entries EXCEPT ![c] = Append(@, entry[t])]
                               ELSE entries' = entries
              /\ UNCHANGED <<sourceDone, sinkDone, committed, out, children>>
<1>0. FrameTypes
  BY DEF StreamBase, Types
<1>1. PICK c \in todo[t] :
          /\ entries' = IF Accepts(c) THEN [entries EXCEPT ![c] = Append(@, entry[t])]
                                      ELSE entries
          /\ Loop(t, "give", todo[t] \ {c})
  BY DEF PushGive
<1>2. /\ at[t] = "give" /\ UNCHANGED <<sourceDone, sinkDone, committed, out, children>>
  BY DEF PushGive, listVars
<1>3. c \in children[call[t].of] /\ c \in Pipes
  BY <1>0, <1>2 DEF Static, FrameTypes
<1>4. /\ at' = at /\ call' = call /\ entry' = entry
      /\ todo'[t] = todo[t] \ {c} /\ \A u \in Threads \ {t} : todo'[u] = todo[u]
  BY <1>0, <1>1, <1>2 DEF Loop, FrameTypes
<1> QED
  BY <1>1, <1>2, <1>3, <1>4 DEF Pending

-----------------------------------------------------------------------------
\* What a commit changes.
LEMMA CommitEffect ==
    ASSUME StreamBase, Ends, NEW t \in Threads, Commit(t)
    PROVE  /\ \A q \in Pipes \ {Source} : Acc(q)' = Acc(q)
           /\ Len(Acc(Source)') = Len(Acc(Source)) + 1
           /\ \A i \in 1 .. Len(Acc(Source)) : Acc(Source)'[i] = Acc(Source)[i]
           /\ Acc(Source)'[Len(Acc(Source)) + 1] = committed + 1
           /\ committed' = committed + 1 /\ committed \in Nat
           /\ UNCHANGED <<out, sourceDone, sinkDone, children, frameVars>>
           /\ \A p \in Pipes : ~sourceDone[p]
           /\ Source \in Pipes /\ Tree[Source] = NoPipe
<1>0. QueueTypes /\ Source \in Pipes /\ committed \in Nat /\ committed + 1 \in Nat
  BY PipeAssumption DEF StreamBase, Types, QueueTypes
<1>1. /\ entries' = [entries EXCEPT ![Source] = Append(@, committed + 1)]
      /\ committed' = committed + 1
      /\ UNCHANGED <<out, sourceDone, sinkDone, children, frameVars>>
      /\ ~sourceDone[Source]
  BY DEF Commit, Accepts, listVars
<1>2. \A p \in Pipes : ~sourceDone[p]
  BY <1>1 DEF Ends
<1>3. Tree[Source] = NoPipe
  BY DEF StreamBase, StreamUse, IsTree
<1> QED
  BY <1>0, <1>1, <1>2, <1>3, AccPut

\* What a reader changes.
LEMMA GetEffect ==
    ASSUME StreamBase, Static, NEW t \in Threads, NEW p \in Pipes, Get(t, p)
    PROVE  /\ Takes(p) /\ p \in Readers
           /\ \A u \in Threads : at[u] \in PushAt => call[u].of # p
           /\ UNCHANGED <<sourceDone, sinkDone, committed, children, frameVars>>
<1>1. Takes(p) /\ UNCHANGED <<sourceDone, sinkDone, committed, children, frameVars>>
  BY DEF Get, Takes, listVars
<1>2. [op |-> "get", of |-> p, on |-> NoPipe] \in Calls[t]
  BY DEF Get, Calling
<1>3. p \in Readers
  BY <1>2 DEF Readers
<1>4. ASSUME NEW u \in Threads, at[u] \in PushAt PROVE call[u].of # p
  <2>1. call[u] \in Calls[u] /\ call[u].op = "toPushTry"
    BY <1>4 DEF StreamBase, Framed, PushAt
  <2> QED
    BY <1>2, <2>1 DEF StreamBase, StreamUse, ReadersDoNotPush
<1> QED
  BY <1>1, <1>3, <1>4

(* Nobody reads a pipe that is pushed *)
LEMMA PushedIsNoReader ==
    ASSUME StreamBase, NEW u \in Threads, at[u] \in PushAt
    PROVE  call[u].of \notin Readers
<1>1. call[u] \in Calls[u] /\ call[u].op = "toPushTry"
  BY DEF StreamBase, Framed, PushAt
<1> QED
  BY <1>1 DEF Readers, StreamBase, StreamUse, ReadersDoNotPush

\* What all other steps leave alone.
LEMMA RestEffect ==
    ASSUME StreamBase, Static, Flows \/ UNCHANGED vars, UNCHANGED <<entries, out, committed>>,
           \A t \in Threads : ~PushPop(t) /\ ~PushGive(t)
    PROVE  /\ \A p \in Pipes : Acc(p)' = Acc(p)
           /\ \A p \in Pipes : LastOut(p)' = LastOut(p)
           /\ \A t \in Threads, c \in Pipes : Pending(t, c)' <=> Pending(t, c)
           /\ \A t \in Threads :
                 at'[t] = "give" => at[t] = "give" /\ call'[t] = call[t] /\ entry'[t] = entry[t]
<1>1. \A p \in Pipes : Acc(p)' = Acc(p) /\ LastOut(p)' = LastOut(p)
  BY DEF Acc, LastOut
<1> QED
  BY <1>1, PendingStays

\* A sink that is done stays done.
LEMMA SinkStays ==
    ASSUME StreamBase, Flows \/ UNCHANGED vars, NEW p \in Pipes, sinkDone[p]
    PROVE  sinkDone'[p]
<1>1. sinkDone \in [Pipes -> BOOLEAN]
  BY DEF StreamBase, Types, QueueTypes
<1>2. ASSUME NEW t \in Threads, NEW q \in Pipes, QueueCall(t, q) PROVE sinkDone'[p]
  BY <1>1, <1>2 DEF QueueCall, Get, GetEnd, SourceDoneSet, SinkDoneSet
<1>3. ASSUME NEW t \in Threads, PushStep(t) PROVE sinkDone'[p]
  BY <1>3 DEF PushStep, PushCheck, PushReady, PushPop, PushGive, PushGiven, PushLeft, PushEnd,
              PushDone, queueVars
<1> QED
  BY <1>2, <1>3 DEF Flows, Commit, PushBegin, vars, queueVars

(* Without losses, the particle that is handed out is the next one         *)
LEMMA NextToGive ==
    ASSUME StreamBase, Static, Room, Ends, Counted, Passed, NEW t \in Threads,
           NEW c \in Lossless, Pending(t, c)
    PROVE  /\ Tree[c] = call[t].of /\ Tree[c] # NoPipe /\ Tree[c] \in Pipes
           /\ Len(Acc(c)) <= Len(out[Tree[c]]) - 1
           /\ ~sinkDone[c] => /\ Accepts(c) /\ entry[t] = Len(Acc(c)) + 1
                              /\ Len(out[Tree[c]]) = Len(Acc(c)) + 1
<1>0. QueueTypes /\ call[t].of \in Pipes /\ c \in Pipes
  BY Named1 DEF StreamBase, Types, Lossless
<1>1. at[t] = "give" /\ c \in todo[t] /\ c \in children[call[t].of]
  BY DEF Pending, Static
<1>2. Tree[c] = call[t].of /\ Tree[c] # NoPipe
  BY <1>0, <1>1, NotItsParent, PipeAssumption
<1>3. Tree[c] \in Lossless /\ Tree[c] \in Blocking /\ Tree[c] \in Pipes
  BY <1>0, <1>2, WayUp DEF StreamBase
<1>4. Len(Acc(c)) <= Len(out[Tree[c]]) - 1 /\ (~sinkDone[c] => Len(Acc(c)) = Len(out[Tree[c]]) - 1)
  BY DEF Passed
<1>5. ~Full(c) /\ ~sourceDone[c]
  BY <1>0, <1>1, <1>2, <1>3 DEF Room, Ends
<1>6. entry[t] = Len(out[Tree[c]])
  <2>1. out[Tree[c]] # <<>> /\ entry[t] = LastOut(Tree[c])
    BY <1>1, <1>2 DEF Passed
  <2>2. LastOut(Tree[c]) = Acc(Tree[c])[Len(out[Tree[c]])]
        /\ Len(out[Tree[c]]) \in 1 .. Len(Acc(Tree[c]))
    BY <1>0, <1>3, <2>1, AccTypes
  <2> QED
    BY <1>3, <2>1, <2>2 DEF Counted
<1>7. Len(Acc(c)) \in Nat /\ Len(out[Tree[c]]) \in Nat
  BY <1>0, <1>3, AccTypes
<1> QED
  BY <1>2, <1>3, <1>4, <1>5, <1>6, <1>7 DEF Accepts

\* Every step keeps the counts.
LEMMA NextCounted ==
    StreamBase /\ Static /\ Room /\ Ends /\ Counted /\ Passed /\ [Next]_vars => Counted'
<1> SUFFICES ASSUME StreamBase, Static, Room, Ends, Counted, Passed, Flows \/ UNCHANGED vars
             PROVE  Counted'
  BY NextFlows DEF StreamBase
<1>0. QueueTypes /\ Source \in Pipes /\ Lossless \subseteq Pipes
  BY PipeAssumption DEF StreamBase, Types, Lossless
<1>1. CASE committed' = committed /\ \A p \in Pipes : Acc(p)' = Acc(p)
  BY <1>0, <1>1 DEF Counted
<1>2. ASSUME NEW t \in Threads, Commit(t) PROVE Counted'
  <2>1. Len(Acc(Source)) = committed
    BY DEF Counted
  <2>2. Len(Acc(Source)') = committed'
    BY <1>2, <2>1, CommitEffect
  <2>3. ASSUME NEW p \in Lossless, NEW i \in 1 .. Len(Acc(p)') PROVE Acc(p)'[i] = i
    <3>1. CASE p # Source
      BY <1>0, <1>2, <2>3, <3>1, CommitEffect DEF Counted
    <3>2. CASE p = Source
      <4>1. i \in 1 .. committed \/ i = committed + 1
        BY <1>2, <2>1, <2>2, <2>3, <3>2, CommitEffect
      <4>2. CASE i \in 1 .. committed
        BY <1>2, <2>1, <2>3, <3>2, <4>2, CommitEffect DEF Counted
      <4>3. CASE i = committed + 1
        BY <1>2, <2>1, <3>2, <4>3, CommitEffect
      <4> QED
        BY <4>1, <4>2, <4>3
    <3> QED
      BY <3>1, <3>2
  <2> QED
    BY <2>2, <2>3 DEF Counted
<1>3. ASSUME NEW p \in Pipes, Takes(p), committed' = committed PROVE Counted'
  BY <1>0, <1>1, <1>3, AccTaken
<1>4. ASSUME NEW t \in Threads, PushGive(t) PROVE Counted'
  <2>1. PICK c \in Pipes :
            /\ Pending(t, c) /\ c \in children[call[t].of] /\ committed' = committed
            /\ out' = out
            /\ IF Accepts(c) THEN entries' = [entries EXCEPT ![c] = Append(@, entry[t])]
                             ELSE entries' = entries
    BY <1>4, GiveEffect
  <2>2. CASE ~Accepts(c)
    BY <1>1, <2>1, <2>2 DEF Acc
  <2>3. CASE Accepts(c)
    <3>1. entry[t] \in Nat /\ call[t].of \in Pipes
      BY Named1 DEF StreamBase, Types, FrameTypes
    <3>2. /\ \A q \in Pipes \ {c} : Acc(q)' = Acc(q)
          /\ Len(Acc(c)') = Len(Acc(c)) + 1
          /\ \A i \in 1 .. Len(Acc(c)) : Acc(c)'[i] = Acc(c)[i]
          /\ Acc(c)'[Len(Acc(c)) + 1] = entry[t]
      BY <1>0, <2>1, <2>3, <3>1, AccPut
    <3>3. c # Source
      BY <2>1, <3>1, NotItsParent
    <3>4. ASSUME NEW i \in 1 .. Len(Acc(c)'), c \in Lossless PROVE Acc(c)'[i] = i
      <4>1. entry[t] = Len(Acc(c)) + 1
        BY <2>1, <2>3, <3>4, NextToGive DEF Accepts
      <4>2. Len(Acc(c)) \in Nat
        BY <1>0, AccTypes
      <4>3. i \in 1 .. Len(Acc(c)) \/ i = Len(Acc(c)) + 1
        BY <3>2, <4>2
      <4> QED
        BY <3>2, <3>4, <4>1, <4>3 DEF Counted
    <3> QED
      BY <1>0, <2>1, <3>2, <3>3, <3>4 DEF Counted
  <2> QED
    BY <2>2, <2>3
<1>5. ASSUME NEW t \in Threads, NEW p \in Pipes, Get(t, p) PROVE Counted'
  BY <1>3, <1>5, GetEffect
<1>6. ASSUME NEW t \in Threads, PushPop(t) PROVE Counted'
  BY <1>3, <1>6, PopEffect
<1>7. CASE /\ UNCHANGED <<entries, out, committed>>
           /\ \A t \in Threads : ~PushPop(t) /\ ~PushGive(t)
  BY <1>1, <1>7, RestEffect
<1> QED
  BY <1>2, <1>4, <1>5, <1>6, <1>7, Kinds

\* Every step keeps the account of a child behind what its parent has passed on.
LEMMA NextPassed ==
    StreamBase /\ Static /\ Room /\ Ends /\ Counted /\ Passed /\ [Next]_vars => Passed'
<1> SUFFICES ASSUME StreamBase, Static, Room, Ends, Counted, Passed, Flows \/ UNCHANGED vars
             PROVE  Passed'
  BY NextFlows DEF StreamBase
<1>0. /\ QueueTypes /\ FrameTypes /\ Lossless \subseteq Pipes
      /\ \A t \in Threads : call[t].of \in Pipes /\ (at[t] = "give" => at[t] \in PushAt)
      /\ \A c \in Pipes : Tree[c] # NoPipe => Tree[c] \in Pipes
  BY Named1, PipeAssumption DEF StreamBase, Types, Lossless, PushAt
<1>p. \A t \in Threads, c \in Pipes : Pending(t, c) =>
          /\ at[t] = "give" /\ at[t] \in PushAt /\ c \in children[call[t].of]
          /\ Tree[c] = call[t].of /\ Tree[c] \in Pipes
  <2> SUFFICES ASSUME NEW t \in Threads, NEW c \in Pipes, Pending(t, c)
               PROVE  /\ at[t] = "give" /\ c \in children[call[t].of]
                      /\ Tree[c] = call[t].of
    BY <1>0
  <2>1. at[t] = "give" /\ c \in children[call[t].of]
    BY DEF Pending, Static
  <2> QED
    BY <1>0, <2>1, NotItsParent
<1>n. \A c \in Pipes : Len(Acc(c)) \in Nat /\ Len(out[c]) \in Nat
  BY <1>0, AccTypes
<1> DEFINE Given(t) ==
               at[t] = "give" => out[call[t].of] # <<>> /\ entry[t] = LastOut(call[t].of)
           Behind(c) ==
               /\ Len(Acc(c)) <= Len(out[Tree[c]])
               /\ Tree[c] \notin Readers /\ ~sinkDone[c] /\ (\A t \in Threads : ~Pending(t, c))
                     => Len(Acc(c)) = Len(out[Tree[c]])
           Next1(t, c) ==
               /\ Len(Acc(c)) <= Len(out[Tree[c]]) - 1
               /\ ~sinkDone[c] => Len(Acc(c)) = Len(out[Tree[c]]) - 1
<1>c. /\ \A t \in Threads : Given(t)
      /\ \A c \in Lossless : Tree[c] # NoPipe => Behind(c)
      /\ \A c \in Lossless, t \in Threads : Pending(t, c) => Next1(t, c)
  BY DEF Passed
<1>s. SUFFICES /\ \A t \in Threads : Given(t)'
               /\ \A c \in Lossless : Tree[c] # NoPipe => Behind(c)'
               /\ \A c \in Lossless, t \in Threads : Pending(t, c)' => Next1(t, c)'
  BY DEF Passed
<1>1. ASSUME NEW t \in Threads, Commit(t)
      PROVE  /\ \A u \in Threads : Given(u)'
             /\ \A c \in Lossless : Tree[c] # NoPipe => Behind(c)'
             /\ \A c \in Lossless, u \in Threads : Pending(u, c)' => Next1(u, c)'
  <2>1. \A u \in Threads : Given(u)'
    BY <1>1, <1>c, CommitEffect DEF LastOut, frameVars
  <2>2. \A u \in Threads, c \in Pipes : Pending(u, c)' <=> Pending(u, c)
    BY <1>1, CommitEffect DEF Pending, frameVars
  <2>3. \A c \in Pipes : Tree[c] # NoPipe => Acc(c)' = Acc(c)
    BY <1>1, CommitEffect
  <2>4. UNCHANGED <<out, sinkDone>>
    BY <1>1, CommitEffect
  <2>5. ASSUME NEW c \in Lossless, Tree[c] # NoPipe PROVE Behind(c)'
    BY <1>0, <1>c, <2>2, <2>3, <2>4, <2>5
  <2>6. ASSUME NEW c \in Lossless, NEW u \in Threads, Pending(u, c)' PROVE Next1(u, c)'
    <3>1. Pending(u, c) /\ Tree[c] # NoPipe
      BY <1>0, <1>p, <2>2, <2>6, PipeAssumption
    <3> QED
      BY <1>0, <1>c, <2>3, <2>4, <3>1
  <2> QED
    BY <2>1, <2>5, <2>6
<1>2. ASSUME NEW t \in Threads, NEW q \in Pipes, Get(t, q)
      PROVE  /\ \A u \in Threads : Given(u)'
             /\ \A c \in Lossless : Tree[c] # NoPipe => Behind(c)'
             /\ \A c \in Lossless, u \in Threads : Pending(u, c)' => Next1(u, c)'
  <2>0. /\ q \in Readers /\ \A u \in Threads : at[u] \in PushAt => call[u].of # q
        /\ UNCHANGED <<sinkDone, frameVars>> /\ Takes(q)
    BY <1>2, GetEffect
  <2>t. /\ \A c \in Pipes : Acc(c)' = Acc(c)
        /\ \A c \in Pipes \ {q} : out'[c] = out[c]
        /\ Len(out'[q]) = Len(out[q]) + 1
    BY <1>0, <2>0, AccTaken
  <2>1. \A u \in Threads : Given(u)'
    BY <1>0, <1>c, <2>0, <2>t DEF LastOut, frameVars
  <2>2. \A u \in Threads, c \in Pipes : Pending(u, c)' <=> Pending(u, c)
    BY <2>0 DEF Pending, frameVars
  <2>5. ASSUME NEW c \in Lossless, Tree[c] # NoPipe PROVE Behind(c)'
    BY <1>0, <1>c, <1>n, <2>0, <2>2, <2>t, <2>5
  <2>6. ASSUME NEW c \in Lossless, NEW u \in Threads, Pending(u, c)' PROVE Next1(u, c)'
    <3>1. Pending(u, c) /\ Tree[c] # q /\ Tree[c] \in Pipes
      BY <1>0, <1>p, <2>0, <2>2, <2>6
    <3> QED
      BY <1>0, <1>c, <2>0, <2>t, <3>1
  <2> QED
    BY <2>1, <2>5, <2>6
<1>3. ASSUME NEW t \in Threads, PushPop(t)
      PROVE  /\ \A u \in Threads : Given(u)'
             /\ \A c \in Lossless : Tree[c] # NoPipe => Behind(c)'
             /\ \A c \in Lossless, u \in Threads : Pending(u, c)' => Next1(u, c)'
  <2> DEFINE p == call[t].of
  <2>0. /\ Takes(p) /\ at[t] = "pop" /\ at'[t] = "give" /\ call' = call
        /\ todo'[t] = children[p] /\ entry'[t] = Head(entries[p])
        /\ \A u \in Threads \ {t} : at'[u] = at[u] /\ todo'[u] = todo[u] /\ entry'[u] = entry[u]
        /\ UNCHANGED <<sinkDone, children>>
    BY <1>3, PopEffect
  <2>t. /\ \A c \in Pipes : Acc(c)' = Acc(c)
        /\ \A c \in Pipes \ {p} : out'[c] = out[c]
        /\ Len(out'[p]) = Len(out[p]) + 1 /\ out'[p] # <<>>
        /\ LastOut(p)' = Head(entries[p])
    BY <1>0, <2>0, AccTaken
  <2>a. at[t] \in PushAt
    BY <2>0 DEF PushAt
  <2>b. \A u \in Threads : at[u] \in PushAt /\ call[u].of = p => u = t
    BY <2>a DEF StreamBase, Locks, HoldsChildren
  <2>1. ASSUME NEW u \in Threads PROVE Given(u)'
    <3>1. CASE u = t
      BY <2>0, <2>t, <3>1 DEF LastOut
    <3>2. CASE u # t /\ at'[u] = "give"
      <4>1. at[u] = "give" /\ entry'[u] = entry[u] /\ call[u].of \in Pipes \ {p}
        BY <1>0, <2>0, <2>b, <3>2
      <4> QED
        BY <1>c, <2>0, <2>t, <4>1 DEF LastOut
    <3> QED
      BY <3>1, <3>2
  <2>2. \A u \in Threads \ {t}, c \in Pipes : Pending(u, c)' <=> Pending(u, c)
    BY <2>0 DEF Pending
  <2>3. \A c \in Pipes : ~Pending(t, c) /\ (Pending(t, c)' <=> c \in children[p])
    BY <2>0 DEF Pending
  <2>5. ASSUME NEW c \in Lossless, Tree[c] # NoPipe PROVE Behind(c)'
    <3>1. CASE Tree[c] # p
      <4>1. c \notin children[p]
        BY <1>0, <3>1, NotItsParent
      <4> QED
        BY <1>0, <1>c, <2>0, <2>t, <2>2, <2>3, <2>5, <3>1, <4>1
    <3>2. CASE Tree[c] = p
      <4>1. Pending(t, c)'
        BY <1>0, <2>3, <3>2 DEF Static
      <4>2. Len(Acc(c)) <= Len(out[p])
        BY <1>c, <2>5, <3>2
      <4> QED
        BY <1>0, <1>n, <2>t, <3>2, <4>1, <4>2
    <3> QED
      BY <3>1, <3>2
  <2>6. ASSUME NEW c \in Lossless, NEW u \in Threads, Pending(u, c)' PROVE Next1(u, c)'
    <3>1. CASE u # t
      <4>1. Pending(u, c) /\ Tree[c] # p /\ Tree[c] \in Pipes
        BY <1>0, <1>p, <2>2, <2>6, <2>b, <3>1
      <4> QED
        BY <1>0, <1>c, <2>0, <2>t, <4>1
    <3>2. CASE u = t
      <4>1. c \in children[p] /\ Tree[c] = p /\ p \in Pipes
        BY <1>0, <2>3, <2>6, <3>2, NotItsParent
      <4>2. p \notin Readers
        BY <2>a, PushedIsNoReader
      <4>3. \A v \in Threads : ~Pending(v, c)
        BY <1>0, <1>p, <2>3, <2>b, <4>1
      <4>4. Len(Acc(c)) <= Len(out[p]) /\ (~sinkDone[c] => Len(Acc(c)) = Len(out[p]))
        BY <1>c, <4>1, <4>2, <4>3, PipeAssumption
      <4> QED
        BY <1>0, <1>n, <2>0, <2>t, <4>1, <4>4
    <3> QED
      BY <3>1, <3>2
  <2> QED
    BY <2>1, <2>5, <2>6
<1>4. ASSUME NEW t \in Threads, PushGive(t)
      PROVE  /\ \A u \in Threads : Given(u)'
             /\ \A c \in Lossless : Tree[c] # NoPipe => Behind(c)'
             /\ \A c \in Lossless, u \in Threads : Pending(u, c)' => Next1(u, c)'
  <2>0. PICK d \in Pipes :
            /\ Pending(t, d) /\ at' = at /\ call' = call /\ entry' = entry
            /\ todo'[t] = todo[t] \ {d} /\ \A u \in Threads \ {t} : todo'[u] = todo[u]
            /\ IF Accepts(d) THEN entries' = [entries EXCEPT ![d] = Append(@, entry[t])]
                             ELSE entries' = entries
            /\ UNCHANGED <<sinkDone, out>>
    BY <1>4, GiveEffect
  <2>e. entry[t] \in Nat
    BY <1>0 DEF FrameTypes
  <2>t. /\ \A c \in Pipes \ {d} : Acc(c)' = Acc(c)
        /\ Accepts(d) => Len(Acc(d)') = Len(Acc(d)) + 1
        /\ ~Accepts(d) => Acc(d)' = Acc(d)
    <3>1. CASE Accepts(d)
      BY <1>0, <2>0, <2>e, <3>1, AccPut
    <3>2. CASE ~Accepts(d)
      BY <2>0, <3>2 DEF Acc
    <3> QED
      BY <3>1, <3>2
  <2>1. \A u \in Threads : Given(u)'
    BY <1>c, <2>0 DEF LastOut
  <2>2. \A u \in Threads, c \in Pipes : c # d => (Pending(u, c)' <=> Pending(u, c))
    BY <2>0 DEF Pending
  <2>3. \A u \in Threads : ~Pending(u, d)'
    <3>1. \A u \in Threads \ {t} : ~Pending(u, d)
      BY <1>p, <2>0, OnePusher
    <3> QED
      BY <2>0, <3>1 DEF Pending
  <2>4. d \in Lossless =>
            /\ Tree[d] # NoPipe /\ Tree[d] \in Pipes
            /\ Len(Acc(d)) <= Len(out[Tree[d]]) - 1
            /\ ~sinkDone[d] => Accepts(d) /\ Len(out[Tree[d]]) = Len(Acc(d)) + 1
    BY <2>0, NextToGive
  <2>5. ASSUME NEW c \in Lossless, Tree[c] # NoPipe PROVE Behind(c)'
    <3>1. CASE c # d
      BY <1>0, <1>c, <2>0, <2>2, <2>5, <2>t, <3>1
    <3>2. CASE c = d
      BY <1>0, <1>n, <2>0, <2>4, <2>5, <2>t, <3>2
    <3> QED
      BY <3>1, <3>2
  <2>6. ASSUME NEW c \in Lossless, NEW u \in Threads, Pending(u, c)' PROVE Next1(u, c)'
    BY <1>0, <1>c, <2>0, <2>2, <2>3, <2>6, <2>t
  <2> QED
    BY <2>1, <2>5, <2>6
<1>5. ASSUME UNCHANGED <<entries, out, committed>>,
             \A t \in Threads : ~PushPop(t) /\ ~PushGive(t)
      PROVE  /\ \A u \in Threads : Given(u)'
             /\ \A c \in Lossless : Tree[c] # NoPipe => Behind(c)'
             /\ \A c \in Lossless, u \in Threads : Pending(u, c)' => Next1(u, c)'
  <2>0. /\ \A c \in Pipes : Acc(c)' = Acc(c)
        /\ \A u \in Threads, c \in Pipes : Pending(u, c)' <=> Pending(u, c)
        /\ \A u \in Threads :
              at'[u] = "give" => at[u] = "give" /\ call'[u] = call[u] /\ entry'[u] = entry[u]
    BY <1>5, RestEffect
  <2>1. \A c \in Pipes : ~sinkDone'[c] => ~sinkDone[c]
    BY SinkStays
  <2>2. \A u \in Threads : Given(u)'
    BY <1>5, <1>c, <2>0 DEF LastOut
  <2>5. ASSUME NEW c \in Lossless, Tree[c] # NoPipe PROVE Behind(c)'
    BY <1>0, <1>5, <1>c, <2>0, <2>1, <2>5
  <2>6. ASSUME NEW c \in Lossless, NEW u \in Threads, Pending(u, c)' PROVE Next1(u, c)'
    BY <1>0, <1>5, <1>c, <2>0, <2>1, <2>6
  <2> QED
    BY <2>2, <2>5, <2>6
<1> HIDE DEF Given, Behind, Next1
<1> QED
  BY <1>1, <1>2, <1>3, <1>4, <1>5, Kinds

\* Every step: the end is told last.
LEMMA NextToldLast ==
    /\ StreamBase /\ Static /\ Room /\ Ends /\ Counted /\ Passed /\ ToldLast /\ [Next]_vars
    => ToldLast'
<1> SUFFICES ASSUME StreamBase, Static, Room, Ends, Counted, Passed, ToldLast,
                    Flows \/ UNCHANGED vars,
                    NEW p \in Lossless, sourceDone'[p], \A q \in Way[p] : ~sinkDone'[q]
             PROVE  Len(Acc(p)') = committed'
  BY NextFlows DEF StreamBase, ToldLast
<1>0. QueueTypes /\ Lossless \subseteq Pipes /\ \A t \in Threads : call[t].of \in Pipes
  BY Named1 DEF StreamBase, Types, Lossless
<1>w. Way[p] \subseteq Pipes /\ p \in Way[p]
  BY <1>0 DEF Way
<1>q. \A q \in Way[p] : ~sinkDone[q]
  BY <1>w, SinkStays
<1>1. CASE sourceDone[p]
  <2>0. Len(Acc(p)) = committed
    BY <1>1, <1>q DEF ToldLast
  <2>1. ASSUME NEW t \in Threads, Commit(t) PROVE FALSE
    BY <1>0, <1>1, <2>1, CommitEffect
  <2>2. ASSUME NEW q \in Pipes, Takes(q), committed' = committed PROVE Len(Acc(p)') = committed'
    BY <1>0, <2>0, <2>2, AccTaken
  <2>3. ASSUME NEW t \in Threads, NEW q \in Pipes, Get(t, q) PROVE Len(Acc(p)') = committed'
    BY <2>2, <2>3, GetEffect
  <2>4. ASSUME NEW t \in Threads, PushPop(t) PROVE Len(Acc(p)') = committed'
    BY <2>2, <2>4, PopEffect
  <2>5. ASSUME NEW t \in Threads, PushGive(t) PROVE Len(Acc(p)') = committed'
    <3>1. PICK c \in Pipes :
              /\ Pending(t, c) /\ committed' = committed /\ out' = out
              /\ IF Accepts(c) THEN entries' = [entries EXCEPT ![c] = Append(@, entry[t])]
                               ELSE entries' = entries
      BY <2>5, GiveEffect
    <3>2. c # p
      BY <1>1, <3>1 DEF Ends
    <3>3. entries'[p] = entries[p]
      BY <1>0, <3>1, <3>2 DEF QueueTypes
    <3> QED
      BY <2>0, <3>1, <3>3 DEF Acc
  <2>6. CASE /\ UNCHANGED <<entries, out, committed>>
             /\ \A t \in Threads : ~PushPop(t) /\ ~PushGive(t)
    BY <2>0, <2>6 DEF Acc
  <2> QED
    BY <2>1, <2>3, <2>4, <2>5, <2>6, Kinds
<1>2. CASE ~sourceDone[p]
  <2>1. UNCHANGED <<entries, out, committed>>
    <3>1. ASSUME NEW t \in Threads, Commit(t) PROVE UNCHANGED sourceDone
      BY <3>1 DEF Commit
    <3>2. ASSUME NEW t \in Threads, NEW q \in Pipes, Get(t, q) PROVE UNCHANGED sourceDone
      BY <3>2 DEF Get
    <3>3. ASSUME NEW t \in Threads, PushPop(t) \/ PushGive(t) PROVE UNCHANGED sourceDone
      BY <3>3 DEF PushPop, PushGive
    <3> QED
      BY <1>2, <3>1, <3>2, <3>3, Kinds
  <2>2. Acc(p)' = Acc(p)
    BY <2>1 DEF Acc
  <2>3. CASE p = Source
    BY <2>1, <2>2, <2>3 DEF Counted
  <2>4. CASE p # Source
    <3>1. /\ Tree[p] \in Pipes /\ sourceDone[Tree[p]] /\ entries[Tree[p]] = <<>>
          /\ \E t \in Threads : at[t] = "end" /\ p \in children[call[t].of]
      BY <1>0, <1>2, <2>4, NewEnd
    <3>2. PICK t \in Threads : at[t] = "end" /\ p \in children[call[t].of]
      BY <3>1
    <3>3. at[t] \in PushAt
      BY <3>2 DEF PushAt
    <3>4. Tree[p] = call[t].of /\ Tree[p] # NoPipe
      BY <1>0, <3>1, <3>2, NotItsParent, PipeAssumption
    <3>5. Tree[p] \notin Readers
      BY <3>3, <3>4, PushedIsNoReader
    <3>6. ASSUME NEW u \in Threads, Pending(u, p) PROVE FALSE
      <4>1. at[u] = "give" /\ at[u] \in PushAt /\ p \in children[call[u].of]
        BY <3>6 DEF Pending, Static, PushAt
      <4> QED
        BY <1>0, <3>2, <3>3, <4>1, OnePusher
    <3>7. Len(Acc(p)) = Len(out[Tree[p]])
      BY <1>q, <1>w, <3>4, <3>5, <3>6 DEF Passed
    <3>8. /\ Tree[p] \in Lossless /\ Way[Tree[p]] \subseteq Way[p]
      BY <1>0, <3>4, WayUp DEF StreamBase
    <3>9. Len(Acc(Tree[p])) = committed
      BY <1>q, <3>1, <3>8 DEF ToldLast
    <3>10. Len(Acc(Tree[p])) = Len(out[Tree[p]])
      <4>1. /\ Len(Acc(Tree[p])) = Len(out[Tree[p]]) + Len(entries[Tree[p]])
            /\ Len(out[Tree[p]]) \in Nat
        BY <1>0, <3>1, AccTypes
      <4>2. Len(entries[Tree[p]]) = 0
        BY <3>1
      <4> QED
        BY <4>1, <4>2
    <3> QED
      BY <2>1, <2>2, <3>7, <3>9, <3>10
  <2> QED
    BY <2>3, <2>4
<1> QED
  BY <1>1, <1>2

(* What leaves a queue is later than what has left it *)
LEMMA LaterOut ==
    ASSUME StreamBase, InOrder, NEW p \in Pipes, Takes(p)
    PROVE  /\ LastOut(p) \in Nat /\ LastOut(p)' = Head(entries[p])
           /\ LastOut(p) < Head(entries[p])
           /\ Head(entries[p]) \in 1 .. committed
<1>0. QueueTypes /\ committed \in Nat
  BY DEF StreamBase, Types, QueueTypes
<1>1. /\ Len(out[p]) \in Nat /\ Len(out[p]) + 1 <= Len(Acc(p)) /\ Len(Acc(p)) \in Nat
      /\ Acc(p)[Len(out[p]) + 1] = Head(entries[p]) /\ LastOut(p)' = Head(entries[p])
  BY <1>0, AccTypes, AccTaken
<1>2. Len(out[p]) + 1 \in 1 .. Len(Acc(p))
  BY <1>1
<1>3. Head(entries[p]) \in 1 .. committed
  BY <1>1, <1>2 DEF InOrder
<1>4. CASE out[p] = <<>>
  BY <1>1, <1>3, <1>4, <1>0 DEF LastOut
<1>5. CASE out[p] # <<>>
  <2>1. LastOut(p) = Acc(p)[Len(out[p])] /\ Len(out[p]) \in 1 .. Len(Acc(p))
    BY <1>0, <1>5, AccTypes
  <2>2. LastOut(p) \in 1 .. committed /\ LastOut(p) < Acc(p)[Len(out[p]) + 1]
    BY <1>1, <1>2, <2>1 DEF InOrder
  <2> QED
    BY <1>0, <1>1, <1>3, <2>2
<1> QED
  BY <1>4, <1>5

\* Every step keeps the order.
LEMMA NextInOrder ==
    StreamBase /\ Static /\ Ends /\ Passed /\ InOrder /\ [Next]_vars => InOrder'
<1> SUFFICES ASSUME StreamBase, Static, Ends, Passed, InOrder, Flows \/ UNCHANGED vars
             PROVE  InOrder'
  BY NextFlows DEF StreamBase
<1>0. /\ QueueTypes /\ FrameTypes /\ committed \in Nat
      /\ \A t \in Threads : call[t].of \in Pipes /\ (at[t] = "give" => at[t] \in PushAt)
      /\ \A c \in Pipes : Tree[c] # NoPipe => Tree[c] \in Pipes
  BY Named1, PipeAssumption DEF StreamBase, Types, PushAt, QueueTypes
<1>n. \A c \in Pipes : Len(Acc(c)) \in Nat
  BY <1>0, AccTypes
<1> DEFINE Sorted(p) ==
               \A i \in 1 .. Len(Acc(p)) :
                   /\ Acc(p)[i] \in 1 .. committed
                   /\ \A j \in 1 .. Len(Acc(p)) : i < j => Acc(p)[i] < Acc(p)[j]
           Before(c) ==
               \A i \in 1 .. Len(Acc(c)) :
                   /\ Acc(c)[i] <= LastOut(Tree[c])
                   /\ \A t \in Threads : Pending(t, c) => Acc(c)[i] < entry[t]
<1>c. /\ \A p \in Pipes : Sorted(p)
      /\ \A c \in Pipes : Tree[c] # NoPipe => Before(c)
  BY DEF InOrder
<1>s. SUFFICES /\ \A p \in Pipes : Sorted(p)'
               /\ \A c \in Pipes : Tree[c] # NoPipe => Before(c)'
  BY DEF InOrder
<1>k. ASSUME NEW p \in Pipes, Acc(p)' = Acc(p), committed' = committed PROVE Sorted(p)'
  BY <1>c, <1>k
<1>1. ASSUME NEW t \in Threads, Commit(t)
      PROVE  (\A p \in Pipes : Sorted(p)') /\ \A c \in Pipes : Tree[c] # NoPipe => Before(c)'
  <2>1. \A u \in Threads, c \in Pipes : (Pending(u, c)' <=> Pending(u, c)) /\ entry' = entry
    BY <1>1, CommitEffect DEF Pending, frameVars
  <2>2. \A c \in Pipes : LastOut(c)' = LastOut(c)
    BY <1>1, CommitEffect DEF LastOut
  <2>3. \A c \in Pipes : Tree[c] # NoPipe => Acc(c)' = Acc(c)
    BY <1>1, CommitEffect
  <2>4. ASSUME NEW c \in Pipes, Tree[c] # NoPipe PROVE Before(c)'
    BY <1>0, <1>c, <2>1, <2>2, <2>3, <2>4
  <2>5. ASSUME NEW p \in Pipes PROVE Sorted(p)'
    <3>0. committed' = committed + 1
      BY <1>1, CommitEffect
    <3>1. CASE p # Source
      <4>1. Acc(p)' = Acc(p)
        BY <1>1, <3>1, CommitEffect
      <4> QED
        BY <1>0, <1>c, <3>0, <4>1
    <3>2. CASE p = Source
      <4>1. /\ Len(Acc(p)') = Len(Acc(p)) + 1
            /\ \A i \in 1 .. Len(Acc(p)) : Acc(p)'[i] = Acc(p)[i]
            /\ Acc(p)'[Len(Acc(p)) + 1] = committed + 1
        BY <1>1, <3>2, CommitEffect
      <4>2. \A i \in 1 .. Len(Acc(p)') : i \in 1 .. Len(Acc(p)) \/ i = Len(Acc(p)) + 1
        BY <1>n, <4>1
      <4>3. \A i \in 1 .. Len(Acc(p)) : Acc(p)[i] \in 1 .. committed /\ Acc(p)[i] < committed + 1
        BY <1>0, <1>c
      <4> QED
        BY <1>0, <1>c, <1>n, <3>0, <4>1, <4>2, <4>3
    <3> QED
      BY <3>1, <3>2
  <2> QED
    BY <2>4, <2>5
<1>2. ASSUME NEW t \in Threads, NEW q \in Pipes, Get(t, q)
      PROVE  (\A p \in Pipes : Sorted(p)') /\ \A c \in Pipes : Tree[c] # NoPipe => Before(c)'
  <2>0. Takes(q) /\ UNCHANGED <<committed, frameVars>>
    BY <1>2, GetEffect
  <2>1. /\ \A c \in Pipes : Acc(c)' = Acc(c)
        /\ \A c \in Pipes \ {q} : LastOut(c)' = LastOut(c)
        /\ LastOut(q) < LastOut(q)' /\ LastOut(q) \in Nat /\ LastOut(q)' \in Nat
    BY <1>0, <2>0, AccTaken, LaterOut DEF LastOut
  <2>2. \A u \in Threads, c \in Pipes : (Pending(u, c)' <=> Pending(u, c)) /\ entry' = entry
    BY <2>0 DEF Pending, frameVars
  <2>3. ASSUME NEW c \in Pipes, Tree[c] # NoPipe PROVE Before(c)'
    <3>1. \A i \in 1 .. Len(Acc(c)) : Acc(c)[i] \in Nat /\ Acc(c)[i] <= LastOut(Tree[c])
      BY <1>0, <1>c, <2>3
    <3>2. \A i \in 1 .. Len(Acc(c)) : Acc(c)[i] <= LastOut(Tree[c])'
      BY <1>0, <2>1, <2>3, <3>1
    <3> QED
      BY <1>c, <2>1, <2>2, <2>3, <3>2
  <2> QED
    BY <1>k, <2>0, <2>1, <2>3
<1>3. ASSUME NEW t \in Threads, PushPop(t)
      PROVE  (\A p \in Pipes : Sorted(p)') /\ \A c \in Pipes : Tree[c] # NoPipe => Before(c)'
  <2> DEFINE q == call[t].of
  <2>0. /\ Takes(q) /\ at[t] = "pop" /\ at'[t] = "give"
        /\ todo'[t] = children[q] /\ entry'[t] = Head(entries[q])
        /\ \A u \in Threads \ {t} : at'[u] = at[u] /\ todo'[u] = todo[u] /\ entry'[u] = entry[u]
        /\ UNCHANGED committed
    BY <1>3, PopEffect
  <2>1. /\ \A c \in Pipes : Acc(c)' = Acc(c)
        /\ \A c \in Pipes \ {q} : out'[c] = out[c]
        /\ LastOut(q) < Head(entries[q]) /\ LastOut(q) \in Nat /\ Head(entries[q]) \in Nat
    BY <1>0, <2>0, AccTaken, LaterOut
  <2>l. /\ \A c \in Pipes \ {q} : LastOut(c)' = LastOut(c)
    BY <2>1 DEF LastOut
  <2>m. \A c \in Pipes : c = q => LastOut(c)' = Head(entries[q])
    BY <1>0, <2>0, LaterOut
  <2>3. ASSUME NEW c \in Pipes, Tree[c] # NoPipe PROVE Before(c)'
    <3>1. \A i \in 1 .. Len(Acc(c)) : Acc(c)[i] \in Nat /\ Acc(c)[i] <= LastOut(Tree[c])
      BY <1>0, <1>c, <2>3
    <3>2. \A i \in 1 .. Len(Acc(c)) : Acc(c)[i] <= LastOut(Tree[c])'
      BY <1>0, <2>1, <2>l, <2>m, <2>3, <3>1
    <3>3. ASSUME NEW u \in Threads, Pending(u, c)', NEW i \in 1 .. Len(Acc(c))
          PROVE  Acc(c)[i] < entry'[u]
      <4>1. CASE u # t
        <5>1. Pending(u, c) /\ entry'[u] = entry[u]
          BY <2>0, <3>3, <4>1 DEF Pending
        <5> QED
          BY <1>c, <2>3, <5>1
      <4>2. CASE u = t
        <5>1. c \in children[q] /\ Tree[c] = q
          BY <1>0, <2>0, <3>3, <4>2, NotItsParent DEF Pending
        <5> QED
          BY <2>0, <2>1, <3>1, <4>2, <5>1
      <4> QED
        BY <4>1, <4>2
    <3> QED
      BY <2>1, <3>2, <3>3
  <2> QED
    BY <1>k, <2>0, <2>1, <2>3
<1>4. ASSUME NEW t \in Threads, PushGive(t)
      PROVE  (\A p \in Pipes : Sorted(p)') /\ \A c \in Pipes : Tree[c] # NoPipe => Before(c)'
  <2>0. PICK d \in Pipes :
            /\ Pending(t, d) /\ d \in children[call[t].of] /\ at[t] = "give"
            /\ at' = at /\ entry' = entry
            /\ todo'[t] = todo[t] \ {d} /\ \A u \in Threads \ {t} : todo'[u] = todo[u]
            /\ IF Accepts(d) THEN entries' = [entries EXCEPT ![d] = Append(@, entry[t])]
                             ELSE entries' = entries
            /\ UNCHANGED <<out, committed>>
    BY <1>4, GiveEffect
  <2>e. entry[t] \in Nat
    BY <1>0 DEF FrameTypes
  <2>1. \A c \in Pipes : LastOut(c)' = LastOut(c)
    BY <2>0 DEF LastOut
  <2>2. \A u \in Threads, c \in Pipes : Pending(u, c)' => Pending(u, c)
    BY <2>0 DEF Pending
  <2>3. \A u \in Threads : ~Pending(u, d)'
    <3>1. ASSUME NEW u \in Threads \ {t}, Pending(u, d) PROVE FALSE
      <4>1. at[u] = "give" /\ d \in children[call[u].of]
        BY <3>1 DEF Pending, Static
      <4> QED
        BY <1>0, <2>0, <4>1, OnePusher
    <3> QED
      BY <2>0, <3>1 DEF Pending
  <2>4. CASE ~Accepts(d)
    <3>1. \A c \in Pipes : Acc(c)' = Acc(c)
      BY <2>0, <2>4 DEF Acc
    <3> QED
      BY <1>0, <1>c, <1>k, <2>0, <2>1, <2>2, <3>1
  <2>5. CASE Accepts(d)
    <3>1. /\ \A q \in Pipes \ {d} : Acc(q)' = Acc(q)
          /\ Len(Acc(d)') = Len(Acc(d)) + 1
          /\ \A i \in 1 .. Len(Acc(d)) : Acc(d)'[i] = Acc(d)[i]
          /\ Acc(d)'[Len(Acc(d)) + 1] = entry[t]
      BY <1>0, <2>0, <2>5, <2>e, AccPut
    <3>2. Tree[d] = call[t].of /\ Tree[d] # NoPipe
      BY <1>0, <2>0, NotItsParent, PipeAssumption
    <3>3. out[Tree[d]] # <<>> /\ entry[t] = LastOut(Tree[d])
      BY <2>0, <3>2 DEF Passed
    <3>4. entry[t] \in 1 .. committed
      <4>1. /\ LastOut(Tree[d]) = Acc(Tree[d])[Len(out[Tree[d]])]
            /\ Len(out[Tree[d]]) \in 1 .. Len(Acc(Tree[d]))
        BY <1>0, <3>2, <3>3, AccTypes
      <4> QED
        BY <1>0, <1>c, <3>2, <3>3, <4>1
    <3>5. \A i \in 1 .. Len(Acc(d)) : Acc(d)[i] < entry[t]
      BY <1>c, <2>0, <3>2
    <3>6. \A i \in 1 .. Len(Acc(d)') : i \in 1 .. Len(Acc(d)) \/ i = Len(Acc(d)) + 1
      BY <1>n, <3>1
    <3>7. Sorted(d)'
      BY <1>c, <1>n, <2>0, <3>1, <3>4, <3>5, <3>6
    <3>8. Before(d)'
      <4>1. \A i \in 1 .. Len(Acc(d)') : Acc(d)'[i] <= LastOut(Tree[d])
        BY <1>c, <2>e, <3>1, <3>2, <3>3, <3>6
      <4> QED
        BY <1>0, <2>1, <2>3, <3>2, <4>1
    <3>9. ASSUME NEW c \in Pipes, Tree[c] # NoPipe PROVE Before(c)'
      <4>1. CASE c # d
        BY <1>0, <1>c, <2>0, <2>1, <2>2, <3>1, <3>9, <4>1
      <4> QED
        BY <3>8, <4>1
    <3>10. ASSUME NEW c \in Pipes PROVE Sorted(c)'
      <4>1. CASE c # d
        BY <1>k, <2>0, <3>1, <3>10, <4>1
      <4> QED
        BY <3>7, <4>1
    <3> QED
      BY <3>9, <3>10
  <2> QED
    BY <2>4, <2>5
<1>5. ASSUME UNCHANGED <<entries, out, committed>>,
             \A t \in Threads : ~PushPop(t) /\ ~PushGive(t)
      PROVE  (\A p \in Pipes : Sorted(p)') /\ \A c \in Pipes : Tree[c] # NoPipe => Before(c)'
  <2>0. /\ \A c \in Pipes : Acc(c)' = Acc(c)
        /\ \A c \in Pipes : LastOut(c)' = LastOut(c)
        /\ \A u \in Threads, c \in Pipes : Pending(u, c)' <=> Pending(u, c)
        /\ \A u \in Threads :
              at'[u] = "give" => at[u] = "give" /\ call'[u] = call[u] /\ entry'[u] = entry[u]
    BY <1>5, RestEffect
  <2>1. \A u \in Threads, c \in Pipes : Pending(u, c)' => Pending(u, c) /\ entry'[u] = entry[u]
    BY <2>0 DEF Pending
  <2>2. ASSUME NEW c \in Pipes, Tree[c] # NoPipe PROVE Before(c)'
    BY <1>0, <1>c, <2>0, <2>1, <2>2
  <2> QED
    BY <1>5, <1>k, <2>0, <2>2
<1> HIDE DEF Sorted, Before
<1> QED
  BY <1>1, <1>2, <1>3, <1>4, <1>5, Kinds

-----------------------------------------------------------------------------
\* The first states.
LEMMA InitStream == StreamUse /\ Init => StreamInv
<1> SUFFICES ASSUME StreamUse, Init PROVE StreamInv
  OBVIOUS
<1>0. /\ entries = [p \in Pipes |-> <<>>] /\ out = [p \in Pipes |-> <<>>] /\ committed = 0
      /\ sourceDone = [p \in Pipes |-> FALSE] /\ ended = [p \in Pipes |-> FALSE]
      /\ at = [t \in Threads |-> "idle"] /\ children = [p \in Pipes |-> {c \in Pipes : Tree[c] = p}]
  BY DEF Init
<1>1. \A p \in Pipes : Len(Acc(p)) = 0 /\ Len(out[p]) = 0
  <2>1. <<>> \in Seq(Nat) /\ Len(<<>> \o <<>>) = 0 /\ Len(<<>>) = 0
    OBVIOUS
  <2> QED
    BY <1>0, <2>1 DEF Acc
<1>2. Source \in Pipes /\ Lossless \subseteq Pipes
      /\ \A c \in Pipes : Tree[c] # NoPipe => Tree[c] \in Pipes
  BY PipeAssumption DEF Lossless
<1>3. Static
  BY <1>0 DEF Static
<1>4. Room
  BY <1>0 DEF Room
<1>5. Ends
  BY <1>0 DEF Ends, Pending
<1>6. Counted
  BY <1>0, <1>1, <1>2 DEF Counted
<1>7. Passed
  BY <1>0, <1>1, <1>2 DEF Passed, Pending
<1>8. ToldLast
  BY <1>0, <1>2 DEF ToldLast
<1>9. InOrder
  BY <1>0, <1>1, <1>2 DEF InOrder, Pending
<1> QED
  BY <1>3, <1>4, <1>5, <1>6, <1>7, <1>8, <1>9 DEF StreamInv

\* The invariant in every reachable state.
LEMMA StreamInvariance == ASSUME StreamUse PROVE Spec => [](StreamBase /\ StreamInv)
<1>1. Init => StreamBase /\ StreamInv
  BY InitTypes, InitFramed, InitLocks, InitStream DEF StreamBase, Init, Seen
<1>2. StreamBase /\ [Next]_vars => StreamBase'
  BY NextTypes, NextFramed, NextLocks, NextSeen DEF StreamBase, StreamUse, StreamCalls,
     ReadersDoNotPush, IsTree, Way
<1>3. StreamBase /\ StreamInv /\ [Next]_vars => StreamInv'
  BY NextStatic, NextRoom, NextEnds, NextCounted, NextPassed, NextToldLast, NextInOrder
     DEF StreamInv
<1> QED
  BY <1>1, <1>2, <1>3, PTL DEF Spec

-----------------------------------------------------------------------------
(* The refinement *)
LEMMA ReaderIsPipe == Readers \subseteq Pipes /\ \A r \in Readers \ MayLose : r \in Lossless
  BY DEF Readers, MayLose, Lossless

\* What left a pipe that loses nothing has no gap.
LEMMA LossFreeOut ==
    ASSUME QueueTypes, Counted, NEW p \in Lossless
    PROVE  LastOut(p) = Len(out[p]) /\ Len(out[p]) \in Nat
<1>0. p \in Pipes /\ out[p] \in Seq(Nat)
  BY DEF Lossless, QueueTypes
<1>1. CASE out[p] = <<>>
  BY <1>1 DEF LastOut
<1>2. CASE out[p] # <<>>
  BY <1>0, <1>2, AccTypes DEF Counted
<1> QED
  BY <1>0, <1>1, <1>2

\* The first states are those of PipeStream.
LEMMA InitRefines == Init => Stream!Init
<1> SUFFICES ASSUME Init PROVE Stream!Init
  OBVIOUS
<1>1. /\ out = [p \in Pipes |-> <<>>] /\ committed = 0
      /\ sourceDone = [p \in Pipes |-> FALSE] /\ ended = [p \in Pipes |-> FALSE]
      /\ sinkDone = [p \in Pipes |-> FALSE]
  BY DEF Init
<1>2. CutOff = {}
  BY <1>1, ReaderIsPipe DEF CutOff, Way
<1> QED
  BY <1>1, <1>2, ReaderIsPipe, PipeAssumption DEF Stream!Init

\* A step that source and readers do not see is a stutter.
LEMMA SameView ==
    ASSUME UNCHANGED <<committed, sinkDone>>, sourceDone'[Source] = sourceDone[Source],
           \A r \in Readers : out'[r] = out[r] /\ ended'[r] = ended[r]
    PROVE  UNCHANGED Stream!vars
<1>1. UNCHANGED CutOff
  BY DEF CutOff
<1>2. UNCHANGED <<[r \in Readers |-> out[r]], [r \in Readers |-> ended[r]]>>
  OBVIOUS
<1> QED
  BY <1>1, <1>2 DEF Stream!vars

\* Every step is one of PipeStream, or a stutter.
LEMMA NextRefines == StreamBase /\ StreamInv /\ [Next]_vars => [Stream!Next]_(Stream!vars)
<1> SUFFICES ASSUME StreamBase, StreamInv, Flows \/ UNCHANGED vars
             PROVE  Stream!Next \/ UNCHANGED Stream!vars
  BY NextFlows DEF StreamBase, StreamInv
<1>0. /\ QueueTypes /\ FrameTypes /\ Source \in Pipes /\ committed \in Nat
      /\ Static /\ Ends /\ Counted /\ ToldLast /\ InOrder
      /\ \A t \in Threads : call[t].of \in Pipes
  BY Named1, PipeAssumption DEF StreamBase, Types, StreamInv, QueueTypes
<1>1. ASSUME NEW t \in Threads, Commit(t) PROVE Stream!Produce
  <2>1. UNCHANGED CutOff
    BY <1>1 DEF Commit, CutOff
  <2> QED
    BY <1>1, <2>1 DEF Commit, Accepts, Stream!Produce
<1>2. ASSUME NEW t \in Threads, NEW p \in Pipes, Get(t, p) PROVE p \in Readers /\ Stream!Deliver(p)
  <2>0. p \in Readers /\ Takes(p) /\ UNCHANGED <<sourceDone, sinkDone, committed>> /\ ended' = ended
    BY <1>0, <1>2, GetEffect DEF Get
  <2>1. ~ended[p]
    BY <1>0, <2>0 DEF Ends, Takes
  <2> DEFINE n == Head(entries[p])
  <2>2. n \in LastOut(p) + 1 .. committed
    BY <1>0, <2>0, LaterOut
  <2>3. p \in MayLose \/ n = LastOut(p) + 1
    <3> SUFFICES ASSUME p \in Lossless PROVE n = LastOut(p) + 1
      BY <2>0, ReaderIsPipe
    <3>1. /\ Len(out[p]) + 1 <= Len(Acc(p)) /\ Len(Acc(p)) \in Nat /\ Len(out[p]) \in Nat
          /\ Acc(p)[Len(out[p]) + 1] = n
      BY <1>0, <2>0, AccTaken, AccTypes
    <3>2. Acc(p)[Len(out[p]) + 1] = Len(out[p]) + 1
      BY <1>0, <3>1 DEF Counted
    <3> QED
      BY <1>0, <3>1, <3>2, LossFreeOut
  <2>4. UNCHANGED CutOff
    BY <2>0 DEF CutOff
  <2>5. [r \in Readers |-> out'[r]] =
            [[r \in Readers |-> out[r]] EXCEPT ![p] = Append(@, n)]
    BY <1>0, <2>0, ReaderIsPipe DEF Takes, QueueTypes
  <2>6. Stream!LastGot(p) = LastOut(p)
    BY <2>0 DEF Stream!LastGot, LastOut
  <2> QED
    BY <2>0, <2>1, <2>2, <2>3, <2>4, <2>5, <2>6 DEF Stream!Deliver
<1>3. ASSUME NEW t \in Threads, NEW p \in Pipes, GetEnd(t, p)
      PROVE  p \in Readers /\ Stream!Tell(p)
  <2>0. /\ p \in Readers /\ entries[p] = <<>> /\ sourceDone[p]
        /\ ended' = [ended EXCEPT ![p] = TRUE]
        /\ UNCHANGED <<sourceDone, sinkDone, committed, out>>
    BY <1>3 DEF GetEnd, Calling, Readers
  <2>1. sourceDone[Source]
    BY <1>0, <2>0 DEF Ends
  <2>2. p \in MayLose \union CutOff \/ LastOut(p) = committed
    <3> SUFFICES ASSUME p \in Lossless, p \notin CutOff PROVE LastOut(p) = committed
      BY <2>0, ReaderIsPipe
    <3>1. \A q \in Way[p] : ~sinkDone[q]
      BY <2>0 DEF CutOff
    <3>2. Len(Acc(p)) = committed
      BY <1>0, <2>0, <3>1 DEF ToldLast
    <3>3. Len(Acc(p)) = Len(out[p]) + Len(entries[p]) /\ Len(entries[p]) = 0 /\ Len(out[p]) \in Nat
      BY <1>0, <2>0, AccTypes
    <3> QED
      BY <1>0, <3>2, <3>3, LossFreeOut
  <2>4. UNCHANGED CutOff
    BY <2>0 DEF CutOff
  <2>5. [r \in Readers |-> ended'[r]] =
            [[r \in Readers |-> ended[r]] EXCEPT ![p] = TRUE]
    BY <1>0, <2>0, ReaderIsPipe DEF QueueTypes
  <2>6. Stream!LastGot(p) = LastOut(p)
    BY <2>0 DEF Stream!LastGot, LastOut
  <2> QED
    BY <2>0, <2>1, <2>2, <2>4, <2>5, <2>6 DEF Stream!Tell
<1>4. ASSUME NEW t \in Threads, NEW p \in Pipes, SourceDoneSet(t, p) PROVE Stream!Close
  <2>1. p = Source
    BY <1>4 DEF SourceDoneSet, Calling, StreamBase, StreamUse, StreamCalls
  <2>2. UNCHANGED CutOff
    BY <1>4 DEF SourceDoneSet, CutOff
  <2> QED
    BY <1>0, <1>4, <2>1, <2>2 DEF SourceDoneSet, Stream!Close, QueueTypes
<1>5. ASSUME NEW t \in Threads, NEW p \in Pipes, SinkDoneSet(t, p)
      PROVE  \E S \in SUBSET Readers : Stream!Quit(S)
  <2>1. CutOff \subseteq CutOff' /\ CutOff' \in SUBSET Readers
    <3>1. \A q \in Pipes : sinkDone[q] => sinkDone'[q]
      BY SinkStays
    <3>2. \A r \in Readers : Way[r] \subseteq Pipes
      BY ReaderIsPipe DEF Way
    <3> QED
      BY <3>1, <3>2 DEF CutOff
  <2>2. CutOff' = CutOff \union CutOff'
    BY <2>1
  <2>3. Stream!Quit(CutOff')
    BY <1>5, <2>2 DEF SinkDoneSet, Stream!Quit
  <2> QED
    BY <2>1, <2>3
<1>6. ASSUME NEW t \in Threads, PushStep(t) PROVE UNCHANGED Stream!vars
  <2>1. CASE PushPop(t)
    <3>1. at[t] \in PushAt
      BY <2>1 DEF PushPop, PushAt
    <3>2. call[t].of \notin Readers
      BY <3>1, PushedIsNoReader
    <3>3. \A r \in Readers : out'[r] = out[r] /\ ended'[r] = ended[r]
      BY <1>0, <2>1, <3>2, ReaderIsPipe DEF PushPop, QueueTypes
    <3> QED
      BY <2>1, <3>3, SameView DEF PushPop
  <2>2. CASE PushEnd(t)
    <3>1. PICK c \in todo[t] : at[t] = "end" /\ sourceDone' = [sourceDone EXCEPT ![c] = TRUE]
      BY <2>2 DEF PushEnd
    <3>2. c # Source
      BY <1>0, <3>1, NotItsParent DEF Static
    <3>3. sourceDone'[Source] = sourceDone[Source]
      BY <1>0, <3>1, <3>2 DEF QueueTypes
    <3> QED
      BY <2>2, <3>3, SameView DEF PushEnd
  <2>3. CASE ~PushPop(t) /\ ~PushEnd(t)
    BY <1>6, <2>3, SameView
       DEF PushStep, PushCheck, PushReady, PushGive, PushGiven, PushLeft, PushDone, queueVars
  <2> QED
    BY <2>1, <2>2, <2>3
<1>7. ASSUME NEW t \in Threads, NEW p \in Pipes, PushBegin(t, p) PROVE UNCHANGED Stream!vars
  BY <1>7, SameView DEF PushBegin, queueVars
<1>8. CASE UNCHANGED vars
  BY <1>8, SameView DEF vars, queueVars
<1> QED
  BY <1>1, <1>2, <1>3, <1>4, <1>5, <1>6, <1>7, <1>8 DEF Flows, QueueCall, Stream!Next

\* Through all levels of a tree, with any number of threads that push, every
\* reader below waiting pipes gets the particles of the source in their order,
\* each once and without a gap, and get() returns -1 only when none is missing:
\* get(), commit() and toPushTry(), Pipe.h:342-445.
THEOREM TreeIsAStream == ASSUME StreamUse PROVE Spec => Streams
<1>1. Spec => [](StreamBase /\ StreamInv)
  BY StreamInvariance
<1> QED
  BY <1>1, InitRefines, NextRefines, PTL DEF Spec, Streams, Stream!Spec

=============================================================================
