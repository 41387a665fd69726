----------------------------- MODULE PipeProofs -----------------------------
(***************************************************************************)
(* What holds of pipes for all numbers of pipes, threads, sizes and        *)
(* particles, and all calls that keep the rules stated here.               *)
(***************************************************************************)
EXTENDS Pipe, SequenceTheorems, TLAPS

(* The parts of the type invariant *)
QueueTypes ==
    /\ entries \in [Pipes -> Seq(Nat)] /\ out \in [Pipes -> Seq(Nat)]
    /\ sourceDone \in [Pipes -> BOOLEAN] /\ sinkDone \in [Pipes -> BOOLEAN]
    /\ ended \in [Pipes -> BOOLEAN] /\ committed \in Nat
    /\ \A p \in Pipes : Len(entries[p]) <= SizeMax[p]

ListTypes ==
    /\ mem \in [Pipes -> {"live", "dying", "freed"}]
    /\ parents \in [Pipes -> SUBSET Pipes] /\ children \in [Pipes -> SUBSET Pipes]

LockTypes ==
    /\ childMtx \in [Pipes -> Threads \union {NoThread}]
    /\ parentMtx \in [Pipes -> Threads \union {NoThread}]

FrameTypes ==
    /\ at \in [Threads -> Locations] /\ call \in [Threads -> Call]
    /\ todo \in [Threads -> SUBSET Pipes] /\ entry \in [Threads -> Nat]

Types == QueueTypes /\ ListTypes /\ LockTypes /\ FrameTypes

(* A thread in a call is where this call leads it *)
PushAt == {"check", "ready", "pop", "give", "left", "end"}

Framed ==
    \A t \in Threads :
        /\ at[t] # "idle" => call[t] \in Calls[t]
        /\ at[t] \in PushAt => call[t].op = "toPushTry"
        /\ at[t] = "childAdd" => call[t].op = "connect" /\ call[t].on \in Pipes
        /\ at[t] = "childRemove" => call[t].op = "disconnect" /\ call[t].on \in Pipes
        /\ at[t] \in {"drop", "dropped"} => call[t].op = "destroy"
        /\ at[t] = "leave" => call[t].op \in {"parentDisconnect", "destroy"}

-----------------------------------------------------------------------------
(* Lemmas about queues and frames *)

\* A particle is appended to a queue.
LEMMA PutTypes ==
    ASSUME QueueTypes, NEW p \in Pipes, ~Full(p), NEW n \in Nat
    PROVE  /\ [entries EXCEPT ![p] = Append(@, n)] \in [Pipes -> Seq(Nat)]
           /\ \A q \in Pipes : Len([entries EXCEPT ![p] = Append(@, n)][q]) <= SizeMax[q]
  BY PipeAssumption DEF QueueTypes, Full

\* The first of a queue is taken.
LEMMA TakeTypes ==
    ASSUME QueueTypes, NEW p \in Pipes, entries[p] # <<>>
    PROVE  /\ [entries EXCEPT ![p] = Tail(@)] \in [Pipes -> Seq(Nat)]
           /\ \A q \in Pipes : Len([entries EXCEPT ![p] = Tail(@)][q]) <= SizeMax[q]
           /\ [out EXCEPT ![p] = Append(@, Head(entries[p]))] \in [Pipes -> Seq(Nat)]
           /\ Head(entries[p]) \in Nat
  BY PipeAssumption DEF QueueTypes

\* The frame of a thread that is in no call has the type of one.
LEMMA NoCallIsCall == NoCall \in Call /\ NoCall.op = "commit"
  BY PipeAssumption DEF NoCall, Call, CallNames

\* The pipes that a frame names.
LEMMA Named1 ==
    ASSUME FrameTypes, NEW t \in Threads
    PROVE  call[t].of \in Pipes /\ call[t].on \in Pipes \union {NoPipe}
  BY DEF FrameTypes, Call

\* A thread enters a call.
LEMMA EnterTypes ==
    ASSUME FrameTypes, NEW t \in Threads, NEW where \in Locations, NEW op, NEW of, NEW on,
           [op |-> op, of |-> of, on |-> on] \in Call, Enter(t, where, op, of, on)
    PROVE  FrameTypes'
  BY DEF FrameTypes, Enter

\* A call of the program is a call.
LEMMA CallingIsCall ==
    ASSUME NEW t \in Threads, NEW op, NEW of, NEW on, Calling(t, op, of, on)
    PROVE  [op |-> op, of |-> of, on |-> on] \in Call
  BY PipeAssumption DEF Calling

\* A thread goes on in its call.
LEMMA GotoTypes ==
    ASSUME FrameTypes, NEW t \in Threads, NEW where \in Locations, Goto(t, where)
    PROVE  FrameTypes'
  BY DEF FrameTypes, Goto

\* A thread returns.
LEMMA ReturnTypes == ASSUME FrameTypes, NEW t \in Threads, Return(t) PROVE FrameTypes'
  BY NoCallIsCall DEF FrameTypes, Return, Locations

\* A loop over children has a turn less to do.
LEMMA LoopTypes ==
    ASSUME FrameTypes, NEW t \in Threads, NEW where \in Locations, NEW over \in SUBSET Pipes,
           Loop(t, where, over)
    PROVE  FrameTypes'
  BY DEF FrameTypes, Loop

-----------------------------------------------------------------------------
\* The types of the first states.
LEMMA InitTypes == Init => Types
<1> SUFFICES ASSUME Init PROVE Types
  OBVIOUS
<1>1. QueueTypes
  BY PipeAssumption DEF Init, QueueTypes
<1>2. ListTypes
  BY PipeAssumption DEF Init, ListTypes
<1>3. LockTypes
  BY DEF Init, LockTypes
<1>4. FrameTypes
  BY NoCallIsCall DEF Init, FrameTypes, Locations
<1> QED
  BY <1>1, <1>2, <1>3, <1>4 DEF Types

\* Every step keeps the types.
LEMMA NextTypes == Types /\ Framed /\ [Next]_vars => Types'
<1> SUFFICES ASSUME Types, Framed, [Next]_vars PROVE Types'
  OBVIOUS
<1>0. QueueTypes /\ ListTypes /\ LockTypes /\ FrameTypes
  BY DEF Types
<1>1. QueueTypes'
  <2>1. CASE UNCHANGED queueVars
    BY <1>0, <2>1 DEF QueueTypes, queueVars
  <2>2. ASSUME NEW t \in Threads, Commit(t) PROVE QueueTypes'
    <3>1. Source \in Pipes /\ committed + 1 \in Nat /\ ~Full(Source)
      BY <1>0, <2>2, PipeAssumption DEF Commit, QueueTypes, Accepts
    <3> QED
      BY <1>0, <2>2, <3>1, PutTypes DEF Commit, QueueTypes
  <2>3. ASSUME NEW t \in Threads, NEW p \in Pipes, QueueCall(t, p) PROVE QueueTypes'
    <3>1. CASE Get(t, p)
      BY <1>0, <3>1, TakeTypes DEF Get, QueueTypes
    <3>2. CASE GetEnd(t, p) \/ SourceDoneSet(t, p) \/ SinkDoneSet(t, p)
      BY <1>0, <3>2 DEF GetEnd, SourceDoneSet, SinkDoneSet, QueueTypes
    <3> QED
      BY <2>3, <3>1, <3>2 DEF QueueCall
  <2>4. ASSUME NEW t \in Threads, PushPop(t) PROVE QueueTypes'
    BY <1>0, <2>4, TakeTypes, Named1 DEF PushPop, QueueTypes
  <2>5. ASSUME NEW t \in Threads, PushGive(t) PROVE QueueTypes'
    <3>1. PICK c \in todo[t] :
              entries' = IF Accepts(c) THEN [entries EXCEPT ![c] = Append(@, entry[t])]
                                       ELSE entries
      BY <2>5 DEF PushGive
    <3>2. c \in Pipes /\ entry[t] \in Nat
      BY <1>0, <3>1 DEF FrameTypes
    <3> QED
      BY <1>0, <2>5, <3>1, <3>2, PutTypes DEF PushGive, QueueTypes, Accepts
  <2>6. ASSUME NEW t \in Threads, PushEnd(t) PROVE QueueTypes'
    BY <1>0, <2>6 DEF PushEnd, QueueTypes, FrameTypes
  <2>7. ASSUME NEW t \in Threads, PushStep(t) PROVE QueueTypes'
    <3>1. CASE PushCheck(t) \/ PushReady(t) \/ PushGiven(t) \/ PushLeft(t) \/ PushDone(t)
      BY <2>1, <3>1 DEF PushCheck, PushReady, PushGiven, PushLeft, PushDone
    <3> QED
      BY <2>4, <2>5, <2>6, <2>7, <3>1 DEF PushStep
  <2>8. ASSUME NEW t \in Threads, ListStep(t) PROVE QueueTypes'
    BY <2>1, <2>8 DEF ListStep, ChildAdd, ChildRemove, DropChild, DropDone, DestroyParents,
                      LockParents, LeaveParent, LeaveDone
  <2>9. ASSUME NEW t \in Threads, NEW p \in Pipes, PushBegin(t, p) \/ ListCall(t, p)
        PROVE  QueueTypes'
    BY <2>1, <2>9 DEF PushBegin, ListCall, ParentDisconnect, LockParents, Destroy, Connect,
                      Disconnect
  <2> QED
    BY <2>1, <2>2, <2>3, <2>7, <2>8, <2>9 DEF Next, Step, vars
<1>2. ListTypes'
  <2>1. CASE UNCHANGED listVars
    BY <1>0, <2>1 DEF ListTypes, listVars
  <2>2. ASSUME NEW t \in Threads, NEW p \in Pipes, ListCall(t, p) PROVE ListTypes'
    BY <1>0, <2>2 DEF ListCall, ParentDisconnect, LockParents, Destroy, Connect, Disconnect,
                      ListTypes, listVars
  <2>3. ASSUME NEW t \in Threads, ListStep(t) PROVE ListTypes'
    <3> USE <1>0, Named1 DEF ListTypes
    <3>1. CASE ChildAdd(t)
      <4>1. call[t].on \in Pipes
        BY <1>0, <3>1 DEF ChildAdd, Framed
      <4> QED
        BY <3>1, <4>1 DEF ChildAdd
    <3>2. CASE ChildRemove(t)
      BY <3>2 DEF ChildRemove
    <3>3. CASE DropChild(t) \/ DropDone(t) \/ DestroyParents(t)
      BY <3>3 DEF DropChild, DropDone, DestroyParents, LockParents, listVars
    <3>4. CASE LeaveParent(t) \/ LeaveDone(t)
      BY <3>4 DEF LeaveParent, LeaveDone, listVars
    <3> QED
      BY <2>3, <3>1, <3>2, <3>3, <3>4 DEF ListStep
  <2>4. ASSUME NEW t \in Threads, PushStep(t) PROVE ListTypes'
    BY <2>1, <2>4 DEF PushStep, PushCheck, PushReady, PushPop, PushGive, PushGiven, PushLeft,
                      PushEnd, PushDone
  <2>5. ASSUME NEW t \in Threads, NEW p \in Pipes,
               Commit(t) \/ QueueCall(t, p) \/ PushBegin(t, p)
        PROVE  ListTypes'
    BY <2>1, <2>5 DEF Commit, QueueCall, Get, GetEnd, SourceDoneSet, SinkDoneSet, PushBegin
  <2> QED
    BY <2>1, <2>2, <2>3, <2>4, <2>5, PipeAssumption DEF Next, Step, vars
<1>3. LockTypes'
  <2>1. CASE UNCHANGED lockVars
    BY <1>0, <2>1 DEF LockTypes, lockVars
  <2>2. ASSUME NEW t \in Threads, NEW p \in Pipes, PushBegin(t, p) \/ ListCall(t, p)
        PROVE  LockTypes'
    BY <1>0, <2>2 DEF PushBegin, ListCall, ParentDisconnect, LockParents, Destroy, Connect,
                      Disconnect, LockTypes, lockVars
  <2>3. ASSUME NEW t \in Threads, PushDone(t) \/ ListStep(t) PROVE LockTypes'
    BY <1>0, <2>3, Named1 DEF PushDone, ListStep, ChildAdd, ChildRemove, DropChild, DropDone,
                      DestroyParents, LockParents, LeaveParent, LeaveDone, LockTypes, lockVars
  <2> QED
    BY <2>1, <2>2, <2>3
       DEF Next, Commit, Step, PushStep, QueueCall, Get, GetEnd, SourceDoneSet, SinkDoneSet,
           PushCheck, PushReady, PushPop, PushGive, PushGiven, PushLeft, PushEnd, vars
<1>4. FrameTypes'
  <2>1. CASE UNCHANGED frameVars
    BY <1>0, <2>1 DEF FrameTypes, frameVars
  <2>2. ASSUME NEW t \in Threads, NEW p \in Pipes, PushBegin(t, p) \/ ListCall(t, p)
        PROVE  FrameTypes'
    BY <1>0, <2>2, CallingIsCall, EnterTypes
       DEF PushBegin, ListCall, ParentDisconnect, Destroy, Connect, Disconnect, Locations
  <2>3. ASSUME NEW t \in Threads, PushStep(t) PROVE FrameTypes'
    <3>1. children[call[t].of] \in SUBSET Pipes /\ todo[t] \in SUBSET Pipes
      BY <1>0, Named1 DEF ListTypes, FrameTypes
    <3>2. \A c : todo[t] \ {c} \in SUBSET Pipes
      BY <3>1
    <3>3. CASE PushPop(t)
      <4>1. Head(entries[call[t].of]) \in Nat
        BY <1>0, <3>3, TakeTypes, Named1 DEF PushPop
      <4> QED
        BY <1>0, <3>1, <3>3, <4>1 DEF PushPop, FrameTypes, Locations
    <3>4. CASE ~PushPop(t)
      <4>1. CASE \E where \in Locations : Goto(t, where)
        BY <1>0, <4>1, GotoTypes
      <4>2. CASE \E where \in Locations, over \in SUBSET Pipes : Loop(t, where, over)
        BY <1>0, <4>2, LoopTypes
      <4>3. CASE PushCheck(t) \/ PushLeft(t)
        BY <3>1, <4>1, <4>2, <4>3 DEF PushCheck, PushLeft, Locations
      <4>4. CASE PushReady(t) \/ PushGiven(t)
        BY <3>2, <4>1, <4>2, <4>4 DEF PushReady, PushGiven, AfterFull, Locations
      <4>5. CASE PushGive(t) \/ PushEnd(t)
        BY <3>2, <4>2, <4>5 DEF PushGive, PushEnd, Locations
      <4>6. CASE PushDone(t)
        BY <1>0, <4>6, ReturnTypes DEF PushDone
      <4> QED
        BY <2>3, <3>4, <4>3, <4>4, <4>5, <4>6 DEF PushStep
    <3> QED
      BY <3>3, <3>4
  <2>4. ASSUME NEW t \in Threads, ListStep(t) PROVE FrameTypes'
    BY <1>0, <2>1, <2>4, GotoTypes, ReturnTypes
       DEF ListStep, ChildAdd, ChildRemove, DropChild, DropDone, DestroyParents, LeaveParent,
           LeaveDone, Locations
  <2> QED
    BY <2>1, <2>2, <2>3, <2>4
       DEF Next, Commit, Step, QueueCall, Get, GetEnd, SourceDoneSet, SinkDoneSet, vars
<1> QED
  BY <1>1, <1>2, <1>3, <1>4 DEF Types

\* No thread is in a call at first.
LEMMA InitFramed == Init => Framed
  BY DEF Init, Framed, PushAt

\* Every step keeps the frames.
LEMMA NextFramed == Types /\ Framed /\ [Next]_vars => Framed'
<1> SUFFICES ASSUME Types, Framed, [Next]_vars PROVE Framed'
  OBVIOUS
<1>0. FrameTypes
  BY DEF Types
<1>1. CASE UNCHANGED <<at, call>>
  BY <1>1 DEF Framed
<1>2. ASSUME NEW t \in Threads, NEW p \in Pipes, PushBegin(t, p) \/ ListCall(t, p)
      PROVE  Framed'
  <2>1. PICK where \in Locations, op \in CallNames, on \in Pipes \union {NoPipe} :
            /\ [op |-> op, of |-> p, on |-> on] \in Calls[t]
            /\ Enter(t, where, op, p, on)
            /\ <<where, op>> \in {<<"check", "toPushTry">>, <<"drop", "destroy">>,
                                 <<"leave", "parentDisconnect">>}
               \/ /\ <<where, op>> \in {<<"childAdd", "connect">>, <<"childRemove", "disconnect">>}
                  /\ on \in Pipes
    BY <1>2 DEF PushBegin, ListCall, ParentDisconnect, Destroy, Connect, Disconnect, Calling,
                Locations, CallNames
  <2>2. /\ at' = [at EXCEPT ![t] = where]
        /\ call' = [call EXCEPT ![t] = [op |-> op, of |-> p, on |-> on]]
    BY <2>1 DEF Enter
  <2> QED
    BY <1>0, <2>1, <2>2 DEF Framed, FrameTypes, PushAt
<1>3. ASSUME NEW t \in Threads, Step(t) PROVE Framed'
  <2>1. CASE Return(t)
    BY <1>0, <2>1 DEF Framed, FrameTypes, Return, PushAt
  <2>2. CASE UNCHANGED call /\ at[t] \in PushAt
             /\ \E where \in PushAt : at' = [at EXCEPT ![t] = where]
    BY <1>0, <2>2 DEF Framed, FrameTypes, PushAt
  <2>3. CASE UNCHANGED call /\ at[t] \in {"drop", "dropped"}
             /\ \E where \in {"dropped", "leave"} : at' = [at EXCEPT ![t] = where]
    BY <1>0, <2>3 DEF Framed, FrameTypes, PushAt
  <2> QED
    BY <1>1, <1>3, <2>1, <2>2, <2>3
       DEF Step, PushStep, ListStep, PushCheck, PushReady, PushPop, PushGive, PushGiven, PushLeft,
           PushEnd, PushDone, ChildAdd, ChildRemove, DropChild, DropDone, DestroyParents,
           LeaveParent, LeaveDone, Goto, Loop, AfterFull, PushAt, frameVars
<1> QED
  BY <1>1, <1>2, <1>3
     DEF Next, Commit, QueueCall, Get, GetEnd, SourceDoneSet, SinkDoneSet, vars, frameVars

\* Types and frames of every reachable state.
LEMMA FramesInvariance == Spec => [](Types /\ Framed)
<1>1. Types /\ Framed /\ [Next]_vars => (Types /\ Framed)'
  BY NextTypes, NextFramed
<1> QED
  BY InitTypes, InitFramed, <1>1, PTL DEF Spec

\* Every variable keeps its values, and no queue exceeds its size, however
\* commits and pushes of several threads meet: commit() asks and enters in one
\* section of mEntryMtx, Pipe.h:352-368.
THEOREM QueuesBounded == Spec => []TypeOK
<1>1. Types => TypeOK
  BY DEF Types, QueueTypes, ListTypes, LockTypes, FrameTypes, TypeOK
<1> QED
  BY <1>1, FramesInvariance, PTL

-----------------------------------------------------------------------------
(* The mutexes.  toPushTry() and the first half of the destructor hold the *)
(* one of the children, the second half and parentDisconnect() that of the *)
(* parents.                                                                *)
HoldsChildren == PushAt \union {"drop"}

Locks ==
    /\ \A t \in Threads : at[t] \in HoldsChildren => childMtx[call[t].of] = t
    /\ \A t \in Threads : at[t] = "leave" => parentMtx[call[t].of] = t
    /\ \A p \in Pipes, t \in Threads :
          childMtx[p] = t => at[t] \in HoldsChildren /\ call[t].of = p
    /\ \A p \in Pipes, t \in Threads :
          parentMtx[p] = t => at[t] = "leave" /\ call[t].of = p

(* What a push does between its begin and its end *)
PushMove(t) ==
    /\ at[t] \in PushAt /\ \E where \in PushAt : at' = [at EXCEPT ![t] = where]
    /\ UNCHANGED <<call, listVars, lockVars>>

\* A step of toPushTry() moves on inside of it, or ends it.
LEMMA PushMoves == ASSUME NEW t \in Threads, PushStep(t) PROVE PushMove(t) \/ PushDone(t)
  BY DEF PushStep, PushMove, PushCheck, PushReady, PushPop, PushGive, PushGiven, PushLeft,
         PushEnd, Goto, Loop, AfterFull, PushAt

\* All other steps leave lists, mutexes and frames alone.
LEMMA Idling ==
    ASSUME [Next]_vars,
           ~\E t \in Threads : Step(t) \/ \E p \in Pipes : PushBegin(t, p) \/ ListCall(t, p)
    PROVE  UNCHANGED <<listVars, lockVars, frameVars>>
  BY DEF Next, Commit, QueueCall, Get, GetEnd, SourceDoneSet, SinkDoneSet, vars

\* No mutex is taken at first.
LEMMA InitLocks == Init => Locks
  BY PipeAssumption DEF Init, Locks, HoldsChildren, PushAt

\* Every step keeps who holds which mutex.
LEMMA NextLocks == Types /\ Framed /\ Locks /\ [Next]_vars => Locks'
<1> SUFFICES ASSUME Types, Framed, Locks, [Next]_vars PROVE Locks'
  OBVIOUS
<1>0. FrameTypes /\ LockTypes /\ \A t \in Threads : call[t].of \in Pipes
  BY Named1 DEF Types
<1> USE <1>0, PipeAssumption DEF FrameTypes, LockTypes, Locks, HoldsChildren, PushAt
<1>1. CASE UNCHANGED <<lockVars, at, call>>
  BY <1>1 DEF lockVars
<1>2. ASSUME NEW t \in Threads, PushMove(t) PROVE Locks'
  BY <1>2 DEF PushMove, lockVars
<1>3. ASSUME NEW t \in Threads, PushDone(t) PROVE Locks'
  BY <1>3 DEF PushDone, Return
<1>4. ASSUME NEW t \in Threads, NEW p \in Pipes, PushBegin(t, p) PROVE Locks'
  BY <1>4 DEF PushBegin, Calling, Enter
<1>5. ASSUME NEW t \in Threads, NEW p \in Pipes, ListCall(t, p) PROVE Locks'
  <2>1. CASE ParentDisconnect(t, p)
    BY <2>1 DEF ParentDisconnect, LockParents, Calling, Enter
  <2>2. CASE Destroy(t, p)
    BY <2>2 DEF Destroy, Calling, Enter
  <2>3. CASE \E c \in Pipes : Connect(t, p, c) \/ Disconnect(t, p, c)
    BY <2>3, SMTT(30) DEF Connect, Disconnect, Calling, Enter, lockVars
  <2> QED
    BY <1>5, <2>1, <2>2, <2>3 DEF ListCall
<1>6. ASSUME NEW t \in Threads, ListStep(t) PROVE Locks'
  <2>1. CASE ChildAdd(t) \/ ChildRemove(t)
    BY <2>1, SMTT(30) DEF ChildAdd, ChildRemove, Return, lockVars
  <2>2. CASE DropChild(t) \/ LeaveParent(t)
    BY <1>1, <2>2 DEF DropChild, LeaveParent, frameVars
  <2>3. CASE DropDone(t)
    BY <2>3 DEF DropDone, Goto
  <2>4. CASE DestroyParents(t)
    BY <2>4 DEF DestroyParents, LockParents, Goto
  <2>5. CASE LeaveDone(t)
    BY <2>5 DEF LeaveDone, Return
  <2> QED
    BY <1>6, <2>1, <2>2, <2>3, <2>4, <2>5 DEF ListStep
<1> QED
  BY <1>1, <1>2, <1>3, <1>4, <1>5, <1>6, PushMoves, Idling DEF Step, frameVars

\* The mutexes of every reachable state.
LEMMA LocksInvariance == Spec => [](Types /\ Framed /\ Locks)
<1>1. Types /\ Framed /\ Locks /\ [Next]_vars => Locks'
  BY NextLocks
<1> QED
  BY InitLocks, <1>1, FramesInvariance, PTL DEF Spec

-----------------------------------------------------------------------------
(* The pop of a push.  The caller's part: a pipe that is read with get() is *)
(* not pushed; it would be a second consumer of its queue.                 *)
ReadersDoNotPush ==
    \A t, u \in Threads : \A k \in Calls[t], l \in Calls[u] :
        k.op = "get" /\ l.op = "toPushTry" => k.of # l.of

(* A push that has seen a particle is the only one that can take it        *)
Seen == \A t \in Threads : at[t] \in {"ready", "pop"} => entries[call[t].of] # <<>>

\* A particle that is given is the last of its queue.
LEMMA PutFills ==
    ASSUME QueueTypes, NEW c \in Pipes, NEW n \in Nat, NEW p \in Pipes, entries[p] # <<>>
    PROVE  [entries EXCEPT ![c] = Append(@, n)][p] # <<>>
<1>1. \A s \in Seq(Nat) : Append(s, n) # <<>>
  BY AppendProperties
<1>2. Append(entries[c], n) # <<>>
  BY <1>1 DEF QueueTypes
<1>3. [entries EXCEPT ![c] = Append(@, n)][p] = IF p = c THEN Append(entries[c], n) ELSE entries[p]
  BY DEF QueueTypes
<1> QED
  BY <1>2, <1>3

\* Every step keeps what a thread has seen.
LEMMA NextSeen ==
    ReadersDoNotPush /\ Types /\ Framed /\ Locks /\ Seen /\ [Next]_vars => Seen'
<1> SUFFICES ASSUME ReadersDoNotPush, Types, Framed, Locks, Seen, [Next]_vars,
                    NEW u \in Threads, at'[u] \in {"ready", "pop"}
             PROVE  entries'[call'[u].of] # <<>>
  BY DEF Seen
<1>0. FrameTypes /\ QueueTypes /\ LockTypes /\ call[u].of \in Pipes
  BY Named1 DEF Types
<1> USE <1>0 DEF FrameTypes, QueueTypes, LockTypes, Seen
<1>1. ASSUME NEW t \in Threads, PushStep(t), t = u PROVE entries'[call'[u].of] # <<>>
  BY <1>1 DEF PushStep, PushCheck, PushReady, PushPop, PushGive, PushGiven, PushLeft,
              PushEnd, PushDone, Goto, Loop, Return, queueVars
<1>2. ASSUME NEW t \in Threads, ListStep(t), t = u PROVE FALSE
  BY <1>2 DEF ListStep, ChildAdd, ChildRemove, DropChild, DropDone, DestroyParents, LeaveParent,
              LeaveDone, Goto, Return, frameVars
<1>3. ASSUME NEW t \in Threads, NEW p \in Pipes, PushBegin(t, p) \/ ListCall(t, p), t = u
      PROVE  FALSE
  BY <1>3 DEF PushBegin, ListCall, ParentDisconnect, Destroy, Connect, Disconnect, Enter
<1>4. CASE UNCHANGED <<at[u], call[u]>> /\ \A p \in Pipes : entries[p] # <<>> => entries'[p] # <<>>
  BY <1>4
<1>5. ASSUME NEW t \in Threads, PushPop(t), t # u PROVE entries'[call'[u].of] # <<>>
  <2>1. UNCHANGED <<at[u], call[u]>>
    BY <1>5 DEF PushPop
  <2>2. call[t].of # call[u].of
    BY <1>5, <2>1 DEF PushPop, Locks, HoldsChildren, PushAt
  <2> QED
    BY <1>5, <2>1, <2>2 DEF PushPop
<1>6. ASSUME NEW t \in Threads, NEW p \in Pipes, Get(t, p) PROVE entries'[call'[u].of] # <<>>
  <2>1. UNCHANGED <<at, call>>
    BY <1>6 DEF Get, frameVars
  <2>2. call[u].of # p
    BY <1>6, <2>1 DEF Get, Calling, ReadersDoNotPush, Framed, PushAt
  <2> QED
    BY <1>6, <2>1, <2>2 DEF Get
<1>7. ASSUME NEW t \in Threads, Step(t), t # u, ~PushPop(t)
      PROVE  entries'[call'[u].of] # <<>>
  <2>1. UNCHANGED <<at[u], call[u]>>
    BY <1>7 DEF Step, PushStep, PushCheck, PushReady, PushGive, PushGiven, PushLeft, PushEnd,
                PushDone, ListStep, ChildAdd, ChildRemove, DropChild, DropDone, DestroyParents,
                LeaveParent, LeaveDone, Goto, Loop, Return, frameVars
  <2>2. CASE PushGive(t)
    <3>1. PICK c \in todo[t] :
              entries' = IF Accepts(c) THEN [entries EXCEPT ![c] = Append(@, entry[t])]
                                       ELSE entries
      BY <2>2 DEF PushGive
    <3>2. c \in Pipes /\ entry[t] \in Nat
      BY <3>1
    <3> QED
      BY <1>4, <2>1, <3>1, <3>2, PutFills
  <2>3. CASE ~PushGive(t)
    BY <1>4, <1>7, <2>1, <2>3
       DEF Step, PushStep, PushCheck, PushReady, PushGiven, PushLeft, PushEnd, PushDone, ListStep,
           ChildAdd, ChildRemove, DropChild, DropDone, DestroyParents, LockParents, LeaveParent,
           LeaveDone, queueVars
  <2> QED
    BY <2>2, <2>3
<1>8. ASSUME NEW t \in Threads, NEW p \in Pipes, PushBegin(t, p) \/ ListCall(t, p), t # u
      PROVE  entries'[call'[u].of] # <<>>
  BY <1>4, <1>8 DEF PushBegin, ListCall, ParentDisconnect, LockParents, Destroy, Connect,
                    Disconnect, Enter, queueVars
<1>9. ASSUME NEW t \in Threads, Commit(t) PROVE entries'[call'[u].of] # <<>>
  <2>1. entries' = [entries EXCEPT ![Source] = Append(@, committed + 1)]
    BY <1>9 DEF Commit
  <2>2. \A p \in Pipes : entries[p] # <<>> => entries'[p] # <<>>
    BY <2>1, PutFills, PipeAssumption, SMTT(30)
  <2> QED
    BY <1>4, <1>9, <2>2 DEF Commit, frameVars
<1>10. ASSUME NEW t \in Threads, NEW p \in Pipes, QueueCall(t, p), ~Get(t, p)
       PROVE  entries'[call'[u].of] # <<>>
  BY <1>4, <1>10 DEF QueueCall, GetEnd, SourceDoneSet, SinkDoneSet, frameVars
<1>11. CASE UNCHANGED vars
  BY <1>4, <1>11 DEF vars, frameVars, queueVars
<1> QED
  BY <1>1, <1>2, <1>3, <1>5, <1>6, <1>7, <1>8, <1>9, <1>10, <1>11 DEF Next, Step

\* The front() of a push is never that of an empty queue: mChildListMtx keeps
\* other pushes away while mEntryMtx is free between the look and the pop,
\* Pipe.h:372-425.
THEOREM PushesFindTheirParticle == ASSUME ReadersDoNotPush PROVE Spec => []QueueInv
<1>1. Init => Seen
  BY DEF Init, Seen
<1>2. Types /\ Framed /\ Locks /\ Seen /\ [Next]_vars => Seen'
  BY NextSeen
<1>3. Seen => PopFindsParticle
  BY DEF Seen, PopFindsParticle
<1>4. Spec => []Seen
  BY <1>1, <1>2, LocksInvariance, PTL DEF Spec
<1> QED
  BY <1>3, <1>4, QueuesBounded, PTL DEF QueueInv

-----------------------------------------------------------------------------
(* The lists.  The caller's part: connect() takes the mutexes of the two    *)
(* lists one after the other, so the thread that disconnects a child, and   *)
(* only this one, may connect it.                                           *)
ConnectsAlone ==
    \A t, u \in Threads : \A k \in Calls[t], l \in Calls[u] :
        /\ k.op = "connect"
        /\ \/ l.op = "disconnect" /\ l.on = k.on
           \/ l.op = "parentDisconnect" /\ l.of = k.on
        => t = u

(* A pipe that a call names lives, and a destructor is alone               *)
NamesLive ==
    /\ \A t \in Threads, p \in Pipes :
          p \in Named(t) /\ call[t].op # "destroy" => mem[p] = "live"
    /\ \A t \in Threads : at[t] # "idle" /\ call[t].op = "destroy" => mem[call[t].of] = "dying"
    /\ \A t, u \in Threads :
          at[t] # "idle" /\ call[t].op = "destroy" /\ call[t].of \in Named(u) => u = t

(* The half of a connect() or disconnect() that is still to come           *)
HalvesMatch ==
    \A t \in Threads :
        /\ at[t] = "childAdd" => parents[call[t].on] = {call[t].of}
        /\ at[t] = "childRemove" => call[t].of \notin parents[call[t].on]

OneParent == \A c \in Pipes : \A p, q \in parents[c] : p = q

(* Whoever is gone, or has let go of its children, is in no list; a loop   *)
(* over children goes over children                                        *)
Unlinked ==
    /\ \A p \in Pipes : mem[p] = "freed" => parents[p] = {} /\ children[p] = {}
    /\ \A t \in Threads : at[t] \in {"dropped", "leave"} /\ call[t].op = "destroy" =>
          children[call[t].of] = {}
    /\ \A t \in Threads : at[t] \in {"ready", "give", "end"} =>
          todo[t] \subseteq children[call[t].of]

Links == NamesLive /\ HalvesMatch /\ OneParent /\ Unlinked /\ LinksAgree /\ UpToOneParent

ListBase == ConnectsAlone /\ Types /\ Framed /\ Locks

\* The pipes that are connected from the start.
LEMMA InitLinks == Init => Links
<1> SUFFICES ASSUME Init PROVE Links
  OBVIOUS
<1>1. NamesLive /\ HalvesMatch /\ Unlinked
  BY DEF Init, NamesLive, HalvesMatch, Unlinked
<1>2. OneParent /\ LinksAgree /\ UpToOneParent
  BY PipeAssumption DEF Init, OneParent, LinksAgree, UpToOneParent
<1> QED
  BY <1>1, <1>2 DEF Links

\* Every step keeps the names that threads use alive.
LEMMA NextNames == ListBase /\ NamesLive /\ [Next]_vars => NamesLive'
<1> SUFFICES ASSUME ListBase, NamesLive, [Next]_vars PROVE NamesLive'
  OBVIOUS
<1>0. FrameTypes /\ ListTypes /\ Framed /\ \A t \in Threads : call[t].of \in Pipes
  BY Named1 DEF ListBase, Types
<1>n. \A t \in Threads : \A p :
          /\ p \in Named(t) <=> at[t] # "idle" /\ p \in {call[t].of, call[t].on}
          /\ p \in Named(t)' <=> at'[t] # "idle" /\ p \in {call'[t].of, call'[t].on}
  BY DEF Named
<1> USE <1>0, <1>n, PipeAssumption DEF FrameTypes, ListTypes, NamesLive
<1>1. CASE UNCHANGED <<mem, at, call>>
  BY <1>1
<1>2. ASSUME NEW t \in Threads, Return(t), UNCHANGED mem PROVE NamesLive'
  BY <1>2 DEF Return
<1>3. ASSUME NEW t \in Threads, at[t] # "idle", UNCHANGED <<mem, call>>,
             NEW where \in Locations, at' = [at EXCEPT ![t] = where]
      PROVE  NamesLive'
  BY <1>3
<1>4. ASSUME NEW t \in Threads, NEW where \in Locations, NEW op \in CallNames \ {"destroy"},
             NEW of \in Pipes, NEW on \in Pipes \union {NoPipe},
             Calling(t, op, of, on), Enter(t, where, op, of, on), UNCHANGED mem
      PROVE  NamesLive'
  BY <1>4 DEF Calling, Enter
<1>5. ASSUME NEW t \in Threads, NEW p \in Pipes, Destroy(t, p) PROVE NamesLive'
  BY <1>5 DEF Destroy, Calling, Enter
<1>6. ASSUME NEW t \in Threads, LeaveDone(t) PROVE NamesLive'
  BY <1>6 DEF LeaveDone, Return, Framed
<1>7. ASSUME NEW t \in Threads, NEW p \in Pipes, PushBegin(t, p) \/ ListCall(t, p) PROVE NamesLive'
  BY <1>4, <1>5, <1>7 DEF PushBegin, ListCall, ParentDisconnect, LockParents, Connect, Disconnect,
                          listVars, Locations, CallNames
<1>8. ASSUME NEW t \in Threads, PushStep(t) PROVE NamesLive'
  <2>1. CASE PushMove(t)
    BY <1>3, <2>1, ZenonT(40) DEF PushMove, PushAt, Locations, listVars
  <2>2. CASE PushDone(t)
    BY <1>2, <2>2 DEF PushDone, listVars
  <2> QED
    BY <1>8, <2>1, <2>2, PushMoves
<1>9. ASSUME NEW t \in Threads, ListStep(t) PROVE NamesLive'
  BY <1>1, <1>2, <1>3, <1>6, <1>9
     DEF ListStep, ChildAdd, ChildRemove, DropChild, DropDone, DestroyParents, LockParents,
         LeaveParent, Goto, Locations, listVars, frameVars
<1> QED
  BY <1>1, <1>7, <1>8, <1>9, Idling DEF Step, listVars, frameVars

(* What the other four conjuncts say of the two lists and of the frames    *)
LinkSteps == HalvesMatch /\ OneParent /\ Unlinked /\ LinksAgree /\ UpToOneParent

\* A half of a connection that nobody is working on stays.
LEMMA HalvesStay ==
    ASSUME HalvesMatch, OneParent, LinksAgree, UpToOneParent, UNCHANGED <<parents, children>>,
           \A u \in Threads :
               at[u] \in {"childAdd", "childRemove"} \/ at'[u] \in {"childAdd", "childRemove"}
               => at'[u] = at[u] /\ call'[u] = call[u]
    PROVE  HalvesMatch' /\ OneParent' /\ LinksAgree' /\ UpToOneParent'
<1>1. HalvesMatch'
  BY DEF HalvesMatch
<1>2. OneParent' /\ UpToOneParent'
  BY DEF OneParent, UpToOneParent
<1>3. LinksAgree'
  BY DEF LinksAgree
<1> QED
  BY <1>1, <1>2, <1>3

\* Every step keeps both lists in agreement, except for the halves that are being done.
LEMMA NextLinks == ListBase /\ Links /\ [Next]_vars => LinkSteps'
<1> SUFFICES ASSUME ListBase, Links, [Next]_vars PROVE LinkSteps'
  OBVIOUS
<1>0. /\ FrameTypes /\ ListTypes /\ LockTypes /\ Framed /\ Locks
      /\ \A t \in Threads : call[t].of \in Pipes
  BY Named1 DEF ListBase, Types
<1>n. \A t \in Threads : \A p : p \in Named(t) <=> at[t] # "idle" /\ p \in {call[t].of, call[t].on}
  BY DEF Named
<1>c. /\ \A t, u \in Threads : at[t] = "childAdd" /\ at[u] = "childRemove" => call[t].on # call[u].on
      /\ \A t, u \in Threads : at[t] = "childAdd" /\ at[u] = "leave"
                                /\ call[u].op = "parentDisconnect" => call[t].on # call[u].of
      /\ \A t, u \in Threads : at[t] = "childAdd" /\ at[u] # "idle" /\ call[u].op = "destroy"
                                => call[u].of \notin {call[t].of, call[t].on}
  <2>1. ConnectsAlone /\ NamesLive
    BY DEF ListBase, Links
  <2>2. \A t \in Threads : at[t] # "idle" => call[t] \in Calls[t]
    BY <1>0 DEF Framed
  <2>3. \A t, u \in Threads : at[t] = "childAdd" /\ at[u] # "idle" /\ call[u].op = "destroy" => t # u
    BY <1>0 DEF Framed
  <2> QED
    BY <1>0, <1>n, <2>1, <2>2, <2>3 DEF ConnectsAlone, Framed, NamesLive
<1>d. \A t, u \in Threads, p, c \in Pipes :
          /\ Calling(t, "connect", p, c) =>
                /\ ~(at[u] = "childRemove" /\ call[u].on = c)
                /\ ~(at[u] = "leave" /\ call[u].op = "parentDisconnect" /\ call[u].of = c)
          /\ Calling(t, "disconnect", p, c) => ~(at[u] = "childAdd" /\ call[u].on = c)
  <2>1. ConnectsAlone
    BY DEF ListBase
  <2>2. \A t \in Threads : at[t] # "idle" => call[t] \in Calls[t]
    BY <1>0 DEF Framed
  <2> QED
    BY <1>0, <2>1, <2>2 DEF ConnectsAlone, Framed, Calling
<1> USE <1>0, PipeAssumption DEF FrameTypes, ListTypes, LinkSteps, Links
<1>1. CASE UNCHANGED <<listVars, frameVars>>
  BY <1>1 DEF listVars, frameVars, HalvesMatch, OneParent, Unlinked, LinksAgree, UpToOneParent
<1>2. ASSUME NEW t \in Threads, PushStep(t) PROVE LinkSteps'
  <2>0. /\ UNCHANGED listVars /\ at[t] \in PushAt
        /\ \E where \in PushAt \union {"idle"} : at' = [at EXCEPT ![t] = where]
        /\ \A u \in Threads \ {t} : call'[u] = call[u] /\ todo'[u] = todo[u]
        /\ at'[t] \in PushAt => call'[t] = call[t]
    BY <1>2 DEF PushStep, PushCheck, PushReady, PushPop, PushGive, PushGiven, PushLeft, PushEnd,
                PushDone, Goto, Loop, Return, AfterFull, PushAt
  <2>1. Unlinked'
    <3>1. at'[t] \in {"ready", "give", "end"} => todo'[t] \subseteq children[call[t].of]
      BY <1>2 DEF PushStep, PushCheck, PushReady, PushPop, PushGive, PushGiven, PushLeft, PushEnd,
                  PushDone, Goto, Loop, Return, AfterFull, Unlinked
    <3> QED
      BY <2>0, <3>1 DEF Unlinked, listVars, PushAt
  <2>2. (HalvesMatch /\ OneParent /\ LinksAgree /\ UpToOneParent)'
    BY <2>0, HalvesStay DEF listVars, PushAt
  <2> QED
    BY <2>1, <2>2
<1>3. ASSUME NEW t \in Threads, NEW p \in Pipes, PushBegin(t, p) PROVE LinkSteps'
  BY <1>3 DEF PushBegin, Calling, Enter, listVars, HalvesMatch, OneParent, Unlinked, LinksAgree,
              UpToOneParent
<1>4. ASSUME NEW t \in Threads, NEW p \in Pipes, NEW c \in Pipes, Connect(t, p, c) PROVE LinkSteps'
  <2>1. /\ HalvesMatch'
    <3>1. /\ parents[c] = {} /\ parents' = [parents EXCEPT ![c] = {p}]
          /\ at' = [at EXCEPT ![t] = "childAdd"]
          /\ call' = [call EXCEPT ![t] = [op |-> "connect", of |-> p, on |-> c]]
          /\ Calling(t, "connect", p, c)
      BY <1>4 DEF Connect, Enter
    <3>2. \A u \in Threads \ {t} : at[u] = "childAdd" => call[u].on # c
      BY <3>1 DEF HalvesMatch
    <3>3. \A u \in Threads \ {t} : at[u] = "childRemove" => call[u].on # c
      BY <1>d, <3>1
    <3>4. \A u \in Threads \ {t} : at[u] \in {"childAdd", "childRemove"} => call[u].on \in Pipes
      BY <1>0 DEF Framed
    <3>5. \A u \in Threads \ {t} : at'[u] = at[u] /\ call'[u] = call[u]
      BY <3>1
    <3>6. parents'[c] = {p} /\ \A d \in Pipes \ {c} : parents'[d] = parents[d]
      BY <3>1
    <3>7. at'[t] = "childAdd" /\ call'[t].on = c /\ call'[t].of = p
      BY <3>1
    <3> QED
      BY <3>2, <3>3, <3>4, <3>5, <3>6, <3>7 DEF HalvesMatch
  <2>2. OneParent' /\ UpToOneParent'
    BY <1>4, <1>c DEF Connect, Calling, Enter, OneParent, UpToOneParent
  <2>3. LinksAgree'
    BY <1>4, <1>c, SMTT(30) DEF Connect, Calling, Enter, LinksAgree
  <2>4. Unlinked'
    BY <1>4, <1>c DEF Connect, Calling, Enter, Unlinked
  <2> QED
    BY <2>1, <2>2, <2>3, <2>4
<1>5. ASSUME NEW t \in Threads, ChildAdd(t) PROVE LinkSteps'
  <2>1. /\ HalvesMatch'
    BY <1>5, <1>c DEF ChildAdd, Return, HalvesMatch
  <2>2. OneParent'
    BY <1>5 DEF ChildAdd, OneParent
  <2>5. UpToOneParent'
    <3> DEFINE p == call[t].of
               c == call[t].on
    <3>1. parents[c] = {p} /\ c \in Pipes /\ children' = [children EXCEPT ![p] = @ \union {c}]
      BY <1>5 DEF ChildAdd, HalvesMatch, Framed
    <3>2. \A q \in Pipes : c \in children[q] => q = p
      <4> SUFFICES ASSUME NEW q \in Pipes, c \in children[q], q # p PROVE FALSE
        OBVIOUS
      <4>1. q \notin parents[c]
        BY <3>1
      <4>2. PICK u \in Threads : /\ at[u] \in {"childAdd", "childRemove"}
                                 /\ call[u].of = q /\ call[u].on = c
        BY <3>1, <4>1 DEF LinksAgree
      <4>3. at[u] # "childRemove"
        BY <1>5, <1>c, <4>2 DEF ChildAdd
      <4>4. parents[c] = {q}
        BY <4>2, <4>3 DEF HalvesMatch
      <4> QED
        BY <3>1, <4>4
    <3> QED
      BY <3>1, <3>2 DEF UpToOneParent
  <2>3. LinksAgree'
    BY <1>5, <1>c DEF ChildAdd, Return, LinksAgree, HalvesMatch
  <2>4. Unlinked'
    <3>1. mem[call[t].of] = "live" /\ call[t].on \in Pipes
      BY <1>5, <1>n DEF ChildAdd, Framed, NamesLive
    <3>2. \A q \in Pipes \ {call[t].of} : children'[q] = children[q]
      BY <1>5, <3>1 DEF ChildAdd
    <3>3. children[call[t].of] \subseteq children'[call[t].of]
      BY <1>5, <3>1 DEF ChildAdd
    <3>4. at' = [at EXCEPT ![t] = "idle"] /\ UNCHANGED <<mem, parents>>
          /\ \A u \in Threads \ {t} : call'[u] = call[u] /\ todo'[u] = todo[u]
      BY <1>5 DEF ChildAdd, Return
    <3>5. \A u \in Threads : at[u] \in {"dropped", "leave"} /\ call[u].op = "destroy"
                              => call[u].of # call[t].of
      BY <1>5, <1>c DEF ChildAdd
    <3> QED
      BY <3>1, <3>2, <3>3, <3>4, <3>5, SMTT(30) DEF Unlinked
  <2> QED
    BY <2>1, <2>2, <2>3, <2>4, <2>5
<1>6. ASSUME NEW t \in Threads, NEW p \in Pipes, NEW c \in Pipes, Disconnect(t, p, c) PROVE LinkSteps'
  <2>1. /\ HalvesMatch'
    BY <1>6, <1>d DEF Disconnect, Enter, HalvesMatch
  <2>2. OneParent' /\ UpToOneParent'
    BY <1>6, <1>c DEF Disconnect, Calling, Enter, OneParent, UpToOneParent
  <2>3. LinksAgree'
    BY <1>6, <1>c, SMTT(30) DEF Disconnect, Calling, Enter, LinksAgree
  <2>4. Unlinked'
    BY <1>6, <1>c DEF Disconnect, Calling, Enter, Unlinked
  <2> QED
    BY <2>1, <2>2, <2>3, <2>4
<1>7. ASSUME NEW t \in Threads, ChildRemove(t) PROVE LinkSteps'
  <2>1. /\ HalvesMatch'
    BY <1>7, <1>c DEF ChildRemove, Return, HalvesMatch
  <2>2. OneParent' /\ UpToOneParent'
    BY <1>7, <1>c DEF ChildRemove, Return, OneParent, UpToOneParent, LinksAgree
  <2>3. LinksAgree'
    BY <1>7, <1>c DEF ChildRemove, Return, LinksAgree, HalvesMatch
  <2>4. Unlinked'
    <3>1. \A q \in Pipes \ {call[t].of} : children'[q] = children[q]
      BY <1>7 DEF ChildRemove
    <3>2. children'[call[t].of] \subseteq children[call[t].of]
      BY <1>7 DEF ChildRemove
    <3>3. at' = [at EXCEPT ![t] = "idle"] /\ UNCHANGED <<mem, parents>>
          /\ \A u \in Threads \ {t} : call'[u] = call[u] /\ todo'[u] = todo[u]
      BY <1>7 DEF ChildRemove, Return
    <3>4. \A u \in Threads : at[u] \in {"ready", "give", "end"} => call[u].of # call[t].of
      BY <1>7 DEF ChildRemove, Locks, HoldsChildren, PushAt
    <3> QED
      BY <3>1, <3>2, <3>3, <3>4 DEF Unlinked
  <2> QED
    BY <2>1, <2>2, <2>3, <2>4
<1>8. ASSUME NEW t \in Threads, NEW c \in Pipes, ParentDisconnect(t, c) PROVE LinkSteps'
  <2>1. /\ UNCHANGED listVars /\ at[t] = "idle" /\ at' = [at EXCEPT ![t] = "leave"]
        /\ call'[t].op = "parentDisconnect"
        /\ \A u \in Threads \ {t} : call'[u] = call[u]
        /\ UNCHANGED todo
    BY <1>8 DEF ParentDisconnect, LockParents, Calling, Enter
  <2>2. Unlinked'
    BY <2>1 DEF Unlinked, listVars
  <2> QED
    BY <2>1, <2>2, HalvesStay DEF listVars
<1>9. ASSUME NEW t \in Threads, NEW p \in Pipes, Destroy(t, p) PROVE LinkSteps'
  <2>1. /\ UNCHANGED <<parents, children>> /\ at[t] = "idle" /\ at' = [at EXCEPT ![t] = "drop"]
        /\ \A u \in Threads \ {t} : call'[u] = call[u]
        /\ \A q \in Pipes : mem'[q] = "freed" => mem[q] = "freed"
        /\ UNCHANGED todo
    BY <1>9 DEF Destroy, Calling, Enter
  <2>2. Unlinked'
    BY <2>1 DEF Unlinked
  <2> QED
    BY <2>1, <2>2, HalvesStay
<1>10. ASSUME NEW t \in Threads, DropChild(t) PROVE LinkSteps'
  <2> DEFINE p == call[t].of
  <2>1. PICK c \in children[p] : /\ parents' = [parents EXCEPT ![c] = @ \ {p}]
                                 /\ children' = [children EXCEPT ![p] = @ \ {c}]
    BY <1>10 DEF DropChild
  <2>2. at[t] = "drop" /\ call[t].op = "destroy" /\ UNCHANGED <<mem, frameVars>>
    BY <1>10 DEF DropChild, Framed
  <2>3. HalvesMatch'
    <3>1. \A u \in Threads : at[u] = "childAdd" => call[u].of # p
      BY <1>c, <2>2
    <3>2. \A d \in Pipes : parents'[d] \subseteq parents[d] /\ \A q \in parents[d] \ {p} : q \in parents'[d]
      BY <2>1
    <3>3. \A u \in Threads : at[u] \in {"childAdd", "childRemove"} => call[u].on \in Pipes
      BY <1>0 DEF Framed
    <3> QED
      BY <2>2, <3>1, <3>2, <3>3 DEF HalvesMatch, frameVars
  <2>4. OneParent' /\ UpToOneParent'
    BY <2>1 DEF OneParent, UpToOneParent
  <2>5. LinksAgree'
    BY <2>1, <2>2 DEF LinksAgree, frameVars
  <2>6. Unlinked'
    <3>1. \A u \in Threads : at[u] \in {"ready", "give", "end"} => call[u].of # p
      BY <2>2 DEF Locks, HoldsChildren, PushAt
    <3> QED
      BY <2>1, <2>2, <3>1 DEF Unlinked, frameVars
  <2> QED
    BY <2>3, <2>4, <2>5, <2>6
<1>11. ASSUME NEW t \in Threads, DropDone(t) \/ DestroyParents(t) PROVE LinkSteps'
  <2>1. /\ UNCHANGED <<listVars, call, todo>> /\ at[t] \in {"drop", "dropped"}
        /\ \E where \in {"dropped", "leave"} : at' = [at EXCEPT ![t] = where]
        /\ children[call[t].of] = {}
    BY <1>11 DEF DropDone, DestroyParents, LockParents, Goto, Framed, Unlinked
  <2>2. Unlinked'
    BY <2>1 DEF Unlinked, listVars
  <2> QED
    BY <2>1, <2>2, HalvesStay DEF listVars
<1>12. ASSUME NEW t \in Threads, LeaveParent(t) PROVE LinkSteps'
  <2> DEFINE c == call[t].of
  <2>1. PICK p \in parents[c] : /\ children' = [children EXCEPT ![p] = @ \ {c}]
                                /\ parents' = [parents EXCEPT ![c] = @ \ {p}]
                                /\ childMtx[p] = NoThread
    BY <1>12 DEF LeaveParent
  <2>2. at[t] = "leave" /\ UNCHANGED <<mem, frameVars>>
    BY <1>12 DEF LeaveParent
  <2>3. HalvesMatch'
    BY <1>c, <2>1, <2>2 DEF HalvesMatch, frameVars, Framed
  <2>4. OneParent' /\ UpToOneParent'
    BY <2>1 DEF OneParent, UpToOneParent
  <2>5. LinksAgree'
    BY <2>1, <2>2 DEF LinksAgree, frameVars
  <2>6. Unlinked'
    <3>1. \A u \in Threads : at[u] \in {"ready", "give", "end"} => call[u].of # p
      BY <2>1 DEF Locks, HoldsChildren, PushAt
    <3> QED
      BY <2>1, <2>2, <3>1 DEF Unlinked, frameVars
  <2> QED
    BY <2>3, <2>4, <2>5, <2>6
<1>13. ASSUME NEW t \in Threads, LeaveDone(t) PROVE LinkSteps'
  <2>1. /\ UNCHANGED <<parents, children>> /\ at[t] = "leave" /\ at' = [at EXCEPT ![t] = "idle"]
        /\ \A u \in Threads \ {t} : call'[u] = call[u] /\ todo'[u] = todo[u]
        /\ \A q \in Pipes : mem'[q] = "freed" => mem[q] = "freed"
                                \/ (q = call[t].of /\ parents[q] = {} /\ children[q] = {})
    BY <1>13 DEF LeaveDone, Return, Unlinked
  <2>2. HalvesMatch' /\ OneParent' /\ LinksAgree' /\ UpToOneParent'
    BY <2>1, HalvesStay
  <2>3. Unlinked'
    BY <2>1 DEF Unlinked
  <2> QED
    BY <2>2, <2>3
<1>14. ASSUME NEW t \in Threads, ListStep(t) PROVE LinkSteps'
  BY <1>5, <1>7, <1>10, <1>11, <1>12, <1>13, <1>14 DEF ListStep
<1>15. ASSUME NEW t \in Threads, NEW p \in Pipes, ListCall(t, p) PROVE LinkSteps'
  BY <1>4, <1>6, <1>8, <1>9, <1>15 DEF ListCall
<1> QED
  BY <1>1, <1>2, <1>3, <1>14, <1>15, Idling, PushMoves DEF Step

\* The lists of every reachable state.
LEMMA LinksInvariance == ASSUME ConnectsAlone PROVE Spec => [](ListBase /\ Links)
<1>1. Init => Links
  BY InitLinks
<1>2. Types /\ Framed /\ Locks /\ Links /\ [Next]_vars => Links'
  BY NextNames, NextLinks DEF ListBase, Links, LinkSteps
<1>3. Spec => []Links
  BY <1>1, <1>2, LocksInvariance, PTL DEF Spec
<1>4. Types /\ Framed /\ Locks => ListBase
  BY DEF ListBase
<1> QED
  BY <1>3, <1>4, LocksInvariance, PTL

\* A pipe is below one parent at most, whoever connects it: parentAdd()
\* refuses a second one, Pipe.h:513-530.
THEOREM OneParentAtMost == ASSUME ConnectsAlone PROVE Spec => []UpToOneParent
<1>1. Links => UpToOneParent
  BY DEF Links
<1> QED
  BY <1>1, LinksInvariance, PTL

\* The lists of parent and child agree, through connect(), disconnect(),
\* parentDisconnect() and both halves of the destructor: Pipe.h:284-336,
\* 451-482.
THEOREM BothListsAgree == ASSUME ConnectsAlone PROVE Spec => []LinksAgree
<1>1. Links => LinksAgree
  BY DEF Links
<1> QED
  BY <1>1, LinksInvariance, PTL

\* No list of a pipe in memory names one that is not, and no loop of a push
\* has such a child before it: Pipe.h:267-276, 399-444, 451-482.
THEOREM NothingDangles == ASSUME ConnectsAlone PROVE Spec => []ListsLive
<1>1. ListBase /\ Links => ListsLive
  <2> SUFFICES ASSUME ListBase, Links PROVE ListsLive
    OBVIOUS
  <2>0. /\ FrameTypes /\ ListTypes /\ Framed
        /\ \A t \in Threads : call[t].of \in Pipes
    BY Named1 DEF ListBase, Types
  <2>1. \A p \in Pipes : mem[p] = "freed" =>
            \A t \in Threads : at[t] \in {"childAdd", "childRemove"}
                               => call[t].of # p /\ call[t].on # p
    BY <2>0 DEF Links, NamesLive, Named, Framed
  <2>2. ASSUME NEW p \in Pipes, NEW q \in parents[p] \union children[p], mem[p] # "freed"
        PROVE  mem[q] # "freed"
    <3>1. SUFFICES ASSUME mem[q] = "freed" PROVE FALSE
      OBVIOUS
    <3>2. q \in Pipes
      BY <2>0 DEF ListTypes
    <3>3. parents[q] = {} /\ children[q] = {}
      BY <3>1, <3>2 DEF Links, Unlinked
    <3>4. (q \in children[p] <=> p \in parents[q]) /\ (p \in children[q] <=> q \in parents[p])
      BY <2>1, <3>1, <3>2 DEF Links, LinksAgree
    <3> QED
      BY <3>3, <3>4
  <2>3. ASSUME NEW t \in Threads, at[t] \in {"ready", "give", "end"}, NEW c \in todo[t]
        PROVE  mem[c] # "freed"
    <3>1. call[t].op = "toPushTry" /\ call[t].of \in Named(t)
      BY <2>0, <2>3 DEF Framed, PushAt, Named
    <3>2. mem[call[t].of] = "live"
      BY <2>0, <3>1 DEF Links, NamesLive
    <3>3. c \in children[call[t].of]
      BY <2>3 DEF Links, Unlinked
    <3> QED
      BY <2>0, <2>2, <3>2, <3>3
  <2> QED
    BY <2>2, <2>3 DEF ListsLive
<1> QED
  BY <1>1, LinksInvariance, PTL

-----------------------------------------------------------------------------
(* Deadlock.  Two places hold the mutex of one list and take that of       *)
(* another: the destructor of a parent goes down, a child that leaves its  *)
(* parents goes up.  The second half of a destructor, connect() and        *)
(* disconnect() wait for these two, and nobody waits for them.             *)

\* The members of a circle are at the places that wait.
LEMMA CircleWaits ==
    ASSUME NEW S, Circle(S), NEW t \in S
    PROVE  at[t] \in {"childAdd", "childRemove", "drop", "dropped", "leave"}
  BY DEF Circle, WaitsFor

\* Threads wait in a circle only if one of them destroys a parent whose child
\* leaves it on another one, whatever the program calls: Pipe.h:292-340,
\* 377-441, 452-480.
THEOREM OnlyLeaversDeadlock == Spec => []CirclesAreLeavers
<1>1. Types /\ Framed /\ Locks => CirclesAreLeavers
  <2> SUFFICES ASSUME Types, Framed, Locks, NEW S \in SUBSET Threads, Circle(S)
               PROVE  \E t, u \in S : LeaveEachOther(t, u)
    BY DEF CirclesAreLeavers
  <2>0. /\ FrameTypes /\ LockTypes /\ ListTypes /\ NoThread \notin S
        /\ \A t \in S : t \in Threads /\ call[t].of \in Pipes
    BY Named1, PipeAssumption DEF Types
  <2>1. \A t \in S : at[t] \in {"childAdd", "childRemove", "drop", "dropped", "leave"}
    BY CircleWaits
  \* whoever waits for children waits for a destructor, whoever waits for
  \* parents waits for one that leaves
  <2>2. \A t \in S, p \in Pipes : childMtx[p] = t => at[t] = "drop" /\ call[t].of = p
    BY <2>0, <2>1 DEF Locks, HoldsChildren, PushAt
  <2>3. \A t \in S, p \in Pipes : parentMtx[p] = t => at[t] = "leave" /\ call[t].of = p
    BY <2>0 DEF Locks
  <2>4. ASSUME NEW u \in S, at[u] = "leave" PROVE \E t \in S : LeaveEachOther(t, u)
    <3>1. WaitsFor(u) = {childMtx[p] : p \in parents[call[u].of]}
      BY <2>4 DEF WaitsFor
    <3>2. PICK p \in parents[call[u].of] : childMtx[p] \in S
      BY <3>1 DEF Circle
    <3>3. p \in Pipes
      BY <2>0 DEF ListTypes
    <3>4. at[childMtx[p]] = "drop" /\ call[childMtx[p]].of = p
      BY <2>2, <3>2, <3>3
    <3>5. call[childMtx[p]].op = "destroy"
      BY <2>0, <3>2, <3>4 DEF Framed
    <3> QED
      BY <2>4, <3>2, <3>4, <3>5 DEF LeaveEachOther
  <2>5. ASSUME NEW t \in S, at[t] = "drop" PROVE \E u \in S : at[u] = "leave"
    <3>1. WaitsFor(t) = {parentMtx[c] : c \in children[call[t].of]}
      BY <2>5 DEF WaitsFor
    <3>2. PICK c \in children[call[t].of] : parentMtx[c] \in S
      BY <3>1 DEF Circle
    <3>3. c \in Pipes
      BY <2>0 DEF ListTypes
    <3> QED
      BY <2>3, <3>2, <3>3
  <2>6. ASSUME NEW t \in S, at[t] = "dropped" PROVE \E u \in S : at[u] = "leave"
    <3>1. WaitsFor(t) = {parentMtx[call[t].of]}
      BY <2>6 DEF WaitsFor
    <3> QED
      BY <2>0, <2>3, <3>1 DEF Circle
  <2>7. ASSUME NEW t \in S, at[t] \in {"childAdd", "childRemove"} PROVE \E u \in S : at[u] = "drop"
    <3>1. WaitsFor(t) = {childMtx[call[t].of]}
      BY <2>7 DEF WaitsFor
    <3> QED
      BY <2>0, <2>2, <3>1 DEF Circle
  <2>8. PICK t \in S : TRUE
    BY DEF Circle
  <2> QED
    BY <2>1, <2>4, <2>5, <2>6, <2>7, <2>8
<1> QED
  BY <1>1, LocksInvariance, PTL
=============================================================================
