-------------------------------- MODULE Pipe --------------------------------
(***************************************************************************)
(* Pipes (Pipe.h): queues of particles in a tree, used by several threads. *)
(*                                                                         *)
(* Every pipe has three mutexes.  mEntryMtx guards the queue and is only   *)
(* held in sections that take no other mutex, so each of these sections is *)
(* one step.  mChildListMtx and mParentListMtx are held while other        *)
(* mutexes are taken: they are the variables childMtx and parentMtx, and   *)
(* the code between two acquisitions is one step.                          *)
(*                                                                         *)
(* A particle is the number of its acceptance by the pipe at the top.  The *)
(* lists of children and parents are sets: their order is the order in     *)
(* which siblings are served, which is left open here.                     *)
(***************************************************************************)
EXTENDS Integers, Sequences, FiniteSets

CONSTANTS
    Pipes,        \* the objects
    NoPipe,       \* NULL
    Threads,      \* the threads that use them
    NoThread,     \* the owner of a free mutex
    Source,       \* the pipe into which particles are committed
    Tree,         \* the parent of each pipe when the threads start, or NoPipe
    SizeMax,      \* mSizeMax of each pipe
    Blocking,     \* the pipes with mDataBlocking
    Calls,        \* the calls each thread makes, in any order and number
    NumParticles  \* bound: particles that are committed

CallNames == {"commit", "get", "toPushTry", "sourceDoneSet", "sinkDoneSet",
              "connect", "disconnect", "parentDisconnect", "destroy"}

Call == [op : CallNames, of : Pipes, on : Pipes \union {NoPipe}]

ASSUME PipeAssumption ==
    /\ NoPipe \notin Pipes /\ NoThread \notin Threads
    /\ Source \in Pipes
    /\ Tree \in [Pipes -> Pipes \union {NoPipe}]
    /\ SizeMax \in [Pipes -> Nat]
    /\ Blocking \subseteq Pipes
    /\ Calls \in [Threads -> SUBSET Call]
    /\ NumParticles \in Nat

VARIABLES
    mem,         \* "live", "dying" (in its destructor), "freed"
    entries,     \* mEntries, mSize
    sourceDone,  \* mSourceDone
    sinkDone,    \* mSinkDone
    parents,     \* mParentList
    children,    \* mChildList
    childMtx,    \* mChildListMtx: the thread that holds it
    parentMtx,   \* mParentListMtx
    at,          \* where each thread is in the call it makes
    call,        \* this call
    todo,        \* the rest of the children in a loop of toPushTry()
    entry,       \* the particle which toPushTry() hands on
    committed,   \* history: particles accepted by the source
    out,         \* history: the particles that have left each pipe
    ended        \* history: get() has returned -1

queueVars == <<entries, sourceDone, sinkDone, committed, out, ended>>
listVars == <<mem, parents, children>>
lockVars == <<childMtx, parentMtx>>
frameVars == <<at, call, todo, entry>>
vars == <<queueVars, listVars, lockVars, frameVars>>

NoCall == [op |-> "commit", of |-> Source, on |-> NoPipe]

Locations == {"idle", "check", "ready", "pop", "give", "left", "end",
              "childAdd", "childRemove", "drop", "dropped", "leave"}

-----------------------------------------------------------------------------
(* Frames *)


Full(p) == Len(entries[p]) >= SizeMax[p]

Accepts(p) == ~sourceDone[p] /\ ~sinkDone[p] /\ ~Full(p)

Named(t) == IF at[t] = "idle" THEN {} ELSE {call[t].of, call[t].on}

(* The caller's part: a pipe is only named in calls while it lives, and    *)
(* what the lists of other pipes still refer to is the code's part.        *)
Calling(t, op, of, on) ==
    /\ at[t] = "idle"
    /\ [op |-> op, of |-> of, on |-> on] \in Calls[t]
    /\ \A p \in {of, on} \ {NoPipe} : mem[p] = "live"

Enter(t, where, op, of, on) ==
    /\ at' = [at EXCEPT ![t] = where]
    /\ call' = [call EXCEPT ![t] = [op |-> op, of |-> of, on |-> on]]
    /\ UNCHANGED <<todo, entry>>

Goto(t, where) ==
    /\ at' = [at EXCEPT ![t] = where]
    /\ UNCHANGED <<call, todo, entry>>

Return(t) ==
    /\ at' = [at EXCEPT ![t] = "idle"]
    /\ call' = [call EXCEPT ![t] = NoCall]
    /\ todo' = [todo EXCEPT ![t] = {}]
    /\ entry' = [entry EXCEPT ![t] = 0]

Loop(t, where, over) ==
    /\ at' = [at EXCEPT ![t] = where]
    /\ todo' = [todo EXCEPT ![t] = over]
    /\ UNCHANGED <<call, entry>>

-----------------------------------------------------------------------------
(* The queue *)

Commit(t) ==
    /\ Calling(t, "commit", Source, NoPipe)
    /\ committed < NumParticles
    /\ Accepts(Source)
    /\ entries' = [entries EXCEPT ![Source] = Append(@, committed + 1)]
    /\ committed' = committed + 1
    /\ UNCHANGED <<sourceDone, sinkDone, out, ended, listVars, lockVars, frameVars>>

Get(t, p) ==
    /\ Calling(t, "get", p, NoPipe)
    /\ entries[p] # <<>>
    /\ out' = [out EXCEPT ![p] = Append(@, Head(entries[p]))]
    /\ entries' = [entries EXCEPT ![p] = Tail(@)]
    /\ UNCHANGED <<sourceDone, sinkDone, committed, ended, listVars, lockVars, frameVars>>

GetEndEarly(t, p) ==  \* mutant
    /\ Calling(t, "get", p, NoPipe)
    /\ sourceDone[p]
    /\ ended' = [ended EXCEPT ![p] = TRUE]
    /\ UNCHANGED <<entries, sourceDone, sinkDone, committed, out, listVars, lockVars, frameVars>>

GetEnd(t, p) ==
    /\ Calling(t, "get", p, NoPipe)
    /\ entries[p] = <<>> /\ sourceDone[p]
    /\ ended' = [ended EXCEPT ![p] = TRUE]
    /\ UNCHANGED <<entries, sourceDone, sinkDone, committed, out, listVars, lockVars, frameVars>>

SourceDoneSet(t, p) ==
    /\ Calling(t, "sourceDoneSet", p, NoPipe)
    /\ sourceDone' = [sourceDone EXCEPT ![p] = TRUE]
    /\ UNCHANGED <<entries, sinkDone, committed, out, ended, listVars, lockVars, frameVars>>

SinkDoneSet(t, p) ==
    /\ Calling(t, "sinkDoneSet", p, NoPipe)
    /\ sinkDone' = [sinkDone EXCEPT ![p] = TRUE]
    /\ UNCHANGED <<entries, sourceDone, committed, out, ended, listVars, lockVars, frameVars>>

-----------------------------------------------------------------------------
(* toPushTry(): holds mChildListMtx from PushBegin to PushDone             *)

PushBeginUnlocked(t, p) ==  \* mutant
    /\ Calling(t, "toPushTry", p, NoPipe)
    /\ Enter(t, "check", "toPushTry", p, NoPipe)
    /\ UNCHANGED <<queueVars, listVars, lockVars>>

PushBegin(t, p) ==
    /\ Calling(t, "toPushTry", p, NoPipe)
    /\ childMtx[p] = NoThread
    /\ childMtx' = [childMtx EXCEPT ![p] = t]
    /\ Enter(t, "check", "toPushTry", p, NoPipe)
    /\ UNCHANGED <<queueVars, listVars, parentMtx>>

PushCheck(t) ==
    LET p == call[t].of IN
    /\ at[t] = "check"
    /\ IF entries[p] = <<>> \/ children[p] = {}
       THEN Goto(t, "left")
       ELSE Loop(t, "ready", children[p])
    /\ UNCHANGED <<queueVars, listVars, lockVars>>

AfterFullDrop(p) == "pop"  \* mutant

(* The first child that is full decides                                    *)
AfterFull(p) == IF p \in Blocking THEN "left" ELSE "pop"

PushReady(t) ==
    LET p == call[t].of IN
    /\ at[t] = "ready"
    /\ IF todo[t] = {}
       THEN Goto(t, "pop")
       ELSE \E c \in todo[t] :
               IF ~Full(c) THEN Loop(t, "ready", todo[t] \ {c})
               ELSE Goto(t, AfterFull(p))
    /\ UNCHANGED <<queueVars, listVars, lockVars>>

(* The particle is removed under the mutex of the queue, which has been    *)
(* free since PushCheck.  front() of an empty queue is undefined: see      *)
(* PopFindsParticle.                                                       *)
PushPop(t) ==
    LET p == call[t].of IN
    /\ at[t] = "pop"
    /\ entries[p] # <<>>
    /\ entry' = [entry EXCEPT ![t] = Head(entries[p])]
    /\ out' = [out EXCEPT ![p] = Append(@, Head(entries[p]))]
    /\ entries' = [entries EXCEPT ![p] = Tail(@)]
    /\ at' = [at EXCEPT ![t] = "give"]
    /\ todo' = [todo EXCEPT ![t] = children[p]]
    /\ UNCHANGED <<call, sourceDone, sinkDone, committed, ended, listVars, lockVars>>

(* commit() of each child; what it returns is not looked at                *)
PushGive(t) ==
    /\ at[t] = "give"
    /\ \E c \in todo[t] :
          /\ entries' = IF Accepts(c)
                        THEN [entries EXCEPT ![c] = Append(@, entry[t])]
                        ELSE entries
          /\ Loop(t, "give", todo[t] \ {c})
    /\ UNCHANGED <<sourceDone, sinkDone, committed, out, ended, listVars, lockVars>>

PushGiven(t) ==
    /\ at[t] = "give"
    /\ todo[t] = {}
    /\ Goto(t, "check")
    /\ UNCHANGED <<queueVars, listVars, lockVars>>

WrongDone(p) == entries[p] = <<>> /\ sinkDone[p]  \* mutant

(* The end is handed on when the queue is empty and closed                 *)
NothingLeft(p) == entries[p] = <<>> /\ sourceDone[p]

PushLeft(t) ==
    LET p == call[t].of IN
    /\ at[t] = "left"
    /\ Loop(t, "end", IF NothingLeft(p) THEN children[p] ELSE {})
    /\ UNCHANGED <<queueVars, listVars, lockVars>>

PushEnd(t) ==
    /\ at[t] = "end"
    /\ \E c \in todo[t] :
          /\ sourceDone' = [sourceDone EXCEPT ![c] = TRUE]
          /\ Loop(t, "end", todo[t] \ {c})
    /\ UNCHANGED <<entries, sinkDone, committed, out, ended, listVars, lockVars>>

PushDoneLocked(t) ==  \* mutant
    /\ at[t] = "end"
    /\ todo[t] = {}
    /\ Return(t)
    /\ UNCHANGED <<queueVars, listVars, lockVars>>

PushDoneLetsGo(t) ==  \* mutant: with the end the children are let go
    /\ at[t] = "end"
    /\ todo[t] = {}
    /\ IF NothingLeft(call[t].of)
       THEN Goto(t, "drop") /\ UNCHANGED childMtx
       ELSE Return(t) /\ childMtx' = [childMtx EXCEPT ![call[t].of] = NoThread]
    /\ UNCHANGED <<queueVars, listVars, parentMtx>>

PushDone(t) ==
    /\ at[t] = "end"
    /\ todo[t] = {}
    /\ childMtx' = [childMtx EXCEPT ![call[t].of] = NoThread]
    /\ Return(t)
    /\ UNCHANGED <<queueVars, listVars, parentMtx>>

-----------------------------------------------------------------------------
(* connect() and disconnect(): the child first, then the parent            *)

ConnectAnyway(t, p, c) ==  \* mutant
    /\ Calling(t, "connect", p, c)
    /\ parentMtx[c] = NoThread
    /\ parents' = [parents EXCEPT ![c] = @ \union {p}]
    /\ Enter(t, "childAdd", "connect", p, c)
    /\ UNCHANGED <<queueVars, mem, children, lockVars>>

Connect(t, p, c) ==
    /\ Calling(t, "connect", p, c)
    /\ parentMtx[c] = NoThread
    /\ parents[c] = {}
    /\ parents' = [parents EXCEPT ![c] = {p}]
    /\ Enter(t, "childAdd", "connect", p, c)
    /\ UNCHANGED <<queueVars, mem, children, lockVars>>

ChildAdd(t) ==
    LET p == call[t].of IN
    /\ at[t] = "childAdd"
    /\ childMtx[p] = NoThread
    /\ children' = [children EXCEPT ![p] = @ \union {call[t].on}]
    /\ Return(t)
    /\ UNCHANGED <<queueVars, mem, parents, lockVars>>

Disconnect(t, p, c) ==
    /\ Calling(t, "disconnect", p, c)
    /\ parentMtx[c] = NoThread
    /\ parents' = [parents EXCEPT ![c] = @ \ {p}]
    /\ Enter(t, "childRemove", "disconnect", p, c)
    /\ UNCHANGED <<queueVars, mem, children, lockVars>>

ChildRemove(t) ==
    LET p == call[t].of IN
    /\ at[t] = "childRemove"
    /\ childMtx[p] = NoThread
    /\ children' = [children EXCEPT ![p] = @ \ {call[t].on}]
    /\ Return(t)
    /\ UNCHANGED <<queueVars, mem, parents, lockVars>>

-----------------------------------------------------------------------------
(* parentDisconnect() and the destructor: listDelete() for the children,   *)
(* then for the parents.  The mutex of the own list is held while each     *)
(* entry takes the mutex of its list.                                      *)

LockParents(t, c) ==
    /\ parentMtx[c] = NoThread
    /\ parentMtx' = [parentMtx EXCEPT ![c] = t]
    /\ UNCHANGED <<queueVars, listVars, childMtx>>

ParentDisconnect(t, c) ==
    /\ Calling(t, "parentDisconnect", c, NoPipe)
    /\ LockParents(t, c)
    /\ Enter(t, "leave", "parentDisconnect", c, NoPipe)

(* A pipe is destroyed by its owner when no call on it is made             *)
Destroy(t, p) ==
    /\ Calling(t, "destroy", p, NoPipe)
    /\ \A u \in Threads : p \notin Named(u)
    /\ childMtx[p] = NoThread
    /\ mem' = [mem EXCEPT ![p] = "dying"]
    /\ childMtx' = [childMtx EXCEPT ![p] = t]
    /\ Enter(t, "drop", "destroy", p, NoPipe)
    /\ UNCHANGED <<queueVars, parents, children, parentMtx>>

DropChildOnly(t) ==  \* mutant
    LET p == call[t].of IN
    /\ at[t] = "drop"
    /\ \E c \in children[p] : children' = [children EXCEPT ![p] = @ \ {c}]
    /\ UNCHANGED <<queueVars, mem, parents, lockVars, frameVars>>

DropChild(t) ==
    LET p == call[t].of IN
    /\ at[t] = "drop"
    /\ \E c \in children[p] :
          /\ parentMtx[c] = NoThread
          /\ parents' = [parents EXCEPT ![c] = @ \ {p}]
          /\ children' = [children EXCEPT ![p] = @ \ {c}]
    /\ UNCHANGED <<queueVars, mem, lockVars, frameVars>>

DropDone(t) ==
    LET p == call[t].of IN
    /\ at[t] = "drop"
    /\ children[p] = {}
    /\ childMtx' = [childMtx EXCEPT ![p] = NoThread]
    /\ Goto(t, "dropped")
    /\ UNCHANGED <<queueVars, listVars, parentMtx>>

DestroyParents(t) ==
    /\ at[t] = "dropped"
    /\ LockParents(t, call[t].of)
    /\ Goto(t, "leave")

LeaveUnlocked(t) ==  \* mutant
    LET c == call[t].of IN
    /\ at[t] = "leave"
    /\ \E p \in parents[c] :
          /\ children' = [children EXCEPT ![p] = @ \ {c}]
          /\ parents' = [parents EXCEPT ![c] = @ \ {p}]
    /\ UNCHANGED <<queueVars, mem, lockVars, frameVars>>

LeaveParent(t) ==
    LET c == call[t].of IN
    /\ at[t] = "leave"
    /\ \E p \in parents[c] :
          /\ childMtx[p] = NoThread
          /\ children' = [children EXCEPT ![p] = @ \ {c}]
          /\ parents' = [parents EXCEPT ![c] = @ \ {p}]
    /\ UNCHANGED <<queueVars, mem, lockVars, frameVars>>

LeaveDone(t) ==
    LET c == call[t].of IN
    /\ at[t] = "leave"
    /\ parents[c] = {}
    /\ parentMtx' = [parentMtx EXCEPT ![c] = NoThread]
    /\ mem' = [mem EXCEPT ![c] = IF call[t].op = "destroy" THEN "freed" ELSE @]
    /\ Return(t)
    /\ UNCHANGED <<queueVars, parents, children, childMtx>>

-----------------------------------------------------------------------------
(* The pipes have been connected before the threads start                  *)
Init ==
    /\ mem = [p \in Pipes |-> "live"]
    /\ entries = [p \in Pipes |-> <<>>]
    /\ sourceDone = [p \in Pipes |-> FALSE]
    /\ sinkDone = [p \in Pipes |-> FALSE]
    /\ parents = [p \in Pipes |-> {Tree[p]} \ {NoPipe}]
    /\ children = [p \in Pipes |-> {c \in Pipes : Tree[c] = p}]
    /\ childMtx = [p \in Pipes |-> NoThread]
    /\ parentMtx = [p \in Pipes |-> NoThread]
    /\ at = [t \in Threads |-> "idle"]
    /\ call = [t \in Threads |-> NoCall]
    /\ todo = [t \in Threads |-> {}]
    /\ entry = [t \in Threads |-> 0]
    /\ committed = 0
    /\ out = [p \in Pipes |-> <<>>]
    /\ ended = [p \in Pipes |-> FALSE]

PushStep(t) ==
    \/ PushCheck(t) \/ PushReady(t) \/ PushPop(t) \/ PushGive(t)
    \/ PushGiven(t) \/ PushLeft(t) \/ PushEnd(t) \/ PushDone(t)

ListStep(t) ==
    \/ ChildAdd(t) \/ ChildRemove(t) \/ DropChild(t) \/ DropDone(t)
    \/ DestroyParents(t) \/ LeaveParent(t) \/ LeaveDone(t)

QueueCall(t, p) ==
    \/ Get(t, p) \/ GetEnd(t, p) \/ SourceDoneSet(t, p) \/ SinkDoneSet(t, p)

ListCall(t, p) ==
    \/ ParentDisconnect(t, p) \/ Destroy(t, p)
    \/ \E c \in Pipes : Connect(t, p, c) \/ Disconnect(t, p, c)

Step(t) == PushStep(t) \/ ListStep(t)

Next ==
    \E t \in Threads :
        \/ Commit(t)
        \/ Step(t)
        \/ \E p \in Pipes : QueueCall(t, p) \/ PushBegin(t, p) \/ ListCall(t, p)

Spec == Init /\ [][Next]_vars

Pushing(t, p) == PushBegin(t, p) \/ (call[t].of = p /\ PushStep(t))

Reading(t, p) == Get(t, p) \/ GetEnd(t, p)

May(t, ops) == {p \in Pipes : \E k \in Calls[t] : k.op \in ops /\ k.of = p}

(* Threads that are in a call go on; pumps push and readers read again and *)
(* again, as processes that are ticked do.  A mutex that is free between   *)
(* two ticks of its other users is got by the thread that waits for it.    *)
Fairness ==
    \A t \in Threads :
        /\ \A p \in May(t, {"toPushTry"}) : SF_vars(Pushing(t, p))
        /\ \A p \in May(t, {"get"}) : WF_vars(Reading(t, p))
        /\ May(t, CallNames \ {"toPushTry", "get", "commit"}) # {} => SF_vars(ListStep(t))

FairSpec == Spec /\ Fairness

-----------------------------------------------------------------------------
(* Properties                                                              *)

TypeOK ==
    /\ mem \in [Pipes -> {"live", "dying", "freed"}]
    /\ entries \in [Pipes -> Seq(Nat)]
    /\ sourceDone \in [Pipes -> BOOLEAN]
    /\ sinkDone \in [Pipes -> BOOLEAN]
    /\ parents \in [Pipes -> SUBSET Pipes]
    /\ children \in [Pipes -> SUBSET Pipes]
    /\ childMtx \in [Pipes -> Threads \union {NoThread}]
    /\ parentMtx \in [Pipes -> Threads \union {NoThread}]
    /\ at \in [Threads -> Locations]
    /\ call \in [Threads -> Call]
    /\ todo \in [Threads -> SUBSET Pipes]
    /\ entry \in [Threads -> Nat]
    /\ committed \in Nat
    /\ out \in [Pipes -> Seq(Nat)]
    /\ ended \in [Pipes -> BOOLEAN]
    /\ \A p \in Pipes : Len(entries[p]) <= SizeMax[p]

Readers == {p \in Pipes : \E t \in Threads : [op |-> "get", of |-> p, on |-> NoPipe] \in Calls[t]}

(* The pipes from the source down to p: the least set with p that has the  *)
(* parents of its members.                                                 *)
Way ==
    [p \in Pipes |->
        {q \in Pipes : \A S \in SUBSET Pipes :
            p \in S /\ (\A r \in S : Tree[r] \in S \union {NoPipe}) => q \in S}]

MayLose == {r \in Readers : ~(Way[r] \ {r} \subseteq Blocking)}

CutOff == {r \in Readers : \E p \in Way[r] : sinkDone[p]}

Stream == INSTANCE PipeStream WITH
    produced <- committed,
    closed <- sourceDone[Source],
    got <- [r \in Readers |-> out[r]],
    told <- [r \in Readers |-> ended[r]],
    quit <- CutOff

(* Through all levels of the tree, with several threads that push, every   *)
(* reader gets the particles which the source accepted, in this order and  *)
(* without a gap, and get() returns -1 only when none is missing.          *)
Streams == Stream!Spec

(* Every particle reaches every reader below blocking pipes, if no         *)
(* receiver has cut it off, as long as all readers read: toPushTry() stops *)
(* at the first child that is full and is called again.                    *)
Delivered ==
    \A r \in Readers \ MayLose : \A n \in 1 .. NumParticles :
        committed = n ~> Len(out[r]) >= n \/ r \in CutOff

(* sourceDoneSet() at the top reaches every reader as -1 of get()          *)
EndArrives == \A r \in Readers : sourceDone[Source] ~> ended[r]

(* When toPushTry() removes a particle under a second lock of the queue,   *)
(* the particle it has seen under the first one is still there.            *)
PopFindsParticle ==
    \A t \in Threads : at[t] = "pop" => entries[call[t].of] # <<>>

(* No queue exceeds its size, however commits and pushes meet, and the     *)
(* pop() of a push finds the particle that the push has seen before.       *)
QueueInv == TypeOK /\ PopFindsParticle

(* "With up to one parent": a pipe is in the list of one parent at most    *)
UpToOneParent ==
    \A c \in Pipes : \A p, q \in Pipes :
        c \in children[p] /\ c \in children[q] => p = q

(* The lists of two pipes agree but for the half of a connect() or         *)
(* disconnect() that is still to come.                                     *)
LinksAgree ==
    \A p, c \in Pipes :
        \/ c \in children[p] <=> p \in parents[c]
        \/ \E t \in Threads : /\ at[t] \in {"childAdd", "childRemove"}
                              /\ call[t].of = p /\ call[t].on = c

(* No pipe that is in memory refers to one that is not, and no call that   *)
(* walks over children has such a child before it.                         *)
ListsLive ==
    /\ \A p \in Pipes : mem[p] # "freed" =>
          \A q \in parents[p] \union children[p] : mem[q] # "freed"
    /\ \A t \in Threads : at[t] \in {"ready", "give", "end"} =>
          \A c \in todo[t] : mem[c] # "freed"

(* The threads whose mutexes a thread needs for its next step              *)
WaitsFor(t) ==
    CASE at[t] \in {"childAdd", "childRemove"} -> {childMtx[call[t].of]}
      [] at[t] = "drop" -> {parentMtx[c] : c \in children[call[t].of]}
      [] at[t] = "dropped" -> {parentMtx[call[t].of]}
      [] at[t] = "leave" -> {childMtx[p] : p \in parents[call[t].of]}
      [] OTHER -> {}

(* A circle: each of these threads waits for a mutex one of them holds     *)
Circle(S) == S # {} /\ \A t \in S : WaitsFor(t) \intersect S # {}

NoCircularWait == \A S \in SUBSET Threads : ~Circle(S)

(* t is in the destructor of a parent of the pipe that leaves it on u      *)
LeaveEachOther(t, u) ==
    /\ at[t] = "drop" /\ call[t].op = "destroy"
    /\ at[u] = "leave"
    /\ call[t].of \in parents[call[u].of]

(* Threads wait for each other in one way only: connect(), disconnect(),   *)
(* pushes, and pipes that leave or are destroyed, may meet in any order    *)
(* but for the destructor of a parent and its child that leaves meanwhile. *)
CirclesAreLeavers ==
    \A S \in SUBSET Threads :
        Circle(S) => \E t, u \in S : LeaveEachOther(t, u)

(* A destructor comes to its end, unless the program lets parent and child *)
(* leave each other on two threads                                         *)
DestroyEnds ==
    \A p \in Pipes :
        mem[p] = "dying" ~>
            \/ mem[p] = "freed"
            \/ \E t, u \in Threads : LeaveEachOther(t, u)
=============================================================================
