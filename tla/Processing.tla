----------------------------- MODULE Processing -----------------------------
(***************************************************************************)
(* The process tree of src/Processing.cpp.                                  *)
(*                                                                         *)
(* A process is ticked by its parent, by a thread of its own (an internal   *)
(* driver) or by a loop of the user (an external driver, the main loop for  *)
(* the root).  The frame of Processing::treeTick() that is active on a      *)
(* process p is pc[p], cur[p] and todo[p]; every access to state that        *)
(* another thread reads or writes is a step of its own.  `x |= flags' on     *)
(* mStatParent is no atomic operation in the code: it is a load (which       *)
(* fills latch[p]) followed by a store (StatStore).                         *)
(*                                                                         *)
(* What the virtual functions of a concrete process do is left open: while  *)
(* a frame is in "call" the process starts, cancels and repels children in   *)
(* any order and returns any result.                                        *)
(***************************************************************************)
EXTENDS Naturals, FiniteSets

CONSTANTS
    Procs,      \* process objects; each one is created at most once
    Root,       \* the process the application's main() creates and drives
    Starts,     \* the calls start(child, driver) that the program contains
    Ops,        \* the further calls on children that the program contains
    Walkers,    \* processes which print the process tree (SystemDebugging)
    NumBurst,   \* ticks a driver does before it looks at progress()
    Results,    \* the results initialize() and process() may return
    NoProc      \* the NULL pointer

DriverMode == {"DrivenByParent", "DrivenByNewInternalDriver",
               "DrivenByExternalDriver"}

ASSUME ProcessingAssumption ==
    /\ Root \in Procs
    /\ NoProc \notin Procs
    /\ Starts \subseteq Procs \X (Procs \ {Root}) \X DriverMode
    /\ Ops \subseteq {"cancel", "repel", "whenFinishedRepel", "display"}
    /\ Walkers \subseteq Procs
    /\ NumBurst \in Nat \ {0}
    /\ Results \subseteq {"Positive", "Negative"}

VARIABLES
    mem,        \* the object: not yet created, live, or deleted
    st,         \* mStateAbstract
    success,    \* mSuccess: only its sign matters
    statParent, \* mStatParent: the flags its parent sets
    statDrv,    \* mStatDrv: the flags its driver sets
    driver,     \* mDriver
    loop,       \* the thread or user loop that drives the process, if any
    burst,      \* ticks this loop did since it looked at progress()
    parent,     \* the process that called start() for this one
    children,   \* mChildList
    ref,        \* children to which the process still holds a pointer
    opened,     \* history: initialize() has been entered
    pc,         \* where the treeTick() of the process is, "idle" if nowhere
    cur,        \* pChild of that frame
    todo,       \* the part of mChildList the frame has still to visit
    latch,      \* a load of some mStatParent whose store is outstanding
    walker,     \* the process inside processTreeStr(), if any
    wlock,      \* the processes whose mChildListMtx the walk holds
    wat,        \* the innermost of them
    wtodo       \* per locked process: children the walk has still to visit

frameVars == <<pc, cur, todo>>
walkVars == <<walker, wlock, wat, wtodo>>
vars == <<mem, st, success, statParent, statDrv, driver, loop, burst, parent,
          children, ref, opened, frameVars, latch, walkVars>>

ProcessState == {"Existent", "Initializing", "Processing", "DownShutting",
                 "ChildrenUnusedSet", "FinishedPrepare", "Finished"}
ParentFlag == {"Started", "Canceled", "Unused", "WhenFinishedUnused"}
DriverFlag == {"InitDone", "ProcessDone", "ShutdownDone", "Undriven",
               "PrTreeDisable"}
Success == {"Pending", "Positive", "Negative"}
Pc == {"idle", "loop", "child", "erase", "destroy", "call", "start", "repel",
       "walk", "mark", "finish"}

NoLatch == [on |-> NoProc, snap |-> {}, add |-> {}]
Latch == [on : Procs \cup {NoProc}, snap : SUBSET ParentFlag,
          add : SUBSET ParentFlag]

-----------------------------------------------------------------------------
\* Helpers

\* The frame of p is not between a load and its store.
Ready(p) == latch[p] = NoLatch

At(p, where) == pc[p] = where /\ Ready(p)

\* All children visited: treeTick() is at its switch over mStateAbstract.
AtSwitch(p, s) == At(p, "loop") /\ todo[p] = {} /\ st[p] = s

Goto(p, where) == pc' = [pc EXCEPT ![p] = where]

\* progress(), of a process in state s: a finished process still has work to
\* do while a child exists.
ProgressWithoutChildren(p, s) == s # "Finished"  \* mutant
Progress(p, s) == s # "Finished" \/ children[p] # {}

\* unusedSet() also cancels.
UnusedOnly == {"Unused"}  \* mutant
UnusedFlags == {"Canceled", "Unused"}

\* Where a canceled process goes from state s.
CancelTargetSkip(s) == "FinishedPrepare"  \* mutant
CancelTarget(s) == IF s = "Existent" THEN "FinishedPrepare" ELSE "DownShutting"

\* The process has been asked to be repelled when finished, as it finishes.
RepelledAndCanceled(p) ==  \* mutant
    {"WhenFinishedUnused", "Canceled"} \subseteq statParent[p]
RepelledWhenFinished(p) == "WhenFinishedUnused" \in statParent[p]

\* The ticks of a burst, counted from one in each burst.
BurstNext(n) == IF n < NumBurst THEN n + 1 ELSE 1

\* The load half of `pOn->mStatParent |= flags', done by the frame of p.
StatLoad(p, on, flags) ==
    latch' = [latch EXCEPT ![p] =
                [on |-> on, snap |-> statParent[on], add |-> flags]]

\* childCanBeRemoved of treeTick(), for a child with driver flags drv.
RemovedWhenUndriven(c, drv) == "Undriven" \in drv  \* mutant
CanBeRemoved(c, drv) == "Undriven" \in drv /\ "Unused" \in statParent[c]

\* mChildListMtx of p is free: only the walk holds it for more than a step.
CanLockAlways(p) == p \in Procs  \* mutant
CanLock(p) == p \notin wlock

HasThread(p) == driver[p] = "DrivenByNewInternalDriver"

\* thread::join() returns.  Without a thread there is nothing to wait for.
CanJoinDetached(c) == HasThread(c) => loop[c] # "none"  \* mutant
CanJoin(c) == HasThread(c) => loop[c] = "exited"

\* The pointers p keeps after it has handed c over with repel() or
\* whenFinishedRepel(): both return NULL so that the caller drops its own.
RefsKept(p, c) == ref[p] \cup {c}  \* mutant
RefsLeft(p, c) == ref[p] \ {c}

\* treeTick() of p sets the state to s and mStatDrv to drv and returns, to
\* parentalDrive() of the parent or to a driver loop.  parentalDrive() sets the
\* child undriven when it makes no progress; then the parent's treeTick() looks
\* whether the child can be removed.
Leave(p, s, drv) ==
    LET byParent == driver[p] = "DrivenByParent"
        drvDone == IF byParent /\ ~Progress(p, s) THEN drv \cup {"Undriven"} ELSE drv
        next == IF CanBeRemoved(p, drvDone) THEN "erase" ELSE "loop"
    IN /\ st' = [st EXCEPT ![p] = s]
       /\ statDrv' = [statDrv EXCEPT ![p] = drvDone]
       /\ pc' = IF byParent THEN [pc EXCEPT ![p] = "idle", ![parent[p]] = next]
                            ELSE [pc EXCEPT ![p] = "idle"]

-----------------------------------------------------------------------------
\* Drivers

\* A driver loop calls treeTick() of the process it drives.  Between two
\* bursts it sleeps and goes on as long as there is progress.
TickBegin(p) ==
    /\ loop[p] = "running" /\ pc[p] = "idle"
    /\ "Undriven" \notin statDrv[p]
    /\ burst[p] < NumBurst \/ Progress(p, st[p])
    /\ burst' = [burst EXCEPT ![p] = BurstNext(@)]
    /\ Goto(p, "loop")
    /\ todo' = [todo EXCEPT ![p] = children[p]]
    /\ UNCHANGED <<mem, st, success, statParent, statDrv, driver, loop, parent,
                   children, ref, opened, cur, latch, walkVars>>

\* No work is left: undrivenSet() and leave the loop.  The main loop only
\* leaves it.  A thread still has to run to its end (ThreadExit).
LoopBreak(p) ==
    /\ loop[p] = "running" /\ pc[p] = "idle"
    /\ "Undriven" \notin statDrv[p]
    /\ burst[p] = NumBurst /\ ~Progress(p, st[p])
    /\ IF p = Root THEN UNCHANGED statDrv
       ELSE statDrv' = [statDrv EXCEPT ![p] = @ \cup {"Undriven"}]
    /\ IF HasThread(p) THEN UNCHANGED loop ELSE loop' = [loop EXCEPT ![p] = "exited"]
    /\ UNCHANGED <<mem, st, success, statParent, driver, burst, parent, children,
                   ref, opened, frameVars, latch, walkVars>>

ThreadExit(p) ==
    /\ loop[p] = "running" /\ "Undriven" \in statDrv[p]
    /\ loop' = [loop EXCEPT ![p] = "exited"]
    /\ UNCHANGED <<mem, st, success, statParent, statDrv, driver, burst, parent,
                   children, ref, opened, frameVars, latch, walkVars>>

-----------------------------------------------------------------------------
\* treeTick(): the loop over the children

DrivenHere(c) == driver[c] = "DrivenByParent" /\ "Undriven" \notin statDrv[c]

\* parentalDrive() ticks a child that has no other driver ...
ChildTick(p) ==
    /\ At(p, "loop")
    /\ \E c \in todo[p] :
         /\ DrivenHere(c)
         /\ cur' = [cur EXCEPT ![p] = c]
         /\ pc' = [pc EXCEPT ![p] = "child", ![c] = "loop"]
         /\ todo' = [todo EXCEPT ![p] = @ \ {c}, ![c] = children[c]]
    /\ UNCHANGED <<mem, st, success, statParent, statDrv, driver, loop, burst, parent,
                   children, ref, opened, latch, walkVars>>

\* ... and leaves alone one that has, or that is undriven.
ChildSkip(p) ==
    /\ At(p, "loop")
    /\ \E c \in todo[p] :
         /\ ~DrivenHere(c)
         /\ IF CanBeRemoved(c, statDrv[c])
            THEN cur' = [cur EXCEPT ![p] = c] /\ Goto(p, "erase")
            ELSE UNCHANGED <<cur, pc>>
         /\ todo' = [todo EXCEPT ![p] = @ \ {c}]
    /\ UNCHANGED <<mem, st, success, statParent, statDrv, driver, loop, burst, parent,
                   children, ref, opened, latch, walkVars>>

\* Lock mChildListMtx, erase the child from the list, unlock.
ChildErase(p) ==
    /\ At(p, "erase")
    /\ CanLock(p)
    /\ children' = [children EXCEPT ![p] = @ \ {cur[p]}]
    /\ Goto(p, "destroy")
    /\ UNCHANGED <<mem, st, success, statParent, statDrv, driver, loop, burst, parent,
                   ref, opened, cur, todo, latch, walkVars>>

\* delete: the content of the object is gone.
Delete(p) ==
    /\ mem' = [mem EXCEPT ![p] = "deleted"]
    /\ st' = [st EXCEPT ![p] = "Existent"]
    /\ success' = [success EXCEPT ![p] = "Pending"]
    /\ statParent' = [statParent EXCEPT ![p] = {}]
    /\ statDrv' = [statDrv EXCEPT ![p] = {}]
    /\ opened' = [opened EXCEPT ![p] = FALSE]
    /\ ref' = [ref EXCEPT ![p] = {}]

\* destroy(): join the child's thread if it has one, then delete the object.
ChildDestroy(p) ==
    /\ At(p, "destroy")
    /\ CanJoin(cur[p])
    /\ Delete(cur[p])
    /\ Goto(p, "loop")
    /\ cur' = [cur EXCEPT ![p] = NoProc]
    /\ UNCHANGED <<driver, loop, burst, parent, children, todo, latch, walkVars>>

-----------------------------------------------------------------------------
\* treeTick(): the switch over mStateAbstract

\* PsExistent.  A process canceled here never runs any of its functions.
TickExistent(p) ==
    /\ AtSwitch(p, "Existent")
    /\ LET next == IF "Canceled" \in statParent[p] THEN CancelTarget("Existent")
                   ELSE "Initializing"
       IN Leave(p, next, statDrv[p])
    /\ UNCHANGED <<mem, success, statParent, driver, loop, burst, parent, children,
                   ref, opened, cur, todo, latch, walkVars>>

\* PsInitializing and PsProcessing of a canceled process.
TickCanceled(p) ==
    /\ AtSwitch(p, "Initializing") \/ AtSwitch(p, "Processing")
    /\ "Canceled" \in statParent[p]
    /\ Leave(p, CancelTarget(st[p]), statDrv[p])
    /\ UNCHANGED <<mem, success, statParent, driver, loop, burst, parent, children,
                   ref, opened, cur, todo, latch, walkVars>>

\* initialize(), process() or shutdown() is entered.
TickCall(p) ==
    /\ \/ AtSwitch(p, "Initializing") /\ "Canceled" \notin statParent[p]
       \/ AtSwitch(p, "Processing") /\ "Canceled" \notin statParent[p]
       \/ AtSwitch(p, "DownShutting")
    /\ opened' = [opened EXCEPT ![p] = @ \/ st[p] = "Initializing"]
    /\ Goto(p, "call")
    /\ UNCHANGED <<mem, st, success, statParent, statDrv, driver, loop, burst, parent,
                   children, ref, cur, todo, latch, walkVars>>

\* PsChildrenUnusedSet, one unusedSet() per child.
TickMark(p) ==
    /\ AtSwitch(p, "ChildrenUnusedSet")
    /\ todo' = [todo EXCEPT ![p] = children[p]]
    /\ Goto(p, "mark")
    /\ UNCHANGED <<mem, st, success, statParent, statDrv, driver, loop, burst, parent,
                   children, ref, opened, cur, latch, walkVars>>

MarkChild(p) ==
    /\ At(p, "mark")
    /\ \E c \in todo[p] : /\ StatLoad(p, c, UnusedFlags)
                          /\ todo' = [todo EXCEPT ![p] = @ \ {c}]
    /\ UNCHANGED <<mem, st, success, statParent, statDrv, driver, loop, burst, parent,
                   children, ref, opened, pc, cur, walkVars>>

MarkEnd(p) ==
    /\ At(p, "mark")
    /\ todo[p] = {}
    /\ Leave(p, "FinishedPrepare", statDrv[p])
    /\ UNCHANGED <<mem, success, statParent, driver, loop, burst, parent, children,
                   ref, opened, cur, todo, latch, walkVars>>

\* PsFinishedPrepare: a process to be repelled when finished calls its own
\* unusedSet().
TickFinish(p) ==
    /\ AtSwitch(p, "FinishedPrepare")
    /\ IF RepelledWhenFinished(p)
       THEN StatLoad(p, p, UnusedFlags) ELSE UNCHANGED latch
    /\ Goto(p, "finish")
    /\ UNCHANGED <<mem, st, success, statParent, statDrv, driver, loop, burst, parent,
                   children, ref, opened, cur, todo, walkVars>>

Finish(p) ==
    /\ At(p, "finish")
    /\ Leave(p, "Finished", statDrv[p])
    /\ UNCHANGED <<mem, success, statParent, driver, loop, burst, parent, children,
                   ref, opened, cur, todo, latch, walkVars>>

TickFinished(p) ==
    /\ AtSwitch(p, "Finished")
    /\ Leave(p, "Finished", statDrv[p])
    /\ UNCHANGED <<mem, success, statParent, driver, loop, burst, parent, children,
                   ref, opened, cur, todo, latch, walkVars>>

-----------------------------------------------------------------------------
\* What a virtual function of p may do with its children

\* What procTreeDisplaySet() may have left in mStatDrv of a new child.
DisplayFlags == IF "display" \in Ops THEN {{}, {"PrTreeDisable"}} ELSE {{}}

\* create(), procTreeDisplaySet() and the first half of start(): the child
\* exists, may be hidden, and its driver is chosen.  A new
\* internal driver is a thread which runs from now on, before the child is in
\* the list.  If the thread cannot be created the parent has to drive.
StartDriver(p) ==
    /\ At(p, "call")
    /\ \E s \in Starts :
         LET c == s[2]
         IN /\ s[1] = p /\ mem[c] = "unborn"
            /\ mem' = [mem EXCEPT ![c] = "live"]
            /\ parent' = [parent EXCEPT ![c] = p]
            /\ cur' = [cur EXCEPT ![p] = c]
            /\ \E flags \in DisplayFlags : statDrv' = [statDrv EXCEPT ![c] = flags]
            /\ \/ /\ driver' = [driver EXCEPT ![c] = s[3]]
                  /\ loop' = IF s[3] = "DrivenByNewInternalDriver"
                             THEN [loop EXCEPT ![c] = "running"] ELSE loop
               \/ /\ s[3] = "DrivenByNewInternalDriver"
                  /\ driver' = [driver EXCEPT ![c] = "DrivenByParent"]
                  /\ UNCHANGED loop
    /\ Goto(p, "start")
    /\ UNCHANGED <<st, success, statParent, burst, children, ref, opened, todo,
                   latch, walkVars>>

\* start(), second half: add the child to the list and mark it started.  An
\* external driver takes the child over once it is started.
StartAdd(p) ==
    /\ At(p, "start")
    /\ CanLock(p)
    /\ children' = [children EXCEPT ![p] = @ \cup {cur[p]}]
    /\ ref' = [ref EXCEPT ![p] = @ \cup {cur[p]}]
    /\ StatLoad(p, cur[p], {"Started"})
    /\ loop' = IF driver[cur[p]] = "DrivenByExternalDriver"
               THEN [loop EXCEPT ![cur[p]] = "running"] ELSE loop
    /\ cur' = [cur EXCEPT ![p] = NoProc]
    /\ Goto(p, "call")
    /\ UNCHANGED <<mem, st, success, statParent, statDrv, driver, burst, parent, opened,
                   todo, walkVars>>

\* The second half of every `mStatParent |= flags'.
StatStore(p) ==
    /\ latch[p] # NoLatch
    /\ statParent' = [statParent EXCEPT ![latch[p].on] = latch[p].snap \cup latch[p].add]
    /\ latch' = [latch EXCEPT ![p] = NoLatch]
    /\ UNCHANGED <<mem, st, success, statDrv, driver, loop, burst, parent, children,
                   ref, opened, frameVars, walkVars>>

Cancel(p) ==
    /\ At(p, "call") /\ "cancel" \in Ops
    /\ \E c \in ref[p] : /\ "Started" \in statParent[c]
                         /\ StatLoad(p, c, {"Canceled"})
    /\ UNCHANGED <<mem, st, success, statParent, statDrv, driver, loop, burst, parent,
                   children, ref, opened, frameVars, walkVars>>

\* repel() is cancel() followed by unusedSet(); the caller drops its pointer.
Repel(p) ==
    /\ At(p, "call") /\ "repel" \in Ops
    /\ \E c \in ref[p] : /\ "Started" \in statParent[c]
                         /\ StatLoad(p, c, {"Canceled"})
                         /\ cur' = [cur EXCEPT ![p] = c]
    /\ Goto(p, "repel")
    /\ UNCHANGED <<mem, st, success, statParent, statDrv, driver, loop, burst, parent,
                   children, ref, opened, todo, walkVars>>

RepelUnused(p) ==
    /\ At(p, "repel")
    /\ StatLoad(p, cur[p], UnusedFlags)
    /\ ref' = [ref EXCEPT ![p] = RefsLeft(p, cur[p])]
    /\ cur' = [cur EXCEPT ![p] = NoProc]
    /\ Goto(p, "call")
    /\ UNCHANGED <<mem, st, success, statParent, statDrv, driver, loop, burst, parent,
                   children, opened, todo, walkVars>>

WhenFinishedRepel(p) ==
    /\ At(p, "call") /\ "whenFinishedRepel" \in Ops
    /\ \E c \in ref[p] : /\ StatLoad(p, c, {"WhenFinishedUnused"})
                         /\ ref' = [ref EXCEPT ![p] = RefsLeft(p, c)]
    /\ UNCHANGED <<mem, st, success, statParent, statDrv, driver, loop, burst, parent,
                   children, opened, frameVars, walkVars>>

\* The virtual function returns Pending: nothing changes until the next tick.
CallPending(p) ==
    /\ At(p, "call")
    /\ Leave(p, st[p], statDrv[p])
    /\ UNCHANGED <<mem, success, statParent, driver, loop, burst, parent, children,
                   ref, opened, cur, todo, latch, walkVars>>

InitializeDone(p) ==
    /\ At(p, "call") /\ st[p] = "Initializing"
    /\ \/ /\ Leave(p, "Processing", statDrv[p] \cup {"InitDone"})
          /\ UNCHANGED success
       \/ /\ "Negative" \in Results
          /\ success' = [success EXCEPT ![p] = "Negative"]
          /\ Leave(p, "DownShutting", statDrv[p])
    /\ UNCHANGED <<mem, statParent, driver, loop, burst, parent, children, ref, opened,
                   cur, todo, latch, walkVars>>

ProcessDone(p) ==
    /\ At(p, "call") /\ st[p] = "Processing"
    /\ \E r \in Results : success' = [success EXCEPT ![p] = r]
    /\ Leave(p, "DownShutting", statDrv[p] \cup {"ProcessDone"})
    /\ UNCHANGED <<mem, statParent, driver, loop, burst, parent, children, ref, opened,
                   cur, todo, latch, walkVars>>

\* Whatever shutdown() returns, it is over unless it is Pending.
ShutdownDone(p) ==
    /\ At(p, "call") /\ st[p] = "DownShutting"
    /\ Leave(p, "ChildrenUnusedSet", statDrv[p] \cup {"ShutdownDone"})
    /\ UNCHANGED <<mem, success, statParent, driver, loop, burst, parent, children,
                   ref, opened, cur, todo, latch, walkVars>>

-----------------------------------------------------------------------------
\* processTreeStr(), called for the root by a process of the tree

WalkBegin(p) ==
    /\ At(p, "call")
    /\ p \in Walkers
    /\ walker = NoProc
    /\ walker' = p /\ wat' = Root /\ wlock' = {Root}
    /\ wtodo' = [wtodo EXCEPT ![Root] = children[Root]]
    /\ Goto(p, "walk")
    /\ UNCHANGED <<mem, st, success, statParent, statDrv, driver, loop, burst, parent,
                   children, ref, opened, cur, todo, latch>>

\* Recurse into a child, whose own list is locked while its parent's is.
WalkDown ==
    /\ walker # NoProc
    /\ \E c \in wtodo[wat] :
         /\ "PrTreeDisable" \notin statDrv[c]
         /\ wlock' = wlock \cup {c}
         /\ wat' = c
         /\ wtodo' = [wtodo EXCEPT ![wat] = @ \ {c}, ![c] = children[c]]
    /\ UNCHANGED <<mem, st, success, statParent, statDrv, driver, loop, burst, parent,
                   children, ref, opened, frameVars, latch, walker>>

\* A child with disabled display returns at once, before it takes its lock;
\* after eleven drawn children the rest is not visited.
WalkSkip ==
    /\ walker # NoProc
    /\ \E c \in wtodo[wat] : wtodo' = [wtodo EXCEPT ![wat] = @ \ {c}]
    /\ UNCHANGED <<mem, st, success, statParent, statDrv, driver, loop, burst, parent,
                   children, ref, opened, frameVars, latch, walker, wlock, wat>>

WalkUp ==
    /\ walker # NoProc
    /\ wat # Root
    /\ wtodo[wat] = {}
    /\ wlock' = wlock \ {wat}
    /\ wat' = parent[wat]
    /\ UNCHANGED <<mem, st, success, statParent, statDrv, driver, loop, burst, parent,
                   children, ref, opened, frameVars, latch, walker, wtodo>>

\* The tree is printed.  The process that asked for it returns Pending: one
\* tick of SystemDebugging prints the tree at most once.
WalkEnd(p) ==
    /\ walker = p
    /\ wat = Root /\ wtodo[Root] = {}
    /\ walker' = NoProc /\ wat' = NoProc /\ wlock' = {}
    /\ Leave(p, st[p], statDrv[p])
    /\ UNCHANGED <<mem, success, statParent, driver, loop, burst, parent, children,
                   ref, opened, cur, todo, latch, wtodo>>

-----------------------------------------------------------------------------
\* The application around the tree

\* The handler for SIGINT and SIGTERM, while pApp points to the root.  It
\* interrupts the main thread, which never has a store to the root's flags
\* outstanding.  (It is registered before pApp is set and stays so after the
\* root has been destroyed: a signal at these times is not modelled.)
Signal ==
    /\ mem[Root] = "live"
    /\ statParent' = [statParent EXCEPT ![Root] = @ \cup UnusedFlags]
    /\ UNCHANGED <<mem, st, success, statDrv, driver, loop, burst, parent, children,
                   ref, opened, frameVars, latch, walkVars>>

\* main() destroys the root after its loop.
RootDestroy ==
    /\ loop[Root] = "exited" /\ mem[Root] = "live"
    /\ Delete(Root)
    /\ UNCHANGED <<driver, loop, burst, parent, children, frameVars, latch, walkVars>>

\* main() has returned.
Closed == mem[Root] = "deleted" /\ UNCHANGED vars

-----------------------------------------------------------------------------
Init ==
    /\ mem = [p \in Procs |-> IF p = Root THEN "live" ELSE "unborn"]
    /\ st = [p \in Procs |-> "Existent"]
    /\ success = [p \in Procs |-> "Pending"]
    /\ statParent = [p \in Procs |-> {}]
    /\ statDrv = [p \in Procs |-> {}]
    /\ driver = [p \in Procs |-> "DrivenByExternalDriver"]
    /\ loop = [p \in Procs |-> IF p = Root THEN "running" ELSE "none"]
    /\ burst = [p \in Procs |-> 0]
    /\ parent = [p \in Procs |-> NoProc]
    /\ children = [p \in Procs |-> {}]
    /\ ref = [p \in Procs |-> {}]
    /\ opened = [p \in Procs |-> FALSE]
    /\ pc = [p \in Procs |-> "idle"]
    /\ cur = [p \in Procs |-> NoProc]
    /\ todo = [p \in Procs |-> {}]
    /\ latch = [p \in Procs |-> NoLatch]
    /\ walker = NoProc
    /\ wlock = {}
    /\ wat = NoProc
    /\ wtodo = [p \in Procs |-> {}]

Drive(p) == TickBegin(p) \/ LoopBreak(p) \/ ThreadExit(p)

Visit(p) == ChildTick(p) \/ ChildSkip(p) \/ ChildErase(p) \/ ChildDestroy(p)

Switch(p) == \/ TickExistent(p) \/ TickCanceled(p) \/ TickCall(p) \/ TickMark(p)
             \/ MarkChild(p) \/ MarkEnd(p) \/ TickFinish(p) \/ Finish(p)
             \/ TickFinished(p)

Complete(p) == InitializeDone(p) \/ ProcessDone(p) \/ ShutdownDone(p)

User(p) == \/ StartDriver(p) \/ StartAdd(p) \/ Cancel(p) \/ Repel(p)
           \/ RepelUnused(p) \/ WhenFinishedRepel(p) \/ CallPending(p)
           \/ Complete(p) \/ WalkBegin(p) \/ WalkEnd(p)

Next ==
    \/ \E p \in Procs : Drive(p) \/ Visit(p) \/ Switch(p) \/ User(p) \/ StatStore(p)
    \/ WalkDown \/ WalkSkip \/ WalkUp
    \/ Signal \/ RootDestroy \/ Closed

Spec == Init /\ [][Next]_vars

-----------------------------------------------------------------------------
\* Fairness

\* Every driver keeps running and every virtual function returns after it has
\* called start(), repel() and whenFinishedRepel() for its finitely many
\* children (a function that calls cancel() for ever is not fair).
Progressing(p) ==
    \/ Drive(p) \/ Visit(p) \/ Switch(p) \/ StatStore(p)
    \/ StartAdd(p) \/ RepelUnused(p) \/ WalkEnd(p)

\* The walk holds a mutex for a moment and waits long for the next one.
Locking(p) == ChildErase(p) \/ StartAdd(p)

Fairness ==
    /\ \A p \in Procs : /\ WF_vars(Progressing(p))
                        /\ WF_vars(CallPending(p) \/ Complete(p))
                        /\ SF_vars(Locking(p))
                        /\ SF_vars(ShutdownDone(p))
    /\ WF_vars(WalkDown \/ WalkSkip \/ WalkUp)
    /\ WF_vars(RootDestroy)

FairSpec == Spec /\ Fairness

-----------------------------------------------------------------------------
\* Properties

TypeOK ==
    /\ mem \in [Procs -> {"unborn", "live", "deleted"}]
    /\ st \in [Procs -> ProcessState]
    /\ success \in [Procs -> Success]
    /\ statParent \in [Procs -> SUBSET ParentFlag]
    /\ statDrv \in [Procs -> SUBSET DriverFlag]
    /\ driver \in [Procs -> DriverMode]
    /\ loop \in [Procs -> {"none", "running", "exited"}]
    /\ burst \in [Procs -> 0 .. NumBurst]
    /\ parent \in [Procs -> Procs \cup {NoProc}]
    /\ children \in [Procs -> SUBSET Procs]
    /\ ref \in [Procs -> SUBSET Procs]
    /\ opened \in [Procs -> BOOLEAN]
    /\ pc \in [Procs -> Pc]
    /\ cur \in [Procs -> Procs \cup {NoProc}]
    /\ todo \in [Procs -> SUBSET Procs]
    /\ latch \in [Procs -> Latch]
    /\ walker \in Procs \cup {NoProc}
    /\ wlock \in SUBSET Procs
    /\ wat \in Procs \cup {NoProc}
    /\ wtodo \in [Procs -> SUBSET Procs]

\* No driver touches a deleted process: neither a treeTick() frame nor the
\* loop around it, and a thread has been joined before its process goes.
DriversLive ==
    \A p \in Procs :
        mem[p] = "deleted" => pc[p] = "idle" /\ loop[p] # "running"

\* Introducing.h:110: the pointer to a child is valid as long as the child has
\* not been repelled, however the child's own thread proceeds.
PointerValid ==
    \A p \in Procs : pc[p] \in {"call", "repel"} =>
        \A c \in ref[p] : mem[c] = "live"

\* processTreeStr() only ever holds locks of, and pointers to, live processes
\* although other threads remove processes below it.
WalkLive ==
    \A p \in wlock : mem[p] = "live" /\ \A c \in wtodo[p] : mem[c] = "live"

\* "destroying child with grand children" is never logged: a process is
\* deleted after all processes below it.
BottomUp ==
    \A p, c \in Procs : mem[p] = "deleted" /\ parent[c] = p => mem[c] = "deleted"

\* A process whose initialize() has been entered is not deleted before its
\* shutdown() has completed.
ShutdownBeforeDelete ==
    [][\A p \in Procs : mem[p] = "live" /\ mem'[p] = "deleted" /\ opened[p]
        => "ShutdownDone" \in statDrv[p]]_vars

\* main.cpp:138: when the main loop is left, all processes in the entire tree
\* have been shut down, and no thread is left.
TreeGone ==
    loop[Root] = "exited" =>
        \A p \in Procs \ {Root} : mem[p] # "live" /\ loop[p] # "running"

\* No update of mStatParent gets lost although parent and child update it
\* without a lock.
FlagsSticky ==
    [][\A p \in Procs : mem'[p] = "live" => statParent[p] \subseteq statParent'[p]]_vars

\* A process that is unused is removed and destroyed, whoever drives it, and so is the
\* root: once the application has been asked to close, main() gets to its end.
UnusedDestroyed ==
    \A p \in Procs : "Unused" \in statParent[p] ~> mem[p] = "deleted"

\* whenFinishedRepel() that comes before the child is finished: the child is
\* destroyed although nobody holds a pointer to it any more.
RepelledInTime ==
    \A p \in Procs : /\ "WhenFinishedUnused" \in statParent[p]
                      /\ st[p] \in {"DownShutting", "ChildrenUnusedSet"}
                      ~> mem[p] = "deleted"

\* The life of a process as its application sees it.
LifeOf(p) == CASE mem[p] = "unborn" -> "unborn"
               [] mem[p] = "deleted" -> "deleted"
               [] mem[p] = "live" /\ st[p] = "Finished" -> "finished"
               [] OTHER -> "working"

Tree == INSTANCE ProcessTree WITH
            life <- [p \in Procs |-> LifeOf(p)],
            released <- [p \in Procs |-> mem[p] = "deleted" \/ "Unused" \in statParent[p]]

\* treeTick(), the drivers and the concurrent updates of mStatParent together
\* keep the promises of ProcessTree.
KeepsPromises == Tree!TreeSpec

=============================================================================
