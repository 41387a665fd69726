--------------------------- MODULE ProcessingInv ---------------------------
(***************************************************************************)
(* The inductive invariant of Processing.  Each part is a statement about   *)
(* one process; together they say who may touch a process, and why the one  *)
(* who deletes it is the last one.                                          *)
(***************************************************************************)
EXTENDS Processing

\* An object that does not exist (yet, or any more) is reachable by nobody.
NotLive(p) ==
    mem[p] # "live" =>
        /\ children[p] = {}
        /\ pc[p] = "idle"
        /\ latch[p] = NoLatch
        /\ loop[p] # "running"

Unborn(p) ==
    mem[p] = "unborn" => /\ parent[p] = NoProc
                         /\ loop[p] = "none"
                         /\ statDrv[p] = {} /\ statParent[p] = {}

\* The child lists and the parent pointers describe the same tree.
ChildLinks(p) ==
    \A c \in children[p] : mem[c] = "live" /\ parent[c] = p

\* A live process is in the list of its parent, except while the parent is
\* in the middle of start() or of removing it.
ParentLinks(c) ==
    mem[c] = "live" /\ c # Root =>
        /\ parent[c] \in Procs
        /\ \/ c \in children[parent[c]]
           \/ pc[parent[c]] \in {"start", "destroy"} /\ cur[parent[c]] = c

\* pChild of a treeTick() frame.
CurInList(p) ==
    pc[p] \in {"child", "erase", "repel"} => cur[p] \in children[p]

CurOutside(p) ==
    pc[p] \in {"start", "destroy"} => /\ cur[p] \in Procs
                                      /\ mem[cur[p]] = "live"
                                      /\ parent[cur[p]] = p
                                      /\ cur[p] \notin children[p]

\* The rest of the children loop stays inside the list.
TodoInList(p) ==
    /\ pc[p] \in {"loop", "child", "erase", "destroy", "mark"} =>
           todo[p] \subseteq children[p]
    /\ pc[p] \in {"child", "erase", "destroy"} => cur[p] \notin todo[p]

\* Undriven is final: there is nothing left that could run.
UndrivenIsFinal(p) ==
    "Undriven" \in statDrv[p] =>
        /\ st[p] = "Finished" /\ children[p] = {}
        /\ pc[p] = "idle" /\ latch[p] = NoLatch
        /\ (driver[p] = "DrivenByExternalDriver" => loop[p] = "exited")
        /\ p # Root

\* A loop that has been left has nothing left to drive either.
ExitedIsFinal(p) ==
    loop[p] = "exited" =>
        /\ mem[p] = "live" => st[p] = "Finished" /\ children[p] = {}
        /\ pc[p] = "idle" /\ latch[p] = NoLatch

\* Only an undriven and unused child is on its way out of the list.
RemovedIsUndriven(p) ==
    pc[p] \in {"erase", "destroy"} =>
        "Undriven" \in statDrv[cur[p]] /\ "Unused" \in statParent[cur[p]]

\* A store to mStatParent goes to a child in the list, or to the process
\* itself while it finishes.
LatchInList(p) ==
    latch[p] # NoLatch =>
        \/ pc[p] \in {"call", "repel", "mark"} /\ latch[p].on \in children[p]
        \/ pc[p] = "finish" /\ latch[p].on = p

\* A process that its parent drives runs inside the parent's frame.
FrameNested(c) ==
    driver[c] = "DrivenByParent" =>
        /\ loop[c] = "none"
        /\ pc[c] # "idle" => /\ parent[c] \in Procs
                             /\ pc[parent[c]] = "child" /\ cur[parent[c]] = c

\* The external driver of a child gets it from start().
NotStartedYet(p) ==
    pc[p] = "start" /\ driver[cur[p]] = "DrivenByExternalDriver" =>
        loop[cur[p]] = "none"

\* What a frame does fits the state of its process.
FrameState(p) ==
    /\ pc[p] \in {"call", "start", "repel", "walk"} =>
           st[p] \in {"Initializing", "Processing", "DownShutting"}
    /\ pc[p] = "mark" => st[p] = "ChildrenUnusedSet"
    /\ pc[p] = "finish" => st[p] = "FinishedPrepare"

\* A pointer that a virtual function of p may still use.
Working(p) == st[p] \in {"Existent", "Initializing", "Processing", "DownShutting"}

RefInList(p) == Working(p) => ref[p] \subseteq children[p]

\* A child that p still holds is not on its way to be unused: nobody has said
\* so, and no store is outstanding that would.
Released == {"Unused", "WhenFinishedUnused"}
RefHeld(p) ==
    Working(p) => \A c \in ref[p] :
        /\ statParent[c] \cap Released = {}
        /\ \A q \in Procs : latch[q] # NoLatch /\ latch[q].on = c =>
               q = p /\ (latch[q].snap \cup latch[q].add) \cap Released = {}

\* A child that is not in the list yet has not been marked.
NewChild(p) == pc[p] = "start" => statParent[cur[p]] = {}

SelfLatch(p) ==
    latch[p] # NoLatch => /\ latch[p].add # {}
                          /\ latch[p].on = p => statParent[p] # {}

RootAtTop ==
    /\ parent[Root] = NoProc
    /\ driver[Root] = "DrivenByExternalDriver"
    /\ mem[Root] # "unborn"
    /\ mem[Root] = "deleted" => loop[Root] = "exited"

\* There is no cycle: in every set of processes below the root there is one
\* whose parent is outside of the set.
Acyclic ==
    \A S \in SUBSET {p \in Procs \ {Root} : mem[p] = "live"} :
        S # {} => \E c \in S : parent[c] \notin S

\* The walk holds the locks of a path from the root to wat.
WalkPath ==
    /\ walker = NoProc => wlock = {}
    /\ walker # NoProc => /\ pc[walker] = "walk"
                          /\ Root \in wlock /\ wat \in wlock
    /\ \A p \in Procs : pc[p] = "walk" => walker = p
    /\ \A p \in wlock : /\ wtodo[p] \subseteq children[p]
                        /\ mem[p] = "live"
                        /\ p # Root => /\ parent[p] \in wlock
                                       /\ p \in children[parent[p]]
                        /\ parent[p] # wat
    /\ \A p, q \in wlock : parent[p] = parent[q] => p = q

\* The tree: who exists and who is whose child.
TreeInv(p) == NotLive(p) /\ Unborn(p) /\ ChildLinks(p) /\ ParentLinks(p)

\* The frames: who is inside which call, and on which child.
FrameInv(p) == /\ CurInList(p) /\ CurOutside(p) /\ TodoInList(p)
               /\ FrameNested(p) /\ NotStartedYet(p) /\ FrameState(p)

\* The end: who cannot run any more, and who still holds a pointer.
EndInv(p) == /\ UndrivenIsFinal(p) /\ ExitedIsFinal(p)
             /\ RemovedIsUndriven(p) /\ LatchInList(p)

\* The pointers: whom a virtual function may still call.
PointerInv(p) == RefInList(p) /\ RefHeld(p) /\ NewChild(p) /\ SelfLatch(p)

\* The inductive invariant: the tree that the child lists and the frames on
\* them describe is a tree, and what leaves it cannot run any more.
IInv ==
    /\ TypeOK
    /\ \A p \in Procs : TreeInv(p) /\ FrameInv(p) /\ EndInv(p) /\ PointerInv(p)
    /\ RootAtTop
    /\ Acyclic
    /\ WalkPath

-----------------------------------------------------------------------------
\* Two invariants on top of IInv.

\* Two stores to one mStatParent can only be outstanding together when they
\* write the same flags: one is the process' own, which has been asked to be
\* repelled when finished and whose parent can therefore only mark it unused.
StoreUpToDate(q) ==
    latch[q] # NoLatch =>
        LET c == latch[q].on
        IN /\ statParent[c] \cup latch[q].add = latch[q].snap \cup latch[q].add
           /\ latch[q].add = UnusedFlags \/ ~RepelledWhenFinished(c)
           /\ latch[q].add # UnusedFlags => statParent[c] = latch[q].snap
           /\ c = q => latch[q].add = UnusedFlags /\ RepelledWhenFinished(q)

StickyInv == /\ \A q \in Procs : StoreUpToDate(q)
             /\ ~RepelledWhenFinished(Root)

\* A process that has run initialize() only gets past DownShutting through
\* the end of shutdown().
PastShutdown == {"ChildrenUnusedSet", "FinishedPrepare", "Finished"}

ShutdownInv(p) ==
    /\ st[p] = "Existent" => ~opened[p]
    /\ opened[p] /\ st[p] \in PastShutdown => "ShutdownDone" \in statDrv[p]
    /\ mem[p] # "live" => st[p] = "Existent"

AllShutDown == \A p \in Procs : ShutdownInv(p)

=============================================================================
