-------------------------- MODULE ProcessingProofs --------------------------
(***************************************************************************)
(* Proof that IInv is an inductive invariant of Processing, and of what     *)
(* follows from it: who may still touch a process, and that nothing is left  *)
(* when the main loop is.  One lemma per action says that the action          *)
(* preserves IInv; the lemmas in front of them state what the two halves of  *)
(* `mStatParent |= flags' and the end of a treeTick() do.                    *)
(***************************************************************************)
EXTENDS ProcessingInv, TLAPS

USE DEF At, AtSwitch, Ready, Goto, frameVars, walkVars

\* What the load half of `mStatParent |= flags' leaves in latch.
LEMMA LatchLoaded ==
    ASSUME TypeOK, NEW p \in Procs, NEW on \in Procs,
           NEW flags \in SUBSET ParentFlag, StatLoad(p, on, flags)
    PROVE  /\ latch' \in [Procs -> Latch]
           /\ latch'[p] # NoLatch
           /\ latch'[p].on = on
           /\ latch'[p].snap = statParent[on]
           /\ latch'[p].add = flags
           /\ \A q \in Procs \ {p} : latch'[q] = latch[q]
BY ProcessingAssumption DEF TypeOK, StatLoad, Latch, NoLatch

\* The tree has no cycle, so that a live process below the root has a live
\* chain of parents up to the root, which a root that was left does not have.
LEMMA OnlyRoot ==
    ASSUME IInv, loop[Root] = "exited"
    PROVE  \A p \in Procs \ {Root} : mem[p] # "live"
<1>1. DEFINE S == {p \in Procs \ {Root} : mem[p] = "live"}
<1>2. SUFFICES ASSUME S # {} PROVE FALSE
  OBVIOUS
<1>3. PICK c \in S : parent[c] \notin S
  BY <1>2 DEF IInv, Acyclic
<1>4. /\ parent[c] \in Procs
      /\ children[parent[c]] # {} \/ pc[parent[c]] # "idle"
  BY <1>3 DEF IInv, TreeInv, ParentLinks
<1>5. mem[parent[c]] = "live"
  BY <1>4 DEF IInv, TreeInv, NotLive
<1>6. parent[c] = Root
  BY <1>3, <1>4, <1>5
<1> QED
  BY <1>4, <1>5, <1>6 DEF IInv, EndInv, ExitedIsFinal

\* While any treeTick() is active, the root is there.
LEMMA RootLive ==
    ASSUME IInv, NEW p \in Procs, pc[p] # "idle"
    PROVE  mem[Root] = "live"
<1>1. mem[p] = "live"
  BY DEF IInv, TreeInv, NotLive
<1>2. CASE p = Root
  BY <1>1, <1>2
<1>3. CASE p # Root
  BY <1>1, <1>3, OnlyRoot, ProcessingAssumption DEF IInv, RootAtTop, TypeOK
<1> QED BY <1>2, <1>3

\* A step that only loads a mStatParent: of a child in the list, or of the
\* process itself while it finishes.  A child that stays referenced is not
\* being released.
LEMMA LoadKeeps ==
    ASSUME IInv, NEW p \in Procs, NEW on \in Procs,
           NEW flags \in SUBSET ParentFlag,
           NEW where \in Pc,
           flags # {}, Ready(p), pc[p] \in {"call", "repel", "mark", "loop"},
           StatLoad(p, on, flags),
           pc' = [pc EXCEPT ![p] = where],
           \/ on \in children[p] /\ where \in {"call", "repel", "mark"}
           \/ /\ on = p /\ where = "finish"
              /\ RepelledWhenFinished(p) /\ ~Working(p),
           \A q \in Procs : ref'[q] \subseteq ref[q],
           Working(p) /\ on \in ref'[p] => flags \cap Released = {},
           \A q \in Procs \ {p} : cur'[q] = cur[q],
           UNCHANGED <<mem, st, statParent, statDrv, driver, loop, parent,
                       children, walkVars>>
    PROVE  /\ latch' \in [Procs -> Latch] /\ pc' \in [Procs -> Pc]
           /\ \A q \in Procs : TreeInv(q)' /\ EndInv(q)' /\ PointerInv(q)'
           /\ RootAtTop' /\ Acyclic' /\ WalkPath'
<1> USE ProcessingAssumption DEF IInv
<1>1. /\ latch' \in [Procs -> Latch]
      /\ latch'[p] # NoLatch
      /\ latch'[p].on = on
      /\ latch'[p].snap = statParent[on]
      /\ latch'[p].add = flags
      /\ \A q \in Procs \ {p} : latch'[q] = latch[q]
  BY LatchLoaded
<1>2. /\ pc'[p] = where /\ where \in {"call", "repel", "mark", "finish"}
      /\ \A q \in Procs \ {p} : pc'[q] = pc[q]
  BY DEF TypeOK
<1>3. ASSUME NEW q \in Procs PROVE EndInv(q)'
  BY <1>1, <1>2, <1>3
     DEF EndInv, UndrivenIsFinal, ExitedIsFinal, RemovedIsUndriven, LatchInList
<1>4. ASSUME NEW q \in Procs PROVE (RefInList(q) /\ NewChild(q))'
  BY <1>1, <1>2 DEF PointerInv, RefInList, NewChild, Working
<1>5. ASSUME NEW q \in Procs PROVE SelfLatch(q)'
  <2>1. CASE q = p
    <3>1. on = p => statParent[p] # {}
      <4>1. CASE on \in children[p]
        <5> SUFFICES ASSUME on = p PROVE FALSE
          OBVIOUS
        <5>1. parent[p] = p /\ mem[p] = "live" /\ p # Root
          BY <4>1 DEF TreeInv, ChildLinks, RootAtTop
        <5>2. {p} \in SUBSET {r \in Procs \ {Root} : mem[r] = "live"}
          BY <5>1
        <5> QED BY <5>1, <5>2 DEF Acyclic
      <4> QED BY <4>1 DEF RepelledWhenFinished
    <3> QED BY <2>1, <3>1, <1>1 DEF SelfLatch
  <2> QED BY <2>1, <1>1 DEF PointerInv, SelfLatch
<1>6. ASSUME NEW q \in Procs, Working(q)', NEW c \in ref'[q]
      PROVE  /\ statParent[c] \cap Released = {}
             /\ \A o \in Procs : latch'[o] # NoLatch /\ latch'[o].on = c =>
                  q = o
                  /\ (latch'[o].snap \cup latch'[o].add) \cap Released = {}
  <2>1. Working(q) /\ c \in ref[q] /\ c \in children[q] /\ parent[c] = q
    BY <1>6 DEF Working, PointerInv, RefInList, TreeInv, ChildLinks
  <2>2. statParent[c] \cap Released = {}
    BY <2>1 DEF PointerInv, RefHeld
  <2>3. ASSUME on = c PROVE q = p /\ flags \cap Released = {}
    BY <2>1, <2>2, <2>3, <1>6
       DEF TreeInv, ChildLinks, RepelledWhenFinished, Released
  <2>4. ASSUME NEW o \in Procs, latch'[o] # NoLatch, latch'[o].on = c
        PROVE  q = o /\ (latch'[o].snap \cup latch'[o].add) \cap Released = {}
    <3>1. CASE o = p
      BY <3>1, <2>4, <2>3, <2>2, <1>1
    <3>2. CASE o # p
      BY <3>2, <2>4, <2>1, <1>1 DEF PointerInv, RefHeld
    <3> QED BY <3>1, <3>2
  <2> QED BY <2>2, <2>4
<1>7. ASSUME NEW q \in Procs PROVE RefHeld(q)'
  BY <1>6 DEF RefHeld
<1>8. ASSUME NEW q \in Procs PROVE TreeInv(q)'
  BY <1>1, <1>2 DEF TreeInv, NotLive, Unborn, ChildLinks, ParentLinks
<1>9. pc' \in [Procs -> Pc] /\ RootAtTop' /\ Acyclic' /\ WalkPath'
  BY <1>2 DEF RootAtTop, Acyclic, WalkPath, TypeOK
<1> QED BY <1>1, <1>3, <1>4, <1>5, <1>7, <1>8, <1>9 DEF PointerInv

\* The deleted child was the last one to be able to run in itself, and no
\* live process is below it.
LEMMA ChildDestroyInv ==
    ASSUME IInv, NEW p \in Procs, ChildDestroy(p)
    PROVE  IInv'
<1> USE ProcessingAssumption DEF IInv, ChildDestroy, Delete
<1> DEFINE c == cur[p]
<1>0. /\ c \in Procs /\ c # p /\ c # Root
      /\ parent[c] = p /\ c \notin children[p] /\ mem[c] = "live"
      /\ children[c] = {}
      /\ pc[c] = "idle"
      /\ latch[c] = NoLatch
      /\ loop[c] # "running"
      /\ \A q \in Procs : c \notin children[q]
      /\ \A q \in Procs : parent[q] = c => mem[q] # "live"
      /\ statParent[c] \cap Released # {}
  <2>1. /\ c \in Procs
        /\ parent[c] = p
        /\ mem[c] = "live"
        /\ c \notin children[p]
    BY DEF FrameInv, CurOutside
  <2>2. c # Root /\ \A q \in Procs : c \notin children[q]
    BY <2>1 DEF TreeInv, ChildLinks, RootAtTop
  <2>3. /\ children[c] = {} /\ pc[c] = "idle" /\ latch[c] = NoLatch
        /\ driver[c] = "DrivenByExternalDriver" => loop[c] = "exited"
        /\ statParent[c] \cap Released # {}
    BY <2>1 DEF EndInv, RemovedIsUndriven, UndrivenIsFinal, Released
  <2>4. loop[c] # "running"
    <3>1. driver[c] = "DrivenByParent" => loop[c] = "none"
      BY <2>1 DEF FrameInv, FrameNested
    <3>2. driver[c] = "DrivenByNewInternalDriver" => loop[c] = "exited"
      BY DEF CanJoin, HasThread
    <3> QED BY <2>1, <2>3, <3>1, <3>2 DEF TypeOK, DriverMode
  <2>5. ASSUME NEW q \in Procs, parent[q] = c PROVE mem[q] # "live"
    BY <2>1, <2>3, <2>5 DEF TreeInv, ParentLinks, RootAtTop
  <2> QED BY <2>1, <2>2, <2>3, <2>4, <2>5
<1>1. TypeOK'
  BY <1>0 DEF TypeOK, ProcessState, Success, Pc
<1>2. ASSUME NEW q \in Procs PROVE TreeInv(q)'
  BY <1>0, <1>1 DEF TypeOK, TreeInv, NotLive, Unborn, ChildLinks, ParentLinks
<1>3. ASSUME NEW q \in Procs PROVE FrameInv(q)'
  BY <1>0, <1>1
     DEF TypeOK, TreeInv, NotLive, FrameInv, CurInList, CurOutside,
         TodoInList, FrameNested, NotStartedYet, FrameState
<1>4. ASSUME NEW q \in Procs PROVE EndInv(q)'
  BY <1>0, <1>1
     DEF TypeOK, TreeInv, ChildLinks, EndInv, UndrivenIsFinal, ExitedIsFinal,
         RemovedIsUndriven, LatchInList, FrameInv, CurInList, CurOutside
<1>5. ASSUME NEW q \in Procs PROVE PointerInv(q)'
  <2>1. RefInList(q)'
    BY <1>0 DEF TypeOK, PointerInv, RefInList, Working
  <2>2. RefHeld(q)'
    <3>1. ASSUME NEW d \in ref'[q], Working(q)'
          PROVE  Working(q) /\ d \in ref[q] /\ d # c
      BY <1>0, <3>1 DEF TypeOK, PointerInv, RefInList, Working
    <3>2. ASSUME NEW d \in ref'[q], Working(q)'
          PROVE  statParent'[d] = statParent[d]
      BY <3>1, <3>2 DEF TypeOK
    <3> QED BY <3>1, <3>2 DEF PointerInv, RefHeld
  <2>3. NewChild(q)'
    BY <1>0 DEF TypeOK, PointerInv, NewChild, FrameInv, CurOutside
  <2>4. SelfLatch(q)'
    BY <1>0 DEF TypeOK, PointerInv, SelfLatch
  <2> QED BY <2>1, <2>2, <2>3, <2>4 DEF PointerInv
<1>6. RootAtTop'
  BY <1>0 DEF TypeOK, RootAtTop
<1>7. Acyclic'
  BY <1>0 DEF TypeOK, Acyclic
<1>8. WalkPath'
  BY <1>0 DEF TypeOK, WalkPath
<1> QED BY <1>1, <1>2, <1>3, <1>4, <1>5, <1>6, <1>7, <1>8

\* A new child hangs below a live process: no cycle can come from it.
LEMMA StartDriverInv ==
    ASSUME IInv, NEW p \in Procs, StartDriver(p)
    PROVE  IInv'
<1> USE ProcessingAssumption DEF IInv
<1>0. PICK c \in Procs, d \in DriverMode, l \in {"none", "running"},
           f \in {{}, {"PrTreeDisable"}} :
        /\ c # Root /\ mem[c] = "unborn" /\ At(p, "call")
        /\ mem' = [mem EXCEPT ![c] = "live"]
        /\ parent' = [parent EXCEPT ![c] = p]
        /\ cur' = [cur EXCEPT ![p] = c]
        /\ pc' = [pc EXCEPT ![p] = "start"]
        /\ driver' = [driver EXCEPT ![c] = d]
        /\ loop' = [loop EXCEPT ![c] = l]
        /\ l = "running" <=> d = "DrivenByNewInternalDriver"
        /\ statDrv' = [statDrv EXCEPT ![c] = f]
        /\ UNCHANGED <<st, success, statParent, burst, children, ref,
                       opened, todo, latch, walkVars>>
  <2>1. PICK s \in Starts :
         LET c == s[2]
         IN /\ s[1] = p /\ mem[c] = "unborn"
            /\ mem' = [mem EXCEPT ![c] = "live"]
            /\ parent' = [parent EXCEPT ![c] = p]
            /\ cur' = [cur EXCEPT ![p] = c]
            /\ \E flags \in DisplayFlags : statDrv' = [statDrv EXCEPT ![c] = flags]
            /\ \/ /\ driver' = [driver EXCEPT ![c] = s[3]]
                  /\ loop' = IF s[3] = "DrivenByNewInternalDriver"
                             THEN [loop EXCEPT ![c] = "running"] ELSE loop
               \/ /\ s[3] = "DrivenByNewInternalDriver"
                  /\ driver' = [driver EXCEPT ![c] = "DrivenByParent"]
                  /\ UNCHANGED loop
    BY DEF StartDriver
  <2>2. s[2] \in Procs \ {Root} /\ s[3] \in DriverMode
    OBVIOUS
  <2>3. loop[s[2]] = "none" /\ loop = [loop EXCEPT ![s[2]] = "none"]
    BY <2>1, <2>2 DEF TreeInv, Unborn, TypeOK
  <2>4. \E f \in {{}, {"PrTreeDisable"}} :
           statDrv' = [statDrv EXCEPT ![s[2]] = f]
    BY <2>1 DEF DisplayFlags
  <2> QED BY <2>1, <2>2, <2>3, <2>4 DEF StartDriver, DriverMode
<1>a. /\ mem[p] = "live" /\ p # c
      /\ parent[c] = NoProc
      /\ loop[c] = "none"
      /\ statDrv[c] = {}
      /\ statParent[c] = {}
      /\ children[c] = {} /\ pc[c] = "idle" /\ latch[c] = NoLatch
      /\ \A q \in Procs : c \notin children[q] /\ (parent[q] = c =>
           mem[q] # "live")
      /\ st[p] \in {"Initializing", "Processing", "DownShutting"}
  BY <1>0
     DEF TreeInv, NotLive, Unborn, ChildLinks, ParentLinks, FrameInv,
         FrameState, RootAtTop
<1>b. statDrv' \in [Procs -> SUBSET DriverFlag] /\ statDrv'[c] = f
      /\ "Undriven" \notin statDrv'[c]
      /\ \A q \in Procs \ {c} : statDrv'[q] = statDrv[q]
  BY <1>0 DEF TypeOK, DriverFlag
<1>1. TypeOK'
  BY <1>0, <1>b DEF TypeOK, Pc
<1>2. ASSUME NEW q \in Procs PROVE TreeInv(q)'
  BY <1>0, <1>a, <1>b, <1>1
     DEF TypeOK, TreeInv, NotLive, Unborn, ChildLinks, ParentLinks
<1>3. ASSUME NEW q \in Procs PROVE FrameInv(q)'
  BY <1>0, <1>a, <1>1
     DEF TypeOK, TreeInv, NotLive, FrameInv, CurInList, CurOutside,
         TodoInList, FrameNested, NotStartedYet, FrameState
<1>4. ASSUME NEW q \in Procs PROVE EndInv(q)'
  BY <1>0, <1>a, <1>b, <1>1
     DEF TypeOK, EndInv, UndrivenIsFinal, ExitedIsFinal, RemovedIsUndriven,
         LatchInList
<1>5. ASSUME NEW q \in Procs PROVE PointerInv(q)'
  BY <1>0, <1>a, <1>1
     DEF TypeOK, PointerInv, RefInList, RefHeld, NewChild, SelfLatch, Working
<1>6. RootAtTop'
  BY <1>0 DEF TypeOK, RootAtTop
<1>7. Acyclic'
  <2>1. SUFFICES ASSUME NEW S \in SUBSET {q \in Procs \ {Root} : mem'[q] = "live"},
                        S # {}
                 PROVE  \E q \in S : parent'[q] \notin S
    BY DEF Acyclic
  <2>2. S \ {c} \in SUBSET {q \in Procs \ {Root} : mem[q] = "live"}
    BY <1>0 DEF TypeOK
  <2>3. CASE S \ {c} = {}
    BY <2>1, <2>3, <1>0, <1>a DEF TypeOK
  <2>4. CASE S \ {c} # {}
    <3>1. PICK q \in S \ {c} : parent[q] \notin S \ {c}
      BY <2>2, <2>4 DEF Acyclic
    <3>2. parent[q] # c
      BY <3>1, <2>2, <1>a
    <3> QED BY <3>1, <3>2, <1>0 DEF TypeOK
  <2> QED BY <2>3, <2>4
<1>8. WalkPath'
  BY <1>0, <1>a, <1>1 DEF TypeOK, WalkPath
<1> QED BY <1>1, <1>2, <1>3, <1>4, <1>5, <1>6, <1>7, <1>8

\* processTreeStr() starts at the root, which is live.
LEMMA WalkBeginInv ==
    ASSUME IInv, NEW p \in Procs, WalkBegin(p)
    PROVE  IInv'
<1> USE ProcessingAssumption DEF IInv, WalkBegin
<1>1. TypeOK'
  BY DEF TypeOK, Pc
<1>2. ASSUME NEW q \in Procs PROVE TreeInv(q)' /\ FrameInv(q)'
  BY <1>1
     DEF TypeOK, TreeInv, NotLive, Unborn, ChildLinks, ParentLinks, FrameInv,
         CurInList, CurOutside, TodoInList, FrameNested, NotStartedYet,
         FrameState
<1>4. ASSUME NEW q \in Procs PROVE EndInv(q)' /\ PointerInv(q)'
  BY <1>1
     DEF TypeOK, EndInv, UndrivenIsFinal, ExitedIsFinal, RemovedIsUndriven,
         LatchInList, PointerInv, RefInList, RefHeld, NewChild, SelfLatch,
         Working
<1>6. RootAtTop' /\ Acyclic'
  BY DEF RootAtTop, Acyclic
<1>8. WalkPath'
  <2>1. mem[Root] = "live"
    BY RootLive
  <2> QED BY <2>1 DEF WalkPath, TypeOK, RootAtTop
<1> QED BY <1>1, <1>2, <1>4, <1>6, <1>8

\* The path of locked processes grows by a child that is in the list.
LEMMA WalkDownInv ==
    ASSUME IInv, WalkDown
    PROVE  IInv'
<1> USE ProcessingAssumption DEF IInv
<1>0. PICK c \in wtodo[wat] :
         /\ wlock' = wlock \cup {c}
         /\ wat' = c
         /\ wtodo' = [wtodo EXCEPT ![wat] = @ \ {c}, ![c] = children[c]]
  BY DEF WalkDown
<1>1. walker # NoProc /\ walker' = walker
      /\ UNCHANGED <<mem, st, success, statParent, statDrv, driver, loop,
                     burst, parent,
                     children, ref, opened, frameVars, latch>>
  BY DEF WalkDown
<1>2. wat \in wlock /\ wat \in Procs /\ c \in Procs /\ c \in children[wat]
      /\ mem[c] = "live" /\ parent[c] = wat /\ c # Root
  BY <1>1 DEF WalkPath, TypeOK, TreeInv, ChildLinks, RootAtTop
<1>3. c \notin wlock
  BY <1>2 DEF WalkPath
<1>4. TypeOK'
  <2>1. wtodo' \in [Procs -> SUBSET Procs]
    <3>1. children[c] \in SUBSET Procs /\ (wtodo[wat] \ {c}) \in SUBSET Procs
      BY <1>2 DEF TypeOK
    <3>2. DEFINE w == [wtodo EXCEPT ![wat] = wtodo[wat] \ {c}]
    <3>3. w \in [Procs -> SUBSET Procs]
      BY <3>1 DEF TypeOK
    <3>4. wtodo' = [w EXCEPT ![c] = children[c]]
      BY <1>0
    <3> QED BY <3>1, <3>3, <3>4
  <2> QED BY <2>1, <1>0, <1>1, <1>2 DEF TypeOK
<1>5. /\ \A q \in Procs : TreeInv(q)' /\ FrameInv(q)'
      /\ RootAtTop' /\ Acyclic'
  BY <1>1
     DEF TreeInv, NotLive, Unborn, ChildLinks, ParentLinks, FrameInv,
         CurInList, CurOutside, TodoInList, FrameNested, NotStartedYet,
         FrameState, RootAtTop, Acyclic
<1>6. \A q \in Procs : EndInv(q)' /\ PointerInv(q)'
  BY <1>1
     DEF EndInv, UndrivenIsFinal, ExitedIsFinal, RemovedIsUndriven,
         LatchInList, PointerInv, RefInList, RefHeld, NewChild, SelfLatch,
         Working
<1>8. WalkPath'
  <2>1. wtodo'[c] = children[c] /\ wtodo'[wat] \subseteq wtodo[wat]
        /\ \A q \in wlock : wtodo'[q] \subseteq wtodo[q]
    BY <1>0, <1>2, <1>3 DEF TypeOK
  <2>2. \A q \in wlock : parent[q] # c
    BY <1>2, <1>3 DEF WalkPath, RootAtTop
  <2>3. parent[c] # c
    BY <1>2, <1>3
  <2> QED BY <1>0, <1>1, <1>2, <1>3, <2>1, <2>2, <2>3 DEF WalkPath, TypeOK
<1> QED BY <1>4, <1>5, <1>6, <1>8

\* When main() destroys the root nothing else is live.
LEMMA RootDestroyInv ==
    ASSUME IInv, RootDestroy
    PROVE  IInv'
<1> USE ProcessingAssumption DEF IInv, RootDestroy, Delete
<1>0. /\ children[Root] = {} /\ pc[Root] = "idle" /\ latch[Root] = NoLatch
      /\ \A q \in Procs \ {Root} : mem[q] # "live"
      /\ \A q \in Procs : pc[q] = "idle" /\ latch[q] = NoLatch
           /\ children[q] = {}
  BY OnlyRoot DEF EndInv, ExitedIsFinal, TreeInv, NotLive
<1>1. TypeOK'
  BY <1>0 DEF TypeOK, ProcessState, Success, Pc
<1>2. ASSUME NEW q \in Procs PROVE TreeInv(q)'
  BY <1>0, <1>1 DEF TypeOK, TreeInv, NotLive, Unborn, ChildLinks, ParentLinks
<1>3. ASSUME NEW q \in Procs PROVE FrameInv(q)'
  BY <1>0, <1>1
     DEF TypeOK, TreeInv, NotLive, FrameInv, CurInList, CurOutside,
         TodoInList, FrameNested, NotStartedYet, FrameState
<1>4. ASSUME NEW q \in Procs PROVE EndInv(q)'
  BY <1>0, <1>1
     DEF TypeOK, TreeInv, ChildLinks, EndInv, UndrivenIsFinal, ExitedIsFinal,
         RemovedIsUndriven, LatchInList
<1>5. ASSUME NEW q \in Procs PROVE PointerInv(q)'
  BY <1>0, <1>1
     DEF TypeOK, PointerInv, RefInList, RefHeld, NewChild, SelfLatch, Working
<1>6. RootAtTop'
  BY <1>0 DEF TypeOK, RootAtTop
<1>7. Acyclic'
  BY <1>0 DEF TypeOK, Acyclic
<1>8. WalkPath'
  BY <1>0, <1>1 DEF TypeOK, WalkPath
<1> QED BY <1>1, <1>2, <1>3, <1>4, <1>5, <1>6, <1>7, <1>8

\* A driver that finds no progress leaves nothing behind that could run.
LEMMA LoopBreakInv ==
    ASSUME IInv, NEW p \in Procs, LoopBreak(p)
    PROVE  IInv'
<1> USE ProcessingAssumption DEF IInv, LoopBreak
<1>0. /\ st[p] = "Finished" /\ children[p] = {} /\ pc[p] = "idle"
      /\ loop[p] = "running" /\ mem[p] = "live" /\ latch[p] = NoLatch
      /\ driver[p] # "DrivenByParent"
  BY DEF Progress, TreeInv, NotLive, EndInv, LatchInList, FrameInv, FrameNested
<1>a. /\ statDrv' \in [Procs -> SUBSET DriverFlag]
      /\ loop' \in [Procs -> {"none", "running", "exited"}]
      /\ p = Root => statDrv'[p] = statDrv[p]
      /\ loop'[p] \in {"running", "exited"}
      /\ driver[p] = "DrivenByExternalDriver" => loop'[p] = "exited"
      /\ \A q \in Procs : q # p => statDrv'[q] = statDrv[q]
           /\ loop'[q] = loop[q]
      /\ \A q \in Procs : statDrv[q] \subseteq statDrv'[q]
  <2>1. /\ statDrv' \in [Procs -> SUBSET DriverFlag]
        /\ p = Root => statDrv'[p] = statDrv[p]
        /\ \A q \in Procs : q # p => statDrv'[q] = statDrv[q]
        /\ \A q \in Procs : statDrv[q] \subseteq statDrv'[q]
    <3>1. CASE p = Root
      BY <3>1 DEF TypeOK
    <3>2. CASE p # Root
      BY <3>2 DEF TypeOK, DriverFlag
    <3> QED BY <3>1, <3>2
  <2>2. /\ loop' \in [Procs -> {"none", "running", "exited"}]
        /\ loop'[p] \in {"running", "exited"}
        /\ driver[p] = "DrivenByExternalDriver" => loop'[p] = "exited"
        /\ \A q \in Procs : q # p => loop'[q] = loop[q]
    BY <1>0 DEF TypeOK, HasThread
  <2> QED BY <2>1, <2>2
<1> HIDE DEF LoopBreak
<1>b. UNCHANGED <<mem, st, success, statParent, driver, burst, parent,
                  children,
                   ref, opened, frameVars, latch, walkVars>>
  BY DEF LoopBreak
<1>1. TypeOK'
  BY <1>a, <1>b DEF TypeOK
<1>2. ASSUME NEW q \in Procs PROVE TreeInv(q)' /\ FrameInv(q)'
  BY <1>0, <1>a, <1>b
     DEF TreeInv, NotLive, Unborn, ChildLinks, ParentLinks, FrameInv,
         CurInList, CurOutside, TodoInList, FrameNested, NotStartedYet,
         FrameState, RootAtTop
<1>4. ASSUME NEW q \in Procs PROVE EndInv(q)'
  <2>1. pc[q] \in {"erase", "destroy"} => cur[q] \in Procs
    BY DEF TypeOK, FrameInv, CurInList, CurOutside
  <2>2. RemovedIsUndriven(q)'
    BY <2>1, <1>a, <1>b DEF EndInv, RemovedIsUndriven
  <2>3. LatchInList(q)'
    BY <1>b DEF EndInv, LatchInList
  <2> QED
    BY <2>2, <2>3, <1>0, <1>a, <1>b DEF EndInv, UndrivenIsFinal, ExitedIsFinal
<1>5. ASSUME NEW q \in Procs PROVE PointerInv(q)'
  BY <1>b DEF PointerInv, RefInList, RefHeld, NewChild, SelfLatch, Working
<1>6. RootAtTop' /\ Acyclic' /\ WalkPath'
  BY <1>0, <1>a, <1>b DEF RootAtTop, Acyclic, WalkPath
<1> QED BY <1>1, <1>2, <1>4, <1>5, <1>6

\* The child's frame opens inside the frame of its parent.
LEMMA ChildTickInv ==
    ASSUME IInv, NEW p \in Procs, ChildTick(p)
    PROVE  IInv'
<1> USE ProcessingAssumption DEF IInv
<1>0. PICK c \in todo[p] :
         /\ DrivenHere(c)
         /\ cur' = [cur EXCEPT ![p] = c]
         /\ pc' = [pc EXCEPT ![p] = "child", ![c] = "loop"]
         /\ todo' = [todo EXCEPT ![p] = @ \ {c}, ![c] = children[c]]
  BY DEF ChildTick
<1>a. /\ pc[p] = "loop" /\ Ready(p)
      /\ UNCHANGED <<mem, st, success, statParent, statDrv, driver, loop,
                     burst, parent,
                   children, ref, opened, latch, walkVars>>
  BY DEF ChildTick
<1>b. /\ c \in Procs /\ c \in children[p] /\ mem[c] = "live" /\ parent[c] = p
      /\ c # p /\ pc[c] = "idle" /\ "Undriven" \notin statDrv[c]
      /\ driver[c] = "DrivenByParent" /\ mem[p] = "live" /\ loop[c] = "none"
  <2>1. /\ c \in Procs /\ c \in children[p] /\ mem[c] = "live" /\ parent[c] = p
        /\ "Undriven" \notin statDrv[c] /\ driver[c] = "DrivenByParent"
    BY <1>0, <1>a
       DEF TypeOK, FrameInv, TodoInList, TreeInv, ChildLinks, DrivenHere
  <2>2. pc[c] = "idle" /\ loop[c] = "none"
    BY <2>1, <1>a DEF FrameInv, FrameNested
  <2> QED BY <2>1, <2>2, <1>a DEF TreeInv, NotLive
<1>c. /\ pc' \in [Procs -> Pc] /\ pc'[p] = "child" /\ pc'[c] = "loop"
      /\ todo' \in [Procs -> SUBSET Procs]
      /\ todo'[p] = todo[p] \ {c}
      /\ todo'[c] = children[c]
      /\ cur' \in [Procs -> Procs \cup {NoProc}] /\ cur'[p] = c
      /\ \A q \in Procs \ {p, c} : pc'[q] = pc[q] /\ todo'[q] = todo[q]
      /\ \A q \in Procs \ {p} : cur'[q] = cur[q]
  <2>1. /\ pc' \in [Procs -> Pc] /\ pc'[p] = "child" /\ pc'[c] = "loop"
        /\ \A q \in Procs \ {p, c} : pc'[q] = pc[q]
    BY <1>0, <1>b DEF TypeOK, Pc
  <2>2. /\ todo' \in [Procs -> SUBSET Procs]
        /\ todo'[p] = todo[p] \ {c}
        /\ todo'[c] = children[c]
        /\ \A q \in Procs \ {p, c} : todo'[q] = todo[q]
    <3>1. DEFINE t == [todo EXCEPT ![p] = todo[p] \ {c}]
    <3>2. t \in [Procs -> SUBSET Procs] /\ t[p] = todo[p] \ {c}
         /\ \A q \in Procs \ {p} : t[q] = todo[q]
      BY DEF TypeOK
    <3>3. todo' = [t EXCEPT ![c] = children[c]]
      BY <1>0
    <3>4. children[c] \in SUBSET Procs
      BY <1>b DEF TypeOK
    <3> HIDE DEF t
    <3> QED BY <3>2, <3>3, <3>4, <1>b
  <2>3. /\ cur' \in [Procs -> Procs \cup {NoProc}] /\ cur'[p] = c
        /\ \A q \in Procs \ {p} : cur'[q] = cur[q]
    BY <1>0, <1>b DEF TypeOK
  <2> QED BY <2>1, <2>2, <2>3
<1>1. TypeOK'
  BY <1>a, <1>c DEF TypeOK
<1>2. ASSUME NEW q \in Procs PROVE TreeInv(q)'
  BY <1>a, <1>b, <1>c DEF TreeInv, NotLive, Unborn, ChildLinks, ParentLinks
<1>3. ASSUME NEW q \in Procs PROVE FrameInv(q)'
  BY <1>a, <1>b, <1>c
     DEF FrameInv, CurInList, CurOutside, TodoInList, FrameNested,
         NotStartedYet, FrameState
<1>4. ASSUME NEW q \in Procs PROVE EndInv(q)'
  BY <1>a, <1>b, <1>c
     DEF EndInv, UndrivenIsFinal, ExitedIsFinal, RemovedIsUndriven, LatchInList
<1>5. ASSUME NEW q \in Procs PROVE PointerInv(q)'
  <2>1. (RefInList(q) /\ SelfLatch(q))'
    BY <1>a DEF PointerInv, RefInList, SelfLatch, Working
  <2>2. RefHeld(q)'
    BY <1>a DEF PointerInv, RefHeld, Working
  <2>3. NewChild(q)'
    BY <1>a, <1>b, <1>c DEF PointerInv, NewChild
  <2> QED BY <2>1, <2>2, <2>3 DEF PointerInv
<1>6. RootAtTop' /\ Acyclic'
  BY <1>a DEF RootAtTop, Acyclic
<1>7. WalkPath'
  <2>1. \A q \in Procs : pc'[q] = "walk" <=> pc[q] = "walk"
    BY <1>a, <1>b, <1>c
  <2>2. walker # NoProc => walker \in Procs
    BY DEF TypeOK
  <2> QED BY <2>1, <2>2, <1>a DEF WalkPath
<1> QED BY <1>1, <1>2, <1>3, <1>4, <1>5, <1>6, <1>7

\* A store hits neither a child that is not in the list yet nor one that
\* is being removed.
LEMMA StatStoreInv ==
    ASSUME IInv, NEW p \in Procs, StatStore(p)
    PROVE  IInv'
<1> USE ProcessingAssumption DEF IInv
<1> DEFINE on == latch[p].on
<1>1. /\ latch' \in [Procs -> Latch] /\ latch'[p] = NoLatch
      /\ \A q \in Procs \ {p} : latch'[q] = latch[q]
  <2>1. NoLatch \in Latch BY DEF Latch, NoLatch
  <2> QED BY <2>1 DEF StatStore, TypeOK
<1>2. latch[p] # NoLatch /\ on \in Procs /\ mem[on] = "live"
      /\ latch[p].snap \subseteq ParentFlag
      /\ latch[p].add \subseteq ParentFlag
      /\ latch[p].add # {}
      /\ (on \in children[p] \/ on = p)
  <2>1. latch[p] \in Latch BY DEF TypeOK
  <2>2. latch[p].snap \subseteq ParentFlag /\ latch[p].add \subseteq ParentFlag
    BY <2>1 DEF Latch
  <2> QED
    BY <2>2
       DEF StatStore, EndInv, LatchInList, TreeInv, ChildLinks, NotLive,
           PointerInv, SelfLatch, TypeOK
<1>3. /\ statParent' =
            [statParent EXCEPT ![on] = latch[p].snap \cup latch[p].add]
      /\ UNCHANGED <<mem, st, success, statDrv, driver, loop, burst, parent,
                     children,
                   ref, opened, frameVars, walkVars>>
  BY DEF StatStore
<1>4. TypeOK'
  BY <1>1, <1>2, <1>3 DEF TypeOK
<1>5. ASSUME NEW q \in Procs PROVE TreeInv(q)' /\ FrameInv(q)'
  BY <1>1, <1>2, <1>3
     DEF TypeOK, TreeInv, NotLive, Unborn, ChildLinks, ParentLinks, FrameInv,
         CurInList, CurOutside, TodoInList, FrameNested, NotStartedYet,
         FrameState
<1>6. ASSUME NEW q \in Procs
      PROVE  (UndrivenIsFinal(q) /\ ExitedIsFinal(q) /\ LatchInList(q))'
  BY <1>1, <1>2, <1>3
     DEF TypeOK, EndInv, UndrivenIsFinal, ExitedIsFinal, LatchInList
<1>7. ASSUME NEW q \in Procs PROVE RemovedIsUndriven(q)'
  <2>1. CASE pc[q] \in {"erase", "destroy"}
    <3>1. cur[q] \in Procs /\ mem[cur[q]] = "live" /\ parent[cur[q]] = q
          /\ pc[cur[q]] = "idle" /\ latch[q] = NoLatch /\ RemovedIsUndriven(q)
      BY <2>1
         DEF FrameInv, CurInList, CurOutside, TreeInv, ChildLinks, EndInv,
             RemovedIsUndriven, UndrivenIsFinal, LatchInList, TypeOK
    <3>2. on # cur[q]
      BY <3>1, <1>2 DEF TreeInv, ChildLinks, EndInv, LatchInList
    <3> QED BY <2>1, <3>1, <3>2, <1>2, <1>3 DEF RemovedIsUndriven, TypeOK
  <2> QED BY <2>1, <1>3 DEF RemovedIsUndriven
<1>8. ASSUME NEW q \in Procs PROVE PointerInv(q)'
  <2>1. RefInList(q)'
    BY <1>3 DEF PointerInv, RefInList, Working
  <2>2. RefHeld(q)'
    BY <1>1, <1>2, <1>3 DEF PointerInv, RefHeld, Working, TypeOK
  <2>3. NewChild(q)'
    <3>1. CASE pc[q] = "start"
      <4>1. on # cur[q]
        BY <3>1, <1>2
           DEF FrameInv, CurOutside, TreeInv, ChildLinks, EndInv, LatchInList,
               PointerInv, NewChild, SelfLatch
      <4> QED BY <3>1, <4>1, <1>2, <1>3 DEF PointerInv, NewChild, TypeOK
    <3>2. CASE pc[q] # "start"
      BY <3>2, <1>3 DEF NewChild
    <3> QED BY <3>1, <3>2
  <2>4. SelfLatch(q)'
    BY <1>1, <1>2, <1>3 DEF PointerInv, SelfLatch, TypeOK
  <2> QED BY <2>1, <2>2, <2>3, <2>4 DEF PointerInv
<1>9. RootAtTop' /\ Acyclic' /\ WalkPath'
  BY <1>3 DEF RootAtTop, Acyclic, WalkPath
<1> QED BY <1>4, <1>5, <1>6, <1>7, <1>8, <1>9 DEF EndInv

\* The new child is in the list before its flags are first written.
LEMMA StartAddInv ==
    ASSUME IInv, NEW p \in Procs, StartAdd(p)
    PROVE  IInv'
<1> USE ProcessingAssumption DEF IInv
<1> DEFINE c == cur[p]
<1>0. /\ c \in Procs
      /\ c # Root
      /\ c # p
      /\ c \notin children[p]
      /\ parent[c] = p
      /\ mem[c] = "live"
      /\ mem[p] = "live"
      /\ Ready(p) /\ pc[p] = "start" /\ p \notin wlock /\ statParent[c] = {}
      /\ st[p] \in {"Initializing", "Processing", "DownShutting"}
      /\ \A q \in Procs : c \notin children[q] /\ (pc[q] \in {"start",
           "destroy"} /\ q # p => cur[q] # c)
      /\ \A q \in Procs : latch[q] # NoLatch => latch[q].on # c
      /\ "Undriven" \notin statDrv[p] /\ loop[p] # "exited"
  <2>1. /\ c \in Procs
        /\ c \notin children[p]
        /\ parent[c] = p
        /\ mem[c] = "live"
        /\ mem[p] = "live"
        /\ Ready(p) /\ pc[p] = "start" /\ p \notin wlock /\ statParent[c] = {}
        /\ st[p] \in {"Initializing", "Processing", "DownShutting"}
    BY DEF StartAdd, FrameInv, CurOutside, TreeInv, NotLive, CanLock,
           PointerInv, NewChild, FrameState
  <2>2. c # Root
    BY <2>1 DEF RootAtTop
  <2>3. c # p
    <3> SUFFICES ASSUME c = p PROVE FALSE
      OBVIOUS
    <3>1. {p} \in SUBSET {q \in Procs \ {Root} : mem[q] = "live"}
      BY <2>1, <2>2
    <3> QED BY <3>1, <2>1 DEF Acyclic
  <2>4. \A q \in Procs : c \notin children[q] /\ (pc[q] \in {"start",
       "destroy"} /\ q # p => cur[q] # c)
    BY <2>1 DEF TreeInv, ChildLinks, FrameInv, CurOutside
  <2>5. \A q \in Procs : latch[q] # NoLatch => latch[q].on # c
    BY <2>1, <2>4 DEF EndInv, LatchInList, PointerInv, SelfLatch
  <2>6. "Undriven" \notin statDrv[p] /\ loop[p] # "exited"
    BY <2>1 DEF EndInv, UndrivenIsFinal, ExitedIsFinal
  <2> QED BY <2>1, <2>2, <2>3, <2>4, <2>5, <2>6
<1>a. /\ children' = [children EXCEPT ![p] = @ \cup {c}]
      /\ ref' = [ref EXCEPT ![p] = @ \cup {c}]
      /\ cur' = [cur EXCEPT ![p] = NoProc]
      /\ pc' = [pc EXCEPT ![p] = "call"]
      /\ UNCHANGED <<mem, st, success, statParent, statDrv, driver, burst,
                     parent, opened,
                   todo, walkVars>>
  BY DEF StartAdd
<1>b. /\ latch' \in [Procs -> Latch]
      /\ latch'[p] # NoLatch
      /\ latch'[p].on = c
      /\ latch'[p].snap = {}
      /\ latch'[p].add = {"Started"}
      /\ \A q \in Procs \ {p} : latch'[q] = latch[q]
  <2>1. StatLoad(p, c, {"Started"}) BY DEF StartAdd
  <2>2. {"Started"} \in SUBSET ParentFlag BY DEF ParentFlag
  <2> QED BY <2>1, <2>2, <1>0, LatchLoaded
<1>c. /\ loop' \in [Procs -> {"none", "running", "exited"}]
      /\ \A q \in Procs : q # c => loop'[q] = loop[q]
      /\ driver[c] # "DrivenByExternalDriver" => loop'[c] = loop[c]
      /\ driver[c] = "DrivenByExternalDriver" => loop[c] = "none"
           /\ loop'[c] = "running"
  BY <1>0 DEF StartAdd, TypeOK, FrameInv, NotStartedYet
<1>1. TypeOK'
  <2>1. pc' \in [Procs -> Pc] /\ cur' \in [Procs -> Procs \cup {NoProc}]
    BY <1>a DEF TypeOK, Pc
  <2>2. children' \in [Procs -> SUBSET Procs]
       /\ ref' \in [Procs -> SUBSET Procs]
    BY <1>0, <1>a DEF TypeOK
  <2> QED BY <2>1, <2>2, <1>a, <1>b, <1>c DEF TypeOK
<1>2. ASSUME NEW q \in Procs PROVE TreeInv(q)'
  BY <1>0, <1>a, <1>b, <1>c
     DEF TypeOK, TreeInv, NotLive, Unborn, ChildLinks, ParentLinks
<1>3. ASSUME NEW q \in Procs PROVE FrameInv(q)'
  BY <1>0, <1>a, <1>c
     DEF TypeOK, FrameInv, CurInList, CurOutside, TodoInList, FrameNested,
         NotStartedYet, FrameState
<1>4. ASSUME NEW q \in Procs PROVE EndInv(q)'
  <2>1. CASE q = p
    BY <2>1, <1>0, <1>a, <1>b, <1>c
       DEF TypeOK, EndInv, UndrivenIsFinal, ExitedIsFinal, RemovedIsUndriven,
           LatchInList
  <2>2. CASE q # p
    <3>1. children'[q] = children[q] /\ pc'[q] = pc[q]
         /\ latch'[q] = latch[q] /\ cur'[q] = cur[q]
      BY <2>2, <1>a, <1>b DEF TypeOK
    <3>2. UndrivenIsFinal(q)'
      BY <3>1, <1>0, <1>a, <1>c DEF EndInv, UndrivenIsFinal
    <3>3. ExitedIsFinal(q)'
      BY <3>1, <1>a, <1>c DEF EndInv, ExitedIsFinal
    <3>4. RemovedIsUndriven(q)' /\ LatchInList(q)'
      BY <3>1, <1>a, <1>c DEF EndInv, RemovedIsUndriven, LatchInList
    <3> QED BY <3>2, <3>3, <3>4 DEF EndInv
  <2> QED BY <2>1, <2>2
<1>5. ASSUME NEW q \in Procs PROVE PointerInv(q)'
  <2>1. RefInList(q)'
    BY <1>0, <1>a DEF TypeOK, PointerInv, RefInList, Working
  <2>4. NewChild(q)'
    BY <1>0, <1>a DEF TypeOK, PointerInv, NewChild
  <2>5. SelfLatch(q)'
    BY <1>0, <1>a, <1>b DEF PointerInv, SelfLatch
  <2>2. ASSUME NEW d \in ref'[q], Working(q)'
        PROVE  statParent[d] \cap Released = {} /\ (d # c => d \in ref[q])
        /\ (d = c => q = p)
    BY <2>2, <1>0, <1>a DEF TypeOK, PointerInv, RefHeld, RefInList, Working
  <2>3. RefHeld(q)'
    BY <2>2, <1>0, <1>a, <1>b DEF PointerInv, RefHeld, Working, Released
  <2> QED BY <2>1, <2>3, <2>4, <2>5 DEF PointerInv
<1>6. RootAtTop' /\ Acyclic'
  BY <1>0, <1>a, <1>c DEF RootAtTop, Acyclic
<1>7. WalkPath'
  BY <1>0, <1>a DEF WalkPath, TypeOK
<1> QED BY <1>1, <1>2, <1>3, <1>4, <1>5, <1>6, <1>7


\* cancel() changes nothing but a latch.
LEMMA CancelInv ==
    ASSUME IInv, NEW p \in Procs, Cancel(p)
    PROVE  IInv'
<1>1. PICK c \in ref[p] : StatLoad(p, c, {"Canceled"})
  BY DEF Cancel
<1>2. /\ pc[p] = "call" /\ Ready(p)
      /\ UNCHANGED <<mem, st, success, statParent, statDrv, driver, loop,
                     burst, parent,
                   children, ref, opened, frameVars, walkVars>>
  BY DEF Cancel
<1>3. c \in children[p] /\ c \in Procs
  BY <1>2
     DEF IInv, TypeOK, FrameInv, FrameState, PointerInv, RefInList, Working
<1>4. /\ latch' \in [Procs -> Latch] /\ pc' \in [Procs -> Pc]
      /\ \A q \in Procs : TreeInv(q)' /\ EndInv(q)' /\ PointerInv(q)'
      /\ RootAtTop' /\ Acyclic' /\ WalkPath'
  <2>1. {"Canceled"} \in SUBSET ParentFlag
       /\ {"Canceled"} \cap Released = {} /\ "call" \in Pc
    BY DEF ParentFlag, Released, Pc
  <2>2. pc' = [pc EXCEPT ![p] = "call"]
    BY <1>2 DEF IInv, TypeOK
  <2> QED BY <1>1, <1>2, <1>3, <2>1, <2>2, LoadKeeps
<1>5. TypeOK'
  BY <1>2, <1>4 DEF IInv, TypeOK
<1>6. \A q \in Procs : FrameInv(q)'
  BY <1>2
     DEF IInv, FrameInv, CurInList, CurOutside, TodoInList, FrameNested,
         NotStartedYet, FrameState
<1> QED BY <1>4, <1>5, <1>6 DEF IInv

\* repel() starts with cancel() ...
LEMMA RepelInv ==
    ASSUME IInv, NEW p \in Procs, Repel(p)
    PROVE  IInv'
<1>1. PICK c \in ref[p] : StatLoad(p, c,
     {"Canceled"}) /\ cur' = [cur EXCEPT ![p] = c]
  BY DEF Repel
<1>2. /\ pc[p] = "call" /\ Ready(p) /\ pc' = [pc EXCEPT ![p] = "repel"]
      /\ UNCHANGED <<mem, st, success, statParent, statDrv, driver, loop,
                     burst, parent,
                   children, ref, opened, todo, walkVars>>
  BY DEF Repel
<1>3. c \in children[p] /\ c \in Procs /\ st[p] \in {"Initializing",
     "Processing", "DownShutting"}
  BY <1>2
     DEF IInv, TypeOK, FrameInv, FrameState, PointerInv, RefInList, Working
<1>4. /\ latch' \in [Procs -> Latch] /\ pc' \in [Procs -> Pc]
      /\ \A q \in Procs : TreeInv(q)' /\ EndInv(q)' /\ PointerInv(q)'
      /\ RootAtTop' /\ Acyclic' /\ WalkPath'
  <2>1. {"Canceled"} \in SUBSET ParentFlag
       /\ {"Canceled"} \cap Released = {} /\ "repel" \in Pc
    BY DEF ParentFlag, Released, Pc
  <2>2. \A q \in Procs \ {p} : cur'[q] = cur[q]
    BY <1>1 DEF IInv, TypeOK
  <2> QED BY <1>1, <1>2, <1>3, <2>1, <2>2, LoadKeeps
<1>5. TypeOK'
  BY <1>1, <1>2, <1>3, <1>4 DEF IInv, TypeOK
<1>6. ASSUME NEW q \in Procs PROVE FrameInv(q)'
  BY <1>1, <1>2, <1>3
     DEF IInv, TypeOK, FrameInv, CurInList, CurOutside, TodoInList,
         FrameNested, NotStartedYet, FrameState
<1> QED BY <1>4, <1>5, <1>6 DEF IInv

\* ... and ends with unusedSet(), when the pointer is given up.
LEMMA RepelUnusedInv ==
    ASSUME IInv, NEW p \in Procs, RepelUnused(p)
    PROVE  IInv'
<1> DEFINE c == cur[p]
<1>1. /\ StatLoad(p, c, UnusedFlags)
      /\ ref' = [ref EXCEPT ![p] = ref[p] \ {c}]
      /\ cur' = [cur EXCEPT ![p] = NoProc]
  BY DEF RepelUnused, RefsLeft
<1>2. /\ pc[p] = "repel" /\ Ready(p) /\ pc' = [pc EXCEPT ![p] = "call"]
      /\ UNCHANGED <<mem, st, success, statParent, statDrv, driver, loop,
                     burst, parent,
                   children, opened, todo, walkVars>>
  BY DEF RepelUnused
<1>3. c \in children[p] /\ c \in Procs /\ st[p] \in {"Initializing",
     "Processing", "DownShutting"}
  BY <1>2 DEF IInv, TypeOK, FrameInv, FrameState, CurInList
<1>a. ref' \in [Procs -> SUBSET Procs] /\ c \notin ref'[p]
     /\ \A q \in Procs : ref'[q] \subseteq ref[q]
  BY <1>1 DEF IInv, TypeOK
<1>4. /\ latch' \in [Procs -> Latch] /\ pc' \in [Procs -> Pc]
      /\ \A q \in Procs : TreeInv(q)' /\ EndInv(q)' /\ PointerInv(q)'
      /\ RootAtTop' /\ Acyclic' /\ WalkPath'
  <2>1. UnusedFlags \in SUBSET ParentFlag /\ UnusedFlags # {} /\ "call" \in Pc
    BY DEF ParentFlag, UnusedFlags, Pc
  <2>2. \A q \in Procs \ {p} : cur'[q] = cur[q]
    BY <1>1 DEF IInv, TypeOK
  <2> QED BY <1>1, <1>2, <1>3, <1>a, <2>1, <2>2, LoadKeeps
<1>5. TypeOK'
  BY <1>1, <1>2, <1>a, <1>4 DEF IInv, TypeOK
<1>6. ASSUME NEW q \in Procs PROVE FrameInv(q)'
  BY <1>1, <1>2, <1>3
     DEF IInv, TypeOK, FrameInv, CurInList, CurOutside, TodoInList,
         FrameNested, NotStartedYet, FrameState
<1> QED BY <1>4, <1>5, <1>6 DEF IInv

\* whenFinishedRepel() gives the pointer up as well.
LEMMA WhenFinishedRepelInv ==
    ASSUME IInv, NEW p \in Procs, WhenFinishedRepel(p)
    PROVE  IInv'
<1>1. PICK c \in ref[p] : /\ StatLoad(p, c, {"WhenFinishedUnused"})
                          /\ ref' = [ref EXCEPT ![p] = ref[p] \ {c}]
  BY DEF WhenFinishedRepel, RefsLeft
<1>2. /\ pc[p] = "call" /\ Ready(p)
      /\ UNCHANGED <<mem, st, success, statParent, statDrv, driver, loop,
                     burst, parent,
                   children, opened, frameVars, walkVars>>
  BY DEF WhenFinishedRepel
<1>3. c \in children[p] /\ c \in Procs
  BY <1>2
     DEF IInv, TypeOK, FrameInv, FrameState, PointerInv, RefInList, Working
<1>a. ref' \in [Procs -> SUBSET Procs] /\ c \notin ref'[p]
     /\ \A q \in Procs : ref'[q] \subseteq ref[q]
  BY <1>1 DEF IInv, TypeOK
<1>4. /\ latch' \in [Procs -> Latch] /\ pc' \in [Procs -> Pc]
      /\ \A q \in Procs : TreeInv(q)' /\ EndInv(q)' /\ PointerInv(q)'
      /\ RootAtTop' /\ Acyclic' /\ WalkPath'
  <2>1. {"WhenFinishedUnused"} \in SUBSET ParentFlag /\ "call" \in Pc
    BY DEF ParentFlag, Pc
  <2>2. pc' = [pc EXCEPT ![p] = "call"]
    BY <1>2 DEF IInv, TypeOK
  <2> QED BY <1>1, <1>2, <1>3, <1>a, <2>1, <2>2, LoadKeeps
<1>5. TypeOK'
  BY <1>2, <1>a, <1>4 DEF IInv, TypeOK
<1>6. ASSUME NEW q \in Procs PROVE FrameInv(q)'
  BY <1>2
     DEF IInv, FrameInv, CurInList, CurOutside, TodoInList, FrameNested,
         NotStartedYet, FrameState
<1> QED BY <1>4, <1>5, <1>6 DEF IInv

\* A process marks its children only after its last virtual function.
LEMMA MarkChildInv ==
    ASSUME IInv, NEW p \in Procs, MarkChild(p)
    PROVE  IInv'
<1>1. PICK c \in todo[p] : /\ StatLoad(p, c, UnusedFlags)
                           /\ todo' = [todo EXCEPT ![p] = todo[p] \ {c}]
  BY DEF MarkChild
<1>2. /\ pc[p] = "mark" /\ Ready(p)
      /\ UNCHANGED <<mem, st, success, statParent, statDrv, driver, loop,
                     burst, parent,
                   children, ref, opened, pc, cur, walkVars>>
  BY DEF MarkChild
<1>3. c \in children[p] /\ c \in Procs /\ ~Working(p)
  BY <1>2 DEF IInv, TypeOK, FrameInv, FrameState, TodoInList, Working
<1>4. /\ latch' \in [Procs -> Latch] /\ pc' \in [Procs -> Pc]
      /\ \A q \in Procs : TreeInv(q)' /\ EndInv(q)' /\ PointerInv(q)'
      /\ RootAtTop' /\ Acyclic' /\ WalkPath'
  <2>1. UnusedFlags \in SUBSET ParentFlag /\ UnusedFlags # {} /\ "mark" \in Pc
    BY DEF ParentFlag, UnusedFlags, Pc
  <2>2. pc' = [pc EXCEPT ![p] = "mark"]
    BY <1>2 DEF IInv, TypeOK
  <2> QED BY <1>1, <1>2, <1>3, <2>1, <2>2, LoadKeeps
<1>5. TypeOK'
  BY <1>1, <1>2, <1>4 DEF IInv, TypeOK
<1>6. ASSUME NEW q \in Procs PROVE FrameInv(q)'
  BY <1>1, <1>2
     DEF IInv, TypeOK, FrameInv, CurInList, CurOutside, TodoInList,
         FrameNested, NotStartedYet, FrameState
<1> QED BY <1>4, <1>5, <1>6 DEF IInv

\* unusedSet() of a process on itself, on behalf of a parent that has given
\* it up.
LEMMA TickFinishInv ==
    ASSUME IInv, NEW p \in Procs, TickFinish(p)
    PROVE  IInv'
<1>1. /\ pc[p] = "loop" /\ Ready(p) /\ st[p] = "FinishedPrepare"
     /\ todo[p] = {}
      /\ pc' = [pc EXCEPT ![p] = "finish"]
      /\ UNCHANGED <<mem, st, success, statParent, statDrv, driver, loop,
                     burst, parent, children,
                     ref, opened, cur, todo, walkVars>>
  BY DEF TickFinish
<1>2. /\ latch' \in [Procs -> Latch] /\ pc' \in [Procs -> Pc]
      /\ \A q \in Procs : TreeInv(q)' /\ EndInv(q)' /\ PointerInv(q)'
      /\ RootAtTop' /\ Acyclic' /\ WalkPath'
  <2>1. CASE RepelledWhenFinished(p)
    <3>1. StatLoad(p, p, UnusedFlags)
      BY <2>1 DEF TickFinish
    <3>2. UnusedFlags \in SUBSET ParentFlag /\ UnusedFlags # {}
         /\ "finish" \in Pc /\ ~Working(p)
      BY <1>1 DEF ParentFlag, UnusedFlags, Pc, Working
    <3> QED BY <1>1, <2>1, <3>1, <3>2, LoadKeeps
  <2>2. CASE ~RepelledWhenFinished(p)
    <3>1. UNCHANGED latch
      BY <2>2 DEF TickFinish
    <3>2. \A q \in Procs : TreeInv(q)'
      BY <1>1, <3>1
         DEF IInv, TypeOK, TreeInv, NotLive, Unborn, ChildLinks, ParentLinks
    <3>3. \A q \in Procs : EndInv(q)'
      BY <1>1, <3>1
         DEF IInv, TypeOK, EndInv, UndrivenIsFinal, ExitedIsFinal,
             RemovedIsUndriven, LatchInList
    <3>4. \A q \in Procs : PointerInv(q)'
      BY <1>1, <3>1
         DEF IInv, TypeOK, PointerInv, RefInList, RefHeld, NewChild,
             SelfLatch, Working
    <3>5. /\ latch' \in [Procs -> Latch] /\ pc' \in [Procs -> Pc]
          /\ RootAtTop' /\ Acyclic' /\ WalkPath'
      BY <1>1, <3>1 DEF IInv, TypeOK, Pc, RootAtTop, Acyclic, WalkPath
    <3> QED BY <3>2, <3>3, <3>4, <3>5
  <2> QED BY <2>1, <2>2
<1>3. TypeOK'
  BY <1>1, <1>2 DEF IInv, TypeOK
<1>4. ASSUME NEW q \in Procs PROVE FrameInv(q)'
  BY <1>1
     DEF IInv, TypeOK, FrameInv, CurInList, CurOutside, TodoInList,
         FrameNested, NotStartedYet, FrameState
<1> QED BY <1>2, <1>3, <1>4 DEF IInv

\* The end of a treeTick(), with what its caller does about it: a child that
\* is set undriven is finished and has no children, and is only removed if it
\* is unused too.
LEMMA LeaveKeeps ==
    ASSUME IInv, NEW p \in Procs, NEW s \in ProcessState, NEW drv,
           drv \subseteq statDrv[p] \cup {"InitDone", "ProcessDone",
           "ShutdownDone"},
           pc[p] \in {"loop", "call", "walk", "mark", "finish"}, Ready(p),
           Working(p) \/ s \in {"FinishedPrepare", "Finished"},
           Leave(p, s, drv),
           UNCHANGED <<mem, statParent, driver, loop, parent, children, ref,
                       cur, todo, latch>>
    PROVE  /\ st' \in [Procs -> ProcessState]
           /\ statDrv' \in [Procs -> SUBSET DriverFlag]
           /\ pc' \in [Procs -> Pc]
           /\ pc'[p] = "idle"
           /\ \A q \in Procs \ {p} : pc'[q] = "walk" <=> pc[q] = "walk"
           /\ \A q \in Procs : TreeInv(q)' /\ FrameInv(q)' /\ EndInv(q)'
                /\ PointerInv(q)'
           /\ RootAtTop' /\ Acyclic'
<1> USE ProcessingAssumption DEF IInv
<1> DEFINE byParent == driver[p] = "DrivenByParent"
<1>1. "Undriven" \notin drv /\ drv \in SUBSET DriverFlag
  BY DEF TypeOK, EndInv, UndrivenIsFinal, DriverFlag
<1>2. /\ st' = [st EXCEPT ![p] = s]
      /\ st' \in [Procs -> ProcessState]
  BY DEF Leave, TypeOK
<1>3. byParent => /\ parent[p] \in Procs /\ parent[p] # p
                  /\ pc[parent[p]] = "child" /\ cur[parent[p]] = p
  BY DEF FrameInv, FrameNested
<1>4. /\ statDrv' \in [Procs -> SUBSET DriverFlag]
      /\ \A q \in Procs \ {p} : statDrv'[q] = statDrv[q]
      /\ "Undriven" \in statDrv'[p] => s = "Finished" /\ children[p] = {}
           /\ byParent
  BY <1>1 DEF Leave, Progress, TypeOK, DriverFlag
<1>5. /\ pc' \in [Procs -> Pc]
      /\ pc'[p] = "idle"
      /\ \A q \in Procs \ {p} : ~(byParent /\ q = parent[p]) => pc'[q] = pc[q]
      /\ byParent => pc'[parent[p]] \in {"loop", "erase"}
      /\ byParent /\ pc'[parent[p]] = "erase" =>
           "Undriven" \in statDrv'[p] /\ "Unused" \in statParent[p]
  BY <1>1, <1>3 DEF Leave, CanBeRemoved, TypeOK, Pc
<1>6. mem[p] = "live" /\ loop[p] # "exited"
  BY DEF TreeInv, NotLive, EndInv, ExitedIsFinal
<1>7. ASSUME NEW q \in Procs PROVE TreeInv(q)'
  BY <1>3, <1>4, <1>5, <1>6
     DEF TreeInv, NotLive, Unborn, ChildLinks, ParentLinks
<1>8. ASSUME NEW q \in Procs PROVE FrameInv(q)'
  BY <1>2, <1>3, <1>5
     DEF TypeOK, FrameInv, CurInList, CurOutside, TodoInList, FrameNested,
         NotStartedYet, FrameState
<1>9. ASSUME NEW q \in Procs PROVE EndInv(q)'
  <2>1. UndrivenIsFinal(q)'
    <3>1. CASE q = p
      BY <3>1, <1>2, <1>4, <1>5 DEF TypeOK, UndrivenIsFinal, RootAtTop
    <3>2. CASE q # p
      BY <3>2, <1>2, <1>3, <1>4, <1>5 DEF TypeOK, EndInv, UndrivenIsFinal
    <3> QED BY <3>1, <3>2
  <2>2. ExitedIsFinal(q)'
    BY <1>2, <1>3, <1>5, <1>6 DEF TypeOK, EndInv, ExitedIsFinal
  <2>3. RemovedIsUndriven(q)'
    <3>1. pc[q] \in {"erase", "destroy"} => cur[q] \in Procs
      BY DEF TypeOK, FrameInv, CurInList, CurOutside
    <3>2. pc[q] \in {"erase", "destroy"} => cur[q] # p
      BY DEF EndInv, RemovedIsUndriven, UndrivenIsFinal
    <3> QED BY <3>1, <3>2, <1>3, <1>4, <1>5 DEF EndInv, RemovedIsUndriven
  <2>4. LatchInList(q)'
    BY <1>3, <1>5 DEF EndInv, LatchInList
  <2> QED BY <2>1, <2>2, <2>3, <2>4 DEF EndInv
<1>10. ASSUME NEW q \in Procs PROVE PointerInv(q)'
  <2>1. Working(q)' => Working(q)
    BY <1>2 DEF Working, TypeOK
  <2>2. NewChild(q)'
    BY <1>3, <1>5 DEF PointerInv, NewChild
  <2> QED BY <2>1, <2>2 DEF PointerInv, RefInList, RefHeld, SelfLatch
<1>11. RootAtTop'
  BY DEF RootAtTop
<1>12. Acyclic'
  BY DEF Acyclic
<1>13. \A q \in Procs \ {p} : pc'[q] = "walk" <=> pc[q] = "walk"
  BY <1>3, <1>5
<1> QED BY <1>2, <1>4, <1>5, <1>7, <1>8, <1>9, <1>10, <1>11, <1>12, <1>13

\* The same for every treeTick() that is not inside processTreeStr().
LEMMA LeaveInv ==
    ASSUME IInv, NEW p \in Procs, NEW s \in ProcessState, NEW drv,
           drv \subseteq statDrv[p] \cup {"InitDone", "ProcessDone",
           "ShutdownDone"},
           pc[p] \in {"loop", "call", "mark", "finish"}, Ready(p),
           Working(p) \/ s \in {"FinishedPrepare", "Finished"},
           success' \in [Procs -> Success],
           Leave(p, s, drv),
           UNCHANGED <<mem, statParent, driver, loop, burst, parent, children,
                       ref, opened,
                       cur, todo, latch, walkVars>>
    PROVE  IInv'
<1>1. /\ st' \in [Procs -> ProcessState]
      /\ statDrv' \in [Procs -> SUBSET DriverFlag]
      /\ pc' \in [Procs -> Pc]
      /\ pc'[p] = "idle"
      /\ \A q \in Procs \ {p} : pc'[q] = "walk" <=> pc[q] = "walk"
      /\ \A q \in Procs : TreeInv(q)' /\ FrameInv(q)' /\ EndInv(q)'
           /\ PointerInv(q)'
      /\ RootAtTop' /\ Acyclic'
  BY LeaveKeeps
<1>2. TypeOK'
  BY <1>1 DEF IInv, TypeOK
<1>3. WalkPath'
  BY <1>1 DEF IInv, WalkPath, TypeOK
<1> QED BY <1>1, <1>2, <1>3 DEF IInv

\* The cases of the switch that end the tick at once.
LEMMA SwitchLeaveInv ==
    ASSUME IInv, NEW p \in Procs,
           \/ TickExistent(p) \/ TickCanceled(p)
           \/ MarkEnd(p) \/ Finish(p) \/ TickFinished(p)
    PROVE  IInv'
<1>1. success \in [Procs -> Success]
  BY DEF IInv, TypeOK
<1>2. CASE TickExistent(p)
  BY <1>1, <1>2, LeaveInv DEF TickExistent, CancelTarget, ProcessState, Working
<1>3. CASE TickCanceled(p)
  BY <1>1, <1>3, LeaveInv DEF TickCanceled, CancelTarget, ProcessState, Working
<1>4. CASE MarkEnd(p)
  BY <1>1, <1>4, LeaveInv DEF MarkEnd, ProcessState, Working
<1>5. CASE Finish(p)
  BY <1>1, <1>5, LeaveInv DEF Finish, ProcessState, Working
<1>6. CASE TickFinished(p)
  BY <1>1, <1>6, LeaveInv DEF TickFinished, ProcessState, Working
<1> QED BY <1>2, <1>3, <1>4, <1>5, <1>6

\* The cases that end it when a virtual function returns.
LEMMA CallLeaveInv ==
    ASSUME IInv, NEW p \in Procs, CallPending(p) \/ Complete(p)
    PROVE  IInv'
<1>1. success \in [Procs -> Success] /\ st \in [Procs -> ProcessState]
     /\ (pc[p] = "call" => Working(p))
  BY DEF IInv, TypeOK, FrameInv, FrameState, Working
<1>2. CASE CallPending(p)
  BY <1>1, <1>2, LeaveInv DEF CallPending
<1>3. CASE InitializeDone(p)
  <2>1. success' \in [Procs -> Success]
    BY <1>1, <1>3 DEF InitializeDone, Success
  <2> QED BY <1>1, <1>3, <2>1, LeaveInv DEF InitializeDone, ProcessState
<1>4. CASE ProcessDone(p)
  <2>1. success' \in [Procs -> Success]
    BY <1>1, <1>4, ProcessingAssumption DEF ProcessDone, Success
  <2> QED BY <1>1, <1>4, <2>1, LeaveInv DEF ProcessDone, ProcessState
<1>5. CASE ShutdownDone(p)
  BY <1>1, <1>5, LeaveInv DEF ShutdownDone, ProcessState
<1> QED BY <1>2, <1>3, <1>4, <1>5 DEF Complete

\* When the walk is over, the virtual function that asked for it returns.
LEMMA WalkEndInv ==
    ASSUME IInv, NEW p \in Procs, WalkEnd(p)
    PROVE  IInv'
<1>1. /\ pc[p] = "walk" /\ latch[p] = NoLatch /\ Working(p)
     /\ st[p] \in ProcessState
  BY ProcessingAssumption
     DEF IInv, TypeOK, WalkEnd, WalkPath, EndInv, LatchInList, FrameInv,
         FrameState, Working
<1>2. /\ st' \in [Procs -> ProcessState]
      /\ statDrv' \in [Procs -> SUBSET DriverFlag]
      /\ pc' \in [Procs -> Pc]
      /\ pc'[p] = "idle"
      /\ \A q \in Procs \ {p} : pc'[q] = "walk" <=> pc[q] = "walk"
      /\ \A q \in Procs : TreeInv(q)' /\ FrameInv(q)' /\ EndInv(q)'
           /\ PointerInv(q)'
      /\ RootAtTop' /\ Acyclic'
  BY <1>1, LeaveKeeps DEF WalkEnd
<1>3. TypeOK'
  BY <1>2 DEF IInv, TypeOK, WalkEnd
<1>4. WalkPath'
  BY <1>2, ProcessingAssumption DEF IInv, WalkPath, WalkEnd
<1> QED BY <1>2, <1>3, <1>4 DEF IInv

\* A driver begins a tick on a process that still has progress to make.
LEMMA TickBeginInv ==
    ASSUME IInv, NEW p \in Procs, TickBegin(p)
    PROVE  IInv'
<1> USE ProcessingAssumption DEF IInv, TickBegin, BurstNext
<1>1. TypeOK'
  BY DEF TypeOK, Pc
<1>2. ASSUME NEW q \in Procs PROVE TreeInv(q)'
  BY DEF TypeOK, TreeInv, NotLive, Unborn, ChildLinks, ParentLinks
<1>3. ASSUME NEW q \in Procs PROVE FrameInv(q)'
  BY DEF TypeOK, TreeInv, NotLive, FrameInv, CurInList, CurOutside,
         TodoInList, FrameNested, NotStartedYet, FrameState
<1>4. ASSUME NEW q \in Procs PROVE EndInv(q)'
  BY DEF TypeOK, EndInv, UndrivenIsFinal, ExitedIsFinal, RemovedIsUndriven,
         LatchInList
<1>5. ASSUME NEW q \in Procs PROVE PointerInv(q)'
  BY DEF TypeOK, PointerInv, RefInList, RefHeld, NewChild, SelfLatch, Working
<1>6. RootAtTop' /\ Acyclic'
  BY DEF RootAtTop, Acyclic
<1>7. WalkPath'
  BY DEF TypeOK, WalkPath
<1> QED BY <1>1, <1>2, <1>3, <1>4, <1>5, <1>6, <1>7

\* A thread ends after it has set its process undriven.
LEMMA ThreadExitInv ==
    ASSUME IInv, NEW p \in Procs, ThreadExit(p)
    PROVE  IInv'
<1> USE ProcessingAssumption DEF IInv, ThreadExit
<1>1. TypeOK'
  BY DEF TypeOK
<1>2. ASSUME NEW q \in Procs PROVE TreeInv(q)'
  BY DEF TypeOK, TreeInv, NotLive, Unborn, ChildLinks, ParentLinks
<1>3. ASSUME NEW q \in Procs PROVE FrameInv(q)'
  BY DEF TypeOK, TreeInv, NotLive, FrameInv, CurInList, CurOutside,
         TodoInList, FrameNested, NotStartedYet, FrameState
<1>4. ASSUME NEW q \in Procs PROVE EndInv(q)'
  BY DEF TypeOK, EndInv, UndrivenIsFinal, ExitedIsFinal, RemovedIsUndriven,
         LatchInList
<1>5. ASSUME NEW q \in Procs PROVE PointerInv(q)'
  BY DEF TypeOK, PointerInv, RefInList, RefHeld, NewChild, SelfLatch, Working
<1>6. RootAtTop' /\ Acyclic'
  BY DEF RootAtTop, Acyclic
<1>7. WalkPath'
  BY DEF TypeOK, WalkPath
<1> QED BY <1>1, <1>2, <1>3, <1>4, <1>5, <1>6, <1>7

\* A child is only removed after its driver has let go of it.
LEMMA ChildSkipInv ==
    ASSUME IInv, NEW p \in Procs, ChildSkip(p)
    PROVE  IInv'
<1> USE ProcessingAssumption DEF IInv, ChildSkip, DrivenHere, CanBeRemoved
<1>1. TypeOK'
  BY DEF TypeOK, Pc
<1>2. ASSUME NEW q \in Procs PROVE TreeInv(q)'
  BY DEF TypeOK, TreeInv, NotLive, Unborn, ChildLinks, ParentLinks
<1>3. ASSUME NEW q \in Procs PROVE FrameInv(q)'
  BY DEF TypeOK, TreeInv, NotLive, FrameInv, CurInList, CurOutside,
         TodoInList, FrameNested, NotStartedYet, FrameState
<1>4. ASSUME NEW q \in Procs PROVE EndInv(q)'
  BY DEF TypeOK, EndInv, UndrivenIsFinal, ExitedIsFinal, RemovedIsUndriven,
         LatchInList
<1>5. ASSUME NEW q \in Procs PROVE PointerInv(q)'
  BY DEF TypeOK, PointerInv, RefInList, RefHeld, NewChild, SelfLatch, Working
<1>6. RootAtTop' /\ Acyclic'
  BY DEF RootAtTop, Acyclic
<1>7. WalkPath'
  BY DEF TypeOK, WalkPath
<1> QED BY <1>1, <1>2, <1>3, <1>4, <1>5, <1>6, <1>7

\* The child that leaves the list is referenced by nobody.
LEMMA ChildEraseInv ==
    ASSUME IInv, NEW p \in Procs, ChildErase(p)
    PROVE  IInv'
<1> USE ProcessingAssumption DEF IInv, ChildErase
<1>0. /\ cur[p] \in children[p] /\ mem[cur[p]] = "live" /\ parent[cur[p]] = p
      /\ Working(p) => cur[p] \notin ref[p]
  BY DEF TypeOK, TreeInv, ChildLinks, FrameInv, CurInList, EndInv,
         RemovedIsUndriven, PointerInv, RefHeld, Released
<1>1. TypeOK'
  BY DEF TypeOK, Pc
<1>2. ASSUME NEW q \in Procs PROVE TreeInv(q)'
  BY DEF TypeOK, TreeInv, NotLive, Unborn, ChildLinks, ParentLinks
<1>3. ASSUME NEW q \in Procs PROVE FrameInv(q)'
  BY <1>0
     DEF TypeOK, TreeInv, ChildLinks, FrameInv, CurInList, CurOutside,
         TodoInList, FrameNested, NotStartedYet, FrameState
<1>4. ASSUME NEW q \in Procs PROVE EndInv(q)'
  BY DEF TypeOK, EndInv, UndrivenIsFinal, ExitedIsFinal, RemovedIsUndriven,
         LatchInList
<1>5. ASSUME NEW q \in Procs PROVE PointerInv(q)'
  BY <1>0
     DEF TypeOK, PointerInv, RefInList, RefHeld, NewChild, SelfLatch, Working
<1>6. RootAtTop' /\ Acyclic'
  BY DEF RootAtTop, Acyclic
<1>7. WalkPath'
  BY <1>0 DEF TypeOK, WalkPath, CanLock
<1> QED BY <1>1, <1>2, <1>3, <1>4, <1>5, <1>6, <1>7

\* A virtual function is entered.
LEMMA TickCallInv ==
    ASSUME IInv, NEW p \in Procs, TickCall(p)
    PROVE  IInv'
<1> USE ProcessingAssumption DEF IInv, TickCall
<1>1. TypeOK'
  BY DEF TypeOK, Pc
<1>2. ASSUME NEW q \in Procs PROVE TreeInv(q)'
  BY DEF TypeOK, TreeInv, NotLive, Unborn, ChildLinks, ParentLinks
<1>3. ASSUME NEW q \in Procs PROVE FrameInv(q)'
  BY DEF TypeOK, TreeInv, NotLive, FrameInv, CurInList, CurOutside,
         TodoInList, FrameNested, NotStartedYet, FrameState
<1>4. ASSUME NEW q \in Procs PROVE EndInv(q)'
  BY DEF TypeOK, EndInv, UndrivenIsFinal, ExitedIsFinal, RemovedIsUndriven,
         LatchInList
<1>5. ASSUME NEW q \in Procs PROVE PointerInv(q)'
  BY DEF TypeOK, PointerInv, RefInList, RefHeld, NewChild, SelfLatch, Working
<1>6. RootAtTop' /\ Acyclic'
  BY DEF RootAtTop, Acyclic
<1>7. WalkPath'
  BY DEF TypeOK, WalkPath
<1> QED BY <1>1, <1>2, <1>3, <1>4, <1>5, <1>6, <1>7

\* The loop of PsChildrenUnusedSet is entered.
LEMMA TickMarkInv ==
    ASSUME IInv, NEW p \in Procs, TickMark(p)
    PROVE  IInv'
<1> USE ProcessingAssumption DEF IInv, TickMark
<1>1. TypeOK'
  BY DEF TypeOK, Pc
<1>2. ASSUME NEW q \in Procs PROVE TreeInv(q)'
  BY DEF TypeOK, TreeInv, NotLive, Unborn, ChildLinks, ParentLinks
<1>3. ASSUME NEW q \in Procs PROVE FrameInv(q)'
  BY DEF TypeOK, TreeInv, NotLive, FrameInv, CurInList, CurOutside,
         TodoInList, FrameNested, NotStartedYet, FrameState
<1>4. ASSUME NEW q \in Procs PROVE EndInv(q)'
  BY DEF TypeOK, EndInv, UndrivenIsFinal, ExitedIsFinal, RemovedIsUndriven,
         LatchInList
<1>5. ASSUME NEW q \in Procs PROVE PointerInv(q)'
  BY DEF TypeOK, PointerInv, RefInList, RefHeld, NewChild, SelfLatch, Working
<1>6. RootAtTop' /\ Acyclic'
  BY DEF RootAtTop, Acyclic
<1>7. WalkPath'
  BY DEF TypeOK, WalkPath
<1> QED BY <1>1, <1>2, <1>3, <1>4, <1>5, <1>6, <1>7

\* The walk leaves a child out.
LEMMA WalkSkipInv ==
    ASSUME IInv, WalkSkip
    PROVE  IInv'
<1> USE ProcessingAssumption DEF IInv, WalkSkip
<1>0. wat \in Procs
  BY DEF TypeOK, WalkPath
<1>1. TypeOK'
  BY <1>0 DEF TypeOK
<1>2. ASSUME NEW q \in Procs PROVE TreeInv(q)'
  BY DEF TypeOK, TreeInv, NotLive, Unborn, ChildLinks, ParentLinks
<1>3. ASSUME NEW q \in Procs PROVE FrameInv(q)'
  BY DEF TypeOK, TreeInv, NotLive, FrameInv, CurInList, CurOutside,
         TodoInList, FrameNested, NotStartedYet, FrameState
<1>4. ASSUME NEW q \in Procs PROVE EndInv(q)'
  BY DEF TypeOK, EndInv, UndrivenIsFinal, ExitedIsFinal, RemovedIsUndriven,
         LatchInList
<1>5. ASSUME NEW q \in Procs PROVE PointerInv(q)'
  BY DEF TypeOK, PointerInv, RefInList, RefHeld, NewChild, SelfLatch, Working
<1>6. RootAtTop' /\ Acyclic'
  BY DEF RootAtTop, Acyclic
<1>7. WalkPath'
  BY DEF TypeOK, WalkPath
<1> QED BY <1>1, <1>2, <1>3, <1>4, <1>5, <1>6, <1>7

\* The walk gives back the lock it took last.
LEMMA WalkUpInv ==
    ASSUME IInv, WalkUp
    PROVE  IInv'
<1> USE ProcessingAssumption DEF IInv, WalkUp
<1>0. wat \in Procs
  BY DEF TypeOK, WalkPath
<1>1. TypeOK'
  BY <1>0 DEF TypeOK
<1>2. ASSUME NEW q \in Procs PROVE TreeInv(q)'
  BY DEF TypeOK, TreeInv, NotLive, Unborn, ChildLinks, ParentLinks
<1>3. ASSUME NEW q \in Procs PROVE FrameInv(q)'
  BY DEF TypeOK, TreeInv, NotLive, FrameInv, CurInList, CurOutside,
         TodoInList, FrameNested, NotStartedYet, FrameState
<1>4. ASSUME NEW q \in Procs PROVE EndInv(q)'
  BY DEF TypeOK, EndInv, UndrivenIsFinal, ExitedIsFinal, RemovedIsUndriven,
         LatchInList
<1>5. ASSUME NEW q \in Procs PROVE PointerInv(q)'
  BY DEF TypeOK, PointerInv, RefInList, RefHeld, NewChild, SelfLatch, Working
<1>6. RootAtTop' /\ Acyclic'
  BY DEF RootAtTop, Acyclic
<1>7. WalkPath'
  BY DEF TypeOK, WalkPath
<1> QED BY <1>1, <1>2, <1>3, <1>4, <1>5, <1>6, <1>7

\* The signal handler only adds flags to the root, which is nobody's child.
LEMMA SignalInv ==
    ASSUME IInv, Signal
    PROVE  IInv'
<1> USE ProcessingAssumption DEF IInv, Signal, UnusedFlags
<1>1. TypeOK'
  BY DEF TypeOK, ParentFlag
<1>2. ASSUME NEW q \in Procs PROVE TreeInv(q)'
  BY DEF TypeOK, TreeInv, NotLive, Unborn, ChildLinks, ParentLinks
<1>3. ASSUME NEW q \in Procs PROVE FrameInv(q)'
  BY DEF TypeOK, TreeInv, NotLive, FrameInv, CurInList, CurOutside,
         TodoInList, FrameNested, NotStartedYet, FrameState
<1>4. ASSUME NEW q \in Procs PROVE EndInv(q)'
  BY DEF TypeOK, EndInv, UndrivenIsFinal, ExitedIsFinal, RemovedIsUndriven,
         LatchInList
<1>5. ASSUME NEW q \in Procs PROVE PointerInv(q)'
  <2>1. \A c \in Procs : parent[c] = q => c # Root
    BY DEF RootAtTop
  <2>2. RefHeld(q)'
    BY <2>1
       DEF TypeOK, PointerInv, RefInList, RefHeld, Working, TreeInv, ChildLinks
  <2>3. NewChild(q)'
    BY <2>1 DEF TypeOK, PointerInv, NewChild, FrameInv, CurOutside
  <2> QED BY <2>2, <2>3 DEF TypeOK, PointerInv, RefInList, SelfLatch, Working
<1>6. RootAtTop' /\ Acyclic'
  BY DEF RootAtTop, Acyclic
<1>7. WalkPath'
  BY DEF TypeOK, WalkPath
<1> QED BY <1>1, <1>2, <1>3, <1>4, <1>5, <1>6, <1>7

\* IInv holds when main() has created the root.
THEOREM InitIInv == Init => IInv
<1> SUFFICES ASSUME Init PROVE IInv
  OBVIOUS
<1> USE ProcessingAssumption DEF Init
<1>0. NoLatch \in Latch BY DEF NoLatch, Latch
<1>1. TypeOK
  BY <1>0 DEF TypeOK, ProcessState, Success, DriverMode, Pc
<1>2. ASSUME NEW p \in Procs PROVE TreeInv(p) /\ FrameInv(p)
  BY DEF TreeInv, NotLive, Unborn, ChildLinks, ParentLinks, FrameInv,
         CurInList, CurOutside, TodoInList, FrameNested, NotStartedYet,
         FrameState
<1>3. ASSUME NEW p \in Procs PROVE EndInv(p) /\ PointerInv(p)
  BY DEF EndInv, UndrivenIsFinal, ExitedIsFinal, RemovedIsUndriven,
         LatchInList, PointerInv, RefInList, RefHeld, NewChild, SelfLatch
<1>4. RootAtTop /\ Acyclic /\ WalkPath
  BY DEF RootAtTop, Acyclic, WalkPath
<1> QED BY <1>1, <1>2, <1>3, <1>4 DEF IInv

\* IInv is a state predicate over vars.
LEMMA StutterInv ==
    ASSUME IInv, UNCHANGED vars
    PROVE  IInv'
<1> USE DEF IInv, vars
<1>1. TypeOK' BY DEF TypeOK
<1>2. ASSUME NEW p \in Procs PROVE TreeInv(p)' /\ FrameInv(p)'
  BY DEF TreeInv, NotLive, Unborn, ChildLinks, ParentLinks, FrameInv,
         CurInList, CurOutside, TodoInList, FrameNested, NotStartedYet,
         FrameState
<1>3. ASSUME NEW p \in Procs PROVE EndInv(p)' /\ PointerInv(p)'
  BY DEF EndInv, UndrivenIsFinal, ExitedIsFinal, RemovedIsUndriven,
         LatchInList, PointerInv, RefInList, RefHeld, NewChild, SelfLatch,
         Working
<1>4. RootAtTop' /\ Acyclic' /\ WalkPath'
  BY DEF RootAtTop, Acyclic, WalkPath
<1> QED BY <1>1, <1>2, <1>3, <1>4

\* Every step of the system preserves IInv.
LEMMA NextInv ==
    ASSUME IInv, [Next]_vars
    PROVE  IInv'
<1>1. CASE UNCHANGED vars
  BY <1>1, StutterInv
<1>2. ASSUME NEW p \in Procs, Drive(p) PROVE IInv'
  BY <1>2, TickBeginInv, LoopBreakInv, ThreadExitInv DEF Drive
<1>3. ASSUME NEW p \in Procs, Visit(p) PROVE IInv'
  BY <1>3, ChildTickInv, ChildSkipInv, ChildEraseInv, ChildDestroyInv DEF Visit
<1>4. ASSUME NEW p \in Procs, Switch(p) PROVE IInv'
  BY <1>4, SwitchLeaveInv, TickCallInv, TickMarkInv, MarkChildInv,
     TickFinishInv
     DEF Switch
<1>5. ASSUME NEW p \in Procs, User(p) PROVE IInv'
  BY <1>5, StartDriverInv, StartAddInv, CancelInv, RepelInv, RepelUnusedInv,
     WhenFinishedRepelInv, CallLeaveInv, WalkBeginInv, WalkEndInv
     DEF User
<1>6. CASE WalkDown \/ WalkSkip \/ WalkUp
  BY <1>6, WalkDownInv, WalkSkipInv, WalkUpInv
<1>7. CASE Signal \/ RootDestroy \/ Closed
  BY <1>7, SignalInv, RootDestroyInv, StutterInv DEF Closed
<1> QED
  BY <1>1, <1>2, <1>3, <1>4, <1>5, <1>6, <1>7, StatStoreInv DEF Next

\* IInv is an invariant of the process tree, however many processes there are,
\* whoever drives them, and whatever their virtual functions do.
THEOREM Invariance == Spec => []IInv
<1>1. Init => IInv
  BY InitIInv
<1>2. IInv /\ [Next]_vars => IInv'
  BY NextInv
<1> QED
  BY <1>1, <1>2, PTL DEF Spec

\* Every variable keeps its type.
THEOREM TypeCorrect == Spec => []TypeOK
<1>1. IInv => TypeOK
  BY DEF IInv
<1> QED
  BY <1>1, Invariance, PTL

\* No thread and no loop ever ticks a deleted process (internalDrive and
\* destroy, Processing.cpp).
THEOREM DriversStayLive == Spec => []DriversLive
<1>1. IInv => DriversLive
  BY DEF IInv, TreeInv, NotLive, DriversLive
<1> QED
  BY <1>1, Invariance, PTL

\* A virtual function may use the pointer to a child until it repels the
\* child (Introducing.h): neither its own tick, nor the child's thread, nor a
\* store of stale flags removes the child before.
THEOREM PointersStayValid == Spec => []PointerValid
<1>1. IInv => PointerValid
  <2> SUFFICES ASSUME IInv, NEW p \in Procs, pc[p] \in {"call", "repel"},
                      NEW c \in ref[p]
               PROVE  mem[c] = "live"
    BY DEF PointerValid
  <2>1. c \in children[p]
    BY DEF IInv, FrameInv, FrameState, PointerInv, RefInList, Working
  <2> QED BY <2>1 DEF IInv, TreeInv, ChildLinks
<1> QED
  BY <1>1, Invariance, PTL

\* processTreeStr() reads live processes only.
THEOREM WalkStaysLive == Spec => []WalkLive
<1>1. IInv => WalkLive
  BY DEF IInv, WalkPath, TreeInv, ChildLinks, WalkLive, TypeOK
<1> QED
  BY <1>1, Invariance, PTL

\* destroy() never finds grand children (Processing.cpp:517).
THEOREM DeletedBottomUp == Spec => []BottomUp
<1>1. IInv => BottomUp
  <2> SUFFICES ASSUME IInv, NEW p \in Procs, NEW c \in Procs,
                      mem[p] = "deleted", parent[c] = p
               PROVE  mem[c] = "deleted"
    BY DEF BottomUp
  <2>1. c # Root /\ mem[c] # "unborn"
    BY ProcessingAssumption DEF IInv, RootAtTop, TreeInv, Unborn
  <2>2. children[p] = {} /\ pc[p] = "idle"
    BY DEF IInv, TreeInv, NotLive
  <2>3. mem[c] # "live"
    BY <2>1, <2>2 DEF IInv, TreeInv, ParentLinks
  <2> QED BY <2>1, <2>3 DEF IInv, TypeOK
<1> QED
  BY <1>1, Invariance, PTL

\* When the main loop of main.cpp is left, every process below the root has
\* been destroyed and every thread has ended.
THEOREM TreeIsGone == Spec => []TreeGone
<1>1. IInv => TreeGone
  BY OnlyRoot DEF IInv, TreeInv, NotLive, TreeGone
<1> QED
  BY <1>1, Invariance, PTL

-----------------------------------------------------------------------------
(***************************************************************************)
(* What a step of the tree is for the flags, the states and the lives of     *)
(* the processes.  Every action is one of seven kinds; the action             *)
(* properties and the refinement below only look at the kind.                 *)
(***************************************************************************)

\* Nothing but a driver flag or the entry into initialize().
Quiet ==
    /\ UNCHANGED <<mem, st, statParent, parent, latch>>
    /\ \A q \in Procs : /\ statDrv[q] \subseteq statDrv'[q]
                        /\ opened'[q] => opened[q] \/ st[q] = "Initializing"

\* The treeTick() of p returns with state s.
Moves(p, s) ==
    /\ UNCHANGED <<mem, statParent, parent, latch, opened>>
    /\ mem[p] = "live" /\ st' = [st EXCEPT ![p] = s]
    /\ s # "Existent"
    /\ s = "Finished" => st[p] \in {"FinishedPrepare", "Finished"}
    /\ st[p] = "Finished" => s = "Finished"
    /\ s \in PastShutdown =>
           st[p] \in PastShutdown \cup {"Existent"} \/ "ShutdownDone" \in statDrv'[p]
    /\ \A q \in Procs : statDrv[q] \subseteq statDrv'[q]

\* `mStatParent |= flags' of c begins in the frame of p.
Loads(p, c, flags) ==
    /\ UNCHANGED <<mem, st, statParent, statDrv, parent, opened>>
    /\ StatLoad(p, c, flags)
    /\ flags = UnusedFlags \/ ~RepelledWhenFinished(c)
    /\ c = p => flags = UnusedFlags /\ RepelledWhenFinished(c)

\* p creates c.
Spawns(p, c) ==
    /\ UNCHANGED <<st, statParent, latch, opened>>
    /\ \A q \in Procs : statDrv[q] \subseteq statDrv'[q]
    /\ mem[p] = "live" /\ st[p] # "Finished"
    /\ mem[c] = "unborn" /\ mem' = [mem EXCEPT ![c] = "live"]
    /\ parent' = [parent EXCEPT ![c] = p]

\* c is destroyed, and nobody has a store to its flags outstanding.
Destroys(c) ==
    /\ UNCHANGED <<parent, latch>>
    /\ mem[c] = "live" /\ st[c] = "Finished" /\ Delete(c)
    /\ \A q \in Procs : latch[q] # NoLatch => latch[q].on # c
    /\ c = Root \/ "Unused" \in statParent[c]
    /\ \A q \in Procs : parent[q] = c => mem[q] = "deleted"

\* Nobody is the child of itself.
LEMMA NotOwnParent ==
    ASSUME IInv, NEW c \in Procs, mem[c] = "live"
    PROVE  parent[c] # c
<1>1. CASE c = Root
  BY <1>1, ProcessingAssumption DEF IInv, RootAtTop
<1>2. CASE c # Root
  <2>1. {c} \in SUBSET {q \in Procs \ {Root} : mem[q] = "live"}
    BY <1>2
  <2> QED BY <2>1 DEF IInv, Acyclic
<1> QED BY <1>1, <1>2

\* A process with nothing in its list and no frame has no live child; one
\* that was never created has no parent.
LEMMA NoChildLeft ==
    ASSUME IInv, NEW c \in Procs, children[c] = {}, pc[c] = "idle",
           NEW q \in Procs, parent[q] = c
    PROVE  mem[q] = "deleted"
<1>1. mem[q] # "unborn" /\ q # Root
  BY ProcessingAssumption DEF IInv, TreeInv, Unborn, RootAtTop
<1>2. mem[q] # "live"
  BY <1>1 DEF IInv, TreeInv, ParentLinks
<1> QED BY <1>1, <1>2 DEF IInv, TypeOK

\* Where treeTick() is left, and with which state.
LEMMA TickMoves ==
    ASSUME IInv, NEW p \in Procs,
           TickExistent(p) \/ TickCanceled(p) \/ MarkEnd(p) \/ Finish(p)
             \/ TickFinished(p) \/ CallPending(p) \/ Complete(p) \/ WalkEnd(p)
    PROVE  \E s \in ProcessState : Moves(p, s)
<1> USE ProcessingAssumption DEF IInv
<1>1. mem[p] = "live" /\ st[p] \in ProcessState
  <2>1. pc[p] # "idle"
    BY DEF TickExistent, TickCanceled, MarkEnd, Finish, TickFinished,
           CallPending, Complete, InitializeDone, ProcessDone, ShutdownDone,
           WalkEnd, WalkPath, TypeOK
  <2> QED BY <2>1 DEF TreeInv, NotLive, TypeOK
<1>2. ASSUME NEW s, NEW drv, Leave(p, s, drv), statDrv[p] \subseteq drv
      PROVE  /\ st' = [st EXCEPT ![p] = s] /\ drv \subseteq statDrv'[p]
             /\ \A q \in Procs : statDrv[q] \subseteq statDrv'[q]
  BY <1>2 DEF Leave, TypeOK
<1>3. CASE TickExistent(p)
  BY <1>1, <1>2, <1>3
     DEF TickExistent, Moves, PastShutdown, CancelTarget, ProcessState
<1>4. CASE TickCanceled(p)
  BY <1>1, <1>2, <1>4
     DEF TickCanceled, Moves, PastShutdown, CancelTarget, ProcessState
<1>5. CASE MarkEnd(p)
  BY <1>1, <1>2, <1>5
     DEF MarkEnd, Moves, PastShutdown, ProcessState, FrameInv, FrameState
<1>6. CASE Finish(p)
  BY <1>1, <1>2, <1>6
     DEF Finish, Moves, PastShutdown, ProcessState, FrameInv, FrameState
<1>7. CASE TickFinished(p)
  BY <1>1, <1>2, <1>7 DEF TickFinished, Moves, PastShutdown, ProcessState
<1>8. CASE CallPending(p)
  BY <1>1, <1>2, <1>8
     DEF CallPending, Moves, PastShutdown, FrameInv, FrameState
<1>9. CASE InitializeDone(p)
  BY <1>1, <1>2, <1>9 DEF InitializeDone, Moves, PastShutdown, ProcessState
<1>10. CASE ProcessDone(p)
  BY <1>1, <1>2, <1>10 DEF ProcessDone, Moves, PastShutdown, ProcessState
<1>11. CASE ShutdownDone(p)
  BY <1>1, <1>2, <1>11 DEF ShutdownDone, Moves, PastShutdown, ProcessState
<1>12. CASE WalkEnd(p)
  <2>1. st[p] \in {"Initializing", "Processing", "DownShutting"}
    BY <1>12 DEF WalkEnd, WalkPath, FrameInv, FrameState, TypeOK
  <2> QED BY <1>1, <1>2, <1>12, <2>1 DEF WalkEnd, Moves, PastShutdown
<1> QED
  BY <1>3, <1>4, <1>5, <1>6, <1>7, <1>8, <1>9, <1>10, <1>11, <1>12
     DEF Complete

\* Which updates of mStatParent begin: a child that is still held has not
\* been handed over with whenFinishedRepel().
LEMMA FrameLoads ==
    ASSUME IInv, NEW p \in Procs,
           StartAdd(p) \/ MarkChild(p) \/ Cancel(p) \/ Repel(p)
             \/ RepelUnused(p) \/ WhenFinishedRepel(p)
    PROVE  \E c \in Procs, flags \in SUBSET ParentFlag : Loads(p, c, flags)
<1> USE ProcessingAssumption DEF IInv, UnusedFlags, ParentFlag
<1>1. ASSUME NEW c \in ref[p], pc[p] = "call"
      PROVE  c \in children[p] /\ ~RepelledWhenFinished(c)
  BY <1>1 DEF FrameInv, FrameState, PointerInv, RefInList, RefHeld, Working,
              Released, RepelledWhenFinished
<1>2. ASSUME NEW c \in children[p] PROVE c \in Procs /\ c # p
  BY <1>2, NotOwnParent DEF TypeOK, TreeInv, ChildLinks
<1>3. CASE StartAdd(p)
  <2>1. cur[p] \in Procs /\ cur[p] # p /\ statParent[cur[p]] = {}
    BY <1>3, NotOwnParent
       DEF StartAdd, FrameInv, CurOutside, PointerInv, NewChild
  <2> QED BY <1>3, <2>1 DEF StartAdd, Loads, RepelledWhenFinished
<1>4. CASE MarkChild(p)
  BY <1>4, <1>2 DEF MarkChild, Loads, FrameInv, TodoInList
<1>5. CASE Cancel(p)
  BY <1>5, <1>1, <1>2 DEF Cancel, Loads
<1>6. CASE Repel(p)
  BY <1>6, <1>1, <1>2 DEF Repel, Loads
<1>7. CASE RepelUnused(p)
  BY <1>7, <1>2 DEF RepelUnused, Loads, FrameInv, CurInList
<1>8. CASE WhenFinishedRepel(p)
  BY <1>8, <1>1, <1>2 DEF WhenFinishedRepel, Loads
<1> QED BY <1>3, <1>4, <1>5, <1>6, <1>7, <1>8

\* What is destroyed has finished, is released and has nothing below it.
LEMMA ChildDestroys ==
    ASSUME IInv, NEW p \in Procs, ChildDestroy(p)
    PROVE  \E c \in Procs : Destroys(c)
<1> USE ProcessingAssumption DEF IInv
<1> DEFINE c == cur[p]
<1>1. /\ c \in Procs /\ mem[c] = "live" /\ parent[c] = p
      /\ c \notin children[p]
      /\ "Undriven" \in statDrv[c] /\ "Unused" \in statParent[c]
  BY DEF ChildDestroy, FrameInv, CurOutside, EndInv, RemovedIsUndriven
<1>2. /\ st[c] = "Finished" /\ children[c] = {} /\ pc[c] = "idle"
      /\ latch[c] = NoLatch
  BY <1>1 DEF EndInv, UndrivenIsFinal
<1>3. \A q \in Procs : latch[q] # NoLatch => latch[q].on # c
  BY <1>1, <1>2 DEF EndInv, LatchInList, TreeInv, ChildLinks
<1>4. \A q \in Procs : parent[q] = c => mem[q] = "deleted"
  BY <1>1, <1>2, NoChildLeft
<1> QED BY <1>1, <1>2, <1>3, <1>4 DEF ChildDestroy, Destroys

\* The root is deleted: one case of Destroys.
LEMMA RootDestroys ==
    ASSUME IInv, RootDestroy
    PROVE  Destroys(Root)
<1> USE ProcessingAssumption DEF IInv
<1>1. /\ st[Root] = "Finished" /\ children[Root] = {} /\ pc[Root] = "idle"
      /\ latch[Root] = NoLatch
  BY DEF RootDestroy, EndInv, ExitedIsFinal
<1>2. \A q \in Procs : latch[q] # NoLatch => latch[q].on # Root
  BY <1>1 DEF EndInv, LatchInList, TreeInv, ChildLinks, RootAtTop
<1>3. \A q \in Procs : parent[q] = Root => mem[q] = "deleted"
  BY <1>1, NoChildLeft
<1> QED BY <1>1, <1>2, <1>3 DEF RootDestroy, Destroys

\* A virtual function creates children, and only of a process at work.
LEMMA StartSpawns ==
    ASSUME IInv, NEW p \in Procs, StartDriver(p)
    PROVE  \E c \in Procs : Spawns(p, c)
<1>1. PICK s \in Starts : /\ mem[s[2]] = "unborn"
                          /\ mem' = [mem EXCEPT ![s[2]] = "live"]
                          /\ parent' = [parent EXCEPT ![s[2]] = p]
                          /\ \E flags \in DisplayFlags :
                               statDrv' = [statDrv EXCEPT ![s[2]] = flags]
  BY DEF StartDriver
<1>2. s[2] \in Procs
  BY ProcessingAssumption
<1>3. mem[p] = "live" /\ st[p] # "Finished"
  BY DEF StartDriver, IInv, TreeInv, NotLive, FrameInv, FrameState
<1>4. \A q \in Procs : statDrv[q] \subseteq statDrv'[q]
  BY <1>1, <1>2 DEF IInv, TypeOK, TreeInv, Unborn
<1> QED BY <1>1, <1>2, <1>3, <1>4 DEF StartDriver, Spawns

\* Every step is of one of the seven kinds.
LEMMA KindOfStep ==
    ASSUME IInv, [Next]_vars
    PROVE  \/ Quiet
           \/ \E p \in Procs, s \in ProcessState : Moves(p, s)
           \/ \E p, c \in Procs, flags \in SUBSET ParentFlag : Loads(p, c, flags)
           \/ \E p \in Procs : StatStore(p)
           \/ \E p, c \in Procs : Spawns(p, c)
           \/ \E c \in Procs : Destroys(c)
           \/ Signal
<1>1. CASE UNCHANGED vars
  BY <1>1 DEF vars, Quiet
<1>2. ASSUME NEW p \in Procs, Drive(p) PROVE Quiet
  BY <1>2 DEF Drive, TickBegin, LoopBreak, ThreadExit, Quiet, IInv, TypeOK
<1>3. ASSUME NEW p \in Procs, ChildTick(p) \/ ChildSkip(p) \/ ChildErase(p)
      PROVE  Quiet
  BY <1>3 DEF ChildTick, ChildSkip, ChildErase, Quiet
<1>4. ASSUME NEW p \in Procs, TickCall(p) \/ TickMark(p) PROVE Quiet
  BY <1>4 DEF TickCall, TickMark, Quiet, IInv, TypeOK
<1>5. ASSUME NEW p \in Procs, TickFinish(p)
      PROVE  Quiet \/ \E flags \in SUBSET ParentFlag : Loads(p, p, flags)
  <2>1. UnusedFlags \in SUBSET ParentFlag
    BY DEF UnusedFlags, ParentFlag
  <2> QED BY <1>5, <2>1 DEF TickFinish, Quiet, Loads
<1>6. ASSUME NEW p \in Procs, WalkBegin(p) PROVE Quiet
  BY <1>6 DEF WalkBegin, Quiet
<1>7. CASE WalkDown \/ WalkSkip \/ WalkUp \/ Closed
  BY <1>7 DEF WalkDown, WalkSkip, WalkUp, Closed, vars, Quiet
<1>8. ASSUME NEW p \in Procs, Switch(p)
      PROVE  \/ Quiet \/ \E s \in ProcessState : Moves(p, s)
             \/ \E c \in Procs, flags \in SUBSET ParentFlag : Loads(p, c, flags)
  BY <1>4, <1>5, <1>8, TickMoves, FrameLoads DEF Switch
<1>9. ASSUME NEW p \in Procs, User(p)
      PROVE  \/ Quiet \/ \E s \in ProcessState : Moves(p, s)
             \/ \E c \in Procs, flags \in SUBSET ParentFlag : Loads(p, c, flags)
             \/ \E c \in Procs : Spawns(p, c)
  BY <1>6, <1>9, TickMoves, FrameLoads, StartSpawns DEF User
<1>10. ASSUME NEW p \in Procs, Visit(p)
       PROVE  Quiet \/ \E c \in Procs : Destroys(c)
  BY <1>3, <1>10, ChildDestroys DEF Visit
<1>11. CASE RootDestroy
  BY <1>11, RootDestroys, ProcessingAssumption
<1> QED
  BY <1>1, <1>2, <1>7, <1>8, <1>9, <1>10, <1>11 DEF Next

-----------------------------------------------------------------------------
\* While several stores to one mStatParent are outstanding, one is of the
\* process itself, so that all of them write the same flags.
LEMMA TwoStores ==
    ASSUME IInv, StickyInv, NEW p \in Procs, NEW q \in Procs, p # q,
           latch[p] # NoLatch, latch[q] # NoLatch, latch[p].on = latch[q].on
    PROVE  latch[p].add = UnusedFlags /\ latch[q].add = UnusedFlags
<1> DEFINE c == latch[p].on
<1>1. c = p \/ c = q
  BY DEF IInv, EndInv, LatchInList, TreeInv, ChildLinks
<1>2. RepelledWhenFinished(c)
  BY <1>1 DEF StickyInv, StoreUpToDate
<1> QED BY <1>2 DEF StickyInv, StoreUpToDate

\* The object a store goes to, and the flags it writes.
LEMMA StoreTarget ==
    ASSUME IInv, NEW p \in Procs, latch[p] # NoLatch
    PROVE  /\ latch[p].on \in Procs /\ mem[latch[p].on] = "live"
           /\ latch[p].snap \in SUBSET ParentFlag
           /\ latch[p].add \in SUBSET ParentFlag
<1>1. latch[p] \in Latch
  BY DEF IInv, TypeOK
<1> QED
  BY <1>1, SMTT(30) DEF IInv, EndInv, LatchInList, TreeInv, ChildLinks, NotLive, TypeOK, Latch

\* A store leaves the flags of its object as they are, up to the ones it adds.
LEMMA StoreAdds ==
    ASSUME IInv, StickyInv, NEW p \in Procs, StatStore(p)
    PROVE  LET c == latch[p].on
           IN  /\ c \in Procs /\ mem[c] = "live"
               /\ statParent' = [statParent EXCEPT
                                   ![c] = statParent[c] \cup latch[p].add]
               /\ latch[p].add \in SUBSET ParentFlag
<1> QED BY StoreTarget DEF StatStore, StickyInv, StoreUpToDate

\* Nothing is being stored at first.
LEMMA StickyInit == Init => StickyInv
BY ProcessingAssumption DEF Init, StickyInv, StoreUpToDate, RepelledWhenFinished

\* A pending store knows every flag that has been set meanwhile.
LEMMA StickyNext ==
    ASSUME IInv, StickyInv, [Next]_vars
    PROVE  StickyInv'
<1> USE ProcessingAssumption
<1>1. ASSUME UNCHANGED <<statParent, latch>> PROVE StickyInv'
  BY <1>1 DEF StickyInv, StoreUpToDate, RepelledWhenFinished
<1>2. ASSUME NEW p \in Procs, NEW c \in Procs, NEW flags \in SUBSET ParentFlag,
             Loads(p, c, flags)
      PROVE  StickyInv'
  <2>1. /\ latch'[p].on = c /\ latch'[p].snap = statParent[c]
        /\ latch'[p].add = flags
        /\ \A q \in Procs \ {p} : latch'[q] = latch[q]
    BY <1>2, LatchLoaded DEF Loads, IInv
  <2>2. statParent' = statParent
    BY <1>2 DEF Loads
  <2>3. ASSUME NEW q \in Procs PROVE StoreUpToDate(q)'
    <3>1. CASE q = p
      BY <1>2, <2>1, <2>2, <3>1 DEF Loads, StoreUpToDate, RepelledWhenFinished
    <3>2. CASE q # p
      BY <2>1, <2>2, <3>2 DEF StickyInv, StoreUpToDate, RepelledWhenFinished
    <3> QED BY <3>1, <3>2
  <2> QED BY <2>2, <2>3 DEF StickyInv, RepelledWhenFinished
<1>3. ASSUME NEW p \in Procs, StatStore(p) PROVE StickyInv'
  <2> DEFINE c == latch[p].on
  <2>1. /\ c \in Procs /\ latch[p] # NoLatch
        /\ statParent' = [statParent EXCEPT ![c] = statParent[c] \cup latch[p].add]
        /\ latch' = [latch EXCEPT ![p] = NoLatch]
    BY <1>3, StoreAdds DEF StatStore
  <2> HIDE DEF c
  <2>2. /\ statParent'[c] = statParent[c] \cup latch[p].add
        /\ \A q \in Procs : q # c => statParent'[q] = statParent[q]
        /\ latch'[p] = NoLatch
        /\ \A q \in Procs : q # p => latch'[q] = latch[q]
    BY <2>1 DEF IInv, TypeOK
  <2>3. ASSUME NEW q \in Procs PROVE StoreUpToDate(q)'
    <3>1. CASE latch'[q] = NoLatch
      BY <3>1 DEF StoreUpToDate
    <3>2. CASE latch'[q] # NoLatch
      <4>1. q # p /\ latch'[q] = latch[q] /\ latch[q].on \in Procs
        BY <2>2, <3>2, StoreTarget
      <4>2. CASE latch[q].on = c
        <5>1. latch[p].add = UnusedFlags /\ latch[q].add = UnusedFlags
          BY <2>1, <3>2, <4>1, <4>2, TwoStores DEF c
        <5>2. statParent'[c] = statParent[c] \cup UnusedFlags
          BY <2>2, <5>1
        <5> QED
          BY <4>1, <4>2, <5>1, <5>2
             DEF StickyInv, StoreUpToDate, RepelledWhenFinished
      <4>3. CASE latch[q].on # c
        BY <2>2, <4>1, <4>3 DEF StickyInv, StoreUpToDate, RepelledWhenFinished
      <4> QED BY <4>2, <4>3
    <3> QED BY <3>1, <3>2
  <2>4. ~RepelledWhenFinished(Root)'
    <3>1. CASE c = Root
      <4>1. p # Root
        BY <2>1, <3>1 DEF StickyInv, StoreUpToDate, c
      <4>2. Root \in children[p]
        BY <2>1, <3>1, <4>1 DEF IInv, EndInv, LatchInList, c
      <4> QED BY <4>2 DEF IInv, TreeInv, ChildLinks, RootAtTop
    <3>2. CASE c # Root
      BY <2>2, <3>2 DEF StickyInv, RepelledWhenFinished
    <3> QED BY <3>1, <3>2
  <2> QED BY <2>3, <2>4 DEF StickyInv
<1>4. ASSUME NEW c \in Procs, Destroys(c) PROVE StickyInv'
  <2>1. /\ statParent'[c] = {} /\ latch' = latch
        /\ \A q \in Procs : q # c => statParent'[q] = statParent[q]
    BY <1>4 DEF Destroys, Delete, IInv, TypeOK
  <2>2. ASSUME NEW q \in Procs PROVE StoreUpToDate(q)'
    BY <1>4, <2>1, StoreTarget
       DEF Destroys, StickyInv, StoreUpToDate, RepelledWhenFinished
  <2> QED BY <2>1, <2>2 DEF StickyInv, RepelledWhenFinished
<1>5. CASE Signal
  <2>1. /\ statParent'[Root] = statParent[Root] \cup UnusedFlags /\ latch' = latch
        /\ \A q \in Procs : q # Root => statParent'[q] = statParent[q]
    BY <1>5 DEF Signal, IInv, TypeOK
  <2>2. ASSUME NEW q \in Procs, latch[q] # NoLatch PROVE latch[q].on # Root
    BY <2>2
       DEF IInv, EndInv, LatchInList, TreeInv, ChildLinks, RootAtTop,
           StickyInv, StoreUpToDate
  <2>3. ASSUME NEW q \in Procs PROVE StoreUpToDate(q)'
    BY <2>1, <2>2, StoreTarget DEF StickyInv, StoreUpToDate, RepelledWhenFinished
  <2> QED BY <2>1, <2>3 DEF StickyInv, RepelledWhenFinished, UnusedFlags
<1> QED
  BY <1>1, <1>2, <1>3, <1>4, <1>5, KindOfStep DEF Quiet, Moves, Spawns

\* A store, or the signal handler, adds flags to one live process.
LEMMA MarkAdds ==
    ASSUME IInv, StickyInv, (\E p \in Procs : StatStore(p)) \/ Signal
    PROVE  /\ UNCHANGED <<mem, st, parent>>
           /\ \E c \in Procs, flags \in SUBSET ParentFlag :
                 /\ mem[c] = "live"
                 /\ statParent' = [statParent EXCEPT ![c] = @ \cup flags]
<1>1. ASSUME NEW p \in Procs, StatStore(p)
      PROVE  \E c \in Procs, flags \in SUBSET ParentFlag :
                 /\ mem[c] = "live"
                 /\ statParent' = [statParent EXCEPT ![c] = @ \cup flags]
  BY <1>1, StoreAdds
<1>2. CASE Signal
  BY <1>2, ProcessingAssumption DEF Signal, UnusedFlags, ParentFlag
<1>3. UNCHANGED <<mem, st, parent>>
  BY DEF StatStore, Signal
<1> QED
  BY <1>1, <1>2, <1>3

\* No `mStatParent |= flags' undoes another one although a parent and its
\* child both do it without a lock (cancel, unusedSet, whenFinishedUnusedSet
\* and startedSet, Processing.cpp).
THEOREM NoFlagIsLost == Spec => FlagsSticky
<1>1. Init => IInv /\ StickyInv
  BY InitIInv, StickyInit
<1>2. ASSUME IInv, StickyInv, [Next]_vars PROVE IInv' /\ StickyInv'
  BY <1>2, NextInv, StickyNext
<1>3. ASSUME IInv, StickyInv, [Next]_vars, NEW p \in Procs, mem'[p] = "live"
      PROVE  statParent[p] \subseteq statParent'[p]
  <2>1. ASSUME NEW c \in Procs, Destroys(c)
        PROVE  statParent[p] \subseteq statParent'[p]
    BY <1>3, <2>1 DEF Destroys, Delete, IInv, TypeOK
  <2>2. ASSUME (\E q \in Procs : StatStore(q)) \/ Signal
        PROVE  statParent[p] \subseteq statParent'[p]
    BY <1>3, <2>2, MarkAdds DEF IInv, TypeOK
  <2> QED
    BY <1>3, <2>1, <2>2, KindOfStep DEF Quiet, Moves, Loads, Spawns
<1>4. ASSUME IInv, StickyInv, [Next]_vars
      PROVE  [\A p \in Procs :
                mem'[p] = "live" => statParent[p] \subseteq statParent'[p]]_vars
  BY <1>3, <1>4
<1> QED
  BY <1>1, <1>2, <1>4, PTL DEF Spec, FlagsSticky

-----------------------------------------------------------------------------
\* Nothing has been opened at first.
LEMMA ShutdownInit == Init => AllShutDown
BY DEF Init, AllShutDown, ShutdownInv, PastShutdown

\* What was opened is not deleted before its shutdown() has ended.
LEMMA ShutdownNext ==
    ASSUME IInv, AllShutDown, [Next]_vars
    PROVE  AllShutDown'
<1> USE DEF AllShutDown
<1>1. SUFFICES ASSUME NEW q \in Procs PROVE ShutdownInv(q)'
  OBVIOUS
<1> USE DEF ShutdownInv, PastShutdown
<1>2. CASE Quiet
  BY <1>2 DEF Quiet
<1>3. ASSUME NEW p \in Procs, NEW s \in ProcessState, Moves(p, s)
      PROVE  ShutdownInv(q)'
  BY <1>3 DEF Moves, IInv, TypeOK
<1>4. ASSUME NEW p \in Procs, NEW c \in Procs, Spawns(p, c)
      PROVE  ShutdownInv(q)'
  BY <1>4 DEF Spawns, IInv, TypeOK
<1>5. ASSUME NEW c \in Procs, Destroys(c) PROVE ShutdownInv(q)'
  BY <1>5 DEF Destroys, Delete, IInv, TypeOK
<1> QED
  BY <1>2, <1>3, <1>4, <1>5, KindOfStep DEF Loads, StatStore, Signal

\* destroy() never deletes a process that has run initialize() and not
\* completed shutdown(): not when it is canceled, fails, is repelled or when
\* the signal handler marks the root.
THEOREM ShutDownFirst == Spec => ShutdownBeforeDelete
<1>1. Init => IInv /\ AllShutDown
  BY InitIInv, ShutdownInit
<1>2. ASSUME IInv, AllShutDown, [Next]_vars
      PROVE  IInv' /\ AllShutDown'
  BY <1>2, NextInv, ShutdownNext
<1>3. ASSUME IInv, AllShutDown, [Next]_vars,
             NEW p \in Procs, mem[p] = "live", mem'[p] = "deleted", opened[p]
      PROVE  "ShutdownDone" \in statDrv[p]
  <2>1. \E c \in Procs : Destroys(c)
    BY <1>3, KindOfStep DEF Quiet, Moves, Loads, StatStore, Spawns, Signal, IInv, TypeOK
  <2>2. st[p] = "Finished"
    BY <1>3, <2>1 DEF Destroys, Delete, IInv, TypeOK
  <2> QED BY <1>3, <2>2 DEF AllShutDown, ShutdownInv, PastShutdown
<1>4. ASSUME IInv, AllShutDown, [Next]_vars
      PROVE  [\A p \in Procs : mem[p] = "live" /\ mem'[p] = "deleted" /\ opened[p]
                => "ShutdownDone" \in statDrv[p]]_vars
  BY <1>3, <1>4
<1> QED
  BY <1>1, <1>2, <1>4, PTL DEF Spec, ShutdownBeforeDelete

-----------------------------------------------------------------------------
(***************************************************************************)
(* Processing implements ProcessTree: what an application may rely on holds  *)
(* for every step of every driver.                                          *)
(***************************************************************************)

\* The life of a process before and after a step.
LEMMA LifeIs ==
    ASSUME IInv, IInv', NEW p \in Procs
    PROVE  /\ mem[p] = "unborn" => LifeOf(p) = "unborn"
           /\ mem[p] = "deleted" => LifeOf(p) = "deleted"
           /\ mem[p] = "live" /\ st[p] = "Finished" => LifeOf(p) = "finished"
           /\ mem[p] = "live" /\ st[p] # "Finished" => LifeOf(p) = "working"
           /\ mem'[p] = "unborn" => LifeOf(p)' = "unborn"
           /\ mem'[p] = "deleted" => LifeOf(p)' = "deleted"
           /\ mem'[p] = "live" /\ st'[p] = "Finished" => LifeOf(p)' = "finished"
           /\ mem'[p] = "live" /\ st'[p] # "Finished" => LifeOf(p)' = "working"
BY DEF LifeOf, IInv, TypeOK

\* The first states of the tree are those of ProcessTree.
LEMMA TreeInitially == Init => Tree!TreeInit
<1> SUFFICES ASSUME Init PROVE Tree!TreeInit
  OBVIOUS
<1> USE ProcessingAssumption
<1>1. \A p \in Procs : LifeOf(p) = IF p = Root THEN "working" ELSE "unborn"
  BY DEF Init, LifeOf
<1>2. [p \in Procs |-> LifeOf(p)]
        = [p \in Procs |-> IF p = Root THEN "working" ELSE "unborn"]
  BY <1>1
<1>3. \A p \in Procs : ~(mem[p] = "deleted" \/ "Unused" \in statParent[p])
  BY DEF Init
<1>4. [p \in Procs |-> mem[p] = "deleted" \/ "Unused" \in statParent[p]]
        = [p \in Procs |-> FALSE]
  BY <1>3
<1> QED BY <1>2, <1>4 DEF Tree!TreeInit, Init

\* Every step of the tree is one of ProcessTree, or a stutter.
LEMMA TreeStep ==
    ASSUME IInv, IInv', StickyInv, AllShutDown, [Next]_vars
    PROVE  [Tree!TreeNext]_(Tree!treeVars)
<1> USE ProcessingAssumption
<1> DEFINE life == [p \in Procs |-> LifeOf(p)]
           released == [p \in Procs |->
                          mem[p] = "deleted" \/ "Unused" \in statParent[p]]
<1>1. ASSUME UNCHANGED <<mem, st, statParent, parent>>
      PROVE  UNCHANGED Tree!treeVars
  BY <1>1 DEF Tree!treeVars, LifeOf
<1>2. ASSUME NEW p \in Procs, NEW s \in ProcessState, Moves(p, s)
      PROVE  Tree!FinishWork(p) \/ UNCHANGED Tree!treeVars
  <2>1. /\ UNCHANGED <<mem, statParent, parent>> /\ mem[p] = "live"
        /\ st'[p] = s /\ \A q \in Procs \ {p} : st'[q] = st[q]
    BY <1>2 DEF Moves, IInv, TypeOK
  <2>2. released' = released
    BY <2>1
  <2>3. \A q \in Procs \ {p} : LifeOf(q)' = LifeOf(q)
    BY <2>1 DEF LifeOf
  <2>4. CASE st[p] # "Finished" /\ s = "Finished"
    <3>1. LifeOf(p) = "working" /\ LifeOf(p)' = "finished"
      BY <2>1, <2>4, LifeIs
    <3>2. life' = [life EXCEPT ![p] = "finished"]
      BY <2>3, <3>1
    <3> QED BY <2>1, <2>2, <3>1, <3>2 DEF Tree!FinishWork
  <2>5. CASE ~(st[p] # "Finished" /\ s = "Finished")
    <3>1. LifeOf(p)' = LifeOf(p)
      BY <1>2, <2>1, <2>5, LifeIs DEF Moves
    <3>2. life' = life
      BY <2>3, <3>1
    <3> QED BY <2>1, <2>2, <3>2 DEF Tree!treeVars
  <2> QED BY <2>4, <2>5
<1>3. ASSUME (\E p \in Procs : StatStore(p)) \/ Signal
      PROVE  (\E p \in Procs : Tree!Release(p)) \/ UNCHANGED Tree!treeVars
  <2>1. UNCHANGED <<mem, st, parent>>
    BY <1>3, MarkAdds
  <2>2. PICK c \in Procs, flags \in SUBSET ParentFlag :
           /\ mem[c] = "live"
           /\ statParent' = [statParent EXCEPT ![c] = @ \cup flags]
    BY <1>3, MarkAdds
  <2>3. life' = life
    BY <2>1 DEF LifeOf
  <2>4. /\ statParent'[c] = statParent[c] \cup flags
        /\ \A q \in Procs \ {c} : statParent'[q] = statParent[q]
    BY <2>2 DEF IInv, TypeOK
  <2>5. CASE "Unused" \in flags
    <3>1. released' = [released EXCEPT ![c] = TRUE]
      BY <2>1, <2>4, <2>5
    <3>2. LifeOf(c) \in {"working", "finished"}
      BY <2>2, LifeIs
    <3> QED BY <2>1, <2>3, <3>1, <3>2 DEF Tree!Release
  <2>6. CASE "Unused" \notin flags
    <3>1. released' = released
      BY <2>1, <2>4, <2>6
    <3> QED BY <2>1, <2>3, <3>1 DEF Tree!treeVars
  <2> QED BY <2>5, <2>6
<1>4. ASSUME NEW p \in Procs, NEW c \in Procs, Spawns(p, c)
      PROVE  Tree!Spawn(p, c)
  <2>1. /\ mem[p] = "live" /\ st[p] # "Finished" /\ mem[c] = "unborn"
        /\ mem'[c] = "live" /\ st'[c] = "Existent" /\ st' = st
        /\ statParent' = statParent
        /\ \A q \in Procs \ {c} : mem'[q] = mem[q]
        /\ parent' = [parent EXCEPT ![c] = p]
    BY <1>4 DEF Spawns, AllShutDown, ShutdownInv, IInv, TypeOK
  <2>2. LifeOf(p) = "working" /\ LifeOf(c) = "unborn" /\ LifeOf(c)' = "working"
    BY <2>1, LifeIs
  <2>3. \A q \in Procs \ {c} : LifeOf(q)' = LifeOf(q)
    BY <2>1 DEF LifeOf
  <2>4. life' = [life EXCEPT ![c] = "working"]
    BY <2>2, <2>3
  <2>5. released' = released
    BY <2>1
  <2> QED BY <2>1, <2>2, <2>4, <2>5 DEF Tree!Spawn
<1>5. ASSUME NEW c \in Procs, Destroys(c) PROVE Tree!Delete(c)
  <2>1. /\ mem[c] = "live" /\ st[c] = "Finished" /\ mem'[c] = "deleted"
        /\ c = Root \/ "Unused" \in statParent[c]
        /\ \A q \in Procs : parent[q] = c => mem[q] = "deleted"
        /\ \A q \in Procs \ {c} : /\ mem'[q] = mem[q] /\ st'[q] = st[q]
                                  /\ statParent'[q] = statParent[q]
        /\ UNCHANGED parent
    BY <1>5 DEF Destroys, Delete, IInv, TypeOK
  <2>2. LifeOf(c) = "finished" /\ LifeOf(c)' = "deleted"
    BY <2>1, LifeIs
  <2>3. \A q \in Procs \ {c} : LifeOf(q)' = LifeOf(q)
    BY <2>1 DEF LifeOf
  <2>4. life' = [life EXCEPT ![c] = "deleted"]
    BY <2>2, <2>3
  <2>5. released' = [released EXCEPT ![c] = TRUE]
    BY <2>1
  <2>6. \A q \in Procs : parent[q] = c => LifeOf(q) = "deleted"
    BY <2>1, LifeIs
  <2> QED BY <2>1, <2>2, <2>4, <2>5, <2>6 DEF Tree!Delete
<1> QED
  BY <1>1, <1>2, <1>3, <1>4, <1>5, KindOfStep
     DEF Tree!TreeNext, Quiet, Loads

\* Only a process at work creates children, a child is not destroyed before
\* it is released and has finished, and a process not before everything below
\* it: treeTick(), the drivers and destroy() keep that for every interleaving.
THEOREM TreeKeepsPromises == Spec => KeepsPromises
<1>1. Init => IInv /\ StickyInv /\ AllShutDown /\ Tree!TreeInit
  BY InitIInv, StickyInit, ShutdownInit, TreeInitially
<1>2. ASSUME IInv, StickyInv, AllShutDown, [Next]_vars
      PROVE  /\ IInv' /\ StickyInv' /\ AllShutDown'
             /\ [Tree!TreeNext]_(Tree!treeVars)
  BY <1>2, NextInv, StickyNext, ShutdownNext, TreeStep
<1> QED
  BY <1>1, <1>2, PTL DEF Spec, KeepsPromises, Tree!TreeSpec
=============================================================================
