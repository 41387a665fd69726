---------------------------- MODULE ProcessTree ----------------------------
(***************************************************************************)
(* What the process tree promises to the application, whatever threads      *)
(* drive it: only a working process spawns children, a child that nobody    *)
(* has released is not deleted, and a process is deleted after it has       *)
(* finished and after everything below it has been deleted.                 *)
(***************************************************************************)
CONSTANTS Procs, Root, NoProc

VARIABLES life, released, parent
treeVars == <<life, released, parent>>

TreeInit ==
    /\ life = [p \in Procs |-> IF p = Root THEN "working" ELSE "unborn"]
    /\ released = [p \in Procs |-> FALSE]
    /\ parent = [p \in Procs |-> NoProc]

\* p creates and starts c.
Spawn(p, c) ==
    /\ life[p] = "working" /\ life[c] = "unborn"
    /\ life' = [life EXCEPT ![c] = "working"]
    /\ parent' = [parent EXCEPT ![c] = p]
    /\ UNCHANGED released

\* The parent, or p itself on behalf of its parent, gives p up.
Release(p) ==
    /\ life[p] \in {"working", "finished"}
    /\ released' = [released EXCEPT ![p] = TRUE]
    /\ UNCHANGED <<life, parent>>

FinishWork(p) ==
    /\ life[p] = "working"
    /\ life' = [life EXCEPT ![p] = "finished"]
    /\ UNCHANGED <<released, parent>>

\* main() destroys the root without having released it.
Delete(p) ==
    /\ life[p] = "finished"
    /\ released[p] \/ p = Root
    /\ \A c \in Procs : parent[c] = p => life[c] = "deleted"
    /\ life' = [life EXCEPT ![p] = "deleted"]
    /\ released' = [released EXCEPT ![p] = TRUE]
    /\ UNCHANGED parent

TreeNext ==
    \/ \E p, c \in Procs : Spawn(p, c)
    \/ \E p \in Procs : Release(p) \/ FinishWork(p) \/ Delete(p)

TreeSpec == TreeInit /\ [][TreeNext]_treeVars
=============================================================================
