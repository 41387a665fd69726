----------------------------- MODULE PipeStream -----------------------------
(***************************************************************************)
(* What a tree of pipes promises to the readers at its leaves: every       *)
(* reader gets the particles of the source in their order, without a gap   *)
(* and without a repetition, and is told of the end only when nothing is   *)
(* missing.                                                                *)
(*                                                                         *)
(* Particles are numbered in the order in which the source accepts them.   *)
(* Readers in MayLose hang below a pipe that does not wait for full        *)
(* children: they may miss particles, and nothing else.                    *)
(***************************************************************************)
EXTENDS Integers, Sequences

CONSTANTS Readers, MayLose

VARIABLES
    produced,   \* how many particles the source has accepted
    closed,     \* the source accepts no more
    got,        \* per reader: the particles it has got
    told,       \* per reader: it has been told that nothing follows
    quit        \* readers that a receiver on their way has cut off

vars == <<produced, closed, got, told, quit>>

LastGot(r) == IF got[r] = <<>> THEN 0 ELSE got[r][Len(got[r])]

Init ==
    /\ produced = 0
    /\ closed = FALSE
    /\ got = [r \in Readers |-> <<>>]
    /\ told = [r \in Readers |-> FALSE]
    /\ quit = {}

Produce ==
    /\ ~closed
    /\ produced' = produced + 1
    /\ UNCHANGED <<closed, got, told, quit>>

Close ==
    /\ closed' = TRUE
    /\ UNCHANGED <<produced, got, told, quit>>

Quit(S) ==
    /\ quit' = quit \union S
    /\ UNCHANGED <<produced, closed, got, told>>

Deliver(r) ==
    /\ ~told[r]
    /\ \E n \in LastGot(r) + 1 .. produced :
          /\ r \in MayLose \/ n = LastGot(r) + 1
          /\ got' = [got EXCEPT ![r] = Append(@, n)]
    /\ UNCHANGED <<produced, closed, told, quit>>

Tell(r) ==
    /\ closed
    /\ r \in MayLose \union quit \/ LastGot(r) = produced
    /\ told' = [told EXCEPT ![r] = TRUE]
    /\ UNCHANGED <<produced, closed, got, quit>>

Next ==
    \/ Produce
    \/ Close
    \/ \E S \in SUBSET Readers : Quit(S)
    \/ \E r \in Readers : Deliver(r) \/ Tell(r)

Spec == Init /\ [][Next]_vars
=============================================================================
