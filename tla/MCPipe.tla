------------------------------- MODULE MCPipe -------------------------------
(***************************************************************************)
(* Instances of Pipe for TLC.  pa is the source; the threads are named for *)
(* what they do.                                                           *)
(***************************************************************************)
EXTENDS Pipe, TLC

CONSTANTS
    pa, pb, pc, pd, pe,                   \* pipes
    source, pumpA, pumpB, readD, readE  \* threads

Do(name, of) == [op |-> name, of |-> of, on |-> NoPipe]
With(name, of, on) == [op |-> name, of |-> of, on |-> on]

SizeOne == [x \in Pipes |-> 1]

\* pa over pb and pd, pb over pc and pe: readers on two levels.
TreeStream == [x \in Pipes |-> CASE x = pa -> NoPipe
                                 [] x \in {pb, pd} -> pa
                                 [] OTHER -> pb]
TreePair == [x \in Pipes |-> IF x = pb THEN pa ELSE NoPipe]

\* Two threads push the source, one of them also the pipe below it; the
\* reader of pd may cut itself off.
CallsStream ==
    (source :> {Do("commit", pa), Do("sourceDoneSet", pa)})
    @@ (pumpA :> {Do("toPushTry", pa)})
    @@ (pumpB :> {Do("toPushTry", pa), Do("toPushTry", pb)})
    @@ (readD :> {Do("get", pd), Do("sinkDoneSet", pd)})
    @@ (readE :> {Do("get", pe)})

\* The same pipes with one thread for each.
CallsDeliver == [CallsStream EXCEPT ![pumpB] = {Do("toPushTry", pb)}]

\* pa over pb, and two owners who connect pc to one of them. Each thread
\* destroys pipes of its own: pa and pc, pb, and pd, which is below pa at
\* times.
CallsConnect ==
    (source :> {Do("commit", pa), Do("sourceDoneSet", pa), With("connect", pa, pc),
                Do("destroy", pa), Do("destroy", pc)})
    @@ (pumpA :> {Do("toPushTry", pa), Do("destroy", pb)})
    @@ (pumpB :> {With("connect", pb, pc), With("connect", pa, pd),
                  With("disconnect", pa, pd), Do("parentDisconnect", pd),
                  Do("destroy", pd)})

\* The owner of the parent and the owner of the child leave each other.
CallsLeave ==
    (pumpA :> {Do("destroy", pa)}) @@ (pumpB :> {Do("parentDisconnect", pb)})
=============================================================================
