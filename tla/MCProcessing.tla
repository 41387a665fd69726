---------------------------- MODULE MCProcessing ----------------------------
(***************************************************************************)
(* Instances of the process tree for TLC: the application a bounded program  *)
(* builds is given by the calls of start() it contains.                     *)
(***************************************************************************)
EXTENDS ProcessingInv

CONSTANTS r, a, b

\* One child below the root, whoever drives it.
AnyDriver == {r} \X {a} \X DriverMode

\* One child with a thread of its own.
OneThread == {<<r, a, "DrivenByNewInternalDriver">>}

\* A thread below a thread.
NestedThreads == OneThread \cup {<<a, b, "DrivenByNewInternalDriver">>}

=============================================================================
