------------------------------- MODULE Ticking -------------------------------
(***************************************************************************)
(* treeTick() of processes that are driven by their parent, for modules    *)
(* that follow several of them tick by tick. Processing has the whole tree *)
(* with every driver.                                                      *)
(***************************************************************************)

Lives == {"none", "Existent", "Initializing", "Processing", "DownShutting",
          "ChildrenUnusedSet", "FinishedPrepare", "Finished", "deleted"}

\* What a tick calls; initialize() does nothing in these processes.
CallsProcess(life, canceled) == life = "Processing" /\ ~ canceled
CallsShutdown(life) == life = "DownShutting"

\* The state after any other tick.
Passed(life, canceled) ==
  CASE life = "Existent" -> IF canceled THEN "FinishedPrepare" ELSE "Initializing"
    [] life = "Initializing" -> IF canceled THEN "DownShutting" ELSE "Processing"
    [] life = "Processing" -> "DownShutting"
    [] life = "ChildrenUnusedSet" -> "FinishedPrepare"
    [] OTHER -> "Finished"

\* The parent removes a child at the end of the visit in which nothing is left of it.
Visited(life, unused, parental) ==
  IF life = "Finished" /\ unused /\ ~ parental THEN "deleted" ELSE life
=============================================================================
