--------------------------- MODULE MCCrawlerTasks ---------------------------
(***************************************************************************)
(* Small instances of CrawlerTasks.                                        *)
(***************************************************************************)
EXTENDS CrawlerTasks, TLC

CONSTANTS manual, newDomain, discovery, scheduled

\* The priorities of create_task: Flask's tasks, a discovered domain that is new,
\* one that is known (no force), and the tasks of schedules.
MCPrio == [r \in {manual, newDomain, discovery, scheduled} |->
             CASE r = manual    -> 90
               [] r = newDomain -> 10
               [] r = discovery -> 0
               [] r = scheduled -> 40]

\* Uuids are interchangeable: used by the runs that check only invariants.
Symmetry == Permutations(Tasks) \cup Permutations(Captures)
=============================================================================
