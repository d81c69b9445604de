------------------------- MODULE MCCrawlerSchedules -------------------------
(***************************************************************************)
(* Small instances of CrawlerSchedules.                                    *)
(***************************************************************************)
EXTENDS CrawlerSchedules

CONSTANTS s1, s2, s3, r1, r2

\* Two schedules ask for the same page.
TwoAlike == [s \in Scheds |-> IF s = s3 THEN r2 ELSE r1]
=============================================================================
