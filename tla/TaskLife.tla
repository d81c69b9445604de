------------------------------ MODULE TaskLife ------------------------------
(***************************************************************************)
(* What lib/crawlers.py and crawlers/Crawler.py promise to whoever asks    *)
(* for a URL: the task is opened, waits, is taken by the one Crawler, the  *)
(* most urgent first, is with Lacus at most once, and is closed from the   *)
(* Crawler's hand only.  It says nothing of captures, caches, hashes and   *)
(* of the commands that move the task.                                     *)
(***************************************************************************)
EXTENDS Naturals, FiniteSets

CONSTANTS Tasks, None, Slots

VARIABLES
    open,      \* tasks that were asked for and have not ended
    waiting,   \* the priority of a task that waits, or None
    hand,      \* the task the Crawler holds, or None
    lacus      \* tasks that Lacus is at

life == <<open, waiting, hand, lacus>>

Init == open = {} /\ waiting = [t \in Tasks |-> None] /\ hand = None /\ lacus = {}

\* The task waits, with some priority.
Wait(t) == waiting'[t] \in Nat /\ waiting' = [waiting EXCEPT ![t] = waiting'[t]]

Ask(t) == t \notin open /\ open' = open \cup {t} /\ UNCHANGED <<waiting, hand, lacus>>

\* Whoever asked for the task leaves it to the Crawler.
Submit(t) ==
    /\ t \in open \ lacus /\ waiting[t] = None /\ hand # t
    /\ Wait(t)
    /\ UNCHANGED <<open, hand, lacus>>

Take(t) ==
    /\ hand = None /\ t \in open
    /\ waiting[t] # None
    /\ \A u \in Tasks : waiting[u] # None => waiting[u] <= waiting[t]
    /\ hand' = t /\ waiting' = [waiting EXCEPT ![t] = None]
    /\ UNCHANGED <<open, lacus>>

PutBack(t) == t = hand /\ Wait(t) /\ hand' = None /\ UNCHANGED <<open, lacus>>

Give(t) ==
    /\ t = hand
    /\ Cardinality(lacus) < Slots
    /\ hand' = None /\ lacus' = lacus \cup {t}
    /\ UNCHANGED <<open, waiting>>

\* Lacus failed, or took too long.
Retry(t) == t \in lacus /\ Wait(t) /\ lacus' = lacus \ {t} /\ UNCHANGED <<open, hand>>

\* Lacus is done with the task.
Fetch(t) ==
    /\ t \in lacus /\ hand = None
    /\ hand' = t /\ lacus' = lacus \ {t}
    /\ UNCHANGED <<open, waiting>>

Close(t) ==
    /\ t = hand
    /\ open' = open \ {t} /\ hand' = None
    /\ UNCHANGED <<waiting, lacus>>

Next == \E t \in Tasks :
    \/ Ask(t) \/ Submit(t) \/ Take(t) \/ PutBack(t) \/ Give(t)
    \/ Retry(t) \/ Fetch(t) \/ Close(t)

Spec == Init /\ [][Next]_life
=============================================================================
