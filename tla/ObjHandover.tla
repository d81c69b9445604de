---------------------------- MODULE ObjHandover ----------------------------
(***************************************************************************)
(* What the tracking of lib/ail_queues.py promises to Sync_module: an      *)
(* object that is being processed stops being processed only by being      *)
(* handed over.  It says nothing of queues, modules and hashes.            *)
(***************************************************************************)
CONSTANT Objs

VARIABLES
    busy,    \* objects some process is working on, or will
    ready    \* objects Sync_module may take

Init == busy = {} /\ ready = {}

\* New data about an object comes in.
Accept(o) == busy' = busy \cup {o} /\ UNCHANGED ready

\* The object is handed over; work on it may go on.
HandOver(o) == ready' = ready \cup {o} /\ UNCHANGED busy

\* The last work on the object ends, and hands it over.
Complete(o) ==
    /\ o \in busy
    /\ busy' = busy \ {o}
    /\ ready' = ready \cup {o}

Take(o) == o \in ready /\ ready' = ready \ {o} /\ UNCHANGED busy

Next == \E o \in Objs : Accept(o) \/ HandOver(o) \/ Complete(o) \/ Take(o)

Spec == Init /\ [][Next]_<<busy, ready>>
=============================================================================
