---------------------------- MODULE MCObjQueues ----------------------------
(***************************************************************************)
(* Small instances of ObjQueues, cut out of configs/modules.cfg: Global    *)
(* publishes an item to the subscribers of Item, of which Phone and        *)
(* Tracker_Term publish tags to the module Tags.                           *)
(***************************************************************************)
EXTENDS ObjQueues

CONSTANTS importer, global, phone, tracker, tags

MCModules == {"Global", "Phone", "Tracker_Term", "Tags"}
MCQueueNames == {"SaveObj", "Item", "Tags"}
MCModuleOf ==
    [w \in {global, phone, tracker, tags} |->
        CASE w = global  -> "Global"
          [] w = phone   -> "Phone"
          [] w = tracker -> "Tracker_Term"
          [] w = tags    -> "Tags"]
MCSubscribers ==
    [q \in MCQueueNames |->
        CASE q = "SaveObj" -> {"Global"}
          [] q = "Item"    -> {"Phone", "Tracker_Term"}
          [] q = "Tags"    -> {"Tags"}]
MCPublish ==
    [p \in {importer, global, phone, tracker, tags} |->
        CASE p = importer -> {"SaveObj"}
          [] p = global   -> {"Item"}
          [] p = tags     -> {}
          [] OTHER        -> {"Tags"}]

\* Without Global, and with one Item module: the importer publishes to it.
One == [p \in {importer, phone, tags} |->
          CASE p = importer -> {"Item"} [] p = phone -> {"Tags"} [] p = tags -> {}]
OneModuleOf == [w \in {phone, tags} |-> MCModuleOf[w]]
OneModules == {"Phone", "Tags"}
OneQueueNames == {"Item", "Tags"}
OneSubscribers == [q \in OneQueueNames |-> {IF q = "Item" THEN "Phone" ELSE "Tags"}]
=============================================================================
