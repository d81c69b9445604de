# A TLA+ model of the AIL framework

AIL collects items (pastes, crawled pages, chats), sends each object through a
pipeline of modules that extract data from it, crawls the domains that are found,
and shares results with other AIL instances. It is some fifty processes that know
each other only through Redis and Kvrocks: lists, sets, sorted sets and hashes,
read and written **one command at a time and never in a transaction**. A module,
Flask, the Crawler and Sync_module interleave between any two commands, and each of
them may be killed between any two. That is what these modules are about; what the
modules extract is not.

All paths below are relative to `src/`.

## The system's parts

| Part | State | Operations | Acts with | What makes it correct |
|---|---|---|---|---|
| **Module queues and object tracking** `bin/lib/ail_queues.py`, `bin/modules/abstract_module.py`, `bin/core/Sync_module.py` | lists `queue:<m>:in`; sets `objs:process`, `objs:processed`; zsets `objs:process:<type>`, `obj:queues:<gid>`, `obj:modules:<gid>` | get, send and end a message, rename an object, 48 h sweep, pop of a completed object | every module and importer, Sync_module | an object is handed to Sync_module when its last work ends, never forgotten, never stuck in `objs:process` |
| **Crawler tasks and captures** `bin/lib/crawlers.py`, `bin/crawlers/Crawler.py` | hashes `crawler:task:<t>`, `crawler:queue:hash`, `crawler:captures:tasks`; zsets `crawler:queue`, `crawler:captures` (Kvrocks and cache) | create, start, reset, remove, delete a task; create, update, remove, delete a capture; the polling loop | Flask, Onion, the scheduler, Lacus, another AIL | no task lost, none captured twice, each request free again one day, no task without hash and no capture without task that would end the Crawler, the slots respected |
| **Crawler schedules** `bin/lib/crawlers.py` | hashes `schedule:<s>`, set `scheduler:schedules`, zset `scheduler:queue` | create, queue when the last task ended, process when due, delete | Crawler (which runs it at every loop), Flask | a schedule runs again and again, never twice at a time, and a deleted one leaves nothing that stops the others |
| **AIL synchronisation** `bin/core/ail_2_ail*.py`, `Sync_module.py`, `Sync_manager.py`, `Sync_importer.py` | instances, sync queues and registrations; lists `sync:queue:<mode>:<q>:<ail>` (201 at most), set `sync:queue:importer`; sets of commands for the client manager and for the server; cache of the clients | create, edit, delete an instance or a queue, register, launch and kill clients; filter and add an object; push and pull over a websocket, resend, import | Sync_module, the remote AIL, Flask | an object popped is delivered or queued again; one client per instance, and none that nobody asks for, in whatever order the commands are taken; a change of the configuration is seen |
| **Retro hunts** `bin/trackers/Retro_Hunt.py`, `bin/lib/Tracker.py` | hash `retro_hunt:<h>`, sets `retro_hunts:<state>`, lists of hunts and of matches, pause flag in the cache | create, run, pause, resume, complete, delete | Flask, the hunting module | a completed hunt has looked at every object; a hunt in the queue ends; matches, maps and counter agree |
| **Trackers** `bin/lib/Tracker.py`, `bin/trackers/Tracker_*.py` | hash `tracker:<u>`, a dozen sets by type, term, kind and level; four sets per match; the copy of the terms in each module | create, edit, delete, add and remove a match; refresh and match in a module | Flask, one module per type | a module finds a tracker by what it is and by nothing it was; a tracker is in the list of its level; a module's copy is fresh; the sets of a match agree |
| Timelines `bin/lib/timeline_engine.py` | zset of starts and ends of blocks, hash block -> object | add a timestamp of an object | chat feeders | blocks disjoint, start before end, and cover what was added |
| Regex helper `bin/lib/regex_helper.py` | one cache key per module | run a regex in a child with a time limit | modules | results belong to the item asked for |
| Correlations, objects, tags, investigations, users | records and sets | getters and setters | modules, Flask | data, mostly one command per change |
| Importers, exporters, detection modules, Flask, statistics, retention, installers | little or none | input, output | the parts above | out of scope |

How the modelled parts meet: `send_message` and `get_message` (queues) carry every
object; `end_message` hands a finished object to Sync_module, which is where `AilSync`
begins (`fresh`); Sync_importer gives what arrives to Importers, where `ObjQueues` begins
on the other side. Modules that find a domain create a crawler task; the Crawler's loop
first runs the scheduler (`CrawlerSchedules`), then its captures (`CrawlerTasks`), and the
end of a task is what lets a schedule be queued again. Trackers are modules on the same
queues. A module of this project models one part and keeps of the others what they do at
its border.

`PROJECT.json` lists each of them with its files, and under `hazards` the places
where the code is hard to test, at their lines, with the properties that cover them or
the reason why none does.

## Modules

| Module | What it is |
|---|---|
| `ObjQueues` | the queues and the tracking, one action per Redis command |
| `ObjHandover` | what the tracking promises Sync_module, without queues, modules or hashes |
| `ObjQueuesProofs` | theorems about `ObjQueues` |
| `MCObjQueues` | small instances, cut out of `configs/modules.cfg` |
| `CrawlerTasks` | tasks, captures and the Crawler's loop, one action per Redis command |
| `CrawlerTasksProofs` | theorems about `CrawlerTasks`: records, and what survives a stop |
| `CrawlerPlacesProofs` | theorems about `CrawlerTasks`: where a task is while the Crawler runs |
| `TaskLife` | the life of a task: asked for, waiting, in the Crawler's hand, at Lacus, closed |
| `CrawlerLifeProofs` | theorem that `CrawlerTasks` implements `TaskLife` |
| `MCCrawlerTasks` | its priorities and symmetry |
| `CrawlerSchedules` | the scheduler, around an abstract task |
| `CrawlerSchedulesProofs` | theorems about `CrawlerSchedules` |
| `MCCrawlerSchedules` | two schedules of the same page and one of another |
| `AilSync` | configuration, client manager, push clients, server, Sync_module, Sync_importer |
| `AilSyncProofs` | theorems about `AilSync` |
| `MCAilSync` | its symmetry, for two instances |
| `RetroHunt` | the hunts, Flask's threads and the hunting module, one action per kind of command |
| `RetroHuntProofs` | theorems about `RetroHunt` |
| `MCRetroHunt` | the objects of an AIL of two days |
| `Trackers` | the trackers, Flask and the tracker modules, one action per kind of command |
| `TrackersProofs` | theorems about `Trackers` |
| `MCTrackers` | what a user asks trackers to be |

Definitions named `Mutant...` are not part of the model: each is a definition as a
plausible bug would make it, and `PROJECT.json` says which property it breaks.

### ObjQueues

`get_message` pops a message and *then* tells the tracking (`add_processed_obj`:
object in `objs:process`, entry in `obj:modules`, entry out of `obj:queues`).
`send_message` tells the tracking before it pushes, for each subscriber. `end_message`
removes the module's entry, looks whether either zset still exists, and if not moves
the object from `objs:process` to `objs:processed`, which Sync_module pops. Each of
those commands is an action; `proc[p].pc` names the command that comes next, and the
rest of `proc[p]` are the local variables of `run()`: the object, the hash of its
message, the message being sent and the subscribers still to be served. `sync` is the
same for Sync_module and its sweep (`timeout_processed_objs`).

| Code | Actions |
|---|---|
| `AILQueue.get_message` | `LpopMessage`, `ReceiveSadd`, `ReceiveZaddType`, `ReceiveZaddModule`, `ReceiveZremQueue` |
| `AILQueue.send_message` | `ModuleSend` / `ImporterSend`, `SendSadd`, `SendZaddType`, `SendZaddQueue`, `SendRpush` |
| `end_processed_obj` | `EndMessage`, `ExistsQueues`, `ExistsModules`, `EndZremType`, `EndSremProcess`, `EndSaddProcessed` |
| `timeout_processed_objs` | `GetOld` (time), `StartSweep`, `SweepNext`, `SweepQueues`, `SweepModules`, `SweepZremType`, `SweepSremProcess`, `SweepSaddProcessed` |
| `get_processed_end_obj` | `GetProcessedEndObj` |
| `rename_processed_obj`, as Mixer and Global call it | `RenameObj` |
| a module that is killed | `Crash` |

A message is `[obj, mess]`; the xxh3 hash the code uses for it is the message itself
(equal messages have equal hashes in the code too). Times are abstracted to "older
than 48 hours or not". `owed` is a history variable: the objects a module finished
with since Sync_module last took them.

### CrawlerTasks

Operations are *lists of commands*: `CreateTask`, `CreateCapture`, `TaskRemove` and so
on give the commands in the order of the code, a process puts the list in
`proc[p].todo`, and one action per kind of command (`HsetTask`, `ZaddQueue`,
`HsetDedup`, `HsetCapTask`, `ZaddCaptures`, `ZaddCache`, `RemoveCapture`, `HdelDedup`,
`DeleteTask`) runs the next one. A process takes its next decision once its list is
empty. `proc[Crawler].pc` is the place in `get_message` (`slots`, `pop`, `filter`,
`enqueue`, `push`, `poll`, `status`), `compute`, or `dead`.

| Code | Actions |
|---|---|
| `Crawler.get_message` | `ProcessQueue`, `CheckSlots`, `PopTask`, `FilterPass` / `FilterRefuse` / `FilterError`, `EnqueueCapture` / `EnqueueFails`, `PushDiscovery`, `PollCapture`, `CaptureDone` / `CaptureUpdate` / `CaptureUnknown` / `CaptureTimeout` |
| `Crawler.compute` | `Compute`, or `ComputeFails`: nothing catches an error of `lacus.get_capture` (`Crawler.py:316`) or of the onion filter (`:397`) |
| an uncaught exception, a kill | `Die` inside the actions that raise, `Crash` |
| `Crawler.__init__` | `Restart` (`reload_crawler_captures`) |
| `create_task` from Flask and modules | `ClientCreate` |
| `CrawlerSchedule.delete`, `delete_captures` | `DeleteScheduled`, `DeleteCapture` |

The task hash keeps the four fields that decide anything (domain present, request
hash, start time present, capture). The cache is a sequence, since `update` stores the
time of the check, `zpopmin` takes the oldest, and `get_message` sleeps
`pending_seconds` between checks. Lacus is external: it gives a new uuid, or, without
`force` (priority 0), perhaps the uuid of an earlier capture; it may not answer, and
may answer any status. The onion filter is assumed on; a task it does not concern is
one it lets pass. `create_task` looks the request up in one step and writes in the
following ones, so two processes may each create a task for the same request.

`TaskLife` is what all of this is for, without captures, caches, hashes, requests and lists of
commands. The mapping (at the end of `CrawlerTasks`) is: a task is `open` while it has a domain;
it waits while it has a score in `crawler:queue`; it is with Lacus while a capture of it is in
Kvrocks and it does not wait; and it is in the `hand` of the Crawler that popped or polled it as
long as it is in neither. So the ZADD of `create` is `Submit`, `PopTask` is `Take`, the ZADD of
the capture in Kvrocks is `Give` (the cache follows), the ZREM of a capture that is done is
`Fetch` (`RemoveCapture`), the DEL of its task `Close` (`DeleteTask`), and of a reset only the
ZADD of the task is a step, `Retry`; the commands around them are stutters.

### CrawlerSchedules

The Crawler's `todo` is what it has read of `scheduler:schedules` (`smembers`) or of
the due part of `scheduler:queue`, and stays what it was while Flask creates and deletes.
The zset is a sequence in the order of the scores with `due`, the number of its first
entries whose time has come; `SetNextRun` puts a schedule anywhere behind them, which
stands for every frequency. A task is what its request is mapped to
(`crawler:queue:hash`) and ends in one step, `EndTask`.

| Code | Actions |
|---|---|
| `create_schedule`, `CrawlerSchedule.create` | `CreateSchedule`, then `HsetMeta`, `SaddSchedule` |
| `CrawlerSchedule.delete` | `DeleteSchedule`, then `ZremQueue`, `DeleteTask`, `DelHash`, `SremSchedule` |
| `CrawlerScheduler.update_queue` | `StartUpdate`, `UpdateNext`, `UpdateTasked`, `GetFrequency`, `SetNextRun` |
| `CrawlerScheduler.process_queue` | `StartProcess`, `ProcessNext`, `GetMeta`, `CreateTask`, `SetTask`, `Dequeue` |
| the rest of the Crawler's loop; time | `EndTask`, `Rest`; `Tick(s)` |

`raced` is a history variable: the schedules that `update_queue` queued after their
deletion had begun.

### AilSync

A request of the administrator is one step: it races with what the other processes have
not done yet, not with its own commands. `proc[i]` is a push client with the number `i`
(a screen window and a Python process), `wire[i]` what it sent and the other side has not
received, `sock[a]` the pull client of an instance at our server.

| Code | Actions |
|---|---|
| `api_create_ail_instance`, `api_edit_...`, `api_delete_...` | `CreateInstance`, `EditInstance`, `DeleteInstance` |
| `api_create_sync_queue` and its kin, register, unregister | `CreateQueue`, `EditQueue`, `DeleteQueue`, `Register`, `Unregister` |
| `api_launch_sync_client`, kill, relaunch; kill at the server | `CommandClient`, `KillConnected` |
| `Sync_manager.py`, `AILClientManager` | `PopCommand`, `KillClient`, `LaunchWindow`, `CacheClient` |
| `Sync_module.py` | `SyncPop`, `SyncRefresh`, `SyncFilter`, `SyncAdd`; `Tick` (a second) |
| `ail_2_ail_client.py` | `ClientStart`, `ClientPop`, `ClientSend`, `ClientClosed`, `ClientExit` |
| the other server, `Sync_importer.py` | `ServerReceive`, `Import` |
| `ail_2_ail_server.py` | `PullConnect`, `PullPop`, `PullSend`, `PullClosed`, `Controller` |

`clock` abstracts the comparison of `last_updated_sync_config` (an `int`) with the time of
Sync_module's last refresh (a `float`): a change is seen only if it is in a later second.
`accepted`, `arrived` and `lost` are history: the copies put in a list, those that came
out at the other side, and those that the code gives up knowingly (the oldest of a full
list, what a killed client has in hand, what was on a wire that broke). Three more say where
the code's gaps begin: `raced`, the instances that a request was about while a command of the
same instance was in the set or in the manager's hand; `forced`, those of which a client was
launched by hand although they were disabled or had no queue; `missed`, that a change came in
the second of the last refresh.

### RetroHunt

An operation is the list of the Redis commands that it sends; a process has the list of
those it has still to send, and runs the first. `Objs` is a constant sequence in the order
in which `obj_iterator` walks; a hunt's position is an index into it, and `left` the
objects that the loop has still to see. `delete_objs` reads the matches once (`ReadMatches`),
as one command that carries what was read, and then removes them one by one in a fixed order
(`RemoveMatches`).

| Code | Definitions |
|---|---|
| `RetroHunt._set_state`, `pause`, `resume`, `complete`, `create`, `add`, `remove`, `delete` | `SetState`, `Pause`, `Resume`, `Complete`, `Create`, `Add`, `Remove`, `Delete`: lists of commands |
| the commands | `HsetState`, `HsetLast`, `SaddState`, `SaddLists`, `HsetPause`, `SaddMatch`, `SaddMap`, `HincrMatch`, `ReadMatches`, `RemoveMatches`, `RemoveRule`, `DeleteChecked` |
| `api_create_retro_hunt_task`, pause, resume, delete | `ApiCreate`, `ApiPause`, `ApiResume`, `ApiDelete` |
| `Retro_Hunt.compute`, `yara_rules_match` | `Pop`, `Start`, `Analyse`, `TimesOut` (`yara.TimeoutError` of `rule.match`, which nothing catches), `CheckPause`, `Completed` |
| a stop and a start of AIL | `Stop` |

### Trackers

Built the same way. All the Redis sets are one set `db` of tuples (the head of the module
lists them). `dirty` holds the types whose refresh note is later than what the module
wrote down; a module keeps `copy`, the terms by kind that it read last.

| Code | Definitions |
|---|---|
| `Tracker.create`, `edit`, `delete`, `add`, `remove`, `update_daterange` | `Create`, `Edit`, `Delete`, `AddRest`, `RemoveRest`, `Seen` / `NewRange`: lists of commands |
| a `for` over kinds, days or matches | `Each` (two commands for each), `RemoveAll`: in the order of `SetToSeq`, which stands for any |
| the commands, and those whose answer decides what follows | `SaddSrem`, `HsetField`, `DelHash`, `Trigger`; `AddMatch`, `RemoveMatch`, `ReadMatches`, `UpdateRange` |
| the requests | `ApiAdd`, `ApiEdit`, `ApiDelete`, `ApiAddObject`, `ApiRemoveObject` |
| `Tracker_Regex.compute`, `Tracker_Term.compute` | `Take`, `ReadTerms`, `Stamp`, `Look`, `Found`, `Match` |
| `int(None)` in `update_daterange`, caught by `run()` | `Raises`, `GivesUp` |

`shared`, `overlap`, `raced` and `stray` are history variables that say when the code's known
gaps were hit: a term two trackers had, a change between a module's reading and its time note,
a match added while it was removed, the cells of the database that an edit leaves wrong (the
list of the new level under the old type, after a change of the type; the two entries of
`all:tracker_uuid`, after a change of the term alone). The properties hold everywhere else.

## Runs

| Run | Specification | Shows |
|---|---|---|
| `queues` | `FairSpec` | `TypeOK`, `EntriesJustified`, `NoWorkForgotten`; that `ObjQueues` implements `ObjHandover`; `EventuallySynced`: what a module finished is popped by Sync_module, without any sweep |
| `queues_faults` | `FairFaultSpec` | `EventuallyUntracked`: with crashes and renames, the sweep takes every object of a swept type out of `objs:process` |
| `crawler` | `FairSpec` | `NoTaskLost`, `SlotLimit`, `OneCapture` without kills or deletions; `CrawlerEnds`: the Crawler ends in `compute` only, by an error of Lacus or of the filter, with a capture that the next start finds; `LifeSpec`: `CrawlerTasks` implements `TaskLife`; `TasksEnd`: every task ends and its request is accepted again, or the Crawler has ended |
| `crawler_crash` | `CrashSpec` | `CapturesHaveTask`, `PolledOrReplaced`, `DedupHasTask` with crashes, restarts and `delete_captures` |
| `crawler_deleted` | `DeleteSpec` | **violated**: `RemovedFromCache`, "zrem cache + DB" (`crawlers.py:1832`) |
| `schedules` | `FairSpec` | `WaitsOrRuns`: a schedule, listed or deleted, waits once, and only when its last task ended; `StaleOnlyRaced`: an entry without schedule is left only by a deletion that `update_queue` ran into; `ScheduleRuns`: without such an entry each schedule runs again and again |
| `sync_control` | `Spec` | `OnePushClient`, `ManagerAlive`, `NoStrayClient`: requests about two instances, at any time, until one races with a command of its own instance |
| `sync_data` | `FairSpec` | `PushAccounted` and `ConfigSeen` under a request, edits of the queue included, and a connection that closes; `Delivered`: an object put in a push list arrives, is given up knowingly, or its instance has no client |
| `sync_pull` | `Spec` | **violated**: `PullAccounted`, "resend object in queue on Connection Error" (`ail_2_ail_server.py:146`) |
| `retro` | `FairSpec` | `CompletedButCut`, `MatchesListed`, `CountCovers`, `StateListed`, `ModuleStops`; `HuntEnds` |
| `retro_completed` | `Spec` | **violated**: `CompletedAll`, "completed" (`Retro_Hunt.py:112`) |
| `trackers` | `Spec` | `UuidsExact`, `TermsUsed`, `LevelsExact`, `CopyFresh`, `MatchesAgree` |

Each run with a type invariant checks `TypeOK` of its module too.

### What the three violations say

* `crawler_deleted`: `CrawlerTask.remove` does not touch the cache. Deleting a schedule
  that is being captured makes the Crawler poll a capture without task; the
  `AttributeError` is not caught in `get_message` and the process stops.
* `sync_pull`: `pull` has put the JSON text in the variable of the object when `send`
  raises, so that the resend asks a string for its meta. The object was popped, was not
  sent, and is in no list.
* `retro_completed`: `get_all_items_objects` cuts the days before the last item for every
  source that follows. A hunt that is paused and resumed completes without their older
  items. `CompletedButCut` shows that these are all it misses.

### What the models show that no text of the repository contradicts

* `is_processed_obj` looks at `obj:queues` and `obj:modules` in two commands. A module
  that sends a message and ends between them is seen in neither, and the object is handed
  over while its message waits; it is handed over again later.
* A rename by the bare id (`abstract_module.py:76`, Mixer) does nothing, since the
  tracking is keyed by global ids: the old entry waits for the 48 h sweep.
* `zpopmax` takes a crawler task out of the queue before the filter, the start and the
  enqueue: a Crawler that stops there loses the task, and its request is refused for good
  (`docs/arch-crawler.md:459` describes the removal after the launch).
* A Crawler that stops between `task.reset()` and `capture.delete()` reloads the capture of
  a task that is queued again. With two slots the task is captured again, and whichever
  capture is done first removes the task and its *later* capture: the earlier one may stay in
  Kvrocks, polled by nobody until the next restart, which stops again when that capture is
  done and its task has no hash any more. `PolledOrReplaced` says that only such a
  capture, whose task has another or is gone, is left; without stops there is none
  (`CapturesPolled`, proved).
* `update_queue` queues a schedule that Flask is deleting: the entry without schedule is
  first in the queue for good, `process_queue` returns at it, and no schedule runs again.
  One step earlier (`get_frequency` is `None`) the Crawler stops instead.
* A change in the second of Sync_module's refresh is not seen before the next change
  (`missed`). `ConfigSeen` says that *nothing else* leaves the copy stale.
* Between the launch of a window and the entry in the cache (and before, while the command waits
  in the set) an instance has no client in the cache. A second request for it is turned into a
  second launch: two clients pop the same lists, the next kill or relaunch takes the first that
  it finds, and one may stay that nobody asks for. A kill and a relaunch popped in the wrong
  order stop the manager with `KeyError`. `OnePushClient`, `ManagerAlive` and `NoStrayClient`
  say that nothing else than such a request (`raced`) does.
* The Crawler that gets a `ConnectionError` from `lacus.get_capture`, or an error from the
  onion filter for a page it saves, ends with the capture in hand: it is in Kvrocks, its task
  stays, and its request is refused until the next start (`CrawlerEnds`).
* The retro hunt module ends at an object on which `rule.match` takes longer than its limit;
  the tracker module catches the same error (`Tracker_Yara.py:72`).
* An edit that changes a tracker's type leaves it in the list of its new level and its *old* type
  for good (`Tracker.py:542`, `stray`), which `get_global_trackers` and its kin show.
* `edit` writes `all:tracker_uuid`, the code's "tracker - uuid map", only where the type changes.
  After an edit of the term alone it leads from the old term to the tracker, and not from the
  new one: `is_tracked_in_global_level` and `fix_all_tracker_uuid_list` read it. `UuidsExact`
  names these two entries (`stray`) and says that every other, and all of `trackers:uuid`,
  which the modules use, is exact.
* A term of two trackers is taken from both by an edit or the deletion of one (`shared`);
  a module writes its refresh time after it has read (`overlap`); `update_daterange` writes
  the last day that is left as *first* seen after a removal.

### Bounds, and why they are enough

* `queues` has one object and one payload, the importer, Global, two Item modules that
  both tag the object and the module Tags: the smallest pipeline in which two modules
  work on one object, both send the *same* message (one tracking entry for two), and a
  third receives it. Objects do not interact in `Spec`: each key is about one object.
  `queues_faults` has two objects, which a rename needs, and the sweep. `MaxImports = 1`
  and `MaxSends = 1` bound the messages an importer and a module may send; the proofs need
  neither bound, and cover the sweep together with the safety properties.
* `crawler` has one slot for two tasks, so that each waits for the other's capture, and two
  clients that ask for the same request while the scheduler asks for another. There is one
  capture uuid more than tasks in `crawler`: a task keeps the uuid of its last capture, and
  Lacus must never run out of new ones. `crawler_crash` has two, one for each slot: a third
  makes it too long to run, and its properties are proved for any number. `crawler_crash`
  uses the discovery request (priority 0, pushed to another AIL) and a scheduled one, and
  two slots, so that a task which is reset and its earlier capture are in Lacus at once.
  `MaxCreates` bounds the tasks created; a removed task's uuid is used again once no key
  mentions it.
* `schedules` creates two schedules, of the same page or of two pages, each deleted at
  any time: two is what a stale entry needs to stop another schedule, and two of the same
  page share a task. A deleted uuid may be used again only when nothing mentions it.
* `sync_control` has two instances, so that a request is made while a command of the *other*
  one is pending, one queue and three client numbers: a second client, and one of the other
  instance. It starts with nothing, or with both instances registered and the launches of their
  clients pending; two requests more suffice to kill, edit or relaunch a client and to ask for
  it again. What comes after a request that races with a command of its own instance is not
  looked at (`NoRace`, a state constraint): `OnePushClient`, `ManagerAlive` and `NoStrayClient`
  claim nothing there. The proofs need no constraint.
* `sync_data` has one instance, two objects and a list of one place (`MaxQueue = 0`:
  `LTRIM 0 200` keeps one more than the number says), so that a resend pushes out the other;
  one request and one connection that breaks (`MaxCut`), at any time. The instance does not pull
  at the start (`PullToo`; a request may let it), and has one client number: two clients of an
  instance are for `sync_control`, and for the proof of `PushAccounted`.
* `retro` has five objects: a decoded one, items of two days in two sources (one without
  content), a message: the least for the day cut, for each type's way to resume and for a
  position that is not written (`LastEvery = 2` for the code's 10). Four requests are create,
  pause, resume and one more; one stop of AIL. One thread of Flask: two requests on the same
  hunt interleave with the module, not with each other.
* `trackers` has two trackers over three ways to be one (two types, two terms, three levels,
  with and without filter), three requests and one object that a module takes.
* Symmetry is used in `crawler_crash`, `sync_control` and `trackers`, which check invariants only.
* Deadlock is checked in `crawler_crash`, where a Crawler that ended is started again. In
  `crawler` nothing starts it again. Everywhere else the bounds on requests
  and imports end the run: the importer stops after `MaxImports` messages, the user after
  `MaxRequests`, and a module that died stays dead.

### Fairness, and why the code justifies it

* Modules: `run()` is an endless loop that polls its queue, so each has weak fairness of
  its next step. A process that began to send ends the send; an importer need not begin.
  Sync_module pops and sweeps in one loop, and time passes (`GetOld`). A worker that
  crashes is started again; nothing in `Fairness` prevents or forces a crash.
* Crawler: weak fairness of pending commands and of the loop. Lacus and the filter are
  outside: strong fairness says that a task that is filtered, enqueued or polled *again
  and again* is one day filtered, enqueued or done. Without it a capture may time out for
  ever, as the code allows. Nothing starts a Crawler that has ended: `TasksEnd` lets that
  happen. Creation and deletion are never forced.
* Schedules: weak fairness of the Crawler's loop, of the commands of a request that Flask
  has begun, and of time for each schedule (`Tick(s)`). No task has to end: a schedule
  whose task never ends is one that has a task.
* Synchronisation: the manager, Sync_module, the clients and Sync_importer poll in endless
  loops and have weak fairness. Nobody has to act, to connect or to disconnect.
* Retro hunts: weak fairness of the module and of accepted requests.
* Trackers: safety only.

## Proofs

`ObjQueuesProofs` proves for `Spec`, for any sets of objects, payloads, modules, queues,
workers and importers, any subscriptions and any bounds, from `ConstantsAssumption` only:

| Theorem | Statement |
|---|---|
| `TypeCorrect` | `Spec => []TypeOK` |
| `EntriesCorrect` | `Spec => []EntriesJustified` |
| `ImplementsHandover` | `Spec => HandoverSpec` |
| `NothingForgotten` | `Spec => []NoWorkForgotten` |

`TypeOK` carries more than types: `LocalOK` ties each process's local variables to its
program counter (a module at work has an object and the hash of a message *of that
object*; an importer never has; `out` is set only during a send). With it,
`EntriesJustified` is nearly inductive: a message pushed, popped or being received is
`InTransit`, so an entry of `obj:queues` always has its message, and an entry of
`obj:modules` its module. The cases that matter are a step that moves a message along
(push, pop, ZREM) and equal messages, where an entry that survives is justified by the
other copy.

For the refinement, `busy` is what is `Outstanding`: an object with a message in a queue
or a process that holds it. Each step is shown to be an `Accept`, a `HandOver`, a
`Complete`, a `Take` or a stutter. The step that could break it is a module that ends
because `is_processed_obj` found an entry: its object may leave `busy` only if somebody
else still holds it, and that is what `EntriesJustified` gives. `NoWorkForgotten` follows
from the same lemma. Removing the module's entry *before* looking for the others'
(`ail_queues.py:253`), and adding the next entry before removing the last, are exactly
the two facts the proof uses.

`CrawlerSchedulesProofs` proves for `Spec` of `CrawlerSchedules`, for any sets of
schedules, requests and tasks, any schedules that share a request and any bound, from
`SchedulesAssumption` only:

| Theorem | Statement |
|---|---|
| `TypeCorrect` | `Spec => []TypeOK` |
| `WaitsCorrect` | `Spec => []WaitsOrRuns` |
| `StaleCorrect` | `Spec => []StaleOnlyRaced` |

The inductive invariant `Inv` adds what the two processes know at each place of their code.
`QueueOK`: the entries of the queue are distinct, and the schedule that `update_queue` is
about to add is not there (only the Crawler adds, so `is_scheduled` cannot become stale).
`TaskOK`: a schedule at `get_frequency` or at the ZADD has no task (only the Crawler gives
tasks, so `is_tasked` cannot become stale in that direction), and the only schedule that is
queued with a task is the one whose entry the Crawler is about to remove. `FlaskOK`: what a
request has still to send is an end of what it sent first. `StaleOK`: once the ZREM of a
deletion is sent, an entry of its schedule can only be a later one, which is in `raced`. The
set of schedules is finite, so that what `smembers` returned can be put in a sequence.
`Inductive` has one step per action; its lemmas say what adding an entry to a sequence and
removing one do to its elements and to their being distinct.

`CrawlerTasksProofs` proves for `CrawlerTasks`, for any tasks, captures, requests, clients,
priorities, slots and bound, with or without discovery, from `CrawlerAssumption` only:

| Theorem | Statement |
|---|---|
| `TypeCorrect` | `Spec`, `CrashSpec` and `DeleteSpec` `=> []TypeOK` |
| `DedupCorrect` | `Spec` and `CrashSpec` `=> []DedupHasTask` |
| `CapturesCorrect` | `Spec` and `CrashSpec` `=> []CapturesHaveTask` |
| `PolledCorrect` | `Spec` and `CrashSpec` `=> []PolledOrReplaced` |
| `SlotsCorrect` | `Spec` and `DeleteSpec` `=> []SlotLimit` |

The state is what the commands that are still pending will make of the records, so that the
inductive invariant `Pends` is about the lists of pending commands. `Base` types each command
by its operation and ties the Crawler's task and capture to its place. `Shapes`: a process
either creates a task (what is pending is an end of `CreateTask`, and nobody else names the
task: `Quiet`), or gives a task a new capture (an end of `CreateCapture`, and nobody else names
the capture: `QuietC`), or has a list in which every removal is in order: the hash of the
request is released before the task's, a capture leaves Kvrocks before it loses its task, and
the cache before Kvrocks (`Plain`). `DedupKnown` and `CaptureKnown` say that a request's task
and a capture's task point back. A stop of the Crawler leaves an invariant of this form true,
since a list that is cut to nothing is in order; what matters is that the records agree at
*every* point of each list, and that is what a change of order breaks. `PolledOrReplaced`
then follows with `CapturesHaveTask`: the only step that takes a capture out of the cache
without putting it in the Crawler's hand is followed in the same list by its ZREM in Kvrocks.

For the slots, `SlotInv` says that only the Crawler adds to the cache, as the last command of
a list (`AddsLast`), and that the cache has a free slot from the check to the enqueue. A
restart reloads all the captures of Kvrocks and `delete_captures` works on the cache of a
running Crawler, so that `CrashSpec` does not have it.

`CrawlerPlacesProofs` proves for `Spec` of `CrawlerTasks`, for any tasks, captures, clients,
slots and bound, from `CrawlerAssumption` and two conditions:

| Theorem | Statement | Assumes |
|---|---|---|
| `TasksCorrect` | `Spec => []NoTaskLost` | `Forced`, `Discovery = FALSE` |
| `CapturesUnique` | `Spec => []OneCapture` | the same |
| `CrawlerEndsRight` | `Spec => []CrawlerEnds` | the same |
| `CapturesStayPolled` | `Spec => []CapturesPolled` | the same |

Three of them are invariants of the run `crawler`. `CapturesPolled`, that every capture of Kvrocks
is polled again, is `PolledOrReplaced` where no capture is replaced, and is proved only.

`Forced` says that every request has a priority above 0, for which `enqueue_capture` sets
`force`, so that Lacus makes a new capture; with priority 0 it may answer with an earlier one
and the task is lost (`crawlers.py:1556`). Only a domain that Onion or the lookup finds and
that AIL knows already has priority 0 (`crawlers.py:1766`). `Discovery = FALSE` says that no discovery is pushed to another AIL: where it is, a
`ConnectionError` after `create_capture` queues a task that is captured (`Crawler.py:176`). The
run `crawler` satisfies both.

The four rest on one another, so they have one inductive invariant, `Places`: every task that
exists is queued, in the Crawler's hands, in a capture, or being created (`AllPlaced`), and the
other parts say that it is never in two of these. `Makers`: a process that creates a task has
it for itself until the ZADD. `QueuedKnown`: a task that is queued has its hash and a priority
above 0. `CapturesOwn`: a capture and its task name each other, and the task is started and
not queued, except in the last commands of a reset, where the capture's ZREM is pending.
`CacheOnce`: no capture is twice in the cache, so that the one in hand is not polled again.
`Stage`: which task, and which capture, the Crawler has in hand at each place of its code and
at each command of each list, which is where the order of the commands is used: a task is
queued *after* it was taken out of the queue and its start was reset, and a capture is
recorded *before* it is in the cache. A step of another process does not change what the
Crawler has in hand, since nobody else names its task (`CrawlerKept`, `ClientPlaces`).

`CrawlerLifeProofs` proves the refinement, for any tasks, captures, clients, slots and bound,
under the same two conditions:

| Theorem | Statement | Assumes |
|---|---|---|
| `ImplementsLife` | `Spec => LifeSpec` | `Forced`, `Discovery = FALSE` |

Each command of each list is one step of `TaskLife` or a stutter, stage by stage (`Stage` says
which task the command is about and what was done with it before), and of the polling loop only
`PopTask` moves a task. That the priority a task waits
with is a number, that it is taken from `hand = None` only, and that it is closed from the hand
only are consequences of `Places`. Two things need more. A reset sends the task back before it
deletes the capture, so that for two commands the task waits and has a capture: `HasCapture`
says that the task does *not* wait before its ZADD, which makes that ZADD the one `Retry`. And
`Give` asks for a free slot among the *tasks* at Lacus, where the code counts the *cache*: by
`PolledOrReplaced` and `CapturesOwn` every task at Lacus has a capture in the cache or in hand,
captures of different tasks differ, and so there are no more of these tasks than entries
(`GivesSlot`).

`AilSyncProofs` proves for `Spec` of `AilSync`, for any instances, queues, client numbers,
objects and bounds, from `SyncAssumption` only:

| Theorem | Statement |
|---|---|
| `TypeCorrect` | `Spec => []TypeOK` |
| `PushCorrect` | `Spec => []PushAccounted` |
| `ConfigCorrect` | `Spec => []ConfigSeen` |
| `ManagerStays` | `Spec => []ManagerAlive` |
| `ClientsCorrect` | `Spec => []OnePushClient` |
| `ClientsRequired` | `Spec => []NoStrayClient` |

`DataInv` adds to `TypeOK` what the manager, a client and Sync_module hold at each place of
their code. `PushAccounted` counts places and not copies: a step that takes an object from one
place (`Placed`: a list, a client, a wire, the importer; `WithClient`; `Beyond`: arrived or
given up) is shown to leave it in another, `LTRIM` and a broken wire included.

`ConfigSeen` and the three about the clients are false of the code without the last words of
each: `set_last_updated_sync_config` keeps whole seconds, and the commands for the manager are
a set, popped at random. So they say what *alone* breaks them, and that takes an invariant.
`ControlInv` is what holds as long as no request was about an instance of which a command was
pending (`raced = {}`), whatever is pending for the others: for each instance there is one
command, or one that the manager carries out, or none (`OneCommand`); an instance is in the
cache once, under the number that the manager's table has for it, and a client runs only under
such a number (`OneCached`); a launch is asked for only where no client is (`OneLaunch`); and
an instance that has a client is to have one, or is being killed, or was launched by hand
without (`NoStray`). `CommandAdded` is the step that matters: a command for an instance of which
none is pending keeps all four, since every other command, and what the manager is at, is about
another instance; `ManagerControl` has the steps that carry it out, in any order of the
instances.

`RetroHuntProofs` proves for `Spec` of `RetroHunt`, for any hunts, objects, rules, users and
bounds, from `Assumption` only; where the third column says so, for users who do not delete a
hunt that is still being created:

| Theorem | Statement | Assumes |
|---|---|---|
| `TypeCorrect` | `Spec => [](TypeOK /\ Ordered /\ Known /\ Placed)` | |
| `StopsCorrect` | `Spec => []ModuleStops` | |
| `CompletedCorrect` | `Spec => []CompletedButCut` | |
| `ListedCorrect` | `... => []StateListed` | `[][NoEarlyDelete]_vars` |
| `MatchesCorrect` | `... => [](MatchesListed /\ CountCovers)` | `[][NoEarlyDelete]_vars` |
| `OneUser` | `Spec => [](StateListed /\ MatchesListed /\ CountCovers)` | at most one user |

The invariant is about the lists of commands. `Ordered`: a list is about one hunt, what removes
matches comes before the command that takes the hunt out of the lists, and a creation begins
with the hash. `Known`: a hunt on which a command is pending has its hash, or gets it next.
`CommandFollows` says once what any command leaves of its list (`Follows`), so that each
further invariant is shown for a command, a request and a move of the module.

`CompletedButCut` needs `Progress`: what a hunt has neither analysed nor before it are items
that a pause has cut, for the position in the hash, for every position that is still to be
written, and for what the module has before it. A second run of the same hunt, a stop and
a `last` that is written late all keep it, since the set of what was analysed only grows.

`StateListed` needs `Listing`: a state is written after the `SADD` of its set, and a `SREM` of
another set than the pending one comes after the hunt has left `retro_hunts:all`. That
command makes the hunt `Gone` for good (`GoneStays`), *unless* a creation still has to add it.
That is what `NoEarlyDelete` excludes: `create` writes the hash and the lists before the state
(`Tracker.py:1687-1719`), so that a second user who knows the uuid can delete the hunt in between,
and the creation then lists it again. With two users TLC finds `StateListed` violated
that way; the run `retro` has one, for which `OneUser` shows that the condition is no
restriction. `MatchesListed` and `CountCovers` need `Matches`: each object that was analysed
and matched is in the set or the module has still to add it, until a deletion of the hunt
begins, which is never undone (`WholeBack`: it ends with the hunt gone, also where
`os.remove` raises, since another deletion then has taken the rule).

`TrackersProofs` proves for `Spec` of `Trackers`, for any trackers, requests, terms, kinds,
objects, hits, days and bounds, from `TrackersAssumption` only (kinds and objects are finite
sets, and Flask is not one of the modules):

| Theorem | Statement |
|---|---|
| `TypeCorrect` | `Spec => []TypeOK` |
| `UuidsCorrect` | `Spec => []UuidsExact` |
| `TermsCorrect` | `Spec => []TermsUsed` |
| `LevelsCorrect` | `Spec => []LevelsExact` |
| `CopiesCorrect` | `Spec => []CopyFresh` |
| `MatchesCorrect` | `Spec => []MatchesAgree` |

None of the properties holds in the middle of a request, so the invariant is not about what is
in the sets but about what will be there when the commands that are pending are sent. A *cell*
is a member of a set (`Item`) or a field of a hash (`FieldOf`); `Gives(q, z, v)` says that the
last command of the list `q` that touches the cell `z` leaves `v` there, `Quiet(q, z)` that none
touches it, and `Will(p, z, v)` what the cell will be once the process `p` has sent its list.
Sending the head of a list changes no `Will` of its process (`SameForSender`). With this, the
dozen commands of a creation, an edit or a deletion are one step: `CreateDoes`, `EditDoes` and
`DeleteDoes` say what the whole list gives each cell, from the same facts about its parts
(`SetLevelDoes`, `AddFiltersDoes`...) and about lists that are joined (`JoinedLists`). A loop
over the kinds is a list of which each cell is written by one round (`LoopGives`); its order is
never used.

`Typed` types each pending command by its operation; that a module sends commands about
matches only (`MatchCmds`) is what keeps it out of the sets of the trackers. `Books` states
`UuidsExact`, `TermsUsed` and `LevelsExact` of what will be (for a type that is not its own, a
level's list gives up the tracker, and a cell in `stray` is excepted), and that a listed tracker will have
a type, a term, a level and filters; the request that starts is shown to move one tracker from
what it was to what it is asked to be (`BooksChanged`), and every other step to change nothing that is
guarded (`Same`). `Copies` adds to `CopyFresh` that after a command on the terms of a type a note for
that type is still to come in the same list (`Told`): this is the order of `edit`, and what the
note to the *old* type is for.

`Matched` is for `MatchesAgree`, where modules and Flask meet. `InOrder`: in a list, once an
addition or a removal begins, no command on a match is left over from an earlier one
(`InTurn`), and a command on a day is followed by one on `obj:trackers` (`DateLinked`), so that
a process that is at a match is seen to be. `ByOne`: unless the match is in `raced`, a
process that has commands for it is the only one, and a process that is alone with it
will leave the four sets in agreement (`Agreed`). A command that begins with a match where no
other process is, finds the sets in agreement, since nobody has a command for them; the commands
it is replaced by put in, or take out, all four. For a removal this rests on the days having
been read from a set that agrees with the others. Where two processes were at it, nothing is
claimed: the code then does leave sets that disagree.

Model-checked only:

* Liveness (`TasksEnd`, `ScheduleRuns`, `EventuallySynced`, `EventuallyUntracked`, `Delivered`,
  `HuntEnds`): the prover knows neither fairness nor `ENABLED`.

## Not modelled

* Queues: a module killed between the two commands that keep `objs:process` and
  `objs:process:<type>` in step (`CrashSafe` names the program counters): the object would
  stay in `objs:process` for good, and nothing in the repository promises otherwise. Types
  that `get_obj_queued()` does not list are never swept either; `TimedObjs` are the ones
  it lists. Messages without object (`::`), `delete_processed_obj` (no caller), statistics.
* Crawler: `api_add_crawler_capture` (captures that another AIL pushes),
  `crawler:queue:type` (read by the UI only), what `compute` saves, blacklists and
  `dom.is_down_today` (a request that creates nothing), and the tags of a task. The reload
  at a restart is one step; a deletion by Flask at that very moment is left out.
* Schedules: the fields of a schedule that no step reads (user, tags, cookies); the two
  reads of `is_tasked`, and of `get_meta`, are one step each, as are the `get_task` and the
  `task.delete` of a deletion.
* Synchronisation: the commands inside one request (a filter's tags are rewritten one by
  one), names, urls, descriptions and saved errors, the api clients (ping, version), a
  restart of the manager, TLS and the parsing of the stream.
* Retro hunts: filters (those on a whole type of objects choose what `obj_iterator` walks, so
  that `Objs` is what they leave; those inside a type are looked for at the wrong level,
  `Retro_Hunt.py:88`, and none is applied),
  objects that are stored or deleted during a hunt, tags, mails, the progress in percent.
* Trackers: rule files of YARA trackers, the domains of typo-squatting trackers, tags,
  mails and webhooks, the dashboards, filters inside a kind of object, several
  organisations, several threads of Flask; a module reads the terms of all kinds at once.
* Detection modules, importers, feeders and exporters extract or move data: what they share
  is the loop and the queues. Objects, tags, investigations, users, statistics, the web
  pages and the installers are records and their display, most of the lines of the
  repository, with one command per change and no protocol to check.
* Timelines and the regex helper: planned, below.

Known places of this code that no property covers: a type that is tracked and never swept
(`ail_queues.py:303`); Sync_module stopped between its SPOP and the lists
(`Sync_module.py:91`); a discovery push that fails after its capture was created
(`Crawler.py:176`); a stop between `task.reset` and `capture.delete` (`Crawler.py:201`); a
capture uuid that Lacus gives twice (`crawlers.py:1556`); `delete_captures`, which leaves the
tasks (`crawlers.py:1632`); a deletion while the Crawler resets the task (`Crawler.py:202`);
the task of a schedule deleted in `process_queue` (`crawlers.py:1276`); a connection closed
with 1000, which `push` does not catch (`ail_2_ail_client.py:93`); a manager started again
(`ail_2_ail.py:317`); the end of the server's controller (`ail_2_ail_server.py:80`); a
hunt that a stop leaves in the running set (`Tracker.py:1821`); a hunt completed before its
state was written (`Tracker.py:1608`); matches of a deleted hunt (`Tracker.py:1731`) or of a
deleted tracker (`Tracker.py:435`); the range of days of a tracker (`Tracker.py:144`, `:170`);
the block boundaries and concurrent writers of a timeline (`timeline_engine.py:164`, `:203`);
a late child of the regex helper (`regex_helper.py:62`); a correlation with one direction
(`correlations_engine.py:140`); a capture that another AIL pushes for a request that is known,
whose task the Crawler may end meanwhile (`crawlers.py:2036`). Most are in the models as the code has them; no text of the
repository states what should hold instead.

## Plan

Done so far: `ObjQueues`, `CrawlerSchedules`, `CrawlerTasks`, `AilSync`, `RetroHunt` and
`Trackers` with their proofs: every invariant that a run checks is a theorem; `TaskLife`, which
`CrawlerTasks` is proved to implement. Left, in this order:

1. **Composition**: `CrawlerSchedules` on top of `TaskLife`, with the requests that the latter
   leaves out, instead of the task it has of its own.
2. **`Timeline`**: `add_timestamp` as an operator over finite functions, checked against the
   history of additions; the boundary cases of a split; then two writers.
3. `api_add_crawler_capture` as an action of `CrawlerTasks`, with the slots it ignores: a
   capture of a request that is known shares its task with another one, so that
   `CapturesHaveTask` and `CapturesPolled` have to be stated for the one the task knows.
4. **`RegexHelper`**.
