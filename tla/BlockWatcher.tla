----------------------------- MODULE BlockWatcher -----------------------------
(***************************************************************************)
(* The block watcher, src/src/block_watcher.rs: the height of the chain as *)
(* the plugin knows it.  It is polled once before the plugin starts, then  *)
(* by a task of its own every minute, and updated by the handler of every  *)
(* block_added notification.  Each handler is a task, so a height that was *)
(* read or sent earlier may be applied later.                              *)
(*                                                                         *)
(* PluginDriver composes these actions with the rest of the process, which *)
(* starts the watcher, feeds it the notifications and stops it.            *)
(***************************************************************************)
EXTENDS Naturals

VARIABLES
    height,          \* the height of the chain in lightningd
    current_height,  \* BlockWatcher::current_height
    watcher,         \* where start and then poll_forever are
    polled,          \* the height get_info returned to the poll
    added,           \* the heights whose block_added handler has not run
    shutdown         \* the messages in the shutdown channel

watcherVars == <<height, current_height, watcher, polled, added, shutdown>>

(* first_poll and first_update are awaited by start, the others are the    *)
(* steps of poll_forever.                                                  *)
WatcherStep == {"unborn", "first_poll", "first_update",
                "sleep", "poll", "update", "stopped"}

WatcherInit ==
    /\ height = 1
    /\ current_height = 0
    /\ watcher = "unborn"
    /\ polled = 0
    /\ added = {}
    /\ shutdown = 0

(* update_height: only a better height is taken.                           *)
UpdatedHeight_unconditional(known, reported) == reported
UpdatedHeight_first_only(known, reported) ==
    IF known = 0 THEN reported ELSE known
UpdatedHeight(known, reported) == IF reported > known THEN reported ELSE known

-----------------------------------------------------------------------------
FirstStep_asleep == "sleep"
FirstStep == "first_poll"

StartWatcher ==
    /\ watcher = "unborn"
    /\ watcher' = FirstStep
    /\ UNCHANGED <<height, current_height, polled, added, shutdown>>

(* get_info answers with the height at that moment.                        *)
GetInfo ==
    /\ \/ watcher = "first_poll" /\ watcher' = "first_update"
       \/ watcher = "poll" /\ watcher' = "update"
    /\ polled' = height
    /\ UNCHANGED <<height, current_height, added, shutdown>>

(* An error of a later poll is logged; of the first, start returns it.     *)
GetInfoFails ==
    /\ watcher = "poll"
    /\ watcher' = "sleep"
    /\ UNCHANGED <<height, current_height, polled, added, shutdown>>

UpdateFromPoll ==
    /\ watcher \in {"first_update", "update"}
    /\ current_height' = UpdatedHeight(current_height, polled)
    /\ watcher' = "sleep"
    /\ UNCHANGED <<height, polled, added, shutdown>>

WakeUp ==
    /\ watcher = "sleep"
    /\ watcher' = "poll"
    /\ UNCHANGED <<height, current_height, polled, added, shutdown>>

ReceiveShutdown ==
    /\ watcher = "sleep"
    /\ shutdown > 0
    /\ shutdown' = shutdown - 1
    /\ watcher' = "stopped"
    /\ UNCHANGED <<height, current_height, polled, added>>

(* new_block, in the task of one notification.                             *)
NewBlock(h) ==
    /\ h \in added
    /\ added' = added \ {h}
    /\ current_height' = UpdatedHeight(current_height, h)
    /\ UNCHANGED <<height, watcher, polled, shutdown>>

(* What the watcher does by itself, besides calling get_info.              *)
PollForever ==
    \/ GetInfoFails \/ UpdateFromPoll \/ WakeUp \/ ReceiveShutdown
=============================================================================
