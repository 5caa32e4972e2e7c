---------------------------- MODULE Application ----------------------------
(***************************************************************************)
(* The application's main loop and its lock boundary: app/app.cpp and the  *)
(* parts of the screens it talks to.  One thread runs frames.  A frame     *)
(* dispatches the pending events, updates (save poll, screen, maintenance  *)
(* and warm slot, upgrade and session, import drain), may lock an idle     *)
(* vault, and resolves one navigation.  Beside it run the workers: a       *)
(* screen's file operation or key derivation, the upgrade's coordinator,   *)
(* maintenance, the import worker and the save worker.  The frame learns   *)
(* of a worker's end only where the code polls it.                         *)
(*                                                                         *)
(* The import pipeline is kept to what a frame sees of it (ImportQueue is  *)
(* its model).  The idle timers are a choice of each frame: a vault that   *)
(* the user keeps unlocked is one whose timer does not expire.  "gallery"  *)
(* stands for the screens that block the idle lock while they run a job    *)
(* (GalleryGrid, DualGalleryScreen), "collection" for those built on       *)
(* CollectionBatchOps.  A definition marked "Variant" is a defective form  *)
(* of the next one.                                                        *)
(***************************************************************************)
EXTENDS Naturals

CONSTANTS
    Vault,       \* the vaults of the registry
    None,        \* no vault
    MaxKeys,     \* bound: events of one frame that the model looks at
    MaxImports   \* bound: imports the user picks

ASSUME ApplicationAssumption ==
    /\ None \notin Vault /\ MaxKeys \in Nat \ {0} /\ MaxImports \in Nat

VARIABLES
    phase, keys,             \* where the frame is; events it has dispatched
    screen,                  \* screen_
    active, pending, second, \* vault_state_ and the warm slot: unlocked vaults
    queue,                   \* the import queue and its save worker
    needBegin,               \* import_ui_.need_begin_session
    confirm, replay,         \* import_ui_.lock_confirm.action and replay_nav
    settings, folder, modal, \* overlays, the folder picker, the upgrade's modals
    upgrade, upkeep,         \* migration_ui_.job and the maintenance worker
    imports

vaults == <<active, pending, second>>
session == <<needBegin, confirm, replay>>
overlays == <<settings, folder, modal>>
workers == <<upgrade, upkeep>>
frame == <<phase, keys>>
vars == <<frame, screen, vaults, queue, session, overlays, workers, imports>>

Slot == Vault \cup {None}
Nav == [kind : {"none", "gallery", "collection", "manager", "unlock", "lock", "lockSecond",
                "settings", "quit"}, to : Slot]
Go(kind) == [kind |-> kind, to |-> None]
Stay == Go("none")
ToUnlock(v) == [kind |-> "unlock", to |-> v]

\* The job is the screen's own worker; done says that the worker has ended.  The
\* listing is that of the current tree, or the tree was changed under it by a
\* worker or a drain, or was flushed to: an abort has attached records.
Screen == [kind : {"manager", "unlock", "gallery", "collection"}, nav : Nav,
           dialog : {"none", "delete", "transfer"}, holds : BOOLEAN,
           job : {"none", "delete", "transfer", "export", "kdf"}, done : BOOLEAN,
           listing : {"current", "changed", "flushed"}]
NewScreen(kind) == [kind |-> kind, nav |-> Stay, dialog |-> "none", holds |-> FALSE,
                    job |-> "none", done |-> FALSE, listing |-> "current"]

Worker == {"idle", "running", "done"}
Queue == [bound : Slot, live : BOOLEAN, task : {"none", "queued", "running"}, staged : BOOLEAN,
          armed : BOOLEAN, save : Worker, exclusive : BOOLEAN]
NoQueue == [bound |-> None, live |-> FALSE, task |-> "none", staged |-> FALSE, armed |-> FALSE,
            save |-> "idle", exclusive |-> FALSE]

\* Init: the manager, with every vault locked.
Init ==
    /\ phase = "events" /\ keys = 0 /\ screen = NewScreen("manager")
    /\ active = None /\ pending = None /\ second = None
    /\ queue = NoQueue /\ needBegin = FALSE /\ confirm = Stay /\ replay = Stay
    /\ settings = FALSE /\ folder = "none" /\ modal = {}
    /\ upgrade = "idle" /\ upkeep = "idle" /\ imports = 0

-----------------------------------------------------------------------------
(***************************************************************************)
(* What a frame asks of its parts.                                         *)
(***************************************************************************)

Saving == queue.save # "idle"
Busy == Saving \/ queue.task # "none" \/ queue.staged

\* Screen::blocks_idle_lock, as the screens override it.
Blocks == screen.kind = "gallery" /\ screen.job # "none"

\* What dispatch_overlay_event finds before the screen.
Overlay == upkeep # "idle" \/ confirm # Stay \/ settings \/ modal # {}

\* ImportQueue::set_exclusive.
Exclusive(q, held) == [q EXCEPT !.exclusive = held]

\* Releasing what a screen's dialog took of the queue.
Released(q) == IF screen.holds THEN Exclusive(q, FALSE) ELSE q

\* ImportQueue::abort_and_flush: the worker, which may post a last record, and
\* the save worker are joined and what is staged is attached.
Aborted(q) == IF q.live
              THEN [q EXCEPT !.live = FALSE, !.task = "none", !.staged = FALSE,
                             !.save = "idle", !.exclusive = FALSE]
              ELSE q
Attaches(q) == q.live /\ (q.staged \/ q.task = "running")

\* ImportQueue::end_session.
\* Variant: the queue stays bound to the vault.
OnlyAborted(q) == Aborted(q)

Ended(q) == [Aborted(q) EXCEPT !.bound = None]

-----------------------------------------------------------------------------
(***************************************************************************)
(* The first part of a frame: App::dispatch_event.  During a save every    *)
(* event but a quit is dropped.                                            *)
(***************************************************************************)

Key == phase = "events" /\ keys < MaxKeys /\ keys' = keys + 1 /\ phase' = phase
Input == Key /\ ~Saving

\* The screen sees an event when no overlay takes it; a running job swallows it.
ScreenInput == Input /\ ~Overlay /\ screen.job = "none"

\* shutdown: every worker is joined, the session ended and every vault locked.
Shutdown ==
    /\ phase' = "stopped" /\ keys' = 0 /\ screen' = NewScreen("manager")
    /\ active' = None /\ pending' = None /\ second' = None
    /\ queue' = NoQueue /\ needBegin' = FALSE /\ confirm' = Stay /\ replay' = Stay
    /\ settings' = FALSE /\ folder' = "none" /\ modal' = {}
    /\ upgrade' = "idle" /\ upkeep' = "idle" /\ UNCHANGED imports

\* The window is closed during a save: the quit waits until the tree is back.
QuitDuringSave ==
    /\ Key /\ Saving
    /\ replay' = Go("quit")
    /\ UNCHANGED <<screen, vaults, queue, needBegin, confirm, overlays, workers, imports>>

\* The window is closed while imports are pending: ask first.
QuitAsks ==
    /\ Input /\ upkeep = "idle" /\ Busy /\ confirm = Stay
    /\ confirm' = Go("quit")
    /\ UNCHANGED <<screen, vaults, queue, needBegin, replay, overlays, workers, imports>>

QuitNow ==
    /\ phase = "events" /\ keys < MaxKeys /\ ~Saving
    /\ upkeep = "idle" /\ (Busy => confirm # Stay)
    /\ Shutdown

\* OverlayDispatch::lock_confirm: the user gives the imports up.
ConfirmLock ==
    /\ Input /\ ~Blocks /\ upkeep = "idle" /\ confirm # Stay
    /\ queue' = Aborted(queue)
    /\ \E attached \in {queue.live /\ queue.staged, Attaches(queue)} :
          screen' = IF attached /\ screen.listing = "current"
                    THEN [screen EXCEPT !.listing = "flushed"] ELSE screen
    /\ replay' = confirm /\ confirm' = Stay
    /\ UNCHANGED <<vaults, needBegin, overlays, workers, imports>>

CancelLock ==
    /\ Input /\ ~Blocks /\ upkeep = "idle" /\ confirm # Stay
    /\ confirm' = Stay
    /\ UNCHANGED <<screen, vaults, queue, needBegin, replay, overlays, workers, imports>>

\* What reaches OverlayDispatch::settings: it comes before the upgrade's modals.
SettingsInput == Input /\ ~Blocks /\ upkeep = "idle" /\ confirm = Stay

\* try_f2_toggle.
ToggleSettings ==
    /\ SettingsInput
    /\ settings' = ~settings
    /\ UNCHANGED <<screen, vaults, queue, session, folder, modal, workers, imports>>

\* try_trigger_migration finds work: the offer is made and imports are held.
RequestUpgrade ==
    /\ SettingsInput /\ settings /\ active # None
    /\ settings' = FALSE /\ modal' = modal \cup {"offer"} /\ queue' = Exclusive(queue, TRUE)
    /\ UNCHANGED <<screen, vaults, session, folder, workers, imports>>

\* start_maintenance for verify, garbage collection, optimize or a category rename.
RequestUpkeep ==
    /\ SettingsInput /\ settings /\ active # None /\ ~Busy
    /\ settings' = FALSE /\ queue' = Exclusive(queue, TRUE) /\ upkeep' = "running"
    /\ UNCHANGED <<screen, vaults, session, folder, modal, upgrade, imports>>

\* try_vault_maintenance, Backup: the folder picker opens and the settings stay.
RequestBackup ==
    /\ SettingsInput /\ settings /\ active # None /\ ~Busy
    /\ folder = "none" /\ folder' = "backup"
    /\ UNCHANGED <<screen, vaults, queue, session, settings, modal, workers, imports>>

\* What reaches OverlayDispatch::migration: result before progress before offer.
ModalInput == SettingsInput /\ ~settings

CloseResult ==
    /\ ModalInput /\ "result" \in modal
    /\ modal' = modal \ {"result"}
    /\ UNCHANGED <<screen, vaults, queue, session, settings, folder, workers, imports>>

\* offer_key, accepted: the coordinator starts unless it is active.
AcceptUpgrade ==
    /\ ModalInput /\ modal = {"offer"} /\ active # None /\ upgrade = "idle"
    /\ upgrade' = "running" /\ modal' = {"progress"}
    /\ UNCHANGED <<screen, vaults, queue, session, settings, folder, upkeep, imports>>

\* offer_key, dismissed: the hold is released.
DismissUpgrade ==
    /\ ModalInput /\ modal = {"offer"}
    /\ modal' = {} /\ queue' = Exclusive(queue, FALSE)
    /\ UNCHANGED <<screen, vaults, session, settings, folder, workers, imports>>

-----------------------------------------------------------------------------
(***************************************************************************)
(* The screens' handle_event.                                              *)
(***************************************************************************)

Asks(nav) == screen' = [screen EXCEPT !.nav = nav]

\* VaultManager: open a vault, lock, leave.
ManagerKey ==
    /\ ScreenInput /\ screen.kind = "manager"
    /\ \/ \E v \in Vault : Asks(IF v = active THEN Go("gallery") ELSE ToUnlock(v))
       \/ active # None /\ Asks(Go("lock"))
       \/ second # None /\ Asks(Go("lockSecond"))
       \/ Asks(Go("settings"))
       \/ Asks(Go("quit"))
    /\ UNCHANGED <<vaults, queue, session, overlays, workers, imports>>

\* UnlockScreen: submit starts the key derivation, Escape goes back.
UnlockKey ==
    /\ ScreenInput /\ screen.kind = "unlock"
    /\ \/ screen' = [screen EXCEPT !.job = "kdf"]
       \/ Asks(Go("manager"))
    /\ UNCHANGED <<vaults, queue, session, overlays, workers, imports>>

Listing == screen.kind \in {"gallery", "collection"}
ListingInput == ScreenInput /\ Listing

\* Leaving a listing: another screen of this vault, or another vault.
ListingNav ==
    /\ ListingInput /\ screen.dialog = "none"
    /\ \/ Asks(Go(IF screen.kind = "gallery" THEN "collection" ELSE "gallery"))
       \/ screen.kind = "gallery" /\ Asks(Go("manager"))
       \/ \E v \in Vault \ {active} : Asks(ToUnlock(v))
    /\ UNCHANGED <<vaults, queue, session, overlays, workers, imports>>

\* handle_delete_key, request_delete: refused while imports are pending.
AskDelete ==
    /\ ListingInput /\ screen.dialog = "none" /\ ~Busy
    /\ screen' = [screen EXCEPT !.dialog = "delete"]
    /\ UNCHANGED <<vaults, queue, session, overlays, workers, imports>>

\* handle_delete_confirm_key, CollectionBatchOps::handle_event.
AnswerDelete ==
    /\ ListingInput /\ screen.dialog = "delete"
    /\ \/ /\ screen' = [screen EXCEPT !.dialog = "none", !.job = "delete",
                                      !.holds = (screen.kind = "collection")]
          /\ queue' = Exclusive(queue, TRUE)
       \/ screen' = [screen EXCEPT !.dialog = "none"] /\ queue' = queue
    /\ UNCHANGED <<vaults, session, overlays, workers, imports>>

\* A dialog that holds the imports off from its opening: transfer, combine.
OpenTransfer ==
    /\ ListingInput /\ screen.dialog = "none" /\ ~Busy
    /\ screen' = [screen EXCEPT !.dialog = "transfer", !.holds = TRUE]
    /\ queue' = Exclusive(queue, TRUE)
    /\ UNCHANGED <<vaults, session, overlays, workers, imports>>

\* The dialog starts its job and stays, or is closed.
AnswerTransfer ==
    /\ ListingInput /\ screen.dialog = "transfer"
    /\ \/ screen' = [screen EXCEPT !.job = "transfer"]
       \/ screen' = [screen EXCEPT !.dialog = "none"]
    /\ UNCHANGED <<vaults, queue, session, overlays, workers, imports>>

\* start_export, request_export, consented: the picker opens; nothing is held.
AskExport ==
    /\ ListingInput /\ screen.dialog = "none" /\ folder = "none"
    /\ folder' = "export"
    /\ UNCHANGED <<screen, vaults, queue, session, settings, modal, workers, imports>>

-----------------------------------------------------------------------------
(***************************************************************************)
(* The second part: App::update.                                           *)
(***************************************************************************)

To(next) == phase' = next /\ keys' = 0

\* on_vault_changed, refresh or reload: the screen lists the tree anew.
Relisted(s) == [s EXCEPT !.listing = "current"]

\* poll_save: the tree is the main thread's again.
\* Variant: the screen is not told.
SilentlyPolled(s) == s

Polled(s) == IF queue.save = "done" THEN Relisted(s) ELSE s

PollSave ==
    /\ phase = "events"
    /\ \/ queue.save = "running" /\ To("lock") /\ UNCHANGED <<screen, queue>>
       \/ /\ queue.save # "running" /\ To("screen")
          /\ queue' = [queue EXCEPT !.save = "idle"]
          /\ screen' = Polled(screen)
    /\ UNCHANGED <<vaults, session, overlays, workers, imports>>

\* A job that ended is joined: what it did is listed, and what it held released.
\* A transfer may leave the vault it wrote to in the warm slot.
ScreenJobEnds ==
    /\ screen.job # "none" /\ screen.done
    /\ \/ /\ screen.job = "kdf"
          /\ \E nav \in {Stay, Go("gallery")} :
                screen' = [screen EXCEPT !.job = "none", !.done = FALSE, !.nav = nav]
          /\ UNCHANGED <<queue, second>>
       \/ /\ screen.job = "transfer"
          /\ screen' = [Relisted(screen) EXCEPT !.job = "none", !.done = FALSE,
                                                !.dialog = "none", !.holds = FALSE]
          /\ queue' = Released(queue)
          /\ second' \in {second} \cup (Vault \ {active})
       \/ /\ screen.job \in {"delete", "export"} /\ screen.kind = "gallery"
          /\ screen' = [Relisted(screen) EXCEPT !.job = "none", !.done = FALSE]
          /\ queue' = Exclusive(queue, FALSE) /\ second' = second
       \/ /\ screen.job \in {"delete", "export"} /\ screen.kind = "collection"
          /\ screen' = [screen EXCEPT !.job = "none", !.done = FALSE,
                           !.listing = IF screen.job = "delete" THEN "current" ELSE @,
                           !.holds = screen.holds /\ screen.dialog = "transfer"]
          /\ queue' = IF screen.dialog = "transfer" THEN queue ELSE Released(queue)
          /\ second' = second
    /\ UNCHANGED <<folder, imports>>

\* A running job is only polled, but a collection releases what a delete held.
ScreenJobRuns ==
    /\ screen.job # "none" /\ ~screen.done
    /\ LET lets == screen.kind = "collection" /\ screen.dialog # "transfer" IN
         /\ queue' = IF lets THEN Released(queue) ELSE queue
         /\ screen' = [screen EXCEPT !.holds = screen.holds /\ ~lets]
    /\ UNCHANGED <<second, folder, imports>>

\* No job: a dialog that was closed releases its hold, and a picker's answer
\* enqueues an import or starts an export.
ScreenIdles ==
    /\ screen.job = "none"
    /\ LET closed == screen.dialog # "transfer"
           q == IF closed THEN Released(queue) ELSE queue
           s == [screen EXCEPT !.holds = screen.holds /\ ~closed]
       IN \/ queue' = q /\ screen' = s /\ UNCHANGED <<folder, imports>>
          \/ /\ screen.kind = "gallery" /\ closed /\ imports < MaxImports /\ q.task = "none"
             /\ imports' = imports + 1
             /\ queue' = [q EXCEPT !.task = "queued", !.armed = TRUE]
             /\ screen' = s /\ UNCHANGED folder
          \/ /\ Listing /\ folder = "export" /\ folder' = "none"
             /\ \/ screen' = [s EXCEPT !.job = "export"]
                \/ screen' = s
             /\ queue' = q /\ UNCHANGED imports
    /\ UNCHANGED second

\* Screen::update, paused while an upgrade or maintenance owns the vault.
UpdateScreen ==
    /\ phase = "screen" /\ To("upkeep")
    /\ \/ /\ upgrade # "idle" \/ upkeep # "idle"
          /\ UNCHANGED <<screen, queue, second, folder, imports>>
       \/ /\ upgrade = "idle" /\ upkeep = "idle"
          /\ ScreenJobEnds \/ ScreenJobRuns \/ ScreenIdles
    /\ UNCHANGED <<active, pending, session, settings, modal, workers>>

\* The warm slot's window ran out; a job or the imports defer it.
SecondTicks == second' \in {second} \cup (IF Blocks \/ Busy THEN {} ELSE {None})

\* A backup folder was picked, or maintenance has ended.
UpdateUpkeep ==
    /\ phase = "upkeep" /\ To("upgrade") /\ SecondTicks
    /\ \/ /\ folder = "backup" /\ folder' = "none"
          /\ \/ /\ active # None
                /\ settings' = FALSE /\ queue' = Exclusive(queue, TRUE) /\ upkeep' = "running"
             \/ UNCHANGED <<settings, queue, upkeep>>
          /\ UNCHANGED screen
       \/ /\ upkeep = "done" /\ upkeep' = "idle"
          /\ queue' = Exclusive(queue, FALSE) /\ settings' = TRUE /\ screen' = Relisted(screen)
          /\ UNCHANGED folder
       \/ upkeep # "done" /\ UNCHANGED <<settings, queue, upkeep, screen, folder>>
    /\ UNCHANGED <<active, pending, session, modal, upgrade, imports>>

\* ImportQueue::begin_session.
Begun(q, v) == [NoQueue EXCEPT !.bound = v, !.live = TRUE, !.save = q.save]

\* The modals once the coordinator's outcome is taken.
Settled(m) == (m \ {"progress"}) \cup {"result"}

\* A session may begin once no upgrade is offered or running.
Begins(m, u) == needBegin /\ active # None /\ m \cap {"offer", "progress"} = {} /\ u = "idle"

UpdateUpgrade ==
    /\ phase = "upgrade" /\ To("drain")
    /\ LET ends == upgrade = "done"
           m == IF ends THEN Settled(modal) ELSE modal
           u == IF ends THEN "idle" ELSE upgrade
           q == IF ends THEN Exclusive(queue, FALSE) ELSE queue
       IN /\ modal' = m /\ upgrade' = u
          /\ screen' = IF ends /\ active # None THEN Relisted(screen) ELSE screen
          /\ queue' = IF Begins(m, u) THEN Begun(q, active) ELSE q
          /\ needBegin' = (needBegin /\ ~Begins(m, u))
    /\ UNCHANGED <<vaults, confirm, replay, settings, folder, upkeep, imports>>

\* When a frame may attach records: ImportQueue::drain and its call.
\* Variant: a job of the screen does not hold the drain back.
MayDrainUnderJob ==
    /\ active # None /\ upkeep = "idle" /\ queue.bound # None /\ ~queue.exclusive

MayDrain ==
    /\ active # None /\ upkeep = "idle" /\ ~Blocks
    /\ queue.bound # None /\ ~queue.exclusive

\* The screen once records were attached to the tree.
Redrawn(saved) == [screen EXCEPT !.listing = IF saved THEN "changed" ELSE "current"]

\* What is staged is attached; a save starts when the policy says so, or when
\* the batch has ended, and then the screen is told by poll_save.
Drain ==
    /\ phase = "drain" /\ To("lock")
    /\ \/ ~MayDrain /\ UNCHANGED <<queue, screen>>
       \/ /\ MayDrain
          /\ \E due \in {FALSE, queue.staged} :
               LET idle == queue.task = "none"
                   starts == due \/ (idle /\ queue.armed)
               IN /\ queue' = [queue EXCEPT !.staged = FALSE, !.armed = ~idle,
                                            !.save = IF starts THEN "running" ELSE "idle"]
                  /\ screen' = IF queue.staged THEN Redrawn(starts) ELSE screen
    /\ UNCHANGED <<vaults, session, overlays, workers, imports>>

-----------------------------------------------------------------------------
(***************************************************************************)
(* The end of a frame: maybe_auto_lock, then apply_nav.                    *)
(***************************************************************************)

\* should_auto_lock, when the idle timer has run out.
\* Variant: pending imports do not keep the vault open.
IdleLockAnyway == active # None /\ ~Blocks /\ upgrade = "idle" /\ upkeep = "idle"

MayIdleLock == active # None /\ ~Blocks /\ ~Busy /\ upgrade = "idle" /\ upkeep = "idle"

\* Variant: the screen of the locked vault stays.
StaleScreen == screen

LockedScreen == NewScreen("manager")

AutoLock ==
    /\ phase = "lock" /\ To("nav")
    /\ MayIdleLock
    /\ queue' = Ended(IF "offer" \in modal THEN Exclusive(queue, FALSE) ELSE Released(queue))
    /\ modal' = modal \ {"offer"}
    /\ active' = None /\ screen' = LockedScreen
    /\ UNCHANGED <<pending, second, session, settings, folder, workers, imports>>

NoAutoLock ==
    /\ phase = "lock" /\ To("nav")
    /\ UNCHANGED <<screen, vaults, queue, session, overlays, workers, imports>>

\* The navigation of this frame: a replayed one first.
Chosen == IF replay # Stay THEN replay ELSE screen.nav
Taken == IF replay # Stay THEN screen ELSE [screen EXCEPT !.nav = Stay]

\* What is left to replay once the navigation was taken.
\* Variant: the replayed navigation is not consumed.
Unconsumed == replay

Consumed == Stay

Resolve == phase = "nav" /\ upkeep = "idle" /\ ~Saving

\* Locking, switching and quitting wait for the user while imports are pending.
Parks == Chosen.kind \in {"lock", "unlock", "quit"} /\ Busy /\ confirm = Stay

\* promote_pending: the old vault is locked, its upgrade stopped, and imports
\* begin once the new vault's upgrade, if one is offered, is out of the way.
Promote(v, q) ==
    /\ active' = v /\ pending' = None /\ second' = None
    /\ upgrade' = "idle" /\ needBegin' = TRUE
    /\ \/ modal' = {} /\ queue' = q
       \/ modal' = {"offer"} /\ queue' = Exclusive(q, TRUE)
    /\ screen' = NewScreen("gallery")

NavBlocked ==
    /\ phase = "nav" /\ (upkeep # "idle" \/ Saving) /\ To("events")
    /\ UNCHANGED <<screen, vaults, queue, session, overlays, workers, imports>>

NavParks ==
    /\ Resolve /\ Parks /\ To("events")
    /\ confirm' = Chosen /\ replay' = Consumed /\ screen' = Taken
    /\ UNCHANGED <<vaults, queue, needBegin, overlays, workers, imports>>

\* What stays on the screen: nothing asked, the settings, the warm slot.
NavStays ==
    /\ Resolve /\ To("events") /\ Chosen.kind \in {"none", "settings", "lockSecond"}
    /\ replay' = Consumed /\ screen' = Taken
    /\ settings' = (settings \/ Chosen.kind = "settings")
    /\ second' = IF Chosen.kind = "lockSecond" THEN None ELSE second
    /\ UNCHANGED <<active, pending, queue, needBegin, confirm, folder, modal, workers, imports>>

\* ToGallery: from the unlock screen it promotes the vault that was unlocked.
NavToGallery ==
    /\ Resolve /\ To("events") /\ Chosen.kind = "gallery"
    /\ replay' = Consumed
    /\ \/ /\ screen.kind = "unlock" /\ Promote(pending, queue)
       \/ /\ screen.kind # "unlock"
          /\ screen' = NewScreen(IF active = None THEN "manager" ELSE "gallery")
          /\ queue' = Released(queue)
          /\ UNCHANGED <<vaults, needBegin, modal, upgrade>>
    /\ UNCHANGED <<confirm, settings, folder, upkeep, imports>>

NavToScreen ==
    /\ Resolve /\ To("events") /\ Chosen.kind \in {"collection", "manager"}
    /\ replay' = Consumed /\ screen' = NewScreen(Chosen.kind) /\ queue' = Released(queue)
    /\ pending' = IF Chosen.kind = "manager" THEN None ELSE pending
    /\ UNCHANGED <<active, second, needBegin, confirm, overlays, workers, imports>>

\* ToUnlock: the session ends; the warm vault is promoted without a password.
NavToUnlock ==
    /\ Resolve /\ ~Parks /\ To("events") /\ Chosen.kind = "unlock"
    /\ replay' = Consumed
    /\ \/ second = Chosen.to /\ Promote(second, Ended(Released(queue)))
       \/ /\ second # Chosen.to /\ pending' = Chosen.to
          /\ screen' = NewScreen("unlock") /\ queue' = Ended(Released(queue))
          /\ UNCHANGED <<active, second, needBegin, modal, upgrade>>
    /\ UNCHANGED <<confirm, settings, folder, upkeep, imports>>

\* LockActive: everything is locked, the warm slot too.
NavLock ==
    /\ Resolve /\ ~Parks /\ To("events") /\ Chosen.kind = "lock"
    /\ replay' = Consumed /\ screen' = NewScreen("manager")
    /\ second' = None /\ active' = None /\ queue' = Ended(Released(queue))
    /\ UNCHANGED <<pending, needBegin, confirm, overlays, workers, imports>>

NavQuit == Resolve /\ ~Parks /\ Chosen.kind = "quit" /\ Shutdown

Navigate ==
    \/ NavBlocked \/ NavParks \/ NavStays \/ NavToGallery \/ NavToScreen
    \/ NavToUnlock \/ NavLock \/ NavQuit

\* The program is started again.
Launch ==
    /\ phase = "stopped" /\ phase' = "events"
    /\ UNCHANGED <<keys, screen, vaults, queue, session, overlays, workers, imports>>

-----------------------------------------------------------------------------
(***************************************************************************)
(* The workers.                                                            *)
(***************************************************************************)

\* A screen's worker ends; a delete or a transfer has changed the tree.
JobEnds ==
    /\ screen.job # "none" /\ ~screen.done
    /\ screen' = [screen EXCEPT !.done = TRUE,
                     !.listing = IF screen.job \in {"delete", "transfer"} THEN "changed" ELSE @]
    /\ UNCHANGED <<frame, vaults, queue, session, overlays, workers, imports>>

\* The coordinator ends (a full pass, cancelled, or failed): the tree is another.
UpgradeEnds ==
    /\ upgrade = "running" /\ upgrade' = "done"
    /\ screen' = [screen EXCEPT !.listing = "changed"]
    /\ UNCHANGED <<frame, vaults, queue, session, overlays, upkeep, imports>>

UpkeepEnds ==
    /\ upkeep = "running" /\ upkeep' = "done"
    /\ screen' = [screen EXCEPT !.listing = "changed"]
    /\ UNCHANGED <<frame, vaults, queue, session, overlays, upgrade, imports>>

\* The import worker takes the task unless imports are held off.
TaskStarts ==
    /\ queue.task = "queued" /\ queue.live /\ ~queue.exclusive
    /\ queue' = [queue EXCEPT !.task = "running"]
    /\ UNCHANGED <<frame, screen, vaults, session, overlays, workers, imports>>

\* It ends with records posted, or without any.
TaskEnds ==
    /\ queue.task = "running"
    /\ \E posted \in BOOLEAN :
          queue' = [queue EXCEPT !.task = "none", !.staged = queue.staged \/ posted]
    /\ UNCHANGED <<frame, screen, vaults, session, overlays, workers, imports>>

SaveEnds ==
    /\ queue.save = "running" /\ queue' = [queue EXCEPT !.save = "done"]
    /\ UNCHANGED <<frame, screen, vaults, session, overlays, workers, imports>>

Frame ==
    \/ PollSave \/ UpdateScreen \/ UpdateUpkeep \/ UpdateUpgrade \/ Drain
    \/ NoAutoLock \/ Navigate \/ Launch

Person ==
    \/ QuitDuringSave \/ QuitAsks \/ QuitNow \/ ConfirmLock \/ CancelLock
    \/ ToggleSettings \/ RequestUpgrade \/ RequestUpkeep \/ RequestBackup
    \/ CloseResult \/ AcceptUpgrade \/ DismissUpgrade
    \/ ManagerKey \/ UnlockKey \/ ListingNav \/ AskDelete \/ AnswerDelete
    \/ OpenTransfer \/ AnswerTransfer \/ AskExport

Next ==
    \/ Frame \/ Person \/ AutoLock
    \/ JobEnds \/ UpgradeEnds \/ UpkeepEnds \/ TaskStarts \/ TaskEnds \/ SaveEnds

Spec == Init /\ [][Next]_vars

\* The loop runs while the program does and every worker that runs ends.
FairSpec ==
    /\ Spec /\ WF_vars(Frame)
    /\ WF_vars(JobEnds) /\ WF_vars(UpgradeEnds) /\ WF_vars(UpkeepEnds)
    /\ WF_vars(TaskStarts) /\ WF_vars(TaskEnds) /\ WF_vars(SaveEnds)

-----------------------------------------------------------------------------
(***************************************************************************)
(* Properties.                                                             *)
(***************************************************************************)

\* The type invariant: a session, a coordinator or a listing has its vault, and
\* only a running screen job can have ended.
TypeOK ==
    /\ phase \in {"events", "screen", "upkeep", "upgrade", "drain", "lock", "nav", "stopped"}
    /\ keys \in 0 .. MaxKeys /\ imports \in 0 .. MaxImports
    /\ screen \in Screen /\ queue \in Queue
    /\ active \in Slot /\ pending \in Slot /\ second \in Slot
    /\ needBegin \in BOOLEAN /\ confirm \in Nav /\ replay \in Nav
    /\ settings \in BOOLEAN /\ folder \in {"none", "export", "backup"}
    /\ modal \subseteq {"offer", "progress", "result"}
    /\ upgrade \in Worker /\ upkeep \in Worker
    /\ Listing => active # None
    /\ screen.kind = "unlock" => pending # None
    /\ screen.done => screen.job # "none"

\* Whether render_frame draws the screen's own listing.
Draws == Listing /\ screen.job = "none" /\ upgrade = "idle" /\ upkeep = "idle" /\ ~Saving

\* screen.h: a screen that caches nodes is told of a changed tree "BEFORE the
\* next render".  A listing that a job, maintenance, an upgrade or a drain has
\* made old, whenever it ended, is never drawn.
FrameShowsCurrentTree == Draws => screen.listing # "changed"

\* The import session is that of the unlocked vault, or one that begin_session
\* will replace before it takes anything up: no session outlives the lock of its
\* vault, and a vault switched away from leaves none behind.
SessionFollowsVault == queue.bound # None => queue.bound = active \/ needBegin

\* While the save worker owns the tree (request_save to poll_save) no job of a
\* blocking screen and no maintenance works on it, although both start from
\* picker answers and keys that arrive in any frame.
SaveOwnsTheTree == Saving => ~Blocks /\ upkeep = "idle"

\* Imports in flight are not locked away without a warning: while they are
\* pending and were not given up (ConfirmLock), the idle timer does not lock the
\* vault, and a navigation locks or replaces it only over an open warning, which
\* may be about another navigation (apply_nav tests lock_confirm.open).
WarnsBeforeLocking ==
    [][active # None /\ active' # active /\ phase' # "stopped"
         => ~Busy \/ ~queue.live \/ (phase = "nav" /\ confirm # Stay)]_vars

\* A navigation that waited for a save or for the user's consent is resolved:
\* neither saves nor maintenance keep it waiting for ever.
ReplayResolved == (replay # Stay) ~> (replay = Stay)

-----------------------------------------------------------------------------
(***************************************************************************)
(* What the comments of the code say and the code does not do.             *)
(***************************************************************************)

\* screen.h: locking under a screen's job "would wipe the master key mid-write
\* and corrupt the vault".  The vault is locked only when no writing job of the
\* screen works on it (shutdown joins them all first).
LocksQuiescentVault ==
    [][active # None /\ active' # active /\ phase' # "stopped"
         => (screen.job \in {"delete", "transfer"} => screen.done)]_vars
=============================================================================
