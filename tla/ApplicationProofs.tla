------------------------- MODULE ApplicationProofs -------------------------
(***************************************************************************)
(* What Application keeps for every set of vaults and every bound: a save  *)
(* worker owns the tree, a changed tree is listed anew before it is drawn, *)
(* and the import session ends with its vault and not before its imports.  *)
(***************************************************************************)
EXTENDS Application, TLAPS

\* A save is started at the end of a frame's update and polled at the start of
\* the next one's: between the two the frame is nowhere else.
SaveSpansFrames == Saving => phase \in {"events", "lock", "nav"}

\* The fields that steps replace one by one are there.
Shape == {"kind", "job"} \subseteq DOMAIN screen /\ {"save"} \subseteq DOMAIN queue

Inv == Shape /\ SaveSpansFrames /\ SaveOwnsTheTree

\* At the start no save runs.
LEMMA InitInv == Init => Inv
BY DEF Init, Inv, Shape, SaveSpansFrames, SaveOwnsTheTree, Saving, NoQueue, NewScreen

\* Where no save runs after a step, only the shape is left to show.
LEMMA UnsavedInv == Shape' /\ ~Saving' => Inv'
BY DEF Inv, SaveSpansFrames, SaveOwnsTheTree

\* What a hold, a release, abort_and_flush and end_session leave of a queue.
LEMMA QueueShapes ==
    ASSUME NEW q, "save" \in DOMAIN q
    PROVE  /\ \A held : "save" \in DOMAIN Exclusive(q, held) /\ Exclusive(q, held).save = q.save
           /\ "save" \in DOMAIN Released(q) /\ Released(q).save = q.save
           /\ "save" \in DOMAIN Aborted(q) /\ Aborted(q).save \in {q.save, "idle"}
           /\ "save" \in DOMAIN Ended(q) /\ Ended(q).save \in {q.save, "idle"}
BY DEF Exclusive, Released, Ended, Aborted

\* A step that keeps the queue or only holds or releases it, and keeps the
\* screen or replaces fields of it, starts no save.
LEMMA QuietStep ==
    ASSUME Shape, ~Saving,
           "kind" \in DOMAIN screen', "job" \in DOMAIN screen',
           \/ queue' = queue
           \/ \E held : queue' = Exclusive(queue, held)
           \/ queue' = Released(queue)
           \/ queue' = Aborted(queue)
    PROVE  Inv'
<1>1. "save" \in DOMAIN queue /\ queue.save = "idle"
  BY DEF Shape, Saving
<1>2. "save" \in DOMAIN queue' /\ queue'.save = "idle"
  BY <1>1, QueueShapes
<1>. QED BY <1>2, UnsavedInv DEF Shape, Saving

\* An event that reaches the program while no save runs starts none.
LEMMA PersonInv == Inv /\ Person => Inv'
<1>. SUFFICES ASSUME Inv, Person PROVE Inv'
  OBVIOUS
<1>0. "kind" \in DOMAIN screen /\ "job" \in DOMAIN screen /\ Shape
  BY DEF Inv, Shape
<1>1. CASE QuitDuringSave
  BY <1>1 DEF QuitDuringSave, Key, Inv, Shape, SaveSpansFrames, SaveOwnsTheTree, Saving, Blocks, workers
<1>2. CASE QuitAsks
  BY <1>2, <1>0, QuietStep DEF QuitAsks, Input
<1>3. CASE QuitNow
  BY <1>3, UnsavedInv DEF QuitNow, Shutdown, NewScreen, NoQueue, Saving, Shape
<1>4. CASE ConfirmLock
  BY <1>4, <1>0, QuietStep DEF ConfirmLock, Input
<1>5. CASE CancelLock
  BY <1>5, <1>0, QuietStep DEF CancelLock, Input
<1>6. CASE ToggleSettings
  BY <1>6, <1>0, QuietStep DEF ToggleSettings, SettingsInput, Input
<1>7. CASE RequestUpgrade
  BY <1>7, <1>0, QuietStep DEF RequestUpgrade, SettingsInput, Input
<1>8. CASE RequestUpkeep
  BY <1>8, <1>0, QuietStep DEF RequestUpkeep, SettingsInput, Input
<1>9. CASE RequestBackup
  BY <1>9, <1>0, QuietStep DEF RequestBackup, SettingsInput, Input
<1>10. CASE CloseResult \/ AcceptUpgrade \/ DismissUpgrade
  BY <1>10, <1>0, QuietStep
  DEF CloseResult, AcceptUpgrade, DismissUpgrade, ModalInput, SettingsInput, Input
<1>11. CASE ManagerKey
  BY <1>11, <1>0, QuietStep DEF ManagerKey, ScreenInput, Input, Asks
<1>12. CASE UnlockKey
  BY <1>12, <1>0, QuietStep DEF UnlockKey, ScreenInput, Input, Asks
<1>13. CASE ListingNav
  BY <1>13, <1>0, QuietStep DEF ListingNav, ListingInput, ScreenInput, Input, Asks
<1>14. CASE AskDelete \/ AskExport
  BY <1>14, <1>0, QuietStep DEF AskDelete, AskExport, ListingInput, ScreenInput, Input
<1>15. CASE AnswerDelete \/ OpenTransfer \/ AnswerTransfer
  BY <1>15, <1>0, QuietStep
  DEF AnswerDelete, OpenTransfer, AnswerTransfer, ListingInput, ScreenInput, Input
<1>. QED
  BY <1>1, <1>2, <1>3, <1>4, <1>5, <1>6, <1>7, <1>8, <1>9, <1>10, <1>11, <1>12, <1>13,
     <1>14, <1>15 DEF Person

\* Screen::update runs after poll_save has taken a finished save: no save runs.
LEMMA UpdateScreenInv == Inv /\ UpdateScreen => Inv'
<1>. SUFFICES ASSUME Inv, UpdateScreen PROVE Inv'
  OBVIOUS
<1>1. /\ "kind" \in DOMAIN screen /\ "job" \in DOMAIN screen /\ Shape /\ ~Saving
      /\ "save" \in DOMAIN queue /\ queue.save = "idle"
  BY DEF Inv, Shape, SaveSpansFrames, Saving, UpdateScreen
<1>2. CASE UNCHANGED <<screen, queue>>
  BY <1>1, <1>2, QuietStep
<1>3. CASE ScreenJobEnds
  BY <1>1, <1>3, QuietStep DEF ScreenJobEnds, Relisted
<1>4. CASE ScreenJobRuns
  BY <1>1, <1>4, QuietStep DEF ScreenJobRuns
<1>5. CASE ScreenIdles
  <2> DEFINE q == IF screen.dialog # "transfer" THEN Released(queue) ELSE queue
  <2>1. "save" \in DOMAIN q /\ q.save = "idle"
    BY <1>1, QueueShapes
  <2> HIDE DEF q
  <2>2. queue' = q \/ queue' = [q EXCEPT !.task = "queued", !.armed = TRUE]
    BY <1>5 DEF ScreenIdles, q
  <2>3. "kind" \in DOMAIN screen' /\ "job" \in DOMAIN screen'
    BY <1>1, <1>5 DEF ScreenIdles
  <2>. QED BY <2>1, <2>2, <2>3, UnsavedInv DEF Shape, Saving
<1>. QED BY <1>2, <1>3, <1>4, <1>5 DEF UpdateScreen

\* Nor do maintenance, the upgrade's outcome or a new session start one, although
\* a backup folder's answer starts maintenance in the middle of the frame.
LEMMA UpdateJobsInv == Inv /\ (UpdateUpkeep \/ UpdateUpgrade) => Inv'
<1>. SUFFICES ASSUME Inv, UpdateUpkeep \/ UpdateUpgrade PROVE Inv'
  OBVIOUS
<1>1. /\ "kind" \in DOMAIN screen /\ "job" \in DOMAIN screen /\ Shape /\ ~Saving
      /\ "save" \in DOMAIN queue /\ queue.save = "idle"
  BY DEF Inv, Shape, SaveSpansFrames, Saving, UpdateUpkeep, UpdateUpgrade
<1>2. CASE UpdateUpkeep
  BY <1>1, <1>2, QuietStep DEF UpdateUpkeep, Relisted
<1>3. CASE UpdateUpgrade
  <2> DEFINE q == IF upgrade = "done" THEN Exclusive(queue, FALSE) ELSE queue
  <2>1. "save" \in DOMAIN q /\ q.save = "idle"
    BY <1>1, QueueShapes
  <2> HIDE DEF q
  <2>2. queue' = q \/ queue' = Begun(q, active)
    BY <1>3 DEF UpdateUpgrade, q
  <2>3. "kind" \in DOMAIN screen' /\ "job" \in DOMAIN screen'
    BY <1>1, <1>3 DEF UpdateUpgrade, Relisted
  <2>. QED BY <2>1, <2>2, <2>3, UnsavedInv DEF Shape, Saving, Begun, NoQueue
<1>. QED BY <1>2, <1>3

\* poll_save either waits, and the frame skips the rest of its update, or takes
\* the finished save.
LEMMA PollSaveInv == Inv /\ PollSave => Inv'
<1>. SUFFICES ASSUME Inv, PollSave PROVE Inv'
  OBVIOUS
<1>1. CASE queue.save = "running"
  BY <1>1 DEF Inv, Shape, SaveSpansFrames, SaveOwnsTheTree, Saving, Blocks, PollSave, To, workers
<1>2. CASE queue.save # "running"
  <2>1. "save" \in DOMAIN queue' /\ queue'.save = "idle"
    BY <1>2 DEF Inv, Shape, PollSave
  <2>2. "kind" \in DOMAIN screen' /\ "job" \in DOMAIN screen'
    BY <1>2 DEF Inv, Shape, PollSave, Polled, Relisted
  <2>. QED BY <2>1, <2>2, UnsavedInv DEF Shape, Saving
<1>. QED BY <1>1, <1>2

\* A drain starts a save only where no job of the screen and no maintenance works
\* on the tree, and ends the frame's update.
LEMMA DrainInv == Inv /\ Drain => Inv'
<1>. SUFFICES ASSUME Inv, Drain PROVE Inv'
  OBVIOUS
<1>1. /\ "kind" \in DOMAIN screen /\ "job" \in DOMAIN screen /\ Shape /\ ~Saving
      /\ "save" \in DOMAIN queue
  BY DEF Inv, Shape, SaveSpansFrames, Saving, Drain
<1>2. CASE ~MayDrain
  BY <1>1, <1>2, QuietStep DEF Drain
<1>3. CASE MayDrain
  <2>1. PICK starts : /\ queue' = [queue EXCEPT !.staged = FALSE, !.armed = ~(queue.task = "none"),
                                       !.save = IF starts THEN "running" ELSE "idle"]
                      /\ screen' = IF queue.staged THEN Redrawn(starts) ELSE screen
    BY <1>3 DEF Drain
  <2>2. "save" \in DOMAIN queue'
    BY <1>1, <2>1
  <2>3. /\ "kind" \in DOMAIN screen' /\ "job" \in DOMAIN screen'
        /\ screen'.kind = screen.kind /\ screen'.job = screen.job
    BY <1>1, <2>1 DEF Redrawn
  <2>4. phase' = "lock" /\ upkeep' = "idle" /\ ~Blocks'
    BY <1>3, <2>3 DEF Drain, MayDrain, To, Blocks, workers
  <2>. QED BY <2>2, <2>3, <2>4 DEF Inv, Shape, SaveSpansFrames, SaveOwnsTheTree
<1>. QED BY <1>2, <1>3

\* Locking and navigating end a save's session or wait for it, and start no job.
LEMMA FrameEndInv == Inv /\ (AutoLock \/ NoAutoLock \/ Navigate \/ Launch) => Inv'
<1>. SUFFICES ASSUME Inv, AutoLock \/ NoAutoLock \/ Navigate \/ Launch PROVE Inv'
  OBVIOUS
<1>1. /\ "kind" \in DOMAIN screen /\ "job" \in DOMAIN screen /\ Shape
      /\ "save" \in DOMAIN queue
  BY DEF Inv, Shape
<1>2. CASE AutoLock
  <2>1. queue.save = "idle"
    BY <1>2 DEF AutoLock, MayIdleLock, Busy, Saving
  <2> DEFINE q == IF "offer" \in modal THEN Exclusive(queue, FALSE) ELSE Released(queue)
  <2>2. "save" \in DOMAIN q /\ q.save = "idle"
    BY <1>1, <2>1, QueueShapes
  <2> HIDE DEF q
  <2>3. "save" \in DOMAIN Ended(q) /\ Ended(q).save = "idle"
    BY <2>2, QueueShapes
  <2>4. queue' = Ended(q) /\ screen' = NewScreen("manager")
    BY <1>2 DEF AutoLock, LockedScreen, q
  <2>. QED BY <2>3, <2>4, UnsavedInv DEF Shape, Saving, NewScreen
<1>3. CASE NoAutoLock \/ NavBlocked \/ Launch
  BY <1>3 DEF NoAutoLock, NavBlocked, Launch, Inv, Shape, SaveSpansFrames, SaveOwnsTheTree,
              Saving, Blocks, To, workers
<1>4. ASSUME Resolve PROVE ~Saving /\ queue.save = "idle"
  BY <1>4 DEF Resolve, Saving
<1>5. CASE NavParks \/ NavStays
  BY <1>1, <1>4, <1>5, QuietStep DEF NavParks, NavStays, Taken
<1>6. ASSUME NEW v, NEW q, "save" \in DOMAIN q, q.save = "idle", Promote(v, q) PROVE Inv'
  <2>1. "save" \in DOMAIN queue' /\ queue'.save = "idle"
    BY <1>6, QueueShapes DEF Promote
  <2>2. "kind" \in DOMAIN screen' /\ "job" \in DOMAIN screen'
    BY <1>6 DEF Promote, NewScreen
  <2>. QED BY <2>1, <2>2, UnsavedInv DEF Shape, Saving
<1>7. CASE NavToGallery
  <2>1. CASE Promote(pending, queue)
    BY <1>1, <1>4, <1>6, <1>7, <2>1 DEF NavToGallery
  <2>2. CASE queue' = Released(queue) /\ \E k : screen' = NewScreen(k)
    BY <1>1, <1>4, <1>7, <2>2, QuietStep DEF NavToGallery, NewScreen
  <2>. QED BY <1>7, <2>1, <2>2 DEF NavToGallery
<1>8. CASE NavToScreen
  BY <1>1, <1>4, <1>8, QuietStep DEF NavToScreen, NewScreen
<1>9. ASSUME Resolve PROVE "save" \in DOMAIN Ended(Released(queue)) /\ Ended(Released(queue)).save = "idle"
  <2>1. "save" \in DOMAIN Released(queue) /\ Released(queue).save = "idle"
    BY <1>1, <1>4, <1>9, QueueShapes
  <2>. QED BY <2>1, QueueShapes
<1>10. CASE NavToUnlock
  <2>1. CASE Promote(second, Ended(Released(queue)))
    BY <1>6, <1>9, <1>10, <2>1 DEF NavToUnlock
  <2>2. CASE queue' = Ended(Released(queue)) /\ screen' = NewScreen("unlock")
    BY <1>9, <1>10, <2>2, UnsavedInv DEF NavToUnlock, NewScreen, Shape, Saving
  <2>. QED BY <1>10, <2>1, <2>2 DEF NavToUnlock
<1>11. CASE NavLock
  BY <1>9, <1>11, UnsavedInv DEF NavLock, NewScreen, Shape, Saving
<1>12. CASE NavQuit
  BY <1>12, UnsavedInv DEF NavQuit, Shutdown, NewScreen, NoQueue, Saving, Shape
<1>. QED BY <1>2, <1>3, <1>5, <1>7, <1>8, <1>10, <1>11, <1>12 DEF Navigate

\* A worker that ends starts nothing.
LEMMA WorkerInv ==
    Inv /\ (JobEnds \/ UpgradeEnds \/ UpkeepEnds \/ TaskStarts \/ TaskEnds \/ SaveEnds) => Inv'
<1>. USE DEF Inv, Shape, SaveSpansFrames, SaveOwnsTheTree, Saving, Blocks, frame, workers
<1>1. Inv /\ JobEnds => Inv'
  BY DEF JobEnds
<1>2. Inv /\ (UpgradeEnds \/ UpkeepEnds) => Inv'
  BY DEF UpgradeEnds, UpkeepEnds
<1>3. Inv /\ (TaskStarts \/ SaveEnds) => Inv'
  BY DEF TaskStarts, SaveEnds
<1>4. Inv /\ TaskEnds => Inv'
  BY DEF TaskEnds
<1>. QED BY <1>1, <1>2, <1>3, <1>4

\* A step keeps the invariant.
LEMMA NextInv == Inv /\ [Next]_vars => Inv'
<1>1. Inv /\ UNCHANGED vars => Inv'
  BY DEF Inv, Shape, SaveSpansFrames, SaveOwnsTheTree, Saving, Blocks, vars, frame, workers
<1>. QED
  BY <1>1, PersonInv, UpdateScreenInv, UpdateJobsInv, PollSaveInv, DrainInv, FrameEndInv,
     WorkerInv DEF Next, Frame

\* The save worker owns the tree from request_save to poll_save, whatever the
\* user does, whichever worker ends when, and however many vaults, events and
\* imports there are (FairSpec implies Spec).
THEOREM SaveOwnsTheTreeTheorem == Spec => []SaveOwnsTheTree
<1>1. Inv => SaveOwnsTheTree
  BY DEF Inv
<1>. QED BY InitInv, NextInv, <1>1, PTL DEF Spec

-----------------------------------------------------------------------------
(***************************************************************************)
(* Types.                                                                  *)
(***************************************************************************)

\* A navigation that goes to the unlock screen names a vault.
Names(nav) == nav.kind = "unlock" => nav.to # None

\* Only what locks, switches or quits is parked, and only a gallery leads to a
\* collection: what is replayed frames later does not list a vault.
NavOK ==
    /\ screen.nav.kind = "collection" => screen.kind = "gallery"
    /\ Names(screen.nav) /\ Names(confirm) /\ Names(replay)
    /\ confirm.kind \in {"none", "lock", "unlock", "quit"}
    /\ replay.kind \in {"none", "lock", "unlock", "quit"}

TypeInv == TypeOK /\ NavOK

\* What of a queue a hold or a release changes.
Alike(p, q) ==
    /\ p \in Queue
    /\ p.bound = q.bound /\ p.live = q.live /\ p.task = q.task /\ p.staged = q.staged
    /\ p.armed = q.armed /\ p.save = q.save

\* What a hold, a release, abort_and_flush and end_session return.
LEMMA QueueTypes ==
    ASSUME NEW q \in Queue
    PROVE  /\ \A held \in BOOLEAN : Alike(Exclusive(q, held), q)
           /\ Alike(Released(q), q)
           /\ Aborted(q) \in Queue /\ Aborted(q).bound = q.bound /\ ~Aborted(q).live
           /\ Ended(q) \in Queue /\ Ended(q).bound = None /\ ~Ended(q).live
<1>1. \A held \in BOOLEAN : Alike(Exclusive(q, held), q)
  BY DEF Exclusive, Queue, Alike
<1>2. Alike(q, q)
  BY DEF Alike
<1>3. Alike(Released(q), q)
  BY <1>1, <1>2 DEF Released
<1>4. Aborted(q) \in Queue /\ Aborted(q).bound = q.bound /\ ~Aborted(q).live
  BY DEF Aborted, Queue, Worker
<1>5. Ended(q) \in Queue /\ Ended(q).bound = None /\ ~Ended(q).live
  BY <1>4 DEF Ended, Queue, Slot
<1>. QED BY <1>1, <1>3, <1>4, <1>5

\* A new screen and an empty queue have their types.
LEMMA NewTypes ==
    /\ \A k \in {"manager", "unlock", "gallery", "collection"} :
          /\ NewScreen(k) \in Screen /\ NewScreen(k).kind = k /\ NewScreen(k).nav = Stay
          /\ ~NewScreen(k).done /\ NewScreen(k).listing = "current"
    /\ NoQueue \in Queue
    /\ Stay \in Nav /\ Names(Stay) /\ Stay.kind = "none"
  BY DEF NewScreen, Screen, NoQueue, Queue, Worker, Slot, Stay, Go, Nav, Names

\* The state of the start and after a shutdown.
LEMMA InitTypes == Init => TypeInv
<1>. SUFFICES ASSUME Init PROVE TypeInv
  OBVIOUS
<1>1. screen \in Screen /\ screen.kind = "manager" /\ screen.nav = Stay /\ ~screen.done
  BY NewTypes DEF Init
<1>2. keys \in 0 .. MaxKeys /\ imports \in 0 .. MaxImports
  BY ApplicationAssumption DEF Init
<1>3. queue \in Queue /\ confirm \in Nav /\ replay \in Nav /\ NavOK
  BY <1>1, NewTypes DEF Init, NavOK
<1>. QED BY <1>1, <1>2, <1>3 DEF Init, TypeInv, TypeOK, Listing, Worker, Slot

LEMMA ShutdownTypes == TypeInv /\ Shutdown => TypeInv'
<1>. SUFFICES ASSUME TypeInv, Shutdown PROVE TypeInv'
  OBVIOUS
<1>1. screen' \in Screen /\ screen'.kind = "manager" /\ screen'.nav = Stay /\ ~screen'.done
  BY NewTypes DEF Shutdown
<1>2. keys' \in 0 .. MaxKeys /\ imports' \in 0 .. MaxImports
  BY ApplicationAssumption DEF Shutdown, TypeInv, TypeOK
<1>3. queue' \in Queue /\ confirm' \in Nav /\ replay' \in Nav /\ NavOK'
  BY <1>1, NewTypes DEF Shutdown, NavOK
<1>. QED BY <1>1, <1>2, <1>3 DEF Shutdown, TypeInv, TypeOK, Listing, Worker, Slot

\* A screen whose worker and navigation make sense.
ScreenOK(s) ==
    /\ s \in Screen /\ (s.done => s.job # "none") /\ Names(s.nav)
    /\ s.nav.kind = "collection" => s.kind = "gallery"

\* A navigation that may be parked.
Parked(nav) == nav \in Nav /\ Names(nav) /\ nav.kind \in {"none", "lock", "unlock", "quit"}

\* The types of the overlays and of the workers.
SidesOK ==
    /\ settings \in BOOLEAN /\ folder \in {"none", "export", "backup"}
    /\ modal \subseteq {"offer", "progress", "result"}
    /\ upgrade \in Worker /\ upkeep \in Worker

\* A step that keeps the unlocked vaults and the kind of the screen has to
\* account for what it changes only.
LEMMA SameVaults ==
    ASSUME TypeInv, ScreenOK(screen'), screen'.kind = screen.kind, queue' \in Queue,
           phase' \in {"events", "screen", "upkeep", "upgrade", "drain", "lock", "nav", "stopped"},
           keys' \in 0 .. MaxKeys, imports' \in 0 .. MaxImports,
           active' = active, pending' = pending, second' \in Slot, needBegin' \in BOOLEAN,
           Parked(confirm'), Parked(replay'), SidesOK'
    PROVE  TypeInv'
  BY DEF TypeInv, TypeOK, NavOK, ScreenOK, Parked, SidesOK, Listing

\* TypeInv, part by part.
LEMMA TypeParts ==
    TypeInv => /\ ScreenOK(screen) /\ queue \in Queue /\ SidesOK
               /\ Parked(confirm) /\ Parked(replay) /\ Parked(Stay)
  BY NewTypes DEF TypeInv, TypeOK, NavOK, ScreenOK, Parked, SidesOK

\* What dispatch_event does to the types of the screen.
LEMMA ScreenSteps ==
    ASSUME NEW s, ScreenOK(s)
    PROVE  /\ \A nav \in Nav : /\ Names(nav)
                               /\ nav.kind = "collection" => s.kind = "gallery"
                               => /\ ScreenOK([s EXCEPT !.nav = nav])
                                  /\ [s EXCEPT !.nav = nav].kind = s.kind
           /\ \A job \in {"delete", "transfer", "export", "kdf"} :
                 ScreenOK([s EXCEPT !.job = job]) /\ [s EXCEPT !.job = job].kind = s.kind
           /\ \A d \in {"none", "delete", "transfer"} :
                 ScreenOK([s EXCEPT !.dialog = d]) /\ [s EXCEPT !.dialog = d].kind = s.kind
           /\ \A h \in BOOLEAN :
                 ScreenOK([s EXCEPT !.holds = h]) /\ [s EXCEPT !.holds = h].kind = s.kind
           /\ \A l \in {"current", "changed", "flushed"} :
                 ScreenOK([s EXCEPT !.listing = l]) /\ [s EXCEPT !.listing = l].kind = s.kind
<1>. USE DEF ScreenOK, Screen
<1>1. ASSUME NEW nav \in Nav, Names(nav), nav.kind = "collection" => s.kind = "gallery"
      PROVE  ScreenOK([s EXCEPT !.nav = nav]) /\ [s EXCEPT !.nav = nav].kind = s.kind
  BY <1>1
<1>2. ASSUME NEW job \in {"delete", "transfer", "export", "kdf"}
      PROVE  ScreenOK([s EXCEPT !.job = job]) /\ [s EXCEPT !.job = job].kind = s.kind
  OBVIOUS
<1>3. ASSUME NEW d \in {"none", "delete", "transfer"}
      PROVE  ScreenOK([s EXCEPT !.dialog = d]) /\ [s EXCEPT !.dialog = d].kind = s.kind
  OBVIOUS
<1>4. ASSUME NEW h \in BOOLEAN
      PROVE  ScreenOK([s EXCEPT !.holds = h]) /\ [s EXCEPT !.holds = h].kind = s.kind
  OBVIOUS
<1>5. ASSUME NEW l \in {"current", "changed", "flushed"}
      PROVE  ScreenOK([s EXCEPT !.listing = l]) /\ [s EXCEPT !.listing = l].kind = s.kind
  OBVIOUS
<1>. HIDE DEF ScreenOK, Screen
<1>. QED BY <1>1, <1>2, <1>3, <1>4, <1>5, Zenon

\* Every event keeps the types.
LEMMA PersonTypes == TypeInv /\ Person => TypeInv'
<1>. SUFFICES ASSUME TypeInv, Person PROVE TypeInv'
  OBVIOUS
<1>1. /\ ScreenOK(screen) /\ queue \in Queue /\ SidesOK
      /\ Parked(confirm) /\ Parked(replay) /\ Parked(Stay)
  BY TypeParts
<1>2. /\ active \in Slot /\ pending \in Slot /\ second \in Slot /\ needBegin \in BOOLEAN
      /\ keys \in 0 .. MaxKeys /\ imports \in 0 .. MaxImports /\ MaxKeys \in Nat
  BY ApplicationAssumption DEF TypeInv, TypeOK
<1>3. ASSUME Key PROVE phase' = "events" /\ keys' \in 0 .. MaxKeys
  BY <1>2, <1>3 DEF Key
<1>4. /\ \A held \in BOOLEAN : Exclusive(queue, held) \in Queue
      /\ Aborted(queue) \in Queue
  BY <1>1, QueueTypes DEF Alike
<1>5. Parked(Go("quit"))
  BY DEF Parked, Go, Nav, Names, Slot
<1>6. \A v \in Vault : ToUnlock(v) \in Nav /\ Names(ToUnlock(v)) /\ ToUnlock(v).kind = "unlock"
  BY ApplicationAssumption DEF ToUnlock, Nav, Names, Slot
<1>7. \A k \in {"gallery", "collection", "manager", "lock", "lockSecond", "settings", "quit"} :
         Go(k) \in Nav /\ Names(Go(k)) /\ Go(k).kind = k
  BY DEF Go, Nav, Names, Slot
<1>8. ASSUME Key, ScreenOK(screen'), screen'.kind = screen.kind, queue' \in Queue,
             UNCHANGED <<vaults, needBegin, imports>>, Parked(confirm'), Parked(replay'), SidesOK'
      PROVE  TypeInv'
  BY <1>2, <1>3, <1>8, SameVaults DEF vaults
<1>9. CASE QuitDuringSave
  BY <1>1, <1>5, <1>8, <1>9 DEF QuitDuringSave, overlays, workers, SidesOK
<1>10. CASE QuitAsks
  BY <1>1, <1>5, <1>8, <1>10 DEF QuitAsks, Input, overlays, workers, SidesOK
<1>11. CASE QuitNow
  BY <1>11, ShutdownTypes DEF QuitNow
<1>12. CASE ConfirmLock
  <2>1. screen' = screen \/ screen' = [screen EXCEPT !.listing = "flushed"]
    BY <1>12 DEF ConfirmLock
  <2>2. ScreenOK(screen') /\ screen'.kind = screen.kind
    BY <1>1, <2>1, ScreenSteps
  <2>. QED BY <1>1, <1>4, <1>8, <1>12, <2>2 DEF ConfirmLock, Input, overlays, workers, SidesOK
<1>13. CASE CancelLock
  BY <1>1, <1>8, <1>13 DEF CancelLock, Input, overlays, workers, SidesOK
<1>14. CASE ToggleSettings \/ RequestUpgrade \/ RequestUpkeep \/ RequestBackup
  BY <1>1, <1>4, <1>8, <1>14
  DEF ToggleSettings, RequestUpgrade, RequestUpkeep, RequestBackup, SettingsInput, Input,
      session, overlays, workers, SidesOK, Worker
<1>15. CASE CloseResult \/ AcceptUpgrade \/ DismissUpgrade
  BY <1>1, <1>4, <1>8, <1>15
  DEF CloseResult, AcceptUpgrade, DismissUpgrade, ModalInput, SettingsInput, Input,
      session, overlays, workers, SidesOK, Worker
<1>16. ASSUME Input, ScreenOK(screen'), screen'.kind = screen.kind, queue' \in Queue,
              UNCHANGED <<vaults, session, overlays, workers, imports>>
       PROVE  TypeInv'
  BY <1>1, <1>8, <1>16 DEF Input, session, overlays, workers, SidesOK
<1>17. CASE ManagerKey
  <2>1. PICK nav \in Nav : Asks(nav) /\ Names(nav) /\ nav.kind # "collection"
    BY <1>6, <1>7, <1>17 DEF ManagerKey
  <2>2. ScreenOK(screen') /\ screen'.kind = screen.kind
    BY <1>1, <2>1, ScreenSteps DEF Asks
  <2>. QED BY <1>1, <1>16, <1>17, <2>2 DEF ManagerKey, ScreenInput
<1>18. CASE UnlockKey
  <2>1. ASSUME screen' = [screen EXCEPT !.job = "kdf"]
        PROVE  ScreenOK(screen') /\ screen'.kind = screen.kind
    BY <1>1, <2>1, ScreenSteps
  <2>2. ASSUME Asks(Go("manager"))
        PROVE  ScreenOK(screen') /\ screen'.kind = screen.kind
    BY <1>1, <1>7, <2>2, ScreenSteps DEF Asks
  <2>3. ScreenOK(screen') /\ screen'.kind = screen.kind
    BY <1>18, <2>1, <2>2 DEF UnlockKey
  <2>. QED BY <1>1, <1>16, <1>18, <2>3 DEF UnlockKey, ScreenInput
<1>19. CASE ListingNav
  <2>1. PICK nav \in Nav : Asks(nav) /\ Names(nav) /\ (nav.kind = "collection" => screen.kind = "gallery")
    BY <1>6, <1>7, <1>19 DEF ListingNav
  <2>2. ScreenOK(screen') /\ screen'.kind = screen.kind
    BY <1>1, <2>1, ScreenSteps DEF Asks
  <2>. QED BY <1>1, <1>16, <1>19, <2>2 DEF ListingNav, ListingInput, ScreenInput
<1>20. CASE AskDelete \/ OpenTransfer \/ AnswerTransfer \/ AnswerDelete
  <2>1. ScreenOK(screen') /\ screen'.kind = screen.kind
    BY <1>1, <1>20 DEF AskDelete, OpenTransfer, AnswerTransfer, AnswerDelete, ScreenOK, Screen
  <2>2. queue' \in Queue
    BY <1>1, <1>4, <1>20 DEF AskDelete, OpenTransfer, AnswerTransfer, AnswerDelete
  <2>. QED BY <1>16, <1>20, <2>1, <2>2
           DEF AskDelete, OpenTransfer, AnswerTransfer, AnswerDelete, ListingInput, ScreenInput
<1>21. CASE AskExport
  BY <1>1, <1>8, <1>21
  DEF AskExport, ListingInput, ScreenInput, Input, session, overlays, workers, SidesOK
<1>. QED
  BY <1>9, <1>10, <1>11, <1>12, <1>13, <1>14, <1>15, <1>17, <1>18, <1>19, <1>20, <1>21
  DEF Person

\* What the parts of App::update do to the types.
LEMMA UpdateTypes ==
    TypeInv /\ (PollSave \/ UpdateScreen \/ UpdateUpkeep \/ UpdateUpgrade \/ Drain) => TypeInv'
<1>. SUFFICES ASSUME TypeInv, PollSave \/ UpdateScreen \/ UpdateUpkeep \/ UpdateUpgrade \/ Drain
              PROVE  TypeInv'
  OBVIOUS
<1>1. /\ ScreenOK(screen) /\ queue \in Queue /\ SidesOK
      /\ Parked(confirm) /\ Parked(replay)
  BY TypeParts
<1>2. /\ active \in Slot /\ pending \in Slot /\ second \in Slot /\ needBegin \in BOOLEAN
      /\ keys \in 0 .. MaxKeys /\ imports \in 0 .. MaxImports
      /\ MaxKeys \in Nat /\ MaxImports \in Nat /\ 0 \in 0 .. MaxKeys
  BY ApplicationAssumption DEF TypeInv, TypeOK
<1>3. /\ \A held \in BOOLEAN : Exclusive(queue, held) \in Queue
      /\ Released(queue) \in Queue
  BY <1>1, QueueTypes DEF Alike
<1>4. ScreenOK(Relisted(screen)) /\ Relisted(screen).kind = screen.kind
  BY <1>1, ScreenSteps DEF Relisted
<1>5. CASE PollSave
  <2>1. queue' \in Queue
    BY <1>1, <1>5 DEF PollSave, Queue, Worker
  <2>2. ScreenOK(screen') /\ screen'.kind = screen.kind
    BY <1>1, <1>4, <1>5 DEF PollSave, Polled
  <2>3. phase' \in {"lock", "screen"} /\ keys' = 0
    BY <1>5 DEF PollSave, To
  <2>. QED
    BY <1>1, <1>2, <1>5, <2>1, <2>2, <2>3, SameVaults
    DEF PollSave, vaults, session, overlays, workers, SidesOK
<1>6. CASE UpdateScreen
  <2> DEFINE Works == queue' \in Queue /\ ScreenOK(screen') /\ screen'.kind = screen.kind
                      /\ second' \in Slot /\ imports' \in 0 .. MaxImports
                      /\ folder' \in {"none", "export", "backup"}
  <2>1. ASSUME UNCHANGED <<screen, queue, second, folder, imports>> PROVE Works
    BY <1>1, <1>2, <2>1 DEF SidesOK
  <2>2. ASSUME ScreenJobEnds PROVE Works
    <3>1. CASE screen.job = "kdf"
      <4>1. PICK nav \in {Stay, Go("gallery")} :
               screen' = [screen EXCEPT !.job = "none", !.done = FALSE, !.nav = nav]
        BY <2>2, <3>1 DEF ScreenJobEnds
      <4>2. nav \in Nav /\ Names(nav) /\ nav.kind # "collection"
        BY DEF Stay, Go, Nav, Names, Slot
      <4>3. ScreenOK(screen') /\ screen'.kind = screen.kind
        BY <1>1, <4>1, <4>2 DEF ScreenOK, Screen
      <4>. QED BY <1>1, <1>2, <2>2, <3>1, <4>3 DEF ScreenJobEnds, SidesOK
    <3>2. CASE screen.job # "kdf"
      <4>1. ScreenOK(screen') /\ screen'.kind = screen.kind
        BY <1>1, <2>2, <3>2 DEF ScreenJobEnds, Relisted, ScreenOK, Screen
      <4>2. queue' \in Queue
        BY <1>1, <1>3, <2>2, <3>2 DEF ScreenJobEnds
      <4>3. second' \in Slot
        BY <1>2, <2>2, <3>2 DEF ScreenJobEnds, Slot
      <4>. QED BY <1>1, <1>2, <2>2, <4>1, <4>2, <4>3 DEF ScreenJobEnds, SidesOK
    <3>. QED BY <3>1, <3>2
  <2>3. ASSUME ScreenJobRuns PROVE Works
    <3>1. ScreenOK(screen') /\ screen'.kind = screen.kind
      BY <1>1, <2>3 DEF ScreenJobRuns, ScreenOK, Screen
    <3>. QED BY <1>1, <1>2, <1>3, <2>3, <3>1 DEF ScreenJobRuns, SidesOK
  <2>4. ASSUME ScreenIdles PROVE Works
    <3> DEFINE q == IF screen.dialog # "transfer" THEN Released(queue) ELSE queue
    <3>1. q \in Queue
      BY <1>1, <1>3
    <3> HIDE DEF q
    <3>2. queue' = q \/ queue' = [q EXCEPT !.task = "queued", !.armed = TRUE]
      BY <2>4 DEF ScreenIdles, q
    <3>3. queue' \in Queue
      BY <3>1, <3>2 DEF Queue
    <3>4. ScreenOK(screen') /\ screen'.kind = screen.kind
      BY <1>1, <2>4 DEF ScreenIdles, ScreenOK, Screen
    <3>5. imports' \in 0 .. MaxImports /\ folder' \in {"none", "export", "backup"}
      BY <1>1, <1>2, <2>4 DEF ScreenIdles, SidesOK
    <3>. QED BY <1>2, <2>4, <3>3, <3>4, <3>5 DEF ScreenIdles
  <2>5. Works
    BY <1>6, <2>1, <2>2, <2>3, <2>4 DEF UpdateScreen
  <2> HIDE DEF Works
  <2>. QED
    BY <1>1, <1>2, <1>6, <2>5, SameVaults
    DEF Works, UpdateScreen, To, session, workers, SidesOK
<1>7. CASE UpdateUpkeep
  <2>1. second' \in Slot
    BY <1>2, <1>7 DEF UpdateUpkeep, SecondTicks, Slot
  <2>2. queue' \in Queue /\ ScreenOK(screen') /\ screen'.kind = screen.kind
    BY <1>1, <1>3, <1>4, <1>7 DEF UpdateUpkeep
  <2>3. SidesOK'
    BY <1>1, <1>7 DEF UpdateUpkeep, SidesOK, Worker
  <2>. QED
    BY <1>1, <1>2, <1>7, <2>1, <2>2, <2>3, SameVaults DEF UpdateUpkeep, To, session
<1>8. CASE UpdateUpgrade
  <2> DEFINE q == IF upgrade = "done" THEN Exclusive(queue, FALSE) ELSE queue
  <2>1. q \in Queue
    BY <1>1, <1>3
  <2>2. queue' = q \/ queue' = Begun(q, active)
    BY <1>8 DEF UpdateUpgrade
  <2> HIDE DEF q
  <2>3. queue' \in Queue
    BY <1>2, <2>1, <2>2 DEF Begun, NoQueue, Queue
  <2>4. ScreenOK(screen') /\ screen'.kind = screen.kind
    BY <1>1, <1>4, <1>8 DEF UpdateUpgrade
  <2>5. needBegin' \in BOOLEAN
    BY <1>8 DEF UpdateUpgrade
  <2>6. SidesOK'
    BY <1>1, <1>8 DEF UpdateUpgrade, SidesOK, Settled, Worker
  <2>. QED
    BY <1>1, <1>2, <1>8, <2>3, <2>4, <2>5, <2>6, SameVaults DEF UpdateUpgrade, To, vaults
<1>9. CASE Drain
  <2>1. CASE ~MayDrain
    BY <1>1, <1>2, <1>9, <2>1, SameVaults
    DEF Drain, To, vaults, session, overlays, workers, SidesOK
  <2>2. CASE MayDrain
    <3>1. PICK starts \in BOOLEAN :
              /\ queue' = [queue EXCEPT !.staged = FALSE, !.armed = ~(queue.task = "none"),
                               !.save = IF starts THEN "running" ELSE "idle"]
              /\ screen' = IF queue.staged THEN Redrawn(starts) ELSE screen
      <4>1. PICK due \in {FALSE, queue.staged} :
              /\ queue' = [queue EXCEPT !.staged = FALSE, !.armed = ~(queue.task = "none"),
                    !.save = IF due \/ (queue.task = "none" /\ queue.armed) THEN "running" ELSE "idle"]
              /\ screen' = IF queue.staged
                           THEN Redrawn(due \/ (queue.task = "none" /\ queue.armed)) ELSE screen
        BY <1>9, <2>2 DEF Drain
      <4>. WITNESS (due \/ (queue.task = "none" /\ queue.armed)) \in BOOLEAN
      <4>. QED BY <4>1
    <3>2. queue' \in Queue
      BY <1>1, <3>1 DEF Queue, Worker
    <3>3. ScreenOK(screen') /\ screen'.kind = screen.kind
      BY <1>1, <3>1 DEF Redrawn, ScreenOK, Screen
    <3>. QED
      BY <1>1, <1>2, <1>9, <3>2, <3>3, SameVaults
      DEF Drain, To, vaults, session, overlays, workers, SidesOK
  <2>. QED BY <2>1, <2>2
<1>. QED BY <1>5, <1>6, <1>7, <1>8, <1>9

\* What the end of a frame does to the types: a promoted vault is one, and what
\* leads to a listing starts where a vault is unlocked.
LEMMA FrameEndTypes ==
    TypeInv /\ (AutoLock \/ NoAutoLock \/ Navigate \/ Launch) => TypeInv'
<1>. SUFFICES ASSUME TypeInv, AutoLock \/ NoAutoLock \/ Navigate \/ Launch PROVE TypeInv'
  OBVIOUS
<1>1. /\ ScreenOK(screen) /\ queue \in Queue /\ SidesOK
      /\ Parked(confirm) /\ Parked(replay) /\ Parked(Stay)
  BY TypeParts
<1>2. /\ active \in Slot /\ pending \in Slot /\ second \in Slot /\ needBegin \in BOOLEAN
      /\ keys \in 0 .. MaxKeys /\ imports \in 0 .. MaxImports /\ 0 \in 0 .. MaxKeys
  BY ApplicationAssumption DEF TypeInv, TypeOK
<1>3. /\ Released(queue) \in Queue
      /\ Ended(Released(queue)) \in Queue
      /\ Ended(Exclusive(queue, FALSE)) \in Queue
      /\ \A q \in Queue : Exclusive(q, TRUE) \in Queue
  <2>1. Released(queue) \in Queue /\ Exclusive(queue, FALSE) \in Queue
    BY <1>1, QueueTypes DEF Alike
  <2>. QED BY <2>1, QueueTypes DEF Alike
<1>4. /\ Chosen \in Nav /\ Names(Chosen)
      /\ Chosen.kind = "collection" => screen.kind = "gallery"
      /\ Chosen.kind \in {"none", "lock", "unlock", "quit"} => Parked(Chosen)
  BY <1>1 DEF Chosen, Parked, ScreenOK, Screen
<1>5. ScreenOK(Taken) /\ Taken.kind = screen.kind
  <2>1. Stay \in Nav /\ Names(Stay) /\ Stay.kind # "collection"
    BY NewTypes
  <2>. QED BY <1>1, <2>1, ScreenSteps DEF Taken
<1>6. \A k \in {"manager", "unlock", "gallery", "collection"} :
         ScreenOK(NewScreen(k)) /\ NewScreen(k).kind = k
  BY NewTypes DEF ScreenOK
<1>7. ASSUME NEW k \in {"manager", "unlock", "gallery", "collection"}, screen' = NewScreen(k),
             queue' \in Queue, phase' \in {"nav", "events"}, keys' = 0, imports' = imports,
             active' \in Slot, pending' \in Slot, second' \in Slot, needBegin' \in BOOLEAN,
             Parked(confirm'), Parked(replay'), SidesOK',
             k \in {"gallery", "collection"} => active' # None, k = "unlock" => pending' # None
      PROVE  TypeInv'
  <2>1. ScreenOK(screen') /\ screen'.kind = k
    BY <1>6, <1>7
  <2>. QED BY <1>2, <1>7, <2>1 DEF TypeInv, TypeOK, NavOK, ScreenOK, Parked, SidesOK, Listing
<1>8. CASE AutoLock
  <2>1. queue' \in Queue
    BY <1>3, <1>8 DEF AutoLock
  <2>2. SidesOK'
    BY <1>1, <1>8 DEF AutoLock, SidesOK, workers
  <2>. QED
    BY <1>1, <1>2, <1>7, <1>8, <2>1, <2>2 DEF AutoLock, LockedScreen, To, session, Slot
<1>9. CASE NoAutoLock \/ NavBlocked \/ Launch
  BY <1>1, <1>2, <1>9, SameVaults
  DEF NoAutoLock, NavBlocked, Launch, To, vaults, session, overlays, workers, SidesOK
<1>10. CASE NavParks
  BY <1>1, <1>2, <1>4, <1>5, <1>10, SameVaults
  DEF NavParks, Parks, Consumed, To, vaults, overlays, workers, SidesOK
<1>11. CASE NavStays
  <2>1. second' \in Slot
    BY <1>2, <1>11 DEF NavStays, Slot
  <2>2. SidesOK'
    BY <1>1, <1>11 DEF NavStays, SidesOK, workers
  <2>. QED BY <1>1, <1>2, <1>5, <1>11, <2>1, <2>2, SameVaults DEF NavStays, Consumed, To
<1>12. ASSUME NEW v \in Vault, NEW q \in Queue, Promote(v, q), phase' = "events", keys' = 0,
              replay' = Stay, UNCHANGED <<confirm, settings, folder, upkeep, imports>>
       PROVE  TypeInv'
  <2>1. queue' \in Queue
    BY <1>3, <1>12 DEF Promote
  <2>2. SidesOK'
    BY <1>1, <1>12 DEF Promote, SidesOK, Worker
  <2>. QED
    BY <1>1, <1>7, <1>12, <2>1, <2>2, ApplicationAssumption DEF Promote, Slot
<1>13. CASE NavToGallery
  <2>1. CASE screen.kind = "unlock" /\ Promote(pending, queue)
    <3>1. pending \in Vault
      BY <2>1 DEF TypeInv, TypeOK, Slot
    <3>. QED BY <1>1, <1>12, <1>13, <2>1, <3>1 DEF NavToGallery, Consumed, To
  <2>2. CASE /\ screen' = NewScreen(IF active = None THEN "manager" ELSE "gallery")
             /\ queue' = Released(queue)
             /\ UNCHANGED <<vaults, needBegin, modal, upgrade>>
    BY <1>1, <1>2, <1>3, <1>7, <1>13, <2>2 DEF NavToGallery, Consumed, To, vaults, SidesOK
  <2>. QED BY <1>13, <2>1, <2>2 DEF NavToGallery
<1>14. CASE NavToScreen
  <2>1. pending' \in Slot
    BY <1>2, <1>14 DEF NavToScreen, Slot
  <2>2. Chosen.kind = "collection" => active # None
    BY <1>4 DEF TypeInv, TypeOK, Listing
  <2>3. Chosen.kind \in {"collection", "manager"}
    BY <1>14 DEF NavToScreen
  <2>. QED
    BY <1>1, <1>2, <1>3, <1>7, <1>14, <2>1, <2>2, <2>3
    DEF NavToScreen, Consumed, To, overlays, workers, SidesOK
<1>15. CASE NavToUnlock
  <2>1. Chosen.to \in Vault
    BY <1>4, <1>15 DEF NavToUnlock, Names, Nav, Slot
  <2>2. CASE second = Chosen.to /\ Promote(second, Ended(Released(queue)))
    BY <1>3, <1>12, <1>15, <2>1, <2>2 DEF NavToUnlock, Consumed, To
  <2>3. CASE /\ pending' = Chosen.to
             /\ screen' = NewScreen("unlock") /\ queue' = Ended(Released(queue))
             /\ UNCHANGED <<active, second, needBegin, modal, upgrade>>
    BY <1>1, <1>2, <1>3, <1>7, <1>15, <2>1, <2>3, ApplicationAssumption
    DEF NavToUnlock, Consumed, To, SidesOK, Slot
  <2>. QED BY <1>15, <2>2, <2>3 DEF NavToUnlock
<1>16. CASE NavLock
  BY <1>1, <1>2, <1>3, <1>7, <1>16
  DEF NavLock, Consumed, To, overlays, workers, SidesOK, Slot
<1>17. CASE NavQuit
  BY <1>17, ShutdownTypes DEF NavQuit
<1>. QED
  BY <1>8, <1>9, <1>10, <1>11, <1>13, <1>14, <1>15, <1>16, <1>17 DEF Navigate

\* A worker that ends changes what it owned.
LEMMA WorkerTypes ==
    TypeInv /\ (JobEnds \/ UpgradeEnds \/ UpkeepEnds \/ TaskStarts \/ TaskEnds \/ SaveEnds) => TypeInv'
<1>. SUFFICES ASSUME TypeInv,
                     JobEnds \/ UpgradeEnds \/ UpkeepEnds \/ TaskStarts \/ TaskEnds \/ SaveEnds
              PROVE  TypeInv'
  OBVIOUS
<1>1. /\ ScreenOK(screen) /\ queue \in Queue /\ SidesOK
      /\ Parked(confirm) /\ Parked(replay)
  BY TypeParts
<1>2. /\ active \in Slot /\ pending \in Slot /\ second \in Slot /\ needBegin \in BOOLEAN
      /\ keys \in 0 .. MaxKeys /\ imports \in 0 .. MaxImports
      /\ phase \in {"events", "screen", "upkeep", "upgrade", "drain", "lock", "nav", "stopped"}
  BY DEF TypeInv, TypeOK
<1>3. ASSUME ScreenOK(screen'), screen'.kind = screen.kind, queue' \in Queue, SidesOK',
             UNCHANGED <<frame, vaults, session, imports>>
      PROVE  TypeInv'
  BY <1>1, <1>2, <1>3, SameVaults DEF frame, vaults, session
<1>4. CASE JobEnds
  <2>1. ScreenOK(screen') /\ screen'.kind = screen.kind
    BY <1>1, <1>4 DEF JobEnds, ScreenOK, Screen
  <2>. QED BY <1>1, <1>3, <1>4, <2>1 DEF JobEnds, overlays, workers, SidesOK
<1>5. CASE UpgradeEnds \/ UpkeepEnds
  <2>1. ScreenOK(screen') /\ screen'.kind = screen.kind
    BY <1>1, <1>5, ScreenSteps DEF UpgradeEnds, UpkeepEnds
  <2>. QED BY <1>1, <1>3, <1>5, <2>1 DEF UpgradeEnds, UpkeepEnds, overlays, SidesOK, Worker
<1>6. CASE TaskStarts \/ TaskEnds \/ SaveEnds
  <2>1. queue' \in Queue
    <3>1. CASE TaskStarts \/ SaveEnds
      BY <1>1, <3>1 DEF TaskStarts, SaveEnds, Queue, Worker
    <3>2. CASE TaskEnds
      <4>1. PICK posted \in BOOLEAN :
               queue' = [queue EXCEPT !.task = "none", !.staged = queue.staged \/ posted]
        BY <3>2 DEF TaskEnds
      <4>. QED BY <1>1, <4>1 DEF Queue
    <3>. QED BY <1>6, <3>1, <3>2
  <2>. QED
    BY <1>1, <1>3, <1>6, <2>1 DEF TaskStarts, TaskEnds, SaveEnds, overlays, workers, SidesOK
<1>. QED BY <1>4, <1>5, <1>6

\* A step keeps the types.
LEMMA NextTypes == TypeInv /\ [Next]_vars => TypeInv'
<1>1. TypeInv /\ UNCHANGED vars => TypeInv'
  BY DEF TypeInv, TypeOK, NavOK, Listing, vars, frame, vaults, session, overlays, workers
<1>. QED BY <1>1, PersonTypes, UpdateTypes, FrameEndTypes, WorkerTypes DEF Next, Frame

\* Every variable keeps its type: whichever event, poll or worker acts next, a
\* listing has its unlocked vault, the unlock screen the vault it asks for, and
\* only a worker that runs can end.
THEOREM TypeCorrect == Spec => []TypeOK
<1>1. TypeInv => TypeOK
  BY DEF TypeInv
<1>. QED BY InitTypes, NextTypes, <1>1, PTL DEF Spec

-----------------------------------------------------------------------------
(***************************************************************************)
(* What is drawn, and the import session.                                  *)
(***************************************************************************)

\* Someone who will have the screen listed anew before it is drawn: a job of the
\* screen that has ended, an upgrade or maintenance that runs, a save.
Owed ==
    \/ screen.job \in {"delete", "transfer"} /\ screen.done
    \/ upgrade # "idle" \/ upkeep # "idle" \/ Saving

ListingInv == Listing /\ screen.listing = "changed" => Owed

\* A session that runs on the unlock screen has nothing to do: imports are picked
\* in galleries only.
UnlockInv ==
    screen.kind = "unlock" /\ queue.live =>
        queue.task = "none" /\ ~queue.staged /\ ~queue.armed /\ queue.save = "idle"

\* The strengthened invariant of the whole frame.
FrameInv == TypeInv /\ Inv /\ ListingInv /\ UnlockInv /\ SessionFollowsVault

\* The three new parts at the start and after a shutdown.
LEMMA InitFrame == Init => ListingInv /\ UnlockInv /\ SessionFollowsVault
<1>. SUFFICES ASSUME Init PROVE ListingInv /\ UnlockInv /\ SessionFollowsVault
  OBVIOUS
<1>1. screen.kind = "manager" /\ queue.bound = None
  BY NewTypes DEF Init, NoQueue
<1>. QED BY <1>1 DEF ListingInv, Listing, UnlockInv, SessionFollowsVault

LEMMA ShutdownFrame == Shutdown => (ListingInv /\ UnlockInv /\ SessionFollowsVault)'
<1>. SUFFICES ASSUME Shutdown PROVE (ListingInv /\ UnlockInv /\ SessionFollowsVault)'
  OBVIOUS
<1>1. screen'.kind = "manager" /\ queue'.bound = None
  BY NewTypes DEF Shutdown, NoQueue
<1>. QED BY <1>1 DEF ListingInv, Listing, UnlockInv, SessionFollowsVault

\* A step that keeps the vaults and the session, and neither forgets who owes the
\* screen a listing nor gives a session something to do.
LEMMA QuietFrame ==
    ASSUME ListingInv, UnlockInv, SessionFollowsVault,
           screen'.kind = screen.kind,
           screen'.listing = "changed" => screen.listing = "changed",
           Owed => Owed',
           queue'.bound = queue.bound, queue'.live => queue.live,
           queue'.live => /\ queue'.task = queue.task /\ queue'.staged = queue.staged
                          /\ queue'.armed = queue.armed /\ queue'.save = queue.save,
           active' = active, needBegin' = needBegin
    PROVE  (ListingInv /\ UnlockInv /\ SessionFollowsVault)'
  BY DEF ListingInv, Listing, UnlockInv, SessionFollowsVault

\* Events: what owes the screen a listing is not an event's to end.
LEMMA PersonFrame == FrameInv /\ Person => (ListingInv /\ UnlockInv /\ SessionFollowsVault)'
<1>. SUFFICES ASSUME FrameInv, Person PROVE (ListingInv /\ UnlockInv /\ SessionFollowsVault)'
  OBVIOUS
<1>1. TypeInv /\ ListingInv /\ UnlockInv /\ SessionFollowsVault
  BY DEF FrameInv
<1>2. ScreenOK(screen) /\ queue \in Queue
  BY <1>1, TypeParts
<1>3. CASE QuitNow
  BY <1>3, ShutdownFrame DEF QuitNow
<1>4. ASSUME ~QuitNow
      PROVE  /\ queue' \in Queue /\ queue'.bound = queue.bound /\ (queue'.live => queue.live)
             /\ queue'.live => /\ queue'.task = queue.task /\ queue'.staged = queue.staged
                               /\ queue'.armed = queue.armed /\ queue'.save = queue.save
  <2>1. queue' = queue \/ (\E held \in BOOLEAN : queue' = Exclusive(queue, held)) \/ queue' = Aborted(queue)
    BY <1>4 DEF Person, QuitDuringSave, QuitAsks, ConfirmLock, CancelLock, ToggleSettings,
         RequestUpgrade, RequestUpkeep, RequestBackup, CloseResult, AcceptUpgrade, DismissUpgrade,
         ManagerKey, UnlockKey, ListingNav, AskDelete, AnswerDelete, OpenTransfer, AnswerTransfer,
         AskExport
  <2>. QED BY <1>2, <2>1, QueueTypes DEF Alike
<1>5. ASSUME ~QuitNow
      PROVE  /\ screen'.kind = screen.kind
             /\ screen'.listing = "changed" => screen.listing = "changed"
             /\ screen.job # "none" => screen'.job = screen.job /\ screen'.done = screen.done
  <2>1. CASE UNCHANGED screen
    BY <2>1
  <2>2. CASE ConfirmLock
    BY <1>2, <2>2 DEF ConfirmLock, ScreenOK, Screen
  <2>3. CASE ManagerKey \/ UnlockKey \/ ListingNav
    BY <1>2, <2>3 DEF ManagerKey, UnlockKey, ListingNav, ListingInput, ScreenInput, Asks,
                      ScreenOK, Screen
  <2>4. CASE AskDelete \/ AnswerDelete \/ OpenTransfer \/ AnswerTransfer
    BY <1>2, <2>4 DEF AskDelete, AnswerDelete, OpenTransfer, AnswerTransfer, ListingInput,
                      ScreenInput, ScreenOK, Screen
  <2>. QED
    BY <1>5, <2>1, <2>2, <2>3, <2>4
    DEF Person, QuitDuringSave, QuitAsks, CancelLock, ToggleSettings, RequestUpgrade,
        RequestUpkeep, RequestBackup, CloseResult, AcceptUpgrade, DismissUpgrade, AskExport
<1>6. ASSUME ~QuitNow
      PROVE  /\ upgrade # "idle" => upgrade' # "idle"
             /\ upkeep # "idle" => upkeep' # "idle"
             /\ Saving => UNCHANGED queue
             /\ active' = active /\ needBegin' = needBegin
  BY <1>6 DEF Person, QuitDuringSave, QuitAsks, ConfirmLock, CancelLock, ToggleSettings,
         RequestUpgrade, RequestUpkeep, RequestBackup, CloseResult, AcceptUpgrade, DismissUpgrade,
         ManagerKey, UnlockKey, ListingNav, AskDelete, AnswerDelete, OpenTransfer, AnswerTransfer,
         AskExport, ModalInput, SettingsInput, ListingInput, ScreenInput, Input,
         vaults, session, workers
<1>7. ASSUME ~QuitNow PROVE Owed => Owed'
  BY <1>5, <1>6, <1>7 DEF Owed, Saving
<1>8. CASE ~QuitNow
  BY <1>1, <1>4, <1>5, <1>6, <1>7, <1>8, QuietFrame
<1>. QED BY <1>3, <1>8

\* poll_save and Screen::update pay what a save or a job owes.
LEMMA ScreenFrame ==
    FrameInv /\ (PollSave \/ UpdateScreen) => (ListingInv /\ UnlockInv /\ SessionFollowsVault)'
<1>. SUFFICES ASSUME FrameInv, PollSave \/ UpdateScreen
              PROVE  (ListingInv /\ UnlockInv /\ SessionFollowsVault)'
  OBVIOUS
<1>1. TypeInv /\ ListingInv /\ UnlockInv /\ SessionFollowsVault /\ SaveSpansFrames
  BY DEF FrameInv, Inv
<1>2. ScreenOK(screen) /\ queue \in Queue
  BY <1>1, TypeParts
<1>3. Alike(Released(queue), queue) /\ Alike(Exclusive(queue, FALSE), queue) /\ Alike(queue, queue)
  BY <1>2, QueueTypes DEF Alike
<1>4. CASE PollSave
  <2>1. CASE queue.save = "running"
    BY <1>1, <1>4, <2>1, QuietFrame
    DEF PollSave, Owed, Saving, vaults, session, workers
  <2>2. CASE queue.save = "done"
    <3>1. screen'.kind = screen.kind /\ screen'.listing = "current"
      BY <1>2, <1>4, <2>2 DEF PollSave, Polled, Relisted, ScreenOK, Screen
    <3>2. /\ queue'.bound = queue.bound /\ queue'.live = queue.live /\ queue'.task = queue.task
          /\ queue'.staged = queue.staged /\ queue'.armed = queue.armed /\ queue'.save = "idle"
      BY <1>2, <1>4, <2>2 DEF PollSave, Queue
    <3>. QED
      BY <1>1, <1>4, <3>1, <3>2
      DEF PollSave, ListingInv, UnlockInv, SessionFollowsVault, vaults, session
  <2>3. CASE queue.save = "idle"
    <3>1. queue' = queue /\ screen' = screen
      BY <1>2, <1>4, <2>3 DEF PollSave, Polled, Queue
    <3>. QED BY <1>1, <1>4, <3>1, QuietFrame DEF PollSave, Owed, Saving, vaults, session, workers
  <2>. QED BY <1>2, <2>1, <2>2, <2>3 DEF Queue, Worker
<1>5. CASE UpdateScreen
  <2>1. ~Saving /\ active' = active /\ needBegin' = needBegin /\ upgrade' = upgrade /\ upkeep' = upkeep
    BY <1>1, <1>5 DEF UpdateScreen, SaveSpansFrames, session, workers
  <2>2. CASE UNCHANGED <<screen, queue>>
    BY <1>1, <2>1, <2>2, QuietFrame DEF Owed, Saving
  <2>3. ASSUME Alike(queue', queue), screen'.kind = screen.kind,
               screen'.listing = "changed" => screen.listing = "changed",
               Owed => screen'.listing # "changed"
        PROVE  (ListingInv /\ UnlockInv /\ SessionFollowsVault)'
    BY <1>1, <2>1, <2>3 DEF ListingInv, Listing, UnlockInv, SessionFollowsVault, Alike
  <2>4. ASSUME upgrade = "idle", upkeep = "idle"
        PROVE  Owed => screen.job \in {"delete", "transfer"} /\ screen.done
    BY <2>1, <2>4 DEF Owed
  <2>5. CASE upgrade = "idle" /\ upkeep = "idle" /\ ScreenJobEnds
    <3>1. Alike(queue', queue)
      BY <1>3, <2>5 DEF ScreenJobEnds
    <3>2. /\ screen'.kind = screen.kind
          /\ screen'.listing \in {screen.listing, "current"}
          /\ screen.job \in {"delete", "transfer"} => screen'.listing = "current"
      BY <1>2, <2>5 DEF ScreenJobEnds, Relisted, ScreenOK, Screen
    <3>. QED BY <2>3, <2>4, <2>5, <3>1, <3>2
  <2>6. CASE upgrade = "idle" /\ upkeep = "idle" /\ ScreenJobRuns
    <3>1. Alike(queue', queue)
      BY <1>3, <2>6 DEF ScreenJobRuns
    <3>2. screen'.kind = screen.kind /\ screen'.listing = screen.listing /\ ~screen.done
      BY <1>2, <2>6 DEF ScreenJobRuns, ScreenOK, Screen
    <3>. QED BY <2>3, <2>4, <2>6, <3>1, <3>2
  <2>7. CASE upgrade = "idle" /\ upkeep = "idle" /\ ScreenIdles
    <3> DEFINE q == IF screen.dialog # "transfer" THEN Released(queue) ELSE queue
    <3>1. Alike(q, queue)
      BY <1>3
    <3> HIDE DEF q
    <3>2. screen'.kind = screen.kind /\ screen'.listing = screen.listing /\ screen.job = "none"
      BY <1>2, <2>7 DEF ScreenIdles, ScreenOK, Screen
    <3>3. \/ queue' = q
          \/ screen.kind = "gallery" /\ queue' = [q EXCEPT !.task = "queued", !.armed = TRUE]
      BY <2>7 DEF ScreenIdles, q
    <3>4. CASE queue' = q
      BY <2>3, <2>4, <2>7, <3>1, <3>2, <3>4
    <3>5. CASE screen.kind = "gallery" /\ queue' = [q EXCEPT !.task = "queued", !.armed = TRUE]
      <4>1. queue'.bound = queue.bound
        BY <3>1, <3>5 DEF Alike, Queue
      <4>2. ListingInv'
        BY <1>1, <2>1, <2>4, <2>7, <3>2 DEF ListingInv, Listing
      <4>. QED BY <1>1, <2>1, <3>2, <3>5, <4>1, <4>2 DEF UnlockInv, SessionFollowsVault
    <3>. QED BY <3>3, <3>4, <3>5
  <2>. QED BY <1>5, <2>2, <2>5, <2>6, <2>7 DEF UpdateScreen
<1>. QED BY <1>4, <1>5

\* Maintenance and the upgrade pay what they owe, and a session that begins is
\* that of the unlocked vault and empty.
LEMMA JobsFrame ==
    FrameInv /\ (UpdateUpkeep \/ UpdateUpgrade) => (ListingInv /\ UnlockInv /\ SessionFollowsVault)'
<1>. SUFFICES ASSUME FrameInv, UpdateUpkeep \/ UpdateUpgrade
              PROVE  (ListingInv /\ UnlockInv /\ SessionFollowsVault)'
  OBVIOUS
<1>1. TypeInv /\ ListingInv /\ UnlockInv /\ SessionFollowsVault /\ SaveSpansFrames
  BY DEF FrameInv, Inv
<1>2. ScreenOK(screen) /\ queue \in Queue
  BY <1>1, TypeParts
<1>3. /\ \A held \in BOOLEAN : Alike(Exclusive(queue, held), queue)
      /\ Alike(queue, queue)
  BY <1>2, QueueTypes DEF Alike
<1>4. Relisted(screen).kind = screen.kind /\ Relisted(screen).listing = "current"
  BY <1>2 DEF Relisted, ScreenOK, Screen
<1>5. CASE UpdateUpkeep
  <2>1. Alike(queue', queue) /\ active' = active /\ needBegin' = needBegin /\ upgrade' = upgrade
    BY <1>3, <1>5 DEF UpdateUpkeep, session
  <2>2. CASE screen' = screen /\ (upkeep # "idle" => upkeep' # "idle")
    BY <1>1, <2>1, <2>2, QuietFrame DEF Owed, Saving, Alike
  <2>3. CASE screen' = Relisted(screen)
    BY <1>1, <1>4, <2>1, <2>3 DEF ListingInv, UnlockInv, SessionFollowsVault, Alike
  <2>. QED BY <1>5, <2>2, <2>3 DEF UpdateUpkeep
<1>6. CASE UpdateUpgrade
  <2> DEFINE q == IF upgrade = "done" THEN Exclusive(queue, FALSE) ELSE queue
             u == IF upgrade = "done" THEN "idle" ELSE upgrade
             m == IF upgrade = "done" THEN Settled(modal) ELSE modal
  <2>1. Alike(q, queue)
    BY <1>3
  <2>2. q.save = "idle"
    BY <1>1, <1>6, <2>1 DEF UpdateUpgrade, SaveSpansFrames, Saving, Alike
  <2>3. /\ queue' = IF Begins(m, u) THEN Begun(q, active) ELSE q
        /\ needBegin' = (needBegin /\ ~Begins(m, u))
        /\ active' = active /\ upkeep' = upkeep /\ upgrade' = u
        /\ screen' = IF upgrade = "done" /\ active # None THEN Relisted(screen) ELSE screen
    BY <1>6 DEF UpdateUpgrade, vaults
  <2>4. upgrade # "done" => u = upgrade
    OBVIOUS
  <2> HIDE DEF q, u, m
  <2>5. queue'.save = "idle"
    BY <2>2, <2>3 DEF Begun, NoQueue
  <2>6. ListingInv'
    <3>1. CASE upgrade = "done"
      BY <1>1, <1>4, <2>3, <3>1 DEF ListingInv, Listing, TypeInv, TypeOK
    <3>2. CASE upgrade # "done"
      BY <1>1, <2>1, <2>2, <2>3, <2>4, <3>2 DEF ListingInv, Listing, Owed, Saving, Alike
    <3>. QED BY <3>1, <3>2
  <2>7. screen'.kind = screen.kind
    BY <1>4, <2>3
  <2>8. CASE Begins(m, u)
    <3>1. /\ queue'.bound = active' /\ queue'.task = "none" /\ ~queue'.staged /\ ~queue'.armed
      BY <2>3, <2>8 DEF Begun, NoQueue
    <3>. QED BY <2>5, <2>6, <3>1 DEF UnlockInv, SessionFollowsVault
  <2>9. CASE ~Begins(m, u)
    <3>1. queue' = q /\ needBegin' = needBegin
      BY <1>1, <2>3, <2>9 DEF TypeInv, TypeOK
    <3>. QED
      BY <1>1, <2>1, <2>3, <2>6, <2>7, <3>1 DEF UnlockInv, SessionFollowsVault, Alike
  <2>. QED BY <2>8, <2>9
<1>. QED BY <1>5, <1>6

\* A drain that changes the tree tells the screen or starts the save that will.
LEMMA DrainFrame == FrameInv /\ Drain => (ListingInv /\ UnlockInv /\ SessionFollowsVault)'
<1>. SUFFICES ASSUME FrameInv, Drain PROVE (ListingInv /\ UnlockInv /\ SessionFollowsVault)'
  OBVIOUS
<1>1. TypeInv /\ ListingInv /\ UnlockInv /\ SessionFollowsVault /\ ~Saving
  BY DEF FrameInv, Inv, SaveSpansFrames, Drain
<1>2. ScreenOK(screen) /\ queue \in Queue
  BY <1>1, TypeParts
<1>3. active' = active /\ needBegin' = needBegin /\ upgrade' = upgrade /\ upkeep' = upkeep
  BY DEF Drain, vaults, session, workers
<1>4. CASE UNCHANGED <<queue, screen>>
  BY <1>1, <1>3, <1>4, QuietFrame DEF Owed, Saving
<1>5. CASE MayDrain
  <2>1. PICK starts \in BOOLEAN :
           /\ queue' = [queue EXCEPT !.staged = FALSE, !.armed = ~(queue.task = "none"),
                            !.save = IF starts THEN "running" ELSE "idle"]
           /\ screen' = IF queue.staged THEN Redrawn(starts) ELSE screen
           /\ starts => queue.staged \/ (queue.task = "none" /\ queue.armed)
    <3>1. PICK due \in {FALSE, queue.staged} :
            /\ queue' = [queue EXCEPT !.staged = FALSE, !.armed = ~(queue.task = "none"),
                  !.save = IF due \/ (queue.task = "none" /\ queue.armed) THEN "running" ELSE "idle"]
            /\ screen' = IF queue.staged
                         THEN Redrawn(due \/ (queue.task = "none" /\ queue.armed)) ELSE screen
      BY <1>5 DEF Drain
    <3>. WITNESS (due \/ (queue.task = "none" /\ queue.armed)) \in BOOLEAN
    <3>. QED BY <3>1
  <2>2. /\ queue'.bound = queue.bound /\ queue'.live = queue.live /\ queue'.task = queue.task
        /\ ~queue'.staged /\ queue'.armed = (queue.task # "none")
        /\ queue'.save = IF starts THEN "running" ELSE "idle"
    BY <1>2, <2>1 DEF Queue
  <2>3. /\ screen'.kind = screen.kind /\ screen'.job = screen.job /\ screen'.done = screen.done
        /\ screen'.listing \in {screen.listing, IF starts THEN "changed" ELSE "current"}
    BY <1>2, <2>1 DEF Redrawn, ScreenOK, Screen
  <2>4. ListingInv'
    BY <1>1, <1>3, <2>2, <2>3 DEF ListingInv, Listing, Owed, Saving
  <2>5. UnlockInv'
    BY <1>1, <2>1, <2>2, <2>3 DEF UnlockInv
  <2>6. SessionFollowsVault'
    BY <1>1, <1>3, <2>2 DEF SessionFollowsVault
  <2>. QED BY <2>4, <2>5, <2>6
<1>. QED BY <1>4, <1>5 DEF Drain

\* The end of a frame: whatever locks a vault ends the session, and a vault that
\* is promoted asks for one of its own.
LEMMA FrameEndFrame ==
    FrameInv /\ (AutoLock \/ NoAutoLock \/ Navigate \/ Launch)
        => (ListingInv /\ UnlockInv /\ SessionFollowsVault)'
<1>. SUFFICES ASSUME FrameInv, AutoLock \/ NoAutoLock \/ Navigate \/ Launch
              PROVE  (ListingInv /\ UnlockInv /\ SessionFollowsVault)'
  OBVIOUS
<1>1. TypeInv /\ ListingInv /\ UnlockInv /\ SessionFollowsVault
  BY DEF FrameInv
<1>2. ScreenOK(screen) /\ queue \in Queue
  BY <1>1, TypeParts
<1>3. /\ Alike(Released(queue), queue)
      /\ Ended(Released(queue)).bound = None /\ ~Ended(Released(queue)).live
      /\ Ended(Exclusive(queue, FALSE)).bound = None
  <2>1. Alike(Released(queue), queue) /\ Exclusive(queue, FALSE) \in Queue
    BY <1>2, QueueTypes DEF Alike
  <2>2. Released(queue) \in Queue
    BY <2>1 DEF Alike
  <2>. QED BY <2>1, <2>2, QueueTypes
<1>4. \A k \in {"manager", "unlock", "gallery", "collection"} :
         NewScreen(k).kind = k /\ NewScreen(k).listing = "current"
  BY NewTypes
<1>5. CASE AutoLock
  BY <1>3, <1>4, <1>5
  DEF AutoLock, LockedScreen, ListingInv, UnlockInv, SessionFollowsVault
<1>6. CASE NoAutoLock \/ NavBlocked \/ Launch
  BY <1>1, <1>6, QuietFrame
  DEF NoAutoLock, NavBlocked, Launch, vaults, session, workers, Owed, Saving
<1>7. CASE NavParks \/ NavStays
  <2>1. /\ Taken.kind = screen.kind /\ Taken.listing = screen.listing /\ Taken.job = screen.job
        /\ Taken.done = screen.done
    BY <1>2 DEF Taken, ScreenOK, Screen
  <2>. QED
    BY <1>1, <1>7, <2>1, QuietFrame DEF NavParks, NavStays, vaults, workers, Owed, Saving
<1>8. ASSUME NEW v, NEW q, Promote(v, q) PROVE (ListingInv /\ UnlockInv /\ SessionFollowsVault)'
  BY <1>4, <1>8 DEF Promote, ListingInv, UnlockInv, SessionFollowsVault
<1>9. ASSUME NEW k \in {"manager", "gallery", "collection"}, screen' = NewScreen(k),
             queue' = Released(queue), active' = active, needBegin' = needBegin
      PROVE  (ListingInv /\ UnlockInv /\ SessionFollowsVault)'
  BY <1>1, <1>3, <1>4, <1>9 DEF ListingInv, UnlockInv, SessionFollowsVault, Alike
<1>10. CASE NavToGallery
  BY <1>8, <1>9, <1>10 DEF NavToGallery, vaults
<1>11. CASE NavToScreen
  BY <1>9, <1>11 DEF NavToScreen
<1>12. CASE NavToUnlock
  <2>1. CASE Promote(second, Ended(Released(queue)))
    BY <1>8, <2>1
  <2>2. CASE screen' = NewScreen("unlock") /\ queue' = Ended(Released(queue))
    BY <1>3, <1>4, <2>2 DEF ListingInv, UnlockInv, SessionFollowsVault
  <2>. QED BY <1>12, <2>1, <2>2 DEF NavToUnlock
<1>13. CASE NavLock
  BY <1>3, <1>4, <1>13 DEF NavLock, ListingInv, UnlockInv, SessionFollowsVault
<1>14. CASE NavQuit
  BY <1>14, ShutdownFrame DEF NavQuit
<1>. QED
  BY <1>5, <1>6, <1>7, <1>10, <1>11, <1>12, <1>13, <1>14 DEF Navigate

\* A worker that ends owes the screen a listing until it is polled.
LEMMA WorkerFrame ==
    FrameInv /\ (JobEnds \/ UpgradeEnds \/ UpkeepEnds \/ TaskStarts \/ TaskEnds \/ SaveEnds)
        => (ListingInv /\ UnlockInv /\ SessionFollowsVault)'
<1>. SUFFICES ASSUME FrameInv,
                     JobEnds \/ UpgradeEnds \/ UpkeepEnds \/ TaskStarts \/ TaskEnds \/ SaveEnds
              PROVE  (ListingInv /\ UnlockInv /\ SessionFollowsVault)'
  OBVIOUS
<1>1. TypeInv /\ ListingInv /\ UnlockInv /\ SessionFollowsVault
  BY DEF FrameInv
<1>2. ScreenOK(screen) /\ queue \in Queue
  BY <1>1, TypeParts
<1>3. CASE JobEnds
  <2>1. /\ screen'.kind = screen.kind /\ screen'.done /\ screen'.job = screen.job /\ ~screen.done
        /\ screen'.listing = IF screen.job \in {"delete", "transfer"} THEN "changed" ELSE screen.listing
    BY <1>2, <1>3 DEF JobEnds, ScreenOK, Screen
  <2>. QED
    BY <1>1, <1>3, <2>1 DEF JobEnds, ListingInv, Listing, Owed, UnlockInv, SessionFollowsVault,
                            Saving, vaults, session, workers
<1>4. CASE UpgradeEnds \/ UpkeepEnds
  <2>1. screen'.kind = screen.kind
    BY <1>2, <1>4 DEF UpgradeEnds, UpkeepEnds, ScreenOK, Screen
  <2>. QED
    BY <1>1, <1>4, <2>1 DEF UpgradeEnds, UpkeepEnds, ListingInv, Owed, UnlockInv,
                            SessionFollowsVault, vaults, session
<1>5. CASE TaskStarts \/ TaskEnds \/ SaveEnds
  <2>1. /\ queue'.bound = queue.bound /\ queue'.live = queue.live
        /\ queue.save = "idle" => queue'.save = "idle"
        /\ queue.save # "idle" => queue'.save # "idle"
    BY <1>2, <1>5 DEF TaskStarts, TaskEnds, SaveEnds, Queue
  <2>2. queue.task # "none" \/ queue.save # "idle"
    BY <1>5 DEF TaskStarts, TaskEnds, SaveEnds
  <2>. QED
    BY <1>1, <1>5, <2>1, <2>2
    DEF TaskStarts, TaskEnds, SaveEnds, ListingInv, Listing, Owed, UnlockInv, SessionFollowsVault,
        Saving, vaults, session, workers
<1>. QED BY <1>3, <1>4, <1>5

\* The invariant is inductive.
LEMMA FrameInvCorrect == Spec => []FrameInv
<1>1. Init => FrameInv
  BY InitTypes, InitInv, InitFrame DEF FrameInv
<1>2. FrameInv /\ [Next]_vars => TypeInv'
  BY NextTypes DEF FrameInv
<1>3. FrameInv /\ [Next]_vars => Inv'
  BY NextInv DEF FrameInv
<1>4. FrameInv /\ UNCHANGED vars => (ListingInv /\ UnlockInv /\ SessionFollowsVault)'
  BY DEF FrameInv, ListingInv, Listing, Owed, UnlockInv, SessionFollowsVault, Saving,
         vars, vaults, session, workers
<1>5. FrameInv /\ [Next]_vars => (ListingInv /\ UnlockInv /\ SessionFollowsVault)'
  BY <1>4, PersonFrame, ScreenFrame, JobsFrame, DrainFrame, FrameEndFrame, WorkerFrame
  DEF Next, Frame
<1>6. FrameInv /\ [Next]_vars => FrameInv'
  BY <1>2, <1>3, <1>5 DEF FrameInv
<1>. QED BY <1>1, <1>6, PTL DEF Spec

\* screen.h: no frame draws a listing that a job, maintenance, an upgrade or a
\* drain has made old, whichever of them end in whichever frames, together or
\* one after the other, and whatever the user does meanwhile.
THEOREM FrameShowsCurrentTreeTheorem == Spec => []FrameShowsCurrentTree
<1>1. FrameInv => FrameShowsCurrentTree
  BY DEF FrameInv, ListingInv, Owed, FrameShowsCurrentTree, Draws
<1>. QED BY FrameInvCorrect, <1>1, PTL

\* No import session outlives the lock of its vault, and one that is bound to a
\* vault that was switched away from is replaced by begin_session.
THEOREM SessionFollowsVaultTheorem == Spec => []SessionFollowsVault
<1>1. FrameInv => SessionFollowsVault
  BY DEF FrameInv
<1>. QED BY FrameInvCorrect, <1>1, PTL

\* Until the program stops, the unlocked vault is locked or replaced only where no
\* import is pending, the user gave the imports up, or a navigation meets an open
\* warning about them (which the user need not have answered).  So neither the
\* idle lock, nor a navigation that waited frames for a save, nor a vault that
\* was unlocked meanwhile takes it away from imports in flight without one.
THEOREM WarnsBeforeLockingTheorem == Spec => WarnsBeforeLocking
<1> DEFINE Rule == active # None /\ active' # active /\ phase' # "stopped"
                      => ~Busy \/ ~queue.live \/ (phase = "nav" /\ confirm # Stay)
<1>1. FrameInv /\ [Next]_vars => Rule
  <2>. SUFFICES ASSUME FrameInv, [Next]_vars, active' # active, phase' # "stopped"
                PROVE  ~Busy \/ ~queue.live \/ (phase = "nav" /\ confirm # Stay)
    OBVIOUS
  <2>1. \/ AutoLock \/ NavToGallery \/ NavToUnlock \/ NavLock
    BY DEF Next, Frame, Person, Navigate, QuitDuringSave, QuitAsks, QuitNow, ConfirmLock,
       CancelLock, ToggleSettings, RequestUpgrade, RequestUpkeep, RequestBackup, CloseResult,
       AcceptUpgrade, DismissUpgrade, ManagerKey, UnlockKey, ListingNav, AskDelete, AnswerDelete,
       OpenTransfer, AnswerTransfer, AskExport, PollSave, UpdateScreen, UpdateUpkeep,
       UpdateUpgrade, Drain, NoAutoLock, NavBlocked, NavParks, NavStays, NavToScreen, NavQuit,
       Shutdown, Launch, JobEnds, UpgradeEnds, UpkeepEnds, TaskStarts, TaskEnds, SaveEnds,
       vars, vaults
  <2>2. CASE AutoLock
    BY <2>2 DEF AutoLock, MayIdleLock
  <2>3. CASE NavToGallery
    <3>1. screen.kind = "unlock"
      BY <2>3 DEF NavToGallery, vaults
    <3>2. queue.live => queue.task = "none" /\ ~queue.staged /\ queue.save = "idle"
      BY <3>1 DEF FrameInv, UnlockInv
    <3>. QED BY <3>2 DEF Busy, Saving
  <2>4. CASE NavToUnlock \/ NavLock
    BY <2>4 DEF NavToUnlock, NavLock, Parks, Resolve
  <2>. QED BY <2>1, <2>2, <2>3, <2>4
<1>2. FrameInv /\ [Next]_vars
         => [active # None /\ active' # active /\ phase' # "stopped"
                => ~Busy \/ ~queue.live \/ (phase = "nav" /\ confirm # Stay)]_vars
  BY <1>1
<1>. QED BY FrameInvCorrect, <1>2, PTL DEF Spec, WarnsBeforeLocking
=============================================================================
