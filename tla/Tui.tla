-------------------------------- MODULE Tui --------------------------------
(***************************************************************************)
(* run_tui: the pages of the terminal interface, the keys that move between *)
(* them, and the worker thread that scans while the user interface runs.   *)
(*                                                                         *)
(* The user-interface thread handles one event at a time and holds         *)
(* state_mutex while it renders; the worker holds it while it appends to   *)
(* logs and while it sets scan_running and scan_done.  Everything else is  *)
(* touched by the user-interface thread alone, without the mutex.  A       *)
(* handler that calls Recover::run takes as long as the recovery does, so  *)
(* its start and its end are steps of their own (ui = "dry" or "real").    *)
(*                                                                         *)
(* A handler may also end in an exception: current_path throws when the     *)
(* working directory is gone, std::thread when there is no thread to be     *)
(* had.  The exception leaves run_tui without join_worker, to the catch of  *)
(* main, unless a std::thread that is still joinable is destroyed on the    *)
(* way, which calls std::terminate (ui = "threw", then Leave).              *)
(*                                                                         *)
(* Menus and the radio box move at any time, so their positions are not    *)
(* state: Enter takes any entry.  The destination is state, because an     *)
(* input event changes it on any page.                                     *)
(***************************************************************************)
EXTENDS Naturals, FiniteSets

CONSTANTS
    Devices,        \* the block devices detected
    Folders, Files, \* the records the database may hold
    Destinations,   \* the destinations the user may type
    Default,        \* cwd / "recovered"
    Empty,          \* an empty destination
    None,           \* an empty optional
    Ticks           \* bound: progress messages of a scan

ASSUME TuiAssumption ==
    /\ Ticks \in Nat
    /\ Folders \cap Files = {} /\ None \notin Devices \cup Folders \cup Files
    /\ Empty \notin Destinations \cup {Default}

VARIABLES
    page, selected_device, results, selected_record, destination_path,
    real_recover_confirmed,
    scan_running, scan_done,
    ui,         \* what the user-interface thread is doing
    worker,     \* the worker thread, "none" when std::thread is not joinable
    ticks,      \* progress messages of the running scan so far
    mutex,      \* who holds state_mutex: "ui", "worker" or "free"
    scanned,    \* history: the device of the last scan started
    attempted,  \* history: <<device, record>> of the dry run RecoverDest made, until a recovery
    preview     \* history: <<device, record, destination>> of that dry run, if it succeeded

choices == <<selected_device, results, selected_record, destination_path>>
scan == <<scan_running, scan_done, worker, ticks, scanned>>
confirmation == <<real_recover_confirmed, attempted, preview>>
vars == <<page, choices, scan, confirmation, ui, mutex>>

Pages == {"Devices", "Warning", "Scanning", "Search", "Results", "Actions",
          "TextView", "RecoverDest", "ConfirmRecover"}
Records == Folders \cup Files
Typed == Destinations \cup {Empty}

\* How the program ends: 0, main's "error:" and 1, or std::terminate.
Over == {"exited", "failed", "terminate"}

\* Every variable has its type.
TypeOK ==
    /\ page \in Pages
    /\ selected_device \in Devices \cup {None}
    /\ results \in SUBSET Records
    /\ selected_record \in Records \cup {None}
    /\ destination_path \in Typed \cup {Default}
    /\ real_recover_confirmed \in BOOLEAN
    /\ scan_running \in BOOLEAN /\ scan_done \in BOOLEAN
    /\ ui \in {"loop", "render", "joinScan", "joinSearch", "dry", "dryConfirm", "real",
               "joinExit", "return", "threw"} \cup Over
    /\ worker \in {"none", "scan", "log", "error", "errorLog", "finish", "ended"}
    /\ ticks \in 0..Ticks
    /\ mutex \in {"free", "ui", "worker"}
    /\ scanned \in Devices \cup {None}
    /\ attempted \in ((Devices \cup {None}) \X Folders) \cup {None}
    /\ preview \in (Devices \X Folders \X (Typed \cup {Default})) \cup {None}

Init ==
    /\ page = "Devices"
    /\ selected_device = None /\ results = {} /\ selected_record = None
    /\ destination_path = Empty
    /\ real_recover_confirmed = FALSE
    /\ scan_running = FALSE /\ scan_done = FALSE
    /\ ui = "loop" /\ worker = "none" /\ ticks = 0 /\ mutex = "free"
    /\ scanned = None /\ attempted = None /\ preview = None

-----------------------------------------------------------------------------
(* Helpers of the event handler.                                           *)

Handling == ui = "loop"
Goto(p) == page' = p
OnlyPage == UNCHANGED <<choices, scan, confirmation, ui, mutex>>

FolderSelected == selected_record \in Folders

\* run_recover returns at once without a device or a folder.
CanRecover == selected_device # None /\ FolderSelected

\* if (destination_path.empty()) destination_path = current_path() / "recovered"
DefaultDestination ==
    destination_path' = IF destination_path = Empty THEN Default ELSE destination_path

\* The same, and current_path throws.
NoWorkingDirectory ==
    destination_path = Empty /\ ui' = "threw" /\ UNCHANGED <<destination_path, page>>

\* The key r: the destination, then the page it is shown on.
ToRecovery(p) ==
    /\ \/ DefaultDestination /\ Goto(p) /\ UNCHANGED ui
       \/ NoWorkingDirectory
    /\ UNCHANGED <<selected_device, results, selected_record, scan, confirmation, mutex>>

\* join_worker: returns at once unless the thread is joinable and still runs.
JoinWorker == worker \in {"none", "ended"} /\ worker' = "none"

-----------------------------------------------------------------------------
(* Keys.                                                                   *)

\* A slip: from Search, q leads back to the devices.
SlipBack ==
    CASE page = "Results" -> "Search"
      [] page \in {"Warning", "Search"} -> "Devices"
      [] page = "Scanning" /\ scan_done -> "Search"
      [] OTHER -> "Results"

\* Where q leads; from Devices it ends the loop.
Back ==
    CASE page = "Results" -> "Search"
      [] page = "Warning" -> "Devices"
      [] page = "Scanning" /\ scan_done -> "Search"
      [] OTHER -> "Results"

PressQ ==
    /\ Handling
    /\ IF page = "Devices" THEN ui' = "joinExit" /\ UNCHANGED page
                           ELSE Goto(Back) /\ UNCHANGED ui
    /\ UNCHANGED <<choices, scan, confirmation, mutex>>

PressSlash == Handling /\ Goto("Search") /\ OnlyPage

PressD ==
    /\ Handling /\ FolderSelected
    /\ \/ /\ DefaultDestination /\ UNCHANGED page
          /\ ui' = IF CanRecover THEN "dry" ELSE ui
       \/ NoWorkingDirectory
    /\ UNCHANGED <<selected_device, results, selected_record, scan, confirmation, mutex>>

\* Slips: r without a look at what is selected, and r straight to the
\* confirmation.
SlipPressRAnything == Handling /\ ToRecovery("RecoverDest")

SlipPressRConfirms == Handling /\ FolderSelected /\ ToRecovery("ConfirmRecover")

PressR == Handling /\ FolderSelected /\ ToRecovery("RecoverDest")

EnterDevices ==
    /\ Handling /\ page = "Devices"
    /\ selected_device' \in Devices
    /\ Goto("Warning")
    /\ UNCHANGED <<results, selected_record, destination_path, scan, confirmation, ui, mutex>>

\* page = Scanning and start_scan up to its join_worker.
EnterWarning ==
    /\ Handling /\ page = "Warning"
    /\ Goto("Scanning")
    /\ IF selected_device = None \/ scan_running
       THEN UNCHANGED <<scan, ui>>
       ELSE /\ scan_running' = TRUE /\ scan_done' = FALSE
            /\ scanned' = selected_device
            /\ ui' = "joinScan"
            /\ UNCHANGED <<worker, ticks>>
    /\ UNCHANGED <<choices, confirmation, mutex>>

\* join_worker, then worker = std::thread(...), which may throw.
StartWorker ==
    /\ ui = "joinScan" /\ worker \in {"none", "ended"}
    /\ \/ worker' = "scan" /\ ticks' = 0 /\ ui' = "loop"
       \/ worker' = "none" /\ UNCHANGED ticks /\ ui' = "threw"
    /\ UNCHANGED <<page, choices, scan_running, scan_done, scanned, confirmation, mutex>>

EnterScanning ==
    /\ Handling /\ page = "Scanning" /\ scan_done
    /\ ui' = "joinSearch"
    /\ UNCHANGED <<page, choices, scan, confirmation, mutex>>

JoinedForSearch ==
    /\ ui = "joinSearch" /\ JoinWorker
    /\ Goto("Search") /\ ui' = "loop"
    /\ UNCHANGED <<choices, scan_running, scan_done, ticks, scanned, confirmation, mutex>>

\* A slip: the selection survives a new search.
SlipEnterSearch ==
    /\ Handling /\ page = "Search"
    /\ \/ results' \in (SUBSET Folders) \cup (SUBSET Files) /\ Goto("Results")
       \/ results' = {} /\ Goto("TextView")
    /\ UNCHANGED <<selected_device, selected_record, destination_path, scan, confirmation, ui,
                   mutex>>

\* do_search, for folders or for files: a new result list, or the search error
\* page; either way the old results and the old selection are gone.
EnterSearch ==
    /\ Handling /\ page = "Search"
    /\ selected_record' = None
    /\ \/ results' \in (SUBSET Folders) \cup (SUBSET Files) /\ Goto("Results")
       \/ results' = {} /\ Goto("TextView")
    /\ UNCHANGED <<selected_device, destination_path, scan, confirmation, ui, mutex>>

EnterResults ==
    /\ Handling /\ page = "Results"
    /\ selected_record' \in results
    /\ Goto("Actions")
    /\ UNCHANGED <<selected_device, results, destination_path, scan, confirmation, ui, mutex>>

\* "show parent chain" and "preview tree" or "open containing folder tree".
EnterActionsView ==
    /\ Handling /\ page = "Actions" /\ selected_record # None
    /\ Goto("TextView") /\ OnlyPage

\* "dry-run recover" and "recover" do what the keys d and r do.
EnterActionsRecover == page = "Actions" /\ (PressD \/ PressR)

\* "Enter runs dry-run first"; the confirmation page follows in any case.
EnterRecoverDest ==
    /\ Handling /\ page = "RecoverDest"
    /\ real_recover_confirmed' = FALSE
    /\ attempted' = <<selected_device, selected_record>> /\ preview' = None
    /\ IF CanRecover THEN ui' = "dryConfirm" /\ UNCHANGED page
                     ELSE UNCHANGED ui /\ Goto("ConfirmRecover")
    /\ UNCHANGED <<choices, scan, mutex>>

EnterConfirmRecover ==
    /\ Handling /\ page = "ConfirmRecover" /\ ~real_recover_confirmed
    /\ real_recover_confirmed' = TRUE
    /\ IF CanRecover THEN ui' = "real" /\ attempted' = None
                     ELSE UNCHANGED <<ui, attempted>>
    /\ UNCHANGED <<page, choices, scan, preview, mutex>>

EnterTextView ==
    Handling /\ page = "TextView" /\ Goto("Results") /\ OnlyPage

\* Recover::run returned, or threw; run_recover shows the text page, which the
\* RecoverDest handler replaces at once.
RecoverEnds ==
    /\ ui \in {"dry", "dryConfirm", "real"}
    /\ Goto(IF ui = "dryConfirm" THEN "ConfirmRecover" ELSE "TextView")
    /\ \/ ui = "dryConfirm" /\ preview' = <<selected_device, selected_record, destination_path>>
       \/ UNCHANGED preview
    /\ ui' = "loop"
    /\ UNCHANGED <<choices, scan, real_recover_confirmed, attempted, mutex>>

TypeDestination ==
    /\ Handling /\ destination_path' \in Typed
    /\ UNCHANGED <<page, selected_device, results, selected_record, scan, confirmation, ui, mutex>>

\* Ctrl-C: the interface library ends its loop.
Interrupt ==
    /\ Handling /\ ui' = "joinExit"
    /\ UNCHANGED <<page, choices, scan, confirmation, mutex>>

\* A slip: no join after the loop.
SlipJoinedForExit ==
    /\ ui = "joinExit" /\ ui' = "return"
    /\ UNCHANGED <<page, choices, scan, confirmation, mutex>>

JoinedForExit ==
    /\ ui = "joinExit" /\ JoinWorker
    /\ ui' = "return"
    /\ UNCHANGED <<page, choices, scan_running, scan_done, ticks, scanned, confirmation, mutex>>

\* run_tui returns, or an exception leaves it: ~thread() of a joinable thread
\* calls std::terminate.
Leave ==
    /\ ui \in {"return", "threw"}
    /\ ui' = IF worker # "none" THEN "terminate" ELSE IF ui = "return" THEN "exited" ELSE "failed"
    /\ UNCHANGED <<page, choices, scan, confirmation, mutex>>

-----------------------------------------------------------------------------
(* Rendering and the worker: the two users of state_mutex.                 *)

RenderBegins ==
    /\ Handling /\ mutex = "free"
    /\ ui' = "render" /\ mutex' = "ui"
    /\ UNCHANGED <<page, choices, scan, confirmation>>

\* A slip: a frame that fails keeps the mutex.
SlipRenderEnds ==
    /\ ui = "render"
    /\ ui' = "loop" /\ mutex' \in {"free", "ui"}
    /\ UNCHANGED <<page, choices, scan, confirmation>>

RenderEnds ==
    /\ ui = "render"
    /\ ui' = "loop" /\ mutex' = "free"
    /\ UNCHANGED <<page, choices, scan, confirmation>>

\* The progress callback, or the catch block: lock and append_log.
WorkerLogs ==
    /\ \/ worker = "scan" /\ ticks < Ticks /\ worker' = "log" /\ ticks' = ticks + 1
       \/ worker = "error" /\ worker' = "errorLog" /\ UNCHANGED ticks
    /\ mutex = "free" /\ mutex' = "worker"
    /\ UNCHANGED <<page, choices, scan_running, scan_done, scanned, confirmation, ui>>

WorkerUnlocks ==
    /\ worker \in {"log", "errorLog"}
    /\ worker' = IF worker = "log" THEN "scan" ELSE "finish"
    /\ mutex' = "free"
    /\ UNCHANGED <<page, choices, scan_running, scan_done, ticks, scanned, confirmation, ui>>

\* A slip: an exception ends the thread before it sets the flags.
SlipScannerEnds ==
    /\ worker = "scan" /\ worker' \in {"finish", "ended"}
    /\ UNCHANGED <<page, choices, scan_running, scan_done, ticks, scanned, confirmation, ui, mutex>>

\* Scanner::run returns or throws.
ScannerEnds ==
    /\ worker = "scan" /\ worker' \in {"finish", "error"}
    /\ UNCHANGED <<page, choices, scan_running, scan_done, ticks, scanned, confirmation, ui, mutex>>

WorkerFinishes ==
    /\ worker = "finish" /\ mutex = "free"
    /\ scan_running' = FALSE /\ scan_done' = TRUE
    /\ worker' = "ended"
    /\ UNCHANGED <<page, choices, ticks, scanned, confirmation, ui, mutex>>

Keys ==
    \/ PressQ \/ PressSlash \/ PressD \/ PressR
    \/ EnterDevices \/ EnterWarning \/ EnterScanning \/ EnterSearch \/ EnterResults
    \/ EnterActionsView \/ EnterActionsRecover
    \/ EnterRecoverDest \/ EnterConfirmRecover \/ EnterTextView
    \/ TypeDestination \/ Interrupt
HandlerEnds == StartWorker \/ JoinedForSearch \/ RecoverEnds \/ JoinedForExit \/ Leave
WorkerStep == ui \notin Over /\ (WorkerLogs \/ WorkerUnlocks \/ ScannerEnds \/ WorkerFinishes)

Next == Keys \/ HandlerEnds \/ RenderBegins \/ RenderEnds \/ WorkerStep

Spec == Init /\ [][Next]_vars

\* Both threads run.  Strong fairness of the worker's steps: between two
\* frames the interface thread waits for an event without the mutex.
FairSpec == /\ Spec
            /\ WF_vars(HandlerEnds) /\ WF_vars(RenderEnds)
            /\ SF_vars(WorkerStep)

\* The same, for a user who keeps pressing q whenever the program listens.
QSpec == FairSpec /\ SF_vars(PressQ)

-----------------------------------------------------------------------------
(* Properties.                                                             *)

\* However the event loop ends, by q or by Ctrl-C in the middle of a scan, the
\* worker is joined before run_tui destroys it.  std::terminate needs an exception
\* that leaves a handler, and of those only the one of current_path, for a folder
\* and no destination, can meet a worker: std::thread throws with none left.
JoinedUnlessThrown ==
    [][ui # "terminate" /\ ui' = "terminate" =>
           ui = "threw" /\ destination_path = Empty /\ FolderSelected]_vars

\* The pages that act on a record have one to act on, and the two pages of a
\* recovery have a folder: no chain of shortcuts, which skip the Actions menu,
\* and of searches, which drop the selection, gets there without it.
SelectionUsable ==
    /\ page = "Actions" => selected_record # None
    /\ page \in {"RecoverDest", "ConfirmRecover"} => FolderSelected
    /\ selected_record # None => selected_record \in results

\* Every real recovery is of the device and folder of a dry run that the
\* destination page has made since the last recovery ("Enter runs dry-run
\* first"), whatever was searched for and selected in between.
RealAfterDryRun ==
    [][ui # "real" /\ ui' = "real" => attempted = <<selected_device, selected_record>>]_vars

\* Once a scan was started, what is recovered is read from the device that was
\* scanned: no path leads back to the device menu under an index of another.
RecoverFromScanned == scanned # None => selected_device = scanned

\* A scan that was started is reported as done, whether the Scanner returns or
\* throws, so the Scanning page does not wait for ever; only an exception in the
\* interface thread comes first.
ScanReported == scan_running ~> scan_done \/ ui \in {"failed", "terminate"}

\* Whatever the user interface joins the worker for, another scan, the search page
\* or the exit, the wait is over some day: the worker, which needs state_mutex to
\* log and to finish, never waits for the thread that waits for it.
JoinsEnd ==
    \A join \in {"joinScan", "joinSearch", "joinExit"} : ui = join ~> ui # join

\* "Dry-run/preview completed" (the ConfirmRecover page): the page shows only
\* after a dry run to the same destination succeeded.
ConfirmAfterPreview ==
    page = "ConfirmRecover" =>
        preview = <<selected_device, selected_record, destination_path>>

\* "q back/quit" (every page): a user who from some moment on presses nothing
\* but q leaves the program.
LeavesByQ == <>[][Keys => PressQ]_vars => <>(ui \in Over)
=============================================================================
