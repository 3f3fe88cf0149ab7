----------------------------- MODULE Tui_proofs -----------------------------
(***************************************************************************)
(* Proofs about Tui, for any devices, records and destinations and any     *)
(* length of a scan.                                                       *)
(***************************************************************************)
EXTENDS Tui, TLAPS

\* The loop is left with the worker joined, a handler by an exception also without
\* a destination.
Joined ==
    /\ ui = "return" => worker = "none"
    /\ ui = "threw" /\ worker # "none" => destination_path = Empty /\ FolderSelected

\* Once a scan was started the pages that choose the device are out of reach.
DevicesLeft == scanned # None => page \notin {"Devices", "Warning"}

\* A dry run for the confirmation is of the folder selected.
DryRunSelected == ui = "dryConfirm" => CanRecover

\* The confirmation that has not been given is for the last dry run.
Attempted == <<selected_device, selected_record>>
ConfirmsAttempted ==
    (page = "ConfirmRecover" \/ ui = "dryConfirm") /\ ~real_recover_confirmed =>
        attempted = Attempted
NotConfirmed == ui = "dryConfirm" => ~real_recover_confirmed

IInv ==
    /\ TypeOK
    /\ Joined
    /\ SelectionUsable /\ DryRunSelected
    /\ RecoverFromScanned /\ DevicesLeft
    /\ ConfirmsAttempted /\ NotConfirmed

LEMMA InitInv == Init => IInv
  <1> SUFFICES ASSUME Init PROVE IInv
    OBVIOUS
  <1>1. real_recover_confirmed \in BOOLEAN /\ scan_running \in BOOLEAN /\ scan_done \in BOOLEAN
    BY Zenon DEF Init
  <1>2. TypeOK
    BY <1>1, TuiAssumption DEF Init, TypeOK, Pages, Records, Typed, Over
  <1>3. Joined /\ SelectionUsable /\ DryRunSelected /\ RecoverFromScanned /\ DevicesLeft
    BY DEF Init, Joined, SelectionUsable, DryRunSelected, RecoverFromScanned, DevicesLeft
  <1>4. ConfirmsAttempted /\ NotConfirmed
    BY DEF Init, ConfirmsAttempted, NotConfirmed
  <1> QED
    BY <1>2, <1>3, <1>4 DEF IInv

-----------------------------------------------------------------------------
(* Types.                                                                  *)

LEMMA TypeStep == IInv /\ [Next]_vars => TypeOK'
  <1> SUFFICES ASSUME IInv, [Next]_vars PROVE TypeOK'
    OBVIOUS
  <1> USE TuiAssumption DEF IInv, TypeOK, Pages, Records, Typed, Over, SelectionUsable, FolderSelected,
          Handling, Goto, OnlyPage, choices, scan, confirmation
  <1>1. CASE UNCHANGED vars
    BY <1>1 DEF vars
  <1>2. CASE PressQ
    BY <1>2 DEF PressQ, Back
  <1>3. CASE PressSlash
    BY <1>3 DEF PressSlash
  <1>4. CASE PressD
    BY <1>4 DEF PressD, DefaultDestination, NoWorkingDirectory, CanRecover
  <1>5. CASE PressR
    BY <1>5 DEF PressR, ToRecovery, DefaultDestination, NoWorkingDirectory
  <1>6. CASE EnterDevices
    BY <1>6 DEF EnterDevices
  <1>7. CASE EnterWarning
    <2>1. scan_running' \in BOOLEAN /\ scan_done' \in BOOLEAN
      BY <1>7, Zenon DEF EnterWarning
    <2>2. /\ page' \in Pages /\ ui' \in {"loop", "joinScan"}
          /\ scanned' \in Devices \cup {None} /\ worker' = worker /\ ticks' = ticks
          /\ UNCHANGED <<selected_device, results, selected_record, destination_path>>
          /\ UNCHANGED <<attempted, preview, mutex>>
      BY <1>7 DEF EnterWarning
    <2>3. real_recover_confirmed' = real_recover_confirmed
      BY <1>7, Zenon DEF EnterWarning
    <2> QED
      BY <2>1, <2>2, <2>3
  <1>8. CASE EnterScanning
    BY <1>8 DEF EnterScanning
  <1>9. CASE EnterSearch
    <2>1. results' \in SUBSET Records /\ page' \in Pages
      <3>1. CASE results' \in (SUBSET Folders) \cup (SUBSET Files) /\ page' = "Results"
        BY <3>1
      <3>2. CASE results' = {} /\ page' = "TextView"
        BY <3>2
      <3> QED
        BY <1>9, <3>1, <3>2 DEF EnterSearch
    <2>2. selected_record' = None
      BY <1>9 DEF EnterSearch
    <2>3. UNCHANGED <<selected_device, destination_path, scan, confirmation, ui, mutex>>
      BY <1>9 DEF EnterSearch
    <2> QED
      BY <2>1, <2>2, <2>3
  <1>10. CASE EnterResults
    BY <1>10 DEF EnterResults
  <1>11. CASE EnterActionsView
    BY <1>11 DEF EnterActionsView
  <1>12. CASE EnterRecoverDest
    BY <1>12 DEF EnterRecoverDest, CanRecover
  <1>13. CASE EnterConfirmRecover
    BY <1>13 DEF EnterConfirmRecover, CanRecover
  <1>14. CASE EnterTextView
    BY <1>14 DEF EnterTextView
  <1>15. CASE TypeDestination
    BY <1>15 DEF TypeDestination
  <1>16. CASE Interrupt
    BY <1>16 DEF Interrupt
  <1>17. CASE StartWorker
    BY <1>17 DEF StartWorker
  <1>18. CASE JoinedForSearch
    BY <1>18 DEF JoinedForSearch, JoinWorker
  <1>19. CASE RecoverEnds
    <2>1. preview' = preview \/ preview' \in Devices \X Folders \X (Typed \cup {Default})
      BY <1>19 DEF RecoverEnds, DryRunSelected, CanRecover
    <2>2. page' \in Pages /\ ui' = "loop"
      BY <1>19 DEF RecoverEnds
    <2>3. UNCHANGED <<choices, scan, real_recover_confirmed, attempted, mutex>>
      BY <1>19 DEF RecoverEnds
    <2> QED
      BY <2>1, <2>2, <2>3
  <1>20. CASE JoinedForExit
    BY <1>20 DEF JoinedForExit, JoinWorker
  <1>21. CASE Leave
    BY <1>21 DEF Leave
  <1>22. CASE RenderBegins
    BY <1>22 DEF RenderBegins
  <1>23. CASE RenderEnds
    BY <1>23 DEF RenderEnds
  <1>24. CASE WorkerLogs
    BY <1>24 DEF WorkerLogs
  <1>25. CASE WorkerUnlocks
    BY <1>25 DEF WorkerUnlocks
  <1>26. CASE ScannerEnds
    BY <1>26 DEF ScannerEnds
  <1>27. CASE WorkerFinishes
    <2>1. scan_running' \in BOOLEAN /\ scan_done' \in BOOLEAN
      BY <1>27, Zenon DEF WorkerFinishes
    <2>2. worker' = "ended"
      BY <1>27 DEF WorkerFinishes
    <2>3. UNCHANGED <<page, choices, ticks, scanned, confirmation, ui, mutex>>
      BY <1>27 DEF WorkerFinishes
    <2> QED
      BY <2>1, <2>2, <2>3
  <1> QED
    BY <1>1, <1>2, <1>3, <1>4, <1>5, <1>6, <1>7, <1>8, <1>9, <1>10, <1>11, <1>12,
       <1>13, <1>14, <1>15, <1>16, <1>17, <1>18, <1>19, <1>20, <1>21, <1>22, <1>23,
       <1>24, <1>25, <1>26, <1>27
       DEF Next, Keys, HandlerEnds, WorkerStep, EnterActionsRecover

-----------------------------------------------------------------------------
(* Safety, action by action.                                               *)

LEMMA JoinedStep == IInv /\ [Next]_vars => Joined'
  <1> SUFFICES ASSUME IInv, [Next]_vars PROVE Joined'
    OBVIOUS
  <1> USE TuiAssumption DEF IInv, Joined, FolderSelected,
          Handling, Goto, OnlyPage, choices, scan, confirmation
  <1>1. CASE UNCHANGED vars
    BY <1>1 DEF vars
  <1>2. CASE PressQ
    BY <1>2 DEF PressQ, Back
  <1>3. CASE PressSlash
    BY <1>3 DEF PressSlash
  <1>4. CASE PressD
    BY <1>4 DEF PressD, DefaultDestination, NoWorkingDirectory, CanRecover
  <1>5. CASE PressR
    BY <1>5 DEF PressR, ToRecovery, DefaultDestination, NoWorkingDirectory
  <1>6. CASE EnterDevices
    BY <1>6 DEF EnterDevices
  <1>7. CASE EnterWarning
    BY <1>7 DEF EnterWarning
  <1>8. CASE EnterScanning
    BY <1>8 DEF EnterScanning
  <1>9. CASE EnterSearch
    BY <1>9 DEF EnterSearch
  <1>10. CASE EnterResults
    BY <1>10 DEF EnterResults
  <1>11. CASE EnterActionsView
    BY <1>11 DEF EnterActionsView
  <1>12. CASE EnterRecoverDest
    BY <1>12 DEF EnterRecoverDest, CanRecover
  <1>13. CASE EnterConfirmRecover
    BY <1>13 DEF EnterConfirmRecover, CanRecover
  <1>14. CASE EnterTextView
    BY <1>14 DEF EnterTextView
  <1>15. CASE TypeDestination
    BY <1>15 DEF TypeDestination
  <1>16. CASE Interrupt
    BY <1>16 DEF Interrupt
  <1>17. CASE StartWorker
    BY <1>17 DEF StartWorker
  <1>18. CASE JoinedForSearch
    BY <1>18 DEF JoinedForSearch, JoinWorker
  <1>19. CASE RecoverEnds
    BY <1>19 DEF RecoverEnds
  <1>20. CASE JoinedForExit
    BY <1>20 DEF JoinedForExit, JoinWorker
  <1>21. CASE Leave
    BY <1>21 DEF Leave
  <1>22. CASE RenderBegins
    BY <1>22 DEF RenderBegins
  <1>23. CASE RenderEnds
    BY <1>23 DEF RenderEnds
  <1>24. CASE WorkerLogs
    BY <1>24 DEF WorkerLogs
  <1>25. CASE WorkerUnlocks
    BY <1>25 DEF WorkerUnlocks
  <1>26. CASE ScannerEnds
    BY <1>26 DEF ScannerEnds
  <1>27. CASE WorkerFinishes
    BY <1>27 DEF WorkerFinishes
  <1> QED
    BY <1>1, <1>2, <1>3, <1>4, <1>5, <1>6, <1>7, <1>8, <1>9, <1>10, <1>11, <1>12,
       <1>13, <1>14, <1>15, <1>16, <1>17, <1>18, <1>19, <1>20, <1>21, <1>22, <1>23,
       <1>24, <1>25, <1>26, <1>27
       DEF Next, Keys, HandlerEnds, WorkerStep, EnterActionsRecover

LEMMA SelectionStep == IInv /\ [Next]_vars => SelectionUsable' /\ DryRunSelected'
  <1> SUFFICES ASSUME IInv, [Next]_vars PROVE SelectionUsable' /\ DryRunSelected'
    OBVIOUS
  <1> USE TuiAssumption DEF IInv, TypeOK, Records, SelectionUsable, DryRunSelected, FolderSelected,
          CanRecover,
          Handling, Goto, OnlyPage, choices, scan, confirmation
  <1>1. CASE UNCHANGED vars
    BY <1>1 DEF vars
  <1>2. CASE PressQ
    BY <1>2 DEF PressQ, Back
  <1>3. CASE PressSlash
    BY <1>3 DEF PressSlash
  <1>4. CASE PressD
    BY <1>4 DEF PressD, DefaultDestination, NoWorkingDirectory, CanRecover
  <1>5. CASE PressR
    BY <1>5 DEF PressR, ToRecovery, DefaultDestination, NoWorkingDirectory
  <1>6. CASE EnterDevices
    BY <1>6 DEF EnterDevices
  <1>7. CASE EnterWarning
    BY <1>7 DEF EnterWarning
  <1>8. CASE EnterScanning
    BY <1>8 DEF EnterScanning
  <1>9. CASE EnterSearch
    BY <1>9 DEF EnterSearch
  <1>10. CASE EnterResults
    BY <1>10 DEF EnterResults
  <1>11. CASE EnterActionsView
    BY <1>11 DEF EnterActionsView
  <1>12. CASE EnterRecoverDest
    BY <1>12 DEF EnterRecoverDest, CanRecover
  <1>13. CASE EnterConfirmRecover
    BY <1>13 DEF EnterConfirmRecover, CanRecover
  <1>14. CASE EnterTextView
    BY <1>14 DEF EnterTextView
  <1>15. CASE TypeDestination
    BY <1>15 DEF TypeDestination
  <1>16. CASE Interrupt
    BY <1>16 DEF Interrupt
  <1>17. CASE StartWorker
    BY <1>17 DEF StartWorker
  <1>18. CASE JoinedForSearch
    BY <1>18 DEF JoinedForSearch, JoinWorker
  <1>19. CASE RecoverEnds
    BY <1>19 DEF RecoverEnds
  <1>20. CASE JoinedForExit
    BY <1>20 DEF JoinedForExit, JoinWorker
  <1>21. CASE Leave
    BY <1>21 DEF Leave
  <1>22. CASE RenderBegins
    BY <1>22 DEF RenderBegins
  <1>23. CASE RenderEnds
    BY <1>23 DEF RenderEnds
  <1>24. CASE WorkerLogs
    BY <1>24 DEF WorkerLogs
  <1>25. CASE WorkerUnlocks
    BY <1>25 DEF WorkerUnlocks
  <1>26. CASE ScannerEnds
    BY <1>26 DEF ScannerEnds
  <1>27. CASE WorkerFinishes
    BY <1>27 DEF WorkerFinishes
  <1> QED
    BY <1>1, <1>2, <1>3, <1>4, <1>5, <1>6, <1>7, <1>8, <1>9, <1>10, <1>11, <1>12,
       <1>13, <1>14, <1>15, <1>16, <1>17, <1>18, <1>19, <1>20, <1>21, <1>22, <1>23,
       <1>24, <1>25, <1>26, <1>27
       DEF Next, Keys, HandlerEnds, WorkerStep, EnterActionsRecover

LEMMA DeviceStep == IInv /\ [Next]_vars => RecoverFromScanned' /\ DevicesLeft'
  <1> SUFFICES ASSUME IInv, [Next]_vars PROVE RecoverFromScanned' /\ DevicesLeft'
    OBVIOUS
  <1> USE TuiAssumption DEF IInv, RecoverFromScanned, DevicesLeft,
          Handling, Goto, OnlyPage, choices, scan, confirmation
  <1>1. CASE UNCHANGED vars
    BY <1>1 DEF vars
  <1>2. CASE PressQ
    BY <1>2 DEF PressQ, Back
  <1>3. CASE PressSlash
    BY <1>3 DEF PressSlash
  <1>4. CASE PressD
    BY <1>4 DEF PressD, DefaultDestination, NoWorkingDirectory, CanRecover
  <1>5. CASE PressR
    BY <1>5 DEF PressR, ToRecovery, DefaultDestination, NoWorkingDirectory
  <1>6. CASE EnterDevices
    BY <1>6 DEF EnterDevices
  <1>7. CASE EnterWarning
    BY <1>7 DEF EnterWarning
  <1>8. CASE EnterScanning
    BY <1>8 DEF EnterScanning
  <1>9. CASE EnterSearch
    BY <1>9 DEF EnterSearch
  <1>10. CASE EnterResults
    BY <1>10 DEF EnterResults
  <1>11. CASE EnterActionsView
    BY <1>11 DEF EnterActionsView
  <1>12. CASE EnterRecoverDest
    BY <1>12 DEF EnterRecoverDest, CanRecover
  <1>13. CASE EnterConfirmRecover
    BY <1>13 DEF EnterConfirmRecover, CanRecover
  <1>14. CASE EnterTextView
    BY <1>14 DEF EnterTextView
  <1>15. CASE TypeDestination
    BY <1>15 DEF TypeDestination
  <1>16. CASE Interrupt
    BY <1>16 DEF Interrupt
  <1>17. CASE StartWorker
    BY <1>17 DEF StartWorker
  <1>18. CASE JoinedForSearch
    BY <1>18 DEF JoinedForSearch, JoinWorker
  <1>19. CASE RecoverEnds
    BY <1>19 DEF RecoverEnds
  <1>20. CASE JoinedForExit
    BY <1>20 DEF JoinedForExit, JoinWorker
  <1>21. CASE Leave
    BY <1>21 DEF Leave
  <1>22. CASE RenderBegins
    BY <1>22 DEF RenderBegins
  <1>23. CASE RenderEnds
    BY <1>23 DEF RenderEnds
  <1>24. CASE WorkerLogs
    BY <1>24 DEF WorkerLogs
  <1>25. CASE WorkerUnlocks
    BY <1>25 DEF WorkerUnlocks
  <1>26. CASE ScannerEnds
    BY <1>26 DEF ScannerEnds
  <1>27. CASE WorkerFinishes
    BY <1>27 DEF WorkerFinishes
  <1> QED
    BY <1>1, <1>2, <1>3, <1>4, <1>5, <1>6, <1>7, <1>8, <1>9, <1>10, <1>11, <1>12,
       <1>13, <1>14, <1>15, <1>16, <1>17, <1>18, <1>19, <1>20, <1>21, <1>22, <1>23,
       <1>24, <1>25, <1>26, <1>27
       DEF Next, Keys, HandlerEnds, WorkerStep, EnterActionsRecover

LEMMA ConfirmStep == IInv /\ [Next]_vars => ConfirmsAttempted' /\ NotConfirmed'
  <1> SUFFICES ASSUME IInv, [Next]_vars PROVE ConfirmsAttempted' /\ NotConfirmed'
    OBVIOUS
  <1> USE TuiAssumption DEF IInv, TypeOK, ConfirmsAttempted, NotConfirmed, Attempted, FolderSelected,
          Handling, Goto, OnlyPage, choices, scan, confirmation
  <1>1. CASE UNCHANGED vars
    BY <1>1 DEF vars
  <1>2. CASE PressQ
    BY <1>2 DEF PressQ, Back
  <1>3. CASE PressSlash
    BY <1>3 DEF PressSlash
  <1>4. CASE PressD
    BY <1>4 DEF PressD, DefaultDestination, NoWorkingDirectory, CanRecover
  <1>5. CASE PressR
    BY <1>5 DEF PressR, ToRecovery, DefaultDestination, NoWorkingDirectory
  <1>6. CASE EnterDevices
    BY <1>6 DEF EnterDevices
  <1>7. CASE EnterWarning
    BY <1>7 DEF EnterWarning
  <1>8. CASE EnterScanning
    BY <1>8 DEF EnterScanning
  <1>9. CASE EnterSearch
    BY <1>9 DEF EnterSearch
  <1>10. CASE EnterResults
    BY <1>10 DEF EnterResults
  <1>11. CASE EnterActionsView
    BY <1>11 DEF EnterActionsView
  <1>12. CASE EnterRecoverDest
    BY <1>12 DEF EnterRecoverDest, CanRecover
  <1>13. CASE EnterConfirmRecover
    BY <1>13 DEF EnterConfirmRecover, CanRecover
  <1>14. CASE EnterTextView
    BY <1>14 DEF EnterTextView
  <1>15. CASE TypeDestination
    BY <1>15 DEF TypeDestination
  <1>16. CASE Interrupt
    BY <1>16 DEF Interrupt
  <1>17. CASE StartWorker
    BY <1>17 DEF StartWorker
  <1>18. CASE JoinedForSearch
    BY <1>18 DEF JoinedForSearch, JoinWorker
  <1>19. CASE RecoverEnds
    BY <1>19 DEF RecoverEnds
  <1>20. CASE JoinedForExit
    BY <1>20 DEF JoinedForExit, JoinWorker
  <1>21. CASE Leave
    BY <1>21 DEF Leave
  <1>22. CASE RenderBegins
    BY <1>22 DEF RenderBegins
  <1>23. CASE RenderEnds
    BY <1>23 DEF RenderEnds
  <1>24. CASE WorkerLogs
    BY <1>24 DEF WorkerLogs
  <1>25. CASE WorkerUnlocks
    BY <1>25 DEF WorkerUnlocks
  <1>26. CASE ScannerEnds
    BY <1>26 DEF ScannerEnds
  <1>27. CASE WorkerFinishes
    BY <1>27 DEF WorkerFinishes
  <1> QED
    BY <1>1, <1>2, <1>3, <1>4, <1>5, <1>6, <1>7, <1>8, <1>9, <1>10, <1>11, <1>12,
       <1>13, <1>14, <1>15, <1>16, <1>17, <1>18, <1>19, <1>20, <1>21, <1>22, <1>23,
       <1>24, <1>25, <1>26, <1>27
       DEF Next, Keys, HandlerEnds, WorkerStep, EnterActionsRecover

LEMMA Invariant == Spec => []IInv
  <1>1. IInv /\ [Next]_vars => IInv'
    BY TypeStep, JoinedStep, SelectionStep, DeviceStep, ConfirmStep DEF IInv
  <1> QED
    BY <1>1, InitInv, PTL DEF Spec

-----------------------------------------------------------------------------
(* Theorems.                                                               *)

\* Every variable keeps its type.
THEOREM PagesTyped == Spec => []TypeOK
  <1>1. IInv => TypeOK
    BY DEF IInv
  <1> QED
    BY <1>1, Invariant, PTL

\* The worker is joined however the loop ends; only the exception of current_path,
\* for a folder and no destination, destroys one that is joinable.
THEOREM ExitsJoined == Spec => JoinedUnlessThrown
  <1>1. ASSUME IInv, [Next]_vars
        PROVE  [ui # "terminate" /\ ui' = "terminate" =>
                    ui = "threw" /\ destination_path = Empty /\ FolderSelected]_vars
    <2> SUFFICES ASSUME ui # "terminate", ui' = "terminate"
                 PROVE  ui = "threw" /\ destination_path = Empty /\ FolderSelected
      OBVIOUS
    <2>1. Leave
      BY <1>1 DEF Next, Keys, HandlerEnds, WorkerStep, vars, Handling, OnlyPage, PressQ, PressSlash,
                  PressD, PressR, ToRecovery, NoWorkingDirectory, EnterDevices, EnterWarning,
                  EnterScanning, EnterSearch, EnterResults, EnterActionsView, EnterActionsRecover,
                  EnterRecoverDest, EnterConfirmRecover, EnterTextView, TypeDestination, Interrupt,
                  StartWorker, JoinedForSearch, RecoverEnds, JoinedForExit, RenderBegins, RenderEnds,
                  WorkerLogs, WorkerUnlocks, ScannerEnds, WorkerFinishes
    <2>2. ui \in {"return", "threw"} /\ worker # "none"
      BY <2>1 DEF Leave
    <2> QED
      BY <1>1, <2>2 DEF IInv, Joined
  <1> QED
    BY <1>1, Invariant, PTL DEF Spec, JoinedUnlessThrown

\* The pages that act on a record have one, those of a recovery a folder.
THEOREM SelectionKept == Spec => []SelectionUsable
  <1>1. IInv => SelectionUsable
    BY DEF IInv
  <1> QED
    BY <1>1, Invariant, PTL

\* What is recovered is read from the device that was scanned.
THEOREM DeviceKept == Spec => []RecoverFromScanned
  <1>1. IInv => RecoverFromScanned
    BY DEF IInv
  <1> QED
    BY <1>1, Invariant, PTL

\* A real recovery is of the device and folder of the last dry run.
THEOREM DryRunFirst == Spec => RealAfterDryRun
  <1>1. ASSUME IInv, [Next]_vars
        PROVE  [ui # "real" /\ ui' = "real" => attempted = <<selected_device, selected_record>>]_vars
    <2> SUFFICES ASSUME ui # "real", ui' = "real"
                 PROVE  attempted = <<selected_device, selected_record>>
      OBVIOUS
    <2>1. EnterConfirmRecover
      BY <1>1 DEF Next, Keys, HandlerEnds, WorkerStep, vars, Handling, OnlyPage, PressQ, PressSlash,
                  PressD, PressR, ToRecovery, NoWorkingDirectory, EnterDevices, EnterWarning,
                  EnterScanning, EnterSearch, EnterResults, EnterActionsView, EnterActionsRecover, EnterRecoverDest,
                  EnterTextView, TypeDestination, Interrupt, StartWorker, JoinedForSearch,
                  RecoverEnds, JoinedForExit, Leave, RenderBegins, RenderEnds, WorkerLogs,
                  WorkerUnlocks, ScannerEnds, WorkerFinishes
    <2> QED
      BY <1>1, <2>1 DEF IInv, ConfirmsAttempted, Attempted, EnterConfirmRecover
  <1> QED
    BY <1>1, Invariant, PTL DEF Spec, RealAfterDryRun
=============================================================================
