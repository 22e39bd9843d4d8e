---------------------------- MODULE ConsoleProofs ----------------------------
(***************************************************************************)
(* Theorems about the interactive parts of the command: Console, for any    *)
(* targets, presets, saved profiles and sessions, and Wizard, for any       *)
(* targets and seeds.                                                       *)
(***************************************************************************)
EXTENDS Console, Wizard, SumTheorems

(***************************************************************************)
(* Console. ConsoleInv has a part for the terminal, one for the             *)
(* confirmations and one for the listed sessions; each is kept by every     *)
(* step for a reason of its own, so each has a lemma of its own.            *)
(***************************************************************************)
\* The initial states satisfy the invariant.
LEMMA ConsoleInitInvariant == ConsoleInit => ConsoleInv
<1> SUFFICES ASSUME ConsoleInit PROVE ConsoleInv
  OBVIOUS
<1> USE ConsoleAssumption DEF ConsoleInit
<1>1. ConsoleTypeOK
  <2>1. screen \in Screens /\ found = NoGuard
    BY DEF Screens, NoGuard
  <2>2. DOMAIN sessions = {}
    OBVIOUS
  <2>3. mute \in BOOLEAN /\ given \in BOOLEAN
    BY Zenon
  <2>4. picked \in Nat /\ made \in 0..MaxSessions /\ saved = {} /\ agreed = {}
    OBVIOUS
  <2> QED  BY <2>1, <2>2, <2>3, <2>4 DEF ConsoleTypeOK
<1>2. GuardKept /\ FlagsHaveCause /\ EntriesWereStored
  BY DEF GuardKept, FlagsHaveCause, EntriesWereStored
<1> QED  BY <1>1, <1>2 DEF ConsoleInv

(***************************************************************************)
(* Types.                                                                   *)
(***************************************************************************)
\* Sessions that are added are numbered on, whatever becomes of them.
LEMMA StoreTypes ==
  ASSUME ConsoleTypeOK,
         \/ \E state \in States : NewSession(state)
         \/ \E id \in DOMAIN sessions, state \in States :
              made' = made /\ sessions' = [sessions EXCEPT ![id] = state]
         \/ \E id : made' = made /\ sessions' = Without(id)
         \/ UNCHANGED <<made, sessions>>
  PROVE  /\ made' \in 0..MaxSessions /\ DOMAIN sessions' \subseteq 1..made'
         /\ \A id \in DOMAIN sessions' : sessions'[id] \in States
<1> USE ConsoleAssumption DEF ConsoleTypeOK
<1>1. ASSUME NEW state \in States, NewSession(state)
      PROVE  /\ made' \in 0..MaxSessions /\ DOMAIN sessions' \subseteq 1..made'
             /\ \A id \in DOMAIN sessions' : sessions'[id] \in States
  BY <1>1 DEF NewSession
<1>2. ASSUME NEW id \in DOMAIN sessions, NEW state \in States,
             made' = made, sessions' = [sessions EXCEPT ![id] = state]
      PROVE  /\ made' \in 0..MaxSessions /\ DOMAIN sessions' \subseteq 1..made'
             /\ \A i \in DOMAIN sessions' : sessions'[i] \in States
  BY <1>2
<1>3. ASSUME NEW id, made' = made, sessions' = Without(id)
      PROVE  /\ made' \in 0..MaxSessions /\ DOMAIN sessions' \subseteq 1..made'
             /\ \A i \in DOMAIN sessions' : sessions'[i] \in States
  BY <1>3 DEF Without
<1> QED  BY <1>1, <1>2, <1>3

\* Every step keeps the types.
LEMMA TypeStep == ConsoleInv /\ [ConsoleNext]_consoleVars => ConsoleTypeOK'
<1> SUFFICES ASSUME ConsoleTypeOK, FlagsHaveCause, [ConsoleNext]_consoleVars
             PROVE  ConsoleTypeOK'
  BY DEF ConsoleInv
<1>0. screen \in {"review", "savedAction", "wizard", "proceed"} => chosen \in Runnable
  BY DEF ConsoleTypeOK, FlagsHaveCause
<1> USE ConsoleAssumption DEF ConsoleTypeOK, tty, running, files, store, listing
<1> USE DEF Screens, OnTty, Managed, Menus, Prompts, Pauses, Ends, NoGuard
<1> USE DEF Goes, Drops, Leaves, GiveBack, Start, WizardFrom
<1>1. ASSUME NEW ps \in Saves, BeginConsole(ps) PROVE ConsoleTypeOK'
  BY <1>1 DEF BeginConsole
<1>2. CASE TerminalStep
  <2>1. CASE TakeTerminal
    BY <2>1 DEF TakeTerminal
  <2>2. CASE TakeFails
    <3>1. mute' \in BOOLEAN /\ term' \in {"cooked", "raw"}
      BY <2>2, Zenon DEF TakeFails
    <3> QED  BY <2>2, <3>1 DEF TakeFails
  <2>3. CASE ScreenFails \/ Interrupt
    BY <2>3 DEF ScreenFails, Interrupt
  <2> QED  BY <1>2, <2>1, <2>2, <2>3 DEF TerminalStep
<1>3. CASE MainMenu \/ Resume
  <2>1. CASE MainMenu
    BY <2>1 DEF MainMenu
  <2>2. CASE Resume
    BY <2>2 DEF Resume
  <2> QED  BY <1>3, <2>1, <2>2
<1>4. CASE WorkloadStep
  <2>1. CASE WorkloadMenu \/ RepeatLast \/ Guided
    <3>1. CASE WorkloadMenu
      BY <3>1 DEF WorkloadMenu
    <3>2. CASE RepeatLast
      BY <3>2 DEF RepeatLast
    <3>3. CASE Guided
      BY <3>3 DEF Guided, Runnable
    <3> QED  BY <2>1, <3>1, <3>2, <3>3
  <2>2. CASE WizardEnds
    <3>1. CASE Drops("wizard", back)
      BY <3>1
    <3>2. ASSUME NEW p \in Runnable, NEW run \in BOOLEAN, NEW save \in BOOLEAN,
                 WizardAccepts(p, run, save)
          PROVE  ConsoleTypeOK'
      BY <3>2 DEF WizardAccepts
    <3>3. ASSUME ~ Drops("wizard", back) PROVE ConsoleTypeOK'
      <4>1. PICK t \in Places, w \in BOOLEAN, run \in BOOLEAN, save \in BOOLEAN :
               WizardAccepts([chosen EXCEPT !.target = t, !.write = w], run, save)
        BY <2>2, <3>3, Zenon DEF WizardEnds
      <4> DEFINE p == [chosen EXCEPT !.target = t, !.write = w]
      <4>2. p \in Runnable
        BY <1>0, <4>1 DEF Runnable, WizardAccepts
      <4>3. WizardAccepts(p, run, save)
        BY <4>1
      <4> HIDE DEF p
      <4> QED  BY <3>2, <4>2, <4>3
    <3> QED  BY <3>1, <3>3
  <2>3. CASE CategoryMenu \/ PresetMenu \/ ReviewPreset
    <3>1. CASE CategoryMenu
      BY <3>1 DEF CategoryMenu
    <3>2. CASE PresetMenu
      <4>1. \A r \in PresetRuns : ResolvePreset(r) \in Runnable
        BY DEF ResolvePreset, Runnable
      <4> QED  BY <3>2, <4>1 DEF PresetMenu
    <3>3. CASE ReviewPreset
      BY <1>0, <3>3 DEF ReviewPreset
    <3> QED  BY <2>3, <3>1, <3>2, <3>3
  <2>4. CASE StressMenus \/ Proceed \/ DoNotProceed
    <3>1. CASE StressMenus
      <4>1. \A t \in Spare : [target |-> t, write |-> TRUE, confirmed |-> TRUE] \in Runnable
        BY DEF Runnable
      <4> QED  BY <3>1, <4>1 DEF StressMenus
    <3>2. CASE Proceed
      <4>1. chosen.target \in Places
        BY <1>0, <3>2 DEF Proceed, Runnable
      <4> QED  BY <3>2, <4>1 DEF Proceed
    <3>3. CASE DoNotProceed
      BY <3>3 DEF DoNotProceed
    <3> QED  BY <2>4, <3>1, <3>2, <3>3
  <2>5. CASE SavedMenu \/ SavedActionMenu
    BY <2>5 DEF SavedMenu, SavedActionMenu
  <2>6. CASE RunFails \/ RunEnds
    BY <2>6, StoreTypes DEF RunFails, RunEnds, States
  <2>7. CASE RunAgain \/ ViewReport \/ LeaveRun
    BY <2>7 DEF RunAgain, ViewReport, LeaveRun
  <2> QED  BY <1>4, <2>1, <2>2, <2>3, <2>4, <2>5, <2>6, <2>7 DEF WorkloadStep
<1>5. CASE DiagMenu \/ MonitorEnds
  BY <1>5 DEF DiagMenu, MonitorEnds
<1>6. CASE CaptureEnds
  BY <1>6, StoreTypes DEF CaptureEnds, States
<1>7. CASE ReportStep
  <2>1. CASE ListSessions \/ LoadEntries \/ PickSession \/ ReportActionMenu
    BY <2>1 DEF ListSessions, LoadEntries, PickSession, ReportActionMenu
  <2>2. CASE Confirm \/ DoNotDelete
    BY <2>2 DEF Confirm, DoNotDelete
  <2>3. CASE DeleteSession
    BY <2>3, StoreTypes DEF DeleteSession
  <2>4. CASE DeleteFails
    BY <2>4, StoreTypes DEF DeleteFails, States
  <2> QED  BY <1>7, <2>1, <2>2, <2>3, <2>4 DEF ReportStep
<1>8. CASE OtherStep
  BY <1>8, StoreTypes DEF OtherStep, OtherBegins, OtherWrites, OtherWrote, OtherDeletes, States
<1>9. CASE UNCHANGED consoleVars
  BY <1>9 DEF consoleVars
<1> QED
  BY <1>1, <1>2, <1>3, <1>4, <1>5, <1>6, <1>7, <1>8, <1>9 DEF ConsoleNext, ConsoleStep

(***************************************************************************)
(* The terminal.                                                            *)
(***************************************************************************)
\* Wherever a screen leads, its guard is gone and the terminal as it was found
\* (RawTerminalGuard, PromptTerminalGuard).
LEMMA LeavesRestores ==
  ASSUME GuardKept, NEW from, NEW to, NEW want, Leaves(from, to, want)
  PROVE  GuardKept'
  BY DEF GuardKept, Leaves, GiveBack

\* Screens without a terminal have no guard.
LEMMA NoGuardElsewhere ==
  ASSUME GuardKept, screen \notin OnTty \cup {"killed"}, UNCHANGED tty
  PROVE  GuardKept'
  BY DEF GuardKept, tty

\* Every step keeps the terminal's account.
LEMMA GuardStep == ConsoleInv /\ [ConsoleNext]_consoleVars => GuardKept'
<1> SUFFICES ASSUME ConsoleTypeOK, GuardKept, [ConsoleNext]_consoleVars PROVE GuardKept'
  BY DEF ConsoleInv
<1>0. \A from, to : Goes(from, to) \/ Drops(from, to) => GuardKept'
  BY LeavesRestores DEF Goes, Drops
<1>1. ASSUME NEW ps, BeginConsole(ps) PROVE GuardKept'
  BY <1>1, NoGuardElsewhere DEF BeginConsole, OnTty, Managed, Menus, Prompts
<1>2. CASE TerminalStep
  <2>1. CASE TakeTerminal
    BY <2>1 DEF TakeTerminal, GuardKept, ConsoleTypeOK, NoGuard
  <2>2. CASE TakeFails
    BY <2>2 DEF TakeFails, GuardKept
  <2>3. CASE ScreenFails
    BY <2>3 DEF ScreenFails, GiveBack, GuardKept
  <2>4. CASE Interrupt
    BY <2>4 DEF Interrupt, GuardKept, tty
  <2> QED  BY <1>2, <2>1, <2>2, <2>3, <2>4 DEF TerminalStep
<1>3. CASE MainMenu \/ WorkloadMenu \/ CategoryMenu \/ DoNotProceed \/ ViewReport \/ DiagMenu
             \/ MonitorEnds \/ DoNotDelete \/ ReportActionMenu
  BY <1>0, <1>3 DEF MainMenu, WorkloadMenu, CategoryMenu, DoNotProceed, ViewReport, DiagMenu,
                   MonitorEnds, DoNotDelete, ReportActionMenu
<1>4. CASE RepeatLast \/ Guided \/ PresetMenu \/ ReviewPreset \/ StressMenus \/ Proceed
             \/ SavedMenu \/ SavedActionMenu
  BY <1>0, <1>4, LeavesRestores DEF RepeatLast, Guided, PresetMenu, ReviewPreset, StressMenus,
     Proceed, SavedMenu, SavedActionMenu, Start, WizardFrom
<1>5. CASE WizardEnds
  BY <1>0, <1>5, LeavesRestores DEF WizardEnds, WizardAccepts
<1>6. CASE RunAgain \/ LeaveRun \/ CaptureEnds \/ PickSession \/ Confirm
  BY <1>0, <1>6, LeavesRestores DEF RunAgain, LeaveRun, CaptureEnds, PickSession, Confirm
<1>7. CASE Resume \/ RunFails \/ RunEnds \/ ListSessions \/ LoadEntries
             \/ DeleteSession \/ DeleteFails
  BY <1>7, NoGuardElsewhere DEF Resume, RunFails, RunEnds, ListSessions, LoadEntries,
     DeleteSession, DeleteFails, OnTty, Managed, Menus, Prompts, Pauses
<1>8. CASE OtherStep \/ UNCHANGED consoleVars
  BY <1>8 DEF OtherStep, OtherBegins, OtherWrites, OtherWrote, OtherDeletes, consoleVars,
     GuardKept, tty
<1> QED
  BY <1>1, <1>2, <1>3, <1>4, <1>5, <1>6, <1>7, <1>8
     DEF ConsoleNext, ConsoleStep, WorkloadStep, ReportStep

(***************************************************************************)
(* The confirmations.                                                       *)
(***************************************************************************)
\* Steps of a screen that leads nowhere with a profile.
LEMMA PlainScreens ==
  ASSUME FlagsHaveCause, UNCHANGED <<last, agreed, files>>,
         screen' \notin {"idle", "review", "savedAction", "wizard", "run", "after", "pauseRun",
                     "proceed"}
  PROVE  FlagsHaveCause'
  BY DEF FlagsHaveCause, files

\* Every step keeps the causes of the confirmations.
LEMMA FlagsStep == ConsoleInv /\ [ConsoleNext]_consoleVars => FlagsHaveCause'
<1> SUFFICES ASSUME ConsoleTypeOK, FlagsHaveCause, [ConsoleNext]_consoleVars
             PROVE  FlagsHaveCause'
  BY DEF ConsoleInv
<1> USE ConsoleAssumption DEF running, files
<1> USE DEF Goes, Drops, Leaves, Start, WizardFrom
<1>1. ASSUME NEW ps, BeginConsole(ps) PROVE FlagsHaveCause'
  BY <1>1 DEF BeginConsole, FlagsHaveCause
<1>2. CASE TerminalStep
  <2>1. CASE TakeTerminal
    BY <2>1 DEF TakeTerminal, FlagsHaveCause
  <2>2. CASE TakeFails \/ ScreenFails \/ Interrupt
    BY <2>2, PlainScreens DEF TakeFails, ScreenFails, Interrupt
  <2> QED  BY <1>2, <2>1, <2>2 DEF TerminalStep
<1>3. CASE MainMenu \/ WorkloadMenu \/ CategoryMenu \/ DoNotProceed \/ DiagMenu
             \/ MonitorEnds \/ DoNotDelete \/ ReportActionMenu
  BY <1>3, PlainScreens DEF MainMenu, WorkloadMenu, CategoryMenu, DoNotProceed, DiagMenu,
                   MonitorEnds, DoNotDelete, ReportActionMenu
<1>4. CASE RepeatLast
  BY <1>4 DEF RepeatLast, FlagsHaveCause
<1>5. CASE Guided
  <2>1. \A t \in Places : [target |-> t, write |-> FALSE, confirmed |-> FALSE] \in Runnable
    BY DEF Runnable
  <2> QED  BY <1>5, <2>1 DEF Guided, FlagsHaveCause
<1>6. CASE PresetMenu
  <2>1. \A r \in PresetRuns : ResolvePreset(r) \in Runnable /\ ~ ResolvePreset(r).confirmed
    BY DEF ResolvePreset, Runnable
  <2> QED  BY <1>6, <2>1 DEF PresetMenu, FlagsHaveCause
<1>7. CASE ReviewPreset
  BY <1>7 DEF ReviewPreset, FlagsHaveCause
<1>8. CASE StressMenus \/ Proceed
  <2>1. \A t \in Spare : [target |-> t, write |-> TRUE, confirmed |-> TRUE] \in Runnable
    BY DEF Runnable
  <2>2. CASE StressMenus
    BY <2>1, <2>2 DEF StressMenus, FlagsHaveCause
  <2>3. CASE Proceed
    BY <2>3 DEF Proceed, FlagsHaveCause
  <2> QED  BY <1>8, <2>2, <2>3
<1>9. CASE SavedMenu \/ SavedActionMenu
  BY <1>9 DEF SavedMenu, SavedActionMenu, FlagsHaveCause, ConsoleTypeOK, Runnable
<1>10. CASE WizardEnds
  <2>1. ASSUME NEW p \in Runnable, p.confirmed => given, NEW run, NEW save,
               WizardAccepts(p, run, save)
        PROVE  FlagsHaveCause'
    BY <2>1 DEF WizardAccepts, FlagsHaveCause, ConsoleTypeOK
  <2>2. CASE Drops("wizard", back)
    BY <2>2 DEF FlagsHaveCause, ConsoleTypeOK
  <2>3. ASSUME ~ Drops("wizard", back) PROVE FlagsHaveCause'
    <3>1. PICK t \in Places, w \in BOOLEAN, run \in BOOLEAN, save \in BOOLEAN :
             WizardAccepts([chosen EXCEPT !.target = t, !.write = w], run, save)
      BY <1>10, <2>3, Zenon DEF WizardEnds
    <3> DEFINE p == [chosen EXCEPT !.target = t, !.write = w]
    <3>2. chosen \in Runnable /\ (chosen.confirmed => given)
      BY <3>1 DEF ConsoleTypeOK, FlagsHaveCause, WizardAccepts
    <3>3. p \in Runnable /\ (p.confirmed => given)
      BY <3>2 DEF Runnable
    <3>4. WizardAccepts(p, run, save)
      BY <3>1
    <3> HIDE DEF p
    <3> QED  BY <2>1, <3>3, <3>4
  <2> QED  BY <2>2, <2>3
<1>11. CASE Resume \/ RunFails \/ RunEnds \/ RunAgain \/ ViewReport \/ LeaveRun
  BY <1>11 DEF Resume, Pauses, RunFails, RunEnds, RunAgain, ViewReport, LeaveRun, FlagsHaveCause,
     ConsoleTypeOK
<1>12. CASE CaptureEnds \/ PickSession \/ Confirm \/ ListSessions \/ LoadEntries
             \/ DeleteSession \/ DeleteFails
  BY <1>12, PlainScreens DEF CaptureEnds, PickSession, Confirm, ListSessions, LoadEntries,
     DeleteSession, DeleteFails
<1>13. CASE OtherStep \/ UNCHANGED consoleVars
  BY <1>13 DEF OtherStep, OtherBegins, OtherWrites, OtherWrote, OtherDeletes, consoleVars,
     FlagsHaveCause
<1> QED
  BY <1>1, <1>2, <1>3, <1>4, <1>5, <1>6, <1>7, <1>8, <1>9, <1>10, <1>11, <1>12, <1>13
     DEF ConsoleNext, ConsoleStep, WorkloadStep, ReportStep

(***************************************************************************)
(* The listed sessions.                                                     *)
(***************************************************************************)
\* Steps to a screen that lists nothing.
LEMMA NothingListed ==
  ASSUME screen' \notin {"reports", "reportAction", "confirm", "deleting"}
  PROVE  EntriesWereStored'
  BY DEF EntriesWereStored

\* What others do to the store gives no listed number to a session in which
\* nothing is stored.
LEMMA OthersKeepEntries ==
  ASSUME ConsoleTypeOK, EntriesWereStored, UNCHANGED <<screen, wish, listing>>,
         \/ \E state : NewSession(state)
         \/ \E id \in DOMAIN sessions, state \in {"whole", "torn"} :
              made' = made /\ sessions' = [sessions EXCEPT ![id] = state]
         \/ \E id : made' = made /\ sessions' = Without(id)
         \/ UNCHANGED <<made, sessions>>
  PROVE  EntriesWereStored'
<1> USE ConsoleAssumption DEF ConsoleTypeOK, EntriesWereStored, listing
<1>1. ASSUME NEW state, NewSession(state) PROVE EntriesWereStored'
  BY <1>1 DEF NewSession
<1>2. ASSUME NEW id \in DOMAIN sessions, NEW state \in {"whole", "torn"},
             made' = made, sessions' = [sessions EXCEPT ![id] = state]
      PROVE  EntriesWereStored'
  BY <1>2
<1>3. ASSUME NEW id, made' = made, sessions' = Without(id) PROVE EntriesWereStored'
  BY <1>3 DEF Without
<1> QED  BY <1>1, <1>2, <1>3

\* Every step keeps what is known of the listed sessions.
LEMMA EntriesStep == ConsoleInv /\ [ConsoleNext]_consoleVars => EntriesWereStored'
<1> SUFFICES ASSUME ConsoleTypeOK, EntriesWereStored, [ConsoleNext]_consoleVars
             PROVE  EntriesWereStored'
  BY DEF ConsoleInv
<1> USE DEF Goes, Drops, Leaves, Start, WizardFrom, store, listing
<1>1. ASSUME NEW ps, BeginConsole(ps) PROVE EntriesWereStored'
  BY <1>1, NothingListed DEF BeginConsole
<1>2. CASE TerminalStep
  <2>1. CASE TakeTerminal
    BY <2>1 DEF TakeTerminal, EntriesWereStored
  <2>2. CASE TakeFails \/ ScreenFails \/ Interrupt
    BY <2>2, NothingListed DEF TakeFails, ScreenFails, Interrupt
  <2> QED  BY <1>2, <2>1, <2>2 DEF TerminalStep
<1>3. CASE MainMenu \/ Resume \/ DiagMenu \/ MonitorEnds \/ CaptureEnds
  BY <1>3, NothingListed DEF MainMenu, Resume, Pauses, DiagMenu, MonitorEnds, CaptureEnds
<1>4. CASE WorkloadStep
  <2>1. CASE WorkloadMenu \/ RepeatLast \/ Guided \/ CategoryMenu \/ PresetMenu \/ ReviewPreset
    BY <2>1, NothingListed DEF WorkloadMenu, RepeatLast, Guided, CategoryMenu, PresetMenu,
       ReviewPreset
  <2>2. CASE WizardEnds
    BY <2>2, NothingListed DEF WizardEnds, WizardAccepts, ConsoleTypeOK
  <2>3. CASE StressMenus \/ Proceed \/ DoNotProceed \/ SavedMenu \/ SavedActionMenu
    BY <2>3, NothingListed DEF StressMenus, Proceed, DoNotProceed, SavedMenu, SavedActionMenu
  <2>4. CASE RunFails \/ RunEnds \/ RunAgain \/ ViewReport \/ LeaveRun
    BY <2>4, NothingListed DEF RunFails, RunEnds, RunAgain, ViewReport, LeaveRun, ConsoleTypeOK
  <2> QED  BY <1>4, <2>1, <2>2, <2>3, <2>4 DEF WorkloadStep
<1>5. CASE ReportStep
  <2>1. CASE ListSessions
    BY <2>1, NothingListed DEF ListSessions
  <2>2. CASE LoadEntries
    BY <2>2 DEF LoadEntries, Readable, EntriesWereStored, ConsoleTypeOK
  <2>3. CASE PickSession \/ ReportActionMenu \/ Confirm \/ DoNotDelete
    BY <2>3 DEF PickSession, ReportActionMenu, Confirm, DoNotDelete, EntriesWereStored
  <2>4. CASE DeleteSession \/ DeleteFails
    BY <2>4, NothingListed DEF DeleteSession, DeleteFails
  <2> QED  BY <1>5, <2>1, <2>2, <2>3, <2>4 DEF ReportStep
<1>6. CASE OtherStep
  BY <1>6, OthersKeepEntries DEF OtherStep, OtherBegins, OtherWrites, OtherWrote, OtherDeletes
<1>7. CASE UNCHANGED consoleVars
  BY <1>7, OthersKeepEntries DEF consoleVars
<1> QED
  BY <1>1, <1>2, <1>3, <1>4, <1>5, <1>6, <1>7 DEF ConsoleNext, ConsoleStep

(***************************************************************************)
(* The theorems.                                                            *)
(***************************************************************************)
\* The invariant holds in every reachable state of the console.
THEOREM ConsoleInvariance == ConsoleSpec => []ConsoleInv
<1>1. ConsoleInv /\ [ConsoleNext]_consoleVars => ConsoleInv'
  BY TypeStep, GuardStep, FlagsStep, EntriesStep DEF ConsoleInv
<1> QED  BY ConsoleInitInvariant, <1>1, PTL DEF ConsoleSpec

\* For any presets, saved profiles and partitions: no write to a block device
\* passes for confirmed unless a profile with the flag was there from before or the
\* operator agreed for that partition (run_profile_session_interactive).
THEOREM WritesAgreed == ConsoleSpec => []RawWritesAreAgreed
<1>1. ConsoleInv => RawWritesAreAgreed
  BY DEF ConsoleInv, FlagsHaveCause, RawWritesAreAgreed
<1> QED  BY <1>1, ConsoleInvariance, PTL

\* The terminal is as it was found wherever the console has no guard on it, unless
\* it failed while it was being taken (RawTerminalGuard, PromptTerminalGuard).
THEOREM TerminalIsRestored == ConsoleSpec => []TerminalRestored
<1>1. ConsoleInv => TerminalRestored
  BY DEF ConsoleInv, GuardKept, TerminalRestored, OnTty, Managed, Menus, Prompts, Pauses
<1> QED  BY <1>1, ConsoleInvariance, PTL

\* The only session that a deletion removes is the one that was listed, picked and
\* confirmed, and something had been stored in it (reports_flow).
THEOREM DeletionsConfirmed == ConsoleSpec => DeletesAreConfirmed
<1> DEFINE Deletes ==
      screen = "deleting" /\ screen' = "pauseReports" =>
        \A id \in DOMAIN sessions \ DOMAIN sessions' :
          wish = "delete" /\ id = entries[picked] /\ sessions[id] # "begun"
<1>1. ConsoleInv /\ [ConsoleNext]_consoleVars => [Deletes]_consoleVars
  <2> SUFFICES ASSUME ConsoleInv, ConsoleNext, screen = "deleting", screen' = "pauseReports",
                      NEW id \in DOMAIN sessions \ DOMAIN sessions'
               PROVE  wish = "delete" /\ id = entries[picked] /\ sessions[id] # "begun"
    OBVIOUS
  <2>1. DeleteSession
    <3> USE DEF Goes, Drops, Leaves, Start, WizardFrom
    <3>1. ~ OtherStep /\ \A ps : ~ BeginConsole(ps)
      BY DEF OtherStep, OtherBegins, OtherWrites, OtherWrote, OtherDeletes, BeginConsole
    <3>2. ~ TerminalStep /\ ~ MainMenu /\ ~ Resume
      BY DEF TerminalStep, TakeTerminal, TakeFails, ScreenFails, Interrupt, MainMenu, Resume,
         Pauses, OnTty, Managed, Menus, Prompts
    <3>3. ~ (WorkloadMenu \/ RepeatLast \/ Guided \/ WizardEnds \/ CategoryMenu \/ PresetMenu
               \/ ReviewPreset \/ StressMenus \/ Proceed \/ DoNotProceed)
      BY DEF WorkloadMenu, RepeatLast, Guided, WizardEnds, WizardAccepts, CategoryMenu,
         PresetMenu, ReviewPreset, StressMenus, Proceed, DoNotProceed
    <3>4. ~ (SavedMenu \/ SavedActionMenu \/ RunFails \/ RunEnds \/ RunAgain \/ ViewReport
               \/ LeaveRun \/ DiagMenu \/ MonitorEnds \/ CaptureEnds)
      BY DEF SavedMenu, SavedActionMenu, RunFails, RunEnds, RunAgain, ViewReport, LeaveRun,
         DiagMenu, MonitorEnds, CaptureEnds
    <3>5. ~ (ListSessions \/ LoadEntries \/ PickSession \/ ReportActionMenu \/ Confirm
               \/ DoNotDelete \/ DeleteFails)
      BY DEF ListSessions, LoadEntries, PickSession, ReportActionMenu, Confirm, DoNotDelete,
         DeleteFails
    <3> QED
      BY <3>1, <3>2, <3>3, <3>4, <3>5 DEF ConsoleNext, ConsoleStep, WorkloadStep, ReportStep
  <2>2. sessions' = Without(entries[picked])
    BY <2>1 DEF DeleteSession
  <2>3. id = entries[picked]
    BY <2>2 DEF Without
  <2> QED  BY <2>3 DEF ConsoleInv, EntriesWereStored
<1> QED  BY <1>1, ConsoleInvariance, PTL DEF ConsoleSpec, DeletesAreConfirmed

(***************************************************************************)
(* Wizard. The assumptions settle after one application, because a block    *)
(* that has been adjusted is one that need not be; WizardInv adds to that   *)
(* which questions have been answered for good when a later one is asked.   *)
(***************************************************************************)
\* A quotient is the largest whole number of times.
LEMMA Divided ==
  ASSUME NEW a \in Nat, NEW s \in Nat \ {0}
  PROVE  /\ a \div s \in Nat
         /\ s * (a \div s) <= a /\ a < s * (a \div s) + s
         /\ a % s = 0 => a = s * (a \div s)
<1>1. a \div s \in Nat
  OBVIOUS
<1>2. s * (a \div s) <= a /\ a < s * (a \div s) + s
  OBVIOUS
<1>3. a % s = 0 => a = s * (a \div s)
  OBVIOUS
<1> QED  BY <1>1, <1>2, <1>3

\* A product is a multiple.
LEMMA MultipleDivides ==
  ASSUME NEW k \in Nat, NEW s \in Nat \ {0}
  PROVE  (k * s) % s = 0 /\ k * s = s * k /\ k * s \in Nat
<1>1. (k * s) % s = 0
  OBVIOUS
<1>2. k * s = s * k /\ k * s \in Nat
  OBVIOUS
<1> QED  BY <1>1, <1>2

\* Rounding up to a whole number of sectors.
LEMMA RoundedUp ==
  ASSUME NEW b \in Nat, NEW s \in Nat \ {0}
  PROVE  LET r == ((b + s - 1) \div s) * s
         IN r \in Nat /\ r >= b /\ r % s = 0 /\ (b % s = 0 => r = b)
<1> DEFINE k == (b + s - 1) \div s
<1>1. k \in Nat /\ s * k <= b + s - 1 /\ b + s - 1 < s * k + s
  BY Divided
<1> HIDE DEF k
<1>2. k * s \in Nat /\ (k * s) % s = 0 /\ k * s = s * k
  BY <1>1, MultipleDivides
<1>3. k * s >= b
  BY <1>1, <1>2
<1>4. b % s = 0 => k * s = b
  <2> SUFFICES ASSUME b % s = 0 PROVE k * s = b
    OBVIOUS
  <2> DEFINE j == b \div s
  <2>1. j \in Nat /\ b = s * j
    BY Divided
  <2> HIDE DEF j
  <2>2. s * k < s * (j + 1) /\ s * j <= s * k
    BY <1>1, <1>2, <1>3, <2>1
  <2>3. k = j
    <3>1. \A x, y \in Nat : x >= y => s * x >= s * y
      OBVIOUS
    <3>2. k < j + 1
      BY <1>1, <2>1, <2>2, <3>1
    <3>3. ASSUME k < j PROVE FALSE
      <4>1. s * j >= s * (k + 1)
        BY <1>1, <2>1, <3>1, <3>3
      <4> QED  BY <1>1, <2>1, <2>2, <4>1
    <3> QED  BY <1>1, <2>1, <3>2, <3>3
  <2> QED  BY <1>2, <2>1, <2>3
<1> QED  BY <1>2, <1>3, <1>4 DEF k

\* A bounded set of numbers has a greatest one.
LEMMA GreatestNatural ==
  ASSUME NEW T \in SUBSET Nat, NEW n \in Nat, T # {}, \A b \in T : b <= n
  PROVE  \E b \in T : \A c \in T : c <= b
<1> DEFINE U == {n - b : b \in T}
<1>1. U \in SUBSET Nat /\ U # {}
  <2>1. \A b \in T : b \in Nat /\ b <= n /\ n - b \in Nat
    OBVIOUS
  <2>2. PICK b \in T : TRUE
    OBVIOUS
  <2>3. n - b \in U
    OBVIOUS
  <2> QED  BY <2>1, <2>3
<1>2. PICK u \in U : \A v \in U : u <= v
  <2> HIDE DEF U
  <2> QED  BY <1>1, LeastNatural
<1>3. PICK b \in T : u = n - b
  OBVIOUS
<1>4. \A c \in T : n - b <= n - c
  BY <1>2, <1>3
<1> QED  BY <1>4

\* What the host tells: its sectors are at least the floor, or divide it.
SoundHints(h) ==
  /\ h.sector \in Nat \ {0} /\ h.size \in Nat /\ h.health \in BOOLEAN
  /\ h.sector <= BlockFloor => BlockFloor % h.sector = 0

LEMMA HintsSound ==
  ASSUME NEW p \in Profiles
  PROVE  SoundHints(Hints(p))
<1>1. /\ p.target \in Targets /\ p.create \in Nat
      /\ TargetInfo[p.target] \in [raw : BOOLEAN, exists : BOOLEAN, dir : BOOLEAN,
                                   mmc : BOOLEAN, size : Nat, sector : Nat \ {0}]
  BY WizardAssumption DEF Profiles
<1>2. BlockFloor \in Nat /\ BlockFloor % 1 = 0
  BY WizardAssumption
<1>3. LET s == TargetInfo[p.target].sector IN s <= BlockFloor => BlockFloor % s = 0
  BY <1>1, WizardAssumption
<1> QED  BY <1>1, <1>2, <1>3 DEF SoundHints, Hints

\* The floor is a whole number of sectors.
LEMMA FloorSound ==
  ASSUME NEW p, NEW h, SoundHints(h)
  PROVE  /\ Floor(p, h) \in Nat \ {0} /\ Floor(p, h) >= h.sector
         /\ Floor(p, h) % h.sector = 0
         /\ p.mode = "sector" => Floor(p, h) = h.sector
<1>1. h.sector \in Nat \ {0} /\ BlockFloor \in Nat \ {0}
  BY WizardAssumption DEF SoundHints
<1>2. h.sector % h.sector = 0
  BY <1>1
<1> QED  BY <1>1, <1>2 DEF SoundHints, Floor, AtLeast

\* A block of whole sectors that reaches the floor stays as it is.
LEMMA NormalSound ==
  ASSUME NEW p, p.block \in Nat \ {0}, NEW h, SoundHints(h)
  PROVE  LET b == NormalBlock(p, h)
         IN /\ b \in Nat \ {0} /\ b >= Floor(p, h) /\ b % h.sector = 0
            /\ p.block >= Floor(p, h) /\ p.block % h.sector = 0 => b = p.block
            /\ h.sector = 1 => b = AtLeast(p.block, Floor(p, h))
<1> DEFINE r == ((p.block + h.sector - 1) \div h.sector) * h.sector
<1>1. /\ Floor(p, h) \in Nat \ {0} /\ Floor(p, h) % h.sector = 0
      /\ h.sector \in Nat \ {0} /\ p.block \in Nat
  BY FloorSound DEF SoundHints
<1>2. r \in Nat /\ r >= p.block /\ r % h.sector = 0 /\ (p.block % h.sector = 0 => r = p.block)
  BY <1>1, RoundedUp
<1>3. NormalBlock(p, h) = IF p.block < Floor(p, h) THEN Floor(p, h) ELSE r
  BY DEF NormalBlock
<1>4. h.sector = 1 => p.block % h.sector = 0
  BY <1>1
<1> HIDE DEF r
<1> QED  BY <1>1, <1>2, <1>3, <1>4 DEF AtLeast

\* The greatest candidate is one.
LEMMA CandidateChosen ==
  ASSUME NEW p, p.block \in Nat \ {0}, NEW h, SoundHints(h), p.mode = "sector"
  PROVE  \/ Candidates(p, h) = {} /\ AdjustedBlock(p, h) = h.sector
         \/ /\ AdjustedBlock(p, h) \in Candidates(p, h)
            /\ \A c \in Candidates(p, h) : c <= AdjustedBlock(p, h)
<1>1. CASE Candidates(p, h) = {}
  BY <1>1 DEF AdjustedBlock
<1>2. CASE Candidates(p, h) # {}
  <2>1. Floor(p, h) \in Nat /\ NormalBlock(p, h) \in Nat
    BY FloorSound, NormalSound
  <2>2. Candidates(p, h) \in SUBSET Nat /\ \A b \in Candidates(p, h) : b <= NormalBlock(p, h)
    BY <2>1 DEF Candidates
  <2>3. \E b \in Candidates(p, h) : \A c \in Candidates(p, h) : c <= b
    BY <1>2, <2>1, <2>2, GreatestNatural
  <2>4. AdjustedBlock(p, h) = CHOOSE b \in Candidates(p, h) : \A c \in Candidates(p, h) : c <= b
    BY <1>2, Zenon DEF AdjustedBlock
  <2> QED  BY <2>3, <2>4
<1> QED  BY <1>1, <1>2

\* An adjusted block is of whole sectors, and no bigger than what was entered or
\* the floor where there are no sectors to speak of.
LEMMA AdjustedSound ==
  ASSUME NEW p, p.block \in Nat \ {0}, NEW h, SoundHints(h)
  PROVE  LET b == AdjustedBlock(p, h)
         IN /\ b \in Nat \ {0} /\ b % h.sector = 0 /\ b >= h.sector
            /\ h.sector = 1 => b <= AtLeast(p.block, Floor(p, h))
<1>1. /\ Floor(p, h) \in Nat \ {0} /\ Floor(p, h) >= h.sector /\ NormalBlock(p, h) \in Nat \ {0}
      /\ NormalBlock(p, h) % h.sector = 0 /\ NormalBlock(p, h) >= Floor(p, h)
      /\ h.sector \in Nat \ {0} /\ h.sector % h.sector = 0
      /\ h.sector = 1 => NormalBlock(p, h) <= AtLeast(p.block, Floor(p, h))
  BY FloorSound, NormalSound DEF SoundHints, AtLeast
<1>2. CASE p.mode # "sector"
  BY <1>1, <1>2 DEF AdjustedBlock
<1>3. CASE p.mode = "sector"
  <2>1. \/ AdjustedBlock(p, h) = h.sector
        \/ AdjustedBlock(p, h) \in Candidates(p, h)
    BY <1>3, CandidateChosen
  <2>2. ASSUME NEW c \in Candidates(p, h)
        PROVE  /\ c \in Nat \ {0} /\ c % h.sector = 0 /\ c >= h.sector
               /\ h.sector = 1 => c <= AtLeast(p.block, Floor(p, h))
    <3>1. c \in Floor(p, h)..NormalBlock(p, h) /\ c % h.sector = 0
      BY DEF Candidates
    <3>2. AtLeast(p.block, Floor(p, h)) \in Nat
      BY <1>1 DEF AtLeast
    <3> QED  BY <1>1, <3>1, <3>2
  <2>3. AtLeast(p.block, Floor(p, h)) \in Nat /\ h.sector <= AtLeast(p.block, Floor(p, h))
    BY <1>1 DEF AtLeast
  <2> QED  BY <1>1, <2>1, <2>2, <2>3
<1> QED  BY <1>2, <1>3

\* A block that has been adjusted need not be adjusted again.
LEMMA AdjustedTwice ==
  ASSUME NEW p, p.block \in Nat \ {0}, NEW h, SoundHints(h), NEW g, SoundHints(g),
         NEW q, q.mode = p.mode, q.start = p.start, q.count = p.count,
         q.block = AdjustedBlock(p, h), g.sector = h.sector
  PROVE  AdjustedBlock(q, g) = AdjustedBlock(p, h)
<1> DEFINE b == AdjustedBlock(p, h)
<1>1. /\ b \in Nat \ {0} /\ b % h.sector = 0 /\ b >= h.sector
      /\ Floor(q, g) = Floor(p, h)
  BY AdjustedSound DEF Floor
<1>2. /\ Floor(p, h) \in Nat /\ NormalBlock(p, h) \in Nat /\ NormalBlock(p, h) >= Floor(p, h)
      /\ NormalBlock(q, g) \in Nat
      /\ b >= Floor(q, g) => NormalBlock(q, g) = b
  BY <1>1, FloorSound, NormalSound
<1>3. CASE p.mode # "sector"
  <2>1. b >= Floor(q, g)
    BY <1>1, <1>2, <1>3 DEF AdjustedBlock
  <2> QED  BY <1>2, <1>3, <2>1 DEF AdjustedBlock
<1>4. CASE p.mode = "sector"
  <2>1. Floor(p, h) = h.sector /\ Floor(q, g) = h.sector /\ NormalBlock(q, g) = b
    BY <1>1, <1>2, <1>4, FloorSound
  <2>2. \A c : Fits(q, g, c) <=> Fits(p, h, c)
    BY DEF Fits
  <2>3. \A c : c \in Candidates(q, g) <=>
                 c \in h.sector..b /\ c % h.sector = 0 /\ Fits(p, h, c)
    BY <2>1, <2>2 DEF Candidates
  <2>4. \A c : c \in Candidates(p, h) <=>
                 c \in h.sector..NormalBlock(p, h) /\ c % h.sector = 0 /\ Fits(p, h, c)
    BY <2>1 DEF Candidates
  <2>5. h.sector \in Nat \ {0} /\ h.sector % h.sector = 0
    BY DEF SoundHints
  <2>6. CASE Candidates(p, h) = {} /\ b = h.sector
    <3>1. Candidates(q, g) = {}
      BY <1>2, <2>1, <2>3, <2>4, <2>5, <2>6
    <3> QED  BY <1>4, <2>6, <3>1 DEF AdjustedBlock
  <2>7. CASE b \in Candidates(p, h)
    <3>1. b \in Candidates(q, g) /\ \A c \in Candidates(q, g) : c <= b
      BY <1>1, <2>3, <2>4, <2>5, <2>7
    <3>2. /\ AdjustedBlock(q, g) \in Candidates(q, g)
          /\ \A c \in Candidates(q, g) : c <= AdjustedBlock(q, g)
      <4>1. q.block \in Nat \ {0} /\ q.mode = "sector" /\ Candidates(q, g) # {}
        BY <1>1, <1>4, <3>1
      <4> QED  BY <4>1, CandidateChosen
    <3>3. AdjustedBlock(q, g) \in Nat
      BY <1>1, <2>3, <2>5, <3>2
    <3> QED  BY <1>1, <3>1, <3>2, <3>3
  <2> QED  BY <1>4, <2>6, <2>7, CandidateChosen
<1> QED  BY <1>3, <1>4

(***************************************************************************)
(* apply_wizard_assumptions as a whole.                                     *)
(***************************************************************************)
\* A size to create a file with holds the range and a block.
LEMMA CreateSound ==
  ASSUME NEW p, p.block \in Nat \ {0}, p.create \in Nat, p.start \in Nat, p.count \in Nat,
         p.mode \in Modes, NEW h, SoundHints(h)
  PROVE  /\ RangeEnd(p, h) \in Nat /\ MinimumSize(p, h) \in Nat \ {0}
         /\ RangeEnd(p, h) <= MinimumSize(p, h) /\ CreateSize(p, h) \in Nat
         /\ ~ Raw(p) /\ ~ TargetInfo[p.target].exists =>
              CreateSize(p, h) >= MinimumSize(p, h)
         /\ Raw(p) \/ TargetInfo[p.target].exists => CreateSize(p, h) = 0
<1>1. RangeEnd(p, h) \in Nat
  <2>1. h.sector \in Nat /\ WholeMinimum \in Nat
    BY WizardAssumption DEF SoundHints
  <2>2. (p.start + p.count) * h.sector \in Nat
    BY <2>1
  <2> QED  BY <2>1, <2>2 DEF RangeEnd, Modes
<1>2. Floor(p, h) \in Nat \ {0}
  BY FloorSound
<1>3. MinimumSize(p, h) \in Nat \ {0} /\ RangeEnd(p, h) <= MinimumSize(p, h)
  BY <1>1, <1>2 DEF MinimumSize, AtLeast
<1>4. SuggestedSize(p, h) \in Nat
  <2>1. FreeSpace \in Nat /\ h.size \in Nat
    BY WizardAssumption DEF SoundHints
  <2>2. FreeSpace \div 10 \in Nat
    BY <2>1
  <2> QED  BY <1>3, <2>1, <2>2 DEF SuggestedSize, AtLeast
<1>5. /\ CreateSize(p, h) \in Nat
      /\ ~ Raw(p) /\ ~ TargetInfo[p.target].exists => CreateSize(p, h) >= MinimumSize(p, h)
      /\ Raw(p) \/ TargetInfo[p.target].exists => CreateSize(p, h) = 0
  BY <1>3, <1>4 DEF CreateSize, AtLeast
<1> QED  BY <1>1, <1>3, <1>5

\* What the assumptions make of a profile, field by field.
LEMMA AssumedFields ==
  ASSUME NEW p \in Profiles, NEW h, SoundHints(h)
  PROVE  LET t == [p EXCEPT !.target = Inside[p.target]]
             q == Assume(p, h)
         IN /\ t \in Profiles /\ q \in Profiles
            /\ q.target = Inside[p.target] /\ q.create = CreateSize(t, h)
            /\ q.block = AdjustedBlock(t, h)
            /\ q.write = p.write /\ q.mode = p.mode /\ q.start = p.start /\ q.count = p.count
            /\ q.exact = p.exact /\ q.confirmed = p.confirmed
            /\ q.verify = (p.write /\ p.verify) /\ q.durable = (p.write /\ p.durable)
            /\ q.health = (p.health /\ h.health)
<1> DEFINE t == [p EXCEPT !.target = Inside[p.target]]
           q == Assume(p, h)
           verify  == t.write /\ t.verify
           durable == t.write /\ t.durable
           health  == t.health /\ h.health
<1>1. /\ t \in Profiles /\ t.target = Inside[p.target]
      /\ t.create = p.create /\ t.write = p.write /\ t.mode = p.mode /\ t.start = p.start
      /\ t.count = p.count /\ t.block = p.block /\ t.exact = p.exact /\ t.verify = p.verify
      /\ t.durable = p.durable /\ t.health = p.health /\ t.confirmed = p.confirmed
  BY WizardAssumption DEF Profiles
<1>2. q = [t EXCEPT !.create = CreateSize(t, h), !.block = AdjustedBlock(t, h),
                    !.verify = verify, !.durable = durable, !.health = health]
  BY Zenon DEF Assume
<1>3. verify \in BOOLEAN /\ durable \in BOOLEAN /\ health \in BOOLEAN
  BY Zenon
<1>4. /\ verify = (p.write /\ p.verify) /\ durable = (p.write /\ p.durable)
      /\ health = (p.health /\ h.health)
  BY <1>1
<1> HIDE DEF t, q, verify, durable, health
<1>5. CreateSize(t, h) \in Nat /\ AdjustedBlock(t, h) \in Nat \ {0}
  <2>1. /\ t.block \in Nat \ {0} /\ t.create \in Nat /\ t.start \in Nat /\ t.count \in Nat
        /\ t.mode \in Modes
    BY <1>1 DEF Profiles
  <2> QED  BY <2>1, CreateSound, AdjustedSound
<1>6. /\ q \in Profiles
      /\ q.target = t.target /\ q.create = CreateSize(t, h) /\ q.block = AdjustedBlock(t, h)
      /\ q.write = t.write /\ q.mode = t.mode /\ q.start = t.start /\ q.count = t.count
      /\ q.exact = t.exact /\ q.confirmed = t.confirmed
      /\ q.verify = verify /\ q.durable = durable /\ q.health = health
  <2> DEFINE create == CreateSize(t, h)
             block  == AdjustedBlock(t, h)
  <2>1. q = [t EXCEPT !.create = create, !.block = block,
                      !.verify = verify, !.durable = durable, !.health = health]
    BY <1>2
  <2>2. create \in Nat /\ block \in Nat \ {0} /\ t \in Profiles
    BY <1>1, <1>5
  <2> HIDE DEF create, block
  <2>3. q \in Profiles
    <3>1. \A u \in Profiles, c \in Nat, b \in Nat \ {0} :
            [u EXCEPT !.create = c, !.block = b] \in Profiles
      BY DEF Profiles
    <3>2. \A u \in Profiles, x, y, z \in BOOLEAN :
            [u EXCEPT !.verify = x, !.durable = y, !.health = z] \in Profiles
      BY DEF Profiles
    <3>3. q = [[t EXCEPT !.create = create, !.block = block]
                 EXCEPT !.verify = verify, !.durable = durable, !.health = health]
      BY <2>1
    <3>4. [t EXCEPT !.create = create, !.block = block] \in Profiles
      BY <2>2, <3>1
    <3> QED  BY <1>3, <3>2, <3>3, <3>4
  <2>4. /\ q.target = t.target /\ q.write = t.write /\ q.mode = t.mode /\ q.start = t.start
        /\ q.count = t.count /\ q.exact = t.exact /\ q.confirmed = t.confirmed
    BY <2>1, <2>2 DEF Profiles
  <2>5. /\ q.create = create /\ q.block = block
        /\ q.verify = verify /\ q.durable = durable /\ q.health = health
    BY <2>1, <2>2 DEF Profiles
  <2> QED  BY <2>3, <2>4, <2>5 DEF create, block
<1>7. /\ q.verify = (p.write /\ p.verify) /\ q.durable = (p.write /\ p.durable)
      /\ q.health = (p.health /\ h.health)
  BY <1>4, <1>6
<1> QED  BY <1>1, <1>6, <1>7 DEF t, q

\* What the host tells of a profile depends on its target, and for a file that is
\* to be created on its size.
LEMMA HintsOfTarget ==
  ASSUME NEW p, NEW q, q.target = p.target
  PROVE  /\ Hints(q).sector = Hints(p).sector /\ Hints(q).health = Hints(p).health
         /\ ~ Raw(p) => Hints(p).sector = 1
         /\ Raw(p) \/ (TargetInfo[p.target].exists /\ ~ TargetInfo[p.target].dir) =>
              Hints(q).size = Hints(p).size
         /\ ~ Raw(p) /\ ~ TargetInfo[p.target].exists => Hints(p).size = p.create
  BY DEF Hints, Raw

\* The range does not end elsewhere when another field changes.
LEMMA RangeStays ==
  ASSUME NEW p, NEW q, q.mode = p.mode, q.start = p.start, q.count = p.count,
         NEW h, NEW g, g.sector = h.sector
  PROVE  RangeEnd(q, g) = RangeEnd(p, h)
  BY DEF RangeEnd

\* A range that fits a device or a file that is there still does when the
\* assumptions are applied, and a file that is not there is made to hold it.
LEMMA AssumedFits ==
  ASSUME NEW p \in Profiles, NEW o \in Profiles, o.target = p.target,
         Inside[p.target] = p.target,
         p.mode # "whole" =>
           /\ p.count > 0
           /\ Raw(p) \/ TargetInfo[p.target].exists =>
                (Hints(o).size >= Hints(o).sector => RangeEnd(p, Hints(o)) <= Hints(o).size)
  PROVE  LET q == Assume(p, Hints(o))
         IN q \in Profiles /\ q.target = p.target /\ RangeFits(q)
<1> DEFINE h == Hints(o)
           t == [p EXCEPT !.target = Inside[p.target]]
           q == Assume(p, h)
           g == Hints(q)
<1>1. SoundHints(h)
  BY HintsSound
<1>2. /\ t \in Profiles /\ q \in Profiles /\ q.target = p.target
      /\ q.create = CreateSize(t, h)
      /\ q.mode = p.mode /\ q.start = p.start /\ q.count = p.count
  <2> HIDE DEF h
  <2> QED  BY <1>1, AssumedFields
<1>3. /\ t.target = p.target /\ t.mode = p.mode /\ t.start = p.start /\ t.count = p.count
      /\ t.block \in Nat \ {0} /\ t.create \in Nat /\ t.start \in Nat /\ t.count \in Nat
      /\ t.mode \in Modes
  BY <1>2 DEF Profiles
<1>4. ~ TargetInfo[p.target].dir
  BY WizardAssumption DEF Profiles
<1> HIDE DEF t, h, q
<1>5. g.sector = h.sector /\ SoundHints(g)
  BY <1>2, HintsSound, HintsOfTarget DEF h
<1>6. RangeEnd(q, g) = RangeEnd(t, h) /\ RangeEnd(p, h) = RangeEnd(t, h)
  <2> HIDE DEF g
  <2> QED  BY <1>2, <1>3, <1>5, RangeStays
<1>7. ASSUME p.mode # "whole" PROVE g.size >= g.sector => RangeEnd(q, g) <= g.size
  <2>1. CASE Raw(p) \/ TargetInfo[p.target].exists
    <3>1. g.size = h.size
      BY <1>2, <1>4, <2>1, HintsOfTarget DEF h, Raw
    <3> HIDE DEF g
    <3> QED  BY <1>5, <1>6, <1>7, <2>1, <3>1 DEF h
  <2>2. CASE ~ Raw(p) /\ ~ TargetInfo[p.target].exists
    <3>1. g.size = q.create
      BY <1>2, <2>2, HintsOfTarget DEF Raw
    <3>2. /\ RangeEnd(t, h) \in Nat /\ MinimumSize(t, h) \in Nat /\ CreateSize(t, h) \in Nat
          /\ RangeEnd(t, h) <= MinimumSize(t, h) /\ CreateSize(t, h) >= MinimumSize(t, h)
      <4>1. ~ Raw(t) /\ ~ TargetInfo[t.target].exists
        BY <1>3, <2>2 DEF Raw
      <4> QED  BY <1>1, <1>3, <4>1, CreateSound
    <3> HIDE DEF g
    <3> QED  BY <1>2, <1>6, <3>1, <3>2
  <2> QED  BY <2>1, <2>2
<1>8. q.mode # "whole" => q.count > 0
  BY <1>2
<1> QED  BY <1>2, <1>7, <1>8 DEF RangeFits, q, h

\* The assumptions are settled at the review: applied once more they change nothing.
LEMMA FinishedTwice ==
  ASSUME NEW p \in Profiles, Inside[p.target] = p.target
  PROVE  FinishProfile(FinishProfile(p)) = FinishProfile(p)
<1> DEFINE h == Hints(p)
           t == [p EXCEPT !.target = Inside[p.target]]
           q == Assume(p, h)
           g == Hints(q)
           u == [q EXCEPT !.target = Inside[q.target]]
           r == Assume(q, g)
<1>1. SoundHints(h)
  BY HintsSound
<1>2. /\ t \in Profiles /\ q \in Profiles /\ q.target = p.target
      /\ q.create = CreateSize(t, h) /\ q.block = AdjustedBlock(t, h)
      /\ q.mode = p.mode /\ q.start = p.start /\ q.count = p.count /\ q.write = p.write
      /\ q.verify = (p.write /\ p.verify) /\ q.durable = (p.write /\ p.durable)
      /\ q.health = (p.health /\ h.health)
  <2> HIDE DEF h
  <2> QED  BY <1>1, AssumedFields
<1>3. /\ t.target = p.target /\ t.mode = p.mode /\ t.start = p.start /\ t.count = p.count
      /\ t.block \in Nat \ {0} /\ t.create \in Nat /\ t.start \in Nat /\ t.count \in Nat
      /\ t.mode \in Modes
  BY <1>2 DEF Profiles
<1> HIDE DEF t, q
<1>4. SoundHints(g) /\ g.sector = h.sector /\ g.health = h.health
  BY <1>2, HintsSound, HintsOfTarget
<1>5. u = q /\ u.block = q.block /\ u.create = q.create
  BY <1>2 DEF Profiles
<1> HIDE DEF g, h, u
<1>6. /\ r \in Profiles /\ r.target = q.target /\ r.create = CreateSize(u, g)
      /\ r.block = AdjustedBlock(u, g) /\ r.write = q.write /\ r.mode = q.mode
      /\ r.start = q.start /\ r.count = q.count /\ r.exact = q.exact
      /\ r.confirmed = q.confirmed
      /\ r.verify = (q.write /\ q.verify) /\ r.durable = (q.write /\ q.durable)
      /\ r.health = (q.health /\ g.health)
  BY <1>2, <1>4, AssumedFields DEF u
<1> HIDE DEF r
<1>7. AdjustedBlock(u, g) = q.block
  BY <1>1, <1>2, <1>3, <1>4, <1>5, AdjustedTwice
<1>8. CreateSize(u, g) = q.create
  <2>1. /\ q.block \in Nat \ {0} /\ q.create \in Nat /\ q.start \in Nat /\ q.count \in Nat
        /\ q.mode \in Modes
    BY <1>2 DEF Profiles
  <2>2. CASE Raw(p) \/ TargetInfo[p.target].exists
    <3>1. Raw(q) \/ TargetInfo[q.target].exists
      BY <1>2, <2>2 DEF Raw
    <3>2. Raw(t) \/ TargetInfo[t.target].exists
      BY <1>3, <2>2 DEF Raw
    <3>3. CreateSize(q, g) = 0
      BY <1>4, <2>1, <3>1, CreateSound
    <3>4. CreateSize(t, h) = 0
      BY <1>1, <1>3, <3>2, CreateSound
    <3> QED  BY <1>2, <1>5, <3>3, <3>4
  <2>3. CASE ~ Raw(p) /\ ~ TargetInfo[p.target].exists
    <3>1. ~ Raw(q) /\ ~ TargetInfo[q.target].exists /\ ~ Raw(t) /\ ~ TargetInfo[t.target].exists
      BY <1>2, <1>3, <2>3 DEF Raw
    <3>2. h.sector = 1 /\ g.sector = 1
      BY <1>4, <2>3, HintsOfTarget DEF h
    <3>3. /\ RangeEnd(q, g) = RangeEnd(t, h) /\ Floor(q, g) = Floor(t, h)
          /\ RangeEnd(t, h) \in Nat /\ Floor(t, h) \in Nat \ {0}
      <4>1. RangeEnd(q, g) = RangeEnd(t, h)
        BY <1>2, <1>3, <1>4, RangeStays
      <4>2. Floor(q, g) = Floor(t, h) /\ Floor(t, h) \in Nat \ {0}
        BY <1>1, <1>2, <1>3, <1>4, FloorSound DEF Floor
      <4> QED  BY <1>1, <1>3, <4>1, <4>2, CreateSound
    <3>4. q.block <= AtLeast(t.block, Floor(t, h))
      BY <1>1, <1>2, <1>3, <3>2, AdjustedSound
    <3>5. MinimumSize(q, g) <= MinimumSize(t, h)
      BY <1>3, <2>1, <3>3, <3>4 DEF MinimumSize, AtLeast
    <3>6. /\ MinimumSize(t, h) \in Nat \ {0} /\ q.create >= MinimumSize(t, h)
          /\ MinimumSize(q, g) \in Nat
      BY <1>1, <1>2, <1>3, <1>4, <2>1, <3>1, CreateSound
    <3>7. CreateSize(q, g) = AtLeast(q.create, MinimumSize(q, g))
      BY <2>1, <3>1, <3>6 DEF CreateSize
    <3> QED  BY <1>5, <2>1, <3>5, <3>6, <3>7 DEF AtLeast
  <2> QED  BY <2>2, <2>3
<1>9. /\ r.verify = q.verify /\ r.durable = q.durable /\ r.health = q.health
  BY <1>2, <1>4, <1>6, Zenon
<1>10. r = q
  BY <1>2, <1>6, <1>7, <1>8, <1>9 DEF Profiles
<1> QED  BY <1>10 DEF FinishProfile, r, g, q, h

\* The profile that is reviewed validates, has nothing a read workload has no use
\* for, and blocks of whole sectors.
LEMMA FinishedIsNormal ==
  ASSUME NEW p \in Profiles, Inside[p.target] = p.target, RangeFits(p)
  PROVE  LET q == FinishProfile(p)
         IN /\ q \in Profiles /\ Inside[q.target] = q.target /\ RangeFits(q)
            /\ ValidProfile(q) /\ FinishProfile(q) = q
            /\ ~ q.write => ~ q.verify /\ ~ q.durable
            /\ q.block % Hints(q).sector = 0
<1> DEFINE h == Hints(p)
           t == [p EXCEPT !.target = Inside[p.target]]
           q == Assume(p, h)
<1>1. SoundHints(h)
  BY HintsSound
<1>2. /\ t \in Profiles /\ q \in Profiles /\ q.target = p.target
      /\ q.create = CreateSize(t, h) /\ q.block = AdjustedBlock(t, h) /\ q.write = p.write
      /\ q.verify = (p.write /\ p.verify) /\ q.durable = (p.write /\ p.durable)
  <2> HIDE DEF h
  <2> QED  BY <1>1, AssumedFields
<1>3. /\ t.target = p.target /\ t.block \in Nat \ {0} /\ t.create \in Nat
      /\ t.start \in Nat /\ t.count \in Nat /\ t.mode \in Modes
  BY <1>2 DEF Profiles
<1>4. RangeFits(q)
  BY AssumedFits DEF RangeFits
<1> HIDE DEF t, h, q
<1>5. q.block \in Nat \ {0} /\ q.block % h.sector = 0 /\ Hints(q).sector = h.sector
  BY <1>1, <1>2, <1>3, AdjustedSound, HintsOfTarget DEF h
<1>6. ~ q.write => ~ q.verify /\ ~ q.durable
  BY <1>2
<1>7. ValidProfile(q)
  <2>1. Raw(q) => q.create = 0
    <3>1. Raw(q) => Raw(t)
      BY <1>2, <1>3 DEF Raw
    <3> QED  BY <1>1, <1>2, <1>3, <3>1, CreateSound
  <2>2. ~ TargetInfo[q.target].dir
    BY <1>2, WizardAssumption DEF Profiles
  <2> QED  BY <1>4, <1>5, <2>1, <2>2 DEF ValidProfile, RangeFits
<1>8. FinishProfile(p) = q
  BY DEF FinishProfile, q, h
<1>9. FinishProfile(q) = q
  BY <1>8, FinishedTwice
<1> QED  BY <1>2, <1>4, <1>5, <1>6, <1>7, <1>8, <1>9

(***************************************************************************)
(* The steps.                                                               *)
(***************************************************************************)
\* The file that a directory stands for is not a directory.
LEMMA InsideOnce == \A t \in Targets : Inside[t] \in Targets /\ Inside[Inside[t]] = Inside[t]
  BY WizardAssumption

\* An answer keeps the invariant if it leaves the target alone once that has been
\* asked for, and the range that comes with it fits.
LEMMA AnswerKeeps ==
  ASSUME WizardInv, NEW q \in 0..14, wstep = q, NEW p \in Profiles, Answered(q, p),
         q >= 2 => p.target = profile.target,
         q >= 3 /\ p.mode # "whole" =>
           /\ p.count > 0
           /\ Hints(profile).size >= Hints(profile).sector =>
                RangeEnd(p, Hints(profile)) <= Hints(profile).size
  PROVE  WizardInv'
<1>1. /\ profile' = Assume(p, Hints(profile)) /\ wstep' = q + 1 /\ profile \in Profiles
      /\ q >= 1 => Inside[profile.target] = profile.target
  BY DEF WizardInv, Answered
<1>2. profile' \in Profiles /\ Inside[profile'.target] = profile'.target
  <2>1. profile' \in Profiles /\ profile'.target = Inside[p.target]
    BY <1>1, HintsSound, AssumedFields
  <2>2. p.target \in Targets
    BY DEF Profiles
  <2> QED  BY <2>1, <2>2, InsideOnce
<1>3. q >= 3 => RangeFits(profile')
  <2> SUFFICES ASSUME q >= 3 PROVE RangeFits(profile')
    OBVIOUS
  <2>1. profile.target = p.target /\ Inside[p.target] = p.target
    BY <1>1
  <2> QED  BY <1>1, <2>1, AssumedFits
<1>4. wstep' \in 1..15
  BY <1>1
<1>5. ReviewedIsNormal'
  BY <1>4 DEF ReviewedIsNormal, Invalid, Accepted
<1>6. RangeFits(profile)' <=> RangeFits(profile')
  BY DEF RangeFits, Hints, RangeEnd
<1> QED  BY <1>1, <1>2, <1>3, <1>4, <1>5, <1>6 DEF WizardInv

\* An answer that leaves the target and the range alone.
LEMMA AnswerToLater ==
  ASSUME WizardInv, NEW q \in 4..14, wstep = q, NEW p \in Profiles, Answered(q, p),
         p.target = profile.target, p.mode = profile.mode,
         p.start = profile.start, p.count = profile.count
  PROVE  WizardInv'
<1>1. RangeFits(profile)
  BY DEF WizardInv
<1>2. RangeEnd(p, Hints(profile)) = RangeEnd(profile, Hints(profile))
  BY RangeStays
<1>3. q \in 0..14 /\ (q >= 2 => p.target = profile.target)
  OBVIOUS
<1>4. p.mode # "whole" =>
        /\ p.count > 0
        /\ Hints(profile).size >= Hints(profile).sector =>
             RangeEnd(p, Hints(profile)) <= Hints(profile).size
  BY <1>1, <1>2 DEF RangeFits
<1> QED  BY <1>3, <1>4, AnswerKeeps

\* A range of sectors that was offered lies inside the device.
LEMMA SectorsFit ==
  ASSUME NEW h, SoundHints(h), h.size >= h.sector, NEW n \in Nat, n <= LastSector(h) + 1
  PROVE  n * h.sector <= h.size
<1> DEFINE s == h.sector
           k == h.size \div s
<1>1. s \in Nat \ {0} /\ h.size \in Nat
  BY DEF SoundHints
<1>2. k \in Nat /\ s * k <= h.size /\ h.size < s * k + s
  BY <1>1, Divided
<1>3. LastSector(h) = Less0(k, 1)
  BY <1>1 DEF LastSector, SizeOr1G
<1> HIDE DEF k
<1>4. k # 0
  BY <1>1, <1>2
<1>5. n <= k
  BY <1>2, <1>3, <1>4 DEF Less0
<1>6. s * n <= s * k
  BY <1>1, <1>2, <1>5
<1>7. n * s = s * n /\ s * n \in Nat /\ s * k \in Nat
  BY <1>1, <1>2
<1> QED  BY <1>1, <1>2, <1>6, <1>7

\* A range keeps the type of a profile.
LEMMA RangedType ==
  ASSUME profile \in Profiles, NEW m \in Modes, NEW s \in Nat, NEW n \in Nat
  PROVE  LET p == Ranged(m, [start |-> s, count |-> n])
         IN /\ p \in Profiles /\ p.target = profile.target
            /\ p.mode = m /\ p.start = s /\ p.count = n
  BY DEF Profiles, Ranged

\* Choosing the range.
LEMMA RangeAnswered == WizardInv /\ AskRange => WizardInv'
<1> SUFFICES ASSUME WizardInv, AskRange PROVE WizardInv'
  OBVIOUS
<1> DEFINE h == Hints(profile)
<1>1. profile \in Profiles /\ wstep = 3
  <2>1. wstep = 3
    BY Zenon DEF AskRange
  <2> QED  BY <2>1 DEF WizardInv
<1>2. SoundHints(h) /\ h.sector \in Nat \ {0} /\ h.size \in Nat
  BY <1>1, HintsSound DEF SoundHints
<1>3. LastSector(h) \in Nat
  <2>1. SizeOr1G(h) \in Nat
    BY <1>2, WizardAssumption DEF SizeOr1G
  <2>2. SizeOr1G(h) \div h.sector \in Nat
    BY <1>2, <2>1
  <2> QED  BY <2>2 DEF LastSector, Less0
<1> HIDE DEF h
<1>4. CASE Answered(3, Ranged("whole", [start |-> 0, count |-> 0]))
  <2>1. "whole" \in Modes
    BY DEF Modes
  <2> DEFINE p == Ranged("whole", [start |-> 0, count |-> 0])
  <2>2. p \in Profiles /\ p.target = profile.target /\ p.mode = "whole"
    BY <1>1, <2>1, RangedType
  <2> HIDE DEF p
  <2> QED  BY <1>1, <1>4, <2>2, AnswerKeeps DEF p
<1>5. ASSUME NEW r \in SectorRanges(h), Answered(3, Ranged("sector", r)) PROVE WizardInv'
  <2> DEFINE p == Ranged("sector", r)
  <2>1. /\ r = [start |-> r.start, count |-> r.count] /\ r.start \in Nat
        /\ r.count \in Nat \ {0} /\ r.start + r.count <= LastSector(h) + 1
        /\ r.start + r.count \in Nat
    BY <1>3 DEF SectorRanges
  <2>2. /\ p \in Profiles /\ p.target = profile.target
        /\ p.mode = "sector" /\ p.start = r.start /\ p.count = r.count
    BY <1>1, <2>1, RangedType DEF Modes
  <2>3. h.size >= h.sector => (r.start + r.count) * h.sector <= h.size
    BY <1>2, <2>1, SectorsFit
  <2>4. RangeEnd(p, h) = (r.start + r.count) * h.sector
    BY <2>2 DEF RangeEnd
  <2> HIDE DEF p
  <2>5. p.count > 0 /\ (h.size >= h.sector => RangeEnd(p, h) <= h.size)
    BY <2>1, <2>2, <2>3, <2>4
  <2>6. Answered(3, p)
    BY <1>5 DEF p
  <2> QED  BY <1>1, <2>2, <2>5, <2>6, AnswerKeeps DEF h
<1>6. ASSUME NEW r \in ByteRanges(h), Answered(3, Ranged("byte", r)) PROVE WizardInv'
  <2> DEFINE p == Ranged("byte", r)
  <2>1. SizeOr1G(h) \in Nat /\ (h.size >= h.sector => SizeOr1G(h) = h.size)
    BY <1>2, WizardAssumption DEF SizeOr1G
  <2>2. /\ r = [start |-> r.start, count |-> r.count] /\ r.start \in Nat
        /\ r.count \in Nat \ {0} /\ r.start + r.count <= SizeOr1G(h)
    BY <2>1 DEF ByteRanges, Less0
  <2>3. /\ p \in Profiles /\ p.target = profile.target
        /\ p.mode = "byte" /\ p.start = r.start /\ p.count = r.count
    BY <1>1, <2>2, RangedType DEF Modes
  <2>4. RangeEnd(p, h) = r.start + r.count
    BY <2>3 DEF RangeEnd
  <2> HIDE DEF p
  <2>5. p.count > 0 /\ (h.size >= h.sector => RangeEnd(p, h) <= h.size)
    BY <2>1, <2>2, <2>3, <2>4
  <2>6. Answered(3, p)
    BY <1>6 DEF p
  <2> QED  BY <1>1, <2>3, <2>5, <2>6, AnswerKeeps DEF h
<1>7. ASSUME NEW s \in 0..LastSector(h),
             Answered(3, [Ranged("sector", [start |-> s, count |-> 1])
                            EXCEPT !.block = h.sector, !.exact = TRUE])
      PROVE  WizardInv'
  <2> DEFINE p0 == Ranged("sector", [start |-> s, count |-> 1])
             p  == [p0 EXCEPT !.block = h.sector, !.exact = TRUE]
  <2>1. s \in Nat /\ s + 1 \in Nat /\ s + 1 <= LastSector(h) + 1
    BY <1>3
  <2>2. /\ p0 \in Profiles /\ p0.target = profile.target
        /\ p0.mode = "sector" /\ p0.start = s /\ p0.count = 1
    BY <1>1, <2>1, RangedType DEF Modes
  <2>3. /\ p \in Profiles /\ p.target = profile.target
        /\ p.mode = "sector" /\ p.start = s /\ p.count = 1
    <3> HIDE DEF p0
    <3> QED  BY <1>2, <2>2 DEF Profiles
  <2>4. h.size >= h.sector => (s + 1) * h.sector <= h.size
    BY <1>2, <2>1, SectorsFit
  <2>5. RangeEnd(p, h) = (s + 1) * h.sector
    <3> HIDE DEF p
    <3> QED  BY <2>3 DEF RangeEnd
  <2> HIDE DEF p, p0
  <2>6. p.count > 0 /\ (h.size >= h.sector => RangeEnd(p, h) <= h.size)
    BY <2>3, <2>4, <2>5
  <2>7. Answered(3, p)
    BY <1>7 DEF p, p0
  <2> QED  BY <1>1, <2>3, <2>6, <2>7, AnswerKeeps DEF h
<1> QED  BY <1>4, <1>5, <1>6, <1>7, Zenon DEF AskRange, h

\* Choosing the target.
LEMMA TargetAnswered == WizardInv /\ AskTarget => WizardInv'
<1> SUFFICES ASSUME WizardInv, AskTarget PROVE WizardInv'
  OBVIOUS
<1>1. profile \in Profiles /\ wstep = 1
  <2>1. wstep = 1
    BY Zenon DEF AskTarget
  <2> QED  BY <2>1 DEF WizardInv
<1>2. PICK t \in Targets :
        LET p     == [profile EXCEPT !.target = Inside[t]]
            least == AtLeast(MinimumSize(p, Hints(p)), CreateMinimum)
        IN \/ \E c \in least..AtLeast(FreeSpace, least) : Answered(1, [p EXCEPT !.create = c])
           \/ profile' = p /\ UNCHANGED <<wstep, runNow>>
           \/ Answered(1, [p EXCEPT !.create = 0])
  BY Zenon DEF AskTarget
<1> DEFINE p     == [profile EXCEPT !.target = Inside[t]]
           least == AtLeast(MinimumSize(p, Hints(p)), CreateMinimum)
<1>3. p \in Profiles /\ p.target = Inside[t]
  BY <1>1, InsideOnce DEF Profiles
<1> HIDE DEF p
<1>4. least \in Nat /\ AtLeast(FreeSpace, least) \in Nat
  <2>1. /\ p.block \in Nat \ {0} /\ p.create \in Nat /\ p.start \in Nat /\ p.count \in Nat
        /\ p.mode \in Modes
    BY <1>3 DEF Profiles
  <2>2. MinimumSize(p, Hints(p)) \in Nat
    BY <1>3, <2>1, HintsSound, CreateSound
  <2> QED  BY <2>2, WizardAssumption DEF AtLeast
<1> HIDE DEF least
<1>5. ASSUME NEW c \in Nat, Answered(1, [p EXCEPT !.create = c]) PROVE WizardInv'
  <2>1. [p EXCEPT !.create = c] \in Profiles
    BY <1>3 DEF Profiles
  <2> QED  BY <1>1, <1>5, <2>1, AnswerKeeps
<1>6. CASE profile' = p /\ UNCHANGED <<wstep, runNow>>
  <2>1. Inside[p.target] = p.target
    BY <1>3, InsideOnce
  <2> QED  BY <1>1, <1>3, <1>6, <2>1 DEF WizardInv, ReviewedIsNormal, Invalid, Accepted
<1>7. CASE \E c \in least..AtLeast(FreeSpace, least) : Answered(1, [p EXCEPT !.create = c])
  BY <1>4, <1>5, <1>7
<1>8. CASE Answered(1, [p EXCEPT !.create = 0])
  BY <1>5, <1>8
<1> QED  BY <1>2, <1>6, <1>7, <1>8 DEF p, least

\* The other questions.
LEMMA OthersAnswered ==
  ASSUME WizardInv,
         AskMode \/ AskWorkload \/ AskStopRule \/ AskBlockSize \/ AskOther \/ AskVerify
           \/ AskDurability \/ AskHealth
  PROVE  WizardInv'
<1>1. profile \in Profiles
  <2>1. \/ wstep = 0 \/ wstep = 2 \/ wstep = 4 \/ wstep = 5 \/ wstep \in {6, 7, 8, 9, 13, 14}
        \/ wstep = 10 \/ wstep = 11 \/ wstep = 12
    BY Zenon DEF AskMode, AskWorkload, AskStopRule, AskBlockSize, AskOther, AskVerify,
                 AskDurability, AskHealth
  <2> QED  BY <2>1 DEF WizardInv
<1>2. CASE AskMode
  <2>1. PICK raw \in BOOLEAN : Answered(0, [profile EXCEPT !.target = DefaultTarget[raw]])
    BY <1>2 DEF AskMode
  <2>2. [profile EXCEPT !.target = DefaultTarget[raw]] \in Profiles
    BY <1>1, WizardAssumption DEF Profiles
  <2> QED  BY <1>2, <2>1, <2>2, AnswerKeeps DEF AskMode
<1>3. CASE AskWorkload
  <2>1. PICK w \in BOOLEAN : Answered(2, [profile EXCEPT !.write = w])
    BY <1>3 DEF AskWorkload
  <2> DEFINE p == [profile EXCEPT !.write = w]
  <2>2. p \in Profiles /\ p.target = profile.target
    BY <1>1 DEF Profiles
  <2> HIDE DEF p
  <2>3. Answered(2, p) /\ wstep = 2
    BY <1>3, <2>1 DEF p, AskWorkload
  <2> QED  BY <2>2, <2>3, AnswerKeeps
<1>4. ASSUME NEW q \in 4..14, wstep = q, NEW p \in Profiles, Answered(q, p),
             /\ p.target = profile.target /\ p.mode = profile.mode
             /\ p.start = profile.start /\ p.count = profile.count
      PROVE  WizardInv'
  BY <1>4, AnswerToLater
<1>5. CASE AskStopRule
  <2>1. PICK exact \in BOOLEAN : Answered(4, [profile EXCEPT !.exact = exact])
    BY <1>5 DEF AskStopRule
  <2>2. wstep = 4 /\ [profile EXCEPT !.exact = exact] \in Profiles
    BY <1>1, <1>5 DEF AskStopRule, Profiles
  <2> QED  BY <1>1, <1>4, <2>1, <2>2 DEF Profiles
<1>6. CASE AskBlockSize
  <2>1. PICK b \in Floor(profile, Hints(profile))..BlockMax :
          Answered(5, [profile EXCEPT !.block = b])
    BY <1>6 DEF AskBlockSize
  <2>2. b \in Nat \ {0}
    BY <1>1, HintsSound, FloorSound, WizardAssumption
  <2>3. wstep = 5 /\ [profile EXCEPT !.block = b] \in Profiles
    BY <1>1, <1>6, <2>2 DEF AskBlockSize, Profiles
  <2> QED  BY <1>1, <1>4, <2>1, <2>3 DEF Profiles
<1>7. CASE AskOther
  <2>1. wstep \in 4..14 /\ Answered(wstep, profile)
    BY <1>7 DEF AskOther
  <2> QED  BY <1>1, <1>4, <2>1
<1>8. CASE AskVerify
  <2>1. PICK v \in BOOLEAN : Answered(10, [profile EXCEPT !.verify = v])
    BY <1>8, Zenon DEF AskVerify
  <2>2. wstep = 10 /\ [profile EXCEPT !.verify = v] \in Profiles
    BY <1>1, <1>8 DEF AskVerify, Profiles
  <2> QED  BY <1>1, <1>4, <2>1, <2>2 DEF Profiles
<1>9. CASE AskDurability
  <2>1. PICK d \in BOOLEAN : Answered(11, [profile EXCEPT !.durable = d])
    BY <1>9, Zenon DEF AskDurability
  <2>2. wstep = 11 /\ [profile EXCEPT !.durable = d] \in Profiles
    BY <1>1, <1>9 DEF AskDurability, Profiles
  <2> QED  BY <1>1, <1>4, <2>1, <2>2 DEF Profiles
<1>10. CASE AskHealth
  <2>1. PICK on \in BOOLEAN : Answered(12, [profile EXCEPT !.health = on])
    BY <1>10 DEF AskHealth
  <2>2. wstep = 12 /\ [profile EXCEPT !.health = on] \in Profiles
    BY <1>1, <1>10 DEF AskHealth, Profiles
  <2> QED  BY <1>1, <1>4, <2>1, <2>2 DEF Profiles
<1> QED  BY <1>2, <1>3, <1>5, <1>6, <1>7, <1>8, <1>9, <1>10

\* Leaving the review: what is left is normal, whatever was chosen.
LEMMA ReviewLeft ==
  ASSUME WizardInv, NEW outcome \in {Accepted, Cancelled, 0}, NEW run, Leave(outcome, run)
  PROVE  WizardInv'
<1> DEFINE q == FinishProfile(profile)
<1>1. profile \in Profiles /\ Inside[profile.target] = profile.target /\ RangeFits(profile)
  BY DEF Leave, WizardInv, Review
<1>2. /\ q \in Profiles /\ Inside[q.target] = q.target /\ RangeFits(q)
      /\ ValidProfile(q) /\ FinishProfile(q) = q
      /\ ~ q.write => ~ q.verify /\ ~ q.durable
      /\ q.block % Hints(q).sector = 0
  BY <1>1, FinishedIsNormal
<1>3. profile' = q
  BY DEF Leave
<1> HIDE DEF q
<1>4. wstep' = outcome /\ wstep' \in {16, 17, 0}
  <2>1. ValidProfile(profile') <=> ValidProfile(q)
    BY <1>3
  <2> QED  BY <1>2, <2>1, <1>3 DEF Leave, Accepted, Cancelled
<1>5. /\ RangeFits(profile') /\ FinishProfile(profile') = profile'
      /\ ~ profile'.write => ~ profile'.verify /\ ~ profile'.durable
      /\ profile'.block % Hints(profile').sector = 0
  BY <1>2, <1>3
<1>6. ReviewedIsNormal'
  BY <1>4, <1>5 DEF ReviewedIsNormal, Invalid
<1> QED  BY <1>2, <1>3, <1>4, <1>5, <1>6 DEF WizardInv

\* Every step keeps the invariant.
LEMMA WizardStepInvariant == WizardInv /\ [WizardNext]_wizardVars => WizardInv'
<1> SUFFICES ASSUME WizardInv, [WizardNext]_wizardVars PROVE WizardInv'
  OBVIOUS
<1>1. ASSUME NEW seed \in Seeds, BeginWizard(seed) PROVE WizardInv'
  <2>1. profile' \in Profiles /\ wstep' = 0
    BY <1>1, WizardAssumption DEF BeginWizard
  <2> QED  BY <2>1 DEF WizardInv, ReviewedIsNormal, Invalid, Accepted
<1>2. CASE Back
  <2>1. CASE wstep = 0 /\ Answered(0, profile)
    BY <2>1, AnswerKeeps DEF WizardInv
  <2>2. CASE /\ wstep \in 1..14
             /\ wstep' = wstep - 1
             /\ UNCHANGED <<profile, runNow>>
    <3>1. wstep' \in 0..13 /\ wstep \in 0..19 /\ wstep' < wstep /\ profile' = profile
      BY <2>2
    <3> QED  BY <2>2, <3>1 DEF WizardInv, ReviewedIsNormal, Invalid, Accepted
  <2> QED  BY <1>2, <2>1, <2>2 DEF Back
<1>3. CASE CancelWizard
  BY <1>3 DEF CancelWizard, WizardInv, ReviewedIsNormal, Cancelled, Invalid, Accepted
<1>4. CASE AskTarget
  BY <1>4, TargetAnswered
<1>5. CASE AskRange
  BY <1>5, RangeAnswered
<1>6. CASE AskMode \/ AskWorkload \/ AskStopRule \/ AskBlockSize \/ AskOther \/ AskVerify
             \/ AskDurability \/ AskHealth
  BY <1>6, OthersAnswered
<1>7. CASE ReviewStep
  BY <1>7, ReviewLeft DEF ReviewStep
<1>8. CASE UNCHANGED wizardVars
  BY <1>8 DEF wizardVars, WizardInv, ReviewedIsNormal
<1> QED
  BY <1>1, <1>2, <1>3, <1>4, <1>5, <1>6, <1>7, <1>8 DEF WizardNext, WizardStep

\* The invariant holds in every reachable state.
THEOREM WizardInvariance == WizardSpec => []WizardInv
<1>1. WizardInit => WizardInv
  BY DEF WizardInit, WizardInv, ReviewedIsNormal, Idle, Invalid, Accepted
<1> QED  BY <1>1, WizardStepInvariant, PTL DEF WizardSpec

\* For any targets, sectors, sizes and seeds: a reviewed profile validates, and the
\* wizard's assumptions have nothing left to change in it (apply_wizard_assumptions).
THEOREM ReviewIsNormal == WizardSpec => []ReviewedIsNormal
<1>1. WizardInv => ReviewedIsNormal
  BY DEF WizardInv
<1> QED  BY <1>1, WizardInvariance, PTL

\* For any targets, sectors, sizes and seeds: the range of a reviewed profile lies
\* inside its target, whatever was gone back over (wizard, minimum_runtime_file_size).
THEOREM ReviewFits == WizardSpec => []ReviewedRangeFits
<1>1. WizardInv => ReviewedRangeFits
  BY DEF WizardInv, ReviewedRangeFits, RangeFits, Accepted
<1> QED  BY <1>1, WizardInvariance, PTL
==============================================================================
