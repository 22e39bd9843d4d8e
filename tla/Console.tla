------------------------------- MODULE Console -------------------------------
(***************************************************************************)
(* The operator console (run_menu of app.rs and the flows it opens): menus  *)
(* and prompts on a terminal that is taken and given back, workloads that   *)
(* are started from presets, the wizard and saved profiles, and the stored  *)
(* sessions, which another emmc-lab may add to and delete from meanwhile.   *)
(*                                                                          *)
(* A profile is reduced to its target, whether it writes and its            *)
(* confirmation flag. A run is what SessionRun shows from the outside, the  *)
(* wizard what Wizard does; sessions are numbered in the order of their ids. *)
(***************************************************************************)
EXTENDS Naturals, Sequences, SequencesExt, FiniteSets

CONSTANTS
  Places,        \* targets: files and block devices
  Block,         \* those that are block devices
  Spare,         \* unmounted partitions that the stress preset may write to
  PresetRuns,    \* the profiles resolve_preset makes on this host
  Saves,         \* what profiles_dir may hold when the console starts
  MaxFiles,      \* the model's bound on saved profiles
  MaxSessions,   \* the model's bound on sessions
  Nothing        \* no profile

Runnable == [target : Places, write : BOOLEAN, confirmed : BOOLEAN]

ASSUME ConsoleAssumption ==
  /\ Spare \subseteq Block /\ Block \subseteq Places
  /\ PresetRuns \subseteq [target : Places, write : BOOLEAN]
  /\ Saves \subseteq SUBSET Runnable
  /\ MaxFiles \in Nat /\ MaxSessions \in Nat
  /\ Nothing \notin Runnable

VARIABLES
  screen,    \* the menu, prompt or command on the screen
  term,      \* the mode of the terminal
  found,     \* what the guard on it will restore, or NoGuard
  mute,      \* the terminal was lost while a guard was being made
  wish,      \* what the operator chose last: a run, a deletion, or something else
  chosen,    \* the profile in hand
  last,      \* last_profile
  back,      \* the flow that the run or the wizard returns to
  saved,     \* the profiles in profiles_dir
  given,     \* a confirmation was among them when the console started
  agreed,    \* partitions for which "Proceed?" was answered with yes
  sessions,  \* the stored sessions, by what has become of their session.json
  made,      \* sessions ever made
  entries,   \* the sessions listed
  picked     \* the position picked

tty     == <<term, found, mute>>
running == <<chosen, last, back, agreed>>
files   == <<saved, given>>
store   == <<sessions, made>>
listing == <<entries, picked>>

consoleVars == <<screen, tty, wish, running, files, store, listing>>

Menus   == {"main", "workload", "category", "preset", "review", "stress", "saved",
            "savedAction", "diag", "reports", "reportAction"}
Prompts == {"proceed", "wizard", "after", "capture", "confirm"}
Managed == Menus \cup {"monitor"}
OnTty   == Managed \cup Prompts
Pauses  == {"pauseMain", "pauseDiag", "pauseReports", "pauseRun"}
Ends    == {"ended", "failed", "killed"}
Screens == OnTty \cup Pauses \cup Ends \cup {"idle", "run", "list", "load", "deleting"}

NoGuard == "none"

ConsoleInit ==
  /\ screen = "idle" /\ term = "cooked" /\ found = NoGuard /\ mute = FALSE
  /\ wish = "else" /\ chosen = Nothing /\ last = Nothing /\ back = "workload"
  /\ saved = {} /\ given = FALSE /\ agreed = {}
  /\ sessions = <<>> /\ made = 0 /\ entries = <<>> /\ picked = 0

BeginConsole(ps) ==
  /\ screen = "idle"
  /\ screen' = "main"
  /\ saved' = ps /\ given' = (\E p \in ps : p.confirmed)
  /\ UNCHANGED <<tty, wish, running, store, listing>>

(***************************************************************************)
(* RawTerminalGuard and PromptTerminalGuard.                                *)
(***************************************************************************)
\* A screen begins by taking the terminal. ICANON and ECHO go, ISIG stays.
TakeTerminal ==
  /\ screen \in OnTty /\ found = NoGuard
  /\ found' = term /\ term' = "raw"
  /\ UNCHANGED <<screen, mute, wish, running, files, store, listing>>

\* No terminal, or one that refuses. The managed screens write to it before there
\* is a guard: when that fails nothing gives the terminal back.
TakeFails ==
  /\ screen \in OnTty /\ found = NoGuard
  /\ screen' = "failed"
  /\ \/ UNCHANGED <<term, mute>>
     \/ screen \in Managed /\ term' = "raw" /\ mute' = TRUE
  /\ UNCHANGED <<found, wish, running, files, store, listing>>

\* Mutant: a guard that is dropped on an error path only.
KeepTerminal == found # NoGuard /\ found' = NoGuard /\ UNCHANGED <<term, mute>>

\* The guard is dropped however the screen is left.
GiveBack == found # NoGuard /\ term' = found /\ found' = NoGuard /\ UNCHANGED mute

\* A screen is left for the next one, with what the operator wants.
Leaves(from, to, want) == screen = from /\ GiveBack /\ screen' = to /\ wish' = want

Goes(from, to) ==
  /\ Leaves(from, to, "else")
  /\ UNCHANGED <<running, files, store, listing>>

\* A flow returns, and its locals are gone.
Drops(from, to) ==
  /\ Leaves(from, to, "else")
  /\ chosen' = Nothing /\ entries' = <<>> /\ picked' = 0
  /\ UNCHANGED <<last, back, agreed, files, store>>

\* Drawing or polling fails: the error goes up through every flow.
ScreenFails ==
  /\ screen \in OnTty /\ GiveBack
  /\ screen' = "failed"
  /\ UNCHANGED <<wish, running, files, store, listing>>

\* Ctrl-C is a signal, for there is no handler: no guard is dropped.
Interrupt ==
  /\ screen \notin Ends \cup {"idle"}
  /\ screen' = "killed"
  /\ UNCHANGED <<tty, wish, running, files, store, listing>>

(***************************************************************************)
(* run_menu, run_workload_flow, diagnostics_flow: Esc and q are Back.       *)
(***************************************************************************)
MainMenu ==
  \/ \E to \in {"workload", "diag", "list", "ended", "pauseMain"} : Goes("main", to)
  \/ Goes("main", "failed")           \* health_flow of a device that cannot be read

\* pause reads a line.
Resume ==
  /\ screen \in Pauses
  /\ screen' = CASE screen = "pauseMain"    -> "main"
                 [] screen = "pauseDiag"    -> "diag"
                 [] screen = "pauseReports" -> "list"
                 [] screen = "pauseRun"     -> "run"
  /\ UNCHANGED <<tty, wish, running, files, store, listing>>

WorkloadMenu == \E to \in {"category", "saved", "main"} : Goes("workload", to)

\* A run that was asked for on a screen, of a profile, and where it returns to.
Start(from, p, caller) ==
  /\ Leaves(from, "run", "run")
  /\ chosen' = p /\ back' = caller
  /\ UNCHANGED <<last, agreed, files, store, listing>>

RepeatLast ==
  \/ last # Nothing /\ Start("workload", last, "workload")
  \/ last = Nothing /\ Goes("workload", "workload")

(***************************************************************************)
(* quick_presets_flow and resolve_preset.                                   *)
(***************************************************************************)
CategoryMenu == \E to \in {"preset", "workload"} : Goes("category", to)

\* Mutant: presets come with the confirmation.
ResolveConfirmed(r) == [target |-> r.target, write |-> r.write, confirmed |-> TRUE]

ResolvePreset(r) == [target |-> r.target, write |-> r.write, confirmed |-> FALSE]

\* The preset, and the device and sector it needs; none there, or Back at any of
\* them, leads to the categories.
PresetMenu ==
  \/ \E r \in PresetRuns :
       /\ Leaves("preset", "review", "else")
       /\ chosen' = ResolvePreset(r) /\ back' = "category"
       /\ UNCHANGED <<last, agreed, files, store, listing>>
  \/ \E to \in {"stress", "category"} : Goes("preset", to)

ReviewPreset ==
  \/ Start("review", chosen, "category")
  \/ Goes("review", "wizard")
  \/ Drops("review", "category")
  \/ /\ Leaves("review", "category", "else")
     /\ Cardinality(saved) < MaxFiles
     /\ saved' = saved \cup {chosen} /\ chosen' = Nothing
     /\ UNCHANGED <<given, last, back, agreed, store, listing>>

\* Parent, boot partition, region, write target and sizes.
StressMenus ==
  \/ \E t \in Spare :
       /\ Leaves("stress", "proceed", "else")
       /\ chosen' = [target |-> t, write |-> TRUE, confirmed |-> TRUE]
       /\ back' = "category"
       /\ UNCHANGED <<last, agreed, files, store, listing>>
  \/ Goes("stress", "category")

Proceed ==
  /\ Leaves("proceed", "run", "run")
  /\ agreed' = agreed \cup {chosen.target}
  /\ UNCHANGED <<chosen, last, back, files, store, listing>>

DoNotProceed == Drops("proceed", "category")

(***************************************************************************)
(* The wizard, from nothing, from a preset or from a saved profile. It asks *)
(* for no confirmation, and leaves the flag of its seed as it is.           *)
(***************************************************************************)
WizardFrom(from, seed, caller) ==
  /\ Leaves(from, "wizard", "else")
  /\ chosen' = seed /\ back' = caller
  /\ UNCHANGED <<last, agreed, files, store, listing>>

Guided ==
  \E t \in Places : WizardFrom("workload", [target |-> t, write |-> FALSE, confirmed |-> FALSE],
                               "workload")

WizardAccepts(p, run, save) ==
  /\ run \/ save
  /\ save => Cardinality(saved) < MaxFiles
  /\ Leaves("wizard", IF run THEN "run" ELSE back, IF run THEN "run" ELSE "else")
  /\ saved' = IF save THEN saved \cup {p} ELSE saved
  /\ chosen' = IF run THEN p ELSE Nothing
  /\ UNCHANGED <<last, back, agreed, given, store, listing>>

WizardEnds ==
  \/ Drops("wizard", back)
  \/ \E t \in Places, w, run, save \in BOOLEAN :
       WizardAccepts([chosen EXCEPT !.target = t, !.write = w], run, save)

(***************************************************************************)
(* run_saved_profile_flow.                                                  *)
(***************************************************************************)
\* A file that does not load ends the console.
SavedMenu ==
  \/ \E p \in saved :
       /\ Leaves("saved", "savedAction", "else")
       /\ chosen' = p /\ back' = "workload"
       /\ UNCHANGED <<last, agreed, files, store, listing>>
  \/ \E to \in {"workload", "failed"} : Goes("saved", to)

SavedActionMenu ==
  \/ Start("savedAction", chosen, "workload")
  \/ Goes("savedAction", "wizard")
  \/ Drops("savedAction", "workload")

(***************************************************************************)
(* run_profile_session_interactive.                                         *)
(***************************************************************************)
Destructive(p) == p.target \in Block /\ p.write

\* No session.json yet, one that loads, or one that was cut short.
States == {"begun", "whole", "torn"}

NewSession(state) ==
  /\ made < MaxSessions
  /\ made' = made + 1
  /\ sessions' = [i \in DOMAIN sessions \cup {made + 1} |->
                    IF i = made + 1 THEN state ELSE sessions[i]]

\* Refused, or ended by an error, perhaps with a session directory begun or a
\* session stored; the error ends the console.
RunFails ==
  /\ screen = "run"
  /\ screen' = "failed"
  /\ \/ UNCHANGED <<sessions, made>>
     \/ \E state \in States : NewSession(state)
  /\ UNCHANGED <<tty, wish, running, files, listing>>

RunEnds ==
  /\ screen = "run"
  /\ Destructive(chosen) => chosen.confirmed
  /\ NewSession("whole")
  /\ screen' = "after"
  /\ UNCHANGED <<tty, wish, running, files, listing>>

RunAgain ==
  /\ Leaves("after", "run", "run")
  /\ UNCHANGED <<running, files, store, listing>>

\* The report is followed by the next round of the loop, which starts with a run.
ViewReport == \E to \in {"pauseRun", "failed"} : Goes("after", to)

LeaveRun ==
  /\ Leaves("after", back, "else")
  /\ last' = chosen /\ chosen' = Nothing
  /\ UNCHANGED <<back, agreed, files, store, listing>>

(***************************************************************************)
(* diagnostics_flow, timed_capture_flow, deep_trace_flow.                   *)
(***************************************************************************)
DiagMenu    == \E to \in {"monitor", "capture", "main", "diag"} : Goes("diag", to)
MonitorEnds == Goes("monitor", "pauseDiag")

CaptureEnds ==
  \/ Goes("capture", "diag")
  \/ /\ Leaves("capture", "diag", "else")
     /\ NewSession("whole")
     /\ UNCHANGED <<running, files, listing>>

(***************************************************************************)
(* reports_flow and session_menu_entries.                                   *)
(***************************************************************************)
Listed(s) == SetToSortSeq(DOMAIN s, LAMBDA a, b : a > b)

ListSessions ==
  /\ screen = "list"
  /\ entries' = Listed(sessions) /\ picked' = 0
  /\ screen' = IF sessions = <<>> THEN "main" ELSE "load"
  /\ UNCHANGED <<tty, wish, running, files, store>>

Without(id) == [i \in DOMAIN sessions \ {id} |-> sessions[i]]

Readable(id) == id \in DOMAIN sessions /\ sessions[id] = "whole"

\* Every session is loaded for its line of the menu; one that cannot be ends the
\* console.
LoadEntries ==
  /\ screen = "load"
  /\ screen' = IF \A i \in DOMAIN entries : Readable(entries[i]) THEN "reports" ELSE "failed"
  /\ UNCHANGED <<tty, wish, running, files, store, listing>>

PickSession ==
  \/ \E i \in DOMAIN entries :
       /\ Leaves("reports", "reportAction", "else")
       /\ picked' = i
       /\ UNCHANGED <<running, files, store, entries>>
  \/ Drops("reports", "main")

\* View and export load the session again.
ReportActionMenu ==
  \/ Goes("reportAction", IF Readable(entries[picked]) THEN "pauseReports" ELSE "failed")
  \/ \E to \in {"confirm", "list"} : Goes("reportAction", to)

Confirm ==
  /\ Leaves("confirm", "deleting", "delete")
  /\ UNCHANGED <<running, files, store, listing>>

DoNotDelete == Goes("confirm", "list")

\* Mutant: the position is looked up in the store as it is now.
DeletePosition ==
  /\ screen = "deleting"
  /\ picked \in DOMAIN Listed(sessions)
  /\ sessions' = Without(Listed(sessions)[picked])
  /\ screen' = "pauseReports"
  /\ UNCHANGED <<tty, wish, running, files, made, listing>>

DeleteSession ==
  /\ screen = "deleting"
  /\ sessions' = Without(entries[picked])
  /\ screen' = "pauseReports"
  /\ UNCHANGED <<tty, wish, running, files, made, listing>>

\* remove_dir_all stops half way.
DeleteFails ==
  /\ screen = "deleting"
  /\ LET id == entries[picked]
     IN id \in DOMAIN sessions /\ sessions' = [sessions EXCEPT ![id] = "torn"]
  /\ screen' = "failed"
  /\ UNCHANGED <<tty, wish, running, files, made, listing>>

(***************************************************************************)
(* Another emmc-lab on the same directories.                                *)
(***************************************************************************)
OtherBegins ==
  /\ NewSession("begun")
  /\ UNCHANGED <<screen, tty, wish, running, files, listing>>

\* save_session, from the moment it opens session.json to the one it closes it;
\* baselines are stored before a run, verifications long after it.
OtherWrites(id) ==
  /\ sessions' = [sessions EXCEPT ![id] = "torn"]
  /\ UNCHANGED <<screen, tty, wish, running, files, made, listing>>

OtherWrote(id) ==
  /\ sessions[id] = "torn"
  /\ sessions' = [sessions EXCEPT ![id] = "whole"]
  /\ UNCHANGED <<screen, tty, wish, running, files, made, listing>>

OtherDeletes(id) ==
  /\ sessions' = Without(id)
  /\ UNCHANGED <<screen, tty, wish, running, files, made, listing>>

OtherStep ==
  /\ screen \notin Ends \cup {"idle"}
  /\ OtherBegins \/ \E id \in DOMAIN sessions : OtherWrites(id) \/ OtherWrote(id) \/ OtherDeletes(id)

TerminalStep == TakeTerminal \/ TakeFails \/ ScreenFails \/ Interrupt

WorkloadStep ==
  \/ WorkloadMenu \/ RepeatLast \/ Guided \/ WizardEnds
  \/ CategoryMenu \/ PresetMenu \/ ReviewPreset
  \/ StressMenus \/ Proceed \/ DoNotProceed
  \/ SavedMenu \/ SavedActionMenu
  \/ RunFails \/ RunEnds \/ RunAgain \/ ViewReport \/ LeaveRun

ReportStep ==
  \/ ListSessions \/ LoadEntries \/ PickSession \/ ReportActionMenu
  \/ Confirm \/ DoNotDelete \/ DeleteSession \/ DeleteFails

ConsoleStep ==
  \/ TerminalStep \/ MainMenu \/ Resume
  \/ WorkloadStep
  \/ DiagMenu \/ MonitorEnds \/ CaptureEnds
  \/ ReportStep

ConsoleNext == (\E ps \in Saves : BeginConsole(ps)) \/ ConsoleStep \/ OtherStep

ConsoleSpec == ConsoleInit /\ [][ConsoleNext]_consoleVars

(***************************************************************************)
(* Properties.                                                              *)
(***************************************************************************)
ConsoleTypeOK ==
  /\ screen \in Screens
  /\ term \in {"cooked", "raw"} /\ found \in {NoGuard, "cooked", "raw"} /\ mute \in BOOLEAN
  /\ wish \in {"run", "delete", "else"} /\ back \in {"workload", "category"}
  /\ chosen \in Runnable \cup {Nothing} /\ last \in Runnable \cup {Nothing}
  /\ picked \in Nat
  /\ saved \subseteq Runnable /\ given \in BOOLEAN /\ agreed \subseteq Places
  /\ made \in 0..MaxSessions /\ DOMAIN sessions \subseteq 1..made
  /\ \A id \in DOMAIN sessions : sessions[id] \in States

\* A write to a block device that passes for confirmed was confirmed: either a
\* profile that carried the flag was there when the console started, or the
\* operator said yes to "Proceed?" for this very partition, however often the run
\* has been repeated since and whatever has gone through the wizard and the saved
\* profiles in between (resolve_preset, wizard, run_workload_flow).
RawWritesAreAgreed ==
  screen = "run" /\ Destructive(chosen) /\ chosen.confirmed =>
    given \/ chosen.target \in agreed

\* A session is deleted only after the prompt with its name was answered with yes,
\* though others add and delete sessions while the menu stands; and never that
\* of a run that has not stored anything in it yet, for it would not have been in
\* the menu (reports_flow, session_menu_entries).
DeletesAreConfirmed ==
  [][screen = "deleting" /\ screen' = "pauseReports" =>
       \A id \in DOMAIN sessions \ DOMAIN sessions' :
         wish = "delete" /\ id = entries[picked] /\ sessions[id] # "begun"]_consoleVars

\* The terminal is as it was found when a workload runs, when a line is read
\* outside the prompts, and when the console ends by itself, whatever failed,
\* unless it failed while a managed screen was taking it (RawTerminalGuard,
\* PromptTerminalGuard).
TerminalRestored ==
  screen \in {"run", "ended", "failed"} \cup Pauses => term = "cooked" \/ mute

\* A workload starts only when the operator has just chosen to run or to repeat
\* it: the prompt after a run offers "1=repeat, 2=view report, 3=back".
RunsAreAskedFor == screen = "run" => wish = "run"

(***************************************************************************)
(* What the first three rest on.                                            *)
(***************************************************************************)
\* The terminal is as it was found, or a guard that is alive knows how it was.
GuardKept ==
  /\ found = NoGuard => term = "cooked" \/ mute
  /\ found # NoGuard => (found = "cooked" \/ mute) /\ screen \in OnTty \cup {"killed"}

\* Where each confirmation comes from: those of saved profiles, and of profiles that
\* can be edited or saved, from before; those of runs perhaps from "Proceed?".
FlagsHaveCause ==
  /\ screen = "idle" => last = Nothing
  /\ \A p \in saved : p.confirmed => given
  /\ last # Nothing /\ last.confirmed => given \/ last.target \in agreed
  /\ screen \in {"review", "savedAction", "wizard"} =>
       chosen # Nothing /\ (chosen.confirmed => given)
  /\ screen \in {"run", "after", "pauseRun"} =>
       chosen # Nothing /\ (chosen.confirmed => given \/ chosen.target \in agreed)
  /\ screen = "proceed" => chosen # Nothing

\* A listed session had something stored when it was loaded, and numbers are not
\* used again.
EntriesWereStored ==
  /\ screen \in {"reports", "reportAction", "confirm", "deleting"} =>
       \A i \in DOMAIN entries :
         /\ entries[i] \in 1..made
         /\ entries[i] \in DOMAIN sessions => sessions[entries[i]] # "begun"
  /\ screen \in {"reportAction", "confirm", "deleting"} => picked \in DOMAIN entries
  /\ screen = "deleting" => wish = "delete"

ConsoleInv == ConsoleTypeOK /\ GuardKept /\ FlagsHaveCause /\ EntriesWereStored
=============================================================================
