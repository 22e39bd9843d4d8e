-------------------------------- MODULE Cli --------------------------------
(***************************************************************************)
(* The emmc-lab command (run in cli.rs): one invocation is the console, the *)
(* wizard, a sampling, a trace or a discard, and what a component does is   *)
(* done in the invocation that started it. The commands that run a profile  *)
(* or work on its session are in SessionRun; wizard, with "run now", hands  *)
(* its profile to the first of them.                                        *)
(***************************************************************************)
EXTENDS Console, Wizard, LiveSampler, DiscardTest, FileTrace

VARIABLE command   \* what was asked for on the command line

Commands == {"menu", "wizard", "diag", "discard", "lba-trace"}

cliVars == <<command, consoleVars, wizardVars, samplerVars, discardVars, traceVars>>

CliInit ==
  /\ command \in Commands
  /\ ConsoleInit /\ WizardInit /\ SamplerInit /\ DiscardInit /\ TraceInit

RunMenu ==
  /\ command = "menu" /\ ConsoleNext
  /\ UNCHANGED <<command, wizardVars, samplerVars, discardVars, traceVars>>

RunWizard ==
  /\ command = "wizard" /\ WizardNext
  /\ UNCHANGED <<command, consoleVars, samplerVars, discardVars, traceVars>>

RunDiag ==
  /\ command = "diag" /\ SamplerNext
  /\ UNCHANGED <<command, consoleVars, wizardVars, discardVars, traceVars>>

RunDiscard ==
  /\ command = "discard" /\ DiscardNext
  /\ UNCHANGED <<command, consoleVars, wizardVars, samplerVars, traceVars>>

RunLbaTrace ==
  /\ command = "lba-trace" /\ TraceNext
  /\ UNCHANGED <<command, consoleVars, wizardVars, samplerVars, discardVars>>

CliNext == RunMenu \/ RunWizard \/ RunDiag \/ RunDiscard \/ RunLbaTrace

CliSpec == CliInit /\ [][CliNext]_cliVars
=============================================================================
