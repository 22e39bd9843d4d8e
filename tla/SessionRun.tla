------------------------------ MODULE SessionRun ------------------------------
(***************************************************************************)
(* A session from run_profile_session to the integrity commands that come   *)
(* after it (app.rs), and its files (storage.rs). The run captures integrity *)
(* baselines, executes the workload, verifies the baselines and saves its   *)
(* record again and again on the way; save_session rewrites session.json    *)
(* and then intervals.jsonl in place, save_checkpoint replaces              *)
(* checkpoint.json atomically. Any step may fail and the process may be     *)
(* killed at any moment.                                                    *)
(*                                                                          *)
(* A checksum is modelled by the contents it covers, the intervals by their *)
(* number. Engine says what the workload does meanwhile.                    *)
(***************************************************************************)
EXTENDS Naturals, Sequences, SequencesExt, FiniteSets

CONSTANTS
  Regions,      \* how many regions the profile captures before the run
  MaxIntervals, \* bound on the intervals of a run
  MaxCommands,  \* bound on the integrity commands after the run
  WithHealth,   \* telemetry.health_telemetry
  WithSampler,  \* diagnostics.capture_during_test
  DiskFaults,   \* whether writing a session file may fail
  NoFile, Torn  \* a file that is missing; one that does not parse

\* The regions a baseline covers; 0 is the whole device.
Covered(region) == IF region = 0 THEN 1..Regions ELSE {region}

Sums == UNION {[Covered(k) -> {0, 1}] : k \in 0..Regions}

SessionRecord ==
  [baselines : Seq([region : 0..Regions, sum : Sums]), verifications : Seq(BOOLEAN),
   critical : Nat, summary : BOOLEAN, diagnostics : BOOLEAN, intervals : Nat]

ASSUME SessionAssumption ==
  /\ Regions \in Nat /\ MaxIntervals \in Nat /\ MaxCommands \in Nat
  /\ {WithHealth, WithSampler, DiskFaults} \subseteq BOOLEAN
  /\ NoFile \notin SessionRecord /\ Torn \notin SessionRecord

VARIABLES
  phase,       \* how far the process is
  saving,      \* how far save_session is, or "no"
  rec,         \* the SessionRecord in memory
  sess,        \* session.json
  ivals,       \* intervals.jsonl
  checkpoint,  \* checkpoint.json: the baselines it carries
  cells,       \* the contents of the regions
  sampler,     \* the diagnostic sampler thread
  stopSignal,  \* its stop signal
  durable,     \* the last record session.json held in full
  killedIn,    \* the phase the process was killed in
  commands     \* integrity commands so far

vars == <<phase, saving, rec, sess, ivals, checkpoint, cells, sampler, stopSignal,
          durable, killedIn, commands>>

Ended == {"ok", "failed"}

Checksum(region) == [r \in Covered(region) |-> cells[r]]
Baseline(region) == [region |-> region, sum |-> Checksum(region)]
Matches(b)       == b.sum = Checksum(b.region)

Blank == [baselines |-> <<>>, verifications |-> <<>>, critical |-> 0,
          summary |-> FALSE, diagnostics |-> FALSE, intervals |-> 0]

\* session.json is written without the intervals.
Stored(r)   == [r EXCEPT !.intervals = 0]
Readable(f) == f \notin {NoFile, Torn}

Init ==
  /\ phase = "baseline" /\ saving = "no"
  /\ rec = Blank
  /\ sess = NoFile /\ ivals = NoFile /\ checkpoint = NoFile
  /\ cells = [r \in 1..Regions |-> 0]
  /\ sampler = "none" /\ stopSignal = FALSE
  /\ durable = Blank
  /\ killedIn = "nowhere"
  /\ commands = 0

files == <<sess, ivals, checkpoint, durable>>

\* A step of run_profile_session between two saves.
At(p) == phase = p /\ saving = "no"

Fail ==
  /\ phase' = "failed"
  /\ UNCHANGED <<saving, rec, sess, ivals, checkpoint, sampler, stopSignal, durable,
                 killedIn, commands>>

(***************************************************************************)
(* run_profile_session.                                                     *)
(***************************************************************************)
\* Mutant: the baselines are saved with the final record only.
CaptureBaselineUnsaved ==
  /\ At("baseline")
  /\ Len(rec.baselines) < Regions
  /\ rec' = [rec EXCEPT !.baselines = Append(@, Baseline(Len(@) + 1))]
  /\ UNCHANGED <<phase, saving, files, cells, sampler, stopSignal, killedIn, commands>>

\* One baseline, one save each: the loop over the regions.
CaptureBaseline ==
  /\ At("baseline")
  /\ Len(rec.baselines) < Regions
  /\ \/ /\ rec' = [rec EXCEPT !.baselines = Append(@, Baseline(Len(@) + 1))]
        /\ saving' = "open"
        /\ UNCHANGED <<phase, files, cells, sampler, stopSignal, killedIn, commands>>
     \/ Fail /\ UNCHANGED cells

\* Health telemetry, when asked for, and the sampler thread.
BeginRun ==
  /\ At("baseline")
  /\ Len(rec.baselines) = Regions
  /\ \/ /\ phase' = "run"
        /\ sampler' = IF WithSampler THEN "running" ELSE "none"
        /\ UNCHANGED <<saving, rec, files, cells, stopSignal, killedIn, commands>>
     \/ WithHealth /\ Fail /\ UNCHANGED cells

\* The workload overwrites a region, or the medium loses it.
Overwrite(r) ==
  /\ phase \in {"run", "idle"}
  /\ cells' = [cells EXCEPT ![r] = 1]
  /\ UNCHANGED <<phase, saving, rec, files, sampler, stopSignal, killedIn, commands>>

\* The checkpoint writer of the engine: a rename replaces the file at once.
SaveCheckpoint ==
  /\ phase = "run"
  /\ checkpoint' = rec.baselines
  /\ UNCHANGED <<phase, saving, rec, sess, ivals, cells, sampler, stopSignal, durable,
                 killedIn, commands>>

\* The workload returns. Its error ends the run with what has been saved.
EndWorkload ==
  /\ At("run")
  /\ \/ /\ \E n \in 0..MaxIntervals : rec' = [rec EXCEPT !.summary = TRUE, !.intervals = n]
        /\ phase' = "after"
        /\ UNCHANGED <<saving, files, cells, sampler, stopSignal, killedIn, commands>>
     \/ Fail /\ UNCHANGED cells

\* A failure to read the health afterwards drops the result of the workload.
HealthAfter ==
  /\ At("after")
  /\ \/ /\ phase' = "verify"
        /\ UNCHANGED <<saving, rec, files, cells, sampler, stopSignal, killedIn, commands>>
     \/ WithHealth /\ Fail /\ UNCHANGED cells

\* Mutant: every verification reads the first baseline.
VerifyFirstBaseline ==
  LET same == Matches(rec.baselines[1])
  IN /\ At("verify")
     /\ Len(rec.verifications) < Len(rec.baselines)
     /\ rec' = [rec EXCEPT !.verifications = Append(@, same),
                           !.critical = IF same THEN @ ELSE @ + 1]
     /\ saving' = "open"
     /\ UNCHANGED <<phase, files, cells, sampler, stopSignal, killedIn, commands>>

VerifyBaseline ==
  LET k    == Len(rec.verifications) + 1
      same == Matches(rec.baselines[k])
  IN /\ At("verify")
     /\ k <= Len(rec.baselines)
     /\ \/ /\ rec' = [rec EXCEPT !.verifications = Append(@, same),
                                 !.critical = IF same THEN @ ELSE @ + 1]
           /\ saving' = "open"
           /\ UNCHANGED <<phase, files, cells, sampler, stopSignal, killedIn, commands>>
        \/ Fail /\ UNCHANGED cells

\* Mutant: the thread is joined without being told to stop.
JoinUnsignalled ==
  /\ At("verify")
  /\ Len(rec.verifications) = Len(rec.baselines)
  /\ phase' = "join"
  /\ UNCHANGED <<saving, rec, files, cells, sampler, stopSignal, killedIn, commands>>

SignalSampler ==
  /\ At("verify")
  /\ Len(rec.verifications) = Len(rec.baselines)
  /\ phase' = "join"
  /\ stopSignal' = TRUE
  /\ UNCHANGED <<saving, rec, files, cells, sampler, killedIn, commands>>

\* Mutant: the run ends without the final save.
JoinSamplerUnsaved ==
  /\ At("join")
  /\ sampler # "running"
  /\ rec' = [rec EXCEPT !.diagnostics = (sampler = "reported")]
  /\ phase' = "ok"
  /\ UNCHANGED <<saving, files, cells, sampler, stopSignal, killedIn, commands>>

\* Only a sampler that ended well leaves a diagnostic report.
JoinSampler ==
  /\ At("join")
  /\ sampler # "running"
  /\ rec' = [rec EXCEPT !.diagnostics = (sampler = "reported")]
  /\ phase' = "final"
  /\ saving' = "open"
  /\ UNCHANGED <<files, cells, sampler, stopSignal, killedIn, commands>>

RunStep ==
  \/ CaptureBaseline \/ BeginRun \/ EndWorkload \/ HealthAfter \/ VerifyBaseline
  \/ SignalSampler \/ JoinSampler

(***************************************************************************)
(* The sampler thread: it polls the signal, and may break by itself.        *)
(***************************************************************************)
SamplerEnds ==
  /\ sampler = "running"
  /\ stopSignal
  /\ sampler' = "reported"
  /\ UNCHANGED <<phase, saving, rec, files, cells, stopSignal, killedIn, commands>>

SamplerBreaks ==
  /\ sampler = "running"
  /\ sampler' = "broken"
  /\ UNCHANGED <<phase, saving, rec, files, cells, stopSignal, killedIn, commands>>

(***************************************************************************)
(* save_session: fs::write truncates each file and then fills it.           *)
(***************************************************************************)
OpenSession ==
  /\ saving = "open"
  /\ sess' = Torn
  /\ saving' = "fill"
  /\ UNCHANGED <<phase, rec, ivals, checkpoint, cells, sampler, stopSignal, durable,
                 killedIn, commands>>

FillSession ==
  /\ saving = "fill"
  /\ sess' = Stored(rec)
  /\ durable' = Stored(rec)
  /\ saving' = "ivopen"
  /\ UNCHANGED <<phase, rec, ivals, checkpoint, cells, sampler, stopSignal, killedIn, commands>>

OpenIntervals ==
  /\ saving = "ivopen"
  /\ ivals' = 0
  /\ saving' = "ivfill"
  /\ UNCHANGED <<phase, rec, sess, checkpoint, cells, sampler, stopSignal, durable,
                 killedIn, commands>>

\* Where the program goes after a save.
AfterSave == CASE phase = "final" -> "ok" [] phase = "command" -> "idle" [] OTHER -> phase

FillIntervals ==
  /\ saving = "ivfill"
  /\ ivals' = rec.intervals
  /\ saving' = "no"
  /\ phase' = AfterSave
  /\ UNCHANGED <<rec, sess, checkpoint, cells, sampler, stopSignal, durable, killedIn, commands>>

\* What a cut write of the intervals leaves: whole lines, the last one perhaps torn.
CutIntervals ==
  IF saving # "ivfill" THEN {ivals}
  ELSE 0..rec.intervals \cup {Torn : n \in 1..rec.intervals}

\* The error of a write ends the run, or the command.
SaveFails ==
  /\ DiskFaults
  /\ saving # "no"
  /\ saving' = "no"
  /\ phase' = IF phase = "command" THEN "idle" ELSE "failed"
  /\ ivals' \in CutIntervals
  /\ UNCHANGED <<rec, sess, checkpoint, cells, sampler, stopSignal, durable, killedIn, commands>>

Save == OpenSession \/ FillSession \/ OpenIntervals \/ FillIntervals

(***************************************************************************)
(* The end of the process takes its memory and its threads with it.         *)
(***************************************************************************)
Forget ==
  /\ phase' = "idle" /\ saving' = "no"
  /\ rec' = Blank
  /\ sampler' = "none" /\ stopSignal' = FALSE

Exit ==
  /\ phase \in Ended
  /\ Forget
  /\ UNCHANGED <<files, cells, killedIn, commands>>

Kill ==
  /\ phase # "idle"
  /\ killedIn' = phase
  /\ ivals' \in CutIntervals
  /\ Forget
  /\ UNCHANGED <<sess, checkpoint, cells, durable, commands>>

(***************************************************************************)
(* integrity capture and integrity verify: they load session.json, which    *)
(* has no intervals, and save the record with one more entry.               *)
(***************************************************************************)
Command(loaded) ==
  /\ phase = "idle"
  /\ Readable(sess)
  /\ commands < MaxCommands
  /\ commands' = commands + 1
  /\ rec' = loaded
  /\ phase' = "command" /\ saving' = "open"
  /\ UNCHANGED <<files, cells, sampler, stopSignal, killedIn>>

\* Mutant: the command starts from a new record.
CaptureAfresh == Command([Blank EXCEPT !.baselines = <<Baseline(0)>>])

\* The whole device is the region of a captured baseline.
IntegrityCapture == Command([sess EXCEPT !.baselines = Append(@, Baseline(0))])

\* The latest baseline of the device is the one that is verified.
IntegrityVerify ==
  /\ Readable(sess)
  /\ sess.baselines # <<>>
  /\ Command([sess EXCEPT !.verifications = Append(@, Matches(Last(sess.baselines)))])

(***************************************************************************)
(* The specification.                                                       *)
(***************************************************************************)
Next ==
  \/ RunStep \/ Save \/ SaveFails
  \/ SaveCheckpoint \/ SamplerEnds \/ SamplerBreaks
  \/ \E r \in 1..Regions : Overwrite(r)
  \/ Exit \/ Kill
  \/ IntegrityCapture \/ IntegrityVerify

Spec == Init /\ [][Next]_vars

\* The thread of the run goes on, and so does the sampler, which polls its signal
\* between samples. Nothing is assumed of failures, kills and commands.
FairSpec == Spec /\ WF_vars(RunStep) /\ WF_vars(Save) /\ WF_vars(SamplerEnds)

(***************************************************************************)
(* Properties.                                                              *)
(***************************************************************************)
\* A run that returns Ok has on disk the whole of its record: the summary, a
\* verification of every baseline, and the intervals in their own file
\* (run_profile_session, save_session).
OkIsOnDisk ==
  phase = "ok" =>
    /\ sess = Stored(rec)
    /\ ivals = rec.intervals
    /\ rec.summary
    /\ Len(rec.baselines) = Regions /\ Len(rec.verifications) = Regions
    /\ sampler # "running"

\* The saved verifications of a run that returned Ok say exactly which regions
\* the run left with other contents than the baseline's, one CRITICAL note for
\* each of them (run_profile_session).
MismatchesAreReported ==
  phase = "ok" =>
    /\ \A k \in 1..Regions : sess.verifications[k] <=> Matches(sess.baselines[k])
    /\ sess.critical = Cardinality({k \in 1..Regions : ~ sess.verifications[k]})

\* A process that dies between the first baseline phase and the verifications
\* leaves a session.json that loads, with every baseline and no summary
\* (run_profile_session: save_session in the loop over the regions).
KilledRunKeepsBaselines ==
  (phase = "idle" /\ killedIn \in {"run", "after"} /\ commands = 0 /\ Regions > 0) =>
    /\ Readable(sess)
    /\ Len(sess.baselines) = Regions
    /\ ~ sess.summary

\* Whatever is saved next, by the run or by a command after it, extends the
\* last complete session.json: no baseline, verification, note or summary that
\* was on disk is dropped from the record (save_session, run_integrity_capture,
\* run_integrity_verify).
StoredOnlyGrows ==
  [][/\ IsPrefix(durable.baselines, durable'.baselines)
     /\ IsPrefix(durable.verifications, durable'.verifications)
     /\ durable.critical <= durable'.critical
     /\ durable.summary => durable'.summary]_durable

\* The run ends: the sampler it waits for is told to stop before the join, and
\* a failed step leaves the function (run_profile_session).
RunEnds == <>(phase \in Ended \cup {"idle"})

(***************************************************************************)
(* What they rest on.                                                       *)
(***************************************************************************)
TypeOK ==
  /\ phase \in {"baseline", "run", "after", "verify", "join", "final", "ok", "failed",
               "idle", "command"}
  /\ saving \in {"no", "open", "fill", "ivopen", "ivfill"}
  /\ rec \in SessionRecord /\ durable \in SessionRecord
  /\ sess \in SessionRecord \cup {NoFile, Torn}
  /\ cells \in [1..Regions -> {0, 1}]
  /\ commands \in Nat

\* What the run has done when it is at a step.
DoneInOrder ==
  /\ phase \in {"baseline", "run"} => ~ rec.summary
  /\ phase \in {"baseline", "run", "after"} => rec.verifications = <<>> /\ rec.critical = 0
  /\ phase \in {"run", "after", "verify", "join", "final", "ok"} =>
       Len(rec.baselines) = Regions
  /\ phase \in {"after", "verify", "join", "final", "ok"} => rec.summary
  /\ phase \in {"join", "final", "ok"} => Len(rec.verifications) = Regions
  /\ phase \in {"final", "ok"} => sampler # "running"

\* Where saves happen, and what a save has written when it is past the first file.
SavedInOrder ==
  /\ saving # "no" => phase \in {"baseline", "verify", "final", "command"}
  /\ phase \in {"final", "command"} => saving # "no"
  /\ saving \in {"ivopen", "ivfill"} => sess = Stored(rec)
  /\ phase = "ok" => sess = Stored(rec) /\ ivals = rec.intervals

\* A later record has all of an earlier one.
Extends(later, earlier) ==
  /\ IsPrefix(earlier.baselines, later.baselines)
  /\ IsPrefix(earlier.verifications, later.verifications)
  /\ earlier.critical <= later.critical
  /\ earlier.summary => later.summary

\* A session.json that loads is the last one written in full, and the record in
\* memory has all of it.
RecordExtends ==
  /\ Readable(sess) => sess = durable
  /\ phase # "idle" => Extends(rec, durable)

AllBaselines ==
  sess \in SessionRecord /\ Len(sess.baselines) = Regions /\ ~ sess.summary

\* From the last capture to the verifications the baselines are on disk, whether
\* the process lives or not.
BaselinesStored ==
  /\ phase = "baseline" /\ saving \in {"no", "ivopen", "ivfill"} /\ rec.baselines # <<>> =>
       sess = Stored(rec)
  /\ phase \in {"run", "after"} /\ Regions > 0 => AllBaselines
  /\ phase = "idle" /\ killedIn \in {"run", "after"} /\ commands = 0 /\ Regions > 0 =>
       AllBaselines
  /\ phase = "command" => commands > 0
  /\ killedIn # "nowhere" => phase \in {"idle", "command"}

\* After the workload the contents stay, and so do the verifications.
VerifiedTruly ==
  phase \in {"verify", "join", "final", "ok"} =>
    /\ \A k \in 1..Len(rec.verifications) : rec.verifications[k] <=> Matches(rec.baselines[k])
    /\ rec.critical =
         Cardinality({k \in 1..Len(rec.verifications) : ~ rec.verifications[k]})

SessionInv ==
  /\ TypeOK /\ DoneInOrder /\ SavedInOrder /\ RecordExtends /\ BaselinesStored
  /\ VerifiedTruly

\* ENDURANCE_TEST.md:235-236: the checkpoint is saved "immediately so the
\* baseline survives even if the run is interrupted". A save_session that is
\* interrupted between the truncation and the write of session.json leaves
\* none, and there may be no checkpoint yet.
BaselineSurvives ==
  (phase = "idle" /\ durable.baselines # <<>>) =>
    \/ Readable(sess) /\ IsPrefix(durable.baselines, sess.baselines)
    \/ Readable(checkpoint) /\ IsPrefix(durable.baselines, checkpoint)
=============================================================================
