--------------------------- MODULE SessionRunProofs ---------------------------
(***************************************************************************)
(* Theorems about SessionRun, for any number of regions, intervals and      *)
(* commands. SessionInv has a part for the order of the run's steps, one for *)
(* the order of its saves, one that compares the record in memory with what *)
(* is on disk, and one each for the baselines and the verifications.        *)
(***************************************************************************)
EXTENDS SessionRun, SequenceTheorems, FiniteSetTheorems, TLAPS

BaselineType == [region : 0..Regions, sum : Sums]

(***************************************************************************)
(* Records.                                                                 *)
(***************************************************************************)
\* What is captured is a baseline.
LEMMA BaselineIsBaseline ==
  ASSUME TypeOK, NEW k \in 0..Regions
  PROVE  Baseline(k) \in BaselineType
<1>1. Covered(k) \subseteq 1..Regions
  BY SessionAssumption DEF Covered
<1>2. Checksum(k) \in [Covered(k) -> {0, 1}]
  BY <1>1 DEF Checksum, TypeOK
<1> QED  BY <1>2 DEF Baseline, BaselineType, Sums

\* A sequence is a prefix of itself with one more element.
LEMMA AppendExtends ==
  ASSUME NEW S, NEW s \in Seq(S), NEW e \in S
  PROVE  IsPrefix(s, Append(s, e)) /\ IsPrefix(s, s)
<1>1. /\ Append(s, e) \in Seq(S) /\ Len(Append(s, e)) = Len(s) + 1
      /\ \A i \in 1..Len(s) : Append(s, e)[i] = s[i]
  BY AppendProperties
<1>2. Len(s) \in Nat
  OBVIOUS
<1>3. /\ SubSeq(s, 1, Len(s)) \in Seq(S) /\ SubSeq(Append(s, e), 1, Len(s)) \in Seq(S)
      /\ Len(SubSeq(s, 1, Len(s))) = Len(s) /\ Len(SubSeq(Append(s, e), 1, Len(s))) = Len(s)
      /\ \A i \in 1..Len(s) : /\ SubSeq(s, 1, Len(s))[i] = s[i]
                              /\ SubSeq(Append(s, e), 1, Len(s))[i] = Append(s, e)[i]
  BY <1>1, <1>2
<1>4. SubSeq(s, 1, Len(s)) = SubSeq(Append(s, e), 1, Len(s))
  BY <1>1, <1>3, SeqEqual
<1> QED  BY <1>1, <1>2, <1>4 DEF IsPrefix

\* A prefix of a prefix is a prefix.
LEMMA PrefixTransitive ==
  ASSUME NEW S, NEW r \in Seq(S), NEW s \in Seq(S), NEW t \in Seq(S),
         IsPrefix(r, s), IsPrefix(s, t)
  PROVE  IsPrefix(r, t)
<1>1. /\ Len(r) \in Nat /\ Len(s) \in Nat /\ Len(t) \in Nat
      /\ Len(r) <= Len(s) /\ Len(s) <= Len(t)
      /\ SubSeq(r, 1, Len(r)) = SubSeq(s, 1, Len(r))
      /\ SubSeq(s, 1, Len(s)) = SubSeq(t, 1, Len(s))
  BY DEF IsPrefix
<1>2. \A i \in 1..Len(s) : SubSeq(s, 1, Len(s))[i] = s[i] /\ SubSeq(t, 1, Len(s))[i] = t[i]
  BY <1>1
<1>3. \A i \in 1..Len(r) : s[i] = t[i]
  BY <1>1, <1>2
<1>4. /\ SubSeq(s, 1, Len(r)) \in Seq(S) /\ SubSeq(t, 1, Len(r)) \in Seq(S)
      /\ Len(SubSeq(s, 1, Len(r))) = Len(r) /\ Len(SubSeq(t, 1, Len(r))) = Len(r)
      /\ \A i \in 1..Len(r) : /\ SubSeq(s, 1, Len(r))[i] = s[i]
                              /\ SubSeq(t, 1, Len(r))[i] = t[i]
  BY <1>1
<1>5. SubSeq(s, 1, Len(r)) = SubSeq(t, 1, Len(r))
  BY <1>3, <1>4, SeqEqual
<1> QED  BY <1>1, <1>5 DEF IsPrefix

\* A record with one more baseline has all that it had before.
LEMMA BaselineAdded ==
  ASSUME NEW r \in SessionRecord, NEW b \in BaselineType
  PROVE  LET new == [r EXCEPT !.baselines = Append(@, b)]
         IN /\ new \in SessionRecord
            /\ \A d \in SessionRecord : Extends(r, d) => Extends(new, d)
<1> DEFINE new == [r EXCEPT !.baselines = Append(@, b)]
<1>1. r.baselines \in Seq(BaselineType) /\ Append(r.baselines, b) \in Seq(BaselineType)
  BY DEF SessionRecord, BaselineType
<1>2. /\ new.baselines = Append(r.baselines, b) /\ new.verifications = r.verifications
      /\ new.critical = r.critical /\ new.summary = r.summary
  BY DEF SessionRecord
<1>3. new \in SessionRecord
  BY <1>1 DEF SessionRecord, BaselineType
<1>4. ASSUME NEW d \in SessionRecord, Extends(r, d) PROVE Extends(new, d)
  <2>1. d.baselines \in Seq(BaselineType)
    BY DEF SessionRecord, BaselineType
  <2>2. IsPrefix(r.baselines, Append(r.baselines, b)) /\ IsPrefix(d.baselines, r.baselines)
    BY <1>1, <1>4, AppendExtends DEF Extends
  <2>3. IsPrefix(d.baselines, Append(r.baselines, b))
    BY <1>1, <2>1, <2>2, PrefixTransitive
  <2> HIDE DEF new
  <2> QED  BY <1>2, <1>4, <2>3 DEF Extends
<1> QED  BY <1>3, <1>4

\* So does a record with one more verification and perhaps one more note.
LEMMA VerificationAdded ==
  ASSUME NEW r \in SessionRecord, NEW v \in BOOLEAN, NEW n \in Nat, n >= r.critical
  PROVE  LET new == [r EXCEPT !.verifications = Append(@, v), !.critical = n]
         IN /\ new \in SessionRecord
            /\ \A d \in SessionRecord : Extends(r, d) => Extends(new, d)
<1> DEFINE new == [r EXCEPT !.verifications = Append(@, v), !.critical = n]
<1>1. r.verifications \in Seq(BOOLEAN) /\ Append(r.verifications, v) \in Seq(BOOLEAN)
  BY DEF SessionRecord
<1>2. /\ new.verifications = Append(r.verifications, v) /\ new.baselines = r.baselines
      /\ new.critical = n /\ new.summary = r.summary
  BY DEF SessionRecord
<1>3. new \in SessionRecord
  BY <1>1 DEF SessionRecord
<1>4. ASSUME NEW d \in SessionRecord, Extends(r, d) PROVE Extends(new, d)
  <2>1. d.verifications \in Seq(BOOLEAN) /\ d.critical \in Nat /\ r.critical \in Nat
    BY DEF SessionRecord
  <2>2. /\ IsPrefix(r.verifications, Append(r.verifications, v))
        /\ IsPrefix(d.verifications, r.verifications)
    BY <1>1, <1>4, AppendExtends DEF Extends
  <2>3. IsPrefix(d.verifications, Append(r.verifications, v))
    BY <1>1, <2>1, <2>2, PrefixTransitive
  <2>4. d.critical <= n
    BY <1>4, <2>1 DEF Extends
  <2> HIDE DEF new
  <2> QED  BY <1>2, <1>4, <2>3, <2>4 DEF Extends
<1> QED  BY <1>3, <1>4

\* Every record extends itself and the part of it that is stored.
LEMMA ExtendsItself ==
  ASSUME NEW r \in SessionRecord
  PROVE  Extends(r, r) /\ Extends(r, Stored(r)) /\ Stored(r) \in SessionRecord
<1>1. /\ r.baselines \in Seq(BaselineType) /\ r.verifications \in Seq(BOOLEAN)
      /\ r.critical \in Nat
  BY DEF SessionRecord, BaselineType
<1>2. \A s \in Seq(BaselineType) : IsPrefix(s, s)
  BY DEF IsPrefix
<1>3. \A s \in Seq(BOOLEAN) : IsPrefix(s, s)
  BY DEF IsPrefix
<1>4. Stored(r) \in SessionRecord
  BY DEF Stored, SessionRecord
<1> QED  BY <1>1, <1>2, <1>3, <1>4 DEF Extends, Stored, SessionRecord

\* Nothing is a part of every record.
LEMMA BlankIsLeast ==
  Blank \in SessionRecord /\ Extends(Blank, Blank)
<1>1. Blank \in SessionRecord
  BY DEF Blank, SessionRecord
<1> QED  BY <1>1, ExtendsItself

(***************************************************************************)
(* The invariant.                                                           *)
(***************************************************************************)
\* The initial states satisfy the invariant.
LEMMA SessionInitInvariant == Init => SessionInv
<1> SUFFICES ASSUME Init PROVE SessionInv
  OBVIOUS
<1> USE SessionAssumption DEF Init
<1>1. TypeOK
  BY BlankIsLeast DEF TypeOK
<1>2. DoneInOrder
  BY DEF DoneInOrder, Blank
<1>3. SavedInOrder /\ BaselinesStored
  BY DEF SavedInOrder, BaselinesStored, Blank
<1>4. RecordExtends
  BY BlankIsLeast DEF RecordExtends, Readable
<1>5. VerifiedTruly
  BY DEF VerifiedTruly
<1> QED  BY <1>1, <1>2, <1>3, <1>4, <1>5 DEF SessionInv

\* A result of a comparison is a Boolean.
LEMMA MatchIsBoolean == \A b : Matches(b) \in BOOLEAN
  BY DEF Matches

\* The fields of a record.
LEMMA RecordFields ==
  ASSUME NEW r \in SessionRecord
  PROVE  /\ r.baselines \in Seq(BaselineType) /\ Len(r.baselines) \in Nat
         /\ r.verifications \in Seq(BOOLEAN) /\ Len(r.verifications) \in Nat
         /\ r.critical \in Nat
<1>1. r.baselines \in Seq(BaselineType) /\ r.verifications \in Seq(BOOLEAN) /\ r.critical \in Nat
  BY DEF SessionRecord, BaselineType
<1> QED  BY <1>1

\* A region's verification is one more element, with a note if it does not match.
LEMMA VerifyRecord ==
  ASSUME TypeOK, NEW v \in BOOLEAN
  PROVE  LET n == IF v THEN rec.critical ELSE rec.critical + 1
         IN n \in Nat /\ n >= rec.critical
<1>1. rec.critical \in Nat
  BY RecordFields DEF TypeOK
<1> QED  BY <1>1

\* Every step keeps the types.
LEMMA TypeStep == SessionInv /\ [Next]_vars => TypeOK'
<1> SUFFICES ASSUME SessionInv, [Next]_vars PROVE TypeOK'
  OBVIOUS
<1>0. TypeOK
  BY DEF SessionInv
<1> USE SessionAssumption, <1>0 DEF files
<1>1. CASE CaptureBaseline
  <2>1. Len(rec.baselines) + 1 \in 0..Regions
    <3>1. Len(rec.baselines) \in Nat /\ Len(rec.baselines) < Regions
      BY <1>1, RecordFields DEF CaptureBaseline, TypeOK
    <3> QED  BY <3>1
  <2>2. Baseline(Len(rec.baselines) + 1) \in BaselineType
    BY <2>1, BaselineIsBaseline
  <2>3. [rec EXCEPT !.baselines = Append(@, Baseline(Len(@) + 1))] \in SessionRecord
    BY <2>2, BaselineAdded DEF TypeOK
  <2> QED  BY <1>1, <2>3 DEF CaptureBaseline, Fail, TypeOK
<1>2. CASE BeginRun \/ HealthAfter \/ SignalSampler
  BY <1>2 DEF BeginRun, HealthAfter, SignalSampler, Fail, TypeOK
<1>3. CASE EndWorkload
  <2>1. \A n \in 0..MaxIntervals :
          [rec EXCEPT !.summary = TRUE, !.intervals = n] \in SessionRecord
    <3> TAKE n \in 0..MaxIntervals
    <3>1. n \in Nat
      OBVIOUS
    <3> QED  BY <3>1 DEF TypeOK, SessionRecord
  <2> QED  BY <1>3, <2>1 DEF EndWorkload, Fail, TypeOK
<1>4. CASE VerifyBaseline
  <2> DEFINE same == Matches(rec.baselines[Len(rec.verifications) + 1])
             r    == [rec EXCEPT !.verifications = Append(@, same),
                                 !.critical = IF same THEN @ ELSE @ + 1]
  <2>1. same \in BOOLEAN
    BY MatchIsBoolean
  <2> HIDE DEF same
  <2>2. Append(rec.verifications, same) \in Seq(BOOLEAN)
    BY <2>1 DEF TypeOK, SessionRecord
  <2>3. (IF same THEN rec.critical ELSE rec.critical + 1) \in Nat
    BY DEF TypeOK, SessionRecord
  <2>4. r \in SessionRecord
    BY <2>2, <2>3 DEF TypeOK, SessionRecord
  <2> QED  BY <1>4, <2>4 DEF VerifyBaseline, Fail, TypeOK, same
<1>5. CASE JoinSampler
  <2>1. [rec EXCEPT !.diagnostics = (sampler = "reported")] \in SessionRecord
    <3>1. (sampler = "reported") \in BOOLEAN
      OBVIOUS
    <3> QED  BY <3>1 DEF TypeOK, SessionRecord
  <2> QED  BY <1>5, <2>1 DEF JoinSampler, TypeOK
<1>6. CASE Save
  <2>1. Stored(rec) \in SessionRecord
    BY ExtendsItself DEF TypeOK
  <2> QED  BY <1>6, <2>1 DEF Save, OpenSession, FillSession, OpenIntervals, FillIntervals,
                             AfterSave, TypeOK
<1>7. CASE SaveFails \/ SaveCheckpoint \/ SamplerEnds \/ SamplerBreaks
  BY <1>7 DEF SaveFails, SaveCheckpoint, SamplerEnds, SamplerBreaks, TypeOK
<1>8. ASSUME NEW r \in 1..Regions, Overwrite(r) PROVE TypeOK'
  BY <1>8 DEF Overwrite, TypeOK
<1>9. CASE Exit \/ Kill
  BY <1>9, BlankIsLeast DEF Exit, Kill, Forget, TypeOK
<1>10. CASE IntegrityCapture
  <2>1. sess \in SessionRecord /\ Baseline(0) \in BaselineType
    BY <1>10, BaselineIsBaseline DEF IntegrityCapture, Command, Readable, TypeOK
  <2>2. [sess EXCEPT !.baselines = Append(@, Baseline(0))] \in SessionRecord
    BY <2>1, BaselineAdded
  <2> QED  BY <1>10, <2>2 DEF IntegrityCapture, Command, TypeOK
<1>11. CASE IntegrityVerify
  <2> DEFINE same == Matches(Last(sess.baselines))
  <2>1. same \in BOOLEAN
    BY MatchIsBoolean
  <2> HIDE DEF same
  <2>2. sess \in SessionRecord
    BY <1>11 DEF IntegrityVerify, Readable, TypeOK
  <2>3. [sess EXCEPT !.verifications = Append(@, same)] \in SessionRecord
    <3>1. Append(sess.verifications, same) \in Seq(BOOLEAN)
      BY <2>1, <2>2 DEF SessionRecord
    <3> QED  BY <2>2, <3>1 DEF SessionRecord
  <2> QED  BY <1>11, <2>3 DEF IntegrityVerify, Command, TypeOK, same
<1>12. CASE UNCHANGED vars
  BY <1>12 DEF vars, TypeOK
<1> QED
  BY <1>1, <1>2, <1>3, <1>4, <1>5, <1>6, <1>7, <1>8, <1>9, <1>10, <1>11, <1>12
     DEF Next, RunStep

\* The diagnostics are a field of their own.
LEMMA RecordAfter ==
  ASSUME TypeOK
  PROVE  \A d : LET r == [rec EXCEPT !.diagnostics = d]
                IN /\ r.baselines = rec.baselines /\ r.summary = rec.summary
                   /\ r.verifications = rec.verifications /\ r.critical = rec.critical
  BY DEF TypeOK, SessionRecord

\* Every step keeps the order of the steps.
LEMMA DoneStep == SessionInv /\ [Next]_vars => DoneInOrder'
<1> SUFFICES ASSUME SessionInv, [Next]_vars PROVE DoneInOrder'
  OBVIOUS
<1>0. TypeOK /\ DoneInOrder /\ SavedInOrder
  BY DEF SessionInv
<1> USE <1>0 DEF files, At, Fail, DoneInOrder
<1>1. CASE CaptureBaseline
  <2>1. rec'.verifications = rec.verifications /\ rec'.critical = rec.critical
        /\ rec'.summary = rec.summary
    BY <1>1 DEF CaptureBaseline, TypeOK, SessionRecord
  <2> QED  BY <1>1, <2>1 DEF CaptureBaseline
<1>2. CASE BeginRun \/ HealthAfter \/ SignalSampler
  BY <1>2 DEF BeginRun, HealthAfter, SignalSampler
<1>3. CASE EndWorkload
  <2>1. /\ rec'.baselines = rec.baselines /\ rec'.verifications = rec.verifications
        /\ rec'.critical = rec.critical
        /\ phase' = "after" => rec'.summary
    BY <1>3 DEF EndWorkload, TypeOK, SessionRecord
  <2> QED  BY <1>3, <2>1 DEF EndWorkload
<1>4. CASE VerifyBaseline
  <2>1. rec'.baselines = rec.baselines /\ rec'.summary = rec.summary
    BY <1>4 DEF VerifyBaseline, TypeOK, SessionRecord
  <2> QED  BY <1>4, <2>1 DEF VerifyBaseline
<1>5. CASE JoinSampler
  BY <1>5, RecordAfter DEF JoinSampler
<1>6. CASE Save
  BY <1>6 DEF Save, OpenSession, FillSession, OpenIntervals, FillIntervals, AfterSave,
              SavedInOrder
<1>7. CASE SaveFails \/ SaveCheckpoint
  BY <1>7 DEF SaveFails, SaveCheckpoint
<1>8. CASE SamplerEnds \/ SamplerBreaks
  BY <1>8 DEF SamplerEnds, SamplerBreaks
<1>9. CASE (\E r \in 1..Regions : Overwrite(r)) \/ Exit \/ Kill
  BY <1>9 DEF Overwrite, Exit, Kill, Forget
<1>10. CASE IntegrityCapture \/ IntegrityVerify
  BY <1>10 DEF IntegrityCapture, IntegrityVerify, Command
<1>11. CASE UNCHANGED vars
  BY <1>11 DEF vars
<1> QED
  BY <1>1, <1>2, <1>3, <1>4, <1>5, <1>6, <1>7, <1>8, <1>9, <1>10, <1>11 DEF Next, RunStep

\* Every step keeps the order of the saves.
LEMMA SavedStep == SessionInv /\ [Next]_vars => SavedInOrder'
<1> SUFFICES ASSUME SessionInv, [Next]_vars PROVE SavedInOrder'
  OBVIOUS
<1>0. TypeOK /\ SavedInOrder
  BY DEF SessionInv
<1> USE <1>0 DEF files, At, Fail, SavedInOrder
<1>1. CASE CaptureBaseline \/ BeginRun \/ EndWorkload \/ HealthAfter
  BY <1>1 DEF CaptureBaseline, BeginRun, EndWorkload, HealthAfter
<1>2. CASE VerifyBaseline \/ SignalSampler \/ JoinSampler
  BY <1>2 DEF VerifyBaseline, SignalSampler, JoinSampler
<1>3. CASE OpenSession \/ FillSession
  BY <1>3 DEF OpenSession, FillSession
<1>4. CASE OpenIntervals
  BY <1>4 DEF OpenIntervals
<1>5. CASE FillIntervals
  BY <1>5 DEF FillIntervals, AfterSave, TypeOK
<1>6. CASE SaveFails \/ SaveCheckpoint \/ SamplerEnds \/ SamplerBreaks
  BY <1>6 DEF SaveFails, SaveCheckpoint, SamplerEnds, SamplerBreaks
<1>7. CASE (\E r \in 1..Regions : Overwrite(r)) \/ Exit \/ Kill
  BY <1>7 DEF Overwrite, Exit, Kill, Forget
<1>8. CASE IntegrityCapture \/ IntegrityVerify
  BY <1>8 DEF IntegrityCapture, IntegrityVerify, Command
<1>9. CASE UNCHANGED vars
  BY <1>9 DEF vars
<1> QED
  BY <1>1, <1>2, <1>3, <1>4, <1>5, <1>6, <1>7, <1>8, <1>9 DEF Next, RunStep, Save

\* Every step keeps the record ahead of the disk.
LEMMA ExtendsStep == SessionInv /\ [Next]_vars => RecordExtends'
<1> SUFFICES ASSUME SessionInv, [Next]_vars PROVE RecordExtends'
  OBVIOUS
<1>0. TypeOK /\ SavedInOrder /\ RecordExtends
  BY DEF SessionInv
<1> USE <1>0 DEF files, At, Fail, RecordExtends
<1>1. CASE CaptureBaseline
  <2>1. CASE UNCHANGED rec
    BY <1>1, <2>1 DEF CaptureBaseline
  <2>2. CASE rec' = [rec EXCEPT !.baselines = Append(@, Baseline(Len(@) + 1))]
    <3>1. Baseline(Len(rec.baselines) + 1) \in BaselineType
      <4>1. Len(rec.baselines) + 1 \in 0..Regions
        <5>1. Len(rec.baselines) \in Nat /\ Len(rec.baselines) < Regions
          BY <1>1, RecordFields DEF CaptureBaseline, TypeOK
        <5> QED  BY <5>1, SessionAssumption
      <4> QED  BY <4>1, BaselineIsBaseline
    <3>2. Extends(rec, durable)
      BY <1>1 DEF CaptureBaseline
    <3>3. Extends(rec', durable)
      BY <2>2, <3>1, <3>2, BaselineAdded DEF TypeOK
    <3> QED  BY <1>1, <3>3 DEF CaptureBaseline, Readable
  <2> QED  BY <1>1, <2>1, <2>2 DEF CaptureBaseline
<1>2. CASE BeginRun \/ HealthAfter \/ SignalSampler
  BY <1>2 DEF BeginRun, HealthAfter, SignalSampler, Readable
<1>3. CASE EndWorkload
  <2>1. /\ rec'.baselines = rec.baselines /\ rec'.verifications = rec.verifications
        /\ rec'.critical = rec.critical
        /\ rec.summary => rec'.summary
    BY <1>3 DEF EndWorkload, TypeOK, SessionRecord
  <2> QED  BY <1>3, <2>1 DEF EndWorkload, Extends, Readable
<1>4. CASE VerifyBaseline
  <2> DEFINE same == Matches(rec.baselines[Len(rec.verifications) + 1])
             n    == IF same THEN rec.critical ELSE rec.critical + 1
  <2>1. CASE UNCHANGED rec
    BY <1>4, <2>1 DEF VerifyBaseline, Readable
  <2>2. CASE rec' = [rec EXCEPT !.verifications = Append(@, same),
                                !.critical = IF same THEN @ ELSE @ + 1]
    <3>1. same \in BOOLEAN
      BY MatchIsBoolean
    <3> HIDE DEF same
    <3>2. n \in Nat /\ n >= rec.critical
      BY <3>1, VerifyRecord
    <3>3. rec' = [rec EXCEPT !.verifications = Append(@, same), !.critical = n]
      BY <2>2 DEF TypeOK, SessionRecord
    <3>4. Extends(rec, durable)
      BY <1>4 DEF VerifyBaseline
    <3> HIDE DEF n
    <3>5. Extends(rec', durable)
      BY <3>1, <3>2, <3>3, <3>4, VerificationAdded DEF TypeOK
    <3> QED  BY <1>4, <3>5 DEF VerifyBaseline, Readable
  <2> QED  BY <1>4, <2>1, <2>2 DEF VerifyBaseline
<1>5. CASE JoinSampler
  BY <1>5, RecordAfter DEF JoinSampler, Extends, Readable
<1>6. CASE OpenSession
  BY <1>6 DEF OpenSession, Readable
<1>7. CASE FillSession
  <2>1. Extends(rec, Stored(rec))
    BY ExtendsItself DEF TypeOK
  <2> QED  BY <1>7, <2>1 DEF FillSession
<1>8. CASE OpenIntervals \/ FillIntervals
  BY <1>8 DEF OpenIntervals, FillIntervals, AfterSave, Readable
<1>9. CASE SaveFails \/ SaveCheckpoint \/ SamplerEnds \/ SamplerBreaks
  BY <1>9 DEF SaveFails, SaveCheckpoint, SamplerEnds, SamplerBreaks, SavedInOrder,
              Readable
<1>10. CASE (\E r \in 1..Regions : Overwrite(r)) \/ Exit \/ Kill
  BY <1>10 DEF Overwrite, Exit, Kill, Forget, Readable
<1>11. CASE IntegrityCapture
  <2>1. sess \in SessionRecord /\ sess = durable
    BY <1>11 DEF IntegrityCapture, Command, Readable, TypeOK
  <2>2. Baseline(0) \in BaselineType
    BY BaselineIsBaseline, SessionAssumption
  <2>3. Extends(sess, durable)
    BY <2>1, ExtendsItself
  <2>4. Extends([sess EXCEPT !.baselines = Append(@, Baseline(0))], durable)
    BY <2>1, <2>2, <2>3, BaselineAdded
  <2> QED  BY <1>11, <2>1, <2>4 DEF IntegrityCapture, Command, Readable
<1>12. CASE IntegrityVerify
  <2> DEFINE same == Matches(Last(sess.baselines))
  <2>1. same \in BOOLEAN
    BY MatchIsBoolean
  <2>2. sess \in SessionRecord /\ sess = durable
    BY <1>12 DEF IntegrityVerify, Readable, TypeOK
  <2>3. rec' = [sess EXCEPT !.verifications = Append(@, same)]
    BY <1>12 DEF IntegrityVerify, Command
  <2> HIDE DEF same
  <2>4. [sess EXCEPT !.verifications = Append(@, same)]
          = [sess EXCEPT !.verifications = Append(@, same), !.critical = sess.critical]
    BY <2>2 DEF SessionRecord
  <2>5. sess.critical \in Nat /\ Extends(sess, durable)
    BY <2>2, ExtendsItself DEF SessionRecord
  <2>6. Extends(rec', durable)
    <3>1. sess.critical >= sess.critical
      BY <2>5
    <3>2. \A d \in SessionRecord : Extends(sess, d) =>
            Extends([sess EXCEPT !.verifications = Append(@, same), !.critical = sess.critical], d)
      BY <2>1, <2>2, <2>5, <3>1, VerificationAdded
    <3>3. durable \in SessionRecord
      BY <2>2
    <3> QED  BY <2>3, <2>4, <2>5, <3>2, <3>3
  <2> QED  BY <1>12, <2>2, <2>6 DEF IntegrityVerify, Command, Readable
<1>13. CASE UNCHANGED vars
  BY <1>13 DEF vars, Readable
<1> QED
  BY <1>1, <1>2, <1>3, <1>4, <1>5, <1>6, <1>7, <1>8, <1>9, <1>10, <1>11, <1>12, <1>13
     DEF Next, RunStep, Save

\* Every step keeps the baselines on disk.
LEMMA BaselineStep == SessionInv /\ [Next]_vars => BaselinesStored'
<1> SUFFICES ASSUME SessionInv, [Next]_vars PROVE BaselinesStored'
  OBVIOUS
<1>0. TypeOK /\ DoneInOrder /\ SavedInOrder /\ BaselinesStored
  BY DEF SessionInv
<1> USE <1>0 DEF files, At, Fail, BaselinesStored, AllBaselines
<1>1. CASE CaptureBaseline
  BY <1>1 DEF CaptureBaseline
<1>2. CASE BeginRun
  <2>1. ASSUME Regions > 0 PROVE AllBaselines
    <3>1. rec.baselines # <<>> /\ phase = "baseline" /\ saving = "no"
          /\ Len(rec.baselines) = Regions /\ ~ rec.summary
      BY <1>2, <2>1 DEF BeginRun, DoneInOrder
    <3>2. sess = Stored(rec)
      BY <3>1
    <3> QED  BY <3>1, <3>2, ExtendsItself DEF Stored, TypeOK, SessionRecord
  <2> QED  BY <1>2, <2>1 DEF BeginRun
<1>3. CASE EndWorkload \/ HealthAfter
  BY <1>3 DEF EndWorkload, HealthAfter
<1>4. CASE VerifyBaseline \/ SignalSampler \/ JoinSampler
  BY <1>4 DEF VerifyBaseline, SignalSampler, JoinSampler
<1>5. CASE OpenSession
  BY <1>5 DEF OpenSession, SavedInOrder
<1>6. CASE FillSession
  BY <1>6 DEF FillSession, SavedInOrder
<1>7. CASE OpenIntervals \/ FillIntervals
  BY <1>7 DEF OpenIntervals, FillIntervals, AfterSave, SavedInOrder
<1>8. CASE SaveFails \/ SaveCheckpoint \/ SamplerEnds \/ SamplerBreaks
  BY <1>8 DEF SaveFails, SaveCheckpoint, SamplerEnds, SamplerBreaks, SavedInOrder, TypeOK
<1>9. CASE (\E r \in 1..Regions : Overwrite(r)) \/ Exit \/ Kill
  BY <1>9 DEF Overwrite, Exit, Kill, Forget, Ended, TypeOK, SavedInOrder
<1>10. CASE IntegrityCapture \/ IntegrityVerify
  BY <1>10 DEF IntegrityCapture, IntegrityVerify, Command, TypeOK
<1>11. CASE UNCHANGED vars
  BY <1>11 DEF vars
<1> QED
  BY <1>1, <1>2, <1>3, <1>4, <1>5, <1>6, <1>7, <1>8, <1>9, <1>10, <1>11
     DEF Next, RunStep, Save

\* One verification more: it says what its region holds, and its note is counted.
LEMMA VerifyKeeps ==
  ASSUME TypeOK, DoneInOrder, VerifiedTruly, VerifyBaseline, rec' # rec
  PROVE  VerifiedTruly'
<1> DEFINE k    == Len(rec.verifications) + 1
           same == Matches(rec.baselines[k])
           bad  == {i \in 1..Len(rec.verifications) : ~ rec.verifications[i]}
<1>1. /\ phase = "verify" /\ phase' = "verify" /\ cells' = cells
      /\ rec' = [rec EXCEPT !.verifications = Append(@, same),
                            !.critical = IF same THEN @ ELSE @ + 1]
  BY DEF VerifyBaseline, Fail, At
<1>2. same \in BOOLEAN
  BY MatchIsBoolean
<1>3. rec.verifications \in Seq(BOOLEAN) /\ rec.critical \in Nat /\ k \in Nat
  BY DEF TypeOK, SessionRecord
<1>4. /\ rec'.verifications = Append(rec.verifications, same)
      /\ rec'.baselines = rec.baselines
      /\ rec'.critical = IF same THEN rec.critical ELSE rec.critical + 1
  BY <1>1 DEF TypeOK, SessionRecord
<1>5. \A b : Matches(b)' <=> Matches(b)
  BY <1>1 DEF Matches, Checksum
<1>6. /\ \A i \in 1..Len(rec.verifications) : rec.verifications[i] <=> Matches(rec.baselines[i])
      /\ rec.critical = Cardinality(bad)
  BY <1>1 DEF VerifiedTruly
<1>7. /\ Len(rec'.verifications) = k
      /\ rec'.verifications[k] = same
      /\ \A i \in 1..Len(rec.verifications) : rec'.verifications[i] = rec.verifications[i]
  BY <1>2, <1>3, <1>4, AppendProperties
<1>8. \A i \in 1..k : rec'.verifications[i] <=> Matches(rec'.baselines[i])
  <2> TAKE i \in 1..k
  <2>1. i = k \/ i \in 1..Len(rec.verifications)
    BY <1>3
  <2>2. CASE i = k
    BY <1>4, <1>7, <2>2, Zenon
  <2>3. CASE i \in 1..Len(rec.verifications)
    BY <1>4, <1>6, <1>7, <2>3, Zenon
  <2> QED  BY <2>1, <2>2, <2>3
<1>9. IsFiniteSet(bad) /\ k \notin bad
  <2>1. IsFiniteSet(1..Len(rec.verifications))
    BY <1>3, FS_Interval
  <2>2. bad \subseteq 1..Len(rec.verifications)
    OBVIOUS
  <2>3. IsFiniteSet(bad)
    BY <2>1, <2>2, FS_Subset
  <2> QED  BY <1>3, <2>3
<1>10. {i \in 1..k : ~ rec'.verifications[i]} = IF same THEN bad ELSE bad \cup {k}
  <2>1. 1..k = (1..Len(rec.verifications)) \cup {k}
    BY <1>3
  <2> HIDE DEF same
  <2> HIDE DEF k
  <2>2. CASE same
    BY <1>7, <2>1, <2>2, Zenon
  <2>3. CASE ~ same
    BY <1>7, <2>1, <2>3, Zenon
  <2> QED  BY <2>2, <2>3
<1>11. rec'.critical = Cardinality({i \in 1..k : ~ rec'.verifications[i]})
  <2>1. Cardinality(bad \cup {k}) = Cardinality(bad) + 1
    BY <1>9, FS_AddElement
  <2> HIDE DEF bad, k, same
  <2> QED  BY <1>4, <1>6, <1>10, <2>1
<1> QED  BY <1>5, <1>7, <1>8, <1>11 DEF VerifiedTruly

\* Every step keeps the verifications true.
LEMMA VerifiedStep == SessionInv /\ [Next]_vars => VerifiedTruly'
<1> SUFFICES ASSUME SessionInv, [Next]_vars PROVE VerifiedTruly'
  OBVIOUS
<1>0. TypeOK /\ DoneInOrder /\ SavedInOrder /\ VerifiedTruly
  BY DEF SessionInv
<1> DEFINE Late == {"verify", "join", "final", "ok"}
<1>1. ASSUME phase \in Late, UNCHANGED cells,
             rec'.baselines = rec.baselines, rec'.verifications = rec.verifications,
             rec'.critical = rec.critical
      PROVE  VerifiedTruly'
  <2>1. \A b : Matches(b)' <=> Matches(b)
    BY <1>1 DEF Matches, Checksum
  <2>2. \A k \in 1..Len(rec.verifications) : rec.verifications[k] <=> Matches(rec.baselines[k])
    BY <1>0, <1>1 DEF VerifiedTruly
  <2>3. rec.critical = Cardinality({k \in 1..Len(rec.verifications) : ~ rec.verifications[k]})
    BY <1>0, <1>1 DEF VerifiedTruly
  <2> QED  BY <1>1, <2>1, <2>2, <2>3, Zenon DEF VerifiedTruly
<1>2. ASSUME phase' \notin Late PROVE VerifiedTruly'
  BY <1>2 DEF VerifiedTruly
<1>3. CASE CaptureBaseline \/ BeginRun \/ EndWorkload
  BY <1>2, <1>3 DEF CaptureBaseline, BeginRun, EndWorkload, At, Fail
<1>4. CASE HealthAfter
  <2>1. CASE phase' = "verify"
    <3>1. rec'.verifications = <<>> /\ rec'.critical = 0
      BY <1>0, <1>4, <2>1 DEF HealthAfter, At, DoneInOrder, Fail
    <3>2. {k \in 1..Len(rec'.verifications) : ~ rec'.verifications[k]} = {}
      BY <3>1
    <3>3. Cardinality({}) = 0
      BY FS_EmptySet
    <3> QED  BY <3>1, <3>2, <3>3 DEF VerifiedTruly
  <2> QED  BY <1>2, <1>4, <2>1 DEF HealthAfter, Fail
<1>5. CASE VerifyBaseline
  <2>1. CASE rec' = rec
    BY <1>1, <1>5, <2>1 DEF VerifyBaseline, At, Fail
  <2> QED  BY <1>0, <1>5, <2>1, VerifyKeeps
<1>6. CASE SignalSampler
  BY <1>1, <1>6 DEF SignalSampler, At
<1>7. CASE JoinSampler
  BY <1>0, <1>1, <1>7, RecordAfter DEF JoinSampler, At
<1>8. CASE Save
  BY <1>0, <1>1, <1>2, <1>8 DEF Save, OpenSession, FillSession, OpenIntervals, FillIntervals,
                                AfterSave
<1>9. CASE SaveFails \/ SaveCheckpoint \/ SamplerEnds \/ SamplerBreaks
  BY <1>1, <1>2, <1>9 DEF SaveFails, SaveCheckpoint, SamplerEnds, SamplerBreaks
<1>10. CASE (\E r \in 1..Regions : Overwrite(r)) \/ Exit \/ Kill
  BY <1>2, <1>10 DEF Overwrite, Exit, Kill, Forget
<1>11. CASE IntegrityCapture \/ IntegrityVerify
  BY <1>2, <1>11 DEF IntegrityCapture, IntegrityVerify, Command
<1>12. CASE UNCHANGED vars
  BY <1>1, <1>2, <1>12 DEF vars
<1> QED
  BY <1>3, <1>4, <1>5, <1>6, <1>7, <1>8, <1>9, <1>10, <1>11, <1>12 DEF Next, RunStep

(***************************************************************************)
(* The theorems.                                                            *)
(***************************************************************************)
\* The invariant holds in every reachable state of a session.
THEOREM SessionInvariance == Spec => []SessionInv
<1>1. SessionInv /\ [Next]_vars => SessionInv'
  BY TypeStep, DoneStep, SavedStep, ExtendsStep, BaselineStep, VerifiedStep DEF SessionInv
<1> QED  BY <1>1, SessionInitInvariant, PTL DEF Spec

\* For any number of regions: a run that returns Ok has on disk all of its record
\* (run_profile_session, save_session).
THEOREM OkOnDisk == Spec => []OkIsOnDisk
<1>1. SessionInv => OkIsOnDisk
  BY DEF SessionInv, DoneInOrder, SavedInOrder, OkIsOnDisk
<1> QED  BY <1>1, SessionInvariance, PTL

\* A process killed between the captures and the verifications leaves a
\* session.json with all baselines (run_profile_session).
THEOREM KilledKeepsBaselines == Spec => []KilledRunKeepsBaselines
<1>1. SessionInv => KilledRunKeepsBaselines
  BY SessionAssumption
     DEF SessionInv, BaselinesStored, AllBaselines, KilledRunKeepsBaselines, Readable
<1> QED  BY <1>1, SessionInvariance, PTL

\* The saved verifications say which regions changed, and the notes count them
\* (run_profile_session, verify_against_baseline).
THEOREM MismatchesReported == Spec => []MismatchesAreReported
<1>1. SessionInv => MismatchesAreReported
  <2> SUFFICES ASSUME SessionInv, phase = "ok" PROVE MismatchesAreReported
    BY DEF MismatchesAreReported
  <2>1. /\ sess.baselines = rec.baselines /\ sess.verifications = rec.verifications
        /\ sess.critical = rec.critical /\ Len(rec.verifications) = Regions
    BY DEF SessionInv, TypeOK, SessionRecord, SavedInOrder, DoneInOrder, Stored
  <2>2. VerifiedTruly
    BY DEF SessionInv
  <2> QED  BY <2>1, <2>2 DEF VerifiedTruly, MismatchesAreReported
<1> QED  BY <1>1, SessionInvariance, PTL

\* Nothing that was saved is dropped by a later save, of the run or of a command
\* after it (save_session, run_integrity_capture, run_integrity_verify).
THEOREM OnlyGrows == Spec => StoredOnlyGrows
<1>1. ASSUME SessionInv, [Next]_vars
      PROVE  [/\ IsPrefix(durable.baselines, durable'.baselines)
              /\ IsPrefix(durable.verifications, durable'.verifications)
              /\ durable.critical <= durable'.critical
              /\ durable.summary => durable'.summary]_durable
  <2> USE DEF files
  <2>1. CASE FillSession
    <3>1. Extends(rec, durable) /\ rec \in SessionRecord
      BY <1>1, <2>1 DEF FillSession, SessionInv, TypeOK, SavedInOrder, RecordExtends
    <3>2. /\ durable'.baselines = rec.baselines /\ durable'.verifications = rec.verifications
          /\ durable'.critical = rec.critical /\ durable'.summary = rec.summary
      BY <2>1, <3>1 DEF FillSession, Stored, SessionRecord
    <3> QED  BY <3>1, <3>2 DEF Extends
  <2>2. CASE ~ FillSession
    <3>1. UNCHANGED durable
      BY <1>1, <2>2
         DEF Next, RunStep, CaptureBaseline, BeginRun, EndWorkload, HealthAfter, VerifyBaseline,
             SignalSampler, JoinSampler, Save, OpenSession, OpenIntervals, FillIntervals,
             SaveFails, SaveCheckpoint, SamplerEnds, SamplerBreaks, Overwrite, Exit, Kill,
             IntegrityCapture, IntegrityVerify, Command, Fail, vars
    <3> QED  BY <3>1
  <2> QED  BY <2>1, <2>2
<1> QED  BY <1>1, SessionInvariance, PTL DEF Spec, StoredOnlyGrows
=============================================================================
