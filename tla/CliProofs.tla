------------------------------ MODULE CliProofs ------------------------------
(***************************************************************************)
(* Theorems about the parts of the command that are not interactive, for    *)
(* any hosts, devices, files and requests: the sampler, the discards and    *)
(* the trace; and what is proved of each part alone holds of the command    *)
(* that is one of them.                                                     *)
(***************************************************************************)
EXTENDS Cli, ConsoleProofs

(***************************************************************************)
(* LiveSampler. The invariant SamplerInv follows a counter from one reading *)
(* to the next: what has been charged, what the readings under way will     *)
(* charge and what a reading would add now are together never more than     *)
(* what was done.                                                           *)
(***************************************************************************)
\* Subtraction that stops at zero.
LEMMA LessType ==
  ASSUME NEW a \in Nat, NEW b \in Nat
  PROVE  /\ Less(a, b) \in Nat
         /\ Less(a, a) = 0 /\ Less(0, b) = 0
         /\ Less(a + 1, b) <= Less(a, b) + 1
         /\ b <= a => Less(a, b) = a - b
  BY DEF Less

\* What is about to be charged is a number of bytes, and nothing for a number that
\* one of the two snapshots lacks (apply_proc_delta).
LEMMA GrowthType ==
  ASSUME SamplerTypeOK, NEW p \in Pids
  PROVE  Growth(p) \in Nat
  BY DEF SamplerTypeOK, Growth, Known, Less

\* A process has a counter, readable or not.
LEMMA ProcessType ==
  ASSUME SamplerTypeOK, NEW p \in Pids, procs[p] # NoProc
  PROVE  /\ procs[p] \in Process /\ procs[p].io \in Nat
         /\ procs[p].readable \in BOOLEAN
  BY DEF SamplerTypeOK, Process

\* The initial states satisfy the invariant.
LEMMA SamplerInitInvariant == SamplerInit => SamplerInv
<1> SUFFICES ASSUME SamplerInit PROVE SamplerInv
  OBVIOUS
<1> USE DEF SamplerInit, Empty, Work
<1>1. SamplerTypeOK
  BY DEF SamplerTypeOK, Sampling
<1>2. NothingYet
  BY DEF NothingYet, Started
<1>3. \A p \in Pids : CoveredByWork(p)
  BY DEF CoveredByWork, Growth, Known
<1>4. \A p \in stayed : CounterGrows(p)
  OBVIOUS
<1> QED  BY <1>1, <1>2, <1>3, <1>4 DEF SamplerInv

\* The command starts on a host as it finds it.
LEMMA BeginStep ==
  ASSUME SamplerInv, NEW kind, NEW host0 \in Hosts, BeginSampling(kind, host0)
  PROVE  SamplerInv'
<1> USE SamplerAssumption DEF SamplerInv, BeginSampling, firstLook, Work
<1>1. SamplerTypeOK'
  BY DEF SamplerTypeOK, Sampling, tally
<1>2. NothingYet'
  BY DEF NothingYet, Started, tally
<1>3. \A p \in Pids : CoveredByWork(p)'
  BY DEF CoveredByWork, Growth, Known, NothingYet, tally
<1>4. \A p \in stayed' : CounterGrows(p)'
  <2> TAKE p \in stayed'
  <2>1. p \in Pids /\ procs'[p] # NoProc /\ procs'[p].readable
    OBVIOUS
  <2>2. ~ Started'
    BY DEF Started
  <2>3. Snapping' => p \in unread'
    BY <2>1 DEF Snapping
  <2> QED  BY <2>1, <2>2, <2>3 DEF CounterGrows
<1> QED  BY <1>1, <1>2, <1>3, <1>4

\* Steps of the sampler that change no number.
LEMMA QuietStep ==
  ASSUME SamplerInv, Trace \/ SnapshotFails \/ KeepDevices \/ Wake \/ Finish
                       \/ UNCHANGED samplerVars
  PROVE  SamplerInv'
<1> USE SamplerAssumption DEF SamplerInv, reading, tally, host, people, firstLook, Work
<1>0. /\ UNCHANGED <<procs, current, prev, charged, did, stayed, first>>
      /\ UNCHANGED <<ticks, changes, reaped>>
  BY DEF Trace, SnapshotFails, KeepDevices, Wake, Finish, samplerVars
<1>1. SamplerTypeOK'
  BY <1>0 DEF SamplerTypeOK, Sampling, Trace, SnapshotFails, KeepDevices, Wake, Finish,
              samplerVars
<1>2. NothingYet'
  BY <1>0 DEF NothingYet, Started, Trace, SnapshotFails, KeepDevices, Wake, Finish, Snapping,
              samplerVars
<1>3. \A p \in Pids : CoveredByWork(p)'
  BY <1>0 DEF CoveredByWork, Growth, Known
<1>4. \A p \in stayed' : CounterGrows(p)'
  <2> TAKE p \in stayed'
  <2>1. CounterGrows(p)
    BY <1>0
  <2>2. p \in Pids
    BY <1>0 DEF SamplerTypeOK
  <2>3. Snapping' => (Snapping /\ UNCHANGED <<unread, sampling>>) \/ unread' = Pids
    BY DEF Trace, SnapshotFails, KeepDevices, Wake, Finish, Snapping, samplerVars
  <2>4. Started' /\ p \in DOMAIN first' => Started
    BY <1>0 DEF NothingYet, Started
  <2> QED  BY <1>0, <2>1, <2>2, <2>3, <2>4 DEF CounterGrows
<1> QED  BY <1>1, <1>2, <1>3, <1>4

\* Reading the counter of one number.
LEMMA ReadStep ==
  ASSUME SamplerInv, NEW r \in Pids, ReadPid(r)
  PROVE  SamplerInv'
<1> USE SamplerAssumption DEF SamplerInv, ReadPid, tally, host, people, firstLook, Work
<1>1. SamplerTypeOK'
  <2>1. CASE procs[r] # NoProc /\ procs[r].readable
    <3>1. procs[r].io \in Nat
      BY <2>1, ProcessType
    <3>2. DOMAIN current' \subseteq Pids /\ \A p \in DOMAIN current' : current'[p].io \in Nat
      BY <2>1, <3>1 DEF SamplerTypeOK
    <3> QED  BY <3>2 DEF SamplerTypeOK
  <2>2. CASE ~ (procs[r] # NoProc /\ procs[r].readable)
    BY <2>2 DEF SamplerTypeOK
  <2> QED  BY <2>1, <2>2
<1>2. NothingYet'
  BY DEF NothingYet, Started, Snapping
<1>3. ASSUME NEW p \in Pids PROVE CoveredByWork(p)'
  <2>0. CoveredByWork(p) /\ charged[p] \in Nat /\ Work(p) \in Nat
    BY DEF SamplerTypeOK
  <2>1. CASE p = r /\ procs[r] # NoProc /\ procs[r].readable
    <3>1. procs[p].io \in Nat
      BY <2>1, ProcessType
    <3>2. /\ p \in DOMAIN current' /\ current'[p].io = procs[p].io
          /\ procs'[p] = procs[p] /\ prev' = prev /\ charged' = charged /\ Work(p)' = Work(p)
      BY <2>1
    <3>3. charged'[p] + Growth(p)' <= Work(p)'
      BY ONLY <2>0, <2>1, <3>1, <3>2 DEF CoveredByWork, Growth, Known
    <3>4. Growth(p)' \in Nat
      BY <1>1, <3>1, <3>2 DEF SamplerTypeOK, Growth, Known, Less
    <3>5. Less(procs'[p].io, current'[p].io) = 0
      BY <3>1, <3>2 DEF Less
    <3> QED  BY <2>0, <2>1, <3>2, <3>3, <3>4, <3>5 DEF CoveredByWork
  <2>2. CASE ~ (p = r /\ procs[r] # NoProc /\ procs[r].readable)
    <3>1. (p \in DOMAIN current' <=> p \in DOMAIN current) /\
          (p \in DOMAIN current => current'[p] = current[p])
      BY <2>2
    <3> QED  BY <2>0, <3>1 DEF CoveredByWork, Growth, Known
  <2> QED  BY <2>1, <2>2
<1>4. ASSUME NEW p \in stayed' PROVE CounterGrows(p)'
  <2>1. CounterGrows(p) /\ p \in Pids
    BY DEF SamplerTypeOK
  <2>2. CASE p = r
    <3>1. p \in DOMAIN current' /\ current'[p].io = procs[p].io
      BY <2>1, <2>2 DEF CounterGrows
    <3>2. procs[p].io \in Nat
      BY <2>1, ProcessType DEF CounterGrows
    <3>3. sampling = "sample" => Started
      BY DEF Started
    <3> QED  BY <2>1, <3>1, <3>2, <3>3 DEF CounterGrows, Snapping, Started
  <2>3. CASE p # r
    <3>1. (p \in DOMAIN current' <=> p \in DOMAIN current) /\
          (p \in DOMAIN current => current'[p] = current[p])
      BY <2>3
    <3> QED  BY <2>1, <2>3, <3>1 DEF CounterGrows, Snapping, Started
  <2> QED  BY <2>2, <2>3
<1> QED  BY <1>1, <1>2, <1>3, <1>4

\* The first snapshot becomes the previous one.
LEMMA KeepStep ==
  ASSUME SamplerInv, KeepFirst
  PROVE  SamplerInv'
<1> USE SamplerAssumption DEF SamplerInv, KeepFirst, tally, host, people, Work
<1>1. SamplerTypeOK'
  BY DEF SamplerTypeOK, Sampling, Empty
<1>2. NothingYet'
  BY DEF NothingYet, Started
<1>3. ASSUME NEW p \in Pids PROVE CoveredByWork(p)'
  <2>1. CoveredByWork(p) /\ charged[p] \in Nat /\ Work(p) \in Nat /\ Growth(p) \in Nat
    BY GrowthType DEF SamplerTypeOK
  <2>2. charged'[p] + Growth(p)' <= Work(p)'
    BY <2>1 DEF CoveredByWork, Growth, Known, Empty
  <2>3. ASSUME procs[p] # NoProc, p \in DOMAIN current
        PROVE  charged[p] + Less(procs[p].io, current[p].io) <= Work(p)
    <3>1. Less(procs[p].io, current[p].io) \in Nat
      BY <2>3, ProcessType, LessType DEF SamplerTypeOK
    <3> QED  BY <2>1, <2>3, <3>1 DEF CoveredByWork
  <2> QED  BY <2>2, <2>3 DEF CoveredByWork, Empty
<1>4. ASSUME NEW p \in stayed' PROVE CounterGrows(p)'
  <2>1. CounterGrows(p) /\ p \in Pids
    BY DEF SamplerTypeOK
  <2>2. p \in DOMAIN current /\ current[p].io <= procs[p].io
    BY <2>1 DEF CounterGrows, Snapping
  <2>3. current[p].io \in Nat /\ charged[p] = 0
    BY <2>1, <2>2 DEF SamplerTypeOK, NothingYet, Started
  <2> QED  BY <2>1, <2>2, <2>3 DEF CounterGrows, Snapping
<1> QED  BY <1>1, <1>2, <1>3, <1>4

\* What has grown is charged, and the snapshot becomes the previous one.
LEMMA ApplyStep ==
  ASSUME SamplerInv, Apply
  PROVE  SamplerInv'
<1> USE SamplerAssumption DEF SamplerInv, Apply, host, people, firstLook, Work
<1>0. \A p \in Pids : charged'[p] = charged[p] + Growth(p)
  BY DEF Charge
<1>1. SamplerTypeOK'
  <2>1. charged' \in [Pids -> Nat]
    BY GrowthType DEF Charge, SamplerTypeOK
  <2>2. ticks' \in Nat
    BY DEF SamplerTypeOK
  <2>3. DOMAIN current' = {}
    BY DEF Empty
  <2> QED  BY <2>1, <2>2, <2>3 DEF SamplerTypeOK, Sampling
<1>2. NothingYet'
  BY DEF NothingYet, Started
<1>3. ASSUME NEW p \in Pids PROVE CoveredByWork(p)'
  <2>1. CoveredByWork(p) /\ charged[p] \in Nat /\ Work(p) \in Nat /\ Growth(p) \in Nat
    BY GrowthType DEF SamplerTypeOK
  <2>2. DOMAIN current' = {}
    BY DEF Empty
  <2>3. Growth(p)' = 0
    BY <2>2 DEF Growth, Known
  <2> QED  BY <1>0, <2>1, <2>2, <2>3 DEF CoveredByWork
<1>4. ASSUME NEW p \in stayed' PROVE CounterGrows(p)'
  <2>1. CounterGrows(p) /\ p \in Pids
    BY DEF SamplerTypeOK
  <2>2. p \in DOMAIN current /\ current[p].io <= procs[p].io
    BY <2>1 DEF CounterGrows, Snapping
  <2>3. ASSUME p \in DOMAIN first
        PROVE  /\ first[p].io <= current[p].io
               /\ charged'[p] = current[p].io - first[p].io
    <3>1. /\ p \in DOMAIN prev /\ prev[p].io <= current[p].io
          /\ first[p].io <= prev[p].io /\ charged[p] = prev[p].io - first[p].io
      BY <2>1, <2>3 DEF CounterGrows, Snapping, Started
    <3>2. first[p].io \in Nat /\ prev[p].io \in Nat /\ current[p].io \in Nat
      BY <2>2, <2>3, <3>1 DEF SamplerTypeOK
    <3>3. Growth(p) = current[p].io - prev[p].io
      BY <2>2, <3>1, <3>2, LessType DEF Growth, Known
    <3> QED  BY <1>0, <2>1, <3>1, <3>2, <3>3
  <2> QED  BY <2>1, <2>2, <2>3 DEF CounterGrows, Snapping
<1> QED  BY <1>1, <1>2, <1>3, <1>4

\* Steps of the host. A number whose process stays, or only changes owner, has its
\* counter grow by no more than was done under it or taken over; any other has no
\* process any more or one whose counter is at zero.
LEMMA HostKeeps ==
  ASSUME SamplerInv, SamplerTypeOK', UNCHANGED <<sampling, reading, prev, charged, first>>,
         \A p \in Pids :
           \/ procs'[p] = NoProc /\ Work(p) <= Work(p)'
           \/ procs'[p].io = 0 /\ Work(p) <= Work(p)'
           \/ /\ procs[p] # NoProc /\ procs'[p] # NoProc
              /\ procs[p].io <= procs'[p].io
              /\ procs'[p].io - procs[p].io <= Work(p)' - Work(p),
         stayed' \subseteq stayed,
         \A p \in stayed' :
           procs'[p] # NoProc /\ procs'[p].readable /\ procs[p].io <= procs'[p].io
  PROVE  SamplerInv'
<1> USE SamplerAssumption DEF SamplerInv, reading
<1>1. NothingYet'
  BY DEF NothingYet, Started
<1>2. ASSUME NEW p \in Pids PROVE CoveredByWork(p)'
  <2>1. /\ CoveredByWork(p) /\ charged[p] \in Nat /\ Growth(p) \in Nat
        /\ Work(p) \in Nat /\ Work(p)' \in Nat
    <3>1. CoveredByWork(p) /\ Growth(p) \in Nat
      BY GrowthType
    <3>2. /\ charged \in [Pids -> Nat] /\ did \in [Pids -> Nat] /\ reaped \in [Pids -> Nat]
          /\ did' \in [Pids -> Nat] /\ reaped' \in [Pids -> Nat]
      BY DEF SamplerTypeOK
    <3>3. charged[p] \in Nat /\ Work(p) \in Nat /\ Work(p)' \in Nat
      BY ONLY <3>2, <1>2 DEF Work
    <3> QED  BY ONLY <3>1, <3>3
  <2>2. Growth(p)' = Growth(p) /\ charged' = charged /\ current' = current /\ prev' = prev
    BY DEF Growth, Known
  <2>3. /\ p \in DOMAIN current => current[p].io \in Nat
        /\ p \in DOMAIN prev => prev[p].io \in Nat
    BY DEF SamplerTypeOK
  <2>4. CASE procs'[p] = NoProc /\ Work(p) <= Work(p)'
    BY ONLY <2>1, <2>2, <2>4 DEF CoveredByWork
  <2>5. CASE procs'[p].io = 0 /\ Work(p) <= Work(p)'
    <3>1. /\ p \in DOMAIN current => Less(0, current[p].io) = 0
          /\ p \in DOMAIN prev => Less(0, prev[p].io) = 0
      BY ONLY <2>3, LessType
    <3> QED  BY ONLY <2>1, <2>2, <2>5, <3>1 DEF CoveredByWork
  <2>6. CASE /\ procs[p] # NoProc /\ procs'[p] # NoProc
             /\ procs[p].io <= procs'[p].io
             /\ procs'[p].io - procs[p].io <= Work(p)' - Work(p)
    <3> DEFINE a == procs[p].io
               b == procs'[p].io
    <3>1. a \in Nat /\ b \in Nat
      BY <2>6, ProcessType DEF SamplerTypeOK, Process
    <3>2. ASSUME NEW c \in Nat
          PROVE  Less(a, c) \in Nat /\ Less(b, c) \in Nat /\ Less(b, c) <= Less(a, c) + (b - a)
      BY ONLY <2>6, <3>1, <3>2 DEF Less
    <3>3. ASSUME p \in DOMAIN current
          PROVE  charged'[p] + Growth(p)' + Less(b, current'[p].io) <= Work(p)'
      <4>1. charged[p] + Growth(p) + Less(a, current[p].io) <= Work(p)
        BY ONLY <2>1, <2>6, <3>3 DEF CoveredByWork
      <4>2. /\ Less(a, current[p].io) \in Nat /\ Less(b, current[p].io) \in Nat
            /\ Less(b, current[p].io) <= Less(a, current[p].io) + (b - a)
        BY ONLY <2>3, <3>1, <3>2, <3>3
      <4>3. b - a <= Work(p)' - Work(p) /\ a \in Nat /\ b \in Nat
        BY ONLY <2>6, <3>1, <3>3
      <4> HIDE DEF a, b
      <4> QED  BY ONLY <2>1, <2>2, <4>1, <4>2, <4>3
    <3>4. ASSUME p \in DOMAIN prev
          PROVE  charged'[p] + Less(b, prev'[p].io) <= Work(p)'
      <4>1. charged[p] + Less(a, prev[p].io) <= Work(p)
        BY ONLY <2>1, <2>6, <3>4 DEF CoveredByWork
      <4>2. /\ Less(a, prev[p].io) \in Nat /\ Less(b, prev[p].io) \in Nat
            /\ Less(b, prev[p].io) <= Less(a, prev[p].io) + (b - a)
        BY ONLY <2>3, <3>1, <3>2, <3>4
      <4>3. b - a <= Work(p)' - Work(p) /\ a \in Nat /\ b \in Nat
        BY ONLY <2>6, <3>1, <3>4
      <4> HIDE DEF a, b
      <4> QED  BY ONLY <2>1, <2>2, <4>1, <4>2, <4>3
    <3>5. Work(p) <= Work(p)'
      BY ONLY <2>1, <2>6, <3>1
    <3>6. charged'[p] + Growth(p)' <= Work(p)'
      BY ONLY <2>1, <2>2, <3>5 DEF CoveredByWork
    <3> QED  BY ONLY <2>2, <3>3, <3>4, <3>6 DEF CoveredByWork
  <2> QED  BY <2>4, <2>5, <2>6
<1>3. ASSUME NEW p \in stayed' PROVE CounterGrows(p)'
  <2>1. CounterGrows(p) /\ p \in Pids
    BY DEF SamplerTypeOK
  <2>2. /\ procs'[p] # NoProc /\ procs'[p].readable
        /\ procs'[p].io \in Nat /\ procs[p].io \in Nat /\ procs[p].io <= procs'[p].io
    BY <2>1, ProcessType DEF CounterGrows, SamplerTypeOK, Process
  <2>3. /\ p \in DOMAIN current => current[p].io \in Nat
        /\ p \in DOMAIN prev => prev[p].io \in Nat
    BY DEF SamplerTypeOK
  <2> QED  BY <2>1, <2>2, <2>3 DEF CounterGrows, Snapping, Started
<1> QED  BY <1>1, <1>2, <1>3

\* A process does I/O.
LEMMA IoStep ==
  ASSUME SamplerInv, NEW r \in Pids, DoIo(r)
  PROVE  SamplerInv'
<1> USE DEF DoIo
<1>0. /\ procs[r] \in Process /\ procs[r].io \in Nat /\ procs \in [Pids -> Process \cup {NoProc}]
      /\ procs[r].readable \in BOOLEAN /\ stayed \subseteq Pids
      /\ did \in [Pids -> Nat] /\ reaped \in [Pids -> Nat]
  BY ProcessType DEF SamplerInv, SamplerTypeOK
<1> DEFINE later == [procs[r] EXCEPT !.io = @ + 1]
<1>1. /\ later \in Process /\ later.io = procs[r].io + 1 /\ later.readable = procs[r].readable
  BY <1>0 DEF Process
<1>2. /\ procs' = [procs EXCEPT ![r] = later]
      /\ did' = [did EXCEPT ![r] = @ + 1] /\ reaped' = reaped /\ stayed' = stayed
  OBVIOUS
<1>3. later # NoProc
  BY <1>1, SamplerAssumption
<1> HIDE DEF later
<1>4. SamplerTypeOK'
  <2>1. procs' \in [Pids -> Process \cup {NoProc}] /\ did' \in [Pids -> Nat]
    BY ONLY <1>0, <1>1, <1>2
  <2>2. UNCHANGED <<sampling, unread, current, prev, charged, reaped, stayed, ticks, changes,
                    first>>
    BY DEF reading, tally, firstLook
  <2> QED  BY <2>1, <2>2 DEF SamplerInv, SamplerTypeOK
<1>5. ASSUME NEW p \in Pids
      PROVE  \/ procs'[p] = NoProc /\ Work(p)' = Work(p) /\ Work(p) \in Nat
             \/ /\ procs[p] # NoProc /\ procs'[p] # NoProc
                /\ procs[p].io \in Nat /\ procs'[p].io \in Nat
                /\ procs'[p].readable = procs[p].readable
                /\ procs[p].io <= procs'[p].io
                /\ Work(p)' - Work(p) = procs'[p].io - procs[p].io
  <2>1. CASE p = r
    BY ONLY <1>0, <1>1, <1>2, <1>3, <2>1, DoIo(r) DEF Work, DoIo
  <2>2. CASE p # r
    <3>1. procs'[p] = procs[p] /\ Work(p)' = Work(p) /\ Work(p) \in Nat
      BY ONLY <1>0, <1>2, <2>2 DEF Work
    <3>2. procs[p] # NoProc => procs[p].io \in Nat
      BY ProcessType DEF SamplerInv
    <3> QED  BY ONLY <3>1, <3>2
  <2> QED  BY <2>1, <2>2
<1>6. ASSUME NEW p \in stayed
      PROVE  procs'[p] # NoProc /\ procs'[p].readable /\ procs[p].io <= procs'[p].io
  <2>1. procs[p] # NoProc /\ procs[p].readable /\ p \in Pids
    BY <1>0 DEF SamplerInv, CounterGrows
  <2>2. procs'[p] # NoProc
    BY ONLY <1>0, <1>2, <1>3, <2>1
  <2> QED  BY ONLY <1>5, <2>1, <2>2
<1>7. UNCHANGED <<sampling, reading, prev, charged, first>>
  BY DEF tally, firstLook
<1>8. \A p \in Pids :
        \/ procs'[p] = NoProc /\ Work(p) <= Work(p)'
        \/ /\ procs[p] # NoProc /\ procs'[p] # NoProc
           /\ procs[p].io <= procs'[p].io
           /\ procs'[p].io - procs[p].io <= Work(p)' - Work(p)
  BY ONLY <1>5
<1> QED  BY ONLY <1>2, <1>4, <1>6, <1>7, <1>8, SamplerInv, HostKeeps

\* A process ends, and its parent may take over its counter.
LEMMA ExitStep ==
  ASSUME SamplerInv, NEW r \in Pids, Exit(r)
  PROVE  SamplerInv'
<1>0. /\ procs[r] \in Process /\ procs[r].io \in Nat /\ procs \in [Pids -> Process \cup {NoProc}]
      /\ stayed \subseteq Pids /\ did \in [Pids -> Nat] /\ reaped \in [Pids -> Nat]
      /\ changes \in Nat
  BY ProcessType DEF Exit, SamplerInv, SamplerTypeOK
<1>1. PICK waited \in BOOLEAN :
        LET taken(q) == IF waited /\ q = procs[r].parent THEN procs[r].io ELSE 0
        IN /\ reaped' = [q \in Pids |-> reaped[q] + taken(q)]
           /\ procs' = [q \in Pids |-> IF q = r \/ procs[q] = NoProc THEN NoProc
                                        ELSE Bereft(procs[q], r, taken(q))]
  BY DEF Exit
<1> DEFINE more(q) == IF waited /\ q = procs[r].parent THEN procs[r].io ELSE 0
<1>2. /\ reaped' = [q \in Pids |-> reaped[q] + more(q)]
      /\ procs' = [q \in Pids |-> IF q = r \/ procs[q] = NoProc THEN NoProc
                                  ELSE Bereft(procs[q], r, more(q))]
  BY <1>1
<1>3. \A q \in Pids : more(q) \in Nat
  BY <1>0
<1> HIDE DEF more
<1>4. /\ did' = did /\ stayed' = stayed \ {r} /\ changes' = changes + 1
      /\ UNCHANGED <<sampling, reading, prev, charged, first>>
      /\ UNCHANGED <<unread, current, ticks>>
  BY DEF Exit, Changed, reading, tally, firstLook
<1>5. ASSUME NEW p \in Pids
      PROVE  \/ procs'[p] = NoProc /\ Work(p) <= Work(p)' /\ (p = r \/ procs[p] = NoProc)
             \/ /\ procs[p] # NoProc /\ procs'[p] # NoProc /\ procs'[p] \in Process
                /\ procs'[p].readable = procs[p].readable
                /\ procs[p].io \in Nat /\ procs'[p].io \in Nat /\ procs[p].io <= procs'[p].io
                /\ procs'[p].io - procs[p].io <= Work(p)' - Work(p)
  <2>1. Work(p)' = Work(p) + more(p) /\ Work(p) \in Nat /\ more(p) \in Nat
    BY ONLY <1>0, <1>2, <1>3, <1>4 DEF Work
  <2>2. CASE p = r \/ procs[p] = NoProc
    BY ONLY <1>2, <2>1, <2>2
  <2>3. CASE ~ (p = r \/ procs[p] = NoProc)
    <3> DEFINE later == Bereft(procs[p], r, more(p))
    <3>1. procs'[p] = later
      BY ONLY <1>2, <2>3
    <3>2. procs[p] \in Process /\ procs[p].io \in Nat
      BY <2>3, ProcessType DEF SamplerInv
    <3>3. /\ later \in Process /\ later.io = procs[p].io + more(p)
          /\ later.readable = procs[p].readable
      BY ONLY <2>1, <3>2 DEF Process, Bereft
    <3>4. later # NoProc
      BY <3>3, SamplerAssumption
    <3> HIDE DEF later
    <3> QED  BY ONLY <2>1, <2>3, <3>1, <3>2, <3>3, <3>4
  <2> QED  BY <2>2, <2>3
<1>6. SamplerTypeOK'
  <2>1. procs' \in [Pids -> Process \cup {NoProc}]
    <3>1. DOMAIN procs' = Pids /\ procs' = [q \in Pids |-> procs'[q]]
      BY <1>2
    <3>2. \A q \in Pids : procs'[q] \in Process \cup {NoProc}
      BY <1>5
    <3> QED  BY ONLY <3>1, <3>2
  <2>2. reaped' \in [Pids -> Nat]
    BY ONLY <1>0, <1>2, <1>3
  <2> QED  BY <1>0, <1>4, <2>1, <2>2 DEF SamplerInv, SamplerTypeOK
<1>7. ASSUME NEW p \in stayed'
      PROVE  procs'[p] # NoProc /\ procs'[p].readable /\ procs[p].io <= procs'[p].io
  <2>1. procs[p] # NoProc /\ procs[p].readable /\ p \in Pids /\ p # r
    BY <1>0, <1>4 DEF SamplerInv, CounterGrows
  <2> QED  BY ONLY <1>5, <2>1
<1>8. \A p \in Pids :
        \/ procs'[p] = NoProc /\ Work(p) <= Work(p)'
        \/ /\ procs[p] # NoProc /\ procs'[p] # NoProc
           /\ procs[p].io <= procs'[p].io
           /\ procs'[p].io - procs[p].io <= Work(p)' - Work(p)
  BY ONLY <1>5
<1>9. stayed' \subseteq stayed
  BY <1>4
<1> QED  BY ONLY <1>4, <1>6, <1>7, <1>8, <1>9, SamplerInv, HostKeeps

\* A process comes or changes owner: its number is not among those that stay.
LEMMA ChangeStep ==
  ASSUME SamplerInv, NEW r \in Pids, NEW process \in Process,
         Changed({r}), procs' = [procs EXCEPT ![r] = process], reaped' = reaped,
         process.io = 0 \/ (procs[r] # NoProc /\ process.io = procs[r].io)
  PROVE  SamplerInv'
<1>0. /\ procs \in [Pids -> Process \cup {NoProc}] /\ stayed \subseteq Pids
      /\ did \in [Pids -> Nat] /\ reaped \in [Pids -> Nat] /\ changes \in Nat
  BY DEF SamplerInv, SamplerTypeOK
<1>1. /\ did' = did /\ stayed' = stayed \ {r} /\ changes' = changes + 1
      /\ UNCHANGED <<sampling, reading, prev, charged, first>>
      /\ UNCHANGED <<unread, current, ticks>>
  BY DEF Changed, reading, tally, firstLook
<1>2. SamplerTypeOK'
  <2>1. procs' \in [Pids -> Process \cup {NoProc}]
    BY <1>0
  <2> QED  BY <1>0, <1>1, <2>1 DEF SamplerInv, SamplerTypeOK
<1>3. ASSUME NEW p \in Pids
      PROVE  \/ procs'[p] = NoProc /\ Work(p) <= Work(p)'
             \/ procs'[p].io = 0 /\ Work(p) <= Work(p)'
             \/ /\ procs[p] # NoProc /\ procs'[p] # NoProc
                /\ procs[p].io <= procs'[p].io
                /\ procs'[p].io - procs[p].io <= Work(p)' - Work(p)
  <2>1. Work(p)' = Work(p) /\ Work(p) \in Nat
    BY <1>0, <1>1 DEF Work
  <2>2. procs[p] # NoProc => procs[p].io \in Nat
    BY ProcessType DEF SamplerInv
  <2>3. procs'[p] = IF p = r THEN process ELSE procs[p]
    BY <1>0
  <2>4. p # r => procs'[p] = procs[p]
    BY <2>3
  <2>5. p = r => procs'[p] = process
    BY <2>3
  <2> QED  BY <2>1, <2>2, <2>4, <2>5
<1>4. ASSUME NEW p \in stayed'
      PROVE  procs'[p] # NoProc /\ procs'[p].readable /\ procs[p].io <= procs'[p].io
  <2>1. procs[p] # NoProc /\ procs[p].readable /\ p \in Pids /\ p # r
    BY <1>0, <1>1 DEF SamplerInv, CounterGrows
  <2>2. procs[p].io \in Nat /\ procs'[p] = procs[p]
    BY <1>0, <2>1, ProcessType DEF SamplerInv
  <2> QED  BY <2>1, <2>2
<1>5. stayed' \subseteq stayed
  BY <1>1
<1> QED  BY ONLY <1>1, <1>2, <1>3, <1>4, <1>5, SamplerInv, HostKeeps

\* Devices, and what is on its way to them, concern no number.
LEMMA DriveStep ==
  ASSUME SamplerInv, WriteBack \/ \E d \in Drives : Plug(d)
  PROVE  SamplerInv'
<1>1. /\ UNCHANGED <<sampling, unread, current, prev, charged, ticks, first, procs, did, reaped,
                     stayed>>
      /\ changes' = changes \/ changes' = changes + 1
  BY DEF WriteBack, Plug, reading, tally, people, firstLook
<1>2. SamplerTypeOK'
  <2>1. changes' \in Nat
    BY <1>1 DEF SamplerInv, SamplerTypeOK
  <2> QED  BY <1>1, <2>1 DEF SamplerInv, SamplerTypeOK
<1>3. NothingYet' /\ (\A p \in Pids : CoveredByWork(p)') /\ (\A p \in stayed : CounterGrows(p)')
  BY <1>1 DEF SamplerInv, NothingYet, CoveredByWork, CounterGrows, Growth, Known, Work,
              Started, Snapping
<1> QED  BY <1>1, <1>2, <1>3 DEF SamplerInv

\* Every step keeps the invariant.
LEMMA SamplerStepInvariant == SamplerInv /\ [SamplerNext]_samplerVars => SamplerInv'
<1> SUFFICES ASSUME SamplerInv, [SamplerNext]_samplerVars PROVE SamplerInv'
  OBVIOUS
<1>1. ASSUME NEW kind \in {"sample", "deep"}, NEW host0 \in Hosts, BeginSampling(kind, host0)
      PROVE  SamplerInv'
  BY <1>1, BeginStep
<1>2. CASE Trace \/ SnapshotFails \/ KeepDevices \/ Wake \/ Finish \/ UNCHANGED samplerVars
  BY <1>2, QuietStep
<1>3. ASSUME NEW p \in Pids, ReadPid(p) PROVE SamplerInv'
  BY <1>3, ReadStep
<1>4. CASE KeepFirst
  BY <1>4, KeepStep
<1>5. CASE Apply
  BY <1>5, ApplyStep
<1>6. ASSUME NEW p \in Pids, DoIo(p) PROVE SamplerInv'
  BY <1>6, IoStep
<1>7. ASSUME NEW p \in Pids, Exit(p) PROVE SamplerInv'
  BY <1>7, ExitStep
<1>8. ASSUME NEW p \in Pids, ChangeOwner(p) PROVE SamplerInv'
  <2>1. procs[p] # NoProc /\ procs[p] \in Process
    BY <1>8, ProcessType DEF ChangeOwner, SamplerInv
  <2> DEFINE other == [procs[p] EXCEPT !.readable = ~ @]
  <2>2. other \in Process /\ other.io = procs[p].io
    BY <2>1 DEF Process
  <2>3. Changed({p}) /\ procs' = [procs EXCEPT ![p] = other] /\ reaped' = reaped
    BY <1>8 DEF ChangeOwner
  <2> HIDE DEF other
  <2> QED  BY <2>1, <2>2, <2>3, ChangeStep
<1>9. ASSUME NEW p \in Pids, NEW open \in OpenSets, Fork(p, open) PROVE SamplerInv'
  <2>1. PICK q \in Pids \cup {NoProc} :
          procs' = [procs EXCEPT
                      ![p] = [io |-> 0, open |-> open, readable |-> TRUE, parent |-> q]]
    BY <1>9 DEF Fork
  <2> DEFINE newcomer == [io |-> 0, open |-> open, readable |-> TRUE, parent |-> q]
  <2>2. newcomer \in Process /\ newcomer.io = 0
    BY DEF Process
  <2>3. Changed({p}) /\ procs' = [procs EXCEPT ![p] = newcomer] /\ reaped' = reaped
    BY <1>9, <2>1 DEF Fork
  <2> HIDE DEF newcomer
  <2> QED  BY <2>2, <2>3, ChangeStep
<1>10. CASE WriteBack \/ \E d \in Drives : Plug(d)
  BY <1>10, DriveStep
<1> QED
  BY <1>1, <1>2, <1>3, <1>4, <1>5, <1>6, <1>7, <1>8, <1>9, <1>10
     DEF SamplerNext, SamplerStep, HostStep

\* The invariant holds in every reachable state.
THEOREM SamplerInvariance == SamplerSpec => []SamplerInv
<1> QED  BY SamplerInitInvariant, SamplerStepInvariant, PTL DEF SamplerSpec

\* Whatever processes come, go, change owner or take over each other's numbers, no
\* number is charged more than was done under it or taken over from children
\* (apply_proc_delta).
THEOREM NoOvercharge == SamplerSpec => []NeverOvercharged
<1>1. SamplerInv => NeverOvercharged
  <2> SUFFICES ASSUME SamplerInv, NEW p \in Pids PROVE charged[p] <= Work(p)
    BY DEF NeverOvercharged
  <2>1. charged[p] \in Nat /\ Work(p) \in Nat /\ Growth(p) \in Nat
    BY GrowthType DEF SamplerInv, SamplerTypeOK, Work
  <2> QED  BY <2>1 DEF SamplerInv, CoveredByWork
<1> QED  BY <1>1, SamplerInvariance, PTL

\* A process that stays is charged what its counter grew by between the first
\* snapshot and the last, for any number of ticks (sample_once).
THEOREM StayersExact == SamplerSpec => []StayersAreExact
<1>1. SamplerInv => StayersAreExact
  BY DEF SamplerInv, StayersAreExact, CounterGrows, Started
<1> QED  BY <1>1, SamplerInvariance, PTL

(***************************************************************************)
(* The figures of the report.                                               *)
(***************************************************************************)
\* The sum of numbers of bytes is one.
LEMMA TotalType ==
  ASSUME NEW S, IsFiniteSet(S), NEW f \in [S -> Nat]
  PROVE  Total(f) \in Nat /\ Total(f) = SumFunctionOnSet(f, S)
<1>1. Total(f) = SumFunctionOnSet(f, S)
  BY Zenon DEF Total, SumFunction
<1>2. SumFunctionOnSet(f, S) \in Nat
  BY SumNatural
<1> QED  BY <1>1, <1>2

\* A number divided and multiplied again is not more.
LEMMA DivideMultiply ==
  ASSUME NEW a \in Nat, NEW n \in Nat \ {0}
  PROVE  a \div n \in Nat /\ (a \div n) * n <= a
  OBVIOUS

\* The shares of one number are together not more than it grew.
LEMMA SharesOfOne ==
  ASSUME SamplerTypeOK, NEW p \in Known, current[p].open \in OpenSets
  PROVE  /\ \A f \in Files : Share(p, f) \in Nat
         /\ SumFunctionOnSet([f \in Files |-> Share(p, f)], Files) <= Growth(p)
<1> DEFINE n == Cardinality(Paths(p))
           q == Growth(p) \div n
           s == [f \in Files |-> Share(p, f)]
<1>1. Paths(p) \in SUBSET Files /\ IsFiniteSet(Paths(p)) /\ IsFiniteSet(Files)
  <2>1. IsFiniteSet(Files) /\ current[p].open \in Seq(Files)
    BY SamplerAssumption
  <2>2. Paths(p) \in SUBSET Files
    BY <2>1 DEF Paths, ToSet
  <2> QED  BY <2>1, <2>2, FS_Subset
<1>2. Growth(p) \in Nat /\ n \in Nat
  BY <1>1, GrowthType, FS_CardinalityType DEF Known, SamplerTypeOK
<1>3. \A f \in Files : s[f] = IF f \in Paths(p) THEN q ELSE 0
  BY DEF Share
<1>4. CASE n = 0
  <2>1. Paths(p) = {}
    BY <1>1, <1>4, FS_EmptySet
  <2>2. \A f \in Files : s[f] = 0
    BY <1>3, <2>1
  <2>3. SumFunctionOnSet(s, Files) = 0
    <3> HIDE DEF s
    <3> QED  BY <1>1, <2>2, SumZero
  <2> QED  BY <1>2, <2>2, <2>3
<1>5. CASE n # 0
  <2>1. q \in Nat /\ q * n <= Growth(p)
    <3> HIDE DEF n
    <3> QED  BY <1>2, <1>5, DivideMultiply
  <2>2. SumFunctionOnSet(s, Files) = q * n
    <3> HIDE DEF s, q
    <3> QED  BY <1>1, <1>3, <2>1, SumConstant
  <2>3. \A f \in Files : Share(p, f) \in Nat
    <3> HIDE DEF q
    <3>1. \A f \in Files : s[f] \in Nat
      <4> HIDE DEF s
      <4> QED  BY <1>3, <2>1
    <3> QED  BY <3>1
  <2> QED  BY <2>1, <2>2, <2>3
<1> QED  BY <1>4, <1>5

\* What a tick adds to the files is not more than what it adds to the numbers.
LEMMA SharesOfAll ==
  ASSUME SamplerTypeOK, \A p \in DOMAIN current : current[p].open \in OpenSets
  PROVE  LET added == [f \in Files |-> Total([p \in Known |-> Share(p, f)])]
             grown == [p \in Pids |-> Growth(p)]
         IN /\ added \in [Files -> Nat] /\ grown \in [Pids -> Nat]
            /\ Total(added) <= Total(grown)
<1> DEFINE added == [f \in Files |-> Total([p \in Known |-> Share(p, f)])]
           grown == [p \in Pids |-> Growth(p)]
           m == [c \in Known \X Files |-> Share(c[1], c[2])]
           column == [f \in Files |-> SumFunctionOnSet([p \in Known |-> m[<<p, f>>]], Known)]
           row == [p \in Known |-> SumFunctionOnSet([f \in Files |-> m[<<p, f>>]], Files)]
<1>1. Known \in SUBSET Pids /\ IsFiniteSet(Known) /\ IsFiniteSet(Pids) /\ IsFiniteSet(Files)
  <2>1. Known \in SUBSET Pids /\ IsFiniteSet(Pids) /\ IsFiniteSet(Files)
    BY SamplerAssumption DEF Known, SamplerTypeOK
  <2> QED  BY <2>1, FS_Subset
<1>2. \A p \in Known : /\ \A f \in Files : Share(p, f) \in Nat
                       /\ SumFunctionOnSet([f \in Files |-> Share(p, f)], Files) <= Growth(p)
  BY SharesOfOne DEF Known
<1>3. /\ m \in [Known \X Files -> Nat] /\ m \in [Known \X Files -> Int]
      /\ \A p \in Known, f \in Files : m[<<p, f>>] = Share(p, f)
  <2>1. \A c \in Known \X Files : c[1] \in Known /\ c[2] \in Files
    OBVIOUS
  <2>2. \A c \in Known \X Files : Share(c[1], c[2]) \in Nat
    BY <1>2, <2>1
  <2>3. \A p \in Known, f \in Files : <<p, f>> \in Known \X Files
    OBVIOUS
  <2> QED  BY <2>2, <2>3
<1> HIDE DEF m
<1>4. grown \in [Pids -> Nat]
  BY GrowthType
<1>5. ASSUME NEW f \in Files
      PROVE  /\ Total([p \in Known |-> Share(p, f)]) = column[f]
             /\ column[f] \in Nat
  <2> DEFINE d == [p \in Known |-> Share(p, f)]
  <2>1. d = [p \in Known |-> m[<<p, f>>]] /\ d \in [Known -> Nat]
    BY <1>2, <1>3
  <2>2. Total(d) \in Nat /\ Total(d) = SumFunctionOnSet(d, Known)
    <3> HIDE DEF d
    <3> QED  BY <1>1, <2>1, TotalType
  <2> QED  BY <2>1, <2>2
<1>6. added = column /\ added \in [Files -> Nat]
  BY <1>5
<1>7. \A p \in Known : row[p] \in Int /\ row[p] <= grown[p] /\ grown[p] \in Int
  <2> TAKE p \in Known
  <2> DEFINE a == [f \in Files |-> Share(p, f)]
  <2>1. a = [f \in Files |-> m[<<p, f>>]] /\ \A f \in Files : a[f] \in Int
    BY <1>2, <1>3
  <2>2. SumFunctionOnSet(a, Files) \in Int /\ SumFunctionOnSet(a, Files) <= Growth(p)
    <3>1. SumFunctionOnSet(a, Files) <= Growth(p)
      BY <1>2
    <3> HIDE DEF a
    <3> QED  BY <1>1, <2>1, <3>1, SumType
  <2>3. row[p] = SumFunctionOnSet(a, Files) /\ grown[p] = Growth(p)
    BY <1>1, <2>1
  <2> QED  BY <1>1, <1>2, <1>4, <2>2, <2>3
<1>8. SumFunctionOnSet(column, Files) = SumFunctionOnSet(row, Known)
  <2> QED  BY <1>1, <1>3, SumByRowsAndColumns
<1>9. SumFunctionOnSet(row, Known) <= SumFunctionOnSet(grown, Known)
  <2> HIDE DEF row, grown
  <2> QED  BY <1>1, <1>7, SumMonotone
<1>10. SumFunctionOnSet(grown, Known) <= SumFunctionOnSet(grown, Pids)
  <2> HIDE DEF grown
  <2> QED  BY <1>1, <1>4, SumPart
<1>11. /\ SumFunctionOnSet(row, Known) \in Int /\ SumFunctionOnSet(grown, Known) \in Int
       /\ SumFunctionOnSet(grown, Pids) \in Int
  <2>1. \A p \in Pids : grown[p] \in Int
    BY <1>4
  <2> HIDE DEF row, grown
  <2> QED  BY <1>1, <1>7, <2>1, SumType
<1>12. Total(added) = SumFunctionOnSet(column, Files) /\ Total(grown) = SumFunctionOnSet(grown, Pids)
  <2> HIDE DEF added, grown, column
  <2> QED  BY <1>1, <1>4, <1>6, TotalType
<1>13. Total(added) <= Total(grown)
  <2> HIDE DEF added, grown, column, row
  <2> QED  BY <1>8, <1>9, <1>10, <1>11, <1>12
<1> QED  BY <1>4, <1>6, <1>13

\* Totals of a charge on top of another.
LEMMA TotalPlus ==
  ASSUME NEW S, IsFiniteSet(S), NEW f \in [S -> Nat], NEW g \in [S -> Nat], NEW h \in [S -> Nat],
         \A x \in S : h[x] = f[x] + g[x]
  PROVE  Total(h) = Total(f) + Total(g)
  BY TotalType, SumPlus

\* Whatever devices a report shows, they did what ended on the drives since they were
\* first looked at, but for what ended on others (summarize_devices).
LEMMA ShownDrives ==
  ASSUME ReportInv, NEW shown \in SUBSET DOMAIN startDevices
  PROVE  LET done == [d \in Drives |-> IF d \in shown THEN Done(d) ELSE 0]
         IN /\ done \in [Drives -> Nat] /\ Missed(shown) \in Nat
            /\ Total(rests) + pending <= Total(done) + Missed(shown) + Total(early)
<1> DEFINE done  == [d \in Drives |-> IF d \in shown THEN Done(d) ELSE 0]
           other == [d \in Drives |-> IF d \in shown THEN 0 ELSE rests[d] - early[d]]
           both  == [d \in Drives |-> done[d] + other[d]]
           all   == [d \in Drives |-> both[d] + early[d]]
<1>0. /\ IsFiniteSet(Drives) /\ pending \in Nat
      /\ rests \in [Drives -> Nat] /\ early \in [Drives -> Nat] /\ stats \in [Drives -> Nat]
      /\ shown \in SUBSET Drives
  BY SamplerAssumption DEF ReportInv
<1>1. \A d \in Drives : /\ done[d] \in Nat /\ other[d] \in Nat
                        /\ rests[d] <= done[d] + other[d] + early[d]
  <2> TAKE d \in Drives
  <2>1. rests[d] \in Nat /\ early[d] \in Nat /\ stats[d] \in Nat /\ early[d] <= rests[d]
    BY <1>0 DEF ReportInv
  <2>2. CASE d \in shown
    <3>1. startDevices[d] \in Nat /\ rests[d] - early[d] <= stats[d] - startDevices[d]
      BY <2>2 DEF ReportInv
    <3>2. done[d] = Less(stats[d], startDevices[d]) /\ other[d] = 0
      BY <2>2 DEF Done
    <3> HIDE DEF done, other
    <3> QED  BY ONLY <2>1, <3>1, <3>2 DEF Less
  <2>3. CASE d \notin shown
    <3>1. done[d] = 0 /\ other[d] = rests[d] - early[d]
      BY <2>3
    <3> HIDE DEF done, other
    <3> QED  BY ONLY <2>1, <3>1
  <2> QED  BY <2>2, <2>3
<1>2. done \in [Drives -> Nat] /\ other \in [Drives -> Nat]
  <2>1. done = [d \in Drives |-> done[d]] /\ other = [d \in Drives |-> other[d]]
    OBVIOUS
  <2> HIDE DEF done, other
  <2> QED  BY ONLY <1>1, <2>1
<1>3. both \in [Drives -> Nat] /\ all \in [Drives -> Nat]
  <2> HIDE DEF done, other
  <2> QED  BY <1>0, <1>2
<1>4. Total(both) = Total(done) + Total(other) /\ Total(all) = Total(both) + Total(early)
  <2>1. \A d \in Drives : both[d] = done[d] + other[d]
    OBVIOUS
  <2>2. \A d \in Drives : all[d] = both[d] + early[d]
    OBVIOUS
  <2> HIDE DEF done, other, both, all
  <2>3. Total(both) = Total(done) + Total(other)
    BY ONLY <1>0, <1>2, <1>3, <2>1, TotalPlus
  <2>4. Total(all) = Total(both) + Total(early)
    BY ONLY <1>0, <1>3, <2>2, TotalPlus
  <2> QED  BY ONLY <2>3, <2>4
<1>5. Total(rests) <= Total(all)
  <2>1. \A d \in Drives : rests[d] \in Int /\ all[d] \in Int /\ rests[d] <= all[d]
    <3>1. \A d \in Drives : all[d] = done[d] + other[d] + early[d]
      OBVIOUS
    <3> HIDE DEF done, other, both, all
    <3> QED  BY ONLY <1>0, <1>1, <1>3, <3>1
  <2> HIDE DEF all
  <2> QED  BY ONLY <1>0, <1>3, <2>1, TotalType, SumMonotone
<1>6. /\ Total(done) \in Nat /\ Total(other) \in Nat /\ Total(early) \in Nat
      /\ Total(rests) \in Nat /\ Missed(shown) = pending + Total(other)
  <2>1. Missed(shown) = pending + Total(other)
    BY DEF Missed
  <2> HIDE DEF done, other
  <2> QED  BY ONLY <1>0, <1>2, <2>1, TotalType
<1>7. Total(rests) + pending <= Total(done) + Missed(shown) + Total(early)
  <2> HIDE DEF done, other, both, all
  <2> QED  BY ONLY <1>0, <1>4, <1>5, <1>6
<1>8. Missed(shown) \in Nat
  <2> HIDE DEF done, other, both, all
  <2> QED  BY ONLY <1>0, <1>6
<1> QED  BY <1>2, <1>7, <1>8

\* A tick keeps the figures of the report in order.
LEMMA FiguresApply ==
  ASSUME SamplerInv, SamplerInv', ReportInv, Apply
  PROVE  ReportInv'
<1> DEFINE added == [f \in Files |-> Total([p \in Known |-> Share(p, f)])]
           grown == [p \in Pids |-> Growth(p)]
           work  == [p \in Pids |-> did[p] + reaped[p]]
<1>0. IsFiniteSet(Pids) /\ IsFiniteSet(Files) /\ IsFiniteSet(Drives)
  BY SamplerAssumption
<1>1. /\ charged \in [Pids -> Nat] /\ did \in [Pids -> Nat] /\ reaped \in [Pids -> Nat]
      /\ shares \in [Files -> Nat] /\ early \in [Drives -> Nat] /\ rests \in [Drives -> Nat]
      /\ pending \in Nat /\ charged' \in [Pids -> Nat] /\ Total(did) = Total(rests) + pending
  BY DEF SamplerInv, SamplerTypeOK, ReportInv
<1>2. /\ UNCHANGED <<did, reaped, present, stats, rests, pending, startDevices, early>>
      /\ current' = Empty /\ sampling' = "wait"
  BY DEF Apply, host, people, drives, firstLook
<1>3. /\ added \in [Files -> Nat] /\ grown \in [Pids -> Nat] /\ Total(added) <= Total(grown)
  <2>1. SamplerTypeOK /\ \A p \in DOMAIN current : current[p].open \in OpenSets
    BY DEF SamplerInv, ReportInv
  <2> QED  BY <2>1, SharesOfAll
<1>4. /\ \A p \in Pids : charged'[p] = charged[p] + grown[p]
      /\ \A f \in Files : shares'[f] = shares[f] + added[f]
      /\ shares' \in [Files -> Nat]
  BY <1>1, <1>3 DEF Apply, Charge, ShareOut
<1>5. Total(charged') = Total(charged) + Total(grown) /\ Total(shares') = Total(shares) + Total(added)
  <2> HIDE DEF added, grown
  <2> QED  BY ONLY <1>0, <1>1, <1>3, <1>4, TotalPlus
<1>6. /\ Total(shares) \in Nat /\ Total(charged) \in Nat /\ Total(added) \in Nat
      /\ Total(grown) \in Nat /\ Total(charged') \in Nat
      /\ Total(did) \in Nat /\ Total(reaped) \in Nat /\ Total(early) \in Nat
      /\ Total(rests) \in Nat
  <2> HIDE DEF added, grown
  <2> QED  BY ONLY <1>0, <1>1, <1>3, TotalType
<1>7. Total(shares') <= Total(charged')
  <2>1. Total(shares) <= Total(charged)
    BY DEF ReportInv, ReportAddsUp
  <2> HIDE DEF added, grown
  <2> QED  BY ONLY <1>3, <1>5, <1>6, <2>1
<1>8. Total(charged') <= Total(did) + Total(reaped)
  <2>1. work \in [Pids -> Nat] /\ \A p \in Pids : work[p] = did[p] + reaped[p]
    BY <1>1
  <2>2. \A p \in Pids : charged'[p] \in Int /\ work[p] \in Int /\ charged'[p] <= work[p]
    <3> TAKE p \in Pids
    <3>1. charged'[p] + Growth(p)' <= Work(p)' /\ charged'[p] \in Nat
      BY DEF SamplerInv, CoveredByWork, SamplerTypeOK
    <3>2. Growth(p)' = 0
      BY <1>2 DEF Growth, Known, Empty
    <3>3. Work(p)' = work[p] /\ work[p] \in Nat
      BY <1>2, <2>1 DEF Work
    <3> HIDE DEF work
    <3> QED  BY ONLY <3>1, <3>2, <3>3
  <2> HIDE DEF work
  <2>3. Total(charged') <= Total(work)
    BY ONLY <1>0, <1>1, <2>1, <2>2, TotalType, SumMonotone
  <2>4. Total(work) = Total(did) + Total(reaped)
    BY ONLY <1>0, <1>1, <2>1, TotalPlus
  <2> QED  BY ONLY <2>3, <2>4
<1>9. owed' \in Nat /\ report'.excess \in Nat /\ report'.excess <= Total(early) + Total(reaped) + owed'
  <2>0. PICK top \in Busiest : \E shown \in {top \cap WholeDrives, top} :
          LET observed == Total(charged')
              done     == Total([d \in Drives |-> IF d \in shown THEN Done(d) ELSE 0])
          IN /\ report' = [observed |-> observed, device |-> done,
                           unattributed |-> Less(done, observed),
                           excess |-> Less(observed, done)]
             /\ owed' = Missed(shown)
    <3>1. MakeReport
      BY DEF Apply
    <3> QED  BY ONLY <3>1 DEF MakeReport
  <2>1. PICK shown \in {top \cap WholeDrives, top} :
          LET observed == Total(charged')
              done     == Total([d \in Drives |-> IF d \in shown THEN Done(d) ELSE 0])
          IN /\ report' = [observed |-> observed, device |-> done,
                           unattributed |-> Less(done, observed),
                           excess |-> Less(observed, done)]
             /\ owed' = Missed(shown)
    BY ONLY <2>0
  <2> DEFINE done == [d \in Drives |-> IF d \in shown THEN Done(d) ELSE 0]
  <2>2. shown \in SUBSET DOMAIN startDevices
    BY <2>0, <2>1 DEF Busiest
  <2>3. /\ done \in [Drives -> Nat] /\ Missed(shown) \in Nat
        /\ Total(rests) + pending <= Total(done) + Missed(shown) + Total(early)
    BY ONLY <2>2, ReportInv, ShownDrives
  <2>4. report'.excess = Less(Total(charged'), Total(done)) /\ owed' = Missed(shown)
    BY <2>1
  <2> HIDE DEF done
  <2>5. Total(done) \in Nat
    BY ONLY <1>0, <2>3, TotalType
  <2> QED  BY ONLY <1>1, <1>6, <1>8, <2>3, <2>4, <2>5 DEF Less
<1>10. DOMAIN current' = {}
  BY <1>2 DEF Empty
<1>11. ReportAddsUp'
  BY <1>2, <1>7, <1>9 DEF ReportAddsUp, Total
<1> QED  BY <1>1, <1>2, <1>4, <1>9, <1>10, <1>11 DEF ReportInv, Total

\* A byte that arrives is one more on the drive it ends on, which counts it, and takes
\* nothing from any other drive's statistics.
LEMMA ArriveKeeps ==
  ASSUME ReportInv, NEW r \in Routes, Arrive(r), UNCHANGED <<startDevices, early>>
  PROVE  /\ present' \subseteq Drives
         /\ stats' \in [Drives -> Nat] /\ rests' \in [Drives -> Nat]
         /\ Total(rests') = Total(rests) + 1
         /\ \A d \in Drives : early'[d] <= rests'[d]
         /\ \A d \in DOMAIN startDevices' :
              startDevices'[d] \in Nat /\ rests'[d] - early'[d] <= stats'[d] - startDevices'[d]
<1>0. /\ IsFiniteSet(Drives) /\ r.drive \in Drives /\ r.drive \in r.through
  BY SamplerAssumption DEF Route
<1>1. /\ present \subseteq Drives /\ stats \in [Drives -> Nat] /\ rests \in [Drives -> Nat]
      /\ early \in [Drives -> Nat] /\ DOMAIN startDevices \subseteq Drives
      /\ \A d \in Drives : early[d] <= rests[d]
      /\ \A d \in DOMAIN startDevices :
           startDevices[d] \in Nat /\ rests[d] - early[d] <= stats[d] - startDevices[d]
  BY DEF ReportInv
<1>2. /\ stats' = [d \in Drives |-> stats[d] + IF d \in r.through THEN 1 ELSE 0]
      /\ rests' = [rests EXCEPT ![r.drive] = @ + 1] /\ present' = present
      /\ startDevices' = startDevices /\ early' = early
  BY DEF Arrive
<1>3. /\ stats' \in [Drives -> Nat] /\ rests' \in [Drives -> Nat]
      /\ rests \in [Drives -> Int] /\ rests' \in [Drives -> Int]
      /\ rests'[r.drive] - rests[r.drive] = 1
      /\ \A d \in Drives \ {r.drive} : rests'[d] = rests[d]
  BY ONLY <1>0, <1>1, <1>2
<1>4. Total(rests') = Total(rests) + 1
  BY <1>0, <1>3, SumUpdate DEF Total
<1>5. \A d \in Drives : early[d] <= rests'[d]
  BY ONLY <1>0, <1>1, <1>2
<1>6. ASSUME NEW d \in DOMAIN startDevices
      PROVE  rests'[d] - early[d] <= stats'[d] - startDevices[d]
  <2>1. /\ d \in Drives /\ rests[d] \in Nat /\ stats[d] \in Nat /\ early[d] \in Nat
        /\ startDevices[d] \in Nat /\ rests[d] - early[d] <= stats[d] - startDevices[d]
    BY <1>1
  <2>2. CASE d = r.drive
    <3>1. rests'[d] = rests[d] + 1 /\ stats'[d] = stats[d] + 1
      BY ONLY <1>0, <1>1, <1>2, <2>1, <2>2
    <3> QED  BY ONLY <2>1, <3>1
  <2>3. CASE d # r.drive
    <3>1. rests'[d] = rests[d] /\ stats'[d] \in {stats[d], stats[d] + 1}
      BY ONLY <1>0, <1>1, <1>2, <2>1, <2>3
    <3> QED  BY ONLY <2>1, <3>1
  <2> QED  BY <2>2, <2>3
<1> QED  BY <1>1, <1>2, <1>3, <1>4, <1>5, <1>6

\* Every step keeps them in order.
LEMMA FiguresStep ==
  ASSUME SamplerInv, SamplerInv', ReportInv, [SamplerNext]_samplerVars
  PROVE  ReportInv'
<1> DEFINE soon(s) == s \in {"idle", "probe", "snap", "devices"}
<1>0. /\ IsFiniteSet(Pids) /\ IsFiniteSet(Files) /\ IsFiniteSet(Drives)
      /\ did \in [Pids -> Nat] /\ reaped \in [Pids -> Nat]
  BY SamplerAssumption DEF SamplerInv, SamplerTypeOK
<1>1. ASSUME UNCHANGED <<shares, charged, did, reaped, drives, report, owed, current,
                         startDevices, early>>,
             soon(sampling') => soon(sampling)
      PROVE  ReportInv'
  BY ONLY <1>1, ReportInv DEF ReportInv, ReportAddsUp, Total, drives
<1>2. ASSUME NEW kind \in {"sample", "deep"}, NEW host0 \in Hosts, BeginSampling(kind, host0)
      PROVE  ReportInv'
  BY <1>1, <1>2 DEF BeginSampling, tally, firstLook
<1>3. CASE Trace \/ SnapshotFails \/ Wake \/ Finish \/ UNCHANGED samplerVars
  BY <1>1, <1>3 DEF Trace, SnapshotFails, Wake, Finish, samplerVars, reading, tally, host,
                    people, firstLook
<1>4. ASSUME NEW p \in Pids, ReadPid(p) PROVE ReportInv'
  <2>1. \A q \in DOMAIN current' : current'[q].open \in OpenSets
    <3>1. CASE procs[p] # NoProc /\ procs[p].readable
      <4>1. procs[p].open \in OpenSets
        BY <3>1, ProcessType DEF SamplerInv, Process
      <4>2. \A q \in DOMAIN current : current[q].open \in OpenSets
        BY DEF ReportInv
      <4> QED  BY <1>4, <3>1, <4>1, <4>2 DEF ReadPid
    <3>2. CASE ~ (procs[p] # NoProc /\ procs[p].readable)
      BY <1>4, <3>2 DEF ReadPid, ReportInv
    <3> QED  BY <3>1, <3>2
  <2>2. UNCHANGED <<shares, charged, did, reaped, drives, report, owed, startDevices, early,
                    sampling>>
    BY <1>4 DEF ReadPid, tally, host, people, firstLook
  <2> QED  BY ONLY <2>1, <2>2, ReportInv DEF ReportInv, ReportAddsUp, Total, drives
<1>5. CASE KeepFirst
  <2>1. DOMAIN current' = {}
    BY <1>5 DEF KeepFirst, Empty
  <2>2. UNCHANGED <<shares, charged, did, reaped, drives, report, owed, startDevices, early>>
    BY <1>5 DEF KeepFirst, tally, host, people
  <2>3. sampling = "snap"
    BY <1>5 DEF KeepFirst
  <2> QED  BY ONLY <2>1, <2>2, <2>3, ReportInv DEF ReportInv, ReportAddsUp, Total, drives
<1>6. CASE KeepDevices
  <2>1. /\ report = NoReport /\ early' = rests /\ startDevices' = [d \in present |-> stats[d]]
        /\ UNCHANGED <<shares, charged, did, reaped, drives, report, owed, current>>
        /\ sampling' = "wait"
    BY <1>6 DEF KeepDevices, ReportInv, tally, host, people, reading
  <2>2. Total(rests) \in Nat /\ Total(reaped) \in Nat /\ owed \in Nat
    BY <1>0, TotalType DEF ReportInv
  <2>3. report.excess <= Total(early') + Total(reaped) + owed
    BY ONLY <2>1, <2>2 DEF NoReport, Total
  <2>4. /\ present \subseteq Drives /\ stats \in [Drives -> Nat] /\ rests \in [Drives -> Nat]
    BY DEF ReportInv
  <2>5. \A d \in Drives : early'[d] <= rests[d]
    BY ONLY <2>1, <2>4
  <2>6. \A d \in DOMAIN startDevices' :
          startDevices'[d] \in Nat /\ rests[d] - early'[d] <= stats[d] - startDevices'[d]
    BY ONLY <2>1, <2>4
  <2>7. DOMAIN startDevices' \subseteq Drives
    BY ONLY <2>1, <2>4
  <2> QED  BY ONLY <2>1, <2>3, <2>4, <2>5, <2>6, <2>7, ReportInv
              DEF ReportInv, ReportAddsUp, Total, drives
<1>7. CASE Apply
  BY <1>7, FiguresApply
<1>8. ASSUME NEW p \in Pids, DoIo(p) PROVE ReportInv'
  <2>1. /\ UNCHANGED <<shares, charged, reaped, report, owed, current, startDevices, early,
                       sampling>>
        /\ did' = [did EXCEPT ![p] = @ + 1]
    BY <1>8 DEF DoIo, reading, tally, firstLook
  <2>2. Total(did') = Total(did) + 1
    <3>1. /\ did \in [Pids -> Int] /\ did' \in [Pids -> Int] /\ did'[p] - did[p] = 1
          /\ \A q \in Pids \ {p} : did'[q] = did[q]
      BY ONLY <1>0, <2>1
    <3> QED  BY <1>0, <3>1, SumUpdate DEF Total
  <2>3. Total(did) = Total(rests) + pending /\ pending \in Nat /\ Total(rests) \in Nat
    BY <1>0, TotalType DEF ReportInv
  <2>4. CASE (\E r \in Routes : Arrive(r)) /\ pending' = pending
    <3>1. PICK r \in Routes : Arrive(r)
      BY <2>4
    <3>2. /\ present' \subseteq Drives
          /\ stats' \in [Drives -> Nat] /\ rests' \in [Drives -> Nat]
          /\ Total(rests') = Total(rests) + 1
          /\ \A d \in Drives : early'[d] <= rests'[d]
          /\ \A d \in DOMAIN startDevices' :
               startDevices'[d] \in Nat /\ rests'[d] - early'[d] <= stats'[d] - startDevices'[d]
      BY <2>1, <3>1, ArriveKeeps
    <3>3. Total(did') = Total(rests') + pending'
      BY ONLY <2>2, <2>3, <2>4, <3>2
    <3> QED  BY ONLY <2>1, <2>3, <2>4, <3>2, <3>3, ReportInv
                DEF ReportInv, ReportAddsUp, Total
  <2>5. CASE pending' = pending + 1 /\ UNCHANGED <<present, stats, rests>>
    <3>1. Total(did') = Total(rests') + pending' /\ pending' \in Nat
      BY ONLY <2>2, <2>3, <2>5 DEF Total
    <3> QED  BY ONLY <2>1, <2>5, <3>1, ReportInv DEF ReportInv, ReportAddsUp, Total
  <2> QED  BY <1>8, <2>4, <2>5 DEF DoIo
<1>9. CASE WriteBack
  <2>1. /\ UNCHANGED <<shares, charged, did, reaped, report, owed, current, startDevices, early,
                       sampling>>
        /\ pending > 0 /\ pending' = pending - 1
    BY <1>9 DEF WriteBack, reading, tally, people, firstLook
  <2>2. PICK r \in Routes : Arrive(r)
    BY <1>9 DEF WriteBack
  <2>3. /\ present' \subseteq Drives
        /\ stats' \in [Drives -> Nat] /\ rests' \in [Drives -> Nat]
        /\ Total(rests') = Total(rests) + 1
        /\ \A d \in Drives : early'[d] <= rests'[d]
        /\ \A d \in DOMAIN startDevices' :
             startDevices'[d] \in Nat /\ rests'[d] - early'[d] <= stats'[d] - startDevices'[d]
    BY <2>1, <2>2, ArriveKeeps
  <2>4. Total(did) = Total(rests) + pending /\ pending \in Nat /\ Total(rests) \in Nat
    BY <1>0, TotalType DEF ReportInv
  <2>5. Total(did) = Total(rests') + pending' /\ pending' \in Nat
    BY ONLY <2>1, <2>3, <2>4
  <2> QED  BY ONLY <2>1, <2>3, <2>5, ReportInv DEF ReportInv, ReportAddsUp, Total
<1>10. ASSUME NEW d \in Drives, Plug(d) PROVE ReportInv'
  <2>1. /\ UNCHANGED <<shares, charged, did, reaped, report, owed, current, startDevices, early,
                       sampling, stats, rests, pending>>
        /\ present' = present \cup {d}
    BY <1>10 DEF Plug, reading, tally, people, firstLook
  <2> QED  BY ONLY <2>1, ReportInv DEF ReportInv, ReportAddsUp, Total
<1>11. ASSUME NEW left, Changed(left), reaped' \in [Pids -> Nat],
              \A q \in Pids : reaped[q] <= reaped'[q]
       PROVE  ReportInv'
  <2>1. UNCHANGED <<shares, charged, did, drives, report, owed, current, startDevices, early,
                    sampling>>
    BY <1>11 DEF Changed, reading, tally, firstLook
  <2>2. Total(reaped) <= Total(reaped') /\ Total(reaped) \in Nat /\ Total(reaped') \in Nat
    <3>1. \A q \in Pids : reaped[q] \in Int /\ reaped'[q] \in Int
      BY ONLY <1>0, <1>11
    <3> QED  BY ONLY <1>0, <1>11, <3>1, TotalType, SumMonotone
  <2>3. Total(early) \in Nat /\ owed \in Nat /\ report.excess <= Total(early) + Total(reaped) + owed
    BY <1>0, TotalType DEF ReportInv, ReportAddsUp
  <2>4. report.excess \in Int => report'.excess <= Total(early') + Total(reaped') + owed'
    BY ONLY <2>1, <2>2, <2>3 DEF Total
  <2>5. report.excess \in Int
    BY DEF ReportInv
  <2> QED  BY ONLY <2>1, <2>4, <2>5, ReportInv DEF ReportInv, ReportAddsUp, Total, drives
<1>12. ASSUME NEW p \in Pids, Exit(p) PROVE ReportInv'
  <2>1. PICK waited \in BOOLEAN :
          reaped' = [q \in Pids |-> reaped[q] + IF waited /\ q = procs[p].parent
                                                  THEN procs[p].io ELSE 0]
    BY <1>12 DEF Exit
  <2>2. procs[p].io \in Nat
    BY <1>12, ProcessType DEF Exit, SamplerInv
  <2>3. reaped' \in [Pids -> Nat] /\ \A q \in Pids : reaped[q] <= reaped'[q]
    BY ONLY <1>0, <2>1, <2>2
  <2> QED  BY <1>11, <1>12, <2>3 DEF Exit
<1>13. ASSUME NEW p \in Pids, Changed({p}), reaped' = reaped PROVE ReportInv'
  <2>1. reaped' \in [Pids -> Nat] /\ \A q \in Pids : reaped[q] <= reaped'[q]
    BY ONLY <1>0, <1>13
  <2> QED  BY <1>11, <1>13, <2>1
<1> QED
  BY <1>2, <1>3, <1>4, <1>5, <1>6, <1>7, <1>8, <1>9, <1>10, <1>12, <1>13
     DEF SamplerNext, SamplerStep, HostStep, ChangeOwner, Fork

\* The bytes charged to files are never more than those charged to processes; and
\* what the processes have in excess of the devices was done before those were
\* looked at, was charged twice because a child ended, went to a drive the report
\* does not show, or has stayed in the page cache: for any processes, files, drives,
\* ways and number of ticks (apply_proc_delta, summarize_devices).
THEOREM ReportsAddUp == SamplerSpec => []ReportAddsUp
<1>1. SamplerInit => ReportInv
  <2> SUFFICES ASSUME SamplerInit PROVE ReportInv
    OBVIOUS
  <2> USE DEF SamplerInit
  <2>1. IsFiniteSet(Pids) /\ IsFiniteSet(Files) /\ IsFiniteSet(Drives) /\ present \subseteq Drives
    BY SamplerAssumption
  <2>2. /\ SumFunctionOnSet(did, Pids) = 0 /\ SumFunctionOnSet(charged, Pids) = 0
        /\ SumFunctionOnSet(reaped, Pids) = 0
    BY <2>1, SumZero
  <2>3. /\ SumFunctionOnSet(shares, Files) = 0
        /\ SumFunctionOnSet(rests, Drives) = 0 /\ SumFunctionOnSet(early, Drives) = 0
    BY <2>1, SumZero
  <2>4. /\ Total(did) = 0 /\ Total(charged) = 0 /\ Total(shares) = 0
        /\ Total(rests) = 0 /\ Total(early) = 0 /\ Total(reaped) = 0
    BY <2>2, <2>3 DEF Total, SumFunction
  <2>5. DOMAIN current = {} /\ DOMAIN startDevices = {}
    BY DEF Empty
  <2> QED  BY <2>1, <2>4, <2>5 DEF ReportInv, ReportAddsUp, NoReport
<1>2. SamplerInv /\ SamplerInv' /\ ReportInv /\ [SamplerNext]_samplerVars => ReportInv'
  BY FiguresStep
<1>3. ReportInv => ReportAddsUp
  BY DEF ReportInv
<1> QED  BY <1>1, <1>2, <1>3, SamplerInvariance, PTL DEF SamplerSpec

(***************************************************************************)
(* DiscardTest. The invariant StaleInv counts what the mounts still owe: a  *)
(* discard whose validation has been overtaken by a mount has been paid for *)
(* by that mount before it is made.                                         *)
(***************************************************************************)
\* A device the command recognises, and that passes the look at the mounts, carries no
\* filesystem: neither the device, nor a partition of it, nor the disk it is on is
\* mounted (validate_discard_request).
LEMMA FreeIsUnused ==
  ASSUME Recognised, request \in Requests, Free(request),
         \A m \in mounted : Mountable(m), mounted \subseteq Disks
  PROVE  ~ InUse(request.disk)
<1> DEFINE d == request.disk
<1>1. d \in Disks /\ (request.full => request.base = d)
  BY DiscardAssumption DEF Request
<1>2. InMountinfo = mounted
  BY DEF Recognised, InMountinfo
<1>3. request.base = d /\ \A m \in mounted : Parent[m] # d
  BY <1>1, <1>2 DEF Recognised, Free
<1>4. d \notin mounted
  BY <1>2 DEF Recognised, Free
<1>5. \A m \in mounted : Parent[d] # m
  BY <1>1 DEF Mountable
<1> QED  BY <1>3, <1>4, <1>5 DEF InUse

\* At most one discard is under way.
LEMMA OvertakenIsBit == Overtaken \in {0, 1}
  BY DEF Overtaken

\* The initial states satisfy the invariant.
LEMMA StaleInit == DiscardInit => StaleInv
<1> SUFFICES ASSUME DiscardInit PROVE StaleInv
  OBVIOUS
<1>1. DiscardTypeOK
  BY DiscardAssumption DEF DiscardInit, DiscardTypeOK, Discarding, Working
<1> QED  BY <1>1 DEF DiscardInit, StaleInv, Recognised

\* Every step keeps the types.
LEMMA DiscardTypes == DiscardTypeOK /\ [DiscardNext]_discardVars => DiscardTypeOK'
<1> SUFFICES ASSUME DiscardTypeOK, [DiscardNext]_discardVars PROVE DiscardTypeOK'
  OBVIOUS
<1> USE DiscardAssumption DEF DiscardTypeOK, Discarding, Working
<1>1. ASSUME NEW r \in Requests, NEW m \in SUBSET Disks, NEW unseen \in Unseen,
             \A d \in m : Mountable(d), BeginDiscard(r, m \cup {Root}, unseen)
      PROVE  DiscardTypeOK'
  BY <1>1 DEF BeginDiscard, Mountable
<1>2. CASE Validate
  BY <1>2 DEF Validate, Mountable
<1>3. CASE OpenDisk
  BY <1>3 DEF OpenDisk, Mountable
<1>4. CASE DiscardRange
  <2>1. PICK ok \in BOOLEAN : /\ results' = Append(results, ok)
                              /\ dirty' = IF ok /\ InUse(request.disk) THEN dirty + 1 ELSE dirty
    BY <1>4 DEF DiscardRange
  <2>2. results' \in Seq(BOOLEAN)
    BY <2>1
  <2>3. dirty' \in Nat
    BY <2>1
  <2> QED  BY <1>4, <2>2, <2>3 DEF DiscardRange, Mountable
<1>5. ASSUME NEW d \in Disks, Mount(d) PROVE DiscardTypeOK'
  BY <1>5 DEF Mount, Mountable
<1>6. ASSUME NEW d \in Disks, Unmount(d) PROVE DiscardTypeOK'
  BY <1>6 DEF Unmount, Mountable
<1>7. CASE UNCHANGED discardVars
  BY <1>7 DEF discardVars, Mountable
<1> QED
  BY <1>1, <1>2, <1>3, <1>4, <1>5, <1>6, <1>7 DEF DiscardNext, DiscardStep

\* Every step keeps the account of what is owed.
LEMMA StaleStep == StaleInv /\ [DiscardNext]_discardVars => StaleInv'
<1> SUFFICES ASSUME StaleInv, [DiscardNext]_discardVars PROVE StaleInv'
  OBVIOUS
<1>1. DiscardTypeOK /\ DiscardTypeOK'
  BY DiscardTypes DEF StaleInv
<1>2. /\ dirty \in Nat /\ mounts \in Nat /\ dirty' \in Nat /\ mounts' \in Nat
  BY <1>1, DiscardAssumption DEF DiscardTypeOK
<1>3. Overtaken \in {0, 1} /\ Overtaken' \in {0, 1}
  BY DEF Overtaken
<1>4. ASSUME NEW r \in Requests, NEW m \in SUBSET Disks, NEW unseen \in Unseen,
             BeginDiscard(r, m \cup {Root}, unseen)
      PROVE  dirty' = dirty /\ Overtaken' = 0 /\ mounts' = mounts /\ discarding = "idle"
  BY <1>4 DEF BeginDiscard, Overtaken
<1> SUFFICES ASSUME Recognised' PROVE dirty' + Overtaken' <= mounts'
  BY <1>1 DEF StaleInv
<1>5. ASSUME NEW r \in Requests, NEW m \in SUBSET Disks, NEW unseen \in Unseen,
             BeginDiscard(r, m \cup {Root}, unseen)
      PROVE  dirty' + Overtaken' <= mounts'
  <2>1. dirty = 0
    BY <1>4, <1>5 DEF StaleInv, DiscardTypeOK
  <2> QED  BY <1>2, <1>4, <1>5, <2>1
<1>6. CASE discarding # "idle" /\ UNCHANGED <<request, hidden>>
  <2>1. Recognised /\ dirty + Overtaken <= mounts
    BY <1>6 DEF Recognised, StaleInv, Mountable
  <2>2. CASE Validate
    <3>1. CASE Free(request)
      <4>1. request \in Requests
        BY <1>1, <1>6 DEF DiscardTypeOK
      <4>2. ~ InUse(request.disk)
        BY <1>1, <2>1, <3>1, <4>1, FreeIsUnused DEF DiscardTypeOK
      <4> QED  BY <1>2, <1>3, <2>1, <2>2, <4>2 DEF Validate, Overtaken, InUse
    <3>2. CASE ~ Free(request)
      BY <1>2, <1>3, <2>1, <2>2, <3>2 DEF Validate, Overtaken
    <3> QED  BY <3>1, <3>2
  <2>3. CASE OpenDisk
    BY <1>2, <2>1, <2>3 DEF OpenDisk, Overtaken, InUse
  <2>4. CASE DiscardRange
    <3>1. Overtaken' = 0
      BY <2>4 DEF DiscardRange, Overtaken
    <3>2. dirty' <= dirty + Overtaken
      BY <1>2, <1>3, <2>4 DEF DiscardRange, Overtaken
    <3> QED  BY <1>2, <1>3, <2>1, <2>4, <3>1, <3>2 DEF DiscardRange
  <2>5. ASSUME NEW d \in Disks, Mount(d) PROVE dirty' + Overtaken' <= mounts'
    <3>1. dirty' = dirty /\ mounts' = mounts + 1
      BY <2>5 DEF Mount
    <3>2. dirty + Overtaken <= mounts
      BY <2>1
    <3>3. /\ Overtaken \in Int /\ 0 <= Overtaken
          /\ Overtaken' \in Int /\ Overtaken' <= 1
      BY ONLY <1>3
    <3>4. \A x, y, z, w \in Int : x + y <= w /\ 0 <= y /\ z <= 1 => x + z <= w + 1
      OBVIOUS
    <3>5. dirty \in Int /\ mounts \in Int
      BY ONLY <1>2
    <3>6. dirty + Overtaken' <= mounts + 1
      BY ONLY <3>2, <3>3, <3>4, <3>5
    <3> QED  BY ONLY <3>1, <3>6
  <2>6. ASSUME NEW d \in Disks, Unmount(d) PROVE dirty' + Overtaken' <= mounts'
    BY <1>2, <2>1, <2>6 DEF Unmount, Overtaken, InUse
  <2>7. CASE UNCHANGED discardVars
    BY <1>2, <2>1, <2>7 DEF discardVars, Overtaken, InUse
  <2>8. ASSUME NEW r, NEW m, NEW unseen, BeginDiscard(r, m, unseen) PROVE FALSE
    BY <1>6, <2>8 DEF BeginDiscard
  <2> QED
    BY <2>2, <2>3, <2>4, <2>5, <2>6, <2>7, <2>8 DEF DiscardNext, DiscardStep
<1>7. \/ \E r \in Requests, m \in SUBSET Disks, unseen \in Unseen :
           BeginDiscard(r, m \cup {Root}, unseen)
      \/ UNCHANGED <<request, hidden>> /\ discarding # "idle"
      \/ UNCHANGED discardVars
  BY DEF DiscardNext, DiscardStep, Validate, OpenDisk, DiscardRange, Mount, Unmount, Working
<1>8. CASE UNCHANGED discardVars
  BY <1>6, <1>8 DEF discardVars, Recognised
<1> QED  BY <1>5, <1>6, <1>7, <1>8

\* The account of what the mounts owe is kept for ever (probe_discard).
THEOREM StaleInvariance == DiscardSpec => []StaleInv
<1> QED  BY StaleInit, StaleStep, PTL DEF DiscardSpec

\* For any devices, partitions, requests and mounts: as long as the path is one the
\* command recognises and mountinfo lists the mounts, no more discards hit a
\* filesystem than filesystems were mounted while the command ran
\* (probe_discard, run_discard_test).
THEOREM FewStaleDiscards == DiscardSpec => []StaleDiscardsAreFew
<1>1. StaleInv => StaleDiscardsAreFew
  BY OvertakenIsBit, DiscardAssumption DEF StaleInv, StaleDiscardsAreFew, DiscardTypeOK
<1> QED  BY <1>1, StaleInvariance, PTL

(***************************************************************************)
(* FileTrace. A sector of a file, a sector of an extent and a sector of the *)
(* disk are followed one by one: the invariant TraceInv says that the       *)
(* extents of the present file, as far as it has been mapped, cover each    *)
(* sector once and give its place (Right, Apart, Whole), and that the       *)
(* ranges of the files before it are made of such extents (Owners).         *)
(***************************************************************************)

(***************************************************************************)
(* The extents of a layout.                                                 *)
(***************************************************************************)
\* Where the blocks of one file may be, and those that are all on the disk.
Layout  == Seq(Nat \cup {Delayed})
Written == {l \in Layout : Delayed \notin ToSet(l)}

\* A block that is somewhere.
Held(l, k) == k \in 1..Len(l) /\ l[k] # Hole

\* A layout is a sequence of block numbers, and of blocks with no place yet.
LEMMA LayoutType ==
  ASSUME NEW l \in Layout
  PROVE  /\ Len(l) \in Nat /\ DOMAIN l = 1..Len(l)
         /\ \A k \in 1..Len(l) : l[k] \in Nat \cup {Delayed}
         /\ l \in Written => \A k \in 1..Len(l) : l[k] \in Nat /\ l[k] # Delayed
<1>1. Len(l) \in Nat /\ DOMAIN l = 1..Len(l) /\ \A k \in 1..Len(l) : l[k] \in Nat \cup {Delayed}
  BY DEF Layout
<1>2. ASSUME l \in Written, NEW k \in 1..Len(l)
      PROVE  l[k] \in Nat /\ l[k] # Delayed
  BY <1>1, <1>2 DEF Written, ToSet
<1> QED  BY <1>1, <1>2

\* A run starts and ends at a block, and at nothing it could be joined with.
LEMMA RunType ==
  ASSUME NEW l \in Layout, NEW r \in Runs(l)
  PROVE  /\ r \in (1..Len(l)) \X (1..Len(l))
         /\ Len(l) \in Nat /\ r[1] \in Nat /\ r[2] \in Nat
         /\ 1 <= r[1] /\ r[1] <= r[2] /\ r[2] <= Len(l) /\ l[r[1]] # Hole
         /\ \A k \in r[1]..(r[2] - 1) : Joined(l[k], l[k + 1])
         /\ r[1] = 1 \/ ~ Joined(l[r[1] - 1], l[r[1]])
         /\ r[2] = Len(l) \/ ~ Joined(l[r[2]], l[r[2] + 1])
<1>1. Len(l) \in Nat
  BY LayoutType
<1>2. /\ r \in (1..Len(l)) \X (1..Len(l)) /\ r[1] <= r[2] /\ l[r[1]] # Hole
      /\ \A k \in r[1]..(r[2] - 1) : Joined(l[k], l[k + 1])
      /\ r[1] = 1 \/ ~ Joined(l[r[1] - 1], l[r[1]])
      /\ r[2] = Len(l) \/ ~ Joined(l[r[2]], l[r[2] + 1])
  BY DEF Runs
<1>3. r[1] \in 1..Len(l) /\ r[2] \in 1..Len(l)
  BY <1>2
<1> QED  BY <1>1, <1>2, <1>3

\* Two runs with a block in common are one.
LEMMA RunsApart ==
  ASSUME NEW l \in Layout, NEW r \in Runs(l), NEW s \in Runs(l),
         NEW k \in Nat, r[1] <= k, k <= r[2], s[1] <= k, k <= s[2]
  PROVE  r = s
<1>1. ASSUME NEW a \in Runs(l), NEW c \in Runs(l), k <= a[2], c[1] <= k
      PROVE  ~ (a[1] < c[1])
  <2> DEFINE i == c[1] - 1
  <2>1. a[1] \in Nat /\ a[2] \in Nat /\ c[1] \in Nat /\ 1 <= a[1]
    BY RunType
  <2>2. \A j \in a[1]..(a[2] - 1) : Joined(l[j], l[j + 1])
    BY RunType
  <2>3. c[1] = 1 \/ ~ Joined(l[i], l[c[1]])
    BY RunType
  <2>4. ASSUME a[1] < c[1] PROVE i \in a[1]..(a[2] - 1) /\ i + 1 = c[1] /\ c[1] # 1
    BY <1>1, <2>1, <2>4
  <2> HIDE DEF i
  <2>5. ASSUME a[1] < c[1] PROVE FALSE
    BY <2>2, <2>3, <2>4, <2>5
  <2> QED  BY <2>5
<1>2. ASSUME NEW a \in Runs(l), NEW c \in Runs(l), k <= a[2], c[1] <= k
      PROVE  ~ (a[2] < c[2])
  <2> DEFINE i == a[2]
  <2>1. i \in Nat /\ c[2] \in Nat /\ c[1] \in Nat /\ c[2] <= Len(l) /\ Len(l) \in Nat
    BY RunType
  <2>2. \A j \in c[1]..(c[2] - 1) : Joined(l[j], l[j + 1])
    BY RunType
  <2>3. i = Len(l) \/ ~ Joined(l[i], l[i + 1])
    BY RunType
  <2>4. ASSUME i < c[2] PROVE i \in c[1]..(c[2] - 1) /\ i # Len(l)
    BY <1>2, <2>1, <2>4
  <2>5. ASSUME i < c[2] PROVE FALSE
    BY <2>2, <2>3, <2>4, <2>5
  <2> QED  BY <2>5
<1>3. r \in (1..Len(l)) \X (1..Len(l)) /\ s \in (1..Len(l)) \X (1..Len(l))
  BY RunType
<1>4. ~ (r[1] < s[1]) /\ ~ (s[1] < r[1]) /\ ~ (r[2] < s[2]) /\ ~ (s[2] < r[2])
  BY <1>1, <1>2
<1>5. r[1] = s[1] /\ r[2] = s[2]
  BY <1>4, RunType
<1> QED  BY <1>3, <1>5

\* Every block that is somewhere lies in a run.
LEMMA RunAround ==
  ASSUME NEW l \in Layout, NEW k \in 1..Len(l), l[k] # Hole
  PROVE  \E r \in Runs(l) : r[1] <= k /\ k <= r[2]
<1>0. Len(l) \in Nat
  BY LayoutType
<1> DEFINE Before == {a \in 1..k : \A j \in a..(k - 1) : Joined(l[j], l[j + 1])}
           After  == {c \in k..Len(l) : \A j \in k..(c - 1) : Joined(l[j], l[j + 1])}
<1>1. PICK a \in Before : \A x \in Before : a <= x
  <2>1. k \in Before /\ Before \subseteq Nat
    BY <1>0
  <2> HIDE DEF Before
  <2> QED  BY <2>1, LeastNatural
<1>2. PICK c \in After : \A x \in After : c >= x
  <2> DEFINE Left == {Len(l) - x : x \in After}
  <2>1. k \in After /\ After \subseteq k..Len(l)
    BY <1>0
  <2> HIDE DEF After
  <2>2. Left # {} /\ Left \subseteq Nat
    BY <1>0, <2>1
  <2>3. PICK n \in Left : \A m \in Left : n <= m
    <3> HIDE DEF Left
    <3> QED  BY <2>2, LeastNatural
  <2>4. PICK x \in After : n = Len(l) - x
    OBVIOUS
  <2>5. \A y \in After : n <= Len(l) - y
    BY <2>3
  <2>6. \A y \in After : x >= y
    BY <1>0, <2>1, <2>4, <2>5
  <2> QED  BY <2>6
<1>3. a \in 1..k /\ c \in k..Len(l) /\ k \in 1..Len(l)
  OBVIOUS
<1>4. \A j \in a..(c - 1) : Joined(l[j], l[j + 1])
  <2> TAKE j \in a..(c - 1)
  <2>1. CASE j < k
    <3>1. j \in a..(k - 1)
      BY <1>3, <2>1
    <3> QED  BY <1>1, <3>1
  <2>2. CASE ~ (j < k)
    <3>1. j \in k..(c - 1)
      BY <1>3, <2>2
    <3> QED  BY <1>2, <3>1
  <2> QED  BY <2>1, <2>2
<1>5. l[a] # Hole
  <2>1. CASE a = k
    BY <2>1
  <2>2. CASE a # k
    <3>1. a \in a..(c - 1)
      BY <1>3, <2>2
    <3>2. Joined(l[a], l[a + 1])
      BY <1>4, <3>1
    <3> QED  BY <3>2, FileTraceAssumption DEF Joined, Hole
  <2> QED  BY <2>1, <2>2
<1>6. a = 1 \/ ~ Joined(l[a - 1], l[a])
  <2> SUFFICES ASSUME a # 1, Joined(l[a - 1], l[a]) PROVE FALSE
    OBVIOUS
  <2>1. a - 1 \in 1..k /\ (a - 1) + 1 = a
    BY <1>3
  <2>2. ASSUME NEW j \in (a - 1)..(k - 1) PROVE Joined(l[j], l[j + 1])
    <3>1. CASE j = a - 1
      BY <2>1, <3>1
    <3>2. CASE j # a - 1
      <4>1. j \in a..(k - 1)
        BY <1>3, <3>2
      <4> QED  BY <1>1, <4>1
    <3> QED  BY <3>1, <3>2
  <2>3. a - 1 \in Before
    BY <2>1, <2>2
  <2>4. a <= a - 1
    BY <1>1, <2>3
  <2> QED  BY <1>3, <2>4
<1>7. c = Len(l) \/ ~ Joined(l[c], l[c + 1])
  <2> SUFFICES ASSUME c # Len(l), Joined(l[c], l[c + 1]) PROVE FALSE
    OBVIOUS
  <2>1. c + 1 \in k..Len(l) /\ (c + 1) - 1 = c
    BY <1>0, <1>3
  <2>2. ASSUME NEW j \in k..((c + 1) - 1) PROVE Joined(l[j], l[j + 1])
    <3>1. CASE j = c
      BY <3>1
    <3>2. CASE j # c
      <4>1. j \in k..(c - 1)
        BY <1>3, <3>2
      <4> QED  BY <1>2, <4>1
    <3> QED  BY <3>1, <3>2
  <2>3. c + 1 \in After
    BY <2>1, <2>2
  <2>4. c >= c + 1
    BY <1>2, <2>3
  <2> QED  BY <1>3, <2>4
<1> HIDE DEF Before, After
<1> DEFINE r == <<a, c>>
<1>8. /\ r \in (1..Len(l)) \X (1..Len(l)) /\ r[1] = a /\ r[2] = c
      /\ a <= c /\ a <= k /\ k <= c
  BY <1>0, <1>3
<1> HIDE DEF r
<1>9. r \in Runs(l)
  BY <1>4, <1>5, <1>6, <1>7, <1>8 DEF Runs
<1> QED  BY <1>8, <1>9

\* The blocks of a run that is on the disk lie side by side there.
LEMMA RunIsContiguous ==
  ASSUME NEW l \in Written, NEW r \in Runs(l), NEW k \in r[1]..r[2]
  PROVE  /\ k \in 1..Len(l) /\ l[r[1]] \in Nat /\ l[r[1]] # Hole
         /\ l[k] = l[r[1]] + (k - r[1])
<1>0. l \in Layout
  BY DEF Written
<1> DEFINE a == r[1]
<1>1. /\ a \in 1..Len(l) /\ r[2] \in 1..Len(l) /\ l[a] # Hole
      /\ \A j \in a..(r[2] - 1) : Joined(l[j], l[j + 1])
  BY DEF Runs
<1>2. /\ Len(l) \in Nat
      /\ \A j \in 1..Len(l) : l[j] \in Nat /\ l[j] # Delayed
  BY <1>0, LayoutType
<1> HIDE DEF a
<1>3. \A j \in a..r[2] : j \in 1..Len(l)
  BY <1>1, <1>2
<1> DEFINE Off == {j \in a..r[2] : l[j] # l[a] + (j - a)}
<1>4. Off = {}
  <2> SUFFICES ASSUME Off # {} PROVE FALSE
    OBVIOUS
  <2>1. Off \subseteq Nat
    BY <1>1
  <2>2. PICK j \in Off : \A m \in Off : j <= m
    <3> HIDE DEF Off
    <3> QED  BY <2>1, LeastNatural
  <2>3. j \in a..r[2] /\ l[j] # l[a] + (j - a) /\ l[a] \in Nat
    BY <1>1, <1>2
  <2>4. j # a
    BY <1>1, <2>3
  <2>5. j - 1 \in a..(r[2] - 1) /\ (j - 1) + 1 = j /\ j - 1 \in a..r[2]
    <3> DEFINE z == r[2]
    <3>1. a \in Nat /\ z \in Nat /\ j \in a..z
      BY <1>1, <1>2, <2>3
    <3> HIDE DEF z, Off
    <3>2. j - 1 \in a..(z - 1) /\ (j - 1) + 1 = j /\ j - 1 \in a..z
      BY <2>4, <3>1
    <3> QED  BY <3>2 DEF z
  <2>6. l[j - 1] = l[a] + ((j - 1) - a)
    <3>1. j - 1 \notin Off
      <4> SUFFICES ASSUME j - 1 \in Off PROVE FALSE
        OBVIOUS
      <4>1. j <= j - 1
        BY <2>2
      <4> QED  BY <1>1, <2>3, <4>1
    <3> QED  BY <2>5, <3>1
  <2>7. Joined(l[j - 1], l[j])
    BY <1>1, <2>5
  <2>8. l[j] = l[j - 1] + 1
    BY <1>2, <1>3, <2>5, <2>7 DEF Joined
  <2>9. j \in Nat /\ a \in Nat
    BY <1>1, <1>2, <2>3
  <2> DEFINE x == l[a]
  <2>10. l[j] = (x + ((j - 1) - a)) + 1 /\ l[j] # x + (j - a) /\ x \in Nat
    BY <2>3, <2>6, <2>8
  <2> HIDE DEF x
  <2> QED  BY <2>9, <2>10
<1>5. k \in a..r[2] /\ k \notin Off
  BY <1>4 DEF a
<1> QED  BY <1>1, <1>2, <1>3, <1>5 DEF a

(***************************************************************************)
(* What a set of extents says of a layout.                                  *)
(***************************************************************************)
\* For short.
B == BlockSectors

Mapped == ToSet(MapFiles)

\* An extent of whole or part blocks, and the sectors of the file it is for.
Part == [logical : Nat, physical : Nat, length : Nat \ {0}]

Covers(e, o) == e.logical <= o /\ o < e.logical + e.length

\* Sector o of the file is sector x of the partition.
OnDisk(l, o, x) == Held(l, (o \div B) + 1) /\ x = l[(o \div B) + 1] * B + (o % B)

\* Each extent tells the truth about every sector it covers.
Right(l, es) ==
  \A e \in es : \A o \in Nat : Covers(e, o) => OnDisk(l, o, e.physical + (o - e.logical))

\* No two extents cover the same sector.
Apart(es) == \A e, g \in es : \A o \in Nat : Covers(e, o) /\ Covers(g, o) => e = g

\* No sector of the file below n is left out.
Whole(l, es, n) ==
  \A o \in Nat : o < n /\ Held(l, (o \div B) + 1) => \E e \in es : Covers(e, o)

\* A block has sectors.
LEMMA BlockType == B \in Nat \ {0}
  BY FileTraceAssumption DEF B

\* The sectors of an extent are those of the blocks of its run.
LEMMA ExtentCovers ==
  ASSUME NEW l \in Layout, NEW r \in Runs(l)
  PROVE  LET e == ExtentOf(l, r)
         IN /\ e \in Part
            /\ \A o \in Nat : Covers(e, o) <=> r[1] <= (o \div B) + 1 /\ (o \div B) + 1 <= r[2]
<1> DEFINE e == ExtentOf(l, r)
<1>1. /\ Len(l) \in Nat /\ r[1] \in Nat /\ r[2] \in Nat
      /\ 1 <= r[1] /\ r[1] <= r[2] /\ r[2] <= Len(l) /\ l[r[1]] # Hole
  BY RunType
<1> DEFINE a == r[1] - 1
           w == r[2] - a
           head == l[r[1]]
<1>2. a \in Nat /\ w \in Nat \ {0} /\ a + w = r[2]
  BY <1>1
<1>3. e = [logical |-> a * B, physical |-> IF head = Delayed THEN 0 ELSE head * B,
           length |-> w * B]
  <2>1. r[2] - r[1] + 1 = w
    BY <1>1
  <2> QED  BY <2>1 DEF ExtentOf, B
<1>4. head \in Nat \cup {Delayed}
  BY <1>1, LayoutType
<1>5. a * B \in Nat /\ w * B \in Nat \ {0}
  <2> HIDE DEF a, w
  <2>1. w - 1 \in Nat /\ w = (w - 1) + 1
    BY <1>2
  <2> DEFINE v == w - 1
  <2> HIDE DEF v
  <2>2. v \in Nat /\ w = v + 1
    BY <2>1 DEF v
  <2>3. w * B = v * B + B /\ v * B \in Nat
    BY <2>2, BlockType
  <2> QED  BY <1>2, <2>3, BlockType
<1>6. (IF head = Delayed THEN 0 ELSE head * B) \in Nat
  <2> HIDE DEF head
  <2> QED  BY <1>4, BlockType
<1>7. e \in Part
  <2> HIDE DEF a, w, head, e
  <2> QED  BY <1>3, <1>5, <1>6 DEF Part
<1>8. ASSUME NEW o \in Nat
      PROVE  Covers(e, o) <=> r[1] <= (o \div B) + 1 /\ (o \div B) + 1 <= r[2]
  <2> DEFINE q == o \div B
  <2>1. q \in Nat
    BY Division, BlockType
  <2>2. a * B <= o <=> a <= q
    <3> HIDE DEF a
    <3> QED  BY <1>2, MultipleFrom, BlockType
  <2>3. (a + w) * B <= o <=> a + w <= q
    <3> HIDE DEF a, w
    <3>1. a + w \in Nat
      BY <1>2
    <3> QED  BY <3>1, MultipleFrom, BlockType
  <2>4. (a + w) * B = a * B + w * B
    <3> HIDE DEF a, w
    <3> QED  BY <1>2, BlockType
  <2>5. e.logical = a * B /\ e.length = w * B
    <3> HIDE DEF a, w, head, e
    <3> QED  BY <1>3
  <2> DEFINE x == a * B
             y == w * B
  <2>6. x \in Nat /\ y \in Nat /\ (x <= o <=> a <= q) /\ (x + y <= o <=> a + w <= q)
        /\ e.logical = x /\ e.length = y
    BY <1>5, <2>2, <2>3, <2>4, <2>5
  <2>7. (Covers(e, o) <=> a <= q /\ ~ (a + w <= q))
    <3> HIDE DEF x, y, a, w, q, e
    <3> QED  BY <2>6 DEF Covers
  <2>8. (a <= q <=> r[1] <= q + 1) /\ (~ (a + w <= q) <=> q + 1 <= r[2])
    <3> HIDE DEF q, x, y, head
    <3>1. r[1] \in Nat /\ r[2] \in Nat /\ a = r[1] - 1 /\ a + w = r[2]
      BY <1>1, <1>2
    <3> HIDE DEF a, w, e
    <3> DEFINE u == r[1]
               v == r[2]
    <3>2. u \in Nat /\ v \in Nat /\ a = u - 1 /\ a + w = v
      BY <3>1
    <3> HIDE DEF u, v
    <3>3. (a <= q <=> u <= q + 1) /\ (~ (a + w <= q) <=> q + 1 <= v)
      BY <2>1, <3>2
    <3> QED  BY <3>3 DEF u, v
  <2> QED  BY <2>7, <2>8
<1> QED  BY <1>7, <1>8

\* FIEMAP shows a file whole, each sector once, and where it is.
LEMMA ExtentsAreRight ==
  ASSUME NEW l \in Layout
  PROVE  /\ Extents(l) \subseteq Part
         /\ Apart(Extents(l))
         /\ \A n \in Nat : Whole(l, Extents(l), n)
         /\ l \in Written => Right(l, Extents(l))
<1>1. Extents(l) \subseteq Part
  BY ExtentCovers DEF Extents
<1>2. Apart(Extents(l))
  <2> SUFFICES ASSUME NEW r \in Runs(l), NEW s \in Runs(l), NEW o \in Nat,
                      Covers(ExtentOf(l, r), o), Covers(ExtentOf(l, s), o)
               PROVE  r = s
    BY DEF Extents, Apart
  <2>1. (o \div B) + 1 \in Nat
    <3> DEFINE q == o \div B
    <3>1. q \in Nat
      BY Division, BlockType
    <3> HIDE DEF q
    <3>2. q + 1 \in Nat
      BY <3>1
    <3> QED  BY <3>2 DEF q
  <2>2. /\ r[1] <= (o \div B) + 1 /\ (o \div B) + 1 <= r[2]
        /\ s[1] <= (o \div B) + 1 /\ (o \div B) + 1 <= s[2]
    BY ExtentCovers
  <2> QED  BY <2>1, <2>2, RunsApart
<1>3. ASSUME NEW n \in Nat PROVE Whole(l, Extents(l), n)
  <2> SUFFICES ASSUME NEW o \in Nat, Held(l, (o \div B) + 1)
               PROVE  \E e \in Extents(l) : Covers(e, o)
    BY DEF Whole
  <2>1. PICK r \in Runs(l) : r[1] <= (o \div B) + 1 /\ (o \div B) + 1 <= r[2]
    BY RunAround DEF Held
  <2>2. Covers(ExtentOf(l, r), o)
    BY <2>1, ExtentCovers
  <2> QED  BY <2>2 DEF Extents
<1>4. ASSUME l \in Written PROVE Right(l, Extents(l))
  <2> SUFFICES ASSUME NEW r \in Runs(l), NEW o \in Nat, Covers(ExtentOf(l, r), o)
               PROVE  OnDisk(l, o, ExtentOf(l, r).physical + (o - ExtentOf(l, r).logical))
    BY DEF Right, Extents
  <2> DEFINE q == o \div B
             k == q + 1
             m == o % B
             head == l[r[1]]
             a == r[1] - 1
             d == q - a
  <2>1. q \in Nat /\ m \in 0..(B - 1) /\ o = q * B + m
    BY Division, BlockType
  <2>2. r[1] <= k /\ k <= r[2] /\ r[1] \in Nat /\ r[2] \in Nat /\ 1 <= r[1]
    BY ExtentCovers, RunType
  <2>3. k \in r[1]..r[2]
    BY <2>1, <2>2
  <2>4. /\ k \in 1..Len(l) /\ head \in Nat /\ head # Hole
        /\ l[k] = head + (k - r[1])
    BY <1>4, <2>3, RunIsContiguous
  <2>5. head # Delayed
    BY <2>4, FileTraceAssumption
  <2>6. ExtentOf(l, r).physical = head * B /\ ExtentOf(l, r).logical = a * B
    BY <2>5 DEF ExtentOf, B
  <2>7. a \in Nat /\ d \in Nat /\ q = a + d /\ l[k] = head + d
    <3>1. a \in Nat /\ d \in Nat /\ q = a + d /\ k - r[1] = d
      <4> HIDE DEF q, head
      <4> QED  BY <2>1, <2>2
    <3> QED  BY <2>4, <3>1
  <2>8. Held(l, k)
    <3> HIDE DEF head
    <3>1. l[k] # 0
      BY <2>4, <2>7 DEF Hole
    <3> QED  BY <2>4, <3>1 DEF Held, Hole
  <2>9. head * B + (o - a * B) = (head + d) * B + m
    <3> HIDE DEF head, q, m, a, d
    <3>1. q * B = a * B + d * B /\ (head + d) * B = head * B + d * B
      BY <2>4, <2>7, BlockType
    <3>2. a * B \in Nat /\ d * B \in Nat /\ head * B \in Nat /\ m \in Nat
      BY <2>1, <2>4, <2>7, BlockType
    <3> DEFINE x == a * B
               y == d * B
               z == head * B
    <3>3. o = (x + y) + m /\ (head + d) * B = z + y /\ x \in Nat /\ y \in Nat /\ z \in Nat
      BY <2>1, <3>1, <3>2
    <3> HIDE DEF x, y, z
    <3>4. z + (o - x) = (z + y) + m
      BY <3>2, <3>3
    <3> QED  BY <3>3, <3>4 DEF x, z
  <2>10. ExtentOf(l, r).physical + (o - ExtentOf(l, r).logical) = l[k] * B + m
    BY <2>6, <2>7, <2>9
  <2> HIDE DEF head, a, d
  <2> QED  BY <2>8, <2>10 DEF OnDisk
<1> QED  BY <1>1, <1>2, <1>3, <1>4

\* Its extents come one after the other.
LEMMA ExtentsInOrder ==
  ASSUME NEW l \in Layout, NEW e \in Extents(l), NEW g \in Extents(l)
  PROVE  /\ e \in Part /\ g \in Part
         /\ e.logical < g.logical => EndOf(e) <= g.logical
         /\ e.logical = g.logical => e = g
<1>1. e \in Part /\ g \in Part /\ Apart(Extents(l))
  BY ExtentsAreRight
<1>2. /\ e.logical \in Nat /\ e.length \in Nat \ {0}
      /\ g.logical \in Nat /\ g.length \in Nat \ {0}
  BY <1>1 DEF Part
<1>3. ASSUME e.logical <= g.logical, ~ (EndOf(e) <= g.logical) PROVE e = g
  <2>1. Covers(e, g.logical) /\ Covers(g, g.logical)
    BY <1>2, <1>3 DEF Covers, EndOf
  <2> QED  BY <1>1, <1>2, <2>1 DEF Apart
<1>4. ASSUME e.logical = g.logical PROVE ~ (EndOf(e) <= g.logical)
  BY <1>2, <1>4 DEF EndOf
<1>5. ASSUME e.logical < g.logical PROVE e # g /\ e.logical <= g.logical
  BY <1>2, <1>5
<1>6. e.logical = g.logical => e = g
  BY <1>2, <1>3, <1>4
<1>7. e.logical < g.logical => EndOf(e) <= g.logical
  BY <1>3, <1>5
<1> QED  BY <1>1, <1>6, <1>7

(***************************************************************************)
(* Block by block.                                                          *)
(***************************************************************************)
\* What FIBMAP answers for one block is right.
LEMMA PieceIsRight ==
  ASSUME NEW l, NEW m \in Nat, Held(l, m + 1), l[m + 1] \in Nat,
         NEW p \in Part, p.logical = m * B, p.physical = l[m + 1] * B, p.length <= B
  PROVE  Right(l, {p})
<1> SUFFICES ASSUME NEW o \in Nat, Covers(p, o)
             PROVE  OnDisk(l, o, p.physical + (o - p.logical))
  BY DEF Right
<1> DEFINE x == m * B
           d == o - x
<1>1. x \in Nat /\ p.length \in Nat
  BY BlockType DEF Part
<1>2. d \in 0..(B - 1) /\ o = x + d
  <2> HIDE DEF x
  <2>1. x <= o /\ o < x + p.length /\ p.length <= B
    BY DEF Covers, x
  <2> QED  BY <1>1, <2>1, BlockType
<1>3. (x + d) \div B = m /\ (x + d) % B = d
  <2> HIDE DEF d
  <2> QED  BY <1>2, BlockType, DivisionIs
<1>4. o \div B = m /\ o % B = d
  <2> HIDE DEF x, d
  <2> QED  BY <1>2, <1>3
<1> HIDE DEF d
<1>5. p.physical + (o - p.logical) = l[m + 1] * B + d
  BY DEF d
<1> QED  BY <1>4, <1>5 DEF OnDisk

\* A piece that starts where the extents so far have ended: a new extent, or a
\* longer last one.
LEMMA PieceAdds ==
  ASSUME NEW l, NEW es \in SUBSET Part, NEW p \in Part,
         Right(l, es), Apart(es), Right(l, {p}), Whole(l, es, p.logical),
         \A e \in es : EndOf(e) <= p.logical,
         NEW new \in SUBSET Part,
         \/ new = es \cup {p}
         \/ \E e \in es : Continues(e, p) /\ new = (es \ {e}) \cup {Longer(e, p)}
  PROVE  /\ Right(l, new) /\ Apart(new) /\ Whole(l, new, EndOf(p))
         /\ \A e \in new : EndOf(e) <= EndOf(p)
<1>1. \A e \in Part : /\ e.logical \in Nat /\ e.physical \in Nat /\ e.length \in Nat
                      /\ 1 <= e.length
  BY DEF Part
<1>2. \A o \in Nat : Covers(p, o) <=> p.logical <= o /\ o < EndOf(p)
  BY DEF Covers, EndOf
<1>3. \A e \in es, o \in Nat : Covers(e, o) => o < p.logical
  <2> TAKE e \in es, o \in Nat
  <2>1. EndOf(e) <= p.logical /\ EndOf(e) \in Nat /\ p.logical \in Nat
    BY <1>1 DEF EndOf
  <2>2. Covers(e, o) => o < EndOf(e)
    BY DEF Covers, EndOf
  <2> QED  BY <2>1, <2>2
<1>4. p.logical \in Nat /\ EndOf(p) \in Nat /\ p.logical < EndOf(p)
  BY <1>1 DEF EndOf
\* What is left out of the first extents is no longer below the piece.
<1>5. ASSUME \A e \in es : \A o \in Nat : Covers(e, o) => \E g \in new : Covers(g, o),
             \A o \in Nat : Covers(p, o) => \E g \in new : Covers(g, o)
      PROVE  Whole(l, new, EndOf(p))
  <2> SUFFICES ASSUME NEW o \in Nat, o < EndOf(p), Held(l, (o \div B) + 1)
               PROVE  \E g \in new : Covers(g, o)
    BY DEF Whole
  <2>1. CASE o < p.logical
    BY <1>5, <2>1 DEF Whole
  <2>2. CASE ~ (o < p.logical)
    BY <1>2, <1>4, <1>5, <2>2
  <2> QED  BY <2>1, <2>2
<1>6. CASE new = es \cup {p}
  <2>1. Right(l, new)
    BY <1>6 DEF Right
  <2>2. Apart(new)
    <3> SUFFICES ASSUME NEW e \in new, NEW g \in new, NEW o \in Nat, Covers(e, o), Covers(g, o)
                 PROVE  e = g
      BY DEF Apart
    <3>1. CASE e \in es /\ g \in es
      BY <3>1 DEF Apart
    <3>2. CASE e \in es /\ g = p
      BY <1>2, <1>3, <1>4, <3>2
    <3>3. CASE e = p /\ g \in es
      BY <1>2, <1>3, <1>4, <3>3
    <3> QED  BY <1>6, <3>1, <3>2, <3>3
  <2>3. Whole(l, new, EndOf(p))
    BY <1>5, <1>6
  <2>4. \A e \in new : EndOf(e) <= EndOf(p)
    <3> SUFFICES ASSUME NEW e \in es PROVE EndOf(e) <= EndOf(p)
      BY <1>4, <1>6
    <3>1. EndOf(e) \in Nat /\ EndOf(e) <= p.logical
      BY <1>1 DEF EndOf
    <3> QED  BY <1>4, <3>1
  <2> QED  BY <2>1, <2>2, <2>3, <2>4
<1>7. ASSUME NEW e \in es, Continues(e, p), new = (es \ {e}) \cup {Longer(e, p)}
      PROVE  /\ Right(l, new) /\ Apart(new) /\ Whole(l, new, EndOf(p))
             /\ \A g \in new : EndOf(g) <= EndOf(p)
  <2> DEFINE h == Longer(e, p)
  <2>1. /\ h.logical = e.logical /\ h.physical = e.physical /\ h.length = e.length + p.length
        /\ h \in new
    BY <1>7 DEF Longer, Part
  <2>2. EndOf(e) = p.logical /\ e.physical + e.length = p.physical
    BY <1>7 DEF Continues
  <2>3. /\ e.logical \in Nat /\ e.physical \in Nat /\ e.length \in Nat
        /\ p.logical \in Nat /\ p.physical \in Nat /\ p.length \in Nat
    BY <1>1
  <2> HIDE DEF h
  <2>4. EndOf(h) = EndOf(p)
    BY <2>1, <2>2, <2>3 DEF EndOf
  <2>5. \A o \in Nat : Covers(h, o) <=> Covers(e, o) \/ Covers(p, o)
    BY <2>1, <2>2, <2>3 DEF Covers, EndOf
  <2>6. new = (es \ {e}) \cup {h}
    BY <1>7 DEF h
  <2>7. Right(l, new)
    <3> SUFFICES ASSUME NEW o \in Nat, Covers(h, o)
                 PROVE  OnDisk(l, o, h.physical + (o - h.logical))
      BY <2>6 DEF Right
    <3>1. CASE Covers(e, o)
      BY <2>1, <3>1 DEF Right
    <3>2. CASE Covers(p, o)
      <4>1. OnDisk(l, o, p.physical + (o - p.logical))
        BY <3>2 DEF Right
      <4>2. p.physical + (o - p.logical) = h.physical + (o - h.logical)
        BY <2>1, <2>2, <2>3 DEF EndOf
      <4> QED  BY <4>1, <4>2
    <3> QED  BY <2>5, <3>1, <3>2
  <2>8. Apart(new)
    <3> SUFFICES ASSUME NEW g \in new, NEW k \in new, NEW o \in Nat, Covers(g, o), Covers(k, o)
                 PROVE  g = k
      BY DEF Apart
    <3>1. CASE g \in es \ {e} /\ k \in es \ {e}
      BY <3>1 DEF Apart
    <3>2. ASSUME NEW x \in es \ {e}, Covers(x, o), Covers(h, o) PROVE FALSE
      <4>1. ~ Covers(p, o)
        BY <1>2, <1>3, <1>4, <3>2
      <4>2. Covers(e, o)
        BY <2>5, <3>2, <4>1
      <4> QED  BY <3>2, <4>2 DEF Apart
    <3> QED  BY <2>6, <3>1, <3>2
  <2>9. Whole(l, new, EndOf(p))
    <3>1. \A g \in es : \A o \in Nat : Covers(g, o) => \E k \in new : Covers(k, o)
      BY <2>1, <2>5, <2>6
    <3>2. \A o \in Nat : Covers(p, o) => \E k \in new : Covers(k, o)
      BY <2>1, <2>5
    <3> QED  BY <1>5, <3>1, <3>2
  <2>10. \A g \in new : EndOf(g) <= EndOf(p)
    <3> SUFFICES ASSUME NEW g \in es PROVE EndOf(g) <= EndOf(p)
      BY <1>4, <2>4, <2>6
    <3>1. EndOf(g) \in Nat /\ EndOf(g) <= p.logical
      BY <1>1 DEF EndOf
    <3> QED  BY <1>4, <3>1
  <2> QED  BY <2>7, <2>8, <2>9, <2>10
<1> QED  BY <1>6, <1>7

\* A block with no place on the disk leaves nothing out.
LEMMA NothingHeld ==
  ASSUME NEW l, NEW es, NEW m \in Nat, Whole(l, es, m * B), ~ Held(l, m + 1),
         NEW n \in Nat, n <= (m + 1) * B
  PROVE  Whole(l, es, n)
<1> SUFFICES ASSUME NEW o \in Nat, o < n, Held(l, (o \div B) + 1)
             PROVE  \E e \in es : Covers(e, o)
  BY DEF Whole
<1> DEFINE q == o \div B
           x == m * B
           y == (m + 1) * B
<1>1. q \in Nat /\ m + 1 \in Nat /\ x \in Nat /\ y \in Nat
  BY Division, BlockType
<1>2. (x <= o <=> m <= q) /\ (y <= o <=> m + 1 <= q)
  BY <1>1, MultipleFrom, BlockType
<1>3. o < y /\ q # m
  <2>1. n <= y
    OBVIOUS
  <2> HIDE DEF y
  <2> QED  BY <1>1, <2>1
<1>4. o < x
  <2> HIDE DEF x, y, q
  <2>1. ~ (m + 1 <= q)
    BY <1>1, <1>2, <1>3
  <2>2. ~ (m <= q)
    BY <1>1, <1>3, <2>1
  <2> QED  BY <1>1, <1>2, <2>2
<1> QED  BY <1>4 DEF Whole

(***************************************************************************)
(* The owner index.                                                         *)
(***************************************************************************)
RangeIn(start, f, e) ==
  [start |-> e.physical + start, end |-> e.physical + start + e.length,
   file |-> f, offset |-> e.logical]

\* Where the partition of a file starts, and what the index needs of the file.
StartFor(f) == StartOf512[PartitionOf(table, f)]

Plainly(f) ==
  /\ \E p \in Partitions : PartitionOf(table, f) = p /\ UnitOf[p] = 1
  /\ Delayed \notin ToSet(seen[f])

\* The ranges of a file are those of extents that show it whole, and right.
Owners(f, es) ==
  /\ es \in SUBSET Part
  /\ Right(seen[f], es) /\ Apart(es) /\ Whole(seen[f], es, FileSectors[f])
  /\ {r \in index : r.file = f} = {RangeIn(StartFor(f), f, e) : e \in es}

\* The partition of a file the index can tell the truth about has a start.
LEMMA StartForType ==
  ASSUME NEW f, Plainly(f)
  PROVE  StartFor(f) \in Nat
BY FileTraceAssumption DEF Plainly, StartFor

\* On 512-byte sectors the range of an extent is where the extent is.
LEMMA RangesOfExtents ==
  ASSUME NEW es \in SUBSET Part, Plainly(Present)
  PROVE  RangesOf(es) = {RangeIn(StartFor(Present), Present, e) : e \in es}
<1> DEFINE f == Present
<1>1. UnitOf[PartitionOf(table, f)] = 1 /\ StartFor(f) \in Nat
  BY StartForType DEF Plainly
<1>2. \A n \in Nat : n \div 1 = n
  <2> TAKE n \in Nat
  <2>1. 1 \in Nat \ {0} /\ 0 \in 0..(1 - 1) /\ n * 1 + 0 = n
    OBVIOUS
  <2>2. (n * 1 + 0) \div 1 = n
    BY <2>1, DivisionIs
  <2> QED  BY <2>1, <2>2
<1>3. ASSUME NEW e \in es
      PROVE  /\ RangeOfExtent(e) = RangeIn(StartFor(f), f, e)
             /\ RangeIn(StartFor(f), f, e).start < RangeIn(StartFor(f), f, e).end
  <2>1. e.physical \in Nat /\ e.length \in Nat /\ 1 <= e.length
    BY DEF Part
  <2>2. e.physical \div 1 = e.physical /\ e.length \div 1 = e.length
    BY <1>2, <2>1
  <2>3. RangeOfExtent(e) = RangeIn(StartFor(f), f, e)
    BY <1>1, <2>2 DEF RangeOfExtent, RangeIn, StartFor
  <2>4. RangeIn(StartFor(f), f, e).start < RangeIn(StartFor(f), f, e).end
    BY <1>1, <2>1 DEF RangeIn
  <2> QED  BY <2>3, <2>4
<1> QED  BY <1>3 DEF RangesOf

\* A sector that a range has is one of the file's, at the offset the range says.
LEMMA FoundIsStored ==
  ASSUME NEW f, NEW es, Owners(f, es), StartFor(f) \in Nat,
         StartFor(f) = StartOf512[TopOf(f)], Len(seen[f]) \in Nat,
         \A k \in 1..Len(seen[f]) : seen[f][k] \in Nat,
         NEW r \in index, r.file = f, NEW lba \in Nat, Has(r, lba)
  PROVE  \E e \in es : \E o \in Nat :
           /\ r = RangeIn(StartFor(f), f, e) /\ o = r.offset + (lba - r.start)
           /\ Covers(e, o) /\ o \in Reach(f) /\ StoredAt(f, o, lba)
<1> DEFINE start == StartFor(f)
<1>0. start \in Nat /\ start = StartFor(f) /\ start = StartOf512[TopOf(f)]
  OBVIOUS
<1> HIDE DEF start
<1>1. PICK e \in es : r = RangeIn(start, f, e)
  BY <1>0 DEF Owners
<1>2. e.logical \in Nat /\ e.physical \in Nat /\ e.length \in Nat
  BY DEF Owners, Part
<1>3. /\ r.start = e.physical + start /\ r.end = e.physical + start + e.length
      /\ r.offset = e.logical
  BY <1>1 DEF RangeIn
<1> DEFINE d == lba - r.start
           o == e.logical + d
<1>4. d \in Nat /\ d < e.length /\ lba = start + (e.physical + d)
  BY <1>0, <1>2, <1>3 DEF Has
<1> HIDE DEF d
<1>5. o \in Nat /\ Covers(e, o) /\ o - e.logical = d
  BY <1>2, <1>4 DEF Covers
<1>6. OnDisk(seen[f], o, e.physical + d)
  BY <1>5 DEF Owners, Right
<1> HIDE DEF o
<1> DEFINE q == o \div B
           m == o % B
           block == seen[f][q + 1]
<1>7. q \in Nat /\ m \in 0..(B - 1) /\ o = q * B + m
  BY <1>5, Division, BlockType
<1>8. /\ q + 1 \in 1..Len(seen[f]) /\ block \in Nat /\ block # Hole
      /\ e.physical + d = block * B + m
  BY <1>6 DEF OnDisk, Held
<1>9. o \in Reach(f)
  <2> DEFINE n == Len(seen[f])
  <2>1. n \in Nat /\ q + 1 <= n
    BY <1>8
  <2> HIDE DEF n, q, m
  <2> DEFINE k == n - (q + 1)
  <2>2. k \in Nat /\ n = (q + 1) + k
    BY <1>7, <2>1
  <2> HIDE DEF k
  <2>3. n * B = q * B + B + k * B /\ k * B \in Nat /\ q * B \in Nat /\ n * B \in Nat
    BY <1>7, <2>2, BlockType
  <2> DEFINE x == q * B
             y == k * B
             z == n * B
  <2>4. x \in Nat /\ y \in Nat /\ z = x + B + y /\ o = x + m
    BY <1>7, <2>3
  <2> HIDE DEF x, y, z
  <2>5. o <= z - 1 /\ z \in Nat
    <3>1. m \in Nat /\ m <= B - 1 /\ B \in Nat /\ o \in Nat
      BY <1>5, <1>7, BlockType
    <3> QED  BY <2>4, <3>1
  <2> QED  BY <1>5, <2>5 DEF Reach, B, n, z
<1>10. StoredAt(f, o, lba)
  <2>1. BlockOf(f, o) = block /\ o % BlockSectors = m
    BY DEF BlockOf, B
  <2>2. PlaceOf(f, o) = start + block * B + m
    BY <1>0, <2>1 DEF PlaceOf, B
  <2> DEFINE x == block * B
  <2>3. e.physical + d = x + m /\ PlaceOf(f, o) = start + x + m
    BY <1>8, <2>2
  <2>4. x \in Nat /\ m \in Nat
    <3>1. block \in Nat
      BY <1>8
    <3> HIDE DEF block, m
    <3>2. m \in Nat
      BY <1>7, BlockType
    <3>3. x \in Nat
      BY <3>1, BlockType, Times
    <3> QED  BY <3>2, <3>3
  <2> HIDE DEF x, m
  <2>5. lba = PlaceOf(f, o)
    BY <1>0, <1>2, <1>4, <2>3, <2>4
  <2> QED  BY <1>8, <2>1, <2>5 DEF StoredAt
<1>11. o = r.offset + (lba - r.start)
  BY <1>3 DEF o, d
<1> QED  BY <1>0, <1>1, <1>5, <1>9, <1>10, <1>11

\* From the place on the partition to the place on the disk.
LEMMA Shifted ==
  ASSUME NEW start \in Nat, NEW x \in Nat, NEW m \in Nat, NEW a \in Nat, NEW c \in Nat,
         NEW w \in Nat, NEW o \in Nat, NEW lba \in Nat,
         lba = start + x + m, c + (o - a) = x + m, a <= o, o < a + w
  PROVE  c + start <= lba /\ lba < c + start + w
OBVIOUS

\* A sector of the file is in one of its ranges.
LEMMA StoredIsFound ==
  ASSUME NEW f, NEW es, Owners(f, es), StartFor(f) \in Nat,
         StartFor(f) = StartOf512[TopOf(f)], Len(seen[f]) \in Nat,
         \A k \in 1..Len(seen[f]) : seen[f][k] \in Nat,
         FileSectors[f] \in Nat, FileSectors[f] <= Len(seen[f]) * B,
         NEW o \in Sectors(f), NEW lba \in Nat, StoredAt(f, o, lba)
  PROVE  \E r \in index : Has(r, lba)
<1> DEFINE start == StartFor(f)
<1>0. start \in Nat /\ start = StartFor(f) /\ start = StartOf512[TopOf(f)]
  OBVIOUS
<1> HIDE DEF start
<1> DEFINE q == o \div B
           m == o % B
           n == Len(seen[f])
           block == seen[f][q + 1]
<1>1. o \in Nat /\ o < FileSectors[f] /\ o < n * B
  <2> DEFINE z == n * B
  <2>1. z \in Nat /\ FileSectors[f] <= z /\ o \in 0..(FileSectors[f] - 1)
    BY BlockType DEF Sectors
  <2> HIDE DEF z
  <2> QED  BY <2>1 DEF z
<1>2. q \in Nat /\ m \in 0..(B - 1) /\ o = q * B + m
  BY <1>1, Division, BlockType
<1>3. q + 1 \in 1..n
  <2>1. n * B <= o <=> n <= q
    <3> HIDE DEF q, n
    <3>1. n \in Nat
      BY DEF n
    <3> QED  BY <1>1, <3>1, MultipleFrom, BlockType DEF q
  <2> DEFINE z == n * B
  <2>2. z \in Nat /\ o < z /\ (z <= o <=> n <= q)
    BY <1>1, <2>1, BlockType
  <2> HIDE DEF z, q
  <2> QED  BY <1>1, <1>2, <2>2
<1>4. block \in Nat /\ block # Hole /\ Held(seen[f], q + 1)
  BY <1>3 DEF StoredAt, BlockOf, B, Held
<1>5. lba = start + block * B + m
  BY <1>0 DEF StoredAt, PlaceOf, BlockOf, B
<1>6. PICK e \in es : Covers(e, o)
  BY <1>1, <1>4 DEF Owners, Whole
<1>7. OnDisk(seen[f], o, e.physical + (o - e.logical))
  BY <1>1, <1>6 DEF Owners, Right
<1>8. e.physical + (o - e.logical) = block * B + m
  BY <1>7 DEF OnDisk
<1>9. e.logical \in Nat /\ e.physical \in Nat /\ e.length \in Nat
  BY DEF Owners, Part
<1>10. PICK r \in index : r = RangeIn(start, f, e)
  BY <1>0 DEF Owners
<1>11. r.start = e.physical + start /\ r.end = e.physical + start + e.length
  BY <1>10 DEF RangeIn
<1>12. Has(r, lba)
  <2> DEFINE x == block * B
             a == e.logical
             c == e.physical
             w == e.length
  <2>1. x \in Nat /\ m \in Nat
    <3>1. block \in Nat /\ B \in Nat
      BY <1>4, BlockType
    <3> HIDE DEF block, m
    <3>2. x \in Nat
      BY <3>1, Times
    <3>3. m \in Nat
      BY <1>2, BlockType
    <3> QED  BY <3>2, <3>3
  <2>2. lba = start + x + m /\ c + (o - a) = x + m
    BY <1>5, <1>8
  <2>3. a <= o /\ o < a + w
    BY <1>6 DEF Covers
  <2>4. a \in Nat /\ c \in Nat /\ w \in Nat /\ r.start = c + start /\ r.end = c + start + w
    BY <1>9, <1>11
  <2> DEFINE y == r.start
             z == r.end
  <2>5. o \in Nat /\ y = c + start /\ z = c + start + w
    BY <1>1, <2>4
  <2> HIDE DEF x, m, a, c, w, y, z
  <2>6. /\ x \in Nat /\ m \in Nat /\ a \in Nat /\ c \in Nat /\ w \in Nat /\ o \in Nat
        /\ start \in Nat
    BY <1>0, <2>1, <2>4, <2>5
  <2>7. c + start <= lba /\ lba < c + start + w
    BY <2>2, <2>3, <2>6, Shifted
  <2>8. r.start <= lba /\ lba < r.end
    BY <2>5, <2>7 DEF y, z
  <2> QED  BY <2>8 DEF Has
<1> QED  BY <1>12

(***************************************************************************)
(* Looking a sector up.                                                     *)
(***************************************************************************)
\* Where the blocks of every file may be: its blocks reach to its end.
Blocks == {s \in [Mapped -> Layout] : \A f \in Mapped : FileSectors[f] <= Len(s[f]) * B}

\* The index holds what it should of the files it can tell the truth about.
IndexOk ==
  /\ seen \in Blocks
  /\ \A r \in index : r.file \in Mapped
  /\ \A f \in Mapped : Plainly(f) => \E es : Owners(f, es)

\* What the index takes for granted, of one file.
LEMMA PlainFiles ==
  ASSUME IndexOk, Plain, NEW f \in Mapped
  PROVE  /\ Plainly(f) /\ StartFor(f) \in Nat /\ StartFor(f) = StartOf512[TopOf(f)]
         /\ Len(seen[f]) \in Nat /\ \A k \in 1..Len(seen[f]) : seen[f][k] \in Nat
         /\ FileSectors[f] \in Nat /\ FileSectors[f] <= Len(seen[f]) * B
<1>1. Plainly(f) /\ StartFor(f) = StartOf512[TopOf(f)]
  BY DEF Plain, Plainly, Mapped, StartFor
<1>2. StartFor(f) \in Nat
  BY <1>1, StartForType
<1>3. seen[f] \in Layout /\ FileSectors[f] <= Len(seen[f]) * B
  BY DEF IndexOk, Blocks
<1>4. seen[f] \in Written
  BY <1>1, <1>3 DEF Plainly, Written
<1>5. Len(seen[f]) \in Nat /\ \A k \in 1..Len(seen[f]) : seen[f][k] \in Nat
  BY <1>3, <1>4, LayoutType
<1>6. FileSectors[f] \in Nat
  BY FileTraceAssumption DEF Mapped
<1> QED  BY <1>1, <1>2, <1>3, <1>5, <1>6

\* A range that has a sector: whose extent it is, and which sector of the file.
LEMMA OwnerOf ==
  ASSUME IndexOk, Plain, NEW f \in Mapped, NEW es, Owners(f, es),
         NEW r \in index, r.file = f, NEW lba \in Nat, Has(r, lba)
  PROVE  \E e \in es : \E o \in Nat :
           /\ r = RangeIn(StartFor(f), f, e) /\ o = r.offset + (lba - r.start)
           /\ Covers(e, o) /\ o \in Reach(f) /\ StoredAt(f, o, lba)
<1>1. /\ StartFor(f) \in Nat /\ StartFor(f) = StartOf512[TopOf(f)]
      /\ Len(seen[f]) \in Nat /\ \A k \in 1..Len(seen[f]) : seen[f][k] \in Nat
  BY PlainFiles
<1> QED  BY <1>1, FoundIsStored

\* A range is one, and has a sector.
LEMMA RangeType ==
  ASSUME IndexOk, Plain, NEW r \in index
  PROVE  /\ r \in [start : Nat, end : Nat, file : Mapped, offset : Nat]
         /\ r.start < r.end /\ r # NoRange
<1> DEFINE f == r.file
<1>1. f \in Mapped
  BY DEF IndexOk
<1>2. Plainly(f) /\ StartFor(f) \in Nat
  BY <1>1, PlainFiles
<1>3. PICK es : Owners(f, es)
  BY <1>1, <1>2 DEF IndexOk
<1>4. PICK e \in es : r = RangeIn(StartFor(f), f, e)
  BY <1>3 DEF Owners
<1>5. /\ e.logical \in Nat /\ e.physical \in Nat /\ e.length \in Nat /\ 1 <= e.length
  BY <1>3 DEF Owners, Part
<1> DEFINE t == StartFor(f)
<1> HIDE DEF f
<1>6. RangeIn(t, f, e) \in [start : Nat, end : Nat, file : Mapped, offset : Nat]
  BY <1>1, <1>2, <1>5 DEF RangeIn
<1>7. RangeIn(t, f, e).start < RangeIn(t, f, e).end
  BY <1>2, <1>5 DEF RangeIn
<1>8. r # NoRange
  BY <1>4, <1>6, FileTraceAssumption DEF Mapped
<1> QED  BY <1>4, <1>6, <1>7, <1>8

\* Unless blocks are shared, no two ranges have a sector in common.
LEMMA RangesMeetOnce ==
  ASSUME IndexOk, Plain, Unshared, NEW r \in index, NEW s \in index,
         NEW lba \in Nat, Has(r, lba), Has(s, lba)
  PROVE  r = s
<1> DEFINE f == r.file
           g == s.file
<1>1. f \in Mapped /\ g \in Mapped
  BY DEF IndexOk
<1>2. Plainly(f) /\ Plainly(g)
  BY <1>1, PlainFiles
<1>3. PICK es : Owners(f, es)
  BY <1>1, <1>2 DEF IndexOk
<1>4. PICK hs : Owners(g, hs)
  BY <1>1, <1>2 DEF IndexOk
<1>5. PICK e \in es, o \in Nat : /\ r = RangeIn(StartFor(f), f, e)
                                 /\ Covers(e, o) /\ o \in Reach(f) /\ StoredAt(f, o, lba)
  BY <1>1, <1>3, OwnerOf
<1>6. PICK h \in hs, q \in Nat : /\ s = RangeIn(StartFor(g), g, h)
                                 /\ Covers(h, q) /\ q \in Reach(g) /\ StoredAt(g, q, lba)
  BY <1>1, <1>4, OwnerOf
<1>7. BlockOf(f, o) # Hole /\ StoredAt(g, q, PlaceOf(f, o))
  BY <1>5, <1>6 DEF StoredAt
<1>8. f = g /\ o = q
  <2> HIDE DEF f, g
  <2> QED  BY <1>1, <1>5, <1>6, <1>7 DEF Unshared, Mapped
<1>9. \E x \in es : s = RangeIn(StartFor(f), f, x) /\ Covers(x, o)
  <2>0. \A i \in index : i.file = f => \A j \in Nat : Has(i, j) =>
          \E x \in es : \E y \in Nat : /\ i = RangeIn(StartFor(f), f, x) /\ Covers(x, y)
                                       /\ y \in Reach(f) /\ StoredAt(f, y, j)
    <3> TAKE i \in index
    <3> HAVE i.file = f
    <3> TAKE j \in Nat
    <3> HAVE Has(i, j)
    <3> HIDE DEF f
    <3> QED  BY <1>1, <1>3, OwnerOf
  <2>1. s.file = f
    BY <1>8
  <2>2. PICK x \in es, y \in Nat : /\ s = RangeIn(StartFor(f), f, x) /\ Covers(x, y)
                                   /\ y \in Reach(f) /\ StoredAt(f, y, lba)
    BY <2>0, <2>1
  <2>3. y = o
    <3>1. StoredAt(f, y, PlaceOf(f, o))
      BY <1>5, <2>2 DEF StoredAt
    <3> HIDE DEF f
    <3> QED  BY <1>1, <1>5, <1>7, <2>2, <3>1 DEF Unshared, Mapped
  <2> QED  BY <2>2, <2>3
<1>10. PICK x \in es : s = RangeIn(StartFor(f), f, x) /\ Covers(x, o)
  BY <1>9
<1>11. x = e
  BY <1>3, <1>5, <1>10 DEF Owners, Apart
<1> QED  BY <1>5, <1>10, <1>11

\* Then the comparison is in order.
LEMMA IndexInOrder ==
  ASSUME IndexOk, Plain, Unshared, NEW lba \in Nat
  PROVE  InOrder(index, lba)
<1> SUFFICES ASSUME NEW r \in index, NEW s \in index, r.start <= s.start
             PROVE  Side(r, lba) <= Side(s, lba)
  BY DEF InOrder
<1>1. /\ r.start \in Nat /\ r.end \in Nat /\ r.start < r.end
      /\ s.start \in Nat /\ s.end \in Nat /\ s.start < s.end
  BY RangeType
<1>2. CASE lba < r.start
  <2>1. lba < s.start
    BY <1>1, <1>2
  <2> QED  BY <1>2, <2>1 DEF Side
<1>3. CASE lba >= r.end
  <2>1. ~ (lba < r.start)
    BY <1>1, <1>3
  <2> QED  BY <1>3, <2>1 DEF Side
<1>4. CASE ~ (lba < r.start) /\ ~ (lba >= r.end)
  <2>1. Side(r, lba) = 1
    BY <1>4 DEF Side
  <2>2. ~ (lba < s.start) => ~ (lba >= s.end)
    <3> SUFFICES ASSUME ~ (lba < s.start), lba >= s.end PROVE FALSE
      OBVIOUS
    <3>1. Has(r, s.start) /\ Has(s, s.start)
      BY <1>1, <1>4 DEF Has
    <3>2. r = s
      BY <1>1, <3>1, RangesMeetOnce
    <3> QED  BY <1>4, <3>2
  <2> QED  BY <2>1, <2>2 DEF Side
<1> QED  BY <1>2, <1>3, <1>4

\* What a lookup finds, or does not find, is right.
LEMMA LookupIsRight ==
  ASSUME IndexOk, Plain, hit.lba \in Filter, hit.range \in SearchResults(index, hit.lba)
  PROVE  HitIsTheByte
<1> DEFINE lba == hit.lba
           r == hit.range
<1>1. lba \in Nat
  BY FileTraceAssumption
<1>2. CASE r # NoRange
  <2>1. r \in index /\ Has(r, lba)
    BY <1>2 DEF SearchResults
  <2> DEFINE f == r.file
  <2>2. f \in Mapped
    BY <2>1 DEF IndexOk
  <2>3. Plainly(f)
    BY <2>2, PlainFiles
  <2>4. PICK es : Owners(f, es)
    BY <2>2, <2>3 DEF IndexOk
  <2>5. \E o \in Nat : o = r.offset + (lba - r.start) /\ StoredAt(f, o, lba)
    <3> HIDE DEF lba
    <3> QED  BY <1>1, <2>1, <2>2, <2>4, OwnerOf
  <2> QED  BY <1>2, <2>5 DEF HitIsTheByte
<1>3. CASE r = NoRange
  <2> SUFFICES ASSUME Unshared, NEW f \in Mapped, NEW o \in Sectors(f), StoredAt(f, o, lba)
               PROVE  FALSE
    BY <1>3 DEF HitIsTheByte, Mapped
  <2>1. /\ Plainly(f) /\ StartFor(f) \in Nat /\ StartFor(f) = StartOf512[TopOf(f)]
        /\ Len(seen[f]) \in Nat /\ \A k \in 1..Len(seen[f]) : seen[f][k] \in Nat
        /\ FileSectors[f] \in Nat /\ FileSectors[f] <= Len(seen[f]) * B
    BY PlainFiles
  <2>2. PICK es : Owners(f, es)
    BY <2>1 DEF IndexOk
  <2>4. \E s \in index : Has(s, lba)
    <3> HIDE DEF lba
    <3> QED  BY <1>1, <2>1, <2>2, StoredIsFound
  <2>5. InOrder(index, lba)
    <3> HIDE DEF lba
    <3> QED  BY <1>1, IndexInOrder
  <2>6. r \in index
    BY <2>4, <2>5 DEF SearchResults
  <2>7. r # NoRange
    <3> HIDE DEF r
    <3> QED  BY <2>6, RangeType
  <2> QED  BY <1>3, <2>7
<1> QED  BY <1>2, <1>3

(***************************************************************************)
(* The invariant.                                                           *)
(***************************************************************************)
\* The number of files.
LastFile == Len(MapFiles)

\* What each way of mapping has of the present file, whose blocks are those of l.
FiemapOk(l) == from \in Nat /\ extents = {e \in Extents(l) : EndOf(e) <= from}

\* So many blocks have been asked for; the last extent may end with the file, inside one.
FibmapOk(l, size) ==
  Delayed \notin ToSet(l) =>
    \E m \in Nat :
      /\ from = m * B
      /\ extents \in SUBSET Part /\ Right(l, extents) /\ Apart(extents)
      /\ \A e \in extents : EndOf(e) <= from
      /\ \A n \in Nat : n <= from /\ n <= size => Whole(l, extents, n)

\* All of the file has been mapped.
OwnOk(l, size) ==
  Delayed \notin ToSet(l) =>
    extents \in SUBSET Part /\ Right(l, extents) /\ Apart(extents) /\ Whole(l, extents, size)

\* How far the mapping of the present file is.
Stage ==
  /\ mapping = "fiemap" => FiemapOk(seen[Present])
  /\ mapping = "fibmap" => FibmapOk(seen[Present], FileSectors[Present])
  /\ mapping = "own" => OwnOk(seen[Present], FileSectors[Present])

\* The files before the present one are in the index, and no other.
Indexed ==
  /\ \A r \in index : \E k \in 1..(file - 1) : r.file = MapFiles[k]
  /\ \A k \in 1..(file - 1) : Plainly(MapFiles[k]) => \E es : Owners(MapFiles[k], es)

\* The files from the present one on are where they were.
Still == \A k \in file..LastFile : seen[MapFiles[k]] = layout[MapFiles[k]]

\* While no file has moved during its own mapping, the parts above hold; and what was
\* found last is what the index answers.
TraceInv ==
  /\ mapping \in Mapping
  /\ mapping = "idle" => from = 0 /\ extents = {} /\ index = {}
  /\ mapping # "trace" => hit = NoHit
  /\ mapping \notin {"idle", "mapless"} =>
       /\ layout \in Blocks /\ seen \in Blocks
       /\ file \in 1..(LastFile + 1)
       /\ mapping = "trace" <=> file = LastFile + 1
       /\ torn = {} => Still /\ Indexed /\ Stage
  /\ hit # NoHit => hit.lba \in Filter /\ hit.range \in SearchResults(index, hit.lba)

\* The files given, each at one place if it is given once.
LEMMA MapFilesType ==
  /\ LastFile \in Nat
  /\ \A k \in 1..LastFile : MapFiles[k] \in Mapped
  /\ \A f \in Mapped : \E k \in 1..LastFile : MapFiles[k] = f
  /\ GivenOnce => \A i, j \in 1..LastFile : MapFiles[i] = MapFiles[j] => i = j
<1>1. MapFiles \in Seq(Mapped)
  BY FileTraceAssumption DEF Mapped
<1>2. LastFile \in Nat /\ DOMAIN MapFiles = 1..LastFile
  BY <1>1 DEF LastFile
<1>3. /\ \A k \in 1..LastFile : MapFiles[k] \in Mapped
      /\ \A f \in Mapped : \E k \in 1..LastFile : MapFiles[k] = f
  BY <1>2 DEF Mapped, ToSet
<1>4. GivenOnce => \A i, j \in 1..LastFile : MapFiles[i] = MapFiles[j] => i = j
  BY <1>2 DEF GivenOnce
<1> QED  BY <1>2, <1>3, <1>4

\* What the index says of a file stays while the file's blocks and ranges do.
LEMMA OwnersStay ==
  ASSUME NEW f, table' = table, seen'[f] = seen[f],
         {r \in index' : r.file = f} = {r \in index : r.file = f}
  PROVE  /\ Plainly(f)' <=> Plainly(f)
         /\ StartFor(f)' = StartFor(f)
         /\ \A es : Owners(f, es)' <=> Owners(f, es)
<1>1. PartitionOf(table, f)' = PartitionOf(table, f)
  BY DEF PartitionOf, Above
<1>2. (Plainly(f)' <=> Plainly(f)) /\ StartFor(f)' = StartFor(f)
  BY <1>1 DEF Plainly, StartFor
<1>3. ASSUME NEW es PROVE Owners(f, es)' <=> Owners(f, es)
  <2>1. {r \in index : r.file = f}' = {r \in index : r.file = f}
    OBVIOUS
  <2> QED  BY <1>2, <2>1 DEF Owners
<1> QED  BY <1>2, <1>3

\* The index says of the files in it what it said before.
LEMMA IndexedStays ==
  ASSUME Indexed, UNCHANGED <<table, index, file>>,
         file \in 1..(LastFile + 1),
         \A k \in 1..(file - 1) : seen'[MapFiles[k]] = seen[MapFiles[k]]
  PROVE  Indexed'
<1>1. \A r \in index' : \E k \in 1..(file' - 1) : r.file = MapFiles[k]
  BY DEF Indexed
<1>2. ASSUME NEW k \in 1..(file - 1), Plainly(MapFiles[k])'
      PROVE  \E es : Owners(MapFiles[k], es)'
  <2> DEFINE f == MapFiles[k]
  <2>1. seen'[f] = seen[f] /\ {r \in index' : r.file = f} = {r \in index : r.file = f}
    OBVIOUS
  <2>2. /\ Plainly(f)' <=> Plainly(f)
        /\ \A es : Owners(f, es)' <=> Owners(f, es)
    <3> HIDE DEF f
    <3> QED  BY <2>1, OwnersStay
  <2>3. PICK es : Owners(f, es)
    BY <1>2, <2>2 DEF Indexed
  <2> QED  BY <2>2, <2>3
<1> QED  BY <1>1, <1>2 DEF Indexed

(***************************************************************************)
(* The steps of the mapping.                                                *)
(***************************************************************************)
\* An extent ends after it starts, and after the file starts.
LEMMA EndOfType ==
  ASSUME NEW e \in Part
  PROVE  EndOf(e) \in Nat /\ e.logical \in Nat /\ e.logical < EndOf(e) /\ 0 < EndOf(e)
BY DEF Part, EndOf

\* The next batch of extents.
LEMMA FiemapStep ==
  ASSUME NEW l \in Layout, NEW size \in Nat, FiemapOk(l), Fiemap, layout[Present] = l
  PROVE  /\ mapping' = "fiemap" => FiemapOk(l)'
         /\ mapping' = "own" => OwnOk(l, size)'
         /\ mapping' \in {"fiemap", "own"}
         /\ UNCHANGED <<table, layout, seen, torn, file, index, hit>>
<1> DEFINE rest == {e \in Extents(l) : EndOf(e) > from}
<1>1. PICK got \in SUBSET rest :
        /\ \A e \in got, g \in rest \ got : e.logical < g.logical
        /\ extents' = extents \cup got
        /\ \/ got = rest /\ mapping' = "own" /\ UNCHANGED from
           \/ /\ got # rest /\ UNCHANGED mapping
              /\ \E end \in got : /\ \A e \in got : e.logical <= end.logical
                                   /\ from' = EndOf(end)
  BY DEF Fiemap, kSubset
<1>2. /\ mapping = "fiemap"
      /\ UNCHANGED <<table, layout, seen, torn, file, index, hit>>
  BY DEF Fiemap
<1>3. from \in Nat /\ extents = {e \in Extents(l) : EndOf(e) <= from}
  BY DEF FiemapOk
<1>4. \A e \in Extents(l) : e \in Part /\ EndOf(e) \in Nat /\ e.logical \in Nat
                            /\ e.logical < EndOf(e)
  BY ExtentsAreRight, EndOfType
<1>5. CASE got = rest /\ mapping' = "own"
  <2>1. extents' = Extents(l)
    <3>1. \A e \in Extents(l) : EndOf(e) <= from \/ EndOf(e) > from
      BY <1>3, <1>4
    <3> QED  BY <1>1, <1>3, <1>5, <3>1
  <2>2. Delayed \notin ToSet(l) => l \in Written
    BY DEF Written
  <2>3. OwnOk(l, size)'
    BY <2>1, <2>2, ExtentsAreRight DEF OwnOk
  <2> QED  BY <1>2, <1>5, <2>3
<1>6. ASSUME NEW end \in got, \A e \in got : e.logical <= end.logical,
             from' = EndOf(end), got # rest, mapping' = mapping
      PROVE  mapping' = "fiemap" /\ FiemapOk(l)'
  <2>1. end \in Extents(l) /\ from < EndOf(end) /\ EndOf(end) \in Nat
    BY <1>3, <1>4
  <2>2. \A e \in extents \cup got : e \in Extents(l) /\ EndOf(e) <= EndOf(end)
    <3> TAKE e \in extents \cup got
    <3>1. e \in Extents(l) /\ EndOf(e) \in Nat
      BY <1>3, <1>4
    <3>2. CASE e \in extents
      BY <1>3, <2>1, <3>1, <3>2
    <3>3. CASE e \in got
      <4>1. e.logical <= end.logical /\ e.logical \in Nat /\ end.logical \in Nat
        BY <1>4, <1>6, <2>1, <3>1, <3>3
      <4>2. CASE e.logical = end.logical
        <5>1. e = end
          BY <2>1, <3>1, <4>2, ExtentsInOrder
        <5> QED  BY <2>1, <3>1, <5>1
      <4>3. CASE e.logical # end.logical
        <5>1. EndOf(e) <= end.logical
          BY <2>1, <3>1, <4>1, <4>3, ExtentsInOrder
        <5>2. end.logical < EndOf(end)
          BY <1>4, <2>1
        <5> QED  BY <2>1, <3>1, <4>1, <5>1, <5>2
      <4> QED  BY <4>2, <4>3
    <3> QED  BY <3>2, <3>3
  <2>3. \A e \in Extents(l) : EndOf(e) <= EndOf(end) => e \in extents \cup got
    <3> SUFFICES ASSUME NEW e \in Extents(l), EndOf(e) <= EndOf(end), e \notin extents,
                        e \notin got
                 PROVE  FALSE
      OBVIOUS
    <3>1. e \in rest \ got
      BY <1>3, <1>4
    <3>2. end.logical < e.logical
      BY <1>1, <3>1
    <3>3. /\ EndOf(end) <= e.logical /\ e.logical < EndOf(e)
          /\ e.logical \in Nat /\ EndOf(e) \in Nat
      BY <1>4, <2>1, <3>2, ExtentsInOrder
    <3> QED  BY <2>1, <3>3
  <2>4. extents' = {e \in Extents(l) : EndOf(e) <= EndOf(end)}
    BY <1>1, <2>2, <2>3
  <2> QED  BY <1>2, <1>6, <2>1, <2>4 DEF FiemapOk
<1>7. CASE /\ got # rest /\ UNCHANGED mapping
           /\ \E end \in got : /\ \A e \in got : e.logical <= end.logical
                                /\ from' = EndOf(end)
  BY <1>2, <1>6, <1>7
<1> QED  BY <1>1, <1>5, <1>7, <1>2

\* The smaller of two numbers is one of them, and is above neither.
LEMMA MinOfTwo ==
  ASSUME NEW a \in Nat, NEW b \in Nat
  PROVE  /\ Min({a, b}) \in {a, b}
         /\ Min({a, b}) <= a /\ Min({a, b}) <= b
<1>1. \E x \in {a, b} : \A y \in {a, b} : x <= y
  <2>1. CASE a <= b
    BY <2>1
  <2>2. CASE ~ (a <= b)
    BY <2>2
  <2> QED  BY <2>1, <2>2
<1>2. Min({a, b}) \in {a, b} /\ \A y \in {a, b} : Min({a, b}) <= y
  BY <1>1 DEF Min
<1> QED  BY <1>2

\* One more block.
LEMMA FibmapStep ==
  ASSUME NEW l \in Layout, FibmapOk(l, FileSectors[Present]), Fibmap, layout[Present] = l,
         FileSectors[Present] \in Nat, FileSectors[Present] <= Len(l) * B
  PROVE  /\ FibmapOk(l, FileSectors[Present])'
         /\ UNCHANGED <<mapping, table, layout, seen, torn, file, index, hit>>
<1> DEFINE size == FileSectors[Present]
           block == l[(from \div B) + 1]
           p == Piece(from, block)
<1>0. UNCHANGED <<mapping, table, layout, seen, torn, file, index, hit>>
  BY DEF Fibmap
<1>1. /\ from < size /\ from' = from + B
      /\ \/ block \in {Hole, Delayed} /\ UNCHANGED extents
         \/ /\ block \notin {Hole, Delayed}
            /\ \E e \in extents : /\ Continues(e, p)
                                  /\ extents' = (extents \ {e}) \cup {Longer(e, p)}
         \/ block \notin {Hole, Delayed} /\ extents' = extents \cup {p}
  BY DEF Fibmap, B
<1>2. Present' = Present
  BY <1>0 DEF Present
<1> SUFFICES ASSUME Delayed \notin ToSet(l)
             PROVE  \E m \in Nat :
                      /\ from' = m * B
                      /\ extents' \in SUBSET Part /\ Right(l, extents') /\ Apart(extents')
                      /\ \A e \in extents' : EndOf(e) <= from'
                      /\ \A n \in Nat : n <= from' /\ n <= size => Whole(l, extents', n)
  BY <1>0, <1>2 DEF FibmapOk
<1>3. PICK m \in Nat :
        /\ from = m * B
        /\ extents \in SUBSET Part /\ Right(l, extents) /\ Apart(extents)
        /\ \A e \in extents : EndOf(e) <= from
        /\ \A n \in Nat : n <= from /\ n <= size => Whole(l, extents, n)
  BY DEF FibmapOk
<1>4. from \in Nat /\ from' = (m + 1) * B /\ m + 1 \in Nat /\ from' \in Nat /\ from <= from'
  <2> DEFINE x == m * B
  <2>1. x \in Nat /\ (m + 1) * B = x + B
    BY BlockType
  <2>2. from = x
    BY <1>3
  <2> HIDE DEF x
  <2>3. from' = x + B
    BY <1>1, <2>2
  <2> QED  BY <2>1, <2>2, <2>3, BlockType
<1>5. from \div B = m
  <2>1. 0 \in 0..(B - 1) /\ m * B + 0 = m * B
    BY BlockType
  <2>2. (m * B + 0) \div B = m
    BY <2>1, BlockType, DivisionIs
  <2> QED  BY <1>3, <2>1, <2>2
<1>6. m + 1 \in 1..Len(l) /\ block = l[m + 1] /\ block \in Nat
  <2>1. Len(l) \in Nat /\ \A k \in 1..Len(l) : l[k] \in Nat
    BY LayoutType DEF Written
  <2>2. Len(l) * B <= from <=> Len(l) <= m
    <3>1. Len(l) * B <= from <=> Len(l) <= from \div B
      BY <1>4, <2>1, MultipleFrom, BlockType
    <3> QED  BY <1>5, <3>1
  <2>3. ~ (Len(l) * B <= from)
    <3> DEFINE z == Len(l) * B
               s == size
    <3>1. z \in Nat /\ s \in Nat /\ s <= z /\ from < s
      BY <1>1, <2>1, BlockType
    <3> HIDE DEF z, s
    <3>2. ~ (z <= from)
      BY <1>4, <3>1
    <3> QED  BY <3>2 DEF z
  <2>4. m + 1 \in 1..Len(l)
    BY <2>1, <2>2, <2>3
  <2> QED  BY <1>5, <2>1, <2>4
<1>7. Whole(l, extents, from)
  BY <1>1, <1>3, <1>4
<1>8. \A e \in extents : EndOf(e) <= from'
  <2> TAKE e \in extents
  <2>1. EndOf(e) \in Nat /\ EndOf(e) <= from
    BY <1>3, EndOfType
  <2> QED  BY <1>4, <2>1
<1>9. CASE block \in {Hole, Delayed} /\ UNCHANGED extents
  <2>1. block = Hole
    BY <1>6, <1>9, FileTraceAssumption
  <2>2. ~ Held(l, m + 1)
    BY <1>6, <2>1 DEF Held
  <2>3. \A n \in Nat : n <= from' /\ n <= size => Whole(l, extents', n)
    <3> TAKE n \in Nat
    <3> HAVE n <= from' /\ n <= size
    <3>1. n <= (m + 1) * B /\ Whole(l, extents, m * B)
      BY <1>3, <1>4, <1>7
    <3>2. Whole(l, extents, n)
      BY <2>2, <3>1, NothingHeld
    <3> QED  BY <1>9, <3>2
  <2> WITNESS m + 1 \in Nat
  <2> QED  BY <1>3, <1>4, <1>8, <1>9, <2>3
<1>10. CASE /\ block \notin {Hole, Delayed}
            /\ \/ extents' = extents \cup {p}
               \/ \E e \in extents : /\ Continues(e, p)
                                     /\ extents' = (extents \ {e}) \cup {Longer(e, p)}
  <2> DEFINE left == Min({B, size - from})
  <2>1. /\ left \in Nat /\ 1 <= left /\ left <= B /\ left <= size - from
        /\ left \in {B, size - from}
    <3> DEFINE d == size - from
    <3>1. d \in Nat /\ 1 <= d
      <4> HIDE DEF size
      <4>1. size \in Nat
        BY DEF size
      <4> QED  BY <1>1, <1>4, <4>1
    <3> HIDE DEF d
    <3>2. Min({B, d}) \in {B, d} /\ Min({B, d}) <= B /\ Min({B, d}) <= d
      BY <3>1, BlockType, MinOfTwo
    <3>3. Min({B, d}) \in Nat /\ 1 <= Min({B, d})
      BY <3>1, <3>2, BlockType
    <3> QED  BY <3>2, <3>3 DEF d
  <2>2. p = [logical |-> from, physical |-> block * B, length |-> left]
    BY DEF Piece, B
  <2> HIDE DEF left, p
  <2>3. block * B \in Nat
    <3> HIDE DEF block
    <3> QED  BY <1>6, BlockType, Times
  <2>4. p \in Part /\ p.logical = m * B /\ p.physical = l[m + 1] * B /\ p.length <= B
    <3>1. left \in Nat \ {0}
      BY <2>1
    <3> HIDE DEF block
    <3>2. p \in Part
      BY <1>4, <2>2, <2>3, <3>1 DEF Part
    <3>3. p.logical = from /\ p.physical = block * B /\ p.length = left
      BY <2>2
    <3> QED  BY <1>3, <1>6, <2>1, <3>2, <3>3
  <2>5. Held(l, m + 1) /\ l[m + 1] \in Nat
    BY <1>6, <1>10 DEF Held
  <2>6. Right(l, {p})
    BY <2>4, <2>5, PieceIsRight
  <2>7. p.logical = from /\ EndOf(p) = from + left
    BY <2>2 DEF EndOf
  <2>8. extents' \in SUBSET Part
    <3>1. \A e \in Part : Longer(e, p) \in Part
      <4> TAKE e \in Part
      <4>1. /\ e.logical \in Nat /\ e.physical \in Nat /\ e.length \in Nat \ {0}
            /\ p.length \in Nat
            /\ e = [logical |-> e.logical, physical |-> e.physical, length |-> e.length]
        BY <2>4 DEF Part
      <4>2. Longer(e, p) = [logical |-> e.logical, physical |-> e.physical,
                            length |-> e.length + p.length]
        BY <4>1 DEF Longer
      <4>3. e.length + p.length \in Nat \ {0}
        BY <4>1
      <4> QED  BY <4>1, <4>2, <4>3 DEF Part
    <3> QED  BY <1>3, <1>10, <2>4, <3>1
  <2>9. /\ Right(l, extents') /\ Apart(extents') /\ Whole(l, extents', EndOf(p))
        /\ \A e \in extents' : EndOf(e) <= EndOf(p)
    <3>1. /\ Right(l, extents) /\ Apart(extents) /\ Whole(l, extents, p.logical)
          /\ \A e \in extents : EndOf(e) <= p.logical
      BY <1>3, <1>7, <2>7
    <3>2. \/ extents' = extents \cup {p}
          \/ \E e \in extents : /\ Continues(e, p)
                                /\ extents' = (extents \ {e}) \cup {Longer(e, p)}
      BY <1>10
    <3>3. extents \in SUBSET Part /\ p \in Part
      BY <1>3, <2>4
    <3> HIDE DEF size, block
    <3> QED  BY <2>6, <2>8, <3>1, <3>2, <3>3, PieceAdds
  <2>10. \A e \in extents' : EndOf(e) <= from'
    <3> TAKE e \in extents'
    <3>1. EndOf(e) \in Nat /\ EndOf(e) <= from + left
      BY <2>7, <2>8, <2>9, EndOfType
    <3> QED  BY <1>1, <1>4, <2>1, <3>1, BlockType
  <2>11. \A n \in Nat : n <= from' /\ n <= size => Whole(l, extents', n)
    <3> TAKE n \in Nat
    <3> HAVE n <= from' /\ n <= size
    <3>1. n <= from + left
      <4> DEFINE s == size
      <4>1. s \in Nat /\ n <= s /\ left \in {B, s - from} /\ n <= from + B
        BY <1>1, <2>1
      <4> HIDE DEF s
      <4> QED  BY <1>4, <4>1, BlockType
    <3>2. EndOf(p) \in Nat /\ n <= EndOf(p)
      BY <1>4, <2>1, <2>7, <3>1
    <3>3. \A o \in Nat : o < n => o < EndOf(p)
      BY <3>2
    <3>4. Whole(l, extents', EndOf(p))
      BY <2>9
    <3> HIDE DEF size, block
    <3> QED  BY <3>3, <3>4 DEF Whole
  <2> WITNESS m + 1 \in Nat
  <2> QED  BY <1>4, <2>8, <2>9, <2>10, <2>11
<1> QED  BY <1>1, <1>9, <1>10

(***************************************************************************)
(* The invariant is inductive.                                              *)
(***************************************************************************)
\* The initial state satisfies the invariant.
LEMMA TraceInitInvariant == TraceInit => TraceInv
BY DEF TraceInit, TraceInv, Mapping

\* Where the blocks may be at first, or after a move.
LEMMA GivenBlocks == Layouts \subseteq Blocks
BY FileTraceAssumption DEF Blocks, Mapped, Layout, B

\* The blocks of one file.
LEMMA BlocksOfFile ==
  ASSUME NEW s \in Blocks, NEW f \in Mapped
  PROVE  /\ s[f] \in Layout /\ FileSectors[f] \in Nat /\ FileSectors[f] <= Len(s[f]) * B
BY FileTraceAssumption DEF Blocks, Mapped

\* While a file is mapped there is a present file, and it is one of the files.
LEMMA PresentFile ==
  ASSUME TraceInv, mapping \in {"fiemap", "fibmap", "own"}
  PROVE  /\ file \in 1..LastFile /\ Present \in Mapped
         /\ layout \in Blocks /\ seen \in Blocks /\ hit = NoHit
         /\ torn = {} => Still /\ Indexed /\ Stage /\ layout[Present] = seen[Present]
<1>1. /\ layout \in Blocks /\ seen \in Blocks /\ file \in 1..(LastFile + 1)
      /\ mapping = "trace" <=> file = LastFile + 1
      /\ torn = {} => Still /\ Indexed /\ Stage
      /\ hit = NoHit
  BY DEF TraceInv
<1>2. file \in 1..LastFile
  BY <1>1, MapFilesType
<1>3. Present \in Mapped
  BY <1>2, MapFilesType DEF Present
<1>4. torn = {} => layout[Present] = seen[Present]
  <2>1. file \in file..LastFile
    BY <1>2, MapFilesType
  <2> QED  BY <1>1, <2>1 DEF Still, Present
<1> QED  BY <1>1, <1>2, <1>3, <1>4

\* The first file is about to be mapped.
LEMMA BeginTraceInvariant ==
  ASSUME TraceInv, NEW l \in Layouts, NEW t \in MountTables, BeginTrace(l, t)
  PROVE  TraceInv'
<1>1. /\ mapping = "idle" /\ layout' = l /\ table' = t /\ file' = 1 /\ seen' = l
      /\ mapping' = IF MapFiles = <<>> THEN "trace" ELSE "fiemap"
      /\ UNCHANGED <<torn, from, extents, index, hit>>
  BY DEF BeginTrace
<1>2. from = 0 /\ extents = {} /\ index = {} /\ hit = NoHit
  BY <1>1 DEF TraceInv
<1>3. l \in Blocks
  BY GivenBlocks
<1>4. MapFiles = <<>> <=> LastFile = 0
  <2>1. MapFiles \in Seq(Mapped)
    BY FileTraceAssumption DEF Mapped
  <2> QED  BY <2>1 DEF LastFile
<1>5. ASSUME LastFile # 0 PROVE FiemapOk(seen[Present])'
  <2>1. Present' \in Mapped
    BY <1>1, <1>5, MapFilesType DEF Present
  <2>2. l[Present'] \in Layout
    BY <1>3, <2>1, BlocksOfFile
  <2>3. \A e \in Extents(l[Present']) : 0 < EndOf(e) /\ EndOf(e) \in Nat
    BY <2>2, ExtentsAreRight, EndOfType
  <2>4. {e \in Extents(l[Present']) : EndOf(e) <= 0} = {}
    BY <2>3
  <2> QED  BY <1>1, <1>2, <2>4 DEF FiemapOk
<1>6. Stage'
  BY <1>1, <1>4, <1>5 DEF Stage
<1>7. Still' /\ Indexed'
  BY <1>1, <1>2 DEF Still, Indexed
<1>8. file' \in 1..(LastFile + 1) /\ (mapping' = "trace" <=> file' = LastFile + 1)
  BY <1>1, <1>4, MapFilesType
<1> QED  BY <1>1, <1>2, <1>3, <1>6, <1>7, <1>8 DEF TraceInv, Mapping

\* One batch of extents more.
LEMMA FiemapInvariant ==
  ASSUME TraceInv, Fiemap
  PROVE  TraceInv'
<1>1. mapping = "fiemap" /\ UNCHANGED <<table, layout, seen, torn, file, index, hit>>
      /\ mapping' \in {"fiemap", "own"}
  BY DEF Fiemap
<1>2. /\ file \in 1..LastFile /\ Present \in Mapped
      /\ layout \in Blocks /\ seen \in Blocks /\ hit = NoHit
      /\ torn = {} => Still /\ Indexed /\ Stage /\ layout[Present] = seen[Present]
  BY <1>1, PresentFile
<1>3. Present' = Present
  BY <1>1 DEF Present
<1>4. ASSUME torn = {} PROVE Still' /\ Indexed' /\ Stage'
  <2> DEFINE l == layout[Present]
             size == FileSectors[Present]
  <2>1. l \in Layout /\ size \in Nat /\ l = seen[Present]
    BY <1>2, <1>4, BlocksOfFile
  <2>2. FiemapOk(l)
    BY <1>1, <1>2, <1>4, <2>1 DEF Stage
  <2>3. l = layout[Present] /\ l' = l /\ size' = size
    BY <1>1, <1>3
  <2>4. /\ mapping' = "fiemap" =>
              from' \in Nat /\ extents' = {e \in Extents(l) : EndOf(e) <= from'}
        /\ mapping' = "own" => (Delayed \notin ToSet(l) =>
              /\ extents' \in SUBSET Part /\ Right(l, extents') /\ Apart(extents')
              /\ Whole(l, extents', size))
    <3> HIDE DEF l, size
    <3>1. /\ mapping' = "fiemap" => FiemapOk(l)'
          /\ mapping' = "own" => OwnOk(l, size)'
      BY <2>1, <2>2, <2>3, FiemapStep
    <3> QED  BY <2>3, <3>1 DEF FiemapOk, OwnOk
  <2>5. seen'[Present'] = l /\ FileSectors[Present'] = size
    BY <1>1, <1>3, <2>1
  <2>6. Stage'
    <3> HIDE DEF l, size
    <3> QED  BY <1>1, <2>4, <2>5 DEF Stage, FiemapOk, OwnOk
  <2>7. Still'
    BY <1>1, <1>2, <1>4 DEF Still
  <2>8. Indexed'
    BY <1>1, <1>2, <1>4, IndexedStays, MapFilesType
  <2> QED  BY <2>6, <2>7, <2>8
<1>5. file \in 1..(LastFile + 1) /\ file # LastFile + 1
  BY <1>2, MapFilesType
<1> QED  BY <1>1, <1>2, <1>4, <1>5 DEF TraceInv, Mapping

\* The file is mapped again, block by block.
LEMMA FiemapFailsInvariant ==
  ASSUME TraceInv, FiemapFails
  PROVE  TraceInv'
<1>1. /\ mapping = "fiemap" /\ mapping' = "fibmap" /\ from' = 0 /\ extents' = {}
      /\ UNCHANGED <<table, layout, seen, torn, file, index, hit>>
  BY DEF FiemapFails
<1>2. /\ file \in 1..LastFile /\ Present \in Mapped
      /\ layout \in Blocks /\ seen \in Blocks /\ hit = NoHit
      /\ torn = {} => Still /\ Indexed /\ Stage /\ layout[Present] = seen[Present]
  BY <1>1, PresentFile
<1>3. ASSUME torn = {} PROVE Still' /\ Indexed' /\ Stage'
  <2>1. FibmapOk(seen[Present], FileSectors[Present])'
    <3> DEFINE l == seen'[Present']
    <3>1. 0 \in Nat /\ 0 = 0 * B
      BY BlockType
    <3>2. /\ {} \in SUBSET Part /\ Right(l, {}) /\ Apart({})
          /\ \A e \in {} : EndOf(e) <= 0
      BY DEF Right, Apart
    <3>3. \A n \in Nat : n <= 0 => Whole(l, {}, n)
      BY DEF Whole
    <3> HIDE DEF l
    <3>4. \E m \in Nat :
            /\ from' = m * B
            /\ extents' \in SUBSET Part /\ Right(l, extents') /\ Apart(extents')
            /\ \A e \in extents' : EndOf(e) <= from'
            /\ \A n \in Nat : n <= from' /\ n <= FileSectors[Present'] => Whole(l, extents', n)
      <4> WITNESS 0 \in Nat
      <4> QED  BY <1>1, <3>1, <3>2, <3>3
    <3> QED  BY <3>4 DEF FibmapOk, l
  <2>2. Stage'
    BY <1>1, <2>1 DEF Stage
  <2>3. Still'
    BY <1>1, <1>2, <1>3 DEF Still
  <2>4. Indexed'
    BY <1>1, <1>2, <1>3, IndexedStays, MapFilesType
  <2> QED  BY <2>2, <2>3, <2>4
<1>4. file \in 1..(LastFile + 1) /\ file # LastFile + 1
  BY <1>2, MapFilesType
<1> QED  BY <1>1, <1>2, <1>3, <1>4 DEF TraceInv, Mapping

\* One block more.
LEMMA FibmapInvariant ==
  ASSUME TraceInv, Fibmap
  PROVE  TraceInv'
<1>1. mapping = "fibmap" /\ UNCHANGED <<mapping, table, layout, seen, torn, file, index, hit>>
  BY DEF Fibmap
<1>2. /\ file \in 1..LastFile /\ Present \in Mapped
      /\ layout \in Blocks /\ seen \in Blocks /\ hit = NoHit
      /\ torn = {} => Still /\ Indexed /\ Stage /\ layout[Present] = seen[Present]
  BY <1>1, PresentFile
<1>3. Present' = Present
  BY <1>1 DEF Present
<1>4. ASSUME torn = {} PROVE Still' /\ Indexed' /\ Stage'
  <2> DEFINE l == layout[Present]
  <2>1. /\ l \in Layout /\ l = seen[Present] /\ FileSectors[Present] \in Nat
        /\ FileSectors[Present] <= Len(l) * B
    BY <1>2, <1>4, BlocksOfFile
  <2>2. FibmapOk(l, FileSectors[Present])
    BY <1>1, <1>2, <1>4, <2>1 DEF Stage
  <2>3. l = layout[Present] /\ l' = l
    BY <1>1, <1>3
  <2>4. Delayed \notin ToSet(l) =>
          \E m \in Nat :
            /\ from' = m * B
            /\ extents' \in SUBSET Part /\ Right(l, extents') /\ Apart(extents')
            /\ \A e \in extents' : EndOf(e) <= from'
            /\ \A n \in Nat : n <= from' /\ n <= FileSectors[Present'] => Whole(l, extents', n)
    <3> HIDE DEF l
    <3>1. FibmapOk(l, FileSectors[Present])'
      BY <2>1, <2>2, <2>3, FibmapStep
    <3> QED  BY <2>3, <3>1 DEF FibmapOk
  <2>5. seen'[Present'] = l
    BY <1>1, <1>3, <2>1
  <2>6. Stage'
    <3> HIDE DEF l
    <3> QED  BY <1>1, <2>4, <2>5 DEF Stage, FibmapOk
  <2>7. Still'
    BY <1>1, <1>2, <1>4 DEF Still
  <2>8. Indexed'
    BY <1>1, <1>2, <1>4, IndexedStays, MapFilesType
  <2> QED  BY <2>6, <2>7, <2>8
<1>5. file \in 1..(LastFile + 1) /\ file # LastFile + 1
  BY <1>2, MapFilesType
<1> QED  BY <1>1, <1>2, <1>4, <1>5 DEF TraceInv, Mapping

\* The last block has been asked for.
LEMMA FibmapDoneInvariant ==
  ASSUME TraceInv, FibmapDone
  PROVE  TraceInv'
<1>1. /\ mapping = "fibmap" /\ mapping' = "own" /\ from >= FileSectors[Present]
      /\ UNCHANGED <<table, layout, seen, torn, file, from, extents, index, hit>>
  BY DEF FibmapDone
<1>2. /\ file \in 1..LastFile /\ Present \in Mapped
      /\ layout \in Blocks /\ seen \in Blocks /\ hit = NoHit
      /\ torn = {} => Still /\ Indexed /\ Stage /\ layout[Present] = seen[Present]
  BY <1>1, PresentFile
<1>3. Present' = Present
  BY <1>1 DEF Present
<1>4. ASSUME torn = {} PROVE Still' /\ Indexed' /\ Stage'
  <2> DEFINE l == seen[Present]
             size == FileSectors[Present]
  <2>1. size \in Nat
    BY <1>2, BlocksOfFile
  <2>2. FibmapOk(l, size)
    BY <1>1, <1>2, <1>4 DEF Stage
  <2>3. OwnOk(l, size)
    <3> HIDE DEF l, size
    <3> SUFFICES ASSUME Delayed \notin ToSet(l)
                 PROVE  /\ extents \in SUBSET Part /\ Right(l, extents) /\ Apart(extents)
                        /\ Whole(l, extents, size)
      BY DEF OwnOk
    <3>1. PICK m \in Nat :
            /\ from = m * B
            /\ extents \in SUBSET Part /\ Right(l, extents) /\ Apart(extents)
            /\ \A n \in Nat : n <= from /\ n <= size => Whole(l, extents, n)
      BY <2>2 DEF FibmapOk
    <3>2. size <= from
      BY <1>1, <2>1, <3>1, BlockType, Times DEF size
    <3> QED  BY <2>1, <3>1, <3>2
  <2>4. Stage'
    BY <1>1, <1>3, <2>3 DEF Stage, OwnOk
  <2>5. Still'
    BY <1>1, <1>2, <1>4 DEF Still
  <2>6. Indexed'
    BY <1>1, <1>2, <1>4, IndexedStays, MapFilesType
  <2> QED  BY <2>4, <2>5, <2>6
<1>5. file \in 1..(LastFile + 1) /\ file # LastFile + 1
  BY <1>2, MapFilesType
<1> QED  BY <1>1, <1>2, <1>4, <1>5 DEF TraceInv, Mapping

\* The command ends.
LEMMA MapFailsInvariant ==
  ASSUME TraceInv, MapFails
  PROVE  TraceInv'
BY DEF TraceInv, MapFails, Mapping

\* The ranges of the present file join the index, and the next file is mapped.
LEMMA AddOwnersInvariant ==
  ASSUME TraceInv, GivenOnce, AddOwners
  PROVE  TraceInv'
<1>1. /\ mapping = "own" /\ index' = index \cup RangesOf(extents)
      /\ file' = file + 1 /\ from' = 0 /\ extents' = {}
      /\ mapping' = IF file + 1 > LastFile THEN "trace" ELSE "fiemap"
      /\ UNCHANGED <<table, layout, torn, hit>>
  BY DEF AddOwners, MapFrom, LastFile
<1>2. /\ file \in 1..LastFile /\ Present \in Mapped
      /\ layout \in Blocks /\ seen \in Blocks /\ hit = NoHit
      /\ torn = {} => Still /\ Indexed /\ Stage /\ layout[Present] = seen[Present]
  BY <1>1, PresentFile
<1>3. LastFile \in Nat
  BY MapFilesType
<1>4. seen' = IF file + 1 > LastFile THEN seen
              ELSE [seen EXCEPT ![MapFiles[file + 1]] = layout[MapFiles[file + 1]]]
  BY DEF AddOwners, MapFrom, LastFile
<1>5. file + 1 > LastFile \/ MapFiles[file + 1] \in Mapped
  <2> SUFFICES ASSUME ~ (file + 1 > LastFile) PROVE MapFiles[file + 1] \in Mapped
    OBVIOUS
  <2>1. file + 1 \in 1..LastFile
    BY <1>2, <1>3
  <2> QED  BY <2>1, MapFilesType
<1>6. seen' \in Blocks
  <2>1. CASE file + 1 > LastFile
    BY <1>2, <1>4, <2>1
  <2>2. CASE ~ (file + 1 > LastFile)
    <3> DEFINE g == MapFiles[file + 1]
    <3>1. g \in Mapped /\ seen' = [seen EXCEPT ![g] = layout[g]]
      BY <1>4, <1>5, <2>2
    <3> HIDE DEF g
    <3> QED  BY <1>2, <3>1 DEF Blocks
  <2> QED  BY <2>1, <2>2
<1>7. ASSUME torn = {} PROVE seen' = seen
  <2>1. CASE file + 1 > LastFile
    BY <1>4, <2>1
  <2>2. CASE ~ (file + 1 > LastFile)
    <3> DEFINE g == MapFiles[file + 1]
    <3>1. file + 1 \in file..LastFile
      BY <1>2, <1>3, <2>2
    <3>2. seen[g] = layout[g]
      BY <1>2, <1>7, <3>1 DEF Still
    <3>3. seen' = [seen EXCEPT ![g] = layout[g]]
      BY <1>4, <2>2
    <3> HIDE DEF g
    <3>4. seen \in [Mapped -> Layout]
      BY <1>2 DEF Blocks
    <3> QED  BY <3>2, <3>3, <3>4
  <2> QED  BY <2>1, <2>2
<1>8. \A r \in RangesOf(extents) : r.file = Present
  BY DEF RangesOf, RangeOfExtent
<1>9. file' \in 1..(LastFile + 1) /\ (mapping' = "trace" <=> file' = LastFile + 1)
      /\ mapping' \in {"trace", "fiemap"}
  BY <1>1, <1>2, <1>3
<1>10. ASSUME torn = {} PROVE Still'
  <2>1. \A k \in (file + 1)..LastFile : k \in file..LastFile
    BY <1>2, <1>3
  <2> QED  BY <1>1, <1>2, <1>7, <1>10, <2>1 DEF Still
<1>11. ASSUME torn = {} PROVE Indexed'
  <2>1. file' - 1 = file /\ file \in 1..file /\ \A k \in 1..file : k \in 1..LastFile
    BY <1>1, <1>2, <1>3
  <2>2. \A k \in 1..(file - 1) : k \in 1..file /\ k # file
    BY <1>2, <1>3
  <2>3. \A k \in 1..file : k # file => k \in 1..(file - 1)
    BY <1>2, <1>3
  <2>4. \A k \in 1..(file - 1) : MapFiles[k] # Present
    BY <1>2, <2>1, <2>2, MapFilesType DEF Present
  <2>5. \A r \in index' : \E k \in 1..file : r.file = MapFiles[k]
    <3> TAKE r \in index'
    <3>1. CASE r \in index
      BY <1>2, <1>11, <2>2, <3>1 DEF Indexed
    <3>2. CASE r \in RangesOf(extents)
      BY <1>8, <2>1, <3>2 DEF Present
    <3> QED  BY <1>1, <3>1, <3>2
  <2>6. ASSUME NEW k \in 1..file, Plainly(MapFiles[k])'
        PROVE  \E es : Owners(MapFiles[k], es)'
    <3> DEFINE f == MapFiles[k]
    <3>1. CASE k # file
      <4>1. k \in 1..(file - 1) /\ f # Present
        BY <2>3, <2>4, <3>1
      <4>2. seen'[f] = seen[f] /\ table' = table
        BY <1>1, <1>7, <1>11
      <4>3. {r \in index' : r.file = f} = {r \in index : r.file = f}
        BY <1>1, <1>8, <4>1
      <4>4. /\ Plainly(f)' <=> Plainly(f)
            /\ \A es : Owners(f, es)' <=> Owners(f, es)
        <5> HIDE DEF f
        <5> QED  BY <4>2, <4>3, OwnersStay
      <4>5. PICK es : Owners(f, es)
        BY <1>2, <1>11, <2>6, <4>1, <4>4 DEF Indexed
      <4> QED  BY <4>4, <4>5
    <3>2. CASE k = file
      <4>1. f = Present
        BY <3>2 DEF Present
      <4>2. Plainly(Present)
        <5>1. Plainly(f)
          <6>1. PartitionOf(table, f)' = PartitionOf(table, f)
            BY <1>1 DEF PartitionOf, Above
          <6> QED  BY <1>7, <1>11, <2>6, <6>1 DEF Plainly
        <5> QED  BY <4>1, <5>1
      <4>3. /\ extents \in SUBSET Part /\ Right(seen[Present], extents) /\ Apart(extents)
            /\ Whole(seen[Present], extents, FileSectors[Present])
        BY <1>1, <1>2, <1>11, <4>2 DEF Stage, OwnOk, Plainly
      <4>4. RangesOf(extents) = {RangeIn(StartFor(Present), Present, e) : e \in extents}
        BY <4>2, <4>3, RangesOfExtents
      <4>5. \A r \in index : r.file # Present
        BY <1>2, <1>11, <2>4 DEF Indexed
      <4>6. {r \in index' : r.file = f} = RangesOf(extents)
        BY <1>1, <1>8, <4>1, <4>5
      <4>7. StartFor(f)' = StartFor(f)
        BY <1>1 DEF StartFor, PartitionOf, Above
      <4>8. {r \in index' : r.file = f} = {RangeIn(StartFor(f)', f, e) : e \in extents}
        BY <4>1, <4>4, <4>6, <4>7
      <4>9. /\ Right(seen'[f], extents) /\ Whole(seen'[f], extents, FileSectors[f])
            /\ Apart(extents) /\ extents \in SUBSET Part
        BY <1>7, <1>11, <4>1, <4>3
      <4>10. \E es : /\ es \in SUBSET Part
                     /\ Right(seen'[f], es) /\ Apart(es) /\ Whole(seen'[f], es, FileSectors[f])
                     /\ {r \in index' : r.file = f} = {RangeIn(StartFor(f)', f, e) : e \in es}
        <5> HIDE DEF f
        <5> QED  BY <4>8, <4>9
      <4> QED  BY <4>10 DEF Owners
    <3> QED  BY <3>1, <3>2
  <2> QED  BY <2>1, <2>5, <2>6 DEF Indexed
<1>12. ASSUME torn = {} PROVE Stage'
  <2>1. CASE mapping' = "trace"
    BY <2>1 DEF Stage
  <2>2. CASE mapping' = "fiemap"
    <3>1. Present' \in Mapped
      <4>1. file' \in 1..LastFile
        BY <1>3, <1>9, <2>2
      <4> QED  BY <4>1, MapFilesType DEF Present
    <3>2. \A e \in Extents(seen'[Present']) : 0 < EndOf(e) /\ EndOf(e) \in Nat
      <4>1. seen'[Present'] \in Layout
        BY <1>6, <3>1, BlocksOfFile
      <4> QED  BY <4>1, ExtentsAreRight, EndOfType
    <3>3. {e \in Extents(seen'[Present']) : EndOf(e) <= 0} = {}
      BY <3>2
    <3>4. FiemapOk(seen[Present])'
      BY <1>1, <3>3 DEF FiemapOk
    <3> QED  BY <2>2, <3>4 DEF Stage
  <2> QED  BY <1>9, <2>1, <2>2
<1> QED  BY <1>1, <1>2, <1>6, <1>9, <1>10, <1>11, <1>12 DEF TraceInv, Mapping

\* A sector is looked up.
LEMMA TraceEventInvariant ==
  ASSUME TraceInv, NEW lba \in Filter, TraceEvent(lba)
  PROVE  TraceInv'
<1>1. /\ mapping = "trace"
      /\ UNCHANGED <<mapping, table, layout, seen, torn, file, from, extents, index>>
  BY DEF TraceEvent
<1>2. PICK r \in SearchResults(index, lba) : hit' = [lba |-> lba, range |-> r]
  BY DEF TraceEvent
<1>3. hit'.lba \in Filter /\ hit'.range \in SearchResults(index', hit'.lba)
  BY <1>1, <1>2
<1>4. layout' \in Blocks /\ seen' \in Blocks /\ file' \in 1..(LastFile + 1)
      /\ (mapping' = "trace" <=> file' = LastFile + 1)
  BY <1>1 DEF TraceInv
<1>5. ASSUME torn = {} PROVE Still' /\ Indexed' /\ Stage'
  <2>1. Still /\ Indexed
    BY <1>1, <1>5 DEF TraceInv
  <2>2. Still'
    BY <1>1, <2>1 DEF Still
  <2>3. Indexed'
    BY <1>1, <1>4, <2>1, IndexedStays
  <2>4. Stage'
    BY <1>1 DEF Stage
  <2> QED  BY <2>2, <2>3, <2>4
<1> QED  BY <1>1, <1>3, <1>4, <1>5 DEF TraceInv, Mapping

\* A file moves: one that is mapped, the one being mapped, or one still to be mapped.
LEMMA MoveInvariant ==
  ASSUME TraceInv, GivenOnce, NEW f \in Mapped, NEW l \in Layouts, Move(f, l[f])
  PROVE  TraceInv'
<1>1. /\ mapping \notin {"idle", "mapless"} /\ layout = seen /\ torn = {}
      /\ layout' = [layout EXCEPT ![f] = l[f]]
      /\ UNCHANGED <<mapping, table, file, from, extents, index, hit>>
  BY DEF Move
<1>2. /\ layout \in Blocks /\ seen \in Blocks /\ file \in 1..(LastFile + 1)
      /\ mapping = "trace" <=> file = LastFile + 1
      /\ Still /\ Indexed /\ Stage
  BY <1>1 DEF TraceInv
<1>3. l \in Blocks
  BY GivenBlocks
<1>4. layout' \in Blocks
  BY <1>1, <1>2, <1>3 DEF Blocks
<1>5. layout \in [Mapped -> Layout]
  BY <1>2 DEF Blocks
<1>6. \A g \in Mapped : g # f => layout'[g] = layout[g]
  BY <1>1, <1>5
<1>7. LastFile \in Nat /\ \A k \in 1..LastFile : MapFiles[k] \in Mapped
  BY MapFilesType
<1>8. CASE \E k \in 1..(file - 1) : MapFiles[k] = f
  <2>1. UNCHANGED <<seen, torn>>
    BY <1>8 DEF Move
  <2>2. Still'
    <3>1. \A k \in file..LastFile : k \in 1..LastFile /\ MapFiles[k] # f
      <4> TAKE k \in file..LastFile
      <4>1. PICK j \in 1..(file - 1) : MapFiles[j] = f
        BY <1>8
      <4>2. k \in 1..LastFile /\ j \in 1..LastFile /\ j # k
        BY <1>2, <1>7
      <4> QED  BY <4>1, <4>2, MapFilesType
    <3> QED  BY <1>1, <1>2, <1>6, <1>7, <2>1, <3>1 DEF Still
  <2>3. Indexed'
    BY <1>1, <1>2, <2>1, IndexedStays
  <2>4. Stage'
    BY <1>1, <1>2, <2>1 DEF Stage, Present, FiemapOk, FibmapOk, OwnOk
  <2>5. hit' # NoHit => hit'.lba \in Filter /\ hit'.range \in SearchResults(index', hit'.lba)
    BY <1>1 DEF TraceInv
  <2>6. mapping' # "trace" => hit' = NoHit
    BY <1>1 DEF TraceInv
  <2> QED  BY <1>1, <1>2, <1>4, <2>1, <2>2, <2>3, <2>4, <2>5, <2>6 DEF TraceInv
<1>9. CASE /\ ~ \E k \in 1..(file - 1) : MapFiles[k] = f
           /\ file <= LastFile /\ Present = f
  <2>1. torn' = {f} /\ UNCHANGED seen
    BY <1>9 DEF Move, LastFile
  <2>2. hit' # NoHit => hit'.lba \in Filter /\ hit'.range \in SearchResults(index', hit'.lba)
    BY <1>1 DEF TraceInv
  <2>3. mapping' # "trace" => hit' = NoHit
    BY <1>1 DEF TraceInv
  <2> QED  BY <1>1, <1>2, <1>4, <2>1, <2>2, <2>3 DEF TraceInv
<1>10. CASE /\ ~ \E k \in 1..(file - 1) : MapFiles[k] = f
            /\ ~ (file <= LastFile /\ Present = f)
  <2>1. seen' = layout' /\ UNCHANGED torn
    BY <1>10 DEF Move, LastFile
  <2>2. Still'
    BY <2>1 DEF Still
  <2>3. Indexed'
    <3>1. \A k \in 1..(file - 1) : MapFiles[k] \in Mapped /\ MapFiles[k] # f
      <4>1. \A k \in 1..(file - 1) : k \in 1..LastFile
        BY <1>2, <1>7
      <4> QED  BY <1>7, <1>10, <4>1
    <3>2. \A k \in 1..(file - 1) : seen'[MapFiles[k]] = seen[MapFiles[k]]
      BY <1>1, <1>6, <2>1, <3>1
    <3> QED  BY <1>1, <1>2, <3>2, IndexedStays
  <2>4. Stage'
    <3>1. CASE mapping = "trace"
      BY <1>1, <3>1 DEF Stage
    <3>2. CASE mapping # "trace"
      <4>1. file \in 1..LastFile
        BY <1>2, <1>7, <3>2
      <4>2. Present \in Mapped /\ Present # f
        BY <1>7, <1>10, <4>1 DEF Present
      <4>3. seen'[Present] = seen[Present] /\ Present' = Present
        BY <1>1, <1>6, <2>1, <4>2 DEF Present
      <4> QED  BY <1>1, <1>2, <4>3 DEF Stage, FiemapOk, FibmapOk, OwnOk
    <3> QED  BY <3>1, <3>2
  <2>5. hit' # NoHit => hit'.lba \in Filter /\ hit'.range \in SearchResults(index', hit'.lba)
    BY <1>1 DEF TraceInv
  <2>6. mapping' # "trace" => hit' = NoHit
    BY <1>1 DEF TraceInv
  <2> QED  BY <1>1, <1>2, <1>4, <2>1, <2>2, <2>3, <2>4, <2>5, <2>6 DEF TraceInv
<1> QED  BY <1>8, <1>9, <1>10

\* If each file is given once, every step keeps the invariant.
LEMMA TraceStepInvariant ==
  ASSUME GivenOnce
  PROVE  TraceInv /\ [TraceNext]_traceVars => TraceInv'
<1> SUFFICES ASSUME TraceInv, [TraceNext]_traceVars PROVE TraceInv'
  OBVIOUS
<1>1. ASSUME NEW l \in Layouts, NEW t \in MountTables, BeginTrace(l, t) PROVE TraceInv'
  BY <1>1, BeginTraceInvariant
<1>2. CASE Fiemap
  BY <1>2, FiemapInvariant
<1>3. CASE Fibmap
  BY <1>3, FibmapInvariant
<1>4. CASE FibmapDone
  BY <1>4, FibmapDoneInvariant
<1>5. CASE AddOwners
  BY <1>5, AddOwnersInvariant
<1>6. CASE FiemapFails
  BY <1>6, FiemapFailsInvariant
<1>7. CASE MapFails
  BY <1>7, MapFailsInvariant
<1>8. ASSUME NEW lba \in Filter, TraceEvent(lba) PROVE TraceInv'
  BY <1>8, TraceEventInvariant
<1>9. ASSUME NEW f \in ToSet(MapFiles), NEW l \in Layouts, Move(f, l[f]) PROVE TraceInv'
  BY <1>9, MoveInvariant DEF Mapped
<1>10. CASE UNCHANGED traceVars
  <2>1. UNCHANGED <<mapping, table, layout, seen, torn, file, from, extents, index, hit>>
    BY <1>10 DEF traceVars
  <2>2. (Still' <=> Still) /\ (Stage' <=> Stage)
    BY <2>1 DEF Still, Stage, Present, FiemapOk, FibmapOk, OwnOk
  <2>3. Indexed' <=> Indexed
    BY <2>1 DEF Indexed, Plainly, Owners, StartFor, PartitionOf, Above
  <2> QED  BY <2>1, <2>2, <2>3 DEF TraceInv
<1> QED
  BY <1>1, <1>2, <1>3, <1>4, <1>5, <1>6, <1>7, <1>8, <1>9, <1>10 DEF TraceNext, MapStep

\* If each file is given once, the invariant holds of every behaviour.
THEOREM TraceInvariance == TraceSpec => [](GivenOnce => TraceInv)
<1> DEFINE J == GivenOnce => TraceInv
<1>1. TraceInit => J
  BY TraceInitInvariant
<1>2. J /\ [TraceNext]_traceVars => J'
  <2>1. GivenOnce' <=> GivenOnce
    BY DEF GivenOnce
  <2> QED  BY <2>1, TraceStepInvariant
<1> QED  BY <1>1, <1>2, PTL DEF TraceSpec

\* Under the invariant every sector that was looked up got the right answer.
LEMMA TraceInvIsRight == (GivenOnce => TraceInv) => HitIsTheByte
<1> SUFFICES ASSUME TraceInv, hit # NoHit, Plain PROVE HitIsTheByte
  BY DEF HitIsTheByte, Plain
<1>1. /\ mapping = "trace" /\ hit.lba \in Filter /\ hit.range \in SearchResults(index, hit.lba)
  BY DEF TraceInv
<1>2. torn = {}
  BY DEF Plain
<1>3. seen \in Blocks /\ file = LastFile + 1 /\ Indexed /\ LastFile \in Nat
  BY <1>1, <1>2, MapFilesType DEF TraceInv
<1>4. 1..(file - 1) = 1..LastFile
  BY <1>3
<1>5. IndexOk
  <2>1. \A r \in index : r.file \in Mapped
    BY <1>3, <1>4, MapFilesType DEF Indexed
  <2>2. ASSUME NEW f \in Mapped, Plainly(f) PROVE \E es : Owners(f, es)
    <3>1. PICK k \in 1..LastFile : MapFiles[k] = f
      BY MapFilesType
    <3> QED  BY <1>3, <1>4, <2>2, <3>1 DEF Indexed
  <2> QED  BY <1>3, <2>1, <2>2 DEF IndexOk
<1> QED  BY <1>1, <1>5, LookupIsRight

\* A traced sector is reported for the file and the offset that was stored there when the
\* file was mapped, and no sector of a mapped file goes unreported (match_lba_to_file).
THEOREM HitsAreRight == TraceSpec => []HitIsTheByte
BY TraceInvariance, TraceInvIsRight, PTL

(***************************************************************************)
(* Cli: one command is one of its parts, and the others stand still.        *)
(***************************************************************************)
\* What a step of the command is to each part (run in cli.rs).
LEMMA CliStepOfParts ==
  ASSUME [CliNext]_cliVars
  PROVE  /\ [ConsoleNext]_consoleVars /\ [WizardNext]_wizardVars
         /\ [SamplerNext]_samplerVars /\ [DiscardNext]_discardVars
         /\ [TraceNext]_traceVars
<1>1. CASE RunMenu
  BY <1>1 DEF RunMenu
<1>2. CASE RunWizard
  BY <1>2 DEF RunWizard
<1>3. CASE RunDiag
  BY <1>3 DEF RunDiag
<1>4. CASE RunDiscard
  BY <1>4 DEF RunDiscard
<1>5. CASE RunLbaTrace
  BY <1>5 DEF RunLbaTrace
<1>6. CASE UNCHANGED cliVars
  BY <1>6 DEF cliVars
<1> QED  BY <1>1, <1>2, <1>3, <1>4, <1>5, <1>6 DEF CliNext

\* Every behaviour of the command is one of each of its parts (run in cli.rs).
THEOREM CommandIsItsParts ==
  CliSpec => ConsoleSpec /\ WizardSpec /\ SamplerSpec /\ DiscardSpec /\ TraceSpec
<1>1. CliInit => ConsoleInit /\ WizardInit /\ SamplerInit /\ DiscardInit /\ TraceInit
  BY DEF CliInit
<1>2. [CliNext]_cliVars => /\ [ConsoleNext]_consoleVars /\ [WizardNext]_wizardVars
                           /\ [SamplerNext]_samplerVars /\ [DiscardNext]_discardVars
                           /\ [TraceNext]_traceVars
  BY CliStepOfParts
<1> QED
  BY <1>1, <1>2, PTL DEF CliSpec, ConsoleSpec, WizardSpec, SamplerSpec, DiscardSpec, TraceSpec

\* What is promised of the parts is kept by the command, whichever it is.
THEOREM CommandIsSafe ==
  CliSpec =>
    /\ [](RawWritesAreAgreed /\ TerminalRestored) /\ DeletesAreConfirmed
    /\ [](ReviewedIsNormal /\ ReviewedRangeFits)
    /\ [](NeverOvercharged /\ StayersAreExact /\ ReportAddsUp)
    /\ []StaleDiscardsAreFew
    /\ []HitIsTheByte
<1>1. CliSpec => ConsoleSpec /\ WizardSpec /\ SamplerSpec /\ DiscardSpec /\ TraceSpec
  BY CommandIsItsParts
<1> QED
  BY <1>1, WritesAgreed, TerminalIsRestored, DeletionsConfirmed, ReviewIsNormal, ReviewFits,
     NoOvercharge, StayersExact, ReportsAddUp, FewStaleDiscards, HitsAreRight, PTL
==============================================================================
