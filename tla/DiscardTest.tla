----------------------------- MODULE DiscardTest -----------------------------
(***************************************************************************)
(* The discard command (run_discard of app.rs, discard.rs): the ranges of a *)
(* probe and of a test are discarded one after the other, each after a look *)
(* of its own at the geometry and at the mounts of the host, while somebody *)
(* else mounts and unmounts devices. The kernel opens the device a path     *)
(* leads to; the command goes by the letters of the path.                   *)
(***************************************************************************)
EXTENDS Naturals, Sequences

CONSTANTS
  Disks,          \* the block devices of the host
  Parent,         \* the whole disk of each partition
  Root,           \* the device / is on
  NoDisk,         \* no device
  Requests,       \* the discards that may be asked for
  Unseen,         \* sets of devices whose mounts the command may be unable to see
  MaxMounts       \* the model's bound on mounts by others

\* A request: the device its path leads to; the device the last component of the path
\* is the name of; whether the path is the name list_devices has for it, /dev and the
\* name, and no link or relative path; the discard granularity and limit (0: none)
\* found under that name, the range, the confirmation, and how many rounds: none
\* (capabilities only), probe or test, or both.
Request ==
  [disk : Disks, base : Disks \cup {NoDisk}, full : BOOLEAN,
   granularity : Nat, limit : Nat, offset : Nat, length : Nat,
   confirmed : BOOLEAN, rounds : 0..2]

ASSUME DiscardAssumption ==
  /\ Parent \in [Disks -> Disks \cup {NoDisk}]
  /\ Root \in Disks /\ \A p \in Disks : Parent[p] # Root
  /\ NoDisk \notin Disks
  /\ Requests \subseteq Request /\ \A r \in Requests : r.full => r.base = r.disk
  /\ Unseen \subseteq SUBSET Disks
  /\ MaxMounts \in Nat

VARIABLES
  discarding,  \* where the command is
  request,     \* what was asked
  results,     \* whether each ioctl so far succeeded
  mounted,     \* the devices that are mounted
  hidden,      \* those whose mounts this process's mountinfo does not list
  mounts,      \* mounts since the command started
  dirty        \* discards that hit a mounted filesystem

discardVars == <<discarding, request, results, mounted, hidden, mounts, dirty>>

Discarding == {"idle", "validate", "open", "ioctl", "told", "refused"}

NoRequest == [rounds |-> 0]

DiscardInit ==
  /\ discarding = "idle" /\ request = NoRequest /\ results = <<>>
  /\ mounted = {} /\ hidden = {} /\ mounts = 0 /\ dirty = 0

Working == discarding \in {"validate", "open", "ioctl"}

\* The kernel mounts a disk as a whole only if it has no partitions.
Mountable(d) == \A p \in Disks : Parent[p] # d

\* A filesystem lies on part of the device, or on all of it.
InUse(d) == \E m \in mounted : m = d \/ Parent[m] = d \/ Parent[d] = m

(***************************************************************************)
(* run_discard: the capabilities first; a probe or a test wants a range.    *)
(***************************************************************************)
\* Refused without a geometry, which is looked up by the name, or without a range to
\* probe or test. A mountinfo that cannot be read lists no mounts.
BeginDiscard(r, m, unseen) ==
  /\ discarding = "idle"
  /\ request' = r
  /\ mounted' = m /\ hidden' = unseen
  /\ \/ discarding' = "refused"
     \/ r.base # NoDisk /\ discarding' = IF r.rounds = 0 THEN "told" ELSE "validate"
  /\ UNCHANGED <<results, mounts, dirty>>

(***************************************************************************)
(* probe_discard: detect_discard, validate_discard_request, open, ioctl.    *)
(***************************************************************************)
Aligned(r) ==
  /\ r.granularity # 0
  /\ r.offset % r.granularity = 0 /\ r.length % r.granularity = 0
  /\ r.limit # 0 => r.length <= r.limit

\* Of the devices that are listed as mounted, the one that has the whole path, and for
\* the name of a disk its partitions. The root device is listed with the others.
InMountinfo == mounted \ hidden

Free(r) ==
  /\ r.full => r.disk \notin InMountinfo
  /\ \A p \in InMountinfo : Parent[p] # r.base

\* A refusal, or devices that cannot be looked up, ends the command; the results
\* of earlier rounds go with it.
Validate ==
  /\ discarding = "validate"
  /\ \/ discarding' = "refused"
     \/ /\ request.confirmed /\ Aligned(request) /\ Free(request)
        /\ discarding' = "open"
  /\ UNCHANGED <<request, results, mounted, hidden, mounts, dirty>>

OpenDisk ==
  /\ discarding = "open"
  /\ discarding' \in {"ioctl", "refused"}
  /\ UNCHANGED <<request, results, mounted, hidden, mounts, dirty>>

\* Mutant: the second round relies on the validation of the first.
DiscardOnceValidated ==
  /\ discarding = "ioctl"
  /\ \E ok \in BOOLEAN :
       /\ results' = Append(results, ok)
       /\ dirty' = IF ok /\ InUse(request.disk) THEN dirty + 1 ELSE dirty
  /\ discarding' = IF Len(results') = request.rounds THEN "told" ELSE "open"
  /\ UNCHANGED <<request, mounted, hidden, mounts>>

\* BLKDISCARD. The kernel's refusal is a result like any other, and does not keep
\* the next round from being tried.
DiscardRange ==
  /\ discarding = "ioctl"
  /\ \E ok \in BOOLEAN :
       /\ results' = Append(results, ok)
       /\ dirty' = IF ok /\ InUse(request.disk) THEN dirty + 1 ELSE dirty
  /\ discarding' = IF Len(results') = request.rounds THEN "told" ELSE "validate"
  /\ UNCHANGED <<request, mounted, hidden, mounts>>

(***************************************************************************)
(* The host.                                                                *)
(***************************************************************************)
Mount(d) ==
  /\ Working
  /\ mounts < MaxMounts /\ Mountable(d) /\ d \notin mounted
  /\ mounts' = mounts + 1
  /\ mounted' = mounted \cup {d}
  /\ UNCHANGED <<discarding, request, results, hidden, dirty>>

Unmount(d) ==
  /\ Working
  /\ d \in mounted /\ d # Root
  /\ mounted' = mounted \ {d}
  /\ UNCHANGED <<discarding, request, results, hidden, mounts, dirty>>

DiscardStep == Validate \/ OpenDisk \/ DiscardRange

DiscardNext ==
  \/ \E r \in Requests, m \in SUBSET Disks, unseen \in Unseen :
       /\ \A d \in m : Mountable(d)
       /\ BeginDiscard(r, m \cup {Root}, unseen)
  \/ DiscardStep
  \/ \E d \in Disks : Mount(d) \/ Unmount(d)

DiscardSpec == DiscardInit /\ [][DiscardNext]_discardVars

(***************************************************************************)
(* Properties.                                                              *)
(***************************************************************************)
DiscardTypeOK ==
  /\ discarding \in Discarding
  /\ request \in Requests \cup {NoRequest}
  /\ results \in Seq(BOOLEAN)
  /\ mounted \subseteq Disks /\ \A d \in mounted : Mountable(d)
  /\ hidden \subseteq Disks
  /\ mounts \in 0..MaxMounts /\ dirty \in Nat
  /\ IF discarding = "idle" THEN dirty = 0 ELSE request \in Requests

\* The command knows the device the path leads to: by the whole path, or as the disk of
\* its partitions, and nothing that is mounted is kept from it.
Recognised ==
  /\ discarding # "idle"
  /\ hidden = {}
  /\ request.full \/ (request.base = request.disk /\ ~ Mountable(request.disk))

\* The mounts are looked up before the device is opened, so a filesystem mounted
\* in between is hit; but every round looks again, so each mount by somebody else
\* lets at most one discard through, as long as the path is one the command
\* recognises and mountinfo lists the mounts (probe_discard, run_discard_test,
\* validate_discard_request).
StaleDiscardsAreFew == Recognised => dirty <= mounts

\* "Safety - ALL must pass before issuing BLKDISCARD: 1. Device must not be mounted"
\* (REQUIREMENTS.md:107-108). Where all mounts are listed, nothing has been mounted
\* since the command started and the path has the device's own name, no discard
\* should be about to hit a mounted one.
OnlyUnmountedDiscarded ==
  discarding = "ioctl" /\ hidden = {} /\ mounts = 0 /\ request.base = request.disk =>
    ~ InUse(request.disk)

\* Strengthening of StaleDiscardsAreFew: a discard that is validated, and whose device
\* has been mounted since, is one that the mounts still owe.
Overtaken == IF discarding \in {"open", "ioctl"} /\ InUse(request.disk) THEN 1 ELSE 0

StaleInv == DiscardTypeOK /\ (Recognised => dirty + Overtaken <= mounts)
=============================================================================
