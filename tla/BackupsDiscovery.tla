-------------------------- MODULE BackupsDiscovery --------------------------
(***************************************************************************)
(* The controller of one VirtualMachineBackupsDiscovery resource (VMBD):   *)
(* internal/controller/virtualmachinebackupsdiscovery_controller.go.       *)
(*                                                                         *)
(* A reconcile is a short program over a resource it reads from an         *)
(* informer cache and writes to the API server.  The cache follows the     *)
(* server with a delay, the user edits the spec meanwhile, the controller  *)
(* can crash between any two calls, and every write can fail.  The         *)
(* resource is kept as the sequence of its versions that the cache has not *)
(* passed yet: Head(log) is what a Get returns, Last(log) is the server's. *)
(***************************************************************************)
EXTENDS Integers, Sequences, FiniteSets

CONSTANTS
  Backups,      \* backup names: the second each was created in, counted from time.Time{}
  DayLength,    \* seconds of a day (short, so that a few backups span two)
  SpecChoices,  \* the specs a user may write, a subset of DiscoverySpec
  Clusters,     \* the Velero backups the behaviours start from
  BatchSize,    \* constant.BackupDiscoveryBatchSize
  MaxTries,     \* attempts updateStatusWithRetry makes (3 in the code)
  MaxGeneration,\* bound: generations of the spec
  MaxVersions,  \* bound: versions between the cache and the server
  MaxFaults,    \* bound: crashes and failed API calls
  StaleReads    \* FALSE: a reconcile starts only once the cache has caught up

(***************************************************************************)
(* DiscoveryStatistics, BackupDiscoveryProgress and the resource.  A spec  *)
(* selects by explicit list, by time range or by both.  A FlexibleTime is  *)
(* a date (at is its midnight, UTC), a full timestamp with its zone, the   *)
(* empty string or text that is neither; "absent" is a nil pointer.  A nil *)
(* DiscoveryStats is hasStats = FALSE with all counts zero.                *)
(***************************************************************************)
FlexibleTime ==
  {ft \in [form: {"absent", "empty", "malformed", "date", "timestamp"}, at: Nat, utc: BOOLEAN] :
     ft.form = "date" => ft.at % DayLength = 0}
DiscoverySpec == [requested: SUBSET Backups, startTime: FlexibleTime,
                  endTime: FlexibleTime]

VeleroBackup == [exists: BOOLEAN, phaseCompleted: BOOLEAN,
                 asyncIncomplete: BOOLEAN, includesVM: BOOLEAN]

EntryStatus == {"New", "InProgress", "Completed", "Skipped", "Failed", ""}
Entry == [backup: Backups, status: EntryStatus]
Stats == [total: Int, pending: Int, inProgress: Int, completed: Int,
          skipped: Int, failed: Int]
Reason == {"not found", "async incomplete", "discovery"}
Phase == {"", "New", "InProgress", "Completed", "Failed"}

\* listed is history: the generation whose spec the progress list was made for,
\* 0 while there is no list.  The status has no such field and no step reads it.
Resource == [gen: 1..MaxGeneration, spec: DiscoverySpec, phase: Phase,
             obs: 0..MaxGeneration, hasStats: BOOLEAN, stats: Stats,
             progress: Seq(Entry), listed: 0..MaxGeneration, valid: SUBSET Backups,
             invalid: SUBSET [backup: Backups, reason: Reason],
             ready: {"none", "True", "False"}]

NoStats == [total |-> 0, pending |-> 0, inProgress |-> 0, completed |-> 0,
            skipped |-> 0, failed |-> 0]

\* A resource as the API server stores it when the user creates it.
Created(s) == [gen |-> 1, spec |-> s, phase |-> "", obs |-> 0,
               hasStats |-> FALSE, stats |-> NoStats, progress |-> <<>>,
               listed |-> 0, valid |-> {}, invalid |-> {}, ready |-> "none"]

ASSUME ConstantsAssumption ==
  /\ Backups \subseteq Nat /\ IsFiniteSet(Backups)
  /\ DayLength \in Nat \ {0}
  /\ SpecChoices \subseteq DiscoverySpec
  /\ Clusters \subseteq [Backups -> VeleroBackup]
  /\ BatchSize \in Nat \ {0}
  /\ MaxTries \in Nat \ {0}
  /\ MaxGeneration \in Nat \ {0}
  /\ MaxVersions \in Nat \ {0, 1}
  /\ MaxFaults \in Nat
  /\ StaleReads \in BOOLEAN

VARIABLES
  log,     \* versions of the VMBD, from the cached one to the server's
  velero,  \* the Velero Backups, as their informer shows them
  queued,  \* the work queue holds the VMBD's key
  faults,  \* crashes and API failures left
  pc,      \* where the running reconcile is; "idle" when none runs
  step,    \* the step Reconcile selected
  mem,     \* the resource the step holds in memory
  fresh,   \* mem carries the server's resourceVersion
  tries,   \* failed attempts of the running updateStatusWithRetry
  batch,   \* indices of mem.progress the running batch covers
  cont     \* what follows the running updateStatusWithRetry

vars == <<log, velero, queued, faults, pc, step, mem, fresh, tries, batch, cont>>
worker == <<pc, step, mem, fresh, tries, batch, cont>>

Steps == {"none", "initializePhase", "initializeDiscoveryProcess",
          "checkForSpecChanges", "processDiscoveryBatch",
          "finalizeDiscoveryProcess"}
Places == {"idle", "fetch", "write", "list", "scan", "reread"}
Conts == {"requeue", "done", "list", "scan"}

cache == Head(log)
server == log[Len(log)]

\* The one type invariant of the module.
TypeOK ==
  /\ log \in Seq(Resource) /\ Len(log) \in 1..MaxVersions
  /\ velero \in [Backups -> VeleroBackup]
  /\ queued \in BOOLEAN
  /\ faults \in 0..MaxFaults
  /\ pc \in Places
  /\ step \in Steps
  /\ mem \in Resource
  /\ fresh \in BOOLEAN
  /\ tries \in 0..MaxTries
  /\ batch \subseteq 1..Len(mem.progress)
  /\ cont \in Conts

-----------------------------------------------------------------------------
(***************************************************************************)
(* The parts of a progress list.                                           *)
(***************************************************************************)
At(progress, status) == {i \in 1..Len(progress) : progress[i].status = status}
Count(progress, status) == Cardinality(At(progress, status))
Names(progress) == {progress[i].backup : i \in 1..Len(progress)}

\* isDiscoveryComplete
isDiscoveryComplete(o) ==
  /\ o.hasStats
  /\ o.stats.pending = 0 /\ o.stats.inProgress = 0
  /\ o.phase = "Completed"

\* Mutant of SelectedStep: only pending entries keep a batch going.
SelectedStepIgnoringInProgress(o) ==
  CASE o.phase = "" -> "initializePhase"
    [] o.phase # "" /\ ~o.hasStats -> "initializeDiscoveryProcess"
    [] o.phase # "" /\ isDiscoveryComplete(o) ->
         IF o.obs = o.gen THEN "checkForSpecChanges"
                          ELSE "initializeDiscoveryProcess"
    [] o.phase # "" /\ o.hasStats /\ ~isDiscoveryComplete(o) ->
         IF o.stats.pending > 0 THEN "processDiscoveryBatch" ELSE "finalizeDiscoveryProcess"

\* The step Reconcile selects for the resource it read.
SelectedStep(o) ==
  CASE o.phase = "" -> "initializePhase"
    [] o.phase # "" /\ ~o.hasStats -> "initializeDiscoveryProcess"
    [] o.phase # "" /\ isDiscoveryComplete(o) ->
         IF o.obs = o.gen THEN "checkForSpecChanges"
                          ELSE "initializeDiscoveryProcess"
    [] o.phase # "" /\ o.hasStats /\ ~isDiscoveryComplete(o) ->
         IF o.stats.pending > 0 \/ o.stats.inProgress > 0
           THEN "processDiscoveryBatch" ELSE "finalizeDiscoveryProcess"

-----------------------------------------------------------------------------
(***************************************************************************)
(* The worker.  Reconcile takes the key from the queue and selects a step  *)
(* on one Get; the step works on a second Get.                             *)
(***************************************************************************)
EndReconcile(requeue) ==
  /\ pc' = "idle" /\ step' = "none" /\ mem' = Created(cache.spec)
  /\ fresh' = FALSE /\ tries' = 0 /\ batch' = {} /\ cont' = "done"
  /\ queued' = (queued \/ requeue)

Reconcile ==
  /\ pc = "idle" /\ queued
  /\ StaleReads \/ Len(log) = 1
  /\ queued' = FALSE
  /\ pc' = "fetch" /\ step' = SelectedStep(cache)
  /\ UNCHANGED <<log, velero, faults, mem, fresh, tries, batch, cont>>

\* A step computed o from a Get and calls updateStatusWithRetry(o); k follows.
Fetched(o, k) ==
  /\ mem' = o /\ fresh' = (Len(log) = 1) /\ tries' = 0
  /\ pc' = "write" /\ cont' = k
  /\ UNCHANGED <<log, velero, queued, faults, step>>

initializePhase ==
  /\ pc = "fetch" /\ step = "initializePhase"
  /\ Fetched([cache EXCEPT !.phase = "New"], "requeue")
  /\ UNCHANGED batch

Cleared(o) == [o EXCEPT !.hasStats = FALSE, !.stats = NoStats, !.progress = <<>>,
                        !.listed = 0, !.valid = {}, !.invalid = {}, !.ready = "none"]

initializeDiscoveryProcess ==
  /\ pc = "fetch" /\ step = "initializeDiscoveryProcess"
  /\ Fetched([Cleared(cache) EXCEPT !.phase = "InProgress"], "list")
  /\ UNCHANGED batch

\* Mutant of checkForSpecChanges: the generations are not compared.
checkForSpecChangesAlwaysResets ==
  /\ pc = "fetch" /\ step = "checkForSpecChanges"
  /\ Fetched([Cleared(cache) EXCEPT !.phase = "New", !.obs = 0], "requeue")
  /\ UNCHANGED batch

checkForSpecChanges ==
  /\ pc = "fetch" /\ step = "checkForSpecChanges"
  /\ \/ /\ cache.obs # cache.gen
        /\ Fetched([Cleared(cache) EXCEPT !.phase = "New", !.obs = 0], "requeue")
        /\ UNCHANGED batch
     \/ /\ cache.obs = cache.gen
        /\ EndReconcile(FALSE)
        /\ UNCHANGED <<log, velero, faults>>

-----------------------------------------------------------------------------
(***************************************************************************)
(* initializeDiscovery: which backups are candidates, which requested ones *)
(* are missing, filtered out or not yet usable.                            *)
(***************************************************************************)
ValidateVMInBackupSpec(b) == velero[b].includesVM
BackupAsyncOperationsIncomplete(b) == velero[b].asyncIncomplete

\* FlexibleTime.Time(): the empty string is the zero time, not an error.
Parses(ft) == ft.form # "malformed"
Time(ft) == IF ft.form = "empty" THEN 0 ELSE ft.at
TimeRangeParses(s) == Parses(s.startTime) /\ Parses(s.endTime)

\* The last second of the day t is in: the fraction GetEndOfDay sets is lost in
\* its text form.
GetEndOfDay(t) == t - (t % DayLength) + DayLength - 1

\* Midnight on the clock of the time's zone and in UTC: a zone other than UTC
\* has one of the two, never both.
IsMidnight(ft) == (ft.form = "timestamp" => ft.utc) /\ Time(ft) % DayLength = 0

\* Mutant of EndTime: the end is taken as it was parsed.
EndTimeAsParsed(s) == Time(s.endTime)

\* parseTimeRange, for the end.
EndTime(s) == IF IsMidnight(s.endTime) THEN GetEndOfDay(Time(s.endTime)) ELSE Time(s.endTime)

\* An absent end is the present, which no existing backup is newer than.
InTimeRange(s, b) ==
  /\ s.startTime.form # "absent" => b >= Time(s.startTime)
  /\ s.endTime.form # "absent" => b <= EndTime(s)

\* With neither list nor range every existing backup is within the range.
Selects(s, b) ==
  LET hasTimeRange == s.startTime.form # "absent" \/ s.endTime.form # "absent"
      includeByTime == InTimeRange(s, b)
      includeByExplicitList == b \in s.requested
  IN IF s.requested # {} /\ hasTimeRange THEN includeByExplicitList \/ includeByTime
     ELSE IF s.requested # {} THEN includeByExplicitList
     ELSE includeByTime

Candidates(s) ==
  {b \in Backups : /\ velero[b].exists
                   /\ velero[b].phaseCompleted
                   /\ ~BackupAsyncOperationsIncomplete(b)
                   /\ Selects(s, b)
                   /\ ValidateVMInBackupSpec(b)}

\* classifyRequestedBackups
Missing(s) == {b \in s.requested : ~velero[b].exists}
AsyncIncomplete(s) ==
  {b \in s.requested : velero[b].exists /\ BackupAsyncOperationsIncomplete(b)}
FilteredOut(s) ==
  {b \in s.requested : /\ velero[b].exists
                       /\ ~BackupAsyncOperationsIncomplete(b)
                       /\ ~ValidateVMInBackupSpec(b)}

\* Candidates are listed newest first; the filtered-out ones in map order.
NewestFirst(S) == {c \in [1..Cardinality(S) -> S] :
                     \A i, j \in 1..Cardinality(S) : i < j => c[i] > c[j]}
AnyOrder(S) == {c \in [1..Cardinality(S) -> S] :
                  \A i, j \in 1..Cardinality(S) : i # j => c[i] # c[j]}

\* The progress list: candidates c still to scan, then filtered-out f.
InitialProgress(c, f) ==
  [i \in 1..(Len(c) + Len(f)) |->
     IF i <= Len(c) THEN [backup |-> c[i], status |-> "New"]
                    ELSE [backup |-> f[i - Len(c)], status |-> "Skipped"]]

Initialized(o, c, f) ==
  LET missing == Missing(o.spec) IN
  [o EXCEPT
     !.hasStats = TRUE,
     !.stats = [total |-> Len(c) + Cardinality(missing) + Len(f),
                pending |-> Len(c), inProgress |-> 0, completed |-> 0,
                skipped |-> Len(f), failed |-> Cardinality(missing)],
     !.progress = InitialProgress(c, f),
     !.listed = o.gen,
     !.valid = {},
     !.invalid = [backup: missing, reason: {"not found"}]
                   \cup [backup: AsyncIncomplete(o.spec), reason: {"async incomplete"}]]

initializeDiscovery ==
  /\ pc = "list" /\ TimeRangeParses(mem.spec)
  /\ \E c \in NewestFirst(Candidates(mem.spec)), f \in AnyOrder(FilteredOut(mem.spec)) :
        mem' = Initialized(mem, c, f)
  /\ pc' = "write" /\ tries' = 0 /\ cont' = "requeue"
  /\ UNCHANGED <<log, velero, queued, faults, step, fresh, batch>>

\* parseTimeRange fails: the error is returned and the key retried.
TimeRangeError ==
  /\ pc = "list" /\ ~TimeRangeParses(mem.spec)
  /\ EndReconcile(TRUE)
  /\ UNCHANGED <<log, velero, faults>>

\* Listing the backups fails: Failed is recorded, and the error retried.
ListError ==
  /\ pc = "list" /\ faults > 0 /\ faults' = faults - 1
  /\ mem' = [mem EXCEPT !.phase = "Failed", !.obs = mem.gen]
  /\ pc' = "write" /\ tries' = 0 /\ cont' = "requeue"
  /\ UNCHANGED <<log, velero, queued, step, fresh, batch>>

-----------------------------------------------------------------------------
(***************************************************************************)
(* processDiscoveryBatch.  Goroutine i writes its result to slot           *)
(* (i-1) % size of a shared array; two goroutines with one slot race, and  *)
(* a slot nobody writes keeps the zero value, which names entry 1.         *)
(***************************************************************************)
\* Mutant of NextBatch: one-based positions where the code has zero-based ones.
NextBatchOffByOne(progress) ==
  LET pending == At(progress, "New") IN
  {i + 1 : i \in {k \in pending : Cardinality({j \in pending : j < k}) < BatchSize}}

\* The first BatchSize entries still New.
NextBatch(progress) ==
  LET pending == At(progress, "New") IN
  {i \in pending : Cardinality({j \in pending : j < i}) < BatchSize}

WithStatus(progress, S, status) ==
  [i \in 1..Len(progress) |->
     IF i \in S THEN [progress[i] EXCEPT !.status = status] ELSE progress[i]]

\* n entries go from pending to in progress (back, when n is negative).
Started(st, n) == [st EXCEPT !.pending = @ - n, !.inProgress = @ + n]

MarkInProgress(o, B) ==
  [o EXCEPT !.progress = WithStatus(o.progress, B, "InProgress"),
            !.stats = Started(o.stats, Cardinality(B))]

\* The entry a retry starts over: the first one left InProgress.
StuckEntries(progress) ==
  {i \in At(progress, "InProgress") : \A j \in At(progress, "InProgress") : i <= j}

\* Mutant of ResetStuck: the counters are not adjusted.
ResetStuckForgetsCounters(o, S) ==
  [o EXCEPT !.progress = WithStatus(o.progress, S, "New")]

ResetStuck(o, S) ==
  [o EXCEPT !.progress = WithStatus(o.progress, S, "New"),
            !.stats = Started(o.stats, -Cardinality(S))]

\* Mutants of RetriesStuck: stuck entries fill up a short batch, or stay stuck.
RetriesStuckEarly(progress) ==
  Count(progress, "New") < BatchSize /\ At(progress, "InProgress") # {}
RetriesStuckNever(progress) == FALSE

\* Entries left InProgress are stuck once no entry is New.
RetriesStuck(progress) ==
  At(progress, "New") = {} /\ At(progress, "InProgress") # {}

processDiscoveryBatch ==
  /\ pc = "fetch" /\ step = "processDiscoveryBatch"
  /\ \/ /\ ~RetriesStuck(cache.progress) /\ At(cache.progress, "New") # {}
        /\ batch' = NextBatch(cache.progress)
        /\ Fetched(MarkInProgress(cache, batch'), "scan")
     \/ /\ RetriesStuck(cache.progress)
        /\ Fetched(ResetStuck(cache, StuckEntries(cache.progress)), "requeue")
        /\ UNCHANGED batch
     \/ /\ ~RetriesStuck(cache.progress) /\ At(cache.progress, "New") = {}
        /\ EndReconcile(FALSE)
        /\ UNCHANGED <<log, velero, faults>>

Slot(i, size) == (i - 1) % size

\* What scanning entry i of the batch may yield: the backup may be gone, the
\* fetch may fail, and a failed content check falls back to the spec's answer.
Outcomes(i) ==
  LET b == mem.progress[i].backup IN
  IF ~velero[b].exists THEN {"Failed"}
  ELSE IF ~ValidateVMInBackupSpec(b) THEN {"Skipped", "Failed"}
  ELSE {"Completed", "Skipped", "Failed"}

\* The array the goroutines leave behind: per slot, one of its writers.
Results(size) ==
  LET writers(s) == {i \in batch : Slot(i, size) = s} IN
  {r \in [0..(size - 1) -> [idx: batch \cup {1}, status: EntryStatus]] :
     \A s \in 0..(size - 1) :
        IF writers(s) = {} THEN r[s] = [idx |-> 1, status |-> ""]
        ELSE r[s].idx \in writers(s) /\ r[s].status \in Outcomes(r[s].idx)}

\* Applying the results slot by slot: the last slot naming an entry decides.
ApplyResults(o, r, size) ==
  LET slots == 0..(size - 1)
      naming(i) == {s \in slots : r[s].idx = i}
      last(i) == CHOOSE s \in naming(i) : \A t \in naming(i) : t <= s
      got(status) == Cardinality({s \in slots : r[s].status = status})
  IN [o EXCEPT
        !.progress = [i \in 1..Len(o.progress) |->
                        IF naming(i) = {} THEN o.progress[i]
                        ELSE [o.progress[i] EXCEPT !.status = r[last(i)].status]],
        !.valid = @ \cup {o.progress[r[s].idx].backup :
                            s \in {t \in slots : r[t].status = "Completed"}},
        !.stats = [o.stats EXCEPT !.inProgress = @ - size,
                                  !.completed = @ + got("Completed"),
                                  !.skipped = @ + got("Skipped"),
                                  !.failed = @ + got("Failed")]]

ScanBatch ==
  /\ pc = "scan"
  /\ LET size == Cardinality(batch) IN
       \E r \in Results(size) : mem' = ApplyResults(mem, r, size)
  /\ pc' = "write" /\ tries' = 0 /\ batch' = {} /\ cont' = "requeue"
  /\ UNCHANGED <<log, velero, queued, faults, step, fresh>>

-----------------------------------------------------------------------------
(***************************************************************************)
(* finalizeDiscoveryProcess sorts the progress list into valid and invalid *)
(* backups, reads the resource again and writes the result onto that copy. *)
(***************************************************************************)
FinalValid(o) == {o.progress[i].backup : i \in At(o.progress, "Completed")}

\* Mutant of FinalInvalid: requested backups that were never listed are dropped.
FinalInvalidWithoutMissing(o) ==
  LET kept == {x \in o.invalid : x.backup \in o.spec.requested}
      discovered == Names(o.progress) \ FinalValid(o)
  IN kept \cup [backup: discovered \ {x.backup : x \in kept}, reason: {"discovery"}]

FinalInvalid(o) ==
  LET kept == {x \in o.invalid : x.backup \in o.spec.requested}
      keptNames == {x.backup : x \in kept}
      discovered == Names(o.progress) \ FinalValid(o)
      missing == o.spec.requested \ (Names(o.progress) \cup keptNames)
  IN kept \cup [backup: discovered \ keptNames, reason: {"discovery"}]
          \cup [backup: missing, reason: {"not found"}]

finalizeDiscoveryProcess ==
  /\ pc = "fetch" /\ step = "finalizeDiscoveryProcess"
  /\ mem' = [cache EXCEPT !.valid = FinalValid(cache), !.invalid = FinalInvalid(cache)]
  /\ pc' = "reread"
  /\ UNCHANGED <<log, velero, queued, faults, step, fresh, tries, batch, cont>>

Finalized(o, lists) ==
  [o EXCEPT !.valid = lists.valid, !.invalid = lists.invalid,
            !.phase = "Completed", !.obs = o.gen,
            !.ready = IF lists.valid # {} THEN "True" ELSE "False"]

ApplyFinal ==
  /\ pc = "reread"
  /\ Fetched(Finalized(cache, mem), "done")
  /\ UNCHANGED batch

-----------------------------------------------------------------------------
(***************************************************************************)
(* updateStatusWithRetry: Status().Update with the resourceVersion of mem. *)
(* After a retry the caller's own copy keeps its stale resourceVersion.    *)
(***************************************************************************)
\* Only the status of o reaches the server.
StatusOf(o, onto) == [o EXCEPT !.gen = onto.gen, !.spec = onto.spec]

UpdateSucceeds ==
  /\ pc = "write" /\ fresh /\ Len(log) < MaxVersions
  /\ log' = Append(log, StatusOf(mem, server))
  /\ \/ /\ cont \in {"list", "scan"}
        /\ pc' = cont /\ fresh' = (tries = 0) /\ tries' = 0
        /\ UNCHANGED <<queued, step, mem, batch, cont>>
     \/ /\ cont \in {"requeue", "done"}
        /\ EndReconcile(cont = "requeue")
  /\ UNCHANGED <<velero, faults>>

UpdateConflicts ==
  /\ pc = "write" /\ ~fresh
  /\ \/ /\ tries + 1 < MaxTries
        /\ tries' = tries + 1 /\ fresh' = (Len(log) = 1)
        /\ UNCHANGED <<queued, pc, step, mem, batch, cont>>
     \/ /\ tries + 1 = MaxTries
        /\ EndReconcile(TRUE)
  /\ UNCHANGED <<log, velero, faults>>

UpdateFails ==
  /\ pc = "write" /\ faults > 0 /\ faults' = faults - 1
  /\ EndReconcile(TRUE)
  /\ UNCHANGED <<log, velero>>

-----------------------------------------------------------------------------
(***************************************************************************)
(* The environment: the informer catches up and enqueues the key, the user *)
(* edits the spec, Velero backups finish or expire (mapBackupToVMBD        *)
(* enqueues every VMBD), and the controller crashes and restarts.          *)
(***************************************************************************)
InformerDelivers ==
  /\ Len(log) > 1
  /\ log' = Tail(log) /\ queued' = TRUE
  /\ UNCHANGED <<velero, faults, worker>>

EditSpec ==
  /\ server.gen < MaxGeneration /\ Len(log) < MaxVersions
  /\ \E s \in SpecChoices \ {server.spec} :
        log' = Append(log, [server EXCEPT !.spec = s, !.gen = @ + 1])
  /\ fresh' = FALSE
  /\ UNCHANGED <<velero, queued, faults, pc, step, mem, tries, batch, cont>>

BackupFinishes(b) ==
  /\ velero[b].exists
  /\ \/ ~velero[b].phaseCompleted /\ velero' = [velero EXCEPT ![b].phaseCompleted = TRUE]
     \/ velero[b].asyncIncomplete /\ velero' = [velero EXCEPT ![b].asyncIncomplete = FALSE]
  /\ queued' = TRUE
  /\ UNCHANGED <<log, faults, worker>>

BackupExpires(b) ==
  /\ velero[b].exists
  /\ velero' = [velero EXCEPT ![b].exists = FALSE]
  /\ queued' = TRUE
  /\ UNCHANGED <<log, faults, worker>>

Crash ==
  /\ faults > 0 /\ faults' = faults - 1
  /\ log' = <<server>> /\ queued' = TRUE
  /\ pc' = "idle" /\ step' = "none" /\ mem' = Created(server.spec)
  /\ fresh' = FALSE /\ tries' = 0 /\ batch' = {} /\ cont' = "done"
  /\ UNCHANGED velero

Init ==
  /\ \E s \in SpecChoices : log = <<Created(s)>> /\ mem = Created(s)
  /\ velero \in Clusters
  /\ queued = TRUE /\ faults = MaxFaults
  /\ pc = "idle" /\ step = "none" /\ fresh = FALSE /\ tries = 0
  /\ batch = {} /\ cont = "done"

Controller ==
  \/ Reconcile
  \/ initializePhase
  \/ initializeDiscoveryProcess
  \/ initializeDiscovery
  \/ TimeRangeError
  \/ checkForSpecChanges
  \/ processDiscoveryBatch
  \/ ScanBatch
  \/ finalizeDiscoveryProcess
  \/ ApplyFinal
  \/ UpdateSucceeds
  \/ UpdateConflicts

Environment ==
  \/ EditSpec
  \/ \E b \in Backups : BackupFinishes(b) \/ BackupExpires(b)
  \/ ListError
  \/ UpdateFails
  \/ Crash

Next == Controller \/ InformerDelivers \/ Environment

Spec == Init /\ [][Next]_vars

(***************************************************************************)
(* The worker takes its next step when it can and watch events arrive; no  *)
(* fairness is asked of the user, of Velero or of the faults.              *)
(***************************************************************************)
FairSpec == Spec /\ WF_vars(Controller) /\ WF_vars(InformerDelivers)

-----------------------------------------------------------------------------
(***************************************************************************)
(* Properties.                                                             *)
(***************************************************************************)

\* Every status the controller publishes is self-consistent: the counters of
\* DiscoveryStats are the numbers of entries in each state of the progress
\* list, and they add up to TotalCandidates (the difference between the two
\* lists is the missing backups, counted as failed from the start).  The
\* counters are kept by increments in processDiscoveryBatch, over retries,
\* resets of stuck entries, stale reads and crashes.
StatsMatchProgress ==
  \A n \in 1..Len(log) :
    LET st == log[n].stats
        p == log[n].progress
    IN log[n].hasStats =>
         /\ st.pending = Count(p, "New")
         /\ st.inProgress = Count(p, "InProgress")
         /\ st.completed = Count(p, "Completed")
         /\ st.skipped = Count(p, "Skipped")
         /\ st.failed - Count(p, "Failed") = st.total - Len(p)

\* No two goroutines of a batch share a slot of the results array, which
\* processDiscoveryBatch indexes by idx % batchSize without a lock: no result
\* is lost and there is no data race.
SlotsDistinct ==
  pc = "scan" =>
    \A i, j \in batch : i # j => Slot(i, Cardinality(batch)) # Slot(j, Cardinality(batch))

\* Why SlotsDistinct holds, as an inductive invariant: in every version of the
\* resource and in the copy at hand the entries still New are consecutive,
\* whatever crashes left InProgress around them, and a batch is a run of
\* consecutive entries, none of them New any more.
Consecutive(S) == \A i, k \in S : i..k \subseteq S
Scanning == pc = "scan" \/ (pc = "write" /\ cont = "scan")

ScanInv ==
  /\ \A n \in 1..Len(log) : Consecutive(At(log[n].progress, "New"))
  /\ Consecutive(At(mem.progress, "New"))
  /\ Consecutive(batch)
  /\ \A i \in batch : mem.progress[i].status # "New"
  /\ batch # {} => Scanning

\* A discovery is published as Completed only when every entry was scanned,
\* and its ValidBackups are exactly the entries in which the VM was found,
\* although finalizeDiscoveryProcess reads the resource three times and mixes
\* lists computed from one copy with the progress of another.
CompletedMeansScanned ==
  server.phase = "Completed" =>
    /\ At(server.progress, "New") = {} /\ At(server.progress, "InProgress") = {}
    /\ server.valid = FinalValid(server)

\* What the types' comments say of the two times: a date stands for its whole
\* day, a timestamp for its second.
DayOf(t) == t \div DayLength
NotBefore(ft, b) ==
  CASE ft.form = "date" -> DayOf(b) >= DayOf(ft.at)
    [] ft.form = "timestamp" -> b >= ft.at
    [] OTHER -> TRUE
NotAfter(ft, b) ==
  CASE ft.form = "date" -> DayOf(b) <= DayOf(ft.at)
    [] ft.form = "timestamp" -> b <= ft.at
    [] OTHER -> TRUE
Written(s, b) == NotBefore(s.startTime, b) /\ NotAfter(s.endTime, b)

\* An end that is written in full and falls on midnight UTC is taken for a date:
\* parseTimeRange sees only the parsed time.  The empty string ends the range at
\* the zero time.
EndIsAmbiguous(s) ==
  \/ s.endTime.form = "empty"
  \/ s.endTime.form = "timestamp" /\ IsMidnight(s.endTime)

\* The time range a spec writes is the one parseTimeRange computes, in both
\* directions and over the boundaries of days: dates cover their whole day,
\* timestamps of any zone their second, and a midnight elsewhere is not a date.
\* An ambiguous end admits the rest of that day and nothing later.
TimeRangeAsWritten ==
  LET s == server.spec IN
  TimeRangeParses(s) =>
    \A b \in Backups :
      IF EndIsAmbiguous(s)
      THEN InTimeRange(s, b) =>
             NotBefore(s.startTime, b) /\ DayOf(b) <= DayOf(Time(s.endTime))
      ELSE InTimeRange(s, b) <=> Written(s, b)

\* The lists answer the spec: each requested backup is reported as valid or as
\* invalid, and every valid backup is one the spec selects.
Answers(o) ==
  /\ o.spec.requested \subseteq o.valid \cup {x.backup : x \in o.invalid}
  /\ \A b \in o.valid : Selects(o.spec, b)

\* What a Completed discovery tells, with edits at any time.  No backup is both
\* valid and invalid, and the lists answer the spec the candidates were listed
\* for: while that is the current one, they answer the current spec, although
\* the lists are made by several reconciles from several reads of the resource
\* and backups finish, expire or fail to be read meanwhile.
ResultsAnswerSpec ==
  server.phase = "Completed" =>
    /\ server.valid \cap {x.backup : x \in server.invalid} = {}
    /\ server.listed = server.gen => Answers(server)

\* "ObservedGeneration represents the .metadata.generation that the status was
\* set based upon": a Completed discovery that observed the current generation
\* answers the current spec, also one that was edited during the scan.
ObservedMeansAnswered ==
  server.phase = "Completed" /\ server.obs = server.gen => Answers(server)

\* "Completed indicates discovery finished successfully and all candidate
\* backups were scanned without errors. Valid backups were found."
CompletedMeansSuccess ==
  server.phase = "Completed" =>
    At(server.progress, "Failed") = {} /\ server.valid # {}

\* A finished discovery stays finished until the spec changes: no reconcile
\* that a backup event, a retry or a restart starts reopens or clears it.
CompletedIsStable ==
  [][ isDiscoveryComplete(server) /\ server.obs = server.gen /\ server'.gen = server.gen
        => server'.phase = "Completed" /\ server'.obs = server.gen /\ server'.hasStats ]_vars

\* Once faults, edits and expiring backups are over, the discovery ends for the
\* latest spec and stays so, for specs whose times parse: nothing is left to be
\* scanned and its generation is observed, whatever crashed, failed or was left
\* InProgress before.  Which of the phases that end a discovery is the right one
\* is not asked here (CompletedMeansSuccess).
DiscoveryEnds ==
  <>[](TimeRangeParses(server.spec) =>
         /\ server.phase \notin {"", "New", "InProgress"} /\ server.obs = server.gen
         /\ server.hasStats
         /\ At(server.progress, "New") \cup At(server.progress, "InProgress") = {})

=============================================================================
