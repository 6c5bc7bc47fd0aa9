-------------------- MODULE BackupsDiscoverySafetyProofs --------------------
(***************************************************************************)
(* What the discovery publishes: its counters agree with its list in every *)
(* version, Completed means that everything was scanned, a completed       *)
(* discovery stays so, and its results answer the spec.                    *)
(***************************************************************************)
EXTENDS BackupsDiscoveryProofs

Versions == 1..Len(log)

(***************************************************************************)
(* Counters and progress lists.                                            *)
(***************************************************************************)
Balanced(st, p) ==
  /\ st.pending = Count(p, "New")
  /\ st.inProgress = Count(p, "InProgress")
  /\ st.completed = Count(p, "Completed")
  /\ st.skipped = Count(p, "Skipped")
  /\ st.failed - Count(p, "Failed") = st.total - Len(p)

Consistent(o) == o.hasStats => Balanced(o.stats, o.progress)

\* Every copy of the resource is self-consistent, so it does not matter which of
\* them a stale read returns or a retry stores.
StatsInv ==
  /\ \A n \in Versions : Consistent(log[n])
  /\ Consistent(mem)
  /\ \A i \in batch : mem.progress[i].status = "InProgress"

(***************************************************************************)
(* A completed discovery.                                                  *)
(***************************************************************************)
Scanned(o) == At(o.progress, "New") = {} /\ At(o.progress, "InProgress") = {}
Sound(o) == o.phase = "Completed" => Scanned(o) /\ o.valid = FinalValid(o)

\* What the selected step relies on holds in every version up to the server's:
\* only edits of the spec come between the selection and the write.
CompletedInv ==
  /\ \A n \in Versions : Sound(log[n])
  /\ pc = "write" => Sound(mem)
  /\ pc \in {"list", "scan"} \/ (pc = "write" /\ cont \in {"list", "scan"}) =>
       mem.phase # "Completed"
  /\ pc = "fetch" /\ step = "processDiscoveryBatch" =>
       \A n \in Versions : log[n].phase # "Completed"
  /\ pc = "fetch" /\ step = "finalizeDiscoveryProcess" =>
       \A n \in Versions : Scanned(log[n]) /\ log[n].progress = server.progress
  /\ pc = "reread" =>
       /\ mem.valid = FinalValid(mem)
       /\ \A n \in Versions : Scanned(log[n]) /\ log[n].progress = mem.progress

Settled(o) == isDiscoveryComplete(o) /\ o.obs = o.gen

\* Observed generations are generations that were there.
GenerationInv ==
  /\ \A n \in Versions : log[n].obs <= log[n].gen /\ log[n].gen <= server.gen
  /\ mem.obs <= mem.gen /\ mem.gen <= server.gen

\* No reconcile that would write runs on a settled discovery.
SettledInv ==
  /\ pc \in {"write", "list", "scan", "reread"}
       \/ (pc = "fetch" /\ step # "checkForSpecChanges") => ~Settled(server)
  /\ pc = "fetch" /\ step = "checkForSpecChanges" => \A n \in Versions : log[n].obs = server.obs

(***************************************************************************)
(* The results of a discovery.                                             *)
(***************************************************************************)
InvalidNames(o) == {x.backup : x \in o.invalid}

\* A list that is being scanned has none of the rejected backups and, while the
\* spec it was made for is the copy's, only backups that spec selects.
Listed(o) ==
  /\ InvalidNames(o) \cap Names(o.progress) = {}
  /\ o.listed = o.gen => \A b \in Names(o.progress) : Selects(o.spec, b)

Answered(o) ==
  /\ o.valid \cap InvalidNames(o) = {}
  /\ o.listed = o.gen => Answers(o)

Answering(o) ==
  /\ o.phase # "Completed" /\ o.hasStats => Listed(o)
  /\ o.phase = "Completed" => Answered(o)

\* y is a later copy than x, or one of the same generation and so of the same spec.
Follows(x, y) == x.gen <= y.gen /\ (x.gen = y.gen => x.spec = y.spec)

Working == pc \in {"write", "list", "scan", "reread"}

\* Generations never go back along the versions, the copy at hand is older than all
\* of them, and no list was made for a generation that was not there yet.
OrderInv ==
  /\ \A n \in Versions : log[n].listed <= log[n].gen
  /\ \A m, n \in Versions : m <= n => Follows(log[m], log[n])
  /\ Working => mem.listed <= mem.gen /\ \A n \in Versions : Follows(mem, log[n])

\* Every copy answers the spec its list was made for.  The lists finalization holds
\* and the copies it can write them onto come from the same list: only edits come
\* between its reads.
AnswerInv ==
  /\ \A n \in Versions : Answering(log[n])
  /\ pc \in {"write", "list", "scan"} => Answering(mem)
  /\ pc = "list" \/ (pc = "write" /\ cont = "list") => ~mem.hasStats
  /\ pc = "fetch" /\ step = "initializePhase" => \A n \in Versions : log[n].phase = ""
  /\ pc = "fetch" /\ step = "finalizeDiscoveryProcess" =>
       \A n \in Versions : /\ log[n].hasStats /\ log[n].phase # "Completed"
                           /\ log[n].listed = server.listed
  /\ pc = "reread" => Answered(mem) /\ \A n \in Versions : log[n].listed = mem.listed

-----------------------------------------------------------------------------
(***************************************************************************)
(* Counting entries.                                                       *)
(***************************************************************************)
LEMMA AtFinite ==
  ASSUME NEW p \in Seq(Entry), NEW s
  PROVE  /\ At(p, s) \subseteq 1..Len(p) /\ IsFiniteSet(At(p, s))
         /\ Count(p, s) = Cardinality(At(p, s)) /\ Count(p, s) \in Nat
<1>1. Len(p) \in Nat /\ At(p, s) \subseteq 1..Len(p)
  BY DEF At
<1> QED
  BY <1>1, IndicesFinite DEF Count

\* No entry counted, none there.
LEMMA NoneCounted ==
  ASSUME NEW p \in Seq(Entry), NEW s
  PROVE  Count(p, s) = 0 <=> At(p, s) = {}
BY AtFinite, FS_EmptySet

LEMMA CardinalityLess ==
  ASSUME NEW S, IsFiniteSet(S), NEW B \in SUBSET S
  PROVE  Cardinality(S \ B) = Cardinality(S) - Cardinality(B)
<1>1. S \cap B = B
  OBVIOUS
<1> QED
  BY <1>1, FS_Difference

LEMMA CardinalityMore ==
  ASSUME NEW S, IsFiniteSet(S), NEW B, IsFiniteSet(B), S \cap B = {}
  PROVE  Cardinality(S \cup B) = Cardinality(S) + Cardinality(B)
<1>1. Cardinality(S) \in Nat /\ Cardinality(B) \in Nat
  BY FS_CardinalityType
<1>2. Cardinality(S \cup B) = Cardinality(S) + Cardinality(B) - Cardinality(S \cap B)
  BY FS_Union
<1>3. Cardinality(S \cap B) = 0
  BY FS_EmptySet
<1> QED
  BY <1>1, <1>2, <1>3

\* w is p with the entries of B moved from one status to another.
Moved(p, w, B, from, to) ==
  /\ Len(w) = Len(p) /\ from # to /\ B \subseteq At(p, from)
  /\ \A i \in 1..Len(p) : w[i].status = IF i \in B THEN to ELSE p[i].status

\* Both counts change by the number of entries moved.
LEMMA CountsMoved ==
  ASSUME NEW p \in Seq(Entry), NEW w \in Seq(Entry), NEW B, NEW from, NEW to,
         Moved(p, w, B, from, to)
  PROVE  /\ Count(w, from) = Count(p, from) - Cardinality(B)
         /\ Count(w, to) = Count(p, to) + Cardinality(B)
         /\ \A s : s \notin {from, to} => Count(w, s) = Count(p, s)
<1>1. B \subseteq 1..Len(p) /\ At(p, from) \cap At(p, to) = {}
  BY DEF At, Moved
<1>2. IsFiniteSet(B)
  BY AtFinite, FS_Subset DEF Moved
<1>3. At(w, from) = At(p, from) \ B
  BY DEF At, Moved
<1>4. At(w, to) = At(p, to) \cup B
  BY <1>1 DEF At, Moved
<1>5. \A s : s \notin {from, to} => At(w, s) = At(p, s)
  BY DEF At, Moved
<1>6. At(p, to) \cap B = {}
  BY <1>1 DEF Moved
<1>7. Cardinality(At(w, from)) = Cardinality(At(p, from)) - Cardinality(B)
  BY <1>3, AtFinite, CardinalityLess DEF Moved
<1>8. Cardinality(At(w, to)) = Cardinality(At(p, to)) + Cardinality(B)
  BY <1>2, <1>4, <1>6, AtFinite, CardinalityMore
<1> QED
  BY <1>5, <1>7, <1>8 DEF Count

\* Moving n entries from pending to in progress, or back.
LEMMA StartedFields ==
  ASSUME NEW st \in Stats, NEW n \in Int
  PROVE  /\ Started(st, n).pending = st.pending - n
         /\ Started(st, n).inProgress = st.inProgress + n
         /\ Started(st, n).completed = st.completed /\ Started(st, n).skipped = st.skipped
         /\ Started(st, n).failed = st.failed /\ Started(st, n).total = st.total
<1> DEFINE x == st.pending - n
           y == st.inProgress + n
<1>1. Started(st, n) = [st EXCEPT !.pending = x, !.inProgress = y]
  BY DEF Started, Stats
<1> HIDE DEF x, y
<1>2. /\ Started(st, n).pending = x /\ Started(st, n).inProgress = y
      /\ Started(st, n).completed = st.completed /\ Started(st, n).skipped = st.skipped
      /\ Started(st, n).failed = st.failed /\ Started(st, n).total = st.total
  BY <1>1 DEF Stats
<1> QED
  BY <1>2 DEF x, y

\* Marking a batch keeps the counters in step with the list.
LEMMA MarkBalanced ==
  ASSUME NEW o \in Resource, NEW B \in SUBSET At(o.progress, "New"),
         Balanced(o.stats, o.progress)
  PROVE  Balanced(MarkInProgress(o, B).stats, MarkInProgress(o, B).progress)
<1> DEFINE p == o.progress
           w == WithStatus(o.progress, B, "InProgress")
           n == Cardinality(B)
           st == Started(o.stats, n)
<1>1. p \in Seq(Entry) /\ o.stats \in Stats
  BY DEF Resource
<1>2. "InProgress" \in EntryStatus
  BY DEF EntryStatus
<1>3. /\ w \in Seq(Entry) /\ Len(w) = Len(p)
      /\ \A i \in 1..Len(p) : w[i].status = IF i \in B THEN "InProgress" ELSE p[i].status
  BY <1>1, <1>2, WithStatusType
<1>4. n \in Nat
  BY <1>1, AtFinite, FS_Subset, FS_CardinalityType
<1>5. MarkInProgress(o, B).stats = st /\ MarkInProgress(o, B).progress = w
  BY DEF MarkInProgress, Resource
<1>6. /\ Count(w, "New") = Count(p, "New") - n
      /\ Count(w, "InProgress") = Count(p, "InProgress") + n
      /\ \A s : s \notin {"New", "InProgress"} => Count(w, s) = Count(p, s)
  <2>1. Moved(p, w, B, "New", "InProgress")
    BY <1>3 DEF Moved
  <2> QED
    BY <1>1, <1>3, <2>1, CountsMoved
<1>7. /\ st.pending = o.stats.pending - n /\ st.inProgress = o.stats.inProgress + n
      /\ st.completed = o.stats.completed /\ st.skipped = o.stats.skipped
      /\ st.failed = o.stats.failed /\ st.total = o.stats.total
  BY <1>1, <1>4, StartedFields
<1> HIDE DEF p, w, n, st
<1>8. Balanced(o.stats, p)
  BY DEF p
<1>9. Balanced(st, w)
  BY <1>3, <1>6, <1>7, <1>8 DEF Balanced
<1> QED
  BY <1>5, <1>9

\* So does resetting stuck entries.
LEMMA ResetBalanced ==
  ASSUME NEW o \in Resource, NEW B \in SUBSET At(o.progress, "InProgress"),
         Balanced(o.stats, o.progress)
  PROVE  Balanced(ResetStuck(o, B).stats, ResetStuck(o, B).progress)
<1> DEFINE p == o.progress
           w == WithStatus(o.progress, B, "New")
           n == Cardinality(B)
           st == Started(o.stats, -n)
<1>1. p \in Seq(Entry) /\ o.stats \in Stats
  BY DEF Resource
<1>2. "New" \in EntryStatus
  BY DEF EntryStatus
<1>3. /\ w \in Seq(Entry) /\ Len(w) = Len(p)
      /\ \A i \in 1..Len(p) : w[i].status = IF i \in B THEN "New" ELSE p[i].status
  BY <1>1, <1>2, WithStatusType
<1>4. n \in Nat
  BY <1>1, AtFinite, FS_Subset, FS_CardinalityType
<1>5. ResetStuck(o, B).stats = st /\ ResetStuck(o, B).progress = w
  BY DEF ResetStuck, Resource
<1>6. /\ Count(w, "InProgress") = Count(p, "InProgress") - n
      /\ Count(w, "New") = Count(p, "New") + n
      /\ \A s : s \notin {"New", "InProgress"} => Count(w, s) = Count(p, s)
  <2>1. Moved(p, w, B, "InProgress", "New")
    BY <1>3 DEF Moved
  <2> QED
    BY <1>1, <1>3, <2>1, CountsMoved
<1>7. /\ st.pending = o.stats.pending + n /\ st.inProgress = o.stats.inProgress - n
      /\ st.completed = o.stats.completed /\ st.skipped = o.stats.skipped
      /\ st.failed = o.stats.failed /\ st.total = o.stats.total
  <2>1. -n \in Int
    BY <1>4
  <2>2. /\ st.pending = o.stats.pending - (-n) /\ st.inProgress = o.stats.inProgress + (-n)
        /\ st.completed = o.stats.completed /\ st.skipped = o.stats.skipped
        /\ st.failed = o.stats.failed /\ st.total = o.stats.total
    BY <1>1, <2>1, StartedFields
  <2>3. o.stats.pending \in Int /\ o.stats.inProgress \in Int
    BY <1>1 DEF Stats
  <2> HIDE DEF st, n
  <2> QED
    BY <1>4, <2>2, <2>3
<1> HIDE DEF p, w, n, st
<1>8. Balanced(o.stats, p)
  BY DEF p
<1>9. Balanced(st, w)
  BY <1>3, <1>6, <1>7, <1>8 DEF Balanced
<1> QED
  BY <1>5, <1>9

\* The counters initializeDiscovery starts with: the missing backups are in no entry.
LEMMA InitializedBalanced ==
  ASSUME NEW o \in Resource, velero \in [Backups -> VeleroBackup],
         NEW c \in NewestFirst(Candidates(o.spec)),
         NEW f \in AnyOrder(FilteredOut(o.spec))
  PROVE  Balanced(Initialized(o, c, f).stats, Initialized(o, c, f).progress)
<1> DEFINE p == InitialProgress(c, f)
           m == Len(c)
           k == Len(f)
           u == Cardinality(Missing(o.spec))
           st == [total |-> m + u + k, pending |-> m, inProgress |-> 0, completed |-> 0,
                  skipped |-> k, failed |-> u]
<1>1. Initialized(o, c, f).stats = st /\ Initialized(o, c, f).progress = p
  BY DEF Initialized, Resource
<1>2. p \in Seq(Entry)
  <2>1. Initialized(o, c, f) \in Resource
    BY InitializedType
  <2> HIDE DEF p
  <2> QED
    BY <1>1, <2>1 DEF Resource
<1>3. m \in Nat /\ k \in Nat /\ u \in Nat
  <2>1. o.spec.requested \subseteq Backups
    BY DEF Resource, DiscoverySpec
  <2>2. Candidates(o.spec) \subseteq Backups /\ FilteredOut(o.spec) \subseteq Backups
    BY <2>1 DEF Candidates, FilteredOut
  <2>3. /\ Cardinality(Candidates(o.spec)) \in Nat /\ Cardinality(FilteredOut(o.spec)) \in Nat
    BY <2>2, BackupsFinite
  <2>4. /\ c \in [1..Cardinality(Candidates(o.spec)) -> Candidates(o.spec)]
        /\ f \in [1..Cardinality(FilteredOut(o.spec)) -> FilteredOut(o.spec)]
    BY DEF NewestFirst, AnyOrder
  <2>5. m \in Nat /\ k \in Nat
    BY <2>3, <2>4
  <2>6. Missing(o.spec) \subseteq Backups
    BY <2>1 DEF Missing
  <2> QED
    BY <2>5, <2>6, BackupsFinite
<1>4. Len(p) = m + k
  BY <1>3 DEF InitialProgress
<1>5. \A i \in 1..(m + k) : p[i].status = IF i <= m THEN "New" ELSE "Skipped"
  BY DEF InitialProgress
<1> HIDE DEF p, m, k, u
<1>6. At(p, "New") = 1..m
  BY <1>3, <1>4, <1>5 DEF At
<1>7. At(p, "Skipped") = (m + 1)..(m + k)
  BY <1>3, <1>4, <1>5 DEF At
<1>8. At(p, "InProgress") = {} /\ At(p, "Completed") = {} /\ At(p, "Failed") = {}
  BY <1>4, <1>5 DEF At
<1>9. Count(p, "New") = m
  BY <1>3, <1>6, FS_Interval DEF Count
<1>10. Count(p, "Skipped") = k
  <2> DEFINE a == m + 1
             b == m + k
  <2>1. a \in Int /\ b \in Int
    BY <1>3
  <2> HIDE DEF a, b
  <2>2. Cardinality(a..b) = IF a > b THEN 0 ELSE b - a + 1
    BY <2>1, FS_Interval
  <2>3. Cardinality((m + 1)..(m + k)) = k
    BY <1>3, <2>2 DEF a, b
  <2> QED
    BY <1>7, <2>3 DEF Count
<1>11. Count(p, "InProgress") = 0 /\ Count(p, "Completed") = 0 /\ Count(p, "Failed") = 0
  BY <1>8, FS_EmptySet DEF Count
<1>12. /\ st.pending = m /\ st.inProgress = 0 /\ st.completed = 0 /\ st.skipped = k
       /\ st.failed = u /\ st.total = m + u + k
  OBVIOUS
<1> HIDE DEF st
<1>13. st.failed - Count(p, "Failed") = st.total - Len(p)
  BY <1>3, <1>4, <1>11, <1>12
<1>14. Balanced(st, p)
  BY <1>9, <1>10, <1>11, <1>12, <1>13 DEF Balanced
<1> QED
  BY <1>1, <1>14

\* The results of a batch whose goroutines have a slot each: slot by slot, the
\* result of one entry.
Result(r, size, i) == r[Slot(i, size)].status

LEMMA OneResultEach ==
  ASSUME IInv, pc = "scan", NEW size, size = Cardinality(batch), NEW r \in Results(size)
  PROVE  /\ size \in Nat /\ IsFiniteSet(batch)
         /\ \A i \in batch : /\ Slot(i, size) \in 0..(size - 1)
                             /\ r[Slot(i, size)].idx = i
                             /\ Result(r, size, i) \in {"Completed", "Skipped", "Failed"}
         /\ \A s \in 0..(size - 1) : \E i \in batch : Slot(i, size) = s
         /\ \A i, j \in batch : Slot(i, size) = Slot(j, size) => i = j
<1> DEFINE n == Len(mem.progress)
           slots == 0..(size - 1)
           f == [i \in batch |-> Slot(i, size)]
           writers(s) == {i \in batch : Slot(i, size) = s}
<1>1. n \in Nat /\ batch \subseteq 1..n
  BY DEF IInv, TypeOK, Resource
<1>2. size \in Nat /\ IsFiniteSet(batch)
  BY <1>1, IndicesFinite
<1>3. \A i, j \in batch : Slot(i, size) = Slot(j, size) => i = j
  BY SlotsApart DEF SlotsDistinct
<1>4. \A i \in batch : Slot(i, size) \in slots
  <2> TAKE i \in batch
  <2>1. size # 0
    BY <1>2, FS_EmptySet
  <2>2. i \in Nat \ {0}
    BY <1>1
  <2>3. i - 1 \in Nat
    BY <2>2
  <2> HIDE DEF n
  <2>4. (i - 1) % size \in 0..(size - 1)
    BY <1>2, <2>1, <2>3
  <2> QED
    BY <2>4 DEF Slot
<1>5. f \in Injection(batch, slots)
  BY <1>3, <1>4 DEF Injection, IsInjective
<1>6. IsFiniteSet(slots) /\ Cardinality(slots) = size
  <2> DEFINE b == size - 1
  <2>1. b \in Int /\ 0 \in Int
    BY <1>2
  <2> HIDE DEF b
  <2>2. IsFiniteSet(0..b) /\ Cardinality(0..b) = IF 0 > b THEN 0 ELSE b - 0 + 1
    BY <2>1, FS_Interval
  <2> QED
    BY <1>2, <2>2 DEF b
<1>7. f \in Surjection(batch, slots)
  <2> HIDE DEF f, slots
  <2> QED
    BY <1>2, <1>5, <1>6, FS_Injection
<1>8. \A s \in slots : \E i \in batch : Slot(i, size) = s
  BY <1>7 DEF Surjection
<1>9. \A s \in slots : /\ r[s].idx \in writers(s)
                       /\ r[s].status \in Outcomes(r[s].idx)
  <2>1. \A s \in slots : IF writers(s) = {} THEN r[s] = [idx |-> 1, status |-> ""]
                         ELSE r[s].idx \in writers(s) /\ r[s].status \in Outcomes(r[s].idx)
    BY DEF Results
  <2>2. \A s \in slots : writers(s) # {}
    BY <1>8
  <2> HIDE DEF writers, slots
  <2> QED
    BY <2>1, <2>2
<1>10. ASSUME NEW i \in batch
       PROVE  /\ r[Slot(i, size)].idx = i
              /\ Result(r, size, i) \in {"Completed", "Skipped", "Failed"}
  <2>1. /\ r[Slot(i, size)].idx \in batch
        /\ Slot(r[Slot(i, size)].idx, size) = Slot(i, size)
        /\ r[Slot(i, size)].status \in Outcomes(r[Slot(i, size)].idx)
    BY <1>4, <1>9
  <2>2. r[Slot(i, size)].idx = i
    BY <1>3, <2>1
  <2>3. Outcomes(i) \subseteq {"Completed", "Skipped", "Failed"}
    BY DEF Outcomes
  <2> QED
    BY <2>1, <2>2, <2>3 DEF Result
<1> QED
  BY <1>2, <1>3, <1>4, <1>8, <1>10

\* As many slots hold a status as entries of the batch have it for a result.
SlotsWith(r, size, x) == {s \in 0..(size - 1) : r[s].status = x}
EntriesWith(r, size, x) == {i \in batch : Result(r, size, i) = x}

LEMMA ResultsCounted ==
  ASSUME IInv, pc = "scan", NEW size, size = Cardinality(batch), NEW r \in Results(size),
         NEW x
  PROVE  Cardinality(SlotsWith(r, size, x)) = Cardinality(EntriesWith(r, size, x))
<1> DEFINE S == {s \in 0..(size - 1) : r[s].status = x}
           B == {i \in batch : Result(r, size, i) = x}
           f == [i \in B |-> Slot(i, size)]
<1>1. /\ IsFiniteSet(batch)
      /\ \A i \in batch : Slot(i, size) \in 0..(size - 1)
      /\ \A s \in 0..(size - 1) : \E i \in batch : Slot(i, size) = s
      /\ \A i, j \in batch : Slot(i, size) = Slot(j, size) => i = j
  BY OneResultEach
<1>2. IsFiniteSet(B)
  BY <1>1, FS_Subset
<1>3. f \in [B -> S] /\ \A i, j \in B : f[i] = f[j] => i = j
  BY <1>1 DEF Result
<1>4. \A s \in S : \E i \in B : f[i] = s
  BY <1>1 DEF Result
<1> HIDE DEF S, B, f
<1>5. f \in Bijection(B, S)
  BY <1>3, <1>4 DEF Bijection, Injection, Surjection, IsInjective
<1>6. ExistsBijection(B, S)
  BY <1>5 DEF ExistsBijection
<1>7. Cardinality(S) = Cardinality(B)
  BY <1>2, <1>6, FS_Bijection
<1> QED
  BY <1>7 DEF S, B, SlotsWith, EntriesWith

\* Applying the results keeps the counters in step with the list: nothing is
\* counted twice, nothing is lost.
LEMMA ApplyBalanced ==
  ASSUME IInv, pc = "scan", NEW size, size = Cardinality(batch), NEW r \in Results(size),
         \A i \in batch : mem.progress[i].status = "InProgress",
         Balanced(mem.stats, mem.progress)
  PROVE  Balanced(ApplyResults(mem, r, size).stats, ApplyResults(mem, r, size).progress)
<1> DEFINE p == mem.progress
           slots == 0..(size - 1)
           naming(i) == {s \in slots : r[s].idx = i}
           last(i) == CHOOSE s \in naming(i) : \A t \in naming(i) : t <= s
           got(status) == Cardinality(SlotsWith(r, size, status))
           w == [i \in 1..Len(p) |->
                   IF naming(i) = {} THEN p[i] ELSE [p[i] EXCEPT !.status = r[last(i)].status]]
           B(x) == EntriesWith(r, size, x)
           st == [mem.stats EXCEPT !.inProgress = @ - size,
                                   !.completed = @ + got("Completed"),
                                   !.skipped = @ + got("Skipped"),
                                   !.failed = @ + got("Failed")]
<1>1. /\ mem \in Resource /\ p \in Seq(Entry) /\ mem.stats \in Stats /\ Len(p) \in Nat
      /\ batch \subseteq 1..Len(p)
  BY DEF IInv, TypeOK, Resource
<1>2. /\ size \in Nat /\ IsFiniteSet(batch)
      /\ \A i \in batch : /\ Slot(i, size) \in slots /\ r[Slot(i, size)].idx = i
                          /\ Result(r, size, i) \in {"Completed", "Skipped", "Failed"}
      /\ \A s \in slots : \E i \in batch : Slot(i, size) = s
      /\ \A i, j \in batch : Slot(i, size) = Slot(j, size) => i = j
  BY OneResultEach
<1>3. \A i \in batch : naming(i) = {Slot(i, size)}
  BY <1>2
<1>4. \A i \in (1..Len(p)) \ batch : naming(i) = {}
  BY <1>2
<1>5. \A i \in batch : last(i) = Slot(i, size)
  <2> TAKE i \in batch
  <2>1. naming(i) = {Slot(i, size)} /\ Slot(i, size) \in Int
    BY <1>2, <1>3
  <2> HIDE DEF naming
  <2> QED
    BY <2>1
<1> HIDE DEF naming, last
<1>6. \A i \in 1..Len(p) : w[i].status = IF i \in batch THEN Result(r, size, i) ELSE p[i].status
  <2> TAKE i \in 1..Len(p)
  <2>1. p[i] \in Entry
    BY <1>1
  <2>2. CASE i \in batch
    <3>1. naming(i) # {} /\ last(i) = Slot(i, size)
      BY <1>3, <1>5, <2>2
    <3>2. w[i] = [p[i] EXCEPT !.status = r[Slot(i, size)].status]
      BY <3>1
    <3> QED
      BY <2>1, <2>2, <3>2 DEF Entry, Result
  <2>3. CASE i \notin batch
    <3>1. naming(i) = {}
      BY <1>4, <2>3
    <3> QED
      BY <2>3, <3>1
  <2> QED
    BY <2>2, <2>3
<1>7. w \in Seq(Entry) /\ Len(w) = Len(p) /\ ApplyResults(mem, r, size).progress = w
      /\ ApplyResults(mem, r, size).stats = st
  <2>1. ApplyResults(mem, r, size) \in Resource
    BY ApplyResultsType DEF IInv, ScanInv
  <2>2. ApplyResults(mem, r, size).progress = w /\ ApplyResults(mem, r, size).stats = st
    BY <1>1 DEF ApplyResults, Resource, SlotsWith, naming, last
  <2>3. Len(w) = Len(p)
    BY <1>1
  <2> HIDE DEF w
  <2> QED
    BY <2>1, <2>2, <2>3 DEF Resource
<1> HIDE DEF w
<1>8. batch \subseteq At(p, "InProgress")
  BY <1>1 DEF At
<1>9. At(w, "New") = At(p, "New") /\ At(w, "InProgress") = At(p, "InProgress") \ batch
  <2>1. \A i \in batch : /\ w[i].status \notin {"New", "InProgress"}
                         /\ p[i].status = "InProgress"
    BY <1>1, <1>2, <1>6
  <2>2. \A i \in (1..Len(p)) \ batch : w[i].status = p[i].status
    BY <1>6
  <2> HIDE DEF p
  <2> QED
    BY <1>7, <2>1, <2>2 DEF At
<1>10. ASSUME NEW x \in {"Completed", "Skipped", "Failed"}
       PROVE  Count(w, x) = Count(p, x) + got(x)
  <2>1. At(w, x) = At(p, x) \cup B(x)
    BY <1>1, <1>6, <1>7 DEF At, EntriesWith
  <2>2. At(p, x) \cap B(x) = {}
    BY <1>8 DEF At, EntriesWith
  <2>3. IsFiniteSet(B(x))
    BY <1>2, FS_Subset DEF EntriesWith
  <2>4. got(x) = Cardinality(B(x))
    BY ResultsCounted
  <2> HIDE DEF B, got
  <2> QED
    BY <1>1, <2>1, <2>2, <2>3, <2>4, AtFinite, CardinalityMore DEF Count
<1>11. Count(w, "InProgress") = Count(p, "InProgress") - size
  BY <1>1, <1>8, <1>9, AtFinite, CardinalityLess DEF Count
<1>12. Count(w, "New") = Count(p, "New")
  BY <1>9 DEF Count
<1>13. \A x \in {"Completed", "Skipped", "Failed"} : got(x) \in Nat
  <2> TAKE x \in {"Completed", "Skipped", "Failed"}
  <2>1. IsFiniteSet(B(x))
    BY <1>2, FS_Subset DEF EntriesWith
  <2>2. got(x) = Cardinality(B(x))
    BY ResultsCounted
  <2> QED
    BY <2>1, <2>2, FS_CardinalityType
<1> HIDE DEF got, B
<1>14. /\ st.pending = mem.stats.pending /\ st.inProgress = mem.stats.inProgress - size
       /\ st.completed = mem.stats.completed + got("Completed")
       /\ st.skipped = mem.stats.skipped + got("Skipped")
       /\ st.failed = mem.stats.failed + got("Failed") /\ st.total = mem.stats.total
  <2> DEFINE a == mem.stats.inProgress - size
             b == mem.stats.completed + got("Completed")
             c == mem.stats.skipped + got("Skipped")
             d == mem.stats.failed + got("Failed")
  <2>1. st = [mem.stats EXCEPT !.inProgress = a, !.completed = b, !.skipped = c, !.failed = d]
    BY <1>1 DEF Stats
  <2> HIDE DEF a, b, c, d, st
  <2>2. /\ st.pending = mem.stats.pending /\ st.inProgress = a
        /\ st.completed = b /\ st.skipped = c
        /\ st.failed = d /\ st.total = mem.stats.total
    BY <1>1, <2>1 DEF Stats
  <2> QED
    BY <2>2 DEF a, b, c, d
<1>15. Balanced(mem.stats, p)
  OBVIOUS
<1> HIDE DEF st, p
<1>16. /\ st.pending = Count(w, "New") /\ st.inProgress = Count(w, "InProgress")
       /\ st.completed = Count(w, "Completed") /\ st.skipped = Count(w, "Skipped")
  BY <1>10, <1>11, <1>12, <1>14, <1>15 DEF Balanced
<1>17. st.failed - Count(w, "Failed") = st.total - Len(w)
  <2>1. /\ mem.stats.failed \in Int /\ mem.stats.total \in Int /\ got("Failed") \in Int
        /\ Count(p, "Failed") \in Int /\ Len(p) \in Int
    BY <1>1, <1>13, AtFinite DEF Stats
  <2>2. mem.stats.failed - Count(p, "Failed") = mem.stats.total - Len(p)
    BY <1>15 DEF Balanced
  <2>3. Count(w, "Failed") = Count(p, "Failed") + got("Failed") /\ Len(w) = Len(p)
    BY <1>7, <1>10
  <2> QED
    BY <1>14, <2>1, <2>2, <2>3
<1> QED
  BY <1>7, <1>16, <1>17 DEF Balanced

-----------------------------------------------------------------------------
(***************************************************************************)
(* The versions of the resource after a step.                              *)
(***************************************************************************)
\* Every version is an old one, or the new server's.
Grown(o) ==
  /\ server' = o
  /\ \A n \in Versions' : log'[n] = o \/ \E k \in Versions : log'[n] = log[k]

\* The server's version stays, and so does every other that is left.
Shrunk ==
  /\ server' = server
  /\ \A n \in Versions' : \E k \in Versions : log'[n] = log[k]

LEMMA LogFacts ==
  ASSUME IInv
  PROVE  /\ log \in Seq(Resource) /\ Len(log) \in Nat /\ Len(log) >= 1
         /\ Versions = 1..Len(log) /\ 1 \in Versions /\ Len(log) \in Versions
         /\ cache = log[1] /\ server = log[Len(log)]
         /\ \A n \in Versions : log[n] \in Resource
<1>1. log \in Seq(Resource) /\ Len(log) \in 1..MaxVersions /\ MaxVersions \in Nat
  BY ConstantsAssumption DEF IInv, TypeOK
<1> QED
  BY <1>1 DEF Versions, cache, server

LEMMA AppendGrows ==
  ASSUME IInv, NEW o \in Resource, log' = Append(log, o)
  PROVE  Grown(o) /\ Len(log') = Len(log) + 1
<1>1. log \in Seq(Resource) /\ Len(log) \in Nat /\ Versions = 1..Len(log)
  BY LogFacts
<1>2. Len(log') = Len(log) + 1 /\ log'[Len(log) + 1] = o
  BY <1>1
<1>3. \A n \in 1..(Len(log) + 1) : n = Len(log) + 1 \/ (n \in 1..Len(log) /\ log'[n] = log[n])
  BY <1>1
<1> QED
  BY <1>1, <1>2, <1>3 DEF Grown, Versions, server

LEMMA SameLog ==
  ASSUME log' = log
  PROVE  server' = server /\ cache' = cache /\ Versions' = Versions /\ Shrunk
BY DEF server, cache, Versions, Shrunk

LEMMA DeliveryShrinks ==
  ASSUME IInv, InformerDelivers
  PROVE  Shrunk
<1>1. /\ log \in Seq(Resource) /\ Len(log) \in Nat /\ Len(log) > 1 /\ log' = Tail(log)
      /\ Versions = 1..Len(log)
  BY LogFacts DEF InformerDelivers
<1>2. Len(log') = Len(log) - 1
  BY <1>1
<1>3. \A n \in 1..(Len(log) - 1) : log'[n] = log[n + 1] /\ n + 1 \in 1..Len(log)
  BY <1>1
<1>4. log'[Len(log')] = log[Len(log)]
  <2>1. Len(log) - 1 \in 1..(Len(log) - 1) /\ (Len(log) - 1) + 1 = Len(log)
    BY <1>1
  <2> QED
    BY <1>2, <1>3, <2>1
<1> QED
  BY <1>1, <1>2, <1>3, <1>4 DEF Shrunk, Versions, server

LEMMA CrashShrinks ==
  ASSUME IInv, Crash
  PROVE  Shrunk
<1>1. log' = <<server>>
  BY DEF Crash
<1>2. Len(log') = 1 /\ log'[1] = server
  BY <1>1
<1>3. Len(log) \in Versions /\ log[Len(log)] = server
  BY LogFacts
<1>4. server' = server
  BY <1>2 DEF server
<1>5. \A n \in Versions' : n = 1
  BY <1>2 DEF Versions
<1> QED
  BY <1>2, <1>3, <1>4, <1>5 DEF Shrunk

\* The edited resource.
Edited(s) == [server EXCEPT !.spec = s, !.gen = server.gen + 1]

LEMMA EditedFields ==
  ASSUME IInv, server.gen < MaxGeneration, NEW s \in SpecChoices
  PROVE  /\ Edited(s) \in Resource
         /\ Edited(s).spec = s /\ Edited(s).gen = server.gen + 1
         /\ Edited(s).phase = server.phase /\ Edited(s).obs = server.obs
         /\ Edited(s).hasStats = server.hasStats /\ Edited(s).stats = server.stats
         /\ Edited(s).progress = server.progress /\ Edited(s).valid = server.valid
         /\ Edited(s).invalid = server.invalid /\ Edited(s).listed = server.listed
<1>1. server \in Resource
  BY VersionsWellFormed
<1>2. s \in DiscoverySpec
  BY ConstantsAssumption
<1>3. PICK g : g = server.gen + 1
  OBVIOUS
<1>4. g \in 1..MaxGeneration
  <2>1. server.gen \in 1..MaxGeneration /\ MaxGeneration \in Nat
    BY <1>1, ConstantsAssumption DEF Resource
  <2> QED
    BY <1>3, <2>1
<1>5. Edited(s) = [server EXCEPT !.spec = s, !.gen = g]
  BY <1>3 DEF Edited
<1>6. /\ Edited(s) \in Resource
      /\ Edited(s).spec = s /\ Edited(s).gen = g
      /\ Edited(s).phase = server.phase /\ Edited(s).obs = server.obs
      /\ Edited(s).hasStats = server.hasStats /\ Edited(s).stats = server.stats
      /\ Edited(s).progress = server.progress /\ Edited(s).valid = server.valid
      /\ Edited(s).invalid = server.invalid /\ Edited(s).listed = server.listed
  BY <1>1, <1>2, <1>4, <1>5 DEF Resource
<1> QED
  BY <1>3, <1>6

LEMMA EditGrows ==
  ASSUME IInv, EditSpec
  PROVE  \E s \in SpecChoices : Grown(Edited(s)) /\ server.gen < MaxGeneration
<1>1. PICK s \in SpecChoices : log' = Append(log, Edited(s))
  BY DEF EditSpec, Edited
<1>2. server.gen < MaxGeneration
  BY DEF EditSpec
<1>3. Edited(s) \in Resource
  BY <1>2, EditedFields
<1> QED
  BY <1>1, <1>2, <1>3, AppendGrows

LEMMA StatusOfFields ==
  ASSUME NEW o \in Resource, NEW onto \in Resource
  PROVE  /\ StatusOf(o, onto) \in Resource
         /\ StatusOf(o, onto).spec = onto.spec /\ StatusOf(o, onto).gen = onto.gen
         /\ StatusOf(o, onto).phase = o.phase /\ StatusOf(o, onto).obs = o.obs
         /\ StatusOf(o, onto).hasStats = o.hasStats /\ StatusOf(o, onto).stats = o.stats
         /\ StatusOf(o, onto).progress = o.progress /\ StatusOf(o, onto).valid = o.valid
         /\ StatusOf(o, onto).invalid = o.invalid /\ StatusOf(o, onto).listed = o.listed
BY DEF StatusOf, Resource

LEMMA UpdateGrows ==
  ASSUME IInv, UpdateSucceeds
  PROVE  Grown(StatusOf(mem, server)) /\ Len(log') = Len(log) + 1
<1>1. server \in Resource /\ mem \in Resource
  BY VersionsWellFormed DEF IInv, TypeOK
<1>2. StatusOf(mem, server) \in Resource
  BY <1>1, StatusOfFields
<1> QED
  BY <1>2, AppendGrows DEF UpdateSucceeds

\* The steps that leave every version as it is.
QuietSteps ==
  \/ Reconcile \/ initializePhase \/ initializeDiscoveryProcess \/ initializeDiscovery
  \/ TimeRangeError \/ ListError \/ checkForSpecChanges \/ processDiscoveryBatch \/ ScanBatch
  \/ finalizeDiscoveryProcess \/ ApplyFinal \/ UpdateConflicts \/ UpdateFails
  \/ \E b \in Backups : BackupFinishes(b) \/ BackupExpires(b)

LEMMA QuietLog ==
  ASSUME QuietSteps
  PROVE  log' = log
BY DEF QuietSteps, Reconcile, initializePhase, initializeDiscoveryProcess, initializeDiscovery,
       TimeRangeError, ListError, checkForSpecChanges, processDiscoveryBatch, ScanBatch,
       finalizeDiscoveryProcess, ApplyFinal, UpdateConflicts, UpdateFails, BackupFinishes,
       BackupExpires, Fetched

LEMMA StepKinds ==
  ASSUME [Next]_vars
  PROVE  \/ UNCHANGED vars \/ QuietSteps \/ UpdateSucceeds
         \/ InformerDelivers \/ EditSpec \/ Crash
BY DEF Next, Controller, Environment, QuietSteps

-----------------------------------------------------------------------------
(***************************************************************************)
(* The counters.                                                           *)
(***************************************************************************)
LEMMA CreatedFields ==
  ASSUME NEW s
  PROVE  /\ Created(s).spec = s /\ Created(s).gen = 1 /\ Created(s).obs = 0
         /\ Created(s).phase = "" /\ Created(s).hasStats = FALSE /\ Created(s).progress = <<>>
         /\ Created(s).listed = 0
BY DEF Created

LEMMA ClearedFields ==
  ASSUME NEW o \in Resource
  PROVE  /\ Cleared(o) \in Resource
         /\ Cleared(o).spec = o.spec /\ Cleared(o).gen = o.gen /\ Cleared(o).obs = o.obs
         /\ Cleared(o).phase = o.phase /\ Cleared(o).hasStats = FALSE
         /\ Cleared(o).progress = <<>> /\ Cleared(o).valid = {} /\ Cleared(o).invalid = {}
         /\ Cleared(o).listed = 0
BY ClearedType DEF Cleared, Resource

\* Only the three fields that count matter.
LEMMA ConsistentFields ==
  ASSUME NEW o, NEW x, o.hasStats = x.hasStats, o.stats = x.stats, o.progress = x.progress,
         Consistent(o)
  PROVE  Consistent(x)
BY DEF Consistent

LEMMA StuckAreInProgress ==
  ASSUME NEW p
  PROVE  StuckEntries(p) \in SUBSET At(p, "InProgress")
BY DEF StuckEntries

LEMMA BatchIsNew ==
  ASSUME NEW p
  PROVE  NextBatch(p) \in SUBSET At(p, "New")
BY DEF NextBatch

\* Ending a reconcile forgets the copy.
LEMMA EndStats ==
  ASSUME StatsInv, log' = log \/ Shrunk \/ Grown(StatusOf(mem, server)), IInv,
         \E s : mem' = Created(s), batch' = {}
  PROVE  StatsInv'
<1>1. Consistent(mem')
  BY CreatedFields DEF Consistent
<1>2. \A n \in Versions : Consistent(log[n])
  BY DEF StatsInv
<1>3. \A n \in Versions' : Consistent(log'[n])
  <2>1. CASE log' = log \/ Shrunk
    BY <1>2, <2>1, SameLog DEF Shrunk
  <2>2. CASE Grown(StatusOf(mem, server))
    <3>1. mem \in Resource /\ server \in Resource /\ Consistent(mem)
      BY VersionsWellFormed DEF IInv, TypeOK, StatsInv
    <3>2. Consistent(StatusOf(mem, server))
      BY <3>1, StatusOfFields, ConsistentFields
    <3> QED
      BY <1>2, <2>2, <3>2 DEF Grown
  <2> QED
    BY <2>1, <2>2
<1> QED
  BY <1>1, <1>3 DEF StatsInv

\* A step that computes a consistent copy and holds no batch.
LEMMA MemStats ==
  ASSUME StatsInv, log' = log, Consistent(mem'),
         \A i \in batch' : mem'.progress[i].status = "InProgress"
  PROVE  StatsInv'
BY SameLog DEF StatsInv

LEMMA StatsStep ==
  ASSUME IInv, StatsInv, [Next]_vars
  PROVE  StatsInv'
<1>1. /\ cache \in Resource /\ server \in Resource /\ mem \in Resource
      /\ Consistent(cache) /\ Consistent(server) /\ Consistent(mem)
  BY VersionsWellFormed, LogFacts DEF IInv, TypeOK, StatsInv
<1>2. \A i \in batch : mem.progress[i].status = "InProgress"
  BY DEF StatsInv
<1>3. CASE UNCHANGED vars
  BY <1>3 DEF vars, StatsInv, Versions
<1>4. CASE Reconcile \/ \E b \in Backups : BackupFinishes(b) \/ BackupExpires(b)
  <2>1. UNCHANGED <<log, mem, batch>>
    BY <1>4 DEF Reconcile, BackupFinishes, BackupExpires, worker
  <2> QED
    BY <1>1, <1>2, <2>1, MemStats
<1>5. CASE initializePhase
  <2>1. mem' = [cache EXCEPT !.phase = "New"] /\ log' = log /\ batch' = batch
    BY <1>5 DEF initializePhase, Fetched
  <2>2. batch = {}
    BY <1>5, NoBatchElsewhere DEF initializePhase
  <2>3. mem'.hasStats = cache.hasStats /\ mem'.stats = cache.stats
        /\ mem'.progress = cache.progress
    BY <1>1, <2>1 DEF Resource
  <2>4. Consistent(mem')
    BY <1>1, <2>3, ConsistentFields
  <2> QED
    BY <2>1, <2>2, <2>4, MemStats
<1>6. CASE initializeDiscoveryProcess
  <2>1. mem' = [Cleared(cache) EXCEPT !.phase = "InProgress"] /\ log' = log /\ batch' = batch
    BY <1>6 DEF initializeDiscoveryProcess, Fetched
  <2>2. batch = {}
    BY <1>6, NoBatchElsewhere DEF initializeDiscoveryProcess
  <2>3. mem'.hasStats = FALSE
    BY <1>1, <2>1, ClearedFields DEF Resource
  <2> QED
    BY <2>1, <2>2, <2>3, MemStats DEF Consistent
<1>7. CASE initializeDiscovery
  <2>1. PICK c \in NewestFirst(Candidates(mem.spec)), f \in AnyOrder(FilteredOut(mem.spec)) :
          mem' = Initialized(mem, c, f)
    BY <1>7 DEF initializeDiscovery
  <2>2. velero \in [Backups -> VeleroBackup]
    BY DEF IInv, TypeOK
  <2>3. Balanced(mem'.stats, mem'.progress)
    BY <1>1, <2>1, <2>2, InitializedBalanced
  <2>4. batch = {} /\ log' = log /\ batch' = batch
    BY <1>7, NoBatchElsewhere DEF initializeDiscovery
  <2> QED
    BY <2>3, <2>4, MemStats DEF Consistent
<1>8. CASE TimeRangeError \/ UpdateFails
  <2>1. log' = log /\ mem' = Created(cache.spec) /\ batch' = {}
    BY <1>8 DEF TimeRangeError, UpdateFails, EndReconcile
  <2> QED
    BY <2>1, EndStats
<1>9. CASE ListError
  <2>1. mem' = [mem EXCEPT !.phase = "Failed", !.obs = mem.gen] /\ log' = log /\ batch' = batch
    BY <1>9 DEF ListError
  <2>2. batch = {}
    BY <1>9, NoBatchElsewhere DEF ListError
  <2>3. mem'.hasStats = mem.hasStats /\ mem'.stats = mem.stats /\ mem'.progress = mem.progress
    BY <1>1, <2>1 DEF Resource
  <2>4. Consistent(mem')
    BY <1>1, <2>3, ConsistentFields
  <2> QED
    BY <2>1, <2>2, <2>4, MemStats
<1>10. CASE checkForSpecChanges
  <2>1. CASE Fetched([Cleared(cache) EXCEPT !.phase = "New", !.obs = 0], "requeue")
             /\ UNCHANGED batch
    <3>1. mem' = [Cleared(cache) EXCEPT !.phase = "New", !.obs = 0] /\ log' = log
      BY <2>1 DEF Fetched
    <3>2. batch = {}
      BY <1>10, NoBatchElsewhere DEF checkForSpecChanges
    <3>3. mem'.hasStats = FALSE
      BY <1>1, <3>1, ClearedFields DEF Resource
    <3> QED
      BY <2>1, <3>1, <3>2, <3>3, MemStats DEF Consistent
  <2>2. CASE EndReconcile(FALSE) /\ UNCHANGED <<log, velero, faults>>
    BY <2>2, EndStats DEF EndReconcile
  <2> QED
    BY <1>10, <2>1, <2>2 DEF checkForSpecChanges
<1>11. CASE processDiscoveryBatch
  <2> DEFINE p == cache.progress
  <2>1. CASE batch' = NextBatch(p) /\ Fetched(MarkInProgress(cache, batch'), "scan")
    <3> DEFINE B == NextBatch(p)
               m == MarkInProgress(cache, B)
    <3>1. mem' = m /\ log' = log /\ batch' = B
      BY <2>1 DEF Fetched
    <3>2. B \in SUBSET At(p, "New") /\ p \in Seq(Entry) /\ "InProgress" \in EntryStatus
      BY <1>1, BatchIsNew DEF Resource, EntryStatus
    <3>3. /\ m.hasStats = cache.hasStats
          /\ m.progress = WithStatus(p, B, "InProgress")
      BY <1>1 DEF MarkInProgress, Resource
    <3>4. \A i \in B : m.progress[i].status = "InProgress"
      BY <3>2, <3>3, WithStatusType DEF At
    <3>5. Consistent(m)
      BY <1>1, <3>2, <3>3, MarkBalanced DEF Consistent
    <3> QED
      BY <3>1, <3>4, <3>5, MemStats
  <2>2. CASE Fetched(ResetStuck(cache, StuckEntries(p)), "requeue") /\ UNCHANGED batch
    <3> DEFINE B == StuckEntries(p)
               m == ResetStuck(cache, B)
    <3>1. mem' = m /\ log' = log
      BY <2>2 DEF Fetched
    <3>2. B \in SUBSET At(p, "InProgress")
      BY StuckAreInProgress
    <3>3. m.hasStats = cache.hasStats
      BY <1>1 DEF ResetStuck, Resource
    <3>4. Consistent(m)
      BY <1>1, <3>2, <3>3, ResetBalanced DEF Consistent
    <3>5. batch = {}
      BY <1>11, NoBatchElsewhere DEF processDiscoveryBatch
    <3> QED
      BY <2>2, <3>1, <3>4, <3>5, MemStats
  <2>3. CASE EndReconcile(FALSE) /\ UNCHANGED <<log, velero, faults>>
    BY <2>3, EndStats DEF EndReconcile
  <2> QED
    BY <1>11, <2>1, <2>2, <2>3 DEF processDiscoveryBatch
<1>12. CASE ScanBatch
  <2> DEFINE size == Cardinality(batch)
  <2>1. PICK r \in Results(size) : mem' = ApplyResults(mem, r, size)
    BY <1>12 DEF ScanBatch
  <2>2. pc = "scan" /\ log' = log /\ batch' = {}
    BY <1>12 DEF ScanBatch
  <2>3. mem'.hasStats = mem.hasStats
    BY <1>1, <2>1 DEF ApplyResults, Resource
  <2>4. Balanced(mem.stats, mem.progress) => Balanced(mem'.stats, mem'.progress)
    <3> HIDE DEF size
    <3>1. size = Cardinality(batch)
      BY DEF size
    <3> QED
      BY <1>2, <2>1, <2>2, <3>1, ApplyBalanced
  <2>5. Consistent(mem')
    BY <1>1, <2>3, <2>4 DEF Consistent
  <2> QED
    BY <2>2, <2>5, MemStats
<1>13. CASE finalizeDiscoveryProcess
  <2>1. /\ mem' = [cache EXCEPT !.valid = FinalValid(cache), !.invalid = FinalInvalid(cache)]
        /\ log' = log /\ batch' = batch
    BY <1>13 DEF finalizeDiscoveryProcess
  <2>2. batch = {}
    BY <1>13, NoBatchElsewhere DEF finalizeDiscoveryProcess
  <2>3. mem'.hasStats = cache.hasStats /\ mem'.stats = cache.stats
        /\ mem'.progress = cache.progress
    BY <1>1, <2>1 DEF Resource
  <2>4. Consistent(mem')
    BY <1>1, <2>3, ConsistentFields
  <2> QED
    BY <2>1, <2>2, <2>4, MemStats
<1>14. CASE ApplyFinal
  <2>1. mem' = Finalized(cache, mem) /\ log' = log /\ batch' = batch
    BY <1>14 DEF ApplyFinal, Fetched
  <2>2. batch = {}
    BY <1>14, NoBatchElsewhere DEF ApplyFinal
  <2>3. mem'.hasStats = cache.hasStats /\ mem'.stats = cache.stats
        /\ mem'.progress = cache.progress
    BY <1>1, <2>1 DEF Resource, Finalized
  <2>4. Consistent(mem')
    BY <1>1, <2>3, ConsistentFields
  <2> QED
    BY <2>1, <2>2, <2>4, MemStats
<1>15. CASE UpdateConflicts
  <2>1. CASE UNCHANGED <<queued, pc, step, mem, batch, cont>> /\ UNCHANGED <<log, velero, faults>>
    BY <1>1, <1>2, <2>1, MemStats
  <2>2. CASE EndReconcile(TRUE) /\ UNCHANGED <<log, velero, faults>>
    BY <2>2, EndStats DEF EndReconcile
  <2> QED
    BY <1>15, <2>1, <2>2 DEF UpdateConflicts
<1>16. ASSUME NEW o, Grown(o), Consistent(o), UNCHANGED <<mem, batch>>
       PROVE  StatsInv'
  BY <1>1, <1>2, <1>16 DEF StatsInv, Grown
<1>17. CASE UpdateSucceeds
  <2>1. Grown(StatusOf(mem, server))
    BY <1>17, UpdateGrows
  <2>2. Consistent(StatusOf(mem, server))
    BY <1>1, StatusOfFields, ConsistentFields
  <2>3. CASE UNCHANGED <<mem, batch>>
    BY <1>16, <2>1, <2>2, <2>3
  <2>4. CASE EndReconcile(cont = "requeue")
    BY <2>1, <2>4, EndStats DEF EndReconcile
  <2> QED
    BY <1>17, <2>3, <2>4 DEF UpdateSucceeds
<1>18. CASE EditSpec
  <2>1. PICK s \in SpecChoices : Grown(Edited(s)) /\ server.gen < MaxGeneration
    BY <1>18, EditGrows
  <2>2. Consistent(Edited(s))
    BY <1>1, <2>1, EditedFields, ConsistentFields
  <2>3. UNCHANGED <<mem, batch>>
    BY <1>18 DEF EditSpec
  <2> QED
    BY <1>16, <2>1, <2>2, <2>3
<1>19. CASE InformerDelivers
  <2>1. Shrunk /\ UNCHANGED <<mem, batch>>
    BY <1>19, DeliveryShrinks DEF InformerDelivers, worker
  <2> QED
    BY <1>1, <1>2, <2>1 DEF StatsInv, Shrunk
<1>20. CASE Crash
  <2>1. Shrunk /\ mem' = Created(server.spec) /\ batch' = {}
    BY <1>20, CrashShrinks DEF Crash
  <2> QED
    BY <2>1, EndStats
<1> QED
  BY <1>3, <1>4, <1>5, <1>6, <1>7, <1>8, <1>9, <1>10, <1>11, <1>12, <1>13, <1>14, <1>15,
     <1>17, <1>18, <1>19, <1>20, StepKinds DEF QuietSteps

LEMMA StatsInvariance == Spec => []StatsInv
<1>1. Init => StatsInv
  <2> SUFFICES ASSUME Init PROVE StatsInv
    OBVIOUS
  <2>1. PICK s : log = <<Created(s)>> /\ mem = Created(s)
    BY DEF Init
  <2>2. Consistent(Created(s))
    BY CreatedFields DEF Consistent
  <2>3. \A n \in Versions : log[n] = Created(s)
    BY <2>1 DEF Versions
  <2> QED
    BY <2>1, <2>2, <2>3 DEF Init, StatsInv
<1> QED
  BY <1>1, StatsStep, Invariance, PTL DEF Spec

\* The counters of every status that is published are those of its progress list,
\* for every number of backups, batch size and history of retries, resets, stale
\* reads and crashes.
THEOREM StatsAreConsistent == Spec => []StatsMatchProgress
<1>1. StatsInv => StatsMatchProgress
  BY DEF StatsInv, StatsMatchProgress, Versions, Consistent, Balanced
<1> QED
  BY <1>1, StatsInvariance, PTL

-----------------------------------------------------------------------------
(***************************************************************************)
(* What the selection of a step tells of the resource.                     *)
(***************************************************************************)
LEMMA CountersTell ==
  ASSUME NEW o \in Resource, Consistent(o), o.hasStats
  PROVE  /\ o.stats.pending \in Nat /\ o.stats.inProgress \in Nat
         /\ o.stats.pending = 0 <=> At(o.progress, "New") = {}
         /\ o.stats.inProgress = 0 <=> At(o.progress, "InProgress") = {}
<1>1. o.progress \in Seq(Entry)
  BY DEF Resource
<1>2. /\ o.stats.pending = Count(o.progress, "New")
      /\ o.stats.inProgress = Count(o.progress, "InProgress")
  BY DEF Consistent, Balanced
<1> QED
  BY <1>1, <1>2, AtFinite, NoneCounted

LEMMA SelectedTells ==
  ASSUME NEW o \in Resource, Consistent(o)
  PROVE  /\ SelectedStep(o) = "processDiscoveryBatch" => o.hasStats /\ ~Scanned(o)
         /\ SelectedStep(o) = "finalizeDiscoveryProcess" =>
              o.hasStats /\ Scanned(o) /\ o.phase # "Completed"
         /\ SelectedStep(o) = "checkForSpecChanges" <=> Settled(o)
<1>1. o.hasStats \in BOOLEAN /\ o.phase \in Phase
  BY DEF Resource
<1> DEFINE busy == o.stats.pending > 0 \/ o.stats.inProgress > 0
<1>2. CASE o.phase = ""
  BY <1>1, <1>2 DEF SelectedStep, Settled, isDiscoveryComplete
<1>3. CASE o.phase # "" /\ ~o.hasStats
  BY <1>1, <1>3 DEF SelectedStep, Settled, isDiscoveryComplete
<1>4. CASE o.phase # "" /\ isDiscoveryComplete(o)
  <2>1. SelectedStep(o) = IF o.obs = o.gen THEN "checkForSpecChanges"
                                           ELSE "initializeDiscoveryProcess"
    BY <1>1, <1>4 DEF SelectedStep, isDiscoveryComplete
  <2> QED
    BY <1>4, <2>1 DEF Settled
<1>5. CASE o.phase # "" /\ o.hasStats /\ ~isDiscoveryComplete(o)
  <2>1. SelectedStep(o) = IF busy THEN "processDiscoveryBatch" ELSE "finalizeDiscoveryProcess"
    BY <1>1, <1>5 DEF SelectedStep
  <2>2. busy <=> ~Scanned(o)
    <3>1. /\ o.stats.pending \in Nat /\ o.stats.inProgress \in Nat
          /\ o.stats.pending = 0 <=> At(o.progress, "New") = {}
          /\ o.stats.inProgress = 0 <=> At(o.progress, "InProgress") = {}
      BY <1>5, CountersTell
    <3>2. busy <=> ~(o.stats.pending = 0 /\ o.stats.inProgress = 0)
      BY <3>1
    <3> HIDE DEF busy
    <3> QED
      BY <3>1, <3>2 DEF Scanned
  <2>3. Scanned(o) => o.stats.pending = 0 /\ o.stats.inProgress = 0
    BY <1>5, CountersTell DEF Scanned
  <2>4. Scanned(o) => o.phase # "Completed"
    BY <1>5, <2>3 DEF isDiscoveryComplete
  <2>5. ~Settled(o)
    BY <1>5 DEF Settled
  <2> HIDE DEF busy
  <2> QED
    BY <1>5, <2>1, <2>2, <2>4, <2>5
<1> QED
  BY <1>1, <1>2, <1>3, <1>4, <1>5

-----------------------------------------------------------------------------
(***************************************************************************)
(* Completed means scanned.                                                *)
(***************************************************************************)
LEMMA SoundFields ==
  ASSUME NEW o, NEW x, o.phase = x.phase, o.progress = x.progress, o.valid = x.valid, Sound(o)
  PROVE  Sound(x)
BY DEF Sound, Scanned, FinalValid

LEMMA UnfinishedSound ==
  ASSUME NEW o, o.phase # "Completed"
  PROVE  Sound(o)
BY DEF Sound

\* The worker is about to write a copy.
LEMMA WriteCompleted ==
  ASSUME CompletedInv, log' = log, pc' = "write", Sound(mem'),
         cont' \in {"list", "scan"} => mem'.phase # "Completed"
  PROVE  CompletedInv'
BY SameLog DEF CompletedInv

\* The worker stops.
LEMMA IdleCompleted ==
  ASSUME pc' = "idle", \A n \in Versions' : Sound(log'[n])
  PROVE  CompletedInv'
BY DEF CompletedInv

LEMMA CompletedStep ==
  ASSUME StaleReads = FALSE, IInv, StatsInv, CompletedInv, [Next]_vars
  PROVE  CompletedInv'
<1>1. /\ cache \in Resource /\ server \in Resource /\ mem \in Resource
      /\ 1 \in Versions /\ Len(log) \in Versions /\ cache = log[1] /\ server = log[Len(log)]
      /\ \A n \in Versions : log[n] \in Resource
  BY VersionsWellFormed, LogFacts DEF IInv, TypeOK
<1>2. \A n \in Versions : Sound(log[n]) /\ Consistent(log[n])
  BY DEF CompletedInv, StatsInv
<1>3. CASE UNCHANGED vars
  BY <1>3 DEF vars, CompletedInv, Versions, server
<1>4. CASE Reconcile
  <2>1. log' = log /\ pc' = "fetch" /\ step' = SelectedStep(cache) /\ Len(log) = 1
    BY <1>4 DEF Reconcile
  <2>2. \A n \in Versions : log[n] = cache
    BY <1>1, <2>1 DEF Versions
  <2>3. /\ step' = "processDiscoveryBatch" => ~Scanned(cache)
        /\ step' = "finalizeDiscoveryProcess" => Scanned(cache)
    BY <1>1, <1>2, <2>1, SelectedTells
  <2>4. step' = "processDiscoveryBatch" => cache.phase # "Completed"
    BY <1>1, <1>2, <2>3 DEF Sound
  <2>5. server = cache
    BY <1>1, <2>1
  <2> QED
    BY <1>2, <2>1, <2>2, <2>3, <2>4, <2>5, SameLog DEF CompletedInv
<1>5. CASE \E b \in Backups : BackupFinishes(b) \/ BackupExpires(b)
  <2>1. UNCHANGED <<log, pc, step, mem, cont>>
    BY <1>5 DEF BackupFinishes, BackupExpires, worker
  <2> QED
    BY <2>1 DEF CompletedInv, Versions, server
<1>6. CASE initializePhase
  <2>1. /\ mem' = [cache EXCEPT !.phase = "New"] /\ log' = log /\ pc' = "write"
    BY <1>6 DEF initializePhase, Fetched
  <2>2. mem'.phase = "New"
    BY <1>1, <2>1 DEF Resource
  <2> QED
    BY <2>1, <2>2, UnfinishedSound, WriteCompleted
<1>7. CASE initializeDiscoveryProcess
  <2>1. /\ mem' = [Cleared(cache) EXCEPT !.phase = "InProgress"] /\ log' = log /\ pc' = "write"
    BY <1>7 DEF initializeDiscoveryProcess, Fetched
  <2>2. mem'.phase = "InProgress"
    BY <1>1, <2>1, ClearedFields DEF Resource
  <2> QED
    BY <2>1, <2>2, UnfinishedSound, WriteCompleted
<1>8. CASE initializeDiscovery
  <2>1. PICK c \in NewestFirst(Candidates(mem.spec)), f \in AnyOrder(FilteredOut(mem.spec)) :
          mem' = Initialized(mem, c, f)
    BY <1>8 DEF initializeDiscovery
  <2>2. mem'.phase = mem.phase
    BY <1>1, <2>1 DEF Initialized, Resource
  <2>3. mem.phase # "Completed" /\ log' = log /\ pc' = "write"
    BY <1>8 DEF initializeDiscovery, CompletedInv
  <2> QED
    BY <2>2, <2>3, UnfinishedSound, WriteCompleted
<1>9. CASE TimeRangeError \/ UpdateFails
  <2>1. pc' = "idle" /\ log' = log
    BY <1>9 DEF TimeRangeError, UpdateFails, EndReconcile
  <2> QED
    BY <1>2, <2>1, SameLog, IdleCompleted
<1>10. CASE ListError
  <2>1. /\ mem' = [mem EXCEPT !.phase = "Failed", !.obs = mem.gen] /\ log' = log /\ pc' = "write"
    BY <1>10 DEF ListError
  <2>2. mem'.phase = "Failed"
    BY <1>1, <2>1 DEF Resource
  <2> QED
    BY <2>1, <2>2, UnfinishedSound, WriteCompleted
<1>11. CASE checkForSpecChanges
  <2>1. CASE Fetched([Cleared(cache) EXCEPT !.phase = "New", !.obs = 0], "requeue")
    <3>1. /\ mem' = [Cleared(cache) EXCEPT !.phase = "New", !.obs = 0] /\ log' = log
          /\ pc' = "write"
      BY <2>1 DEF Fetched
    <3>2. mem'.phase = "New"
      BY <1>1, <3>1, ClearedFields DEF Resource
    <3> QED
      BY <3>1, <3>2, UnfinishedSound, WriteCompleted
  <2>2. CASE EndReconcile(FALSE) /\ UNCHANGED <<log, velero, faults>>
    BY <1>2, <2>2, SameLog, IdleCompleted DEF EndReconcile
  <2> QED
    BY <1>11, <2>1, <2>2 DEF checkForSpecChanges
<1>12. CASE processDiscoveryBatch
  <2>1. cache.phase # "Completed"
    BY <1>1, <1>12 DEF processDiscoveryBatch, CompletedInv
  <2>2. ASSUME NEW B, NEW k, \/ Fetched(MarkInProgress(cache, B), k)
                             \/ Fetched(ResetStuck(cache, B), k)
        PROVE  CompletedInv'
    <3>1. mem'.phase = cache.phase
      BY <1>1, <2>2 DEF Fetched, MarkInProgress, ResetStuck, Resource
    <3>2. log' = log /\ pc' = "write"
      BY <2>2 DEF Fetched
    <3> QED
      BY <2>1, <3>1, <3>2, UnfinishedSound, WriteCompleted
  <2>3. CASE EndReconcile(FALSE) /\ UNCHANGED <<log, velero, faults>>
    BY <1>2, <2>3, SameLog, IdleCompleted DEF EndReconcile
  <2> QED
    BY <1>12, <2>2, <2>3 DEF processDiscoveryBatch
<1>13. CASE ScanBatch
  <2>1. \E r, z : mem' = ApplyResults(mem, r, z)
    BY <1>13 DEF ScanBatch
  <2>2. mem'.phase = mem.phase
    BY <1>1, <2>1 DEF ApplyResults, Resource
  <2>3. mem.phase # "Completed" /\ log' = log /\ pc' = "write"
    BY <1>13 DEF ScanBatch, CompletedInv
  <2> QED
    BY <2>2, <2>3, UnfinishedSound, WriteCompleted
<1>14. CASE finalizeDiscoveryProcess
  <2>1. /\ mem' = [cache EXCEPT !.valid = FinalValid(cache), !.invalid = FinalInvalid(cache)]
        /\ log' = log /\ pc' = "reread" /\ pc = "fetch" /\ step = "finalizeDiscoveryProcess"
    BY <1>14 DEF finalizeDiscoveryProcess
  <2>2. mem'.progress = cache.progress /\ mem'.valid = FinalValid(cache)
    BY <1>1, <2>1 DEF Resource
  <2>3. mem'.valid = FinalValid(mem')
    BY <2>2 DEF FinalValid
  <2>4. \A n \in Versions : Scanned(log[n]) /\ log[n].progress = cache.progress
    <3>1. \A n \in Versions : Scanned(log[n]) /\ log[n].progress = server.progress
      BY <2>1 DEF CompletedInv
    <3> QED
      BY <1>1, <3>1
  <2> QED
    BY <1>2, <2>1, <2>2, <2>3, <2>4, SameLog DEF CompletedInv
<1>15. CASE ApplyFinal
  <2>1. mem' = Finalized(cache, mem) /\ log' = log /\ pc' = "write" /\ cont' = "done"
    BY <1>15 DEF ApplyFinal, Fetched
  <2>2. /\ mem'.progress = cache.progress /\ mem'.valid = mem.valid
    BY <1>1, <2>1 DEF Finalized, Resource
  <2>3. Scanned(cache) /\ cache.progress = mem.progress /\ mem.valid = FinalValid(mem)
    BY <1>1, <1>15 DEF ApplyFinal, CompletedInv
  <2>4. Sound(mem')
    BY <2>2, <2>3 DEF Sound, Scanned, FinalValid
  <2> QED
    BY <2>1, <2>4, WriteCompleted
<1>16. CASE UpdateConflicts
  <2>1. CASE UNCHANGED <<queued, pc, step, mem, batch, cont>> /\ UNCHANGED <<log, velero, faults>>
    BY <2>1 DEF CompletedInv, Versions, server
  <2>2. CASE EndReconcile(TRUE) /\ UNCHANGED <<log, velero, faults>>
    BY <1>2, <2>2, SameLog, IdleCompleted DEF EndReconcile
  <2> QED
    BY <1>16, <2>1, <2>2 DEF UpdateConflicts
<1>17. CASE UpdateSucceeds
  <2>1. Grown(StatusOf(mem, server)) /\ pc = "write"
    BY <1>17, UpdateGrows DEF UpdateSucceeds
  <2>2. Sound(mem)
    BY <2>1 DEF CompletedInv
  <2>3. Sound(StatusOf(mem, server))
    BY <1>1, <2>2, StatusOfFields, SoundFields
  <2>4. \A n \in Versions' : Sound(log'[n])
    BY <1>2, <2>1, <2>3 DEF Grown
  <2>5. CASE cont \in {"list", "scan"} /\ pc' = cont /\ UNCHANGED <<queued, step, mem, batch, cont>>
    <3>1. mem'.phase # "Completed"
      BY <2>1, <2>5 DEF CompletedInv
    <3> QED
      BY <2>4, <2>5, <3>1 DEF CompletedInv
  <2>6. CASE EndReconcile(cont = "requeue")
    BY <2>4, <2>6, IdleCompleted DEF EndReconcile
  <2> QED
    BY <1>17, <2>5, <2>6 DEF UpdateSucceeds
<1>18. CASE EditSpec
  <2>1. PICK s \in SpecChoices : Grown(Edited(s)) /\ server.gen < MaxGeneration
    BY <1>18, EditGrows
  <2>2. /\ Edited(s).phase = server.phase /\ Edited(s).progress = server.progress
        /\ Edited(s).valid = server.valid
    BY <2>1, EditedFields
  <2>3. Sound(Edited(s)) /\ (Scanned(server) => Scanned(Edited(s)))
    BY <1>1, <1>2, <2>2, SoundFields DEF Scanned
  <2>4. UNCHANGED <<pc, step, mem, cont>>
    BY <1>18 DEF EditSpec
  <2> QED
    BY <1>1, <1>2, <2>1, <2>2, <2>3, <2>4 DEF CompletedInv, Grown
<1>19. CASE InformerDelivers
  <2>1. Shrunk /\ UNCHANGED <<pc, step, mem, cont>>
    BY <1>19, DeliveryShrinks DEF InformerDelivers, worker
  <2> QED
    BY <2>1 DEF CompletedInv, Shrunk
<1>20. CASE Crash
  <2>1. Shrunk /\ pc' = "idle"
    BY <1>20, CrashShrinks DEF Crash
  <2> QED
    BY <1>2, <2>1, IdleCompleted DEF Shrunk
<1> QED
  BY <1>3, <1>4, <1>5, <1>6, <1>7, <1>8, <1>9, <1>10, <1>11, <1>12, <1>13, <1>14, <1>15,
     <1>16, <1>17, <1>18, <1>19, <1>20, StepKinds DEF QuietSteps

-----------------------------------------------------------------------------
(***************************************************************************)
(* Generations.                                                            *)
(***************************************************************************)
LEMMA GenerationType ==
  ASSUME NEW o \in Resource
  PROVE  o.gen \in Nat /\ o.gen >= 1 /\ o.obs \in Nat /\ o.listed \in Nat
<1>1. /\ o.gen \in 1..MaxGeneration /\ o.obs \in 0..MaxGeneration
      /\ o.listed \in 0..MaxGeneration /\ MaxGeneration \in Nat
  BY ConstantsAssumption DEF Resource
<1> QED
  BY <1>1

\* What a copy may say of generations when the server has reached g.
Dated(o, g) == o.obs <= o.gen /\ o.gen <= g

LEMMA CreatedDated ==
  ASSUME NEW s, NEW o \in Resource
  PROVE  Dated(Created(s), o.gen)
<1>1. Created(s).gen = 1 /\ Created(s).obs = 0
  BY CreatedFields
<1>2. o.gen \in Nat /\ o.gen >= 1
  BY GenerationType
<1> QED
  BY <1>1, <1>2 DEF Dated

LEMMA GenerationStep ==
  ASSUME IInv, GenerationInv, [Next]_vars
  PROVE  GenerationInv'
<1>1. /\ cache \in Resource /\ server \in Resource /\ mem \in Resource
      /\ 1 \in Versions /\ cache = log[1] /\ Len(log) \in Versions /\ server = log[Len(log)]
      /\ \A n \in Versions : log[n] \in Resource
  BY VersionsWellFormed, LogFacts DEF IInv, TypeOK
<1>2. PICK g \in Nat : g = server.gen /\ g >= 1
  BY <1>1, GenerationType
<1>3. (\A n \in Versions : Dated(log[n], g)) /\ Dated(mem, g)
  BY <1>2 DEF GenerationInv, Dated
<1>4. ASSUME Shrunk, Dated(mem', g)
      PROVE  GenerationInv'
  BY <1>2, <1>3, <1>4 DEF GenerationInv, Dated, Shrunk
<1>5. ASSUME log' = log, Dated(mem', g)
      PROVE  GenerationInv'
  BY <1>4, <1>5, SameLog
<1>6. ASSUME NEW q, EndReconcile(q)
      PROVE  Dated(mem', g)
  BY <1>1, <1>2, <1>6, CreatedDated DEF EndReconcile
<1>7. cache.gen \in Nat /\ cache.obs \in Nat /\ mem.gen \in Nat /\ mem.obs \in Nat
  BY <1>1, GenerationType
<1>8. Dated(cache, g)
  BY <1>1, <1>3
<1>9. ASSUME NEW o, Dated(o, g), NEW x, o.gen = x.gen, x.obs = o.obs \/ x.obs = 0 \/ x.obs = o.gen,
             o.gen \in Nat
      PROVE  Dated(x, g)
  BY <1>9 DEF Dated
<1>10. CASE UNCHANGED vars
  BY <1>3, <1>5, <1>10 DEF vars
<1>11. CASE Reconcile \/ \E b \in Backups : BackupFinishes(b) \/ BackupExpires(b)
  <2>1. UNCHANGED <<log, mem>>
    BY <1>11 DEF Reconcile, BackupFinishes, BackupExpires, worker
  <2> QED
    BY <1>3, <1>5, <2>1
<1>12. CASE initializePhase \/ initializeDiscoveryProcess
  <2>1. /\ \/ mem' = [cache EXCEPT !.phase = "New"]
           \/ mem' = [Cleared(cache) EXCEPT !.phase = "InProgress"]
        /\ log' = log
    BY <1>12 DEF initializePhase, initializeDiscoveryProcess, Fetched
  <2>2. mem'.gen = cache.gen /\ mem'.obs = cache.obs
    BY <1>1, <2>1, ClearedFields DEF Resource
  <2> QED
    BY <1>5, <1>7, <1>8, <1>9, <2>1, <2>2
<1>13. CASE initializeDiscovery \/ ScanBatch
  <2>1. \/ \E c, f : mem' = Initialized(mem, c, f)
        \/ \E r, z : mem' = ApplyResults(mem, r, z)
    BY <1>13 DEF initializeDiscovery, ScanBatch
  <2>2. mem'.gen = mem.gen /\ mem'.obs = mem.obs
    BY <1>1, <2>1 DEF Initialized, ApplyResults, Resource
  <2>3. log' = log
    BY <1>13 DEF initializeDiscovery, ScanBatch
  <2> QED
    BY <1>3, <1>5, <1>7, <1>9, <2>2, <2>3
<1>14. CASE TimeRangeError \/ UpdateFails
  BY <1>5, <1>6, <1>14 DEF TimeRangeError, UpdateFails
<1>15. CASE ListError
  <2>1. mem' = [mem EXCEPT !.phase = "Failed", !.obs = mem.gen] /\ log' = log
    BY <1>15 DEF ListError
  <2>2. mem'.gen = mem.gen /\ mem'.obs = mem.gen
    BY <1>1, <2>1 DEF Resource
  <2> QED
    BY <1>3, <1>5, <1>7, <1>9, <2>1, <2>2
<1>16. CASE checkForSpecChanges
  <2>1. CASE Fetched([Cleared(cache) EXCEPT !.phase = "New", !.obs = 0], "requeue")
    <3>1. mem' = [Cleared(cache) EXCEPT !.phase = "New", !.obs = 0] /\ log' = log
      BY <2>1 DEF Fetched
    <3>2. mem'.gen = cache.gen /\ mem'.obs = 0
      BY <1>1, <3>1, ClearedFields DEF Resource
    <3> QED
      BY <1>5, <1>7, <1>8, <1>9, <3>1, <3>2
  <2>2. CASE EndReconcile(FALSE) /\ UNCHANGED <<log, velero, faults>>
    BY <1>5, <1>6, <2>2
  <2> QED
    BY <1>16, <2>1, <2>2 DEF checkForSpecChanges
<1>17. CASE processDiscoveryBatch
  <2>1. ASSUME NEW B, NEW k, \/ Fetched(MarkInProgress(cache, B), k)
                             \/ Fetched(ResetStuck(cache, B), k)
        PROVE  GenerationInv'
    <3>1. mem'.gen = cache.gen /\ mem'.obs = cache.obs
      BY <1>1, <2>1 DEF Fetched, MarkInProgress, ResetStuck, Resource
    <3>2. log' = log
      BY <2>1 DEF Fetched
    <3> QED
      BY <1>5, <1>7, <1>8, <1>9, <3>1, <3>2
  <2>2. CASE EndReconcile(FALSE) /\ UNCHANGED <<log, velero, faults>>
    BY <1>5, <1>6, <2>2
  <2> QED
    BY <1>17, <2>1, <2>2 DEF processDiscoveryBatch
<1>18. CASE finalizeDiscoveryProcess
  <2>1. /\ mem' = [cache EXCEPT !.valid = FinalValid(cache), !.invalid = FinalInvalid(cache)]
        /\ log' = log
    BY <1>18 DEF finalizeDiscoveryProcess
  <2>2. mem'.gen = cache.gen /\ mem'.obs = cache.obs
    BY <1>1, <2>1 DEF Resource
  <2> QED
    BY <1>5, <1>7, <1>8, <1>9, <2>1, <2>2
<1>19. CASE ApplyFinal
  <2>1. mem' = Finalized(cache, mem) /\ log' = log
    BY <1>19 DEF ApplyFinal, Fetched
  <2>2. mem'.gen = cache.gen /\ mem'.obs = cache.gen
    BY <1>1, <2>1 DEF Finalized, Resource
  <2> QED
    BY <1>5, <1>7, <1>8, <1>9, <2>1, <2>2
<1>20. CASE UpdateConflicts
  <2>1. log' = log /\ (mem' = mem \/ EndReconcile(TRUE))
    BY <1>20 DEF UpdateConflicts
  <2> QED
    BY <1>3, <1>5, <1>6, <2>1
<1>21. CASE UpdateSucceeds
  <2>1. Grown(StatusOf(mem, server))
    BY <1>21, UpdateGrows
  <2>2. StatusOf(mem, server).gen = g /\ StatusOf(mem, server).obs = mem.obs
    BY <1>1, <1>2, StatusOfFields
  <2>3. Dated(StatusOf(mem, server), g)
    BY <1>2, <1>3, <1>7, <2>2 DEF Dated
  <2>4. Dated(mem', g)
    BY <1>3, <1>6, <1>21 DEF UpdateSucceeds
  <2>5. \A n \in Versions' : Dated(log'[n], g)
    BY <1>3, <2>1, <2>3 DEF Grown
  <2>6. server'.gen = g
    BY <2>1, <2>2 DEF Grown
  <2> QED
    BY <2>4, <2>5, <2>6 DEF GenerationInv, Dated
<1>22. CASE EditSpec
  <2>1. PICK s \in SpecChoices : Grown(Edited(s)) /\ server.gen < MaxGeneration
    BY <1>22, EditGrows
  <2>2. Edited(s).gen = g + 1 /\ Edited(s).obs = server.obs
    BY <1>2, <2>1, EditedFields
  <2>3. mem' = mem
    BY <1>22 DEF EditSpec
  <2>4. ASSUME NEW o \in Resource, Dated(o, g)
        PROVE  Dated(o, g + 1)
    BY <1>2, <2>4, GenerationType DEF Dated
  <2>5. Dated(Edited(s), g + 1)
    <3>1. server.obs <= g /\ server.obs \in Nat
      BY <1>1, <1>2, <1>3, GenerationType DEF Dated
    <3> QED
      BY <1>2, <2>2, <3>1 DEF Dated
  <2>6. \A n \in Versions' : Dated(log'[n], g + 1)
    BY <1>1, <1>3, <2>1, <2>4, <2>5 DEF Grown
  <2>7. server'.gen = g + 1 /\ Dated(mem', g + 1)
    BY <1>1, <1>3, <2>1, <2>2, <2>3, <2>4 DEF Grown
  <2> QED
    BY <2>6, <2>7 DEF GenerationInv, Dated
<1>23. CASE InformerDelivers
  <2>1. Shrunk /\ mem' = mem
    BY <1>23, DeliveryShrinks DEF InformerDelivers, worker
  <2> QED
    BY <1>3, <1>4, <2>1
<1>24. CASE Crash
  <2>1. Shrunk /\ mem' = Created(server.spec)
    BY <1>24, CrashShrinks DEF Crash
  <2>2. Dated(mem', g)
    BY <1>1, <1>2, <2>1, CreatedDated
  <2> QED
    BY <1>4, <2>1, <2>2
<1> QED
  BY <1>10, <1>11, <1>12, <1>13, <1>14, <1>15, <1>16, <1>17, <1>18, <1>19, <1>20, <1>21,
     <1>22, <1>23, <1>24, StepKinds DEF QuietSteps

LEMMA GenerationInvariance == Spec => []GenerationInv
<1>1. Init => GenerationInv
  <2> SUFFICES ASSUME Init PROVE GenerationInv
    OBVIOUS
  <2>1. PICK s : log = <<Created(s)>> /\ mem = Created(s)
    BY DEF Init
  <2>2. server = Created(s) /\ \A n \in Versions : log[n] = Created(s)
    BY <2>1 DEF Versions, server
  <2>3. Created(s).gen = 1 /\ Created(s).obs = 0
    BY CreatedFields
  <2> QED
    BY <2>1, <2>2, <2>3 DEF GenerationInv
<1> QED
  BY <1>1, GenerationStep, Invariance, PTL DEF Spec

-----------------------------------------------------------------------------
(***************************************************************************)
(* A completed discovery stays completed.                                  *)
(***************************************************************************)
LEMMA SettledFields ==
  ASSUME NEW o, Settled(o)
  PROVE  o.phase = "Completed" /\ o.obs = o.gen /\ o.hasStats
BY DEF Settled, isDiscoveryComplete

\* A version made by an edit is not settled: nobody has observed its generation.
LEMMA EditUnsettles ==
  ASSUME IInv, GenerationInv, NEW s \in SpecChoices, server.gen < MaxGeneration
  PROVE  ~Settled(Edited(s)) /\ Edited(s).obs = server.obs /\ Edited(s).gen # server.gen
<1>1. Edited(s).gen = server.gen + 1 /\ Edited(s).obs = server.obs
  BY EditedFields
<1>2. server.gen \in Nat /\ server.obs \in Nat
  BY VersionsWellFormed, GenerationType
<1>3. server.obs <= server.gen
  BY LogFacts DEF GenerationInv
<1>4. Edited(s).gen # Edited(s).obs /\ Edited(s).gen # server.gen
  BY <1>1, <1>2, <1>3
<1> QED
  BY <1>1, <1>4, SettledFields

\* The worker goes on, on an unsettled resource or not at all.
LEMMA WorkerSettled ==
  ASSUME server' = server, pc' # "fetch", pc' = "idle" \/ ~Settled(server)
  PROVE  SettledInv'
<1>1. ~Settled(server) => ~Settled(server')
  BY DEF Settled, isDiscoveryComplete
<1> QED
  BY <1>1 DEF SettledInv

LEMMA SettledStep ==
  ASSUME StaleReads = FALSE, IInv, StatsInv, CompletedInv, GenerationInv, SettledInv, [Next]_vars
  PROVE  SettledInv'
<1>1. /\ cache \in Resource /\ server \in Resource /\ mem \in Resource
      /\ 1 \in Versions /\ cache = log[1] /\ Len(log) \in Versions /\ server = log[Len(log)]
      /\ Consistent(cache)
  BY VersionsWellFormed, LogFacts DEF IInv, TypeOK, StatsInv
<1>2. CASE UNCHANGED vars
  BY <1>2 DEF vars, SettledInv, Versions, server, Settled, isDiscoveryComplete
<1>3. CASE Reconcile
  <2>1. log' = log /\ pc' = "fetch" /\ step' = SelectedStep(cache) /\ Len(log) = 1
    BY <1>3 DEF Reconcile
  <2>2. server = cache /\ \A n \in Versions : log[n] = cache
    BY <1>1, <2>1 DEF Versions
  <2>3. step' = "checkForSpecChanges" <=> Settled(server)
    BY <1>1, <2>1, <2>2, SelectedTells
  <2>4. server' = server /\ Versions' = Versions
    BY <2>1, SameLog
  <2>5. Settled(server') <=> Settled(server)
    BY <2>4 DEF Settled, isDiscoveryComplete
  <2> QED
    BY <2>1, <2>2, <2>3, <2>4, <2>5 DEF SettledInv
<1>4. CASE \E b \in Backups : BackupFinishes(b) \/ BackupExpires(b)
  <2>1. UNCHANGED <<log, pc, step>>
    BY <1>4 DEF BackupFinishes, BackupExpires, worker
  <2> QED
    BY <2>1 DEF SettledInv, Versions, server, Settled, isDiscoveryComplete
<1>5. CASE \/ initializePhase \/ initializeDiscoveryProcess \/ processDiscoveryBatch
           \/ finalizeDiscoveryProcess
  <2>1. pc = "fetch" /\ step # "checkForSpecChanges"
    BY <1>5 DEF initializePhase, initializeDiscoveryProcess, processDiscoveryBatch,
                finalizeDiscoveryProcess
  <2>2. log' = log /\ pc' # "fetch"
    BY <1>5 DEF initializePhase, initializeDiscoveryProcess, processDiscoveryBatch,
                finalizeDiscoveryProcess, Fetched, EndReconcile
  <2>3. ~Settled(server)
    BY <2>1 DEF SettledInv
  <2> QED
    BY <2>2, <2>3, SameLog, WorkerSettled
<1>6. CASE \/ initializeDiscovery \/ ScanBatch \/ ListError \/ ApplyFinal
           \/ TimeRangeError \/ UpdateFails \/ UpdateConflicts
  <2>1. pc \in {"write", "list", "scan", "reread"}
    BY <1>6 DEF initializeDiscovery, ScanBatch, ListError, ApplyFinal, TimeRangeError,
                UpdateFails, UpdateConflicts
  <2>2. log' = log /\ pc' # "fetch"
    BY <1>6 DEF initializeDiscovery, ScanBatch, ListError, ApplyFinal, TimeRangeError,
                UpdateFails, UpdateConflicts, Fetched, EndReconcile
  <2>3. ~Settled(server)
    BY <2>1 DEF SettledInv
  <2> QED
    BY <2>2, <2>3, SameLog, WorkerSettled
<1>7. CASE checkForSpecChanges
  <2>1. log' = log /\ pc' # "fetch"
    BY <1>7 DEF checkForSpecChanges, Fetched, EndReconcile
  <2>2. CASE cache.obs # cache.gen
    <3>1. cache.obs = server.obs
      BY <1>1, <1>7 DEF checkForSpecChanges, SettledInv
    <3>2. cache.obs <= cache.gen /\ cache.gen <= server.gen
      BY <1>1 DEF GenerationInv
    <3>3. cache.obs \in Nat /\ cache.gen \in Nat /\ server.gen \in Nat
      BY <1>1, GenerationType
    <3>4. server.obs # server.gen
      BY <2>2, <3>1, <3>2, <3>3
    <3> QED
      BY <2>1, <3>4, SameLog, SettledFields, WorkerSettled
  <2>3. CASE cache.obs = cache.gen
    <3>1. pc' = "idle"
      BY <1>7, <2>3 DEF checkForSpecChanges, EndReconcile
    <3> QED
      BY <2>1, <3>1, SameLog, WorkerSettled
  <2> QED
    BY <2>2, <2>3
<1>8. CASE UpdateSucceeds
  <2>1. Grown(StatusOf(mem, server)) /\ pc = "write"
    BY <1>8, UpdateGrows DEF UpdateSucceeds
  <2>2. CASE cont \in {"list", "scan"} /\ pc' = cont
    <3>1. mem.phase # "Completed"
      BY <2>1, <2>2 DEF CompletedInv
    <3>2. server'.phase = mem.phase
      BY <1>1, <2>1, StatusOfFields DEF Grown
    <3>3. ~Settled(server')
      BY <3>1, <3>2 DEF Settled, isDiscoveryComplete
    <3> QED
      BY <2>2, <3>3 DEF SettledInv
  <2>3. CASE pc' = "idle"
    BY <2>3 DEF SettledInv
  <2> QED
    BY <1>8, <2>2, <2>3 DEF UpdateSucceeds, EndReconcile
<1>9. CASE EditSpec
  <2>1. PICK s \in SpecChoices : Grown(Edited(s)) /\ server.gen < MaxGeneration
    BY <1>9, EditGrows
  <2>2. ~Settled(Edited(s)) /\ Edited(s).obs = server.obs
    BY <2>1, EditUnsettles
  <2>3. UNCHANGED <<pc, step>>
    BY <1>9 DEF EditSpec
  <2>4. ~Settled(server') /\ server'.obs = server.obs
    BY <2>1, <2>2 DEF Grown, Settled, isDiscoveryComplete
  <2> QED
    BY <2>1, <2>2, <2>3, <2>4 DEF SettledInv, Grown
<1>10. CASE InformerDelivers
  <2>1. Shrunk /\ UNCHANGED <<pc, step>>
    BY <1>10, DeliveryShrinks DEF InformerDelivers, worker
  <2>2. server' = server /\ (Settled(server') <=> Settled(server))
    BY <2>1 DEF Shrunk, Settled, isDiscoveryComplete
  <2> QED
    BY <2>1, <2>2 DEF SettledInv, Shrunk
<1>11. CASE Crash
  BY <1>11 DEF Crash, SettledInv
<1> QED
  BY <1>2, <1>3, <1>4, <1>5, <1>6, <1>7, <1>8, <1>9, <1>10, <1>11, StepKinds DEF QuietSteps

LEMMA CompletedInvariance ==
  ASSUME StaleReads = FALSE
  PROVE  Spec => [](CompletedInv /\ SettledInv)
<1>1. Init => CompletedInv /\ SettledInv
  <2> SUFFICES ASSUME Init PROVE CompletedInv /\ SettledInv
    OBVIOUS
  <2>1. PICK s : log = <<Created(s)>>
    BY DEF Init
  <2>2. \A n \in Versions : log[n] = Created(s)
    BY <2>1 DEF Versions
  <2>3. Sound(Created(s))
    BY CreatedFields, UnfinishedSound
  <2> QED
    BY <2>2, <2>3 DEF Init, CompletedInv, SettledInv
<1>2. IInv /\ StatsInv /\ GenerationInv /\ CompletedInv /\ SettledInv /\ [Next]_vars
        => CompletedInv' /\ SettledInv'
  BY CompletedStep, SettledStep
<1> QED
  BY <1>1, <1>2, Invariance, StatsInvariance, GenerationInvariance, PTL DEF Spec

\* A discovery is published as Completed only when every entry was scanned, with the
\* backups in which the VM was found as its valid ones: for every number of
\* backups, batch size and edit, crash or failing write, when reconciles start from
\* a cache that caught up.
THEOREM CompletedIsScanned ==
  ASSUME StaleReads = FALSE
  PROVE  Spec => []CompletedMeansScanned
<1>1. IInv /\ CompletedInv => CompletedMeansScanned
  <2> SUFFICES ASSUME IInv, CompletedInv PROVE CompletedMeansScanned
    OBVIOUS
  <2>1. Sound(server)
    BY LogFacts DEF CompletedInv
  <2> QED
    BY <2>1 DEF CompletedMeansScanned, Sound, Scanned
<1> QED
  BY <1>1, Invariance, CompletedInvariance, PTL

\* No reconcile reopens or clears a completed discovery whose spec has not changed,
\* whatever event, retry or restart started it, when reconciles start from a cache
\* that caught up.
THEOREM CompletedStays ==
  ASSUME StaleReads = FALSE
  PROVE  Spec => CompletedIsStable
<1> DEFINE Kept == Settled(server) /\ server'.gen = server.gen
                     => server'.phase = "Completed" /\ server'.obs = server.gen /\ server'.hasStats
<1>1. IInv /\ GenerationInv /\ SettledInv /\ [Next]_vars => Kept
  <2> SUFFICES ASSUME IInv, GenerationInv, SettledInv, [Next]_vars,
                      Settled(server), server'.gen = server.gen
               PROVE  server'.phase = "Completed" /\ server'.obs = server.gen /\ server'.hasStats
    OBVIOUS
  <2>1. ~UpdateSucceeds
    BY DEF UpdateSucceeds, SettledInv
  <2>2. ~EditSpec
    <3> SUFFICES ASSUME EditSpec PROVE FALSE
      OBVIOUS
    <3>1. PICK s \in SpecChoices : Grown(Edited(s)) /\ server.gen < MaxGeneration
      BY EditGrows
    <3>2. Edited(s).gen # server.gen
      BY <3>1, EditUnsettles
    <3> QED
      BY <3>1, <3>2 DEF Grown
  <2>3. server' = server
    <3>1. CASE UNCHANGED vars \/ QuietSteps
      BY <3>1, QuietLog, SameLog DEF vars
    <3>2. CASE InformerDelivers \/ Crash
      BY <3>2, DeliveryShrinks, CrashShrinks DEF Shrunk
    <3> QED
      BY <2>1, <2>2, <3>1, <3>2, StepKinds
  <2> QED
    BY <2>3, SettledFields
<1>2. Kept => [isDiscoveryComplete(server) /\ server.obs = server.gen /\ server'.gen = server.gen
        => server'.phase = "Completed" /\ server'.obs = server.gen /\ server'.hasStats]_vars
  BY DEF Settled
<1> HIDE DEF Kept
<1> QED
  BY <1>1, <1>2, Invariance, GenerationInvariance, CompletedInvariance, PTL
     DEF Spec, CompletedIsStable

-----------------------------------------------------------------------------
(***************************************************************************)
(* The copies of the resource, from the oldest to the server's.            *)
(***************************************************************************)
LEMMA FollowsOn ==
  ASSUME NEW x, NEW y, NEW z, x.gen \in Nat, y.gen \in Nat, z.gen \in Nat,
         Follows(x, y), Follows(y, z)
  PROVE  Follows(x, z)
BY DEF Follows

\* x was made from o: its spec and generation, and a list of o's, none or a new one.
Copied(x, o) ==
  /\ x.gen = o.gen /\ x.spec = o.spec
  /\ x.listed = 0 \/ x.listed = o.listed \/ x.listed = o.gen

\* A step of the worker holds no copy, one of the cache's or the one it had.
LEMMA WorkerCopies ==
  ASSUME IInv, QuietSteps
  PROVE  \/ ~Working'
         \/ Copied(mem', cache)
         \/ Working /\ Copied(mem', mem)
<1>1. cache \in Resource /\ mem \in Resource
  BY VersionsWellFormed DEF IInv, TypeOK
<1>2. ASSUME NEW q, EndReconcile(q)
      PROVE  ~Working'
  BY <1>2 DEF EndReconcile, Working
<1>3. CASE Reconcile
  BY <1>3 DEF Reconcile, Working
<1>4. CASE \E b \in Backups : BackupFinishes(b) \/ BackupExpires(b)
  BY <1>4 DEF BackupFinishes, BackupExpires, worker, Copied, Working
<1>5. CASE initializePhase
  <2>1. mem' = [cache EXCEPT !.phase = "New"]
    BY <1>5 DEF initializePhase, Fetched
  <2> QED
    BY <1>1, <2>1 DEF Copied, Resource
<1>6. CASE initializeDiscoveryProcess
  <2>1. mem' = [Cleared(cache) EXCEPT !.phase = "InProgress"]
    BY <1>6 DEF initializeDiscoveryProcess, Fetched
  <2> QED
    BY <1>1, <2>1, ClearedFields DEF Copied, Resource
<1>7. CASE initializeDiscovery
  <2>1. PICK c, f : mem' = Initialized(mem, c, f)
    BY <1>7 DEF initializeDiscovery
  <2>2. Working
    BY <1>7 DEF initializeDiscovery, Working
  <2> QED
    BY <1>1, <2>1, <2>2 DEF Initialized, Copied, Resource
<1>8. CASE TimeRangeError \/ UpdateFails
  BY <1>2, <1>8 DEF TimeRangeError, UpdateFails
<1>9. CASE ListError
  <2>1. mem' = [mem EXCEPT !.phase = "Failed", !.obs = mem.gen] /\ Working
    BY <1>9 DEF ListError, Working
  <2> QED
    BY <1>1, <2>1 DEF Copied, Resource
<1>10. CASE checkForSpecChanges
  <2>1. CASE Fetched([Cleared(cache) EXCEPT !.phase = "New", !.obs = 0], "requeue")
    <3>1. mem' = [Cleared(cache) EXCEPT !.phase = "New", !.obs = 0]
      BY <2>1 DEF Fetched
    <3> QED
      BY <1>1, <3>1, ClearedFields DEF Copied, Resource
  <2> QED
    BY <1>2, <1>10, <2>1 DEF checkForSpecChanges
<1>11. CASE processDiscoveryBatch
  <2>1. ASSUME NEW B, NEW k, \/ Fetched(MarkInProgress(cache, B), k)
                             \/ Fetched(ResetStuck(cache, B), k)
        PROVE  Copied(mem', cache)
    BY <1>1, <2>1 DEF Fetched, MarkInProgress, ResetStuck, Resource, Copied
  <2> QED
    BY <1>2, <1>11, <2>1 DEF processDiscoveryBatch
<1>12. CASE ScanBatch
  <2>1. PICK r, z : mem' = ApplyResults(mem, r, z)
    BY <1>12 DEF ScanBatch
  <2>2. Working
    BY <1>12 DEF ScanBatch, Working
  <2> QED
    BY <1>1, <2>1, <2>2 DEF ApplyResults, Copied, Resource
<1>13. CASE finalizeDiscoveryProcess
  <2>1. mem' = [cache EXCEPT !.valid = FinalValid(cache), !.invalid = FinalInvalid(cache)]
    BY <1>13 DEF finalizeDiscoveryProcess
  <2> QED
    BY <1>1, <2>1 DEF Copied, Resource
<1>14. CASE ApplyFinal
  <2>1. mem' = Finalized(cache, mem)
    BY <1>14 DEF ApplyFinal, Fetched
  <2> QED
    BY <1>1, <2>1 DEF Finalized, Copied, Resource
<1>15. CASE UpdateConflicts
  <2>1. EndReconcile(TRUE) \/ (mem' = mem /\ pc = "write")
    BY <1>15 DEF UpdateConflicts
  <2> QED
    BY <1>2, <2>1 DEF Copied, Working
<1> QED
  BY <1>3, <1>4, <1>5, <1>6, <1>7, <1>8, <1>9, <1>10, <1>11, <1>12, <1>13, <1>14, <1>15
     DEF QuietSteps

\* The parts of OrderInv: of the versions, and of a copy x.
Ordered ==
  /\ \A n \in Versions : log[n].listed <= log[n].gen
  /\ \A m, n \in Versions : m <= n => Follows(log[m], log[n])
Oldest(x) == x.listed <= x.gen /\ \A n \in Versions : Follows(x, log[n])

\* A version that follows the server's can be added.
LEMMA AppendOrdered ==
  ASSUME IInv, Ordered, NEW o \in Resource, log' = Append(log, o),
         o.listed <= o.gen, Follows(server, o)
  PROVE  Ordered' /\ \A n \in Versions : Follows(log[n], o)
<1>1. /\ log \in Seq(Resource) /\ Len(log) \in Nat /\ Versions = 1..Len(log)
      /\ Len(log) \in Versions /\ server = log[Len(log)]
      /\ \A n \in Versions : log[n] \in Resource
  BY LogFacts
<1>2. \A n \in Versions : Follows(log[n], server)
  BY <1>1 DEF Ordered
<1>3. \A n \in Versions : Follows(log[n], o)
  BY <1>1, <1>2, FollowsOn, GenerationType
<1>4. Follows(o, o)
  BY GenerationType DEF Follows
<1>5. Versions' = 1..(Len(log) + 1) /\ log'[Len(log) + 1] = o
  BY <1>1 DEF Versions
<1>6. \A n \in Versions : log'[n] = log[n]
  BY <1>1
<1>7. \A n \in Versions' : n = Len(log) + 1 \/ n \in Versions
  BY <1>1, <1>5
<1>8. \A n \in Versions' : log'[n].listed <= log'[n].gen
  BY <1>5, <1>6, <1>7 DEF Ordered
<1>9. ASSUME NEW m \in Versions', NEW n \in Versions', m <= n
      PROVE  Follows(log'[m], log'[n])
  <2>1. CASE n \in Versions
    <3>1. m \in Versions
      BY <1>1, <1>5, <1>9, <2>1
    <3> QED
      BY <1>6, <1>9, <2>1, <3>1 DEF Ordered
  <2>2. CASE n = Len(log) + 1
    BY <1>3, <1>4, <1>5, <1>6, <1>7, <2>2
  <2> QED
    BY <1>7, <2>1, <2>2
<1> QED
  BY <1>3, <1>8, <1>9 DEF Ordered

LEMMA OrderStep ==
  ASSUME IInv, OrderInv, [Next]_vars
  PROVE  OrderInv'
<1>1. /\ cache \in Resource /\ server \in Resource /\ mem \in Resource
      /\ 1 \in Versions /\ cache = log[1] /\ Len(log) \in Versions /\ server = log[Len(log)]
      /\ \A n \in Versions : log[n] \in Resource
      /\ log \in Seq(Resource) /\ Len(log) \in Nat /\ Versions = 1..Len(log)
  BY VersionsWellFormed, LogFacts DEF IInv, TypeOK
<1>2. Ordered /\ (Working => Oldest(mem))
  BY DEF OrderInv, Ordered, Oldest
<1>3. Oldest(cache)
  BY <1>1, <1>2 DEF Ordered, Oldest
<1>4. ASSUME Ordered', Working' => Oldest(mem)' PROVE OrderInv'
  BY <1>4 DEF OrderInv, Ordered, Oldest
<1>5. CASE UNCHANGED vars
  BY <1>5 DEF vars, OrderInv, Versions, Working
<1>6. CASE QuietSteps
  <2>1. log' = log /\ Versions' = Versions
    BY <1>6, QuietLog, SameLog
  <2>2. ASSUME NEW o \in Resource, Oldest(o), Copied(mem', o)
        PROVE  Oldest(mem)'
    <3>1. o.gen \in Nat /\ o.listed \in Nat
      BY GenerationType
    <3>2. mem'.listed <= mem'.gen
      BY <2>2, <3>1 DEF Oldest, Copied
    <3>3. \A n \in Versions : Follows(mem', log[n])
      BY <2>2 DEF Oldest, Copied, Follows
    <3> QED
      BY <2>1, <3>2, <3>3 DEF Oldest
  <2>3. Working' => Oldest(mem)'
    BY <1>1, <1>2, <1>3, <1>6, <2>2, WorkerCopies
  <2>4. Ordered'
    BY <1>2, <2>1 DEF Ordered
  <2> QED
    BY <1>4, <2>3, <2>4
<1>7. CASE UpdateSucceeds
  <2>1. PICK o : o = StatusOf(mem, server)
    OBVIOUS
  <2>2. log' = Append(log, o) /\ Working
    BY <1>7, <2>1 DEF UpdateSucceeds, Working
  <2>3. o \in Resource /\ o.gen = server.gen /\ o.spec = server.spec /\ o.listed = mem.listed
    BY <1>1, <2>1, StatusOfFields
  <2>4. mem.listed <= mem.gen /\ Follows(mem, server)
    BY <1>1, <1>2, <2>2 DEF Oldest
  <2>5. mem.gen \in Nat /\ server.gen \in Nat /\ mem.listed \in Nat
    BY <1>1, GenerationType
  <2>6. o.listed <= o.gen /\ Follows(server, o) /\ Follows(mem, o)
    BY <2>3, <2>4, <2>5 DEF Follows
  <2>7. Ordered'
    BY <1>2, <2>2, <2>3, <2>6, AppendOrdered
  <2>8. Working' => mem' = mem
    BY <1>7 DEF UpdateSucceeds, EndReconcile, Working
  <2>9. \A n \in Versions' : log'[n] = o \/ \E k \in Versions : log'[n] = log[k]
    BY <2>2, <2>3, AppendGrows DEF Grown
  <2>10. Working' => Oldest(mem)'
    BY <1>2, <2>2, <2>4, <2>6, <2>8, <2>9 DEF Oldest
  <2> QED
    BY <1>4, <2>7, <2>10
<1>8. CASE EditSpec
  <2>1. PICK s \in SpecChoices : log' = Append(log, Edited(s)) /\ server.gen < MaxGeneration
    BY <1>8 DEF EditSpec, Edited
  <2>2. PICK o : o = Edited(s)
    OBVIOUS
  <2>3. o \in Resource /\ o.gen = server.gen + 1 /\ o.listed = server.listed
    BY <2>1, <2>2, EditedFields
  <2>4. server.gen \in Nat /\ server.listed \in Nat /\ server.listed <= server.gen
    BY <1>1, <1>2, GenerationType DEF Ordered
  <2>5. o.listed <= o.gen /\ Follows(server, o)
    BY <2>3, <2>4 DEF Follows
  <2>6. Ordered'
    BY <1>2, <2>1, <2>2, <2>3, <2>5, AppendOrdered
  <2>7. mem' = mem /\ (Working' => Working)
    BY <1>8 DEF EditSpec, Working
  <2>8. \A n \in Versions' : log'[n] = o \/ \E k \in Versions : log'[n] = log[k]
    BY <2>1, <2>2, <2>3, AppendGrows DEF Grown
  <2>9. Working => Follows(mem, o)
    <3>1. mem.gen \in Nat /\ o.gen \in Nat
      BY <1>1, <2>3, GenerationType
    <3>2. Working => Follows(mem, server)
      BY <1>1, <1>2 DEF Oldest
    <3> QED
      BY <2>4, <2>5, <3>1, <3>2, FollowsOn
  <2>10. Working' => Oldest(mem)'
    BY <1>2, <2>7, <2>8, <2>9 DEF Oldest
  <2> QED
    BY <1>4, <2>6, <2>10
<1>9. CASE InformerDelivers
  <2>1. log' = Tail(log) /\ Len(log) > 1 /\ mem' = mem /\ pc' = pc
    BY <1>9 DEF InformerDelivers, worker
  <2>2. Versions' = 1..(Len(log) - 1)
    BY <1>1, <2>1 DEF Versions
  <2>3. \A n \in Versions' : log'[n] = log[n + 1] /\ n + 1 \in Versions
    BY <1>1, <2>1, <2>2
  <2>4. \A m, n \in Versions' : m <= n => m + 1 <= n + 1
    BY <1>1, <2>2
  <2>5. Ordered'
    BY <1>2, <2>3, <2>4 DEF Ordered
  <2>6. Working' => Oldest(mem)'
    BY <1>2, <2>1, <2>3 DEF Oldest, Working
  <2> QED
    BY <1>4, <2>5, <2>6
<1>10. CASE Crash
  <2>1. log' = <<server>> /\ ~Working'
    BY <1>10 DEF Crash, Working
  <2>2. \A n \in Versions' : n = 1 /\ log'[n] = server
    BY <2>1 DEF Versions
  <2>3. server.listed <= server.gen /\ Follows(server, server)
    BY <1>1, <1>2 DEF Ordered, Follows
  <2>4. Ordered'
    BY <2>2, <2>3 DEF Ordered
  <2> QED
    BY <1>4, <2>1, <2>4
<1> QED
  BY <1>5, <1>6, <1>7, <1>8, <1>9, <1>10, StepKinds

LEMMA OrderInvariance == Spec => []OrderInv
<1>1. Init => OrderInv
  <2> SUFFICES ASSUME Init PROVE OrderInv
    OBVIOUS
  <2>1. PICK s : log = <<Created(s)>>
    BY DEF Init
  <2>2. \A n \in Versions : log[n] = Created(s)
    BY <2>1 DEF Versions
  <2>3. PICK o : o = Created(s)
    OBVIOUS
  <2>4. o.gen = 1 /\ o.listed = 0
    BY <2>3, CreatedFields
  <2>5. o.listed <= o.gen /\ Follows(o, o)
    BY <2>4 DEF Follows
  <2> QED
    BY <2>2, <2>3, <2>5 DEF Init, OrderInv, Working
<1> QED
  BY <1>1, OrderStep, Invariance, PTL DEF Spec

-----------------------------------------------------------------------------
(***************************************************************************)
(* The lists answer the spec.                                              *)
(***************************************************************************)
\* Only the status matters, and the generation it was listed for: a copy that an edit
\* has overtaken no longer answers for the spec.
LEMMA SameAnswers ==
  ASSUME NEW o, NEW x, x.phase = o.phase, x.hasStats = o.hasStats, x.listed = o.listed,
         x.progress = o.progress, x.valid = o.valid, x.invalid = o.invalid,
         o.listed \in Nat, o.gen \in Nat, x.gen \in Nat, o.listed <= o.gen, Follows(o, x),
         Answering(o)
  PROVE  Answering(x)
<1>1. InvalidNames(x) = InvalidNames(o)
  BY DEF InvalidNames
<1>2. x.listed = x.gen => o.listed = o.gen /\ x.spec = o.spec
  BY DEF Follows
<1>3. Listed(o) => Listed(x)
  BY <1>1, <1>2 DEF Listed
<1>4. Answered(o) => Answered(x)
  BY <1>1, <1>2 DEF Answered, Answers, InvalidNames
<1> QED
  BY <1>3, <1>4 DEF Answering

\* A list that is being worked on keeps its names.
LEMMA StillListed ==
  ASSUME NEW o, NEW x, x.phase # "Completed", x.hasStats = o.hasStats, o.hasStats => Listed(o),
         x.spec = o.spec, x.gen = o.gen, x.listed = o.listed, x.invalid = o.invalid,
         Names(x.progress) = Names(o.progress)
  PROVE  Answering(x)
<1>1. InvalidNames(x) = InvalidNames(o)
  BY DEF InvalidNames
<1> QED
  BY <1>1 DEF Listed, Answering

LEMMA NoListAnswers ==
  ASSUME NEW o, ~o.hasStats, o.phase # "Completed"
  PROVE  Answering(o)
BY DEF Answering

LEMMA RequestedIsSelected ==
  ASSUME NEW s, NEW b \in s.requested
  PROVE  Selects(s, b)
BY DEF Selects

\* Equal lengths and equal backups, whatever the statuses.
LEMMA SameNames ==
  ASSUME NEW p, NEW w, Len(w) = Len(p), \A i \in 1..Len(p) : w[i].backup = p[i].backup
  PROVE  Names(w) = Names(p)
BY DEF Names

LEMMA StatusKeepsNames ==
  ASSUME NEW p \in Seq(Entry), NEW S, NEW st \in EntryStatus
  PROVE  Names(WithStatus(p, S, st)) = Names(p)
<1> DEFINE w == WithStatus(p, S, st)
<1>1. Len(w) = Len(p)
  BY WithStatusType
<1>2. ASSUME NEW i \in 1..Len(p)
      PROVE  w[i].backup = p[i].backup
  <2>1. p[i] \in Entry
    OBVIOUS
  <2>2. w[i] = IF i \in S THEN [p[i] EXCEPT !.status = st] ELSE p[i]
    BY DEF WithStatus
  <2> QED
    BY <2>1, <2>2 DEF Entry
<1> HIDE DEF w
<1> QED
  BY <1>1, <1>2, SameNames DEF w

LEMMA ApplyKeepsNames ==
  ASSUME mem \in Resource, NEW r, NEW size
  PROVE  Names(ApplyResults(mem, r, size).progress) = Names(mem.progress)
<1> DEFINE p == mem.progress
           slots == 0..(size - 1)
           naming(i) == {s \in slots : r[s].idx = i}
           last(i) == CHOOSE s \in naming(i) : \A t \in naming(i) : t <= s
           w == [i \in 1..Len(p) |->
                   IF naming(i) = {} THEN p[i] ELSE [p[i] EXCEPT !.status = r[last(i)].status]]
<1>1. p \in Seq(Entry) /\ Len(p) \in Nat
  BY DEF Resource
<1>2. ApplyResults(mem, r, size).progress = w
  BY DEF ApplyResults, Resource
<1> HIDE DEF naming, last
<1>3. Len(w) = Len(p)
  BY <1>1
<1>4. ASSUME NEW i \in 1..Len(p)
      PROVE  w[i].backup = p[i].backup
  <2>1. p[i] \in Entry
    BY <1>1
  <2> QED
    BY <2>1 DEF Entry
<1> HIDE DEF w, p
<1> QED
  BY <1>2, <1>3, <1>4, SameNames DEF p

\* initializeDiscovery lists only what the spec selects, and nothing it rejects.
LEMMA InitializedListed ==
  ASSUME NEW o \in Resource, velero \in [Backups -> VeleroBackup],
         NEW c \in NewestFirst(Candidates(o.spec)),
         NEW f \in AnyOrder(FilteredOut(o.spec))
  PROVE  Listed(Initialized(o, c, f))
<1> DEFINE C == Candidates(o.spec)
           F == FilteredOut(o.spec)
           p == InitialProgress(c, f)
           inv == [backup: Missing(o.spec), reason: {"not found"}]
                    \cup [backup: AsyncIncomplete(o.spec), reason: {"async incomplete"}]
           x == Initialized(o, c, f)
<1>1. o.spec.requested \subseteq Backups
  BY DEF Resource, DiscoverySpec
<1>2. C \subseteq Backups /\ F \subseteq Backups
  BY <1>1 DEF Candidates, FilteredOut
<1>3. Cardinality(C) \in Nat /\ Cardinality(F) \in Nat
  BY <1>2, BackupsFinite
<1>4. x.spec = o.spec /\ x.progress = p /\ x.invalid = inv
  BY DEF Initialized, Resource
<1>5. \A b \in C \cup F : Selects(o.spec, b)
  BY RequestedIsSelected DEF Candidates, FilteredOut
<1>6. \A b \in C \cup F : velero[b].exists /\ ~BackupAsyncOperationsIncomplete(b)
  BY DEF Candidates, FilteredOut
<1>7. \A e \in inv : ~velero[e.backup].exists \/ BackupAsyncOperationsIncomplete(e.backup)
  BY DEF Missing, AsyncIncomplete
<1> HIDE DEF C, F
<1>8. c \in [1..Cardinality(C) -> C] /\ f \in [1..Cardinality(F) -> F]
  BY DEF NewestFirst, AnyOrder, C, F
<1>9. Len(c) = Cardinality(C) /\ Len(f) = Cardinality(F)
  BY <1>3, <1>8
<1>10. ASSUME NEW i \in 1..(Len(c) + Len(f))
       PROVE  p[i].backup \in C \cup F
  <2>1. CASE i <= Len(c)
    <3>1. c[i] \in C
      BY <1>3, <1>8, <1>9, <2>1
    <3>2. p[i] = [backup |-> c[i], status |-> "New"]
      BY <2>1 DEF InitialProgress
    <3> QED
      BY <3>1, <3>2
  <2>2. CASE ~(i <= Len(c))
    <3>1. i - Len(c) \in 1..Len(f)
      BY <1>3, <1>9, <2>2
    <3>2. f[i - Len(c)] \in F
      BY <1>8, <1>9, <3>1
    <3>3. p[i] = [backup |-> f[i - Len(c)], status |-> "Skipped"]
      BY <2>2 DEF InitialProgress
    <3> QED
      BY <3>2, <3>3
  <2> QED
    BY <2>1, <2>2
<1>11. Len(p) = Len(c) + Len(f)
  BY <1>3, <1>9 DEF InitialProgress
<1> HIDE DEF p, inv, x
<1>12. Names(x.progress) \subseteq C \cup F
  BY <1>4, <1>10, <1>11 DEF Names
<1>13. InvalidNames(x) = {e.backup : e \in inv}
  BY <1>4 DEF InvalidNames
<1>14. InvalidNames(x) \cap Names(x.progress) = {}
  BY <1>6, <1>7, <1>12, <1>13
<1>15. Listed(x)
  BY <1>4, <1>5, <1>12, <1>14 DEF Listed
<1> QED
  BY <1>15 DEF x

\* finalizeDiscoveryProcess accounts for every requested backup, once.
LEMMA FinalAnswers ==
  ASSUME NEW o \in Resource, Listed(o), NEW x, x.spec = o.spec, x.gen = o.gen,
         x.listed = o.listed, x.valid = FinalValid(o), x.invalid = FinalInvalid(o)
  PROVE  Answered(x)
<1> DEFINE kept == {e \in o.invalid : e.backup \in o.spec.requested}
           keptNames == {e.backup : e \in kept}
           discovered == Names(o.progress) \ FinalValid(o)
           missing == o.spec.requested \ (Names(o.progress) \cup keptNames)
           D == [backup: discovered \ keptNames, reason: {"discovery"}]
           M == [backup: missing, reason: {"not found"}]
<1>1. FinalValid(o) \subseteq Names(o.progress)
  BY DEF FinalValid, Names, At
<1>2. keptNames \subseteq InvalidNames(o)
  BY DEF InvalidNames
<1>3. InvalidNames(x) = {e.backup : e \in kept \cup D \cup M}
  BY DEF InvalidNames, FinalInvalid
<1>4. \A b \in keptNames : b \in {e.backup : e \in kept \cup D \cup M}
  OBVIOUS
<1>5. \A b \in discovered \ keptNames : b \in {e.backup : e \in kept \cup D \cup M}
  <2> TAKE b \in discovered \ keptNames
  <2>1. \E e \in D : e.backup = b
    <3>1. [backup |-> b, reason |-> "discovery"] \in D
      OBVIOUS
    <3>2. [backup |-> b, reason |-> "discovery"].backup = b
      OBVIOUS
    <3> HIDE DEF D
    <3> QED
      BY <3>1, <3>2
  <2> HIDE DEF D, M, kept
  <2> QED
    BY <2>1
<1>6. \A b \in missing : b \in {e.backup : e \in kept \cup D \cup M}
  <2> TAKE b \in missing
  <2>1. \E e \in M : e.backup = b
    <3>1. [backup |-> b, reason |-> "not found"] \in M
      OBVIOUS
    <3>2. [backup |-> b, reason |-> "not found"].backup = b
      OBVIOUS
    <3> HIDE DEF M
    <3> QED
      BY <3>1, <3>2
  <2> HIDE DEF D, M, kept
  <2> QED
    BY <2>1
<1>7. \A e \in kept \cup D \cup M :
         \/ e.backup \in keptNames
         \/ e.backup \in discovered
         \/ e.backup \in missing
  OBVIOUS
<1> HIDE DEF kept, D, M
<1>8. InvalidNames(x) = keptNames \cup discovered \cup missing
  BY <1>3, <1>4, <1>5, <1>6, <1>7
<1> HIDE DEF keptNames
<1>9. o.spec.requested \subseteq FinalValid(o) \cup keptNames \cup discovered \cup missing
  OBVIOUS
<1>10. FinalValid(o) \cap (keptNames \cup discovered \cup missing) = {}
  BY <1>1, <1>2 DEF Listed
<1>11. o.listed = o.gen => \A b \in FinalValid(o) : Selects(o.spec, b)
  BY <1>1 DEF Listed
<1> HIDE DEF discovered, missing
<1>12. x.valid \cap InvalidNames(x) = {}
  BY <1>8, <1>10
<1>13. x.listed = x.gen => Answers(x)
  BY <1>8, <1>9, <1>11 DEF Answers, InvalidNames
<1> QED
  BY <1>12, <1>13 DEF Answered

\* Which copies the first and the last step work on.
LEMMA SelectedUnfinished ==
  ASSUME NEW o \in Resource, SelectedStep(o) = "initializePhase"
  PROVE  o.phase = ""
<1> SUFFICES ASSUME o.phase # "" PROVE FALSE
  OBVIOUS
<1>1. o.hasStats \in BOOLEAN
  BY DEF Resource
<1>2. CASE ~o.hasStats
  BY <1>2 DEF SelectedStep, isDiscoveryComplete
<1>3. CASE isDiscoveryComplete(o)
  BY <1>3 DEF SelectedStep, isDiscoveryComplete
<1>4. CASE o.hasStats /\ ~isDiscoveryComplete(o)
  <2>1. SelectedStep(o) = IF o.stats.pending > 0 \/ o.stats.inProgress > 0
                            THEN "processDiscoveryBatch" ELSE "finalizeDiscoveryProcess"
    BY <1>4 DEF SelectedStep
  <2> QED
    BY <2>1
<1> QED
  BY <1>1, <1>2, <1>3, <1>4

\* The worker is about to write a copy.
LEMMA WriteAnswers ==
  ASSUME AnswerInv, log' = log, pc' = "write", Answering(mem'), cont' = "list" => ~mem'.hasStats
  PROVE  AnswerInv'
BY SameLog DEF AnswerInv

\* The worker stops.
LEMMA IdleAnswers ==
  ASSUME pc' = "idle", \A n \in Versions' : Answering(log'[n])
  PROVE  AnswerInv'
BY DEF AnswerInv

LEMMA AnswerStep ==
  ASSUME StaleReads = FALSE, IInv, StatsInv, CompletedInv, OrderInv, AnswerInv, [Next]_vars
  PROVE  AnswerInv'
<1>1. /\ cache \in Resource /\ server \in Resource /\ mem \in Resource
      /\ 1 \in Versions /\ Len(log) \in Versions /\ cache = log[1] /\ server = log[Len(log)]
      /\ Versions = 1..Len(log) /\ Len(log) \in Nat
      /\ Consistent(cache)
  BY VersionsWellFormed, LogFacts DEF IInv, TypeOK, StatsInv
<1>2. \A n \in Versions : Answering(log[n])
  BY DEF AnswerInv
<1>3. Answering(cache) /\ Answering(server)
  BY <1>1, <1>2
<1>4. ASSUME NEW q, EndReconcile(q), log' = log
      PROVE  AnswerInv'
  BY <1>2, <1>4, SameLog, IdleAnswers DEF EndReconcile
<1>5. CASE UNCHANGED vars
  BY <1>5 DEF vars, AnswerInv, Versions, server
<1>6. CASE Reconcile
  <2>1. log' = log /\ pc' = "fetch" /\ step' = SelectedStep(cache) /\ Len(log) = 1
    BY <1>6 DEF Reconcile
  <2>2. \A n \in Versions : log[n] = server /\ log[n] = cache
    BY <1>1, <2>1
  <2>3. step' = "initializePhase" => cache.phase = ""
    BY <1>1, <2>1, SelectedUnfinished
  <2>4. step' = "finalizeDiscoveryProcess" => cache.hasStats /\ cache.phase # "Completed"
    BY <1>1, <2>1, SelectedTells
  <2> QED
    BY <1>2, <2>1, <2>2, <2>3, <2>4, SameLog DEF AnswerInv
<1>7. CASE \E b \in Backups : BackupFinishes(b) \/ BackupExpires(b)
  <2>1. UNCHANGED <<log, pc, step, mem, cont>>
    BY <1>7 DEF BackupFinishes, BackupExpires, worker
  <2> QED
    BY <2>1 DEF AnswerInv, Versions, server
<1>8. CASE initializePhase
  <2>1. /\ mem' = [cache EXCEPT !.phase = "New"] /\ log' = log /\ pc' = "write"
        /\ cont' = "requeue" /\ pc = "fetch" /\ step = "initializePhase"
    BY <1>8 DEF initializePhase, Fetched
  <2>2. /\ mem'.phase = "New" /\ mem'.spec = cache.spec /\ mem'.gen = cache.gen
        /\ mem'.hasStats = cache.hasStats /\ mem'.progress = cache.progress
        /\ mem'.invalid = cache.invalid /\ mem'.listed = cache.listed
    BY <1>1, <2>1 DEF Resource
  <2>3. cache.phase = ""
    BY <1>1, <2>1 DEF AnswerInv
  <2>4. cache.hasStats => Listed(cache)
    BY <1>3, <2>3 DEF Answering
  <2>5. Answering(mem')
    BY <2>2, <2>4, StillListed
  <2> QED
    BY <2>1, <2>5, WriteAnswers
<1>9. CASE initializeDiscoveryProcess
  <2>1. /\ mem' = [Cleared(cache) EXCEPT !.phase = "InProgress"] /\ log' = log /\ pc' = "write"
    BY <1>9 DEF initializeDiscoveryProcess, Fetched
  <2>2. PICK o \in Resource : o = Cleared(cache) /\ ~o.hasStats
    BY <1>1, ClearedFields
  <2>3. mem'.phase = "InProgress" /\ ~mem'.hasStats
    BY <2>1, <2>2 DEF Resource
  <2> QED
    BY <2>1, <2>3, NoListAnswers, WriteAnswers
<1>10. CASE initializeDiscovery
  <2>1. PICK c \in NewestFirst(Candidates(mem.spec)), f \in AnyOrder(FilteredOut(mem.spec)) :
          mem' = Initialized(mem, c, f)
    BY <1>10 DEF initializeDiscovery
  <2>2. mem'.phase = mem.phase
    BY <1>1, <2>1 DEF Initialized, Resource
  <2>3. mem.phase # "Completed" /\ log' = log /\ pc' = "write" /\ cont' = "requeue"
    BY <1>10 DEF initializeDiscovery, CompletedInv
  <2>4. velero \in [Backups -> VeleroBackup]
    BY DEF IInv, TypeOK
  <2>5. Listed(mem')
    BY <1>1, <2>1, <2>4, InitializedListed
  <2>6. Answering(mem')
    BY <2>2, <2>3, <2>5 DEF Answering
  <2> QED
    BY <2>3, <2>6, WriteAnswers
<1>11. CASE TimeRangeError \/ UpdateFails
  BY <1>4, <1>11 DEF TimeRangeError, UpdateFails
<1>12. CASE ListError
  <2>1. /\ mem' = [mem EXCEPT !.phase = "Failed", !.obs = mem.gen] /\ log' = log /\ pc' = "write"
        /\ pc = "list"
    BY <1>12 DEF ListError
  <2>2. mem'.phase = "Failed" /\ mem'.hasStats = mem.hasStats
    BY <1>1, <2>1 DEF Resource
  <2>3. ~mem.hasStats
    BY <2>1 DEF AnswerInv
  <2> QED
    BY <2>1, <2>2, <2>3, NoListAnswers, WriteAnswers
<1>13. CASE checkForSpecChanges
  <2>1. CASE Fetched([Cleared(cache) EXCEPT !.phase = "New", !.obs = 0], "requeue")
    <3>1. /\ mem' = [Cleared(cache) EXCEPT !.phase = "New", !.obs = 0] /\ log' = log
          /\ pc' = "write"
      BY <2>1 DEF Fetched
    <3>2. mem'.phase = "New" /\ ~mem'.hasStats
      BY <1>1, <3>1, ClearedFields DEF Resource
    <3> QED
      BY <3>1, <3>2, NoListAnswers, WriteAnswers
  <2>2. CASE EndReconcile(FALSE) /\ UNCHANGED <<log, velero, faults>>
    BY <1>4, <2>2
  <2> QED
    BY <1>13, <2>1, <2>2 DEF checkForSpecChanges
<1>14. CASE processDiscoveryBatch
  <2>1. cache.phase # "Completed"
    BY <1>1, <1>14 DEF processDiscoveryBatch, CompletedInv
  <2>2. cache.hasStats => Listed(cache)
    BY <1>3, <2>1 DEF Answering
  <2>3. cache.progress \in Seq(Entry)
    BY <1>1 DEF Resource
  <2>4. ASSUME NEW B, NEW k, k # "list", \/ Fetched(MarkInProgress(cache, B), k)
                                         \/ Fetched(ResetStuck(cache, B), k)
        PROVE  AnswerInv'
    <3>1. /\ mem'.phase = cache.phase /\ mem'.spec = cache.spec /\ mem'.gen = cache.gen
          /\ mem'.invalid = cache.invalid /\ mem'.hasStats = cache.hasStats
          /\ mem'.listed = cache.listed
          /\ \/ mem'.progress = WithStatus(cache.progress, B, "InProgress")
             \/ mem'.progress = WithStatus(cache.progress, B, "New")
      BY <1>1, <2>4 DEF Fetched, MarkInProgress, ResetStuck, Resource
    <3>2. log' = log /\ pc' = "write" /\ cont' = k
      BY <2>4 DEF Fetched
    <3>3. "InProgress" \in EntryStatus /\ "New" \in EntryStatus
      BY DEF EntryStatus
    <3>4. Names(mem'.progress) = Names(cache.progress)
      BY <2>3, <3>1, <3>3, StatusKeepsNames
    <3>5. Answering(mem')
      BY <2>1, <2>2, <3>1, <3>4, StillListed
    <3> QED
      BY <2>4, <3>2, <3>5, WriteAnswers
  <2>5. CASE EndReconcile(FALSE) /\ UNCHANGED <<log, velero, faults>>
    BY <1>4, <2>5
  <2> QED
    BY <1>14, <2>4, <2>5 DEF processDiscoveryBatch
<1>15. CASE ScanBatch
  <2>1. PICK r, z : mem' = ApplyResults(mem, r, z)
    BY <1>15 DEF ScanBatch
  <2>2. /\ mem'.phase = mem.phase /\ mem'.spec = mem.spec /\ mem'.gen = mem.gen
        /\ mem'.hasStats = mem.hasStats /\ mem'.invalid = mem.invalid
        /\ mem'.listed = mem.listed
    BY <1>1, <2>1 DEF ApplyResults, Resource
  <2>3. /\ mem.phase # "Completed" /\ log' = log /\ pc' = "write" /\ pc = "scan"
        /\ cont' = "requeue"
    BY <1>15 DEF ScanBatch, CompletedInv
  <2>4. Names(mem'.progress) = Names(mem.progress)
    BY <1>1, <2>1, ApplyKeepsNames
  <2>5. mem.hasStats => Listed(mem)
    BY <2>3 DEF AnswerInv, Answering
  <2>6. Answering(mem')
    BY <2>2, <2>3, <2>4, <2>5, StillListed
  <2> QED
    BY <2>3, <2>6, WriteAnswers
<1>16. CASE finalizeDiscoveryProcess
  <2>1. /\ mem' = [cache EXCEPT !.valid = FinalValid(cache), !.invalid = FinalInvalid(cache)]
        /\ log' = log /\ pc' = "reread" /\ pc = "fetch" /\ step = "finalizeDiscoveryProcess"
    BY <1>16 DEF finalizeDiscoveryProcess
  <2>2. /\ mem'.spec = cache.spec /\ mem'.gen = cache.gen /\ mem'.valid = FinalValid(cache)
        /\ mem'.invalid = FinalInvalid(cache) /\ mem'.listed = cache.listed
    BY <1>1, <2>1 DEF Resource
  <2>3. /\ \A n \in Versions : log[n].listed = server.listed
        /\ cache.hasStats /\ cache.phase # "Completed"
    BY <1>1, <2>1 DEF AnswerInv
  <2>4. Listed(cache)
    BY <1>3, <2>3 DEF Answering
  <2>5. Answered(mem')
    BY <1>1, <2>2, <2>4, FinalAnswers
  <2>6. \A n \in Versions : log[n].listed = mem'.listed
    BY <1>1, <2>2, <2>3
  <2> QED
    BY <1>2, <2>1, <2>5, <2>6, SameLog DEF AnswerInv
<1>17. CASE ApplyFinal
  <2>1. /\ mem' = Finalized(cache, mem) /\ log' = log /\ pc' = "write" /\ cont' = "done"
        /\ pc = "reread"
    BY <1>17 DEF ApplyFinal, Fetched
  <2>2. /\ mem'.spec = cache.spec /\ mem'.gen = cache.gen /\ mem'.phase = "Completed"
        /\ mem'.valid = mem.valid /\ mem'.invalid = mem.invalid /\ mem'.listed = cache.listed
    BY <1>1, <2>1 DEF Finalized, Resource
  <2>3. Answered(mem) /\ cache.listed = mem.listed
    BY <1>1, <2>1 DEF AnswerInv
  <2>4. mem.listed <= mem.gen /\ Follows(mem, cache)
    BY <1>1, <2>1 DEF OrderInv, Working
  <2>5. mem.listed \in Nat /\ mem.gen \in Nat /\ cache.gen \in Nat
    BY <1>1, GenerationType
  <2>6. mem'.listed = mem'.gen => mem.listed = mem.gen /\ mem'.spec = mem.spec
    BY <2>2, <2>3, <2>4, <2>5 DEF Follows
  <2>7. Answered(mem')
    BY <2>2, <2>3, <2>6 DEF Answered, Answers, InvalidNames
  <2>8. Answering(mem')
    BY <2>2, <2>7 DEF Answering
  <2> QED
    BY <2>1, <2>8, WriteAnswers
<1>18. CASE UpdateConflicts
  <2>1. CASE /\ UNCHANGED <<queued, pc, step, mem, batch, cont>>
             /\ UNCHANGED <<log, velero, faults>>
    BY <2>1 DEF AnswerInv, Versions, server
  <2>2. CASE EndReconcile(TRUE) /\ UNCHANGED <<log, velero, faults>>
    BY <1>4, <2>2
  <2> QED
    BY <1>18, <2>1, <2>2 DEF UpdateConflicts
<1>19. CASE UpdateSucceeds
  <2>1. PICK o : o = StatusOf(mem, server)
    OBVIOUS
  <2>2. Grown(o) /\ pc = "write"
    BY <1>19, <2>1, UpdateGrows DEF UpdateSucceeds
  <2>3. /\ o.phase = mem.phase /\ o.hasStats = mem.hasStats /\ o.progress = mem.progress
        /\ o.valid = mem.valid /\ o.invalid = mem.invalid /\ o.listed = mem.listed
        /\ o.gen = server.gen /\ o.spec = server.spec
    BY <1>1, <2>1, StatusOfFields
  <2>4. Answering(mem)
    BY <2>2 DEF AnswerInv
  <2>5. mem.listed <= mem.gen /\ Follows(mem, o)
    BY <1>1, <2>2, <2>3 DEF OrderInv, Working, Follows
  <2>6. mem.listed \in Nat /\ mem.gen \in Nat /\ o.gen \in Nat
    BY <1>1, <2>3, GenerationType
  <2>7. Answering(o)
    BY <2>3, <2>4, <2>5, <2>6, SameAnswers
  <2>8. \A n \in Versions' : Answering(log'[n])
    BY <1>2, <2>2, <2>7 DEF Grown
  <2>9. CASE cont \in {"list", "scan"} /\ pc' = cont /\ UNCHANGED <<queued, step, mem, batch, cont>>
    <3>1. pc' = "list" => ~mem'.hasStats
      BY <2>2, <2>9 DEF AnswerInv
    <3> QED
      BY <2>4, <2>8, <2>9, <3>1 DEF AnswerInv
  <2>10. CASE EndReconcile(cont = "requeue")
    BY <2>8, <2>10, IdleAnswers DEF EndReconcile
  <2> QED
    BY <1>19, <2>9, <2>10 DEF UpdateSucceeds
<1>20. CASE EditSpec
  <2>1. PICK s \in SpecChoices : Grown(Edited(s)) /\ server.gen < MaxGeneration
    BY <1>20, EditGrows
  <2>2. PICK o : o = Edited(s)
    OBVIOUS
  <2>3. /\ o.phase = server.phase /\ o.hasStats = server.hasStats /\ o.progress = server.progress
        /\ o.valid = server.valid /\ o.invalid = server.invalid /\ o.listed = server.listed
        /\ o.gen = server.gen + 1
    BY <2>1, <2>2, EditedFields
  <2>4. server.listed \in Nat /\ server.gen \in Nat /\ server.listed <= server.gen
    BY <1>1, GenerationType DEF OrderInv
  <2>5. Follows(server, o) /\ o.gen \in Nat
    BY <2>3, <2>4 DEF Follows
  <2>6. Answering(o)
    BY <1>3, <2>3, <2>4, <2>5, SameAnswers
  <2>7. /\ server' = o
        /\ \A n \in Versions' : log'[n] = o \/ \E k \in Versions : log'[n] = log[k]
    BY <2>1, <2>2 DEF Grown
  <2>8. UNCHANGED <<pc, step, mem, cont>>
    BY <1>20 DEF EditSpec
  <2>9. \A n \in Versions' : Answering(log'[n])
    BY <1>2, <2>6, <2>7
  <2>10. pc = "fetch" /\ step = "initializePhase" => \A n \in Versions' : log'[n].phase = ""
    <3>1. pc = "fetch" /\ step = "initializePhase" => \A n \in Versions : log[n].phase = ""
      BY DEF AnswerInv
    <3>2. pc = "fetch" /\ step = "initializePhase" => o.phase = ""
      BY <1>1, <2>3, <3>1
    <3> QED
      BY <2>7, <3>1, <3>2
  <2>11. pc = "fetch" /\ step = "finalizeDiscoveryProcess" =>
           \A n \in Versions' : /\ log'[n].hasStats /\ log'[n].phase # "Completed"
                                /\ log'[n].listed = server'.listed
    BY <1>1, <2>3, <2>7 DEF AnswerInv
  <2>12. pc = "reread" => Answered(mem) /\ \A n \in Versions' : log'[n].listed = mem.listed
    BY <1>1, <2>3, <2>7 DEF AnswerInv
  <2> QED
    BY <2>8, <2>9, <2>10, <2>11, <2>12 DEF AnswerInv
<1>21. CASE InformerDelivers
  <2>1. Shrunk /\ UNCHANGED <<pc, step, mem, cont>>
    BY <1>21, DeliveryShrinks DEF InformerDelivers, worker
  <2> QED
    BY <2>1 DEF AnswerInv, Shrunk
<1>22. CASE Crash
  <2>1. Shrunk /\ pc' = "idle"
    BY <1>22, CrashShrinks DEF Crash
  <2> QED
    BY <1>2, <2>1, IdleAnswers DEF Shrunk
<1> QED
  BY <1>5, <1>6, <1>7, <1>8, <1>9, <1>10, <1>11, <1>12, <1>13, <1>14, <1>15, <1>16, <1>17,
     <1>18, <1>19, <1>20, <1>21, <1>22, StepKinds DEF QuietSteps

\* What a Completed discovery tells, for every order of the user's edits with the scan:
\* no backup is reported as valid and as invalid, and while the spec the candidates were
\* listed for is the current one, each requested backup is reported and every valid one
\* is selected.  Reconciles start from a cache that caught up.
THEOREM ResultsAnswer ==
  ASSUME StaleReads = FALSE
  PROVE  Spec => []ResultsAnswerSpec
<1>1. Init => AnswerInv
  <2> SUFFICES ASSUME Init PROVE AnswerInv
    OBVIOUS
  <2>1. PICK s : log = <<Created(s)>>
    BY DEF Init
  <2>2. \A n \in Versions : log[n] = Created(s)
    BY <2>1 DEF Versions
  <2>3. Answering(Created(s))
    BY CreatedFields, NoListAnswers
  <2> QED
    BY <2>2, <2>3 DEF Init, AnswerInv
<1>2. IInv /\ AnswerInv => ResultsAnswerSpec
  <2> SUFFICES ASSUME IInv, AnswerInv PROVE ResultsAnswerSpec
    OBVIOUS
  <2>1. Answering(server)
    BY LogFacts DEF AnswerInv
  <2> QED
    BY <2>1 DEF ResultsAnswerSpec, Answering, Answered, InvalidNames
<1>3. IInv /\ StatsInv /\ CompletedInv /\ OrderInv /\ AnswerInv /\ [Next]_vars => AnswerInv'
  BY AnswerStep
<1> QED
  BY <1>1, <1>2, <1>3, Invariance, StatsInvariance, CompletedInvariance, OrderInvariance, PTL
     DEF Spec

-----------------------------------------------------------------------------
(***************************************************************************)
(* Days and times.                                                         *)
(***************************************************************************)
LEMMA Division ==
  ASSUME NEW d \in Nat \ {0}, NEW x \in Nat
  PROVE  /\ x \div d \in Int /\ x % d \in 0..(d - 1)
         /\ x = d * (x \div d) + (x % d)
OBVIOUS

\* From p < q to d * p + d <= d * q, by linear steps.
LEMMA MultiplesApart ==
  ASSUME NEW d \in Nat \ {0}, NEW p \in Int, NEW q \in Int, p < q
  PROVE  d * p + d <= d * q
<1> DEFINE k == q - p
<1>1. k \in Int /\ k > 0
  OBVIOUS
<1>2. d * k > 0
  BY <1>1
<1>3. d * k >= d
  BY <1>1, <1>2, NoMultipleBelow
<1>4. d * q = d * p + d * k
  OBVIOUS
<1> HIDE DEF k
<1>5. d * k \in Int /\ d * p \in Int /\ d * q \in Int
  BY <1>1
<1> QED
  BY <1>3, <1>4, <1>5

\* The days of two times compare as the times do, when t is a midnight.
LEMMA DaysCompare ==
  ASSUME NEW d \in Nat \ {0}, NEW b \in Nat, NEW t \in Nat, t % d = 0
  PROVE  /\ b >= t <=> b \div d >= t \div d
         /\ b <= t + d - 1 <=> b \div d <= t \div d
<1> DEFINE p == b \div d
           q == t \div d
           r == b % d
           dp == d * p
           dq == d * q
<1>1. p \in Int /\ q \in Int /\ r \in 0..(d - 1) /\ b = dp + r /\ t = dq
  BY Division
<1>2. dp \in Int /\ dq \in Int
  BY <1>1
<1>3. /\ p < q => dp + d <= dq
      /\ q < p => dq + d <= dp
      /\ p = q => dp = dq
  <2>1. p \in Int /\ q \in Int
    BY <1>1
  <2> HIDE DEF p, q
  <2> QED
    BY <2>1, MultiplesApart
<1> HIDE DEF p, q, r, dp, dq
<1>4. (b >= t <=> p >= q) /\ (b <= t + d - 1 <=> p <= q)
  BY <1>1, <1>2, <1>3
<1> QED
  BY <1>4 DEF p, q

LEMMA TimeType ==
  ASSUME NEW ft \in FlexibleTime
  PROVE  ft.at \in Nat /\ Time(ft) \in Nat /\ (ft.form = "date" => ft.at % DayLength = 0)
BY DEF FlexibleTime, Time

LEMMA EndOfDay ==
  ASSUME NEW t \in Nat, t % DayLength = 0
  PROVE  GetEndOfDay(t) = t + DayLength - 1
BY ConstantsAssumption DEF GetEndOfDay

LEMMA StartAsWritten ==
  ASSUME NEW ft \in FlexibleTime, Parses(ft), NEW b \in Backups
  PROVE  (ft.form # "absent" => b >= Time(ft)) <=> NotBefore(ft, b)
<1>1. ft.form \in {"absent", "empty", "date", "timestamp"}
  BY DEF FlexibleTime, Parses
<1>2. b \in Nat /\ DayLength \in Nat \ {0}
  BY ConstantsAssumption
<1>3. CASE ft.form = "absent"
  BY <1>3 DEF NotBefore
<1>4. CASE ft.form = "empty"
  <2>1. Time(ft) = 0 /\ NotBefore(ft, b)
    BY <1>4 DEF NotBefore, Time
  <2> QED
    BY <1>2, <2>1
<1>5. CASE ft.form = "timestamp"
  BY <1>5 DEF NotBefore, Time
<1>6. CASE ft.form = "date"
  <2>1. Time(ft) = ft.at /\ (NotBefore(ft, b) <=> DayOf(b) >= DayOf(ft.at))
    BY <1>6 DEF NotBefore, Time
  <2>2. b >= ft.at <=> DayOf(b) >= DayOf(ft.at)
    BY <1>2, <1>6, TimeType, DaysCompare DEF DayOf
  <2> QED
    BY <1>6, <2>1, <2>2
<1> QED
  BY <1>1, <1>3, <1>4, <1>5, <1>6

\* Where the end falls on a midnight the range takes in that day and no more.
LEMMA EndOnMidnight ==
  ASSUME NEW s \in DiscoverySpec, IsMidnight(s.endTime), NEW b \in Backups
  PROVE  b <= EndTime(s) <=> DayOf(b) <= DayOf(Time(s.endTime))
<1>1. b \in Nat /\ DayLength \in Nat \ {0}
  BY ConstantsAssumption
<1>2. Time(s.endTime) \in Nat
  BY TimeType DEF DiscoverySpec
<1>3. Time(s.endTime) % DayLength = 0 /\ EndTime(s) = GetEndOfDay(Time(s.endTime))
  BY DEF IsMidnight, EndTime
<1>4. EndTime(s) = Time(s.endTime) + DayLength - 1
  BY <1>2, <1>3, EndOfDay
<1> QED
  BY <1>1, <1>2, <1>3, <1>4, DaysCompare DEF DayOf

LEMMA RangeAsWritten ==
  ASSUME NEW s \in DiscoverySpec, TimeRangeParses(s), NEW b \in Backups
  PROVE  IF EndIsAmbiguous(s)
         THEN InTimeRange(s, b) =>
                NotBefore(s.startTime, b) /\ DayOf(b) <= DayOf(Time(s.endTime))
         ELSE InTimeRange(s, b) <=> Written(s, b)
<1> DEFINE ft == s.endTime
<1>1. s.startTime \in FlexibleTime /\ ft \in FlexibleTime
  BY DEF DiscoverySpec
<1>2. (s.startTime.form # "absent" => b >= Time(s.startTime)) <=> NotBefore(s.startTime, b)
  BY <1>1, StartAsWritten DEF TimeRangeParses
<1>3. ft.form \in {"absent", "empty", "date", "timestamp"}
  BY <1>1 DEF FlexibleTime, TimeRangeParses, Parses
<1>4. CASE EndIsAmbiguous(s)
  <2>1. IsMidnight(ft) /\ ft.form # "absent"
    <3>1. CASE ft.form = "empty"
      <4>1. Time(ft) = 0
        BY <3>1 DEF Time
      <4>2. 0 % DayLength = 0
        BY ConstantsAssumption
      <4> QED
        BY <3>1, <4>1, <4>2 DEF IsMidnight
    <3>2. CASE ft.form = "timestamp" /\ IsMidnight(ft)
      BY <3>2
    <3> QED
      BY <1>4, <3>1, <3>2 DEF EndIsAmbiguous
  <2>2. b <= EndTime(s) <=> DayOf(b) <= DayOf(Time(ft))
    BY <2>1, EndOnMidnight
  <2> QED
    BY <1>2, <1>4, <2>1, <2>2 DEF InTimeRange
<1>5. CASE ~EndIsAmbiguous(s)
  <2>1. (ft.form # "absent" => b <= EndTime(s)) <=> NotAfter(ft, b)
    <3>1. CASE ft.form = "absent"
      BY <3>1 DEF NotAfter
    <3>2. CASE ft.form = "timestamp"
      <4>1. EndTime(s) = ft.at
        BY <1>5, <3>2 DEF EndIsAmbiguous, EndTime, Time
      <4>2. NotAfter(ft, b) <=> b <= ft.at
        BY <3>2 DEF NotAfter
      <4> QED
        BY <3>2, <4>1, <4>2
    <3>3. CASE ft.form = "date"
      <4>1. Time(ft) = ft.at
        BY <3>3 DEF Time
      <4>2. IsMidnight(ft)
        BY <1>1, <3>3, <4>1, TimeType DEF IsMidnight
      <4>3. b <= EndTime(s) <=> DayOf(b) <= DayOf(ft.at)
        BY <4>1, <4>2, EndOnMidnight
      <4>4. NotAfter(ft, b) <=> DayOf(b) <= DayOf(ft.at)
        BY <3>3 DEF NotAfter
      <4> QED
        BY <3>3, <4>3, <4>4
    <3> QED
      BY <1>3, <1>5, <3>1, <3>2, <3>3 DEF EndIsAmbiguous
  <2> QED
    BY <1>2, <1>5, <2>1 DEF InTimeRange, Written
<1> QED
  BY <1>4, <1>5

\* The time range a spec writes is the one parseTimeRange computes, for every length of
\* a day and every set of backups: dates cover their whole day, timestamps their
\* second, and an ambiguous end admits the rest of its day and nothing later.
THEOREM TimesAsWritten == Spec => []TimeRangeAsWritten
<1>1. IInv => TimeRangeAsWritten
  <2> SUFFICES ASSUME IInv PROVE TimeRangeAsWritten
    OBVIOUS
  <2>1. server.spec \in DiscoverySpec
    BY VersionsWellFormed DEF Resource
  <2> QED
    BY <2>1, RangeAsWritten DEF TimeRangeAsWritten
<1> QED
  BY <1>1, Invariance, PTL

=============================================================================
