----------------------- MODULE BackupsDiscoveryProofs -----------------------
(***************************************************************************)
(* Proofs about BackupsDiscovery, for every set of backups, batch size and *)
(* number of crashes, edits and stale reads.                               *)
(***************************************************************************)
EXTENDS BackupsDiscovery, FiniteSetTheorems, TLAPS

\* A positive number below b is no multiple of b.
LEMMA NoMultipleBelow ==
  ASSUME NEW b \in Nat \ {0}, NEW k \in Int, b * k > 0
  PROVE  b * k >= b
<1>1. k >= 1
  <2>1. ASSUME k <= 0 PROVE FALSE
    BY <2>1
  <2>2. QED BY <2>1
<1>2. PICK m \in Nat : k = m + 1
  <2>1. k - 1 \in Nat BY <1>1
  <2>2. k = (k - 1) + 1 OBVIOUS
  <2>3. QED BY <2>1, <2>2
<1>3. b * k = b * m + b BY <1>2
<1>4. b * m \in Nat BY <1>2
<1>5. QED BY <1>3, <1>4

\* Two numbers less than b apart have different remainders modulo b: the
\* arithmetic behind results[idx%batchSize].
LEMMA RemaindersDiffer ==
  ASSUME NEW b \in Nat \ {0}, NEW x \in Nat, NEW y \in Nat, x < y, y - x < b
  PROVE  x % b # y % b
<1> DEFINE q == x \div b
           p == y \div b
<1>1. x = b * q + (x % b) /\ q \in Int /\ x % b \in 0..(b - 1)
  OBVIOUS
<1>2. y = b * p + (y % b) /\ p \in Int /\ y % b \in 0..(b - 1)
  OBVIOUS
<1>3. SUFFICES ASSUME x % b = y % b PROVE FALSE
  OBVIOUS
<1> HIDE DEF q, p
<1>4. y - x = b * (p - q)
  BY <1>1, <1>2, <1>3
<1>5. b * (p - q) >= b
  BY <1>1, <1>2, <1>4, NoMultipleBelow
<1>6. QED BY <1>4, <1>5

-----------------------------------------------------------------------------
(***************************************************************************)
(* Progress lists.                                                         *)
(***************************************************************************)
\* Sets of indices of a list are finite.
LEMMA IndicesFinite ==
  ASSUME NEW n \in Nat, NEW S \in SUBSET (1..n)
  PROVE  IsFiniteSet(S) /\ Cardinality(S) \in Nat
<1>1. 1 \in Int /\ n \in Int
  OBVIOUS
<1>2. IsFiniteSet(1..n)
  BY <1>1, FS_Interval
<1>3. QED BY <1>2, FS_Subset, FS_CardinalityType

\* Sets of backups are finite.
LEMMA BackupsFinite ==
  ASSUME NEW S \in SUBSET Backups
  PROVE  IsFiniteSet(S) /\ Cardinality(S) \in Nat
BY ConstantsAssumption, FS_Subset, FS_CardinalityType

\* WithStatus changes statuses only.
LEMMA WithStatusType ==
  ASSUME NEW p \in Seq(Entry), NEW S, NEW st \in EntryStatus
  PROVE  /\ WithStatus(p, S, st) \in Seq(Entry)
         /\ Len(WithStatus(p, S, st)) = Len(p)
         /\ \A i \in 1..Len(p) : WithStatus(p, S, st)[i].status
                                   = IF i \in S THEN st ELSE p[i].status
<1> DEFINE w == WithStatus(p, S, st)
<1>1. Len(p) \in Nat /\ \A i \in 1..Len(p) : p[i] \in Entry
  OBVIOUS
<1>2. \A i \in 1..Len(p) : w[i] \in Entry
  BY <1>1 DEF WithStatus, Entry
<1>3. w \in [1..Len(p) -> Entry]
  BY <1>1, <1>2 DEF WithStatus
<1>4. w \in Seq(Entry) /\ Len(w) = Len(p)
  BY <1>1, <1>3
<1>5. \A i \in 1..Len(p) : w[i].status = IF i \in S THEN st ELSE p[i].status
  BY <1>1 DEF WithStatus, Entry
<1>6. QED BY <1>4, <1>5

\* If the New entries are consecutive, the next batch is a run of them and
\* those that stay New are consecutive too.
LEMMA NextBatchIsConsecutive ==
  ASSUME NEW p \in Seq(Entry), Consecutive(At(p, "New"))
  PROVE  /\ NextBatch(p) \subseteq At(p, "New")
         /\ Consecutive(NextBatch(p))
         /\ Consecutive(At(p, "New") \ NextBatch(p))
<1> DEFINE new == At(p, "New")
           before(i) == {j \in new : j < i}
<1>1. Len(p) \in Nat /\ new \subseteq 1..Len(p)
  BY DEF At
<1>2. NextBatch(p) = {i \in new : Cardinality(before(i)) < BatchSize}
  BY DEF NextBatch
<1>3. \A i \in new : IsFiniteSet(before(i)) /\ Cardinality(before(i)) \in Nat
  BY <1>1, IndicesFinite
<1>4. BatchSize \in Nat \ {0}
  BY ConstantsAssumption
<1> NextBatch(p) \subseteq new /\ \A k \in new : k \in Int
  BY <1>1, <1>2
<1> HIDE DEF new, before
<1>5. ASSUME NEW i \in NextBatch(p), NEW j \in new, j <= i
      PROVE  j \in NextBatch(p)
  <2> i \in Int /\ j \in Int
    OBVIOUS
  <2>1. before(j) \subseteq before(i)
    <3> SUFFICES ASSUME NEW k \in new, k < j
                 PROVE  k < i
      BY DEF before
    <3> QED BY <1>5
  <2>2. Cardinality(before(j)) <= Cardinality(before(i))
    BY <1>2, <1>3, <2>1, FS_Subset
  <2>3. QED BY <1>2, <1>3, <1>4, <2>2
<1>6. Consecutive(new)
  BY DEF new
<1>7. Consecutive(NextBatch(p)) /\ Consecutive(new \ NextBatch(p))
  BY <1>5, <1>6 DEF Consecutive
<1>8. QED BY <1>7 DEF new

-----------------------------------------------------------------------------
(***************************************************************************)
(* The resources the steps compute.                                        *)
(***************************************************************************)
\* Replacing the progress list and the counters keeps a resource.
LEMMA ProgressReplaced ==
  ASSUME NEW o \in Resource, NEW p \in Seq(Entry), NEW st \in Stats
  PROVE  /\ [o EXCEPT !.progress = p, !.stats = st] \in Resource
         /\ [o EXCEPT !.progress = p, !.stats = st].progress = p
BY DEF Resource

\* Moving entries between the counters keeps them integers.
LEMMA StartedType ==
  ASSUME NEW st \in Stats, NEW n \in Int
  PROVE  Started(st, n) \in Stats
<1> DEFINE x == st.pending - n
           y == st.inProgress + n
<1>1. x \in Int /\ y \in Int
  BY DEF Stats
<1>2. Started(st, n) = [st EXCEPT !.pending = x, !.inProgress = y]
  BY DEF Started, Stats
<1> HIDE DEF x, y
<1>3. QED BY <1>1, <1>2 DEF Stats

\* A new resource is well formed and has no progress list.
LEMMA CreatedType ==
  ASSUME NEW s \in DiscoverySpec
  PROVE  Created(s) \in Resource /\ Created(s).progress = <<>>
<1>1. NoStats \in Stats
  BY DEF NoStats, Stats
<1>2. <<>> \in Seq(Entry)
  OBVIOUS
<1>3. 1 \in 1..MaxGeneration /\ 0 \in 0..MaxGeneration
  BY ConstantsAssumption
<1>4. QED BY <1>1, <1>2, <1>3 DEF Created, Resource, Phase

\* A reset discovery is well formed and has no progress list.
LEMMA ClearedType ==
  ASSUME NEW o \in Resource
  PROVE  Cleared(o) \in Resource /\ Cleared(o).progress = <<>>
<1>1. NoStats \in Stats
  BY DEF NoStats, Stats
<1>2. <<>> \in Seq(Entry)
  OBVIOUS
<1>3. 0 \in 0..MaxGeneration
  BY ConstantsAssumption
<1>4. QED BY <1>1, <1>2, <1>3 DEF Cleared, Resource

\* The empty list has no New entry.
LEMMA EmptyList ==
  /\ At(<<>>, "New") = {}
  /\ Consecutive({})
BY DEF At, Consecutive

\* initializeDiscovery lists the candidates first: positions 1..Len(c) are New.
LEMMA InitializedType ==
  ASSUME NEW o \in Resource, velero \in [Backups -> VeleroBackup],
         NEW c \in NewestFirst(Candidates(o.spec)),
         NEW f \in AnyOrder(FilteredOut(o.spec))
  PROVE  /\ Initialized(o, c, f) \in Resource
         /\ Consecutive(At(Initialized(o, c, f).progress, "New"))
<1> DEFINE C == Candidates(o.spec)
           F == FilteredOut(o.spec)
           p == InitialProgress(c, f)
<1>1. o.spec.requested \subseteq Backups
  BY DEF Resource, DiscoverySpec
<1>2. C \subseteq Backups /\ F \subseteq Backups
  BY <1>1 DEF Candidates, FilteredOut
<1>3. Cardinality(C) \in Nat /\ Cardinality(F) \in Nat
  BY <1>2, BackupsFinite
<1> HIDE DEF C, F
<1>4. c \in [1..Cardinality(C) -> C] /\ f \in [1..Cardinality(F) -> F]
  BY DEF NewestFirst, AnyOrder, C, F
<1>5. Len(c) = Cardinality(C) /\ Len(f) = Cardinality(F)
  BY <1>3, <1>4
<1>6. ASSUME NEW i \in 1..(Len(c) + Len(f))
      PROVE  p[i] \in Entry /\ (p[i].status = "New" <=> i <= Len(c))
  <2>1. CASE i <= Len(c)
    <3>1. c[i] \in Backups
      BY <1>2, <1>3, <1>4, <1>5, <2>1
    <3>2. p[i] = [backup |-> c[i], status |-> "New"]
      BY <2>1 DEF InitialProgress
    <3>3. QED BY <2>1, <3>1, <3>2 DEF Entry, EntryStatus
  <2>2. CASE ~(i <= Len(c))
    <3>1. i - Len(c) \in 1..Len(f)
      BY <1>3, <1>5, <2>2
    <3>2. f[i - Len(c)] \in Backups
      BY <1>2, <1>4, <1>5, <3>1
    <3>3. p[i] = [backup |-> f[i - Len(c)], status |-> "Skipped"]
      BY <2>2 DEF InitialProgress
    <3>4. QED BY <2>2, <3>2, <3>3 DEF Entry, EntryStatus
  <2>3. QED BY <2>1, <2>2
<1>7. p \in Seq(Entry) /\ Len(p) = Len(c) + Len(f)
  <2>1. Len(c) + Len(f) \in Nat
    BY <1>3, <1>5
  <2>2. p \in [1..(Len(c) + Len(f)) -> Entry]
    BY <1>6 DEF InitialProgress
  <2>3. QED BY <2>1, <2>2
<1>8. At(p, "New") = {i \in 1..(Len(c) + Len(f)) : i <= Len(c)}
  BY <1>6, <1>7 DEF At
<1>9. Consecutive(At(p, "New"))
  BY <1>3, <1>5, <1>8 DEF Consecutive
<1>10. Missing(o.spec) \subseteq Backups /\ AsyncIncomplete(o.spec) \subseteq Backups
  BY <1>1 DEF Missing, AsyncIncomplete
<1>11. Cardinality(Missing(o.spec)) \in Nat
  BY <1>10, BackupsFinite
<1> HIDE DEF p
<1> DEFINE st == [total |-> Len(c) + Cardinality(Missing(o.spec)) + Len(f),
                  pending |-> Len(c), inProgress |-> 0, completed |-> 0,
                  skipped |-> Len(f), failed |-> Cardinality(Missing(o.spec))]
           inv == [backup: Missing(o.spec), reason: {"not found"}]
                    \cup [backup: AsyncIncomplete(o.spec), reason: {"async incomplete"}]
<1>12. st \in Stats
  BY <1>3, <1>5, <1>11 DEF Stats
<1>13. inv \in SUBSET [backup: Backups, reason: Reason]
  BY <1>10 DEF Reason
<1>14. Initialized(o, c, f) = [o EXCEPT !.hasStats = TRUE, !.stats = st, !.progress = p,
                                        !.listed = o.gen, !.valid = {}, !.invalid = inv]
  BY DEF Initialized, p
<1> HIDE DEF st, inv
<1>15. o.gen \in 0..MaxGeneration
  BY ConstantsAssumption DEF Resource
<1>16. Initialized(o, c, f) \in Resource /\ Initialized(o, c, f).progress = p
  BY <1>7, <1>12, <1>13, <1>14, <1>15 DEF Resource
<1>17. QED BY <1>9, <1>16

\* Marking a batch leaves the later New entries, a consecutive run.
LEMMA MarkInProgressType ==
  ASSUME NEW o \in Resource, Consecutive(At(o.progress, "New"))
  PROVE  LET B == NextBatch(o.progress)
             m == MarkInProgress(o, B)
         IN /\ m \in Resource
            /\ Consecutive(At(m.progress, "New"))
            /\ Consecutive(B)
            /\ B \subseteq 1..Len(m.progress)
            /\ \A i \in B : m.progress[i].status # "New"
<1> DEFINE B == NextBatch(o.progress)
           m == MarkInProgress(o, B)
           w == WithStatus(o.progress, B, "InProgress")
<1>1. o.progress \in Seq(Entry) /\ o.stats \in Stats
  BY DEF Resource
<1>2. /\ B \subseteq At(o.progress, "New")
      /\ Consecutive(B)
      /\ Consecutive(At(o.progress, "New") \ B)
  BY <1>1, NextBatchIsConsecutive
<1>3. /\ w \in Seq(Entry) /\ Len(w) = Len(o.progress)
      /\ \A i \in 1..Len(o.progress) :
           w[i].status = IF i \in B THEN "InProgress" ELSE o.progress[i].status
  <2>1. "InProgress" \in EntryStatus
    BY DEF EntryStatus
  <2> HIDE DEF B
  <2>2. QED BY <1>1, <2>1, WithStatusType
<1>4. B \subseteq 1..Len(o.progress)
  BY <1>2 DEF At
<1>5. Cardinality(B) \in Nat
  <2>1. Len(o.progress) \in Nat
    BY <1>1
  <2>2. QED BY <1>4, <2>1, IndicesFinite
<1> HIDE DEF B
<1>6. m \in Resource /\ m.progress = w
  <2> DEFINE st == Started(o.stats, Cardinality(B))
  <2>1. st \in Stats
    BY <1>1, <1>5, StartedType
  <2>2. m = [o EXCEPT !.progress = w, !.stats = st]
    BY DEF MarkInProgress
  <2> HIDE DEF st, w, m
  <2>3. QED BY <1>3, <2>1, <2>2, ProgressReplaced
<1> HIDE DEF m
<1>7. At(w, "New") = At(o.progress, "New") \ B
  BY <1>3 DEF At
<1>8. \A i \in B : w[i].status # "New"
  BY <1>3, <1>4
<1>9. QED
  BY <1>2, <1>3, <1>4, <1>6, <1>7, <1>8 DEF B, m

\* A reset happens when nothing is New, and makes one entry New.
LEMMA ResetStuckType ==
  ASSUME NEW o \in Resource, RetriesStuck(o.progress)
  PROVE  LET m == ResetStuck(o, StuckEntries(o.progress))
         IN m \in Resource /\ Consecutive(At(m.progress, "New"))
<1> DEFINE S == StuckEntries(o.progress)
           m == ResetStuck(o, S)
           w == WithStatus(o.progress, S, "New")
<1>1. o.progress \in Seq(Entry) /\ o.stats \in Stats
  BY DEF Resource
<1>2. /\ w \in Seq(Entry) /\ Len(w) = Len(o.progress)
      /\ \A i \in 1..Len(o.progress) :
           w[i].status = IF i \in S THEN "New" ELSE o.progress[i].status
  <2>1. "New" \in EntryStatus
    BY DEF EntryStatus
  <2> HIDE DEF S
  <2>2. QED BY <1>1, <2>1, WithStatusType
<1>3. S \subseteq 1..Len(o.progress) /\ \A i, j \in S : i <= j
  BY DEF StuckEntries, At
<1>4. Cardinality(S) \in Nat /\ Len(o.progress) \in Nat
  <2>1. Len(o.progress) \in Nat
    BY <1>1
  <2>2. QED BY <1>3, <2>1, IndicesFinite
<1>5. At(o.progress, "New") = {}
  BY DEF RetriesStuck
<1> HIDE DEF S
<1>6. At(w, "New") = S
  BY <1>2, <1>3, <1>5 DEF At
<1>7. Consecutive(S)
  BY <1>3, <1>4 DEF Consecutive
<1>8. m \in Resource /\ m.progress = w
  <2> DEFINE st == Started(o.stats, -Cardinality(S))
  <2>1. st \in Stats
    <3>1. -Cardinality(S) \in Int
      BY <1>4
    <3>2. QED BY <1>1, <3>1, StartedType
  <2>2. m = [o EXCEPT !.progress = w, !.stats = st]
    BY DEF ResetStuck
  <2> HIDE DEF st, w, m
  <2>3. QED BY <1>2, <2>1, <2>2, ProgressReplaced
<1>9. QED BY <1>6, <1>7, <1>8 DEF S

\* A non-empty set of numbers below a bound has a greatest one.
LEMMA GreatestExists ==
  ASSUME NEW n \in Nat, NEW S \in SUBSET (0..n), S # {}
  PROVE  \E x \in S : \A y \in S : y <= x
<1> DEFINE R == OpToRel(<, Nat)
           T == {n - x : x \in S}
<1>1. T \subseteq Nat /\ T # {}
  <2>1. \A x \in S : n - x \in Nat
    OBVIOUS
  <2>2. QED BY <2>1
<1>2. PICK t \in T : \A u \in T : ~(<<u, t>> \in R)
  <2> HIDE DEF T, R
  <2>1. IsWellFoundedOn(R, Nat)
    BY NatLessThanWellFounded DEF R
  <2>2. QED BY <1>1, <2>1, WFMin
<1>3. \A u \in T : ~(u < t)
  BY <1>1, <1>2 DEF OpToRel
<1>4. PICK x \in S : t = n - x
  BY <1>2
<1>5. \A y \in S : y <= x
  <2> TAKE y \in S
  <2>1. n - y \in T
    OBVIOUS
  <2>2. ~(n - y < n - x)
    BY <1>3, <1>4, <2>1
  <2>3. x \in Int /\ y \in Int
    OBVIOUS
  <2>4. QED BY <2>2, <2>3
<1>6. QED BY <1>5

\* The fields of the zero value.
LEMMA ZeroResult ==
  ASSUME NEW x, x = [idx |-> 1, status |-> ""]
  PROVE  x.idx = 1 /\ x.status = ""
OBVIOUS

\* The results of a batch make no entry New again; the zero value of an
\* unwritten slot could only hit the first entry.
LEMMA ApplyResultsType ==
  ASSUME TypeOK, Consecutive(At(mem.progress, "New")),
         \A i \in batch : mem.progress[i].status # "New",
         NEW size, size = Cardinality(batch),
         NEW r \in Results(size)
  PROVE  /\ ApplyResults(mem, r, size) \in Resource
         /\ Consecutive(At(ApplyResults(mem, r, size).progress, "New"))
<1> DEFINE p == mem.progress
           slots == 0..(size - 1)
           naming(i) == {s \in slots : r[s].idx = i}
           last(i) == CHOOSE s \in naming(i) : \A t \in naming(i) : t <= s
           got(status) == Cardinality({s \in slots : r[s].status = status})
           w == [i \in 1..Len(p) |->
                   IF naming(i) = {} THEN p[i] ELSE [p[i] EXCEPT !.status = r[last(i)].status]]
           st == [mem.stats EXCEPT !.inProgress = @ - size,
                                   !.completed = @ + got("Completed"),
                                   !.skipped = @ + got("Skipped"),
                                   !.failed = @ + got("Failed")]
           val == mem.valid \cup {p[r[s].idx].backup :
                                   s \in {t \in slots : r[t].status = "Completed"}}
<1>1. mem \in Resource /\ p \in Seq(Entry) /\ Len(p) \in Nat /\ batch \subseteq 1..Len(p)
  BY DEF TypeOK, Resource
<1>2. size \in Nat
  BY <1>1, IndicesFinite
<1>3. /\ r \in [slots -> [idx: batch \cup {1}, status: EntryStatus]]
      /\ \A s \in slots : \/ r[s].idx \in batch /\ r[s].status \in Outcomes(r[s].idx)
                          \/ r[s].idx = 1 /\ r[s].status = ""
  <2> DEFINE writers(s) == {i \in batch : Slot(i, size) = s}
  <2>1. /\ r \in [slots -> [idx: batch \cup {1}, status: EntryStatus]]
        /\ \A s \in slots :
             IF writers(s) = {} THEN r[s] = [idx |-> 1, status |-> ""]
             ELSE r[s].idx \in writers(s) /\ r[s].status \in Outcomes(r[s].idx)
    BY DEF Results
  <2>2. \A s : writers(s) \subseteq batch
    OBVIOUS
  <2> HIDE DEF writers, slots
  <2>3. ASSUME NEW s \in slots
        PROVE  \/ r[s].idx \in batch /\ r[s].status \in Outcomes(r[s].idx)
               \/ r[s].idx = 1 /\ r[s].status = ""
    <3>1. CASE writers(s) = {}
      <4>1. r[s] = [idx |-> 1, status |-> ""]
        BY <2>1, <3>1
      <4>2. QED BY <4>1, ZeroResult
    <3>2. CASE writers(s) # {}
      BY <2>1, <2>2, <3>2
    <3>3. QED BY <3>1, <3>2
  <2>4. QED BY <2>1, <2>3
<1>4. \A s \in slots : /\ r[s].status \in EntryStatus \ {"New"}
                       /\ r[s].status = "Completed" => r[s].idx \in batch
                       /\ r[s].idx \in batch \/ r[s].idx = 1
  BY <1>3 DEF Outcomes, EntryStatus
<1>5. \A i : naming(i) # {} => last(i) \in naming(i)
  <2> TAKE i
  <2> HAVE naming(i) # {}
  <2>1. size # 0 /\ size - 1 \in Nat /\ naming(i) \subseteq 0..(size - 1)
    BY <1>2
  <2> HIDE DEF naming
  <2>2. \E x \in naming(i) : \A y \in naming(i) : y <= x
    BY <2>1, GreatestExists
  <2>3. QED BY <2>2
<1> HIDE DEF last, naming
<1>6. \A i \in 1..Len(p) :
         /\ w[i] \in Entry
         /\ w[i].status = "New" => naming(i) = {} /\ p[i].status = "New"
  <2> TAKE i \in 1..Len(p)
  <2>1. p[i] \in Entry
    BY <1>1
  <2>2. CASE naming(i) = {}
    BY <2>1, <2>2
  <2>3. CASE naming(i) # {}
    <3>1. last(i) \in slots
      BY <1>5, <2>3 DEF naming
    <3>2. w[i] = [p[i] EXCEPT !.status = r[last(i)].status]
      BY <2>3
    <3>3. QED BY <1>4, <2>1, <3>1, <3>2 DEF Entry
  <2>4. QED BY <2>2, <2>3
<1>7. w \in Seq(Entry) /\ Len(w) = Len(p)
  <2>1. w \in [1..Len(p) -> Entry]
    BY <1>6
  <2>2. QED BY <1>1, <2>1
<1>8. ASSUME NEW i \in 1..Len(p), p[i].status = "New", i # 1 \/ naming(1) = {}
      PROVE  w[i].status = "New"
  <2>1. naming(i) = {}
    BY <1>4, <1>8 DEF naming
  <2>2. QED BY <1>8, <2>1
<1>9. Consecutive(At(w, "New"))
  <2> SUFFICES ASSUME NEW i \in At(w, "New"), NEW k \in At(w, "New"), NEW j \in i..k
               PROVE  j \in At(w, "New")
    BY DEF Consecutive
  <2> HIDE DEF w
  <2>1. i \in At(p, "New") /\ k \in At(p, "New") /\ i \in Nat /\ k \in Nat
    BY <1>1, <1>6, <1>7 DEF At
  <2>2. j \in At(p, "New")
    BY <2>1 DEF Consecutive
  <2>3. j # 1 \/ naming(1) = {}
    <3>1. j = 1 => i = 1
      BY <2>1 DEF At
    <3>2. naming(i) = {}
      BY <1>6, <1>7 DEF At
    <3>3. QED BY <3>1, <3>2
  <2>4. QED BY <1>7, <1>8, <2>2, <2>3 DEF At
<1>10. \A status : got(status) \in Nat
  <2> TAKE status
  <2>1. IsFiniteSet(slots)
    BY <1>2, FS_Interval
  <2>2. {s \in slots : r[s].status = status} \in SUBSET slots
    OBVIOUS
  <2> HIDE DEF slots
  <2>3. QED BY <2>1, <2>2, FS_Subset, FS_CardinalityType
<1> HIDE DEF got
<1>11. st \in Stats
  <2> DEFINE a == mem.stats.inProgress - size
             b == mem.stats.completed + got("Completed")
             c == mem.stats.skipped + got("Skipped")
             d == mem.stats.failed + got("Failed")
  <2>1. mem.stats \in Stats
    BY <1>1 DEF Resource
  <2>2. a \in Int /\ b \in Int /\ c \in Int /\ d \in Int
    BY <1>2, <1>10, <2>1 DEF Stats
  <2>3. st = [mem.stats EXCEPT !.inProgress = a, !.completed = b, !.skipped = c, !.failed = d]
    BY <2>1 DEF Stats
  <2> HIDE DEF a, b, c, d, st
  <2>4. QED BY <2>1, <2>2, <2>3 DEF Stats
<1>12. val \in SUBSET Backups
  <2>1. mem.valid \in SUBSET Backups
    BY <1>1 DEF Resource
  <2>2. ASSUME NEW s \in slots, r[s].status = "Completed"
        PROVE  p[r[s].idx].backup \in Backups
    <3>1. r[s].idx \in 1..Len(p)
      BY <1>1, <1>4, <2>2
    <3> DEFINE i == r[s].idx
    <3> HIDE DEF i
    <3>2. p[i] \in Entry
      BY <1>1, <3>1 DEF i
    <3>3. QED BY <3>2 DEF Entry, i
  <2>3. QED BY <2>1, <2>2
<1>13. ApplyResults(mem, r, size) = [mem EXCEPT !.progress = w, !.valid = val, !.stats = st]
  BY DEF ApplyResults, got, naming, last
<1> HIDE DEF w, val, st
<1>14. /\ ApplyResults(mem, r, size) \in Resource
       /\ ApplyResults(mem, r, size).progress = w
  BY <1>1, <1>7, <1>11, <1>12, <1>13 DEF Resource
<1>15. QED BY <1>9, <1>14

-----------------------------------------------------------------------------
(***************************************************************************)
(* The inductive invariant.  TypeOK alone is not inductive: that a batch   *)
(* lies within the progress list needs to know when batch can be non-empty.*)
(***************************************************************************)
IInv == TypeOK /\ ScanInv

\* Ending a reconcile, whatever became of log.
LEMMA EndReconcileKeepsInv ==
  ASSUME IInv, NEW q \in BOOLEAN, EndReconcile(q),
         log' \in Seq(Resource), Len(log') \in 1..MaxVersions,
         \A n \in 1..Len(log') : Consecutive(At(log'[n].progress, "New")),
         velero' \in [Backups -> VeleroBackup], faults' \in 0..MaxFaults
  PROVE  IInv'
<1>1. cache \in Resource
  BY DEF IInv, TypeOK, cache
<1>2. Created(cache.spec) \in Resource /\ Created(cache.spec).progress = <<>>
  BY <1>1, CreatedType DEF Resource
<1>3. TypeOK'
  <2>1. /\ pc' = "idle" /\ step' = "none" /\ mem' = Created(cache.spec)
        /\ tries' = 0 /\ batch' = {} /\ cont' = "done"
    BY DEF EndReconcile
  <2>2. fresh' \in BOOLEAN /\ queued' \in BOOLEAN
    BY DEF EndReconcile
  <2>3. mem' \in Resource /\ batch' \subseteq 1..Len(mem'.progress)
    BY <1>2, <2>1
  <2>4. QED BY <2>1, <2>2, <2>3, ConstantsAssumption DEF TypeOK, Places, Steps, Conts
<1>4. ScanInv'
  BY <1>2, EmptyList DEF IInv, EndReconcile, ScanInv, Scanning, Consecutive
<1>5. QED BY <1>3, <1>4 DEF IInv

\* A step that read the resource and is about to write what it computed.
LEMMA FetchedKeepsInv ==
  ASSUME IInv, NEW o \in Resource, Consecutive(At(o.progress, "New")),
         NEW k \in Conts, Fetched(o, k),
         \/ batch' = {}
         \/ /\ k = "scan" /\ batch' \subseteq 1..Len(o.progress) /\ Consecutive(batch')
            /\ \A i \in batch' : o.progress[i].status # "New"
  PROVE  IInv'
<1>1. TypeOK'
  <2>1. mem' = o /\ fresh' \in BOOLEAN /\ tries' = 0 /\ pc' = "write" /\ cont' = k
    BY DEF Fetched
  <2>2. batch' \subseteq 1..Len(mem'.progress)
    BY <2>1
  <2>3. /\ log' \in Seq(Resource) /\ Len(log') \in 1..MaxVersions
        /\ velero' \in [Backups -> VeleroBackup]
        /\ queued' \in BOOLEAN /\ faults' \in 0..MaxFaults /\ step' \in Steps
    BY DEF IInv, TypeOK, Fetched
  <2>4. QED BY <2>1, <2>2, <2>3, ConstantsAssumption DEF TypeOK, Places
<1>2. ScanInv'
  BY DEF IInv, TypeOK, ScanInv, Scanning, Fetched, Consecutive
<1>3. QED BY <1>1, <1>2 DEF IInv

\* What the cache and the server hold is well formed.
LEMMA VersionsWellFormed ==
  ASSUME IInv
  PROVE  /\ cache \in Resource /\ Consecutive(At(cache.progress, "New"))
         /\ server \in Resource /\ Consecutive(At(server.progress, "New"))
<1>1. log \in Seq(Resource) /\ Len(log) \in 1..MaxVersions /\ MaxVersions \in Nat
  BY ConstantsAssumption DEF IInv, TypeOK
<1>2. cache = log[1] /\ 1 \in 1..Len(log) /\ Len(log) \in 1..Len(log)
  BY <1>1 DEF cache
<1>3. QED BY <1>1, <1>2 DEF IInv, ScanInv, server

\* A batch is only held between its selection and its scan.
LEMMA NoBatchElsewhere ==
  ASSUME IInv, pc \in {"idle", "fetch", "list", "reread"} \/ (pc = "write" /\ cont # "scan")
  PROVE  batch = {}
BY DEF IInv, ScanInv, Scanning

\* A step of the worker that only moves it on, keeping resource and batch.
LEMMA WorkerMovesKeepsInv ==
  ASSUME IInv, UNCHANGED <<log, velero, mem, batch>>, batch = {} \/ Scanning',
         pc' \in Places, step' \in Steps, fresh' \in BOOLEAN, queued' \in BOOLEAN,
         faults' \in 0..MaxFaults, tries' \in 0..MaxTries, cont' \in Conts
  PROVE  IInv'
<1>1. TypeOK'
  BY DEF IInv, TypeOK
<1>2. ScanInv'
  BY DEF IInv, ScanInv, Scanning
<1>3. QED BY <1>1, <1>2 DEF IInv

\* A step that replaces mem when no batch is held.
LEMMA MemReplacedKeepsInv ==
  ASSUME IInv, UNCHANGED <<log, velero>>, batch' = {},
         mem' \in Resource, Consecutive(At(mem'.progress, "New")),
         pc' \in Places, step' \in Steps, fresh' \in BOOLEAN, queued' \in BOOLEAN,
         faults' \in 0..MaxFaults, tries' \in 0..MaxTries, cont' \in Conts
  PROVE  IInv'
<1>1. TypeOK'
  BY DEF IInv, TypeOK
<1>2. ScanInv'
  BY EmptyList DEF IInv, ScanInv
<1>3. QED BY <1>1, <1>2 DEF IInv

\* A new version reaches the server.
LEMMA AppendVersion ==
  ASSUME IInv, Len(log) < MaxVersions, NEW o \in Resource,
         Consecutive(At(o.progress, "New")), log' = Append(log, o)
  PROVE  /\ log' \in Seq(Resource) /\ Len(log') \in 1..MaxVersions
         /\ \A n \in 1..Len(log') : Consecutive(At(log'[n].progress, "New"))
<1>1. log \in Seq(Resource) /\ Len(log) \in Nat /\ MaxVersions \in Nat
  BY ConstantsAssumption DEF IInv, TypeOK
<1>2. log' \in Seq(Resource) /\ Len(log') = Len(log) + 1
  BY <1>1
<1>3. \A n \in 1..Len(log') : log'[n] = IF n <= Len(log) THEN log[n] ELSE o
  BY <1>1, <1>2
<1>4. QED BY <1>1, <1>2, <1>3 DEF IInv, ScanInv

\* Fields that carry no progress do not matter to the invariant.
LEMMA StatusFields ==
  ASSUME NEW o \in Resource, NEW onto \in Resource
  PROVE  /\ StatusOf(o, onto) \in Resource
         /\ StatusOf(o, onto).progress = o.progress
BY DEF StatusOf, Resource

\* finalizeDiscoveryProcess classifies backups of the resource only.
LEMMA FinalListsType ==
  ASSUME NEW o \in Resource
  PROVE  /\ FinalValid(o) \in SUBSET Backups
         /\ FinalInvalid(o) \in SUBSET [backup: Backups, reason: Reason]
<1>1. o.progress \in Seq(Entry) /\ o.spec.requested \subseteq Backups
      /\ o.invalid \subseteq [backup: Backups, reason: Reason]
  BY DEF Resource, DiscoverySpec
<1>2. \A i \in 1..Len(o.progress) : o.progress[i].backup \in Backups
  <2> TAKE i \in 1..Len(o.progress)
  <2>1. o.progress[i] \in Entry
    BY <1>1
  <2>2. QED BY <2>1 DEF Entry
<1>3. FinalValid(o) \subseteq Backups /\ Names(o.progress) \subseteq Backups
  BY <1>2 DEF FinalValid, Names, At
<1> DEFINE kept == {x \in o.invalid : x.backup \in o.spec.requested}
           keptNames == {x.backup : x \in kept}
           discovered == Names(o.progress) \ FinalValid(o)
           missing == o.spec.requested \ (Names(o.progress) \cup keptNames)
<1>4. FinalInvalid(o) = kept \cup [backup: discovered \ keptNames, reason: {"discovery"}]
                             \cup [backup: missing, reason: {"not found"}]
  BY DEF FinalInvalid
<1>5. kept \subseteq [backup: Backups, reason: Reason]
  BY <1>1
<1>6. discovered \ keptNames \subseteq Backups /\ missing \subseteq Backups
  BY <1>1, <1>3
<1> HIDE DEF kept, keptNames, discovered, missing
<1>7. QED BY <1>3, <1>4, <1>5, <1>6 DEF Reason

-----------------------------------------------------------------------------
(***************************************************************************)
(* The invariant holds initially and every action keeps it.                *)
(***************************************************************************)
\* A resource just created, with no reconcile running, satisfies it.
LEMMA InitEstablishes == Init => IInv
<1> SUFFICES ASSUME Init PROVE IInv
  OBVIOUS
<1>1. PICK s \in SpecChoices : log = <<Created(s)>> /\ mem = Created(s)
  BY DEF Init
<1>2. Created(s) \in Resource /\ Created(s).progress = <<>>
  BY ConstantsAssumption, CreatedType
<1>3. Len(log) = 1 /\ log[1] = Created(s) /\ log \in Seq(Resource)
  BY <1>1, <1>2
<1>4. /\ mem \in Resource /\ mem.progress = <<>> /\ batch = {}
      /\ Consecutive(At(mem.progress, "New"))
  BY <1>1, <1>2, EmptyList DEF Init
<1>5. TypeOK
  <2>1. queued \in BOOLEAN /\ fresh \in BOOLEAN
    BY DEF Init
  <2>2. /\ velero \in [Backups -> VeleroBackup] /\ faults \in 0..MaxFaults
        /\ pc \in Places /\ step \in Steps /\ cont \in Conts /\ tries \in 0..MaxTries
        /\ 1 \in 1..MaxVersions
    BY ConstantsAssumption DEF Init, Places, Steps, Conts
  <2>3. QED BY <1>3, <1>4, <2>1, <2>2 DEF TypeOK
<1>6. ScanInv
  <2>1. \A n \in 1..Len(log) : log[n] = mem
    BY <1>1, <1>3
  <2>2. QED BY <1>4, <2>1, EmptyList DEF ScanInv
<1>7. QED BY <1>5, <1>6 DEF IInv

\* The steps Reconcile runs: selection, the five step functions, the scan.
LEMMA WorkerKeeps ==
  ASSUME IInv,
         \/ Reconcile \/ initializePhase \/ initializeDiscoveryProcess
         \/ initializeDiscovery \/ TimeRangeError \/ ListError \/ checkForSpecChanges
         \/ processDiscoveryBatch \/ ScanBatch
         \/ finalizeDiscoveryProcess \/ ApplyFinal
  PROVE  IInv'
<1>1. /\ cache \in Resource /\ Consecutive(At(cache.progress, "New"))
      /\ mem \in Resource /\ Consecutive(At(mem.progress, "New"))
  BY VersionsWellFormed DEF IInv, TypeOK, ScanInv
<1>2. /\ log \in Seq(Resource) /\ Len(log) \in 1..MaxVersions
      /\ \A n \in 1..Len(log) : Consecutive(At(log[n].progress, "New"))
      /\ velero \in [Backups -> VeleroBackup] /\ faults \in 0..MaxFaults
      /\ step \in Steps /\ cont \in Conts /\ tries \in 0..MaxTries
  BY DEF IInv, TypeOK, ScanInv
<1>3. fresh \in BOOLEAN /\ queued \in BOOLEAN
  BY DEF IInv, TypeOK
<1>4. CASE Reconcile
  <2>1. SelectedStep(cache) \in Steps
    BY <1>1 DEF SelectedStep, Steps, isDiscoveryComplete, Resource
  <2>2. batch = {}
    BY <1>4, NoBatchElsewhere DEF Reconcile
  <2>3. pc' \in Places /\ queued' \in BOOLEAN /\ step' \in Steps
    BY <1>4, <2>1 DEF Reconcile, Places
  <2>4. QED BY <1>2, <1>3, <1>4, <2>2, <2>3, WorkerMovesKeepsInv DEF Reconcile
<1>5. CASE initializePhase
  <2> DEFINE o == [cache EXCEPT !.phase = "New"]
  <2>1. o \in Resource /\ o.progress = cache.progress
    BY <1>1 DEF Resource, Phase
  <2>2. batch' = {} /\ Fetched(o, "requeue")
    BY <1>5, NoBatchElsewhere DEF initializePhase
  <2> HIDE DEF o
  <2>3. QED BY <1>1, <2>1, <2>2, FetchedKeepsInv DEF Conts
<1>6. CASE initializeDiscoveryProcess
  <2> DEFINE o == [Cleared(cache) EXCEPT !.phase = "InProgress"]
  <2>1. o \in Resource /\ o.progress = <<>>
    BY <1>1, ClearedType DEF Resource, Phase
  <2>2. batch' = {} /\ Fetched(o, "list")
    BY <1>6, NoBatchElsewhere DEF initializeDiscoveryProcess
  <2> HIDE DEF o
  <2>3. QED BY <2>1, <2>2, EmptyList, FetchedKeepsInv DEF Conts
<1>7. CASE initializeDiscovery
  <2>1. PICK c \in NewestFirst(Candidates(mem.spec)), f \in AnyOrder(FilteredOut(mem.spec)) :
          mem' = Initialized(mem, c, f)
    BY <1>7 DEF initializeDiscovery
  <2>2. mem' \in Resource /\ Consecutive(At(mem'.progress, "New"))
    BY <1>1, <1>2, <2>1, InitializedType
  <2>3. batch' = {}
    BY <1>7, NoBatchElsewhere DEF initializeDiscovery
  <2>4. pc' \in Places /\ tries' \in 0..MaxTries /\ cont' \in Conts
    BY <1>7, ConstantsAssumption DEF initializeDiscovery, Places, Conts
  <2>5. QED BY <1>2, <1>3, <1>7, <2>2, <2>3, <2>4, MemReplacedKeepsInv DEF initializeDiscovery
<1>8. CASE TimeRangeError
  BY <1>2, <1>8, EndReconcileKeepsInv DEF TimeRangeError
<1>9. CASE ListError
  <2>1. mem' \in Resource /\ mem'.progress = mem.progress
    <3>1. mem.gen \in 0..MaxGeneration
      BY <1>1, ConstantsAssumption DEF Resource
    <3>2. mem' = [mem EXCEPT !.phase = "Failed", !.obs = mem.gen]
      BY <1>9 DEF ListError
    <3>3. QED BY <1>1, <3>1, <3>2 DEF Resource, Phase
  <2>2. batch' = {}
    BY <1>9, NoBatchElsewhere DEF ListError
  <2>3. pc' \in Places /\ tries' \in 0..MaxTries /\ cont' \in Conts /\ faults' \in 0..MaxFaults
    BY <1>2, <1>9, ConstantsAssumption DEF ListError, Places, Conts
  <2>4. QED BY <1>1, <1>2, <1>3, <1>9, <2>1, <2>2, <2>3, MemReplacedKeepsInv DEF ListError
<1>10. CASE checkForSpecChanges
  <2>1. CASE cache.obs # cache.gen
    <3> DEFINE o == [Cleared(cache) EXCEPT !.phase = "New", !.obs = 0]
    <3>1. o \in Resource /\ o.progress = <<>>
      <4>1. Cleared(cache) \in Resource /\ Cleared(cache).progress = <<>>
        BY <1>1, ClearedType
      <4>2. 0 \in 0..MaxGeneration
        BY ConstantsAssumption
      <4>3. QED BY <4>1, <4>2 DEF Resource, Phase
    <3>2. batch' = {} /\ Fetched(o, "requeue")
      BY <1>10, <2>1, NoBatchElsewhere DEF checkForSpecChanges
    <3> HIDE DEF o
    <3>3. QED BY <3>1, <3>2, EmptyList, FetchedKeepsInv DEF Conts
  <2>2. CASE cache.obs = cache.gen
    BY <1>2, <1>10, <2>2, EndReconcileKeepsInv DEF checkForSpecChanges
  <2>3. QED BY <2>1, <2>2
<1>11. CASE processDiscoveryBatch
  <2> DEFINE B == NextBatch(cache.progress)
             m == MarkInProgress(cache, B)
             o == ResetStuck(cache, StuckEntries(cache.progress))
  <2>1. CASE batch' = B /\ Fetched(MarkInProgress(cache, batch'), "scan")
    <3>1. /\ m \in Resource /\ Consecutive(At(m.progress, "New")) /\ Consecutive(B)
          /\ B \subseteq 1..Len(m.progress) /\ \A i \in B : m.progress[i].status # "New"
      BY <1>1, MarkInProgressType
    <3>2. Fetched(m, "scan") /\ batch' = B
      BY <2>1
    <3> HIDE DEF m, B
    <3>3. QED BY <3>1, <3>2, FetchedKeepsInv DEF Conts
  <2>2. CASE RetriesStuck(cache.progress) /\ Fetched(o, "requeue") /\ UNCHANGED batch
    <3>1. o \in Resource /\ Consecutive(At(o.progress, "New"))
      BY <1>1, <2>2, ResetStuckType
    <3>2. batch' = {}
      BY <1>11, <2>2, NoBatchElsewhere DEF processDiscoveryBatch
    <3> HIDE DEF o
    <3>3. QED BY <2>2, <3>1, <3>2, FetchedKeepsInv DEF Conts
  <2>3. CASE EndReconcile(FALSE) /\ UNCHANGED <<log, velero, faults>>
    BY <1>2, <2>3, EndReconcileKeepsInv
  <2>4. QED BY <1>11, <2>1, <2>2, <2>3 DEF processDiscoveryBatch
<1>12. CASE ScanBatch
  <2> DEFINE size == Cardinality(batch)
  <2>1. PICK r \in Results(size) : mem' = ApplyResults(mem, r, size)
    BY <1>12 DEF ScanBatch
  <2>2. mem' \in Resource /\ Consecutive(At(mem'.progress, "New"))
    <3> HIDE DEF size
    <3>1. TypeOK /\ size = Cardinality(batch) /\ \A i \in batch : mem.progress[i].status # "New"
      BY DEF IInv, ScanInv, size
    <3>2. QED BY <1>1, <2>1, <3>1, ApplyResultsType
  <2>3. /\ batch' = {} /\ pc' \in Places /\ tries' \in 0..MaxTries /\ cont' \in Conts
        /\ UNCHANGED <<log, velero, queued, faults, step, fresh>>
    BY <1>12, ConstantsAssumption DEF ScanBatch, Places, Conts
  <2>4. QED BY <1>2, <1>3, <2>2, <2>3, MemReplacedKeepsInv
<1>13. CASE finalizeDiscoveryProcess
  <2>1. mem' \in Resource /\ mem'.progress = cache.progress
    <3> DEFINE v == FinalValid(cache)
               u == FinalInvalid(cache)
    <3>1. v \in SUBSET Backups /\ u \in SUBSET [backup: Backups, reason: Reason]
      BY <1>1, FinalListsType
    <3>2. mem' = [cache EXCEPT !.valid = v, !.invalid = u]
      BY <1>13 DEF finalizeDiscoveryProcess
    <3> HIDE DEF v, u
    <3>3. QED BY <1>1, <3>1, <3>2 DEF Resource
  <2>2. batch' = {} /\ pc' \in Places
    BY <1>13, NoBatchElsewhere DEF finalizeDiscoveryProcess, Places
  <2>3. QED BY <1>1, <1>2, <1>3, <1>13, <2>1, <2>2, MemReplacedKeepsInv
            DEF finalizeDiscoveryProcess
<1>14. CASE ApplyFinal
  <2> DEFINE o == Finalized(cache, mem)
  <2>1. o \in Resource /\ o.progress = cache.progress
    <3> DEFINE y == IF mem.valid # {} THEN "True" ELSE "False"
    <3>1. y \in {"none", "True", "False"}
      OBVIOUS
    <3>2. /\ mem.valid \in SUBSET Backups
          /\ mem.invalid \in SUBSET [backup: Backups, reason: Reason]
          /\ cache.gen \in 1..MaxGeneration /\ cache.gen \in 0..MaxGeneration
      BY <1>1, ConstantsAssumption DEF Resource
    <3>3. o = [cache EXCEPT !.valid = mem.valid, !.invalid = mem.invalid,
                            !.phase = "Completed", !.obs = cache.gen, !.ready = y]
      BY DEF Finalized
    <3> HIDE DEF y, o
    <3>4. QED BY <1>1, <3>1, <3>2, <3>3 DEF Resource, Phase
  <2>2. batch' = {} /\ Fetched(o, "done")
    BY <1>14, NoBatchElsewhere DEF ApplyFinal
  <2> HIDE DEF o
  <2>3. QED BY <1>1, <2>1, <2>2, FetchedKeepsInv DEF Conts
<1>15. QED BY <1>4, <1>5, <1>6, <1>7, <1>8, <1>9, <1>10, <1>11, <1>12, <1>13, <1>14

\* The writes: a version is appended, retried or given up.
LEMMA WritesKeep ==
  ASSUME IInv, UpdateSucceeds \/ UpdateConflicts \/ UpdateFails
  PROVE  IInv'
<1>1. /\ server \in Resource /\ mem \in Resource
      /\ Consecutive(At(mem.progress, "New"))
  BY VersionsWellFormed DEF IInv, TypeOK, ScanInv
<1>2. /\ log \in Seq(Resource) /\ Len(log) \in 1..MaxVersions
      /\ \A n \in 1..Len(log) : Consecutive(At(log[n].progress, "New"))
      /\ velero \in [Backups -> VeleroBackup] /\ faults \in 0..MaxFaults
      /\ step \in Steps /\ cont \in Conts /\ tries \in 0..MaxTries /\ MaxTries \in Nat
      /\ batch \subseteq 1..Len(mem.progress)
  BY ConstantsAssumption DEF IInv, TypeOK, ScanInv
<1>3. fresh \in BOOLEAN /\ queued \in BOOLEAN
  BY DEF IInv, TypeOK
<1>4. CASE UpdateSucceeds
  <2> DEFINE o == StatusOf(mem, server)
  <2>1. o \in Resource /\ Consecutive(At(o.progress, "New"))
    BY <1>1, StatusFields
  <2>2. Len(log) < MaxVersions /\ log' = Append(log, o) /\ UNCHANGED <<velero, faults>>
    BY <1>4 DEF UpdateSucceeds
  <2> HIDE DEF o
  <2>3. /\ log' \in Seq(Resource) /\ Len(log') \in 1..MaxVersions
        /\ \A n \in 1..Len(log') : Consecutive(At(log'[n].progress, "New"))
    BY <2>1, <2>2, AppendVersion
  <2>4. CASE /\ cont \in {"list", "scan"} /\ pc' = cont /\ fresh' = (tries = 0) /\ tries' = 0
             /\ UNCHANGED <<queued, step, mem, batch, cont>>
    <3>1. fresh' \in BOOLEAN
      BY <2>4
    <3>2. TypeOK'
      <4>1. /\ pc' \in Places /\ tries' \in 0..MaxTries
        BY <1>2, <2>4 DEF Places
      <4>2. QED BY <1>1, <1>2, <1>3, <2>2, <2>3, <2>4, <3>1, <4>1 DEF TypeOK
    <3>3. batch' # {} => Scanning'
      BY <1>4, <2>4 DEF IInv, ScanInv, Scanning, UpdateSucceeds
    <3>4. ScanInv'
      BY <2>3, <2>4, <3>3 DEF IInv, ScanInv
    <3>5. QED BY <3>2, <3>4 DEF IInv
  <2>5. CASE EndReconcile(cont = "requeue")
    <3>1. (cont = "requeue") \in BOOLEAN
      OBVIOUS
    <3>2. QED BY <1>2, <2>2, <2>3, <2>5, <3>1, EndReconcileKeepsInv
  <2>6. QED BY <1>4, <2>4, <2>5 DEF UpdateSucceeds
<1>5. CASE UpdateConflicts
  <2>1. CASE /\ tries + 1 < MaxTries /\ tries' = tries + 1 /\ fresh' = (Len(log) = 1)
             /\ UNCHANGED <<queued, pc, step, mem, batch, cont>>
    <3>1. fresh' \in BOOLEAN
      BY <2>1
    <3>2. tries' \in 0..MaxTries
      BY <1>2, <2>1
    <3>3. batch = {} \/ Scanning'
      BY <2>1 DEF IInv, ScanInv, Scanning
    <3>4. pc' \in Places /\ UNCHANGED <<log, velero, faults>>
      BY <1>5, <2>1 DEF UpdateConflicts, Places
    <3>5. QED BY <1>2, <1>3, <2>1, <3>1, <3>2, <3>3, <3>4, WorkerMovesKeepsInv
  <2>2. CASE EndReconcile(TRUE)
    BY <1>2, <1>5, <2>2, EndReconcileKeepsInv DEF UpdateConflicts
  <2>3. QED BY <1>5, <2>1, <2>2 DEF UpdateConflicts
<1>6. CASE UpdateFails
  <2>1. /\ faults > 0 /\ faults' = faults - 1
        /\ UNCHANGED <<log, velero>> /\ EndReconcile(TRUE)
    BY <1>6 DEF UpdateFails
  <2>2. faults' \in 0..MaxFaults
    BY <1>2, <2>1, ConstantsAssumption
  <2>3. QED BY <1>2, <2>1, <2>2, EndReconcileKeepsInv
<1>7. QED BY <1>4, <1>5, <1>6

\* The environment's steps leave the worker alone, or stop it altogether.
LEMMA EnvironmentKeeps ==
  ASSUME IInv,
         \/ InformerDelivers \/ EditSpec \/ Crash
         \/ \E b \in Backups : BackupFinishes(b) \/ BackupExpires(b)
  PROVE  IInv'
<1>1. /\ server \in Resource /\ mem \in Resource
      /\ Consecutive(At(server.progress, "New"))
  BY VersionsWellFormed DEF IInv, TypeOK
<1>2. /\ log \in Seq(Resource) /\ Len(log) \in 1..MaxVersions /\ Len(log) \in Nat
      /\ \A n \in 1..Len(log) : Consecutive(At(log[n].progress, "New"))
      /\ velero \in [Backups -> VeleroBackup] /\ faults \in 0..MaxFaults
      /\ MaxVersions \in Nat
  BY ConstantsAssumption DEF IInv, TypeOK, ScanInv
<1>3. ASSUME UNCHANGED <<pc, step, mem, tries, batch, cont>>,
             fresh' \in BOOLEAN, queued' \in BOOLEAN, faults' \in 0..MaxFaults,
             velero' \in [Backups -> VeleroBackup],
             log' \in Seq(Resource), Len(log') \in 1..MaxVersions,
             \A n \in 1..Len(log') : Consecutive(At(log'[n].progress, "New"))
      PROVE  IInv'
  <2>1. TypeOK'
    BY <1>3 DEF IInv, TypeOK
  <2>2. ScanInv'
    BY <1>3 DEF IInv, ScanInv, Scanning
  <2>3. QED BY <2>1, <2>2 DEF IInv
<1>4. fresh \in BOOLEAN /\ queued \in BOOLEAN
  BY DEF IInv, TypeOK
<1>5. CASE InformerDelivers
  <2>1. log' = Tail(log) /\ Len(log) > 1 /\ queued' = TRUE /\ UNCHANGED <<velero, faults, worker>>
    BY <1>5 DEF InformerDelivers
  <2>2. log' \in Seq(Resource) /\ Len(log') = Len(log) - 1
    BY <1>2, <2>1
  <2>3. \A n \in 1..Len(log') : log'[n] = log[n + 1]
    BY <1>2, <2>1, <2>2
  <2>4. \A n \in 1..Len(log') : Consecutive(At(log'[n].progress, "New"))
    BY <1>2, <2>2, <2>3
  <2>5. Len(log') \in 1..MaxVersions
    BY <1>2, <2>1, <2>2
  <2>6. queued' \in BOOLEAN /\ fresh' \in BOOLEAN
    BY <1>4, <2>1 DEF worker
  <2>7. QED BY <1>2, <1>3, <2>1, <2>2, <2>4, <2>5, <2>6 DEF worker
<1>6. CASE EditSpec
  <2>1. PICK s \in SpecChoices \ {server.spec} :
          log' = Append(log, [server EXCEPT !.spec = s, !.gen = server.gen + 1])
    BY <1>6 DEF EditSpec
  <2> DEFINE o == [server EXCEPT !.spec = s, !.gen = server.gen + 1]
  <2>2. o \in Resource /\ o.progress = server.progress
    <3>1. server.gen + 1 \in 1..MaxGeneration
      <4>1. server.gen < MaxGeneration
        BY <1>6 DEF EditSpec
      <4>2. server.gen \in 1..MaxGeneration /\ MaxGeneration \in Nat
        BY <1>1, ConstantsAssumption DEF Resource
      <4>3. QED BY <4>1, <4>2
    <3>2. s \in DiscoverySpec
      BY ConstantsAssumption
    <3>3. QED BY <1>1, <3>1, <3>2 DEF Resource
  <2>3. /\ Len(log) < MaxVersions /\ fresh' = FALSE
        /\ UNCHANGED <<velero, queued, faults, pc, step, mem, tries, batch, cont>>
    BY <1>6 DEF EditSpec
  <2>4. log' = Append(log, o)
    BY <2>1
  <2> HIDE DEF o
  <2>5. /\ log' \in Seq(Resource) /\ Len(log') \in 1..MaxVersions
        /\ \A n \in 1..Len(log') : Consecutive(At(log'[n].progress, "New"))
    BY <1>1, <2>2, <2>3, <2>4, AppendVersion
  <2>6. queued' \in BOOLEAN /\ fresh' \in BOOLEAN
    BY <1>4, <2>3
  <2>7. QED BY <1>2, <1>3, <2>3, <2>5, <2>6
<1>7. CASE Crash
  <2>1. /\ faults' \in 0..MaxFaults /\ log' = <<server>> /\ UNCHANGED velero
        /\ mem' = Created(server.spec) /\ batch' = {}
        /\ pc' \in Places /\ step' \in Steps /\ tries' \in 0..MaxTries /\ cont' \in Conts
    BY <1>2, <1>7, ConstantsAssumption DEF Crash, Places, Steps, Conts
  <2>2. queued' \in BOOLEAN /\ fresh' \in BOOLEAN
    BY <1>7 DEF Crash
  <2>3. mem' \in Resource /\ mem'.progress = <<>>
    BY <1>1, <2>1, CreatedType DEF Resource
  <2>4. /\ log' \in Seq(Resource) /\ Len(log') \in 1..MaxVersions
        /\ \A n \in 1..Len(log') : log'[n] = server
    BY <1>1, <1>2, <2>1
  <2>5. TypeOK'
    BY <1>2, <2>1, <2>2, <2>3, <2>4 DEF TypeOK
  <2>6. ScanInv'
    BY <1>1, <2>1, <2>3, <2>4, EmptyList DEF ScanInv
  <2>7. QED BY <2>5, <2>6 DEF IInv
<1>8. ASSUME NEW b \in Backups, BackupFinishes(b) \/ BackupExpires(b)
      PROVE  IInv'
  <2>1. velero' \in [Backups -> VeleroBackup]
    <3>1. velero[b] \in VeleroBackup
      BY <1>2
    <3>2. /\ [velero[b] EXCEPT !.phaseCompleted = TRUE] \in VeleroBackup
          /\ [velero[b] EXCEPT !.asyncIncomplete = FALSE] \in VeleroBackup
          /\ [velero[b] EXCEPT !.exists = FALSE] \in VeleroBackup
      BY <3>1, Zenon DEF VeleroBackup
    <3>3. \E v \in VeleroBackup : velero' = [velero EXCEPT ![b] = v]
      BY <1>8, <3>2 DEF BackupFinishes, BackupExpires
    <3>4. QED BY <1>2, <3>3
  <2>2. UNCHANGED <<log, faults, worker>>
    BY <1>8 DEF BackupFinishes, BackupExpires
  <2>3. queued' \in BOOLEAN /\ fresh' \in BOOLEAN
    BY <1>4, <1>8, <2>2 DEF BackupFinishes, BackupExpires, worker
  <2>4. QED BY <1>2, <1>3, <2>1, <2>2, <2>3 DEF worker
<1>9. QED BY <1>5, <1>6, <1>7, <1>8

\* IInv is an invariant: every step of the controller, of the API server and
\* of the environment keeps it.
THEOREM Invariance == Spec => []IInv
<1>1. IInv /\ [Next]_vars => IInv'
  <2> SUFFICES ASSUME IInv, [Next]_vars PROVE IInv'
    OBVIOUS
  <2>1. CASE UNCHANGED vars
    BY <2>1 DEF vars, IInv, TypeOK, ScanInv, Scanning
  <2>2. CASE Controller
    BY <2>2, WorkerKeeps, WritesKeep DEF Controller
  <2>3. CASE InformerDelivers
    BY <2>3, EnvironmentKeeps
  <2>4. CASE Environment
    BY <2>4, WorkerKeeps, WritesKeep, EnvironmentKeeps DEF Environment
  <2>5. QED BY <2>1, <2>2, <2>3, <2>4 DEF Next
<1>2. QED BY <1>1, InitEstablishes, PTL DEF Spec

-----------------------------------------------------------------------------
\* Every variable of the controller model keeps its type: no reconcile ever
\* indexes outside the progress list of the copy it holds.
THEOREM TypeCorrect == Spec => []TypeOK
<1>1. IInv => TypeOK
  BY DEF IInv
<1>2. QED BY <1>1, Invariance, PTL

\* Two elements of a consecutive set of naturals are less than its size apart.
LEMMA ConsecutiveIsShort ==
  ASSUME NEW n \in Nat, NEW S \in SUBSET (1..n), Consecutive(S),
         NEW i \in S, NEW j \in S, i < j
  PROVE  j - i < Cardinality(S)
<1>1. i \in Nat /\ j \in Nat /\ i..j \subseteq S
  BY DEF Consecutive
<1>2. IsFiniteSet(S) /\ Cardinality(S) \in Nat
  BY IndicesFinite
<1>3. IsFiniteSet(i..j) /\ Cardinality(i..j) = j - i + 1
  BY <1>1, FS_Interval
<1>4. Cardinality(i..j) <= Cardinality(S)
  BY <1>1, <1>2, FS_Subset
<1>5. QED BY <1>1, <1>2, <1>3, <1>4

\* The goroutines of a batch whose positions are consecutive have a slot each.
LEMMA SlotsApart == IInv => SlotsDistinct
<1> SUFFICES ASSUME IInv, NEW i \in batch, NEW j \in batch, i # j
             PROVE  Slot(i, Cardinality(batch)) # Slot(j, Cardinality(batch))
  BY DEF SlotsDistinct
<1> DEFINE size == Cardinality(batch)
           n == Len(mem.progress)
<1>1. n \in Nat /\ batch \subseteq 1..n /\ Consecutive(batch)
  BY DEF IInv, TypeOK, ScanInv, Resource
<1> HIDE DEF n
<1>2. size \in Nat /\ i \in Nat \ {0} /\ j \in Nat \ {0}
  <2>1. size \in Nat
    BY <1>1, IndicesFinite
  <2>2. QED BY <1>1, <2>1
<1>3. ASSUME NEW a \in batch, NEW b \in batch, a < b
      PROVE  Slot(a, size) # Slot(b, size)
  <2>1. b - a < size
    BY <1>1, <1>3, ConsecutiveIsShort
  <2> HIDE DEF size
  <2>2. a \in Nat \ {0} /\ b \in Nat \ {0}
    BY <1>1
  <2>3. size \in Nat \ {0} /\ a - 1 \in Nat /\ b - 1 \in Nat
    BY <1>2, <1>3, <2>1, <2>2
  <2> DEFINE x == a - 1
             y == b - 1
  <2>4. x < y /\ y - x < size
    BY <1>3, <2>1, <2>2
  <2> HIDE DEF x, y
  <2>5. (x % size) # (y % size)
    BY <2>3, <2>4, RemaindersDiffer DEF x, y
  <2>6. QED BY <2>5 DEF Slot, x, y
<1>4. i < j \/ j < i
  BY <1>2
<1>5. QED BY <1>3, <1>4

\* For every batch size, list of backups and history of crashes, stale reads
\* and resets of stuck entries, the goroutines of processDiscoveryBatch write
\* to different elements of the results array.
THEOREM SlotsNeverCollide == Spec => []SlotsDistinct
BY SlotsApart, Invariance, PTL

=============================================================================
