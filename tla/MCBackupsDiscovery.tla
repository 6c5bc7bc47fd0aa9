------------------------ MODULE MCBackupsDiscovery ------------------------
(* Small instances of BackupsDiscovery for TLC. *)
EXTENDS BackupsDiscovery

Good == [exists |-> TRUE, phaseCompleted |-> TRUE, asyncIncomplete |-> FALSE,
         includesVM |-> TRUE]
Absent == [Good EXCEPT !.exists = FALSE]
Unfinished == [Good EXCEPT !.phaseCompleted = FALSE]
Uploading == [Good EXCEPT !.asyncIncomplete = TRUE]
OtherNamespace == [Good EXCEPT !.includesVM = FALSE]

\* Times.  With days of two seconds the backups 2, 3 and 4 are the first and the
\* last of one day and the first of the next.
Nil == [form |-> "absent", at |-> 0, utc |-> TRUE]
Empty == [Nil EXCEPT !.form = "empty"]
Malformed == [Nil EXCEPT !.form = "malformed"]
Date(midnight) == [form |-> "date", at |-> midnight, utc |-> TRUE]
Timestamp(at) == [form |-> "timestamp", at |-> at, utc |-> TRUE]
Elsewhere(at) == [Timestamp(at) EXCEPT !.utc = FALSE]

Everything == [requested |-> {}, startTime |-> Nil, endTime |-> Nil]
AllInRange == Everything
Explicit(S) == [Everything EXCEPT !.requested = S]
Range(start, end) == [Everything EXCEPT !.startTime = start, !.endTime = end]
Combined(S, start, end) == [Range(start, end) EXCEPT !.requested = S]
BadTimes == Range(Malformed, Nil)

AllGood == {[b \in Backups |-> Good]}

TwoSpecs == {AllInRange, Explicit({2})}
ThreeSpecs == TwoSpecs \cup {BadTimes}

\* Every mix of the kinds a requested backup is told apart by.
EveryKind == [Backups -> {Good, Absent, Uploading, OtherNamespace, Unfinished}]
\* Every way to select, with each form of time at each end, on and off midnight.
EveryMode == {AllInRange, Explicit({2, 3}), Combined({3}, Date(4), Nil),
              Range(Nil, Date(2)), Range(Timestamp(3), Timestamp(4)),
              Range(Empty, Elsewhere(2)), Range(Date(2), Empty)}
=============================================================================
