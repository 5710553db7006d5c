----------------------------- MODULE MetricPipeline ----------------------------
(***************************************************************************)
(* How one measured fact travels: the in-memory hot window and its flushes *)
(* (metrics/pipeline.py), the SQLite rows of three resolutions and their   *)
(* compaction (metrics/store.py), and the reader that overlays the two.    *)
(*                                                                         *)
(* A bucket is the set of points merged into it: its sum, count and mean   *)
(* are functions of that set (_MutableBucket.merge).  A row is one record  *)
(* per point, so that a point counted by two rows, by a row and the hot    *)
(* window, or by none, is visible.                                         *)
(***************************************************************************)
EXTENDS Integers, Sequences

CONSTANTS
    Point,          \* measured facts
    LegacyPoint,    \* those the one-time import left as raw rows
    AiPoint,        \* those of resource "ai_usage", rolled up earlier
    EpochOf,        \* [Point -> Nat]: when each was observed
    Hot, Hour, Day, \* the resolutions in seconds
    DayOffset,      \* local midnight modulo Day
    HotRetention, HourRetention,
    MaxClock, MaxCrashes, MaxFaults, MaxRuns \* bounds

ASSUME ConstantsAssumption ==
    /\ LegacyPoint \subseteq Point /\ AiPoint \subseteq Point
    /\ EpochOf \in [Point -> Nat]
    /\ Hot \in Nat \ {0} /\ Hour \in Nat \ {0} /\ Day \in Nat \ {0}
    /\ Hour % Hot = 0 /\ Day % Hour = 0
    \* Time zones are whole hours: elsewhere an hour row straddles midnight.
    /\ DayOffset \in 0..(Day - 1) /\ DayOffset % Hour = 0
    /\ HotRetention \in Nat /\ HourRetention \in Nat
    /\ {MaxClock, MaxCrashes, MaxFaults, MaxRuns} \subseteq Nat

Tier == {"raw", "hot", "hour", "day"}
Width(tier) == CASE tier = "hour" -> Hour [] tier = "day" -> Day [] OTHER -> Hot
Offset(tier) == IF tier = "day" THEN DayOffset ELSE 0

\* bucket_start
BucketStart(epoch, seconds, offset) == ((epoch - offset) \div seconds) * seconds + offset

\* The key of the row of a tier that a bucket starting at epoch falls into.
Slot(epoch, tier) == BucketStart(epoch, Width(tier), Offset(tier))
EpochRow(tier, epoch, p) == \* mutant: the row keeps the epoch of its source
    [tier |-> tier, start |-> epoch, point |-> p]
Row(tier, epoch, p) == [tier |-> tier, start |-> Slot(epoch, tier), point |-> p]

Maintainer == {"agent", "offline"} \* the Agent's thread and a --maintain process

VARIABLES
    clock,
    phase,     \* "up", "stopping" or "down": the Agent process
    accepted,  \* points that were ingested (or imported)
    hot,       \* points in the accumulator's open buckets
    flushing,  \* points of the buckets drained for the write under way
    rows,      \* the rows of metric_points
    lock,      \* holder of MetricPipeline._lock: "free", "sampler" or "reader"
    reader,    \* what the reader of metrics.query is doing
    query,     \* its query: since, and the bucket width it asks for
    reply,     \* the answer so far: each point it counts, in which bucket, from where
    job,       \* [Maintainer -> the compaction it is at and the rows it has read]
    \* Observers and bounds.
    lost,      \* points that died with the process
    doubled,   \* points that a merge added to a row that had them already
    raced,     \* points whose row a process changed while another was compacting it
    crashes, faults, runs

agentVars == <<phase, accepted, hot, flushing, lock, lost>>
readerVars == <<reader, query, reply>>
storeVars == <<rows, doubled, raced>>
bounds == <<crashes, faults, runs>>
vars == <<clock, phase, accepted, hot, flushing, rows, lock, reader, query, reply, job,
          lost, doubled, raced, crashes, faults, runs>>

\* A maintenance run: the stage, the time it goes by, its next step ("find", "read" or
\* "merge"), the start of the chunk under way and the rows read of it.
Job(stage, now, step, at, chunk) ==
    [stage |-> stage, now |-> now, step |-> step, at |-> at, chunk |-> chunk]
Idle == Job(0, 0, "find", 0, {})
NoQuery == [since |-> 0, width |-> 0]

Init ==
    /\ clock = 0
    /\ phase = "up"
    /\ accepted = LegacyPoint
    /\ hot = {}
    /\ flushing = {}
    /\ rows = {[tier |-> "raw", start |-> EpochOf[p], point |-> p] : p \in LegacyPoint}
    /\ lock = "free"
    /\ reader = "idle"
    /\ query = NoQuery
    /\ reply = {}
    /\ job = [m \in Maintainer |-> Idle]
    /\ lost = {}
    /\ doubled = {}
    /\ raced = {}
    /\ crashes = 0
    /\ faults = 0
    /\ runs = 0

Fault == faults < MaxFaults /\ faults' = faults + 1
\* maintain_history keeps MetricStore._lock for its whole run; every write and
\* every initialize() of the same process waits for it, one of --maintain does not.
StoreUnlocked == TRUE \* mutant: a flush does not wait for the maintenance run
StoreFree == job["agent"] = Idle

Tick ==
    /\ clock < MaxClock
    /\ clock' = clock + 1
    /\ UNCHANGED <<agentVars, storeVars, readerVars, job, bounds>>

--------------------------------------------------------------------------------
(* What a maintenance run moves, and what another process may change under it. *)

Compaction == <<
    [from |-> "raw",  to |-> "hot",  points |-> Point],
    [from |-> "hot",  to |-> "hour", points |-> AiPoint],
    [from |-> "hour", to |-> "day",  points |-> AiPoint],
    [from |-> "hot",  to |-> "hour", points |-> Point],
    [from |-> "hour", to |-> "day",  points |-> Point] >>

\* Only rows that start before the cutoff are compacted: whole periods.
Cutoff(stage, now) ==
    LET midnight == BucketStart(now, Day, DayOffset)
    IN  CASE stage = 1 -> Slot(now, "hot")
          [] stage = 2 -> Slot(midnight, "hour")
          [] stage = 3 -> midnight
          [] stage = 4 -> Slot(now - HotRetention, "hour")
          [] stage = 5 -> Slot(now - HourRetention, "day")

\* The rows that the stage of a run has to move, and those of its chunk.
Due(j, stored) ==
    {r \in stored : /\ r.tier = Compaction[j.stage].from
                    /\ r.start < Cutoff(j.stage, j.now)
                    /\ r.point \in Compaction[j.stage].points}
InChunk(j, stored) == {r \in Due(j, stored) : j.at <= r.start /\ r.start < j.at + Day}

Other(m) == IF m = "agent" THEN "offline" ELSE "agent"

\* The points of the chunk that m has read and not yet merged, whose rows a commit
\* adds or removes.
Disturbed(m, old, new) ==
    IF job[m].step = "merge"
    THEN {r.point : r \in InChunk(job[m], (old \ new) \cup (new \ old))}
    ELSE {}

--------------------------------------------------------------------------------
(* The sampler. *)

\* drain_before: the points of the buckets that are complete by now.
Completed(points, now) ==
    {p \in points : Slot(EpochOf[p], "hot") < BucketStart(now, Hot, 0)}

\* ingest: add a sample's points, of any age, and drain what is complete.
Ingest(points) ==
    /\ phase = "up"
    /\ lock = "free"
    /\ accepted' = accepted \cup points
    /\ LET drained == Completed(hot \cup points, clock)
       IN  /\ flushing' = drained
           /\ hot' = (hot \cup points) \ drained
           /\ lock' = IF drained = {} THEN "free" ELSE "sampler"
    /\ UNCHANGED <<clock, phase, storeVars, readerVars, job, lost, bounds>>

\* flush_all at the end of main drains the open buckets too.
OnlyCompleted == Completed(hot, clock) \* mutant: open buckets are not flushed
EveryBucket == hot

StopAgent ==
    /\ phase = "up"
    /\ lock = "free"
    /\ phase' = "stopping"
    /\ lock' = "sampler"
    /\ flushing' = EveryBucket
    /\ hot' = hot \ EveryBucket
    /\ UNCHANGED <<clock, accepted, storeVars, readerVars, job, lost, bounds>>

\* The process ends: its threads and whatever was only in memory are gone.
EndProcess(remaining) ==
    /\ phase' = "down"
    /\ hot' = {}
    /\ flushing' = {}
    /\ lock' = "free"
    /\ lost' = lost \cup remaining
    /\ reader' = "idle"
    /\ query' = NoQuery
    /\ reply' = {}
    /\ job' = [job EXCEPT !["agent"] = Idle]

\* write_buckets commits, adding to the rows that the buckets already have.
WriteBuckets ==
    /\ lock = "sampler"
    /\ StoreFree
    /\ LET written == {Row("hot", EpochOf[p], p) : p \in flushing}
       IN  /\ rows' = rows \cup written
           /\ doubled' = doubled \cup {r.point : r \in written \cap rows}
           /\ raced' = raced \cup Disturbed("offline", rows, rows')
    /\ \/ /\ phase = "stopping"
          /\ EndProcess(hot)
       \/ /\ phase = "up"
          /\ flushing' = {}
          /\ lock' = "free"
          /\ UNCHANGED <<phase, hot, lost, readerVars, job>>
    /\ UNCHANGED <<clock, accepted, bounds>>

\* The transaction is rolled back and the buckets return to the accumulator;
\* at the end of main they are lost with the process.
Readd(buckets) == hot \cup buckets

WriteFails ==
    /\ lock = "sampler"
    /\ StoreFree
    /\ Fault
    /\ \/ /\ phase = "stopping"
          /\ EndProcess(Readd(flushing))
       \/ /\ phase = "up"
          /\ hot' = Readd(flushing)
          /\ flushing' = {}
          /\ lock' = "free"
          /\ UNCHANGED <<phase, lost, readerVars, job>>
    /\ UNCHANGED <<clock, accepted, storeVars, crashes, runs>>

Crash ==
    /\ phase # "down"
    /\ crashes < MaxCrashes
    /\ crashes' = crashes + 1
    /\ EndProcess(hot \cup flushing)
    /\ UNCHANGED <<clock, accepted, storeVars, faults, runs>>

StartAgent ==
    /\ phase = "down"
    /\ phase' = "up"
    /\ UNCHANGED <<clock, accepted, hot, flushing, storeVars, lock, readerVars, job,
                   lost, bounds>>

--------------------------------------------------------------------------------
(* The reader: MetricPipeline.query_points, one RLock around both reads. *)

QueriesDoNotLock == lock # "reader" \* mutant: a query does not wait for a flush
LockIsFree == lock = "free"

\* The desktop asks for whole local days, by the hour or by the day.
DayStart == {BucketStart(e, Day, DayOffset) : e \in 0..MaxClock}

BeginQuery ==
    /\ phase = "up"
    /\ reader = "idle"
    /\ LockIsFree
    /\ \E since \in DayStart, width \in {Hour, Day} :
         since <= clock /\ query' = [since |-> since, width |-> width]
    /\ reader' = "select"
    /\ lock' = "reader"
    /\ UNCHANGED <<clock, phase, accepted, hot, flushing, storeVars, reply, job, lost, bounds>>

\* A point counted in the bucket of the answer that its own bucket falls into.
Counted(from, start, p) ==
    [from |-> from, point |-> p,
     start |-> BucketStart(start, query.width, IF query.width = Day THEN DayOffset ELSE 0)]

SelectRows ==
    /\ reader = "select"
    /\ StoreFree
    /\ reply' = {Counted(r.tier, r.start, r.point) : r \in {x \in rows : x.start >= query.since}}
    /\ reader' = "overlay"
    /\ UNCHANGED <<clock, agentVars, storeVars, query, job, bounds>>

\* The answer adds the still-open buckets, of which none starts after now.
Overlay ==
    LET open == {p \in hot : Slot(EpochOf[p], "hot") >= query.since}
    IN  reply \cup {Counted("memory", Slot(EpochOf[p], "hot"), p) : p \in open}

\* The answer is returned and nothing of it is kept.
EndQuery == reader' = "idle" /\ query' = NoQuery /\ reply' = {}

AnswerQuery ==
    /\ reader = "overlay"
    /\ EndQuery
    /\ lock' = "free"
    /\ UNCHANGED <<clock, phase, accepted, hot, flushing, storeVars, job, lost, bounds>>

SelectFails ==
    /\ reader = "select"
    /\ StoreFree
    /\ Fault
    /\ EndQuery
    /\ lock' = "free"
    /\ UNCHANGED <<clock, phase, accepted, hot, flushing, storeVars, job, lost, crashes, runs>>

--------------------------------------------------------------------------------
(* maintain_history: five compactions in order, each in chunks of a day. *)

StartMaintenance(m) ==
    /\ job[m] = Idle
    /\ runs < MaxRuns
    /\ m = "agent" => phase = "up"
    /\ runs' = runs + 1
    /\ job' = [job EXCEPT ![m] = Job(1, clock, "find", 0, {})]
    /\ UNCHANGED <<clock, agentVars, storeVars, readerVars, crashes, faults>>

\* The oldest row to move tells where the first chunk starts.
FindOldest(m) ==
    LET j == job[m]
        to == Compaction[j.stage].to
    IN  /\ j # Idle /\ j.step = "find"
        /\ \E first \in Due(j, rows) :
             /\ \A r \in Due(j, rows) : first.start <= r.start
             /\ job' = [job EXCEPT ![m] = Job(j.stage, j.now, "read", Slot(first.start, to), {})]
        /\ UNCHANGED <<clock, agentVars, storeVars, readerVars, bounds>>

NextChunk(j) == Job(j.stage, j.now, "read", j.at + Day, {})

\* The SELECT of a chunk is a transaction of its own: sqlite3 begins the one that
\* writes with its first INSERT.
ReadChunk(m) ==
    LET j == job[m]
        found == InChunk(j, rows)
    IN  /\ j # Idle /\ j.step = "read" /\ j.at < Cutoff(j.stage, j.now)
        /\ job' = [job EXCEPT ![m] =
                     IF found = {} THEN NextChunk(j) ELSE Job(j.stage, j.now, "merge", j.at, found)]
        /\ UNCHANGED <<clock, agentVars, storeVars, readerVars, bounds>>

\* One transaction adds what was read to the rows of the target resolution and
\* deletes whatever the chunk's period now holds.
MergeChunk(m) ==
    LET j == job[m]
        merged == {Row(Compaction[j.stage].to, r.start, r.point) : r \in j.chunk}
    IN  /\ j # Idle /\ j.step = "merge"
        /\ rows' = (rows \ InChunk(j, rows)) \cup merged
        /\ doubled' = doubled \cup {r.point : r \in merged \cap rows}
        /\ raced' = raced \cup Disturbed(Other(m), rows, rows')
        /\ job' = [job EXCEPT ![m] = NextChunk(j)]
        /\ UNCHANGED <<clock, agentVars, readerVars, bounds>>

PastTheLast(j) == Job(j.stage + 1, j.now, "find", 0, {}) \* mutant: off by one at the end
RunAgain(j) == \* mutant: the run starts over without giving up the store
    Job((j.stage % Len(Compaction)) + 1, j.now, "find", 0, {})
Following(j) ==
    IF j.stage = Len(Compaction) THEN Idle ELSE Job(j.stage + 1, j.now, "find", 0, {})

\* Nothing is due, or the chunks have reached the cutoff.
NextStage(m) ==
    LET j == job[m]
    IN  /\ j # Idle
        /\ \/ j.step = "find" /\ Due(j, rows) = {}
           \/ j.step = "read" /\ j.at >= Cutoff(j.stage, j.now)
        /\ job' = [job EXCEPT ![m] = Following(j)]
        /\ UNCHANGED <<clock, agentVars, storeVars, readerVars, bounds>>

\* An error, a locked database or the death of the --maintain process: the
\* transaction under way is rolled back.
MaintenanceFails(m) ==
    /\ job[m] # Idle
    /\ Fault
    /\ job' = [job EXCEPT ![m] = Idle]
    /\ UNCHANGED <<clock, agentVars, storeVars, readerVars, crashes, runs>>

\* The steps a run takes until it ends.
RunMaintenance(m) == FindOldest(m) \/ ReadChunk(m) \/ MergeChunk(m) \/ NextStage(m)

Maintenance(m) == StartMaintenance(m) \/ RunMaintenance(m) \/ MaintenanceFails(m)

Next ==
    \/ Tick
    \/ \E points \in SUBSET {p \in Point \ accepted : EpochOf[p] <= clock} : Ingest(points)
    \/ WriteBuckets \/ WriteFails
    \/ StopAgent \/ Crash \/ StartAgent
    \/ BeginQuery \/ SelectRows \/ AnswerQuery \/ SelectFails
    \/ \E m \in Maintainer : Maintenance(m)

Spec == Init /\ [][Next]_vars

\* Lock holders go on, and a maintenance run ends.
Fairness ==
    /\ WF_vars(WriteBuckets)
    /\ WF_vars(SelectRows)
    /\ WF_vars(AnswerQuery)
    /\ WF_vars(RunMaintenance("agent"))

FairSpec == Spec /\ Fairness

--------------------------------------------------------------------------------
(* Properties. *)

Stored == {r.point : r \in rows}

TypeOK ==
    /\ clock \in 0..MaxClock
    /\ phase \in {"up", "stopping", "down"}
    /\ accepted \subseteq Point /\ lost \subseteq Point
    /\ hot \subseteq Point /\ flushing \subseteq Point
    /\ rows \subseteq [tier : Tier, start : Int, point : Point]
    /\ lock \in {"free", "sampler", "reader"}
    /\ reader \in {"idle", "select", "overlay"}
    /\ query.since \in Int /\ query.width \in {0, Hour, Day}
    /\ \A c \in reply : c.point \in Point
    /\ \A m \in Maintainer :
         /\ job[m].stage \in 0..Len(Compaction) /\ job[m].now \in 0..MaxClock
         /\ job[m].step \in {"find", "read", "merge"} /\ job[m].at \in Int
         /\ job[m].chunk \subseteq [tier : Tier, start : Int, point : Point]
    /\ doubled \subseteq Point /\ raced \subseteq Point
    /\ crashes \in 0..MaxCrashes /\ faults \in 0..MaxFaults /\ runs \in 0..MaxRuns

\* Through flushes, failed writes, overlapping compactions and crashes every
\* accepted point is in exactly one place and counted there once: the hot window,
\* the write under way, one row, or lost with a process that died before it was
\* flushed. Only a point whose row another process changed between a compaction's
\* SELECT and the transaction that merges what it read may be counted twice, or be
\* deleted unmerged; within one process, whose writes wait for MetricStore._lock,
\* none is.
PointsAreConserved ==
    /\ hot \cup flushing \cup lost \cup Stored \subseteq accepted
    /\ hot \cap flushing = {}
    /\ (hot \cup flushing) \cap (lost \cup Stored) = {}
    /\ lost \cap Stored = {}
    /\ accepted \ (hot \cup flushing \cup lost \cup Stored) \subseteq raced
    /\ \A r, s \in rows : r.point = s.point => r = s \/ r.point \in raced
    /\ doubled \subseteq raced

\* Compaction in steps never carries a fact into the row of another period.
RowsKeepThePeriod ==
    \A r \in rows : r.tier # "raw" => r.start = Slot(EpochOf[r.point], r.tier)

\* An answer counts each point of the days it covers that is not lost exactly
\* once, and by the day in its own day, however flushes and compactions fall
\* between its two reads; of the points that two processes changed at once it
\* still tells the day.
AnswersCountOnce ==
    reader = "overlay" =>
        /\ \A c, d \in Overlay : c.point = d.point => c = d \/ c.point \in raced
        /\ {c.point : c \in Overlay} \ raced =
             {p \in accepted \ (lost \cup raced) : EpochOf[p] >= query.since}
        /\ {c.point : c \in Overlay} \cap doubled \subseteq raced
        /\ query.width = Day =>
             \A c \in Overlay : c.start = BucketStart(EpochOf[c.point], Day, DayOffset)

\* An orderly end loses nothing unless its write fails, and what is durable stays:
\* a row goes only into the row of its next resolution, or to a compaction that had
\* read its period before another process wrote it.
OnlyDyingLoses ==
    [][/\ lost' # lost => /\ crashes' > crashes \/ faults' > faults
                          /\ (lost' \ lost) \cap Stored = {}
       /\ Stored \ Stored' \subseteq raced']_vars

\* The sampler's flush, the reader and the maintenance thread wait for each
\* other's two locks, but the reader always gets its answer (or dies waiting).
QueriesEnd == (reader # "idle") ~> (reader = "idle")
================================================================================
