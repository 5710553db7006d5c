------------------------- MODULE MetricPipelineProofs --------------------------
(***************************************************************************)
(* For every set of measured facts, every resolution and retention, and    *)
(* every number of crashes, faults and maintenance runs of two processes:  *)
(* a fact is never lost but with a dying process, never counted twice, and *)
(* never moved out of its period, and an answer counts each fact of its    *)
(* days exactly once, unless a process changed its row between the read    *)
(* and the write of another's compaction; it stays in its period then too. *)
(***************************************************************************)
EXTENDS MetricPipeline, TLAPS

RowType == [tier : Tier, start : Int, point : Point]
JobType == [stage : 1..5, now : 0..MaxClock, step : {"find", "read", "merge"}, at : Int,
            chunk : SUBSET RowType]

\* What the argument needs to know about types.
Types ==
    /\ accepted \subseteq Point /\ lost \subseteq Point
    /\ hot \subseteq Point /\ flushing \subseteq Point
    /\ rows \subseteq RowType
    /\ doubled \subseteq Point /\ raced \subseteq Point
    /\ clock \in 0..MaxClock
    /\ phase \in {"up", "stopping", "down"}
    /\ lock \in {"free", "sampler", "reader"}
    /\ reader \in {"idle", "select", "overlay"}
    /\ job \in [Maintainer -> {Idle} \cup JobType]
    /\ crashes \in 0..MaxCrashes /\ faults \in 0..MaxFaults /\ runs \in 0..MaxRuns

\* Who holds the pipeline's lock, and that a process leaves nothing behind.
LockIsHeld ==
    /\ lock # "sampler" => flushing = {}
    /\ reader # "idle" <=> lock = "reader"
    /\ phase = "stopping" => lock = "sampler" /\ hot = {}
    /\ phase = "down" => lock = "free" /\ hot = {}

\* A raw row stands at its epoch, any other at the start of its period.
StandsInPeriod(r) ==
    r.start = IF r.tier = "raw" THEN EpochOf[r.point] ELSE Slot(EpochOf[r.point], r.tier)
RowsStandInTheirPeriod == \A r \in rows : StandsInPeriod(r)

\* Between its read and its write a compaction holds rows that were stored, and
\* of the points that no other process disturbed it holds what is stored now.
HeldChunk(m) ==
    job[m].step = "merge" =>
        /\ \A r \in job[m].chunk : /\ r.tier = Compaction[job[m].stage].from
                                   /\ StandsInPeriod(r)
                                   /\ r.point \in accepted \ (hot \cup flushing \cup lost)
        /\ \A r \in job[m].chunk \cup InChunk(job[m], rows) :
             r.point \notin raced => r \in job[m].chunk /\ r \in InChunk(job[m], rows)
ChunksAreCurrent == \A m \in Maintainer : HeldChunk(m)

QueryIsOfDays ==
    /\ query.since \in Int /\ query.width \in {0, Hour, Day}
    /\ reader # "idle" => /\ query.width \in {Hour, Day}
                          /\ \E e \in 0..MaxClock : query.since = BucketStart(e, Day, DayOffset)

\* Between its two reads the reader knows each stored fact of its days once.
ReplyIsStored ==
    /\ \A c \in reply : c.point \in Point
    /\ reader # "overlay" => reply = {}
    /\ reader = "overlay" =>
        /\ \A c, d \in reply : c.point = d.point => c = d \/ c.point \in raced
        /\ \A p \in Point \ raced :
             (\E c \in reply : c.point = p) <=> p \in Stored /\ EpochOf[p] >= query.since
        /\ query.width = Day =>
             \A c \in reply : c.start = BucketStart(EpochOf[c.point], Day, DayOffset)

IInv ==
    /\ Types /\ LockIsHeld /\ PointsAreConserved
    /\ RowsStandInTheirPeriod /\ ChunksAreCurrent /\ QueryIsOfDays /\ ReplyIsStored

--------------------------------------------------------------------------------
(* Periods. *)

\* Periods of W seconds from O are unions of buckets of w seconds from o.
Divides(w, o, W, O) == \E c, d \in Int : W = c * w /\ O - o = d * w

\* The integer quotient.
LEMMA DivisionBounds ==
  ASSUME NEW x \in Int, NEW w \in Nat \ {0}
  PROVE  /\ x \div w \in Int
         /\ (x \div w) * w <= x /\ x < (x \div w) * w + w
  OBVIOUS

\* A quotient is determined by its bounds.
LEMMA DivisionUnique ==
  ASSUME NEW x \in Int, NEW w \in Nat \ {0}, NEW k \in Int, k * w <= x, x < k * w + w
  PROVE  x \div w = k
  OBVIOUS

\* A number without remainder is a multiple.
LEMMA Multiple ==
  ASSUME NEW x \in Int, NEW w \in Nat \ {0}, x % w = 0
  PROVE  x \div w \in Int /\ x = (x \div w) * w
  OBVIOUS

\* Multiples of a width that differ, differ by it.
LEMMA MultiplesAreOrdered ==
  ASSUME NEW a \in Int, NEW b \in Int, NEW w \in Nat \ {0}, a * w < b * w + w
  PROVE  a * w <= b * w
  OBVIOUS

\* The laws of products that the lemmas on buckets use.
LEMMA Products ==
  ASSUME NEW a \in Int, NEW b \in Int, NEW c \in Int
  PROVE  (a * b) * c = a * (b * c) /\ (a + b) * c = a * c + b * c
  OBVIOUS

\* A bucket holds its epoch.
LEMMA BucketHolds ==
  ASSUME NEW e \in Int, NEW w \in Nat \ {0}, NEW o \in Int
  PROVE  /\ BucketStart(e, w, o) \in Int
         /\ BucketStart(e, w, o) <= e /\ e < BucketStart(e, w, o) + w
<1> DEFINE a == (e - o) \div w
<1>1. a \in Int /\ a * w <= e - o /\ e - o < a * w + w
  BY DivisionBounds, e - o \in Int
<1>2. BucketStart(e, w, o) = a * w + o
  BY DEF BucketStart
<1> HIDE DEF a
<1>3. a * w \in Int
  BY <1>1
<1>4. QED
  BY <1>1, <1>2, <1>3

\* A coarser period that starts at a multiple of a finer one is the same for an
\* epoch and for the start of the epoch's finer bucket, and starts on the same
\* side of both.
LEMMA CoarserPeriod ==
  ASSUME NEW e \in Int, NEW w \in Nat \ {0}, NEW o \in Int,
         NEW W \in Nat \ {0}, NEW O \in Int, Divides(w, o, W, O)
  PROVE  /\ BucketStart(BucketStart(e, w, o), W, O) = BucketStart(e, W, O)
         /\ \A f \in Int : BucketStart(e, w, o) >= BucketStart(f, W, O) <=> e >= BucketStart(f, W, O)
<1>0. PICK c \in Int, d \in Int : W = c * w /\ O - o = d * w
  BY DEF Divides
<1> DEFINE a == (e - o) \div w
           s == BucketStart(e, w, o)
<1>1. a \in Int /\ a * w \in Int /\ s \in Int /\ s = a * w + o /\ s <= e /\ e < s + w
  BY BucketHolds, DivisionBounds, e - o \in Int DEF BucketStart
<1> HIDE DEF a, s
<1>2. ASSUME NEW k \in Int, k * W + O <= e PROVE k * W + O <= s
  <2>1. k * W = (k * c) * w /\ k * c \in Int /\ (k * c) * w \in Int /\ d * w \in Int
    BY <1>0, Products
  <2>2. (k * c + d) * w = k * W + (O - o) /\ k * c + d \in Int
    BY <1>0, <2>1, Products
  <2>3. (k * c + d) * w < a * w + w
    BY <1>1, <1>2, <2>1, <2>2
  <2>4. (k * c + d) * w <= a * w
    BY <1>1, <2>2, <2>3, MultiplesAreOrdered
  <2>5. QED
    BY <1>1, <2>1, <2>2, <2>4
<1>3. ASSUME NEW f \in Int
      PROVE  /\ (f - O) \div W \in Int /\ ((f - O) \div W) * W \in Int
             /\ BucketStart(f, W, O) = ((f - O) \div W) * W + O
  BY DivisionBounds, f - O \in Int DEF BucketStart
<1>4. ASSUME NEW f \in Int
      PROVE  s >= BucketStart(f, W, O) <=> e >= BucketStart(f, W, O)
  <2> DEFINE k == (f - O) \div W
  <2>1. k \in Int /\ k * W \in Int /\ BucketStart(f, W, O) = k * W + O
    BY <1>3
  <2> HIDE DEF k
  <2>2. k * W + O <= e => k * W + O <= s
    BY <1>2, <2>1
  <2>3. QED
    BY <1>1, <2>1, <2>2
<1>5. BucketStart(s, W, O) = BucketStart(e, W, O)
  <2> DEFINE q == (e - O) \div W
  <2>1. q \in Int /\ q * W <= e - O /\ e - O < q * W + W
    BY ONLY DivisionBounds, e - O \in Int, W \in Nat \ {0}
  <2>1a. q * W \in Int
    BY <2>1
  <2> HIDE DEF q
  <2>2. q * W <= s - O /\ s - O < q * W + W /\ s - O \in Int
    BY <1>1, <1>2, <2>1, <2>1a
  <2>3. (s - O) \div W = q
    BY <2>1, <2>2, DivisionUnique
  <2>4. QED
    BY <2>3 DEF BucketStart, q
<1>6. QED
  BY <1>4, <1>5 DEF s

\* The resolutions of the store divide each other.
LEMMA TiersDivideDays ==
  ASSUME NEW tier \in Tier
  PROVE  /\ Width(tier) \in Nat \ {0} /\ Offset(tier) \in Int
         /\ Divides(Width(tier), Offset(tier), Day, DayOffset)
<1> USE ConstantsAssumption
<1> DEFINE c == Hour \div Hot
           d == Day \div Hour
           o == DayOffset \div Hour
<1>1. /\ c \in Int /\ Hour = c * Hot /\ d \in Int /\ Day = d * Hour
      /\ o \in Int /\ DayOffset = o * Hour
  BY Multiple
<1> HIDE DEF c, d, o
<1>2. /\ d * c \in Int /\ Day = (d * c) * Hot /\ o * c \in Int /\ DayOffset = (o * c) * Hot
  BY <1>1, Products
<1>3. CASE tier = "hour"
  BY <1>1, <1>3 DEF Width, Offset, Divides
<1>4. CASE tier = "day"
  <2>1. Day = 1 * Day /\ DayOffset - DayOffset = 0 * Day
    OBVIOUS
  <2>2. QED
    BY <1>4, <2>1 DEF Width, Offset, Divides
<1>5. CASE tier \notin {"hour", "day"}
  BY <1>2, <1>5 DEF Width, Offset, Divides
<1>6. QED
  BY <1>3, <1>4, <1>5

\* The day of a bucket is the day of its epoch, whatever the bucket's resolution,
\* and a bucket is of days since a midnight exactly if its epoch is.
LEMMA SlotKeepsTheDay ==
  ASSUME NEW e \in Int, NEW tier \in Tier
  PROVE  /\ Slot(e, tier) \in Int
         /\ BucketStart(Slot(e, tier), Day, DayOffset) = BucketStart(e, Day, DayOffset)
         /\ \A f \in Int : Slot(e, tier) >= BucketStart(f, Day, DayOffset)
                               <=> e >= BucketStart(f, Day, DayOffset)
<1>1. /\ Width(tier) \in Nat \ {0} /\ Offset(tier) \in Int /\ Day \in Nat \ {0} /\ DayOffset \in Int
      /\ Divides(Width(tier), Offset(tier), Day, DayOffset)
  BY TiersDivideDays, ConstantsAssumption
<1>2. Slot(e, tier) = BucketStart(e, Width(tier), Offset(tier))
  BY DEF Slot
<1>3. /\ BucketStart(Slot(e, tier), Day, DayOffset) = BucketStart(e, Day, DayOffset)
      /\ \A f \in Int : Slot(e, tier) >= BucketStart(f, Day, DayOffset)
                             <=> e >= BucketStart(f, Day, DayOffset)
  <2> DEFINE w == Width(tier)
             o == Offset(tier)
  <2>1. /\ w \in Nat \ {0} /\ o \in Int /\ Divides(w, o, Day, DayOffset)
        /\ Slot(e, tier) = BucketStart(e, w, o)
    BY <1>1, <1>2
  <2> HIDE DEF w, o
  <2>2. BucketStart(BucketStart(e, w, o), Day, DayOffset) = BucketStart(e, Day, DayOffset)
    BY <1>1, <2>1, CoarserPeriod
  <2>3. \A f \in Int : BucketStart(e, w, o) >= BucketStart(f, Day, DayOffset)
                            <=> e >= BucketStart(f, Day, DayOffset)
    BY <1>1, <2>1, CoarserPeriod
  <2>4. QED
    BY <2>1, <2>2, <2>3
<1>4. Slot(e, tier) \in Int
  BY <1>1, <1>2, BucketHolds
<1>5. QED
  BY <1>3, <1>4

\* Compaction to the next resolution keeps the period of the epoch.
LEMMA SlotKeepsThePeriod ==
  ASSUME NEW e \in Int
  PROVE  /\ Slot(Slot(e, "hot"), "hour") = Slot(e, "hour")
         /\ Slot(Slot(e, "hour"), "day") = Slot(e, "day")
<1> USE ConstantsAssumption
<1>1. Slot(Slot(e, "hour"), "day") = Slot(e, "day")
  BY SlotKeepsTheDay DEF Slot, Width, Offset, Tier
<1>2. Slot(Slot(e, "hot"), "hour") = Slot(e, "hour")
  <2> DEFINE c == Hour \div Hot
  <2>1. c \in Int /\ Hour = c * Hot /\ 0 - 0 = 0 * Hot
    BY Multiple
  <2> HIDE DEF c
  <2>2. Divides(Hot, 0, Hour, 0)
    BY <2>1 DEF Divides
  <2>3. BucketStart(BucketStart(e, Hot, 0), Hour, 0) = BucketStart(e, Hour, 0)
    BY <2>2, CoarserPeriod
  <2>4. QED
    BY <2>3 DEF Slot, Width, Offset
<1>3. QED
  BY <1>1, <1>2

--------------------------------------------------------------------------------
(* Steps. *)

\* A stored fact has a row.
LEMMA StoredHaveRows ==
  /\ \A p : p \in Stored <=> \E r \in rows : r.point = p
  /\ \A p : p \in Stored' <=> \E r \in rows' : r.point = p
  BY DEF Stored

\* The times of the points are whole numbers.
LEMMA EpochsAreNumbers == \A p \in Point : EpochOf[p] \in Int
  BY ConstantsAssumption

\* The chunk of a run is made of rows, one by one.
LEMMA ChunkOfRows ==
  ASSUME NEW j, NEW stored
  PROVE  \A r : r \in InChunk(j, stored) <=> r \in stored /\ r \in InChunk(j, {r})
BY DEF InChunk, Due

\* A commit leaves alone what a compaction holds, but for the points it disturbs.
LEMMA HeldThroughCommit ==
  ASSUME NEW m \in Maintainer, HeldChunk(m), job'[m] = job[m],
         Disturbed(m, rows, rows') \subseteq raced', raced \subseteq raced',
         accepted \subseteq accepted',
         (hot' \cup flushing' \cup lost') \cap accepted \subseteq hot \cup flushing \cup lost
  PROVE  HeldChunk(m)'
<1> DEFINE j == job[m]
<1>1. SUFFICES ASSUME j.step = "merge"
               PROVE  /\ \A r \in j.chunk : /\ r.tier = Compaction[j.stage].from
                                           /\ StandsInPeriod(r)
                                           /\ r.point \in accepted' \ (hot' \cup flushing' \cup lost')
                      /\ \A r \in j.chunk \cup InChunk(j, rows') :
                           r.point \notin raced' => r \in j.chunk /\ r \in InChunk(j, rows')
  BY DEF HeldChunk, StandsInPeriod
<1>2. /\ \A r \in j.chunk : /\ r.tier = Compaction[j.stage].from
                            /\ StandsInPeriod(r)
                            /\ r.point \in accepted \ (hot \cup flushing \cup lost)
      /\ \A r \in j.chunk \cup InChunk(j, rows) :
           r.point \notin raced => r \in j.chunk /\ r \in InChunk(j, rows)
  BY <1>1 DEF HeldChunk
<1>3. \A r \in InChunk(j, (rows \ rows') \cup (rows' \ rows)) : r.point \in raced'
  BY <1>1 DEF Disturbed
<1> HIDE DEF j
<1>4. ASSUME NEW r, r.point \notin raced'
      PROVE  r \in InChunk(j, rows) <=> r \in InChunk(j, rows')
  <2>1. r \in InChunk(j, {r}) => r \notin (rows \ rows') \cup (rows' \ rows)
    BY <1>3, <1>4, ChunkOfRows
  <2>2. QED
    BY <2>1, ChunkOfRows
<1>5. QED
  BY <1>2, <1>4

\* A step that leaves the rows alone leaves what a compaction holds.
LEMMA HeldStays ==
  ASSUME NEW m \in Maintainer, HeldChunk(m), job'[m] = job[m], UNCHANGED <<rows, raced>>,
         accepted \subseteq accepted',
         (hot' \cup flushing' \cup lost') \cap accepted \subseteq hot \cup flushing \cup lost
  PROVE  HeldChunk(m)'
<1>1. Disturbed(m, rows, rows') \subseteq raced'
  <2>1. (rows \ rows') \cup (rows' \ rows) = {}
    OBVIOUS
  <2>2. InChunk(job[m], (rows \ rows') \cup (rows' \ rows)) = {}
    BY <2>1 DEF InChunk, Due
  <2>3. QED
    BY <2>2 DEF Disturbed
<1>2. QED
  BY <1>1, HeldThroughCommit

\* A run that is not between its read and its write holds nothing.
LEMMA HeldNothing == ASSUME NEW m \in Maintainer, job'[m].step # "merge" PROVE HeldChunk(m)'
BY DEF HeldChunk

\* At the start only the imported facts are stored, in raw rows.
LEMMA InitIInv == Init => IInv
<1> SUFFICES ASSUME Init PROVE IInv
  OBVIOUS
<1> USE ConstantsAssumption DEF Init
<1>1. Types
  BY DEF Types, Maintainer, Tier, RowType
<1>2. LockIsHeld /\ RowsStandInTheirPeriod /\ ChunksAreCurrent
  <2>1. \A m \in Maintainer : job[m].step = "find"
    BY DEF Idle, Job
  <2>2. ChunksAreCurrent
    BY <2>1 DEF ChunksAreCurrent, HeldChunk
  <2>3. LockIsHeld /\ RowsStandInTheirPeriod
    BY DEF LockIsHeld, RowsStandInTheirPeriod, StandsInPeriod
  <2>4. QED
    BY <2>2, <2>3
<1>3. PointsAreConserved
  <2>1. Stored = LegacyPoint
    <3>1. \A p \in LegacyPoint : [tier |-> "raw", start |-> EpochOf[p], point |-> p] \in rows
      OBVIOUS
    <3>2. \A r \in rows : r.point \in LegacyPoint
      OBVIOUS
    <3>3. LegacyPoint \subseteq Stored
      <4>1. SUFFICES ASSUME NEW p \in LegacyPoint PROVE \E r \in rows : r.point = p
        BY DEF Stored
      <4>2. [tier |-> "raw", start |-> EpochOf[p], point |-> p].point = p
        OBVIOUS
      <4>3. QED
        BY <3>1, <4>2
    <3>4. QED
      BY <3>2, <3>3 DEF Stored
  <2>2. QED
    BY <2>1 DEF PointsAreConserved
<1>4. QueryIsOfDays /\ ReplyIsStored
  BY DEF QueryIsOfDays, ReplyIsStored, NoQuery
<1>5. QED
  BY <1>1, <1>2, <1>3, <1>4 DEF IInv

\* New facts enter the hot window, and what is complete leaves it.
LEMMA IngestKeeps ==
  ASSUME IInv, NEW points \in SUBSET {p \in Point \ accepted : EpochOf[p] <= clock}, Ingest(points)
  PROVE  IInv'
<1> USE DEF IInv, Ingest, readerVars, storeVars, bounds
<1> DEFINE drained == Completed(hot \cup points, clock)
<1>1. /\ drained \subseteq hot \cup points /\ points \subseteq Point /\ points \cap accepted = {}
      /\ flushing = {} /\ reader = "idle"
  BY DEF Completed, LockIsHeld
<1> HIDE DEF drained
<1>2. /\ accepted' = accepted \cup points /\ flushing' = drained
      /\ hot' = (hot \cup points) \ drained
      /\ lock' = IF drained = {} THEN "free" ELSE "sampler"
      /\ UNCHANGED <<clock, phase, rows, doubled, raced, reader, query, reply, job, lost, crashes,
                     faults, runs>>
  BY DEF drained
<1>3. Types' /\ LockIsHeld'
  BY <1>1, <1>2 DEF Types, LockIsHeld
<1>4. PointsAreConserved'
  BY <1>1, <1>2 DEF PointsAreConserved, Stored
<1>5. RowsStandInTheirPeriod' /\ QueryIsOfDays' /\ ReplyIsStored'
  BY <1>1, <1>2 DEF RowsStandInTheirPeriod, StandsInPeriod, QueryIsOfDays, ReplyIsStored
<1>6. ChunksAreCurrent'
  <2>1. (hot' \cup flushing' \cup lost') \cap accepted \subseteq hot \cup flushing \cup lost
    BY <1>1, <1>2
  <2>2. QED
    BY <1>2, <2>1, HeldStays DEF ChunksAreCurrent
<1>7. QED
  BY <1>3, <1>4, <1>5, <1>6

\* The last flush takes the open buckets too.
LEMMA StopKeeps == ASSUME IInv, StopAgent PROVE IInv'
<1> USE DEF IInv, StopAgent, EveryBucket, readerVars, storeVars, bounds
<1>1. flushing = {} /\ reader = "idle"
  BY DEF LockIsHeld
<1>2. Types' /\ LockIsHeld'
  BY <1>1 DEF Types, LockIsHeld
<1>3. PointsAreConserved'
  BY <1>1 DEF PointsAreConserved, Stored
<1>4. RowsStandInTheirPeriod' /\ QueryIsOfDays' /\ ReplyIsStored'
  BY <1>1 DEF RowsStandInTheirPeriod, StandsInPeriod, QueryIsOfDays, ReplyIsStored
<1>5. ChunksAreCurrent'
  BY <1>1, HeldStays DEF ChunksAreCurrent
<1>6. QED
  BY <1>2, <1>3, <1>4, <1>5

\* A process that ends leaves nothing behind but its losses.
LEMMA EndKeeps ==
  ASSUME Types, NEW remaining, remaining \subseteq Point, EndProcess(remaining)
  PROVE  /\ phase' = "down" /\ hot' = {} /\ flushing' = {} /\ lock' = "free"
         /\ lost' = lost \cup remaining /\ reader' = "idle"
         /\ job' \in [Maintainer -> {Idle} \cup JobType]
         /\ job'["agent"] = Idle /\ job'["offline"] = job["offline"]
         /\ LockIsHeld' /\ QueryIsOfDays' /\ ReplyIsStored'
<1>1. /\ job' \in [Maintainer -> {Idle} \cup JobType]
      /\ job'["agent"] = Idle /\ job'["offline"] = job["offline"]
  BY DEF EndProcess, Types, Maintainer
<1>2. LockIsHeld' /\ QueryIsOfDays' /\ ReplyIsStored'
  BY DEF EndProcess, LockIsHeld, QueryIsOfDays, ReplyIsStored, NoQuery
<1>3. QED
  BY <1>1, <1>2 DEF EndProcess

\* The drained facts become rows.
LEMMA WriteKeeps == ASSUME IInv, WriteBuckets PROVE IInv'
<1> DEFINE new == {Row("hot", EpochOf[p], p) : p \in flushing}
<1>1. /\ Types /\ PointsAreConserved /\ LockIsHeld /\ ChunksAreCurrent /\ reader = "idle"
      /\ rows' = rows \cup new /\ doubled' = doubled \cup {r.point : r \in new \cap rows}
      /\ raced' = raced \cup Disturbed("offline", rows, rows') /\ job["agent"] = Idle
      /\ UNCHANGED <<clock, accepted, crashes, faults, runs>>
  BY DEF IInv, LockIsHeld, WriteBuckets, StoreFree, bounds
<1>2. \A r \in new : r \in RowType /\ r.point \in flushing /\ StandsInPeriod(r)
  <2>1. SUFFICES ASSUME NEW p \in flushing
                 PROVE  LET r == Row("hot", EpochOf[p], p)
                        IN  r \in RowType /\ r.point = p /\ StandsInPeriod(r)
    OBVIOUS
  <2>2. p \in Point /\ EpochOf[p] \in Int /\ Slot(EpochOf[p], "hot") \in Int /\ "hot" \in Tier
    BY <1>1, SlotKeepsTheDay, EpochsAreNumbers DEF Types, Tier
  <2>3. QED
    BY <2>2 DEF Row, RowType, StandsInPeriod
<1>3. \A p \in flushing : \E r \in new : r.point = p
  <2>1. SUFFICES ASSUME NEW p \in flushing PROVE \E r \in new : r.point = p
    OBVIOUS
  <2>2. Row("hot", EpochOf[p], p) \in new /\ Row("hot", EpochOf[p], p).point = p
    BY DEF Row
  <2>3. QED
    BY <2>2
<1>4. \A r, q \in new : r.point = q.point => r = q
  BY DEF Row
<1> HIDE DEF new
<1>5. rows' \subseteq RowType /\ RowsStandInTheirPeriod'
  BY <1>1, <1>2 DEF IInv, Types, RowsStandInTheirPeriod, StandsInPeriod
<1>6. Stored' = Stored \cup flushing
  BY <1>1, <1>2, <1>3 DEF Stored
<1>7. \A r, q \in rows' : r.point = q.point => r = q \/ r.point \in raced'
  BY <1>1, <1>2, <1>4 DEF PointsAreConserved, Stored
<1>8. new \cap rows = {} /\ doubled' = doubled
  BY <1>1, <1>2 DEF PointsAreConserved, Stored
<1>9. raced' \subseteq Point /\ raced \subseteq raced'
  <2>1. Disturbed("offline", rows, rows') \subseteq Point
    BY <1>1, <1>5 DEF Types, RowType, Disturbed, InChunk, Due
  <2>2. QED
    BY <1>1, <2>1 DEF Types
<1>10. ASSUME NEW m \in Maintainer, job' = job \/ (job'["agent"] = Idle /\ job'["offline"] = job["offline"]),
              hot' \cup flushing' \cup lost' \subseteq hot \cup flushing \cup lost
       PROVE  HeldChunk(m)'
  <2>1. CASE m = "agent"
    BY <1>1, <1>10, <2>1, HeldNothing DEF Idle, Job
  <2>2. CASE m = "offline"
    BY <1>1, <1>9, <1>10, <2>2, HeldThroughCommit DEF ChunksAreCurrent
  <2>3. QED
    BY <2>1, <2>2 DEF Maintainer
<1>11. CASE phase = "stopping" /\ EndProcess(hot)
  <2>1. hot = {}
    BY <1>1, <1>11 DEF LockIsHeld
  <2>2. /\ phase' = "down" /\ hot' = {} /\ flushing' = {} /\ lock' = "free" /\ lost' = lost
        /\ job' \in [Maintainer -> {Idle} \cup JobType]
        /\ job'["agent"] = Idle /\ job'["offline"] = job["offline"]
        /\ reader' = "idle" /\ LockIsHeld' /\ QueryIsOfDays' /\ ReplyIsStored'
    BY <1>1, <1>11, <2>1, EndKeeps
  <2>3. Types' /\ PointsAreConserved'
    BY <1>1, <1>5, <1>6, <1>7, <1>8, <1>9, <2>1, <2>2 DEF Types, PointsAreConserved
  <2>4. ChunksAreCurrent'
    BY <1>10, <2>2 DEF ChunksAreCurrent
  <2>5. QED
    BY <1>5, <2>2, <2>3, <2>4 DEF IInv
<1>12. CASE /\ phase = "up" /\ flushing' = {} /\ lock' = "free"
            /\ UNCHANGED <<phase, hot, lost, readerVars, job>>
  <2>1. Types' /\ PointsAreConserved' /\ LockIsHeld'
    BY <1>1, <1>5, <1>6, <1>7, <1>8, <1>9, <1>12 DEF Types, PointsAreConserved, LockIsHeld, readerVars
  <2>2. QueryIsOfDays' /\ ReplyIsStored'
    BY <1>1, <1>12 DEF IInv, QueryIsOfDays, ReplyIsStored, readerVars
  <2>3. ChunksAreCurrent'
    BY <1>10, <1>12 DEF ChunksAreCurrent
  <2>4. QED
    BY <1>5, <2>1, <2>2, <2>3 DEF IInv
<1>13. QED
  BY <1>11, <1>12 DEF WriteBuckets

\* A write that fails, and a crash, leave the rows as they are.
LEMMA FailKeeps == ASSUME IInv, WriteFails \/ Crash PROVE IInv'
<1>1. /\ Types /\ PointsAreConserved /\ LockIsHeld /\ ChunksAreCurrent
      /\ UNCHANGED <<clock, accepted, rows, doubled, raced, runs>>
      /\ Stored' = Stored /\ crashes' \in 0..MaxCrashes /\ faults' \in 0..MaxFaults
      /\ RowsStandInTheirPeriod'
  BY ConstantsAssumption DEF IInv, WriteFails, Crash, Fault, Types, Stored, RowsStandInTheirPeriod,
     StandsInPeriod, storeVars
<1>2. ASSUME NEW m \in Maintainer, job' = job \/ (job'["agent"] = Idle /\ job'["offline"] = job["offline"]),
             hot' \cup flushing' \cup lost' \subseteq hot \cup flushing \cup lost
      PROVE  HeldChunk(m)'
  <2>1. CASE job'[m] = job[m]
    BY <1>1, <1>2, <2>1, HeldStays DEF ChunksAreCurrent
  <2>2. CASE job'[m] = Idle
    BY <2>2, HeldNothing DEF Idle, Job
  <2>3. QED
    BY <1>2, <2>1, <2>2 DEF Maintainer
<1>3. CASE EndProcess(hot \cup flushing)
  <2>1. /\ phase' = "down" /\ hot' = {} /\ flushing' = {} /\ lock' = "free"
        /\ lost' = lost \cup (hot \cup flushing) /\ reader' = "idle"
        /\ job' \in [Maintainer -> {Idle} \cup JobType]
        /\ job'["agent"] = Idle /\ job'["offline"] = job["offline"]
        /\ LockIsHeld' /\ QueryIsOfDays' /\ ReplyIsStored'
    <3>1. hot \cup flushing \subseteq Point
      BY <1>1 DEF Types
    <3>2. QED
      BY <1>1, <1>3, <3>1, EndKeeps
  <2>2. Types' /\ PointsAreConserved'
    BY <1>1, <2>1 DEF Types, PointsAreConserved
  <2>3. ChunksAreCurrent'
    BY <1>2, <2>1 DEF ChunksAreCurrent
  <2>4. QED
    BY <1>1, <2>1, <2>2, <2>3 DEF IInv
<1>4. CASE /\ WriteFails /\ phase = "up" /\ hot' = hot \cup flushing /\ flushing' = {} /\ lock' = "free"
           /\ UNCHANGED <<phase, lost, readerVars, job>>
  <2>1. reader = "idle"
    BY <1>1, <1>4 DEF WriteFails, LockIsHeld
  <2>2. Types' /\ PointsAreConserved' /\ LockIsHeld'
    BY <1>1, <1>4, <2>1 DEF Types, PointsAreConserved, LockIsHeld, readerVars
  <2>3. QueryIsOfDays' /\ ReplyIsStored'
    BY <1>4, <2>1 DEF IInv, QueryIsOfDays, ReplyIsStored, readerVars
  <2>4. ChunksAreCurrent'
    BY <1>2, <1>4 DEF ChunksAreCurrent
  <2>5. QED
    BY <1>1, <2>2, <2>3, <2>4 DEF IInv
<1>5. QED
  BY <1>3, <1>4 DEF WriteFails, Crash, Readd

\* The rows of a chunk are stored ones.
LEMMA ChunkIsStored ==
  ASSUME NEW j, NEW r \in InChunk(j, rows)
  PROVE  r \in rows /\ r \in Due(j, rows) /\ r.tier = Compaction[j.stage].from /\ r.point \in Stored
BY DEF InChunk, Due, Stored

\* Each stage goes to the next coarser resolution.
LEMMA StagesGoUp ==
  ASSUME NEW stage \in 1..5
  PROVE  <<Compaction[stage].from, Compaction[stage].to>>
           \in {<<"raw", "hot">>, <<"hot", "hour">>, <<"hour", "day">>}
<1>1. stage = 1 \/ stage = 2 \/ stage = 3 \/ stage = 4 \/ stage = 5
  OBVIOUS
<1>2. QED
  BY <1>1 DEF Compaction

\* A step of one run leaves what the other holds.
LEMMA OneRunSteps ==
  ASSUME IInv, NEW m \in Maintainer, NEW j \in {Idle} \cup JobType, job' = [job EXCEPT ![m] = j],
         UNCHANGED <<accepted, hot, flushing, lost, rows, raced>>, HeldChunk(m)'
  PROVE  job' \in [Maintainer -> {Idle} \cup JobType] /\ ChunksAreCurrent'
<1>1. job \in [Maintainer -> {Idle} \cup JobType] /\ ChunksAreCurrent
  BY DEF IInv, Types
<1>2. ASSUME NEW n \in Maintainer PROVE HeldChunk(n)'
  <2>1. CASE n # m
    <3>1. job'[n] = job[n]
      BY <1>1, <2>1
    <3>2. QED
      BY <1>1, <3>1, HeldStays DEF ChunksAreCurrent
  <2>2. QED
    BY <2>1
<1>3. QED
  BY <1>1, <1>2 DEF ChunksAreCurrent

\* A run that goes to its next chunk holds nothing.
LEMMA NextChunkIsJob ==
  ASSUME NEW j \in JobType
  PROVE  NextChunk(j) \in JobType /\ NextChunk(j).step = "read"
<1>1. j.stage \in 1..5 /\ j.now \in 0..MaxClock /\ j.at + Day \in Int
  BY ConstantsAssumption DEF JobType
<1>2. QED
  BY <1>1 DEF NextChunk, Job, JobType

\* A run that reads holds what is stored.
LEMMA ReadHolds ==
  ASSUME IInv, NEW m \in Maintainer, ReadChunk(m)
  PROVE  job' \in [Maintainer -> {Idle} \cup JobType] /\ ChunksAreCurrent'
<1> DEFINE j == job[m]
           found == InChunk(j, rows)
           held == Job(j.stage, j.now, "merge", j.at, found)
<1>1. /\ Types /\ PointsAreConserved /\ RowsStandInTheirPeriod /\ j \in JobType
      /\ job \in [Maintainer -> {Idle} \cup JobType]
      /\ UNCHANGED <<accepted, hot, flushing, lost, rows, raced>>
  BY DEF IInv, Types, ReadChunk, agentVars, storeVars
<1>2. \A r \in found : r \in rows /\ r.tier = Compaction[j.stage].from /\ r.point \in Stored
  BY ChunkIsStored
<1>3. found \subseteq RowType
  BY <1>1, <1>2 DEF Types
<1>4. CASE found = {}
  <2>1. job' = [job EXCEPT ![m] = NextChunk(j)]
    BY <1>4 DEF ReadChunk
  <2>2. NextChunk(j) \in JobType /\ NextChunk(j).step = "read"
    BY <1>1, NextChunkIsJob
  <2>3. HeldChunk(m)'
    BY <1>1, <2>1, <2>2, HeldNothing
  <2>4. QED
    BY <1>1, <2>1, <2>2, <2>3, OneRunSteps
<1>5. CASE found # {}
  <2>1. job' = [job EXCEPT ![m] = held]
    BY <1>5 DEF ReadChunk
  <2>2. held \in JobType /\ held.chunk = found /\ held.stage = j.stage
    BY <1>1, <1>3 DEF Job, JobType
  <2>3. InChunk(held, rows) = found
    BY DEF InChunk, Due, Job
  <2> HIDE DEF held, found
  <2>4. \A r \in found : /\ r.tier = Compaction[held.stage].from /\ StandsInPeriod(r)
                         /\ r.point \in accepted \ (hot \cup flushing \cup lost)
    BY <1>1, <1>2, <2>2 DEF RowsStandInTheirPeriod, PointsAreConserved
  <2>5. HeldChunk(m)'
    <3>1. job'[m] = held
      BY <1>1, <2>1
    <3>2. InChunk(job'[m], rows') = found /\ job'[m].chunk = found /\ job'[m].stage = held.stage
      BY <1>1, <2>2, <2>3, <3>1
    <3>3. QED
      BY <1>1, <2>4, <3>2 DEF HeldChunk, StandsInPeriod
  <2>6. QED
    BY <1>1, <2>1, <2>2, <2>5, OneRunSteps
<1>6. QED
  BY <1>4, <1>5

\* A run that begins, looks for its first chunk, goes to its next stage or fails holds nothing.
LEMMA OtherStepsHoldNothing ==
  ASSUME IInv, NEW m \in Maintainer,
         StartMaintenance(m) \/ FindOldest(m) \/ NextStage(m) \/ MaintenanceFails(m)
  PROVE  job' \in [Maintainer -> {Idle} \cup JobType] /\ ChunksAreCurrent'
<1>1. /\ Types /\ job \in [Maintainer -> {Idle} \cup JobType] /\ clock \in 0..MaxClock
      /\ Len(Compaction) = 5 /\ UNCHANGED <<accepted, hot, flushing, lost, rows, raced>>
  BY DEF IInv, Types, Compaction, StartMaintenance, FindOldest, NextStage, MaintenanceFails,
     agentVars, storeVars
<1>2. ASSUME NEW j \in {Idle} \cup JobType, j.step # "merge", job' = [job EXCEPT ![m] = j]
      PROVE  job' \in [Maintainer -> {Idle} \cup JobType] /\ ChunksAreCurrent'
  <2>1. job'[m] = j
    BY <1>1, <1>2
  <2>2. HeldChunk(m)'
    BY <1>2, <2>1, HeldNothing
  <2>3. QED
    BY <1>1, <1>2, <2>2, OneRunSteps
<1>3. CASE StartMaintenance(m)
  <2>1. job' = [job EXCEPT ![m] = Job(1, clock, "find", 0, {})]
    BY <1>3 DEF StartMaintenance
  <2>2. Job(1, clock, "find", 0, {}) \in JobType /\ Job(1, clock, "find", 0, {}).step = "find"
    BY <1>1 DEF Job, JobType
  <2>3. QED
    BY <1>2, <2>1, <2>2
<1>4. CASE FindOldest(m)
  <2> DEFINE j == job[m]
             to == Compaction[j.stage].to
  <2>1. j \in JobType
    BY <1>1, <1>4 DEF FindOldest
  <2>2. PICK first \in Due(j, rows) :
            job' = [job EXCEPT ![m] = Job(j.stage, j.now, "read", Slot(first.start, to), {})]
    BY <1>4 DEF FindOldest
  <2>3. first.start \in Int /\ to \in Tier
    <3>1. first \in RowType
      BY <1>1 DEF Types, Due
    <3>2. j.stage \in 1..5
      BY <2>1 DEF JobType
    <3>3. QED
      BY <3>1, <3>2, StagesGoUp DEF RowType, Tier
  <2>4. Slot(first.start, to) \in Int
    BY <2>3, SlotKeepsTheDay
  <2> HIDE DEF to
  <2>5. /\ Job(j.stage, j.now, "read", Slot(first.start, to), {}) \in JobType
        /\ Job(j.stage, j.now, "read", Slot(first.start, to), {}).step = "read"
    BY <2>1, <2>4 DEF Job, JobType
  <2>6. QED
    BY <1>2, <2>2, <2>5
<1>5. CASE NextStage(m)
  <2>1. job[m] \in JobType /\ job' = [job EXCEPT ![m] = Following(job[m])]
    BY <1>1, <1>5 DEF NextStage
  <2>2. Following(job[m]) \in {Idle} \cup JobType /\ Following(job[m]).step = "find"
    BY <1>1, <2>1 DEF Following, Job, Idle, JobType
  <2>3. QED
    BY <1>2, <2>1, <2>2
<1>6. CASE MaintenanceFails(m)
  <2>1. job' = [job EXCEPT ![m] = Idle] /\ Idle.step = "find"
    BY <1>6 DEF MaintenanceFails, Idle, Job
  <2>2. QED
    BY <1>2, <2>1
<1>7. QED
  BY <1>3, <1>4, <1>5, <1>6

\* Time passes, a process starts, and a maintenance run begins, looks on, reads or fails.
LEMMA QuietKeeps ==
  ASSUME IInv, \/ Tick \/ StartAgent
               \/ \E m \in Maintainer : \/ StartMaintenance(m) \/ FindOldest(m) \/ ReadChunk(m)
                                       \/ NextStage(m) \/ MaintenanceFails(m)
  PROVE  IInv'
<1>1. UNCHANGED <<accepted, hot, flushing, rows, doubled, raced, lock, reader, query, reply, lost, crashes>>
  BY DEF Tick, StartAgent, StartMaintenance, FindOldest, ReadChunk, NextStage, MaintenanceFails, Fault,
     agentVars, storeVars, readerVars, bounds
<1>2. /\ clock' \in 0..MaxClock /\ faults' \in 0..MaxFaults /\ runs' \in 0..MaxRuns
      /\ phase' \in {"up", phase}
  <2>1. /\ clock \in 0..MaxClock /\ faults \in 0..MaxFaults /\ runs \in 0..MaxRuns
        /\ {MaxClock, MaxFaults, MaxRuns} \subseteq Nat
    BY ConstantsAssumption DEF IInv, Types
  <2>2. CASE Tick \/ StartAgent
    BY <2>1, <2>2 DEF Tick, StartAgent, agentVars, bounds
  <2>3. ASSUME NEW m \in Maintainer, StartMaintenance(m) \/ MaintenanceFails(m)
        PROVE  /\ clock' \in 0..MaxClock /\ faults' \in 0..MaxFaults /\ runs' \in 0..MaxRuns
               /\ phase' \in {"up", phase}
    BY <2>1, <2>3 DEF StartMaintenance, MaintenanceFails, Fault, agentVars
  <2>4. ASSUME NEW m \in Maintainer, FindOldest(m) \/ ReadChunk(m) \/ NextStage(m)
        PROVE  /\ clock' \in 0..MaxClock /\ faults' \in 0..MaxFaults /\ runs' \in 0..MaxRuns
               /\ phase' \in {"up", phase}
    BY <2>1, <2>4 DEF FindOldest, ReadChunk, NextStage, agentVars, bounds
  <2>5. QED
    BY <2>2, <2>3, <2>4
<1>3. job' \in [Maintainer -> {Idle} \cup JobType] /\ ChunksAreCurrent'
  <2>1. CASE Tick \/ StartAgent
    <3>1. UNCHANGED job
      BY <2>1 DEF Tick, StartAgent
    <3>2. QED
      BY <1>1, <3>1, HeldStays DEF IInv, Types, ChunksAreCurrent
  <2>2. QED
    BY <2>1, ReadHolds, OtherStepsHoldNothing
<1>4. Types' /\ LockIsHeld'
  BY <1>1, <1>2, <1>3 DEF IInv, Types, LockIsHeld, Tick, StartAgent
<1>5. PointsAreConserved' /\ RowsStandInTheirPeriod' /\ QueryIsOfDays' /\ ReplyIsStored'
  BY <1>1 DEF IInv, PointsAreConserved, Stored, RowsStandInTheirPeriod, StandsInPeriod, QueryIsOfDays,
     ReplyIsStored
<1>6. QED
  BY <1>3, <1>4, <1>5 DEF IInv

\* A row is of the days since a midnight exactly if its fact is, and of its day.
LEMMA RowKeepsTheDay ==
  ASSUME Types, RowsStandInTheirPeriod, NEW r \in rows
  PROVE  /\ r.point \in Point /\ EpochOf[r.point] \in Int /\ r.start \in Int
         /\ BucketStart(r.start, Day, DayOffset) = BucketStart(EpochOf[r.point], Day, DayOffset)
         /\ \A e \in Int : r.start >= BucketStart(e, Day, DayOffset)
                               <=> EpochOf[r.point] >= BucketStart(e, Day, DayOffset)
<1>1. r.point \in Point /\ EpochOf[r.point] \in Int /\ r.start \in Int /\ r.tier \in Tier
  BY EpochsAreNumbers DEF Types, RowType
<1>2. r.start = IF r.tier = "raw" THEN EpochOf[r.point] ELSE Slot(EpochOf[r.point], r.tier)
  BY DEF RowsStandInTheirPeriod, StandsInPeriod
<1>3. QED
  BY <1>1, <1>2, SlotKeepsTheDay

\* The steps of a query but its first read.
LEMMA QueryKeeps == ASSUME IInv, BeginQuery \/ AnswerQuery \/ SelectFails PROVE IInv'
<1> USE DEF IInv
<1>1. CASE BeginQuery
  <2>1. PICK since \in DayStart, width \in {Hour, Day} : query' = [since |-> since, width |-> width]
    BY <1>1 DEF BeginQuery
  <2>2. PICK e \in 0..MaxClock : since = BucketStart(e, Day, DayOffset)
    BY DEF DayStart
  <2>3. since \in Int
    <3>1. e \in Int /\ Day \in Nat \ {0} /\ DayOffset \in Int
      BY ConstantsAssumption
    <3>2. QED
      BY <2>2, <3>1, BucketHolds
  <2>4. /\ lock = "free" /\ reader = "idle" /\ phase = "up" /\ reader' = "select" /\ lock' = "reader"
        /\ UNCHANGED <<clock, phase, accepted, hot, flushing, rows, doubled, raced, reply, job, lost,
                       crashes, faults, runs>>
    BY <1>1 DEF BeginQuery, LockIsFree, storeVars, bounds
  <2>5. Types' /\ LockIsHeld'
    BY <2>4 DEF Types, LockIsHeld
  <2>6. PointsAreConserved' /\ RowsStandInTheirPeriod' /\ ChunksAreCurrent'
    BY <2>4, HeldStays DEF PointsAreConserved, Stored, RowsStandInTheirPeriod, StandsInPeriod,
       ChunksAreCurrent
  <2>7. QueryIsOfDays' /\ ReplyIsStored'
    BY <2>1, <2>2, <2>3, <2>4 DEF QueryIsOfDays, ReplyIsStored
  <2>8. QED
    BY <2>5, <2>6, <2>7
<1>2. CASE AnswerQuery \/ SelectFails
  <2>1. /\ lock = "reader" /\ lock' = "free" /\ reader' = "idle" /\ query' = NoQuery /\ reply' = {}
        /\ UNCHANGED <<clock, phase, accepted, hot, flushing, rows, doubled, raced, job, lost, crashes,
                       runs>>
        /\ faults' \in 0..MaxFaults
    BY <1>2, ConstantsAssumption
       DEF AnswerQuery, SelectFails, EndQuery, Fault, LockIsHeld, Types, storeVars, bounds
  <2>2. Types' /\ LockIsHeld'
    BY <2>1 DEF Types, LockIsHeld
  <2>3. PointsAreConserved' /\ RowsStandInTheirPeriod' /\ ChunksAreCurrent'
    BY <2>1, HeldStays DEF PointsAreConserved, Stored, RowsStandInTheirPeriod, StandsInPeriod,
       ChunksAreCurrent
  <2>4. QueryIsOfDays' /\ ReplyIsStored'
    BY <2>1 DEF QueryIsOfDays, ReplyIsStored, NoQuery
  <2>5. QED
    BY <2>2, <2>3, <2>4
<1>3. QED
  BY <1>1, <1>2

\* The first read counts every stored fact of the query's days once.
LEMMA SelectKeeps == ASSUME IInv, SelectRows PROVE IInv'
<1> DEFINE selected == {x \in rows : x.start >= query.since}
<1>1. /\ Types /\ LockIsHeld /\ PointsAreConserved /\ RowsStandInTheirPeriod /\ QueryIsOfDays
      /\ ChunksAreCurrent /\ reader = "select" /\ reader' = "overlay"
      /\ reply' = {Counted(r.tier, r.start, r.point) : r \in selected}
      /\ UNCHANGED <<clock, phase, accepted, hot, flushing, lock, lost, rows, doubled, raced, query, job,
                     crashes, faults, runs>>
  BY DEF IInv, SelectRows, agentVars, storeVars, bounds
<1>2. PICK e \in Int : query.since = BucketStart(e, Day, DayOffset)
  BY <1>1 DEF QueryIsOfDays
<1>3. \A r \in rows : r.start >= query.since <=> EpochOf[r.point] >= query.since
  BY <1>1, <1>2, RowKeepsTheDay
<1>4. \A r \in selected : /\ Counted(r.tier, r.start, r.point) \in reply'
                          /\ Counted(r.tier, r.start, r.point).point = r.point
  BY <1>1 DEF Counted
<1>5. \A c \in reply' : \E r \in selected : c = Counted(r.tier, r.start, r.point) /\ c.point = r.point
  BY <1>1 DEF Counted
<1> HIDE DEF selected
<1>6. \A c \in reply' : c.point \in Point
  BY <1>1, <1>5 DEF Types, RowType, selected
<1>7. ASSUME NEW c \in reply', NEW d \in reply', c.point = d.point PROVE c = d \/ c.point \in raced
  <2>1. PICK r \in selected : c = Counted(r.tier, r.start, r.point) /\ c.point = r.point
    BY <1>5
  <2>2. PICK q \in selected : d = Counted(q.tier, q.start, q.point) /\ d.point = q.point
    BY <1>5
  <2>3. r = q \/ r.point \in raced
    BY <1>1, <1>7, <2>1, <2>2 DEF PointsAreConserved, selected
  <2>4. QED
    BY <2>1, <2>2, <2>3
<1>8. ASSUME NEW p
      PROVE  (\E c \in reply' : c.point = p) <=> p \in Stored /\ EpochOf[p] >= query.since
  <2>1. ASSUME NEW c \in reply', c.point = p PROVE p \in Stored /\ EpochOf[p] >= query.since
    BY <1>3, <1>5, <2>1 DEF Stored, selected
  <2>2. ASSUME p \in Stored, EpochOf[p] >= query.since PROVE \E c \in reply' : c.point = p
    <3>1. PICK r \in rows : r.point = p
      BY <2>2 DEF Stored
    <3>2. r \in selected
      BY <1>3, <2>2, <3>1 DEF selected
    <3>3. QED
      BY <1>4, <3>1, <3>2
  <2>3. QED
    BY <2>1, <2>2
<1>9. ASSUME query.width = Day, NEW c \in reply'
      PROVE  c.start = BucketStart(EpochOf[c.point], Day, DayOffset)
  <2>1. PICK r \in selected : c = Counted(r.tier, r.start, r.point) /\ c.point = r.point
    BY <1>5
  <2>2. c.start = BucketStart(r.start, Day, DayOffset)
    BY <1>9, <2>1 DEF Counted
  <2>3. QED
    BY <1>1, <2>1, <2>2, RowKeepsTheDay DEF selected
<1>10. Stored' = Stored
  BY <1>1 DEF Stored
<1>11. ReplyIsStored'
  BY <1>1, <1>6, <1>7, <1>8, <1>9, <1>10 DEF ReplyIsStored
<1>12. Types' /\ LockIsHeld' /\ PointsAreConserved'
  BY <1>1, <1>10 DEF Types, LockIsHeld, PointsAreConserved
<1>13. RowsStandInTheirPeriod' /\ QueryIsOfDays' /\ ChunksAreCurrent'
  BY <1>1, HeldStays DEF RowsStandInTheirPeriod, StandsInPeriod, QueryIsOfDays, ChunksAreCurrent
<1>14. QED
  BY <1>11, <1>12, <1>13 DEF IInv

\* The write of a compaction puts coarser rows in the place of those that it read, and
\* of the undisturbed facts it read all.
LEMMA MergeKeeps == ASSUME IInv, NEW m \in Maintainer, MergeChunk(m) PROVE IInv'
<1> DEFINE chunk == job[m].chunk
           old == InChunk(job[m], rows)
           from == Compaction[job[m].stage].from
           to == Compaction[job[m].stage].to
           new == {Row(to, r.start, r.point) : r \in chunk}
<1>1. /\ Types /\ LockIsHeld /\ PointsAreConserved /\ RowsStandInTheirPeriod /\ QueryIsOfDays
      /\ ReplyIsStored /\ ChunksAreCurrent /\ job[m] \in JobType
      /\ UNCHANGED <<clock, phase, accepted, hot, flushing, lock, lost, reader, query, reply,
                     crashes, faults, runs>>
  BY DEF IInv, Types, MergeChunk, agentVars, readerVars, bounds
<1>2. /\ rows' = (rows \ old) \cup new /\ doubled' = doubled \cup {r.point : r \in new \cap rows}
      /\ raced' = raced \cup Disturbed(Other(m), rows, rows')
      /\ job' = [job EXCEPT ![m] = NextChunk(job[m])]
  BY DEF MergeChunk
<1>3. <<from, to>> \in {<<"raw", "hot">>, <<"hot", "hour">>, <<"hour", "day">>}
  BY <1>1, StagesGoUp DEF JobType
<1>4. /\ \A r \in chunk : /\ r \in RowType /\ r.tier = from /\ StandsInPeriod(r)
                          /\ r.point \in accepted \ (hot \cup flushing \cup lost)
      /\ \A r \in chunk \cup old : r.point \notin raced => r \in chunk /\ r \in old
      /\ \A r \in old : r \in rows
  BY <1>1, ChunkIsStored DEF ChunksAreCurrent, HeldChunk, MergeChunk, JobType
<1> HIDE DEF chunk, old, from, to
<1>5. ASSUME NEW r \in chunk
      PROVE  LET n == Row(to, r.start, r.point)
             IN  n \in RowType /\ n.tier = to /\ n.tier # from /\ n.point = r.point /\ StandsInPeriod(n)
  <2>1. /\ r.tier = from /\ r.point \in Point /\ EpochOf[r.point] \in Int
        /\ r.start = IF from = "raw" THEN EpochOf[r.point] ELSE Slot(EpochOf[r.point], from)
    BY <1>4, EpochsAreNumbers DEF RowType, StandsInPeriod
  <2>2. to \in Tier /\ to # "raw" /\ to # from /\ Slot(r.start, to) = Slot(EpochOf[r.point], to)
    BY <1>3, <2>1, SlotKeepsThePeriod DEF Tier
  <2>3. Slot(EpochOf[r.point], to) \in Int
    BY <2>1, <2>2, SlotKeepsTheDay
  <2>4. QED
    BY <2>1, <2>2, <2>3 DEF Row, RowType, StandsInPeriod
<1>6. \A r \in chunk : Row(to, r.start, r.point) \in new
  OBVIOUS
<1>7. \A n \in new : \E r \in chunk : n = Row(to, r.start, r.point)
  OBVIOUS
<1> HIDE DEF new
<1>8. \A n \in new : /\ n \in RowType /\ StandsInPeriod(n) /\ n.tier # from
                     /\ n.point \in accepted \ (hot \cup flushing \cup lost)
  BY <1>4, <1>5, <1>7
<1>9. rows' \subseteq RowType /\ RowsStandInTheirPeriod'
  BY <1>1, <1>2, <1>8 DEF Types, RowsStandInTheirPeriod, StandsInPeriod
<1>10. raced \subseteq raced' /\ raced' \subseteq Point
  <2>1. Disturbed(Other(m), rows, rows') \subseteq Point
    BY <1>1, <1>9 DEF Types, RowType, Disturbed, InChunk, Due
  <2>2. QED
    BY <1>1, <1>2, <2>1 DEF Types
\* Each row of an undisturbed fact comes from one that was stored.
<1>11. ASSUME NEW n \in rows', n.point \notin raced'
       PROVE  \E r \in rows : /\ n.point = r.point
                              /\ r \notin old => n = r
                              /\ r \in old => n = Row(to, r.start, r.point)
  <2>1. CASE n \in rows \ old
    BY <2>1
  <2>2. CASE n \in new
    <3>1. PICK r \in chunk : n = Row(to, r.start, r.point)
      BY <1>7, <2>2
    <3>2. n.point = r.point /\ r \in old /\ r \in rows
      BY <1>4, <1>5, <1>10, <1>11, <3>1
    <3>3. QED
      BY <3>1, <3>2
  <2>3. QED
    BY <1>2, <2>1, <2>2
<1>12. ASSUME NEW p, p \notin raced' PROVE p \in Stored' <=> p \in Stored
  <2>1. ASSUME p \in Stored PROVE p \in Stored'
    <3>1. PICK r \in rows : r.point = p
      BY <2>1, StoredHaveRows
    <3>2. CASE r \in old
      <4>1. r \in chunk
        BY <1>4, <1>10, <1>12, <3>1, <3>2
      <4>2. Row(to, r.start, r.point) \in rows' /\ Row(to, r.start, r.point).point = p
        BY <1>2, <1>5, <1>6, <3>1, <4>1
      <4>3. QED
        BY <4>2, StoredHaveRows
    <3>3. CASE r \notin old
      BY <1>2, <3>1, <3>3, StoredHaveRows
    <3>4. QED
      BY <3>2, <3>3
  <2>2. ASSUME p \in Stored' PROVE p \in Stored
    <3>1. PICK n \in rows' : n.point = p
      BY <2>2, StoredHaveRows
    <3>2. QED
      BY <1>11, <1>12, <3>1, StoredHaveRows
  <2>3. QED
    BY <2>1, <2>2
<1>13. ASSUME NEW n \in rows', NEW k \in rows', n.point = k.point, n.point \notin raced' PROVE n = k
  <2>1. PICK r \in rows : /\ n.point = r.point
                          /\ r \notin old => n = r
                          /\ r \in old => n = Row(to, r.start, r.point)
    BY <1>11, <1>13
  <2>2. PICK q \in rows : /\ k.point = q.point
                          /\ q \notin old => k = q
                          /\ q \in old => k = Row(to, q.start, q.point)
    BY <1>11, <1>13
  <2>3. r.point = q.point /\ r.point \notin raced
    BY <1>10, <1>13, <2>1, <2>2
  <2>4. r = q
    BY ONLY <1>1, <2>3, r \in rows, q \in rows DEF PointsAreConserved
  <2>5. CASE r \in old
    BY <2>1, <2>2, <2>4, <2>5
  <2>6. CASE r \notin old
    BY <2>1, <2>2, <2>4, <2>6
  <2>7. QED
    BY <2>5, <2>6
<1>14. ASSUME NEW n \in new \cap rows PROVE n.point \in raced
  <2>1. PICK r \in chunk : n = Row(to, r.start, r.point)
    BY <1>7
  <2>2. r.point = n.point /\ r.tier = from /\ n.tier # from
    BY <1>4, <1>5, <2>1
  <2>3. CASE r \in rows
    BY <1>1, <2>2, <2>3 DEF PointsAreConserved
  <2>4. CASE r \notin rows
    BY <1>4, <2>2, <2>4
  <2>5. QED
    BY <2>3, <2>4
<1>15. /\ doubled' \subseteq raced'
       /\ Stored' \subseteq accepted \ (hot \cup flushing \cup lost)
  <2>1. doubled' \subseteq raced'
    BY <1>1, <1>2, <1>10, <1>14 DEF PointsAreConserved
  <2>2. ASSUME NEW p \in Stored' PROVE p \in accepted \ (hot \cup flushing \cup lost)
    <3>1. PICK n \in rows' : n.point = p
      BY StoredHaveRows
    <3>2. CASE n \in new
      BY <1>8, <3>1, <3>2
    <3>3. CASE n \in rows
      BY <1>1, <3>1, <3>3, StoredHaveRows DEF PointsAreConserved
    <3>4. QED
      BY <1>2, <3>2, <3>3
  <2>3. QED
    BY <2>1, <2>2
<1>16. PointsAreConserved'
  <2>1. accepted \ (hot \cup flushing \cup lost \cup Stored') \subseteq raced'
    BY <1>1, <1>10, <1>12 DEF PointsAreConserved
  <2>2. QED
    BY <1>1, <1>13, <1>15, <2>1 DEF PointsAreConserved
<1>17. Types' /\ LockIsHeld' /\ QueryIsOfDays'
  <2>1. NextChunk(job[m]) \in JobType
    BY <1>1, NextChunkIsJob
  <2>2. job' \in [Maintainer -> {Idle} \cup JobType]
    BY <1>1, <1>2, <2>1 DEF Types
  <2>3. doubled' \subseteq Point
    BY <1>10, <1>15
  <2>4. QED
    BY <1>1, <1>9, <1>10, <2>2, <2>3 DEF Types, LockIsHeld, QueryIsOfDays
<1>18. ReplyIsStored'
  BY <1>1, <1>10, <1>12 DEF ReplyIsStored
<1>19. ASSUME NEW n \in Maintainer PROVE HeldChunk(n)'
  <2>1. CASE n = m
    <3>1. job'[n] = NextChunk(job[m]) /\ NextChunk(job[m]).step = "read"
      BY <1>1, <1>2, <2>1, NextChunkIsJob DEF Types
    <3>2. QED
      BY <3>1, HeldNothing
  <2>2. CASE n # m
    <3>1. n = Other(m) /\ job'[n] = job[n]
      BY <1>1, <1>2, <2>2 DEF Types, Other, Maintainer
    <3>2. QED
      BY <1>1, <1>2, <1>10, <3>1, HeldThroughCommit DEF ChunksAreCurrent
  <2>3. QED
    BY <2>1, <2>2
<1>20. QED
  BY <1>9, <1>16, <1>17, <1>18, <1>19 DEF IInv, ChunksAreCurrent

--------------------------------------------------------------------------------
\* Every step keeps it: one case per action.
LEMMA NextIInv == IInv /\ [Next]_vars => IInv'
<1> SUFFICES ASSUME IInv, [Next]_vars PROVE IInv'
  OBVIOUS
<1>1. ASSUME NEW points \in SUBSET {p \in Point \ accepted : EpochOf[p] <= clock}, Ingest(points)
      PROVE  IInv'
  BY <1>1, IngestKeeps
<1>2. CASE StopAgent
  BY <1>2, StopKeeps
<1>3. CASE WriteBuckets
  BY <1>3, WriteKeeps
<1>4. CASE WriteFails \/ Crash
  BY <1>4, FailKeeps
<1>5. CASE BeginQuery \/ AnswerQuery \/ SelectFails
  BY <1>5, QueryKeeps
<1>6. CASE SelectRows
  BY <1>6, SelectKeeps
<1>7. ASSUME NEW m \in Maintainer, MergeChunk(m) PROVE IInv'
  BY <1>7, MergeKeeps
<1>8. CASE \/ Tick \/ StartAgent
           \/ \E m \in Maintainer : \/ StartMaintenance(m) \/ FindOldest(m) \/ ReadChunk(m)
                                   \/ NextStage(m) \/ MaintenanceFails(m)
  BY <1>8, QuietKeeps
<1>9. CASE UNCHANGED vars
  BY <1>9, HeldStays DEF vars, IInv, Types, LockIsHeld, PointsAreConserved, Stored,
     RowsStandInTheirPeriod, StandsInPeriod, ChunksAreCurrent, QueryIsOfDays, ReplyIsStored
<1>10. QED
  BY <1>1, <1>2, <1>3, <1>4, <1>5, <1>6, <1>7, <1>8, <1>9 DEF Next, Maintenance, RunMaintenance

\* The inductive invariant holds in every behaviour.
THEOREM PipelineInvariance == Spec => []IInv
<1>1. QED
  BY InitIInv, NextIInv, PTL DEF Spec

\* The types of the pipeline, its rows and its maintenance runs.
THEOREM PipelineTypes == Spec => []TypeOK
<1>1. IInv => TypeOK
  <2> SUFFICES ASSUME IInv PROVE TypeOK
    OBVIOUS
  <2>1. Len(Compaction) = 5
    BY DEF Compaction
  <2>2. ASSUME NEW m \in Maintainer
        PROVE  /\ job[m].stage \in 0..5 /\ job[m].now \in 0..MaxClock
               /\ job[m].step \in {"find", "read", "merge"} /\ job[m].at \in Int
               /\ job[m].chunk \subseteq RowType
    <3>1. job[m] \in {Idle} \cup JobType /\ MaxClock \in Nat
      BY ConstantsAssumption DEF IInv, Types
    <3>2. CASE job[m] = Idle
      BY <3>1, <3>2 DEF Idle, Job
    <3>3. CASE job[m] \in JobType
      BY <3>3 DEF JobType
    <3>4. QED
      BY <3>1, <3>2, <3>3
  <2>3. QED
    BY <2>1, <2>2 DEF IInv, Types, RowType, QueryIsOfDays, ReplyIsStored, TypeOK
<1>2. QED
  BY <1>1, PipelineInvariance, PTL

\* Every accepted fact is in exactly one place and counted there once, through any
\* interleaving of flushes, failed writes, compactions, restarts and crashes, but for those
\* whose row one process changed between the read and the write of the other's compaction.
THEOREM EveryPointIsKept == Spec => []PointsAreConserved
<1>1. IInv => PointsAreConserved
  BY DEF IInv
<1>2. QED
  BY <1>1, PipelineInvariance, PTL

\* Rolling rows up in steps keeps each fact in the hour and the local day it was observed in,
\* for every resolution and every offset that divide each other.
THEOREM PeriodsAreKept == Spec => []RowsKeepThePeriod
<1>1. IInv => RowsKeepThePeriod
  BY DEF IInv, RowsStandInTheirPeriod, StandsInPeriod, RowsKeepThePeriod
<1>2. QED
  BY <1>1, PipelineInvariance, PTL

\* The answer of a query counts each fact of its days once, in its day, although rows are
\* compacted between its two reads; a fact that two processes changed at once at least in its day.
THEOREM AnswersAreExact == Spec => []AnswersCountOnce
<1>1. ASSUME IInv PROVE AnswersCountOnce
  <2> SUFFICES ASSUME reader = "overlay" PROVE AnswersCountOnce
    BY DEF AnswersCountOnce
  <2> DEFINE open == {p \in hot : Slot(EpochOf[p], "hot") >= query.since}
             added == {Counted("memory", Slot(EpochOf[p], "hot"), p) : p \in open}
  <2>1. /\ Types /\ PointsAreConserved /\ ReplyIsStored /\ flushing = {}
        /\ \A p \in hot : p \in Point /\ EpochOf[p] \in Int /\ p \notin Stored /\ p \notin lost
    BY <1>1, EpochsAreNumbers DEF IInv, Types, PointsAreConserved, LockIsHeld
  <2>2. PICK e \in Int : query.since = BucketStart(e, Day, DayOffset)
    BY <1>1 DEF IInv, QueryIsOfDays
  <2>3. \A p \in hot : p \in open <=> EpochOf[p] >= query.since
    <3>1. SUFFICES ASSUME NEW p \in hot PROVE Slot(EpochOf[p], "hot") >= query.since <=> EpochOf[p] >= query.since
      OBVIOUS
    <3>2. EpochOf[p] \in Int /\ "hot" \in Tier
      BY <2>1, <3>1 DEF Tier
    <3>3. Slot(EpochOf[p], "hot") >= BucketStart(e, Day, DayOffset) <=> EpochOf[p] >= BucketStart(e, Day, DayOffset)
      BY <3>2, SlotKeepsTheDay
    <3>4. QED
      BY <2>2, <3>3
  <2>4. \A p \in open : LET c == Counted("memory", Slot(EpochOf[p], "hot"), p)
                        IN  /\ c \in added /\ c.point = p
                            /\ query.width = Day => c.start = BucketStart(EpochOf[p], Day, DayOffset)
    <3>1. SUFFICES ASSUME NEW p \in open
                   PROVE  LET c == Counted("memory", Slot(EpochOf[p], "hot"), p)
                          IN  /\ c \in added /\ c.point = p
                              /\ query.width = Day => c.start = BucketStart(EpochOf[p], Day, DayOffset)
      OBVIOUS
    <3>2. BucketStart(Slot(EpochOf[p], "hot"), Day, DayOffset) = BucketStart(EpochOf[p], Day, DayOffset)
      BY <2>1, SlotKeepsTheDay DEF Tier
    <3>3. QED
      BY <3>2 DEF Counted
  <2>5. \A c \in added : \E p \in open : c = Counted("memory", Slot(EpochOf[p], "hot"), p)
    OBVIOUS
  <2>6. open \subseteq hot /\ Overlay = reply \cup added
    BY DEF Overlay
  <2> HIDE DEF open, added
  <2>7. \A c \in added : c.point \in open /\ c = Counted("memory", Slot(EpochOf[c.point], "hot"), c.point)
    BY <2>4, <2>5
  <2>8. \A c \in reply : c.point \in Stored \/ c.point \in raced
    BY <2>1 DEF ReplyIsStored
  <2>9. \A c, d \in Overlay : c.point = d.point => c = d \/ c.point \in raced
    BY <2>1, <2>6, <2>7, <2>8 DEF ReplyIsStored
  <2>10. ASSUME NEW p \in Point \ raced
         PROVE  (\E c \in Overlay : c.point = p) <=> p \in accepted \ lost /\ EpochOf[p] >= query.since
    <3>1. p \in accepted \ lost <=> p \in hot \/ p \in Stored
      BY <2>1 DEF PointsAreConserved
    <3>2. (\E c \in reply : c.point = p) <=> p \in Stored /\ EpochOf[p] >= query.since
      BY <2>1 DEF ReplyIsStored
    <3>3. (\E c \in added : c.point = p) <=> p \in hot /\ EpochOf[p] >= query.since
      BY <2>3, <2>4, <2>6, <2>7
    <3>4. QED
      BY <2>6, <3>1, <3>2, <3>3
  <2>11. /\ {c.point : c \in Overlay} \ raced = {p \in accepted \ (lost \cup raced) : EpochOf[p] >= query.since}
         /\ {c.point : c \in Overlay} \cap doubled \subseteq raced
    <3>1. \A c \in Overlay : c.point \in Point
      BY <2>1, <2>6, <2>7 DEF ReplyIsStored, Types
    <3>2. accepted \subseteq Point /\ doubled \subseteq raced
      BY <2>1 DEF Types, PointsAreConserved
    <3>3. {c.point : c \in Overlay} \subseteq Point
      BY <3>1
    <3>4. \A p \in Point \ raced : p \in {c.point : c \in Overlay}
                                  <=> p \in {q \in accepted \ (lost \cup raced) : EpochOf[q] >= query.since}
      BY <2>10
    <3>5. {c.point : c \in Overlay} \ raced = {p \in accepted \ (lost \cup raced) : EpochOf[p] >= query.since}
      BY <3>2, <3>3, <3>4
    <3>6. QED
      BY <3>2, <3>5
  <2>12. query.width = Day =>
             \A c \in Overlay : c.start = BucketStart(EpochOf[c.point], Day, DayOffset)
    BY <2>1, <2>4, <2>6, <2>7 DEF ReplyIsStored
  <2>13. QED
    BY <2>9, <2>11, <2>12 DEF AnswersCountOnce
<1>2. QED
  BY <1>1, PipelineInvariance, PTL

\* What is accepted stays so, and of it nothing comes back into memory.
LEMMA StepsKeepTheStored ==
  ASSUME IInv, [Next]_vars
  PROVE  /\ accepted \subseteq accepted'
         /\ (hot' \cup flushing' \cup lost') \cap accepted \subseteq hot \cup flushing \cup lost
<1>1. ASSUME NEW points \in SUBSET {p \in Point \ accepted : EpochOf[p] <= clock}, Ingest(points)
      PROVE  /\ accepted \subseteq accepted'
             /\ (hot' \cup flushing' \cup lost') \cap accepted \subseteq hot \cup flushing \cup lost
  BY <1>1 DEF Ingest, Completed
<1>2. CASE StopAgent \/ WriteBuckets \/ WriteFails \/ Crash
  BY <1>2 DEF StopAgent, EveryBucket, WriteBuckets, WriteFails, Crash, EndProcess, Readd
<1>3. QED
  BY <1>1, <1>2 DEF Next, Maintenance, RunMaintenance, Tick, StartAgent, BeginQuery, SelectRows,
     AnswerQuery, SelectFails, StartMaintenance, FindOldest, ReadChunk, MergeChunk, NextStage,
     MaintenanceFails, agentVars, vars

\* Only a crash, or the failed last write of a process that stops, loses facts, and never
\* stored ones; a stored fact stays stored unless it is one that two processes changed at once.
THEOREM OnlyTheDyingLose == Spec => OnlyDyingLoses
<1>1. ASSUME IInv, [Next]_vars, lost' # lost
      PROVE  /\ crashes' > crashes \/ faults' > faults
             /\ (lost' \ lost) \cap Stored = {}
  <2>1. CASE WriteBuckets
    BY <1>1, <2>1 DEF IInv, LockIsHeld, WriteBuckets, EndProcess
  <2>2. CASE WriteFails \/ Crash
    <3>1. lost' \subseteq lost \cup (hot \cup flushing) /\ (crashes' > crashes \/ faults' > faults)
      BY <1>1, <2>2 DEF IInv, Types, WriteFails, Crash, Fault, EndProcess, Readd
    <3>2. QED
      BY <1>1, <3>1 DEF IInv, PointsAreConserved
  <2>3. QED
    BY <1>1, <2>1, <2>2 DEF Next, Maintenance, RunMaintenance, Tick, Ingest, StopAgent, StartAgent,
       BeginQuery, SelectRows, AnswerQuery, SelectFails, StartMaintenance, FindOldest, ReadChunk,
       MergeChunk, NextStage, MaintenanceFails, agentVars, vars
<1>2. ASSUME IInv, IInv', [Next]_vars PROVE Stored \ Stored' \subseteq raced'
  <2>1. ASSUME NEW p \in Stored, p \notin Stored' PROVE p \in raced'
    <3>1. p \in accepted /\ p \notin hot \cup flushing \cup lost
      BY <1>2 DEF IInv, PointsAreConserved
    <3>2. p \in accepted' /\ p \notin hot' \cup flushing' \cup lost'
      <4>1. /\ accepted \subseteq accepted'
            /\ (hot' \cup flushing' \cup lost') \cap accepted \subseteq hot \cup flushing \cup lost
        BY <1>2, StepsKeepTheStored
      <4>2. QED
        BY <3>1, <4>1
    <3>3. QED
      BY <1>2, <2>1, <3>2 DEF IInv, PointsAreConserved
  <2>2. QED
    BY <2>1
<1>3. QED
  BY <1>1, <1>2, PipelineInvariance, PTL DEF Spec, OnlyDyingLoses
================================================================================
