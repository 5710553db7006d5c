----------------------------- MODULE CodexTelemetry -----------------------------
(***************************************************************************)
(* The loopback receiver of Codex request events                           *)
(* (resources/ai/codex_telemetry/).  Exported batches arrive late, twice,  *)
(* out of order or never; a request is timed by pairing its send and its   *)
(* completion, which carry no common id, per conversation and model.  The  *)
(* request an event belongs to is known to the model (event.request) and   *)
(* to no line of the code.  Authentication, the size and rate limits of a  *)
(* body (a refused batch is one that never arrives) and the counters of    *)
(* received and dropped events are left out.                               *)
(***************************************************************************)
EXTENDS Naturals, Sequences, FiniteSets, Functions, SequencesExt, FiniteSetsExt

CONSTANTS
    Batches,           \* batches of events a client may export
    EventWindow,       \* oldest event admitted, in ticks (an hour)
    MaxStreams, MaxSeen, MaxModels,   \* MAX_STREAMS, MAX_SEEN, MAX_MODELS
    LastTick, MaxDeliveries, MaxTelemetryRestarts

Events == UNION Batches
Key(e) == <<e.session, e.model>>

\* a is the send of the request that e completes.
IsSendOf(a, e) ==
    a.kind = "start" /\ Key(a) = Key(e) /\ a.request = e.request /\ a.epoch < e.epoch

\* Some request of a's stream ended between a and a time.
EndedBetween(a, epoch, events) ==
    \E c \in events : Key(c) = Key(a) /\ c.kind # "start" /\ a.epoch <= c.epoch /\ c.epoch <= epoch

ASSUME TelemetryAssumption ==
    /\ IsFiniteSet(Events)
    /\ \A e \in Events : e.kind = "complete" => \E a \in Events : IsSendOf(a, e)
    /\ \A e \in Events :
        e.kind \in {"start", "failed", "complete"} /\ e.epoch \in Nat /\ e.tokens \in Nat
    /\ EventWindow \in Nat /\ LastTick \in Nat /\ MaxDeliveries \in Nat
    /\ MaxStreams \in Nat \ {0} /\ MaxSeen \in Nat \ {0} /\ MaxModels \in Nat \ {0}

NoEvent == [kind |-> "none"]

VARIABLES
    clock,
    deliveries,        \* per batch, how often it arrived
    streams,           \* _streams, oldest first: [key, epoch, pending, ambiguous]
    seenEvents,        \* _seen, oldest first
    samples,           \* _samples: per model, the send and the completion it was made of
    origins,           \* _origins
    dirty,             \* _dirty
    samplesFile,       \* codex-telemetry-samples.json
    admitted,          \* observer: events that were ever recorded
    forgotten,         \* observer: a stream was lost: a restart, an eviction, an expiry in use
    telemetryRestarts

telemetryVars == <<clock, deliveries, streams, seenEvents, samples, origins, dirty, samplesFile,
                   admitted, forgotten, telemetryRestarts>>

----------------------------------------------------------------------------
\* parse_logs: events within the window, by time; those of one time stay in the order of
\* their records, which may be any.
Admissible(batch) == {e \in batch : clock <= e.epoch + EventWindow /\ e.epoch <= clock}
ByTime(events) == {q \in SetToSeqs(events) : IsSorted(q, LAMBDA a, b : a.epoch <= b.epoch)}

\* Streams untouched for an hour go first.
Live == FoldLeft(LAMBDA kept, s : IF s.epoch + EventWindow >= clock THEN Append(kept, s) ELSE kept,
                 <<>>, streams)

InUse(s) == s.pending # NoEvent \/ s.ambiguous
Outlived == \E s \in ToSet(streams) : s.epoch + EventWindow < clock /\ InUse(s)

StreamOf(st, key) ==
    LET i == SelectInSeq(st.streams, LAMBDA s : s.key = key)
    IN  IF i = 0 THEN [key |-> key, epoch |-> 0, pending |-> NoEvent, ambiguous |-> FALSE]
        ELSE st.streams[i]

Others(st, key) == RemoveFirstMatch(st.streams, LAMBDA s : s.key = key)

Without(f, m) == [x \in DOMAIN f \ {m} |-> f[x]]
With(f, m, v) == [x \in DOMAIN f \cup {m} |-> IF x = m THEN v ELSE f[x]]

LateIgnored(st, e, s) == st \* mutant: a late event spoils nothing

\* A late event spoils its stream, and the sample that the stream made.
Late(st, e, s) ==
    LET spoiled == [st EXCEPT !.streams = [i \in DOMAIN @ |->
                        IF @[i].key = s.key THEN [@[i] EXCEPT !.pending = NoEvent, !.ambiguous = TRUE]
                        ELSE @[i]]]
    IN  IF e.model \in DOMAIN st.origins /\ st.origins[e.model] = s.key
        THEN [spoiled EXCEPT !.samples = Without(@, e.model), !.origins = Without(@, e.model),
                             !.dirty = TRUE]
        ELSE spoiled

\* The stream moves to the end; beyond MaxStreams the oldest is dropped.
KeepStream(st, s) ==
    LET all == Append(Others(st, s.key), s)
        cut == Len(all) > MaxStreams
    IN  [st EXCEPT !.streams = IF cut THEN Tail(all) ELSE all, !.lost = @ \/ cut]

\* A completion with a send that nothing has come between makes a sample if it is newer.
Complete(st, e, s) ==
    LET newer == e.model \notin DOMAIN st.samples \/ e.epoch > st.samples[e.model].end.epoch
    IN  IF s.pending # NoEvent /\ ~s.ambiguous /\ e.tokens > 0 /\ newer
        THEN [st EXCEPT !.samples = With(@, e.model, [start |-> s.pending, end |-> e]),
                        !.origins = With(@, e.model, s.key), !.dirty = TRUE]
        ELSE st

RecordEvent(st, e) ==
    LET s == StreamOf(st, Key(e))
        all == Append(st.seen, e)
        known == [st EXCEPT !.seen = IF Len(all) > MaxSeen THEN Tail(all) ELSE all]
        after(pending, ambiguous) ==
            [s EXCEPT !.epoch = e.epoch, !.pending = pending, !.ambiguous = ambiguous]
    IN  IF e \in ToSet(st.seen) THEN st
        ELSE IF e.epoch < s.epoch THEN Late(known, e, s)
        ELSE CASE e.kind = "start" ->
                    KeepStream(known, after(e, InUse(s)))
               [] e.kind = "failed" -> KeepStream(known, after(NoEvent, FALSE))
               [] e.kind = "complete" -> KeepStream(Complete(known, e, s), after(NoEvent, FALSE))

EveryModel(made) == {DOMAIN made} \* mutant: samples of every model are kept

\* Beyond MaxModels the models with the oldest samples go, of equally old ones any.
Newest(made) ==
    IF Cardinality(DOMAIN made) <= MaxModels THEN {DOMAIN made}
    ELSE {ms \in kSubset(MaxModels, DOMAIN made) :
            \A x \in ms, y \in DOMAIN made \ ms : made[x].end.epoch >= made[y].end.epoch}

\* What a batch makes of the receiver's state.
Recorded(events) ==
    FoldLeft(RecordEvent,
             [streams |-> Live, seen |-> seenEvents, samples |-> samples, origins |-> origins,
              dirty |-> dirty, lost |-> Outlived], events)

\* record_batch, under the lock.
Receive(b) ==
    /\ deliveries[b] < MaxDeliveries
    /\ \E events \in ByTime(Admissible(b)) :
        LET st == Recorded(events)
        IN  /\ streams' = st.streams /\ seenEvents' = st.seen /\ dirty' = st.dirty
            /\ \E kept \in Newest(st.samples) :
                /\ samples' = Restrict(st.samples, kept)
                /\ origins' = Restrict(st.origins, kept \cap DOMAIN st.origins)
            /\ admitted' = admitted \cup ToSet(events)
            /\ forgotten' = (forgotten \/ st.lost)
    /\ deliveries' = [deliveries EXCEPT ![b] = @ + 1]
    /\ UNCHANGED <<clock, samplesFile, telemetryRestarts>>

\* checkpoint, with every poll of the collector; a failure leaves the samples dirty.
CheckpointSamples ==
    /\ dirty
    /\ samplesFile' = samples /\ dirty' = FALSE
    /\ UNCHANGED <<clock, deliveries, streams, seenEvents, samples, origins, admitted, forgotten,
                   telemetryRestarts>>

\* A new receiver knows the samples of the file and nothing of where they came from.
RestartReceiver ==
    /\ telemetryRestarts < MaxTelemetryRestarts
    /\ samples' = samplesFile /\ origins' = <<>> /\ dirty' = FALSE
    /\ streams' = <<>> /\ seenEvents' = <<>>
    /\ forgotten' = TRUE
    /\ telemetryRestarts' = telemetryRestarts + 1
    /\ UNCHANGED <<clock, deliveries, samplesFile, admitted>>

Tick ==
    /\ clock < LastTick
    /\ clock' = clock + 1
    /\ UNCHANGED <<deliveries, streams, seenEvents, samples, origins, dirty, samplesFile, admitted,
                   forgotten, telemetryRestarts>>

TelemetryInit ==
    /\ clock = 0 /\ deliveries = [b \in Batches |-> 0]
    /\ streams = <<>> /\ seenEvents = <<>> /\ samples = <<>> /\ origins = <<>>
    /\ dirty = FALSE /\ samplesFile = <<>>
    /\ admitted = {} /\ forgotten = FALSE /\ telemetryRestarts = 0

TelemetryNext ==
    \/ \E b \in Batches : Receive(b)
    \/ CheckpointSamples \/ RestartReceiver \/ Tick

TelemetrySpec == TelemetryInit /\ [][TelemetryNext]_telemetryVars

----------------------------------------------------------------------------
TelemetryTypeOK ==
    /\ clock \in 0 .. LastTick /\ deliveries \in [Batches -> 0 .. MaxDeliveries]
    /\ Len(streams) <= MaxStreams /\ Len(seenEvents) <= MaxSeen
    /\ \A i, j \in DOMAIN streams : streams[i].key = streams[j].key => i = j
    /\ Cardinality(DOMAIN samples) <= MaxModels
    /\ DOMAIN origins \subseteq DOMAIN samples
    /\ ToSet(seenEvents) \subseteq admitted /\ admitted \subseteq Events

\* A published sample times one request, its send and its completion, unless a third request
\* of its stream hid that two overlap (its end came between the two sends), an event between
\* the two or the send of the completed request is still missing, or a stream was lost.  When
\* a missing event arrives late the sample is withdrawn (state.py:80).
SamplesTimeOneRequest ==
    \A m \in DOMAIN samples :
        LET s == samples[m]
            missing == {e \in Events \ admitted : Key(e) = Key(s.end)}
        IN  \/ s.start.request = s.end.request \/ forgotten
            \/ \E a \in Events : IsSendOf(a, s.end) /\ EndedBetween(a, s.start.epoch, admitted)
            \/ \E e \in missing : \/ IsSendOf(e, s.end)
                                  \/ s.start.epoch < e.epoch /\ e.epoch < s.end.epoch
================================================================================
