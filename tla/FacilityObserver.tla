---------------------------- MODULE FacilityObserver ----------------------------
(***************************************************************************)
(* The facility observer thread (resources/facilities/): it scans the      *)
(* directory of registrations, asks each provider for a snapshot, reads    *)
(* the registration again and publishes what it confirmed.  Providers      *)
(* rewrite their registrations at any moment, and whatever process listens *)
(* at an endpoint answers as it likes.  The pauses between polls are any;  *)
(* labels, times and error names are left out.                             *)
(***************************************************************************)
EXTENDS Naturals, Sequences, FiniteSets, Functions, SequencesExt, FiniteSetsExt

CONSTANTS
    Facilities,
    Manifests,         \* [generation, offers]: what a provider may register
    Adapters,          \* protocols of DEFAULT_ADAPTERS, in their order
    Contract,          \* of those protocols: [metrics, issues, redactions]
    Replies,           \* [generation, sequence, state, body] of a listener
    MetricCap, IssueCap,               \* metrics and issues that are kept
    MaxRewrites        \* how often providers touch their registrations

ASSUME FacilityAssumption ==
    \A raw \in Replies :
        /\ raw.sequence \in Nat
        /\ raw.state \in {"starting", "healthy", "degraded", "unavailable", "stopping"}

Missing == [generation |-> 0, offers |-> <<>>]       \* absent, unreadable or invalid
Unseen == [sequence |-> 0]
NoReply == [facility |-> "none"]

VARIABLES
    manifest,          \* per facility, its registration file
    records,           \* _records, as published
    candidates,        \* registrations of the refresh under way
    updated,           \* its records so far
    reply,             \* the normalized answer that awaits confirmation
    facilityPc,
    discovery,         \* _discovery_stability
    told,              \* observer: per facility and generation, the highest sequence shown
    forgotten,         \* observer: generations a facility's record lost sight of
    rewrites

facilityVars == <<manifest, records, candidates, updated, reply, facilityPc, discovery, told,
                  forgotten, rewrites>>

FacilityWindow == INSTANCE StatusStabilizer
    WITH Rank <- [starting |-> 0, stopping |-> 0, healthy |-> 0, degraded |-> 1,
                  unavailable |-> 2, unreachable |-> 2],
         WorsenAfter <- 3, RecoverAfter <- 2
DiscoveryWindow == INSTANCE StatusStabilizer
    WITH Rank <- [healthy |-> 0, error |-> 1], WorsenAfter <- 3, RecoverAfter <- 2

----------------------------------------------------------------------------
\* Selection: the first adapter with an offer it can use, and its first such offer.
CompatibleOffers(registration, protocol) ==
    {i \in DOMAIN registration.offers :
        registration.offers[i].protocol = protocol /\ registration.offers[i].usable}

Speakers(registration) == {i \in DOMAIN Adapters : CompatibleOffers(registration, Adapters[i]) # {}}

Select(registration) ==
    registration.offers[Min(CompatibleOffers(registration, Adapters[Min(Speakers(registration))]))]

SameProtocolGeneration(a, b) ==
    a.generation = b.generation /\ Select(a).protocol = Select(b).protocol
SameGeneration(a, b) == a.generation = b.generation     \* mutant: the offer is not compared
SameSelection(a, b) == a.generation = b.generation /\ Select(a) = Select(b)

----------------------------------------------------------------------------
\* _normalize: what is checked and what is kept of a snapshot.
Ids(items) == {items[i].id : i \in DOMAIN items}
Displayed(body, contract) ==
    LET scalars == {i \in DOMAIN body.metrics :
                       body.metrics[i].id \in contract.metrics /\ body.metrics[i].form = "scalar"}
    IN  {i \in scalars : Cardinality({j \in scalars : j < i}) < MetricCap}
Considered(body) == SubSeq(body.issues, 1, Min({Len(body.issues), IssueCap}))

Violates(body, contract) ==
    \/ Cardinality(Ids(body.metrics)) < Len(body.metrics)
    \/ \E i \in DOMAIN body.metrics :
        body.metrics[i].id \in contract.metrics /\ body.metrics[i].form = "invalid"
    \/ Len(body.headline) > 3 \/ ~IsInjective(body.headline)
    \/ \E i \in DOMAIN body.headline : body.headline[i] \notin Ids(body.metrics)
    \/ \E i \in DOMAIN Considered(body) :
        LET issue == Considered(body)[i] IN issue.id \in contract.issues /\ issue.form = "invalid"
    \/ ~(contract.redactions \subseteq body.excluded)

\* _normalize_infer_runtime_usage_daily: a row of an unknown form or origin is left out, a bad
\* or repeated one voids the whole.
UsageRows(rows) ==
    LET formed == {i \in DOMAIN rows : rows[i].form # "unknown"}
        named == {i \in formed : rows[i].origin \in {"codex", "other"}}
    IN  IF \/ \E i \in formed : rows[i].form = "badId"
           \/ \E i \in named : rows[i].form = "badValue"
           \/ \E i, j \in named : i # j /\ rows[i].origin = rows[j].origin /\ rows[i].id = rows[j].id
        THEN <<>> ELSE [i \in named |-> rows[i]]

\* The order of metrics, headline and issues is left out.
Normalize(body, contract) ==
    LET shown == {body.metrics[i].id : i \in Displayed(body, contract)}
    IN  [metrics |-> shown,
         headline |-> ToSet(body.headline) \cap shown,
         issues |-> Ids(Considered(body)) \cap contract.issues,
         usage |-> UsageRows(body.usage)]

----------------------------------------------------------------------------
\* Records: [registration, observation, stability]; the published status is the stability's.
Prior(f, registration) ==
    IF f \in DOMAIN records /\ SameSelection(records[f].registration, registration)
    THEN records[f]
    ELSE [registration |-> registration, observation |-> Unseen,
          stability |-> FacilityWindow!Confirmed("starting")]

\* Until a status is confirmed the last snapshot stays, under the new sequence.
ConfirmedRecord(f, registration, observation) ==
    LET prior == Prior(f, registration)
        first == prior.observation = Unseen
        next == FacilityWindow!Observe(prior.stability, observation.state,
                    first /\ observation.state \in {"healthy", "starting", "stopping"})
    IN  [registration |-> registration, stability |-> next,
         observation |-> IF next.status = observation.state \/ first THEN observation
                         ELSE [prior.observation EXCEPT !.sequence = observation.sequence,
                                                        !.state = next.status]]

\* A transport failure must be confirmed, any other counts at once.
FailedRecord(f, registration, transient) ==
    [Prior(f, registration) EXCEPT
        !.registration = registration,
        !.stability = FacilityWindow!Observe(@, "unreachable", ~transient)]

\* The sequence must have advanced since what was last seen of this generation.
Regressed(f, registration, observation) ==
    /\ f \in DOMAIN records
    /\ SameProtocolGeneration(records[f].registration, registration)
    /\ records[f].observation # Unseen
    /\ observation.sequence <= records[f].observation.sequence

----------------------------------------------------------------------------
Put(f, record) == updated' = [g \in DOMAIN updated \cup {f} |-> IF g = f THEN record ELSE updated[g]]

\* The files are visited by name; visits of different facilities are independent.
ToVisit(f) ==
    /\ facilityPc = "refresh" /\ reply = NoReply
    /\ f \in DOMAIN candidates \ DOMAIN updated

\* A registration that cannot be read, or that offers nothing known, is passed over.
BeginRefresh ==
    /\ facilityPc = "idle"
    /\ candidates' = [f \in {g \in Facilities : Speakers(manifest[g]) # {}} |-> manifest[f]]
    /\ updated' = <<>> /\ facilityPc' = "refresh"
    /\ discovery' = DiscoveryWindow!Observe(discovery, "healthy", FALSE)
    /\ UNCHANGED <<manifest, records, reply, told, forgotten, rewrites>>

\* The directory cannot be read, or is not private: the records stay as they are.
RefreshFails ==
    /\ facilityPc = "idle"
    /\ discovery' = DiscoveryWindow!Observe(discovery, "error", FALSE)
    /\ UNCHANGED <<manifest, records, candidates, updated, reply, facilityPc, told, forgotten, rewrites>>

\* Not due yet.
KeepRecord(f) ==
    /\ ToVisit(f)
    /\ f \in DOMAIN records /\ SameSelection(records[f].registration, candidates[f])
    /\ Put(f, [records[f] EXCEPT !.registration = candidates[f]])
    /\ UNCHANGED <<manifest, records, candidates, reply, facilityPc, discovery, told, forgotten, rewrites>>

\* No connection, a broken one, or the provider's own error.
ExchangeFails(f, transient) ==
    /\ ToVisit(f)
    /\ Put(f, FailedRecord(f, candidates[f], transient))
    /\ UNCHANGED <<manifest, records, candidates, reply, facilityPc, discovery, told, forgotten, rewrites>>

Exchange(f, raw) ==
    LET offer == Select(candidates[f])
        contract == Contract[offer.protocol]
    IN  /\ ToVisit(f)
        /\ IF Violates(raw.body, contract) \/ raw.generation # candidates[f].generation
           THEN /\ Put(f, FailedRecord(f, candidates[f], FALSE))
                /\ UNCHANGED reply
           ELSE /\ reply' = [facility |-> f, generation |-> raw.generation, endpoint |-> offer.endpoint,
                             sequence |-> raw.sequence, state |-> raw.state,
                             content |-> Normalize(raw.body, contract)]
                /\ UNCHANGED updated
        /\ UNCHANGED <<manifest, records, candidates, facilityPc, discovery, told, forgotten, rewrites>>

\* _confirm_current and what follows it.
Confirm ==
    LET f == reply.facility
        asked == candidates[f]
        now == manifest[f]
        current == Speakers(now) # {} /\ SameSelection(now, asked)
    IN  /\ reply # NoReply
        /\ Put(f, IF ~current THEN FailedRecord(f, asked, FALSE)
                  ELSE IF Regressed(f, now, reply) THEN FailedRecord(f, now, FALSE)
                  ELSE ConfirmedRecord(f, now, reply))
        /\ reply' = NoReply
        /\ UNCHANGED <<manifest, records, candidates, facilityPc, discovery, told, forgotten, rewrites>>

\* What the new records no longer know of the old ones.
Lost(f) ==
    LET old == records[f]
    IN  IF /\ f \in DOMAIN updated
           /\ \/ SameSelection(old.registration, updated[f].registration)
              \/ /\ SameProtocolGeneration(old.registration, updated[f].registration)
                 /\ updated[f].observation # Unseen
        THEN {} ELSE {<<f, old.registration.generation>>}

PublishRecords ==
    /\ facilityPc = "refresh" /\ DOMAIN updated = DOMAIN candidates
    /\ records' = updated /\ facilityPc' = "idle" /\ candidates' = <<>> /\ updated' = <<>>
    /\ told' = [f \in Facilities |->
                  IF f \notin DOMAIN updated \/ updated[f].observation = Unseen THEN told[f]
                  ELSE [told[f] EXCEPT ![updated[f].observation.generation] =
                            Max({@, updated[f].observation.sequence})]]
    /\ forgotten' = forgotten \cup UNION {Lost(f) : f \in DOMAIN records}
    /\ UNCHANGED <<manifest, reply, discovery, rewrites>>

\* A provider starts, stops, moves its endpoint, or is caught half-way at that.
RewriteManifest(f, m) ==
    /\ rewrites < MaxRewrites /\ m # manifest[f]
    /\ manifest' = [manifest EXCEPT ![f] = m]
    /\ rewrites' = rewrites + 1
    /\ UNCHANGED <<records, candidates, updated, reply, facilityPc, discovery, told, forgotten>>

Generations == {m.generation : m \in Manifests}

FacilityInit ==
    /\ manifest = [f \in Facilities |-> Missing]
    /\ records = <<>> /\ candidates = <<>> /\ updated = <<>>
    /\ reply = NoReply /\ facilityPc = "idle"
    /\ discovery = DiscoveryWindow!Confirmed("healthy")
    /\ told = [f \in Facilities |-> [g \in Generations |-> 0]]
    /\ forgotten = {} /\ rewrites = 0

FacilityNext ==
    \/ BeginRefresh \/ RefreshFails \/ Confirm \/ PublishRecords
    \/ \E f \in Facilities :
        \/ KeepRecord(f)
        \/ \E transient \in BOOLEAN : ExchangeFails(f, transient)
        \/ \E raw \in Replies : Exchange(f, raw)
        \/ \E m \in Manifests \cup {Missing} : RewriteManifest(f, m)

FacilitySpec == FacilityInit /\ [][FacilityNext]_facilityVars

----------------------------------------------------------------------------
\* The values of the observer's state (observer.py).
FacilityTypeOK ==
    /\ manifest \in [Facilities -> Manifests \cup {Missing}]
    /\ facilityPc \in {"idle", "refresh"} /\ discovery \in DiscoveryWindow!Stabilizer
    /\ DOMAIN updated \subseteq DOMAIN candidates
    /\ \A f \in DOMAIN records :
        /\ records[f].registration \in Manifests
        /\ records[f].stability \in FacilityWindow!Stabilizer

\* A published snapshot was answered at the endpoint and by the generation that its record
\* names, through restarts and moves of the provider while it was asked; its headline is
\* among its metrics, and it holds nothing outside the contract and no usage row twice
\* (observer.py:182, protocols.py:375).
ShownAsAnswered ==
    \A f \in DOMAIN records :
        LET o == records[f].observation
            r == records[f].registration
        IN  o # Unseen =>
                /\ o.generation = r.generation /\ o.endpoint = Select(r).endpoint
                /\ o.content.headline \subseteq o.content.metrics
                /\ o.content.metrics \subseteq Contract[Select(r).protocol].metrics
                /\ \A i, j \in DOMAIN o.content.usage :
                    <<o.content.usage[i].origin, o.content.usage[i].id>>
                        = <<o.content.usage[j].origin, o.content.usage[j].id>> => i = j

\* Within a generation no snapshot is older than one shown before, endpoints changing or
\* not, unless the facility was away or the first poll of a new offer failed (observer.py:320).
SequencesAdvance ==
    \A f \in DOMAIN records :
        LET o == records[f].observation
        IN  o # Unseen /\ <<f, o.generation>> \notin forgotten =>
                o.sequence = told[f][o.generation]

\* What is shown was answered by the one it is shown for, and is no older than what was shown.
FacilitiesAreCurrent == ShownAsAnswered /\ SequencesAdvance
=================================================================================
