------------------------------ MODULE UpstreamStatus ------------------------------
(***************************************************************************)
(* Official status pages (resources/upstream/status.py): a thread polls    *)
(* the providers and queues the changes of their levels; the sampling loop *)
(* takes the snapshot, then drains the queue into events.jsonl, then       *)
(* publishes.  A page is an abstract payload; names, times and the HTTP    *)
(* request are left out.                                                   *)
(***************************************************************************)
EXTENDS Naturals, Sequences, FiniteSets, Functions, SequencesExt, FiniteSetsExt

CONSTANTS
    Providers,
    Pages,               \* per provider, the payloads its page may hold
    MaxPolls, MaxUpstreamFaults

ASSUME UpstreamAssumption ==
    /\ IsFiniteSet(Providers) /\ MaxPolls \in Nat /\ MaxUpstreamFaults \in Nat
    /\ \A p \in Providers : \A page \in Pages[p] :
        page.format \in {"statuspage", "flashduty", "failed"}

Trackable == {"healthy", "warning", "critical"}
StatusRank == [healthy |-> 0, warning |-> 1, critical |-> 2]

VARIABLES
    known,               \* _states: the last trackable level of each provider
    transitions,         \* _transitions
    current,             \* _snapshot of each provider, with two facts the code does not keep: whether
                         \* the page was clean, and the number of changes of the level so far
    changes,             \* observer: how often each provider's level has changed
    samplerPc,
    taken,               \* the sampler's copy of the snapshot
    draining,            \* transitions it is writing
    published,           \* the last projection
    toldChange,          \* observer: per provider, number of the change last written
    untold,              \* observer: providers that lost an event
    polls, upstreamFaults

upstreamVars == <<known, transitions, current, changes, samplerPc, taken, draining, published,
                  toldChange, untold, polls, upstreamFaults>>

----------------------------------------------------------------------------
\* What a payload says.
ComponentLevel(status) ==
    CASE status = "operational" -> "healthy"
      [] status \in {"under_maintenance", "degraded_performance", "degraded", "partial_outage"} -> "warning"
      [] status \in {"major_outage", "full_outage"} -> "critical"
      [] OTHER -> "unknown"

ImpactLevel(impact) ==
    CASE impact = "none" -> "healthy" [] impact = "critical" -> "critical" [] OTHER -> "warning"

Worst(levels) ==
    IF levels = {} THEN "healthy"
    ELSE CHOOSE l \in levels : \A k \in levels : StatusRank[k] <= StatusRank[l]

\* decode_flashduty_summary: a component has the status of the last change that names it; a
\* change becomes an incident.
LastStatus(id, changesOfPage) ==
    LET named == SelectSeq(FlattenSeq(changesOfPage), LAMBDA c : c.id = id)
    IN  IF named = <<>> THEN "operational" ELSE Last(named).status

ChangeLevel(affected) ==
    LET level(c) == IF ComponentLevel(c.status) = "unknown" THEN "warning" ELSE ComponentLevel(c.status)
    IN  Worst({level(affected[i]) : i \in DOMAIN affected})

Decode(page) ==
    [components |-> {[id |-> c.id, matches |-> TRUE, status |-> LastStatus(c.id, page.changes)] :
                        c \in {d \in page.components : ~d.hidden}},
     incidents |-> {[affects |-> {page.changes[i][j].id : j \in DOMAIN page.changes[i]},
                     impact |-> IF ChangeLevel(page.changes[i]) = "critical" THEN "critical" ELSE "minor"] :
                        i \in DOMAIN page.changes}]

Summary(page) == IF page.format = "flashduty" THEN Decode(page) ELSE page

\* normalize_summary: components of the API, and incidents that concern them.
Components(summary) == {c \in summary.components : c.matches}
ComponentLevels(summary) == {ComponentLevel(c.status) : c \in Components(summary)}
Concerning(summary) ==
    {i \in summary.incidents :
        IF i.affects # {} THEN i.affects \cap {c.id : c \in Components(summary)} # {}
        ELSE ComponentLevels(summary) # {"healthy"}}

Level(page) ==
    LET summary == Summary(page)
        levels == ComponentLevels(summary) \cup {ImpactLevel(i.impact) : i \in Concerning(summary)}
        tracked == levels \cap Trackable
    IN  IF page.format = "failed" \/ Components(summary) = {} \/ tracked = {} THEN "unknown"
        ELSE IF "unknown" \in ComponentLevels(summary) /\ Worst(tracked) = "healthy" THEN "unknown"
        ELSE Worst(tracked)

----------------------------------------------------------------------------
\* Observer: a page on which nothing that concerns the API is out of order.
NothingWrong(page) ==
    CASE page.format = "failed" -> FALSE
      [] page.format = "statuspage" ->
            /\ \A c \in page.components : c.matches => c.status = "operational"
            /\ \A i \in page.incidents : i.impact # "none" =>
                \A c \in page.components : c.matches => c.id \notin i.affects
      [] page.format = "flashduty" ->
            \A i \in DOMAIN page.changes : \A j \in DOMAIN page.changes[i] :
                [id |-> page.changes[i][j].id, hidden |-> FALSE] \in page.components =>
                    page.changes[i][j].status = "operational"

TransitionType(previous, level) ==
    CASE level = "healthy" -> "recovered"
      [] previous = "critical" /\ level = "warning" -> "deescalated"
      [] OTHER -> "alert"

\* poll_once: the pages are fetched one by one, then recorded under the lock at once.
PollProviders(page) ==
    LET level == [p \in Providers |-> Level(page[p])]
        tracked == {p \in Providers : level[p] \in Trackable}
        changed == {p \in tracked : known[p] \notin {"none", level[p]}}
        order == SetToSeq(changed)
    IN  /\ polls < MaxPolls /\ polls' = polls + 1
        /\ known' = [p \in Providers |-> IF p \in tracked THEN level[p] ELSE known[p]]
        /\ changes' = [p \in Providers |-> changes[p] + IF p \in changed THEN 1 ELSE 0]
        /\ transitions' = transitions \o
              [i \in DOMAIN order |->
                  LET p == order[i] IN [provider |-> p, previous |-> known[p], level |-> level[p],
                                        type |-> TransitionType(known[p], level[p]),
                                        change |-> changes'[p]]]
        /\ current' = [p \in Providers |-> [level |-> level[p], clean |-> NothingWrong(page[p]),
                                          changes |-> changes'[p]]]
        /\ UNCHANGED <<samplerPc, taken, draining, published, toldChange, untold, upstreamFaults>>

TakeSnapshot ==
    /\ samplerPc = "idle"
    /\ taken' = current /\ samplerPc' = "drain"
    /\ UNCHANGED <<known, transitions, current, changes, draining, published, toldChange, untold,
                   polls, upstreamFaults>>

DrainTransitions ==
    /\ samplerPc = "drain"
    /\ draining' = transitions /\ transitions' = <<>>
    /\ samplerPc' = "write"
    /\ UNCHANGED <<known, current, changes, taken, published, toldChange, untold, polls, upstreamFaults>>

WriteTransition ==
    /\ samplerPc = "write" /\ draining # <<>>
    /\ toldChange' = [toldChange EXCEPT ![Head(draining).provider] = Head(draining).change]
    /\ draining' = Tail(draining)
    /\ UNCHANGED <<known, transitions, current, changes, samplerPc, taken, published, untold, polls,
                   upstreamFaults>>

LostBy(events) == {events[i].provider : i \in DOMAIN events}

\* The sample fails: what was drained and not yet written is gone.
WriteTransitionFails ==
    /\ samplerPc = "write" /\ draining # <<>> /\ upstreamFaults < MaxUpstreamFaults
    /\ untold' = untold \cup LostBy(draining)
    /\ draining' = <<>> /\ samplerPc' = "idle"
    /\ upstreamFaults' = upstreamFaults + 1
    /\ UNCHANGED <<known, transitions, current, changes, taken, published, toldChange, polls>>

\* mutant: the projection reads the snapshot after the events
PublishLatest ==
    /\ samplerPc = "write" /\ draining = <<>>
    /\ published' = current /\ samplerPc' = "idle"
    /\ UNCHANGED <<known, transitions, current, changes, taken, draining, toldChange, untold, polls,
                   upstreamFaults>>

PublishUpstream ==
    /\ samplerPc = "write" /\ draining = <<>>
    /\ published' = taken /\ samplerPc' = "idle"
    /\ UNCHANGED <<known, transitions, current, changes, taken, draining, toldChange, untold, polls,
                   upstreamFaults>>

Waiting == [p \in Providers |-> [level |-> "unknown", clean |-> FALSE, changes |-> 0]]

\* A new process has no levels: what changed meanwhile is never told.
RestartUpstream ==
    /\ upstreamFaults < MaxUpstreamFaults
    /\ known' = [p \in Providers |-> "none"] /\ transitions' = <<>> /\ current' = Waiting
    /\ samplerPc' = "idle" /\ draining' = <<>> /\ taken' = Waiting
    /\ untold' = untold \cup LostBy(transitions) \cup LostBy(draining)
    /\ upstreamFaults' = upstreamFaults + 1
    /\ UNCHANGED <<changes, published, toldChange, polls>>

UpstreamInit ==
    /\ known = [p \in Providers |-> "none"] /\ transitions = <<>>
    /\ current = Waiting /\ taken = Waiting /\ published = Waiting
    /\ changes = [p \in Providers |-> 0] /\ toldChange = changes
    /\ samplerPc = "idle" /\ draining = <<>> /\ untold = {}
    /\ polls = 0 /\ upstreamFaults = 0

UpstreamNext ==
    \/ \E page \in {f \in [Providers -> UNION {Pages[p] : p \in Providers}] :
                       \A p \in Providers : f[p] \in Pages[p]} : PollProviders(page)
    \/ TakeSnapshot \/ DrainTransitions \/ WriteTransition \/ WriteTransitionFails
    \/ PublishUpstream \/ RestartUpstream

UpstreamSpec == UpstreamInit /\ [][UpstreamNext]_upstreamVars

----------------------------------------------------------------------------
\* The values of the monitor's state; no change is told before it happened.
UpstreamTypeOK ==
    /\ known \in [Providers -> Trackable \cup {"none"}]
    /\ samplerPc \in {"idle", "drain", "write"}
    /\ \A p \in Providers : toldChange[p] <= changes[p] /\ current[p].level \in Trackable \cup {"unknown"}
    /\ polls \in 0 .. MaxPolls /\ upstreamFaults \in 0 .. MaxUpstreamFaults

\* Whatever is published has been told: every change that a published snapshot rests on is
\* in the event log by then, even when a poll falls between the snapshot and the drain; and
\* a provider shown healthy reported nothing wrong with its API, in its components or in an
\* incident or change under way that names one of them (status.py:471, :493, :263).
ShownLevelsAreTold ==
    \A p \in Providers :
        /\ p \notin untold => toldChange[p] >= published[p].changes
        /\ published[p].level = "healthy" => published[p].clean
====================================================================================
