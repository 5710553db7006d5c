------------------------------- MODULE MCMonitors -------------------------------
(* Values of the constants of the six observers. *)
EXTENDS Monitors, TLC

\* Facilities: three adapters of which two are known, an offer that cannot be used, and a
\* body whose fields are valid, invalid or of the wrong form, with a usage row twice.
Offer(p, e) == [protocol |-> p, usable |-> TRUE, endpoint |-> e]
Old == [protocol |-> "pcp", usable |-> FALSE, endpoint |-> "e0"]
MCManifests ==
    {[generation |-> 1, offers |-> <<Offer("infer", "e3"), Old, Offer("pcp", "e1")>>],
     [generation |-> 1, offers |-> <<Offer("pcp", "e2"), Offer("pcp", "e1")>>],
     [generation |-> 2, offers |-> <<Offer("future", "e4"), Offer("pcp", "e1")>>]}
MCAdapters == <<"pcp", "infer">>
MCContract ==
    [pcp |-> [metrics |-> {"m", "n", "k"}, issues |-> {"i"}, redactions |-> {"text"}],
     infer |-> [metrics |-> {"m"}, issues |-> {"i"}, redactions |-> {"text"}]]
Met(i, f) == [id |-> i, form |-> f]
UsageRow(o, i, f) == [origin |-> o, id |-> i, form |-> f]
Good ==
    [metrics |-> <<Met("x", "invalid"), Met("m", "scalar"), Met("n", "structured"), Met("k", "scalar")>>,
     headline |-> <<"n", "k", "x">>,
     issues |-> <<Met("j", "invalid"), Met("i", "scalar"), Met("i", "invalid")>>,
     excluded |-> {"text", "paths"},
     usage |-> <<UsageRow("codex", "q", "scalar"), UsageRow("other", "q", "scalar"),
                 UsageRow("new", "q", "badValue"), UsageRow("codex", "q", "unknown")>>]
Twice == [Good EXCEPT !.usage = Append(@, UsageRow("other", "q", "scalar"))]
Answer(g, s, state, body) == [generation |-> g, sequence |-> s, state |-> state, body |-> body]
MCReplies ==
    {Answer(g, s, "healthy", Good) : g \in {1, 2}, s \in {1, 2}}
    \cup {Answer(1, 2, "degraded", Twice), Answer(1, 3, "degraded", Good),
          Answer(1, 3, "healthy", [Good EXCEPT !.excluded = {}])}

\* Alerts: intervals at rest, over a threshold, caught up after a pause, and unavailable.
Measured(a, r, u, d) == [available |-> a, realtime |-> r, up |-> u, down |-> d]
MCIntervals ==
    {Measured(TRUE, TRUE, 0, 0), Measured(TRUE, TRUE, 2, 3), Measured(TRUE, FALSE, 9, 9),
     Measured(FALSE, FALSE, 0, 0)}

\* Status pages of both formats, with components that match or not, incidents of each kind, and
\* a page that cannot be read.
Matching(i, s) == [id |-> i, matches |-> TRUE, status |-> s]
Foreign(i, s) == [id |-> i, matches |-> FALSE, status |-> s]
Page(cs, is) == [format |-> "statuspage", components |-> cs, incidents |-> is]
Incident(ids, impact) == [affects |-> ids, impact |-> impact]
Flash(changed) ==
    [format |-> "flashduty", components |-> {[id |-> 1, hidden |-> FALSE], [id |-> 2, hidden |-> TRUE]},
     changes |-> changed]
MCPages ==
    [a |-> {Page({Matching(1, "operational"), Foreign(2, "major_outage")}, {Incident({2}, "critical")}),
            Page({Matching(1, "operational")}, {Incident({1}, "minor")}),
            Page({Matching(1, "operational"), Matching(3, "strange")}, {Incident({}, "critical")}),
            Page({Matching(1, "operational"), Matching(3, "strange")}, {}),
            [format |-> "failed"]},
     b |-> {Flash(<<>>), Flash(<<<<[id |-> 2, status |-> "full_outage"]>>>>),
            Flash(<<<<[id |-> 1, status |-> "full_outage"]>>, <<[id |-> 1, status |-> "operational"]>>>>)}]

\* Prices: releases with one and two periods, whose files may have the same version and other bytes.
Day(a, b) == [from |-> a, until |-> b, open |-> FALSE]
Since(a) == [from |-> a, until |-> 0, open |-> TRUE]
Catalog(v, t, ps) == [version |-> v, text |-> t, periods |-> ps]
MCBundled == Catalog(1, "a", <<Since(1)>>)
MCReleases ==
    {MCBundled, Catalog(2, "a", <<Since(3), Day(1, 2)>>), Catalog(2, "b", <<Since(1)>>),
     Catalog(3, "b", <<Day(1, 1), Since(2)>>), Catalog(3, "a", <<Day(1, 2), Since(2)>>)}
ASSUME OnePrice == DaysHaveOnePrice

\* System: all well, memory short (confirmed), space low (believed at once).
Signalled(f) == f @@ [s \in {"memory", "space", "thermal", "disk", "smart"} |-> "ok"]
MCHealthReadings == {Signalled(<<>>), Signalled("memory" :> "critical"), Signalled("space" :> "warning")}
MCAppOf == "p" :> 1 @@ "q" :> 2 @@ "s" :> 1
=================================================================================
