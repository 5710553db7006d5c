----------------------------- MODULE MCUsageSources -----------------------------
(* Two rollouts, one the copy, the fork or the resumption of the other; three requests on *)
(* two models; three DSH logs of two sessions; five telemetry batches.                    *)
EXTENDS UsageSources

MCWeight == [r1 |-> 4, r2 |-> 8, r3 |-> 1, r4 |-> 16, r5 |-> 32]
Meta(s, p, t) == [kind |-> "meta", session |-> s, parent |-> p, turn |-> t, user |-> FALSE, requests |-> {}]
Turn(t) == [kind |-> "turn", turn |-> t, requests |-> {}]
Task(t) == [kind |-> "task", turn |-> t, requests |-> {}]
Tok(t, l, at, rs) == [kind |-> "token", total |-> t, last |-> l, at |-> at, requests |-> rs]
\* Counters that repeat, go stale and start again.
Parent == <<Meta("p", None, 1), Tok(4, 4, 1, {"r1"}), Tok(4, 4, 2, {}), Tok(12, 8, 3, {"r2"}),
            Tok(4, 4, 4, {}), Tok(1, 1, 5, {"r3"})>>
\* A fork replays its parent, then makes a request of its own.
Child == <<Meta("c", "p", 5), Meta("p", None, 1), Tok(4, 4, 6, {}), Turn(3), Tok(12, 8, 6, {}),
           Task(5), Turn(5), Tok(12, 8, 7, {}), Tok(28, 16, 8, {"r4"})>>
Resumed == <<Meta("p", None, 1), Tok(4, 4, 6, {"r1"}), Tok(12, 8, 6, {"r2"}), Tok(44, 32, 9, {"r5"}),
             Tok(44, 32, 10, {}), Turn(9), Turn(10)>>
\* One of the two counters is missing in each record.
Sparse == <<Meta("s", None, 1), Tok(4, 0, 1, {"r1"}), Tok(0, 8, 2, {"r2"}), Tok(12, 0, 3, {}),
            Tok(29, 0, 4, {"r3", "r4"}), Tok(0, 32, 5, {"r5"})>>
MCScripts == {[a |-> Parent, b |-> Child], [a |-> Parent, b |-> Resumed],
              [a |-> Sparse, b |-> <<Meta("o", None, 1), Turn(1), Turn(2), Turn(3)>>]}
MCPauses == [a |-> {4, 9, 12}, b |-> {7, 14, 18}]

MCTokens == [u1 |-> 1, u2 |-> 2, u3 |-> 4]
MCModelOf == [u1 |-> "x", u2 |-> "y", u3 |-> "x"]

Rec(q, k, key, t, c) == [seq |-> q, kind |-> k, key |-> key, tokens |-> t, call |-> c]
Main == <<Rec(0, "chunk", 1, 2, "c1"), Rec(1, "message", 1, 3, "c1"), Rec(2, "end", 1, 0, "none"),
          Rec(4, "chunk", 2, 5, "c2"), Rec(5, "retry", 2, 0, "none"), Rec(6, "message", 2, 7, "c3"),
          Rec(7, "chunk", 3, 11, "c4"), Rec(9, "message", 4, 13, "c5")>>
Fork == <<Rec(0, "chunk", 1, 2, "c1"), Rec(1, "message", 1, 3, "c1"), Rec(2, "end", 1, 0, "none"),
          Rec(3, "message", 2, 17, "c6")>>
MCLogs == [live |-> [session |-> "s", inherited |-> 0, records |-> Main],
           copy |-> [session |-> "s", inherited |-> 0, records |-> Main],
           fork |-> [session |-> "f", inherited |-> 3, records |-> Fork]]
MCCallTokens == [c1 |-> 3, c2 |-> 5, c3 |-> 7, c4 |-> 11, c5 |-> 13, c6 |-> 17]
MCDshPauses == [live |-> {2, 6, 9, 10, 14, 16}, copy |-> {8}, fork |-> {8}]

\* Of the requests of u, r3 and r4 overlap, and the failure of r6 may hide it.
Ev(k, s, m, t, r) == [kind |-> k, session |-> s, model |-> m, epoch |-> t, request |-> r,
                      tokens |-> IF k = "complete" THEN 1 ELSE 0]
MCBatches == {{Ev("start", "s", "g", 1, "r1"), Ev("start", "u", "h", 1, "r3")},
              {Ev("complete", "s", "g", 2, "r1"), Ev("start", "s", "g", 3, "r2")},
              {Ev("complete", "s", "g", 4, "r2"), Ev("failed", "u", "h", 1, "r6")},
              {Ev("start", "u", "h", 3, "r4"), Ev("complete", "u", "h", 4, "r3")},
              {Ev("start", "v", "g", 4, "r5")}}
=================================================================================
