------------------------------- MODULE XrayStats -------------------------------
(***************************************************************************)
(* The Xray user statistics of one remote server                           *)
(* (resources/network/xray.py): a poll reads cumulative counters, moves    *)
(* the baseline, and adds the differences to the totals of the session,    *)
(* which a command resets together with the local session meter.  A        *)
(* baseline file and a session file are replaced one after the other, and  *)
(* the process may end between any two steps.  An epoch is the number of   *)
(* the reading or reset it was taken at: clocks run forward.  A user is    *)
(* listed from its first byte after a start of the server; its two         *)
(* directions are treated alike and never apart, so one stands for both.   *)
(***************************************************************************)
EXTENDS Naturals, FiniteSets, Functions

CONSTANTS
    XrayUsers,
    MaxBytes,           \* bytes of a user
    MaxEpoch,           \* readings and resets
    MaxXrayFaults       \* ends of the process, failed writes, restarts of the server

ASSUME XrayAssumption == MaxBytes \in Nat /\ MaxEpoch \in Nat /\ MaxXrayFaults \in Nat

Unread == 0             \* an epoch that is None

VARIABLES
    counter,            \* on the server; 0: not listed
    meterStart,         \* start of the session in the file of the session meter
    tracker, trackerFile,             \* [users, epoch]
    session, sessionFile,             \* [start, coverage, totals]
    xrayPc, sample,
    xrayHealth,         \* _status_stability
    xrayShown,          \* public_state: [start, totals]
    epoch,              \* the last one given out
    moved,              \* observer: bytes of each user since the beginning,
    movedAt,            \*           and at each epoch
    disturbed,          \* observer: a difference was lost or the server restarted
    xrayFaults

serverVars == <<counter, moved>>
filesOfXray == <<trackerFile, sessionFile>>
xrayVars == <<counter, meterStart, tracker, trackerFile, session, sessionFile, xrayPc, sample,
              xrayHealth, xrayShown, epoch, moved, movedAt, disturbed, xrayFaults>>

XrayWindow == INSTANCE StatusStabilizer
    WITH Rank <- [waiting |-> 0, baseline |-> 0, ok |-> 0, error |-> 1],
         WorsenAfter <- 2, RecoverAfter <- 2

NoBytes == [u \in XrayUsers |-> 0]
NewTracker == [users |-> <<>>, epoch |-> Unread]
NewSession(start) == [start |-> start, coverage |-> Unread, totals |-> NoBytes]
NoSample == [users |-> NoBytes, since |-> Unread, first |-> FALSE]
PublicState(s) == [start |-> s.start, totals |-> s.totals]

----------------------------------------------------------------------------
\* XrayStatsTracker.apply
Listed == {u \in XrayUsers : counter[u] > 0}
Difference(u) ==
    IF u \in Listed \cap DOMAIN tracker.users /\ counter[u] >= tracker.users[u]
    THEN counter[u] - tracker.users[u] ELSE 0

Apply(now) ==
    /\ sample' = [users |-> [u \in XrayUsers |-> Difference(u)], since |-> tracker.epoch,
                  first |-> tracker.epoch = Unread]
    /\ tracker' = [users |-> [u \in Listed \cup DOMAIN tracker.users |->
                                  IF u \in Listed THEN counter[u] ELSE tracker.users[u]],
                   epoch |-> now]

TakeEpoch ==
    /\ epoch < MaxEpoch /\ epoch' = epoch + 1
    /\ movedAt' = [movedAt EXCEPT ![epoch + 1] = moved]

Disturb == xrayFaults < MaxXrayFaults /\ xrayFaults' = xrayFaults + 1 /\ disturbed' = TRUE

ObserveError ==
    /\ xrayHealth' = XrayWindow!Observe(xrayHealth, "error", FALSE)
    /\ xrayShown' = PublicState(session)

----------------------------------------------------------------------------
\* The server.
MoveBytes(u) ==
    /\ moved[u] < MaxBytes
    /\ moved' = [moved EXCEPT ![u] = @ + 1]
    /\ counter' = [counter EXCEPT ![u] = @ + 1]
    /\ UNCHANGED <<meterStart, tracker, session, filesOfXray, xrayPc, sample, xrayHealth, xrayShown,
                   epoch, movedAt, disturbed, xrayFaults>>

RestartServer ==
    /\ Listed # {} /\ Disturb
    /\ counter' = NoBytes
    /\ UNCHANGED <<moved, meterStart, tracker, session, filesOfXray, xrayPc, sample, xrayHealth,
                   xrayShown, epoch, movedAt>>

----------------------------------------------------------------------------
\* maybe_poll: when a poll is due, or at once after a reset.
ReadCounters ==
    /\ xrayPc \in {"idle", "resetPoll"}
    /\ TakeEpoch /\ Apply(epoch + 1)
    /\ xrayPc' = "saveTracker"
    /\ UNCHANGED <<serverVars, meterStart, session, filesOfXray, xrayHealth, xrayShown, disturbed, xrayFaults>>

ReadingFails ==
    /\ xrayPc \in {"idle", "resetPoll"}
    /\ xrayPc' = "idle"
    /\ ObserveError
    /\ UNCHANGED <<serverVars, meterStart, tracker, session, filesOfXray, sample, epoch, movedAt,
                   disturbed, xrayFaults>>

SaveTracker ==
    /\ xrayPc = "saveTracker"
    /\ trackerFile' = tracker
    /\ xrayPc' = "append"
    /\ UNCHANGED <<serverVars, meterStart, tracker, session, sessionFile, sample, xrayHealth, xrayShown,
                   epoch, movedAt, disturbed, xrayFaults>>

\* _append_sample; what the log holds is nobody's input.
AppendSample ==
    /\ xrayPc = "append"
    /\ xrayPc' = "record"
    /\ UNCHANGED <<serverVars, meterStart, tracker, session, filesOfXray, sample, xrayHealth, xrayShown,
                   epoch, movedAt, disturbed, xrayFaults>>

CountsAlways == session.start # Unread /\ sample.since # Unread     \* mutant: whenever it began

\* _record_session: an interval that began before the session does not count.
Counts == session.start # Unread /\ sample.since # Unread /\ sample.since >= session.start

RecordSession ==
    session' = IF ~Counts THEN session
               ELSE [session EXCEPT
                        !.coverage = IF @ = Unread THEN sample.since ELSE @,
                        !.totals = [u \in XrayUsers |-> @[u] + sample.users[u]]]

FinishPoll ==
    /\ xrayPc = "record"
    /\ RecordSession
    /\ sessionFile' = IF Counts THEN session' ELSE sessionFile
    /\ xrayPc' = "idle" /\ sample' = NoSample
    /\ xrayHealth' = XrayWindow!Observe(xrayHealth, IF sample.first THEN "baseline" ELSE "ok",
                                        xrayHealth.status \in {"waiting", "baseline"})
    /\ xrayShown' = PublicState(session')
    /\ UNCHANGED <<serverVars, meterStart, tracker, trackerFile, epoch, movedAt, disturbed, xrayFaults>>

\* An exception in a step of the poll: totals may have grown in memory, the baseline has moved.
PollFails ==
    /\ xrayPc \in {"saveTracker", "append", "record"}
    /\ xrayPc = "record" => Counts
    /\ Disturb
    /\ IF xrayPc = "record" THEN RecordSession ELSE UNCHANGED session
    /\ xrayPc' = "idle" /\ sample' = NoSample
    /\ xrayHealth' = XrayWindow!Observe(xrayHealth, "error", FALSE)
    /\ xrayShown' = PublicState(session')
    /\ UNCHANGED <<serverVars, meterStart, tracker, filesOfXray, epoch, movedAt>>

----------------------------------------------------------------------------
\* session.reset: the meter saves its new start, then this monitor, which polls at once.
ResetMeter ==
    /\ xrayPc = "idle" /\ TakeEpoch
    /\ meterStart' = epoch + 1
    /\ xrayPc' = "resetSession"
    /\ UNCHANGED <<serverVars, tracker, session, filesOfXray, sample, xrayHealth, xrayShown, disturbed, xrayFaults>>

ResetSession ==
    /\ xrayPc = "resetSession"
    /\ session' = NewSession(meterStart)
    /\ sessionFile' = session'
    /\ xrayPc' = "resetPoll"
    /\ UNCHANGED <<serverVars, meterStart, tracker, trackerFile, sample, xrayHealth, xrayShown, epoch,
                   movedAt, disturbed, xrayFaults>>

\* Its file cannot be saved: the command fails before the poll and before public_state is built.
ResetFails ==
    /\ xrayPc = "resetSession" /\ xrayFaults < MaxXrayFaults
    /\ xrayFaults' = xrayFaults + 1
    /\ session' = NewSession(meterStart)
    /\ xrayPc' = "idle"
    /\ UNCHANGED <<serverVars, meterStart, tracker, filesOfXray, sample, xrayHealth, xrayShown, epoch,
                   movedAt, disturbed>>

\* The end of the process at any step, and the next start with align_session.
RestartXray ==
    LET aligned == meterStart = Unread \/ sessionFile.start = meterStart
    IN  /\ xrayFaults < MaxXrayFaults /\ xrayFaults' = xrayFaults + 1
        /\ tracker' = trackerFile
        /\ session' = IF aligned THEN sessionFile ELSE NewSession(meterStart)
        /\ sessionFile' = session'
        /\ xrayPc' = "idle" /\ sample' = NoSample
        /\ xrayHealth' = XrayWindow!Confirmed("waiting")
        /\ xrayShown' = PublicState(session')
        /\ disturbed' = (disturbed \/ xrayPc \in {"saveTracker", "append", "record"})
        /\ UNCHANGED <<serverVars, meterStart, trackerFile, epoch, movedAt>>

----------------------------------------------------------------------------
XrayInit ==
    /\ counter = NoBytes /\ moved = NoBytes
    /\ meterStart = Unread
    /\ tracker = NewTracker /\ trackerFile = NewTracker
    /\ session = NewSession(Unread) /\ sessionFile = NewSession(Unread)
    /\ xrayPc = "idle" /\ sample = NoSample
    /\ xrayHealth = XrayWindow!Confirmed("waiting")
    /\ xrayShown = PublicState(session)
    /\ epoch = 0 /\ movedAt = [e \in 0 .. MaxEpoch |-> NoBytes]
    /\ disturbed = FALSE /\ xrayFaults = 0

XrayNext ==
    \/ \E u \in XrayUsers : MoveBytes(u)
    \/ RestartServer
    \/ ReadCounters \/ ReadingFails \/ SaveTracker \/ AppendSample \/ FinishPoll \/ PollFails
    \/ ResetMeter \/ ResetSession \/ ResetFails
    \/ RestartXray

XraySpec == XrayInit /\ [][XrayNext]_xrayVars

----------------------------------------------------------------------------
\* The types, and that a file holds only epochs that were given out.
XrayTypeOK ==
    /\ counter \in [XrayUsers -> 0 .. MaxBytes] /\ moved \in [XrayUsers -> 0 .. MaxBytes]
    /\ epoch \in 0 .. MaxEpoch /\ meterStart \in 0 .. epoch
    /\ \A t \in {tracker, trackerFile} :
           t.epoch \in 0 .. epoch /\ DOMAIN t.users \subseteq XrayUsers
    /\ \A s \in {session, sessionFile} :
           s.start \in 0 .. epoch /\ s.coverage \in 0 .. epoch /\ s.totals \in [XrayUsers -> Nat]
    /\ xrayPc \in {"idle", "saveTracker", "append", "record", "resetSession", "resetPoll"}
    /\ xrayHealth \in XrayWindow!Stabilizer

\* The totals of a session hold at most what its users moved since it started; and from the
\* reading its coverage starts at to the last one exactly that, for the users listed then,
\* if no write failed within a poll, no process ended within one and the server went on.
SessionTellsTheTraffic ==
    /\ \A s \in {session, sessionFile} :
           \A u \in XrayUsers : s.totals[u] <= moved[u] - movedAt[s.start][u]
    /\ ~disturbed /\ xrayPc = "idle" /\ session.coverage # Unread =>
           \A u \in XrayUsers : movedAt[session.coverage][u] > 0 =>
               session.totals[u] = movedAt[tracker.epoch][u] - movedAt[session.coverage][u]
    /\ xrayPc = "idle" /\ xrayShown.start = session.start => xrayShown.totals = session.totals
=================================================================================
