----------------------------- MODULE CommandQueue ------------------------------
(***************************************************************************)
(* The file-backed command queue between the desktop processes and the     *)
(* Infra Agent (app/protocol.py), the two Agent threads that serve it      *)
(* (app/agent.py), the submitters (agent_bridge.rs, agent_client.ts,       *)
(* cli/usage_receipts.py) and the supervisor that relaunches the Agent     *)
(* (agent_supervisor.rs).                                                  *)
(*                                                                         *)
(* A command is one file that is renamed request -> processing, answered   *)
(* by a result file and then unlinked.  Everything a thread remembers of   *)
(* it is lost when the Agent dies; the files stay.                         *)
(***************************************************************************)
EXTENDS Naturals, FiniteSets

CONSTANTS
    Command,    \* command ids; their order is the order of the sorted file names
    TypeOf,     \* [Command -> CommandType]
    Event,      \* hashed identities of usage receipts
    Usage,      \* token counts of usage receipts
    EventOf,    \* [Receipt -> Event]
    UsageOf,    \* [Receipt -> Usage]
    NotCounted, \* an identity that is not in the receipt ledger
    MaxCrashes, \* bound: abrupt deaths of the Agent
    MaxFaults   \* bound: I/O errors and other failing steps

ReadOnlyTypes == {"configuration.get", "metrics.query", "diagnostics.query"}
MutatingTypes == {"configuration.update", "pricing.catalog.update",
                  "session.reset", "ai.usage.receipt.record"}
CommandType == ReadOnlyTypes \cup MutatingTypes

NoCommand == 0
Receipt == {c \in Command : TypeOf[c] = "ai.usage.receipt.record"}

ASSUME ConstantsAssumption ==
    /\ Command \subseteq Nat \ {NoCommand}
    /\ TypeOf \in [Command -> CommandType]
    /\ EventOf \in [Receipt -> Event]
    /\ UsageOf \in [Receipt -> Usage]
    /\ NotCounted \notin Usage
    /\ MaxCrashes \in Nat
    /\ MaxFaults \in Nat

\* The sampling loop owns every mutation; a thread of its own serves the reads.
Worker == {"sampler", "reader"}
AcceptsAll(w) == CommandType \* mutant: neither thread filters by type
Accepted(w) == IF w = "reader" THEN ReadOnlyTypes ELSE MutatingTypes

Status == {"ok", "rejected", "error"}
NoStatus == "none"

\* The path of a command as a directory listing sees it.
FileState == {"absent", "request", "processing"}
RequestPath == Command \X {"request"} \* mutant: claims left behind are not listed
Path == Command \X {"request", "processing"}

VARIABLES
    file,      \* [Command -> FileState]
    result,    \* [Command -> Status \cup {NoStatus}]: the result files
    client,    \* [Command -> what its submitter is doing]
    answer,    \* [Command -> the status its submitter read]
    agentUp,   \* the Agent process is alive
    pc,        \* [Worker -> where the thread is]
    listing,   \* [Worker -> paths of its directory snapshot still to visit]
    holds,     \* [Worker -> the claimed command it works on, or NoCommand]
    outcome,   \* [Worker -> the status it is about to report]
    restart,   \* the sampler's local restart_requested
    ledger,    \* [Event -> Usage \cup {NotCounted}]: the receipt table
    settings,  \* the configuration.update whose settings are in config.toml
    running,   \* the settings the live Agent loaded when it started
    \* Observers and bounds.
    applied,   \* [Command -> how many times its handler ran to completion]
    unreadable,\* commands whose file was dropped because a read of it failed
    crashes, faults

fileVars == <<file, result, unreadable>>
clientVars == <<client, answer>>
threadVars == <<pc, listing, holds, outcome, restart>>
durableVars == <<ledger, settings, applied>>
vars == <<file, result, client, answer, agentUp, pc, listing, holds, outcome,
          restart, ledger, settings, running, applied, unreadable, crashes, faults>>

Init ==
    /\ file = [c \in Command |-> "absent"]
    /\ result = [c \in Command |-> NoStatus]
    /\ client = [c \in Command |-> "idle"]
    /\ answer = [c \in Command |-> NoStatus]
    /\ agentUp = TRUE
    /\ pc = [w \in Worker |-> "idle"]
    /\ listing = [w \in Worker |-> {}]
    /\ holds = [w \in Worker |-> NoCommand]
    /\ outcome = [w \in Worker |-> NoStatus]
    /\ restart = FALSE
    /\ ledger = [e \in Event |-> NotCounted]
    /\ settings = NoCommand
    /\ running = NoCommand
    /\ applied = [c \in Command |-> 0]
    /\ unreadable = {}
    /\ crashes = 0
    /\ faults = 0

Fault == faults < MaxFaults /\ faults' = faults + 1

--------------------------------------------------------------------------------
(* Submitters. *)

\* The request appears complete: it is written under a temporary name that no
\* listing matches and renamed.
Submit(c) ==
    /\ client[c] = "idle"
    /\ client' = [client EXCEPT ![c] = "waiting"]
    /\ file' = [file EXCEPT ![c] = "request"]
    /\ UNCHANGED <<result, unreadable, answer, agentUp, threadVars, durableVars,
                   running, crashes, faults>>

\* The poll that finds the result file reads it and removes it.
Receive(c) ==
    /\ client[c] = "waiting"
    /\ result[c] # NoStatus
    /\ client' = [client EXCEPT ![c] = "answered"]
    /\ answer' = [answer EXCEPT ![c] = result[c]]
    /\ result' = [result EXCEPT ![c] = NoStatus]
    /\ UNCHANGED <<file, unreadable, agentUp, threadVars, durableVars, running,
                   crashes, faults>>

\* The deadline passes: the CLI reports "queued", the desktop an error.  The
\* command stays where it is.
GiveUp(c) ==
    /\ client[c] = "waiting"
    /\ result[c] = NoStatus
    /\ client' = [client EXCEPT ![c] = "gaveup"]
    /\ UNCHANGED <<fileVars, answer, agentUp, threadVars, durableVars, running,
                   crashes, faults>>

--------------------------------------------------------------------------------
(* consume_commands: one directory snapshot, visited in file-name order. *)

KeepFile(c) == file \* mutant: the claim stays after its command was answered
RemoveFile(c) == [file EXCEPT ![c] = "absent"]

List(w) ==
    /\ agentUp
    /\ pc[w] = "idle"
    /\ listing' = [listing EXCEPT ![w] =
                     {p \in Path : file[p[1]] = p[2]}]
    /\ pc' = [pc EXCEPT ![w] = "scan"]
    /\ UNCHANGED <<fileVars, clientVars, agentUp, holds, outcome, restart,
                   durableVars, running, crashes, faults>>

\* p is the next path of w's snapshot.
IsNext(w, p) ==
    /\ pc[w] = "scan"
    /\ p \in listing[w]
    /\ \A q \in listing[w] : p[1] <= q[1]

Visited(w, p) == listing' = [listing EXCEPT ![w] = @ \ {p}]

\* A path that is gone by now, or a type the other thread owns, is passed over.
Skip(w, p) ==
    /\ IsNext(w, p)
    /\ file[p[1]] # p[2] \/ TypeOf[p[1]] \notin Accepted(w)
    /\ Visited(w, p)
    /\ UNCHANGED <<fileVars, clientVars, agentUp, pc, holds, outcome, restart,
                   durableVars, running, crashes, faults>>

\* Claim a request, or take up a claim that an earlier Agent left behind.
Claim(w, p) ==
    /\ IsNext(w, p)
    /\ file[p[1]] = p[2]
    /\ TypeOf[p[1]] \in Accepted(w)
    /\ Visited(w, p)
    /\ file' = [file EXCEPT ![p[1]] = "processing"]
    /\ holds' = [holds EXCEPT ![w] = p[1]]
    /\ pc' = [pc EXCEPT ![w] = "apply"]
    /\ UNCHANGED <<result, unreadable, clientVars, agentUp, outcome, restart,
                   durableVars, running, crashes, faults>>

\* The rename of a request fails: it is left for a later listing.
ClaimFails(w, p) ==
    /\ IsNext(w, p)
    /\ p[2] = "request"
    /\ file[p[1]] = p[2]
    /\ TypeOf[p[1]] \in Accepted(w)
    /\ Fault
    /\ Visited(w, p)
    /\ UNCHANGED <<fileVars, clientVars, agentUp, pc, holds, outcome, restart,
                   durableVars, running, crashes>>

\* A file that exists but cannot be read counts as malformed and is unlinked,
\* whichever thread owns its type.
ReadFails(w, p) ==
    /\ IsNext(w, p)
    /\ file[p[1]] = p[2]
    /\ Fault
    /\ Visited(w, p)
    /\ file' = RemoveFile(p[1])
    /\ unreadable' = unreadable \cup {p[1]}
    /\ UNCHANGED <<result, clientVars, agentUp, pc, holds, outcome, restart,
                   durableVars, running, crashes>>

--------------------------------------------------------------------------------
(* The handlers of apply_agent_commands and process_read_only_commands. *)

Applies(w, type) == pc[w] = "apply" /\ TypeOf[holds[w]] = type

\* The handler ran to its end and is about to report s.
Report(w, s) ==
    /\ outcome' = [outcome EXCEPT ![w] = s]
    /\ pc' = [pc EXCEPT ![w] = "reply"]
    /\ applied' = [applied EXCEPT ![holds[w]] = @ + 1]
    /\ UNCHANGED <<fileVars, clientVars, agentUp, listing, holds, restart,
                   running, crashes>>

\* UsageReceiptStore.record: insert once under the event identity; the same
\* body again is a duplicate, another body is refused.
AnyDuplicate(e, u) == "ok" \* mutant: the bodies are not compared
Verdict(e, u) == IF ledger[e] \in {NotCounted, u} THEN "ok" ELSE "rejected"

RecordReceipt(w) ==
    /\ Applies(w, "ai.usage.receipt.record")
    /\ LET e == EventOf[holds[w]]
           u == UsageOf[holds[w]]
       IN  /\ ledger' = [ledger EXCEPT ![e] = IF @ = NotCounted THEN u ELSE @]
           /\ Report(w, Verdict(e, u))
    /\ UNCHANGED <<settings, faults>>

\* The ledger transaction fails and is rolled back.
RecordReceiptFails(w) ==
    /\ Applies(w, "ai.usage.receipt.record")
    /\ Fault
    /\ Report(w, "error")
    /\ UNCHANGED <<ledger, settings>>

\* Valid settings replace config.toml; invalid ones leave it alone.
UpdateConfiguration(w) ==
    /\ Applies(w, "configuration.update")
    /\ \/ settings' = holds[w] /\ Report(w, "ok")
       \/ UNCHANGED settings /\ Report(w, "rejected")
    /\ UNCHANGED <<ledger, faults>>

\* The other handlers change nothing this module keeps.
RepliesOf(type) ==
    IF type \in {"metrics.query", "diagnostics.query"}
    THEN {"ok", "rejected"} ELSE {"ok", "error"}

ServeOther(w) ==
    /\ pc[w] = "apply"
    /\ TypeOf[holds[w]] \notin {"ai.usage.receipt.record", "configuration.update"}
    /\ \E s \in RepliesOf(TypeOf[holds[w]]) : Report(w, s)
    /\ UNCHANGED <<ledger, settings, faults>>

\* An exception leaves the loop over the commands.  The sampler's is caught in
\* main, which samples again; the reader's ends its thread.
Escape(w) ==
    /\ pc' = [pc EXCEPT ![w] = IF w = "reader" THEN "dead" ELSE "idle"]
    /\ listing' = [listing EXCEPT ![w] = {}]
    /\ holds' = [holds EXCEPT ![w] = NoCommand]
    /\ outcome' = [outcome EXCEPT ![w] = NoStatus]
    /\ restart' = (restart /\ w = "reader")
    /\ UNCHANGED <<clientVars, agentUp, running, crashes>>

\* The read-only handlers catch ValueError and TypeError only, so an SQLite
\* error escapes; so does an error while the price catalog saves its state.
HandlerRaises(w) ==
    /\ pc[w] = "apply"
    /\ TypeOf[holds[w]] \in {"metrics.query", "pricing.catalog.update"}
    /\ Fault
    /\ Escape(w)
    /\ UNCHANGED <<fileVars, durableVars>>

--------------------------------------------------------------------------------
(* complete_command: publish the result file, then unlink the claim. *)

WriteResult(w) ==
    /\ pc[w] = "reply"
    /\ result' = [result EXCEPT ![holds[w]] = outcome[w]]
    /\ pc' = [pc EXCEPT ![w] = "unlink"]
    /\ UNCHANGED <<file, unreadable, clientVars, agentUp, listing, holds, outcome,
                   restart, durableVars, running, crashes, faults>>

\* A configuration that was written asks for a restart once it is completed.
Unlink(w) ==
    /\ pc[w] = "unlink"
    /\ file' = RemoveFile(holds[w])
    /\ restart' = (restart \/ ( /\ TypeOf[holds[w]] = "configuration.update"
                                /\ outcome[w] = "ok"))
    /\ holds' = [holds EXCEPT ![w] = NoCommand]
    /\ outcome' = [outcome EXCEPT ![w] = NoStatus]
    /\ pc' = [pc EXCEPT ![w] = "scan"]
    /\ UNCHANGED <<result, unreadable, clientVars, agentUp, listing, durableVars,
                   running, crashes, faults>>

\* Completing "ok" happens inside the handler's try: an I/O error there is
\* reported by completing once more, with the status of the except clause.
UnknownStatus(type) == "failed" \* mutant: a status no submitter knows
Fallback(type) ==
    CASE type = "configuration.update" -> "rejected"
      [] type \in {"ai.usage.receipt.record", "configuration.get"} -> "error"
      [] OTHER -> NoStatus

CompleteFails(w) ==
    /\ pc[w] \in {"reply", "unlink"}
    /\ Fault
    /\ LET status == Fallback(TypeOf[holds[w]])
       IN  IF outcome[w] = "ok" /\ status # NoStatus
           THEN /\ outcome' = [outcome EXCEPT ![w] = status]
                /\ pc' = [pc EXCEPT ![w] = "reply"]
                /\ UNCHANGED <<clientVars, agentUp, listing, holds, restart,
                               running, crashes>>
           ELSE Escape(w)
    /\ UNCHANGED <<fileVars, durableVars>>

--------------------------------------------------------------------------------
(* The loops around the queue, and the process. *)

\* The sampler goes on with the rest of handle_sample, the reader waits.
EndListing(w) ==
    /\ pc[w] = "scan"
    /\ listing[w] = {}
    /\ pc' = [pc EXCEPT ![w] = IF w = "reader" THEN "idle" ELSE "rest"]
    /\ UNCHANGED <<fileVars, clientVars, agentUp, listing, holds, outcome, restart,
                   durableVars, running, crashes, faults>>

\* The process is gone, and with it everything the threads held.
Stop ==
    /\ agentUp' = FALSE
    /\ pc' = [w \in Worker |-> "idle"]
    /\ listing' = [w \in Worker |-> {}]
    /\ holds' = [w \in Worker |-> NoCommand]
    /\ outcome' = [w \in Worker |-> NoStatus]
    /\ restart' = FALSE
    /\ UNCHANGED <<fileVars, clientVars, durableVars, running>>

\* The sample succeeds: a requested restart leaves the watch loop.
SampleDone ==
    /\ pc["sampler"] = "rest"
    /\ \/ restart /\ Stop
       \/ /\ ~restart
          /\ pc' = [pc EXCEPT !["sampler"] = "idle"]
          /\ UNCHANGED <<fileVars, clientVars, agentUp, listing, holds, outcome,
                         restart, durableVars, running>>
    /\ UNCHANGED <<crashes, faults>>

\* A later part of the sample raises: main logs it and samples again.
SampleFails ==
    /\ pc["sampler"] = "rest"
    /\ Fault
    /\ Escape("sampler")
    /\ UNCHANGED <<fileVars, durableVars>>

Crash ==
    /\ agentUp
    /\ crashes < MaxCrashes
    /\ crashes' = crashes + 1
    /\ Stop
    /\ UNCHANGED faults

ExpireAny == Command \* mutant: fresh replies expire with the old ones
Expirable == {c \in Command : client[c] = "gaveup"}

\* The supervisor starts the Agent again: it loads the settings and expires
\* replies older than an hour, which no submitter still polls for.
Launch ==
    /\ ~agentUp
    /\ agentUp' = TRUE
    /\ running' = settings
    /\ \E old \in SUBSET Expirable :
         result' = [c \in Command |-> IF c \in old THEN NoStatus ELSE result[c]]
    /\ UNCHANGED <<file, unreadable, clientVars, threadVars, durableVars, crashes,
                   faults>>

Thread(w) ==
    \/ List(w)
    \/ \E p \in Path : Skip(w, p) \/ Claim(w, p)
    \/ RecordReceipt(w)
    \/ UpdateConfiguration(w)
    \/ ServeOther(w)
    \/ WriteResult(w)
    \/ Unlink(w)
    \/ EndListing(w)

Failure(w) ==
    \/ \E p \in Path : ClaimFails(w, p) \/ ReadFails(w, p)
    \/ RecordReceiptFails(w)
    \/ HandlerRaises(w)
    \/ CompleteFails(w)

Next ==
    \/ \E c \in Command : Submit(c) \/ Receive(c) \/ GiveUp(c)
    \/ \E w \in Worker : Thread(w) \/ Failure(w)
    \/ SampleDone
    \/ SampleFails
    \/ Crash
    \/ Launch

Spec == Init /\ [][Next]_vars

\* Both threads loop for as long as the Agent lives, the supervisor relaunches
\* it whenever it ends, and a submitter that has not given up keeps polling.
\* Nobody has to submit, to give up, to crash or to fail.
Fairness ==
    /\ \A w \in Worker : WF_vars(Thread(w))
    /\ WF_vars(SampleDone)
    /\ WF_vars(Launch)
    /\ \A c \in Command : WF_vars(Receive(c))

FairSpec == Spec /\ Fairness

--------------------------------------------------------------------------------
(* Properties. *)

TypeOK ==
    /\ file \in [Command -> FileState]
    /\ result \in [Command -> Status \cup {NoStatus}]
    /\ client \in [Command -> {"idle", "waiting", "answered", "gaveup"}]
    /\ answer \in [Command -> Status \cup {NoStatus}]
    /\ agentUp \in BOOLEAN
    /\ pc \in [Worker -> {"idle", "scan", "apply", "reply", "unlink", "rest", "dead"}]
    /\ listing \in [Worker -> SUBSET Path]
    /\ holds \in [Worker -> Command \cup {NoCommand}]
    /\ outcome \in [Worker -> Status \cup {NoStatus}]
    /\ restart \in BOOLEAN
    /\ ledger \in [Event -> Usage \cup {NotCounted}]
    /\ settings \in Command \cup {NoCommand}
    /\ running \in Command \cup {NoCommand}
    /\ applied \in [Command -> Nat]
    /\ unreadable \subseteq Command
    /\ crashes \in 0..MaxCrashes
    /\ faults \in 0..MaxFaults

\* Two threads scan one directory without a lock, and either may have listed a
\* file before the other renamed it.  No command is ever worked on by both, and
\* a thread only works on a command that it has visibly claimed (or whose file
\* a failed read has dropped).
ClaimsAreExclusive ==
    /\ \A w \in Worker : holds[w] # NoCommand =>
         file[holds[w]] = "processing" \/ holds[w] \in unreadable
    /\ holds["sampler"] # NoCommand => holds["sampler"] # holds["reader"]

\* Between the submission and the answer a command is always on disk, as a
\* request, a claim or a result, whatever died in between: only a file that
\* could not be read is ever dropped unanswered.
CommandsAreAccountedFor ==
    \A c \in Command : client[c] = "waiting" =>
        file[c] # "absent" \/ result[c] # NoStatus \/ c \in unreadable

\* A mutation is applied again only because the Agent died or a step failed
\* between its effect and the removal of its claim.  (An orderly restart may
\* interrupt the reader, which only repeats a read, but never the sampler.)
MutationsRepeatForCause ==
    \A c \in Command : TypeOf[c] \in MutatingTypes =>
        applied[c] <= 1 + crashes + faults

\* The receipts' submitters see the idempotent ledger, through every crash,
\* retry and repeated execution of the queue.
Ledger == INSTANCE ReceiptLedger WITH
    acknowledged <- {c \in Receipt : answer[c] = "ok"},
    refused <- {c \in Receipt : answer[c] = "rejected"}
ReceiptsAreIdempotent == Ledger!Spec

\* A mutation whose submitter keeps waiting is eventually answered, unless its
\* file could not be read: a failed sample or a dead Agent only delays it.
MutationsAreAnswered ==
    \A c \in Command :
        (client[c] = "waiting" /\ TypeOf[c] \in MutatingTypes)
            ~> (client[c] # "waiting" \/ c \in unreadable)

\* "Serve read-only desktop commands while the sampler is busy": a query whose
\* submitter keeps waiting is eventually answered.
QueriesAreAnswered ==
    \A c \in Command :
        (client[c] = "waiting" /\ TypeOf[c] \in ReadOnlyTypes)
            ~> (client[c] # "waiting" \/ c \in unreadable)

\* "On success, the Agent exits cleanly so its supervisor can restart it with
\* the new runtime configuration": settings reported as saved are eventually
\* those of the live Agent, unless other settings replaced them.
SavedSettingsTakeEffect ==
    \A c \in Command :
        (answer[c] = "ok" /\ settings = c) ~> (running = c \/ settings # c)
================================================================================
