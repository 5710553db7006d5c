-------------------------- MODULE CommandQueueProofs ---------------------------
(***************************************************************************)
(* The safety properties of CommandQueue for every set of commands, every  *)
(* assignment of types and identities, and any number of crashes and       *)
(* faults.                                                                 *)
(***************************************************************************)
EXTENDS CommandQueue, TLAPS

Busy == {"apply", "reply", "unlink"}

\* A thread holds a command exactly while it works on it, and then the command
\* is of a type the thread accepts, was submitted, and is visibly claimed.
Holding ==
    \A w \in Worker :
        /\ pc[w] \in Busy <=> holds[w] # NoCommand
        /\ holds[w] # NoCommand =>
             /\ TypeOf[holds[w]] \in Accepted(w)
             /\ file[holds[w]] = "processing" \/ holds[w] \in unreadable

\* Nothing exists of a command that was not submitted.
Fresh ==
    \A c \in Command : client[c] = "idle" =>
        /\ file[c] = "absent"
        /\ result[c] = NoStatus
        /\ c \notin unreadable
        /\ applied[c] = 0

\* Only a submitter that received a result has an answer.
Unanswered == \A c \in Command : client[c] # "answered" => answer[c] = NoStatus

\* A claim is unlinked only after its result was published.
Published ==
    \A w \in Worker : pc[w] = "unlink" =>
        result[holds[w]] # NoStatus \/ client[holds[w]] # "waiting"

\* A thread has a status to report exactly from its handler's end to the unlink.
Reported == \A w \in Worker : pc[w] \in {"reply", "unlink"} <=> outcome[w] # NoStatus

\* What a status says of a receipt is what the ledger holds.
Truthful(r, s) ==
    /\ s = "ok" => ledger[EventOf[r]] = UsageOf[r]
    /\ s = "rejected" => ledger[EventOf[r]] \notin {NotCounted, UsageOf[r]}

TruthfulReplies ==
    /\ \A r \in Receipt : Truthful(r, result[r]) /\ Truthful(r, answer[r])
    /\ \A w \in Worker : holds[w] \in Receipt => Truthful(holds[w], outcome[w])

\* A mutation that may still be applied has been applied at most once for each
\* crash and fault so far; one whose effect is behind it, once more.
Pending(c) ==
    /\ file[c] # "absent" \/ holds["sampler"] = c
    /\ ~(holds["sampler"] = c /\ pc["sampler"] \in {"reply", "unlink"})

CountedApplications ==
    \A c \in Command : TypeOf[c] \in MutatingTypes =>
        applied[c] <= crashes + faults + (IF Pending(c) THEN 0 ELSE 1)

IInv ==
    /\ TypeOK
    /\ Holding
    /\ Fresh
    /\ Unanswered
    /\ Published
    /\ Reported
    /\ CommandsAreAccountedFor
    /\ TruthfulReplies
    /\ CountedApplications

--------------------------------------------------------------------------------

\* The invariant holds initially.
LEMMA InitIInv == Init => IInv
  <1> SUFFICES ASSUME Init PROVE IInv
    OBVIOUS
  <1> USE ConstantsAssumption DEF Init, NoStatus, NoCommand, ConstantsAssumption
  <1>1. TypeOK
    <2>1. agentUp \in BOOLEAN /\ restart \in BOOLEAN
      OBVIOUS
    <2>2. crashes \in 0..MaxCrashes /\ faults \in 0..MaxFaults
      OBVIOUS
    <2> QED
      BY <2>1, <2>2 DEF TypeOK, FileState
  <1>2. Holding /\ Published /\ Reported
    BY DEF Holding, Published, Reported, Busy, Worker
  <1>3. Fresh /\ Unanswered /\ CommandsAreAccountedFor
    BY DEF Fresh, Unanswered, CommandsAreAccountedFor
  <1>4. TruthfulReplies
    BY DEF TruthfulReplies, Truthful, Receipt, Worker
  <1>5. CountedApplications
    BY DEF CountedApplications, Pending, Worker
  <1> QED
    BY <1>1, <1>2, <1>3, <1>4, <1>5 DEF IInv

--------------------------------------------------------------------------------
(* Every action preserves IInv: one lemma per action, one step per conjunct. *)

USE ConstantsAssumption DEF ConstantsAssumption, IInv, Worker, Path, NoCommand,
    Receipt, CommandType, ReadOnlyTypes, MutatingTypes, Accepted,
    vars, fileVars, clientVars, threadVars, durableVars

\* A reported execution is counted.
LEMMA ReportCounts ==
  ASSUME TypeOK, NEW w \in Worker, NEW s, Report(w, s)
  PROVE  applied' \in [Command -> Nat]
  <1>1. /\ applied \in [Command -> Nat]
        /\ applied' = [applied EXCEPT ![holds[w]] = applied[holds[w]] + 1]
    BY DEF TypeOK, Report
  <1>2. applied' = [c \in Command |-> IF c = holds[w] THEN applied[c] + 1 ELSE applied[c]]
    BY <1>1
  <1>3. \A c \in Command : applied[c] + 1 \in Nat
    BY <1>1
  <1> QED
    BY <1>1, <1>2, <1>3

\* The count stays within one more than the crashes and faults.
LEMMA ReportBounds ==
  ASSUME IInv, NEW w \in Worker, NEW s, Report(w, s), pc[w] = "apply",
         faults' \in Nat, faults <= faults'
  PROVE  CountedApplications'
  BY DEF Report, TypeOK, CountedApplications, Pending, Holding, Busy

\* Submit keeps the invariant.
LEMMA SubmitStep ==
  ASSUME IInv, NEW c \in Command, Submit(c)
  PROVE  IInv'
  <1> USE DEF Submit
  <1>1. TypeOK'
    BY DEF TypeOK, Status, NoStatus, FileState
  <1>2. Holding'
    BY DEF TypeOK, Holding, Busy, Fresh
  <1>3. Fresh'
    BY DEF TypeOK, Fresh, Holding
  <1>4. Unanswered'
    BY DEF TypeOK, Unanswered, NoStatus, Fresh
  <1>5. Published'
    BY DEF TypeOK, Published, Holding, Busy, Fresh, NoStatus
  <1>6. Reported'
    BY DEF TypeOK, Reported, NoStatus
  <1>7. CommandsAreAccountedFor'
    BY DEF TypeOK, CommandsAreAccountedFor, Published
  <1>8. TruthfulReplies'
    BY DEF TypeOK, TruthfulReplies, Truthful, Reported, NoStatus
  <1>9. CountedApplications'
    BY DEF TypeOK, CountedApplications, Pending, Holding, Busy, Fresh
  <1> QED
    BY <1>1, <1>2, <1>3, <1>4, <1>5, <1>6, <1>7, <1>8, <1>9

\* Receive keeps the invariant.
LEMMA ReceiveStep ==
  ASSUME IInv, NEW c \in Command, Receive(c)
  PROVE  IInv'
  <1> USE DEF Receive
  <1>1. TypeOK'
    BY DEF TypeOK, Status, NoStatus, FileState
  <1>2. Holding'
    BY DEF TypeOK, Holding, Busy
  <1>3. Fresh'
    BY DEF TypeOK, Fresh, Holding
  <1>4. Unanswered'
    BY DEF TypeOK, Unanswered, NoStatus, Fresh
  <1>5. Published'
    BY DEF TypeOK, Published, Holding, Busy
  <1>6. Reported'
    BY DEF TypeOK, Reported, NoStatus
  <1>7. CommandsAreAccountedFor'
    BY DEF TypeOK, CommandsAreAccountedFor, Published
  <1>8. TruthfulReplies'
    BY DEF TypeOK, TruthfulReplies, Truthful, Reported, NoStatus
  <1>9. CountedApplications'
    BY DEF TypeOK, CountedApplications, Pending, Holding, Busy, Fresh
  <1> QED
    BY <1>1, <1>2, <1>3, <1>4, <1>5, <1>6, <1>7, <1>8, <1>9

\* GiveUp keeps the invariant.
LEMMA GiveUpStep ==
  ASSUME IInv, NEW c \in Command, GiveUp(c)
  PROVE  IInv'
  <1> USE DEF GiveUp
  <1>1. TypeOK'
    BY DEF TypeOK, Status, NoStatus, FileState
  <1>2. Holding'
    BY DEF TypeOK, Holding, Busy
  <1>3. Fresh'
    BY DEF TypeOK, Fresh, Holding
  <1>4. Unanswered'
    BY DEF TypeOK, Unanswered, NoStatus, Fresh
  <1>5. Published'
    BY DEF TypeOK, Published, Holding, Busy
  <1>6. Reported'
    BY DEF TypeOK, Reported, NoStatus
  <1>7. CommandsAreAccountedFor'
    BY DEF TypeOK, CommandsAreAccountedFor, Published
  <1>8. TruthfulReplies'
    BY DEF TypeOK, TruthfulReplies, Truthful, Reported, NoStatus
  <1>9. CountedApplications'
    BY DEF TypeOK, CountedApplications, Pending, Holding, Busy, Fresh
  <1> QED
    BY <1>1, <1>2, <1>3, <1>4, <1>5, <1>6, <1>7, <1>8, <1>9

\* List keeps the invariant.
LEMMA ListStep ==
  ASSUME IInv, NEW w \in Worker, List(w)
  PROVE  IInv'
  <1> USE DEF List
  <1>1. TypeOK'
    BY DEF TypeOK, Status, NoStatus, FileState
  <1>2. Holding'
    BY DEF TypeOK, Holding, Busy
  <1>3. Fresh'
    BY DEF TypeOK, Fresh, Holding
  <1>4. Unanswered'
    BY DEF TypeOK, Unanswered, NoStatus, Fresh
  <1>5. Published'
    BY DEF TypeOK, Published, Holding, Busy
  <1>6. Reported'
    BY DEF TypeOK, Reported, NoStatus
  <1>7. CommandsAreAccountedFor'
    BY DEF TypeOK, CommandsAreAccountedFor, Published
  <1>8. TruthfulReplies'
    BY DEF TypeOK, TruthfulReplies, Truthful, Reported, NoStatus
  <1>9. CountedApplications'
    BY DEF TypeOK, CountedApplications, Pending, Holding, Busy, Fresh
  <1> QED
    BY <1>1, <1>2, <1>3, <1>4, <1>5, <1>6, <1>7, <1>8, <1>9

\* Skip keeps the invariant.
LEMMA SkipStep ==
  ASSUME IInv, NEW w \in Worker, NEW p \in Path, Skip(w, p)
  PROVE  IInv'
  <1> USE DEF Skip, IsNext, Visited
  <1>1. TypeOK'
    BY DEF TypeOK, Status, NoStatus, FileState
  <1>2. Holding'
    BY DEF TypeOK, Holding, Busy
  <1>3. Fresh'
    BY DEF TypeOK, Fresh, Holding
  <1>4. Unanswered'
    BY DEF TypeOK, Unanswered, NoStatus, Fresh
  <1>5. Published'
    BY DEF TypeOK, Published, Holding, Busy
  <1>6. Reported'
    BY DEF TypeOK, Reported, NoStatus
  <1>7. CommandsAreAccountedFor'
    BY DEF TypeOK, CommandsAreAccountedFor, Published
  <1>8. TruthfulReplies'
    BY DEF TypeOK, TruthfulReplies, Truthful, Reported, NoStatus
  <1>9. CountedApplications'
    BY DEF TypeOK, CountedApplications, Pending, Holding, Busy, Fresh
  <1> QED
    BY <1>1, <1>2, <1>3, <1>4, <1>5, <1>6, <1>7, <1>8, <1>9

\* Claim keeps the invariant.
LEMMA ClaimStep ==
  ASSUME IInv, NEW w \in Worker, NEW p \in Path, Claim(w, p)
  PROVE  IInv'
  <1> USE DEF Claim, IsNext, Visited
  <1>1. TypeOK'
    BY DEF TypeOK, Status, NoStatus, FileState
  <1>2. Holding'
    BY DEF TypeOK, Holding, Busy
  <1>3. Fresh'
    BY DEF TypeOK, Fresh, Holding
  <1>4. Unanswered'
    BY DEF TypeOK, Unanswered, NoStatus, Fresh
  <1>5. Published'
    BY DEF TypeOK, Published, Holding, Busy
  <1>6. Reported'
    BY DEF TypeOK, Reported, NoStatus
  <1>7. CommandsAreAccountedFor'
    BY DEF TypeOK, CommandsAreAccountedFor, Published
  <1>8. TruthfulReplies'
    BY DEF TypeOK, TruthfulReplies, Truthful, Reported, NoStatus
  <1>9. CountedApplications'
    BY DEF TypeOK, CountedApplications, Pending, Holding, Busy, Fresh
  <1> QED
    BY <1>1, <1>2, <1>3, <1>4, <1>5, <1>6, <1>7, <1>8, <1>9

\* ClaimFails keeps the invariant.
LEMMA ClaimFailsStep ==
  ASSUME IInv, NEW w \in Worker, NEW p \in Path, ClaimFails(w, p)
  PROVE  IInv'
  <1> USE DEF ClaimFails, IsNext, Visited, Fault
  <1>1. TypeOK'
    BY DEF TypeOK, Status, NoStatus, FileState
  <1>2. Holding'
    BY DEF TypeOK, Holding, Busy
  <1>3. Fresh'
    BY DEF TypeOK, Fresh, Holding
  <1>4. Unanswered'
    BY DEF TypeOK, Unanswered, NoStatus, Fresh
  <1>5. Published'
    BY DEF TypeOK, Published, Holding, Busy
  <1>6. Reported'
    BY DEF TypeOK, Reported, NoStatus
  <1>7. CommandsAreAccountedFor'
    BY DEF TypeOK, CommandsAreAccountedFor, Published
  <1>8. TruthfulReplies'
    BY DEF TypeOK, TruthfulReplies, Truthful, Reported, NoStatus
  <1>9. CountedApplications'
    BY DEF TypeOK, CountedApplications, Pending, Holding, Busy, Fresh
  <1> QED
    BY <1>1, <1>2, <1>3, <1>4, <1>5, <1>6, <1>7, <1>8, <1>9

\* ReadFails keeps the invariant.
LEMMA ReadFailsStep ==
  ASSUME IInv, NEW w \in Worker, NEW p \in Path, ReadFails(w, p)
  PROVE  IInv'
  <1> USE DEF ReadFails, RemoveFile, IsNext, Visited, Fault
  <1>1. TypeOK'
    <2>1. crashes' \in 0..MaxCrashes /\ faults' \in 0..MaxFaults
      BY DEF TypeOK
    <2>2. file' \in [Command -> FileState]
      BY DEF TypeOK, FileState
    <2>3. p[1] \in Command /\ unreadable' \subseteq Command
      BY DEF TypeOK, Path
    <2>4. listing' \in [Worker -> SUBSET Path]
      BY DEF TypeOK
    <2> QED
      BY <2>1, <2>2, <2>3, <2>4 DEF TypeOK
  <1>2. Holding'
    BY DEF TypeOK, Holding, Busy
  <1>3. Fresh'
    BY DEF TypeOK, Fresh, Holding
  <1>4. Unanswered'
    BY DEF TypeOK, Unanswered, NoStatus, Fresh
  <1>5. Published'
    BY DEF TypeOK, Published, Holding, Busy
  <1>6. Reported'
    BY DEF TypeOK, Reported, NoStatus
  <1>7. CommandsAreAccountedFor'
    BY DEF TypeOK, CommandsAreAccountedFor, Published
  <1>8. TruthfulReplies'
    BY DEF TypeOK, TruthfulReplies, Truthful, Reported, NoStatus
  <1>9. CountedApplications'
    BY DEF TypeOK, CountedApplications, Pending, Holding, Busy, Fresh
  <1> QED
    BY <1>1, <1>2, <1>3, <1>4, <1>5, <1>6, <1>7, <1>8, <1>9

\* RecordReceipt keeps the invariant.
LEMMA RecordReceiptStep ==
  ASSUME IInv, NEW w \in Worker, RecordReceipt(w)
  PROVE  IInv'
  <1> USE DEF RecordReceipt, Verdict, Applies, Report
  <1>1. TypeOK'
    <2>1. applied' \in [Command -> Nat]
      BY ReportCounts
    <2>2. crashes' \in 0..MaxCrashes /\ faults' \in 0..MaxFaults
      BY DEF TypeOK
    <2>3. outcome' \in [Worker -> Status \cup {NoStatus}]
      BY DEF TypeOK, Status, NoStatus
    <2>4. holds' \in [Worker -> Command \cup {NoCommand}]
      BY DEF TypeOK
    <2>5. pc' \in [Worker -> {"idle", "scan", "apply", "reply", "unlink", "rest", "dead"}]
      BY DEF TypeOK
    <2>6. ledger' \in [Event -> Usage \cup {NotCounted}]
      BY DEF TypeOK, Holding, Busy
    <2> QED
      BY <2>1, <2>2, <2>3, <2>4, <2>5, <2>6 DEF TypeOK
  <1>2. Holding'
    BY DEF TypeOK, Holding, Busy
  <1>3. Fresh'
    BY DEF TypeOK, Fresh, Holding
  <1>4. Unanswered'
    BY DEF TypeOK, Unanswered, NoStatus, Fresh
  <1>5. Published'
    BY DEF TypeOK, Published, Holding, Busy
  <1>6. Reported'
    BY DEF TypeOK, Reported, NoStatus
  <1>7. CommandsAreAccountedFor'
    BY DEF TypeOK, CommandsAreAccountedFor, Published
  <1>8. TruthfulReplies'
    <2>1. outcome' = [outcome EXCEPT ![w] = Verdict(EventOf[holds[w]], UsageOf[holds[w]])]
          /\ holds' = holds /\ result' = result /\ answer' = answer
          /\ ledger' = [ledger EXCEPT ![EventOf[holds[w]]] = IF @ = NotCounted THEN UsageOf[holds[w]] ELSE @]
      OBVIOUS
    <2>2. \A r \in Receipt, s \in Status \cup {NoStatus} : Truthful(r, s) => Truthful(r, s)'
      BY DEF TypeOK, Truthful
    <2>3. (\A r \in Receipt : Truthful(r, result[r]) /\ Truthful(r, answer[r]))'
      BY <2>1, <2>2 DEF TypeOK, TruthfulReplies
    <2>4. (holds[w] \in Receipt => Truthful(holds[w], outcome[w]))'
      BY <2>1 DEF TypeOK, Truthful
    <2>5. (\A v \in Worker : holds[v] \in Receipt => Truthful(holds[v], outcome[v]))'
      BY <2>1, <2>2, <2>4 DEF TypeOK, TruthfulReplies
    <2> QED
      BY <2>1, <2>3, <2>5 DEF TruthfulReplies
  <1>9. CountedApplications'
    <2>1. pc[w] = "apply" /\ Report(w, Verdict(EventOf[holds[w]], UsageOf[holds[w]]))
      OBVIOUS
    <2>2. faults' \in Nat /\ faults <= faults'
      BY DEF TypeOK
    <2> QED
      BY ONLY IInv, <2>1, <2>2, ReportBounds
  <1> QED
    BY <1>1, <1>2, <1>3, <1>4, <1>5, <1>6, <1>7, <1>8, <1>9

\* RecordReceiptFails keeps the invariant.
LEMMA RecordReceiptFailsStep ==
  ASSUME IInv, NEW w \in Worker, RecordReceiptFails(w)
  PROVE  IInv'
  <1> USE DEF RecordReceiptFails, Applies, Report, Fault
  <1>1. TypeOK'
    <2>1. applied' \in [Command -> Nat]
      BY ReportCounts
    <2>2. crashes' \in 0..MaxCrashes /\ faults' \in 0..MaxFaults
      BY DEF TypeOK
    <2> QED
      BY <2>1, <2>2 DEF TypeOK, Status, NoStatus, FileState
  <1>2. Holding'
    BY DEF TypeOK, Holding, Busy
  <1>3. Fresh'
    BY DEF TypeOK, Fresh, Holding
  <1>4. Unanswered'
    BY DEF TypeOK, Unanswered, NoStatus, Fresh
  <1>5. Published'
    BY DEF TypeOK, Published, Holding, Busy
  <1>6. Reported'
    BY DEF TypeOK, Reported, NoStatus
  <1>7. CommandsAreAccountedFor'
    BY DEF TypeOK, CommandsAreAccountedFor, Published
  <1>8. TruthfulReplies'
    BY DEF TypeOK, TruthfulReplies, Truthful, Reported, NoStatus
  <1>9. CountedApplications'
    <2>1. pc[w] = "apply" /\ Report(w, "error")
      OBVIOUS
    <2>2. faults' \in Nat /\ faults <= faults'
      BY DEF TypeOK
    <2> QED
      BY ONLY IInv, <2>1, <2>2, ReportBounds
  <1> QED
    BY <1>1, <1>2, <1>3, <1>4, <1>5, <1>6, <1>7, <1>8, <1>9

\* UpdateConfiguration keeps the invariant.
LEMMA UpdateConfigurationStep ==
  ASSUME IInv, NEW w \in Worker, UpdateConfiguration(w)
  PROVE  IInv'
  <1> USE DEF UpdateConfiguration, Applies, Report
  <1>1. TypeOK'
    <2>1. applied' \in [Command -> Nat]
      BY ReportCounts
    <2>2. crashes' \in 0..MaxCrashes /\ faults' \in 0..MaxFaults
      BY DEF TypeOK
    <2>3. outcome' \in [Worker -> Status \cup {NoStatus}]
      BY DEF TypeOK, Status, NoStatus
    <2>4. holds' \in [Worker -> Command \cup {NoCommand}]
      BY DEF TypeOK
    <2>5. pc' \in [Worker -> {"idle", "scan", "apply", "reply", "unlink", "rest", "dead"}]
      BY DEF TypeOK
    <2>6. settings' \in Command \cup {NoCommand}
      BY DEF TypeOK
    <2> QED
      BY <2>1, <2>2, <2>3, <2>4, <2>5, <2>6 DEF TypeOK
  <1>2. Holding'
    BY DEF TypeOK, Holding, Busy
  <1>3. Fresh'
    BY DEF TypeOK, Fresh, Holding
  <1>4. Unanswered'
    BY DEF TypeOK, Unanswered, NoStatus, Fresh
  <1>5. Published'
    BY DEF TypeOK, Published, Holding, Busy
  <1>6. Reported'
    BY DEF TypeOK, Reported, NoStatus
  <1>7. CommandsAreAccountedFor'
    BY DEF TypeOK, CommandsAreAccountedFor, Published
  <1>8. TruthfulReplies'
    BY DEF TypeOK, TruthfulReplies, Truthful, Reported, NoStatus
  <1>9. CountedApplications'
    <2>1. pc[w] = "apply" /\ \E s : Report(w, s)
      OBVIOUS
    <2>2. faults' \in Nat /\ faults <= faults'
      BY DEF TypeOK
    <2> QED
      BY ONLY IInv, <2>1, <2>2, ReportBounds
  <1> QED
    BY <1>1, <1>2, <1>3, <1>4, <1>5, <1>6, <1>7, <1>8, <1>9

\* ServeOther keeps the invariant.
LEMMA ServeOtherStep ==
  ASSUME IInv, NEW w \in Worker, ServeOther(w)
  PROVE  IInv'
  <1> USE DEF ServeOther, Report, RepliesOf
  <1>1. TypeOK'
    <2>1. applied' \in [Command -> Nat]
      BY ReportCounts
    <2> QED
      BY <2>1 DEF TypeOK, Status, NoStatus, FileState
  <1>2. Holding'
    BY DEF TypeOK, Holding, Busy
  <1>3. Fresh'
    BY DEF TypeOK, Fresh, Holding
  <1>4. Unanswered'
    BY DEF TypeOK, Unanswered, NoStatus, Fresh
  <1>5. Published'
    BY DEF TypeOK, Published, Holding, Busy
  <1>6. Reported'
    BY DEF TypeOK, Reported, NoStatus
  <1>7. CommandsAreAccountedFor'
    BY DEF TypeOK, CommandsAreAccountedFor, Published
  <1>8. TruthfulReplies'
    BY DEF TypeOK, TruthfulReplies, Truthful, Reported, NoStatus
  <1>9. CountedApplications'
    <2>1. pc[w] = "apply" /\ \E s : Report(w, s)
      OBVIOUS
    <2>2. faults' \in Nat /\ faults <= faults'
      BY DEF TypeOK
    <2> QED
      BY ONLY IInv, <2>1, <2>2, ReportBounds
  <1> QED
    BY <1>1, <1>2, <1>3, <1>4, <1>5, <1>6, <1>7, <1>8, <1>9

\* HandlerRaises keeps the invariant.
LEMMA HandlerRaisesStep ==
  ASSUME IInv, NEW w \in Worker, HandlerRaises(w)
  PROVE  IInv'
  <1> USE DEF HandlerRaises, Escape, Fault
  <1>1. TypeOK'
    BY DEF TypeOK, Status, NoStatus, FileState
  <1>2. Holding'
    BY DEF TypeOK, Holding, Busy
  <1>3. Fresh'
    BY DEF TypeOK, Fresh, Holding
  <1>4. Unanswered'
    BY DEF TypeOK, Unanswered, NoStatus, Fresh
  <1>5. Published'
    BY DEF TypeOK, Published, Holding, Busy
  <1>6. Reported'
    BY DEF TypeOK, Reported, NoStatus
  <1>7. CommandsAreAccountedFor'
    BY DEF TypeOK, CommandsAreAccountedFor, Published
  <1>8. TruthfulReplies'
    BY DEF TypeOK, TruthfulReplies, Truthful, Reported, NoStatus
  <1>9. CountedApplications'
    BY DEF TypeOK, CountedApplications, Pending, Holding, Busy, Fresh
  <1> QED
    BY <1>1, <1>2, <1>3, <1>4, <1>5, <1>6, <1>7, <1>8, <1>9

\* WriteResult keeps the invariant.
LEMMA WriteResultStep ==
  ASSUME IInv, NEW w \in Worker, WriteResult(w)
  PROVE  IInv'
  <1> USE DEF WriteResult
  <1>1. TypeOK'
    BY DEF TypeOK, Status, NoStatus, FileState
  <1>2. Holding'
    BY DEF TypeOK, Holding, Busy
  <1>3. Fresh'
    BY DEF TypeOK, Fresh, Holding
  <1>4. Unanswered'
    BY DEF TypeOK, Unanswered, NoStatus, Fresh
  <1>5. Published'
    BY DEF TypeOK, Published, Holding, Busy, Reported, NoStatus
  <1>6. Reported'
    BY DEF TypeOK, Reported, NoStatus
  <1>7. CommandsAreAccountedFor'
    BY DEF TypeOK, CommandsAreAccountedFor, Published, Reported, NoStatus,
       Holding
  <1>8. TruthfulReplies'
    BY DEF TypeOK, TruthfulReplies, Truthful, Reported, NoStatus
  <1>9. CountedApplications'
    BY DEF TypeOK, CountedApplications, Pending, Holding, Busy, Fresh
  <1> QED
    BY <1>1, <1>2, <1>3, <1>4, <1>5, <1>6, <1>7, <1>8, <1>9

\* Unlink keeps the invariant.
LEMMA UnlinkStep ==
  ASSUME IInv, NEW w \in Worker, Unlink(w)
  PROVE  IInv'
  <1> USE DEF Unlink, RemoveFile
  <1>1. TypeOK'
    BY DEF TypeOK, Status, NoStatus, FileState
  <1>2. Holding'
    BY DEF TypeOK, Holding, Busy
  <1>3. Fresh'
    BY DEF TypeOK, Fresh, Holding
  <1>4. Unanswered'
    BY DEF TypeOK, Unanswered, NoStatus, Fresh
  <1>5. Published'
    BY DEF TypeOK, Published, Holding, Busy
  <1>6. Reported'
    BY DEF TypeOK, Reported, NoStatus
  <1>7. CommandsAreAccountedFor'
    BY DEF TypeOK, CommandsAreAccountedFor, Published
  <1>8. TruthfulReplies'
    BY DEF TypeOK, TruthfulReplies, Truthful, Reported, NoStatus
  <1>9. CountedApplications'
    BY DEF TypeOK, CountedApplications, Pending, Holding, Busy, Fresh
  <1> QED
    BY <1>1, <1>2, <1>3, <1>4, <1>5, <1>6, <1>7, <1>8, <1>9

\* CompleteFails keeps the invariant.
LEMMA CompleteFailsStep ==
  ASSUME IInv, NEW w \in Worker, CompleteFails(w)
  PROVE  IInv'
  <1> USE DEF CompleteFails, Escape, Fault, Fallback
  <1>1. TypeOK'
    <2>1. agentUp' \in BOOLEAN /\ restart' \in BOOLEAN
      BY DEF TypeOK
    <2>2. crashes' \in 0..MaxCrashes /\ faults' \in 0..MaxFaults
      BY DEF TypeOK
    <2> QED
      BY <2>1, <2>2 DEF TypeOK, Status, NoStatus, FileState
  <1>2. Holding'
    BY DEF TypeOK, Holding, Busy
  <1>3. Fresh'
    BY DEF TypeOK, Fresh, Holding
  <1>4. Unanswered'
    BY DEF TypeOK, Unanswered, NoStatus, Fresh
  <1>5. Published'
    BY DEF TypeOK, Published, Holding, Busy
  <1>6. Reported'
    BY DEF TypeOK, Reported, NoStatus
  <1>7. CommandsAreAccountedFor'
    BY DEF TypeOK, CommandsAreAccountedFor, Published
  <1>8. TruthfulReplies'
    BY DEF TypeOK, TruthfulReplies, Truthful, Reported, NoStatus
  <1>9. CountedApplications'
    BY DEF TypeOK, CountedApplications, Pending, Holding, Busy, Fresh
  <1> QED
    BY <1>1, <1>2, <1>3, <1>4, <1>5, <1>6, <1>7, <1>8, <1>9

\* EndListing keeps the invariant.
LEMMA EndListingStep ==
  ASSUME IInv, NEW w \in Worker, EndListing(w)
  PROVE  IInv'
  <1> USE DEF EndListing
  <1>1. TypeOK'
    BY DEF TypeOK, Status, NoStatus, FileState
  <1>2. Holding'
    BY DEF TypeOK, Holding, Busy
  <1>3. Fresh'
    BY DEF TypeOK, Fresh, Holding
  <1>4. Unanswered'
    BY DEF TypeOK, Unanswered, NoStatus, Fresh
  <1>5. Published'
    BY DEF TypeOK, Published, Holding, Busy
  <1>6. Reported'
    BY DEF TypeOK, Reported, NoStatus
  <1>7. CommandsAreAccountedFor'
    BY DEF TypeOK, CommandsAreAccountedFor, Published
  <1>8. TruthfulReplies'
    BY DEF TypeOK, TruthfulReplies, Truthful, Reported, NoStatus
  <1>9. CountedApplications'
    BY DEF TypeOK, CountedApplications, Pending, Holding, Busy, Fresh
  <1> QED
    BY <1>1, <1>2, <1>3, <1>4, <1>5, <1>6, <1>7, <1>8, <1>9

\* SampleDone keeps the invariant.
LEMMA SampleDoneStep ==
  ASSUME IInv, SampleDone
  PROVE  IInv'
  <1> USE DEF SampleDone, Stop
  <1>1. TypeOK'
    <2>1. agentUp' \in BOOLEAN /\ restart' \in BOOLEAN
      BY DEF TypeOK
    <2>2. crashes' \in 0..MaxCrashes /\ faults' \in 0..MaxFaults
      BY DEF TypeOK
    <2>3. outcome' \in [Worker -> Status \cup {NoStatus}]
      BY DEF TypeOK, Status, NoStatus
    <2>4. holds' \in [Worker -> Command \cup {NoCommand}]
      BY DEF TypeOK
    <2>5. pc' \in [Worker -> {"idle", "scan", "apply", "reply", "unlink", "rest", "dead"}]
      BY DEF TypeOK
    <2> QED
      BY <2>1, <2>2, <2>3, <2>4, <2>5 DEF TypeOK
  <1>2. Holding'
    BY DEF TypeOK, Holding, Busy
  <1>3. Fresh'
    BY DEF TypeOK, Fresh, Holding
  <1>4. Unanswered'
    BY DEF TypeOK, Unanswered, NoStatus, Fresh
  <1>5. Published'
    BY DEF TypeOK, Published, Holding, Busy
  <1>6. Reported'
    BY DEF TypeOK, Reported, NoStatus
  <1>7. CommandsAreAccountedFor'
    BY DEF TypeOK, CommandsAreAccountedFor, Published
  <1>8. TruthfulReplies'
    BY DEF TypeOK, TruthfulReplies, Truthful, Reported, NoStatus
  <1>9. CountedApplications'
    BY DEF TypeOK, CountedApplications, Pending, Holding, Busy, Fresh
  <1> QED
    BY <1>1, <1>2, <1>3, <1>4, <1>5, <1>6, <1>7, <1>8, <1>9

\* SampleFails keeps the invariant.
LEMMA SampleFailsStep ==
  ASSUME IInv, SampleFails
  PROVE  IInv'
  <1> USE DEF SampleFails, Escape, Fault
  <1>1. TypeOK'
    BY DEF TypeOK, Status, NoStatus, FileState
  <1>2. Holding'
    BY DEF TypeOK, Holding, Busy
  <1>3. Fresh'
    BY DEF TypeOK, Fresh, Holding
  <1>4. Unanswered'
    BY DEF TypeOK, Unanswered, NoStatus, Fresh
  <1>5. Published'
    BY DEF TypeOK, Published, Holding, Busy
  <1>6. Reported'
    BY DEF TypeOK, Reported, NoStatus
  <1>7. CommandsAreAccountedFor'
    BY DEF TypeOK, CommandsAreAccountedFor, Published
  <1>8. TruthfulReplies'
    BY DEF TypeOK, TruthfulReplies, Truthful, Reported, NoStatus
  <1>9. CountedApplications'
    BY DEF TypeOK, CountedApplications, Pending, Holding, Busy, Fresh
  <1> QED
    BY <1>1, <1>2, <1>3, <1>4, <1>5, <1>6, <1>7, <1>8, <1>9

\* Crash keeps the invariant.
LEMMA CrashStep ==
  ASSUME IInv, Crash
  PROVE  IInv'
  <1> USE DEF Crash, Stop
  <1>1. TypeOK'
    <2>1. agentUp' \in BOOLEAN /\ restart' \in BOOLEAN
      BY DEF TypeOK
    <2>2. crashes' \in 0..MaxCrashes /\ faults' \in 0..MaxFaults
      BY DEF TypeOK
    <2> QED
      BY <2>1, <2>2 DEF TypeOK, Status, NoStatus, FileState
  <1>2. Holding'
    BY DEF TypeOK, Holding, Busy
  <1>3. Fresh'
    BY DEF TypeOK, Fresh, Holding
  <1>4. Unanswered'
    BY DEF TypeOK, Unanswered, NoStatus, Fresh
  <1>5. Published'
    BY DEF TypeOK, Published, Holding, Busy
  <1>6. Reported'
    BY DEF TypeOK, Reported, NoStatus
  <1>7. CommandsAreAccountedFor'
    BY DEF TypeOK, CommandsAreAccountedFor, Published
  <1>8. TruthfulReplies'
    BY DEF TypeOK, TruthfulReplies, Truthful, Reported, NoStatus
  <1>9. CountedApplications'
    BY DEF TypeOK, CountedApplications, Pending, Holding, Busy, Fresh
  <1> QED
    BY <1>1, <1>2, <1>3, <1>4, <1>5, <1>6, <1>7, <1>8, <1>9

\* Launch keeps the invariant.
LEMMA LaunchStep ==
  ASSUME IInv, Launch
  PROVE  IInv'
  <1> USE DEF Launch, Expirable
  <1>1. TypeOK'
    BY DEF TypeOK, Status, NoStatus, FileState
  <1>2. Holding'
    BY DEF TypeOK, Holding, Busy
  <1>3. Fresh'
    BY DEF TypeOK, Fresh, Holding
  <1>4. Unanswered'
    BY DEF TypeOK, Unanswered, NoStatus, Fresh
  <1>5. Published'
    <2>1. UNCHANGED <<pc, holds, client>>
      BY DEF threadVars, clientVars
    <2>2. \A c \in Command : client[c] = "gaveup" \/ result'[c] = result[c]
      OBVIOUS
    <2>3. ASSUME NEW w \in Worker, pc[w] = "unlink"
          PROVE  result'[holds[w]] # NoStatus \/ client[holds[w]] # "waiting"
      <3>1. holds[w] \in Command
        BY <2>3 DEF TypeOK, Holding, Busy
      <3>2. result[holds[w]] # NoStatus \/ client[holds[w]] # "waiting"
        BY <2>3 DEF Published
      <3>3. QED
        BY <2>2, <3>1, <3>2
    <2> QED
      BY <2>1, <2>3 DEF Published
  <1>6. Reported'
    BY DEF TypeOK, Reported, NoStatus
  <1>7. CommandsAreAccountedFor'
    BY DEF TypeOK, CommandsAreAccountedFor, Published
  <1>8. TruthfulReplies'
    BY DEF TypeOK, TruthfulReplies, Truthful, Reported, NoStatus
  <1>9. CountedApplications'
    BY DEF TypeOK, CountedApplications, Pending, Holding, Busy, Fresh
  <1> QED
    BY <1>1, <1>2, <1>3, <1>4, <1>5, <1>6, <1>7, <1>8, <1>9

\* Stutter keeps the invariant.
LEMMA StutterStep == IInv /\ UNCHANGED vars => IInv'
  BY DEF TypeOK, Holding, Busy, Fresh, Unanswered, Published, Reported,
         CommandsAreAccountedFor, TruthfulReplies, Truthful, CountedApplications,
         Pending

\* Every step keeps it: one case per action.
LEMMA NextIInv == IInv /\ [Next]_vars => IInv'
  <1> SUFFICES ASSUME IInv, [Next]_vars PROVE IInv'
    OBVIOUS
  <1> USE DEF Next
  <1>1. CASE \E c \in Command : Submit(c) \/ Receive(c) \/ GiveUp(c)
    BY <1>1, SubmitStep, ReceiveStep, GiveUpStep
  <1>2. CASE \E w \in Worker : Thread(w)
    BY ONLY <1>2, IInv, ListStep, SkipStep, ClaimStep, RecordReceiptStep,
       UpdateConfigurationStep, ServeOtherStep, WriteResultStep, UnlinkStep,
       EndListingStep DEF Thread
  <1>3. CASE \E w \in Worker : Failure(w)
    BY ONLY <1>3, IInv, ClaimFailsStep, ReadFailsStep, RecordReceiptFailsStep,
       HandlerRaisesStep, CompleteFailsStep DEF Failure
  <1>4. CASE SampleDone \/ SampleFails \/ Crash \/ Launch
    BY <1>4, SampleDoneStep, SampleFailsStep, CrashStep, LaunchStep
  <1>5. CASE UNCHANGED vars
    BY <1>5, StutterStep
  <1> QED
    BY <1>1, <1>2, <1>3, <1>4, <1>5

\* The invariant holds in every reachable state.
THEOREM Invariance == Spec => []IInv
  BY InitIInv, NextIInv, PTL DEF Spec

--------------------------------------------------------------------------------
(* The theorems. *)

\* Every value the queue, its files and its threads take has its type.
THEOREM TypeCorrect == Spec => []TypeOK
  BY Invariance, PTL DEF IInv

\* The two threads never work on one command, however their scans, claims,
\* failed reads and restarts interleave.
THEOREM ExclusiveClaims == Spec => []ClaimsAreExclusive
  <1>1. IInv => ClaimsAreExclusive
    BY DEF ClaimsAreExclusive, Holding, TypeOK
  <1> QED
    BY <1>1, Invariance, PTL

\* No crash, restart or failing step loses a command that is waited for.
THEOREM AccountedCommands == Spec => []CommandsAreAccountedFor
  BY Invariance, PTL DEF IInv

\* Each repetition of a mutation is paid for by a crash or a fault.
THEOREM RepetitionsHaveACause == Spec => []MutationsRepeatForCause
  <1>1. IInv => MutationsRepeatForCause
    <2> SUFFICES ASSUME IInv, NEW c \in Command, TypeOf[c] \in MutatingTypes
                 PROVE  applied[c] <= 1 + crashes + faults
      BY DEF MutationsRepeatForCause
    <2>1. applied[c] <= crashes + faults + (IF Pending(c) THEN 0 ELSE 1)
      BY DEF CountedApplications
    <2>2. applied[c] \in Nat /\ crashes \in Nat /\ faults \in Nat
      BY DEF TypeOK
    <2> QED
      BY <2>1, <2>2
  <1> QED
    BY <1>1, Invariance, PTL

\* Whatever an invariant state does next, its receipts do what the abstract
\* ledger may do: an answer that arrives tells the truth about an entry that
\* nothing overwrites.
LEMMA LedgerStep == IInv /\ [Next]_vars => [Ledger!Next]_(Ledger!vars)
  <1> SUFFICES ASSUME IInv, [Next]_vars PROVE [Ledger!Next]_(Ledger!vars)
    OBVIOUS
  <1>1. CASE UNCHANGED <<ledger, answer>>
    BY <1>1 DEF Ledger!vars
  <1>2. ASSUME NEW c \in Command, Receive(c) PROVE [Ledger!Next]_(Ledger!vars)
    <2> USE <1>2 DEF Receive
    <2>1. answer[c] = NoStatus /\ NoStatus \notin {"ok", "rejected"}
      BY DEF Unanswered, NoStatus
    <2>2. \A d \in Command : answer'[d] = IF d = c THEN result[c] ELSE answer[d]
      BY DEF TypeOK
    <2>3. ledger' = ledger
      OBVIOUS
    <2>4. CASE c \in Receipt /\ result[c] = "ok"
      <3>1. Ledger!Acknowledge(c)
        BY <2>1, <2>2, <2>3, <2>4 DEF Ledger!Acknowledge, TruthfulReplies, Truthful
      <3> QED
        BY <3>1, <2>4 DEF Ledger!Next
    <2>5. CASE c \in Receipt /\ result[c] = "rejected"
      <3>1. Ledger!Refuse(c)
        BY <2>1, <2>2, <2>3, <2>5 DEF Ledger!Refuse, TruthfulReplies, Truthful
      <3> QED
        BY <3>1, <2>5 DEF Ledger!Next
    <2>6. CASE c \notin Receipt \/ result[c] \notin {"ok", "rejected"}
      BY <2>1, <2>2, <2>3, <2>6 DEF Ledger!vars
    <2> QED
      BY <2>4, <2>5, <2>6
  <1>3. ASSUME NEW w \in Worker, RecordReceipt(w) PROVE [Ledger!Next]_(Ledger!vars)
    <2> USE <1>3 DEF RecordReceipt, Applies, Report
    <2>1. holds[w] \in Receipt
      BY DEF TypeOK, Holding, Busy
    <2>2. CASE ledger[EventOf[holds[w]]] = NotCounted
      <3>1. Ledger!Record(holds[w])
        BY <2>2, <2>1 DEF Ledger!Record, TypeOK
      <3> QED
        BY <3>1, <2>1 DEF Ledger!Next
    <2>3. CASE ledger[EventOf[holds[w]]] # NotCounted
      BY <2>3, <1>1 DEF TypeOK
    <2> QED
      BY <2>2, <2>3
  <1>4. CASE \E c \in Command : Submit(c) \/ GiveUp(c)
    BY <1>4, <1>1 DEF Submit, GiveUp
  <1>5. CASE \E w \in Worker : Thread(w) /\ ~RecordReceipt(w)
    BY <1>5, <1>1 DEF Thread, List, Skip, Claim, UpdateConfiguration, ServeOther, Report,
                 WriteResult, Unlink, EndListing
  <1>6. CASE \E w \in Worker : Failure(w)
    BY <1>6, <1>1 DEF Failure, ClaimFails, ReadFails, RecordReceiptFails, HandlerRaises,
                 CompleteFails, Report, Escape
  <1>7. CASE SampleDone \/ SampleFails \/ Crash \/ Launch
    BY <1>7, <1>1 DEF SampleDone, SampleFails, Crash, Launch, Escape, Stop
  <1>8. CASE UNCHANGED vars
    BY <1>8, <1>1
  <1> QED
    BY <1>2, <1>3, <1>4, <1>5, <1>6, <1>7, <1>8 DEF Next

\* The queue as its receipts' submitters see it implements the idempotent
\* ledger: at most one usage is ever counted for an identity, an acknowledged
\* receipt is counted with its own usage, and a refused one lost to another.
THEOREM QueueImplementsLedger == Spec => ReceiptsAreIdempotent
  <1>1. Init => Ledger!Init
    BY DEF Init, Ledger!Init, NoStatus
  <1> QED
    BY <1>1, Invariance, LedgerStep, PTL DEF Spec, ReceiptsAreIdempotent, Ledger!Spec

================================================================================
