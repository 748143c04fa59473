------------------------------ MODULE Delivery ------------------------------
(***************************************************************************)
(* Notices to runners: Enqueue (notify/service.go) records a notice and    *)
(* its send job in the transaction of what it tells of, and the worker     *)
(* (notify/worker.go) sends it to Telegram and records the outcome.        *)
(*                                                                         *)
(* A notice is named by its deduplication key, a job by the transaction    *)
(* that queued it.  River, outside this repository, starts a waiting job,  *)
(* counts its attempts, lets a failed one wait for another attempt as long *)
(* as it has any, and rescues those whose process ended.                   *)
(***************************************************************************)
EXTENDS Integers, FiniteSets

CONSTANTS
  Notice,            \* deduplication keys
  Txn,               \* transactions that may queue a notice
  Reachable,         \* the notices to runners with Telegram
  SendMaxAttempts,
  NONE

ASSUME DeliveryConstants ==
  /\ SendMaxAttempts \in Nat \ {0}
  /\ Reachable \subseteq Notice
  /\ NONE \notin Notice

VARIABLES
  txn,        \* each transaction: stage, and the notice whose rows it inserted
  log,        \* notification_logs: status and attempts; "none" where there is no row
  job,        \* River's job of each transaction: state and attempt
  sending,    \* what the worker has of the job's attempt in its memory
  delivered,  \* history: how often the runner got the notice
  unsure,     \* history: deliveries the log was not told of
  lost        \* history: notices whose last attempt could not be recorded

deliveryVars == <<txn, log, job, sending, delivered, unsure, lost>>

JobState == {"none", "waiting", "running", "completed", "cancelled", "discarded"}

DeliveryTypeOK ==
  /\ txn \in [Txn -> [stage : {"idle", "open", "done"}, notice : Notice \cup {NONE}]]
  /\ log \in [Notice -> [status : {"none", "PENDING", "SENT", "FAILED"}, attempts : Nat]]
  /\ job \in [Txn -> [state : JobState, attempt : 0 .. SendMaxAttempts]]
  /\ sending \in [Txn -> {"nothing", "loaded", "accepted", "refused", "blocked",
                          "recorded", "noted", "barred"}]
  /\ delivered \in [Notice -> Nat]
  /\ unsure \in [Notice -> Nat]
  /\ lost \subseteq Notice

DeliveryInit ==
  /\ txn = [t \in Txn |-> [stage |-> "idle", notice |-> NONE]]
  /\ log = [n \in Notice |-> [status |-> "none", attempts |-> 0]]
  /\ job = [t \in Txn |-> [state |-> "none", attempt |-> 0]]
  /\ sending = [t \in Txn |-> "nothing"]
  /\ delivered = [n \in Notice |-> 0]
  /\ unsure = [n \in Notice |-> 0]
  /\ lost = {}

-----------------------------------------------------------------------------
(* Queueing. *)

(* The unique index: an insert waits for one of the same key to end.       *)
KeyFree_NoWait(n) == TRUE

KeyFree(n) == \A t \in Txn : txn[t].stage = "open" => txn[t].notice # n

(* ON CONFLICT DO NOTHING inserts no row, and then no job.                 *)
Enqueue(t, n) ==
  /\ txn[t].stage = "idle"
  /\ KeyFree(n)
  /\ txn' = [txn EXCEPT ![t] =
       [stage |-> "open",
        notice |-> IF n \in Reachable /\ log[n].status = "none" THEN n ELSE NONE]]
  /\ UNCHANGED <<log, job, sending, delivered, unsure, lost>>

CommitTxn_JobLater(t) ==
  /\ txn[t].stage = "open"
  /\ txn' = [txn EXCEPT ![t].stage = "done"]
  /\ log' = [n \in Notice |->
               IF n = txn[t].notice THEN [status |-> "PENDING", attempts |-> 0] ELSE log[n]]
  /\ \E queued \in BOOLEAN :
       job' = [job EXCEPT ![t].state = IF txn[t].notice # NONE /\ queued THEN "waiting" ELSE "none"]
  /\ UNCHANGED <<sending, delivered, unsure, lost>>

CommitTxn(t) ==
  /\ txn[t].stage = "open"
  /\ txn' = [txn EXCEPT ![t].stage = "done"]
  /\ log' = [n \in Notice |->
               IF n = txn[t].notice THEN [status |-> "PENDING", attempts |-> 0] ELSE log[n]]
  /\ job' = [job EXCEPT ![t].state = IF txn[t].notice = NONE THEN "none" ELSE "waiting"]
  /\ UNCHANGED <<sending, delivered, unsure, lost>>

RollbackTxn(t) ==
  /\ txn[t].stage = "open"
  /\ txn' = [txn EXCEPT ![t] = [stage |-> "done", notice |-> NONE]]
  /\ UNCHANGED <<log, job, sending, delivered, unsure, lost>>

-----------------------------------------------------------------------------
(* Sending: one attempt of job t, about the notice of t. *)

About(t) == txn[t].notice

LastAttempt_Later(t) == job[t].attempt > SendMaxAttempts

LastAttempt(t) == job[t].attempt >= SendMaxAttempts

Start(t) ==
  /\ job[t].state = "waiting"
  /\ job' = [job EXCEPT ![t] = [state |-> "running", attempt |-> @.attempt + 1]]
  /\ UNCHANGED <<txn, log, sending, delivered, unsure, lost>>

(* The attempt ends with an error River is told of, or with its process.   *)
Retry(t) ==
  /\ job' = [job EXCEPT ![t].state =
       IF job[t].attempt >= SendMaxAttempts THEN "discarded" ELSE "waiting"]
  /\ sending' = [sending EXCEPT ![t] = "nothing"]

Load_SentToo(t) ==
  /\ job[t].state = "running" /\ sending[t] = "nothing"
  /\ sending' = [sending EXCEPT ![t] = "loaded"]
  /\ UNCHANGED <<txn, log, job, delivered, unsure, lost>>

(* A job never lacks its log: they were committed together.                *)
Load(t) ==
  /\ job[t].state = "running" /\ sending[t] = "nothing"
  /\ log[About(t)].status # "SENT"
  /\ sending' = [sending EXCEPT ![t] = "loaded"]
  /\ UNCHANGED <<txn, log, job, delivered, unsure, lost>>

SkipSent(t) ==
  /\ job[t].state = "running" /\ sending[t] = "nothing"
  /\ log[About(t)].status = "SENT"
  /\ sending' = [sending EXCEPT ![t] = "recorded"]
  /\ UNCHANGED <<txn, log, job, delivered, unsure, lost>>

(* Telegram delivers or not, and its answer arrives or not.                *)
Send(t) ==
  /\ sending[t] = "loaded"
  /\ \E answer \in {"accepted", "refused", "blocked"}, arrives \in BOOLEAN :
       /\ answer = "accepted" => arrives
       /\ answer = "blocked" => ~arrives
       /\ sending' = [sending EXCEPT ![t] = answer]
       /\ delivered' = [delivered EXCEPT ![About(t)] = IF arrives THEN @ + 1 ELSE @]
       /\ unsure' = [unsure EXCEPT ![About(t)] =
                       IF arrives /\ answer = "refused" THEN @ + 1 ELSE @]
  /\ UNCHANGED <<txn, log, job, lost>>

RecordSent(t) ==
  /\ sending[t] = "accepted"
  /\ log' = [log EXCEPT ![About(t)] = [status |-> "SENT", attempts |-> @.attempts + 1]]
  /\ sending' = [sending EXCEPT ![t] = "recorded"]
  /\ UNCHANGED <<txn, job, delivered, unsure, lost>>

RecordFailure(t) ==
  /\ sending[t] \in {"refused", "blocked"}
  /\ log' = [log EXCEPT ![About(t)] =
       [status |-> IF sending[t] = "blocked" \/ LastAttempt(t) THEN "FAILED" ELSE "PENDING",
        attempts |-> @.attempts + 1]]
  /\ sending' = [sending EXCEPT ![t] = IF @ = "blocked" THEN "barred" ELSE "noted"]
  /\ UNCHANGED <<txn, job, delivered, unsure, lost>>

(* Work returns, and River records what became of the job: cancelled for a *)
(* recipient who blocked the bot.                                          *)
Return(t) ==
  /\ \/ /\ sending[t] \in {"recorded", "barred"}
        /\ job' = [job EXCEPT ![t].state =
                     IF sending[t] = "barred" THEN "cancelled" ELSE "completed"]
        /\ sending' = [sending EXCEPT ![t] = "nothing"]
     \/ sending[t] = "noted" /\ Retry(t)
  /\ UNCHANGED <<txn, log, delivered, unsure, lost>>

(* Loading the log or recording the outcome fails, the job runs out of     *)
(* time, or the worker's process ends: what the attempt did is forgotten.  *)
Forget(t) ==
  /\ job[t].state = "running"
  /\ Retry(t)
  /\ unsure' = [n \in Notice |->
       IF n = About(t) /\ sending[t] = "accepted" THEN unsure[n] + 1 ELSE unsure[n]]
  /\ lost' = IF job'[t].state = "discarded" /\ log[About(t)].status = "PENDING"
               THEN lost \cup {About(t)} ELSE lost
  /\ UNCHANGED <<txn, log, delivered>>

Attempt(t) ==
  \/ Start(t) \/ Load(t) \/ SkipSent(t) \/ Send(t)
  \/ RecordSent(t) \/ RecordFailure(t) \/ Return(t) \/ Forget(t)

-----------------------------------------------------------------------------
Ended == {"completed", "cancelled", "discarded"}

(* A recorded notice has one job, and a job its recorded notice, whichever *)
(* transactions queue the same notice and however they end.                *)
OneJobPerNotice ==
  /\ \A n \in Notice :
       Cardinality({t \in Txn : job[t].state # "none" /\ About(t) = n})
         = (IF log[n].status = "none" THEN 0 ELSE 1)
  /\ \A t \in Txn : job[t].state # "none" => About(t) \in Reachable

(* A runner gets a notice again only after a delivery the log was not told *)
(* of, and a log that says SENT tells of a delivery.                       *)
ResendsExplained ==
  \A n \in Notice :
    /\ delivered[n] <= unsure[n] + 1
    /\ log[n].status = "SENT" => delivered[n] > unsure[n]

(* When its job has ended a notice is no longer PENDING, except when the   *)
(* last attempt could not be recorded; and none is given up before that.   *)
NoSilentLoss ==
  \A t \in Txn :
    /\ job[t].state \in Ended =>
         (log[About(t)].status = "PENDING" <=> About(t) \in lost)
    /\ job[t].state \in {"none", "waiting", "running"} => About(t) \notin lost

(* Every notice that was queued comes to an end: its job is not tried for  *)
(* ever and none is forgotten.                                             *)
NoticesSettle ==
  \A n \in Notice :
    log[n].status # "none" ~> \E t \in Txn : About(t) = n /\ job[t].state \in Ended
=============================================================================
