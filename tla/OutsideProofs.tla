--------------------------- MODULE OutsideProofs ---------------------------
(***************************************************************************)
(* Images and notices, for every value of the constants.                   *)
(***************************************************************************)
EXTENDS Outside, FiniteSetTheorems, TLAPS

(* Images.  An upload whose transaction has not been tried has no rows,    *)
(* one that was reported as failed has none or is unacked.                 *)
UploadInv ==
  /\ upload \in [Upload -> {"idle", "stored", "failed", "done"}]
  /\ \A u \in Upload :
       /\ upload[u] \in {"idle", "stored"} => u \notin fileRow
       /\ upload[u] = "stored" => u \in image
       /\ upload[u] = "failed" => u \notin fileRow \/ u \in unacked
  /\ ImagesMatchRows

LEMMA UploadsInitial == UploadsInit => UploadInv
BY KeysDiffer DEF UploadsInit, UploadInv, ImagesMatchRows

LEMMA StoringKeepsImages ==
  ASSUME UploadInv, NEW u \in Upload, Put(u) \/ PutFails(u)
  PROVE  UploadInv'
BY DEF UploadInv, ImagesMatchRows, Put, PutFails, Goto

LEMMA CommittingKeepsImages ==
  ASSUME UploadInv, NEW u \in Upload, Commit(u) \/ CommitUnanswered(u) \/ Rollback(u) \/ Panics(u)
  PROVE  UploadInv'
BY DEF UploadInv, ImagesMatchRows, Commit, CommitUnanswered, Rollback, Panics, Insert, Goto

LEMMA DiscardingKeepsImages ==
  ASSUME UploadInv, NEW u \in Upload, Discard(u) \/ DiscardFails(u)
  PROVE  UploadInv'
BY DEF UploadInv, ImagesMatchRows, Discard, DiscardFails, Goto

LEMMA StoppingKeepsImages == UploadInv /\ ServerStops => UploadInv'
BY DEF UploadInv, ImagesMatchRows, ServerStops

LEMMA StepKeepsImages == UploadInv /\ [OutsideNext]_outsideVars => UploadInv'
<1>1. UploadInv /\ UNCHANGED uploadVars => UploadInv'
  BY DEF UploadInv, ImagesMatchRows, uploadVars
<1>2. UploadInv /\ (\E u \in Upload : Handle(u)) => UploadInv'
  BY StoringKeepsImages, CommittingKeepsImages, DiscardingKeepsImages DEF Handle
<1>3. UploadInv /\ ServerRestart => UploadInv'
  BY StoppingKeepsImages DEF ServerRestart
<1>4. QED
  BY <1>1, <1>2, <1>3 DEF OutsideNext, Queue, End, Work, outsideVars

(* Rows and images come apart only on the paths ImagesMatchRows names.     *)
THEOREM ImagesKept == OutsideSpec => []ImagesMatchRows
<1>1. OutsideInit => UploadInv
  BY UploadsInitial DEF OutsideInit
<1>2. UploadInv => ImagesMatchRows
  BY DEF UploadInv
<1>3. QED
  BY <1>1, <1>2, StepKeepsImages, PTL DEF OutsideSpec

-----------------------------------------------------------------------------
(* Notices.  A notice belongs to the one transaction that inserted its     *)
(* rows, and has a job as long as it has a row.                            *)
Stages == {"idle", "open", "done"}
Statuses == {"none", "PENDING", "SENT", "FAILED"}
Progress == {"nothing", "loaded", "accepted", "refused", "blocked", "recorded", "noted", "barred"}

NoticeTypes ==
  /\ txn \in [Txn -> [stage : Stages, notice : Notice \cup {NONE}]]
  /\ log \in [Notice -> [status : Statuses, attempts : Nat]]
  /\ job \in [Txn -> [state : JobState, attempt : Nat]]
  /\ sending \in [Txn -> Progress]
  /\ delivered \in [Notice -> Nat]
  /\ unsure \in [Notice -> Nat]
  /\ lost \subseteq Notice

Queueing ==
  /\ \A t \in Txn :
       /\ txn[t].stage = "idle" => About(t) = NONE
       /\ About(t) # NONE => About(t) \in Reachable
       /\ job[t].state # "none" <=> txn[t].stage = "done" /\ About(t) # NONE
       /\ txn[t].stage = "open" /\ About(t) # NONE => log[About(t)].status = "none"
       /\ job[t].state # "none" => log[About(t)].status # "none"
  /\ \A t, u \in Txn : About(t) # NONE /\ About(t) = About(u) => t = u
  /\ \A n \in Notice : log[n].status # "none" => \E t \in Txn : About(t) = n /\ job[t].state # "none"

(* What a log, the worker's memory and the runner know of a notice.        *)
Unsent ==
  \A n \in Notice : log[n].status = "none" => delivered[n] = unsure[n] /\ n \notin lost

Story(t) ==
  LET n == About(t) IN
    job[t].state # "none" =>
      /\ sending[t] # "nothing" => job[t].state = "running"
      /\ log[n].status = "SENT" => sending[t] \in {"nothing", "recorded"} /\ delivered[n] = unsure[n] + 1
      /\ sending[t] = "recorded" => log[n].status = "SENT"
      /\ log[n].status # "SENT" /\ sending[t] = "accepted" => delivered[n] = unsure[n] + 1
      /\ log[n].status # "SENT" /\ sending[t] # "accepted" => delivered[n] = unsure[n]
      /\ sending[t] = "barred" => log[n].status = "FAILED"
      /\ sending[t] = "noted" /\ job[t].attempt >= SendMaxAttempts => log[n].status = "FAILED"
      /\ job[t].state \in Ended => (log[n].status = "PENDING" <=> n \in lost)
      /\ job[t].state \notin Ended => n \notin lost

NoticeInv ==
  /\ NoticeTypes
  /\ Queueing
  /\ Unsent
  /\ \A t \in Txn : Story(t) /\ (job[t].state = "none" => sending[t] = "nothing")

LEMMA NoticesInitial == DeliveryInit => NoticeInv
BY DeliveryConstants
   DEF DeliveryInit, NoticeInv, NoticeTypes, Queueing, Unsent, Story, About, Stages, Statuses, Progress, JobState

-----------------------------------------------------------------------------
(* Queueing. *)

LEMMA EnqueueKeeps ==
  ASSUME NoticeInv, NEW t \in Txn, NEW n \in Notice, Enqueue(t, n)
  PROVE  NoticeInv'
<1> USE DeliveryConstants
<1>1. /\ UNCHANGED <<log, job, sending, delivered, unsure, lost>>
      /\ txn[t].stage = "idle" /\ txn'[t].stage = "open"
      /\ txn'[t].notice = IF n \in Reachable /\ log[n].status = "none" THEN n ELSE NONE
      /\ \A u \in Txn \ {t} : txn'[u] = txn[u]
  BY DEF NoticeInv, NoticeTypes, Enqueue
<1>2. NoticeTypes'
  BY <1>1 DEF NoticeInv, NoticeTypes, Enqueue, Stages
<1>3. job[t].state = "none"
  BY <1>1 DEF NoticeInv, Queueing
<1>4. ASSUME txn'[t].notice # NONE, NEW u \in Txn, About(u) = txn'[t].notice PROVE FALSE
  <2>1. log[About(u)].status = "none" /\ About(u) = n /\ n # NONE
    BY <1>1, <1>4
  <2>2. txn[u].stage # "open"
    BY <1>4, <2>1 DEF Enqueue, KeyFree, About
  <2>3. txn[u].stage # "idle" /\ txn[u].stage # "done"
    BY <2>1 DEF NoticeInv, Queueing
  <2>4. QED
    BY <2>2, <2>3 DEF NoticeInv, NoticeTypes, Stages
<1>5. Queueing'
  <2>1. \A u \in Txn : /\ txn'[u].stage = "idle" => txn'[u].notice = NONE
                       /\ txn'[u].notice # NONE => txn'[u].notice \in Reachable
                       /\ job[u].state # "none" <=> txn'[u].stage = "done" /\ txn'[u].notice # NONE
                       /\ txn'[u].stage = "open" /\ txn'[u].notice # NONE => log[txn'[u].notice].status = "none"
                       /\ job[u].state # "none" => log[txn'[u].notice].status # "none"
    BY <1>1, <1>3 DEF NoticeInv, Queueing, About
  <2>2. \A u, w \in Txn : txn'[u].notice # NONE /\ txn'[u].notice = txn'[w].notice => u = w
    BY <1>1, <1>4 DEF NoticeInv, Queueing, About
  <2>3. \A m \in Notice : log[m].status # "none" => \E u \in Txn : txn'[u].notice = m /\ job[u].state # "none"
    BY <1>1, <1>3 DEF NoticeInv, Queueing, About
  <2>4. QED
    BY <1>1, <2>1, <2>2, <2>3 DEF Queueing, About
<1>6. \A u \in Txn : Story(u)' /\ (job'[u].state = "none" => sending'[u] = "nothing")
  BY <1>1, <1>3 DEF NoticeInv, Story, About
<1>7. QED
  BY <1>1, <1>2, <1>5, <1>6 DEF NoticeInv, Unsent

LEMMA CommitKeeps ==
  ASSUME NoticeInv, NEW t \in Txn, CommitTxn(t)
  PROVE  NoticeInv'
<1> USE DeliveryConstants
<1>1. /\ UNCHANGED <<sending, delivered, unsure, lost>>
      /\ txn[t].stage = "open" /\ txn'[t].stage = "done" /\ \A u \in Txn : About(u)' = About(u)
      /\ \A u \in Txn \ {t} : txn'[u] = txn[u] /\ job'[u] = job[u]
      /\ job'[t].state = (IF About(t) = NONE THEN "none" ELSE "waiting")
      /\ job[t].state = "none" /\ sending[t] = "nothing"
  BY DEF NoticeInv, NoticeTypes, Queueing, CommitTxn, About
<1>2. \A n \in Notice : log'[n] = IF n = About(t) THEN [status |-> "PENDING", attempts |-> 0] ELSE log[n]
  BY DEF CommitTxn, About
<1>3. NoticeTypes'
  <2>1. txn' \in [Txn -> [stage : Stages, notice : Notice \cup {NONE}]]
    BY DEF NoticeInv, NoticeTypes, CommitTxn, Stages
  <2>2. log' \in [Notice -> [status : Statuses, attempts : Nat]]
    BY DEF NoticeInv, NoticeTypes, CommitTxn, Statuses
  <2>3. job' \in [Txn -> [state : JobState, attempt : Nat]]
    BY DEF NoticeInv, NoticeTypes, CommitTxn, JobState
  <2>4. QED
    BY <1>1, <2>1, <2>2, <2>3 DEF NoticeInv, NoticeTypes
<1>4. About(t) # NONE => About(t) \in Notice /\ log[About(t)].status = "none" /\ log'[About(t)].status = "PENDING"
  BY <1>1, <1>2 DEF NoticeInv, Queueing
<1>5. \A u \in Txn \ {t} : About(u) # NONE => About(u) \in Notice /\ About(u) # About(t) /\ log'[About(u)] = log[About(u)]
  BY <1>2 DEF NoticeInv, Queueing
<1>6. Queueing'
  <2>1. \A u \in Txn : /\ txn'[u].stage = "idle" => About(u) = NONE
                       /\ About(u) # NONE => About(u) \in Reachable
                       /\ job'[u].state # "none" <=> txn'[u].stage = "done" /\ About(u) # NONE
                       /\ txn'[u].stage = "open" /\ About(u) # NONE => log'[About(u)].status = "none"
                       /\ job'[u].state # "none" => log'[About(u)].status # "none"
    BY <1>1, <1>4, <1>5 DEF NoticeInv, Queueing
  <2>2. ASSUME NEW m \in Notice, log'[m].status # "none"
        PROVE  \E u \in Txn : About(u) = m /\ job'[u].state # "none"
    <3>1. CASE m = About(t)
      BY <1>1, <3>1
    <3>2. CASE m # About(t)
      BY <1>1, <1>2, <2>2, <3>2 DEF NoticeInv, Queueing
    <3>3. QED
      BY <3>1, <3>2
  <2>3. \A u, w \in Txn : About(u) # NONE /\ About(u) = About(w) => u = w
    BY DEF NoticeInv, Queueing
  <2>4. QED
    BY <1>1, <2>1, <2>2, <2>3 DEF Queueing
<1>7. Unsent'
  BY <1>1, <1>2 DEF NoticeInv, Unsent
<1>8. \A u \in Txn \ {t} : Story(u)' /\ (job'[u].state = "none" => sending'[u] = "nothing")
  BY <1>1, <1>5 DEF NoticeInv, Queueing, Story, LastAttempt
<1>9. Story(t)' /\ (job'[t].state = "none" => sending'[t] = "nothing")
  BY <1>1, <1>4 DEF NoticeInv, Unsent, Story, Ended
<1>10. QED
  BY <1>3, <1>6, <1>7, <1>8, <1>9 DEF NoticeInv

(* Any number of open transactions roll back. *)
LEMMA RollbackKeeps ==
  ASSUME NoticeInv, UNCHANGED <<log, job, sending, delivered, unsure, lost>>, NoticeTypes',
         \A u \in Txn : \/ txn'[u] = txn[u]
                        \/ txn[u].stage = "open" /\ txn'[u] = [stage |-> "done", notice |-> NONE]
  PROVE  NoticeInv'
<1>1. \A u \in Txn : job[u].state # "none" => About(u)' = About(u)
  BY DEF NoticeInv, Queueing, About
<1>2. \A u \in Txn : txn'[u] # txn[u] => txn[u].stage = "open" /\ txn'[u].stage = "done" /\ About(u)' = NONE
  BY DEF About
<1>3. \A u \in Txn : About(u)' # NONE => About(u)' = About(u)
  BY <1>2 DEF About
<1>4. Queueing'
  <2>1. \A u \in Txn : /\ txn'[u].stage = "idle" => About(u)' = NONE
                       /\ About(u)' # NONE => About(u)' \in Reachable
                       /\ job[u].state # "none" <=> txn'[u].stage = "done" /\ About(u)' # NONE
                       /\ txn'[u].stage = "open" /\ About(u)' # NONE => log[About(u)'].status = "none"
                       /\ job[u].state # "none" => log[About(u)'].status # "none"
    BY <1>1, <1>2 DEF NoticeInv, Queueing, About
  <2>2. \A u, w \in Txn : About(u)' # NONE /\ About(u)' = About(w)' => u = w
    BY <1>3 DEF NoticeInv, Queueing
  <2>3. \A m \in Notice : log[m].status # "none" => \E u \in Txn : About(u)' = m /\ job[u].state # "none"
    BY <1>1 DEF NoticeInv, Queueing
  <2>4. QED
    BY <2>1, <2>2, <2>3 DEF Queueing
<1>5. \A u \in Txn : Story(u)' /\ (job'[u].state = "none" => sending'[u] = "nothing")
  BY <1>1 DEF NoticeInv, Story
<1>6. QED
  BY <1>4, <1>5 DEF NoticeInv, Unsent

-----------------------------------------------------------------------------
(* Sending. *)

(* What a step of t's job must show: it touches nothing but its notice.    *)
LEMMA AttemptKeeps ==
  ASSUME NoticeInv, NoticeTypes', txn' = txn, NEW t \in Txn,
         job[t].state # "none", job'[t].state # "none",
         \A u \in Txn \ {t} : job'[u] = job[u] /\ sending'[u] = sending[u],
         \A m \in Notice \ {About(t)} : /\ log'[m] = log[m]
                                        /\ delivered'[m] = delivered[m] /\ unsure'[m] = unsure[m]
                                        /\ m \in lost' <=> m \in lost,
         log'[About(t)].status # "none",
         Story(t)'
  PROVE  NoticeInv'
<1> USE DeliveryConstants
<1>1. \A u \in Txn : /\ About(u)' = About(u)
                     /\ job'[u].state # "none" <=> job[u].state # "none"
  BY DEF About
<1>2. About(t) \in Notice /\ log[About(t)].status # "none" /\ About(t) # NONE
  BY DEF NoticeInv, Queueing
<1>3. \A m \in Notice : log'[m].status # "none" <=> log[m].status # "none"
  BY <1>2
<1>4. \A u \in Txn \ {t} : About(u) # NONE => About(u) \in Notice \ {About(t)}
  BY <1>2 DEF NoticeInv, Queueing
<1>5. Queueing'
  <2>1. \A u \in Txn : /\ txn[u].stage = "idle" => About(u) = NONE
                       /\ About(u) # NONE => About(u) \in Reachable
                       /\ job'[u].state # "none" <=> txn[u].stage = "done" /\ About(u) # NONE
                       /\ txn[u].stage = "open" /\ About(u) # NONE => log'[About(u)].status = "none"
                       /\ job'[u].state # "none" => log'[About(u)].status # "none"
    BY <1>1, <1>3 DEF NoticeInv, Queueing
  <2>2. \A m \in Notice : log'[m].status # "none" => \E u \in Txn : About(u) = m /\ job'[u].state # "none"
    BY <1>1, <1>3 DEF NoticeInv, Queueing
  <2>3. \A u, w \in Txn : About(u) # NONE /\ About(u) = About(w) => u = w
    BY DEF NoticeInv, Queueing
  <2>4. QED
    BY <1>1, <2>1, <2>2, <2>3 DEF Queueing
<1>6. Unsent'
  BY <1>2, <1>3 DEF NoticeInv, Unsent
<1>7. \A u \in Txn \ {t} : Story(u)' /\ (job'[u].state = "none" => sending'[u] = "nothing")
  <2> SUFFICES ASSUME NEW u \in Txn \ {t}
               PROVE  Story(u)' /\ (job'[u].state = "none" => sending'[u] = "nothing")
    OBVIOUS
  <2>1. job[u].state # "none" => About(u) \in Notice \ {About(t)}
    BY <1>4 DEF NoticeInv, Queueing
  <2>2. QED
    BY <1>1, <2>1 DEF NoticeInv, Story
<1>8. QED
  BY <1>5, <1>6, <1>7 DEF NoticeInv

(* What each step of t's job starts from. *)
LEMMA JobFacts ==
  ASSUME NoticeInv, NEW t \in Txn, job[t].state # "none"
  PROVE  /\ About(t) \in Notice /\ log[About(t)] \in [status : Statuses, attempts : Nat]
         /\ log[About(t)].status # "none"
         /\ delivered[About(t)] \in Nat /\ unsure[About(t)] \in Nat
         /\ job[t] \in [state : JobState, attempt : Nat] /\ sending[t] \in Progress
         /\ Story(t)
BY DeliveryConstants DEF NoticeInv, NoticeTypes, Queueing

LEMMA StartKeeps ==
  ASSUME NoticeInv, NEW t \in Txn, Start(t)
  PROVE  NoticeInv'
<1>1. job[t].state = "waiting" /\ UNCHANGED <<txn, log, sending, delivered, unsure, lost>>
  BY DEF Start
<1>2. NoticeTypes'
  BY JobFacts, <1>1 DEF NoticeInv, NoticeTypes, Start, JobState
<1>3. job'[t].state = "running" /\ \A u \in Txn \ {t} : job'[u] = job[u]
  BY DEF NoticeInv, NoticeTypes, Start
<1>4. sending[t] = "nothing"
  BY <1>1, JobFacts DEF Story
<1>5. Story(t)'
  BY <1>1, <1>3, <1>4, JobFacts DEF Story, About, Ended
<1>6. QED
  BY <1>1, <1>2, <1>3, <1>5, AttemptKeeps, JobFacts

LEMMA LoadKeeps ==
  ASSUME NoticeInv, NEW t \in Txn, Load(t) \/ SkipSent(t)
  PROVE  NoticeInv'
<1>1. job[t].state = "running" /\ sending[t] = "nothing"
      /\ UNCHANGED <<txn, log, job, delivered, unsure, lost>>
  BY DEF Load, SkipSent
<1>2. NoticeTypes'
  BY DEF NoticeInv, NoticeTypes, Load, SkipSent, Progress
<1>3. /\ \/ sending'[t] = "loaded" /\ log[About(t)].status # "SENT"
         \/ sending'[t] = "recorded" /\ log[About(t)].status = "SENT"
      /\ \A u \in Txn \ {t} : sending'[u] = sending[u]
  BY DEF NoticeInv, NoticeTypes, Load, SkipSent
<1>4. Story(t)'
  BY <1>1, <1>3, JobFacts DEF Story, About, Ended
<1>5. QED
  BY <1>1, <1>2, <1>3, <1>4, AttemptKeeps, JobFacts

LEMMA SendKeeps ==
  ASSUME NoticeInv, NEW t \in Txn, Send(t)
  PROVE  NoticeInv'
<1> DEFINE n == About(t)
<1>1. sending[t] = "loaded" /\ UNCHANGED <<txn, log, job, lost>>
  BY DEF Send
<1>2. job[t].state = "running"
  BY <1>1 DEF NoticeInv, Story
<1>3. PICK answer \in {"accepted", "refused", "blocked"}, arrives \in BOOLEAN :
        /\ answer = "accepted" => arrives
        /\ answer = "blocked" => ~arrives
        /\ sending' = [sending EXCEPT ![t] = answer]
        /\ delivered' = [delivered EXCEPT ![n] = IF arrives THEN @ + 1 ELSE @]
        /\ unsure' = [unsure EXCEPT ![n] = IF arrives /\ answer = "refused" THEN @ + 1 ELSE @]
  BY DEF Send
<1>4. /\ sending'[t] = answer
      /\ delivered'[n] = (IF arrives THEN delivered[n] + 1 ELSE delivered[n])
      /\ unsure'[n] = (IF arrives /\ answer = "refused" THEN unsure[n] + 1 ELSE unsure[n])
      /\ \A u \in Txn \ {t} : sending'[u] = sending[u]
      /\ \A m \in Notice \ {n} : delivered'[m] = delivered[m] /\ unsure'[m] = unsure[m]
  BY <1>2, <1>3, JobFacts DEF NoticeInv, NoticeTypes
<1>5. NoticeTypes'
  BY <1>1, <1>2, <1>3, <1>4, JobFacts DEF NoticeInv, NoticeTypes, Progress
<1>6. delivered[n] = unsure[n] /\ delivered[n] \in Nat /\ log[n].status # "SENT" /\ n \notin lost
  BY <1>1, <1>2, JobFacts DEF Story, Ended
<1>7. delivered'[n] = IF answer = "accepted" THEN unsure'[n] + 1 ELSE unsure'[n]
  BY <1>3, <1>4, <1>6
<1>8. Story(t)'
  BY <1>1, <1>2, <1>4, <1>6, <1>7 DEF Story, About, Ended
<1>9. QED
  BY <1>1, <1>2, <1>4, <1>5, <1>8, AttemptKeeps, JobFacts

LEMMA RecordKeeps ==
  ASSUME NoticeInv, NEW t \in Txn, RecordSent(t) \/ RecordFailure(t)
  PROVE  NoticeInv'
<1> DEFINE n == About(t)
<1>1. sending[t] \in {"accepted", "refused", "blocked"} /\ UNCHANGED <<txn, job, delivered, unsure, lost>>
  BY DEF RecordSent, RecordFailure
<1>2. job[t].state = "running" /\ job[t].state # "none"
  BY <1>1 DEF NoticeInv, Story
<1>3. /\ n \in Notice /\ log[n].status # "SENT" /\ n \notin lost
      /\ sending[t] = "accepted" => delivered[n] = unsure[n] + 1
      /\ sending[t] # "accepted" => delivered[n] = unsure[n]
  BY <1>1, <1>2, JobFacts DEF Story, Ended
<1>4. /\ \/ sending[t] = "accepted" /\ log'[n].status = "SENT" /\ sending'[t] = "recorded"
         \/ sending[t] = "blocked" /\ log'[n].status = "FAILED" /\ sending'[t] = "barred"
         \/ /\ sending[t] = "refused" /\ sending'[t] = "noted"
            /\ log'[n].status = IF job[t].attempt >= SendMaxAttempts THEN "FAILED" ELSE "PENDING"
      /\ \A u \in Txn \ {t} : sending'[u] = sending[u]
      /\ \A m \in Notice \ {n} : log'[m] = log[m]
  <2>1. CASE RecordSent(t)
    BY <1>3, <2>1 DEF NoticeInv, NoticeTypes, RecordSent
  <2>2. CASE RecordFailure(t)
    BY <1>3, <2>2 DEF NoticeInv, NoticeTypes, RecordFailure, LastAttempt
  <2>3. QED
    BY <2>1, <2>2
<1>5. NoticeTypes'
  <2>1. log[n].attempts + 1 \in Nat
    BY <1>2, JobFacts
  <2>2. \A status \in Statuses :
          [log EXCEPT ![n] = [status |-> status, attempts |-> @.attempts + 1]]
            \in [Notice -> [status : Statuses, attempts : Nat]]
    BY <1>3, <2>1 DEF NoticeInv, NoticeTypes
  <2>3. \E status \in Statuses :
          log' = [log EXCEPT ![n] = [status |-> status, attempts |-> @.attempts + 1]]
    BY DEF RecordSent, RecordFailure, Statuses
  <2>4. log' \in [Notice -> [status : Statuses, attempts : Nat]]
    BY <2>2, <2>3
  <2>5. sending' \in [Txn -> Progress]
    BY DEF NoticeInv, NoticeTypes, RecordSent, RecordFailure, Progress
  <2>6. QED
    BY <1>1, <2>4, <2>5 DEF NoticeInv, NoticeTypes
<1>6. Story(t)'
  BY <1>1, <1>2, <1>3, <1>4 DEF Story, About, Ended
<1>7. log'[n].status # "none"
  BY <1>4
<1>8. QED
  BY <1>1, <1>2, <1>4, <1>5, <1>6, <1>7, AttemptKeeps

LEMMA ReturnKeeps ==
  ASSUME NoticeInv, NEW t \in Txn, Return(t)
  PROVE  NoticeInv'
<1> DEFINE n == About(t)
<1>1. sending[t] \in {"recorded", "barred", "noted"} /\ UNCHANGED <<txn, log, delivered, unsure, lost>>
  BY DEF Return
<1>2. job[t].state = "running" /\ job[t].state # "none"
  BY <1>1 DEF NoticeInv, Story
<1>3. /\ \/ sending[t] = "recorded" /\ job'[t].state = "completed"
         \/ sending[t] = "barred" /\ job'[t].state = "cancelled"
         \/ /\ sending[t] = "noted"
            /\ job'[t].state = IF job[t].attempt >= SendMaxAttempts THEN "discarded" ELSE "waiting"
      /\ sending'[t] = "nothing" /\ job'[t].attempt = job[t].attempt
      /\ \A u \in Txn \ {t} : sending'[u] = sending[u] /\ job'[u] = job[u]
  BY DEF NoticeInv, NoticeTypes, Return, Retry
<1>4. NoticeTypes'
  BY <1>1 DEF NoticeInv, NoticeTypes, Return, Retry, Progress, JobState
<1>5. n \in Notice /\ log[n].status # "none" /\ n \notin lost
      /\ (sending[t] = "recorded" => log[n].status = "SENT")
      /\ (sending[t] = "barred" => log[n].status = "FAILED")
      /\ (sending[t] = "noted" /\ job[t].attempt >= SendMaxAttempts => log[n].status = "FAILED")
      /\ (log[n].status = "SENT" => delivered[n] = unsure[n] + 1)
      /\ (log[n].status # "SENT" => delivered[n] = unsure[n])
  BY <1>1, <1>2, JobFacts DEF Story, Ended
<1>6. Story(t)'
  BY <1>1, <1>3, <1>5 DEF Story, About, Ended
<1>7. job'[t].state # "none"
  BY <1>3
<1>8. QED
  BY <1>1, <1>2, <1>3, <1>4, <1>5, <1>6, <1>7, AttemptKeeps

LEMMA ForgetKeeps ==
  ASSUME NoticeInv, NEW t \in Txn, Forget(t)
  PROVE  NoticeInv'
<1> DEFINE n == About(t)
<1>1. job[t].state = "running" /\ UNCHANGED <<txn, log, delivered>>
  BY DEF Forget
<1>2. /\ job'[t].state = (IF job[t].attempt >= SendMaxAttempts THEN "discarded" ELSE "waiting")
      /\ sending'[t] = "nothing" /\ job'[t].attempt = job[t].attempt
      /\ \A u \in Txn \ {t} : sending'[u] = sending[u] /\ job'[u] = job[u]
  BY DEF NoticeInv, NoticeTypes, Forget, Retry
<1>3. /\ n \in Notice /\ log[n].status # "none" /\ n \notin lost /\ unsure[n] \in Nat /\ Story(t)
  BY <1>1, JobFacts DEF Story, Ended
<1>4. /\ unsure'[n] = (IF sending[t] = "accepted" THEN unsure[n] + 1 ELSE unsure[n])
      /\ \A m \in Notice \ {n} : unsure'[m] = unsure[m]
  BY <1>3 DEF NoticeInv, NoticeTypes, Forget
<1>5. /\ n \in lost' <=> job'[t].state = "discarded" /\ log[n].status = "PENDING"
      /\ \A m \in Notice \ {n} : m \in lost' <=> m \in lost
      /\ lost' \subseteq Notice
  BY <1>3 DEF NoticeInv, NoticeTypes, Forget
<1>6. NoticeTypes'
  <2>1. unsure' \in [Notice -> Nat]
    BY DEF NoticeInv, NoticeTypes, Forget
  <2>2. QED
    BY <1>1, <1>5, <2>1 DEF NoticeInv, NoticeTypes, Forget, Retry, Progress, JobState
<1>7. delivered'[n] = IF log[n].status = "SENT" THEN unsure'[n] + 1 ELSE unsure'[n]
  BY <1>1, <1>3, <1>4 DEF Story
<1>8. Story(t)'
  BY <1>1, <1>2, <1>3, <1>5, <1>7 DEF Story, About, Ended
<1>9. job'[t].state # "none"
  BY <1>2
<1>10. QED
  BY <1>1, <1>2, <1>3, <1>4, <1>5, <1>6, <1>8, <1>9, AttemptKeeps

-----------------------------------------------------------------------------
LEMMA StepKeepsNotices == NoticeInv /\ [OutsideNext]_outsideVars => NoticeInv'
<1> SUFFICES ASSUME NoticeInv, [OutsideNext]_outsideVars PROVE NoticeInv'
  OBVIOUS
<1>1. CASE UNCHANGED deliveryVars
  BY <1>1 DEF deliveryVars, NoticeInv, NoticeTypes, Queueing, Unsent, Story, About
<1>2. ASSUME NEW t \in Txn, NEW n \in Notice, Queue(t, n) PROVE NoticeInv'
  BY <1>2, EnqueueKeeps DEF Queue
<1>3. ASSUME NEW t \in Txn, RollbackTxn(t) PROVE NoticeInv'
  <2>1. UNCHANGED <<log, job, sending, delivered, unsure, lost>>
    BY <1>3 DEF RollbackTxn
  <2>2. NoticeTypes'
    BY <1>3 DEF RollbackTxn, NoticeInv, NoticeTypes, Stages
  <2>3. \A u \in Txn : \/ txn'[u] = txn[u]
                       \/ txn[u].stage = "open" /\ txn'[u] = [stage |-> "done", notice |-> NONE]
    BY <1>3 DEF RollbackTxn, NoticeInv, NoticeTypes
  <2>4. QED
    BY <2>1, <2>2, <2>3, RollbackKeeps
<1>4. ASSUME NEW t \in Txn, End(t) PROVE NoticeInv'
  BY <1>3, <1>4, CommitKeeps DEF End
<1>5. ASSUME NEW t \in Txn, Work(t) PROVE NoticeInv'
  BY <1>5, StartKeeps, LoadKeeps, SendKeeps, RecordKeeps, ReturnKeeps, ForgetKeeps DEF Work, Attempt
<1>6. CASE ServerRestart
  <2>1. UNCHANGED <<log, job, sending, delivered, unsure, lost>>
    BY <1>6 DEF ServerRestart
  <2>2. NoticeTypes'
    BY <1>6 DEF ServerRestart, NoticeInv, NoticeTypes, Stages
  <2>3. \A u \in Txn : \/ txn'[u] = txn[u]
                       \/ txn[u].stage = "open" /\ txn'[u] = [stage |-> "done", notice |-> NONE]
    BY <1>6 DEF ServerRestart
  <2>4. QED
    BY <2>1, <2>2, <2>3, RollbackKeeps
<1>7. QED
  BY <1>1, <1>2, <1>4, <1>5, <1>6 DEF OutsideNext, outsideVars

LEMMA NoticesInvariant == OutsideSpec => []NoticeInv
<1>1. OutsideInit => NoticeInv
  BY NoticesInitial DEF OutsideInit
<1>2. QED
  BY <1>1, StepKeepsNotices, PTL DEF OutsideSpec

(* A notice that is recorded has exactly one job.                          *)
THEOREM JobsMatchLog == OutsideSpec => []OneJobPerNotice
<1>1. ASSUME NoticeInv PROVE OneJobPerNotice
  <2> DEFINE Jobs(n) == {t \in Txn : job[t].state # "none" /\ About(t) = n}
  <2>1. ASSUME NEW n \in Notice, log[n].status = "none" PROVE Cardinality(Jobs(n)) = 0
    <3>1. Jobs(n) = {}
      BY <1>1, <2>1 DEF NoticeInv, Queueing
    <3>2. QED
      BY <3>1, FS_EmptySet
  <2>2. ASSUME NEW n \in Notice, log[n].status # "none" PROVE Cardinality(Jobs(n)) = 1
    <3>1. PICK t \in Txn : About(t) = n /\ job[t].state # "none"
      BY <1>1, <2>2 DEF NoticeInv, Queueing
    <3>2. n # NONE
      BY DeliveryConstants
    <3>3. Jobs(n) = {t}
      BY <1>1, <3>1, <3>2 DEF NoticeInv, Queueing
    <3>4. QED
      BY <3>3, FS_Singleton
  <2>3. \A t \in Txn : job[t].state # "none" => About(t) \in Reachable
    BY <1>1 DEF NoticeInv, Queueing
  <2>4. QED
    BY <2>1, <2>2, <2>3 DEF OneJobPerNotice
<1>2. QED
  BY <1>1, NoticesInvariant, PTL

(* Every delivery but one is one the log was not told of.                  *)
THEOREM ResendsAccounted == OutsideSpec => []ResendsExplained
<1>1. ASSUME NoticeInv PROVE ResendsExplained
  <2> SUFFICES ASSUME NEW n \in Notice
               PROVE  /\ delivered[n] <= unsure[n] + 1
                      /\ log[n].status = "SENT" => delivered[n] > unsure[n]
    BY DEF ResendsExplained
  <2>1. delivered[n] \in Nat /\ unsure[n] \in Nat
    BY <1>1 DEF NoticeInv, NoticeTypes
  <2>2. CASE log[n].status = "none"
    BY <1>1, <2>1, <2>2 DEF NoticeInv, Unsent
  <2>3. CASE log[n].status # "none"
    <3>1. PICK t \in Txn : About(t) = n /\ job[t].state # "none"
      BY <1>1, <2>3 DEF NoticeInv, Queueing
    <3>2. Story(t)
      BY <1>1 DEF NoticeInv
    <3>3. QED
      BY <2>1, <3>1, <3>2 DEF Story
  <2>4. QED
    BY <2>2, <2>3
<1>2. QED
  BY <1>1, NoticesInvariant, PTL

(* A notice stays PENDING without a job only if its last attempt could not *)
(* be recorded.                                                            *)
THEOREM LossesKnown == OutsideSpec => []NoSilentLoss
<1>1. ASSUME NoticeInv PROVE NoSilentLoss
  <2> SUFFICES ASSUME NEW t \in Txn
               PROVE  /\ job[t].state \in Ended =>
                           (log[About(t)].status = "PENDING" <=> About(t) \in lost)
                      /\ job[t].state \in {"none", "waiting", "running"} => About(t) \notin lost
    BY DEF NoSilentLoss
  <2>1. CASE job[t].state # "none"
    BY <1>1, <2>1 DEF NoticeInv, Story, Ended
  <2>2. CASE job[t].state = "none"
    <3>1. About(t) # NONE => About(t) \in Notice /\ log[About(t)].status = "none"
      BY <1>1, <2>2, DeliveryConstants DEF NoticeInv, NoticeTypes, Queueing, About, Stages
    <3>2. About(t) \notin lost
      BY <1>1, <3>1, DeliveryConstants DEF NoticeInv, NoticeTypes, Unsent
    <3>3. QED
      BY <2>2, <3>2 DEF Ended
  <2>3. QED
    BY <2>1, <2>2
<1>2. QED
  BY <1>1, NoticesInvariant, PTL
=============================================================================
