------------------------------ MODULE Outside ------------------------------
(***************************************************************************)
(* What the transactions of the server do outside the database: images on  *)
(* the disk and messages at Telegram.  Requests of the server process      *)
(* upload images and queue notices about them; the worker process sends.   *)
(***************************************************************************)
EXTENDS Uploads, Delivery

outsideVars == <<uploadVars, deliveryVars>>

OutsideInit == UploadsInit /\ DeliveryInit

(* A notice about a proof is queued by its review, once it is uploaded.    *)
Queue(t, n) ==
  /\ n \in Upload => n \in fileRow
  /\ Enqueue(t, n)
  /\ UNCHANGED uploadVars

(* The server process ends: uploads as above, open transactions roll back. *)
ServerRestart ==
  /\ ServerStops
  /\ txn' = [t \in Txn |-> IF txn[t].stage = "open" THEN [stage |-> "done", notice |-> NONE]
                           ELSE txn[t]]
  /\ UNCHANGED <<log, job, sending, delivered, unsure, lost>>

End(t) == (CommitTxn(t) \/ RollbackTxn(t)) /\ UNCHANGED uploadVars

Work(t) == Attempt(t) /\ UNCHANGED uploadVars

OutsideNext ==
  \/ \E u \in Upload : Handle(u) /\ UNCHANGED deliveryVars
  \/ \E t \in Txn, n \in Notice : Queue(t, n)
  \/ \E t \in Txn : End(t)
  \/ \E t \in Txn : Work(t)
  \/ ServerRestart

OutsideSpec == OutsideInit /\ [][OutsideNext]_outsideVars

(* River starts a waiting job again until its attempts are used up, and a  *)
(* transaction ends.                                                       *)
OutsideFairness == \A t \in Txn : WF_outsideVars(Work(t)) /\ WF_outsideVars(End(t))

FairOutsideSpec == OutsideSpec /\ OutsideFairness
=============================================================================
