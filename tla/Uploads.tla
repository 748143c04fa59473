------------------------------ MODULE Uploads ------------------------------
(***************************************************************************)
(* Images uploaded to the server: payment proofs (payment/proofs.go) and   *)
(* the QR codes of payment accounts (payment/accounts.go).  The image is   *)
(* written to the disk first and the rows in a transaction after it, so    *)
(* the two can come apart.                                                 *)
(*                                                                         *)
(* An upload is named by its storage key.  Put's temporary file is left    *)
(* out: nobody opens it under a key.                                       *)
(***************************************************************************)
CONSTANTS
  Upload,   \* the keys of uploads
  Qr,       \* those that replace the QR code of the account
  FirstQr   \* the QR code the account was created with

ASSUME KeysDiffer == Qr \subseteq Upload /\ FirstQr \notin Upload

VARIABLES
  image,     \* keys there is a file for on the disk
  fileRow,   \* keys there is a row of "files" for, with what refers to it
  qr,        \* the key the account's qr_file_id leads to
  upload,    \* how far the handler of each upload is
  unacked,   \* history: committed, and reported to the handler as failed
  stranded   \* history: the process ended, the handler panicked or the delete failed

uploadVars == <<image, fileRow, qr, upload, unacked, stranded>>

Key == Upload \cup {FirstQr}

UploadsTypeOK ==
  /\ image \subseteq Key
  /\ fileRow \subseteq Key
  /\ qr \in Key
  /\ upload \in [Upload -> {"idle", "stored", "failed", "done"}]
  /\ unacked \subseteq Upload
  /\ stranded \subseteq Upload

UploadsInit ==
  /\ image = {FirstQr} /\ fileRow = {FirstQr} /\ qr = FirstQr
  /\ upload = [u \in Upload |-> "idle"]
  /\ unacked = {} /\ stranded = {}

-----------------------------------------------------------------------------
Goto(u, stage) == upload' = [upload EXCEPT ![u] = stage]

(* The file appears under its key by a rename, whole or not at all.        *)
Put(u) ==
  /\ upload[u] = "idle"
  /\ image' = image \cup {u}
  /\ Goto(u, "stored")
  /\ UNCHANGED <<fileRow, qr, unacked, stranded>>

PutFails(u) ==
  /\ upload[u] = "idle"
  /\ Goto(u, "done")
  /\ UNCHANGED <<image, fileRow, qr, unacked, stranded>>

(* The rows of the upload; the file row of the QR code it replaces stays.  *)
Insert(u) ==
  /\ fileRow' = fileRow \cup {u}
  /\ qr' = IF u \in Qr THEN u ELSE qr

Commit_ThenDiscards(u) ==
  /\ upload[u] = "stored"
  /\ Insert(u)
  /\ Goto(u, "failed")
  /\ UNCHANGED <<image, unacked, stranded>>

Commit(u) ==
  /\ upload[u] = "stored"
  /\ Insert(u)
  /\ Goto(u, "done")
  /\ UNCHANGED <<image, unacked, stranded>>

(* The database committed, but the connection or the request's context     *)
(* ended before the answer came: Commit returns an error.                  *)
CommitUnanswered(u) ==
  /\ upload[u] = "stored"
  /\ Insert(u)
  /\ Goto(u, "failed")
  /\ unacked' = unacked \cup {u}
  /\ UNCHANGED <<image, stranded>>

(* A refusal by the code or an error: nothing of the transaction stays.    *)
Rollback(u) ==
  /\ upload[u] = "stored"
  /\ Goto(u, "failed")
  /\ UNCHANGED <<image, fileRow, qr, unacked, stranded>>

(* InTx rolls back and lets the panic go on to the server's middleware,    *)
(* which recovers it: discardFile is not reached.                          *)
Panics(u) ==
  /\ upload[u] = "stored"
  /\ stranded' = stranded \cup {u}
  /\ Goto(u, "done")
  /\ UNCHANGED <<image, fileRow, qr, unacked>>

(* discardFile, with a context that outlives the request's.                *)
Discard(u) ==
  /\ upload[u] = "failed"
  /\ image' = image \ {u}
  /\ Goto(u, "done")
  /\ UNCHANGED <<fileRow, qr, unacked, stranded>>

(* The failure of the delete is only logged.                               *)
DiscardFails(u) ==
  /\ upload[u] = "failed"
  /\ stranded' = stranded \cup {u}
  /\ Goto(u, "done")
  /\ UNCHANGED <<image, fileRow, qr, unacked>>

(* The server process ends: open transactions roll back, files stay.       *)
ServerStops ==
  LET running == {u \in Upload : upload[u] \in {"stored", "failed"}} IN
    /\ running # {}
    /\ stranded' = stranded \cup running
    /\ upload' = [u \in Upload |-> IF u \in running THEN "done" ELSE upload[u]]
    /\ UNCHANGED <<image, fileRow, qr, unacked>>

Handle(u) ==
  \/ Put(u) \/ PutFails(u)
  \/ Commit(u) \/ CommitUnanswered(u) \/ Rollback(u) \/ Panics(u)
  \/ Discard(u) \/ DiscardFails(u)

-----------------------------------------------------------------------------
(* Every file row has its image on the disk, the QR code buyers are shown  *)
(* among them, unless the commit of its transaction was reported as        *)
(* failed; and every image has its row, unless its upload is under way, or *)
(* its process ended, its handler panicked or its delete failed.           *)
ImagesMatchRows ==
  /\ fileRow \subseteq image \cup unacked
  /\ qr \in fileRow
  /\ image \subseteq fileRow \cup stranded \cup {u \in Upload : upload[u] \in {"stored", "failed"}}

(* proofs.go says of SubmitProof that the stored file is deleted when the  *)
(* transaction failed: whatever is deleted has no committed row.           *)
DiscardedOnlyFailed == fileRow \subseteq image
=============================================================================
