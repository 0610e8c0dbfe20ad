-------------------------- MODULE ObjectReferences --------------------------
(***************************************************************************)
(* Messages that name objects: the part of Publish and PublishAutoSeq that *)
(* module EventLog leaves out, composed with ObjectStore.  BuildPublishBatch *)
(* of src/service/open_event_core.cpp admits an object key only if the     *)
(* snapshot has a COMMITTED record with that id and object token.          *)
(*                                                                         *)
(* Messages and object records are in one database: they share the write   *)
(* order, the failed write in doubt, and the replay at the next start.  An *)
(* object key is written as the object it stands for, the credential being *)
(* in place of the object token; a key of Objects that no record matches   *)
(* has the wrong id or the wrong token.                                    *)
(***************************************************************************)
EXTENDS ObjectStore, Sequences

CONSTANTS
  MaxMessages   \* bound: messages in the log

ASSUME MessagesAssumption == MaxMessages \in Nat

VARIABLES
  log,       \* the object keys of each message
  logDoubt   \* what a failed publication may still make of log: {} or {l}

refVars == <<log, logDoubt>>

ComposedInit == Init /\ log = <<>> /\ logDoubt = {}

(* LoadAuthorizedObject finds the object; so does BuildPublishBatch.       *)
LoadAuthorizedObject(m, o) == o \in m.committed

(* BatchGetObjectMetadata: everything or nothing.  GetObjectMetadata is    *)
(* the case of one key.                                                    *)
BatchGetObjectMetadata(m, keys) ==
  IF \A o \in keys : LoadAuthorizedObject(m, o) THEN "OK" ELSE "NOT_FOUND"

(* Faulty variant: objects that are still being written may be named.      *)
AcceptsPreparing(m, c, keys) ==
  c \in m.tokens /\ keys \subseteq m.committed \cup m.preparing

(* The checks of a publication that concern objects.                       *)
Admitted(m, c, keys) == c \in m.tokens /\ keys \subseteq m.committed

(* Publish, under the lock: refused, or the write succeeds or fails.       *)
PublishMessage(w) ==
  /\ pc[w] = "entered"
  /\ Done(w)
  /\ \E c \in Creds, keys \in SUBSET Objects \ {{}} :
       \/ /\ ~Admitted(meta, c, keys)
          /\ UNCHANGED <<inDoubt, fatal, refVars>>
       \/ fatal' = TRUE /\ UNCHANGED <<inDoubt, refVars>>  \* nothing is written
       \/ /\ Admitted(meta, c, keys)
          /\ Len(log) < MaxMessages
          /\ \/ /\ inDoubt = {}
                /\ log' = Append(log, keys)
                /\ fatal' \in {fatal, TRUE}                \* or reported failed
                /\ UNCHANGED <<inDoubt, logDoubt>>
             \/ /\ inDoubt = {}
                /\ inDoubt' = {meta} /\ logDoubt' = {Append(log, keys)}
                /\ fatal' = TRUE
                /\ UNCHANGED log
  /\ UNCHANGED <<meta, files, mode, loss, acked>>

(* The replay of the WAL settles the log with the records.                 *)
End ==
  /\ Crash \/ PowerLoss
  /\ log' \in {log} \cup logDoubt
  /\ logDoubt' = {}

ObjectStep ==
  /\ (\E w \in Workers : WorkerStep(w)) \/ DeleteToken \/ Recover
  /\ UNCHANGED refVars

ComposedNext == ObjectStep \/ End \/ \E w \in Workers : PublishMessage(w)

ComposedSpec == ComposedInit /\ [][ComposedNext]_<<vars, refVars>>

-----------------------------------------------------------------------------
(***************************************************************************)
(* Properties.                                                             *)
(***************************************************************************)
(* Types of the variables of this module; a log in doubt is the log with   *)
(* one more message, and is in doubt together with the records.            *)
RefTypeOK ==
  /\ log \in Seq(SUBSET Objects)
  /\ \A l \in logDoubt : /\ Len(l) = Len(log) + 1
                         /\ SubSeq(l, 1, Len(log)) = log
                         /\ inDoubt = {meta}

(* Every object that a message names, also a message or a record that only *)
(* a restart will bring back, is found by BatchGetObjectMetadata, whoever's *)
(* token is deleted, and has a complete file that no kill and no power     *)
(* loss takes away, while objects are written, fail and are cleaned up by  *)
(* other calls (BuildPublishBatch, WriteObject, CleanupPreparingObject,    *)
(* RecoverPreparingObjects).  The types come with it.                      *)
NamedObjectsAreDurable ==
  /\ RefTypeOK
  /\ \A l \in {log} \cup logDoubt, m \in {meta} \cup inDoubt :
       \A i \in DOMAIN l :
         /\ BatchGetObjectMetadata(m, l[i]) = "OK"
         /\ \A o \in l[i] :
              maybe[o.id] = {{"final"}} /\ data[o.id] = "full" /\ synced[o.id]

=============================================================================
