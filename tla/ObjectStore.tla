----------------------------- MODULE ObjectStore -----------------------------
(***************************************************************************)
(* WriteObject, ReadObject and the recovery of unfinished objects:         *)
(* src/service/open_event_core.cpp, src/storage/object_file_store.cpp and  *)
(* RecoverPreparingObjects of src/storage/unified_storage.cpp.             *)
(*                                                                         *)
(* An object has a metadata record in RocksDB and a file named after its   *)
(* id.  A call commits a PREPARING record, writes the file outside         *)
(* coordinator_mu_ while other calls run, and turns the record into a      *)
(* COMMITTED one.  The process may be killed, and the machine may lose     *)
(* power, between any two of these steps.                                  *)
(*                                                                         *)
(* A part that runs under coordinator_mu_ is one step here: module         *)
(* EventLog shows that only the holder of that lock reads and writes.      *)
(***************************************************************************)
EXTENDS Integers, FiniteSets

CONSTANTS
  Workers,     \* the threads that serve RPCs
  Creds,       \* the credentials of the clients, all valid at first
  MaxObject    \* bound: last object id

ASSUME ObjectBoundsAssumption == MaxObject \in Nat

VARIABLES
  meta,      \* RocksDB: next_object_id, PREPARING and COMMITTED records, tokens
  inDoubt,   \* what a failed write may still make of meta: {} or {m}
  names,     \* the directory: names[id] \subseteq {"tmp", "final"}
  maybe,     \* the states of names[id] that a power loss may leave
  data,      \* "none", "partial" or "full": the bytes of the file of id
  synced,    \* the bytes of the file of id have been fsynced
  mode,      \* "up"; "down"; "unlink", "sync", "record", "failed": a start
  fatal,     \* fatal_error_triggered_
  pc,        \* the step each worker is at
  obj,       \* the object each worker writes or reads
  loss,      \* a DATA_LOSS status was produced
  acked      \* history: the objects WriteObject has returned

storage == <<meta, inDoubt>>
files == <<names, maybe, data, synced>>
vars == <<meta, inDoubt, names, maybe, data, synced, mode, fatal, pc, obj,
          loss, acked>>

Ids == 1..MaxObject

Objects == [id: Ids, creator: Creds]

NoObject == [id |-> 0, creator |-> 0]

Init ==
  /\ meta = [next |-> 1, preparing |-> {}, committed |-> {}, tokens |-> Creds]
  /\ inDoubt = {}
  /\ names = [i \in Ids |-> {}]
  /\ maybe = [i \in Ids |-> {{}}]
  /\ data = [i \in Ids |-> "none"]
  /\ synced = [i \in Ids |-> TRUE]
  /\ mode = "up"
  /\ fatal = FALSE
  /\ pc = [w \in Workers |-> "idle"]
  /\ obj = [w \in Workers |-> NoObject]
  /\ loss = FALSE
  /\ acked = {}

(***************************************************************************)
(* Committing a batch that makes m of meta.  A failed synchronous write    *)
(* leaves the batch absent, present, or in the WAL where only the next     *)
(* open decides; RocksDB accepts no write after the last of these.         *)
(***************************************************************************)
Commit(m) == inDoubt = {} /\ meta' = m /\ UNCHANGED <<inDoubt, fatal>>

CommitFails(m) ==
  /\ fatal' = TRUE
  /\ \/ UNCHANGED storage
     \/ inDoubt = {} /\ meta' = m /\ UNCHANGED inDoubt
     \/ inDoubt = {} /\ inDoubt' = {m} /\ UNCHANGED meta

Goto(w, label) == pc' = [pc EXCEPT ![w] = label]

(* The call is over, with whatever status.                                 *)
Done(w) ==
  /\ Goto(w, "idle")
  /\ obj' = [obj EXCEPT ![w] = NoObject]

(* Faulty variant: SetNextObjectId is missing.                             *)
ForgetsNextObjectId(o) ==
  [meta EXCEPT !.preparing = meta.preparing \cup {o}]

PutPreparingObject(o) ==
  [meta EXCEPT !.preparing = meta.preparing \cup {o}, !.next = o.id + 1]

(* Faulty variant: the PREPARING record is not deleted.                    *)
KeepsPreparingRecord(o) ==
  [meta EXCEPT !.committed = meta.committed \cup {o}]

PutCommittedObject(o) ==
  [meta EXCEPT !.preparing = meta.preparing \ {o},
               !.committed = meta.committed \cup {o}]

DeletePreparingObject(O) ==
  [meta EXCEPT !.preparing = {o \in meta.preparing : o \notin O}]

(***************************************************************************)
(* A call arrives and passes EnsureAvailable and its argument checks.  It  *)
(* may go on after a fatal error that is raised while it waits.            *)
(***************************************************************************)
Enter(w) ==
  /\ mode = "up" /\ pc[w] = "idle"
  /\ ~fatal
  /\ Goto(w, "entered")
  /\ UNCHANGED <<storage, files, mode, fatal, obj, loss, acked>>

(* WriteObject, the first part under the lock.                             *)
Prepare(w) ==
  /\ pc[w] = "entered"
  /\ \E c \in Creds :
       LET o == [id |-> meta.next, creator |-> c]
       IN  \/ /\ fatal' = TRUE /\ Done(w)      \* CreateSnapshot fails
              /\ UNCHANGED storage
           \/ /\ c \notin meta.tokens
              /\ Done(w)
              /\ UNCHANGED <<storage, fatal>>
           \/ /\ c \in meta.tokens
              /\ o.id <= MaxObject
              /\ \/ /\ Commit(PutPreparingObject(o))
                    /\ Goto(w, "create")
                    /\ obj' = [obj EXCEPT ![w] = o]
                 \/ CommitFails(PutPreparingObject(o)) /\ Done(w)
  /\ UNCHANGED <<files, mode, loss, acked>>

(***************************************************************************)
(* ObjectFileStore::Write, one step per system call.  A step that fails    *)
(* goes to the clean-up; a name that already exists is StorageCorruption.  *)
(***************************************************************************)
SetNames(i, N) ==
  /\ names' = [names EXCEPT ![i] = N]
  /\ maybe' = [maybe EXCEPT ![i] = maybe[i] \cup {N}]

(* fsync of the object directory makes every entry durable.                *)
SyncDirectory ==
  /\ maybe' = [i \in Ids |-> {names[i]}]
  /\ UNCHANGED <<names, data, synced>>

Fails(w) == Goto(w, "cleanTmp") /\ UNCHANGED <<files, obj, fatal, loss>>

DataLoss(w) == fatal' = TRUE /\ loss' = TRUE /\ Done(w) /\ UNCHANGED files

FileStep(w, label) ==
  /\ pc[w] = label
  /\ UNCHANGED <<storage, mode, acked>>

CreateTemporary(w) ==
  LET i == obj[w].id
  IN  /\ FileStep(w, "create")
      /\ \/ "tmp" \in names[i] /\ DataLoss(w)
         \/ /\ "tmp" \notin names[i]
            /\ SetNames(i, names[i] \cup {"tmp"})
            /\ data' = [data EXCEPT ![i] = "partial"]
            /\ synced' = [synced EXCEPT ![i] = FALSE]
            /\ Goto(w, "write")
            /\ UNCHANGED <<obj, fatal, loss>>
         \/ Fails(w)

WriteData(w) ==
  /\ FileStep(w, "write")
  /\ \/ /\ data' = [data EXCEPT ![obj[w].id] = "full"]
        /\ Goto(w, "fsync")
        /\ UNCHANGED <<names, maybe, synced, obj, fatal, loss>>
     \/ Fails(w)

Fsync(w) ==
  /\ FileStep(w, "fsync")
  /\ \/ /\ synced' = [synced EXCEPT ![obj[w].id] = TRUE]
        /\ Goto(w, "rename") \/ Goto(w, "cleanTmp") \* close may fail
        /\ UNCHANGED <<names, maybe, data, obj, fatal, loss>>
     \/ Fails(w)

Rename(w) ==
  LET i == obj[w].id
  IN  /\ FileStep(w, "rename")
      /\ \/ "final" \in names[i] /\ DataLoss(w)
         \/ /\ "final" \notin names[i]
            /\ SetNames(i, (names[i] \ {"tmp"}) \cup {"final"})
            /\ Goto(w, "dirsync")
            /\ UNCHANGED <<data, synced, obj, fatal, loss>>
         \/ Fails(w)

(* Faulty variant: the renamed entry is not made durable.                  *)
SkipsDirectoryFsync(w) ==
  /\ FileStep(w, "dirsync")
  /\ Goto(w, "finish") /\ UNCHANGED <<files, obj, fatal, loss>>

FsyncDirectory(w) ==
  /\ FileStep(w, "dirsync")
  /\ \/ SyncDirectory /\ Goto(w, "finish") /\ UNCHANGED <<obj, fatal, loss>>
     \/ Fails(w)

(* Faulty variant: a failed commit is followed by the clean-up.            *)
CleansUpAfterCommit(w) ==
  LET o == obj[w]
  IN  /\ pc[w] = "finish"
      /\ o.creator \in meta.tokens /\ o \in meta.preparing
      /\ \/ /\ Commit(PutCommittedObject(o))
            /\ Goto(w, "reply") /\ UNCHANGED obj
         \/ /\ CommitFails(PutCommittedObject(o))
            /\ Goto(w, "cleanTmp") /\ UNCHANGED obj
      /\ UNCHANGED <<files, mode, loss, acked>>

(* Faulty variant: the token is not checked again.                         *)
SkipsSecondAuthentication(w) ==
  LET o == obj[w]
  IN  /\ pc[w] = "finish"
      /\ o \in meta.preparing
      /\ \/ /\ Commit(PutCommittedObject(o))
            /\ Goto(w, "reply") /\ UNCHANGED obj
         \/ CommitFails(PutCommittedObject(o)) /\ Done(w)
      /\ UNCHANGED <<files, mode, loss, acked>>

(***************************************************************************)
(* The second part under the lock.  The token is checked again.  Once the  *)
(* commit has been attempted its failure leaves record and file alone.     *)
(***************************************************************************)
Finish(w) ==
  LET o == obj[w]
  IN  /\ pc[w] = "finish"
      /\ \/ /\ fatal' = TRUE /\ Done(w)      \* CreateSnapshot fails
            /\ UNCHANGED <<storage, files, loss>>
         \/ /\ o.creator \notin meta.tokens
            /\ Fails(w) /\ UNCHANGED storage
         \/ /\ o.creator \in meta.tokens /\ o \notin meta.preparing
            /\ DataLoss(w) /\ UNCHANGED storage
         \/ /\ o.creator \in meta.tokens /\ o \in meta.preparing
            /\ \/ /\ Commit(PutCommittedObject(o))
                  /\ Goto(w, "reply") /\ UNCHANGED obj
               \/ CommitFails(PutCommittedObject(o)) /\ Done(w)
            /\ UNCHANGED <<files, loss>>
      /\ UNCHANGED <<mode, acked>>

(* The client receives the object id and the object token.                 *)
Reply(w) ==
  /\ pc[w] = "reply"
  /\ acked' = acked \cup {obj[w]}
  /\ Done(w)
  /\ UNCHANGED <<storage, files, mode, fatal, loss>>

(***************************************************************************)
(* CleanupPreparingObject: the two names, the directory, then the record.  *)
(* A failure on the way leaves the PREPARING record to the next start.     *)
(***************************************************************************)
CleanStep(w, label) ==
  /\ pc[w] = label
  /\ UNCHANGED <<storage, mode, fatal, loss, acked>>

GivesUp(w) == Done(w) /\ UNCHANGED files

Unlink(w, label, name, next) ==
  /\ CleanStep(w, label)
  /\ \/ /\ SetNames(obj[w].id, names[obj[w].id] \ {name})
        /\ Goto(w, next)
        /\ UNCHANGED <<data, synced, obj>>
     \/ GivesUp(w)

UnlinkTemporary(w) == Unlink(w, "cleanTmp", "tmp", "cleanFinal")

UnlinkFinal(w) == Unlink(w, "cleanFinal", "final", "cleanSync")

(* Faulty variant: the record is deleted before the names are durably gone.*)
SkipsCleanupFsync(w) ==
  /\ CleanStep(w, "cleanSync")
  /\ Goto(w, "cleanRecord") /\ UNCHANGED <<files, obj>>

CleanDirectory(w) ==
  /\ CleanStep(w, "cleanSync")
  /\ \/ SyncDirectory /\ Goto(w, "cleanRecord") /\ UNCHANGED obj
     \/ GivesUp(w)

CleanRecord(w) ==
  /\ pc[w] = "cleanRecord"
  /\ \/ Commit(DeletePreparingObject({obj[w]}))
     \/ CommitFails(DeletePreparingObject({obj[w]}))
  /\ Done(w)
  /\ UNCHANGED <<files, mode, loss, acked>>

(***************************************************************************)
(* ReadObject: the record under the lock, the file after it.               *)
(***************************************************************************)
LoadObject(w) ==
  /\ pc[w] = "entered"
  /\ \/ /\ \E o \in meta.committed :
             obj' = [obj EXCEPT ![w] = o] /\ Goto(w, "read")
        /\ UNCHANGED fatal
     \/ Done(w) /\ UNCHANGED fatal           \* no such object capability
     \/ fatal' = TRUE /\ Done(w)             \* CreateSnapshot fails
  /\ UNCHANGED <<storage, files, mode, loss, acked>>

ReadRange(w) ==
  LET i == obj[w].id
  IN  /\ FileStep(w, "read")
      /\ IF "final" \in names[i] /\ data[i] = "full"
         THEN Done(w) /\ UNCHANGED <<files, fatal, loss>>
         ELSE DataLoss(w)

(* The admin revokes a token.  Any number of these calls may have passed   *)
(* EnsureAvailable before a fatal error, so there is no guard on fatal.    *)
DeleteToken ==
  /\ mode = "up"
  /\ \E c \in meta.tokens :
       Commit([meta EXCEPT !.tokens = meta.tokens \ {c}])
         \/ CommitFails([meta EXCEPT !.tokens = meta.tokens \ {c}])
  /\ UNCHANGED <<files, mode, pc, obj, loss, acked>>

(***************************************************************************)
(* The end of the process.  What is in doubt is settled by the replay of   *)
(* the WAL.  A killed process leaves the file system as it is; a power     *)
(* loss leaves any state the directory has been in since its last fsync,   *)
(* and unsynced bytes may be missing.                                      *)
(***************************************************************************)
Stop ==
  /\ mode # "down"
  /\ mode' = "down"
  /\ fatal' = FALSE
  /\ pc' = [w \in Workers |-> "idle"]
  /\ obj' = [w \in Workers |-> NoObject]
  /\ meta' \in {meta} \cup inDoubt
  /\ inDoubt' = {}
  /\ UNCHANGED <<loss, acked>>

Crash == Stop /\ UNCHANGED files

PowerLoss ==
  /\ Stop
  /\ names' \in {n \in [Ids -> SUBSET {"tmp", "final"}] :
                   \A i \in Ids : n[i] \in maybe[i]}
  /\ maybe' = [i \in Ids |-> {names'[i]}]
  /\ data' \in {d \in [Ids -> {"none", "partial", "full"}] :
                  \A i \in Ids : \/ d[i] = data[i]
                                 \/ ~synced[i] /\ d[i] = "partial"}
  /\ synced' = [i \in Ids |-> TRUE]

(***************************************************************************)
(* OpenExisting: RecoverPreparingObjects, then the server is up.  A start  *)
(* that fails ends the process (Crash).                                    *)
(***************************************************************************)
RecoverStep(from, to) ==
  /\ mode = from
  /\ mode' = to
  /\ UNCHANGED <<pc, obj, acked>>

(* Faulty variant: PREPARING objects are not recovered.                    *)
OpensWithoutRecovery ==
  /\ RecoverStep("down", "up")
  /\ UNCHANGED <<storage, files, fatal, loss>>

(* An object that is both PREPARING and COMMITTED is corruption.           *)
Open ==
  /\ IF \E o \in meta.preparing, c \in meta.committed : o.id = c.id
     THEN RecoverStep("down", "failed") /\ loss' = TRUE
     ELSE /\ RecoverStep("down", IF meta.preparing = {} THEN "up" ELSE "unlink")
          /\ UNCHANGED loss
  /\ UNCHANGED <<storage, files, fatal>>

(* The objects in key order, for each the temporary and the final name.    *)
(* To unlink a name that is not there changes nothing, so that the loop is *)
(* done when no name is left.                                              *)
RecoverUnlink ==
  /\ RecoverStep("unlink", "unlink")
  /\ \E o \in meta.preparing :
       /\ names[o.id] # {}
       /\ \A q \in meta.preparing : names[q.id] # {} => o.id <= q.id
       /\ SetNames(o.id, IF "tmp" \in names[o.id] THEN names[o.id] \ {"tmp"}
                                                  ELSE {})
  /\ UNCHANGED <<storage, data, synced, fatal, loss>>

RecoverUnlinked ==
  /\ RecoverStep("unlink", "sync")
  /\ \A o \in meta.preparing : names[o.id] = {}
  /\ UNCHANGED <<storage, files, fatal, loss>>

RecoverSync ==
  /\ RecoverStep("sync", "record")
  /\ SyncDirectory
  /\ UNCHANGED <<storage, fatal, loss>>

RecoverRecords ==
  /\ RecoverStep("record", "up")
  /\ Commit(DeletePreparingObject(meta.preparing))
  /\ UNCHANGED <<files, loss>>

RecoverRecordsFails ==
  /\ RecoverStep("record", "failed")
  /\ CommitFails(DeletePreparingObject(meta.preparing))
  /\ UNCHANGED <<files, loss>>

Recover ==
  \/ Open \/ RecoverUnlink \/ RecoverUnlinked \/ RecoverSync
  \/ RecoverRecords \/ RecoverRecordsFails

WorkerStep(w) ==
  \/ Enter(w) \/ Prepare(w)
  \/ CreateTemporary(w) \/ WriteData(w) \/ Fsync(w) \/ Rename(w)
  \/ FsyncDirectory(w) \/ Finish(w) \/ Reply(w)
  \/ UnlinkTemporary(w) \/ UnlinkFinal(w) \/ CleanDirectory(w)
  \/ CleanRecord(w)
  \/ LoadObject(w) \/ ReadRange(w)

Next ==
  (\E w \in Workers : WorkerStep(w)) \/ DeleteToken \/ Crash \/ PowerLoss
    \/ Recover

Spec == Init /\ [][Next]_vars

(* A start goes on until it has an outcome, and main returns when it has   *)
(* failed.                                                                 *)
FairSpec ==
  Spec /\ WF_vars(Recover) /\ WF_vars(mode = "failed" /\ Crash)

-----------------------------------------------------------------------------
(***************************************************************************)
(* Properties.                                                             *)
(***************************************************************************)
Metas ==
  [next: 1..(MaxObject + 1), preparing: SUBSET Objects,
   committed: SUBSET Objects, tokens: SUBSET Creds]

(* Types of the variables.  A call is in progress only in a running server *)
(* and next_object_id is beyond every recorded object, on which WriteObject *)
(* relies though Validate does not look at it.                             *)
TypeOK ==
  /\ meta \in Metas
  /\ inDoubt \subseteq Metas
  /\ \A m \in {meta} \cup inDoubt :
       \A o \in m.preparing \cup m.committed : o.id < m.next
  /\ names \in [Ids -> SUBSET {"tmp", "final"}]
  /\ maybe \in [Ids -> SUBSET SUBSET {"tmp", "final"}]
  /\ data \in [Ids -> {"none", "partial", "full"}]
  /\ synced \in [Ids -> BOOLEAN]
  /\ mode \in {"up", "down", "unlink", "sync", "record", "failed"}
  /\ fatal \in BOOLEAN /\ loss \in BOOLEAN
  /\ obj \in [Workers -> Objects \cup {NoObject}]
  /\ \A w \in Workers : pc[w] # "idle" => mode = "up"
  /\ acked \subseteq Objects

(* A COMMITTED record, also one that a restart may still recover, has a    *)
(* complete file under its final name, and neither a kill nor a power loss *)
(* can take it away (the order of fsync, rename, directory fsync and       *)
(* commit in WriteObject).                                                 *)
CommittedIsReadable ==
  \A m \in {meta} \cup inDoubt : \A o \in m.committed :
    maybe[o.id] = {{"final"}} /\ data[o.id] = "full" /\ synced[o.id]

(* No file is ever left behind without a record that leads a later start   *)
(* to it, whatever is lost at a crash: records are prepared before the     *)
(* file exists, and deleted after its names are durably gone.              *)
NoOrphanFile ==
  \A m \in {meta} \cup inDoubt, i \in Ids :
    maybe[i] # {{}} => \E o \in m.preparing \cup m.committed : o.id = i

(* Unfinished, failed and retried calls never make the server report       *)
(* corruption: no unexpected temporary or final file, no changed PREPARING *)
(* record, no missing or truncated committed file.                         *)
NoFalseCorruption == ~loss

(* What WriteObject has returned stays committed, and no id is given to    *)
(* two objects, whether finished, failed or lost in a crash.  The types    *)
(* come with it: every id is below next_object_id, also after a replay.    *)
ObjectIdsAreUnique ==
  /\ TypeOK
  /\ acked \subseteq meta.committed
  /\ \A o, q \in meta.preparing \cup meta.committed : o.id = q.id => o = q
  /\ \A v, w \in Workers :
       /\ pc[v] \notin {"idle", "entered", "read"}
       /\ pc[w] \notin {"idle", "entered", "read"}
       /\ v # w
       => obj[v].id # obj[w].id

(* An object is committed only while the token it is written under is      *)
(* valid, though it was checked before the file was written as well, and   *)
(* also when the commit is settled by a restart.                           *)
NoCommitAfterRevocation ==
  [][\A o \in meta'.committed \ meta.committed : o.creator \in meta'.tokens]_vars

(* When a restarted server begins to serve, nothing is left of unfinished  *)
(* objects: no PREPARING record, and no file but those of committed        *)
(* objects.                                                                *)
StartsClean ==
  [][mode # "up" /\ mode' = "up" =>
       /\ meta'.preparing = {}
       /\ \A i \in Ids : (\A o \in meta'.committed : o.id # i)
                           => maybe'[i] = {{}}]_vars

(* If from some point on no process is killed and the recovery's commit    *)
(* does not fail, the server is finally up: the recovery always comes to   *)
(* its end, and no start finds records that it, and every later one,       *)
(* refuses (RecoverPreparingObjects, WriteObject).                         *)
EventuallyServes ==
  <>[][/\ mode' = "down" => mode \in {"down", "failed"}
       /\ mode' = "failed" => mode # "record"]_vars
    => <>[](mode = "up")

=============================================================================
