------------------------------ MODULE EventLog ------------------------------
(***************************************************************************)
(* The write coordinator of OpenEventCore: worker threads that serve RPCs  *)
(* against the storage of module EventStore, one at a time under           *)
(* coordinator_mu_, with storage errors, process crashes and restarts.     *)
(*                                                                         *)
(* A call goes through the steps of its handler:                           *)
(*   "idle"    no call;                                                    *)
(*   "waiting" EnsureAvailable and the argument checks have passed, the    *)
(*             worker waits for coordinator_mu_;                           *)
(*   "commit"  lock held, snapshot read, checks passed, batch built;       *)
(*   "unlock"  lock held, the status of the call is decided;               *)
(*   "reply"   lock released, HandleRpcStatus and the answer are due.      *)
(* The arguments of a call are fixed by its client; the model chooses them *)
(* at the step that first compares them with shared state.                 *)
(***************************************************************************)
EXTENDS EventStore

CONSTANTS
  Workers,          \* the threads that serve RPCs
  Ops,              \* the operations the clients of this instance call
  RecipientChoices, \* recipient sets clients publish with
  VisibilityChoices, \* visibilities clients create channels with
  kMaxUuidBatch,    \* 1024 in the code
  MaxSeq,           \* bound: last seq of the log
  MaxUuid,          \* bound: last uuid handed out
  MaxChannel        \* bound: last channel id

ASSUME BoundsAssumption ==
  /\ MaxSeq \in Nat /\ MaxUuid \in Nat /\ MaxChannel \in Nat
  /\ kMaxUuidBatch \in Nat
  /\ RecipientChoices \subseteq SUBSET Principals
  /\ VisibilityChoices \subseteq Visibilities

VARIABLES
  db,       \* the committed data, durable
  inDoubt,  \* a batch whose write failed and may still be in the WAL: {} or {b}
  up,       \* the process is running
  fatal,    \* fatal_error_triggered_
  lock,     \* the holder of coordinator_mu_: {} or {w}
  pc,       \* the step each worker is at
  batch,    \* the write batch each worker has built
  call,     \* what each worker will answer
  issued,   \* history: uuids returned by AllocateUuids
  acked,    \* history: <<uuid, seq>> pairs returned to clients
  seen,     \* history: credentials that occurred in AddToken or DeleteToken
  revoked   \* history: credentials whose DeleteToken returned OK

storage == <<db, inDoubt>>
history == <<issued, acked, seen, revoked>>
vars == <<db, inDoubt, up, fatal, lock, pc, batch, call,
          issued, acked, seen, revoked>>

Codes ==
  {"OK", "INVALID_ARGUMENT", "UNAUTHENTICATED", "PERMISSION_DENIED",
   "NOT_FOUND", "ALREADY_EXISTS", "ABORTED", "RESOURCE_EXHAUSTED",
   "CANCELLED", "INTERNAL", "UNAVAILABLE"}

(***************************************************************************)
(* What a call will tell its client: the status code; on success the uuids *)
(* it allocated, the <<uuid, seq>> pairs it reveals and the credential it  *)
(* revoked; and, for the properties, the uuid a publication tries to use   *)
(* and the credential a write is made under.                               *)
(***************************************************************************)
NoCall ==
  [code |-> "OK", uuids |-> {}, seqs |-> {}, revokes |-> {},
   tries |-> {}, cred |-> {}]

Init ==
  /\ db = InitialDb
  /\ inDoubt = {}
  /\ up = TRUE
  /\ fatal = FALSE
  /\ lock = {}
  /\ pc = [w \in Workers |-> "idle"]
  /\ batch = [w \in Workers |-> EmptyBatch]
  /\ call = [w \in Workers |-> NoCall]
  /\ issued = {}
  /\ acked = {}
  /\ seen = {}
  /\ revoked = {}

(***************************************************************************)
(* A call arrives.  EnsureAvailable and the argument checks come before    *)
(* the lock: a call they refuse leaves the state as it is.                 *)
(***************************************************************************)
EnsureAvailable == Check(~fatal, "UNAVAILABLE")

Enter(w) ==
  /\ up
  /\ pc[w] = "idle"
  /\ EnsureAvailable = "OK"
  /\ pc' = [pc EXCEPT ![w] = "waiting"]
  /\ UNCHANGED <<storage, up, fatal, lock, batch, call, history>>

(* Faulty variant: the snapshot is taken without waiting for the lock.     *)
DecidesWithoutLock(w, code, b, answer) ==
  /\ up
  /\ pc[w] = "waiting"
  /\ lock' = lock \cup {w}
  /\ IF code = "OK" /\ b # EmptyBatch
     THEN /\ pc' = [pc EXCEPT ![w] = "commit"]
          /\ batch' = [batch EXCEPT ![w] = b]
     ELSE /\ pc' = [pc EXCEPT ![w] = "unlock"]
          /\ UNCHANGED batch
  /\ call' = [call EXCEPT ![w] =
                IF code = "OK" THEN answer
                ELSE [NoCall EXCEPT !.code = code, !.tries = answer.tries]]
  /\ UNCHANGED <<storage, up, fatal, issued, acked, revoked>>

(***************************************************************************)
(* The end of the locked part that reads: the call is refused or answered  *)
(* with no write (b = EmptyBatch), or its batch is ready.  A refusal       *)
(* carries nothing but its code.                                           *)
(***************************************************************************)
Decide(w, code, b, answer) ==
  /\ up
  /\ pc[w] = "waiting"
  /\ lock = {}
  /\ lock' = {w}
  /\ IF code = "OK" /\ b # EmptyBatch
     THEN /\ pc' = [pc EXCEPT ![w] = "commit"]
          /\ batch' = [batch EXCEPT ![w] = b]
     ELSE /\ pc' = [pc EXCEPT ![w] = "unlock"]
          /\ UNCHANGED batch
  /\ call' = [call EXCEPT ![w] =
                IF code = "OK" THEN answer
                ELSE [NoCall EXCEPT !.code = code, !.tries = answer.tries]]
  /\ UNCHANGED <<storage, up, fatal, issued, acked, revoked>>

(* CreateSnapshot returns a Fatal status, which the handler passes on.     *)
SnapshotFails(w) ==
  /\ Decide(w, "UNAVAILABLE", EmptyBatch, NoCall)
  /\ UNCHANGED seen

AllocateUuids(w) ==
  \E count \in 1..kMaxUuidBatch :
    LET first == GetNextUuid(db)
    IN  /\ first + count - 1 <= MaxUuid
        /\ Decide(w, "OK", AllocateUuidsBatch(db, count),
                  [NoCall EXCEPT !.uuids = first..(first + count - 1)])
        /\ UNCHANGED seen

GetSeqByUuid(w) ==
  \E u \in 0..MaxUuid :
    LET used == u \in DOMAIN db.uuid
    IN  /\ Decide(w, Check(used, "NOT_FOUND"), EmptyBatch,
                  [NoCall EXCEPT !.seqs = IF used THEN {<<u, db.uuid[u]>>}
                                                  ELSE {}])
        /\ UNCHANGED seen

(***************************************************************************)
(* Publish and PublishAutoSeq.  An obstacle is a reason to refuse that     *)
(* does not depend on the data of this module: the deadline or a           *)
(* cancellation noticed before or after the checks, the payload size, the  *)
(* shape of the object keys, an unknown object.  The first obstacle met    *)
(* decides, so one per request is general.                                 *)
(***************************************************************************)
Obstacles == {"none", "expired", "payload", "keys", "object", "expired_late"}

PublishRequests ==
  [cred: Credentials, channel: 0..(MaxChannel + 1), uuid: 0..(MaxUuid + 1),
   recipients: RecipientChoices, obstacle: Obstacles]

Unless(r, obstacle, code) == Check(r.obstacle # obstacle, code)

(* Faulty variant: the uuid is checked after the rest.                     *)
ChecksUuidLast(d, r, seqStatus) ==
  Unless(r, "expired", "CANCELLED")
    ?? Authenticate(d, r.cred)
    ?? Unless(r, "payload", "RESOURCE_EXHAUSTED")
    ?? Unless(r, "keys", "INVALID_ARGUMENT")
    ?? seqStatus
    ?? ValidatePublishTarget(d, r.cred[1], r.channel, r.recipients)
    ?? Unless(r, "object", "NOT_FOUND")
    ?? Unless(r, "expired_late", "CANCELLED")
    ?? ValidateAvailableUuid(d, r.uuid)

(* Faulty variant: the credential checked on entry is not checked again.   *)
SkipsAuthentication(d, r, seqStatus) ==
  Unless(r, "expired", "CANCELLED")
    ?? ValidateAvailableUuid(d, r.uuid)
    ?? seqStatus
    ?? ValidatePublishTarget(d, r.cred[1], r.channel, r.recipients)

(* seqStatus is the comparison of the request's seq with max_seq + 1.      *)
PublishStatus(d, r, seqStatus) ==
  Unless(r, "expired", "CANCELLED")
    ?? Authenticate(d, r.cred)
    ?? ValidateAvailableUuid(d, r.uuid)
    ?? Unless(r, "payload", "RESOURCE_EXHAUSTED")
    ?? Unless(r, "keys", "INVALID_ARGUMENT")
    ?? seqStatus
    ?? ValidatePublishTarget(d, r.cred[1], r.channel, r.recipients)
    ?? Unless(r, "object", "NOT_FOUND")
    ?? Unless(r, "expired_late", "CANCELLED")

(* The bound conjunct ends the instance when the log is full.  It leaves   *)
(* out the refusals of a full log too; every shorter log has them.         *)
DecidePublish(w, r, s, seqStatus) ==
  /\ GetMaxSeq(db) < MaxSeq
  /\ Decide(w, PublishStatus(db, r, seqStatus),
            BuildPublishBatch(r.cred[1], r.channel, s, r.uuid, r.recipients),
            [NoCall EXCEPT !.seqs = {<<r.uuid, s>>}, !.tries = {r.uuid},
                           !.cred = {r.cred}])
  /\ UNCHANGED seen

Publish(w) ==
  \E r \in PublishRequests, s \in {GetMaxSeq(db), GetMaxSeq(db) + 1} :
    DecidePublish(w, r, s, Check(s = GetMaxSeq(db) + 1, "ABORTED"))

PublishAutoSeq(w) ==
  \E r \in PublishRequests : DecidePublish(w, r, GetMaxSeq(db) + 1, "OK")

(***************************************************************************)
(* The channel operations.  The bound conjunct keeps the log, the uuids    *)
(* and the channel ids within the instance.                                *)
(***************************************************************************)
DecideMutation(w, cred, status, b) ==
  /\ GetMaxSeq(db) < MaxSeq /\ GetNextUuid(db) <= MaxUuid
  /\ Decide(w, Authenticate(db, cred) ?? status, b,
            [NoCall EXCEPT !.cred = {cred}])
  /\ UNCHANGED seen

CreateChannel(w) ==
  \E cred \in Credentials, visibility \in VisibilityChoices,
     others \in SUBSET Principals :
    LET members == {cred[1]} \cup others
    IN  /\ GetNextChannelId(db) <= MaxChannel
        /\ Cardinality(others) <= kMaxChannelMembers
        /\ DecideMutation(
             w, cred,
             Check(Cardinality(members) <= kMaxChannelMembers,
                   "RESOURCE_EXHAUSTED"),
             CreateChannelBatch(db, [visibility |-> visibility,
                                     creator |-> cred[1],
                                     members |-> members]))

AddMember(w) ==
  \E cred \in Credentials, c \in 0..(MaxChannel + 1), q \in Principals :
    DecideMutation(w, cred, ValidateAddMember(db, cred[1], c, q),
                   AddMemberBatch(db, c, q))

(* Removing a principal that is not a member succeeds without a write.     *)
RemoveMember(w) ==
  \E cred \in Credentials, c \in 0..(MaxChannel + 1), q \in Principals :
    DecideMutation(w, cred, ValidateRemoveMember(db, cred[1], c, q),
                   IF q \in db.chan[c].members THEN RemoveMemberBatch(db, c, q)
                                               ELSE EmptyBatch)

(***************************************************************************)
(* The admin operations.  A generated token is 128 random bits: the model  *)
(* takes it to differ from every credential that occurred before.          *)
(***************************************************************************)
AddToken(w) ==
  \/ \E cred \in Credentials \ seen :
       /\ Decide(w, "OK", AddTokenBatch(cred), NoCall)
       /\ seen' = seen \cup {cred}
  \/ /\ Decide(w, "INTERNAL", EmptyBatch, NoCall)
     /\ UNCHANGED seen

DeleteToken(w) ==
  \E cred \in Credentials :
    /\ Decide(w, "OK", DeleteTokenBatch(cred),
              [NoCall EXCEPT !.revokes = {cred}])
    /\ seen' = seen \cup {cred}

Serve(w) ==
  \/ SnapshotFails(w)
  \/ "AllocateUuids" \in Ops /\ AllocateUuids(w)
  \/ "GetSeqByUuid" \in Ops /\ GetSeqByUuid(w)
  \/ "Publish" \in Ops /\ Publish(w)
  \/ "PublishAutoSeq" \in Ops /\ PublishAutoSeq(w)
  \/ "CreateChannel" \in Ops /\ CreateChannel(w)
  \/ "AddMember" \in Ops /\ AddMember(w)
  \/ "RemoveMember" \in Ops /\ RemoveMember(w)
  \/ "AddToken" \in Ops /\ AddToken(w)
  \/ "DeleteToken" \in Ops /\ DeleteToken(w)

(* Faulty variant: the lock is dropped before the handler has its result.  *)
UnlocksEarly(w) ==
  /\ pc[w] = "commit"
  /\ inDoubt = {}
  /\ db' = Apply(batch[w], db)
  /\ lock' = lock \ {w}
  /\ pc' = [pc EXCEPT ![w] = "unlock"]
  /\ batch' = [batch EXCEPT ![w] = EmptyBatch]
  /\ UNCHANGED <<inDoubt, up, fatal, call, history>>

(* Faulty variant: the status of the failed write is dropped.              *)
DropsWriteStatus(w) ==
  /\ pc[w] = "commit"
  /\ UNCHANGED storage
  /\ fatal' = TRUE
  /\ pc' = [pc EXCEPT ![w] = "unlock"]
  /\ batch' = [batch EXCEPT ![w] = EmptyBatch]
  /\ UNCHANGED <<up, lock, call, history>>

(***************************************************************************)
(* CommitBatch.  A failed synchronous write leaves the batch absent,       *)
(* present, or in the WAL where only the next open decides; RocksDB        *)
(* accepts no write after the last of these.  Every failure is fatal.      *)
(***************************************************************************)
WriteSucceeds(w) ==
  /\ pc[w] = "commit"
  /\ inDoubt = {}
  /\ db' = Apply(batch[w], db)
  /\ pc' = [pc EXCEPT ![w] = "unlock"]
  /\ batch' = [batch EXCEPT ![w] = EmptyBatch]
  /\ UNCHANGED <<inDoubt, up, fatal, lock, call, history>>

WriteFails(w) ==
  /\ pc[w] = "commit"
  /\ \/ UNCHANGED storage
     \/ inDoubt = {} /\ db' = Apply(batch[w], db) /\ UNCHANGED inDoubt
     \/ inDoubt = {} /\ inDoubt' = {batch[w]} /\ UNCHANGED db
  /\ fatal' = TRUE
  /\ pc' = [pc EXCEPT ![w] = "unlock"]
  /\ batch' = [batch EXCEPT ![w] = EmptyBatch]
  /\ call' = [call EXCEPT ![w] = [NoCall EXCEPT !.code = "UNAVAILABLE"]]
  /\ UNCHANGED <<up, lock, history>>

(* The lock_guard goes out of scope.  A refusal needs nothing more; other  *)
(* answers still have to reach HandleRpcStatus and the client.             *)
Unlock(w) ==
  /\ pc[w] = "unlock"
  /\ lock' = lock \ {w}
  /\ IF call[w].code \in {"OK", "UNAVAILABLE"}
     THEN /\ pc' = [pc EXCEPT ![w] = "reply"]
          /\ call' = [call EXCEPT ![w].tries = {}, ![w].cred = {}]
     ELSE /\ pc' = [pc EXCEPT ![w] = "idle"]
          /\ call' = [call EXCEPT ![w] = NoCall]
  /\ UNCHANGED <<storage, up, fatal, batch, history>>

(* HandleRpcStatus, then the client has its answer.                        *)
Reply(w) ==
  /\ pc[w] = "reply"
  /\ fatal' = (fatal \/ call[w].code = "UNAVAILABLE")
  /\ issued' = issued \cup call[w].uuids
  /\ acked' = acked \cup call[w].seqs
  /\ revoked' = revoked \cup call[w].revokes
  /\ pc' = [pc EXCEPT ![w] = "idle"]
  /\ call' = [call EXCEPT ![w] = NoCall]
  /\ UNCHANGED <<storage, up, lock, batch, seen>>

(***************************************************************************)
(* The process ends at any point: killed, or shut down after a fatal       *)
(* error.  Answers not yet given are lost.  A batch in doubt is settled    *)
(* when RocksDB replays its WAL.  Open validates what it finds.            *)
(***************************************************************************)
Crash ==
  /\ up
  /\ up' = FALSE
  /\ fatal' = FALSE
  /\ lock' = {}
  /\ pc' = [w \in Workers |-> "idle"]
  /\ batch' = [w \in Workers |-> EmptyBatch]
  /\ call' = [w \in Workers |-> NoCall]
  /\ \/ UNCHANGED db
     \/ \E b \in inDoubt : db' = Apply(b, db)
  /\ inDoubt' = {}
  /\ UNCHANGED history

Open ==
  /\ ~up
  /\ Validate(db)
  /\ up' = TRUE
  /\ UNCHANGED <<storage, fatal, lock, pc, batch, call, history>>

WorkerStep(w) ==
  Enter(w) \/ Serve(w) \/ WriteSucceeds(w) \/ WriteFails(w) \/ Unlock(w)
    \/ Reply(w)

Next == (\E w \in Workers : WorkerStep(w)) \/ Crash \/ Open

Spec == Init /\ [][Next]_vars

-----------------------------------------------------------------------------
(***************************************************************************)
(* Properties.                                                             *)
(***************************************************************************)
Calls ==
  [code: Codes, uuids: SUBSET Nat, seqs: SUBSET (Nat \X Nat),
   revokes: SUBSET Credentials, tries: SUBSET Nat, cred: SUBSET Credentials]

(* Types of the variables; only the holder of coordinator_mu_ is between   *)
(* its snapshot and the end of its lock_guard.                             *)
TypeOK ==
  /\ DbTypeOK(db)
  /\ up \in BOOLEAN /\ fatal \in BOOLEAN
  /\ pc \in [Workers -> {"idle", "waiting", "commit", "unlock", "reply"}]
  /\ \A w \in Workers : w \in lock <=> pc[w] \in {"commit", "unlock"}
  /\ lock \subseteq Workers
  /\ batch = [w \in Workers |-> batch[w]]
  /\ call \in [Workers -> Calls]
  /\ issued \subseteq Nat /\ acked \subseteq Nat \X Nat
  /\ seen \subseteq Credentials /\ revoked \subseteq Credentials

(* Whatever workers interleave, fail or crash, the sequence numbers of the *)
(* committed messages are exactly 0..max_seq (Publish and PublishAutoSeq,  *)
(* BuildChannelMutationBatch).                                             *)
LogIsDense == LogDense(db)

(* A uuid names at most one message, for ever, and the uuid index finds    *)
(* it: a publication retried with its uuid after an unknown outcome is     *)
(* never committed twice (ValidateAvailableUuid, PutUsedUuid).             *)
UuidNamesOneMessage == UuidIndexExact(db)

(* No reader and no restart ever meets data that the storage layer reports *)
(* as StorageCorruption (Validate, ScanMessages, GetUsedUuidSeq, GetChannel).*)
NothingReadsAsCorrupt == RecordsValid(db)

(* The system messages of a channel, replayed in order, give exactly its   *)
(* stored membership (CreateChannel, AddMember, RemoveMember).             *)
MembershipReplays == MembersMatchLog(db)

(* No channel exceeds the member limit, its creator included, whichever    *)
(* of CreateChannel and AddMember reaches it.                              *)
MembersWithinLimit ==
  \A c \in DOMAIN db.chan :
    Cardinality(db.chan[c].members) <= kMaxChannelMembers

(* Each user message was written by a principal that could write its       *)
(* channel, to recipients that were members, as of the messages before it  *)
(* in the log (CanWrite and ValidateRecipients against the snapshot).      *)
AuthorsWereAdmitted == WritersWereMembers(db)

(* A seq returned for a uuid, by PublishAutoSeq, Publish or GetSeqByUuid,  *)
(* stays the seq of that uuid through failures and restarts.               *)
AckedIsPermanent ==
  \A a \in acked : a[1] \in DOMAIN db.uuid /\ db.uuid[a[1]] = a[2]

(* No uuid is returned by two AllocateUuids calls, and the uuids returned  *)
(* to clients are never consumed by the server's own system messages.      *)
UuidsHaveOneOwner ==
  /\ \A u \in issued : u \in DOMAIN db.uuid => db.log[db.uuid[u]].principal # 0
  /\ \A w \in Workers : call[w].uuids \cap issued = {}
  /\ \A v, w \in Workers : v # w => call[v].uuids \cap call[w].uuids = {}

(* Once DeleteToken has returned OK, no write made under that credential   *)
(* can commit, not even by a call that was already waiting for the lock,   *)
(* and no restart brings the credential back.                              *)
RevokedIsShutOut ==
  /\ revoked \cap db.tokens = {}
  /\ \A w \in Workers : pc[w] = "commit" => call[w].cred \cap revoked = {}

(* What the status of a publication says about its uuid when it is decided:*)
(* OK and ALREADY_EXISTS mean the uuid names a committed message; the      *)
(* statuses that are decided after ValidateAvailableUuid mean that no      *)
(* attempt with this uuid, the present or an earlier one, is committed.    *)
StatusTellsOutcome ==
  \A w \in Workers :
    pc[w] = "unlock" =>
      \A u \in call[w].tries :
        /\ call[w].code \in {"OK", "ALREADY_EXISTS"} => u \in DOMAIN db.uuid
        /\ call[w].code \in {"ABORTED", "NOT_FOUND", "PERMISSION_DENIED",
                             "RESOURCE_EXHAUSTED"} => u \notin DOMAIN db.uuid

(* Committed messages are never changed or dropped, by any step or         *)
(* restart; a channel keeps its creator and its visibility; next_uuid      *)
(* never goes back.                                                        *)
CommittedIsImmutable == [][Extends(db, db')]_vars

(* The inductive core: coordinator_mu_ has one holder; the data is good;   *)
(* and a batch that is about to be written, or that a restart may still    *)
(* recover from the WAL, was built for exactly the data it will meet.      *)
CoordinatorInv ==
  /\ \A v, w \in lock : v = w
  /\ GoodDb(db)
  /\ \A w \in Workers : pc[w] = "commit" => GoodStep(batch[w], db)
  /\ \A b \in inDoubt : GoodStep(b, db)

=============================================================================
